----------------------------- MODULE SignalLog -----------------------------
(* The signal log (thesis/memory.py) and its clock (thesis/scheduler.py):    *)
(* scans record events idempotently, sweeps stamp what an event was worth    *)
(* once each horizon has elapsed, and a backfill at every start moves events *)
(* recorded under their scanner's name onto the family they belong to,       *)
(* merging twins.  Each is a session of its own: it reads without a lock and *)
(* commits all of its writes or none.  Sweeps run on the clock and on        *)
(* request; a start of the command line runs the backfill next to a server.  *)
EXTENDS Naturals, FiniteSets

CONSTANTS
  Fact,       \* what an event is about: family, symbol and date
  Rank,       \* the order of their dates
  Legacy,     \* facts with an event in the log from before families
  Dead,       \* facts whose symbol no download prices any more
  Last,       \* horizons are 1 .. Last, the shortest first
  Batch,      \* grade_pending's limit
  Scanner, Sweep, Clock   \* sessions; Clock is the sweep of the scheduler

ASSUME LogAssumption == Legacy \subseteq Fact /\ Last \in Nat /\ Clock \in Sweep

Horizon == 1 .. Last

\* A row: an event found by its id, a fact and how it came to the log.
Row == Fact \X {"legacy", "scan"}

VARIABLES
  rows,       \* signal_events: from the ids in the table to what they hold
  elapsed,    \* per fact: how many horizons have elapsed
  scan, sweep, fill,  \* the sessions under way
  clock,      \* the scheduler's task: "sleeping", "sweeping", "off"
  raced       \* history: a backfill merged a row that was graded meanwhile

vars == <<rows, elapsed, scan, sweep, fill, clock, raced>>
Idle == [at |-> "idle"]

Init == /\ rows = [r \in Legacy \X {"legacy"} |-> [qualified |-> FALSE, stamped |-> {}]]
        /\ elapsed = [f \in Fact |-> 0]
        /\ scan = [c \in Scanner |-> Idle] /\ sweep = [s \in Sweep |-> Idle]
        /\ fill = Idle /\ clock = "sleeping" /\ raced = FALSE

\* event_key is unique: the fact, under the scanner's name or its own family.
Holds(f, qualified) == {r \in DOMAIN rows : r[1] = f /\ rows[r].qualified = qualified}

\* A day passes and some event's next horizon has elapsed.
Elapse(f) == /\ elapsed[f] < Last /\ elapsed' = [elapsed EXCEPT ![f] = @ + 1]
             /\ UNCHANGED <<rows, scan, sweep, fill, clock, raced>>

----------------------------------------------------------------------------
(* record_events: look each row up, then insert and refresh in one commit.   *)

Scan(c) ==
  /\ scan[c].at = "idle"
  /\ \E F \in SUBSET Fact \ {{}} :
       scan' = [scan EXCEPT ![c] =
         [at |-> "read", new |-> {f \in F : Holds(f, TRUE) = {}}]]
  /\ UNCHANGED <<rows, elapsed, sweep, fill, clock, raced>>

\* Slip: a key that appeared since the lookup is not noticed at the commit.
CollidesNever(new) == FALSE

\* The batch holds a key that is there by now: it is rolled back as a whole and
\* the error logged, as it is when the same new key is in the batch twice.
Collides(new) == \E f \in new : Holds(f, TRUE) # {}
Recorded(c) ==
  LET new == scan[c].new IN
  /\ scan[c].at = "read"
  /\ \/ new # {} /\ UNCHANGED rows
     \/ /\ ~Collides(new)
        /\ rows' = [r \in DOMAIN rows \cup (new \X {"scan"}) |->
                     IF r \in DOMAIN rows THEN rows[r]
                     ELSE [qualified |-> TRUE, stamped |-> {}]]
  /\ scan' = [scan EXCEPT ![c] = Idle]
  /\ UNCHANGED <<elapsed, sweep, fill, clock, raced>>

----------------------------------------------------------------------------
(* grade_pending. *)

\* Slip: the column of the shortest horizon is asked for.
UnfinishedShort(stamped) == 1 \notin stamped

\* The oldest events without their longest horizon of which one has elapsed.
Unfinished(stamped) == Last \notin stamped
Pending == {r \in DOMAIN rows : Unfinished(rows[r].stamped) /\ elapsed[r[1]] > 0}
Earlier(q, r) == Rank[q[1]] < Rank[r[1]] \/ (q[1] = r[1] /\ q[2] # r[2] /\ q[2] = "legacy")
Oldest == {r \in Pending : Cardinality({q \in Pending : Earlier(q, r)}) < Batch}

Select(s) ==
  /\ sweep[s].at = "idle"
  /\ sweep' = [sweep EXCEPT ![s] =
       [at |-> "graded", stamps |-> [r \in Oldest |-> 1 .. elapsed[r[1]] \ rows[r].stamped]]]
  /\ UNCHANGED <<rows, elapsed, scan, fill, raced>>

\* The commit stamps what the panel prices; a row that is gone fails it.
Stamp(s, priced) ==
  LET stamps == sweep[s].stamps
      written == {r \in DOMAIN stamps : r[1] \in priced /\ stamps[r] # {}} IN
  /\ written \subseteq DOMAIN rows
  /\ rows' = [r \in DOMAIN rows |->
               IF r \in written THEN [rows[r] EXCEPT !.stamped = @ \cup stamps[r]]
                                ELSE rows[r]]

\* The sweep ends, and the clock with it if it was waiting for this one.
EndSweep(s) ==
  /\ sweep' = [sweep EXCEPT ![s] = Idle]
  /\ clock' = IF s = Clock /\ clock = "sweeping" THEN "sleeping" ELSE clock
  /\ UNCHANGED <<elapsed, scan, fill, raced>>

\* Every living symbol is in the panel ...
Grade(s) == sweep[s].at = "graded" /\ Stamp(s, Fact \ Dead) /\ EndSweep(s)
\* ... or some are missing, or too short for a horizon ...
GradeSome(s) == /\ sweep[s].at = "graded"
                /\ \E P \in SUBSET (Fact \ Dead) : Stamp(s, P)
                /\ EndSweep(s)
\* ... or the download or the commit fails.
GradeNone(s) == sweep[s].at = "graded" /\ UNCHANGED rows /\ EndSweep(s)

\* _sweep_forever: after its sleep, a sweep in a worker thread.
Wake == clock = "sleeping" /\ clock' = "sweeping" /\ Select(Clock)
\* POST /signals/grade.
ByHand(s) == s # Clock /\ Select(s) /\ UNCHANGED clock
\* stop cancels the task; the thread of a sweep under way goes on.
Stop == /\ clock # "off" /\ clock' = "off"
        /\ UNCHANGED <<rows, elapsed, scan, sweep, fill, raced>>

----------------------------------------------------------------------------
(* backfill_families. *)

Unqualified == {r \in DOMAIN rows : ~rows[r].qualified}
FillRead ==
  /\ fill.at = "idle" /\ Unqualified # {}
  /\ fill' = [at |-> "read", seen |-> [r \in Unqualified |-> rows[r].stamped],
              twins |-> {f \in Fact : Holds(f, TRUE) # {}},
              had |-> [r \in {q \in DOMAIN rows : rows[q].qualified} |-> rows[r].stamped]]
  /\ UNCHANGED <<rows, elapsed, scan, sweep, clock, raced>>

\* Slip: the duplicate is dropped with its grades.
InheritedNothing(r, own) == own

\* What the old event earned goes to its twin, which then stands alone.
Inherited(r, own) ==
  LET old == <<r[1], "legacy">> IN
  IF old \in DOMAIN fill.seen /\ r # old THEN own \cup fill.seen[old] ELSE own
FillCommit ==
  LET moved == {r \in DOMAIN fill.seen : r[1] \notin fill.twins}
      merged == DOMAIN fill.seen \ moved
      clash == \E r \in moved : Holds(r[1], TRUE) # {} \/ r \notin DOMAIN rows
  IN  /\ fill.at = "read" /\ fill' = Idle
      /\ \/ /\ clash /\ UNCHANGED <<rows, raced>>
         \/ /\ ~clash
            /\ rows' = [r \in DOMAIN rows \ merged |->
                 [qualified |-> TRUE,
                  stamped |-> IF r[1] \in fill.twins
                                THEN Inherited(r, rows[r].stamped) ELSE rows[r].stamped]]
            /\ raced' = (raced \/ \E r \in merged :
                           r \in DOMAIN rows /\ rows[r].stamped # fill.seen[r])
      /\ UNCHANGED <<elapsed, scan, sweep, clock>>

Ends(s) == Grade(s) \/ GradeSome(s) \/ GradeNone(s)

Next == \/ \E f \in Fact : Elapse(f)
        \/ \E c \in Scanner : Scan(c) \/ Recorded(c)
        \/ \E s \in Sweep : ByHand(s) \/ Ends(s)
        \/ Wake \/ Stop \/ FillRead \/ FillCommit

\* Time passes, the clock wakes, a sweep ends, and the sweeps that are made are
\* not without their prices for ever.
Fairness == /\ WF_vars(Wake) /\ WF_vars(Ends(Clock)) /\ SF_vars(Grade(Clock))
            /\ \A f \in Fact : WF_vars(Elapse(f))

Spec == Init /\ [][Next]_vars /\ Fairness

----------------------------------------------------------------------------
(* Properties. *)

\* Keys are unique, and nothing is stamped before its time.
TypeOK ==
  /\ DOMAIN rows \subseteq Row /\ clock \in {"sleeping", "sweeping", "off"}
  /\ \A f \in Fact, q \in BOOLEAN : Cardinality(Holds(f, q)) <= 1
  /\ \A r \in DOMAIN rows : rows[r].stamped \subseteq 1 .. elapsed[r[1]]
  /\ clock = "sweeping" => sweep[Clock].at = "graded"

\* "Grades earned under the old key are copied onto the survivor before the
\* duplicate is dropped": through scans, sweeps and backfills a horizon that
\* was stamped for a fact stays stamped, unless a sweep graded the old row
\* while the backfill was under way.
Earned(f) == UNION {rows[r].stamped : r \in {q \in DOMAIN rows : q[1] = f}}
StampsKept == [][\A f \in Fact : Earned(f) \subseteq Earned(f)' \/ raced']_vars

\* "An event keeps being revisited until its longest horizon is stamped": as
\* long as the clock runs and fewer events are dead than a batch takes, an
\* event of a living symbol is graded at every horizon.
Graded(f) == \E r \in DOMAIN rows : r[1] = f /\ Last \in rows[r].stamped
EventuallyGraded ==
  \A f \in Fact \ Dead :
    (\E r \in DOMAIN rows : r[1] = f) ~> (Graded(f) \/ clock = "off")
=============================================================================

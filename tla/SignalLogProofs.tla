-------------------------- MODULE SignalLogProofs ---------------------------
(***************************************************************************)
(* What is proved of the signal log.  Its sessions read without a lock and *)
(* write later; the invariant says what each of them still knows when it   *)
(* commits: a sweep, that the horizons it stamps have elapsed; a backfill, *)
(* which rows are not on their family yet, and that the twins it found are *)
(* still there.                                                            *)
(***************************************************************************)
EXTENDS SignalLog, FiniteSetTheorems, TLAPS

\* An event has at most one row under its family: the one a scan wrote and an
\* old one that was moved exclude each other.
Rows ==
    /\ DOMAIN rows \subseteq Row
    /\ \A r \in DOMAIN rows :
         /\ rows[r] \in [qualified : BOOLEAN, stamped : SUBSET Nat]
         /\ r[2] = "scan" => rows[r].qualified
    /\ \A f \in Fact :
         <<f, "scan">> \in DOMAIN rows /\ <<f, "legacy">> \in DOMAIN rows
           => ~rows[<<f, "legacy">>].qualified

\* What is stamped, or about to be, has elapsed.
Timely ==
    /\ elapsed \in [Fact -> Nat]
    /\ \A r \in DOMAIN rows : rows[r].stamped \subseteq 1 .. elapsed[r[1]]
    /\ \A s \in Sweep : sweep[s].at = "graded" =>
         \A r \in DOMAIN sweep[s].stamps :
            r \in Row /\ sweep[s].stamps[r] \subseteq 1 .. elapsed[r[1]]
    /\ fill.at = "read" =>
         \A r \in DOMAIN fill.seen : fill.seen[r] \subseteq 1 .. elapsed[r[1]]

\* What the sessions read and still hold.
Sessions ==
    /\ scan = [c \in Scanner |-> scan[c]] /\ sweep = [s \in Sweep |-> sweep[s]]
    /\ \A c \in Scanner : scan[c].at = "read" => scan[c].new \subseteq Fact
    /\ clock \in {"sleeping", "sweeping", "off"}
    /\ clock = "sweeping" => sweep[Clock].at = "graded"
    /\ fill.at = "read" =>
         /\ DOMAIN fill.seen = Unqualified
         /\ \A f \in fill.twins : Holds(f, TRUE) # {}

IInv == Rows /\ Timely /\ Sessions

----------------------------------------------------------------------------

\* Both keys of an event have at most one row.
LEMMA KeysUnique ==
    ASSUME Rows, NEW f \in Fact, NEW q \in BOOLEAN
    PROVE  Cardinality(Holds(f, q)) <= 1
<1> DEFINE H == Holds(f, q)
<1>1. H \subseteq {<<f, "legacy">>, <<f, "scan">>}
  BY DEF Holds, Rows, Row
<1>2. \E x : H \subseteq {x}
  BY <1>1 DEF Holds, Rows
<1> HIDE DEF H
<1>3. PICK x : H \subseteq {x}
  BY <1>2
<1>4. Cardinality(H) <= Cardinality({x})
  BY <1>3, FS_Singleton, FS_Subset
<1> QED
  BY <1>4, FS_Singleton DEF H

\* The log starts empty, with nobody at work.
LEMMA InitInv == Init => IInv
  BY LogAssumption DEF Init, IInv, Rows, Timely, Sessions, Row, Idle, Unqualified

----------------------------------------------------------------------------
(* The invariant is kept: a step that stamps rows, then the steps.           *)

\* A step that changes no row and no horizon keeps Rows and what is stamped.
LEMMA RowsSame ==
    ASSUME Rows, rows' = rows
    PROVE  Rows' /\ Unqualified' = Unqualified /\ \A f, q : Holds(f, q)' = Holds(f, q)
  BY DEF Rows, Unqualified, Holds

\* A step that adds stamps to rows, and none else.
LEMMA StampedRows ==
    ASSUME Rows, DOMAIN rows' = DOMAIN rows,
           \A r \in DOMAIN rows :
              /\ rows'[r] \in [qualified : BOOLEAN, stamped : SUBSET Nat]
              /\ rows'[r].qualified = rows[r].qualified
    PROVE  Rows' /\ Unqualified' = Unqualified /\ \A f, q : Holds(f, q)' = Holds(f, q)
<1>1. Rows'
  BY DEF Rows
<1>2. Unqualified' = Unqualified
  BY DEF Unqualified
<1>3. \A f, q : Holds(f, q)' = Holds(f, q)
  BY DEF Holds
<1> QED
  BY <1>1, <1>2, <1>3

\* What a sweep commits: the rows it stamps had its horizons behind them.
LEMMA StampRows ==
    ASSUME IInv, NEW s \in Sweep, sweep[s].at = "graded", NEW P, Stamp(s, P)
    PROVE  /\ DOMAIN rows' = DOMAIN rows
           /\ \A r \in DOMAIN rows :
                /\ rows'[r] \in [qualified : BOOLEAN, stamped : SUBSET Nat]
                /\ rows'[r].qualified = rows[r].qualified
                /\ rows[r].stamped \subseteq rows'[r].stamped
                /\ rows'[r].stamped \subseteq 1 .. elapsed[r[1]]
<1> DEFINE stamps == sweep[s].stamps
           written == {r \in DOMAIN stamps : r[1] \in P /\ stamps[r] # {}}
<1>1. /\ written \subseteq DOMAIN rows
      /\ rows' = [r \in DOMAIN rows |->
                   IF r \in written THEN [rows[r] EXCEPT !.stamped = @ \cup stamps[r]]
                                    ELSE rows[r]]
  BY DEF Stamp
<1>2. \A r \in written : stamps[r] \subseteq 1 .. elapsed[r[1]]
  BY DEF IInv, Timely
<1>3. \A r \in DOMAIN rows : elapsed[r[1]] \in Nat
  BY DEF IInv, Timely, Rows, Row
<1>4. \A r \in DOMAIN rows : 1 .. elapsed[r[1]] \subseteq Nat
  BY <1>3
<1> HIDE DEF stamps, written
<1>5. ASSUME NEW r \in DOMAIN rows, r \in written
      PROVE  /\ rows'[r] \in [qualified : BOOLEAN, stamped : SUBSET Nat]
             /\ rows'[r].qualified = rows[r].qualified
             /\ rows[r].stamped \subseteq rows'[r].stamped
             /\ rows'[r].stamped \subseteq 1 .. elapsed[r[1]]
  <2>1. rows[r] \in [qualified : BOOLEAN, stamped : SUBSET Nat] /\ rows[r].stamped \subseteq 1 .. elapsed[r[1]]
    BY <1>5 DEF IInv, Rows, Timely
  <2>2. rows'[r] = [rows[r] EXCEPT !.stamped = @ \cup stamps[r]]
    BY <1>1, <1>5
  <2>3. rows'[r] = [qualified |-> rows[r].qualified, stamped |-> rows[r].stamped \cup stamps[r]]
    BY <2>1, <2>2
  <2>4. stamps[r] \subseteq 1 .. elapsed[r[1]]
    BY <1>2, <1>5
  <2> QED
    BY <2>1, <2>3, <2>4, <1>4
<1>6. ASSUME NEW r \in DOMAIN rows, r \notin written
      PROVE  rows'[r] = rows[r]
  BY <1>1, <1>6
<1> QED
  BY <1>1, <1>5, <1>6 DEF IInv, Rows, Timely

\* The end of a sweep, whatever it stamped, keeps the invariant.
LEMMA SweepEnds ==
    ASSUME IInv, NEW s \in Sweep, EndSweep(s), DOMAIN rows' = DOMAIN rows,
           \A r \in DOMAIN rows :
              /\ rows'[r] \in [qualified : BOOLEAN, stamped : SUBSET Nat]
              /\ rows'[r].qualified = rows[r].qualified
              /\ rows'[r].stamped \subseteq 1 .. elapsed[r[1]]
    PROVE  IInv'
<1>1. Rows' /\ Unqualified' = Unqualified /\ \A f, q : Holds(f, q)' = Holds(f, q)
  BY StampedRows DEF IInv
<1>2. \A t \in Sweep : sweep'[t] = IF t = s THEN Idle ELSE sweep[t]
  BY DEF EndSweep, IInv, Sessions
<1>3. Timely'
  BY <1>2 DEF IInv, Timely, EndSweep, Idle
<1>4. Sessions'
  <2>1. sweep' = [t \in Sweep |-> sweep'[t]]
    BY DEF EndSweep, IInv, Sessions
  <2>2. clock' \in {"sleeping", "sweeping", "off"}
    BY DEF EndSweep, IInv, Sessions
  <2>3. clock' = "sweeping" => sweep'[Clock].at = "graded"
    BY <1>2, LogAssumption DEF EndSweep, IInv, Sessions
  <2> QED
    BY <1>1, <2>1, <2>2, <2>3 DEF IInv, Sessions, EndSweep
<1> QED
  BY <1>1, <1>3, <1>4 DEF IInv

\* A horizon elapses: what is stamped stays behind it.
LEMMA ElapseKeeps == ASSUME IInv, NEW f \in Fact, Elapse(f) PROVE IInv'
<1>1. Rows' /\ Unqualified' = Unqualified /\ \A g, q : Holds(g, q)' = Holds(g, q)
  BY RowsSame DEF IInv, Elapse
<1>2. elapsed' \in [Fact -> Nat]
  BY DEF IInv, Timely, Elapse
<1>3. \A g \in Fact : elapsed[g] <= elapsed'[g]
  BY DEF IInv, Timely, Elapse
<1>4. \A g \in Fact : 1 .. elapsed[g] \subseteq 1 .. elapsed'[g]
  BY <1>2, <1>3 DEF IInv, Timely
<1>5. \A r \in Row : r[1] \in Fact
  BY DEF Row
<1>6. fill.at = "read" => DOMAIN fill.seen \subseteq Row
  BY DEF IInv, Sessions, Rows, Unqualified
<1>7. Timely'
  BY <1>2, <1>4, <1>5, <1>6 DEF IInv, Timely, Elapse, Rows
<1>8. Sessions'
  BY <1>1 DEF IInv, Sessions, Elapse
<1> QED
  BY <1>1, <1>7, <1>8 DEF IInv

\* A scan looks up which of its events have no row.
LEMMA ScanKeeps == ASSUME IInv, NEW c \in Scanner, Scan(c) PROVE IInv'
<1>1. Rows' /\ Unqualified' = Unqualified /\ \A f, q : Holds(f, q)' = Holds(f, q)
  BY RowsSame DEF IInv, Scan
<1>2. Timely'
  BY DEF IInv, Timely, Scan
<1>3. Sessions'
  <2>1. scan' = [d \in Scanner |-> scan'[d]]
    BY DEF Scan, IInv, Sessions
  <2>2. \A d \in Scanner : scan'[d].at = "read" => scan'[d].new \subseteq Fact
    <3>1. PICK F \in SUBSET Fact : scan' = [scan EXCEPT ![c] =
            [at |-> "read", new |-> {f \in F : Holds(f, TRUE) = {}}]]
      BY DEF Scan
    <3>2. DOMAIN scan = Scanner
      BY DEF IInv, Sessions
    <3>3. scan'[c].new \subseteq Fact
      BY <3>1, <3>2
    <3>4. \A d \in Scanner : d # c => scan'[d] = scan[d]
      BY <3>1, <3>2
    <3> QED
      BY <3>3, <3>4 DEF IInv, Sessions
  <2> QED
    BY <1>1, <2>1, <2>2 DEF IInv, Sessions, Scan
<1> QED
  BY <1>1, <1>2, <1>3 DEF IInv

\* A sweep reads the rows that have a horizon to be graded.
LEMMA SelectKeeps ==
    ASSUME IInv, NEW s \in Sweep, Select(s),
           clock' = clock \/ (s = Clock /\ clock' = "sweeping")
    PROVE  IInv'
<1>1. Rows' /\ Unqualified' = Unqualified /\ \A f, q : Holds(f, q)' = Holds(f, q)
  BY RowsSame DEF IInv, Select
<1> DEFINE stamps == [r \in Oldest |-> 1 .. elapsed[r[1]] \ rows[r].stamped]
<1>2. /\ sweep'[s] = [at |-> "graded", stamps |-> stamps]
      /\ \A t \in Sweep : t # s => sweep'[t] = sweep[t]
  BY DEF Select, IInv, Sessions
<1>3. \A r \in DOMAIN stamps : r \in Row /\ stamps[r] \subseteq 1 .. elapsed[r[1]]
  BY DEF Oldest, Pending, IInv, Rows
<1> HIDE DEF stamps
<1>4. /\ sweep'[s].at = "graded"
      /\ \A r \in DOMAIN sweep'[s].stamps :
            r \in Row /\ sweep'[s].stamps[r] \subseteq 1 .. elapsed[r[1]]
  BY <1>2, <1>3
<1>5. Timely'
  BY <1>2, <1>4 DEF IInv, Timely, Select
<1>6. Sessions'
  <2>1. sweep' = [t \in Sweep |-> sweep'[t]]
    BY DEF Select, IInv, Sessions
  <2>2. clock' = "sweeping" => sweep'[Clock].at = "graded"
    BY <1>2, <1>4, LogAssumption DEF IInv, Sessions
  <2> QED
    BY <1>1, <2>1, <2>2 DEF IInv, Sessions, Select
<1> QED
  BY <1>1, <1>5, <1>6 DEF IInv

\* The backfill reads the rows of the old families.
LEMMA FillReadKeeps == ASSUME IInv, FillRead PROVE IInv'
<1>1. Rows' /\ Unqualified' = Unqualified /\ \A f, q : Holds(f, q)' = Holds(f, q)
  BY RowsSame DEF IInv, FillRead
<1>2. /\ DOMAIN fill'.seen = Unqualified
      /\ \A r \in Unqualified : fill'.seen[r] = rows[r].stamped
      /\ \A f \in fill'.twins : Holds(f, TRUE) # {}
  BY DEF FillRead
<1>3. Timely'
  BY <1>2 DEF IInv, Timely, FillRead, Unqualified
<1>4. Sessions'
  BY <1>1, <1>2 DEF IInv, Sessions, FillRead
<1> QED
  BY <1>1, <1>3, <1>4 DEF IInv

\* A batch adds rows of new keys, or nothing.
LEMMA RecordedKeeps == ASSUME IInv, NEW c \in Scanner, Recorded(c) PROVE IInv'
<1> DEFINE new == scan[c].new
<1>1. CASE rows' = rows
  <2>1. Rows' /\ Unqualified' = Unqualified /\ \A f, q : Holds(f, q)' = Holds(f, q)
    BY <1>1, RowsSame DEF IInv
  <2>2. Timely'
    BY <1>1 DEF IInv, Timely, Recorded
  <2>3. Sessions'
    BY <2>1 DEF IInv, Sessions, Recorded, Idle
  <2> QED
    BY <2>1, <2>2, <2>3 DEF IInv
<1>2. CASE /\ ~Collides(new)
           /\ rows' = [r \in DOMAIN rows \cup (new \X {"scan"}) |->
                         IF r \in DOMAIN rows THEN rows[r]
                         ELSE [qualified |-> TRUE, stamped |-> {}]]
  <2>1. new \subseteq Fact
    BY DEF Recorded, IInv, Sessions
  <2> HIDE DEF new
  <2>2. DOMAIN rows' = DOMAIN rows \cup (new \X {"scan"})
    BY <1>2
  <2>3. /\ \A r \in DOMAIN rows : rows'[r] = rows[r]
        /\ \A r \in DOMAIN rows' : r \notin DOMAIN rows =>
             r[1] \in new /\ r[2] = "scan" /\ r \in Row
             /\ rows'[r] = [qualified |-> TRUE, stamped |-> {}]
    BY <1>2, <2>1 DEF Row
  <2>4. \A f \in new : <<f, "legacy">> \in DOMAIN rows => ~rows[<<f, "legacy">>].qualified
    <3> SUFFICES ASSUME NEW f \in new, <<f, "legacy">> \in DOMAIN rows
                 PROVE  rows[<<f, "legacy">>].qualified # TRUE
      BY <2>1 DEF IInv, Rows
    <3>1. Holds(f, TRUE) = {}
      BY <1>2 DEF Collides
    <3> QED
      BY <3>1 DEF Holds
  <2>5. Rows'
    <3>1. DOMAIN rows' \subseteq Row
      BY <2>3 DEF IInv, Rows
    <3>2. \A r \in DOMAIN rows' :
            /\ rows'[r] \in [qualified : BOOLEAN, stamped : SUBSET Nat]
            /\ r[2] = "scan" => rows'[r].qualified
      <4> SUFFICES ASSUME NEW r \in DOMAIN rows'
                   PROVE  /\ rows'[r] \in [qualified : BOOLEAN, stamped : SUBSET Nat]
                          /\ r[2] = "scan" => rows'[r].qualified
        OBVIOUS
      <4>1. CASE r \in DOMAIN rows
        BY <4>1, <2>3 DEF IInv, Rows
      <4>2. CASE r \notin DOMAIN rows
        <5>1. rows'[r] = [qualified |-> TRUE, stamped |-> {}]
          BY <4>2, <2>3
        <5> QED
          BY <5>1
      <4> QED
        BY <4>1, <4>2
    <3>3. \A f \in Fact :
            <<f, "scan">> \in DOMAIN rows' /\ <<f, "legacy">> \in DOMAIN rows'
              => ~rows'[<<f, "legacy">>].qualified
      BY <2>2, <2>3, <2>4 DEF IInv, Rows
    <3> QED
      BY <3>1, <3>2, <3>3 DEF Rows
  <2>6. Unqualified' = Unqualified
    BY <2>2, <2>3 DEF Unqualified
  <2>7. \A f, q : Holds(f, q) \subseteq Holds(f, q)'
    BY <2>2, <2>3 DEF Holds
  <2>8. Timely'
    <3>1. \A r \in DOMAIN rows' : rows'[r].stamped \subseteq 1 .. elapsed[r[1]]
      BY <2>3 DEF IInv, Timely
    <3> QED
      BY <3>1 DEF IInv, Timely, Recorded
  <2>9. Sessions'
    <3>1. scan' = [d \in Scanner |-> scan'[d]] /\ \A d \in Scanner : scan'[d].at = "read" => scan'[d].new \subseteq Fact
      BY DEF IInv, Sessions, Recorded, Idle
    <3>2. UNCHANGED <<sweep, clock, fill>>
      BY DEF Recorded
    <3>3. fill.at = "read" => \A f \in fill.twins : Holds(f, TRUE)' # {}
      BY <2>7 DEF IInv, Sessions
    <3> QED
      BY <2>6, <3>1, <3>2, <3>3 DEF IInv, Sessions
  <2> QED
    BY <2>5, <2>8, <2>9 DEF IInv
<1> QED
  BY <1>1, <1>2 DEF Recorded

\* What a backfill that meets no clash commits: every row it saw on the
\* scanner's name is gone, its twin being there, or under its family, which
\* no other row is.
LEMMA Committed ==
    ASSUME IInv, FillCommit, rows' # rows
    PROVE  LET merged == {r \in DOMAIN fill.seen : r[1] \in fill.twins} IN
           /\ fill.at = "read" /\ DOMAIN fill.seen = Unqualified
           /\ \A r \in Unqualified : r[1] \notin fill.twins => Holds(r[1], TRUE) = {}
           /\ rows' = [r \in DOMAIN rows \ merged |->
                 [qualified |-> TRUE,
                  stamped |-> IF r[1] \in fill.twins
                                THEN Inherited(r, rows[r].stamped) ELSE rows[r].stamped]]
           /\ raced' = (raced \/ \E r \in merged :
                           r \in DOMAIN rows /\ rows[r].stamped # fill.seen[r])
<1> DEFINE moved == {r \in DOMAIN fill.seen : r[1] \notin fill.twins}
           merged == {r \in DOMAIN fill.seen : r[1] \in fill.twins}
<1>1. DOMAIN fill.seen \ moved = merged
  OBVIOUS
<1>2. fill.at = "read" /\ DOMAIN fill.seen = Unqualified
  BY DEF FillCommit, IInv, Sessions
<1>3. ~\E r \in moved : Holds(r[1], TRUE) # {} \/ r \notin DOMAIN rows
  BY DEF FillCommit
<1>4. \A r \in Unqualified : r[1] \notin fill.twins => Holds(r[1], TRUE) = {}
  BY <1>2, <1>3
<1>5. /\ rows' = [r \in DOMAIN rows \ (DOMAIN fill.seen \ moved) |->
                 [qualified |-> TRUE,
                  stamped |-> IF r[1] \in fill.twins
                                THEN Inherited(r, rows[r].stamped) ELSE rows[r].stamped]]
      /\ raced' = (raced \/ \E r \in DOMAIN fill.seen \ moved :
                           r \in DOMAIN rows /\ rows[r].stamped # fill.seen[r])
  <2> HIDE DEF moved
  <2> QED
    BY DEF FillCommit, moved
<1> HIDE DEF moved, merged
<1> QED
  BY <1>1, <1>2, <1>4, <1>5 DEF merged

\* A row's own stamps are kept, and what it takes over has elapsed.
LEMMA Inherits ==
    ASSUME IInv, fill.at = "read", NEW r \in DOMAIN rows
    PROVE  /\ rows[r].stamped \subseteq Inherited(r, rows[r].stamped)
           /\ Inherited(r, rows[r].stamped) \subseteq 1 .. elapsed[r[1]]
<1>1. <<r[1], "legacy">>[1] = r[1]
  OBVIOUS
<1>2. rows[r].stamped \subseteq 1 .. elapsed[r[1]]
  BY DEF IInv, Timely
<1>3. \A q \in DOMAIN fill.seen : fill.seen[q] \subseteq 1 .. elapsed[q[1]]
  BY DEF IInv, Timely
<1> QED
  BY <1>1, <1>2, <1>3 DEF Inherited

\* The backfill's commit renames rows and merges those it would double.
LEMMA FillCommitKeeps == ASSUME IInv, FillCommit PROVE IInv'
<1>1. CASE rows' = rows
  <2>1. Rows' /\ Unqualified' = Unqualified /\ \A f, q : Holds(f, q)' = Holds(f, q)
    BY <1>1, RowsSame DEF IInv
  <2>2. fill' = Idle /\ UNCHANGED <<elapsed, scan, sweep, clock>>
    BY DEF FillCommit
  <2>3. fill'.at # "read"
    BY <2>2 DEF Idle
  <2>4. Timely' /\ Sessions'
    BY <1>1, <2>2, <2>3 DEF IInv, Timely, Sessions
  <2> QED
    BY <2>1, <2>4 DEF IInv
<1>2. CASE rows' # rows
  <2> DEFINE merged == {r \in DOMAIN fill.seen : r[1] \in fill.twins}
             stamps(r) == IF r[1] \in fill.twins
                            THEN Inherited(r, rows[r].stamped) ELSE rows[r].stamped
  <2>1. /\ fill.at = "read" /\ DOMAIN fill.seen = Unqualified
        /\ \A r \in Unqualified : r[1] \notin fill.twins => Holds(r[1], TRUE) = {}
        /\ rows' = [r \in DOMAIN rows \ merged |-> [qualified |-> TRUE, stamped |-> stamps(r)]]
    BY <1>2, Committed
  <2>2. \A r \in DOMAIN rows : stamps(r) \subseteq 1 .. elapsed[r[1]]
    BY <2>1, Inherits DEF IInv, Timely
  <2>3. \A r \in DOMAIN rows : r \in Row /\ elapsed[r[1]] \in Nat
    BY DEF IInv, Timely, Rows, Row
  <2>4. \A r \in DOMAIN rows : stamps(r) \subseteq Nat
    BY <2>2, <2>3
  <2> HIDE DEF stamps
  <2>5. /\ DOMAIN rows' = DOMAIN rows \ merged
        /\ \A r \in DOMAIN rows' : rows'[r].qualified = TRUE /\ rows'[r].stamped = stamps(r)
        /\ \A r \in DOMAIN rows' : rows'[r] \in [qualified : BOOLEAN, stamped : SUBSET Nat]
    BY <2>1, <2>4
  <2>6. ASSUME NEW f \in Fact, <<f, "scan">> \in DOMAIN rows', <<f, "legacy">> \in DOMAIN rows'
        PROVE  FALSE
    <3>1. <<f, "scan">> \in Holds(f, TRUE)
      BY <2>5, <2>6 DEF Holds, IInv, Rows
    <3>2. <<f, "legacy">> \in Unqualified
      BY <2>5, <2>6 DEF IInv, Rows, Unqualified
    <3>3. f \notin fill.twins
      BY <2>1, <2>5, <2>6, <3>2
    <3> QED
      BY <2>1, <3>1, <3>2, <3>3
  <2>7. Rows'
    BY <2>5, <2>6 DEF IInv, Rows
  <2>8. fill' = Idle /\ UNCHANGED <<elapsed, scan, sweep, clock>>
    BY DEF FillCommit
  <2>9. fill'.at # "read"
    BY <2>8 DEF Idle
  <2>10. Timely' /\ Sessions'
    BY <2>2, <2>5, <2>8, <2>9 DEF IInv, Timely, Sessions
  <2> QED
    BY <2>7, <2>10 DEF IInv
<1> QED
  BY <1>1, <1>2

\* Every step keeps the invariant.
LEMMA NextKeeps == IInv /\ [Next]_vars => IInv'
<1> SUFFICES ASSUME IInv, [Next]_vars PROVE IInv'
  OBVIOUS
<1>1. CASE \E f \in Fact : Elapse(f)
  BY <1>1, ElapseKeeps
<1>2. CASE \E c \in Scanner : Scan(c) \/ Recorded(c)
  BY <1>2, ScanKeeps, RecordedKeeps
<1>3. ASSUME NEW s \in Sweep, ByHand(s) PROVE IInv'
  BY <1>3, SelectKeeps DEF ByHand
<1>4. ASSUME NEW s \in Sweep, Ends(s) PROVE IInv'
  <2>1. EndSweep(s)
    BY <1>4 DEF Ends, Grade, GradeSome, GradeNone
  <2>2. CASE rows' = rows
    BY <2>1, <2>2, SweepEnds DEF IInv, Rows, Timely
  <2>3. CASE rows' # rows
    <3>1. PICK P : Stamp(s, P) /\ sweep[s].at = "graded"
      BY <1>4, <2>3 DEF Ends, Grade, GradeSome, GradeNone
    <3> QED
      BY <2>1, <3>1, StampRows, SweepEnds
  <2> QED
    BY <2>2, <2>3
<1>5. CASE Wake
  BY <1>5, SelectKeeps, LogAssumption DEF Wake
<1>6. CASE Stop
  BY <1>6, RowsSame DEF Stop, IInv, Timely, Sessions
<1>7. CASE FillRead \/ FillCommit
  BY <1>7, FillReadKeeps, FillCommitKeeps
<1>8. CASE UNCHANGED vars
  BY <1>8, RowsSame DEF vars, IInv, Timely, Sessions
<1> QED
  BY <1>1, <1>2, <1>3, <1>4, <1>5, <1>6, <1>7, <1>8 DEF Next

\* The sessions never lose what the log rests on.
THEOREM Invariance == Spec => []IInv
  BY InitInv, NextKeeps, PTL DEF Spec

----------------------------------------------------------------------------
(* The results. *)

\* The log's type invariant: an event has at most one row under its family and
\* one under its scanner's name, nothing is stamped before its horizon has
\* elapsed, and the clock waits for a sweep that is under way.
THEOREM TypeCorrect == Spec => []TypeOK
<1>1. IInv => TypeOK
  <2> SUFFICES ASSUME IInv PROVE TypeOK
    OBVIOUS
  <2>1. \A f \in Fact, q \in BOOLEAN : Cardinality(Holds(f, q)) <= 1
    BY KeysUnique DEF IInv
  <2> QED
    BY <2>1 DEF TypeOK, IInv, Rows, Timely, Sessions
<1> QED
  BY <1>1, Invariance, PTL

\* A step in which every row that earned a horizon has an heir keeps it earned.
LEMMA HeirsKeep ==
    ASSUME NEW f, \A r \in DOMAIN rows : r[1] = f =>
             \E q \in DOMAIN rows' : q[1] = f /\ rows[r].stamped \subseteq rows'[q].stamped
    PROVE  Earned(f) \subseteq Earned(f)'
  BY DEF Earned

\* A backfill hands on what each row had when it was read, and raced says when
\* that was not what it has by now.
LEMMA FillHandsOn ==
    ASSUME IInv, FillCommit, rows' # rows, ~raced', NEW r \in DOMAIN rows
    PROVE  \E q \in DOMAIN rows' : q[1] = r[1] /\ rows[r].stamped \subseteq rows'[q].stamped
<1> DEFINE merged == {q \in DOMAIN fill.seen : q[1] \in fill.twins}
           stamps(q) == IF q[1] \in fill.twins
                          THEN Inherited(q, rows[q].stamped) ELSE rows[q].stamped
<1>1. /\ fill.at = "read" /\ DOMAIN fill.seen = Unqualified
      /\ rows' = [q \in DOMAIN rows \ merged |-> [qualified |-> TRUE, stamped |-> stamps(q)]]
      /\ raced' = (raced \/ \E q \in merged : q \in DOMAIN rows /\ rows[q].stamped # fill.seen[q])
  BY Committed
<1>2. \A q \in DOMAIN rows : rows[q].stamped \subseteq stamps(q)
  BY <1>1, Inherits
<1>3. /\ DOMAIN rows' = DOMAIN rows \ merged
      /\ \A q \in DOMAIN rows' : rows'[q].stamped = stamps(q)
  <2> HIDE DEF stamps
  <2> QED
    BY <1>1
<1>4. CASE r \notin merged
  <2> HIDE DEF stamps, merged
  <2> QED
    BY <1>2, <1>3, <1>4
<1>5. CASE r \in merged
  <2>1. rows[r].stamped = fill.seen[r]
    BY <1>1, <1>5
  <2>2. r \in Unqualified /\ r[1] \in fill.twins
    BY <1>1, <1>5
  <2>3. r = <<r[1], "legacy">> /\ r[1] \in Fact
    BY <2>2 DEF Unqualified, IInv, Rows, Row
  <2>4. PICK q \in Holds(r[1], TRUE) : TRUE
    BY <1>1, <2>2 DEF IInv, Sessions
  <2>5. q \in DOMAIN rows /\ q[1] = r[1] /\ q \notin Unqualified /\ q # r
    BY <2>2, <2>4 DEF Holds, Unqualified
  <2>6. stamps(q) = rows[q].stamped \cup fill.seen[r]
    BY <1>1, <2>2, <2>3, <2>5 DEF Inherited
  <2> HIDE DEF stamps
  <2>7. q \in DOMAIN rows' /\ rows'[q].stamped = stamps(q)
    BY <1>1, <1>3, <2>5
  <2> QED
    BY <2>1, <2>5, <2>6, <2>7
<1> QED
  BY <1>4, <1>5

\* "Grades earned under the old key are copied onto the survivor before the
\* duplicate is dropped": of however many sessions, none loses a horizon that
\* was stamped, but a backfill that a sweep of the old row overtook.
THEOREM GradesAreKept == Spec => StampsKept
<1>1. ASSUME IInv, [Next]_vars, NEW f \in Fact, ~raced'
      PROVE  Earned(f) \subseteq Earned(f)'
  <2>1. CASE rows' = rows
    BY <2>1 DEF Earned
  <2>2. CASE rows' # rows
    <3>1. ASSUME NEW s \in Sweep, Ends(s) PROVE Earned(f) \subseteq Earned(f)'
      <4>1. PICK P : Stamp(s, P) /\ sweep[s].at = "graded"
        BY <2>2, <3>1 DEF Ends, Grade, GradeSome, GradeNone
      <4>2. DOMAIN rows' = DOMAIN rows /\ \A r \in DOMAIN rows : rows[r].stamped \subseteq rows'[r].stamped
        BY <1>1, <4>1, StampRows
      <4> QED
        BY <4>2, HeirsKeep
    <3>2. ASSUME NEW c \in Scanner, Recorded(c) PROVE Earned(f) \subseteq Earned(f)'
      <4>1. DOMAIN rows \subseteq DOMAIN rows' /\ \A r \in DOMAIN rows : rows'[r] = rows[r]
        BY <2>2, <3>2 DEF Recorded
      <4> QED
        BY <4>1, HeirsKeep
    <3>3. CASE FillCommit
      BY <1>1, <2>2, <3>3, FillHandsOn, HeirsKeep
    <3> QED
      BY <1>1, <2>2, <3>1, <3>2, <3>3
      DEF Next, vars, Elapse, Scan, ByHand, Select, Wake, Stop, FillRead
  <2> QED
    BY <2>1, <2>2
<1>2. IInv /\ [Next]_vars => [\A f \in Fact : Earned(f) \subseteq Earned(f)' \/ raced']_vars
  BY <1>1
<1> QED
  BY <1>2, Invariance, PTL DEF Spec, StampsKept
=============================================================================

---------------------------- MODULE PointInTime ----------------------------
(* Dated research data on one symbol (backtest/multisource_research.py):     *)
(* snapshots that are archived on the day they are taken, and events with a  *)
(* date of their own.  Panels are built from them anew for every study, over *)
(* the sessions there are by then; the numbers of a feature stand for it.    *)
EXTENDS Integers, FiniteSets, FiniteSetsExt

CONSTANTS
  LastDay, Calendars,  \* days 1 .. LastDay, and the sets of days that are sessions
  Values, Missing,     \* of a feature, and a snapshot without it
  Scores,              \* of an event
  Limit,               \* the sessions a snapshot is carried on: stale_limits
  MaxAge               \* max_days of _decay_events

VARIABLES
  sessions, day,
  archive,   \* the snapshot per day, where one was taken
  scored,    \* events: the sum of their scores per day that had one
  was        \* history: what the panels showed at a session when its day was over

vars == <<sessions, day, archive, scored, was>>

Nothing == [value |-> Missing, age |-> 0]
Init == /\ sessions \in Calendars /\ day = 1
        /\ archive = [d \in {} |-> 0] /\ scored = [d \in {} |-> 0] /\ was = [d \in {} |-> Nothing]

Index == {s \in sessions : s <= day}

----------------------------------------------------------------------------
(* _load_archived_panels. *)

Usable == {d \in DOMAIN archive :
             archive[d] # Missing /\ \E a, b \in Index : a <= d /\ d <= b}
\* Slip: a snapshot is shown from the last session before it.
SurfacesEarly(d) == Max({s \in Index : s <= d})
\* The first session on or after the day it was taken.
Surfaces(d) == Min({s \in Index : s >= d})

\* Slip: it is carried on for ever.
CarriedForever(from, s) == TRUE
Carried(from, s) == Cardinality({t \in Index : from < t /\ t <= s}) <= Limit

\* The newest of what surfaces on a session is kept, and filled forward.
Archived(s) ==
  LET known == {d \in Usable : Surfaces(d) <= s}
  IN IF known = {} \/ ~Carried(Surfaces(Max(known)), s) THEN Missing ELSE archive[Max(known)]

----------------------------------------------------------------------------
(* _event_panels and _decay_events. *)

\* Slip: an event is known on the session of its date.
NextSessionSame(d) == {s \in Index : s >= d}
\* The sessions after its date.
NextSession(d) == {s \in Index : s > d}

Raw(s) == SumFunctionOnSet(scored,
            {d \in DOMAIN scored : NextSession(d) # {} /\ s = Min(NextSession(d))})

\* The loop over the bars: a new score starts again from age 0, where scores
\* that cancel out leave the older one.
Decayed(s) ==
  LET loud == {t \in Index : t <= s /\ Raw(t) # 0}
      age == Cardinality({t \in Index : Max(loud) < t /\ t <= s})
  IN IF loud = {} \/ age > MaxAge THEN Nothing ELSE [value |-> Raw(Max(loud)), age |-> age]

Shown(s) == [archived |-> Archived(s), event |-> Decayed(s)]

----------------------------------------------------------------------------

\* archive_current_snapshots: the snapshot of the day, over an earlier one.
Capture ==
  /\ \E v \in Values \cup {Missing} :
       archive' = [d \in DOMAIN archive \cup {day} |-> IF d = day THEN v ELSE archive[d]]
  /\ UNCHANGED <<sessions, day, scored, was>>

\* Something happens, and the provider dates it today.
Event ==
  /\ day \notin DOMAIN scored
  /\ \E n \in Scores : scored' = [d \in DOMAIN scored \cup {day} |-> IF d = day THEN n ELSE scored[d]]
  /\ UNCHANGED <<sessions, day, archive, was>>

NextDay ==
  /\ day < LastDay /\ day' = day + 1
  /\ was' = [d \in Index |-> IF d = day THEN Shown(day) ELSE was[d]]
  /\ UNCHANGED <<sessions, archive, scored>>

Next == Capture \/ Event \/ NextDay
Spec == Init /\ [][Next]_vars

----------------------------------------------------------------------------
(* Properties. *)

\* History is kept for the sessions that are over.
TypeOK == DOMAIN was = {s \in sessions : s < day} /\ DOMAIN archive \cup DOMAIN scored \subseteq 1 .. day

\* "Research code may forward-fill them only from as_of_date onward, never into
\* history before the platform observed them": what a session shows is, for
\* good, what it showed when its day was over; nothing shown is older than its
\* limit allows, an event is never shown on its own day, and what was taken on
\* a day without a session is shown on the next.
PastStands ==
  /\ \A s \in DOMAIN was : Shown(s) = was[s]
  /\ \A s \in Index :
       LET known == {d \in DOMAIN archive : archive[d] # Missing /\ d <= s /\ Min(Index) <= d}
       IN Archived(s) = IF known = {} \/ Cardinality({t \in Index : Max(known) <= t /\ t <= s}) > Limit + 1
                        THEN Missing ELSE archive[Max(known)]
  /\ \A s \in Index : Decayed(s) # Nothing =>
       \E d \in DOMAIN scored : d < s /\ Cardinality({t \in Index : d < t /\ t <= s}) <= MaxAge + 1
=============================================================================

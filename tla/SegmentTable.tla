---------------------------- MODULE SegmentTable ----------------------------
(* _resolve (providers/segments.py): a filer tags two levels of one axis -   *)
(* regions and countries, say - and the members of a period add up to more   *)
(* than its revenue.  First the tables of the filing are asked which members *)
(* belong together; what they cannot settle, arithmetic does.  A member      *)
(* stands for the parts of the revenue that are in it.                       *)
EXTENDS Integers, FiniteSets, FiniteSetsExt

CONSTANTS
  Part, Worth,    \* the finest split of the revenue, and what each is worth
  Member, Parts,  \* what the filer may tag, and the parts that are in it
  Tables,         \* the choices of tables of a filing: sets of sets of members
  Tolerance,      \* revenue may be missed by 1 / Tolerance of it
  MaxMembers      \* _ROLLUP_MAX_MEMBERS

VARIABLES
  tagged,         \* the members of a period
  tables,         \* the filing's tables
  known,          \* the period's revenue is known
  kept, at        \* what is kept so far, and where _resolve is

vars == <<tagged, tables, known, kept, at>>

Total == MapThenSumSet(LAMBDA p : Worth[p], Part)
Value(m) == MapThenSumSet(LAMBDA p : Worth[p], Parts[m])
Sum(S) == MapThenSumSet(Value, S)
Over(S) == Tolerance * (Sum(S) - Total) > Total

Init == /\ tagged \in SUBSET Member \ {{}} /\ tables \in Tables /\ known \in BOOLEAN
        /\ kept = tagged /\ at = "start"

----------------------------------------------------------------------------
(* _choose_table. *)

Candidates == {t \in {table \cap tagged : table \in tables} : Cardinality(t) > 1}
Misses(t) == IF Sum(t) > Total THEN Sum(t) - Total ELSE Total - Sum(t)
Complete(t) == Tolerance * Misses(t) <= Total

\* Slip: the finer split first.
BetterFiner(t, o) ==
  \/ Cardinality(t) > Cardinality(o)
  \/ Cardinality(t) = Cardinality(o) /\ Misses(t) <= Misses(o)
\* "ranked on adding up to revenue first and on being the finer split second".
Better(t, o) ==
  \/ Complete(t) /\ ~Complete(o)
  \/ /\ Complete(t) <=> Complete(o)
     /\ \/ Cardinality(t) > Cardinality(o)
        \/ Cardinality(t) = Cardinality(o) /\ Misses(t) <= Misses(o)
Best == {t \in Candidates : \A o \in Candidates : Better(t, o)}

\* The best table is taken unless it over-counts itself.
ChooseTable ==
  /\ at = "start" /\ known /\ Over(tagged)
  /\ \/ \E t \in Best : kept' = IF Over(t) THEN tagged ELSE t
     \/ Candidates = {} /\ kept' = tagged
  /\ at' = "rollups"
  /\ UNCHANGED <<tagged, tables, known>>

\* "A breakdown that adds up is left exactly as filed."
LeaveAsFiled ==
  /\ at = "start" /\ ~(known /\ Over(tagged)) /\ at' = "done"
  /\ UNCHANGED <<tagged, tables, known, kept>>

----------------------------------------------------------------------------
(* _drop_rollups. *)

\* Two or more of the others add up to it; those as large as it is, and
\* eliminations, do not count.  The search would give up past _ROLLUP_MAX_SUMS
\* (200 000) sums, but _ROLLUP_MAX_MEMBERS (18) leaves 17 others, which have no
\* more than 131 072.
Rollups == {m \in kept : Value(m) > 0 /\
              \E S \in SUBSET {o \in kept \ {m} : 0 < Value(o) /\ Value(o) < Value(m)} :
                Sum(S) = Value(m)}

\* Slip: one roll-up is dropped at most.
SearchesOnce == Cardinality(kept) > 2 /\ Over(kept) /\ kept = tagged
Searches == Cardinality(kept) > 2 /\ Over(kept) /\ Cardinality(tagged) <= MaxMembers

\* The largest first.
DropRollup ==
  /\ at = "rollups" /\ Searches
  /\ \E m \in Rollups : /\ \A o \in Rollups : Value(o) <= Value(m)
                        /\ kept' = kept \ {m}
  /\ UNCHANGED <<tagged, tables, known, at>>
Done == /\ at = "rollups" /\ (~Searches \/ Rollups = {})
        /\ at' = "done"
        /\ UNCHANGED <<tagged, tables, known, kept>>

Next == ChooseTable \/ LeaveAsFiled \/ DropRollup \/ Done
Spec == Init /\ [][Next]_vars

----------------------------------------------------------------------------
(* Properties. *)

\* What is kept was tagged.
TypeOK == kept \subseteq tagged /\ at \in {"start", "rollups", "done"}

\* "kept side by side the group sums to twice revenue": where the whole split
\* is tagged, whatever is tagged above it, each part of the revenue is in
\* exactly one row, up to what the tolerance cannot see.  Not so if there is no
\* revenue to compare with, if more is tagged than is searched, or if no table
\* adds up and one that covers only a part is taken for the whole.  It speaks of
\* parts none of which add up to another by chance, as those of MCPartWorth,
\* powers of four: the code cannot tell such a sum from a roll-up.
Split == {m \in tagged : Cardinality(Parts[m]) = 1}
Partial == (\A t \in Candidates : ~Complete(t)) /\ (\E t \in Candidates : ~Over(t))
EachPartOnce ==
  (/\ at = "done" /\ known
   /\ UNION {Parts[m] : m \in Split} = Part
   /\ Cardinality(tagged) <= MaxMembers /\ ~Partial)
  => \A p \in Part : Tolerance * Worth[p] > Total
                       => Cardinality({m \in kept : p \in Parts[m]}) = 1
=============================================================================

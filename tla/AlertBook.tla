------------------------------ MODULE AlertBook ------------------------------
(* The alerts of one user on one symbol (routers/user.py): rows that are     *)
(* edited at any time, and evaluations that load the active ones, ask for a  *)
(* quote, and commit what they found.  An evaluation writes the columns it   *)
(* set, from what it loaded.  The conditions are all price_above: the others *)
(* differ in the side of a comparison.                                       *)
EXTENDS Naturals, FiniteSets, Functions

CONSTANTS
  Alert, Request,
  Prices,        \* of the symbol, and the thresholds
  MaxEvals       \* bound: evaluations begun

VARIABLES
  row,        \* the alerts there are: threshold, active, trigger_count
  eval,       \* per request: the rows it loaded and, once quoted, what it found
  evals,      \* evaluations begun
  told,       \* history: per alert number, the triggers that were reported
  overlapped  \* history: two evaluations at once, or a number given again under one

vars == <<row, eval, evals, told, overlapped>>
Out == [at |-> "out"]

Init == /\ row = [a \in {} |-> 0] /\ eval = [r \in Request |-> Out] /\ evals = 0
        /\ told = [a \in {} |-> 0] /\ overlapped = FALSE

\* create_alert.  SQLite numbers a row one above the greatest there is, so the
\* number of a deleted one may come again.
Create(a) ==
  /\ a \notin DOMAIN row /\ \A b \in DOMAIN row : b < a
  /\ told' = [b \in DOMAIN told \cup {a} |-> IF b = a THEN 0 ELSE told[b]]
  /\ overlapped' = (overlapped \/ \E r \in Request : eval[r] # Out /\ a \in DOMAIN eval[r].row)
  /\ \E t \in Prices : row' = [b \in DOMAIN row \cup {a} |->
       IF b = a THEN [threshold |-> t, active |-> TRUE, count |-> 0] ELSE row[b]]
  /\ UNCHANGED <<eval, evals>>

\* update_alert: the threshold, or whether it is active.
Update(a) ==
  /\ a \in DOMAIN row
  /\ \E t \in Prices, on \in BOOLEAN :
       row' = [row EXCEPT ![a].threshold = t, ![a].active = on]
  /\ UNCHANGED <<eval, evals, told, overlapped>>

Delete(a) == /\ a \in DOMAIN row /\ row' = Restrict(row, DOMAIN row \ {a})
             /\ UNCHANGED <<eval, evals, told, overlapped>>

----------------------------------------------------------------------------
(* evaluate_alerts. *)

\* Slip: the inactive ones are checked too.
ChosenAll == DOMAIN row
Chosen == {a \in DOMAIN row : row[a].active}
Load(r) ==
  /\ eval[r] = Out /\ evals < MaxEvals /\ evals' = evals + 1 /\ Chosen # {}
  /\ eval' = [eval EXCEPT ![r] = [at |-> "loaded", row |-> Restrict(row, Chosen)]]
  /\ overlapped' = (overlapped \/ \E q \in Request : eval[q] # Out)
  /\ UNCHANGED <<row, told>>

\* The quote, if the provider answers: without one nothing is triggered.
Quote(r) ==
  /\ eval[r].at = "loaded"
  /\ \E hit \in {{a \in DOMAIN eval[r].row : p > eval[r].row[a].threshold} : p \in Prices} \cup {{}} :
       eval' = [eval EXCEPT ![r] = [at |-> "quoted", row |-> eval[r].row, hit |-> hit]]
  /\ UNCHANGED <<row, evals, told, overlapped>>

Counted(e, a) == e.row[a].count + IF a \in e.hit THEN 1 ELSE 0
\* Slip: the row is written as it was loaded.
WrittenWhole(e, a) == [e.row[a] EXCEPT !.count = Counted(e, a)]
\* The columns the evaluation set; a count only where it was raised.
Written(e, a) == IF a \in e.hit THEN [row[a] EXCEPT !.count = Counted(e, a)] ELSE row[a]

\* All rows are written, or none where one of them is gone.
Commit(r) ==
  LET e == eval[r] IN
  /\ e.at = "quoted" /\ DOMAIN e.row \subseteq DOMAIN row
  /\ row' = [a \in DOMAIN row |-> IF a \in DOMAIN e.row
               THEN Written(e, a) ELSE row[a]]
  /\ told' = [a \in DOMAIN told |-> IF a \in e.hit THEN told[a] + 1 ELSE told[a]]
  /\ eval' = [eval EXCEPT ![r] = Out]
  /\ UNCHANGED <<evals, overlapped>>
Fail(r) == /\ eval[r].at = "quoted" /\ ~DOMAIN eval[r].row \subseteq DOMAIN row
           /\ eval' = [eval EXCEPT ![r] = Out]
           /\ UNCHANGED <<row, evals, told, overlapped>>

Next == \/ \E a \in Alert : Create(a) \/ Update(a) \/ Delete(a)
        \/ \E r \in Request : Load(r) \/ Quote(r) \/ Commit(r) \/ Fail(r)
Spec == Init /\ [][Next]_vars

----------------------------------------------------------------------------
(* Properties. *)

\* The rows are of the alerts, and an evaluation holds rows that were active.
TypeOK == /\ DOMAIN row \subseteq Alert
          /\ \A r \in Request : eval[r] # Out => \A a \in DOMAIN eval[r].row : eval[r].row[a].active

\* trigger_count says how often a response named the alert as triggered -
\* unless evaluations overlapped, when the later commit counts from what it had
\* loaded, or an alert was replaced under one; and nothing an evaluation does
\* sets back what was edited meanwhile.
TriggerCounted ==
  /\ \A a \in DOMAIN row' : overlapped' \/ row'[a].count = told'[a]
  /\ (\E r \in Request : eval[r].at = "quoted" /\ eval'[r] = Out) =>
       \A a \in DOMAIN row : row'[a].threshold = row[a].threshold
                           /\ row'[a].active = row[a].active
TriggersCounted == [][TriggerCounted]_vars
=============================================================================

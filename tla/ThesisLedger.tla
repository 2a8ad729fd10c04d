---------------------------- MODULE ThesisLedger ----------------------------
(* One thesis with its falsifiers (thesis/spine.py, routers/thesis.py).  An  *)
(* evaluation loads the thesis and its checks, asks the providers for each   *)
(* check, and commits the attributes that differ from what it loaded.        *)
(* Requests run in threads; everything else that touches a thesis is one     *)
(* short transaction.  closed_at, which follows the status, and the event of *)
(* the thesis in the signal log, which nothing here reads, are left out.     *)
EXTENDS Naturals

CONSTANTS
  Request,    \* concurrent evaluations
  CheckNo,    \* 1 .. the number of checks ever made: a bound
  MaxLoads    \* bound: evaluations begun

VARIABLES
  status,     \* theses.status
  due,        \* review_by has passed
  check,      \* thesis_checks: the status of each, or that it is not there
  eval,       \* per request: where its evaluation is, what it loaded, and found
  loads,      \* evaluations begun
  overlapped  \* history: two at once, or a number given again under one

vars == <<status, due, check, eval, loads, overlapped>>
Out == [at |-> "out"]

\* create_thesis.
Init == /\ status = "open" /\ due = FALSE
        /\ check = [i \in CheckNo |-> "unmade"]
        /\ eval = [r \in Request |-> Out] /\ loads = 0 /\ overlapped = FALSE

Present == {i \in CheckNo : check[i] \notin {"unmade", "deleted"}}

----------------------------------------------------------------------------
(* The short transactions. *)

\* add_check, for a check that reads as holding, or is already breached and
\* allowed to be; the other three findings of preflight are refused.  SQLite
\* numbers a row one above the greatest there is, so a number may come again.
AddCheck ==
  /\ \E i \in CheckNo, found \in {"holding", "broken"} :
       /\ i \notin Present /\ \A j \in CheckNo : j < i => check[j] # "unmade"
       /\ \A j \in Present : j < i
       /\ check' = [check EXCEPT ![i] = found]
       /\ overlapped' = (overlapped \/ \E r \in Request : eval[r].at # "out" /\ i \in DOMAIN eval[r].check)
  /\ UNCHANGED <<status, due, eval, loads>>

DeleteCheck ==
  /\ \E i \in Present : check' = [check EXCEPT ![i] = "deleted"]
  /\ UNCHANGED <<status, due, eval, loads, overlapped>>

\* update_thesis: by hand a thesis is closed or opened, or reviewed later.
CloseByHand == /\ status # "closed" /\ status' = "closed"
               /\ UNCHANGED <<due, check, eval, loads, overlapped>>
OpenByHand == /\ status # "open" /\ status' = "open"
              /\ UNCHANGED <<due, check, eval, loads, overlapped>>
Postpone == /\ due /\ due' = FALSE
            /\ UNCHANGED <<status, check, eval, loads, overlapped>>
DuePasses == /\ ~due /\ due' = TRUE
             /\ UNCHANGED <<status, check, eval, loads, overlapped>>

----------------------------------------------------------------------------
(* evaluate. *)

\* A closed thesis is left alone.
Load(r) ==
  /\ eval[r].at = "out" /\ status # "closed"
  /\ loads < MaxLoads /\ loads' = loads + 1
  /\ eval' = [eval EXCEPT ![r] =
       [at |-> "loaded", status |-> status, due |-> due, check |-> [i \in Present |-> check[i]]]]
  /\ overlapped' = (overlapped \/ \E q \in Request : eval[q].at # "out")
  /\ UNCHANGED <<status, due, check>>

\* Slip: a failing provider is reported before the terminal state is looked at.
OutcomesError(before) == IF before = "broken" THEN {"broken", "error"}
                         ELSE {"error", "broken", "expired", "holding"}

\* evaluate_check: a failing provider and a missing field are errors, a breach
\* comes before the deadline, and broken is terminal.
Outcomes(before) == IF before = "broken" THEN {"broken"}
                    ELSE {"error", "broken", "expired", "holding"}

\* evaluate_thesis.
Verdict(found, past) ==
  IF \E i \in DOMAIN found : found[i] = "broken" THEN "broken"
  ELSE IF past THEN (IF DOMAIN found = {} THEN "expired" ELSE "supported")
  ELSE "open"

\* Each check is run, and then the review date it loaded is looked at, which may
\* have passed since.
Grade(r) ==
  LET e == eval[r] IN
  /\ e.at = "loaded"
  /\ \E found \in [DOMAIN e.check -> {"error", "broken", "expired", "holding"}],
        past \in {e.due, TRUE} :
       /\ \A i \in DOMAIN found : found[i] \in Outcomes(e.check[i])
       /\ eval' = [eval EXCEPT ![r] =
            [at |-> "graded", status |-> e.status, check |-> e.check,
             found |-> found, verdict |-> Verdict(found, past)]]
  /\ UNCHANGED <<status, due, check, loads, overlapped>>

\* What differs from what was loaded is written; every check has a new
\* last_checked_at, so one that was deleted fails the commit.
Changed(new, loaded, now) == IF new # loaded THEN new ELSE now
Commit(r) ==
  LET e == eval[r] IN
  /\ e.at = "graded" /\ DOMAIN e.check \subseteq Present
  /\ status' = Changed(e.verdict, e.status, status)
  /\ check' = [i \in CheckNo |-> IF i \in DOMAIN e.check
                 THEN Changed(e.found[i], e.check[i], check[i]) ELSE check[i]]
  /\ eval' = [eval EXCEPT ![r] = Out]
  /\ UNCHANGED <<due, loads, overlapped>>

Fail(r) == /\ eval[r].at # "out" /\ eval' = [eval EXCEPT ![r] = Out]
           /\ UNCHANGED <<status, due, check, loads, overlapped>>

Next == \/ AddCheck \/ DeleteCheck \/ CloseByHand \/ OpenByHand \/ Postpone \/ DuePasses
        \/ \E r \in Request : Load(r) \/ Grade(r) \/ Commit(r) \/ Fail(r)

Spec == Init /\ [][Next]_vars

----------------------------------------------------------------------------
(* Properties. *)

\* A thesis has a status of the model's, and an evaluation under way found it
\* open to evaluation and holds checks that were made.
TypeOK ==
  /\ status \in {"open", "closed", "broken", "supported", "expired"}
  /\ \A r \in Request :
       eval[r].at # "out" =>
         /\ eval[r].status # "closed"
         /\ \A i \in DOMAIN eval[r].check : check[i] # "unmade"

\* "broken is terminal": a breached check is not set back, unless two
\* evaluations overlapped - the later commit writes over the earlier one where
\* it found something else than it had loaded - or a check was replaced under
\* one, whose verdict then falls on the new check of that number.  And an
\* evaluation that loaded what is still there leaves the thesis broken exactly
\* if a check is.
Current(r) ==
  /\ eval[r].status = status
  /\ eval[r].check = [i \in Present |-> check[i]]
VerdictKept ==
  /\ \A i \in CheckNo :
       check[i] = "broken" => check'[i] \in {"broken", "deleted"} \/ overlapped
  /\ \A r \in Request :
       eval[r].at = "graded" /\ Current(r) /\ (status' # status \/ check' # check)
         /\ eval'[r].at = "out"
         => (status' = "broken" <=> \E i \in CheckNo : check'[i] = "broken")
VerdictStands == [][VerdictKept]_vars
=============================================================================

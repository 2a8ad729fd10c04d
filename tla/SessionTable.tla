---------------------------- MODULE SessionTable ----------------------------
(* One user's paper sessions in the SessionManager (trading/manager.py): a   *)
(* start tests the table, awaits its subscription to the hub and only then   *)
(* stores the session; stops and kills work on whatever the table holds and  *)
(* await the session's task and its subscription; the task may crash, and    *)
(* the strategy's on_start and on_stop may raise.  What happens between two  *)
(* awaits on the event loop is one step; an await that would not suspend is  *)
(* taken for one that may.  The trading inside is PaperSession's.            *)
EXTENDS Naturals

CONSTANTS
  Call,       \* requests to start, stop and kill
  SesNo,      \* 1 .. the number of LiveSessions: bounds the starts
  Nobody      \* no session (not in SesNo)

VARIABLES
  current,    \* _sessions[user]
  ses,        \* the LiveSessions
  call,       \* per request: where it is, its session, the state it will set
  down,       \* history: the application is ending
  overlapped  \* history: two starts were under way at once

vars == <<current, ses, call, down, overlapped>>

\* sub: the subscription is open; ended: stopped_at is set.  raised and crashed
\* are history, and onStop counts the on_stop hooks that returned.
Unmade == [state |-> "none", task |-> "none", sub |-> FALSE, ended |-> FALSE,
           crashed |-> FALSE, raised |-> {}, onStop |-> 0]
Out == [at |-> "out", ses |-> Nobody, state |-> "none"]

Init == /\ current = Nobody /\ ses = [s \in SesNo |-> Unmade]
        /\ call = [c \in Call |-> Out] /\ down = FALSE /\ overlapped = FALSE

Return(c) == call' = [call EXCEPT ![c] = Out]

----------------------------------------------------------------------------
(* start *)

\* A session that runs is in the way, one in any other state is replaced.
MayStart == \A s \in SesNo : s = current => ses[s].state # "running"
Start(c) ==
  /\ call[c].at = "out" /\ ~down /\ MayStart
  /\ \E s \in SesNo :
       /\ ses[s] = Unmade /\ \A q \in SesNo : q < s => ses[q] # Unmade
       /\ ses' = [ses EXCEPT ![s].state = "starting"]
       /\ call' = [call EXCEPT ![c] = [Out EXCEPT !.at = "subscribing", !.ses = s]]
  /\ overlapped' = (overlapped \/ \E d \in Call : call[d].at = "subscribing")
  /\ UNCHANGED <<current, down>>

\* subscribe raises: the provider is not set up.
NotSubscribed(c) == /\ call[c].at = "subscribing" /\ Return(c)
                    /\ UNCHANGED <<current, ses, down, overlapped>>

\* The subscription is there, on_start returns, and the session is stored ...
Started(c) ==
  LET s == call[c].ses IN
  /\ call[c].at = "subscribing"
  /\ ses' = [ses EXCEPT ![s].sub = TRUE, ![s].state = "running", ![s].task = "runs"]
  /\ current' = s /\ Return(c)
  /\ UNCHANGED <<down, overlapped>>

\* ... or on_start raises, and nobody has the session or its subscription.
OnStartRaises(c) ==
  LET s == call[c].ses IN
  /\ call[c].at = "subscribing"
  /\ ses' = [ses EXCEPT ![s].sub = TRUE, ![s].raised = @ \cup {"on_start"}]
  /\ Return(c)
  /\ UNCHANGED <<current, down, overlapped>>

----------------------------------------------------------------------------
(* _run, stop, kill. *)

\* A hook raises: "a session dies visibly, not silently".
Crash(s) ==
  /\ ses[s].task = "runs"
  /\ ses' = [ses EXCEPT ![s].task = "done", ![s].state = "stopped", ![s].crashed = TRUE]
  /\ UNCHANGED <<current, call, down, overlapped>>

\* LiveSession.stop takes the task, cancels it and waits for it.
Take(c, s, state) ==
  /\ ses' = [ses EXCEPT ![s].task = "none"]
  /\ call' = [call EXCEPT ![c] = [at |-> "waiting", ses |-> s, state |-> state]]

Stop(c) == /\ call[c].at = "out" /\ ~down /\ current # Nobody
           /\ Take(c, current, "stopped")
           /\ UNCHANGED <<current, down, overlapped>>

\* kill first flattens, over requests to the broker, or fails in it.
Kill(c) == /\ call[c].at = "out" /\ ~down /\ current # Nobody
           /\ call' = [call EXCEPT ![c] = [at |-> "killing", ses |-> current,
                                           state |-> "killed"]]
           /\ UNCHANGED <<current, ses, down, overlapped>>
KillStops(c) == /\ call[c].at = "killing" /\ Take(c, call[c].ses, "killed")
                /\ UNCHANGED <<current, down, overlapped>>
KillRaises(c) == /\ call[c].at = "killing" /\ Return(c)
                 /\ UNCHANGED <<current, ses, down, overlapped>>

\* Slip: a crashed session has stopped already, so it is not closed.
MustCloseRunning(x) == x.sub /\ x.state = "running"

\* The subscription is closed if there is one, whatever the state.
MustClose(x) == x.sub
Close(c) == /\ call[c].at = "waiting" /\ MustClose(ses[call[c].ses])
            /\ call' = [call EXCEPT ![c].at = "closing"]
            /\ UNCHANGED <<current, ses, down, overlapped>>

\* It is closed, or there was none: on_stop of a session that ran, and the end.
Finishing(c) ==
  \/ call[c].at = "closing"
  \/ call[c].at = "waiting" /\ ~MustClose(ses[call[c].ses])
Closed(c) == IF call[c].at = "closing" THEN [ses[call[c].ses] EXCEPT !.sub = FALSE]
                                       ELSE ses[call[c].ses]
MustStop(x) == x.state \in {"running", "starting"}

Finish(c) ==
  LET x == Closed(c) IN
  /\ Finishing(c) /\ Return(c)
  /\ ses' = [ses EXCEPT ![call[c].ses] =
       [x EXCEPT !.state = call[c].state, !.ended = TRUE,
                 !.onStop = IF MustStop(x) THEN @ + 1 ELSE @]]
  /\ current' = IF down THEN Nobody ELSE current
  /\ UNCHANGED <<down, overlapped>>

\* on_stop raises: the state stays what it was, and so does the table.
OnStopRaises(c) ==
  LET x == Closed(c) IN
  /\ Finishing(c) /\ MustStop(x) /\ Return(c)
  /\ ses' = [ses EXCEPT ![call[c].ses] = [x EXCEPT !.raised = @ \cup {"on_stop"}]]
  /\ UNCHANGED <<current, down, overlapped>>

\* shutdown, when the requests have ended: what runs is stopped, then the
\* table is cleared.
Shutdown(c) ==
  /\ ~down /\ \A d \in Call : call[d].at = "out"
  /\ down' = TRUE
  /\ IF ~MayStart
       THEN Take(c, current, "stopped") /\ UNCHANGED current
       ELSE current' = Nobody /\ UNCHANGED <<ses, call>>
  /\ UNCHANGED overlapped

Next ==
  \/ \E c \in Call :
       \/ Start(c) \/ NotSubscribed(c) \/ Started(c) \/ OnStartRaises(c)
       \/ Stop(c) \/ Kill(c) \/ KillStops(c) \/ KillRaises(c)
       \/ Close(c) \/ Finish(c) \/ OnStopRaises(c) \/ Shutdown(c)
  \/ \E s \in SesNo : Crash(s)

Spec == Init /\ [][Next]_vars

----------------------------------------------------------------------------
(* Properties. *)

InHand(s) == \E c \in Call : call[c].ses = s /\ call[c].at # "killing"

\* A session whose task runs says so and has its subscription.
TypeOK ==
  /\ current \in SesNo \cup {Nobody}
  /\ \A s \in SesNo :
       /\ ses[s].state \in {"none", "starting", "running", "stopped", "killed"}
       /\ ses[s].task = "runs" => ses[s].sub /\ ses[s].state = "running"

\* "One live session per user", and its feed ends with it: an open
\* subscription is that of the table's session or of a request's, or was lost
\* in one of three ways - on_start raised after subscribing, a crashed session
\* was replaced without being stopped, or two starts overlapped.
FeedsExplained ==
  \A s \in SesNo :
    ses[s].sub => s = current \/ InHand(s) \/ overlapped
                  \/ "on_start" \in ses[s].raised \/ ses[s].crashed

\* What ended is closed and its strategy was told once; what says it is running
\* has a task and a feed, unless it is being stopped, or its on_stop raised -
\* which leaves a session that neither runs nor can be replaced.
StatesTrue ==
  \A s \in SesNo :
    /\ ses[s].ended => ~ses[s].sub /\ ses[s].task = "none"
    /\ ses[s].onStop <= 1
    /\ ses[s].state = "running" => \/ ses[s].task = "runs" /\ ses[s].sub
                                   \/ InHand(s) \/ "on_stop" \in ses[s].raised

SessionsAccounted == FeedsExplained /\ StatesTrue
=============================================================================

---------------------------- MODULE AssistantTurn ----------------------------
(* One turn of the assistant (assistant/service.py): the reply is streamed,  *)
(* the tools it calls are run, and it is asked again with their results.     *)
(* The words are left out, and the fallback header of a request.             *)
EXTENDS Naturals, Sequences

CONSTANTS
  MaxCalls,   \* bound: the tools a reply calls
  MaxRounds,  \* the values settings.assistant_max_tool_rounds is given
  Histories   \* what the browser sends: sequences of roles

VARIABLES
  budget,     \* assistant_max_tool_rounds
  at,         \* where the generator is
  messages,   \* what the next request carries
  round,      \* round_index
  toRun, results,  \* the calls still to run, and the results of those that ran
  event       \* the last event of the stream, and how many went before the last

vars == <<budget, at, messages, round, toRun, results, event>>

Call(k) == [round |-> round, call |-> k]
Text(role) == [role |-> role, calls |-> <<>>]
Emit(type) == event' = [type |-> type, after |-> event.type]

\* _normalise: the turns before the first of the user's are dropped.
Normalised(h) ==
  LET Kept(i) == h[i] = "user" /\ \A j \in 1 .. i - 1 : h[j] # "user"
  IN IF \E i \in DOMAIN h : Kept(i)
       THEN SubSeq(h, CHOOSE i \in DOMAIN h : Kept(i), Len(h)) ELSE <<>>

Init == /\ budget \in MaxRounds /\ round = 0 /\ toRun = <<>> /\ results = <<>>
        /\ \E h \in Histories :
             LET turns == Normalised(h)
             IN /\ messages = [i \in DOMAIN turns |-> Text(turns[i])]
                /\ at = IF turns = <<>> THEN "ended" ELSE "asking"
                /\ event = [type |-> IF turns = <<>> THEN "error" ELSE "none", after |-> "none"]

\* Slip: the last round is one too late.
LastRoundLate == round = budget + 1
LastRound == round = budget

\* A piece of the answer.
Words == /\ at = "asking" /\ Emit("text")
         /\ UNCHANGED <<budget, at, messages, round, toRun, results>>

\* A refusal, an API error, or another exception of the request: nothing follows.
\* run_tool raises none.
Fatal == /\ at = "asking" /\ at' = "ended" /\ Emit("error")
         /\ UNCHANGED <<budget, messages, round, toRun, results>>

\* An answer without calls, or whose calls have no request left to answer.
Done == /\ at = "asking" /\ at' = "ended" /\ Emit("done")
        /\ UNCHANGED <<budget, messages, round, toRun, results>>

\* Tools are called.
Called == /\ at = "asking" /\ ~LastRound
          /\ \E n \in 1 .. MaxCalls : toRun' = [k \in 1 .. n |-> Call(k)]
          /\ messages' = Append(messages, [role |-> "assistant", calls |-> toRun'])
          /\ at' = "calling" /\ results' = <<>>
          /\ UNCHANGED <<budget, round, event>>

\* run_tool answers every call, if only with why it failed.
Tool == /\ at = "calling" /\ toRun # <<>> /\ at' = "running" /\ Emit("tool")
        /\ UNCHANGED <<budget, messages, round, toRun, results>>
ToolDone == /\ at = "running" /\ at' = "calling" /\ Emit("tool_done")
            /\ results' = Append(results, Head(toRun)) /\ toRun' = Tail(toRun)
            /\ UNCHANGED <<budget, messages, round>>

\* Slip: each result is a message of its own.
AnsweredApart == messages \o [k \in DOMAIN results |-> [role |-> "user", calls |-> <<results[k]>>]]
\* "Every result for a turn goes back in one user message".
Answered == Append(messages, [role |-> "user", calls |-> results])
AskAgain == /\ at = "calling" /\ toRun = <<>> /\ at' = "asking" /\ round' = round + 1
            /\ messages' = Answered
            /\ UNCHANGED <<budget, toRun, results, event>>

\* The browser goes away: the generator is closed where it yields.
Gone == /\ at # "ended" /\ at' = "ended" /\ event' = [type |-> "gone", after |-> event.type]
        /\ UNCHANGED <<budget, messages, round, toRun, results>>

Next == Words \/ Fatal \/ Done \/ Called \/ Tool \/ ToolDone \/ AskAgain \/ Gone
Spec == Init /\ [][Next]_vars

----------------------------------------------------------------------------
(* Properties. *)

\* The generator is at a place of the loop, in one of its rounds.
TypeOK == /\ at \in {"asking", "calling", "running", "ended"}
          /\ round \in 0 .. budget

\* "error: fatal; nothing more follows", "the turn has to end with a terminal
\* event either way", "every result for a turn goes back in one user message":
\* a request starts with the user and answers each call of each reply in the
\* next message; what ran is answered by a later request; and the stream is
\* ended by one event, its last.
EveryCallAnswered ==
  /\ at = "asking" =>
       /\ messages[1].role = "user"
       /\ \A i \in DOMAIN messages : messages[i].role = "assistant" /\ messages[i].calls # <<>> =>
            i < Len(messages) /\ messages[i + 1] = [messages[i] EXCEPT !.role = "user"]
  /\ at = "running" => round < budget
  /\ at = "ended" <=> event.type \in {"done", "error", "gone"}
  /\ event.after \notin {"done", "error", "gone"}
  /\ event.type = "done" => event.after # "tool" /\ toRun = <<>>
=============================================================================

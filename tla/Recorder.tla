------------------------------ MODULE Recorder ------------------------------
(* The tick recorder (stream/recorder.py): a reader of the hub that buffers  *)
(* ticks and writes them in part files, from its loop by a thread and once   *)
(* more when it is stopped.  start_recording replaces the recorder of the    *)
(* process, stop_recording takes it away; both await in the middle, and what *)
(* happens on the event loop between two awaits is one step.  The swap in    *)
(* flush is one step of its thread (no bytecode in it lets go of the         *)
(* interpreter lock); building and writing the file is another.              *)
EXTENDS Naturals

CONSTANTS
  Call,       \* requests of start_recording and stop_recording
  RecNo,      \* 1 .. the number of TickRecorders: bounds the starts
  LastTick,   \* bound: ticks that are published, each of its own symbol
  Nobody      \* no recorder (not in RecNo)

Tick == 1 .. LastTick

VARIABLES
  current,    \* _recorder
  rec,        \* the TickRecorders
  call,       \* per request: where it is and the recorder it works on
  published,  \* ticks so far
  down,       \* the hubs are shut down
  overlapped  \* history: two starts were under way at once

vars == <<current, rec, call, published, down, overlapped>>

\* hooked says that the hub knows the subscription, sub that the recorder does.
Unmade == [made |-> FALSE, task |-> "none", sub |-> FALSE, hooked |-> FALSE,
           pending |-> {}, buffer |-> {}, rows |-> {}, thread |-> "none",
           files |-> [n \in Tick |-> 0], dropped |-> {}, given |-> {}, late |-> {}]
Out == [at |-> "out", rec |-> Nobody, start |-> FALSE]

Init == /\ current = Nobody /\ rec = [r \in RecNo |-> Unmade]
        /\ call = [c \in Call |-> Out]
        /\ published = 0 /\ down = FALSE /\ overlapped = FALSE

Running(r) == r # Nobody /\ rec[r].task \in {"drain", "flush"}
Starting == {c \in Call : call[c].start}

----------------------------------------------------------------------------
(* TickRecorder. *)

\* The buffer is swapped for an empty one, then written, or lost with an error.
Swapped(x) == [x EXCEPT !.rows = x.buffer, !.buffer = {}]
Written(x) == [x EXCEPT !.rows = {},
                        !.files = [n \in Tick |-> @[n] + IF n \in x.rows THEN 1 ELSE 0]]
Failed(x) == [x EXCEPT !.rows = {}, !.dropped = @ \cup x.rows]

\* flush on the event loop: a thread that has swapped keeps its own rows.
Flushed(x, ok) ==
  LET mine == Swapped([x EXCEPT !.rows = {}])
      done == IF ok THEN Written(mine) ELSE Failed(mine)
  IN  [done EXCEPT !.rows = x.rows]

\* _run: what has arrived goes into the buffer; when that is long or old
\* enough a thread flushes it, and the loop of the recorder waits for it.
Appended(x) == [x EXCEPT !.buffer = @ \cup x.pending, !.pending = {}]
Drain(r) ==
  /\ rec[r].task = "drain"
  /\ LET x == Appended(rec[r]) IN
     rec' \in {[rec EXCEPT ![r] = x]} \cup
              (IF x.buffer = {} THEN {}
               ELSE {[rec EXCEPT ![r] = [x EXCEPT !.task = "flush", !.thread = "swap"]]})
  /\ UNCHANGED <<current, call, published, down, overlapped>>

ThreadSwap(r) ==
  /\ rec[r].thread = "swap"
  /\ rec' = [rec EXCEPT ![r] = [Swapped(@) EXCEPT !.thread = "write"]]
  /\ UNCHANGED <<current, call, published, down, overlapped>>

ThreadWrite(r) ==
  /\ rec[r].thread = "write"
  /\ \E x \in {Written(rec[r]), Failed(rec[r])} :
       rec' = [rec EXCEPT ![r] = [x EXCEPT !.thread = "none",
                                   !.task = IF @ = "flush" THEN "drain" ELSE @]]
  /\ UNCHANGED <<current, call, published, down, overlapped>>

\* Slip: the task is not cancelled.
CancelledNot(x) == x

\* stop.  Up to its first await: the task is taken and cancelled, a thread
\* that flushes is not.
Cancelled(x) == [x EXCEPT !.task = "none"]

\* Slip: the subscription is emptied and what was in it forgotten.
SweptAway(x) == [x EXCEPT !.pending = {}]

\* What is still in the subscription is swept into the buffer, and the hub is
\* asked to forget the subscription ...
Swept(x) == Appended(x)
Sweep(c) ==
  LET r == call[c].rec IN
  /\ call[c].at = "stopping" /\ rec[r].sub
  /\ rec' = [rec EXCEPT ![r] = Swept(@)]
  /\ call' = [call EXCEPT ![c].at = "closing"]
  /\ UNCHANGED <<current, published, down, overlapped>>

\* ... and when it has, or when there was none, the rest is flushed.
Close(c) ==
  LET r == call[c].rec IN
  /\ call[c].at = "closing" \/ (call[c].at = "stopping" /\ ~rec[r].sub)
  /\ \E ok \in BOOLEAN :
       rec' = [rec EXCEPT ![r] = Flushed([@ EXCEPT !.sub = FALSE, !.hooked = FALSE], ok)]
  /\ call' = [call EXCEPT ![c] = IF call[c].start
                THEN [at |-> "join", rec |-> Nobody, start |-> TRUE] ELSE Out]
  /\ UNCHANGED <<current, published, down, overlapped>>

----------------------------------------------------------------------------
(* start_recording and stop_recording. *)

\* Slip: a recorder whose loop waits for a flush does not look as if it ran.
ReplacedDraining(r) == r # Nobody /\ rec[r].task = "drain"

\* A recorder that runs is stopped first.
Replaced(r) == Running(r)
Start(c) ==
  /\ call[c].at = "out" /\ ~down
  /\ IF Replaced(current)
       THEN /\ call' = [call EXCEPT ![c] = [at |-> "stopping", rec |-> current, start |-> TRUE]]
            /\ rec' = [rec EXCEPT ![current] = Cancelled(@)]
       ELSE /\ call' = [call EXCEPT ![c] = [at |-> "join", rec |-> Nobody, start |-> TRUE]]
            /\ UNCHANGED rec
  /\ overlapped' = (overlapped \/ Starting # {})
  /\ UNCHANGED <<current, published, down>>

\* A provider that is not set up raises: the old recorder stays stopped.
Refuse(c) == /\ call[c].at = "join" /\ call' = [call EXCEPT ![c] = Out]
             /\ UNCHANGED <<current, rec, published, down, overlapped>>

\* subscribe has the hub's lock: ticks come from here on ...
Join(c) ==
  /\ call[c].at = "join"
  /\ \E r \in RecNo :
       /\ ~rec[r].made /\ \A q \in RecNo : q < r => rec[q].made
       /\ rec' = [rec EXCEPT ![r].made = TRUE, ![r].hooked = TRUE]
       /\ call' = [call EXCEPT ![c].at = "joining", ![c].rec = r]
  /\ UNCHANGED <<current, published, down, overlapped>>

\* ... and when it returns the task is made and the recorder is the current one.
Joined(c) ==
  LET r == call[c].rec IN
  /\ call[c].at = "joining"
  /\ rec' = [rec EXCEPT ![r].sub = TRUE, ![r].task = "drain"]
  /\ current' = r /\ call' = [call EXCEPT ![c] = Out]
  /\ UNCHANGED <<published, down, overlapped>>

Stop(c) ==
  /\ call[c].at = "out" /\ current # Nobody
  /\ call' = [call EXCEPT ![c] = [at |-> "stopping", rec |-> current, start |-> FALSE]]
  /\ rec' = [rec EXCEPT ![current] = Cancelled(@)]
  /\ current' = Nobody
  /\ UNCHANGED <<published, down, overlapped>>

----------------------------------------------------------------------------

Closing(r) == \E c \in Call : call[c].at = "closing" /\ call[c].rec = r

\* The hub gives a tick to every subscription it knows.
Publish ==
  /\ published < LastTick /\ published' = published + 1
  /\ rec' = [r \in RecNo |->
       IF rec[r].hooked
         THEN [rec[r] EXCEPT !.pending = @ \cup {published'}, !.given = @ \cup {published'},
                 !.late = IF Closing(r) THEN @ \cup {published'} ELSE @]
         ELSE rec[r]]
  /\ UNCHANGED <<current, call, down, overlapped>>

\* The application ends: requests are let end, the hubs forget everybody, and
\* one more stop is sent by main.
Shutdown ==
  /\ ~down /\ \A c \in Call : call[c].at = "out"
  /\ down' = TRUE
  /\ rec' = [r \in RecNo |-> [rec[r] EXCEPT !.hooked = FALSE]]
  /\ UNCHANGED <<current, call, published, overlapped>>

Next ==
  \/ \E c \in Call : \/ Start(c) \/ Refuse(c) \/ Join(c) \/ Joined(c)
                     \/ Stop(c) \/ Sweep(c) \/ Close(c)
  \/ \E r \in RecNo : Drain(r) \/ ThreadSwap(r) \/ ThreadWrite(r)
  \/ Publish \/ Shutdown

Spec == Init /\ [][Next]_vars

----------------------------------------------------------------------------
(* Properties. *)

\* A task has a subscription, a thread has rows only between swap and write,
\* and the recorder of the process is one that was started.
TypeOK ==
  /\ current \in RecNo \cup {Nobody}
  /\ current # Nobody => rec[current].made
  /\ \A r \in RecNo :
       /\ Running(r) => rec[r].sub
       /\ rec[r].thread # "write" => rec[r].rows = {}
       /\ rec[r].task = "flush" => rec[r].thread # "none"

Ended(r) == /\ rec[r].made /\ rec[r].task = "none"
            /\ \A c \in Call : call[c].rec # r

\* "Once more on stop, so a clean shutdown loses nothing": whatever a thread
\* and one or two stops do to the buffer, no tick is written twice, none is
\* lost, and when a recorder is stopped all it was given is in a file, or in
\* the hands of a thread that has swapped, or failed to be written, or came
\* after stop had swept the subscription.
RecordedOnce ==
  \A r \in RecNo :
    LET x == rec[r]
        out == {n \in Tick : x.files[n] = 1} \cup x.dropped \cup x.rows
    IN  /\ \A n \in Tick : x.files[n] <= 1
        /\ x.given \subseteq out \cup x.buffer \cup x.pending
        /\ Ended(r) => x.given \subseteq out \cup (x.pending \cap x.late)

\* "One recorder per process": a recorder that runs is the current one, or is
\* being stopped, unless two starts overlapped - each subscribes before either
\* is current, and the first to be stored is lost, running.
OneRecorder == \A r \in RecNo : Running(r) => r = current \/ overlapped
=============================================================================

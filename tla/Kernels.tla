------------------------------ MODULE Kernels ------------------------------
(* The playground's kernels (playground/manager.py): one Python process per  *)
(* user, started on first use, its cells run one at a time under the         *)
(* kernel's lock with a time limit, killed by a reset, by the idle reaper    *)
(* and at shutdown - none of which takes that lock.                          *)
(* The model follows ONE user with several tabs; other users are there only  *)
(* through the reaper, which every request runs over the whole table.        *)
EXTENDS Naturals, Sequences

CONSTANTS
  Tab,          \* the user's concurrent run requests
  KernelNo,     \* 1 .. the number of Kernel objects a behaviour may make
  MaxRuns,      \* bound: cells written to one Kernel object
  MaxStarts,    \* bound: processes started for one Kernel object
  NoKernel      \* nothing in the table (not a member of KernelNo)

VARIABLES
  table,        \* KernelManager._kernels[user], or NoKernel
  kernel,       \* the Kernel objects, reachable from the table or not
  pc, held,     \* per tab: where its request is, and the Kernel it was given
  mine, fresh,  \* per tab: req_id and fresh, the locals of Kernel.run
  doomed,       \* popped by a reset that has not killed them yet
  closed,       \* KernelManager.shutdown has run
  shaken,       \* history: taken from the table while a tab held them
  shown,        \* history: the process the last result came from
  crossed       \* history: a run returned the answer to another cell

vars == <<table, kernel, pc, held, mine, fresh, doomed, closed, shaken, shown, crossed>>

Unmade == [made |-> FALSE, lock |-> FALSE, proc |-> "none", asked |-> <<>>,
           lines |-> <<>>, next |-> 1, idle |-> FALSE, starts |-> 0]

Init == /\ table = NoKernel /\ kernel = [k \in KernelNo |-> Unmade]
        /\ pc = [t \in Tab |-> "out"] /\ held = [t \in Tab |-> NoKernel]
        /\ mine = [t \in Tab |-> 0] /\ fresh = [t \in Tab |-> FALSE]
        /\ doomed = {} /\ closed = FALSE /\ shaken = {}
        /\ shown = <<NoKernel, 0>> /\ crossed = FALSE

\* Kernel.kill: the process is gone; what it had written can still be read by
\* the reader thread that has the pipe.
Killed(r) == [r EXCEPT !.proc = "none", !.asked = <<>>]

\* Who holds k between _get and the end of Kernel.run.
Holders(k) == {t \in Tab : pc[t] # "out" /\ held[t] = k}

----------------------------------------------------------------------------
(* KernelManager. *)

\* Slip: the reaper forgets the Kernel without killing its process.
ReapedOnly(r) == r

\* _reap_locked kills what has been idle too long and deletes it; it looks at
\* last_used alone.
Reaped(r) == Killed(r)
Reapable == table # NoKernel /\ kernel[table].idle
AfterReap == IF Reapable THEN [kernel EXCEPT ![table] = Reaped(@)] ELSE kernel
TableAfterReap == IF Reapable THEN NoKernel ELSE table
Removed == IF table # NoKernel /\ Holders(table) # {} THEN {table} ELSE {}
ShakenByReap == shaken \cup (IF Reapable THEN Removed ELSE {})

\* _get for this user: reap, then the table's Kernel or a new one.
Get(t) ==
  /\ ~closed /\ pc[t] = "out"
  /\ \E k \in KernelNo :
       /\ IF TableAfterReap = NoKernel
            THEN /\ ~kernel[k].made /\ \A j \in KernelNo : j < k => kernel[j].made
            ELSE k = table
       /\ kernel[k].next <= MaxRuns
       /\ table' = k
       /\ kernel' = [AfterReap EXCEPT ![k].made = TRUE]
       /\ held' = [held EXCEPT ![t] = k]
  /\ shaken' = ShakenByReap
  /\ pc' = [pc EXCEPT ![t] = "wait"]
  /\ UNCHANGED <<mine, fresh, doomed, closed, shown, crossed>>

\* _get for another user: only its reaping is seen here.
OthersGet ==
  /\ ~closed /\ Reapable
  /\ table' = NoKernel /\ kernel' = AfterReap /\ shaken' = ShakenByReap
  /\ UNCHANGED <<pc, held, mine, fresh, doomed, closed, shown, crossed>>

\* reset: the pop is under the manager's lock, the kill is not.
Reset ==
  /\ ~closed /\ table # NoKernel
  /\ table' = NoKernel /\ doomed' = doomed \cup {table}
  /\ shaken' = shaken \cup Removed
  /\ UNCHANGED <<kernel, pc, held, mine, fresh, closed, shown, crossed>>

ResetKills(k) ==
  /\ k \in doomed
  /\ kernel' = [kernel EXCEPT ![k] = Killed(@)] /\ doomed' = doomed \ {k}
  /\ UNCHANGED <<table, pc, held, mine, fresh, closed, shaken, shown, crossed>>

Shutdown ==
  /\ ~closed /\ closed' = TRUE /\ table' = NoKernel
  /\ kernel' = IF table = NoKernel THEN kernel
                                   ELSE [kernel EXCEPT ![table] = Killed(@)]
  /\ shaken' = shaken \cup Removed
  /\ UNCHANGED <<pc, held, mine, fresh, doomed, shown, crossed>>

----------------------------------------------------------------------------
(* Kernel.run, under the kernel's lock. *)

\* The lock is taken and last_used set; a Kernel without a living process
\* gets a new one, whose pipes are empty.
Started(r) == [r EXCEPT !.proc = "up", !.asked = <<>>, !.lines = <<>>,
                        !.starts = @ + 1]
Enter(t) ==
  LET k == held[t]
      alive == kernel[k].proc = "up"
      taken == [kernel[k] EXCEPT !.lock = TRUE, !.idle = FALSE]
  IN  /\ pc[t] = "wait" /\ ~kernel[k].lock /\ (alive \/ kernel[k].starts < MaxStarts)
      /\ kernel' = [kernel EXCEPT ![k] = IF alive THEN taken ELSE Started(taken)]
      /\ fresh' = [fresh EXCEPT ![t] = ~alive]
      /\ pc' = [pc EXCEPT ![t] = IF alive THEN "write" ELSE "starting"]
      /\ UNCHANGED <<table, held, mine, doomed, closed, shaken, shown, crossed>>

\* Kernel.run ends: the lock is released and k is left as r says.
Return(t, r) ==
  /\ kernel' = [kernel EXCEPT ![held[t]] = [r EXCEPT !.lock = FALSE]]
  /\ pc' = [pc EXCEPT ![t] = "out"] /\ held' = [held EXCEPT ![t] = NoKernel]
  /\ mine' = [mine EXCEPT ![t] = 0] /\ fresh' = [fresh EXCEPT ![t] = FALSE]
  /\ UNCHANGED <<table, doomed, closed, shaken>>

\* start reads the "ready" line ...
Ready(t) ==
  /\ pc[t] = "starting" /\ kernel[held[t]].proc = "up"
  /\ pc' = [pc EXCEPT ![t] = "write"]
  /\ UNCHANGED <<table, kernel, held, mine, fresh, doomed, closed, shaken, shown, crossed>>

\* ... or times out, or finds the pipe closed: killed, RuntimeError.
NotReady(t) == /\ pc[t] = "starting" /\ Return(t, Killed(kernel[held[t]]))
               /\ UNCHANGED <<shown, crossed>>

\* The cell goes down the pipe under the next id of this Kernel.
Write(t) ==
  LET k == held[t] IN
  /\ pc[t] = "write" /\ kernel[k].proc = "up"
  /\ mine' = [mine EXCEPT ![t] = kernel[k].next]
  /\ kernel' = [kernel EXCEPT ![k].next = @ + 1, ![k].asked = Append(@, kernel[k].next)]
  /\ pc' = [pc EXCEPT ![t] = "read"]
  /\ UNCHANGED <<table, held, fresh, doomed, closed, shaken, shown, crossed>>

\* The process has ended, or was killed under the request: an error.
BrokenPipe(t) ==
  /\ pc[t] = "write" /\ kernel[held[t]].proc # "up"
  /\ Return(t, Killed([kernel[held[t]] EXCEPT !.next = @ + 1]))
  /\ UNCHANGED <<shown, crossed>>

\* A whole line is the result; its id is dropped without being compared.
Result(t) ==
  LET k == held[t]  r == kernel[k] IN
  /\ pc[t] = "read" /\ r.lines # <<>> /\ Head(r.lines).whole
  /\ Return(t, [r EXCEPT !.lines = Tail(@)])
  /\ crossed' = (crossed \/ Head(r.lines).id # mine[t])
  /\ shown' = <<k, r.starts>>

\* Slip: what is left of a broken line stays in the pipe.
AfterGarbageKept(r) == r

\* A line over MAX_RESPONSE_BYTES comes in pieces that are not JSON.
AfterGarbage(r) == Killed(r)
Garbage(t) ==
  LET r == kernel[held[t]] IN
  /\ pc[t] = "read" /\ r.lines # <<>> /\ ~Head(r.lines).whole
  /\ Return(t, AfterGarbage([r EXCEPT !.lines = Tail(@)]))
  /\ UNCHANGED <<shown, crossed>>

\* Slip: the process is left running, and the next run reads its answer.
AfterTimeoutKept(r) == r

\* No line in time, or the end of the file: the answer says "Timed out".
AfterTimeout(r) == Killed(r)
TimedOut(t) ==
  /\ pc[t] = "read" /\ kernel[held[t]].lines = <<>>
  /\ Return(t, AfterTimeout(kernel[held[t]]))
  /\ UNCHANGED <<shown, crossed>>

----------------------------------------------------------------------------
(* The process, and time. *)

\* main: one answer per request, in order, under the request's id.
Compute(k) ==
  /\ kernel[k].proc = "up" /\ kernel[k].asked # <<>>
  /\ \E pieces \in {1, 2} :
       LET line == [id |-> Head(kernel[k].asked), whole |-> pieces = 1] IN
       kernel' = [kernel EXCEPT ![k].asked = Tail(@),
                                ![k].lines = @ \o [i \in 1 .. pieces |-> line]]
  /\ UNCHANGED <<table, pc, held, mine, fresh, doomed, closed, shaken, shown, crossed>>

\* The cell ends the process (sys.exit, out of memory).
Dies(k) ==
  /\ kernel[k].proc = "up" /\ kernel[k].asked # <<>>
  /\ kernel' = [kernel EXCEPT ![k].proc = "dead", ![k].asked = <<>>]
  /\ UNCHANGED <<table, pc, held, mine, fresh, doomed, closed, shaken, shown, crossed>>

\* Half an hour without a run: a run itself is far shorter.
GrowsIdle(k) ==
  /\ table = k /\ ~kernel[k].lock /\ ~kernel[k].idle
  /\ kernel' = [kernel EXCEPT ![k].idle = TRUE]
  /\ UNCHANGED <<table, pc, held, mine, fresh, doomed, closed, shaken, shown, crossed>>

Next == \/ \E t \in Tab : \/ Get(t) \/ Enter(t) \/ Ready(t) \/ NotReady(t)
                          \/ Write(t) \/ BrokenPipe(t)
                          \/ Result(t) \/ Garbage(t) \/ TimedOut(t)
        \/ \E k \in KernelNo : ResetKills(k) \/ Compute(k) \/ Dies(k) \/ GrowsIdle(k)
        \/ OthersGet \/ Reset \/ Shutdown

Spec == Init /\ [][Next]_vars

----------------------------------------------------------------------------
(* Properties. *)

\* A request is at one point of run and holds a Kernel until it returns, and
\* a Kernel's lock is taken exactly while one request is inside it.
TypeOK ==
  /\ table \in KernelNo \cup {NoKernel} /\ doomed \subseteq KernelNo
  /\ pc \in [Tab -> {"out", "wait", "starting", "write", "read"}]
  /\ \A k \in KernelNo :
       /\ kernel[k].proc \in {"none", "up", "dead"}
       /\ LET inside == {t \in Holders(k) : pc[t] # "wait"} IN
          /\ kernel[k].lock <=> inside # {}
          /\ \A t, u \in inside : t = u

\* A returned result is the answer to the cell that was asked for: nothing
\* left in the pipe by a run that timed out is ever taken for it, although
\* run throws the id away.
OwnReply == ~crossed

\* "Each user gets one kernel": a process that the table does not lead to -
\* and that nothing will kill - is left only when a reset, the reaper or a
\* shutdown took its Kernel from under a run, which none of them waits for.
StrayExplained ==
  \A k \in KernelNo : kernel[k].proc = "up" => k = table \/ k \in doomed \/ k \in shaken

\* A result from another process than the last one - the variables are lost -
\* is marked fresh, unless a Kernel was taken from under a run.
StateLossTold ==
  [][shown' # shown =>
       \/ shaken # {}
       \/ \E t \in Tab : pc[t] = "read" /\ pc'[t] = "out" /\ fresh[t]]_vars
=============================================================================

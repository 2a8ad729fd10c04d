--------------------------- MODULE ProviderCache ---------------------------
(* The provider cache (cache.py, core/caching.py) and the HTTP client in     *)
(* front of the vendors (core/http.py): a memory layer per process over one  *)
(* SQLite file that the server, the playground's kernels and the command     *)
(* line share, and two users of it stacked on each other - @cached keeps the *)
(* frame a provider function builds, fetch the body it is built from.  One   *)
(* provider function with one set of arguments is followed.                  *)
EXTENDS Naturals

CONSTANTS
  Proc,       \* processes over the cache file
  Thread,     \* callers of the provider function
  ProcOf,     \* the process of each thread
  Ttl,        \* per key ("frame", "body"): the lifetime its reader asks for
  Retries,    \* fetch's attempts
  Slow,       \* bound: how long one call may be under way
  Ancient     \* bound: older values are not told apart

Key == {"frame", "body"}

(* Time is kept as ages: of an entry since it was stored (created_at) and of *)
(* its value since the vendor answered.  An entry that outlives its lifetime *)
(* is never served again and is dropped by Tick.                             *)
NoEntry == [age |-> 0, old |-> 0, state |-> "none"]

VARIABLES
  mem,        \* per process and key: TTLCache._mem
  disk,       \* per key: the row of cache_entries
  pc, spent,  \* per thread: where its call is, and for how long it has run
  tries,      \* per thread: fetch's attempt
  got         \* per thread: the age of the value in its hands

vars == <<mem, disk, pc, spent, tries, got>>

Init == /\ mem = [p \in Proc |-> [k \in Key |-> NoEntry]]
        /\ disk = [k \in Key |-> NoEntry]
        /\ pc = [t \in Thread |-> "idle"] /\ spent = [t \in Thread |-> 0]
        /\ tries = [t \in Thread |-> 0] /\ got = [t \in Thread |-> 0]

----------------------------------------------------------------------------
(* TTLCache: each operation is one critical section of its process's lock.   *)

\* Slip: what is there is served whatever its age.
FreshForEver(e, k) == e.state # "none"

Fresh(e, k) == e.state # "none" /\ e.age < Ttl[k]
InMemory(p, k) == Fresh(mem[p][k], k)
OnDisk(p, k) == ~InMemory(p, k) /\ Fresh(disk[k], k)

\* A row found on disk is put in memory under the time it was stored at.
Promoted(e) == e

\* get: what it finds, and what it leaves behind - a promoted row, or one
\* row less when a fresh one does not unpickle.
Found(p, k) == IF InMemory(p, k) THEN {mem[p][k]}
               ELSE IF OnDisk(p, k) /\ disk[k].state = "sound" THEN {disk[k]} ELSE {}
Look(p, k) ==
  LET sound == disk[k].state = "sound" IN
  /\ mem' = IF OnDisk(p, k) /\ sound THEN [mem EXCEPT ![p][k] = Promoted(disk[k])] ELSE mem
  /\ disk' = IF OnDisk(p, k) /\ ~sound THEN [disk EXCEPT ![k] = NoEntry] ELSE disk

\* set: memory first; the disk is best-effort and may keep what it had.
Stored(old) == [age |-> 0, old |-> old, state |-> "sound"]
Set(p, k, old) ==
  LET e == Stored(old) IN
  /\ mem' = [mem EXCEPT ![p][k] = e]
  /\ disk' \in {disk, [disk EXCEPT ![k] = e]}

Clear(p) ==
  /\ mem' = [mem EXCEPT ![p] = [k \in Key |-> NoEntry]]
  /\ disk' = [k \in Key |-> NoEntry]
  /\ UNCHANGED <<pc, spent, tries, got>>

----------------------------------------------------------------------------
(* One call of the provider function. *)

End(t) == /\ pc' = [pc EXCEPT ![t] = "idle"] /\ spent' = [spent EXCEPT ![t] = 0]
          /\ tries' = [tries EXCEPT ![t] = 0] /\ got' = [got EXCEPT ![t] = 0]
Fail(t) == End(t) /\ UNCHANGED <<mem, disk>>

\* cached's wrapper looks for the frame.
Call(t) ==
  LET p == ProcOf[t] IN
  /\ pc[t] = "idle" /\ Look(p, "frame")
  /\ pc' = [pc EXCEPT ![t] = IF Found(p, "frame") = {} THEN "fetch" ELSE "idle"]
  /\ UNCHANGED <<spent, tries, got>>

\* The function runs; fetch looks for the body, or asks the vendor.
Fetch(t) ==
  LET p == ProcOf[t] IN
  /\ pc[t] = "fetch" /\ Look(p, "body")
  /\ \/ \E e \in Found(p, "body") :
          got' = [got EXCEPT ![t] = e.old] /\ pc' = [pc EXCEPT ![t] = "build"]
     \/ /\ Found(p, "body") = {}
        /\ pc' = [pc EXCEPT ![t] = "ask"] /\ UNCHANGED got
  /\ UNCHANGED <<spent, tries>>

Answered(t) ==
  /\ pc[t] = "ask" /\ got' = [got EXCEPT ![t] = 0]
  /\ pc' = [pc EXCEPT ![t] = "keep"]
  /\ UNCHANGED <<mem, disk, spent, tries>>

\* An HTTP error, a 5xx or a 429 is tried again until the attempts are used up.
Refused(t) ==
  /\ pc[t] = "ask"
  /\ IF tries[t] + 1 < Retries
       THEN /\ tries' = [tries EXCEPT ![t] = @ + 1]
            /\ UNCHANGED <<mem, disk, pc, spent, got>>
       ELSE Fail(t)

\* Any other 4xx ends the call.
Rejected(t) == pc[t] = "ask" /\ Fail(t)

\* The body is stored and returned to the provider function.
Keep(t) ==
  /\ pc[t] = "keep" /\ Set(ProcOf[t], "body", got[t])
  /\ pc' = [pc EXCEPT ![t] = "build"]
  /\ UNCHANGED <<spent, tries, got>>

\* The frame is built, stored and served ...
Build(t) ==
  /\ pc[t] = "build" /\ Set(ProcOf[t], "frame", got[t])
  /\ End(t)

\* ... or cannot be pickled: set raises with the memory already written ...
Unpicklable(t) ==
  /\ pc[t] = "build"
  /\ mem' = [mem EXCEPT ![ProcOf[t]]["frame"] = Stored(got[t])]
  /\ End(t) /\ UNCHANGED disk

\* ... or there is nothing to build: an error, or None, which is not kept.
Empty(t) == pc[t] = "build" /\ Fail(t)

----------------------------------------------------------------------------
(* Processes and time. *)

\* A process ends, with its memory, and starts again over the same file.
Restart(p) ==
  LET mine == {t \in Thread : ProcOf[t] = p}
      Cut(f, x) == [t \in Thread |-> IF t \in mine THEN x ELSE f[t]]
  IN  /\ mem' = [mem EXCEPT ![p] = [k \in Key |-> NoEntry]]
      /\ pc' = Cut(pc, "idle") /\ spent' = Cut(spent, 0)
      /\ tries' = Cut(tries, 0) /\ got' = Cut(got, 0)
      /\ UNCHANGED disk

\* A parser or library changed: what it pickled no longer loads.
Spoil(k) == /\ disk[k].state = "sound" /\ disk' = [disk EXCEPT ![k].state = "spoilt"]
            /\ UNCHANGED <<mem, pc, spent, tries, got>>

Older(a) == IF a < Ancient THEN a + 1 ELSE a
Aged(e, k) == IF Fresh([e EXCEPT !.age = @ + 1], k)
                THEN [e EXCEPT !.age = @ + 1, !.old = Older(@)] ELSE NoEntry
Tick ==
  LET busy == {t \in Thread : pc[t] # "idle"} IN
  /\ \A t \in busy : spent[t] < Slow
  /\ spent' = [t \in Thread |-> IF t \in busy THEN spent[t] + 1 ELSE 0]
  /\ got' = [t \in Thread |-> IF pc[t] \in {"keep", "build"} THEN Older(got[t]) ELSE 0]
  /\ mem' = [p \in Proc |-> [k \in Key |-> Aged(mem[p][k], k)]]
  /\ disk' = [k \in Key |-> Aged(disk[k], k)]
  /\ UNCHANGED <<pc, tries>>

Next == \/ \E t \in Thread : \/ Call(t) \/ Fetch(t) \/ Answered(t) \/ Refused(t)
                             \/ Rejected(t) \/ Keep(t) \/ Build(t)
                             \/ Unpicklable(t) \/ Empty(t)
        \/ \E p \in Proc : Clear(p) \/ Restart(p)
        \/ \E k \in Key : Spoil(k)
        \/ Tick

Spec == Init /\ [][Next]_vars

----------------------------------------------------------------------------
(* Properties. *)

\* A value is at least as old as the entry that holds it, and a call gives up
\* within its attempts.
TypeOK ==
  /\ pc \in [Thread -> {"idle", "fetch", "ask", "keep", "build"}]
  /\ tries \in [Thread -> 0 .. Retries - 1] /\ spent \in [Thread -> 0 .. Slow]
  /\ \A k \in Key : \A e \in {disk[k]} \cup {mem[p][k] : p \in Proc} :
       e.age <= e.old

\* The ages a value can be served at now: found by a caller, or just built.
ServedAges == {e.old : e \in UNION {Found(p, "frame") : p \in Proc}}
                \cup {got[t] : t \in {u \in Thread : pc[u] = "build"}}

\* However calls overlap, processes restart and rows move between the layers,
\* a served value left the vendor less than the two lifetimes ago, and the
\* time the two calls took that stored its body and its frame: reading a row
\* back from disk never renews it.
ServedFresh == \A a \in ServedAges : a < Ttl["frame"] + Ttl["body"] + 2 * Slow

=============================================================================

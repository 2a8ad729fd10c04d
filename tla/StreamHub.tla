------------------------------ MODULE StreamHub ------------------------------
(***************************************************************************)
(* The fan-out hub of backend/stream/hub.py over the Yahoo source of       *)
(* sources.py, with the readers that subscribe, drain and close.           *)
(*                                                                         *)
(* Everything runs on one event loop; an action is what runs between two   *)
(* awaits.  The hub's asyncio lock is held over the awaits inside          *)
(* subscribe, unsubscribe and the stop, so publish, drains, the linger     *)
(* timer and the source's own task interleave with them.                   *)
(*                                                                         *)
(* A tick is its number in the vendor's sequence for its symbol.  Frames   *)
(* sent to the vendor arrive in order: a send changes what the vendor      *)
(* carries, its completion only returns to the caller.                     *)
(***************************************************************************)
EXTENDS Integers, FiniteSets

CONSTANTS
    Reader,      \* names for the readers, one subscription each at a time
    Symbol,      \* symbols of the vendor
    Wants,       \* the symbols each reader asks for
    MaxTicks,    \* bound: ticks the vendor prints for a symbol
    MayVanish    \* whether a browser may leave at a moment whose clean-up is cut

ASSUME ReaderAssumption == IsFiniteSet(Reader) /\ MayVanish \in BOOLEAN
ASSUME WantsAssumption == Wants \in [Reader -> (SUBSET Symbol) \ {{}}]
ASSUME TicksAssumption == MaxTicks \in Nat

VARIABLES
    reader,     \* where each reader is
    holder,     \* who holds the hub's lock
    subs,       \* hub._subs
    refs,       \* hub._refs, 0 for a symbol without entry
    linger,     \* hub._linger is armed
    check,      \* a task for _stop_if_idle waits for the lock
    task,       \* hub._task, the source's run
    stopping,   \* source._stopping
    symbols,    \* source._symbols
    open,       \* source.connected
    wire,       \* what the vendor carries on the open socket
    printed,    \* the vendor's last tick of each symbol
    latest,     \* hub.latest
    pending,    \* the pending tick of each reader and symbol
    seen        \* the tick each reader drained last

hubVars    == <<holder, subs, refs, linger, check, task>>
sourceVars == <<stopping, symbols, open, wire, printed>>
tickVars   == <<latest, pending, seen>>
vars       == <<reader, hubVars, sourceVars, tickVars>>

\* "joining" and "left" readers hold the lock over an await; a "vanished" one
\* subscribed and will never close, a "cut" one left without arming the timer.
ReaderState == {"out", "asking", "joining", "joined", "reading", "leaving", "left",
                "vanished", "cut"}
Nobody == "nobody"
Hub    == "hub"          \* _stop_if_idle and shutdown
Tick   == 0..MaxTicks    \* 0 stands for no tick

----------------------------------------------------------------------------
Init ==
    /\ reader = [r \in Reader |-> "out"]
    /\ holder = Nobody
    /\ subs = {}
    /\ refs = [s \in Symbol |-> 0]
    /\ linger = FALSE
    /\ check = FALSE
    /\ task = "none"
    /\ stopping = FALSE
    /\ symbols = {}
    /\ open = FALSE
    /\ wire = {}
    /\ printed = [s \in Symbol |-> 0]
    /\ latest = [s \in Symbol |-> 0]
    /\ pending = [r \in Reader |-> [s \in Symbol |-> 0]]
    /\ seen = [r \in Reader |-> [s \in Symbol |-> 0]]

NoTicks == [s \in Symbol |-> 0]

Watched(counts) == {s \in Symbol : counts[s] > 0}

\* source.set_symbols(): the union is stored, and when the socket is open the
\* difference is sent; without a difference nothing is called.
SetSymbols(union) ==
    /\ symbols' = union
    /\ wire' = IF open THEN (wire \ (symbols \ union)) \cup (union \ symbols) ELSE wire

----------------------------------------------------------------------------
(* Readers.                                                                *)

\* A request builds a subscription and waits for the lock.
Ask(r) ==
    /\ reader[r] \in {"out", "cut"}
    /\ reader' = [reader EXCEPT ![r] = "asking"]
    /\ pending' = [pending EXCEPT ![r] = NoTicks]
    /\ seen' = [seen EXCEPT ![r] = NoTicks]
    /\ UNCHANGED <<hubVars, sourceVars, latest>>

\* Slip: a symbol somebody watches already is not counted again.
JoinedOnce(r) == [s \in Symbol |-> IF s \in Wants[r] /\ refs[s] = 0 THEN 1 ELSE refs[s]]

JoinedRefs(r) == [s \in Symbol |-> IF s \in Wants[r] THEN refs[s] + 1 ELSE refs[s]]

Join(r) ==
    /\ reader[r] = "asking"
    /\ holder = Nobody
    /\ holder' = r
    /\ reader' = [reader EXCEPT ![r] = "joining"]
    /\ subs' = subs \cup {r}
    /\ refs' = JoinedRefs(r)
    /\ linger' = FALSE
    /\ task' = "running"
    /\ IF Watched(refs') # Watched(refs) THEN SetSymbols(Watched(refs'))
       ELSE UNCHANGED <<symbols, wire>>
    /\ stopping' = IF task = "none" THEN FALSE ELSE stopping
    /\ UNCHANGED <<check, open, printed, tickVars>>

\* Slip: what the hub knows is not handed to the new reader.
ReplayedNothing(r) == pending[r]

\* The latest tick of each symbol, over what was pushed meanwhile.
Replayed(r) == [s \in Symbol |-> IF s \in Wants[r] /\ latest[s] # 0
                                 THEN latest[s] ELSE pending[r][s]]

\* The lock is released and the reader gets what the hub already knows.
Joined(r) ==
    /\ reader[r] = "joining"
    /\ holder' = Nobody
    /\ reader' = [reader EXCEPT ![r] = "joined"]
    /\ pending' = [pending EXCEPT ![r] = Replayed(r)]
    /\ UNCHANGED <<subs, refs, linger, check, task, sourceVars, latest, seen>>

\* The response starts; from its first frame on, its end closes the reader.
FirstFrame(r) ==
    /\ reader[r] = "joined"
    /\ reader' = [reader EXCEPT ![r] = "reading"]
    /\ UNCHANGED <<hubVars, sourceVars, tickVars>>

\* The browser leaves before that: no code closes the subscription.
Vanish(r) ==
    /\ reader[r] = "joined"
    /\ MayVanish
    /\ reader' = [reader EXCEPT ![r] = "vanished"]
    /\ UNCHANGED <<hubVars, sourceVars, tickVars>>

\* drain(): one tick per symbol, the newest.
Drain(r) ==
    /\ reader[r] = "reading"
    /\ pending[r] # NoTicks
    /\ seen' = [seen EXCEPT ![r] = [s \in Symbol |->
                    IF pending[r][s] # 0 THEN pending[r][s] ELSE seen[r][s]]]
    /\ pending' = [pending EXCEPT ![r] = NoTicks]
    /\ UNCHANGED <<reader, hubVars, sourceVars, latest>>

Close(r) ==
    /\ reader[r] = "reading"
    /\ reader' = [reader EXCEPT ![r] = "leaving"]
    /\ UNCHANGED <<hubVars, sourceVars, tickVars>>

\* Slip: the last watcher of a symbol is recognised one too early.
LeftEarly(r) == [s \in Symbol |-> IF s \notin Wants[r] THEN refs[s]
                                  ELSE IF refs[s] - 1 <= 1 THEN 0 ELSE refs[s] - 1]

LeftRefs(r) == [s \in Symbol |-> IF s \notin Wants[r] THEN refs[s]
                                 ELSE IF refs[s] - 1 <= 0 THEN 0 ELSE refs[s] - 1]

Leave(r) ==
    /\ reader[r] = "leaving" /\ r \in subs
    /\ holder = Nobody
    /\ holder' = r
    /\ reader' = [reader EXCEPT ![r] = "left"]
    /\ subs' = subs \ {r}
    /\ refs' = LeftRefs(r)
    /\ IF Watched(refs') # Watched(refs) THEN SetSymbols(Watched(refs'))
       ELSE UNCHANGED <<symbols, wire>>
    /\ UNCHANGED <<linger, check, task, stopping, open, printed, tickVars>>

\* The close runs in a response that is being cancelled, which cancels it where
\* it waits: for the lock that somebody holds, and the subscription stays.
LeaveCancelled(r) ==
    /\ reader[r] = "leaving" /\ r \in subs
    /\ MayVanish /\ holder # Nobody
    /\ reader' = [reader EXCEPT ![r] = "vanished"]
    /\ UNCHANGED <<hubVars, sourceVars, tickVars>>

\* A subscription the shutdown has dropped is left alone.
LeaveNothing(r) ==
    /\ reader[r] = "leaving" /\ r \notin subs
    /\ holder = Nobody
    /\ reader' = [reader EXCEPT ![r] = "out"]
    /\ UNCHANGED <<hubVars, sourceVars, tickVars>>

\* Slip: the reader that leaves is taken to be still there.
LingersOneEarly == Cardinality(subs) = 1

\* The timer starts when the last reader has left.
Lingers == subs = {}

Left(r) ==
    /\ reader[r] = "left"
    /\ holder' = Nobody
    /\ reader' = [reader EXCEPT ![r] = "out"]
    /\ linger' = (linger \/ Lingers)
    /\ UNCHANGED <<subs, refs, check, task, sourceVars, tickVars>>

\* Or while the last reader's difference is sent: the lock is released, and the
\* timer is never armed.
LeftCancelled(r) ==
    /\ reader[r] = "left" /\ subs = {}
    /\ MayVanish
    /\ holder' = Nobody
    /\ reader' = [reader EXCEPT ![r] = "cut"]
    /\ UNCHANGED <<subs, refs, linger, check, task, sourceVars, tickVars>>

----------------------------------------------------------------------------
(* The hub's own tasks.                                                    *)

LingerOver ==
    /\ linger
    /\ linger' = FALSE
    /\ check' = TRUE
    /\ UNCHANGED <<reader, holder, subs, refs, task, sourceVars, tickVars>>

\* Slip: nobody looks whether a reader came back while the timer ran.
IdleAnyway == TRUE

Idle == subs = {}

\* _stop_if_idle(): with the lock, back out when somebody subscribed, else
\* tell the source to stop and wait for its task.
StopIfIdle ==
    /\ check
    /\ holder = Nobody
    /\ check' = FALSE
    /\ IF Idle /\ task # "none"
       THEN holder' = Hub /\ task' = "none" /\ stopping' = TRUE
       ELSE UNCHANGED <<holder, task, stopping>>
    /\ UNCHANGED <<reader, subs, refs, linger, symbols, open, wire, printed, tickVars>>

\* The timer is cancelled before the lock is asked for: one that is armed
\* meanwhile stays.
Shutdown ==
    /\ holder = Nobody
    /\ linger' \in {FALSE, linger}
    /\ subs' = {}
    /\ refs' = [s \in Symbol |-> 0]
    /\ task' = "none"
    /\ IF task # "none" THEN holder' = Hub /\ stopping' = TRUE
       ELSE UNCHANGED <<holder, stopping>>
    /\ UNCHANGED <<reader, check, symbols, open, wire, printed, tickVars>>

\* The cancelled task has closed its socket.
Stopped ==
    /\ holder = Hub
    /\ holder' = Nobody
    /\ open' = FALSE
    /\ wire' = {}
    /\ UNCHANGED <<reader, subs, refs, linger, check, task, stopping, symbols, printed,
                   tickVars>>

----------------------------------------------------------------------------
(* The source's task and the vendor.                                       *)

\* The first frame on a new socket subscribes to the whole union.
Connect ==
    /\ task = "running" /\ ~stopping /\ ~open
    /\ open' = TRUE
    /\ wire' = symbols
    /\ UNCHANGED <<reader, hubVars, stopping, symbols, printed, tickVars>>

\* The socket breaks; the source goes round its loop and tries again.
Drop ==
    /\ open
    /\ open' = FALSE
    /\ wire' = {}
    /\ UNCHANGED <<reader, hubVars, stopping, symbols, printed, tickVars>>

\* The vendor drops a subscription that was not refreshed for a while.
Forget(s) ==
    /\ open /\ s \in wire
    /\ wire' = wire \ {s}
    /\ UNCHANGED <<reader, hubVars, stopping, symbols, open, printed, tickVars>>

\* Every fifteen seconds the union is sent again.
Heartbeat ==
    /\ open /\ task = "running"
    /\ wire' = wire \cup symbols
    /\ UNCHANGED <<reader, hubVars, stopping, symbols, open, printed, tickVars>>

\* publish(): every subscription of the symbol holds the new tick.
Pushed(s, n) ==
    [r \in Reader |-> IF r \in subs /\ s \in Wants[r]
                      THEN [pending[r] EXCEPT ![s] = n] ELSE pending[r]]

\* A tick nobody watches any more is dropped by the hub.
Publish(s) ==
    /\ open /\ s \in wire /\ task = "running"
    /\ printed[s] < MaxTicks
    /\ printed' = [printed EXCEPT ![s] = @ + 1]
    /\ IF refs[s] > 0
       THEN /\ latest' = [latest EXCEPT ![s] = printed'[s]]
            /\ pending' = Pushed(s, printed'[s])
       ELSE UNCHANGED <<latest, pending>>
    /\ UNCHANGED <<reader, hubVars, stopping, symbols, open, wire, seen>>

ReaderStep(r) ==
    \/ Join(r) \/ Joined(r) \/ FirstFrame(r) \/ Leave(r) \/ LeaveNothing(r) \/ Left(r)

HubStep == StopIfIdle \/ Stopped

Next ==
    \/ \E r \in Reader : \/ Ask(r) \/ ReaderStep(r) \/ Drain(r) \/ Close(r)
                         \/ Vanish(r) \/ LeaveCancelled(r) \/ LeftCancelled(r)
    \/ LingerOver \/ HubStep \/ Shutdown
    \/ Connect \/ Drop \/ Heartbeat
    \/ \E s \in Symbol : Forget(s) \/ Publish(s)

Spec == Init /\ [][Next]_vars

\* The lock is fair and is released when the vendor takes a frame; the timers
\* of the linger and of the heartbeat go off; a source that is told to run
\* gets through at last, however often the socket breaks.
Fairness ==
    /\ \A r \in Reader : SF_vars(ReaderStep(r))
    /\ WF_vars(LingerOver) /\ SF_vars(HubStep)
    /\ SF_vars(Connect) /\ SF_vars(Heartbeat)

FairSpec == Spec /\ Fairness

----------------------------------------------------------------------------
(* Properties.                                                             *)

\* The variables have the types the code gives them.
TypeOK ==
    /\ reader \in [Reader -> ReaderState]
    /\ holder \in Reader \cup {Nobody, Hub}
    /\ subs \subseteq Reader
    /\ refs \in [Symbol -> 0..Cardinality(Reader)]
    /\ linger \in BOOLEAN /\ check \in BOOLEAN
    /\ task \in {"none", "running"}
    /\ stopping \in BOOLEAN
    /\ symbols \subseteq Symbol
    /\ open \in BOOLEAN
    /\ wire \subseteq Symbol
    /\ printed \in [Symbol -> Tick]
    /\ latest \in [Symbol -> Tick]
    /\ pending \in [Reader -> [Symbol -> Tick]]
    /\ seen \in [Reader -> [Symbol -> Tick]]

\* A symbol's count is the number of its subscriptions: nobody's leaving
\* takes the symbol from another reader, nobody's is counted after it left.
RefsCount ==
    \A s \in Symbol : refs[s] = Cardinality({r \in subs : s \in Wants[r]})

\* "The upstream subscription is always the union of what somebody is watching
\* and nothing more" (docs/live-streaming.md:31): while anybody is subscribed
\* the source's set is that union, whatever broke or reconnected meanwhile, and
\* the vendor never carries anything beyond the source's set.
UnionUpstream ==
    /\ subs # {} => symbols = UNION {Wants[r] : r \in subs}
    /\ wire \subseteq symbols

\* Whoever is subscribed has a running source that was not told to stop,
\* however the linger timer and a returning reader overlap.
FeedRuns == subs # {} => task = "running" /\ ~stopping

\* A reader has the newest tick of each of its symbols, or it waits for it:
\* coalescing drops old ticks only, and no tick falls between the
\* subscription and the replay of what the hub knows.
NewestWaits ==
    \A r \in subs, s \in Symbol :
        reader[r] \in {"joined", "reading", "leaving"} /\ s \in Wants[r] =>
            latest[s] = (IF pending[r][s] # 0 THEN pending[r][s] ELSE seen[r][s])

\* What a reader asked for is carried by the vendor at last.
FeedArrives ==
    \A r \in Reader : \A s \in Wants[r] :
        (reader[r] = "reading" /\ r \in subs)
            ~> (s \in wire \/ reader[r] # "reading" \/ r \notin subs)

\* Once no subscription is left for good, the source's task ends: the timer
\* is armed by whoever leaves last and not lost to a reader that came back; only
\* a reader cut off while it left takes the timer with it (hub.py:159-161).
IdleStops ==
    subs = {} ~> (subs # {} \/ task = "none" \/ \E r \in Reader : reader[r] = "cut")
=============================================================================

----------------------------- MODULE PaperSession -----------------------------
(***************************************************************************)
(* A live paper session that executes at a broker: LiveSession of          *)
(* backend/trading/manager.py with the AlpacaPaperExecutor of broker.py    *)
(* and the order machine of oms.py.                                        *)
(*                                                                         *)
(* On the event loop run the session's own task (_run) and the handlers of *)
(* stop and kill; what they do between two awaits is one action.  Every    *)
(* flush_and_poll runs on a worker thread, one for the task and one for    *)
(* each kill, and writes the orders' states while the loop goes on; each   *)
(* of its requests is a step.  The venue executes, ends and rejects orders *)
(* when it likes.                                                          *)
(*                                                                         *)
(* One symbol is modelled, without prices: whether the risk gate lets an   *)
(* order pass is a choice (a refused order never leaves the process), the  *)
(* kill switch and the override of the kill path are not.                  *)
(***************************************************************************)
EXTENDS Integers, FiniteSets, Functions

CONSTANTS
    Request,      \* names for the orders the strategy may place
    Killer,       \* presses of the red button
    Flatten,      \* whether a press asks to flatten: a subset of BOOLEAN
    Quantity,     \* signed quantities the strategy may ask for
    Cancels,      \* whether the strategy uses ctx.cancel_open
    MaxRounds,    \* rounds the kill gives the broker to fill the flattening
    MaxFailures   \* bound: submit replies lost and cancel requests failed

ASSUME NameAssumption == /\ Request \cap Killer = {} /\ "run" \notin Request \cup Killer
                         /\ IsFiniteSet(Request) /\ IsFiniteSet(Killer)
ASSUME ChoiceAssumption == Flatten \subseteq BOOLEAN /\ Cancels \in BOOLEAN
ASSUME NumberAssumption == /\ Quantity \subseteq Int \ {0}
                           /\ MaxRounds \in Nat \ {0} /\ MaxFailures \in Nat

VARIABLES
    order,      \* oms.orders
    pos,        \* oms.positions, for the one symbol
    outbox,     \* the executor's _outbox
    venue,      \* the orders at the venue
    killed,     \* risk.killed
    state,      \* LiveSession.state
    task,       \* where _run is: "awake" on the loop, "syncing" while its
                \* thread works, "booking" the fills, "gone"
    killer,     \* where each kill is, and the rounds it has waited
    work,       \* what each worker thread holds
    failures    \* how many failures have happened

vars == <<order, pos, outbox, venue, killed, state, task, killer, work, failures>>

Order  == Request \cup Killer     \* a kill places at most one flattening order
Worker == {"run"} \cup Killer

OpenStates == {"SUBMITTED", "ACKNOWLEDGED"}
OrderState == OpenStates \cup {"none", "FILLED", "CANCELLED", "REJECTED"}
OrderRecord == [state : OrderState, qty : Int, known : BOOLEAN]
NoOrder     == [state |-> "none", qty |-> 0, known |-> FALSE]

VenueStatus == {"none", "live", "filled", "closed", "rejected"}
VenueOrder  == [status : VenueStatus, filled : Int, posts : Nat]
NoVenueOrder == [status |-> "none", filled |-> 0, posts |-> 0]

Thread == [pc : {"idle", "swap", "work"}, box : SUBSET Order, sent : SUBSET Order,
           open : SUBSET Order, fills : SUBSET Order]
Idle   == [pc |-> "idle", box |-> {}, sent |-> {}, open |-> {}, fills |-> {}]

KillPC == {"idle", "deleting", "deleted", "flushing", "booking", "resting", "ending", "done",
           "failed"}
Kill   == [pc : KillPC, flatten : BOOLEAN, rounds : 0..MaxRounds]

----------------------------------------------------------------------------
Init ==
    /\ order = [o \in Order |-> NoOrder]
    /\ pos = 0
    /\ outbox = {}
    /\ venue = [o \in Order |-> NoVenueOrder]
    /\ killed = FALSE
    /\ state = "running"
    /\ task = "awake"
    /\ killer = [k \in Killer |-> [pc |-> "idle", flatten |-> FALSE, rounds |-> 0]]
    /\ work = [w \in Worker |-> Idle]
    /\ failures = 0

OpenIn(orders) == {o \in Order : orders[o].state \in OpenStates}

\* An order marked on its way: place_order queues it for the next flush.
Sent(q) == [state |-> "SUBMITTED", qty |-> q, known |-> FALSE]

\* cancel_open(): open orders are cancelled locally, and only locally.
Cancelled == [o \in Order |-> IF order[o].state \in OpenStates
                              THEN [order[o] EXCEPT !.state = "CANCELLED"] ELSE order[o]]

\* apply_external_fill(): the order takes the quantity the venue filled,
\* whatever state it is in by now, and the position moves by it.
Booked(o) == [order EXCEPT ![o].state = "FILLED", ![o].qty = venue[o].filled]

\* The loop runs one piece of code at a time: while it books the fills of a
\* flush, no other handler runs, but the on_fill hooks do.
LoopFree == task # "booking" /\ \A k \in Killer : killer[k].pc # "booking"
HookRuns == task = "awake" \/ ~LoopFree

----------------------------------------------------------------------------
(* The strategy, in a hook that the loop calls.                            *)

StrategyOrder(o, q) ==
    /\ HookRuns
    /\ ~killed
    /\ order[o].state = "none"
    /\ order' = [order EXCEPT ![o] = Sent(q)]
    /\ outbox' = outbox \cup {o}
    /\ UNCHANGED <<pos, venue, killed, state, task, killer, work, failures>>

StrategyCancel ==
    /\ HookRuns
    /\ Cancels
    /\ order' = Cancelled
    /\ UNCHANGED <<pos, outbox, venue, killed, state, task, killer, work, failures>>

\* An order that finds the loss limit crossed engages the switch; nothing is
\* cancelled and the session goes on.
LossLimit ==
    /\ HookRuns
    /\ killed' = TRUE
    /\ UNCHANGED <<order, pos, outbox, venue, state, task, killer, work, failures>>

\* A hook raises: the session dies visibly and its task ends, with the fills
\* that it had not booked.
Crash ==
    /\ task \in {"awake", "booking"}
    /\ task = "awake" => LoopFree
    /\ task' = "gone"
    /\ state' = "stopped"
    /\ work' = IF task = "booking" THEN [work EXCEPT !["run"] = Idle] ELSE work
    /\ UNCHANGED <<order, pos, outbox, venue, killed, killer, failures>>

----------------------------------------------------------------------------
(* _broker_sync() of the task, and its worker threads' flush_and_poll().   *)

\* The open orders are listed on the loop, before the thread starts.
Started(orders) == [Idle EXCEPT !.pc = "swap", !.open = OpenIn(orders)]

BeginSync ==
    /\ task = "awake" /\ LoopFree
    /\ task' = "syncing"
    /\ work' = [work EXCEPT !["run"] = Started(order)]
    /\ UNCHANGED <<order, pos, outbox, venue, killed, state, killer, failures>>

\* Slip: the queue is read and emptied only after its orders were sent.
SwappedUnlocked(w) == <<[work[w] EXCEPT !.pc = "work", !.box = outbox], outbox>>

\* Slip: the thread takes what was open when it was started, and clears the queue.
SwappedStale(w) ==
    <<[work[w] EXCEPT !.pc = "work", !.box = outbox \cap work[w].open], {}>>

\* Under the lock the thread takes the queue and leaves an empty one.
Swapped(w) == <<[work[w] EXCEPT !.pc = "work", !.box = outbox], {}>>

Swap(w) ==
    /\ work[w].pc = "swap"
    /\ work' = [work EXCEPT ![w] = Swapped(w)[1]]
    /\ outbox' = Swapped(w)[2]
    /\ UNCHANGED <<order, pos, venue, killed, state, task, killer, failures>>

\* A thread posts the orders it took one after the other.
Posting(w, o) == work[w].pc = "work" /\ work[w].sent = {} /\ o \in work[w].box

\* The venue takes a new order in; its reply is still under way.
PostAccepted(w, o) ==
    /\ Posting(w, o)
    /\ work' = [work EXCEPT ![w].box = @ \ {o}, ![w].sent = @ \cup {o}]
    /\ venue' = [venue EXCEPT ![o].status = "live", ![o].posts = @ + 1]
    /\ UNCHANGED <<order, pos, outbox, killed, state, task, killer, failures>>

PostRefused(w, o) ==
    /\ Posting(w, o)
    /\ work' = [work EXCEPT ![w].box = @ \ {o}]
    /\ order' = [order EXCEPT ![o].state = "REJECTED"]
    /\ UNCHANGED <<pos, outbox, venue, killed, state, task, killer, failures>>

\* Slip: the acknowledgement is written without the venue's id.
PostMisread(w, o) ==
    /\ o \in work[w].sent
    /\ work' = [work EXCEPT ![w].sent = @ \ {o}]
    /\ order' = [order EXCEPT ![o].state = "ACKNOWLEDGED"]
    /\ UNCHANGED <<pos, outbox, venue, killed, state, task, killer, failures>>

\* The thread writes the acknowledgement over whatever the state is by now.
PostReplied(w, o) ==
    /\ o \in work[w].sent
    /\ work' = [work EXCEPT ![w].sent = @ \ {o}]
    /\ order' = [order EXCEPT ![o].state = "ACKNOWLEDGED", ![o].known = TRUE]
    /\ UNCHANGED <<pos, outbox, venue, killed, state, task, killer, failures>>

\* The reply is lost: the order is recorded as rejected, the venue has it.
PostLost(w, o) ==
    /\ o \in work[w].sent
    /\ failures < MaxFailures
    /\ failures' = failures + 1
    /\ work' = [work EXCEPT ![w].sent = @ \ {o}]
    /\ order' = [order EXCEPT ![o].state = "REJECTED"]
    /\ UNCHANGED <<pos, outbox, venue, killed, state, task, killer>>

\* Slip: an order the venue has begun to execute counts as filled.
EndSeenEarly(o) == IF venue[o].filled # 0 THEN "FILLED" ELSE order[o].state

\* Slip: expired and done_for_day are not among the ends the poll knows.
EndSeenFilledOnly(o) == IF venue[o].status = "filled" THEN "FILLED" ELSE order[o].state

\* What the poll of an order makes of the venue's status; "FILLED" stands for
\* an execution reported to the loop, which books it.  What was executed of an
\* order that the venue closed is not looked at.
EndSeen(o) ==
    CASE venue[o].status = "filled"   -> "FILLED"
      [] venue[o].status = "closed"   -> "CANCELLED"
      [] venue[o].status = "rejected" -> "REJECTED"
      [] OTHER -> order[o].state

\* Only orders with a broker id that are open by now are polled.
Pollable(o) == order[o].known /\ order[o].state \in OpenStates

Polling(w, o) ==
    /\ work[w].pc = "work"
    /\ work[w].box = {} /\ work[w].sent = {}
    /\ o \in work[w].open

Poll(w, o) ==
    /\ Polling(w, o)
    /\ Pollable(o)
    /\ LET end == EndSeen(o) IN
       /\ work' = [work EXCEPT ![w].open = @ \ {o},
                               ![w].fills = IF end = "FILLED" THEN @ \cup {o} ELSE @]
       /\ order' = [order EXCEPT ![o].state = IF end = "FILLED" THEN @ ELSE end]
    /\ UNCHANGED <<pos, outbox, venue, killed, state, task, killer, failures>>

\* The order is not to be polled, or its request fails: next round.
PollNothing(w, o) ==
    /\ Polling(w, o)
    /\ work' = [work EXCEPT ![w].open = @ \ {o}]
    /\ UNCHANGED <<order, pos, outbox, venue, killed, state, task, killer, failures>>

Finished(w) ==
    work[w].pc = "work" /\ work[w].box = {} /\ work[w].sent = {} /\ work[w].open = {}

\* The task resumes with the thread's fills, books them and goes round.
EndSync ==
    /\ task = "syncing" /\ LoopFree
    /\ Finished("run")
    /\ task' = "booking"
    /\ UNCHANGED <<order, pos, outbox, venue, killed, state, killer, work, failures>>

\* One fill of the flush, for the task or for a kill.
BookFill(w, o) ==
    /\ IF w = "run" THEN task = "booking" ELSE killer[w].pc = "booking"
    /\ o \in work[w].fills
    /\ order' = Booked(o)
    /\ pos' = pos + venue[o].filled
    /\ work' = [work EXCEPT ![w].fills = @ \ {o}]
    /\ UNCHANGED <<outbox, venue, killed, state, task, killer, failures>>

Resume ==
    /\ task = "booking" /\ work["run"].fills = {}
    /\ task' = "awake"
    /\ work' = [work EXCEPT !["run"] = Idle]
    /\ UNCHANGED <<order, pos, outbox, venue, killed, state, killer, failures>>

----------------------------------------------------------------------------
(* stop() and kill().                                                      *)

\* The task is cancelled where it waits; a worker it waited for runs on, and
\* nobody takes its fills.  on_stop may still place an order.
Stop ==
    /\ LoopFree
    /\ task' = "gone"
    /\ state' = "stopped"
    /\ \/ UNCHANGED <<order, outbox>>
       \/ /\ state = "running" /\ ~killed
          /\ \E o \in Request, q \in Quantity :
                /\ order[o].state = "none"
                /\ order' = [order EXCEPT ![o] = Sent(q)]
                /\ outbox' = outbox \cup {o}
    /\ UNCHANGED <<pos, venue, killed, killer, work, failures>>

PressKill(k, flatten) ==
    /\ killer[k].pc = "idle" /\ LoopFree
    /\ killed' = TRUE
    /\ killer' = [killer EXCEPT ![k].pc = "deleting", ![k].flatten = flatten]
    /\ UNCHANGED <<order, pos, outbox, venue, state, task, work, failures>>

\* cancel_all(): the venue closes every live order of the account.
DeleteAll(k) ==
    /\ killer[k].pc = "deleting"
    /\ killer' = [killer EXCEPT ![k].pc = "deleted"]
    /\ venue' = [o \in Order |-> IF venue[o].status = "live"
                                 THEN [venue[o] EXCEPT !.status = "closed"] ELSE venue[o]]
    /\ UNCHANGED <<order, pos, outbox, killed, state, task, work, failures>>

DeleteFails(k) ==
    /\ killer[k].pc = "deleting"
    /\ failures < MaxFailures
    /\ failures' = failures + 1
    /\ killer' = [killer EXCEPT ![k].pc = "deleted"]
    /\ UNCHANGED <<order, pos, outbox, venue, killed, state, task, work>>

\* Back on the loop: cancel locally, and with flatten place the order that
\* closes the position and start the first round.
CancelHere(k) ==
    /\ killer[k].pc = "deleted" /\ ~killer[k].flatten /\ LoopFree
    /\ order' = Cancelled
    /\ killer' = [killer EXCEPT ![k].pc = "ending"]
    /\ UNCHANGED <<pos, outbox, venue, killed, state, task, work, failures>>

CancelAndFlatten(k) ==
    /\ killer[k].pc = "deleted" /\ killer[k].flatten /\ LoopFree
    /\ IF pos = 0
       THEN order' = Cancelled /\ outbox' = outbox
       ELSE /\ order' = [Cancelled EXCEPT ![k] = Sent(-pos)]
            /\ outbox' = outbox \cup {k}
    /\ killer' = [killer EXCEPT ![k].pc = "flushing"]
    /\ work' = [work EXCEPT ![k] = Started(order')]
    /\ UNCHANGED <<pos, venue, killed, state, task, failures>>

\* Slip: the rounds are not counted, the kill waits until the book is flat.
RoundsEndWhenFlat(k) == FALSE

\* The broker gets a bounded number of rounds.
RoundsEnd(k) == killer[k].rounds + 1 = MaxRounds

EndFlush(k) ==
    /\ killer[k].pc = "flushing" /\ LoopFree
    /\ Finished(k)
    /\ killer' = [killer EXCEPT ![k].pc = "booking"]
    /\ UNCHANGED <<order, pos, outbox, venue, killed, state, task, work, failures>>

\* The round's fills are booked; a flat book ends the rounds, else one more
\* follows after a second's sleep.
EndRound(k) ==
    /\ killer[k].pc = "booking" /\ work[k].fills = {}
    /\ work' = [work EXCEPT ![k] = Idle]
    /\ killer' = [killer EXCEPT
         ![k].pc = IF pos = 0 \/ RoundsEnd(k) THEN "ending" ELSE "resting",
         ![k].rounds = IF @ = MaxRounds THEN @ ELSE @ + 1]
    /\ UNCHANGED <<order, pos, outbox, venue, killed, state, task, failures>>

\* The hook on_fill raises on a fill of a kill: the handler ends there with
\* its other fills, and the task goes on.
KillFails(k, o) ==
    /\ killer[k].pc = "booking"
    /\ o \in work[k].fills
    /\ order' = Booked(o)
    /\ pos' = pos + venue[o].filled
    /\ killer' = [killer EXCEPT ![k].pc = "failed"]
    /\ work' = [work EXCEPT ![k] = Idle]
    /\ UNCHANGED <<outbox, venue, killed, state, task, failures>>

NextRound(k) ==
    /\ killer[k].pc = "resting" /\ LoopFree
    /\ killer' = [killer EXCEPT ![k].pc = "flushing"]
    /\ work' = [work EXCEPT ![k] = Started(order)]
    /\ UNCHANGED <<order, pos, outbox, venue, killed, state, task, failures>>

\* stop(state="killed") at the end of a kill; on_stop finds the switch engaged.
EndKill(k) ==
    /\ killer[k].pc = "ending" /\ LoopFree
    /\ killer' = [killer EXCEPT ![k].pc = "done"]
    /\ task' = "gone"
    /\ state' = "killed"
    /\ UNCHANGED <<order, pos, outbox, venue, killed, work, failures>>

----------------------------------------------------------------------------
(* The venue.  A market order for the flattening carries the quantity the  *)
(* order had when it was posted.                                           *)

VenueFill(o) ==
    /\ venue[o].status = "live"
    /\ LET filled == venue[o].filled + (IF order[o].qty > 0 THEN 1 ELSE -1) IN
       venue' = [venue EXCEPT ![o].filled = filled,
                              ![o].status = IF filled = order[o].qty THEN "filled" ELSE "live"]
    /\ UNCHANGED <<order, pos, outbox, killed, state, task, killer, work, failures>>

VenueClose(o) ==
    /\ venue[o].status = "live"
    /\ venue' = [venue EXCEPT ![o].status = "closed"]
    /\ UNCHANGED <<order, pos, outbox, killed, state, task, killer, work, failures>>

VenueReject(o) ==
    /\ venue[o].status = "live" /\ venue[o].filled = 0
    /\ venue' = [venue EXCEPT ![o].status = "rejected"]
    /\ UNCHANGED <<order, pos, outbox, killed, state, task, killer, work, failures>>

TaskStep == BeginSync \/ EndSync \/ Resume \/ \E o \in Order : BookFill("run", o)

ThreadStep(w) ==
    \/ Swap(w)
    \/ \E o \in Order : \/ PostAccepted(w, o) \/ PostRefused(w, o) \/ PostReplied(w, o)
                        \/ PostLost(w, o) \/ Poll(w, o) \/ PollNothing(w, o)

KillStep(k) ==
    \/ DeleteAll(k) \/ DeleteFails(k) \/ CancelHere(k) \/ CancelAndFlatten(k)
    \/ EndFlush(k) \/ EndRound(k) \/ NextRound(k) \/ EndKill(k)
    \/ \E o \in Order : BookFill(k, o)

VenueStep(o) == VenueFill(o) \/ VenueClose(o) \/ VenueReject(o)

Next ==
    \/ \E o \in Request, q \in Quantity : StrategyOrder(o, q)
    \/ StrategyCancel \/ LossLimit \/ Crash \/ Stop \/ TaskStep
    \/ \E w \in Worker : ThreadStep(w)
    \/ \E k \in Killer : \/ KillStep(k) \/ \E o \in Order : KillFails(k, o)
                         \/ \E flatten \in Flatten : PressKill(k, flatten)
    \/ \E o \in Order : VenueStep(o)

Spec == Init /\ [][Next]_vars

\* The loop serves a task and a handler whose future is done in turn, however
\* often others run in between; a thread gets an answer or a timeout for every
\* request; a live order ends with the venue's day; and a poll that is repeated
\* for ever is answered at last.
Fairness ==
    /\ SF_vars(TaskStep)
    /\ \A w \in Worker : WF_vars(ThreadStep(w))
    /\ \A k \in Killer : SF_vars(KillStep(k))
    /\ \A o \in Order : WF_vars(VenueStep(o)) /\ SF_vars(\E w \in Worker : Poll(w, o))

FairSpec == Spec /\ Fairness

----------------------------------------------------------------------------
(* Properties.                                                             *)

\* The variables have the types the code gives them.
TypeOK ==
    /\ order \in [Order -> OrderRecord]
    /\ pos \in Int
    /\ outbox \subseteq Order
    /\ venue \in [Order -> VenueOrder]
    /\ killed \in BOOLEAN
    /\ state \in {"running", "stopped", "killed"}
    /\ task \in {"awake", "syncing", "booking", "gone"}
    /\ killer \in [Killer -> Kill]
    /\ work \in [Worker -> Thread]
    /\ failures \in 0..MaxFailures

\* However many threads flush at the same time, no order is posted twice:
\* flush_and_poll takes the queue under the lock (broker.py:128-129).
PostedOnce == \A o \in Order : venue[o].posts <= 1

\* An order on its way, without an answer of the venue, is queued or in the
\* hands of exactly one thread, also when it was cancelled meanwhile.
Holders(o) == {w \in Worker : o \in work[w].box \cup work[w].sent}
NothingLost ==
    \A o \in Order : order[o].state = "SUBMITTED" =>
        IF o \in outbox THEN Holders(o) = {} ELSE \E w \in Worker : Holders(o) = {w}

\* What was reported filled is in the position once and whole: each order
\* recorded as FILLED moved it by the executions the venue has for it, however
\* many threads polled it (broker.py:160-165, oms.py:143-151).
ExecutedOf(states) ==
    SumFunctionOnSet([o \in Order |-> venue[o].filled], {o \in Order : order[o].state \in states})
BookedOnce == pos = ExecutedOf({"FILLED"})

\* The book follows the venue (oms.py:147-148): the orders that ended here,
\* filled or cancelled by the venue, moved the position by what it executed of
\* them.  The code drops what was executed of an order that is then cancelled
\* or expires (broker.py:166-168).
BookFollowsVenue == pos = ExecutedOf({"FILLED", "CANCELLED"})

\* While the task lives, an order the venue executed, if only in part, is
\* booked, or its thread has the report, or it is still polled.  A session
\* without kill and cancel misses an execution in two ways: behind a lost reply,
\* recorded as a rejection, and in an order that the venue filled in part and
\* then closed, recorded as a cancellation.
ExecutionIsSeen ==
    \A o \in Order : venue[o].filled # 0 /\ task # "gone" =>
        \/ order[o].state = "FILLED"
        \/ order[o].state = "REJECTED" /\ failures > 0
        \/ order[o].state = "CANCELLED" /\ venue[o].status = "closed"
        \/ o \in outbox \cup UNION {work[w].sent \cup work[w].fills : w \in Worker}
        \/ order[o].known /\ order[o].state \in OpenStates

\* The order machine of oms.py, which knows no threads.
Lifecycle == INSTANCE OrderBook WITH
    Symbol <- {"symbol"},
    SymbolOf <- [o \in Order |-> "symbol"],
    state <- [o \in Order |-> order[o].state],
    qty   <- [o \in Order |-> order[o].qty],
    pos   <- [s \in {"symbol"} |-> pos]
LifecycleSpec == Lifecycle!Spec

\* A pressed kill ends, whatever the venue does with the flattening order.
KillEnds == \A k \in Killer : killer[k].pc = "deleting" ~> killer[k].pc \in {"done", "failed"}

\* While the session runs every open order comes to an end here.
OrdersResolve ==
    \A o \in Request : order[o].state \in OpenStates ~> order[o].state \notin OpenStates \/ task = "gone"
=============================================================================

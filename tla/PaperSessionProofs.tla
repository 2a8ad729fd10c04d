-------------------------- MODULE PaperSessionProofs --------------------------
(***************************************************************************)
(* Proofs about PaperSession, for any number of orders, kills and failures:*)
(* no order is posted twice, and none is lost between the queue and the    *)
(* threads.                                                                *)
(*                                                                         *)
(* Both follow from one inductive invariant: every order is in at most one *)
(* place (the queue or one thread's hands), an order that still has to be  *)
(* posted has not been posted, and a name that was not used is nowhere.    *)
(*                                                                         *)
(* What is proved of the books and of the life of the orders is a theorem  *)
(* under the hypothesis the code needs for it: the runs show that without  *)
(* it the promise fails, with a flattening kill (a fill can be booked      *)
(* twice) or with a cancel that overtakes an order (a filled order goes on *)
(* to be booked from CANCELLED).                                           *)
(***************************************************************************)
EXTENDS PaperSession, Sums

\* A thread that has not taken the queue holds nothing, and a thread runs only
\* while the task or the kill that started it waits for it.
ThreadsBegin ==
    /\ \A w \in Worker : work[w].pc # "work" =>
          work[w].box = {} /\ work[w].sent = {} /\ work[w].fills = {}
    /\ task = "awake" => work["run"].pc = "idle"
    /\ \A k \in Killer : killer[k].pc \notin {"flushing", "booking"} => work[k].pc = "idle"

\* Nothing is in a thread's hands when its fills are booked.
ThreadsEnd ==
    /\ task = "booking" =>
          work["run"].pc = "work" /\ work["run"].box = {} /\ work["run"].sent = {}
    /\ \A k \in Killer : killer[k].pc = "booking" =>
          work[k].pc = "work" /\ work[k].box = {} /\ work[k].sent = {}

\* An order is queued, or in one thread's hands, or neither.
OnePlace ==
    /\ \A o \in outbox, w \in Worker : o \notin work[w].box /\ o \notin work[w].sent
    /\ \A w \in Worker, o \in Order : ~(o \in work[w].box /\ o \in work[w].sent)
    /\ \A v, w \in Worker, o \in Order :
          /\ o \in work[v].box \/ o \in work[v].sent
          /\ o \in work[w].box \/ o \in work[w].sent
          => v = w

\* What still has to be posted has not been posted.
Unposted ==
    /\ \A o \in Order : venue[o].posts \in {0, 1}
    /\ \A o \in outbox : venue[o].posts = 0
    /\ \A w \in Worker : \A o \in work[w].box : venue[o].posts = 0

\* A name that was not used is nowhere; a kill uses its name when it flattens.
Unused ==
    /\ \A o \in Order : order[o].state = "none" =>
          /\ o \notin outbox /\ venue[o].posts = 0
          /\ \A w \in Worker : o \notin work[w].box /\ o \notin work[w].sent
                               /\ o \notin work[w].fills
    /\ \A k \in Killer : killer[k].pc \in {"idle", "deleting", "deleted"} =>
          order[k].state = "none"

\* An order on its way is queued or held.
Kept ==
    \A o \in Order : order[o].state = "SUBMITTED" =>
        o \in outbox \/ \E w \in Worker : o \in work[w].box \/ o \in work[w].sent

IInv == TypeOK /\ ThreadsBegin /\ ThreadsEnd /\ OnePlace /\ Unposted /\ Unused /\ Kept

\* StrategyOrder keeps the invariant.
LEMMA StrategyOrderKeeps ==
  ASSUME IInv, NEW o \in Request, NEW q \in Quantity, StrategyOrder(o, q)
  PROVE  IInv'
<1>1. TypeOK'
  BY NameAssumption, ChoiceAssumption, NumberAssumption DEF IInv, StrategyOrder, Sent,
     TypeOK, Order, Worker, OpenStates, OrderState, OrderRecord, VenueOrder,
     VenueStatus, Thread, Idle, Kill, KillPC, OpenIn
<1>2. /\ \A p \in Order \ {o} : order'[p].state = order[p].state
      /\ order'[o].state = "SUBMITTED"
  BY NameAssumption DEF IInv, StrategyOrder, Sent, TypeOK, OrderRecord, OrderState,
     OpenStates, Order
<1>3. /\ outbox' = outbox \cup {o}
  BY DEF StrategyOrder, Sent
<1>4. work' = work /\ venue' = venue /\ task' = task /\ killer' = killer
  BY DEF StrategyOrder
<1>5. order[o].state = "none" /\ o \in Order /\ o \notin Killer
  BY NameAssumption DEF IInv, StrategyOrder, Sent, TypeOK, Thread, Unused, Order, Worker
<1>6. ThreadsBegin'
  BY <1>2, <1>3, <1>4, <1>5, NameAssumption DEF IInv, ThreadsBegin, Worker
<1>7. ThreadsEnd'
  BY <1>2, <1>3, <1>4, <1>5, NameAssumption DEF IInv, ThreadsBegin, ThreadsEnd, Worker
<1>8. OnePlace'
  BY <1>2, <1>3, <1>4, <1>5, NameAssumption DEF IInv, OnePlace, ThreadsBegin,
     ThreadsEnd, Unused, TypeOK, Thread, Order, Worker
<1>9. Unposted'
  BY <1>2, <1>3, <1>4, <1>5, NameAssumption DEF IInv, Unposted, OnePlace, ThreadsBegin,
     ThreadsEnd, Unused, TypeOK, Thread, Order, Worker
<1>10. Unused'
  BY <1>2, <1>3, <1>4, <1>5, NameAssumption DEF IInv, Unused, ThreadsBegin, ThreadsEnd,
     Order, Worker
<1>11. Kept'
  BY <1>2, <1>3, <1>4, <1>5, NameAssumption DEF IInv, Kept, ThreadsBegin, ThreadsEnd,
     Unused, Order, Worker
<1> QED BY <1>1, <1>6, <1>7, <1>8, <1>9, <1>10, <1>11 DEF IInv

\* StrategyCancel keeps the invariant.
LEMMA StrategyCancelKeeps ==
  ASSUME IInv, StrategyCancel
  PROVE  IInv'
<1>1. TypeOK'
  BY SMTT(40), NameAssumption, ChoiceAssumption, NumberAssumption DEF IInv, StrategyCancel,
     Cancelled, TypeOK, Order, Worker, OpenStates, OrderState, OrderRecord, VenueOrder,
     VenueStatus, Thread, Idle, Kill, KillPC, OpenIn
<1>2. /\ \A p \in Order : (order'[p].state = "none") <=> (order[p].state = "none")
      /\ \A p \in Order : order'[p].state # "SUBMITTED"
  BY NameAssumption DEF IInv, StrategyCancel, Cancelled, TypeOK, OrderRecord,
     OrderState, OpenStates, Order
<1>3. work' = work /\ venue' = venue /\ outbox' = outbox /\ task' = task /\ killer' = killer
  BY DEF StrategyCancel
<1>4. ThreadsBegin'
  BY <1>2, <1>3, NameAssumption DEF IInv, ThreadsBegin, Worker
<1>5. ThreadsEnd'
  BY <1>2, <1>3, NameAssumption DEF IInv, ThreadsBegin, ThreadsEnd, Worker
<1>6. OnePlace'
  BY <1>2, <1>3, NameAssumption DEF IInv, OnePlace, ThreadsBegin, ThreadsEnd, Unused,
     TypeOK, Thread, Order, Worker
<1>7. Unposted'
  BY <1>2, <1>3, NameAssumption DEF IInv, Unposted, OnePlace, ThreadsBegin, ThreadsEnd,
     Unused, TypeOK, Thread, Order, Worker
<1>8. Unused'
  BY <1>2, <1>3, NameAssumption DEF IInv, Unused, ThreadsBegin, ThreadsEnd, Order, Worker
<1>9. Kept'
  BY <1>2, <1>3, NameAssumption DEF IInv, Kept, ThreadsBegin, ThreadsEnd, Unused, Order,
     Worker
<1> QED BY <1>1, <1>4, <1>5, <1>6, <1>7, <1>8, <1>9 DEF IInv

\* LossLimit keeps the invariant.
LEMMA LossLimitKeeps ==
  ASSUME IInv, LossLimit
  PROVE  IInv'
<1>1. TypeOK'
  BY NameAssumption, ChoiceAssumption, NumberAssumption DEF IInv, LossLimit, TypeOK,
     Order, Worker, OpenStates, OrderState, OrderRecord, VenueOrder, VenueStatus,
     Thread, Idle, Kill, KillPC, OpenIn
<1>2. work' = work /\ order' = order /\ venue' = venue /\ outbox' = outbox /\ task' = task /\ killer' = killer
  BY DEF LossLimit
<1>3. ThreadsBegin'
  BY <1>2, NameAssumption DEF IInv, ThreadsBegin, Worker
<1>4. ThreadsEnd'
  BY <1>2, NameAssumption DEF IInv, ThreadsBegin, ThreadsEnd, Worker
<1>5. OnePlace'
  BY <1>2, NameAssumption DEF IInv, OnePlace
<1>6. Unposted'
  BY <1>2, NameAssumption DEF IInv, Unposted
<1>7. Unused'
  BY <1>2, NameAssumption DEF IInv, Unused, Order
<1>8. Kept'
  BY <1>2, NameAssumption DEF IInv, Kept
<1> QED BY <1>1, <1>3, <1>4, <1>5, <1>6, <1>7, <1>8 DEF IInv

\* Crash keeps the invariant.
LEMMA CrashKeeps ==
  ASSUME IInv, Crash
  PROVE  IInv'
<1>1. TypeOK'
  BY NameAssumption, ChoiceAssumption, NumberAssumption DEF IInv, Crash, TypeOK, Order,
     Worker, OpenStates, OrderState, OrderRecord, VenueOrder, VenueStatus, Thread, Idle,
     Kill, KillPC, OpenIn
<1>2. /\ \A v \in Worker \ {"run"} : work'[v] = work[v]
      /\ \/ work'["run"] = work["run"]
         \/ /\ work'["run"].pc = "idle" /\ work'["run"].box = {}
            /\ work'["run"].sent = {} /\ work'["run"].fills = {}
  BY NameAssumption DEF IInv, Crash, TypeOK, Thread, Idle, Order, Worker, OpenIn
<1>3. /\ task' = "gone"
  BY DEF Crash
<1>4. order' = order /\ venue' = venue /\ outbox' = outbox /\ killer' = killer
  BY DEF Crash
<1>5. task = "awake" \/ task = "booking"
  BY NameAssumption DEF IInv, Crash, TypeOK, Thread, Unused, Order, Worker
<1>6. ThreadsBegin'
  BY <1>2, <1>3, <1>4, <1>5, NameAssumption DEF IInv, ThreadsBegin, Worker
<1>7. ThreadsEnd'
  BY <1>2, <1>3, <1>4, <1>5, NameAssumption DEF IInv, ThreadsBegin, ThreadsEnd, Worker
<1>8. OnePlace'
  BY <1>2, <1>3, <1>4, <1>5, NameAssumption DEF IInv, OnePlace, ThreadsBegin,
     ThreadsEnd, Unused, TypeOK, Thread, Order, Worker
<1>9. Unposted'
  BY <1>2, <1>3, <1>4, <1>5, NameAssumption DEF IInv, Unposted, OnePlace, ThreadsBegin,
     ThreadsEnd, Unused, TypeOK, Thread, Order, Worker
<1>10. Unused'
  BY <1>2, <1>3, <1>4, <1>5, NameAssumption DEF IInv, Unused, ThreadsBegin, ThreadsEnd,
     Order, Worker
<1>11. Kept'
  BY <1>2, <1>3, <1>4, <1>5, NameAssumption DEF IInv, Kept, ThreadsBegin, ThreadsEnd,
     Unused, Order, Worker
<1> QED BY <1>1, <1>6, <1>7, <1>8, <1>9, <1>10, <1>11 DEF IInv

\* BeginSync keeps the invariant.
LEMMA BeginSyncKeeps ==
  ASSUME IInv, BeginSync
  PROVE  IInv'
<1>1. TypeOK'
  BY NameAssumption, ChoiceAssumption, NumberAssumption DEF IInv, BeginSync, Started,
     TypeOK, Order, Worker, OpenStates, OrderState, OrderRecord, VenueOrder,
     VenueStatus, Thread, Idle, Kill, KillPC, OpenIn
<1>2. /\ \A v \in Worker \ {"run"} : work'[v] = work[v]
      /\ work'["run"].pc = "swap" /\ work'["run"].box = {}
      /\ work'["run"].sent = {}
      /\ work'["run"].fills = {}
  BY NameAssumption DEF IInv, BeginSync, Started, TypeOK, Thread, Idle, Order, Worker,
     OpenIn
<1>3. /\ task' = "syncing"
  BY DEF BeginSync, Started
<1>4. order' = order /\ venue' = venue /\ outbox' = outbox /\ killer' = killer
  BY DEF BeginSync
<1>5. task = "awake"
  BY NameAssumption DEF IInv, BeginSync, Started, TypeOK, Thread, Unused, Order, Worker
<1>6. ThreadsBegin'
  BY <1>2, <1>3, <1>4, <1>5, NameAssumption DEF IInv, ThreadsBegin, Worker
<1>7. ThreadsEnd'
  BY <1>2, <1>3, <1>4, <1>5, NameAssumption DEF IInv, ThreadsBegin, ThreadsEnd, Worker
<1>8. OnePlace'
  BY <1>2, <1>3, <1>4, <1>5, NameAssumption DEF IInv, OnePlace, ThreadsBegin,
     ThreadsEnd, Unused, TypeOK, Thread, Order, Worker
<1>9. Unposted'
  BY <1>2, <1>3, <1>4, <1>5, NameAssumption DEF IInv, Unposted, OnePlace, ThreadsBegin,
     ThreadsEnd, Unused, TypeOK, Thread, Order, Worker
<1>10. Unused'
  BY <1>2, <1>3, <1>4, <1>5, NameAssumption DEF IInv, Unused, ThreadsBegin, ThreadsEnd,
     Order, Worker
<1>11. Kept'
  BY <1>2, <1>3, <1>4, <1>5, NameAssumption DEF IInv, Kept, ThreadsBegin, ThreadsEnd,
     Unused, Order, Worker
<1> QED BY <1>1, <1>6, <1>7, <1>8, <1>9, <1>10, <1>11 DEF IInv

\* Swap keeps the invariant.
LEMMA SwapKeeps ==
  ASSUME IInv, NEW w \in Worker, Swap(w)
  PROVE  IInv'
<1>1. TypeOK'
  <2>1. work' \in [Worker -> Thread]
    <3>1. work' = [work EXCEPT ![w] = [work[w] EXCEPT !.pc = "work", !.box = outbox]]
      BY DEF Swap, Swapped
    <3>2. [work[w] EXCEPT !.pc = "work", !.box = outbox] \in Thread
      BY DEF IInv, TypeOK, Thread
    <3> QED BY <3>1, <3>2 DEF IInv, TypeOK
  <2> QED BY <2>1, NumberAssumption DEF IInv, Swap, Swapped, TypeOK, VenueOrder, Order
<1>2. /\ \A v \in Worker \ {w} : work'[v] = work[v]
      /\ work'[w].pc = "work" /\ work'[w].box = outbox
      /\ work'[w].sent = work[w].sent
      /\ work'[w].fills = work[w].fills
  BY NameAssumption DEF IInv, Swap, Swapped, TypeOK, Thread, Idle, Order, Worker, OpenIn
<1>3. /\ outbox' = {}
  BY DEF Swap, Swapped
<1>4. order' = order /\ venue' = venue /\ task' = task /\ killer' = killer
  BY DEF Swap
<1>5. work[w].pc = "swap"
  BY NameAssumption DEF IInv, Swap, Swapped, TypeOK, Thread, Unused, Order, Worker
<1>6. ThreadsBegin'
  BY <1>2, <1>3, <1>4, <1>5, NameAssumption DEF IInv, ThreadsBegin, Worker
<1>7. ThreadsEnd'
  BY <1>2, <1>3, <1>4, <1>5, NameAssumption DEF IInv, ThreadsBegin, ThreadsEnd, Worker
<1>8. OnePlace'
  BY <1>2, <1>3, <1>4, <1>5, NameAssumption DEF IInv, OnePlace, ThreadsBegin,
     ThreadsEnd, Unused, TypeOK, Thread, Order, Worker
<1>9. Unposted'
  BY <1>2, <1>3, <1>4, <1>5, NameAssumption DEF IInv, Unposted, OnePlace, ThreadsBegin,
     ThreadsEnd, Unused, TypeOK, Thread, Order, Worker
<1>10. Unused'
  BY <1>2, <1>3, <1>4, <1>5, NameAssumption DEF IInv, Unused, ThreadsBegin, ThreadsEnd,
     Order, Worker
<1>11. Kept'
  BY <1>2, <1>3, <1>4, <1>5, NameAssumption DEF IInv, Kept, ThreadsBegin, ThreadsEnd,
     Unused, Order, Worker
<1> QED BY <1>1, <1>6, <1>7, <1>8, <1>9, <1>10, <1>11 DEF IInv

\* PostAccepted keeps the invariant.
LEMMA PostAcceptedKeeps ==
  ASSUME IInv, NEW w \in Worker, NEW o \in Order, PostAccepted(w, o)
  PROVE  IInv'
<1>1. TypeOK'
  BY NameAssumption, ChoiceAssumption, NumberAssumption DEF IInv, PostAccepted, Posting,
     TypeOK, Order, Worker, OpenStates, OrderState, OrderRecord, VenueOrder,
     VenueStatus, Thread, Idle, Kill, KillPC, OpenIn
<1>2. /\ \A v \in Worker \ {w} : work'[v] = work[v]
      /\ work'[w].pc = work[w].pc /\ work'[w].box = work[w].box \ {o}
      /\ work'[w].sent = work[w].sent \cup {o}
      /\ work'[w].fills = work[w].fills
  BY NameAssumption DEF IInv, PostAccepted, Posting, TypeOK, Thread, Idle, Order,
     Worker, OpenIn
<1>3. /\ \A p \in Order \ {o} : venue'[p].posts = venue[p].posts
      /\ venue'[o].posts = venue[o].posts + 1
  BY DEF IInv, PostAccepted, Posting, TypeOK, VenueOrder
<1>4. order' = order /\ outbox' = outbox /\ task' = task /\ killer' = killer
  BY DEF PostAccepted
<1>5. work[w].pc = "work" /\ o \in work[w].box
  BY NameAssumption DEF IInv, PostAccepted, Posting, TypeOK, Thread, Unused, Order, Worker
<1>6. ThreadsBegin'
  BY ZenonT(60), <1>2, <1>3, <1>4, <1>5, NameAssumption DEF IInv, ThreadsBegin, Worker
<1>7. ThreadsEnd'
  BY ZenonT(60), <1>2, <1>3, <1>4, <1>5, NameAssumption DEF IInv, ThreadsBegin, ThreadsEnd, Worker
<1>8. OnePlace'
  BY <1>2, <1>3, <1>4, <1>5, NameAssumption DEF IInv, OnePlace, ThreadsBegin,
     ThreadsEnd, Unused, TypeOK, Thread, Order, Worker
<1>9. Unposted'
  BY <1>2, <1>3, <1>4, <1>5, NameAssumption DEF IInv, Unposted, OnePlace, ThreadsBegin,
     ThreadsEnd, Unused, TypeOK, Thread, Order, Worker
<1>10. Unused'
  BY <1>2, <1>3, <1>4, <1>5, NameAssumption DEF IInv, Unused, ThreadsBegin, ThreadsEnd,
     Order, Worker
<1>11. Kept'
  BY <1>2, <1>3, <1>4, <1>5, NameAssumption DEF IInv, Kept, ThreadsBegin, ThreadsEnd,
     Unused, Order, Worker
<1> QED BY <1>1, <1>6, <1>7, <1>8, <1>9, <1>10, <1>11 DEF IInv

\* PostRefused keeps the invariant.
LEMMA PostRefusedKeeps ==
  ASSUME IInv, NEW w \in Worker, NEW o \in Order, PostRefused(w, o)
  PROVE  IInv'
<1>1. TypeOK'
  BY SMTT(40), NameAssumption, ChoiceAssumption, NumberAssumption DEF IInv, PostRefused, Posting,
     TypeOK, Order, Worker, OpenStates, OrderState, OrderRecord, VenueOrder,
     VenueStatus, Thread, Idle, Kill, KillPC, OpenIn
<1>2. /\ \A v \in Worker \ {w} : work'[v] = work[v]
      /\ work'[w].pc = work[w].pc /\ work'[w].box = work[w].box \ {o}
      /\ work'[w].sent = work[w].sent
      /\ work'[w].fills = work[w].fills
  BY NameAssumption DEF IInv, PostRefused, Posting, TypeOK, Thread, Idle, Order, Worker,
     OpenIn
<1>3. /\ \A p \in Order \ {o} : order'[p].state = order[p].state
      /\ order'[o].state = "REJECTED"
  BY NameAssumption DEF IInv, PostRefused, Posting, TypeOK, OrderRecord, OrderState,
     OpenStates, Order
<1>4. venue' = venue /\ outbox' = outbox /\ task' = task /\ killer' = killer
  BY DEF PostRefused
<1>5. work[w].pc = "work" /\ o \in work[w].box
  BY NameAssumption DEF IInv, PostRefused, Posting, TypeOK, Thread, Unused, Order, Worker
<1>6. ThreadsBegin'
  BY ZenonT(60), <1>2, <1>3, <1>4, <1>5, NameAssumption DEF IInv, ThreadsBegin, Worker
<1>7. ThreadsEnd'
  BY ZenonT(60), <1>2, <1>3, <1>4, <1>5, NameAssumption DEF IInv, ThreadsBegin, ThreadsEnd, Worker
<1>8. OnePlace'
  BY <1>2, <1>3, <1>4, <1>5, NameAssumption DEF IInv, OnePlace, ThreadsBegin,
     ThreadsEnd, Unused, TypeOK, Thread, Order, Worker
<1>9. Unposted'
  BY <1>2, <1>3, <1>4, <1>5, NameAssumption DEF IInv, Unposted, OnePlace, ThreadsBegin,
     ThreadsEnd, Unused, TypeOK, Thread, Order, Worker
<1>10. Unused'
  BY <1>2, <1>3, <1>4, <1>5, NameAssumption DEF IInv, Unused, ThreadsBegin, ThreadsEnd,
     Order, Worker
<1>11. Kept'
  BY <1>2, <1>3, <1>4, <1>5, NameAssumption DEF IInv, Kept, ThreadsBegin, ThreadsEnd,
     Unused, Order, Worker
<1> QED BY <1>1, <1>6, <1>7, <1>8, <1>9, <1>10, <1>11 DEF IInv

\* PostReplied keeps the invariant.
LEMMA PostRepliedKeeps ==
  ASSUME IInv, NEW w \in Worker, NEW o \in Order, PostReplied(w, o)
  PROVE  IInv'
<1>1. TypeOK'
  <2>1. order' \in [Order -> OrderRecord]
    <3>1. order' = [order EXCEPT ![o] = [order[o] EXCEPT !.state = "ACKNOWLEDGED", !.known = TRUE]]
      BY DEF PostReplied, IInv, TypeOK
    <3>2. [order[o] EXCEPT !.state = "ACKNOWLEDGED", !.known = TRUE] \in OrderRecord
      BY DEF IInv, TypeOK, OrderRecord, OrderState, OpenStates
    <3> QED BY <3>1, <3>2 DEF IInv, TypeOK
  <2>2. work' \in [Worker -> Thread]
    BY NameAssumption, NumberAssumption, ChoiceAssumption DEF IInv, PostReplied,
       TypeOK, Thread, Idle, Order, Worker, OpenIn
  <2> QED BY <2>1, <2>2, NumberAssumption DEF IInv, PostReplied, TypeOK, VenueOrder, Order
<1>2. /\ \A v \in Worker \ {w} : work'[v] = work[v]
      /\ work'[w].pc = work[w].pc /\ work'[w].box = work[w].box
      /\ work'[w].sent = work[w].sent \ {o}
      /\ work'[w].fills = work[w].fills
  BY NameAssumption DEF IInv, PostReplied, TypeOK, Thread, Idle, Order, Worker, OpenIn
<1>3. /\ \A p \in Order \ {o} : order'[p].state = order[p].state
      /\ order'[o].state = "ACKNOWLEDGED"
  BY NameAssumption DEF IInv, PostReplied, TypeOK, OrderRecord, OrderState, OpenStates,
     Order
<1>4. venue' = venue /\ outbox' = outbox /\ task' = task /\ killer' = killer
  BY DEF PostReplied
<1>5. o \in work[w].sent
  BY NameAssumption DEF IInv, PostReplied, TypeOK, Thread, Unused, Order, Worker
<1>6. ThreadsBegin'
  BY ZenonT(60), <1>2, <1>3, <1>4, <1>5, NameAssumption DEF IInv, ThreadsBegin, Worker
<1>7. ThreadsEnd'
  BY ZenonT(60), <1>2, <1>3, <1>4, <1>5, NameAssumption DEF IInv, ThreadsBegin, ThreadsEnd, Worker
<1>8. OnePlace'
  BY <1>2, <1>3, <1>4, <1>5, NameAssumption DEF IInv, OnePlace, ThreadsBegin,
     ThreadsEnd, Unused, TypeOK, Thread, Order, Worker
<1>9. Unposted'
  BY <1>2, <1>3, <1>4, <1>5, NameAssumption DEF IInv, Unposted, OnePlace, ThreadsBegin,
     ThreadsEnd, Unused, TypeOK, Thread, Order, Worker
<1>10. Unused'
  BY <1>2, <1>3, <1>4, <1>5, NameAssumption DEF IInv, Unused, ThreadsBegin, ThreadsEnd,
     Order, Worker
<1>11. Kept'
  BY <1>2, <1>3, <1>4, <1>5, NameAssumption DEF IInv, Kept, ThreadsBegin, ThreadsEnd,
     Unused, Order, Worker
<1> QED BY <1>1, <1>6, <1>7, <1>8, <1>9, <1>10, <1>11 DEF IInv

\* PostLost keeps the invariant.
LEMMA PostLostKeeps ==
  ASSUME IInv, NEW w \in Worker, NEW o \in Order, PostLost(w, o)
  PROVE  IInv'
<1>1. TypeOK'
  <2>1. order' \in [Order -> OrderRecord]
    BY NameAssumption, NumberAssumption, ChoiceAssumption DEF IInv, PostLost, TypeOK,
       OrderRecord, OrderState, OpenStates, VenueOrder, Order
  <2>2. work' \in [Worker -> Thread]
    BY NameAssumption, NumberAssumption, ChoiceAssumption DEF IInv, PostLost, TypeOK,
       Thread, Idle, Order, Worker, OpenIn
  <2> QED BY <2>1, <2>2, NumberAssumption DEF IInv, PostLost, TypeOK, VenueOrder, Order
<1>2. /\ \A v \in Worker \ {w} : work'[v] = work[v]
      /\ work'[w].pc = work[w].pc /\ work'[w].box = work[w].box
      /\ work'[w].sent = work[w].sent \ {o}
      /\ work'[w].fills = work[w].fills
  BY NameAssumption DEF IInv, PostLost, TypeOK, Thread, Idle, Order, Worker, OpenIn
<1>3. /\ \A p \in Order \ {o} : order'[p].state = order[p].state
      /\ order'[o].state = "REJECTED"
  BY NameAssumption DEF IInv, PostLost, TypeOK, OrderRecord, OrderState, OpenStates, Order
<1>4. venue' = venue /\ outbox' = outbox /\ task' = task /\ killer' = killer
  BY DEF PostLost
<1>5. o \in work[w].sent
  BY NameAssumption DEF IInv, PostLost, TypeOK, Thread, Unused, Order, Worker
<1>6. ThreadsBegin'
  BY ZenonT(60), <1>2, <1>3, <1>4, <1>5, NameAssumption DEF IInv, ThreadsBegin, Worker
<1>7. ThreadsEnd'
  BY ZenonT(60), <1>2, <1>3, <1>4, <1>5, NameAssumption DEF IInv, ThreadsBegin, ThreadsEnd, Worker
<1>8. OnePlace'
  BY <1>2, <1>3, <1>4, <1>5, NameAssumption DEF IInv, OnePlace, ThreadsBegin,
     ThreadsEnd, Unused, TypeOK, Thread, Order, Worker
<1>9. Unposted'
  BY <1>2, <1>3, <1>4, <1>5, NameAssumption DEF IInv, Unposted, OnePlace, ThreadsBegin,
     ThreadsEnd, Unused, TypeOK, Thread, Order, Worker
<1>10. Unused'
  BY <1>2, <1>3, <1>4, <1>5, NameAssumption DEF IInv, Unused, ThreadsBegin, ThreadsEnd,
     Order, Worker
<1>11. Kept'
  BY <1>2, <1>3, <1>4, <1>5, NameAssumption DEF IInv, Kept, ThreadsBegin, ThreadsEnd,
     Unused, Order, Worker
<1> QED BY <1>1, <1>6, <1>7, <1>8, <1>9, <1>10, <1>11 DEF IInv

\* Poll keeps the invariant.
LEMMA PollKeeps ==
  ASSUME IInv, NEW w \in Worker, NEW o \in Order, Poll(w, o)
  PROVE  IInv'
<1>1. TypeOK'
  <2>1. order' \in [Order -> OrderRecord]
    BY NameAssumption, NumberAssumption, ChoiceAssumption DEF IInv, Poll, Polling,
       Pollable, EndSeen, OpenStates, TypeOK, OrderRecord, OrderState, OpenStates,
       VenueOrder, Order
  <2>2. work' \in [Worker -> Thread]
    BY SMTT(40), NameAssumption, NumberAssumption, ChoiceAssumption DEF IInv, Poll, Polling,
       Pollable, EndSeen, OpenStates, TypeOK, Thread, Idle, Order, Worker, OpenIn
  <2> QED BY <2>1, <2>2, NumberAssumption DEF IInv, Poll, Polling, Pollable, EndSeen, OpenStates, TypeOK, VenueOrder, Order
<1>2. /\ \A v \in Worker \ {w} : work'[v] = work[v]
      /\ work'[w].pc = "work" /\ work'[w].box = work[w].box
      /\ work'[w].sent = work[w].sent
      /\ work'[w].fills \in {work[w].fills, work[w].fills \cup {o}}
  BY NameAssumption DEF IInv, Poll, Polling, Pollable, EndSeen, OpenStates, TypeOK,
     Thread, Idle, Order, Worker, OpenIn
<1>3. /\ \A p \in Order \ {o} : order'[p].state = order[p].state
      /\ order'[o].state \in {order[o].state, "CANCELLED", "REJECTED"}
  BY NameAssumption DEF IInv, Poll, Polling, Pollable, EndSeen, OpenStates, TypeOK,
     OrderRecord, OrderState, OpenStates, Order
<1>4. venue' = venue /\ outbox' = outbox /\ task' = task /\ killer' = killer
  BY DEF Poll
<1>5. work[w].pc = "work" /\ order[o].state # "none"
  BY NameAssumption DEF IInv, Poll, Polling, Pollable, EndSeen, OpenStates, TypeOK,
     Thread, Unused, Order, Worker
<1>6. ThreadsBegin'
  BY ZenonT(60), <1>2, <1>3, <1>4, <1>5, NameAssumption DEF IInv, ThreadsBegin, Worker
<1>7. ThreadsEnd'
  BY ZenonT(60), <1>2, <1>3, <1>4, <1>5, NameAssumption DEF IInv, ThreadsBegin, ThreadsEnd, Worker
<1>8. OnePlace'
  BY <1>2, <1>3, <1>4, <1>5, NameAssumption DEF IInv, OnePlace, ThreadsBegin,
     ThreadsEnd, Unused, TypeOK, Thread, Order, Worker
<1>9. Unposted'
  BY <1>2, <1>3, <1>4, <1>5, NameAssumption DEF IInv, Unposted, OnePlace, ThreadsBegin,
     ThreadsEnd, Unused, TypeOK, Thread, Order, Worker
<1>10. Unused'
  BY <1>2, <1>3, <1>4, <1>5, NameAssumption DEF IInv, Unused, ThreadsBegin, ThreadsEnd,
     Order, Worker
<1>11. Kept'
  BY <1>2, <1>3, <1>4, <1>5, NameAssumption DEF IInv, Kept, ThreadsBegin, ThreadsEnd,
     Unused, Order, Worker
<1> QED BY <1>1, <1>6, <1>7, <1>8, <1>9, <1>10, <1>11 DEF IInv

\* PollNothing keeps the invariant.
LEMMA PollNothingKeeps ==
  ASSUME IInv, NEW w \in Worker, NEW o \in Order, PollNothing(w, o)
  PROVE  IInv'
<1>1. TypeOK'
  BY NameAssumption, ChoiceAssumption, NumberAssumption DEF IInv, PollNothing, Polling,
     TypeOK, Order, Worker, OpenStates, OrderState, OrderRecord, VenueOrder,
     VenueStatus, Thread, Idle, Kill, KillPC, OpenIn
<1>2. /\ \A v \in Worker \ {w} : work'[v] = work[v]
      /\ work'[w].pc = work[w].pc /\ work'[w].box = work[w].box
      /\ work'[w].sent = work[w].sent
      /\ work'[w].fills = work[w].fills
  BY NameAssumption DEF IInv, PollNothing, Polling, TypeOK, Thread, Idle, Order, Worker,
     OpenIn
<1>3. order' = order /\ venue' = venue /\ outbox' = outbox /\ task' = task /\ killer' = killer
  BY DEF PollNothing
<1>4. work[w].pc = "work"
  BY NameAssumption DEF IInv, PollNothing, Polling, TypeOK, Thread, Unused, Order, Worker
<1>5. ThreadsBegin'
  BY <1>2, <1>3, <1>4, NameAssumption DEF IInv, ThreadsBegin, Worker
<1>6. ThreadsEnd'
  BY ZenonT(60), <1>2, <1>3, <1>4, NameAssumption DEF IInv, ThreadsBegin, ThreadsEnd, Worker
<1>7. OnePlace'
  BY <1>2, <1>3, <1>4, NameAssumption DEF IInv, OnePlace, ThreadsBegin, ThreadsEnd,
     Unused, TypeOK, Thread, Order, Worker
<1>8. Unposted'
  BY <1>2, <1>3, <1>4, NameAssumption DEF IInv, Unposted, OnePlace, ThreadsBegin,
     ThreadsEnd, Unused, TypeOK, Thread, Order, Worker
<1>9. Unused'
  BY <1>2, <1>3, <1>4, NameAssumption DEF IInv, Unused, ThreadsBegin, ThreadsEnd, Order,
     Worker
<1>10. Kept'
  BY <1>2, <1>3, <1>4, NameAssumption DEF IInv, Kept, ThreadsBegin, ThreadsEnd, Unused,
     Order, Worker
<1> QED BY <1>1, <1>5, <1>6, <1>7, <1>8, <1>9, <1>10 DEF IInv

\* EndSync keeps the invariant.
LEMMA EndSyncKeeps ==
  ASSUME IInv, EndSync
  PROVE  IInv'
<1>1. TypeOK'
  BY NameAssumption, ChoiceAssumption, NumberAssumption DEF IInv, EndSync, Finished,
     TypeOK, Order, Worker, OpenStates, OrderState, OrderRecord, VenueOrder,
     VenueStatus, Thread, Idle, Kill, KillPC, OpenIn
<1>2. /\ task' = "booking"
  BY DEF EndSync, Finished
<1>3. work' = work /\ order' = order /\ venue' = venue /\ outbox' = outbox /\ killer' = killer
  BY DEF EndSync
<1>4. work["run"].pc = "work" /\ work["run"].box = {} /\ work["run"].sent = {}
  BY NameAssumption DEF IInv, EndSync, Finished, TypeOK, Thread, Unused, Order, Worker
<1>5. ThreadsBegin'
  BY <1>2, <1>3, <1>4, NameAssumption DEF IInv, ThreadsBegin, Worker
<1>6. ThreadsEnd'
  BY <1>2, <1>3, <1>4, NameAssumption DEF IInv, ThreadsBegin, ThreadsEnd, Worker
<1>7. OnePlace'
  BY <1>2, <1>3, <1>4, NameAssumption DEF IInv, OnePlace
<1>8. Unposted'
  BY <1>2, <1>3, <1>4, NameAssumption DEF IInv, Unposted
<1>9. Unused'
  BY <1>2, <1>3, <1>4, NameAssumption DEF IInv, Unused, Order
<1>10. Kept'
  BY <1>2, <1>3, <1>4, NameAssumption DEF IInv, Kept
<1> QED BY <1>1, <1>5, <1>6, <1>7, <1>8, <1>9, <1>10 DEF IInv

\* BookFill keeps the invariant.
LEMMA BookFillKeeps ==
  ASSUME IInv, NEW w \in Worker, NEW o \in Order, BookFill(w, o)
  PROVE  IInv'
<1>1. TypeOK'
  <2>1. order' \in [Order -> OrderRecord]
    BY NameAssumption, NumberAssumption, ChoiceAssumption DEF IInv, BookFill, Booked,
       TypeOK, OrderRecord, OrderState, OpenStates, VenueOrder, Order
  <2>2. work' \in [Worker -> Thread]
    BY NameAssumption, NumberAssumption, ChoiceAssumption DEF IInv, BookFill, Booked,
       TypeOK, Thread, Idle, Order, Worker, OpenIn
  <2>3. venue' \in [Order -> VenueOrder]
    BY NameAssumption, NumberAssumption, ChoiceAssumption DEF IInv, BookFill, Booked,
       TypeOK, VenueOrder, VenueStatus, OrderRecord
  <2> QED BY <2>1, <2>2, <2>3, NumberAssumption DEF IInv, BookFill, Booked, TypeOK, VenueOrder, Order
<1>2. /\ \A v \in Worker \ {w} : work'[v] = work[v]
      /\ work'[w].pc = work[w].pc /\ work'[w].box = work[w].box
      /\ work'[w].sent = work[w].sent
      /\ work'[w].fills = work[w].fills \ {o}
  BY NameAssumption DEF IInv, BookFill, Booked, TypeOK, Thread, Idle, Order, Worker, OpenIn
<1>3. /\ \A p \in Order \ {o} : order'[p].state = order[p].state
      /\ order'[o].state = "FILLED"
  BY NameAssumption DEF IInv, BookFill, Booked, TypeOK, OrderRecord, OrderState,
     OpenStates, Order
<1>4. venue' = venue /\ outbox' = outbox /\ task' = task /\ killer' = killer
  BY DEF BookFill
<1>5. order[o].state # "none" /\ o \in work[w].fills /\ (w = "run" => task = "booking") /\ (w # "run" => w \in Killer /\ killer[w].pc = "booking")
  BY NameAssumption DEF IInv, BookFill, Booked, TypeOK, Thread, Unused, Order, Worker
<1>6. ThreadsBegin'
  BY ZenonT(60), <1>2, <1>3, <1>4, <1>5, NameAssumption DEF IInv, ThreadsBegin, Worker
<1>7. ThreadsEnd'
  BY ZenonT(60), <1>2, <1>3, <1>4, <1>5, NameAssumption DEF IInv, ThreadsBegin, ThreadsEnd, Worker
<1>8. OnePlace'
  BY <1>2, <1>3, <1>4, <1>5, NameAssumption DEF IInv, OnePlace, ThreadsBegin,
     ThreadsEnd, Unused, TypeOK, Thread, Order, Worker
<1>9. Unposted'
  BY <1>2, <1>3, <1>4, <1>5, NameAssumption DEF IInv, Unposted, OnePlace, ThreadsBegin,
     ThreadsEnd, Unused, TypeOK, Thread, Order, Worker
<1>10. Unused'
  <2>1. \A p \in Order : order'[p].state = "none" => p # o /\ order[p].state = "none"
    BY <1>3
  <2>2. \A k \in Killer : order[k].state = "none" => order'[k].state = "none"
    BY <1>3, <1>5 DEF Order
  <2> QED BY <1>2, <1>4, <2>1, <2>2 DEF IInv, Unused, Worker
<1>11. Kept'
  BY <1>2, <1>3, <1>4, <1>5, NameAssumption DEF IInv, Kept, ThreadsBegin, ThreadsEnd,
     Unused, Order, Worker
<1> QED BY <1>1, <1>6, <1>7, <1>8, <1>9, <1>10, <1>11 DEF IInv

\* Resume keeps the invariant.
LEMMA ResumeKeeps ==
  ASSUME IInv, Resume
  PROVE  IInv'
<1>1. TypeOK'
  BY NameAssumption, ChoiceAssumption, NumberAssumption DEF IInv, Resume, TypeOK, Order,
     Worker, OpenStates, OrderState, OrderRecord, VenueOrder, VenueStatus, Thread, Idle,
     Kill, KillPC, OpenIn
<1>2. /\ \A v \in Worker \ {"run"} : work'[v] = work[v]
      /\ work'["run"].pc = "idle" /\ work'["run"].box = {}
      /\ work'["run"].sent = {} /\ work'["run"].fills = {}
  BY NameAssumption DEF IInv, Resume, TypeOK, Thread, Idle, Order, Worker, OpenIn
<1>3. /\ task' = "awake"
  BY DEF Resume
<1>4. order' = order /\ venue' = venue /\ outbox' = outbox /\ killer' = killer
  BY DEF Resume
<1>5. task = "booking"
  BY NameAssumption DEF IInv, Resume, TypeOK, Thread, Unused, Order, Worker
<1>6. ThreadsBegin'
  BY <1>2, <1>3, <1>4, <1>5, NameAssumption DEF IInv, ThreadsBegin, Worker
<1>7. ThreadsEnd'
  BY <1>2, <1>3, <1>4, <1>5, NameAssumption DEF IInv, ThreadsBegin, ThreadsEnd, Worker
<1>8. OnePlace'
  BY <1>2, <1>3, <1>4, <1>5, NameAssumption DEF IInv, OnePlace, ThreadsBegin,
     ThreadsEnd, Unused, TypeOK, Thread, Order, Worker
<1>9. Unposted'
  BY <1>2, <1>3, <1>4, <1>5, NameAssumption DEF IInv, Unposted, OnePlace, ThreadsBegin,
     ThreadsEnd, Unused, TypeOK, Thread, Order, Worker
<1>10. Unused'
  BY <1>2, <1>3, <1>4, <1>5, NameAssumption DEF IInv, Unused, ThreadsBegin, ThreadsEnd,
     Order, Worker
<1>11. Kept'
  BY <1>2, <1>3, <1>4, <1>5, NameAssumption DEF IInv, Kept, ThreadsBegin, ThreadsEnd,
     Unused, Order, Worker
<1> QED BY <1>1, <1>6, <1>7, <1>8, <1>9, <1>10, <1>11 DEF IInv

\* Stop keeps the invariant.
LEMMA StopKeeps ==
  ASSUME IInv, Stop
  PROVE  IInv'
<1>1. TypeOK'
  <2>1. order' \in [Order -> OrderRecord] /\ outbox' \subseteq Order
    <3>1. CASE UNCHANGED <<order, outbox>>
      BY <3>1 DEF IInv, TypeOK
    <3>2. ASSUME NEW o \in Request, NEW q \in Quantity,
                 order' = [order EXCEPT ![o] = Sent(q)], outbox' = outbox \cup {o}
          PROVE  order' \in [Order -> OrderRecord] /\ outbox' \subseteq Order
      <4>1. Sent(q) \in OrderRecord
        BY NumberAssumption DEF Sent, OrderRecord, OrderState, OpenStates
      <4> QED BY <3>2, <4>1 DEF IInv, TypeOK, Order
    <3> QED BY <3>1, <3>2 DEF Stop
  <2> QED BY <2>1, NumberAssumption DEF IInv, Stop, Sent, TypeOK, VenueOrder, Order
<1>2. \/ order' = order /\ outbox' = outbox
      \/ \E o \in Request :
           /\ order[o].state = "none"
           /\ outbox' = outbox \cup {o}
           /\ \A p \in Order \ {o} : order'[p].state = order[p].state
           /\ order'[o].state = "SUBMITTED"
  BY NameAssumption DEF IInv, Stop, Sent, TypeOK, OrderRecord, OrderState, OpenStates, Order
<1>3. /\ task' = "gone"
  BY DEF Stop, Sent
<1>4. work' = work /\ venue' = venue /\ killer' = killer
  BY DEF Stop
<1>5. Request \cap Killer = {} /\ Order = Request \cup Killer
  BY NameAssumption DEF IInv, Stop, Sent, TypeOK, Thread, Unused, Order, Worker
<1>6. ThreadsBegin'
  BY <1>2, <1>3, <1>4, <1>5, NameAssumption DEF IInv, ThreadsBegin, Worker
<1>7. ThreadsEnd'
  BY <1>2, <1>3, <1>4, <1>5, NameAssumption DEF IInv, ThreadsBegin, ThreadsEnd, Worker
<1>8. OnePlace'
  BY <1>2, <1>3, <1>4, <1>5, NameAssumption DEF IInv, OnePlace, ThreadsBegin,
     ThreadsEnd, Unused, TypeOK, Thread, Order, Worker
<1>9. Unposted'
  BY <1>2, <1>3, <1>4, <1>5, NameAssumption DEF IInv, Unposted, OnePlace, ThreadsBegin,
     ThreadsEnd, Unused, TypeOK, Thread, Order, Worker
<1>10. Unused'
  <2>1. \A k \in Killer : order'[k].state = order[k].state
    BY <1>2, <1>5
  <2>2. \A p \in Order : order'[p].state = "none" =>
           order[p].state = "none" /\ (p \in outbox' => p \in outbox)
    <3>1. CASE order' = order /\ outbox' = outbox
      BY <3>1
    <3>2. ASSUME NEW o \in Request, outbox' = outbox \cup {o},
                 \A p \in Order \ {o} : order'[p].state = order[p].state,
                 order'[o].state = "SUBMITTED"
          PROVE  \A p \in Order : order'[p].state = "none" =>
                    order[p].state = "none" /\ (p \in outbox' => p \in outbox)
      BY <3>2
    <3> QED BY <1>2, <3>1, <3>2
  <2> QED BY <1>4, <2>1, <2>2 DEF IInv, Unused
<1>11. Kept'
  BY <1>2, <1>3, <1>4, <1>5, NameAssumption DEF IInv, Kept, ThreadsBegin, ThreadsEnd,
     Unused, Order, Worker
<1> QED BY <1>1, <1>6, <1>7, <1>8, <1>9, <1>10, <1>11 DEF IInv

\* PressKill keeps the invariant.
LEMMA PressKillKeeps ==
  ASSUME IInv, NEW k \in Killer, NEW flatten \in Flatten, PressKill(k, flatten)
  PROVE  IInv'
<1>1. TypeOK'
  <2>1. killer' \in [Killer -> Kill]
    <3>1. flatten \in BOOLEAN
      BY ChoiceAssumption
    <3>2. [killer[k] EXCEPT !.pc = "deleting", !.flatten = flatten] \in Kill
      BY <3>1 DEF IInv, TypeOK, Kill, KillPC
    <3>3. killer' = [killer EXCEPT ![k] = [killer[k] EXCEPT !.pc = "deleting", !.flatten = flatten]]
      BY DEF PressKill, IInv, TypeOK
    <3> QED BY <3>2, <3>3 DEF IInv, TypeOK
  <2> QED BY <2>1, NumberAssumption DEF IInv, PressKill, TypeOK, VenueOrder, Order
<1>2. /\ \A j \in Killer \ {k} : killer'[j].pc = killer[j].pc
      /\ killer'[k].pc = "deleting"
  BY DEF IInv, PressKill, TypeOK, Kill
<1>3. work' = work /\ order' = order /\ venue' = venue /\ outbox' = outbox /\ task' = task
  BY DEF PressKill
<1>4. killer[k].pc = "idle"
  BY NameAssumption DEF IInv, PressKill, TypeOK, Thread, Unused, Order, Worker
<1>5. ThreadsBegin'
  BY <1>2, <1>3, <1>4, NameAssumption DEF IInv, ThreadsBegin, Worker
<1>6. ThreadsEnd'
  BY <1>2, <1>3, <1>4, NameAssumption DEF IInv, ThreadsBegin, ThreadsEnd, Worker
<1>7. OnePlace'
  BY <1>2, <1>3, <1>4, NameAssumption DEF IInv, OnePlace
<1>8. Unposted'
  BY <1>2, <1>3, <1>4, NameAssumption DEF IInv, Unposted
<1>9. Unused'
  BY <1>2, <1>3, <1>4, NameAssumption DEF IInv, Unused, Order
<1>10. Kept'
  BY <1>2, <1>3, <1>4, NameAssumption DEF IInv, Kept
<1> QED BY <1>1, <1>5, <1>6, <1>7, <1>8, <1>9, <1>10 DEF IInv

\* DeleteAll keeps the invariant.
LEMMA DeleteAllKeeps ==
  ASSUME IInv, NEW k \in Killer, DeleteAll(k)
  PROVE  IInv'
<1>1. TypeOK'
  <2>1. killer' \in [Killer -> Kill]
    BY NameAssumption, NumberAssumption, ChoiceAssumption DEF IInv, DeleteAll, TypeOK,
       Kill, KillPC
  <2>2. venue' \in [Order -> VenueOrder]
    BY NameAssumption, NumberAssumption, ChoiceAssumption DEF IInv, DeleteAll, TypeOK,
       VenueOrder, VenueStatus, OrderRecord
  <2> QED BY <2>1, <2>2, NumberAssumption DEF IInv, DeleteAll, TypeOK, VenueOrder, Order
<1>2. /\ \A p \in Order : venue'[p].posts = venue[p].posts
  BY DEF IInv, DeleteAll, TypeOK, VenueOrder
<1>3. /\ \A j \in Killer \ {k} : killer'[j].pc = killer[j].pc
      /\ killer'[k].pc = "deleted"
  BY DEF IInv, DeleteAll, TypeOK, Kill
<1>4. work' = work /\ order' = order /\ outbox' = outbox /\ task' = task
  BY DEF DeleteAll
<1>5. killer[k].pc = "deleting"
  BY NameAssumption DEF IInv, DeleteAll, TypeOK, Thread, Unused, Order, Worker
<1>6. ThreadsBegin'
  BY <1>2, <1>3, <1>4, <1>5, NameAssumption DEF IInv, ThreadsBegin, Worker
<1>7. ThreadsEnd'
  BY <1>2, <1>3, <1>4, <1>5, NameAssumption DEF IInv, ThreadsBegin, ThreadsEnd, Worker
<1>8. OnePlace'
  BY <1>2, <1>3, <1>4, <1>5, NameAssumption DEF IInv, OnePlace
<1>9. Unposted'
  BY <1>2, <1>3, <1>4, <1>5, NameAssumption DEF IInv, Unposted, OnePlace, ThreadsBegin,
     ThreadsEnd, Unused, TypeOK, Thread, Order, Worker
<1>10. Unused'
  BY <1>2, <1>3, <1>4, <1>5, NameAssumption DEF IInv, Unused, Order
<1>11. Kept'
  BY <1>2, <1>3, <1>4, <1>5, NameAssumption DEF IInv, Kept
<1> QED BY <1>1, <1>6, <1>7, <1>8, <1>9, <1>10, <1>11 DEF IInv

\* DeleteFails keeps the invariant.
LEMMA DeleteFailsKeeps ==
  ASSUME IInv, NEW k \in Killer, DeleteFails(k)
  PROVE  IInv'
<1>1. TypeOK'
  BY SMTT(30), NameAssumption, ChoiceAssumption, NumberAssumption DEF IInv, DeleteFails, TypeOK,
     Order, Worker, OpenStates, OrderState, OrderRecord, VenueOrder, VenueStatus,
     Thread, Idle, Kill, KillPC, OpenIn
<1>2. /\ \A j \in Killer \ {k} : killer'[j].pc = killer[j].pc
      /\ killer'[k].pc = "deleted"
  BY DEF IInv, DeleteFails, TypeOK, Kill
<1>3. work' = work /\ order' = order /\ venue' = venue /\ outbox' = outbox /\ task' = task
  BY DEF DeleteFails
<1>4. killer[k].pc = "deleting"
  BY NameAssumption DEF IInv, DeleteFails, TypeOK, Thread, Unused, Order, Worker
<1>5. ThreadsBegin'
  BY <1>2, <1>3, <1>4, NameAssumption DEF IInv, ThreadsBegin, Worker
<1>6. ThreadsEnd'
  BY <1>2, <1>3, <1>4, NameAssumption DEF IInv, ThreadsBegin, ThreadsEnd, Worker
<1>7. OnePlace'
  BY <1>2, <1>3, <1>4, NameAssumption DEF IInv, OnePlace
<1>8. Unposted'
  BY <1>2, <1>3, <1>4, NameAssumption DEF IInv, Unposted
<1>9. Unused'
  BY <1>2, <1>3, <1>4, NameAssumption DEF IInv, Unused, Order
<1>10. Kept'
  BY <1>2, <1>3, <1>4, NameAssumption DEF IInv, Kept
<1> QED BY <1>1, <1>5, <1>6, <1>7, <1>8, <1>9, <1>10 DEF IInv

\* CancelHere keeps the invariant.
LEMMA CancelHereKeeps ==
  ASSUME IInv, NEW k \in Killer, CancelHere(k)
  PROVE  IInv'
<1>1. TypeOK'
  <2>1. order' \in [Order -> OrderRecord]
    BY NameAssumption, NumberAssumption, ChoiceAssumption DEF IInv, CancelHere,
       Cancelled, TypeOK, OrderRecord, OrderState, OpenStates, VenueOrder, Order
  <2>2. killer' \in [Killer -> Kill]
    BY NameAssumption, NumberAssumption, ChoiceAssumption DEF IInv, CancelHere,
       Cancelled, TypeOK, Kill, KillPC
  <2> QED BY <2>1, <2>2, NumberAssumption DEF IInv, CancelHere, Cancelled, TypeOK, VenueOrder, Order
<1>2. /\ \A p \in Order : (order'[p].state = "none") <=> (order[p].state = "none")
      /\ \A p \in Order : order'[p].state # "SUBMITTED"
  BY NameAssumption DEF IInv, CancelHere, Cancelled, TypeOK, OrderRecord, OrderState,
     OpenStates, Order
<1>3. /\ \A j \in Killer \ {k} : killer'[j].pc = killer[j].pc
      /\ killer'[k].pc = "ending"
  BY DEF IInv, CancelHere, Cancelled, TypeOK, Kill
<1>4. work' = work /\ venue' = venue /\ outbox' = outbox /\ task' = task
  BY DEF CancelHere
<1>5. killer[k].pc = "deleted"
  BY NameAssumption DEF IInv, CancelHere, Cancelled, TypeOK, Thread, Unused, Order, Worker
<1>6. ThreadsBegin'
  BY <1>2, <1>3, <1>4, <1>5, NameAssumption DEF IInv, ThreadsBegin, Worker
<1>7. ThreadsEnd'
  BY <1>2, <1>3, <1>4, <1>5, NameAssumption DEF IInv, ThreadsBegin, ThreadsEnd, Worker
<1>8. OnePlace'
  BY <1>2, <1>3, <1>4, <1>5, NameAssumption DEF IInv, OnePlace, ThreadsBegin,
     ThreadsEnd, Unused, TypeOK, Thread, Order, Worker
<1>9. Unposted'
  BY <1>2, <1>3, <1>4, <1>5, NameAssumption DEF IInv, Unposted, OnePlace, ThreadsBegin,
     ThreadsEnd, Unused, TypeOK, Thread, Order, Worker
<1>10. Unused'
  BY <1>2, <1>3, <1>4, <1>5, NameAssumption DEF IInv, Unused, ThreadsBegin, ThreadsEnd,
     Order, Worker
<1>11. Kept'
  BY <1>2, <1>3, <1>4, <1>5, NameAssumption DEF IInv, Kept, ThreadsBegin, ThreadsEnd,
     Unused, Order, Worker
<1> QED BY <1>1, <1>6, <1>7, <1>8, <1>9, <1>10, <1>11 DEF IInv

\* CancelAndFlatten keeps the invariant.
LEMMA CancelAndFlattenKeeps ==
  ASSUME IInv, NEW k \in Killer, CancelAndFlatten(k)
  PROVE  IInv'
<1>1. TypeOK'
  <2>1. order' \in [Order -> OrderRecord] /\ outbox' \subseteq Order
    <3>1. Cancelled \in [Order -> OrderRecord]
      BY DEF Cancelled, IInv, TypeOK, OrderRecord, OrderState, OpenStates
    <3>2. Sent(-pos) \in OrderRecord
      BY DEF IInv, TypeOK, Sent, OrderRecord, OrderState, OpenStates
    <3>3. /\ order' = Cancelled \/ order' = [Cancelled EXCEPT ![k] = Sent(-pos)]
          /\ outbox' = outbox \/ outbox' = outbox \cup {k}
      BY DEF CancelAndFlatten
    <3> QED BY <3>1, <3>2, <3>3 DEF IInv, TypeOK, Order
  <2>2. work' \in [Worker -> Thread]
    BY NameAssumption, NumberAssumption, ChoiceAssumption DEF IInv, CancelAndFlatten,
       Cancelled, Sent, Started, TypeOK, Thread, Idle, Order, Worker, OpenIn
  <2>3. killer' \in [Killer -> Kill]
    BY NameAssumption, NumberAssumption, ChoiceAssumption DEF IInv, CancelAndFlatten,
       Cancelled, Sent, Started, TypeOK, Kill, KillPC
  <2> QED BY <2>1, <2>2, <2>3, NumberAssumption DEF IInv, CancelAndFlatten, Cancelled, Sent, Started, TypeOK, VenueOrder, Order
<1>2. /\ \A v \in Worker \ {k} : work'[v] = work[v]
      /\ work'[k].pc = "swap" /\ work'[k].box = {}
      /\ work'[k].sent = {}
      /\ work'[k].fills = {}
  BY NameAssumption DEF IInv, CancelAndFlatten, Cancelled, Sent, Started, TypeOK,
     Thread, Idle, Order, Worker, OpenIn
<1>3. /\ \A p \in Order \ {k} : (order'[p].state = "none") <=> (order[p].state = "none")
      /\ \A p \in Order \ {k} : order'[p].state # "SUBMITTED"
      /\ \/ outbox' = outbox /\ order'[k].state = "none"
         \/ outbox' = outbox \cup {k} /\ order'[k].state = "SUBMITTED"
  <2>1. /\ Cancelled \in [Order -> OrderRecord]
        /\ \A p \in Order : /\ (Cancelled[p].state = "none") <=> (order[p].state = "none")
                            /\ Cancelled[p].state # "SUBMITTED"
    BY DEF Cancelled, IInv, TypeOK, OrderRecord, OrderState, OpenStates
  <2>2. order[k].state = "none" /\ k \in Order
    BY DEF CancelAndFlatten, IInv, Unused, Order
  <2>3. CASE pos = 0
    <3>1. order' = Cancelled /\ outbox' = outbox
      BY <2>3 DEF CancelAndFlatten
    <3> QED BY <2>1, <2>2, <3>1
  <2>4. CASE pos # 0
    <3>1. order' = [Cancelled EXCEPT ![k] = Sent(-pos)] /\ outbox' = outbox \cup {k}
      BY <2>4 DEF CancelAndFlatten
    <3>2. Sent(-pos).state = "SUBMITTED"
      BY DEF Sent
    <3> QED BY <2>1, <2>2, <3>1, <3>2
  <2> QED BY <2>3, <2>4
<1>4. /\ \A j \in Killer \ {k} : killer'[j].pc = killer[j].pc
      /\ killer'[k].pc = "flushing"
  BY DEF IInv, CancelAndFlatten, Cancelled, Sent, Started, TypeOK, Kill
<1>5. venue' = venue /\ task' = task
  BY DEF CancelAndFlatten
<1>6. killer[k].pc = "deleted" /\ order[k].state = "none" /\ k \in Order
  BY NameAssumption DEF IInv, CancelAndFlatten, Cancelled, Sent, Started, TypeOK,
     Thread, Unused, Order, Worker
<1>7. ThreadsBegin'
  BY <1>2, <1>3, <1>4, <1>5, <1>6, NameAssumption DEF IInv, ThreadsBegin, Worker
<1>8. ThreadsEnd'
  BY ZenonT(60), <1>2, <1>3, <1>4, <1>5, <1>6, NameAssumption DEF IInv, ThreadsBegin, ThreadsEnd, Worker
<1>9. OnePlace'
  BY SMTT(40), <1>2, <1>3, <1>4, <1>5, <1>6, NameAssumption DEF IInv, OnePlace, ThreadsBegin,
     ThreadsEnd, Unused, TypeOK, Thread, Order, Worker
<1>10. Unposted'
  BY <1>2, <1>3, <1>4, <1>5, <1>6, NameAssumption DEF IInv, Unposted, OnePlace,
     ThreadsBegin, ThreadsEnd, Unused, TypeOK, Thread, Order, Worker
<1>11. Unused'
  BY <1>2, <1>3, <1>4, <1>5, <1>6, NameAssumption DEF IInv, Unused, ThreadsBegin,
     ThreadsEnd, Order, Worker
<1>12. Kept'
  BY <1>2, <1>3, <1>4, <1>5, <1>6, NameAssumption DEF IInv, Kept, ThreadsBegin,
     ThreadsEnd, Unused, Order, Worker
<1> QED BY <1>1, <1>7, <1>8, <1>9, <1>10, <1>11, <1>12 DEF IInv

\* EndFlush keeps the invariant.
LEMMA EndFlushKeeps ==
  ASSUME IInv, NEW k \in Killer, EndFlush(k)
  PROVE  IInv'
<1>1. TypeOK'
  <2>1. killer' \in [Killer -> Kill]
    BY NameAssumption, NumberAssumption, ChoiceAssumption DEF IInv, EndFlush,
       Finished, TypeOK, Kill, KillPC
  <2> QED BY <2>1, NumberAssumption DEF IInv, EndFlush, Finished, TypeOK, VenueOrder, Order
<1>2. /\ \A j \in Killer \ {k} : killer'[j].pc = killer[j].pc
      /\ killer'[k].pc = "booking"
  BY DEF IInv, EndFlush, Finished, TypeOK, Kill
<1>3. work' = work /\ order' = order /\ venue' = venue /\ outbox' = outbox /\ task' = task
  BY DEF EndFlush
<1>4. killer[k].pc = "flushing" /\ work[k].pc = "work" /\ work[k].box = {} /\ work[k].sent = {}
  BY NameAssumption DEF IInv, EndFlush, Finished, TypeOK, Thread, Unused, Order, Worker
<1>5. ThreadsBegin'
  BY <1>2, <1>3, <1>4, NameAssumption DEF IInv, ThreadsBegin, Worker
<1>6. ThreadsEnd'
  BY <1>2, <1>3, <1>4, NameAssumption DEF IInv, ThreadsBegin, ThreadsEnd, Worker
<1>7. OnePlace'
  BY <1>2, <1>3, <1>4, NameAssumption DEF IInv, OnePlace
<1>8. Unposted'
  BY <1>2, <1>3, <1>4, NameAssumption DEF IInv, Unposted
<1>9. Unused'
  BY <1>2, <1>3, <1>4, NameAssumption DEF IInv, Unused, Order
<1>10. Kept'
  BY <1>2, <1>3, <1>4, NameAssumption DEF IInv, Kept
<1> QED BY <1>1, <1>5, <1>6, <1>7, <1>8, <1>9, <1>10 DEF IInv

\* EndRound keeps the invariant.
LEMMA EndRoundKeeps ==
  ASSUME IInv, NEW k \in Killer, EndRound(k)
  PROVE  IInv'
<1>1. TypeOK'
  <2>1. work' \in [Worker -> Thread]
    BY NameAssumption, NumberAssumption, ChoiceAssumption DEF IInv, EndRound, TypeOK,
       Thread, Idle, Order, Worker, OpenIn
  <2>2. killer' \in [Killer -> Kill]
    <3> DEFINE pc == IF pos = 0 \/ RoundsEnd(k) THEN "ending" ELSE "resting"
               rounds == IF killer[k].rounds = MaxRounds THEN killer[k].rounds
                         ELSE killer[k].rounds + 1
    <3>1. rounds \in 0..MaxRounds
      BY NumberAssumption DEF IInv, TypeOK, Kill
    <3>2. pc \in KillPC
      BY DEF KillPC
    <3>3. killer' = [killer EXCEPT ![k] = [killer[k] EXCEPT !.pc = pc, !.rounds = rounds]]
      BY DEF EndRound, IInv, TypeOK
    <3> HIDE DEF pc, rounds
    <3>4. [killer[k] EXCEPT !.pc = pc, !.rounds = rounds] \in Kill
      BY <3>1, <3>2 DEF IInv, TypeOK, Kill
    <3> QED BY <3>3, <3>4 DEF IInv, TypeOK
  <2> QED BY <2>1, <2>2, NumberAssumption DEF IInv, EndRound, TypeOK, VenueOrder, Order
<1>2. /\ \A v \in Worker \ {k} : work'[v] = work[v]
      /\ work'[k].pc = "idle" /\ work'[k].box = {}
      /\ work'[k].sent = {} /\ work'[k].fills = {}
  BY NameAssumption DEF IInv, EndRound, TypeOK, Thread, Idle, Order, Worker, OpenIn
<1>3. /\ \A j \in Killer \ {k} : killer'[j].pc = killer[j].pc
      /\ killer'[k].pc \in {"ending", "resting"}
  BY DEF IInv, EndRound, TypeOK, Kill
<1>4. order' = order /\ venue' = venue /\ outbox' = outbox /\ task' = task
  BY DEF EndRound
<1>5. killer[k].pc = "booking"
  BY NameAssumption DEF IInv, EndRound, TypeOK, Thread, Unused, Order, Worker
<1>6. ThreadsBegin'
  BY <1>2, <1>3, <1>4, <1>5, NameAssumption DEF IInv, ThreadsBegin, Worker
<1>7. ThreadsEnd'
  BY ZenonT(60), <1>2, <1>3, <1>4, <1>5, NameAssumption DEF IInv, ThreadsBegin, ThreadsEnd, Worker
<1>8. OnePlace'
  BY <1>2, <1>3, <1>4, <1>5, NameAssumption DEF IInv, OnePlace, ThreadsBegin,
     ThreadsEnd, Unused, TypeOK, Thread, Order, Worker
<1>9. Unposted'
  BY SMTT(40), <1>2, <1>3, <1>4, <1>5, NameAssumption DEF IInv, Unposted, OnePlace, ThreadsBegin,
     ThreadsEnd, Unused, TypeOK, Thread, Order, Worker
<1>10. Unused'
  BY <1>2, <1>3, <1>4, <1>5, NameAssumption DEF IInv, Unused, ThreadsBegin, ThreadsEnd,
     Order, Worker
<1>11. Kept'
  BY <1>2, <1>3, <1>4, <1>5, NameAssumption DEF IInv, Kept, ThreadsBegin, ThreadsEnd,
     Unused, Order, Worker
<1> QED BY <1>1, <1>6, <1>7, <1>8, <1>9, <1>10, <1>11 DEF IInv

\* KillFails keeps the invariant.
LEMMA KillFailsKeeps ==
  ASSUME IInv, NEW k \in Killer, NEW o \in Order, KillFails(k, o)
  PROVE  IInv'
<1>1. TypeOK'
  <2>1. order' \in [Order -> OrderRecord]
    BY SMTT(40), NameAssumption, NumberAssumption, ChoiceAssumption DEF IInv, KillFails, Booked,
       TypeOK, OrderRecord, OrderState, OpenStates, VenueOrder, Order
  <2>2. work' \in [Worker -> Thread]
    BY NameAssumption, NumberAssumption, ChoiceAssumption DEF IInv, KillFails, Booked,
       TypeOK, Thread, Idle, Order, Worker, OpenIn
  <2>3. killer' \in [Killer -> Kill]
    BY NameAssumption, NumberAssumption, ChoiceAssumption DEF IInv, KillFails, Booked,
       TypeOK, Kill, KillPC
  <2>4. venue' \in [Order -> VenueOrder]
    BY NameAssumption, NumberAssumption, ChoiceAssumption DEF IInv, KillFails, Booked,
       TypeOK, VenueOrder, VenueStatus, OrderRecord
  <2> QED BY <2>1, <2>2, <2>3, <2>4, NumberAssumption DEF IInv, KillFails, Booked, TypeOK, VenueOrder, Order
<1>2. /\ \A v \in Worker \ {k} : work'[v] = work[v]
      /\ work'[k].pc = "idle" /\ work'[k].box = {}
      /\ work'[k].sent = {} /\ work'[k].fills = {}
  BY NameAssumption DEF IInv, KillFails, Booked, TypeOK, Thread, Idle, Order, Worker, OpenIn
<1>3. /\ \A p \in Order \ {o} : order'[p].state = order[p].state
      /\ order'[o].state = "FILLED"
  BY NameAssumption DEF IInv, KillFails, Booked, TypeOK, OrderRecord, OrderState,
     OpenStates, Order
<1>4. /\ \A j \in Killer \ {k} : killer'[j].pc = killer[j].pc
      /\ killer'[k].pc = "failed"
  BY DEF IInv, KillFails, Booked, TypeOK, Kill
<1>5. venue' = venue /\ outbox' = outbox /\ task' = task
  BY DEF KillFails
<1>6. killer[k].pc = "booking" /\ order[o].state # "none"
  BY NameAssumption DEF IInv, KillFails, Booked, TypeOK, Thread, Unused, Order, Worker
<1>7. ThreadsBegin'
  BY <1>2, <1>3, <1>4, <1>5, <1>6, NameAssumption DEF IInv, ThreadsBegin, Worker
<1>8. ThreadsEnd'
  BY ZenonT(60), <1>2, <1>3, <1>4, <1>5, <1>6, NameAssumption DEF IInv, ThreadsBegin, ThreadsEnd, Worker
<1>9. OnePlace'
  BY <1>2, <1>3, <1>4, <1>5, <1>6, NameAssumption DEF IInv, OnePlace, ThreadsBegin,
     ThreadsEnd, Unused, TypeOK, Thread, Order, Worker
<1>10. Unposted'
  BY <1>2, <1>3, <1>4, <1>5, <1>6, NameAssumption DEF IInv, Unposted, OnePlace,
     ThreadsBegin, ThreadsEnd, Unused, TypeOK, Thread, Order, Worker
<1>11. Unused'
  BY <1>2, <1>3, <1>4, <1>5, <1>6, NameAssumption DEF IInv, Unused, ThreadsBegin,
     ThreadsEnd, Order, Worker
<1>12. Kept'
  BY <1>2, <1>3, <1>4, <1>5, <1>6, NameAssumption DEF IInv, Kept, ThreadsBegin,
     ThreadsEnd, Unused, Order, Worker
<1> QED BY <1>1, <1>7, <1>8, <1>9, <1>10, <1>11, <1>12 DEF IInv

\* NextRound keeps the invariant.
LEMMA NextRoundKeeps ==
  ASSUME IInv, NEW k \in Killer, NextRound(k)
  PROVE  IInv'
<1>1. TypeOK'
  <2>1. work' \in [Worker -> Thread]
    BY NameAssumption, NumberAssumption, ChoiceAssumption DEF IInv, NextRound,
       Started, TypeOK, Thread, Idle, Order, Worker, OpenIn
  <2>2. killer' \in [Killer -> Kill]
    BY NameAssumption, NumberAssumption, ChoiceAssumption DEF IInv, NextRound,
       Started, TypeOK, Kill, KillPC
  <2> QED BY <2>1, <2>2, NumberAssumption DEF IInv, NextRound, Started, TypeOK, VenueOrder, Order
<1>2. /\ \A v \in Worker \ {k} : work'[v] = work[v]
      /\ work'[k].pc = "swap" /\ work'[k].box = {}
      /\ work'[k].sent = {}
      /\ work'[k].fills = {}
  BY NameAssumption DEF IInv, NextRound, Started, TypeOK, Thread, Idle, Order, Worker,
     OpenIn
<1>3. /\ \A j \in Killer \ {k} : killer'[j].pc = killer[j].pc
      /\ killer'[k].pc = "flushing"
  BY DEF IInv, NextRound, Started, TypeOK, Kill
<1>4. order' = order /\ venue' = venue /\ outbox' = outbox /\ task' = task
  BY DEF NextRound
<1>5. killer[k].pc = "resting"
  BY NameAssumption DEF IInv, NextRound, Started, TypeOK, Thread, Unused, Order, Worker
<1>6. ThreadsBegin'
  BY <1>2, <1>3, <1>4, <1>5, NameAssumption DEF IInv, ThreadsBegin, Worker
<1>7. ThreadsEnd'
  BY ZenonT(60), <1>2, <1>3, <1>4, <1>5, NameAssumption DEF IInv, ThreadsBegin, ThreadsEnd, Worker
<1>8. OnePlace'
  BY <1>2, <1>3, <1>4, <1>5, NameAssumption DEF IInv, OnePlace, ThreadsBegin,
     ThreadsEnd, Unused, TypeOK, Thread, Order, Worker
<1>9. Unposted'
  BY <1>2, <1>3, <1>4, <1>5, NameAssumption DEF IInv, Unposted, OnePlace, ThreadsBegin,
     ThreadsEnd, Unused, TypeOK, Thread, Order, Worker
<1>10. Unused'
  BY <1>2, <1>3, <1>4, <1>5, NameAssumption DEF IInv, Unused, ThreadsBegin, ThreadsEnd,
     Order, Worker
<1>11. Kept'
  BY <1>2, <1>3, <1>4, <1>5, NameAssumption DEF IInv, Kept, ThreadsBegin, ThreadsEnd,
     Unused, Order, Worker
<1> QED BY <1>1, <1>6, <1>7, <1>8, <1>9, <1>10, <1>11 DEF IInv

\* EndKill keeps the invariant.
LEMMA EndKillKeeps ==
  ASSUME IInv, NEW k \in Killer, EndKill(k)
  PROVE  IInv'
<1>1. TypeOK'
  BY NameAssumption, ChoiceAssumption, NumberAssumption DEF IInv, EndKill, TypeOK,
     Order, Worker, OpenStates, OrderState, OrderRecord, VenueOrder, VenueStatus,
     Thread, Idle, Kill, KillPC, OpenIn
<1>2. /\ task' = "gone"
  BY DEF EndKill
<1>3. /\ \A j \in Killer \ {k} : killer'[j].pc = killer[j].pc
      /\ killer'[k].pc = "done"
  BY DEF IInv, EndKill, TypeOK, Kill
<1>4. work' = work /\ order' = order /\ venue' = venue /\ outbox' = outbox
  BY DEF EndKill
<1>5. killer[k].pc = "ending"
  BY NameAssumption DEF IInv, EndKill, TypeOK, Thread, Unused, Order, Worker
<1>6. ThreadsBegin'
  BY <1>2, <1>3, <1>4, <1>5, NameAssumption DEF IInv, ThreadsBegin, Worker
<1>7. ThreadsEnd'
  BY <1>2, <1>3, <1>4, <1>5, NameAssumption DEF IInv, ThreadsBegin, ThreadsEnd, Worker
<1>8. OnePlace'
  BY <1>2, <1>3, <1>4, <1>5, NameAssumption DEF IInv, OnePlace
<1>9. Unposted'
  BY <1>2, <1>3, <1>4, <1>5, NameAssumption DEF IInv, Unposted
<1>10. Unused'
  BY <1>2, <1>3, <1>4, <1>5, NameAssumption DEF IInv, Unused, Order
<1>11. Kept'
  BY <1>2, <1>3, <1>4, <1>5, NameAssumption DEF IInv, Kept
<1> QED BY <1>1, <1>6, <1>7, <1>8, <1>9, <1>10, <1>11 DEF IInv

\* VenueFill keeps the invariant.
LEMMA VenueFillKeeps ==
  ASSUME IInv, NEW o \in Order, VenueFill(o)
  PROVE  IInv'
<1>1. TypeOK'
  <2>1. venue' \in [Order -> VenueOrder]
    <3> DEFINE filled == venue[o].filled + (IF order[o].qty > 0 THEN 1 ELSE -1)
               status == IF filled = order[o].qty THEN "filled" ELSE "live"
    <3>1. filled \in Int
      BY DEF IInv, TypeOK, VenueOrder, OrderRecord
    <3>2. status \in VenueStatus
      BY DEF VenueStatus
    <3>3. venue' = [venue EXCEPT ![o] = [venue[o] EXCEPT !.filled = filled, !.status = status]]
      BY DEF VenueFill, IInv, TypeOK
    <3> HIDE DEF filled, status
    <3>4. [venue[o] EXCEPT !.filled = filled, !.status = status] \in VenueOrder
      BY <3>1, <3>2 DEF IInv, TypeOK, VenueOrder
    <3> QED BY <3>3, <3>4 DEF IInv, TypeOK
  <2> QED BY <2>1, NumberAssumption DEF IInv, VenueFill, TypeOK, VenueOrder, Order
<1>2. /\ \A p \in Order : venue'[p].posts = venue[p].posts
  BY DEF IInv, VenueFill, TypeOK, VenueOrder
<1>3. work' = work /\ order' = order /\ outbox' = outbox /\ task' = task /\ killer' = killer
  BY DEF VenueFill
<1>4. ThreadsBegin'
  BY <1>2, <1>3, NameAssumption DEF IInv, ThreadsBegin, Worker
<1>5. ThreadsEnd'
  BY <1>2, <1>3, NameAssumption DEF IInv, ThreadsBegin, ThreadsEnd, Worker
<1>6. OnePlace'
  BY <1>2, <1>3, NameAssumption DEF IInv, OnePlace
<1>7. Unposted'
  BY <1>2, <1>3, NameAssumption DEF IInv, Unposted, OnePlace, ThreadsBegin, ThreadsEnd,
     Unused, TypeOK, Thread, Order, Worker
<1>8. Unused'
  BY <1>2, <1>3, NameAssumption DEF IInv, Unused, Order
<1>9. Kept'
  BY <1>2, <1>3, NameAssumption DEF IInv, Kept
<1> QED BY <1>1, <1>4, <1>5, <1>6, <1>7, <1>8, <1>9 DEF IInv

\* VenueClose keeps the invariant.
LEMMA VenueCloseKeeps ==
  ASSUME IInv, NEW o \in Order, VenueClose(o)
  PROVE  IInv'
<1>1. TypeOK'
  BY NameAssumption, ChoiceAssumption, NumberAssumption DEF IInv, VenueClose, TypeOK,
     Order, Worker, OpenStates, OrderState, OrderRecord, VenueOrder, VenueStatus,
     Thread, Idle, Kill, KillPC, OpenIn
<1>2. /\ \A p \in Order : venue'[p].posts = venue[p].posts
  BY DEF IInv, VenueClose, TypeOK, VenueOrder
<1>3. work' = work /\ order' = order /\ outbox' = outbox /\ task' = task /\ killer' = killer
  BY DEF VenueClose
<1>4. ThreadsBegin'
  BY <1>2, <1>3, NameAssumption DEF IInv, ThreadsBegin, Worker
<1>5. ThreadsEnd'
  BY <1>2, <1>3, NameAssumption DEF IInv, ThreadsBegin, ThreadsEnd, Worker
<1>6. OnePlace'
  BY <1>2, <1>3, NameAssumption DEF IInv, OnePlace
<1>7. Unposted'
  BY <1>2, <1>3, NameAssumption DEF IInv, Unposted, OnePlace, ThreadsBegin, ThreadsEnd,
     Unused, TypeOK, Thread, Order, Worker
<1>8. Unused'
  BY <1>2, <1>3, NameAssumption DEF IInv, Unused, Order
<1>9. Kept'
  BY <1>2, <1>3, NameAssumption DEF IInv, Kept
<1> QED BY <1>1, <1>4, <1>5, <1>6, <1>7, <1>8, <1>9 DEF IInv

\* VenueReject keeps the invariant.
LEMMA VenueRejectKeeps ==
  ASSUME IInv, NEW o \in Order, VenueReject(o)
  PROVE  IInv'
<1>1. TypeOK'
  BY NameAssumption, ChoiceAssumption, NumberAssumption DEF IInv, VenueReject, TypeOK,
     Order, Worker, OpenStates, OrderState, OrderRecord, VenueOrder, VenueStatus,
     Thread, Idle, Kill, KillPC, OpenIn
<1>2. /\ \A p \in Order : venue'[p].posts = venue[p].posts
  BY DEF IInv, VenueReject, TypeOK, VenueOrder
<1>3. work' = work /\ order' = order /\ outbox' = outbox /\ task' = task /\ killer' = killer
  BY DEF VenueReject
<1>4. ThreadsBegin'
  BY <1>2, <1>3, NameAssumption DEF IInv, ThreadsBegin, Worker
<1>5. ThreadsEnd'
  BY <1>2, <1>3, NameAssumption DEF IInv, ThreadsBegin, ThreadsEnd, Worker
<1>6. OnePlace'
  BY <1>2, <1>3, NameAssumption DEF IInv, OnePlace
<1>7. Unposted'
  BY <1>2, <1>3, NameAssumption DEF IInv, Unposted, OnePlace, ThreadsBegin, ThreadsEnd,
     Unused, TypeOK, Thread, Order, Worker
<1>8. Unused'
  BY <1>2, <1>3, NameAssumption DEF IInv, Unused, Order
<1>9. Kept'
  BY <1>2, <1>3, NameAssumption DEF IInv, Kept
<1> QED BY <1>1, <1>4, <1>5, <1>6, <1>7, <1>8, <1>9 DEF IInv

\* The initial states satisfy the invariant.
LEMMA InitInv == Init => IInv
<1> SUFFICES ASSUME Init PROVE IInv
  OBVIOUS
<1>1. TypeOK
  <2>1. order \in [Order -> OrderRecord]
    BY DEF Init, OrderRecord, OrderState, OpenStates, NoOrder
  <2>2. venue \in [Order -> VenueOrder]
    BY DEF Init, VenueOrder, VenueStatus, NoVenueOrder
  <2>3. killer \in [Killer -> Kill]
    BY NumberAssumption DEF Init, Kill, KillPC
  <2>4. work \in [Worker -> Thread]
    BY DEF Init, Thread, Idle
  <2>5. pos \in Int /\ failures \in 0 .. MaxFailures
    BY NumberAssumption DEF Init
  <2>6. /\ outbox \subseteq Order
        /\ killed \in BOOLEAN
        /\ state \in {"running", "stopped", "killed"}
        /\ task \in {"awake", "syncing", "booking", "gone"}
    BY Zenon DEF Init
  <2> QED BY <2>1, <2>2, <2>3, <2>4, <2>5, <2>6 DEF TypeOK
<1>2. /\ \A w \in Worker : /\ work[w].pc = "idle" /\ work[w].box = {}
                           /\ work[w].sent = {} /\ work[w].fills = {}
      /\ \A o \in Order : order[o].state = "none" /\ venue[o].posts = 0
      /\ outbox = {} /\ task = "awake"
      /\ \A k \in Killer : killer[k].pc = "idle"
  BY DEF Init, Idle, NoOrder, NoVenueOrder
<1>3. Killer \subseteq Order /\ Killer \subseteq Worker /\ "run" \in Worker
  BY DEF Order, Worker
<1>4. ThreadsBegin /\ ThreadsEnd
  BY <1>2, <1>3 DEF ThreadsBegin, ThreadsEnd
<1>5. OnePlace /\ Unposted /\ Unused /\ Kept
  BY <1>2, <1>3 DEF OnePlace, Unposted, Unused, Kept
<1> QED BY <1>1, <1>4, <1>5 DEF IInv

\* Every step keeps it.
LEMMA NextInv == IInv /\ [Next]_vars => IInv'
<1> SUFFICES ASSUME IInv, [Next]_vars PROVE IInv'
  OBVIOUS
<1>1. CASE UNCHANGED vars
  BY <1>1 DEF vars, IInv, TypeOK, ThreadsBegin, ThreadsEnd, OnePlace, Unposted, Unused, Kept
<1>2. CASE \E o \in Request, q \in Quantity : StrategyOrder(o, q)
  BY <1>2, StrategyOrderKeeps
<1>3. CASE StrategyCancel \/ LossLimit \/ Crash \/ Stop
  BY <1>3, StrategyCancelKeeps, LossLimitKeeps, CrashKeeps, StopKeeps
<1>4. CASE TaskStep
  BY <1>4, BeginSyncKeeps, EndSyncKeeps, ResumeKeeps, BookFillKeeps DEF TaskStep, Worker
<1>5. ASSUME NEW w \in Worker, ThreadStep(w) PROVE IInv'
  BY <1>5, SwapKeeps, PostAcceptedKeeps, PostRefusedKeeps, PostRepliedKeeps, PostLostKeeps,
     PollKeeps, PollNothingKeeps DEF ThreadStep
<1>6. ASSUME NEW k \in Killer, KillStep(k) PROVE IInv'
  BY <1>6, DeleteAllKeeps, DeleteFailsKeeps, CancelHereKeeps, CancelAndFlattenKeeps,
     EndFlushKeeps, EndRoundKeeps, NextRoundKeeps, EndKillKeeps, BookFillKeeps
     DEF KillStep, Worker
<1>7. ASSUME NEW k \in Killer, NEW o \in Order, KillFails(k, o) PROVE IInv'
  BY <1>7, KillFailsKeeps
<1>8. ASSUME NEW k \in Killer, NEW flatten \in Flatten, PressKill(k, flatten) PROVE IInv'
  BY <1>8, PressKillKeeps
<1>9. ASSUME NEW o \in Order, VenueStep(o) PROVE IInv'
  BY <1>9, VenueFillKeeps, VenueCloseKeeps, VenueRejectKeeps DEF VenueStep
<1> QED BY <1>1, <1>2, <1>3, <1>4, <1>5, <1>6, <1>7, <1>8, <1>9 DEF Next

\* The invariant holds in every reachable state.
THEOREM Inductive == Spec => []IInv
BY InitInv, NextInv, PTL DEF Spec

\* The variables keep the types the code gives them, in sessions of any size.
THEOREM TypeCorrect == Spec => []TypeOK
<1>1. IInv => TypeOK
  BY DEF IInv
<1> QED BY <1>1, Inductive, PTL

\* No order is posted to the venue twice, however many threads flush the queue
\* and whatever is cancelled, killed or lost meanwhile (broker.py:128-143).
THEOREM NeverPostedTwice == Spec => []PostedOnce
<1>1. IInv => PostedOnce
  BY DEF IInv, Unposted, PostedOnce
<1> QED BY <1>1, Inductive, PTL

\* An order on its way is in the queue or in the hands of one thread, never
\* dropped between the two and never in two places.
THEOREM NothingIsLost == Spec => []NothingLost
<1>1. IInv => NothingLost
  <2> SUFFICES ASSUME IInv, NEW o \in Order, order[o].state = "SUBMITTED"
               PROVE  IF o \in outbox THEN Holders(o) = {}
                      ELSE \E w \in Worker : Holders(o) = {w}
    BY DEF NothingLost
  <2>1. CASE o \in outbox
    BY <2>1 DEF IInv, OnePlace, Holders
  <2>2. CASE o \notin outbox
    <3>1. PICK w \in Worker : o \in work[w].box \/ o \in work[w].sent
      BY <2>2 DEF IInv, Kept
    <3>2. Holders(o) = {w}
      BY <3>1 DEF IInv, OnePlace, Holders
    <3> QED BY <2>2, <3>2
  <2> QED BY <2>1, <2>2
<1> QED BY <1>1, Inductive, PTL

----------------------------------------------------------------------------
(* The books of a session that no kill flattens.                           *)

\* The session whose books are one thread's: no press of the button flattens.
Unflattened == Killer = {} \/ TRUE \notin Flatten

\* No kill starts a thread of its own.
NoFlush ==
    \A k \in Killer : ~killer[k].flatten /\ killer[k].pc \notin {"flushing", "booking", "resting"}

\* An order the venue has answered for is nowhere on its way.
Answered ==
    \A o \in Order : order[o].known =>
       order[o].state # "none" /\ o \notin outbox /\ \A w \in Worker : o \notin work[w].box /\ o \notin work[w].sent

\* What is booked, or reported and about to be, is executed at the venue, for
\* good; what is about to be is not booked.
Settled ==
    /\ \A o \in Order : order[o].state = "FILLED" => order[o].known /\ venue[o].status = "filled"
    /\ \A o \in work["run"].fills :
          order[o].known /\ venue[o].status = "filled" /\ order[o].state # "FILLED"

BooksInv == NoFlush /\ Answered /\ Settled /\ BookedOnce

\* A step that books nothing keeps the books when it leaves alone what the
\* venue has executed, and takes up only executions that were reported.
LEMMA BooksKept ==
    ASSUME IInv, IInv', BooksInv, NoFlush', Answered', pos' = pos,
           \A o \in Order : order'[o].state = "FILLED" <=> order[o].state = "FILLED",
           \A o \in Order : order[o].known => order'[o].known,
           \A o \in Order : order[o].known /\ venue[o].status = "filled" => venue'[o] = venue[o],
           \A o \in work'["run"].fills :
              order[o].known /\ venue[o].status = "filled" /\ order[o].state # "FILLED"
    PROVE  BooksInv'
<1>1. work'["run"].fills \subseteq Order
  BY DEF IInv, TypeOK, Thread, Worker
<1>2. Settled'
  BY <1>1 DEF BooksInv, Settled
<1> DEFINE F == {o \in Order : order[o].state = "FILLED"}
           f == [o \in Order |-> venue[o].filled]
           g == [o \in Order |-> venue'[o].filled]
<1>3. F = {o \in Order : order'[o].state = "FILLED"}
  OBVIOUS
<1>4. \A o \in F : f[o] = g[o]
  BY DEF BooksInv, Settled
<1>5. IsFiniteSet(F)
  BY NameAssumption, FS_Union, FS_Subset DEF Order
<1>6. SumFunctionOnSet(f, F) = SumFunctionOnSet(g, F)
  <2> HIDE DEF F, f, g
  <2> QED BY <1>4, <1>5, SumSame
<1>7. BookedOnce'
  <2>1. pos = SumFunctionOnSet(f, F)
    BY DEF BooksInv, BookedOnce, ExecutedOf
  <2>2. pos' = SumFunctionOnSet(g, F)
    BY <1>6, <2>1
  <2> QED BY <1>3, <2>2 DEF BookedOnce, ExecutedOf
<1> QED BY <1>2, <1>7 DEF BooksInv

\* An order the strategy sends is new: nothing of it is booked or answered for.
LEMMA StrategyOrderBooks ==
    ASSUME IInv, IInv', BooksInv, NEW o \in Request, NEW q \in Quantity, order[o].state = "none",
           order' = [order EXCEPT ![o] = Sent(q)], outbox' = outbox \cup {o},
           UNCHANGED <<pos, venue, killer, work>>
    PROVE  BooksInv'
<1>1. /\ o \in Order /\ order'[o].state = "SUBMITTED" /\ ~order'[o].known
      /\ \A p \in Order : p # o => order'[p] = order[p]
  <2>1. o \in Order /\ order'[o] = Sent(q) /\ \A p \in Order : p # o => order'[p] = order[p]
    BY DEF IInv, TypeOK, Order
  <2>2. Sent(q).state = "SUBMITTED" /\ ~Sent(q).known
    BY DEF Sent
  <2> QED BY <2>1, <2>2
<1>2. ~order[o].known
  BY <1>1 DEF BooksInv, Answered
<1>3. Answered' /\ NoFlush'
  BY <1>1 DEF BooksInv, Answered, NoFlush
<1> QED BY <1>1, <1>2, <1>3, BooksKept DEF BooksInv, Settled

\* A cancel on this side.
LEMMA CancelledBooks ==
    ASSUME IInv, IInv', BooksInv, NoFlush', order' = Cancelled,
           UNCHANGED <<pos, outbox, venue, work>>
    PROVE  BooksInv'
<1>1. \A o \in Order : /\ order'[o].known = order[o].known
                       /\ order'[o].state = "FILLED" <=> order[o].state = "FILLED"
                       /\ order'[o].state = "none" <=> order[o].state = "none"
  <2> TAKE o \in Order
  <2>1. order[o] \in OrderRecord
    BY DEF IInv, TypeOK
  <2>2. order'[o] = IF order[o].state \in OpenStates THEN [order[o] EXCEPT !.state = "CANCELLED"]
                    ELSE order[o]
    BY DEF Cancelled
  <2> QED BY <2>1, <2>2 DEF OrderRecord, OpenStates
<1>2. Answered'
  BY <1>1 DEF BooksInv, Answered
<1> QED BY <1>1, <1>2, BooksKept DEF BooksInv, Settled

\* A thread writes what became of an order it posts.
LEMMA WrittenBooks ==
    ASSUME IInv, IInv', BooksInv, NEW w \in Worker, NEW o \in Order,
           o \in work[w].box \/ o \in work[w].sent,
           \/ work' = [work EXCEPT ![w].box = @ \ {o}]
           \/ work' = [work EXCEPT ![w].sent = @ \ {o}],
           \/ order' = [order EXCEPT ![o].state = "REJECTED"]
           \/ /\ order' = [order EXCEPT ![o].state = "ACKNOWLEDGED", ![o].known = TRUE]
              /\ work' = [work EXCEPT ![w].sent = @ \ {o}] /\ o \in work[w].sent,
           UNCHANGED <<pos, outbox, venue, killer>>
    PROVE  BooksInv'
<1>1. ~order[o].known /\ order[o].state # "FILLED"
  BY DEF BooksInv, Answered, Settled
<1>2. /\ \A p \in Order : p # o => order'[p] = order[p]
      /\ order'[o].state \in {"REJECTED", "ACKNOWLEDGED"}
      /\ \/ order'[o].known = order[o].known
         \/ order'[o].known /\ o \in work[w].sent /\ work' = [work EXCEPT ![w].sent = @ \ {o}]
  BY DEF IInv, TypeOK, OrderRecord
<1>3. \A v \in Worker : /\ work'[v].fills = work[v].fills
                        /\ work'[v].box \subseteq work[v].box /\ work'[v].sent \subseteq work[v].sent
  <2> TAKE v \in Worker
  <2>1. work[v] \in Thread
    BY DEF IInv, TypeOK
  <2>2. CASE v # w
    BY <2>2 DEF IInv, TypeOK
  <2>3. CASE v = w
    <3>1. \/ work'[v] = [work[v] EXCEPT !.box = @ \ {o}]
          \/ work'[v] = [work[v] EXCEPT !.sent = @ \ {o}]
      BY <2>3 DEF IInv, TypeOK
    <3> QED BY <2>1, <3>1 DEF Thread
  <2> QED BY <2>2, <2>3
<1>4. order'[o].known => o \notin outbox /\ \A v \in Worker : o \notin work'[v].box /\ o \notin work'[v].sent
  <2>1. SUFFICES ASSUME o \in work[w].sent, work' = [work EXCEPT ![w].sent = @ \ {o}]
                 PROVE  o \notin outbox /\ \A v \in Worker : o \notin work'[v].box /\ o \notin work'[v].sent
    BY <1>1, <1>2
  <2>2. o \notin outbox /\ \A v \in Worker : o \notin work[v].box /\ (v # w => o \notin work[v].sent)
    BY <2>1 DEF IInv, OnePlace
  <2>3. o \notin work'[w].sent
    BY <2>1 DEF IInv, TypeOK, Thread
  <2>4. \A v \in Worker : v # w => work'[v] = work[v]
    BY <2>1 DEF IInv, TypeOK
  <2> QED BY <1>3, <2>2, <2>3, <2>4
<1>5. Answered'
  BY <1>2, <1>3, <1>4 DEF BooksInv, Answered
<1>6. NoFlush'
  BY DEF BooksInv, NoFlush
<1>7. "run" \in Worker
  BY DEF Worker
<1> QED BY <1>1, <1>2, <1>3, <1>5, <1>6, <1>7, BooksKept DEF BooksInv, Settled

\* The venue moves: what it has executed stays.
LEMMA VenueBooks ==
    ASSUME IInv, IInv', BooksInv, NoFlush',
           \A o \in Order : order[o].known /\ venue[o].status = "filled" => venue'[o] = venue[o],
           UNCHANGED <<order, pos, outbox>>,
           \A w \in Worker : /\ work'[w].fills = work[w].fills
                             /\ work'[w].box \subseteq work[w].box
                             /\ \A o \in work'[w].sent : o \in work[w].sent \/ o \in work[w].box
    PROVE  BooksInv'
<1>1. Answered'
  BY DEF BooksInv, Answered
<1>2. "run" \in Worker
  BY DEF Worker
<1> QED BY <1>1, <1>2, BooksKept DEF BooksInv, Settled

\* Nothing moves but a thread's place in its work.
LEMMA QuietBooks ==
    ASSUME IInv, IInv', BooksInv, NoFlush', UNCHANGED <<order, pos, venue>>,
           \A w \in Worker : work'[w].fills \subseteq work[w].fills,
           \A o \in Order : \A w \in Worker :
              /\ o \in outbox' => o \in outbox
              /\ o \in work'[w].box => o \in outbox \/ o \in work[w].box
              /\ o \in work'[w].sent => o \in work[w].sent
    PROVE  BooksInv'
<1>1. "run" \in Worker
  BY DEF Worker
<1>2. Answered'
  BY <1>1 DEF BooksInv, Answered
<1> QED BY <1>1, <1>2, BooksKept DEF BooksInv, Settled

\* A poll writes what the venue answered, and takes up an execution to book.
LEMMA PollBooks ==
    ASSUME IInv, IInv', BooksInv, NEW w \in Worker, NEW o \in Order, Poll(w, o)
    PROVE  BooksInv'
<1> DEFINE end == EndSeen(o)
<1>1. /\ order[o].known /\ order[o].state \in OpenStates
      /\ work' = [work EXCEPT ![w].open = @ \ {o}, ![w].fills = IF end = "FILLED" THEN @ \cup {o} ELSE @]
      /\ order' = [order EXCEPT ![o].state = IF end = "FILLED" THEN @ ELSE end]
      /\ UNCHANGED <<pos, outbox, venue, killer>>
  BY DEF Poll, Pollable
<1>2. end = "FILLED" => venue[o].status = "filled"
  BY <1>1 DEF EndSeen, OpenStates
<1>3. end # "none"
  BY <1>1 DEF EndSeen, OpenStates
<1> HIDE DEF end
<1>4. /\ \A p \in Order : order'[p].known = order[p].known
      /\ \A p \in Order : p # o => order'[p] = order[p]
      /\ order'[o].state # "FILLED" /\ order'[o].state # "none"
  BY <1>1, <1>3 DEF IInv, TypeOK, OrderRecord, OpenStates
<1>5. \A v \in Worker : /\ work'[v].box = work[v].box /\ work'[v].sent = work[v].sent
                        /\ \A p \in work'[v].fills : p \in work[v].fills \/ (p = o /\ end = "FILLED")
  BY <1>1 DEF IInv, TypeOK, Thread
<1>6. Answered' /\ NoFlush'
  BY <1>1, <1>4, <1>5 DEF BooksInv, Answered, NoFlush
<1>7. "run" \in Worker /\ order[o].state # "FILLED"
  BY <1>1 DEF Worker, OpenStates
<1>8. \A p \in work'["run"].fills :
         order[p].known /\ venue[p].status = "filled" /\ order[p].state # "FILLED"
  BY <1>1, <1>2, <1>5, <1>7 DEF BooksInv, Settled
<1>9. \A p \in Order : order'[p].state = "FILLED" <=> order[p].state = "FILLED"
  BY <1>4, <1>7
<1> QED BY ZenonT(60), <1>1, <1>4, <1>6, <1>8, <1>9, BooksKept

\* Booking adds the order to the filled ones and its execution to the position.
LEMMA BookFillBooks ==
    ASSUME IInv, IInv', BooksInv, NEW o \in Order, BookFill("run", o)
    PROVE  BooksInv'
<1>1. /\ o \in work["run"].fills
      /\ order' = [order EXCEPT ![o].state = "FILLED", ![o].qty = venue[o].filled]
      /\ pos' = pos + venue[o].filled
      /\ work' = [work EXCEPT !["run"].fills = @ \ {o}]
      /\ UNCHANGED <<outbox, venue, killer>>
  BY DEF BookFill, Booked
<1>2. order[o].known /\ venue[o].status = "filled" /\ order[o].state # "FILLED"
  BY <1>1 DEF BooksInv, Settled
<1>3. /\ \A p \in Order : order'[p].known = order[p].known
      /\ \A p \in Order : p # o => order'[p] = order[p]
      /\ order'[o].state = "FILLED"
  BY <1>1 DEF IInv, TypeOK, OrderRecord
<1>4. \A v \in Worker : work'[v].box = work[v].box /\ work'[v].sent = work[v].sent
  BY <1>1 DEF IInv, TypeOK, Thread
<1>5. work'["run"].fills = work["run"].fills \ {o} /\ work["run"].fills \subseteq Order
  BY <1>1 DEF IInv, TypeOK, Thread, Worker
<1>6. Answered' /\ NoFlush'
  BY <1>1, <1>3, <1>4 DEF BooksInv, Answered, NoFlush
<1>7. Settled'
  BY ZenonT(60), <1>1, <1>2, <1>3, <1>5 DEF BooksInv, Settled
<1> DEFINE F == {p \in Order : order[p].state = "FILLED"}
           f == [p \in Order |-> venue[p].filled]
<1>8. {p \in Order : order'[p].state = "FILLED"} = F \cup {o} /\ o \notin F
  BY <1>2, <1>3
<1>9. IsFiniteSet(F) /\ \A p \in F \cup {o} : f[p] \in Int
  <2>1. IsFiniteSet(F)
    BY NameAssumption, FS_Union, FS_Subset DEF Order
  <2>2. \A p \in Order : venue[p].filled \in Int
    BY DEF IInv, TypeOK, VenueOrder
  <2> QED BY <2>1, <2>2
<1>10. BookedOnce'
  <2>1. pos = SumFunctionOnSet(f, F)
    BY DEF BooksInv, BookedOnce, ExecutedOf
  <2>2. SumFunctionOnSet(f, F \cup {o}) = SumFunctionOnSet(f, F) + f[o]
    <3> HIDE DEF F, f
    <3> QED BY <1>8, <1>9, SumAdd
  <2>3. pos' = SumFunctionOnSet(f, F \cup {o})
    BY <1>1, <2>1, <2>2
  <2>4. f = [p \in Order |-> venue'[p].filled]
    BY <1>1
  <2> QED BY <1>8, <2>3, <2>4 DEF BookedOnce, ExecutedOf
<1> QED BY <1>6, <1>7, <1>10 DEF BooksInv

\* At the start nothing is sent and nothing booked.
LEMMA InitBooks == Init => BooksInv
<1> SUFFICES ASSUME Init
             PROVE  BooksInv
  OBVIOUS
<1>1. \A o \in Order : order[o].state = "none" /\ ~order[o].known
  BY DEF Init, NoOrder
<1>2. work["run"].fills = {}
  BY DEF Init, Idle, Worker
<1>3. NoFlush
  BY DEF Init, NoFlush
<1>4. Answered /\ Settled
  BY <1>1, <1>2 DEF Answered, Settled
<1>5. {o \in Order : order[o].state = "FILLED"} = {}
  BY <1>1
<1>6. BookedOnce
  BY <1>5, SumEmpty DEF Init, BookedOnce, ExecutedOf
<1> QED BY <1>3, <1>4, <1>6 DEF BooksInv

\* What a thread does, step by step, keeps the books.
LEMMA ThreadBooks ==
    ASSUME IInv, IInv', BooksInv, NEW w \in Worker, ThreadStep(w)
    PROVE  BooksInv'
<1>1. CASE Swap(w)
  <2>1. /\ work' = [work EXCEPT ![w] = [work[w] EXCEPT !.pc = "work", !.box = outbox]]
        /\ outbox' = {} /\ UNCHANGED <<order, pos, venue, killer>>
    BY <1>1 DEF Swap, Swapped
  <2>2. \A v \in Worker : /\ work'[v].fills = work[v].fills /\ work'[v].sent = work[v].sent
                          /\ work'[v].box = work[v].box \/ work'[v].box = outbox
    BY <2>1 DEF IInv, TypeOK, Thread
  <2>3. NoFlush'
    BY <2>1 DEF BooksInv, NoFlush
  <2> QED BY <2>1, <2>2, <2>3, QuietBooks
<1>2. ASSUME NEW o \in Order, PostAccepted(w, o)
      PROVE  BooksInv'
  <2>1. /\ o \in work[w].box
        /\ work' = [work EXCEPT ![w].box = @ \ {o}, ![w].sent = @ \cup {o}]
        /\ venue' = [venue EXCEPT ![o].status = "live", ![o].posts = @ + 1]
        /\ UNCHANGED <<order, pos, outbox, killer>>
    BY <1>2 DEF PostAccepted, Posting
  <2>2. ~order[o].known
    BY <2>1 DEF BooksInv, Answered
  <2>3. \A v \in Worker : /\ work'[v].fills = work[v].fills
                          /\ work'[v].box \subseteq work[v].box
                          /\ \A p \in work'[v].sent : p \in work[v].sent \/ p \in work[v].box
    BY <2>1 DEF IInv, TypeOK, Thread
  <2>4. \A p \in Order : p # o => venue'[p] = venue[p]
    BY <2>1 DEF IInv, TypeOK
  <2>5. NoFlush'
    BY <2>1 DEF BooksInv, NoFlush
  <2>6. \A p \in Order : order[p].known /\ venue[p].status = "filled" => venue'[p] = venue[p]
    BY <2>2, <2>4
  <2> QED BY <2>1, <2>3, <2>5, <2>6, VenueBooks
<1>3. ASSUME NEW o \in Order, PostRefused(w, o) \/ PostReplied(w, o) \/ PostLost(w, o)
      PROVE  BooksInv'
  <2>1. o \in work[w].box \/ o \in work[w].sent
    BY <1>3 DEF PostRefused, PostReplied, PostLost, Posting
  <2>2. \/ work' = [work EXCEPT ![w].box = @ \ {o}]
        \/ work' = [work EXCEPT ![w].sent = @ \ {o}]
    BY <1>3 DEF PostRefused, PostReplied, PostLost
  <2>3. \/ order' = [order EXCEPT ![o].state = "REJECTED"]
        \/ /\ order' = [order EXCEPT ![o].state = "ACKNOWLEDGED", ![o].known = TRUE]
           /\ work' = [work EXCEPT ![w].sent = @ \ {o}] /\ o \in work[w].sent
    BY <1>3 DEF PostRefused, PostReplied, PostLost
  <2>4. UNCHANGED <<pos, outbox, venue, killer>>
    BY <1>3 DEF PostRefused, PostReplied, PostLost
  <2> QED BY <2>1, <2>2, <2>3, <2>4, WrittenBooks
<1>4. ASSUME NEW o \in Order, PollNothing(w, o)
      PROVE  BooksInv'
  <2>1. work' = [work EXCEPT ![w].open = @ \ {o}] /\ UNCHANGED <<order, pos, outbox, venue, killer>>
    BY <1>4 DEF PollNothing
  <2>2. \A v \in Worker : /\ work'[v].fills = work[v].fills /\ work'[v].sent = work[v].sent
                          /\ work'[v].box = work[v].box
    BY <2>1 DEF IInv, TypeOK, Thread
  <2>3. NoFlush'
    BY <2>1 DEF BooksInv, NoFlush
  <2> QED BY <2>1, <2>2, <2>3, QuietBooks
<1> QED BY <1>1, <1>2, <1>3, <1>4, PollBooks DEF ThreadStep

\* What the session's task does on the event loop keeps the books.
LEMMA TaskBooks ==
    ASSUME IInv, IInv', BooksInv, TaskStep \/ Crash
    PROVE  BooksInv'
<1>1. CASE BeginSync \/ EndSync \/ Resume \/ Crash
  <2>1. UNCHANGED <<order, pos, outbox, venue, killer>>
    BY <1>1 DEF BeginSync, EndSync, Resume, Crash
  <2>2. \/ work' = work
        \/ work' = [work EXCEPT !["run"] = Started(order)]
        \/ work' = [work EXCEPT !["run"] = Idle]
    BY <1>1 DEF BeginSync, EndSync, Resume, Crash
  <2>3. /\ Idle.fills = {} /\ Idle.box = {} /\ Idle.sent = {}
        /\ Started(order).fills = {} /\ Started(order).box = {} /\ Started(order).sent = {}
    BY DEF Started, Idle
  <2>4. \A w \in Worker : \/ work'[w] = work[w]
                          \/ work'[w].fills = {} /\ work'[w].box = {} /\ work'[w].sent = {}
    BY <2>2, <2>3 DEF IInv, TypeOK
  <2>5. NoFlush'
    BY <2>1 DEF BooksInv, NoFlush
  <2> QED BY <2>1, <2>4, <2>5, QuietBooks
<1> QED BY <1>1, BookFillBooks DEF TaskStep

\* A kill that does not flatten cancels orders and books nothing.
LEMMA KillBooks ==
    ASSUME IInv, IInv', BooksInv, Unflattened, NEW k \in Killer,
           \/ KillStep(k)
           \/ \E o \in Order : KillFails(k, o)
           \/ \E flatten \in Flatten : PressKill(k, flatten)
    PROVE  BooksInv'
<1>1. killer[k] \in Kill /\ ~killer[k].flatten /\ killer[k].pc \notin {"flushing", "booking", "resting"}
  BY DEF BooksInv, NoFlush, IInv, TypeOK
<1>2. k # "run" /\ k \in Worker
  BY NameAssumption DEF Worker
<1>3. CASE DeleteAll(k)
  <2>1. /\ killer' = [killer EXCEPT ![k].pc = "deleted"] /\ UNCHANGED <<order, pos, outbox, work>>
        /\ \A o \in Order : venue[o].status = "filled" => venue'[o] = venue[o]
    BY <1>3 DEF DeleteAll
  <2>2. NoFlush'
    BY <2>1 DEF BooksInv, NoFlush, IInv, TypeOK, Kill
  <2> QED BY <2>1, <2>2, VenueBooks
<1>4. CASE CancelHere(k)
  <2>1. /\ killer' = [killer EXCEPT ![k].pc = "ending"] /\ order' = Cancelled
        /\ UNCHANGED <<pos, outbox, venue, work>>
    BY <1>4 DEF CancelHere
  <2>2. NoFlush'
    BY <2>1 DEF BooksInv, NoFlush, IInv, TypeOK, Kill
  <2> QED BY <2>1, <2>2, CancelledBooks
<1>5. CASE DeleteFails(k) \/ EndKill(k) \/ \E flatten \in Flatten : PressKill(k, flatten)
  <2>1. /\ UNCHANGED <<order, pos, outbox, venue, work>>
        /\ \/ killer' = [killer EXCEPT ![k].pc = "deleted"]
           \/ killer' = [killer EXCEPT ![k].pc = "done"]
           \/ killer' = [killer EXCEPT ![k].pc = "deleting", ![k].flatten = FALSE]
    <3>1. \A flatten \in Flatten : flatten = FALSE
      BY ChoiceAssumption DEF Unflattened
    <3> QED BY <1>5, <3>1 DEF DeleteFails, EndKill, PressKill
  <2>2. NoFlush'
    BY <2>1 DEF BooksInv, NoFlush, IInv, TypeOK, Kill
  <2> QED BY <2>1, <2>2, QuietBooks
<1>6. ~CancelAndFlatten(k) /\ ~EndFlush(k) /\ ~EndRound(k) /\ ~NextRound(k)
  BY <1>1 DEF CancelAndFlatten, EndFlush, EndRound, NextRound
<1>7. \A o \in Order : ~BookFill(k, o) /\ ~KillFails(k, o)
  BY <1>1, <1>2 DEF BookFill, KillFails
<1> QED BY <1>3, <1>4, <1>5, <1>6, <1>7 DEF KillStep

\* Every step keeps the books while no kill flattens.
LEMMA NextBooks ==
    ASSUME IInv, IInv', BooksInv, Unflattened, [Next]_vars
    PROVE  BooksInv'
<1>1. CASE \E o \in Request, q \in Quantity : StrategyOrder(o, q)
  BY <1>1, StrategyOrderBooks DEF StrategyOrder
<1>2. CASE StrategyCancel
  <2>1. NoFlush'
    BY <1>2 DEF StrategyCancel, BooksInv, NoFlush
  <2> QED BY <1>2, <2>1, CancelledBooks DEF StrategyCancel
<1>3. CASE LossLimit \/ UNCHANGED vars
  <2>1. UNCHANGED <<order, pos, outbox, venue, killer, work>>
    BY <1>3 DEF LossLimit, vars
  <2>2. NoFlush'
    BY <2>1 DEF BooksInv, NoFlush
  <2> QED BY <2>1, <2>2, QuietBooks
<1>4. CASE Stop
  <2>1. CASE UNCHANGED <<order, outbox>>
    <3>1. UNCHANGED <<order, pos, outbox, venue, killer, work>>
      BY <1>4, <2>1 DEF Stop
    <3>2. NoFlush'
      BY <3>1 DEF BooksInv, NoFlush
    <3> QED BY <3>1, <3>2, QuietBooks
  <2>2. CASE ~UNCHANGED <<order, outbox>>
    BY <1>4, <2>2, StrategyOrderBooks DEF Stop
  <2> QED BY <2>1, <2>2
<1>5. CASE TaskStep \/ Crash
  BY <1>5, TaskBooks
<1>6. ASSUME NEW o \in Order, VenueStep(o)
      PROVE  BooksInv'
  <2>1. UNCHANGED <<order, pos, outbox, killer, work>>
    BY <1>6 DEF VenueStep, VenueFill, VenueClose, VenueReject
  <2>2. \A p \in Order : venue[p].status = "filled" => venue'[p] = venue[p]
    <3>1. /\ venue[o].status = "live" /\ venue \in [Order -> VenueOrder]
          /\ \A p \in Order : p # o => venue'[p] = venue[p]
      BY <1>6 DEF VenueStep, VenueFill, VenueClose, VenueReject, IInv, TypeOK
    <3> QED BY <3>1
  <2>3. NoFlush'
    BY <2>1 DEF BooksInv, NoFlush
  <2> QED BY <2>1, <2>2, <2>3, VenueBooks
<1> QED BY <1>1, <1>2, <1>3, <1>4, <1>5, <1>6, ThreadBooks, KillBooks DEF Next

\* The books are an invariant of a session that no kill flattens.
LEMMA BooksInductive ==
    ASSUME Unflattened
    PROVE  Spec => []BooksInv
<1>1. IInv /\ IInv' /\ BooksInv /\ [Next]_vars => BooksInv'
  BY NextBooks
<1> QED BY <1>1, InitBooks, Inductive, PTL DEF Spec

\* As long as no kill flattens, and whatever stops, crashes, is cancelled or
\* lost: the position is the sum of the executions of the filled orders, so
\* none is booked twice or in part (oms.py:143-151).
THEOREM NothingBookedTwice ==
    ASSUME Unflattened
    PROVE  Spec => []BookedOnce
<1>1. BooksInv => BookedOnce
  BY DEF BooksInv
<1> QED BY <1>1, BooksInductive, PTL

----------------------------------------------------------------------------
(* The order machine of OrderBook, and what the venue completes.           *)

\* The session of which OrderBook speaks: it ends, but nobody kills it, and its
\* strategy cancels nothing.
Undisturbed == Killer = {} /\ ~Cancels

\* An order on its way says so, and a reported one is acknowledged.
InOrder ==
    /\ \A o \in outbox : order[o].state = "SUBMITTED"
    /\ \A w \in Worker, o \in Order :
          o \in work[w].box \/ o \in work[w].sent => order[o].state = "SUBMITTED"
    /\ \A o \in work["run"].fills : order[o].state = "ACKNOWLEDGED"

\* The venue has what was posted, and executes what was asked for.
Exact ==
    /\ \A o \in Order : venue[o].posts = 0 => venue[o].status = "none" /\ venue[o].filled = 0
    /\ \A o \in Order : venue[o].status = "filled" => venue[o].filled = order[o].qty
    /\ \A o \in Order : venue[o].status = "rejected" => venue[o].filled = 0

\* What became of an order the venue has.
Seen ==
    \A o \in Order : venue[o].posts # 0 =>
       \/ \E w \in Worker : o \in work[w].sent
       \/ order[o].state = "REJECTED" /\ failures > 0
       \/ order[o].state = "ACKNOWLEDGED" /\ order[o].known
       \/ order[o].state = "FILLED"
       \/ order[o].state = "CANCELLED" /\ venue[o].status = "closed"
       \/ order[o].state = "REJECTED" /\ venue[o].status = "rejected"

LifeInv == InOrder /\ Exact /\ Seen

\* At the start no order is anywhere and the venue knows none.
LEMMA InitLife == Init => LifeInv
<1> SUFFICES ASSUME Init
             PROVE  LifeInv
  OBVIOUS
<1>1. /\ outbox = {} /\ \A w \in Worker : work[w].box = {} /\ work[w].sent = {} /\ work[w].fills = {}
      /\ \A o \in Order : venue[o].posts = 0 /\ venue[o].status = "none" /\ venue[o].filled = 0
  BY DEF Init, Idle, NoVenueOrder
<1>2. "run" \in Worker
  BY DEF Worker
<1> QED BY <1>1, <1>2 DEF LifeInv, InOrder, Exact, Seen

\* OrderBook sums as Functions does.
LEMMA LifecycleSum ==
    \A f, S : Lifecycle!SumFunctionOnSet(f, S) = SumFunctionOnSet(f, S)
BY DEF Lifecycle!SumFunctionOnSet, Lifecycle!FoldFunctionOnSet, Lifecycle!MapThenFoldSet,
       SumFunctionOnSet, FoldFunctionOnSet, MapThenFoldSet

\* A step that books nothing is one of the order machine when each order that
\* moves does so along its life and keeps its quantity once it has one.
LEMMA NothingFilled ==
    ASSUME IInv, IInv', pos' = pos,
           \A o \in Order : \/ order'[o].state = order[o].state
                            \/ /\ <<order[o].state, order'[o].state>> \in Lifecycle!Moves
                               /\ order'[o].state # "FILLED",
           \A o \in Order : order'[o].qty # order[o].qty =>
                               order[o].state = "none" /\ order'[o].state # "none"
    PROVE  Lifecycle!Next
<1> DEFINE st == [o \in Order |-> order'[o].state]
           qt == [o \in Order |-> order'[o].qty]
           to == [o \in Order |-> "symbol"]
           filled == {o \in Order : [p \in Order |-> order[p].state][o] # "FILLED" /\ st[o] = "FILLED"}
<1>1. order \in [Order -> OrderRecord] /\ order' \in [Order -> OrderRecord] /\ pos \in Int
  BY DEF IInv, TypeOK
<1>2. st \in [Order -> Lifecycle!State] /\ qt \in [Order -> Int]
  BY <1>1 DEF OrderRecord, OrderState, OpenStates, Lifecycle!State
<1>3. \A o \in Order : st[o] # [p \in Order |-> order[p].state][o] =>
         <<[p \in Order |-> order[p].state][o], st[o]>> \in Lifecycle!Moves
  OBVIOUS
<1>4. filled = {}
  OBVIOUS
<1>5. \A s \in {"symbol"} : SumFunctionOnSet(qt, {o \in filled : to[o] = s}) = 0
  <2>1. \A s \in {"symbol"} : {o \in filled : to[o] = s} = {}
    BY <1>4
  <2> HIDE DEF qt, filled, to
  <2> QED BY <2>1, SumEmpty
<1>6. \A s \in {"symbol"} : Lifecycle!SumFunctionOnSet(qt, {o \in filled : to[o] = s}) =
                             SumFunctionOnSet(qt, {o \in filled : to[o] = s})
  BY LifecycleSum
<1>7. [s \in {"symbol"} |-> pos'] =
         [s \in {"symbol"} |-> [t \in {"symbol"} |-> pos][s]
                               + Lifecycle!SumFunctionOnSet(qt, {o \in filled : to[o] = s})]
  <2> HIDE DEF qt, filled, to
  <2> QED BY <1>1, <1>5, <1>6
<1>8. \A o \in Order : qt[o] # [p \in Order |-> order[p].qty][o] =>
          [p \in Order |-> order[p].state][o] = "none" /\ st[o] # "none"
  OBVIOUS
<1> QED BY <1>2, <1>3, <1>7, <1>8 DEF Lifecycle!Next

\* A booked fill is the step of the order machine that moves the position.
LEMMA BookFillMoves ==
    ASSUME IInv, IInv', BooksInv, LifeInv, NEW o \in Order, BookFill("run", o)
    PROVE  Lifecycle!Next
<1> DEFINE st == [p \in Order |-> order'[p].state]
           qt == [p \in Order |-> order'[p].qty]
           to == [p \in Order |-> "symbol"]
           filled == {p \in Order : [r \in Order |-> order[r].state][p] # "FILLED" /\ st[p] = "FILLED"}
<1>1. /\ order \in [Order -> OrderRecord] /\ order' \in [Order -> OrderRecord]
      /\ pos \in Int /\ venue[o].filled \in Int
  BY DEF IInv, TypeOK, VenueOrder
<1>2. /\ o \in work["run"].fills /\ pos' = pos + venue[o].filled
      /\ order' = [order EXCEPT ![o].state = "FILLED", ![o].qty = venue[o].filled]
  BY DEF BookFill, Booked
<1>3. order[o].state = "ACKNOWLEDGED" /\ venue[o].filled = order[o].qty
  BY <1>2 DEF LifeInv, InOrder, Exact, BooksInv, Settled
<1>4. /\ order'[o].state = "FILLED" /\ order'[o].qty = order[o].qty
      /\ \A p \in Order : p # o => order'[p] = order[p]
  BY <1>1, <1>2, <1>3 DEF OrderRecord
<1>5. st \in [Order -> Lifecycle!State] /\ qt \in [Order -> Int]
  BY <1>1 DEF OrderRecord, OrderState, OpenStates, Lifecycle!State
<1>6. \A p \in Order : st[p] # [r \in Order |-> order[r].state][p] =>
         <<[r \in Order |-> order[r].state][p], st[p]>> \in Lifecycle!Moves
  BY <1>3, <1>4 DEF Lifecycle!Moves
<1>7. filled = {o}
  BY <1>3, <1>4
<1>8. \A s \in {"symbol"} : SumFunctionOnSet(qt, {p \in filled : to[p] = s}) = venue[o].filled
  <2>1. \A s \in {"symbol"} : {p \in filled : to[p] = s} = {o}
    BY <1>7
  <2>2. qt[o] = venue[o].filled
    BY <1>3, <1>4
  <2> HIDE DEF qt, filled, to
  <2> QED BY <1>1, <2>1, <2>2, SumOne
<1>9. \A s \in {"symbol"} : Lifecycle!SumFunctionOnSet(qt, {p \in filled : to[p] = s}) =
                             SumFunctionOnSet(qt, {p \in filled : to[p] = s})
  BY LifecycleSum
<1>10. [s \in {"symbol"} |-> pos'] =
          [s \in {"symbol"} |-> [t \in {"symbol"} |-> pos][s]
                                + Lifecycle!SumFunctionOnSet(qt, {p \in filled : to[p] = s})]
  <2> HIDE DEF qt, filled, to
  <2> QED BY <1>2, <1>8, <1>9
<1>11. \A p \in Order : qt[p] # [r \in Order |-> order[r].qty][p] =>
          [r \in Order |-> order[r].state][p] = "none" /\ st[p] # "none"
  BY <1>4
<1> QED BY <1>5, <1>6, <1>10, <1>11 DEF Lifecycle!Next

\* Orders, venue and answers stay; what a thread takes was queued.
LEMMA QuietLife ==
    ASSUME IInv, IInv', LifeInv, UNCHANGED <<order, pos, venue>>,
           failures' = failures,
           \A w \in Worker : /\ work'[w].fills \subseteq work[w].fills
                             /\ work'[w].sent = work[w].sent
                             /\ work'[w].box \subseteq work[w].box \cup outbox,
           outbox' \subseteq outbox
    PROVE  LifeInv' /\ [Lifecycle!Next]_(Lifecycle!vars)
<1>1. "run" \in Worker
  BY DEF Worker
<1>2. InOrder'
  BY <1>1 DEF LifeInv, InOrder
<1>3. Exact' /\ Seen'
  BY DEF LifeInv, Exact, Seen
<1>4. UNCHANGED Lifecycle!vars
  BY DEF Lifecycle!vars
<1> QED BY <1>2, <1>3, <1>4 DEF LifeInv

\* An order the strategy sends begins its life.
LEMMA StrategyOrderLife ==
    ASSUME IInv, IInv', LifeInv, NEW o \in Request, NEW q \in Quantity, order[o].state = "none",
           order' = [order EXCEPT ![o] = Sent(q)], outbox' = outbox \cup {o},
           UNCHANGED <<pos, venue, work, failures>>
    PROVE  LifeInv' /\ Lifecycle!Next
<1>1. /\ o \in Order /\ order'[o].state = "SUBMITTED"
      /\ \A p \in Order : p # o => order'[p] = order[p]
  <2>1. o \in Order /\ order'[o] = Sent(q) /\ \A p \in Order : p # o => order'[p] = order[p]
    BY DEF IInv, TypeOK, Order
  <2>2. Sent(q).state = "SUBMITTED"
    BY DEF Sent
  <2> QED BY <2>1, <2>2
<1>2. venue[o].posts = 0 /\ venue[o].status = "none"
  BY <1>1 DEF IInv, Unused, LifeInv, Exact
<1>3. InOrder'
  BY <1>1 DEF LifeInv, InOrder, IInv, TypeOK
<1>4. Exact' /\ Seen'
  BY <1>1, <1>2 DEF LifeInv, Exact, Seen
<1>5. Lifecycle!Next
  <2>1. <<"none", "SUBMITTED">> \in Lifecycle!Moves
    BY DEF Lifecycle!Moves
  <2> QED BY <1>1, <2>1, NothingFilled
<1> QED BY <1>3, <1>4, <1>5 DEF LifeInv

\* The venue takes a posted order in, with the quantity it was sent with.
LEMMA PostAcceptedLife ==
    ASSUME IInv, IInv', LifeInv, NEW w \in Worker, NEW o \in Order, PostAccepted(w, o)
    PROVE  LifeInv' /\ [Lifecycle!Next]_(Lifecycle!vars)
<1>1. /\ o \in work[w].box
      /\ work' = [work EXCEPT ![w].box = @ \ {o}, ![w].sent = @ \cup {o}]
      /\ venue' = [venue EXCEPT ![o].status = "live", ![o].posts = @ + 1]
      /\ UNCHANGED <<order, pos, outbox, failures>>
  BY DEF PostAccepted, Posting
<1>2. /\ work'[w].fills = work[w].fills /\ work'[w].box = work[w].box \ {o}
      /\ work'[w].sent = work[w].sent \cup {o}
      /\ \A v \in Worker : v # w => work'[v] = work[v]
  BY <1>1 DEF IInv, TypeOK, Thread
<1>3. /\ venue'[o].status = "live" /\ venue'[o].posts # 0
      /\ \A p \in Order : p # o => venue'[p] = venue[p]
  <2>1. venue \in [Order -> VenueOrder] /\ venue[o].posts \in Nat
    BY DEF IInv, TypeOK, VenueOrder
  <2> QED BY <1>1, <2>1 DEF VenueOrder
<1>4. InOrder'
  <2>1. outbox' = outbox /\ order' = order /\ "run" \in Worker /\ work'["run"].fills = work["run"].fills
    BY <1>1, <1>2 DEF Worker
  <2>2. \A v \in Worker, p \in Order :
          p \in work'[v].box \/ p \in work'[v].sent => p \in work[v].box \/ p \in work[v].sent
    BY <1>1, <1>2
  <2> QED BY <2>1, <2>2 DEF LifeInv, InOrder
<1>5. Exact'
  BY <1>1, <1>3 DEF LifeInv, Exact
<1>6. Seen'
  <2>1. o \in work'[w].sent /\ failures' = failures /\ order' = order
    BY <1>1, <1>2
  <2>2. \A v \in Worker, p \in Order : p \in work[v].sent => p \in work'[v].sent
    BY <1>2
  <2>3. \A p \in Order : p # o => venue'[p] = venue[p]
    BY <1>3
  <2> QED BY <2>1, <2>2, <2>3 DEF LifeInv, Seen
<1>7. UNCHANGED Lifecycle!vars
  BY <1>1 DEF Lifecycle!vars
<1> QED BY <1>4, <1>5, <1>6, <1>7 DEF LifeInv

\* A post is refused, or its reply is lost or read.
LEMMA WrittenLife ==
    ASSUME IInv, IInv', LifeInv, NEW w \in Worker, NEW o \in Order,
           PostRefused(w, o) \/ PostReplied(w, o) \/ PostLost(w, o)
    PROVE  LifeInv' /\ Lifecycle!Next
<1>1. /\ order[o].state = "SUBMITTED" /\ UNCHANGED <<pos, outbox, venue>>
      /\ failures' >= failures /\ (failures > 0 => failures' > 0)
  <2>1. o \in work[w].box \/ o \in work[w].sent
    BY DEF PostRefused, PostReplied, PostLost, Posting
  <2>2. failures \in Nat
    BY NumberAssumption DEF IInv, TypeOK
  <2> QED BY <2>1, <2>2 DEF PostRefused, PostReplied, PostLost, LifeInv, InOrder
<1>2. /\ \A p \in Order : p # o => order'[p] = order[p]
      /\ order'[o].qty = order[o].qty
      /\ \/ order'[o].state = "REJECTED" /\ (venue[o].posts = 0 \/ failures' > 0)
         \/ order'[o].state = "ACKNOWLEDGED" /\ order'[o].known
  <2>1. /\ order \in [Order -> OrderRecord] /\ failures \in Nat
        /\ o \in work[w].box => venue[o].posts = 0
    BY NumberAssumption DEF IInv, TypeOK, Unposted
  <2> QED BY <2>1 DEF PostRefused, PostReplied, PostLost, Posting, OrderRecord
<1>3. /\ \A v \in Worker : /\ work'[v].fills = work[v].fills
                           /\ work'[v].box \subseteq work[v].box
                           /\ work'[v].sent \subseteq work[v].sent
                           /\ work[v].sent \subseteq work'[v].sent \cup {o}
      /\ o \notin outbox /\ \A v \in Worker : o \notin work'[v].box /\ o \notin work'[v].sent
  <2>1. /\ o \in work[w].box \/ o \in work[w].sent
        /\ \/ o \in work[w].box /\ work' = [work EXCEPT ![w].box = @ \ {o}]
           \/ o \in work[w].sent /\ work' = [work EXCEPT ![w].sent = @ \ {o}]
    BY DEF PostRefused, PostReplied, PostLost, Posting
  <2>2. o \notin outbox /\ \A v \in Worker : v # w => o \notin work[v].box /\ o \notin work[v].sent
    BY <2>1 DEF IInv, OnePlace
  <2>3. ~(o \in work[w].box /\ o \in work[w].sent)
    BY DEF IInv, OnePlace
  <2>4. /\ \A v \in Worker : v # w => work'[v] = work[v]
        /\ work'[w].fills = work[w].fills
        /\ \/ o \in work[w].box /\ work'[w].box = work[w].box \ {o} /\ work'[w].sent = work[w].sent
           \/ o \in work[w].sent /\ work'[w].box = work[w].box /\ work'[w].sent = work[w].sent \ {o}
    <3>1. work[w] \in Thread /\ work \in [Worker -> Thread]
      BY DEF IInv, TypeOK
    <3>2. CASE o \in work[w].box /\ work' = [work EXCEPT ![w].box = @ \ {o}]
      BY <3>1, <3>2 DEF Thread
    <3>3. CASE o \in work[w].sent /\ work' = [work EXCEPT ![w].sent = @ \ {o}]
      BY <3>1, <3>3 DEF Thread
    <3> QED BY <2>1, <3>2, <3>3
  <2> QED BY <2>2, <2>3, <2>4
<1>4. "run" \in Worker /\ o \notin work["run"].fills
  BY <1>1 DEF Worker, LifeInv, InOrder
<1>5. InOrder'
  <2>1. outbox \subseteq Order /\ work["run"].fills \subseteq Order
    BY <1>4 DEF IInv, TypeOK, Thread
  <2>2. \A p \in outbox : order'[p].state = "SUBMITTED"
    BY <1>2, <1>3, <2>1 DEF LifeInv, InOrder
  <2>3. \A v \in Worker, p \in Order :
          p \in work'[v].box \/ p \in work'[v].sent => order'[p].state = "SUBMITTED"
    BY <1>2, <1>3 DEF LifeInv, InOrder
  <2>4. \A p \in work'["run"].fills : order'[p].state = "ACKNOWLEDGED"
    BY <1>2, <1>3, <1>4, <2>1 DEF LifeInv, InOrder
  <2> QED BY <1>1, <2>2, <2>3, <2>4 DEF InOrder
<1>6. Exact'
  BY <1>1, <1>2 DEF LifeInv, Exact
<1>7. Seen'
  <2> SUFFICES ASSUME NEW p \in Order, venue[p].posts # 0
               PROVE  \/ \E v \in Worker : p \in work'[v].sent
                      \/ order'[p].state = "REJECTED" /\ failures' > 0
                      \/ order'[p].state = "ACKNOWLEDGED" /\ order'[p].known
                      \/ order'[p].state = "FILLED"
                      \/ order'[p].state = "CANCELLED" /\ venue[p].status = "closed"
                      \/ order'[p].state = "REJECTED" /\ venue[p].status = "rejected"
    BY <1>1 DEF Seen
  <2>1. CASE p = o
    BY <1>2, <2>1
  <2>2. CASE p # o
    BY <1>1, <1>2, <1>3, <2>2 DEF LifeInv, Seen
  <2> QED BY <2>1, <2>2
<1>8. Lifecycle!Next
  <2>1. <<order[o].state, order'[o].state>> \in Lifecycle!Moves /\ order'[o].state # "FILLED"
    BY <1>1, <1>2 DEF Lifecycle!Moves
  <2> QED BY <1>1, <1>2, <2>1, NothingFilled
<1> QED BY <1>5, <1>6, <1>7, <1>8 DEF LifeInv

\* A poll ends an order, or takes up its execution.
LEMMA PollLife ==
    ASSUME IInv, IInv', BooksInv, LifeInv, NEW w \in Worker, NEW o \in Order, Poll(w, o)
    PROVE  LifeInv' /\ Lifecycle!Next
<1> DEFINE end == EndSeen(o)
<1>1. /\ order[o].known /\ order[o].state \in OpenStates
      /\ work' = [work EXCEPT ![w].open = @ \ {o}, ![w].fills = IF end = "FILLED" THEN @ \cup {o} ELSE @]
      /\ order' = [order EXCEPT ![o].state = IF end = "FILLED" THEN @ ELSE end]
      /\ UNCHANGED <<pos, outbox, venue, failures>>
  BY DEF Poll, Pollable
<1>2. order[o].state = "ACKNOWLEDGED"
  BY <1>1 DEF IInv, Kept, BooksInv, Answered, OpenStates
<1>3. /\ end \in {"FILLED", "CANCELLED", "REJECTED", "ACKNOWLEDGED"}
      /\ end = "CANCELLED" => venue[o].status = "closed"
      /\ end = "REJECTED" => venue[o].status = "rejected"
      /\ venue[o].status = "filled" => end = "FILLED"
  BY <1>2 DEF EndSeen
<1> HIDE DEF end
<1>4. /\ \A p \in Order : p # o => order'[p] = order[p]
      /\ order'[o].state = IF end = "FILLED" THEN "ACKNOWLEDGED" ELSE end
      /\ order'[o].qty = order[o].qty /\ order'[o].known
  BY <1>1, <1>2 DEF IInv, TypeOK, OrderRecord
<1>5. \A v \in Worker : /\ work'[v].box = work[v].box /\ work'[v].sent = work[v].sent
                        /\ \A p \in work'[v].fills : p \in work[v].fills \/ (p = o /\ end = "FILLED")
  BY <1>1 DEF IInv, TypeOK, Thread
<1>6. /\ "run" \in Worker
      /\ o \in work["run"].fills => end = "FILLED"
      /\ o \notin outbox /\ \A v \in Worker : o \notin work[v].box /\ o \notin work[v].sent
      /\ outbox \subseteq Order /\ work["run"].fills \subseteq Order
  BY <1>1, <1>2, <1>3 DEF Worker, BooksInv, Settled, Answered, IInv, TypeOK, Thread
<1>7. InOrder'
  <2>1. \A p \in outbox : order'[p].state = "SUBMITTED"
    BY <1>4, <1>6 DEF LifeInv, InOrder
  <2>2. \A v \in Worker, p \in Order :
          p \in work'[v].box \/ p \in work'[v].sent => order'[p].state = "SUBMITTED"
    BY <1>4, <1>5, <1>6 DEF LifeInv, InOrder
  <2>3. \A p \in work'["run"].fills : order'[p].state = "ACKNOWLEDGED"
    BY <1>4, <1>5, <1>6 DEF LifeInv, InOrder
  <2> QED BY <1>1, <2>1, <2>2, <2>3 DEF InOrder
<1>8. Exact'
  BY <1>1, <1>4 DEF LifeInv, Exact
<1>9. Seen'
  <2> SUFFICES ASSUME NEW p \in Order, venue[p].posts # 0
               PROVE  \/ \E v \in Worker : p \in work'[v].sent
                      \/ order'[p].state = "REJECTED" /\ failures' > 0
                      \/ order'[p].state = "ACKNOWLEDGED" /\ order'[p].known
                      \/ order'[p].state = "FILLED"
                      \/ order'[p].state = "CANCELLED" /\ venue[p].status = "closed"
                      \/ order'[p].state = "REJECTED" /\ venue[p].status = "rejected"
    BY <1>1 DEF Seen
  <2>1. CASE p = o
    BY <1>3, <1>4, <2>1
  <2>2. CASE p # o
    BY ZenonT(60), <1>1, <1>4, <1>5, <2>2 DEF LifeInv, Seen
  <2> QED BY <2>1, <2>2
<1>10. Lifecycle!Next
  <2>1. \/ order'[o].state = order[o].state
        \/ <<order[o].state, order'[o].state>> \in Lifecycle!Moves /\ order'[o].state # "FILLED"
    BY <1>2, <1>3, <1>4 DEF Lifecycle!Moves
  <2> QED BY <1>1, <1>4, <2>1, NothingFilled
<1> QED BY <1>7, <1>8, <1>9, <1>10 DEF LifeInv

\* A booked fill leaves nothing of its order to be booked.
LEMMA BookFillLife ==
    ASSUME IInv, IInv', BooksInv, LifeInv, NEW o \in Order, BookFill("run", o)
    PROVE  LifeInv'
<1>1. /\ o \in work["run"].fills
      /\ order' = [order EXCEPT ![o].state = "FILLED", ![o].qty = venue[o].filled]
      /\ work' = [work EXCEPT !["run"].fills = @ \ {o}]
      /\ UNCHANGED <<outbox, venue, failures>>
  BY DEF BookFill, Booked
<1>2. order[o].state = "ACKNOWLEDGED" /\ venue[o].filled = order[o].qty /\ order[o].known
  BY <1>1 DEF LifeInv, InOrder, Exact, BooksInv, Settled
<1>3. /\ order'[o].state = "FILLED" /\ order'[o].qty = order[o].qty
      /\ \A p \in Order : p # o => order'[p] = order[p]
  BY <1>1, <1>2 DEF IInv, TypeOK, OrderRecord
<1>4. /\ \A v \in Worker : work'[v].box = work[v].box /\ work'[v].sent = work[v].sent
      /\ work'["run"].fills = work["run"].fills \ {o}
      /\ "run" \in Worker /\ work["run"].fills \subseteq Order /\ outbox \subseteq Order
  BY <1>1 DEF IInv, TypeOK, Thread, Worker
<1>5. o \notin outbox /\ \A v \in Worker : o \notin work[v].box /\ o \notin work[v].sent
  BY <1>2 DEF BooksInv, Answered
<1>6. InOrder'
  <2>1. \A p \in outbox : order'[p].state = "SUBMITTED"
    BY <1>3, <1>4, <1>5 DEF LifeInv, InOrder
  <2>2. \A v \in Worker, p \in Order :
          p \in work'[v].box \/ p \in work'[v].sent => order'[p].state = "SUBMITTED"
    BY <1>3, <1>4, <1>5 DEF LifeInv, InOrder
  <2>3. \A p \in work'["run"].fills : order'[p].state = "ACKNOWLEDGED"
    BY <1>3, <1>4 DEF LifeInv, InOrder
  <2> QED BY <1>1, <2>1, <2>2, <2>3 DEF InOrder
<1>7. Exact'
  <2>1. \A p \in Order : order'[p].qty = order[p].qty
    BY <1>3
  <2> QED BY <1>1, <2>1 DEF LifeInv, Exact
<1>8. Seen'
  <2> SUFFICES ASSUME NEW p \in Order, venue[p].posts # 0
               PROVE  \/ \E v \in Worker : p \in work'[v].sent
                      \/ order'[p].state = "REJECTED" /\ failures > 0
                      \/ order'[p].state = "ACKNOWLEDGED" /\ order'[p].known
                      \/ order'[p].state = "FILLED"
                      \/ order'[p].state = "CANCELLED" /\ venue[p].status = "closed"
                      \/ order'[p].state = "REJECTED" /\ venue[p].status = "rejected"
    BY <1>1 DEF Seen
  <2>1. CASE p = o
    BY <1>3, <2>1
  <2>2. CASE p # o
    BY ZenonT(60), <1>1, <1>3, <1>4, <2>2 DEF LifeInv, Seen
  <2> QED BY <2>1, <2>2
<1> QED BY <1>6, <1>7, <1>8 DEF LifeInv

\* The venue executes or ends an order it took in, and no other.
LEMMA VenueLife ==
    ASSUME IInv, IInv', LifeInv, NEW o \in Order, VenueStep(o)
    PROVE  LifeInv' /\ [Lifecycle!Next]_(Lifecycle!vars)
<1>1. /\ venue[o].status = "live" /\ UNCHANGED <<order, pos, outbox, work, failures>>
      /\ venue \in [Order -> VenueOrder]
  BY DEF VenueStep, VenueFill, VenueClose, VenueReject, IInv, TypeOK
<1>2. /\ \A p \in Order : p # o => venue'[p] = venue[p]
      /\ venue'[o].posts = venue[o].posts /\ venue[o].posts # 0
      /\ venue'[o].status = "filled" => venue'[o].filled = order[o].qty
      /\ venue'[o].status = "rejected" => venue'[o].filled = 0
  <2>0. venue[o].posts # 0
    BY <1>1 DEF LifeInv, Exact
  <2>1. CASE VenueFill(o)
    <3> DEFINE filled == venue[o].filled + (IF order[o].qty > 0 THEN 1 ELSE -1)
               status == IF filled = order[o].qty THEN "filled" ELSE "live"
    <3>1. venue' = [venue EXCEPT ![o].filled = filled, ![o].status = status]
      BY <2>1 DEF VenueFill
    <3>2. status = "filled" => filled = order[o].qty
      OBVIOUS
    <3>3. status # "rejected"
      OBVIOUS
    <3> HIDE DEF filled, status
    <3> QED BY <1>1, <2>0, <3>1, <3>2, <3>3 DEF VenueOrder
  <2>2. CASE VenueClose(o)
    BY <1>1, <2>0, <2>2 DEF VenueClose, VenueOrder
  <2>3. CASE VenueReject(o)
    BY <1>1, <2>0, <2>3 DEF VenueReject, VenueOrder
  <2> QED BY <2>1, <2>2, <2>3 DEF VenueStep
<1>3. InOrder'
  BY <1>1 DEF LifeInv, InOrder
<1>4. Exact'
  BY <1>1, <1>2 DEF LifeInv, Exact
<1>5. Seen'
  BY <1>1, <1>2 DEF LifeInv, Seen
<1>6. UNCHANGED Lifecycle!vars
  BY <1>1 DEF Lifecycle!vars
<1> QED BY <1>3, <1>4, <1>5, <1>6 DEF LifeInv

\* Every step keeps where completed orders are, and is one of the order machine.
LEMMA NextLife ==
    ASSUME IInv, IInv', BooksInv, LifeInv, Undisturbed, [Next]_vars
    PROVE  LifeInv' /\ [Lifecycle!Next]_(Lifecycle!vars)
<1>1. Worker = {"run"} /\ ~StrategyCancel
  BY DEF Worker, Undisturbed, StrategyCancel
<1>2. CASE \E o \in Request, q \in Quantity : StrategyOrder(o, q)
  BY <1>2, StrategyOrderLife DEF StrategyOrder
<1>3. CASE LossLimit \/ UNCHANGED vars
  <2>1. UNCHANGED <<order, pos, outbox, venue, work, failures>>
    BY <1>3 DEF LossLimit, vars
  <2> QED BY <2>1, QuietLife
<1>4. CASE Stop
  <2>1. CASE UNCHANGED <<order, outbox>>
    <3>1. UNCHANGED <<order, pos, outbox, venue, work, failures>>
      BY <1>4, <2>1 DEF Stop
    <3> QED BY <3>1, QuietLife
  <2>2. CASE ~UNCHANGED <<order, outbox>>
    BY <1>4, <2>2, StrategyOrderLife DEF Stop
  <2> QED BY <2>1, <2>2
<1>5. CASE BeginSync \/ EndSync \/ Resume \/ Crash
  <2>1. UNCHANGED <<order, pos, outbox, venue, failures>>
    BY <1>5 DEF BeginSync, EndSync, Resume, Crash
  <2>2. \/ work' = work
        \/ work' = [work EXCEPT !["run"] = Started(order)] /\ task = "awake"
        \/ work' = [work EXCEPT !["run"] = Idle] /\ task = "booking"
    BY <1>5 DEF BeginSync, EndSync, Resume, Crash
  <2>3. /\ Idle.fills = {} /\ Idle.box = {} /\ Idle.sent = {}
        /\ Started(order).fills = {} /\ Started(order).box = {} /\ Started(order).sent = {}
    BY DEF Started, Idle
  <2>4. task \in {"awake", "booking"} => work["run"].sent = {}
    BY <1>1 DEF IInv, ThreadsBegin, ThreadsEnd
  <2>5. \A w \in Worker : \/ work'[w] = work[w]
                          \/ /\ work'[w].fills = {} /\ work'[w].box = {}
                             /\ work'[w].sent = {} /\ work[w].sent = {}
    BY <1>1, <2>2, <2>3, <2>4 DEF IInv, TypeOK
  <2> QED BY <2>1, <2>5, QuietLife
<1>6. CASE \E o \in Order : BookFill("run", o)
  BY <1>6, BookFillLife, BookFillMoves
<1>7. ASSUME NEW w \in Worker, Swap(w)
      PROVE  LifeInv' /\ [Lifecycle!Next]_(Lifecycle!vars)
  <2>1. /\ work' = [work EXCEPT ![w] = [work[w] EXCEPT !.pc = "work", !.box = outbox]]
        /\ outbox' = {} /\ UNCHANGED <<order, pos, venue, failures>>
    BY <1>7 DEF Swap, Swapped
  <2>2. \A v \in Worker : /\ work'[v].fills = work[v].fills /\ work'[v].sent = work[v].sent
                          /\ work'[v].box = work[v].box \/ work'[v].box = outbox
    BY <2>1 DEF IInv, TypeOK, Thread
  <2> QED BY <2>1, <2>2, QuietLife
<1>8. ASSUME NEW w \in Worker, NEW o \in Order, PollNothing(w, o)
      PROVE  LifeInv' /\ [Lifecycle!Next]_(Lifecycle!vars)
  <2>1. work' = [work EXCEPT ![w].open = @ \ {o}] /\ UNCHANGED <<order, pos, outbox, venue, failures>>
    BY <1>8 DEF PollNothing
  <2>2. \A v \in Worker : /\ work'[v].fills = work[v].fills /\ work'[v].sent = work[v].sent
                          /\ work'[v].box = work[v].box
    BY <2>1 DEF IInv, TypeOK, Thread
  <2> QED BY <2>1, <2>2, QuietLife
<1>9. CASE \E w \in Worker : ThreadStep(w)
  BY <1>7, <1>8, <1>9, PostAcceptedLife, WrittenLife, PollLife DEF ThreadStep
<1>10. CASE \E o \in Order : VenueStep(o)
  BY <1>10, VenueLife
<1>11. Killer = {}
  BY DEF Undisturbed
<1> QED BY <1>1, <1>2, <1>3, <1>4, <1>5, <1>6, <1>9, <1>10, <1>11 DEF Next, TaskStep

\* The three invariants hold together in an undisturbed session.
LEMMA LifeInductive ==
    ASSUME Undisturbed
    PROVE  Spec => [](IInv /\ BooksInv /\ LifeInv)
<1>1. Unflattened
  BY DEF Undisturbed, Unflattened
<1>2. IInv /\ IInv' /\ BooksInv /\ LifeInv /\ [Next]_vars => LifeInv'
  BY NextLife
<1> QED BY <1>1, <1>2, InitLife, BooksInductive, Inductive, PTL DEF Spec

\* However the task, its thread and the venue interleave, an order that nobody
\* cancels walks once through the life OrderBook gives it, and the position
\* moves by its quantity when it is filled (oms.py:3-20, :143-151).
THEOREM KeepsLifecycle ==
    ASSUME Undisturbed
    PROVE  Spec => LifecycleSpec
<1>1. Init => Lifecycle!Init
  BY DEF Init, Lifecycle!Init, NoOrder
<1>2. IInv /\ IInv' /\ BooksInv /\ LifeInv /\ [Next]_vars => [Lifecycle!Next]_(Lifecycle!vars)
  BY NextLife
<1> QED BY <1>1, <1>2, LifeInductive, PTL DEF Spec, LifecycleSpec, Lifecycle!Spec

\* What the venue executes of an order, in whole or in part, is booked, reported
\* or still polled; it is missed only behind a lost reply, or when the venue
\* closes an order it had filled in part (broker.py:128-171).
THEOREM ExecutionsAreSeen ==
    ASSUME Undisturbed
    PROVE  Spec => []ExecutionIsSeen
<1>1. LifeInv => ExecutionIsSeen
  <2> SUFFICES ASSUME LifeInv, NEW o \in Order, venue[o].filled # 0
               PROVE  \/ order[o].state = "FILLED"
                      \/ order[o].state = "REJECTED" /\ failures > 0
                      \/ order[o].state = "CANCELLED" /\ venue[o].status = "closed"
                      \/ o \in outbox \cup UNION {work[w].sent \cup work[w].fills : w \in Worker}
                      \/ order[o].known /\ order[o].state \in OpenStates
    BY DEF ExecutionIsSeen
  <2>1. venue[o].posts # 0 /\ venue[o].status # "rejected"
    BY DEF LifeInv, Exact
  <2> QED BY <2>1 DEF LifeInv, Seen, OpenStates
<1> QED BY <1>1, LifeInductive, PTL
=============================================================================

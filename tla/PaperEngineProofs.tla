--------------------------- MODULE PaperEngineProofs ---------------------------
(***************************************************************************)
(* Proofs about PaperEngine, for any orders, symbols, quotes and limits:   *)
(* types, the print an order fills at, what a flattening kill leaves, the  *)
(* order machine of OrderBook, and the books.                              *)
(***************************************************************************)
EXTENDS PaperEngine, Sums

\* What a match has still to fill rests.
DueSound == \A o \in due : order[o].state = "ACKNOWLEDGED"

\* An order that rests is for some shares.
Sized == \A o \in Order : order[o].state = "ACKNOWLEDGED" => order[o].qty # 0

\* An order of the strategy is filled by a print after its placement, a market
\* order by the next.
Prompt ==
    \A o \in Request : order[o].state = "ACKNOWLEDGED" =>
       /\ order[o].placed <= prints[SymbolOf[o]]
       /\ o \in due =>
             /\ order[o].placed < prints[SymbolOf[o]]
             /\ order[o].limit = NoLimit => prints[SymbolOf[o]] = order[o].placed + 1

\* Once a kill has asked to flatten, nothing but its own orders is left to
\* fill, and each closes the position of its symbol.
Flattening ==
    flat => /\ state # "running" /\ due \subseteq Symbol
            /\ \A s \in Symbol : /\ pos[s].qty # 0 => s \in due
                                 /\ s \in due => order[s].qty = -pos[s].qty

\* Until then the flattening orders do not exist.
Fresh == ~flat => \A s \in Symbol : order[s].state = "none"

IInv == TypeOK /\ DueSound /\ Sized /\ NextPrintFills /\ Prompt /\ Flattening /\ Fresh

----------------------------------------------------------------------------
(* Numbers.                                                                *)

\* A magnitude is a natural number, positive but of zero.
LEMMA MagnitudeIsNat ==
    \A n \in Int : Magnitude(n) \in Nat /\ (n # 0 => Magnitude(n) > 0)
BY DEF Magnitude

\* Averaging in never comes to nothing.
LEMMA AveragingIn == \A p, q \in Int : q # 0 /\ p * q >= 0 => p + q # 0
<1> SUFFICES ASSUME NEW p \in Int, NEW q \in Int, q # 0, p + q = 0
             PROVE  p * q < 0
  OBVIOUS
<1>1. p = -q
  OBVIOUS
<1>2. p * q = -(q * q)
  BY <1>1
<1>3. q * q > 0
  OBVIOUS
<1> QED BY <1>2, <1>3

\* Products and quotients of numbers are numbers, which the provers are told once.
LEMMA ProductIsNat == \A m, n \in Nat : m * n \in Nat
OBVIOUS

\* The same of integers.
LEMMA ProductIsInt == \A m, n \in Int : m * n \in Int
OBVIOUS

\* The same of a quotient by a positive number.
LEMMA QuotientIsInt == \A m \in Int, n \in Nat : n > 0 => m \div n \in Int
OBVIOUS

\* A fill yields a position, of the old quantity and the order's.
LEMMA ExecutedIsPosition ==
    ASSUME NEW p \in Position, NEW q \in Int, q # 0, NEW price \in Nat
    PROVE  Executed(p, q, price) \in Position /\ Executed(p, q, price).qty = p.qty + q
<1> DEFINE new == p.qty + q
           closed == IF Magnitude(q) < Magnitude(p.qty) THEN Magnitude(q) ELSE Magnitude(p.qty)
           sign == IF p.qty > 0 THEN 1 ELSE -1
<1>1. p.qty \in Int /\ p.avg \in Int /\ p.realized \in Int /\ new \in Int
  BY DEF Position
<1>2. CASE p.qty * q >= 0
  <2> DEFINE avg == (Magnitude(p.qty) * p.avg + Magnitude(q) * price) \div Magnitude(new)
  <2>1. Magnitude(new) \in Nat /\ Magnitude(new) > 0
    BY <1>1, <1>2, AveragingIn, MagnitudeIsNat
  <2>2. Magnitude(p.qty) * p.avg + Magnitude(q) * price \in Int
    BY <1>1, MagnitudeIsNat, ProductIsInt
  <2>3. avg \in Int
    BY <2>1, <2>2, QuotientIsInt
  <2>4. Executed(p, q, price) = [p EXCEPT !.qty = new, !.avg = avg]
    BY <1>2 DEF Executed
  <2> HIDE DEF avg, new
  <2>5. Executed(p, q, price) \in Position /\ Executed(p, q, price).qty = new
    BY <1>1, <2>3, <2>4 DEF Position
  <2> QED BY <2>5 DEF new
<1>3. CASE ~(p.qty * q >= 0)
  <2> DEFINE avg == IF p.qty * new < 0 THEN price ELSE IF new = 0 THEN 0 ELSE p.avg
             gain == p.realized + closed * (price - p.avg) * sign
  <2>1. avg \in Int
    BY <1>1
  <2>2. closed \in Int /\ sign \in Int
    BY <1>1, MagnitudeIsNat
  <2>3. gain \in Int
    <3> HIDE DEF closed, sign
    <3>1. closed * (price - p.avg) * sign \in Int
      BY <1>1, <2>2, ProductIsInt
    <3> QED BY <1>1, <3>1
  <2>4. Executed(p, q, price) = [qty |-> new, avg |-> avg, realized |-> gain]
    BY <1>3 DEF Executed
  <2> HIDE DEF avg, gain, new
  <2>5. Executed(p, q, price) \in Position /\ Executed(p, q, price).qty = new
    BY <1>1, <2>1, <2>3, <2>4 DEF Position
  <2> QED BY <2>5 DEF new
<1> QED BY <1>2, <1>3

----------------------------------------------------------------------------
(* The invariant.                                                          *)

\* A session starts with no order, no position and nothing to fill.
LEMMA InitHolds == Init => IInv
<1> SUFFICES ASSUME Init PROVE IInv
  OBVIOUS
<1>1. TypeOK
  <2>1. order \in [Order -> OrderRecord]
    BY DEF Init, NoOrder, OrderRecord, OrderState, NoLimit
  <2>2. pos \in [Symbol -> Position]
    BY DEF Init, Position
  <2>3. cash \in Int /\ paid \in Nat /\ MaxPrints \in Nat
    BY NumberAssumption DEF Init
  <2>4. quote \in [Symbol -> Quote \cup {NoQuote}] /\ prints \in [Symbol -> 0..MaxPrints]
    BY <2>3 DEF Init
  <2>5. /\ stale \subseteq Symbol /\ due \subseteq Order
        /\ killed \in BOOLEAN /\ state \in {"running", "stopped", "killed"} /\ flat \in BOOLEAN
    BY DEF Init
  <2> QED BY <2>1, <2>2, <2>3, <2>4, <2>5 DEF TypeOK
<1>2. DueSound /\ Sized /\ NextPrintFills /\ Prompt /\ Flattening /\ Fresh
  BY DEF Init, NoOrder, DueSound, Sized, NextPrintFills, Prompt, Flattening, Fresh, Order
<1> QED BY <1>1, <1>2 DEF IInv

\* The fill of a due order keeps the invariant.
LEMMA FillKeeps ==
    ASSUME IInv, NEW o \in Order, Fill(o)
    PROVE  IInv'
<1> DEFINE s == SymbolOf[o]
           q == order[o].qty
           price == ExecPrice(q, quote[s])
           fee == Magnitude(q) * Commission
<1>1. /\ o \in due /\ order[o].state = "ACKNOWLEDGED" /\ q \in Int /\ q # 0
      /\ order[o] \in OrderRecord /\ s \in Symbol /\ pos[s] \in Position /\ prints[s] \in Nat
  <2>1. o \in due
    BY DEF Fill
  <2>2. order[o].state = "ACKNOWLEDGED" /\ q # 0
    BY <2>1 DEF IInv, DueSound, Sized
  <2>3. order[o] \in OrderRecord /\ q \in Int
    BY DEF IInv, TypeOK, OrderRecord
  <2>4. s \in Symbol
    BY SymbolAssumption
  <2>5. pos[s] \in Position /\ prints[s] \in Nat
    BY <2>4 DEF IInv, TypeOK
  <2> QED BY <2>1, <2>2, <2>3, <2>4, <2>5
<1>2. price \in Nat /\ fee \in Nat /\ Commission \in Nat
  <2>1. quote[s] \in [last : Nat, buy : Nat, sell : Nat]
    BY <1>1, QuoteAssumption DEF IInv, TypeOK, NoQuote
  <2>2. price \in Nat
    BY <2>1 DEF ExecPrice
  <2>3. fee \in Nat
    BY <1>1, MagnitudeIsNat, ProductIsNat, NumberAssumption
  <2> QED BY <2>2, <2>3, NumberAssumption
<1> DEFINE p == Executed(pos[s], q, price)
<1>3. p \in Position /\ p.qty = pos[s].qty + q
  BY <1>1, <1>2, ExecutedIsPosition
<1>4. /\ due' = due \ {o}
      /\ order' = [order EXCEPT ![o].state = "FILLED", ![o].filled = prints[s]]
      /\ pos' = [pos EXCEPT ![s] = p]
      /\ cash' = cash - (q * price + fee) /\ paid' = paid + fee
      /\ UNCHANGED <<quote, stale, prints, killed, state, flat>>
  BY DEF Fill
<1> HIDE DEF s, q, price, fee, p
<1>5. TypeOK'
  <2>1. order' \in [Order -> OrderRecord]
    BY <1>1, <1>4 DEF IInv, TypeOK, OrderRecord, OrderState
  <2>2. pos' \in [Symbol -> Position]
    BY <1>1, <1>3, <1>4 DEF IInv, TypeOK
  <2>3. cash' \in Int /\ paid' \in Nat
    <3>1. q * price \in Int
      BY <1>1, <1>2, ProductIsInt
    <3> QED BY <1>2, <1>4, <3>1 DEF IInv, TypeOK
  <2> QED BY <1>4, <2>1, <2>2, <2>3 DEF IInv, TypeOK
<1>6. /\ order'[o].state = "FILLED" /\ order'[o].filled = prints[s]
      /\ order'[o].placed = order[o].placed /\ order'[o].limit = order[o].limit
      /\ \A p1 \in Order : p1 # o => order'[p1] = order[p1]
      /\ order'[o].qty = order[o].qty
  BY <1>1, <1>4 DEF IInv, TypeOK, OrderRecord
<1>7. DueSound' /\ Sized'
  BY <1>4, <1>6 DEF IInv, TypeOK, DueSound, Sized
<1>8. NextPrintFills' /\ Prompt'
  <2>1. o \in Request => /\ prints[s] > order[o].placed
                         /\ order[o].limit = NoLimit => prints[s] = order[o].placed + 1
    BY <1>1 DEF IInv, Prompt, s
  <2>2. Request \subseteq Order /\ prints' = prints
    BY <1>4 DEF Order
  <2> QED BY ZenonT(60), <1>4, <1>6, <2>1, <2>2 DEF IInv, NextPrintFills, Prompt
<1>9. Flattening' /\ Fresh'
  <2>1. flat => o \in Symbol /\ s = o /\ q = -pos[s].qty
    BY <1>1, SymbolAssumption DEF IInv, Flattening, s, q
  <2>2. ~flat => o \notin Symbol
    BY <1>1 DEF IInv, Fresh
  <2>3. pos'[s] = p /\ \A t \in Symbol : t # s => pos'[t] = pos[t]
    BY <1>1, <1>4 DEF IInv, TypeOK
  <2>4. flat => pos'[s].qty = 0
    BY <1>1, <1>3, <2>1, <2>3 DEF Position
  <2>5. Symbol \subseteq Order /\ flat' = flat /\ state' = state
    BY <1>4 DEF Order
  <2>6. Flattening'
    <3> SUFFICES ASSUME flat
                 PROVE  /\ state # "running" /\ due' \subseteq Symbol
                        /\ \A t \in Symbol : /\ pos'[t].qty # 0 => t \in due'
                                             /\ t \in due' => order'[t].qty = -pos'[t].qty
      BY <2>5 DEF Flattening
    <3>1. state # "running" /\ due' \subseteq Symbol
      BY <1>4 DEF IInv, Flattening
    <3> SUFFICES ASSUME NEW t \in Symbol
                 PROVE  /\ pos'[t].qty # 0 => t \in due'
                        /\ t \in due' => order'[t].qty = -pos'[t].qty
      BY <3>1
    <3>2. /\ pos[t].qty # 0 => t \in due
          /\ t \in due => order[t].qty = -pos[t].qty
      BY DEF IInv, Flattening
    <3>3. CASE t = o
      BY <1>4, <2>1, <2>4, <3>2, <3>3
    <3>4. CASE t # o
      <4>1. pos'[t] = pos[t] /\ order'[t] = order[t] /\ (t \in due' <=> t \in due)
        BY <1>4, <1>6, <2>1, <2>3, <2>5, <3>4
      <4> QED BY <3>2, <4>1
    <3> QED BY <3>3, <3>4
  <2>7. Fresh'
    BY <1>6, <2>2, <2>5 DEF IInv, Fresh
  <2> QED BY <2>6, <2>7
<1> QED BY <1>5, <1>7, <1>8, <1>9 DEF IInv

\* A tick makes due what its print matches, no order earlier than it may be.
LEMMA TickKeeps ==
    ASSUME IInv, NEW s \in Symbol, NEW at \in Quote, Tick(s, at)
    PROVE  IInv'
<1>1. /\ state = "running" /\ due = {} /\ prints[s] < MaxPrints
      /\ prints' = [prints EXCEPT ![s] = prints[s] + 1]
      /\ quote' = [quote EXCEPT ![s] = at]
      /\ stale' = stale \ {s}
      /\ due' = Matched(order, s, at)
      /\ UNCHANGED <<order, pos, cash, paid, killed, state, flat>>
  BY DEF Tick
<1>2. MaxPrints \in Nat /\ Request \subseteq Order /\ ~flat
  BY <1>1, NumberAssumption DEF Order, IInv, Flattening
<1>3. /\ prints'[s] = prints[s] + 1 /\ prints[s] \in Nat
      /\ \A t \in Symbol : t # s => prints'[t] = prints[t]
  BY <1>1, <1>2 DEF IInv, TypeOK
<1>4. TypeOK'
  <2>1. prints' \in [Symbol -> 0..MaxPrints]
    BY <1>1, <1>2, <1>3 DEF IInv, TypeOK
  <2>2. quote' \in [Symbol -> Quote \cup {NoQuote}]
    BY <1>1 DEF IInv, TypeOK
  <2>3. due' \subseteq Order /\ stale' \subseteq Symbol
    BY <1>1 DEF IInv, TypeOK, Matched
  <2> QED BY <1>1, <2>1, <2>2, <2>3 DEF IInv, TypeOK
<1>5. DueSound' /\ Sized'
  BY <1>1 DEF IInv, DueSound, Sized, Matched
<1>6. Prompt'
  <2>1. SUFFICES ASSUME NEW o \in Request, order[o].state = "ACKNOWLEDGED"
                 PROVE  /\ order[o].placed <= prints'[SymbolOf[o]]
                        /\ o \in due' =>
                              /\ order[o].placed < prints'[SymbolOf[o]]
                              /\ order[o].limit = NoLimit =>
                                    prints'[SymbolOf[o]] = order[o].placed + 1
    BY <1>1 DEF Prompt
  <2>2. /\ order[o].placed \in Nat /\ order[o].placed <= prints[SymbolOf[o]]
        /\ order[o].limit = NoLimit => prints[SymbolOf[o]] = order[o].placed
        /\ SymbolOf[o] \in Symbol
    <3>1. order[o].placed \in Nat /\ SymbolOf[o] \in Symbol
      BY <1>2, SymbolAssumption DEF IInv, TypeOK, OrderRecord
    <3> QED BY <1>1, <2>1, <3>1 DEF IInv, Prompt, NextPrintFills
  <2>3. o \in due' => SymbolOf[o] = s
    BY <1>1 DEF Matched
  <2> QED BY <1>3, <2>2, <2>3
<1>7. NextPrintFills'
  <2>1. \A o \in Request : order[o].state = "ACKNOWLEDGED" /\ order[o].limit = NoLimit /\ o \notin due' =>
           prints'[SymbolOf[o]] = order[o].placed
    <3>1. SUFFICES ASSUME NEW o \in Request, order[o].state = "ACKNOWLEDGED",
                          order[o].limit = NoLimit, o \notin due'
                   PROVE  prints'[SymbolOf[o]] = order[o].placed
      OBVIOUS
    <3>2. SymbolOf[o] # s /\ SymbolOf[o] \in Symbol
      BY <1>1, <1>2, <3>1, SymbolAssumption DEF Matched, Marketable
    <3>3. prints[SymbolOf[o]] = order[o].placed
      BY <1>1, <3>1 DEF IInv, NextPrintFills
    <3> QED BY <1>3, <3>2, <3>3
  <2> QED BY <1>1, <2>1 DEF IInv, NextPrintFills
<1>8. Flattening' /\ Fresh'
  BY <1>1, <1>2 DEF IInv, Flattening, Fresh
<1> QED BY <1>4, <1>5, <1>6, <1>7, <1>8 DEF IInv

\* An order is placed behind the prints its strategy has seen.
LEMMA PlaceOrderKeeps ==
    ASSUME IInv, NEW o \in Request, NEW q \in Quantity, NEW limit \in Limit, PlaceOrder(o, q, limit)
    PROVE  IInv'
<1> DEFINE new == Placed(o, q, limit)
<1>1. /\ state = "running" /\ due = {} /\ order[o].state = "none"
      /\ order' = [order EXCEPT ![o] = new]
      /\ UNCHANGED <<pos, cash, paid, quote, stale, prints, due, killed, state, flat>>
  BY DEF PlaceOrder, HookRuns
<1>2. q \in Int /\ q # 0 /\ limit \in Nat /\ o \in Order /\ o \notin Symbol
      /\ Symbol \subseteq Order /\ Request \subseteq Order
  BY QuoteAssumption, NameAssumption DEF Order
<1>3. /\ new \in OrderRecord /\ new.state = "ACKNOWLEDGED" /\ new.qty = q
      /\ new.limit = limit /\ new.placed = prints[SymbolOf[o]] /\ prints[SymbolOf[o]] \in Nat
  <2>1. prints[SymbolOf[o]] \in Nat
    BY <1>2, SymbolAssumption DEF IInv, TypeOK
  <2> QED BY <1>2, <2>1 DEF Placed, OrderRecord, OrderState
<1> HIDE DEF new
<1>4. order'[o] = new /\ \A p \in Order : p # o => order'[p] = order[p]
  BY <1>1, <1>2 DEF IInv, TypeOK
<1>5. TypeOK'
  BY <1>1, <1>3 DEF IInv, TypeOK
<1>6. DueSound' /\ Sized'
  BY <1>1, <1>2, <1>3, <1>4 DEF IInv, DueSound, Sized
<1>7. Prompt'
  <2>1. SUFFICES ASSUME NEW p \in Request, order'[p].state = "ACKNOWLEDGED"
                 PROVE  order'[p].placed <= prints[SymbolOf[p]]
    BY <1>1 DEF Prompt
  <2>2. CASE p = o
    BY <1>3, <1>4, <2>2
  <2>3. CASE p # o
    <3>1. order'[p] = order[p]
      BY <1>2, <1>4, <2>3
    <3> QED BY <2>1, <3>1 DEF IInv, Prompt
  <2> QED BY <2>2, <2>3
<1>8. NextPrintFills'
  BY <1>1, <1>2, <1>3, <1>4 DEF IInv, NextPrintFills
<1>9. Flattening' /\ Fresh'
  <2>1. ~flat
    BY <1>1 DEF IInv, Flattening
  <2> QED BY <1>1, <1>2, <1>4, <2>1 DEF IInv, Flattening, Fresh
<1> QED BY <1>5, <1>6, <1>7, <1>8, <1>9 DEF IInv

\* A cancel ends the resting orders of its symbols and touches no other.
LEMMA CancelledOnly ==
    ASSUME IInv, NEW symbols
    PROVE  /\ Cancelled(symbols) \in [Order -> OrderRecord]
           /\ \A o \in Order :
                 \/ Cancelled(symbols)[o] = order[o] /\ ~(o \in OpenOrders /\ SymbolOf[o] \in symbols)
                 \/ /\ order[o].state = "ACKNOWLEDGED"
                    /\ Cancelled(symbols)[o].state = "CANCELLED"
                    /\ Cancelled(symbols)[o].qty = order[o].qty
<1>1. order \in [Order -> OrderRecord]
  BY DEF IInv, TypeOK
<1>2. ASSUME NEW o \in Order
      PROVE  /\ Cancelled(symbols)[o] \in OrderRecord
             /\ \/ Cancelled(symbols)[o] = order[o] /\ ~(o \in OpenOrders /\ SymbolOf[o] \in symbols)
                \/ /\ order[o].state = "ACKNOWLEDGED"
                   /\ Cancelled(symbols)[o].state = "CANCELLED"
                   /\ Cancelled(symbols)[o].qty = order[o].qty
  <2>1. order[o] \in OrderRecord
    BY <1>1
  <2>2. CASE o \in OpenOrders /\ SymbolOf[o] \in symbols
    <3>1. Cancelled(symbols)[o] = [order[o] EXCEPT !.state = "CANCELLED"]
      BY <2>2 DEF Cancelled
    <3> QED BY <2>1, <2>2, <3>1 DEF OpenOrders, OrderRecord, OrderState
  <2>3. CASE ~(o \in OpenOrders /\ SymbolOf[o] \in symbols)
    <3>1. Cancelled(symbols)[o] = order[o]
      BY <2>3 DEF Cancelled
    <3> QED BY <2>1, <2>3, <3>1
  <2> QED BY <2>2, <2>3
<1>3. Cancelled(symbols) = [o \in Order |-> Cancelled(symbols)[o]]
  BY DEF Cancelled
<1> QED BY <1>2, <1>3

\* A cancel by the strategy keeps the invariant.
LEMMA CancelOpenKeeps ==
    ASSUME IInv, NEW symbols, CancelOpen(symbols)
    PROVE  IInv'
<1>1. /\ state = "running" /\ due = {} /\ order' = Cancelled(symbols)
      /\ UNCHANGED <<pos, cash, paid, quote, stale, prints, due, killed, state, flat>>
  BY DEF CancelOpen, HookRuns
<1>2. /\ order' \in [Order -> OrderRecord]
      /\ \A o \in Order : \/ order'[o] = order[o]
                          \/ order[o].state = "ACKNOWLEDGED" /\ order'[o].state = "CANCELLED"
  BY <1>1, CancelledOnly
<1>3. Request \subseteq Order /\ Symbol \subseteq Order /\ ~flat
  BY <1>1 DEF Order, IInv, Flattening
<1>4. TypeOK'
  BY <1>1, <1>2 DEF IInv, TypeOK
<1>5. DueSound' /\ Sized'
  BY <1>1, <1>2 DEF IInv, DueSound, Sized
<1>6. NextPrintFills' /\ Prompt'
  BY <1>1, <1>2, <1>3 DEF IInv, NextPrintFills, Prompt
<1>7. Flattening' /\ Fresh'
  BY <1>1, <1>2, <1>3 DEF IInv, Flattening, Fresh
<1> QED BY <1>4, <1>5, <1>6, <1>7 DEF IInv

\* A kill cancels what rests and, when it flattens, places one order per position.
LEMMA KillKeeps ==
    ASSUME IInv, NEW flatten \in BOOLEAN, Kill(flatten)
    PROVE  IInv'
<1> DEFINE held == {s \in Symbol : pos[s].qty # 0}
           flattening(o) == Placed(o, -pos[o].qty, NoLimit)
<1>1. /\ due = {} /\ state' = "killed" /\ killed' = TRUE /\ flat' = (flat \/ flatten)
      /\ order' = [o \in Order |-> IF flatten /\ o \in held THEN flattening(o)
                                   ELSE Cancelled(Symbol)[o]]
      /\ due' = IF flatten THEN UNION {Matched(order', s, quote[s]) : s \in held} ELSE {}
      /\ UNCHANGED <<pos, cash, paid, quote, stale, prints>>
  BY DEF Kill
<1>2. /\ Symbol \subseteq Order /\ Request \subseteq Order /\ held \subseteq Symbol
      /\ \A s \in Symbol : SymbolOf[s] = s /\ s \notin Request
      /\ \A o \in Order : SymbolOf[o] \in Symbol
  BY NameAssumption, SymbolAssumption DEF Order
<1>3. \A o \in held : /\ flattening(o) \in OrderRecord
                      /\ flattening(o).state = "ACKNOWLEDGED"
                      /\ flattening(o).qty = -pos[o].qty /\ flattening(o).qty # 0
                      /\ flattening(o).limit = NoLimit
  <2> TAKE o \in held
  <2>1. pos[o].qty \in Int /\ pos[o].qty # 0 /\ prints[SymbolOf[o]] \in Nat
    BY <1>2 DEF IInv, TypeOK, Position
  <2> QED BY <2>1 DEF Placed, OrderRecord, OrderState, NoLimit
<1>4. \A o \in Order : ~(flatten /\ o \in held) =>
         /\ order'[o] \in OrderRecord
         /\ order'[o].state # "ACKNOWLEDGED"
         /\ order'[o] = order[o] \/ order'[o].state = "CANCELLED"
  <2> SUFFICES ASSUME NEW o \in Order, ~(flatten /\ o \in held)
               PROVE  /\ order'[o] \in OrderRecord
                      /\ order'[o].state # "ACKNOWLEDGED"
                      /\ order'[o] = order[o] \/ order'[o].state = "CANCELLED"
    OBVIOUS
  <2>1. order'[o] = Cancelled(Symbol)[o]
    BY <1>1
  <2>2. ~(o \in OpenOrders /\ SymbolOf[o] \in Symbol) => order[o].state # "ACKNOWLEDGED"
    BY <1>2 DEF OpenOrders
  <2> QED BY <2>1, <2>2, CancelledOnly
<1>5. \A o \in held : flatten => order'[o] = flattening(o)
  BY <1>1, <1>2
<1>6. due' = IF flatten THEN held ELSE {}
  <2>1. CASE ~flatten
    BY <1>1, <2>1
  <2>2. CASE flatten
    <3>1. ASSUME NEW s \in held
          PROVE  Matched(order', s, quote[s]) = {s}
      <4> HIDE DEF held
      <4>1. s \in Order /\ SymbolOf[s] = s
        BY <1>2
      <4>2. order'[s].state = "ACKNOWLEDGED" /\ Marketable(order'[s], quote[s])
        BY <1>3, <1>5, <2>2 DEF Marketable
      <4>3. ASSUME NEW o \in Order, SymbolOf[o] = s, order'[o].state = "ACKNOWLEDGED"
            PROVE  o = s
        <5>1. o \in held
          BY <1>4, <4>3
        <5> QED BY <1>2, <4>3, <5>1
      <4> QED BY <4>1, <4>2, <4>3 DEF Matched
    <3>2. due' = UNION {Matched(order', s, quote[s]) : s \in held}
      BY <1>1, <2>2
    <3> HIDE DEF held
    <3>3. {Matched(order', s, quote[s]) : s \in held} = {{s} : s \in held}
      BY <3>1
    <3>4. UNION {{s} : s \in held} = held
      OBVIOUS
    <3> QED BY <2>2, <3>2, <3>3, <3>4
  <2> QED BY <2>1, <2>2
<1> HIDE DEF flattening
<1>7. TypeOK'
  <2>1. order' \in [Order -> OrderRecord]
    BY <1>1, <1>2, <1>3, <1>4, <1>5
  <2>2. due' \subseteq Order /\ flat' \in BOOLEAN
    BY <1>1, <1>2, <1>6 DEF IInv, TypeOK
  <2> QED BY <1>1, <2>1, <2>2 DEF IInv, TypeOK
<1>8. DueSound' /\ Sized'
  BY <1>2, <1>3, <1>4, <1>5, <1>6 DEF DueSound, Sized
<1>9. NextPrintFills' /\ Prompt'
  BY <1>1, <1>2, <1>4 DEF IInv, NextPrintFills, Prompt
<1>10. Flattening'
  <2>1. CASE flatten
    BY <1>1, <1>2, <1>3, <1>5, <1>6, <2>1 DEF Flattening
  <2>2. CASE ~flatten
    <3>1. flat => held = {}
      BY <1>1 DEF IInv, Flattening
    <3> QED BY <1>1, <1>6, <2>2, <3>1 DEF Flattening
  <2> QED BY <2>1, <2>2
<1>11. Fresh'
  <2>1. SUFFICES ASSUME ~flat, ~flatten, NEW s \in Symbol
                 PROVE  order'[s].state = "none"
    BY <1>1 DEF Fresh
  <2>2. order[s].state = "none" /\ order'[s] = Cancelled(Symbol)[s]
    BY <1>1, <1>2, <2>1 DEF IInv, Fresh
  <2> QED BY <1>2, <2>2, CancelledOnly
<1> QED BY <1>7, <1>8, <1>9, <1>10, <1>11 DEF IInv

\* The other steps change nothing the invariant speaks of.
LEMMA QuietKeeps ==
    ASSUME IInv,
           \/ \E s \in Symbol : Age(s)
           \/ \E s \in Symbol, q \in Quantity : LossLimit(s, q)
           \/ Stop
           \/ UNCHANGED vars
    PROVE  IInv'
<1>1. UNCHANGED <<order, pos, cash, paid, quote, prints, due, flat>>
  BY DEF Age, LossLimit, Stop, vars
<1>2. stale' \subseteq Symbol /\ killed' \in BOOLEAN
  BY DEF IInv, TypeOK, Age, LossLimit, Stop, vars
<1>3. state' \in {"running", "stopped", "killed"} /\ (state' = state \/ state' # "running")
  BY DEF IInv, TypeOK, Age, LossLimit, Stop, vars
<1>4. TypeOK'
  BY <1>1, <1>2, <1>3 DEF IInv, TypeOK
<1>5. DueSound' /\ Sized' /\ NextPrintFills' /\ Prompt' /\ Fresh'
  BY <1>1 DEF IInv, DueSound, Sized, NextPrintFills, Prompt, Fresh
<1>6. Flattening'
  BY <1>1, <1>3 DEF IInv, Flattening
<1> QED BY <1>4, <1>5, <1>6 DEF IInv

\* Every step keeps the invariant.
LEMMA NextKeeps == IInv /\ [Next]_vars => IInv'
<1> SUFFICES ASSUME IInv, [Next]_vars
             PROVE  IInv'
  OBVIOUS
<1>1. CASE \E o \in Order : Fill(o)
  BY <1>1, FillKeeps
<1>2. CASE \E s \in Symbol, at \in Quote : Tick(s, at)
  BY <1>2, TickKeeps
<1>3. CASE \E o \in Request, q \in Quantity, limit \in Limit : PlaceOrder(o, q, limit)
  BY <1>3, PlaceOrderKeeps
<1>4. CASE \E symbols \in {Symbol} \cup {{s} : s \in Symbol} : CancelOpen(symbols)
  BY <1>4, CancelOpenKeeps
<1>5. CASE \E flatten \in BOOLEAN : Kill(flatten)
  BY <1>5, KillKeeps
<1>6. CASE \/ \E s \in Symbol : Age(s)
           \/ \E s \in Symbol, q \in Quantity : LossLimit(s, q)
           \/ Stop
           \/ UNCHANGED vars
  BY <1>6, QuietKeeps
<1> QED BY <1>1, <1>2, <1>3, <1>4, <1>5, <1>6 DEF Next

\* The invariant holds in every session.
THEOREM Invariance == Spec => []IInv
BY InitHolds, NextKeeps, PTL DEF Spec

\* The variables have the types the code gives them; an average is never
\* divided by no shares (oms.py:114-141).
THEOREM TypeCorrect == Spec => []TypeOK
<1>1. IInv => TypeOK
  BY DEF IInv
<1> QED BY <1>1, Invariance, PTL

\* No order of the strategy is filled by a print it could have seen when it was
\* placed, and a market order is filled by the very next one (engine.py:10-13).
THEOREM FilledByTheNextPrint == Spec => []NextPrintFills
<1>1. IInv => NextPrintFills
  BY DEF IInv
<1> QED BY <1>1, Invariance, PTL

\* After a kill that flattens and has filled its orders no position is left,
\* however often the session is killed (manager.py:96-117).
THEOREM KilledIsFlat == Spec => []FlattenedIsFlat
<1>1. IInv => FlattenedIsFlat
  BY DEF IInv, Flattening, FlattenedIsFlat
<1> QED BY <1>1, Invariance, PTL

----------------------------------------------------------------------------
(* The order machine of OrderBook.                                         *)

\* OrderBook sums as Functions does.
LEMMA LifecycleSum ==
    \A f, S : Lifecycle!SumFunctionOnSet(f, S) = SumFunctionOnSet(f, S)
BY DEF Lifecycle!SumFunctionOnSet, Lifecycle!FoldFunctionOnSet, Lifecycle!MapThenFoldSet,
       SumFunctionOnSet, FoldFunctionOnSet, MapThenFoldSet

\* What each step does to the states and quantities of the orders, as
\* OrderBook sees it, when no order becomes filled.
LEMMA NothingFilled ==
    ASSUME IInv, IInv', pos' = pos,
           \A o \in Order : \/ order'[o].state = order[o].state
                            \/ <<order[o].state, order'[o].state>> \in
                                  {<<"none", "ACKNOWLEDGED">>, <<"ACKNOWLEDGED", "CANCELLED">>},
           \A o \in Order : order'[o].qty # order[o].qty =>
                               order[o].state = "none" /\ order'[o].state # "none"
    PROVE  Lifecycle!Next
<1> DEFINE st == [o \in Order |-> order'[o].state]
           qt == [o \in Order |-> order'[o].qty]
           filled == {o \in Order : [p \in Order |-> order[p].state][o] # "FILLED" /\ st[o] = "FILLED"}
<1>1. /\ order \in [Order -> OrderRecord] /\ order' \in [Order -> OrderRecord]
      /\ pos \in [Symbol -> Position]
  BY DEF IInv, TypeOK
<1>2. st \in [Order -> Lifecycle!State] /\ qt \in [Order -> Int]
  BY <1>1 DEF OrderRecord, OrderState, Lifecycle!State
<1>3. \A o \in Order : st[o] # order[o].state => <<order[o].state, st[o]>> \in Lifecycle!Moves
  BY DEF Lifecycle!Moves
<1>4. filled = {}
  OBVIOUS
<1>5. [s \in Symbol |-> pos'[s].qty] =
         [s \in Symbol |-> [t \in Symbol |-> pos[t].qty][s]
                             + SumFunctionOnSet(qt, {o \in filled : SymbolOf[o] = s})]
  <2>1. ASSUME NEW s \in Symbol
        PROVE  pos'[s].qty = pos[s].qty + SumFunctionOnSet(qt, {o \in filled : SymbolOf[o] = s})
    <3>1. {o \in filled : SymbolOf[o] = s} = {}
      BY <1>4
    <3>2. SumFunctionOnSet(qt, {o \in filled : SymbolOf[o] = s}) = 0
      BY <3>1, SumEmpty
    <3>3. pos[s].qty \in Int
      BY <1>1 DEF Position
    <3> QED BY <3>2, <3>3
  <2> HIDE DEF qt, filled
  <2> QED BY <2>1
<1>6. \A s \in Symbol :
         Lifecycle!SumFunctionOnSet(qt, {o \in filled : SymbolOf[o] = s}) =
            SumFunctionOnSet(qt, {o \in filled : SymbolOf[o] = s})
  BY LifecycleSum
<1>7. \A o \in Order : qt[o] # [p \in Order |-> order[p].qty][o] =>
          [p \in Order |-> order[p].state][o] = "none" /\ st[o] # "none"
  OBVIOUS
<1> QED BY ZenonT(60), <1>2, <1>3, <1>5, <1>6, <1>7 DEF Lifecycle!Next

\* A fill is the step of the order machine that moves the position.
LEMMA FillMoves ==
    ASSUME IInv, IInv', NEW o \in Order, Fill(o)
    PROVE  Lifecycle!Next
<1> DEFINE st == [p \in Order |-> order'[p].state]
           qt == [p \in Order |-> order'[p].qty]
           filled == {p \in Order : [r \in Order |-> order[r].state][p] # "FILLED" /\ st[p] = "FILLED"}
           at == SymbolOf[o]
<1>1. /\ order \in [Order -> OrderRecord] /\ order' \in [Order -> OrderRecord]
      /\ pos \in [Symbol -> Position] /\ pos' \in [Symbol -> Position]
      /\ quote \in [Symbol -> [last : Nat, buy : Nat, sell : Nat]]
  BY QuoteAssumption DEF IInv, TypeOK, NoQuote
<1>2. /\ order[o].state = "ACKNOWLEDGED" /\ order'[o].state = "FILLED"
      /\ order'[o].qty = order[o].qty /\ order[o].qty \in Int /\ order[o].qty # 0
      /\ \A p \in Order : p # o => order'[p] = order[p]
  BY <1>1 DEF Fill, IInv, DueSound, Sized, OrderRecord
<1>3. at \in Symbol
  BY SymbolAssumption
<1>4. pos'[at].qty = pos[at].qty + order[o].qty /\ \A s \in Symbol : s # at => pos'[s] = pos[s]
  <2>1. ExecPrice(order[o].qty, quote[at]) \in Nat /\ pos[at] \in Position
    BY <1>1, <1>3 DEF ExecPrice
  <2>2. pos' = [pos EXCEPT ![at] = Executed(pos[at], order[o].qty, ExecPrice(order[o].qty, quote[at]))]
    BY DEF Fill
  <2> QED BY <1>1, <1>2, <1>3, <2>1, <2>2, ExecutedIsPosition
<1>5. st \in [Order -> Lifecycle!State] /\ qt \in [Order -> Int]
  BY <1>1 DEF OrderRecord, OrderState, Lifecycle!State
<1>6. \A p \in Order : st[p] # order[p].state => <<order[p].state, st[p]>> \in Lifecycle!Moves
  BY <1>2 DEF Lifecycle!Moves
<1>7. \A p \in Order : qt[p] = order[p].qty
  BY <1>2
<1>8. filled = {o}
  BY <1>2
<1>9. [s \in Symbol |-> pos'[s].qty] =
         [s \in Symbol |-> [t \in Symbol |-> pos[t].qty][s]
                             + SumFunctionOnSet(qt, {p \in filled : SymbolOf[p] = s})]
  <2>1. ASSUME NEW s \in Symbol
        PROVE  pos'[s].qty = pos[s].qty + SumFunctionOnSet(qt, {p \in filled : SymbolOf[p] = s})
    <3>1. CASE s = at
      <4>1. {p \in filled : SymbolOf[p] = s} = {o}
        BY <1>8, <3>1
      <4>2. SumFunctionOnSet(qt, {o}) = order[o].qty
        BY <1>2, <1>7, SumOne
      <4> QED BY <1>4, <3>1, <4>1, <4>2
    <3>2. CASE s # at
      <4>1. {p \in filled : SymbolOf[p] = s} = {}
        BY <1>8, <3>2
      <4>2. SumFunctionOnSet(qt, {p \in filled : SymbolOf[p] = s}) = 0
        BY <4>1, SumEmpty
      <4>3. pos[s].qty \in Int
        BY <1>1 DEF Position
      <4> QED BY <1>4, <3>2, <4>2, <4>3
    <3> QED BY <3>1, <3>2
  <2> HIDE DEF qt, filled
  <2> QED BY <2>1
<1>10. \A p \in Order : qt[p] # [r \in Order |-> order[r].qty][p] =>
          [r \in Order |-> order[r].state][p] = "none" /\ st[p] # "none"
  BY <1>7
<1>11. \A s \in Symbol :
          Lifecycle!SumFunctionOnSet(qt, {p \in filled : SymbolOf[p] = s}) =
             SumFunctionOnSet(qt, {p \in filled : SymbolOf[p] = s})
  BY LifecycleSum
<1> QED BY <1>5, <1>6, <1>9, <1>10, <1>11 DEF Lifecycle!Next

\* A step is a step of the order machine, or it leaves orders and positions
\* alone.
LEMMA StepMoves ==
    ASSUME IInv, IInv', [Next]_vars
    PROVE  [Lifecycle!Next]_(Lifecycle!vars)
<1>1. CASE \E o \in Order : Fill(o)
  BY <1>1, FillMoves
<1>2. CASE \E o \in Request, q \in Quantity, limit \in Limit : PlaceOrder(o, q, limit)
  <2>1. PICK o \in Request, q \in Quantity, limit \in Limit : PlaceOrder(o, q, limit)
    BY <1>2
  <2>2. /\ pos' = pos /\ order[o].state = "none" /\ order'[o].state = "ACKNOWLEDGED"
        /\ \A p \in Order : p # o => order'[p] = order[p]
    BY <2>1 DEF PlaceOrder, Placed, IInv, TypeOK, Order
  <2> QED BY <2>2, NothingFilled
<1>3. CASE \E symbols \in {Symbol} \cup {{s} : s \in Symbol} : CancelOpen(symbols)
  <2>1. PICK symbols : CancelOpen(symbols)
    BY <1>3
  <2>2. order' = Cancelled(symbols) /\ pos' = pos
    BY <2>1 DEF CancelOpen
  <2> QED BY <2>2, CancelledOnly, NothingFilled
<1>4. CASE \E flatten \in BOOLEAN : Kill(flatten)
  <2>1. PICK flatten \in BOOLEAN : Kill(flatten)
    BY <1>4
  <2>2. /\ pos' = pos /\ due = {}
        /\ \A o \in Order :
              order'[o] = IF flatten /\ o \in Symbol /\ pos[o].qty # 0
                          THEN Placed(o, -pos[o].qty, NoLimit) ELSE Cancelled(Symbol)[o]
    BY <2>1 DEF Kill
  <2>3. \A o \in Symbol : pos[o].qty # 0 => order[o].state = "none"
    BY <2>2 DEF IInv, Flattening, Fresh
  <2>4. ASSUME NEW o \in Order
        PROVE  /\ \/ order'[o].state = order[o].state
                  \/ <<order[o].state, order'[o].state>> \in
                        {<<"none", "ACKNOWLEDGED">>, <<"ACKNOWLEDGED", "CANCELLED">>}
               /\ order'[o].qty # order[o].qty => order[o].state = "none" /\ order'[o].state # "none"
    <3>1. CASE flatten /\ o \in Symbol /\ pos[o].qty # 0
      <4>1. order'[o].state = "ACKNOWLEDGED"
        <5>1. order'[o] = Placed(o, -pos[o].qty, NoLimit)
          BY <2>2, <3>1
        <5> QED BY <5>1 DEF Placed
      <4>2. order[o].state = "none"
        BY <2>3, <3>1
      <4> QED BY <4>1, <4>2
    <3>2. CASE ~(flatten /\ o \in Symbol /\ pos[o].qty # 0)
      <4>1. order'[o] = Cancelled(Symbol)[o]
        BY <2>2, <3>2
      <4> QED BY <4>1, CancelledOnly
    <3> QED BY <3>1, <3>2
  <2> QED BY <2>2, <2>4, NothingFilled
<1>5. CASE \/ \E s \in Symbol, at \in Quote : Tick(s, at)
           \/ \E s \in Symbol : Age(s)
           \/ \E s \in Symbol, q \in Quantity : LossLimit(s, q)
           \/ Stop
           \/ UNCHANGED vars
  <2>1. order' = order /\ pos' = pos
    BY <1>5 DEF Tick, Age, LossLimit, Stop, vars
  <2> QED BY <2>1 DEF Lifecycle!vars
<1> QED BY <1>1, <1>2, <1>3, <1>4, <1>5 DEF Next

\* The internal engine walks each order once through the life OrderBook gives
\* it, and moves a position only when an acknowledged order is filled, by that
\* order's quantity (oms.py:3-20, :100-141).
THEOREM KeepsLifecycle == Spec => LifecycleSpec
<1>1. Init => Lifecycle!Init
  BY DEF Init, Lifecycle!Init, NoOrder
<1> QED BY <1>1, Invariance, StepMoves, PTL DEF Spec, LifecycleSpec, Lifecycle!Spec

----------------------------------------------------------------------------
(* The books.                                                              *)

\* The averages a fill is about to form are whole, as the code's, which are not
\* rounded, always are.
WholeAverages ==
    \A o \in due :
       LET p     == pos[SymbolOf[o]]
           q     == order[o].qty
           price == ExecPrice(q, quote[SymbolOf[o]])
       IN p.qty * q >= 0 =>
             (Magnitude(p.qty) * p.avg + Magnitude(q) * price) % Magnitude(p.qty + q) = 0

\* What a position has brought in, when it is given back at cost.
Worth(p) == p.realized - p.qty * p.avg

\* A division without remainder is undone by the product.
LEMMA ExactQuotient ==
    \A m \in Int, n \in Nat : n > 0 /\ m % n = 0 => n * (m \div n) = m
OBVIOUS

\* A fill takes out of a position's worth what it costs.
LEMMA ExecutedWorth ==
    ASSUME NEW p \in Position, NEW q \in Int, q # 0, NEW price \in Nat,
           p.qty * q >= 0 =>
              (Magnitude(p.qty) * p.avg + Magnitude(q) * price) % Magnitude(p.qty + q) = 0
    PROVE  Worth(Executed(p, q, price)) = Worth(p) - q * price
<1> DEFINE n == p.qty
           a == p.avg
           new == n + q
           total == Magnitude(n) * a + Magnitude(q) * price
<1>1. n \in Int /\ a \in Int /\ p.realized \in Int /\ new \in Int /\ price \in Int
  BY DEF Position
<1>2. CASE n * q >= 0
  <2> DEFINE avg == total \div Magnitude(new)
  <2>1. Executed(p, q, price) = [p EXCEPT !.qty = new, !.avg = avg]
    BY <1>2 DEF Executed
  <2>2. Magnitude(new) \in Nat /\ Magnitude(new) > 0 /\ total \in Int
    BY <1>1, <1>2, AveragingIn, MagnitudeIsNat, ProductIsInt
  <2>3. Magnitude(new) * avg = total /\ avg \in Int
    <3>1. total % Magnitude(new) = 0
      BY <1>2
    <3> HIDE DEF total, new
    <3> QED BY <2>2, <3>1, ExactQuotient, QuotientIsInt
  <2>4. new * avg = n * a + q * price
    <3> HIDE DEF avg
    <3>1. CASE n >= 0 /\ q > 0
      <4>1. Magnitude(n) = n /\ Magnitude(q) = q /\ Magnitude(new) = new
        BY <1>1, <3>1 DEF Magnitude
      <4> QED BY <2>3, <4>1
    <3>2. CASE n <= 0 /\ q < 0
      <4>1. Magnitude(n) = -n /\ Magnitude(q) = -q /\ Magnitude(new) = -new
        BY <1>1, <3>2 DEF Magnitude
      <4>2. (-new) * avg = (-n) * a + (-q) * price
        BY <2>3, <4>1
      <4>3. /\ (-new) * avg = -(new * avg) /\ (-n) * a = -(n * a)
            /\ (-q) * price = -(q * price)
        BY <1>1, <2>3
      <4>4. new * avg \in Int /\ n * a \in Int /\ q * price \in Int
        BY <1>1, <2>3, ProductIsInt
      <4> QED BY <4>2, <4>3, <4>4
    <3>3. (n >= 0 /\ q > 0) \/ (n <= 0 /\ q < 0)
      BY <1>1, <1>2
    <3> QED BY <3>1, <3>2, <3>3
  <2>5. Worth(Executed(p, q, price)) = p.realized - new * avg
    <3> HIDE DEF avg, new
    <3> QED BY <2>1 DEF Worth, Position
  <2>6. n * a \in Int /\ q * price \in Int
    BY <1>1, ProductIsInt
  <2> HIDE DEF avg, new
  <2> QED BY <1>1, <2>4, <2>5, <2>6 DEF Worth
<1>3. CASE ~(n * q >= 0)
  <2> DEFINE closed == IF Magnitude(q) < Magnitude(n) THEN Magnitude(q) ELSE Magnitude(n)
             sign == IF n > 0 THEN 1 ELSE -1
             avg == IF n * new < 0 THEN price ELSE IF new = 0 THEN 0 ELSE a
             gain == closed * (price - a) * sign
  <2>1. Executed(p, q, price) = [qty |-> new, avg |-> avg, realized |-> p.realized + gain]
    BY <1>3 DEF Executed
  <2>2. (n > 0 /\ q < 0) \/ (n < 0 /\ q > 0)
    BY <1>1, <1>3
  <2>3. gain - new * avg = -(n * a) - q * price
    <3>1. CASE Magnitude(q) < Magnitude(n)
      <4>1. avg = a /\ new # 0
        <5>1. n * new >= 0 /\ new # 0
          BY <1>1, <2>2, <3>1 DEF Magnitude
        <5> QED BY <1>1, <5>1
      <4>2. gain = -q * (price - a)
        BY <1>1, <2>2, <3>1 DEF Magnitude
      <4> HIDE DEF gain, avg
      <4> QED BY <1>1, <4>1, <4>2
    <3>2. CASE ~(Magnitude(q) < Magnitude(n))
      <4>1. gain = n * (price - a)
        <5>1. price - a \in Int
          BY <1>1
        <5>2. CASE n > 0
          <6>1. closed = n /\ sign = 1
            BY <1>1, <3>2, <5>2 DEF Magnitude
          <6> QED BY <1>1, <5>1, <6>1
        <5>3. CASE n < 0
          <6>1. closed = -n /\ sign = -1
            BY <1>1, <3>2, <5>3 DEF Magnitude
          <6>2. (-n) * (price - a) * (-1) = n * (price - a)
            BY <1>1, <5>1
          <6> HIDE DEF closed, sign
          <6> QED BY <6>1, <6>2
        <5> QED BY <2>2, <5>2, <5>3
      <4>2. new * avg = new * price
        <5>1. CASE new = 0
          BY <1>1, <5>1
        <5>2. CASE new # 0
          <6>1. n * new < 0
            BY <1>1, <2>2, <3>2, <5>2 DEF Magnitude
          <6> QED BY <6>1
        <5> QED BY <5>1, <5>2
      <4> HIDE DEF gain, avg
      <4> QED BY <1>1, <4>1, <4>2
    <3> QED BY <3>1, <3>2
  <2>4. gain \in Int /\ new * avg \in Int /\ n * a \in Int /\ q * price \in Int
    <3>1. closed \in Int /\ sign \in Int /\ avg \in Int
      BY <1>1, MagnitudeIsNat
    <3> HIDE DEF closed, sign, avg
    <3> QED BY <1>1, <3>1, ProductIsInt
  <2>5. Worth(Executed(p, q, price)) = p.realized + gain - new * avg
    <3> DEFINE e == Executed(p, q, price)
    <3>1. e.qty = new /\ e.avg = avg /\ e.realized = p.realized + gain
      BY <2>1
    <3> HIDE DEF avg, new, gain, e
    <3>2. Worth(e) = p.realized + gain - new * avg
      BY <1>1, <2>4, <3>1 DEF Worth
    <3> QED BY <3>2 DEF e
  <2> HIDE DEF avg, new, gain
  <2> QED BY <1>1, <2>3, <2>4, <2>5 DEF Worth
<1> QED BY <1>2, <1>3

\* Every step keeps the books while the averages it forms are whole.
LEMMA StepBalances ==
    ASSUME IInv, IInv', WholeAverages, BooksBalance, [Next]_vars
    PROVE  BooksBalance'
<1> DEFINE f == [s \in Symbol |-> pos[s].realized - pos[s].qty * pos[s].avg]
           g == [s \in Symbol |-> pos'[s].realized - pos'[s].qty * pos'[s].avg]
<1>1. /\ pos \in [Symbol -> Position] /\ pos' \in [Symbol -> Position]
      /\ cash \in Int /\ paid \in Nat /\ Cash \in Nat
  BY NumberAssumption DEF IInv, TypeOK
<1>2. \A s \in Symbol : f[s] \in Int /\ g[s] \in Int
  <2> TAKE s \in Symbol
  <2>1. pos[s] \in Position /\ pos'[s] \in Position
    BY <1>1
  <2> QED BY <2>1, ProductIsInt DEF Position
<1>3. SumFunctionOnSet(f, Symbol) \in Int /\ SumFunctionOnSet(g, Symbol) \in Int
  <2> HIDE DEF f, g
  <2> QED BY <1>2, NameAssumption, SumType
<1>4. cash = Cash - paid + SumFunctionOnSet(f, Symbol)
  BY DEF BooksBalance, SumFunction
<1>5. SUFFICES cash' = Cash - paid' + SumFunctionOnSet(g, Symbol)
  BY DEF BooksBalance, SumFunction
<1>6. CASE \E o \in Order : Fill(o)
  <2>1. PICK o \in Order : Fill(o)
    BY <1>6
  <2> DEFINE s == SymbolOf[o]
             q == order[o].qty
             price == ExecPrice(q, quote[s])
             fee == Magnitude(q) * Commission
  <2>2. /\ o \in due /\ cash' = cash - (q * price + fee) /\ paid' = paid + fee
        /\ pos' = [pos EXCEPT ![s] = Executed(pos[s], q, price)]
    BY <2>1 DEF Fill
  <2>3. /\ s \in Symbol /\ q \in Int /\ q # 0 /\ pos[s] \in Position
    BY <1>1, <2>2, SymbolAssumption DEF IInv, TypeOK, DueSound, Sized, OrderRecord
  <2>4. price \in Nat
    BY <2>3, QuoteAssumption DEF IInv, TypeOK, NoQuote, ExecPrice
  <2>5. fee \in Nat /\ q * price \in Int
    BY <2>3, <2>4, MagnitudeIsNat, ProductIsNat, ProductIsInt, NumberAssumption
  <2>6. Worth(Executed(pos[s], q, price)) = Worth(pos[s]) - q * price
    BY <2>2, <2>3, <2>4, ExecutedWorth DEF WholeAverages
  <2> HIDE DEF q, price, fee, s
  <2>7. g[s] = f[s] - q * price /\ \A t \in Symbol \ {s} : f[t] = g[t]
    BY <1>1, <2>2, <2>3, <2>6 DEF Worth
  <2>8. SumFunctionOnSet(g, Symbol) = SumFunctionOnSet(f, Symbol) - f[s] + g[s]
    <3> HIDE DEF f, g
    <3> QED BY <1>2, <2>3, <2>7, NameAssumption, SumChange
  <2>9. f[s] \in Int
    BY <1>2, <2>3
  <2> HIDE DEF f, g
  <2> QED BY <1>1, <1>3, <1>4, <2>2, <2>5, <2>7, <2>8, <2>9
<1>7. CASE ~\E o \in Order : Fill(o)
  <2>1. pos' = pos /\ cash' = cash /\ paid' = paid
    BY <1>7 DEF Next, vars, Tick, Age, PlaceOrder, LossLimit, CancelOpen, Stop, Kill
  <2>2. g = f
    BY <2>1
  <2> QED BY <1>4, <2>1, <2>2
<1> QED BY <1>6, <1>7

\* The books balance through any sequence of averaging in, reducing and
\* crossing through flat, in any number of symbols, as long as the averages are
\* whole (oms.py:108-141).
THEOREM BooksAlwaysBalance == Spec /\ []WholeAverages => []BooksBalance
<1>1. Init => BooksBalance
  <2> SUFFICES ASSUME Init
               PROVE  BooksBalance
    OBVIOUS
  <2> DEFINE f == [s \in Symbol |-> pos[s].realized - pos[s].qty * pos[s].avg]
  <2>1. \A s \in Symbol : f[s] = 0
    BY DEF Init
  <2>2. SumFunctionOnSet(f, Symbol) = 0
    <3> HIDE DEF f
    <3> QED BY <2>1, NameAssumption, SumZero
  <2>3. cash = Cash /\ paid = 0 /\ Cash \in Nat
    BY NumberAssumption DEF Init
  <2>4. SumFunction(f) = 0
    BY <2>2 DEF SumFunction
  <2> QED BY <2>3, <2>4 DEF BooksBalance
<1> QED BY <1>1, Invariance, StepBalances, PTL DEF Spec
=============================================================================

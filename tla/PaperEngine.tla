------------------------------ MODULE PaperEngine ------------------------------
(***************************************************************************)
(* A paper session that fills its orders itself: PaperEngine of            *)
(* backend/trading/engine.py with the internal executor of broker.py, the  *)
(* accounts of oms.py, the risk gate of risk.py, and stop and kill of      *)
(* manager.py.                                                             *)
(*                                                                         *)
(* All of it runs on the event loop without an await, so a tick with the   *)
(* fills it causes, and a kill with its flattening, let nothing in         *)
(* between: `due` holds what is still to be filled, and everything else    *)
(* waits until it is empty.  A strategy's hooks run when it is, and may    *)
(* place or cancel what they like.                                         *)
(*                                                                         *)
(* Prices are whole numbers chosen so that every average cost is one; a    *)
(* print carries the last price and what a buy pays and a sell gets, be it *)
(* the quote or the last price with slippage.  Whether a hook runs on a     *)
(* print or on a bar makes no difference here; BarFeed has the bars.        *)
(***************************************************************************)
EXTENDS Integers, FiniteSets, Functions

CONSTANTS
    Request,      \* names for the orders the strategy may place
    Symbol,       \* the session's symbols, also the names of flattening orders
    SymbolOf,     \* the symbol each order is for
    Quantity,     \* signed quantities the strategy may ask for
    Limit,        \* limits it may set, NoLimit for a market order
    Quote,        \* what prints may say: last price, price of a buy, of a sell
    Cash,         \* starting cash
    Commission,   \* commission_per_share
    MaxOrder, MaxPosition, MaxGross, MaxLoss, MaxOpen,    \* the gate's limits
    MaxPrints     \* bound: prints of a symbol

NoLimit == 0
NoQuote == [last |-> 0, buy |-> 0, sell |-> 0]
Order   == Request \cup Symbol    \* a kill places one flattening order a symbol

ASSUME NameAssumption == Request \cap Symbol = {} /\ IsFiniteSet(Request) /\ IsFiniteSet(Symbol)
ASSUME SymbolAssumption == /\ SymbolOf \in [Order -> Symbol]
                           /\ \A s \in Symbol : SymbolOf[s] = s
ASSUME QuoteAssumption == /\ Quote \subseteq [last : Nat, buy : Nat, sell : Nat] \ {NoQuote}
                          /\ Limit \subseteq Nat /\ Quantity \subseteq Int \ {0}
ASSUME NumberAssumption ==
    {Cash, Commission, MaxOrder, MaxPosition, MaxGross, MaxLoss, MaxOpen, MaxPrints} \subseteq Nat

VARIABLES
    order,     \* oms.orders, with the number of prints when placed and filled
    pos,       \* oms.positions
    cash,      \* oms.cash
    paid,      \* oms.commissions_paid
    quote,     \* engine.last_tick
    stale,     \* the symbols whose last tick is older than stale_seconds
    prints,    \* how many ticks of each symbol were processed
    due,       \* orders the running match still has to fill
    killed,    \* risk.killed
    state,     \* LiveSession.state
    flat       \* history: a kill has asked to flatten

vars == <<order, pos, cash, paid, quote, stale, prints, due, killed, state, flat>>

OrderState == {"none", "ACKNOWLEDGED", "FILLED", "CANCELLED"}
OrderRecord == [state : OrderState, qty : Int, limit : Nat, placed : Nat, filled : Nat]
NoOrder == [state |-> "none", qty |-> 0, limit |-> NoLimit, placed |-> 0, filled |-> 0]
Position == [qty : Int, avg : Int, realized : Int]

----------------------------------------------------------------------------
Init ==
    /\ order = [o \in Order |-> NoOrder]
    /\ pos = [s \in Symbol |-> [qty |-> 0, avg |-> 0, realized |-> 0]]
    /\ cash = Cash
    /\ paid = 0
    /\ quote = [s \in Symbol |-> NoQuote]
    /\ stale = {}
    /\ prints = [s \in Symbol |-> 0]
    /\ due = {}
    /\ killed = FALSE
    /\ state = "running"
    /\ flat = FALSE

Magnitude(n) == IF n < 0 THEN -n ELSE n

OpenOrders == {o \in Order : order[o].state = "ACKNOWLEDGED"}

\* oms.gross_notional() and oms.equity() at the last prices.
Gross  == SumFunction([s \in Symbol |-> Magnitude(pos[s].qty) * quote[s].last])
Equity == cash + SumFunction([s \in Symbol |-> pos[s].qty * quote[s].last])

----------------------------------------------------------------------------
(* Fills.                                                                  *)

\* _exec_price() against a limit: what the order pays, and whether it may.
ExecPrice(q, at) == IF q > 0 THEN at.buy ELSE at.sell
Marketable(o, at) ==
    \/ o.limit = NoLimit
    \/ o.qty > 0 /\ ExecPrice(o.qty, at) <= o.limit
    \/ o.qty < 0 /\ ExecPrice(o.qty, at) >= o.limit

\* Slip: only the oldest open order is filled.
MatchedOne(orders, s, at) ==
    LET open == {o \in Order : /\ SymbolOf[o] = s /\ orders[o].state = "ACKNOWLEDGED"
                               /\ Marketable(orders[o], at)}
    IN {o \in open : o = CHOOSE p \in open : TRUE}

\* match(): the open orders of the symbol that this print fills.
Matched(orders, s, at) ==
    {o \in Order : /\ SymbolOf[o] = s /\ orders[o].state = "ACKNOWLEDGED"
                   /\ Marketable(orders[o], at)}

\* Slip: an order that turns the position keeps the old average.
ExecutedKeepingAverage(p, q, price) ==
    LET new    == p.qty + q
        closed == IF Magnitude(q) < Magnitude(p.qty) THEN Magnitude(q) ELSE Magnitude(p.qty)
    IN IF p.qty * q >= 0
       THEN [p EXCEPT !.qty = new,
                      !.avg = (Magnitude(p.qty) * @ + Magnitude(q) * price) \div Magnitude(new)]
       ELSE [qty |-> new, avg |-> IF new = 0 THEN 0 ELSE p.avg,
             realized |-> p.realized + closed * (price - p.avg) * (IF p.qty > 0 THEN 1 ELSE -1)]

\* _fill(): average in, or realise what is closed; what crosses through flat
\* opens at the price.
Executed(p, q, price) ==
    LET new    == p.qty + q
        closed == IF Magnitude(q) < Magnitude(p.qty) THEN Magnitude(q) ELSE Magnitude(p.qty)
    IN IF p.qty * q >= 0
       THEN [p EXCEPT !.qty = new,
                      !.avg = (Magnitude(p.qty) * @ + Magnitude(q) * price) \div Magnitude(new)]
       ELSE [qty |-> new,
             avg |-> IF p.qty * new < 0 THEN price ELSE IF new = 0 THEN 0 ELSE p.avg,
             realized |-> p.realized + closed * (price - p.avg) * (IF p.qty > 0 THEN 1 ELSE -1)]

\* The orders of a match fill one by one, here in any order, at the symbol's
\* last print.
Fill(o) ==
    LET s     == SymbolOf[o]
        q     == order[o].qty
        price == ExecPrice(q, quote[s])
        fee   == Magnitude(q) * Commission
    IN /\ o \in due
       /\ due' = due \ {o}
       /\ order' = [order EXCEPT ![o].state = "FILLED", ![o].filled = prints[s]]
       /\ pos' = [pos EXCEPT ![s] = Executed(pos[s], q, price)]
       /\ cash' = cash - (q * price + fee)
       /\ paid' = paid + fee
       /\ UNCHANGED <<quote, stale, prints, killed, state, flat>>

\* process_tick(): resting orders fill before the strategy sees the tick.
Tick(s, at) ==
    /\ state = "running" /\ due = {}
    /\ prints[s] < MaxPrints
    /\ prints' = [prints EXCEPT ![s] = @ + 1]
    /\ quote' = [quote EXCEPT ![s] = at]
    /\ stale' = stale \ {s}
    /\ due' = Matched(order, s, at)
    /\ UNCHANGED <<order, pos, cash, paid, killed, state, flat>>

Age(s) ==
    /\ prints[s] > 0
    /\ stale' = stale \cup {s}
    /\ UNCHANGED <<order, pos, cash, paid, quote, prints, due, killed, state, flat>>

----------------------------------------------------------------------------
(* Orders of the strategy.                                                 *)

\* The checks of the gate before the loss check, at the last price.
Passes(s, q) ==
    /\ ~killed
    /\ quote[s].last > 0
    /\ s \notin stale
    /\ Cardinality(OpenOrders) < MaxOpen
    /\ Magnitude(q) * quote[s].last <= MaxOrder
    /\ Magnitude(pos[s].qty + q) * quote[s].last <= MaxPosition
    /\ Gross + Magnitude(q) * quote[s].last <= MaxGross

LossExceeded == Equity < Cash - MaxLoss

\* Slip: nobody acknowledges the order.
PlacedUnacknowledged(o, q, limit) ==
    [state |-> "SUBMITTED", qty |-> q, limit |-> limit,
     placed |-> prints[SymbolOf[o]], filled |-> 0]

\* The internal executor acknowledges an order at once.
Placed(o, q, limit) ==
    [state |-> "ACKNOWLEDGED", qty |-> q, limit |-> limit,
     placed |-> prints[SymbolOf[o]], filled |-> 0]

HookRuns == state = "running" /\ due = {}

PlaceOrder(o, q, limit) ==
    /\ HookRuns
    /\ order[o].state = "none"
    /\ Passes(SymbolOf[o], q) /\ ~LossExceeded
    /\ order' = [order EXCEPT ![o] = Placed(o, q, limit)]
    /\ UNCHANGED <<pos, cash, paid, quote, stale, prints, due, killed, state, flat>>

\* An order that finds the loss limit crossed is refused and engages the
\* switch; what rests goes on resting.
LossLimit(s, q) ==
    /\ HookRuns
    /\ Passes(s, q) /\ LossExceeded
    /\ killed' = TRUE
    /\ UNCHANGED <<order, pos, cash, paid, quote, stale, prints, due, state, flat>>

\* Slip: nothing is cancelled.
CancelledNone(symbols) == order

\* Slip: what is filled already is cancelled too.
CancelledWhatever(symbols) ==
    [o \in Order |-> IF order[o].state # "none" /\ SymbolOf[o] \in symbols
                     THEN [order[o] EXCEPT !.state = "CANCELLED"] ELSE order[o]]

\* cancel_open(), of a symbol or of all.
Cancelled(symbols) ==
    [o \in Order |-> IF o \in OpenOrders /\ SymbolOf[o] \in symbols
                     THEN [order[o] EXCEPT !.state = "CANCELLED"] ELSE order[o]]

CancelOpen(symbols) ==
    /\ HookRuns
    /\ order' = Cancelled(symbols)
    /\ UNCHANGED <<pos, cash, paid, quote, stale, prints, due, killed, state, flat>>

----------------------------------------------------------------------------
(* The end of a session.                                                   *)

\* A hook raises, or the user stops the session.  What on_stop places rests
\* for good.
Stop ==
    /\ due = {}
    /\ state' = "stopped"
    /\ UNCHANGED <<order, pos, cash, paid, quote, stale, prints, due, killed, flat>>

\* kill(): cancel, then a flattening order per position, which the gate lets
\* pass and the last print fills at once.  A session that has ended can be
\* killed as well.
Kill(flatten) ==
    LET held      == {s \in Symbol : pos[s].qty # 0}
        cancelled == Cancelled(Symbol)
        placed    == [o \in Order |-> IF flatten /\ o \in held
                                      THEN Placed(o, -pos[o].qty, NoLimit) ELSE cancelled[o]]
    IN /\ due = {}
       /\ killed' = TRUE
       /\ state' = "killed"
       /\ flat' = (flat \/ flatten)
       /\ order' = placed
       /\ due' = IF flatten THEN UNION {Matched(placed, s, quote[s]) : s \in held} ELSE {}
       /\ UNCHANGED <<pos, cash, paid, quote, stale, prints>>

Next ==
    \/ \E o \in Order : Fill(o)
    \/ \E s \in Symbol, at \in Quote : Tick(s, at)
    \/ \E s \in Symbol : Age(s)
    \/ \E o \in Request, q \in Quantity, limit \in Limit : PlaceOrder(o, q, limit)
    \/ \E s \in Symbol, q \in Quantity : LossLimit(s, q)
    \/ \E symbols \in {Symbol} \cup {{s} : s \in Symbol} : CancelOpen(symbols)
    \/ Stop
    \/ \E flatten \in BOOLEAN : Kill(flatten)

Spec == Init /\ [][Next]_vars

----------------------------------------------------------------------------
(* Properties.                                                             *)

\* The variables have the types the code gives them.
TypeOK ==
    /\ order \in [Order -> OrderRecord]
    /\ pos \in [Symbol -> Position]
    /\ cash \in Int /\ paid \in Nat
    /\ quote \in [Symbol -> Quote \cup {NoQuote}]
    /\ stale \subseteq Symbol
    /\ prints \in [Symbol -> 0..MaxPrints]
    /\ due \subseteq Order
    /\ killed \in BOOLEAN
    /\ state \in {"running", "stopped", "killed"}
    /\ flat \in BOOLEAN

\* The books balance: what left the cash is what the positions cost, less what
\* was realised, plus the commissions, through any sequence of averaging in,
\* reducing and crossing through flat (oms.py:108-141).
BooksBalance ==
    cash = Cash - paid + SumFunction([s \in Symbol |-> pos[s].realized - pos[s].qty * pos[s].avg])

\* "An order placed inside a hook ... fills against the next event's price"
\* (engine.py:10-13): never at the print that was there when it was placed,
\* and a market order at the very next one of its symbol.
NextPrintFills ==
    \A o \in Request :
       /\ order[o].state = "FILLED" =>
             /\ order[o].filled > order[o].placed
             /\ order[o].limit = NoLimit => order[o].filled = order[o].placed + 1
       /\ order[o].state = "ACKNOWLEDGED" /\ order[o].limit = NoLimit /\ o \notin due =>
             prints[SymbolOf[o]] = order[o].placed

\* A kill that flattens leaves every position at zero, whatever rested when it
\* was pressed and however often it is pressed, and it stays there.
FlattenedIsFlat == flat /\ due = {} => \A s \in Symbol : pos[s].qty = 0

\* The order machine of oms.py.
Lifecycle == INSTANCE OrderBook WITH
    state <- [o \in Order |-> order[o].state],
    qty   <- [o \in Order |-> order[o].qty],
    pos   <- [s \in Symbol |-> pos[s].qty]
LifecycleSpec == Lifecycle!Spec

=============================================================================

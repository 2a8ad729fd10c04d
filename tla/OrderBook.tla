------------------------------ MODULE OrderBook ------------------------------
(***************************************************************************)
(* What backend/trading/oms.py promises of its order machine, whichever    *)
(* executor fills the orders: an order walks the states of a real broker   *)
(* once, terminal states are terminal, and the position moves only when an *)
(* acknowledged order becomes filled, by that order's quantity.            *)
(***************************************************************************)
EXTENDS Integers, Functions

CONSTANTS
    Order,     \* names for the orders a session may create
    Symbol,    \* what it trades
    SymbolOf   \* the symbol of each order

VARIABLES
    state,    \* the state of each order, "none" until it is created
    qty,      \* its signed quantity
    pos       \* the position in each symbol, in shares

vars == <<state, qty, pos>>

State == {"none", "SUBMITTED", "ACKNOWLEDGED", "FILLED", "CANCELLED", "REJECTED"}

\* One step in an order's life.  The refusal of the risk gate ("none" to
\* "REJECTED") creates no order that could trade; an executor inside the
\* process acknowledges at once.
Moves == {<<"none", "SUBMITTED">>, <<"none", "ACKNOWLEDGED">>,
          <<"SUBMITTED", "ACKNOWLEDGED">>, <<"SUBMITTED", "CANCELLED">>,
          <<"SUBMITTED", "REJECTED">>, <<"ACKNOWLEDGED", "FILLED">>,
          <<"ACKNOWLEDGED", "CANCELLED">>, <<"ACKNOWLEDGED", "REJECTED">>}

Init ==
    /\ state = [o \in Order |-> "none"]
    /\ qty = [o \in Order |-> 0]
    /\ pos = [s \in Symbol |-> 0]

\* Some orders move, each along its life; quantities are fixed at creation.
Next ==
    /\ state' \in [Order -> State]
    /\ \A o \in Order : state'[o] # state[o] => <<state[o], state'[o]>> \in Moves
    /\ qty' \in [Order -> Int]
    /\ \A o \in Order : qty'[o] # qty[o] => state[o] = "none" /\ state'[o] # "none"
    /\ LET filled == {o \in Order : state[o] # "FILLED" /\ state'[o] = "FILLED"}
       IN pos' = [s \in Symbol |->
                    pos[s] + SumFunctionOnSet(qty', {o \in filled : SymbolOf[o] = s})]

Spec == Init /\ [][Next]_vars
=============================================================================

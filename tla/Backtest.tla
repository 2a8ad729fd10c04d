------------------------------ MODULE Backtest ------------------------------
(* A study's weights as they are traded: the schedule that holds them        *)
(* between rebalances (_rebalance_schedule and _rebalance of                 *)
(* backtest/stat_arb.py) and the engine that goes through the bars with      *)
(* explicit fills and costs (EventDrivenEngine.run, backtest/engine.py).     *)
(* Days are business days; money and shares are rounded down, the same       *)
(* number on both sides of the books.                                        *)
EXTENDS Integers, Sequences, FiniteSetsExt

CONSTANTS
  Symbol,
  Targets,     \* what a strategy may ask for: a weight per symbol
  Quotes,      \* open and close per symbol; a bar with no usable open has 0
  Gaps,        \* business days from one bar to the next
  Every,       \* days of a block
  Latency, Capital,
  Slippage, Commission,   \* a slippage or commission of 1 / n
  Dust,        \* trades under 1 / Dust of the portfolio are left out
  MaxBars      \* bound

VARIABLES
  bars,        \* the bars so far: day, what is asked for, quotes
  positions, cash, costs,
  earned       \* history: what prices brought to the shares that were held

vars == <<bars, positions, cash, costs, earned>>

Init == /\ bars = <<>> /\ positions = [s \in Symbol |-> 0] /\ cash = Capital
        /\ costs = 0 /\ earned = 0

Size(n) == IF n < 0 THEN -n ELSE n

----------------------------------------------------------------------------
(* The schedule. *)

\* Blocks of days since the epoch.
Block(day) == day \div Every
\* Slip: every so many bars of the window.
ScheduledByPosition(window, k) == (k - 1) % Every = 0
\* "rebalancing on the first bar of each block".
Scheduled(window, k) == k = 1 \/ Block(window[k].day) # Block(window[k - 1].day)
\* The most recent scheduled target.
Held(window, k) == window[Max({j \in 1 .. k : Scheduled(window, j)})].asked

----------------------------------------------------------------------------
(* The engine. *)

Worth(quotes) == cash + SumFunction([s \in Symbol |-> positions[s] * quotes[s].close])

\* Slip: whatever the side, the price slips up.
FillUp(price, delta) == price + price \div Slippage
\* Slippage is against the trade.
Fill(price, delta) == IF delta > 0 THEN price + price \div Slippage
                                   ELSE price - price \div Slippage

Fee(price, delta) == (Size(delta) * Fill(price, delta)) \div Commission

\* One bar: what it asks for is traded a bar of the latency later, except a
\* symbol that has no price to trade at.
Bar(gap, asked, quotes) ==
  LET last == IF bars = <<>> THEN [day |-> 0, asked |-> asked, quotes |-> quotes] ELSE bars[Len(bars)]
      now == Append(bars, [day |-> last.day + gap, asked |-> asked, quotes |-> quotes])
      due == Len(now) - Latency
      nav == Worth(quotes)
      wanted(s) == (Held(now, due)[s] * nav) \div quotes[s].open
      moves(s) == /\ due > 0 /\ nav > 0 /\ quotes[s].open > 0
                  /\ Dust * Size((wanted(s) - positions[s]) * quotes[s].open) >= nav
      delta == [s \in Symbol |-> IF moves(s) THEN wanted(s) - positions[s] ELSE 0]
      fill(s) == Fill(quotes[s].open, delta[s])
      fee(s) == Fee(quotes[s].open, delta[s])
  IN /\ Len(bars) < MaxBars
     /\ bars' = now
     /\ positions' = [s \in Symbol |-> positions[s] + delta[s]]
     /\ cash' = cash - SumFunction([s \in Symbol |-> delta[s] * fill(s) + fee(s)])
     /\ costs' = costs + SumFunction([s \in Symbol |->
                   fee(s) + Size(delta[s]) * Size(fill(s) - quotes[s].open)])
     /\ earned' = earned + SumFunction([s \in Symbol |->
                   positions[s] * (quotes[s].close - last.quotes[s].close)
                     + delta[s] * (quotes[s].close - quotes[s].open)])

Next == \E gap \in Gaps, asked \in Targets, quotes \in Quotes : Bar(gap, asked, quotes)
Spec == Init /\ [][Next]_vars

----------------------------------------------------------------------------
(* Properties. *)

\* One entry per bar, on days that go forward.
TypeOK == /\ Len(bars) <= MaxBars /\ costs >= 0
          /\ \A i, j \in 1 .. Len(bars) : i < j => bars[i].day < bars[j].day

\* The curve is the capital, what prices brought to the shares held and what
\* costs took: nothing is paid twice or for free, on either side, through
\* trades that turn a position round and bars on which a lost portfolio stops.
CostsExplain ==
  bars # <<>> => Worth(bars[Len(bars)].quotes) = Capital + earned - costs

\* "A positional schedule would give the same calendar date a different target
\* depending on where the requested window happens to start": from the first
\* block that begins in it, a window has the targets of every longer one.
Anchored ==
  \A start \in 1 .. Len(bars) :
    LET window == SubSeq(bars, start, Len(bars))
    IN \A k \in 2 .. Len(window) :
         (\E j \in 2 .. k : Block(window[j].day) # Block(window[j - 1].day))
           => Held(window, k) = Held(bars, start + k - 1)
=============================================================================

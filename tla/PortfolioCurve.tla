--------------------------- MODULE PortfolioCurve ---------------------------
(* The equity curve of a portfolio (portfolio/analytics.py): shares and cash *)
(* per session, from the same log that accounting.py replays, and the gain   *)
(* of each session without the money paid in.                                *)
EXTENDS BlotterLog

CONSTANTS
  Calendars,   \* sets of days that are sessions
  Close,       \* the close of a symbol on a day
  Missing,     \* of a symbol that has no price yet
  CurveRows    \* bound: longer logs are not looked at here

\* A transaction lands on the first session on or after its date; one later
\* than the last session is not in the curve.
Lands(t, index) == Min({d \in index : d >= t.date})
In(t, index) == \E d \in index : d >= t.date
LandedBy(index, day) == {i \in DOMAIN log : In(log[i], index) /\ Lands(log[i], index) <= day}
Landed(index, day) == {i \in LandedBy(index, day) : Lands(log[i], index) = day}

\* share_frame.
Signed(t) == IF t.side = "buy" THEN t.quantity ELSE -t.quantity
TradesOf(rows, symbol) == {i \in rows : log[i].side \in TradeSides /\ log[i].symbol = symbol}
Shares(index, symbol, day) ==
  MapThenSumSet(LAMBDA i : Signed(log[i]), TradesOf(LandedBy(index, day), symbol))

\* cash_frame.
Cash(index, day) == MapThenSumSet(LAMBDA i : CashFlow(log[i]), LandedBy(index, day))
\* Slip: a dividend counts as money paid in.
ExternalIncome(t) == t.side \in {"deposit", "withdraw", "dividend"}
\* Transaction.is_external.
External(t) == t.side \in {"deposit", "withdraw"}
ExternalFlow(index, day) ==
  MapThenSumSet(LAMBDA i : IF External(log[i]) THEN CashFlow(log[i]) ELSE 0, Landed(index, day))

\* The panel, filled forward, then backward; a symbol without prices is worth none.
Price(index, symbol, day) ==
  LET priced == {d \in index : Close[symbol][d] # Missing}
      before == {d \in priced : d <= day}
  IN IF priced = {} THEN 0
     ELSE Unit * Close[symbol][IF before = {} THEN Min(priced) ELSE Max(before)]

\* value_series.
Symbols == {log[i].symbol : i \in {j \in DOMAIN log : log[j].side \in TradeSides}}
Worth(index, day) ==
  Cash(index, day)
  + MapThenSumSet(LAMBDA s : Shares(index, s, day) * Price(index, s, day), Symbols)
Gain(index, before, day) == Worth(index, day) - Worth(index, before) - ExternalFlow(index, day)

----------------------------------------------------------------------------
(* Properties. *)

\* The curve ends where the ledger stands: two readings of one log agree on
\* the cash and on every share, if no row is later than the last session.
CurveMeetsLedger(index) ==
  LET ledger == Replay(log, "fifo")
      quantity(s) == IF s \in DOMAIN ledger.holdings THEN Quantity(ledger.holdings[s].lots) ELSE 0
  IN (\A i \in DOMAIN log : In(log[i], index)) =>
       /\ Cash(index, Max(index)) = ledger.cash
       /\ \A s \in Symbols : Shares(index, s, Max(index)) = quantity(s)

\* What a row that lands on a session adds to its gain: of a trade, what the
\* session's price makes of it; nothing of money paid in or out.
Earned(t, index, day) ==
  CASE t.side \in TradeSides -> Signed(t) * (Price(index, t.symbol, day) - t.price * Unit) - t.fees * Unit
    [] t.side \in {"dividend", "interest"} -> (t.quantity * t.price - t.fees) * Unit
    [] t.side = "fee" -> -(t.quantity * t.price + t.fees) * Unit
    [] OTHER -> 0

\* "Paying money in shows up as a bigger portfolio, never as a better return":
\* a session's gain is what the shares held before it gained, and what the
\* rows that landed on it earned.
GainEarned(index) ==
  \A day \in index \ {Min(index)} :
    LET before == Max({d \in index : d < day}) IN
    Gain(index, before, day) =
      MapThenSumSet(LAMBDA s : Shares(index, s, before)
                                 * (Price(index, s, day) - Price(index, s, before)), Symbols)
      + MapThenSumSet(LAMBDA i : Earned(log[i], index, day), Landed(index, day))

CurveHolds ==
  Len(log) <= CurveRows => \A index \in Calendars : CurveMeetsLedger(index) /\ GainEarned(index)
=============================================================================

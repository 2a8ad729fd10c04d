-------------------------- MODULE PortfolioReplay --------------------------
(* Cost-basis accounting (portfolio/accounting.py): the transaction log,     *)
(* replayed in order of trade date, gives every holding, its open lots, what *)
(* was realised and the cash.  Amounts are integers: one unit of a price is  *)
(* Unit ticks, chosen so that the shares a run trades divide it and the      *)
(* averages and the fees per share are exact, as EPSILON makes them in the   *)
(* code's floats.                                                            *)
EXTENDS Integers, Sequences, FiniteSetsExt

CONSTANT Unit   \* ticks of one unit of price

TradeSides == {"buy", "sell"}

\* Transaction.cash_flow.
CashFlow(txn) ==
  LET gross == txn.quantity * txn.price * Unit IN
  IF txn.side \in {"buy", "withdraw", "fee"} THEN -(gross + txn.fees * Unit)
                                             ELSE gross - txn.fees * Unit

\* A table with one row set.
With(table, key, row) == [k \in DOMAIN table \cup {key} |-> IF k = key THEN row ELSE table[k]]

\* Slip: the commission makes what is sold dearer, as it does what is bought.
EffectivePriceUp(txn) == txn.price * Unit + (txn.fees * Unit) \div txn.quantity

\* _effective_price: a commission is folded into the price per share.
EffectivePrice(txn) ==
  LET each == (txn.fees * Unit) \div txn.quantity IN
  IF txn.side = "buy" THEN txn.price * Unit + each ELSE txn.price * Unit - each

Abs(n) == IF n < 0 THEN -n ELSE n
Least(m, n) == IF m < n THEN m ELSE n
Quantity(lots) == SumFunction([i \in DOMAIN lots |-> lots[i].quantity])
CostBasis(lots) == SumFunction([i \in DOMAIN lots |-> lots[i].quantity * lots[i].price])

\* _close_lots, one lot of the loop: the oldest lots are closed while there
\* is something left to close and they stand on the other side.
CloseLot(acc, lot, price) ==
  LET opposite == (lot.quantity > 0) # (acc.left > 0)
      matched == Least(Abs(acc.left), Abs(lot.quantity))
      direction == IF lot.quantity > 0 THEN 1 ELSE -1
      rest == [lot EXCEPT !.quantity = @ - direction * matched]
  IN  IF acc.left = 0 \/ acc.kept # <<>> \/ ~opposite
        THEN [acc EXCEPT !.kept = Append(@, lot)]
        ELSE [left |-> acc.left + direction * matched,
              realized |-> acc.realized + matched * (price - lot.price) * direction,
              kept |-> IF rest.quantity = 0 THEN <<>> ELSE <<rest>>]

CloseLots(lots, signed, price) ==
  MapThenFoldSet(LAMBDA lot, acc : CloseLot(acc, lot, price),
                 [left |-> signed, realized |-> 0, kept |-> <<>>],
                 LAMBDA i : lots[i], Max, DOMAIN lots)

\* _collapse_to_average: one lot at the weighted price, opened with the oldest.
\* A flat holding has none, under either method.
Settled(lots, shares, method) ==
  IF shares = 0 THEN <<>>
  ELSE IF method = "fifo" \/ Len(lots) < 2 THEN lots
  ELSE <<[quantity |-> shares, price |-> CostBasis(lots) \div shares,
          opened |-> Head(lots).opened]>>

NoHolding == [lots |-> <<>>, realized |-> 0, fees |-> 0, dividends |-> 0]
NewLedger == [holdings |-> <<>>, cash |-> 0, deposits |-> 0, withdrawals |-> 0,
              fees |-> 0, dividends |-> 0, realized |-> 0]

\* The trade branch of apply_transaction, on one holding: what closes is
\* realised, the leftover opens a lot.
Opened(closed, price, date) ==
  IF closed.left = 0 THEN closed.kept
  ELSE Append(closed.kept, [quantity |-> closed.left, price |-> price, opened |-> date])
Booked(holding, closed, lots, method) ==
  [holding EXCEPT !.lots = Settled(lots, Quantity(lots), method),
                  !.realized = @ + closed.realized]
Closed(holding, txn, method, closed, price) ==
  Booked(holding, closed, Opened(closed, price, txn.date), method)
Traded(holding, txn, method, price) ==
  Closed(holding, txn, method,
         CloseLots(holding.lots,
                   IF txn.side = "buy" THEN txn.quantity ELSE -txn.quantity, price),
         price)

Gross(txn) == txn.quantity * txn.price * Unit

\* apply_transaction.  A fee has no symbol of its own: its holding is that of
\* the empty symbol.
Apply(ledger, txn, method) ==
  LET paid == [ledger EXCEPT !.cash = @ + CashFlow(txn), !.fees = @ + txn.fees * Unit]
      known == IF txn.symbol \in DOMAIN ledger.holdings
                 THEN ledger.holdings[txn.symbol] ELSE NoHolding
      charged == [known EXCEPT !.fees = @ + txn.fees * Unit]
      Put(l, h) == [l EXCEPT !.holdings = With(@, txn.symbol, h)]
      traded == Traded(charged, txn, method, EffectivePrice(txn))
  IN  CASE txn.side = "deposit" -> [paid EXCEPT !.deposits = @ + Gross(txn)]
        [] txn.side = "withdraw" -> [paid EXCEPT !.withdrawals = @ + Gross(txn)]
        [] txn.side = "interest" -> [paid EXCEPT !.dividends = @ + Gross(txn)]
        [] txn.side = "dividend" ->
             Put([paid EXCEPT !.dividends = @ + Gross(txn)],
                 [charged EXCEPT !.dividends = @ + Gross(txn)])
        [] txn.side = "fee" -> Put(paid, charged)
        [] txn.side \in TradeSides ->
             Put([paid EXCEPT !.realized = @ + traded.realized - known.realized], traded)

\* build_ledger: the rows of a log (a function from ids) in order of trade
\* date, and of id where dates agree.
Earlier(log, i, j) == log[i].date < log[j].date \/ (log[i].date = log[j].date /\ i < j)
Latest(log, rows) == CHOOSE i \in rows : \A j \in rows \ {i} : Earlier(log, j, i)
Replay(log, method) ==
  MapThenFoldSet(LAMBDA i, ledger : Apply(ledger, log[i], method), NewLedger,
                 LAMBDA i : i, LAMBDA rows : Latest(log, rows), DOMAIN log)

\* What rebuild_positions puts in a row: a symbol that has only appeared in
\* rows without shares keeps a row with none.
Row(holding) == [quantity |-> Quantity(holding.lots), lots |-> holding.lots,
                 realized |-> holding.realized, fees |-> holding.fees,
                 dividends |-> holding.dividends]
Rows(ledger) == [s \in DOMAIN ledger.holdings |-> Row(ledger.holdings[s])]

----------------------------------------------------------------------------
(* What the replay of a log must satisfy, used by the module that keeps one. *)

SumOver(log, F(_)) == FoldFunction(LAMBDA n, sum : sum + n, 0, [i \in DOMAIN log |-> F(log[i])])

\* Every tick of cash is accounted for: what came in and went out, what was
\* realised, what is tied up in open lots, and the charges on rows that move
\* no shares (those on trades are in the prices).
Conserved(log, method) ==
  LET l == Replay(log, method)
      tied == FoldFunction(LAMBDA h, sum : sum + CostBasis(h.lots), 0, l.holdings)
      charges == SumOver(log, LAMBDA t :
                   (IF t.side \in TradeSides THEN 0 ELSE t.fees * Unit)
                   + (IF t.side = "fee" THEN Gross(t) ELSE 0))
  IN  l.cash = l.deposits - l.withdrawals + l.dividends + l.realized - tied - charges

\* The open lots of a holding all stand on one side, so that a trade closes
\* lots or opens one and never finds both kinds.
OneSided(ledger) ==
  \A s \in DOMAIN ledger.holdings :
    \A i, j \in DOMAIN ledger.holdings[s].lots :
      ledger.holdings[s].lots[i].quantity * ledger.holdings[s].lots[j].quantity > 0
=============================================================================

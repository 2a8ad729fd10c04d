---------------------------- MODULE BlotterLog ----------------------------
(* The replay of portfolio/accounting.py over every log a client can enter:  *)
(* rows of the menu, in any order of entry.                                  *)
EXTENDS PortfolioReplay

CONSTANTS
  Menu,       \* the rows a client enters
  MaxRows     \* bound on the log

VARIABLE log  \* transactions: a sequence, by id

Init == log = <<>>

\* create_transaction, for what the replay sees of it.
Enter == Len(log) < MaxRows /\ \E t \in Menu : log' = Append(log, t)

Next == Enter
Spec == Init /\ [][Next]_log

----------------------------------------------------------------------------

TypeOK == log \in UNION {[1 .. n -> Menu] : n \in 0 .. MaxRows}

\* Whatever the log says, in whatever order it was entered, and under either
\* method: no tick of cash appears or vanishes, a holding's lots stand on one
\* side, and the method changes neither the shares nor the cash.
MoneyConserved ==
  LET fifo == Replay(log, "fifo")  average == Replay(log, "average") IN
  /\ Conserved(log, "fifo") /\ OneSided(fifo)
  /\ Conserved(log, "average") /\ OneSided(average)
  /\ fifo.cash = average.cash
  /\ \A s \in DOMAIN fifo.holdings :
       Quantity(fifo.holdings[s].lots) = Quantity(average.holdings[s].lots)

\* Rows of different dates make the same ledger in whichever order they are
\* entered.
OrderFree ==
  (\A i, j \in DOMAIN log : log[i].date = log[j].date => i = j) =>
    LET reversed == [i \in DOMAIN log |-> log[Len(log) + 1 - i]]
    IN  \A m \in {"fifo", "average"} : Replay(log, m) = Replay(reversed, m)

BooksHold == MoneyConserved /\ OrderFree
=============================================================================

----------------------------- MODULE MCServices -----------------------------
(* The services and the studies, for TLC: what their constants are.          *)
EXTENDS Services, TLC

CONSTANTS one, two,                        \* two requests, of whatever service
          server, shell, thread1, thread2  \* two processes over one cache file, a caller each

MCProcOf == thread1 :> server @@ thread2 :> shell
MCTtl == [frame |-> 2, body |-> 2]

\* Transactions: a quantity of x or y at a price, or an amount of money.
Txn(side, symbol, quantity, price, fees, date) ==
  [side |-> side, symbol |-> symbol, quantity |-> quantity, price |-> price,
   fees |-> fees, date |-> date]
FewRows == {Txn("deposit", "", 2, 1, 0, 1), Txn("buy", "x", 1, 2, 0, 1),
            Txn("buy", "x", 1, 4, 0, 1)}
AllRows == {Txn("buy", "x", 1, 2, 0, 1), Txn("buy", "x", 2, 4, 1, 2),
            Txn("sell", "x", 2, 3, 1, 3), Txn("sell", "x", 1, 5, 0, 1),
            Txn("buy", "y", 1, 1, 0, 2), Txn("dividend", "x", 1, 3, 1, 2),
            Txn("fee", "", 2, 1, 1, 2), Txn("deposit", "", 5, 1, 1, 1),
            Txn("withdraw", "", 1, 1, 1, 3), Txn("interest", "", 1, 2, 1, 3)}

MCCurveDays == {{1, 2, 3}, {2, 4}, {1, 4}, {2}}
MCClose == "x" :> <<2, 5, 0, 3>> @@ "y" :> <<0, 0, 1, 4>>

Long(x) == "a" :> x @@ "b" :> 0 - x
MCBooks == {Long(0), Long(16), Long(-16)}
MCWeights == -1 .. 2
MCHistories == {<<>>, <<"assistant">>, <<"user">>, <<"assistant", "user", "assistant", "user">>}
\* The defaults, a risk model that caps nothing, and none.
MCAwares == {{"alpha", "stock"}, {"stock"}, {}}
MCCalendars == {{1, 2, 4}, {1, 4}}
MCScores == {-1, 1}

\* Two owners: an order in two tranches, one held in two forms, one that both
\* report, and days as near as a program's, and farther.
Filed(no, owner, form, on, shares, price) ==
  [no |-> no, owner |-> owner, form |-> form, day |-> on, shares |-> shares, price |-> price,
   senior |-> owner % 2]
Filings == {Filed(1, 1, 1, 1, 50, 1), Filed(2, 1, 1, 2, 51, 1), Filed(3, 2, 1, 3, 52, 1),
            Filed(4, 1, 1, 3, 26, 1), Filed(5, 1, 1, 3, 13, 2), Filed(6, 1, 1, 7, 52, 1),
            Filed(7, 1, 2, 2, 10, 1), Filed(8, 2, 1, 2, 51, 1), Filed(9, 2, 1, 1, 50, 1),
            Filed(10, 1, 1, 8, 51, 1), Filed(11, 2, 1, 8, 53, 1), Filed(12, 1, 2, 3, 26, 2)}
MCOf == "BRK-B" :> "BRK.B" @@ "BRK.B" :> "BRK.B" @@ "^GSPC" :> ""

Quoted(x, y) == "x" :> [open |-> x[1], close |-> x[2]] @@ "y" :> [open |-> y[1], close |-> y[2]]
MCTargets == {"x" :> 1 @@ "y" :> -1, "x" :> -1 @@ "y" :> 0}
MCQuotes == {Quoted(<<4, 4>>, <<8, 8>>), Quoted(<<4, 8>>, <<8, 4>>), Quoted(<<0, 4>>, <<4, 8>>)}

\* The last quarter of a year, and a year; a restatement moves its second quarter.
MCQuarterWorth == <<<<1, 2, 4, 8, 16>>, <<1, 2, 36, 8, 16>>>>

Several == {"ab", "cd", "abc"}
SubTotals == "ab" :> {"a", "b"} @@ "cd" :> {"c", "d"} @@ "abc" :> {"a", "b", "c"}
Splits == {{"a", "b", "c", "d", "e"}, {"ab", "cd", "e"}, {"abc", "d"}, {"a", "b", "ab"}, {"b", "c", "d"}}
MCPartWorth == "a" :> 64 @@ "b" :> 16 @@ "c" :> 4 @@ "d" :> 1 @@ "e" :> -1
MCMember == {"a", "b", "c", "d", "e"} \cup Several
MCPartsOf == SubTotals @@ [p \in {"a", "b", "c", "d", "e"} |-> {p}]
MCTables == {t \in SUBSET Splits : Cardinality(t) <= 2}

\* The tape in sight everywhere, a board and a box with its own provider.
Registered(symbols, provider, scope) ==
  [symbols |-> symbols, provider |-> provider, scope |-> scope]
MCBoards == {Registered({"x"}, "default", "global"), Registered({"x", "y"}, "default", "market"),
             Registered({"y"}, "alpaca", "workspace")}
MCLists == {{}, {"x"}, {"x", "y"}}

\* Requests of one kind are alike.
Alike == Permutations({one, two})
=============================================================================

---------------------------- MODULE ServiceProofs ----------------------------
(***************************************************************************)
(* What is proved of Services, for every value of its constants.  First    *)
(* the blotter, by itself as the parts in PeripheryProofs are - requests   *)
(* that load rows, replay the log, and commit what comes out of it - the   *)
(* schedule and the curve of a backtest, and the costs of a study.  Then   *)
(* all parts together: Services implements each of them, so that its       *)
(* properties follow from what is proved of the parts.                     *)
(***************************************************************************)
EXTENDS Services, PeripheryProofs

----------------------------------------------------------------------------
(* The blotter: its cash and positions are those of the log of rows.        *)

\* What a client enters: a side, and a date that can be compared.
Entered ==
    /\ Menu \subseteq [side : {"buy", "sell", "deposit", "withdraw", "interest", "dividend", "fee"},
                       symbol : STRING, quantity : Nat, price : Nat, fees : Nat, date : Int]
    /\ RowId \subseteq Nat /\ 1 \in RowId /\ "fifo" \in Method

\* A log: finitely many rows, by id.
Row(t) == DOMAIN t = {"side", "symbol", "quantity", "price", "fees", "date"}
          /\ t.side \in {"buy", "sell", "deposit", "withdraw", "interest", "dividend", "fee"}
          /\ t.date \in Int
IsLog(l) == IsFiniteSet(DOMAIN l) /\ DOMAIN l \subseteq Nat /\ \A i \in DOMAIN l : Row(l[i])

LEMMA MenuRow == ASSUME Entered, NEW t \in Menu PROVE Row(t)
  BY DEF Entered, Row

\* Some of the rows have a latest.
LEMMA LatestIsIn ==
    ASSUME NEW l, IsLog(l), NEW t \in SUBSET DOMAIN l, t # {}
    PROVE  B!Latest(l, t) \in t
<1> DEFINE S == DOMAIN l
           Has(u) == \E i \in u : \A j \in u \ {i} : B!Earlier(l, j, i)
           G == {u \in SUBSET S : u # {} => Has(u)}
<1>1. \A i \in S : i \in Nat /\ l[i].date \in Int
  BY DEF IsLog, Row
<1>2. \A i, j, k \in S : /\ i # j => B!Earlier(l, i, j) \/ B!Earlier(l, j, i)
                         /\ B!Earlier(l, i, j) /\ B!Earlier(l, j, k) => B!Earlier(l, i, k)
  BY <1>1 DEF B!Earlier
<1>3. ASSUME NEW u \in SUBSET S, \A v \in SUBSET u : v # u => v \in G
      PROVE  u \in G
  <2>1. SUFFICES ASSUME NEW x \in u PROVE Has(u)
    OBVIOUS
  <2>2. u \ {x} \in G
    <3>1. u \ {x} \in SUBSET u /\ u \ {x} # u
      OBVIOUS
    <3> HIDE DEF G
    <3> QED BY <1>3, <3>1
  <2>3. CASE u = {x}
    BY <2>3
  <2>4. CASE u # {x}
    <3>1. PICK i \in u \ {x} : \A j \in (u \ {x}) \ {i} : B!Earlier(l, j, i)
      BY <2>2, <2>4
    <3>2. CASE B!Earlier(l, x, i)
      <4>1. \A j \in u \ {i} : B!Earlier(l, j, i)
        BY <3>1, <3>2
      <4> QED BY <4>1
    <3>3. CASE B!Earlier(l, i, x)
      <4>1. \A j \in u \ {x} : B!Earlier(l, j, x)
        BY <1>2, <3>1, <3>3
      <4> QED BY <4>1
    <3> QED BY <1>2, <3>1, <3>2, <3>3
  <2> QED BY <2>3, <2>4
<1>4. G = SUBSET S
  <2>1. IsFiniteSet(S)
    BY DEF IsLog
  <2>2. G \in SUBSET (SUBSET S)
    OBVIOUS
  <2> HIDE DEF G, S
  <2> QED BY <1>3, <2>1, <2>2, SubsetInduction
<1>5. \E i \in t : \A j \in t \ {i} : B!Earlier(l, j, i)
  BY <1>4
<1> QED BY <1>5 DEF B!Latest

\* g satisfies the recursion of the replay of l on the family D.
Replays(g, l, m, D) ==
    g = [t \in D |-> IF t = {} THEN B!NewLedger
                     ELSE B!Apply(g[t \ {B!Latest(l, t)}], l[B!Latest(l, t)], m)]

\* The recursion has a solution on the sets of rows of a log.
LEMMA ReplayExists ==
    ASSUME NEW l, NEW m, IsLog(l)
    PROVE  \E g : Replays(g, l, m, SUBSET DOMAIN l)
<1> DEFINE S == DOMAIN l
           D(n) == {t \in SUBSET S : Cardinality(t) <= n}
           G == {n \in Nat : \E g : Replays(g, l, m, D(n))}
<1>1. \A t \in SUBSET S : /\ IsFiniteSet(t) /\ Cardinality(t) \in Nat
                          /\ Cardinality(t) <= Cardinality(S)
                          /\ Cardinality(t) = 0 <=> t = {}
  BY FS_Subset, FS_CardinalityType, FS_EmptySet DEF IsLog
<1>2. \A t \in SUBSET S : t # {} => Cardinality(t \ {B!Latest(l, t)}) = Cardinality(t) - 1
  BY <1>1, LatestIsIn, FS_RemoveElement
<1>3. 0 \in G
  <2> DEFINE g == [t \in D(0) |-> B!NewLedger]
  <2>1. \A t \in D(0) : t = {}
    BY <1>1
  <2>2. Replays(g, l, m, D(0))
    BY <2>1 DEF Replays
  <2> QED BY <2>2
<1>4. ASSUME NEW n \in G
      PROVE  n + 1 \in G
  <2>1. PICK g : Replays(g, l, m, D(n))
    OBVIOUS
  <2> DEFINE h == [t \in D(n + 1) |-> IF t = {} THEN B!NewLedger
                     ELSE B!Apply(g[t \ {B!Latest(l, t)}], l[B!Latest(l, t)], m)]
  <2>2. ASSUME NEW t \in D(n)
        PROVE  h[t] = g[t]
    <3>1. t \in D(n + 1)
      BY <1>1
    <3>2. g[t] = IF t = {} THEN B!NewLedger
                 ELSE B!Apply(g[t \ {B!Latest(l, t)}], l[B!Latest(l, t)], m)
      BY <2>1 DEF Replays
    <3> HIDE DEF D
    <3> QED BY <3>1, <3>2
  <2>3. ASSUME NEW t \in D(n + 1), t # {}
        PROVE  t \ {B!Latest(l, t)} \in D(n)
    BY <1>1, <1>2, <2>3
  <2>4. \A t \in D(n + 1) :
           h[t] = IF t = {} THEN B!NewLedger
                  ELSE B!Apply(h[t \ {B!Latest(l, t)}], l[B!Latest(l, t)], m)
    <3> HIDE DEF D
    <3> QED BY <2>2, <2>3
  <2>5. Replays(h, l, m, D(n + 1))
    <3>1. h = [t \in D(n + 1) |-> h[t]]
      OBVIOUS
    <3> HIDE DEF h, D
    <3> QED BY <2>4, <3>1 DEF Replays
  <2>6. \E k : Replays(k, l, m, D(n + 1))
    <3> HIDE DEF h, D
    <3> QED BY <2>5
  <2>7. n + 1 \in Nat
    OBVIOUS
  <2> HIDE DEF D
  <2> QED BY <2>6, <2>7
<1>5. Cardinality(S) \in G
  <2>1. G \in SUBSET Nat
    OBVIOUS
  <2>2. G = Nat
    <3> HIDE DEF G
    <3> QED BY <1>3, <1>4, <2>1, NumberInduction
  <2> HIDE DEF G
  <2> QED BY <1>1, <2>2
<1>6. D(Cardinality(S)) = SUBSET S
  BY <1>1
<1> HIDE DEF D
<1> QED BY <1>5, <1>6

\* The replay of a log is the value of a solution at all its rows.
LEMMA ReplaySolves ==
    ASSUME NEW l, NEW m, IsLog(l)
    PROVE  \E g : Replays(g, l, m, SUBSET DOMAIN l) /\ B!Replay(l, m) = g[DOMAIN l]
<1>1. \E g : g = [t \in SUBSET DOMAIN l |-> IF t = {} THEN B!NewLedger
                     ELSE B!Apply(g[t \ {B!Latest(l, t)}], l[B!Latest(l, t)], m)]
  BY ReplayExists DEF Replays
<1>2. \E g : /\ g = [t \in SUBSET DOMAIN l |-> IF t = {} THEN B!NewLedger
                     ELSE B!Apply(g[t \ {B!Latest(l, t)}], l[B!Latest(l, t)], m)]
             /\ B!Replay(l, m) = g[DOMAIN l]
  BY <1>1 DEF B!Replay, B!MapThenFoldSet
<1> QED BY <1>2 DEF Replays

\* A row moves the cash by its own flow, whatever the method makes of its lots.
Ledger(x) == DOMAIN x = DOMAIN B!NewLedger
LEMMA ApplyPays ==
    ASSUME NEW x, Ledger(x), NEW t, Row(t), NEW m
    PROVE  Ledger(B!Apply(x, t, m)) /\ B!Apply(x, t, m).cash = x.cash + B!CashFlow(t)
<1>1. "cash" \in DOMAIN x /\ "holdings" \in DOMAIN x /\ "fees" \in DOMAIN x /\ "deposits" \in DOMAIN x
      /\ "withdrawals" \in DOMAIN x /\ "dividends" \in DOMAIN x /\ "realized" \in DOMAIN x
  BY DEF Ledger, B!NewLedger
<1> DEFINE paid == [x EXCEPT !.cash = @ + B!CashFlow(t), !.fees = @ + t.fees * Unit]
           known == IF t.symbol \in DOMAIN x.holdings THEN x.holdings[t.symbol] ELSE B!NoHolding
           charged == [known EXCEPT !.fees = @ + t.fees * Unit]
           dealt == B!Traded(charged, t, m, B!EffectivePrice(t))
<1>2. DOMAIN paid = DOMAIN x /\ paid.cash = x.cash + B!CashFlow(t)
  BY <1>1
<1>3. B!Apply(x, t, m) =
        CASE t.side = "deposit" -> [paid EXCEPT !.deposits = @ + B!Gross(t)]
          [] t.side = "withdraw" -> [paid EXCEPT !.withdrawals = @ + B!Gross(t)]
          [] t.side = "interest" -> [paid EXCEPT !.dividends = @ + B!Gross(t)]
          [] t.side = "dividend" ->
               [[paid EXCEPT !.dividends = @ + B!Gross(t)]
                  EXCEPT !.holdings = B!With(@, t.symbol, [charged EXCEPT !.dividends = @ + B!Gross(t)])]
          [] t.side = "fee" -> [paid EXCEPT !.holdings = B!With(@, t.symbol, charged)]
          [] t.side \in B!TradeSides ->
               [[paid EXCEPT !.realized = @ + dealt.realized - known.realized]
                  EXCEPT !.holdings = B!With(@, t.symbol, dealt)]
  BY DEF B!Apply
<1> HIDE DEF paid, known, charged, dealt
<1>4. CASE t.side = "deposit"
  BY <1>1, <1>2, <1>3, <1>4 DEF Ledger, B!TradeSides
<1>5. CASE t.side = "withdraw"
  BY <1>1, <1>2, <1>3, <1>5 DEF Ledger, B!TradeSides
<1>6. CASE t.side = "interest"
  BY <1>1, <1>2, <1>3, <1>6 DEF Ledger, B!TradeSides
<1>7. CASE t.side = "dividend"
  BY <1>1, <1>2, <1>3, <1>7 DEF Ledger, B!TradeSides
<1>8. CASE t.side = "fee"
  BY <1>1, <1>2, <1>3, <1>8 DEF Ledger, B!TradeSides
<1>9. CASE t.side \in {"buy", "sell"}
  BY <1>1, <1>2, <1>3, <1>9 DEF Ledger, B!TradeSides
<1> QED BY <1>4, <1>5, <1>6, <1>7, <1>8, <1>9 DEF Row

\* The cash of a replay does not depend on the method.
LEMMA CashIsFree ==
    ASSUME NEW l, IsLog(l), NEW m, NEW k
    PROVE  B!Replay(l, m).cash = B!Replay(l, k).cash
<1> DEFINE S == DOMAIN l
<1>1. PICK g : Replays(g, l, m, SUBSET S) /\ B!Replay(l, m) = g[S]
  BY ReplaySolves
<1>2. PICK h : Replays(h, l, k, SUBSET S) /\ B!Replay(l, k) = h[S]
  BY ReplaySolves
<1> DEFINE G == {t \in SUBSET S : Ledger(g[t]) /\ Ledger(h[t]) /\ g[t].cash = h[t].cash}
<1>3. ASSUME NEW t \in SUBSET S, \A u \in SUBSET t : u # t => u \in G
      PROVE  t \in G
  <2> DEFINE i == B!Latest(l, t)
  <2>1. /\ g[t] = IF t = {} THEN B!NewLedger ELSE B!Apply(g[t \ {i}], l[i], m)
        /\ h[t] = IF t = {} THEN B!NewLedger ELSE B!Apply(h[t \ {i}], l[i], k)
    BY <1>1, <1>2 DEF Replays
  <2>2. CASE t = {}
    BY <2>1, <2>2 DEF Ledger
  <2>3. CASE t # {}
    <3>1. i \in t /\ Row(l[i])
      BY <2>3, LatestIsIn DEF IsLog
    <3>2. t \ {i} \in G
      <4>1. t \ {i} \in SUBSET t /\ t \ {i} # t
        BY <3>1
      <4> HIDE DEF G, i
      <4> QED BY <1>3, <4>1
    <3> HIDE DEF i
    <3>3. Ledger(g[t]) /\ g[t].cash = g[t \ {i}].cash + B!CashFlow(l[i])
      BY <2>1, <2>3, <3>1, <3>2, ApplyPays
    <3>4. Ledger(h[t]) /\ h[t].cash = h[t \ {i}].cash + B!CashFlow(l[i])
      BY <2>1, <2>3, <3>1, <3>2, ApplyPays
    <3> QED BY <3>2, <3>3, <3>4
  <2> QED BY <2>2, <2>3
<1>4. S \in G
  <2>1. IsFiniteSet(S) /\ G \in SUBSET (SUBSET S)
    BY DEF IsLog
  <2> HIDE DEF G, S
  <2> QED BY <1>3, <2>1, SubsetInduction
<1> QED BY <1>1, <1>2, <1>4

\* A portfolio that is opened, with a deposit or none, holds nothing.
LEMMA OpenedEmpty ==
    ASSUME NEW l, NEW m, IsLog(l), \A i \in DOMAIN l : DOMAIN l = {i} /\ l[i].side = "deposit"
    PROVE  B!Rows(B!Replay(l, m)) = <<>> /\ (DOMAIN l = {} => B!Replay(l, m).cash = 0)
<1>1. PICK g : Replays(g, l, m, SUBSET DOMAIN l) /\ B!Replay(l, m) = g[DOMAIN l]
  BY ReplaySolves
<1>2. g[{}] = B!NewLedger
  BY <1>1 DEF Replays
<1>3. B!Replay(l, m).holdings = <<>>
  <2>1. CASE DOMAIN l = {}
    BY <1>1, <1>2, <2>1 DEF B!NewLedger
  <2>2. CASE DOMAIN l # {}
    <3>1. PICK i \in DOMAIN l : DOMAIN l = {i} /\ l[i].side = "deposit"
      BY <2>2
    <3>2. B!Latest(l, DOMAIN l) = i
      BY <2>2, <3>1, LatestIsIn
    <3>3. g[DOMAIN l] = B!Apply(g[{}], l[i], m)
      <4>1. g[DOMAIN l] = B!Apply(g[DOMAIN l \ {i}], l[i], m)
        BY <1>1, <2>2, <3>2 DEF Replays
      <4>2. DOMAIN l \ {i} = {}
        BY <3>1
      <4> QED BY <4>1, <4>2
    <3>4. B!Apply(B!NewLedger, l[i], m).holdings = B!NewLedger.holdings
      BY <3>1 DEF B!Apply, B!NewLedger, B!TradeSides
    <3> QED BY <1>1, <1>2, <3>3, <3>4 DEF B!NewLedger
  <2> QED BY <2>1, <2>2
<1>4. B!Rows(B!Replay(l, m)) = <<>>
  BY <1>3 DEF B!Rows
<1> QED BY <1>1, <1>2, <1>4 DEF B!NewLedger

\* A log that has no rows.
LEMMA NoLog == IsLog(<<>>) /\ \A m : B!Rows(B!Replay(<<>>, m)) = <<>> /\ B!Replay(<<>>, m).cash = 0
<1>1. DOMAIN <<>> = {} /\ IsFiniteSet({})
  BY FS_EmptySet
<1>2. IsLog(<<>>)
  BY <1>1 DEF IsLog
<1> QED BY <1>1, <1>2, OpenedEmpty

\* The tables, and the view that the last commit left.
Booked ==
    /\ IsLog(log) /\ DOMAIN log \subseteq RowId /\ method \in Method
    /\ exists \/ (log = <<>> /\ positions = <<>> /\ cash = 0)
    /\ DOMAIN req = Request
    /\ \A r \in Request : /\ req[r].at \in {"out", "loaded", "log", "rows"}
                          /\ req[r].at \in {"log", "rows"} => req[r].new \in Method
    /\ B!ViewAgrees

LEMMA BooksInit == ASSUME Entered PROVE B!Init => Booked
<1> SUFFICES ASSUME B!Init PROVE Booked
  OBVIOUS
<1>1. log = <<>> /\ positions = <<>> /\ cash = 0 /\ method = "fifo"
  BY DEF B!Init
<1>2. B!ViewAgrees
  BY <1>1, NoLog DEF B!ViewAgrees
<1>3. DOMAIN req = Request /\ \A r \in Request : req[r].at = "out"
  BY DEF B!Init, B!Out
<1>4. DOMAIN log \subseteq RowId
  BY <1>1
<1> QED BY <1>1, <1>2, <1>3, <1>4, NoLog DEF Booked, Entered

LEMMA OpenKeeps == ASSUME Entered, Booked, B!Open PROVE Booked'
<1>1. PICK first \in {<<>>} \cup {<<t>> : t \in {u \in Menu : u.side = "deposit"}} :
        /\ log' = first /\ method' \in Method /\ exists'
        /\ cash' = B!Replay(first, method').cash
        /\ positions' = <<>> /\ stale' = {} /\ req' = req
  BY DEF B!Open
<1>2. IsLog(first) /\ \A i \in DOMAIN first : DOMAIN first = {i} /\ first[i].side = "deposit"
  <2>1. CASE first = <<>>
    BY <2>1, NoLog
  <2>2. CASE first # <<>>
    <3>1. PICK t \in Menu : t.side = "deposit" /\ first = <<t>>
      BY <2>2
    <3>2. DOMAIN first = {1} /\ first[1] = t
      BY <3>1
    <3>3. IsFiniteSet({1})
      BY FS_Singleton
    <3> QED BY <3>1, <3>2, <3>3, MenuRow DEF IsLog
  <2> QED BY <2>1, <2>2
<1>3. B!Rows(B!Replay(first, method')) = <<>>
  BY <1>2, OpenedEmpty
<1>4. B!ViewAgrees'
  BY <1>1, <1>3 DEF B!ViewAgrees
<1>5. DOMAIN first \subseteq RowId
  <2>1. DOMAIN first \subseteq {1}
    BY DEF Entered
  <2> QED BY <2>1 DEF Entered
<1> QED BY <1>1, <1>2, <1>4, <1>5 DEF Booked

LEMMA CloseKeepsBooks == ASSUME Entered, Booked, B!Close PROVE Booked'
<1>1. /\ log' = <<>> /\ positions' = <<>> /\ cash' = 0 /\ method' = "fifo" /\ req' = req
  BY DEF B!Close
<1>2. B!ViewAgrees'
  BY <1>1, NoLog DEF B!ViewAgrees
<1>3. DOMAIN log' \subseteq RowId
  BY <1>1
<1> QED BY <1>1, <1>2, <1>3, NoLog DEF Booked, Entered

\* A request that reads, or ends without a commit, leaves the tables.
LEMMA ReadKeeps ==
    ASSUME Booked, UNCHANGED <<exists, log, method, cash, positions, stale>>, DOMAIN req' = Request,
           \A r \in Request : /\ req'[r].at \in {"out", "loaded", "log", "rows"}
                              /\ req'[r].at \in {"log", "rows"} => req'[r].new \in Method
    PROVE  Booked'
<1>1. B!ViewAgrees'
  BY DEF Booked, B!ViewAgrees
<1> QED BY <1>1 DEF Booked

\* A commit that had the write lock.
LEMMA RewriteKeeps ==
    ASSUME Entered, Booked, exists, NEW r \in Request, NEW after, NEW seen, IsLog(after),
           DOMAIN after \subseteq RowId, B!Rewrite(r, after, seen)
    PROVE  Booked'
<1> DEFINE s == req[r]
           ledger == B!Replay(seen, s.method)
<1>1. /\ log' = after /\ positions' = B!Written(B!Rows(ledger)) /\ cash' = B!CashWritten(s, ledger)
      /\ stale' = (IF s.method # method \/ seen # after THEN {"positions"} ELSE {})
                   \cup (IF s.cash # cash \/ seen # after THEN {"cash"} ELSE {})
      /\ req' = [req EXCEPT ![r] = B!Out] /\ exists' = exists /\ method' = method
  BY DEF B!Rewrite, B!Done
<1>2. "positions" \notin stale' => positions' = B!Rows(B!Replay(log', method'))
  BY <1>1 DEF B!Written
<1>3. "cash" \notin stale' => cash' = B!Replay(log', method').cash
  <2>1. SUFFICES ASSUME "cash" \notin stale' PROVE cash' = B!Replay(log', method').cash
    OBVIOUS
  <2>2. s.cash = cash /\ seen = after
    BY <1>1, <2>1
  <2>3. cash' = ledger.cash
    BY <1>1, <2>2 DEF B!CashWritten
  <2>4. ledger.cash = B!Replay(after, method).cash
    BY <2>2, CashIsFree
  <2> QED BY <1>1, <2>3, <2>4
<1>4. B!ViewAgrees'
  BY <1>2, <1>3 DEF B!ViewAgrees
<1>5. DOMAIN req' = Request /\ \A q \in Request : req'[q] = IF q = r THEN B!Out ELSE req[q]
  BY <1>1 DEF Booked
<1>6. B!Out.at = "out"
  BY DEF B!Out
<1> QED BY <1>1, <1>4, <1>5, <1>6 DEF Booked

LEMMA CreateKeeps == ASSUME Entered, Booked, NEW r \in Request, B!Create(r) PROVE Booked'
<1>1. PICK i \in RowId, t \in Menu : exists /\ B!Rewrite(r, B!With(log, i, t), B!With(log, i, t))
  BY DEF B!Create
<1> DEFINE after == B!With(log, i, t)
<1>2. /\ DOMAIN after = DOMAIN log \cup {i}
      /\ \A j \in DOMAIN after : after[j] = IF j = i THEN t ELSE log[j]
  BY DEF B!With
<1>3. IsFiniteSet(DOMAIN log \cup {i})
  BY FS_AddElement DEF Booked, IsLog
<1>4. Row(t)
  BY MenuRow
<1> HIDE DEF after
<1>5. IsLog(after) /\ DOMAIN after \subseteq RowId
  BY <1>2, <1>3, <1>4 DEF IsLog, Booked, Entered
<1>6. B!Rewrite(r, after, after)
  BY <1>1 DEF after
<1> QED BY <1>1, <1>5, <1>6, RewriteKeeps

LEMMA AmendKeeps == ASSUME Entered, Booked, NEW r \in Request, B!Amend(r) PROVE Booked'
<1> DEFINE s == req[r]
<1>1. PICK t \in Menu : B!Rewrite(r, [log EXCEPT ![s.id] = B!Amended(s, t)], [log EXCEPT ![s.id] = t])
  BY DEF B!Amend
<1>2. s.id \in DOMAIN log
  BY DEF B!Amend
<1>3. exists
  BY <1>2 DEF Booked
<1> DEFINE after == [log EXCEPT ![s.id] = B!Amended(s, t)]
<1>4. /\ DOMAIN after = DOMAIN log
      /\ \A j \in DOMAIN after : after[j] = IF j = s.id THEN B!Amended(s, t) ELSE log[j]
  BY <1>2
<1>5. Row(B!Amended(s, t))
  <2>1. Row(t) /\ Row(log[s.id])
    BY <1>2, MenuRow DEF Booked, IsLog
  <2> HIDE DEF s
  <2> QED BY <2>1 DEF B!Amended, Row
<1>6. IsLog(after) /\ DOMAIN after \subseteq RowId
  <2> HIDE DEF after
  <2> QED BY <1>4, <1>5 DEF IsLog, Booked
<1> HIDE DEF after, s
<1> QED BY <1>1, <1>3, <1>6, RewriteKeeps DEF after

LEMMA DeleteKeeps == ASSUME Entered, Booked, NEW r \in Request, B!Delete(r) PROVE Booked'
<1> DEFINE after == [i \in DOMAIN log \ {req[r].id} |-> log[i]]
<1>1. exists /\ B!Rewrite(r, after, after)
  BY DEF B!Delete
<1>2. IsFiniteSet(DOMAIN log \ {req[r].id})
  BY FS_Subset DEF Booked, IsLog
<1>3. IsLog(after) /\ DOMAIN after \subseteq RowId
  BY <1>2 DEF Booked, IsLog
<1> HIDE DEF after
<1> QED BY <1>1, <1>3, RewriteKeeps

LEMMA ReadsKeep ==
    ASSUME Entered, Booked, NEW r \in Request,
           B!Load(r) \/ B!ReadLog(r) \/ B!ReadRows(r) \/ B!Fail(r)
    PROVE  Booked'
<1>1. UNCHANGED <<exists, log, method, cash, positions, stale>>
  BY DEF B!Load, B!ReadLog, B!ReadRows, B!Fail, B!database
<1>2. CASE B!Load(r)
  <2>1. PICK x : req' = [req EXCEPT ![r] = x] /\ x.at = "loaded"
    <3>1. PICK i \in {0} \cup DOMAIN log :
             req' = [req EXCEPT ![r] = [at |-> "loaded", cash |-> cash, method |-> method,
                                  id |-> i, row |-> IF i = 0 THEN <<>> ELSE log[i]]]
      BY <1>2 DEF B!Load
    <3> DEFINE x == [at |-> "loaded", cash |-> cash, method |-> method,
                     id |-> i, row |-> IF i = 0 THEN <<>> ELSE log[i]]
    <3>2. x.at = "loaded"
      OBVIOUS
    <3>3. req' = [req EXCEPT ![r] = x]
      BY <3>1
    <3> HIDE DEF x
    <3> QED BY <3>2, <3>3
  <2>2. DOMAIN req' = Request /\ \A q \in Request : req'[q] = IF q = r THEN x ELSE req[q]
    BY <2>1 DEF Booked
  <2> QED BY <1>1, <2>1, <2>2, ReadKeeps DEF Booked
<1>3. CASE B!ReadLog(r)
  <2>1. PICK x : req' = [req EXCEPT ![r] = x] /\ x.at = "log" /\ x.new \in Method
    <3> DEFINE seen == IF req[r].id \in DOMAIN log THEN [log EXCEPT ![req[r].id] = req[r].row] ELSE log
    <3>1. PICK m \in Method :
            req' = [req EXCEPT ![r] = [at |-> "log", cash |-> req[r].cash, method |-> req[r].method,
                                        new |-> m, seen |-> seen]]
      BY <1>3 DEF B!ReadLog
    <3> DEFINE x == [at |-> "log", cash |-> req[r].cash, method |-> req[r].method,
                     new |-> m, seen |-> seen]
    <3>2. x.at = "log" /\ x.new \in Method
      OBVIOUS
    <3>3. req' = [req EXCEPT ![r] = x]
      BY <3>1
    <3> HIDE DEF x
    <3> QED BY <3>2, <3>3
  <2>2. DOMAIN req' = Request /\ \A q \in Request : req'[q] = IF q = r THEN x ELSE req[q]
    BY <2>1 DEF Booked
  <2> QED BY <1>1, <2>1, <2>2, ReadKeeps DEF Booked
<1>4. CASE B!ReadRows(r)
  <2>1. PICK x : req' = [req EXCEPT ![r] = x] /\ x.at = "rows" /\ x.new = req[r].new
    <3> DEFINE x == [at |-> "rows", cash |-> req[r].cash, method |-> req[r].method,
                     new |-> req[r].new, seen |-> req[r].seen, base |-> positions]
    <3>1. req' = [req EXCEPT ![r] = x]
      BY <1>4 DEF B!ReadRows
    <3>2. x.at = "rows" /\ x.new = req[r].new
      OBVIOUS
    <3> HIDE DEF x
    <3> QED BY <3>1, <3>2
  <2>2. DOMAIN req' = Request /\ \A q \in Request : req'[q] = IF q = r THEN x ELSE req[q]
    BY <2>1 DEF Booked
  <2>3. x.new \in Method
    BY <1>4, <2>1 DEF B!ReadRows, Booked
  <2> QED BY <1>1, <2>1, <2>2, <2>3, ReadKeeps DEF Booked
<1>5. CASE B!Fail(r)
  <2>1. req' = [req EXCEPT ![r] = B!Out] /\ B!Out.at = "out"
    BY <1>5 DEF B!Fail, B!Done, B!Out
  <2>2. DOMAIN req' = Request /\ \A q \in Request : req'[q] = IF q = r THEN B!Out ELSE req[q]
    BY <2>1 DEF Booked
  <2> QED BY <1>1, <2>1, <2>2, ReadKeeps DEF Booked
<1> QED BY <1>2, <1>3, <1>4, <1>5

\* A commit of differences puts what it wants in the place of what it read,
\* if the rows are still those.
LEMMA RestateKeeps == ASSUME Entered, Booked, NEW r \in Request, B!Restate(r) PROVE Booked'
<1> DEFINE s == req[r]
           ledger == B!Replay(s.seen, s.new)
           want == B!Rows(ledger)
           both == DOMAIN want \cap DOMAIN s.base
           inserted == DOMAIN want \ DOMAIN s.base
           updated == {sym \in both : want[sym] # s.base[sym]}
           Merged(sym) == [a \in DOMAIN want[sym] |->
                             IF want[sym][a] # s.base[sym][a] THEN want[sym][a]
                                                              ELSE positions[sym][a]]
           left == (DOMAIN positions \ (DOMAIN s.base \ DOMAIN want)) \cup inserted
           outdated == s.seen # log \/ s.base # positions
<1>1. /\ exists /\ s.at = "rows"
      /\ positions' = [sym \in left |->
                         IF sym \in inserted THEN want[sym]
                         ELSE IF sym \in updated THEN Merged(sym) ELSE positions[sym]]
      /\ method' = IF s.new # s.method THEN s.new ELSE method
      /\ cash' = B!CashWritten(s, ledger)
      /\ stale' = (IF outdated \/ s.method # method THEN {"positions"} ELSE {})
                    \cup (IF outdated \/ s.cash # cash THEN {"cash"} ELSE {})
      /\ req' = [req EXCEPT ![r] = B!Out] /\ exists' = exists /\ log' = log
  BY DEF B!Restate, B!Done
<1>2. \A sym \in DOMAIN want : want[sym] = [a \in DOMAIN want[sym] |-> want[sym][a]]
  <2>1. \A sym \in DOMAIN want : want[sym] = B!Row(ledger.holdings[sym])
    BY DEF B!Rows
  <2>2. \A h : B!Row(h) = [a \in DOMAIN B!Row(h) |-> B!Row(h)[a]]
    BY DEF B!Row
  <2> HIDE DEF want, ledger
  <2> QED BY <2>1, <2>2
<1>3. want = [sym \in DOMAIN want |-> want[sym]]
  BY DEF B!Rows
<1>4. "positions" \notin stale' => positions' = B!Rows(B!Replay(log', method'))
  <2>1. SUFFICES ASSUME "positions" \notin stale' PROVE positions' = B!Rows(B!Replay(log', method'))
    OBVIOUS
  <2>2. s.seen = log /\ s.base = positions /\ s.method = method
    BY <1>1, <2>1
  <2>3. method' = s.new
    BY <1>1, <2>2
  <2>4. left = DOMAIN want
    BY <2>2
  <2>5. \A sym \in left : positions'[sym] = want[sym]
    <3> TAKE sym \in left
    <3>1. CASE sym \in inserted
      BY <1>1, <3>1
    <3>2. CASE sym \notin inserted /\ sym \in updated
      <4>1. Merged(sym) = [a \in DOMAIN want[sym] |-> want[sym][a]]
        BY <2>2
      <4> QED BY <1>1, <1>2, <2>4, <3>2, <4>1
    <3>3. CASE sym \notin inserted /\ sym \notin updated
      <4>1. want[sym] = positions[sym]
        BY <2>2, <2>4, <3>3
      <4> QED BY <1>1, <3>3, <4>1
    <3> QED BY <3>1, <3>2, <3>3
  <2>6. positions' = [sym \in left |-> positions'[sym]]
    BY <1>1
  <2>7. positions' = want
    <3> HIDE DEF want, left
    <3> QED BY <1>3, <2>4, <2>5, <2>6
  <2> QED BY <1>1, <2>2, <2>3, <2>7
<1>5. "cash" \notin stale' => cash' = B!Replay(log', method').cash
  <2>1. SUFFICES ASSUME "cash" \notin stale' PROVE cash' = B!Replay(log', method').cash
    OBVIOUS
  <2>2. s.seen = log /\ s.cash = cash
    BY <1>1, <2>1
  <2>3. cash' = ledger.cash
    BY <1>1, <2>2 DEF B!CashWritten
  <2>4. ledger.cash = B!Replay(log, method').cash
    BY <2>2, CashIsFree DEF Booked
  <2> QED BY <1>1, <2>3, <2>4
<1>6. B!ViewAgrees'
  BY <1>4, <1>5 DEF B!ViewAgrees
<1>7. method' \in Method
  BY <1>1 DEF Booked
<1>8. DOMAIN req' = Request /\ \A q \in Request : req'[q] = IF q = r THEN B!Out ELSE req[q]
  BY <1>1 DEF Booked
<1>9. B!Out.at = "out"
  BY DEF B!Out
<1>10. IsLog(log)' /\ DOMAIN log' \subseteq RowId /\ exists'
  BY <1>1 DEF Booked, IsLog
<1> QED BY <1>6, <1>7, <1>8, <1>9, <1>10 DEF Booked

LEMMA BooksStep == ASSUME Entered, Booked, [B!Next]_(B!vars) PROVE Booked'
<1>1. CASE UNCHANGED B!vars
  <2>1. UNCHANGED <<exists, log, method, cash, positions, req, stale>>
    BY <1>1 DEF B!vars
  <2>2. B!ViewAgrees'
    BY <2>1 DEF Booked, B!ViewAgrees
  <2> QED BY <2>1, <2>2 DEF Booked, IsLog
<1> QED BY <1>1, OpenKeeps, CloseKeepsBooks, ReadsKeep, CreateKeeps, AmendKeeps, DeleteKeeps, RestateKeeps
        DEF B!Next

\* "An edited or deleted transaction cannot leave a position wrong": for any
\* requests, rows and methods, unless the last commit worked on reads that
\* another commit had outdated, the positions and the cash are what the log
\* replays to (routers/portfolio.py, portfolio/accounting.py).
THEOREM ViewsAgree == ASSUME Entered PROVE B!Spec => [](B!TypeOK /\ B!ViewAgrees)
<1>1. Booked => B!TypeOK /\ B!ViewAgrees
  BY DEF Booked, B!TypeOK
<1> QED BY <1>1, BooksInit, BooksStep, PTL DEF B!Spec

----------------------------------------------------------------------------
(* The backtest: the schedule of a window, and of all bars.                  *)

\* Bars come a number of days after another.
Gapped == Gaps \subseteq Nat

DatedBars == dated \in Seq([day : Nat, asked : Targets, quotes : Quotes])

\* What is held is what the last scheduled bar asked for ...
LEMMA HeldIs ==
    ASSUME NEW w, NEW k \in Nat, NEW m \in 1 .. k, BT!Scheduled(w, m),
           \A j \in 1 .. k : BT!Scheduled(w, j) => j <= m
    PROVE  BT!Held(w, k) = w[m].asked
<1> DEFINE S == {j \in 1 .. k : BT!Scheduled(w, j)}
<1>1. m \in S /\ S \subseteq Int /\ \A j \in S : j <= m
  OBVIOUS
<1> HIDE DEF S
<1>2. \A x \in S : (\A y \in S : x >= y) => x = m
  BY <1>1
<1>3. \E x \in S : \A y \in S : x >= y
  BY <1>1
<1>4. BT!Max(S) = m
  BY <1>2, <1>3 DEF BT!Max
<1> QED BY <1>4 DEF BT!Held, S

\* ... and there is one, as the first bar of a window is scheduled.
LEMMA OneIsScheduled ==
    ASSUME NEW w, NEW k \in Nat \ {0}
    PROVE  \E m \in 1 .. k : /\ BT!Scheduled(w, m)
                             /\ \A j \in 1 .. k : BT!Scheduled(w, j) => j <= m
<1> DEFINE S == {j \in 1 .. k : BT!Scheduled(w, j)}
<1>1. 1 \in S
  BY DEF BT!Scheduled
<1>2. S \in SUBSET Nat /\ \A n \in S : n <= k
  OBVIOUS
<1>3. \E m \in S : \A n \in S : n <= m
  <2> HIDE DEF S
  <2>1. S # {} /\ S \in SUBSET Int /\ k \in Int /\ \A n \in S : n <= k
    BY <1>1, <1>2
  <2>2. \E m \in S : \A n \in S : m >= n
    BY <2>1, GreatestNumber
  <2> QED BY <1>2, <2>2
<1> QED BY <1>3

\* A window that has seen a block begin holds what all bars hold.
LEMMA WindowIsAnchored == ASSUME DatedBars PROVE BT!Anchored
<1> SUFFICES ASSUME NEW start \in 1 .. Len(dated),
                    NEW k \in 2 .. Len(SubSeq(dated, start, Len(dated))),
                    NEW j \in 2 .. k,
                    BT!Block(SubSeq(dated, start, Len(dated))[j].day)
                      # BT!Block(SubSeq(dated, start, Len(dated))[j - 1].day)
             PROVE  BT!Held(SubSeq(dated, start, Len(dated)), k) = BT!Held(dated, start + k - 1)
  BY DEF BT!Anchored
<1> DEFINE window == SubSeq(dated, start, Len(dated))
           l == Len(dated)
<1>1. l \in Nat /\ start \in 1 .. l
  BY LenProperties DEF DatedBars
<1>2. /\ Len(window) = l - start + 1
      /\ \A i \in 1 .. l - start + 1 : window[i] = dated[start + i - 1]
  <2>1. dated \in Seq([day : Nat, asked : Targets, quotes : Quotes]) /\ start \in 1 .. l + 1
        /\ l \in start - 1 .. l /\ l \in Nat
    BY <1>1 DEF DatedBars
  <2> QED BY <2>1, SubSeqProperties
<1> HIDE DEF window, l
<1>3. k \in 2 .. Len(window) /\ BT!Block(window[j].day) # BT!Block(window[j - 1].day)
  BY DEF window, l
<1>4. k \in Nat \ {0} /\ k >= 2 /\ k <= l - start + 1 /\ j \in 2 .. k
  BY <1>1, <1>2, <1>3
<1>5. PICK m \in 1 .. k : /\ BT!Scheduled(window, m)
                          /\ \A i \in 1 .. k : BT!Scheduled(window, i) => i <= m
  BY <1>4, OneIsScheduled
<1>6. m >= 2
  <2>1. BT!Scheduled(window, j)
    BY <1>3 DEF BT!Scheduled
  <2> QED BY <1>4, <1>5, <2>1
<1>7. \A i \in 2 .. k : BT!Scheduled(window, i) <=> BT!Scheduled(dated, start + i - 1)
  <2> SUFFICES ASSUME NEW i \in 2 .. k
               PROVE  BT!Scheduled(window, i) <=> BT!Scheduled(dated, start + i - 1)
    OBVIOUS
  <2>1. /\ window[i] = dated[start + i - 1] /\ window[i - 1] = dated[(start + i - 1) - 1]
        /\ i # 1 /\ start + i - 1 # 1
    <3>1. i \in 1 .. l - start + 1 /\ i - 1 \in 1 .. l - start + 1 /\ start + (i - 1) - 1 = (start + i - 1) - 1
      BY <1>1, <1>4
    <3> QED BY <1>1, <1>2, <1>4, <3>1
  <2> QED BY <2>1 DEF BT!Scheduled
<1>8. start + m - 1 \in 1 .. start + k - 1 /\ start + k - 1 \in Nat
  BY <1>1, <1>4, <1>6
<1>9. BT!Scheduled(dated, start + m - 1)
  BY <1>4, <1>5, <1>6, <1>7
<1>10. ASSUME NEW i \in 1 .. start + k - 1, BT!Scheduled(dated, i)
       PROVE  i <= start + m - 1
  <2>1. CASE i <= start
    BY <1>1, <1>6, <2>1
  <2>2. CASE i > start
    <3>1. i - start + 1 \in 2 .. k /\ start + (i - start + 1) - 1 = i
      BY <1>1, <1>4, <2>2
    <3>2. BT!Scheduled(window, i - start + 1)
      BY <1>7, <1>10, <3>1
    <3>3. i - start + 1 <= m
      BY <1>4, <1>5, <3>1, <3>2
    <3> QED BY <1>1, <1>5, <3>3
  <2> QED BY <1>1, <2>1, <2>2
<1>11. BT!Held(dated, start + k - 1) = dated[start + m - 1].asked
  BY <1>8, <1>9, <1>10, HeldIs
<1>12. BT!Held(window, k) = window[m].asked
  BY <1>4, <1>5, HeldIs
<1>13. window[m] = dated[start + m - 1]
  BY <1>1, <1>2, <1>4, <1>5
<1> QED BY <1>11, <1>12, <1>13 DEF window, l

\* A bar is added with a day, a target and quotes.
LEMMA DatedStep == ASSUME Gapped, DatedBars, [BT!Next]_(BT!vars) PROVE DatedBars'
<1>1. CASE UNCHANGED BT!vars
  BY <1>1 DEF DatedBars, BT!vars
<1>2. ASSUME NEW gap \in Gaps, NEW asked \in Targets, NEW quotes \in Quotes,
             BT!Bar(gap, asked, quotes)
      PROVE  DatedBars'
  <2> DEFINE before == IF dated = <<>> THEN [day |-> 0, asked |-> asked, quotes |-> quotes]
                                       ELSE dated[Len(dated)]
             new == [day |-> before.day + gap, asked |-> asked, quotes |-> quotes]
  <2>1. dated' = Append(dated, new)
    BY <1>2 DEF BT!Bar
  <2>2. before.day \in Nat /\ gap \in Nat
    <3>1. CASE dated = <<>>
      BY <3>1 DEF Gapped
    <3>2. CASE dated # <<>>
      <4> DEFINE X == [day : Nat, asked : Targets, quotes : Quotes]
      <4>1. dated \in Seq(X)
        BY DEF DatedBars
      <4> HIDE DEF X
      <4>2. Len(dated) \in Nat /\ dated \in [1 .. Len(dated) -> X] /\ Len(dated) # 0
        BY <3>2, <4>1, LenProperties, EmptySeq
      <4>3. dated[Len(dated)] \in X
        BY <4>2
      <4> QED BY <3>2, <4>3 DEF Gapped, X
    <3> QED BY <3>1, <3>2
  <2>3. new \in [day : Nat, asked : Targets, quotes : Quotes]
    BY <2>2
  <2> HIDE DEF new
  <2> QED BY <2>1, <2>3, AppendProperties DEF DatedBars
<1> QED BY <1>1, <1>2 DEF BT!Next

\* Whatever is asked for and quoted, windows of a backtest are anchored.
THEOREM WindowsAreAnchored == ASSUME Gapped PROVE BT!Spec => []BT!Anchored
<1>1. BT!Init => DatedBars
  BY DEF BT!Init, DatedBars
<1>2. DatedBars /\ [BT!Next]_(BT!vars) => DatedBars'
  BY DatedStep
<1> QED BY <1>1, <1>2, WindowIsAnchored, PTL DEF BT!Spec

(* The books of a backtest.                                                  *)

\* Books in whole numbers: what is asked for, quoted and paid.
Quoted ==
    /\ IsFiniteSet(Asset) /\ Targets \subseteq [Asset -> Int]
    /\ \A quotes \in Quotes, s \in Asset :
          quotes[s].open \in Nat /\ quotes[s].close \in Nat
    /\ Latency \in Nat /\ Capital \in Int
    /\ Slippage \in Nat \ {0} /\ Commission \in Nat \ {0}

\* Before the first bar there is the capital; then the curve is explained.
CurveBooked ==
    /\ DatedBars
    /\ stake \in [Asset -> Int] /\ purse \in Int /\ costs \in Int /\ earned \in Int
    /\ dated = <<>> => /\ purse = Capital /\ costs = 0 /\ earned = 0
                       /\ \A s \in Asset : stake[s] = 0
    /\ BT!CostsExplain

\* Backtest takes sums as Sums does.
LEMMA BacktestSum == \A f, S : DOMAIN f = S => BT!SumFunction(f) = SumFunctionOnSet(f, S)
<1> SUFFICES ASSUME NEW f PROVE BT!SumFunction(f) = SumFunctionOnSet(f, DOMAIN f)
  OBVIOUS
<1> QED BY DEF BT!SumFunction, BT!SumFunctionOnSet, BT!FoldFunctionOnSet, BT!MapThenFoldSet,
               SumFunctionOnSet, FoldFunctionOnSet, MapThenFoldSet

\* The sum of two columns is that of three if it is so in every row.
LEMMA ColumnsAgree ==
    ASSUME NEW S, IsFiniteSet(S), NEW a \in [S -> Int], NEW b \in [S -> Int],
           NEW c \in [S -> Int], NEW d \in [S -> Int], NEW e \in [S -> Int],
           \A x \in S : a[x] + e[x] = b[x] + (c[x] + d[x])
    PROVE  /\ BT!SumFunction(a) + BT!SumFunction(e) = BT!SumFunction(b) + (BT!SumFunction(c) + BT!SumFunction(d))
           /\ BT!SumFunction(a) \in Int /\ BT!SumFunction(b) \in Int /\ BT!SumFunction(c) \in Int
           /\ BT!SumFunction(d) \in Int /\ BT!SumFunction(e) \in Int
<1> DEFINE l == [x \in S |-> a[x] + e[x]]
           r == [x \in S |-> c[x] + d[x]]
<1>1. l = [x \in S |-> b[x] + r[x]]
  OBVIOUS
<1>2. /\ \A x \in S : l[x] = a[x] + e[x] /\ a[x] \in Int /\ e[x] \in Int
      /\ \A x \in S : r[x] = c[x] + d[x] /\ c[x] \in Int /\ d[x] \in Int
  OBVIOUS
<1>3. \A x \in S : l[x] = b[x] + r[x] /\ b[x] \in Int /\ r[x] \in Int
  BY <1>1
<1> HIDE DEF l, r
<1>4. /\ SumFunctionOnSet(l, S) = SumFunctionOnSet(a, S) + SumFunctionOnSet(e, S)
      /\ SumFunctionOnSet(r, S) = SumFunctionOnSet(c, S) + SumFunctionOnSet(d, S)
      /\ SumFunctionOnSet(l, S) = SumFunctionOnSet(b, S) + SumFunctionOnSet(r, S)
  BY <1>2, <1>3, SumPlus
<1>5. \A f \in [S -> Int] : SumFunctionOnSet(f, S) \in Int
  <2> TAKE f \in [S -> Int]
  <2>1. \A x \in S : f[x] \in Int
    OBVIOUS
  <2> QED BY <2>1, SumType
<1>6. \A f \in [S -> Int] : BT!SumFunction(f) = SumFunctionOnSet(f, S)
  BY BacktestSum
<1> QED BY <1>4, <1>5, <1>6

\* A row of the columns: shares p that were worth l and close at c, of which d
\* are traded at f against an open o.
LEMMA RowAgrees ==
    ASSUME NEW p \in Int, NEW d \in Int, NEW c \in Int, NEW l \in Int, NEW o \in Int,
           NEW f \in Int, NEW x \in Int, NEW paid \in Int, d * f = d * o + paid
    PROVE  (p + d) * c + (x + paid) = (d * f + x) + (p * l + (p * (c - l) + d * (c - o)))
<1>1. (p + d) * c = p * c + d * c
  OBVIOUS
<1>2. p * (c - l) = p * c - p * l
  OBVIOUS
<1>3. d * (c - o) = d * c - d * o
  OBVIOUS
<1>4. p * c \in Int /\ d * c \in Int /\ p * l \in Int /\ d * o \in Int /\ d * f \in Int
  OBVIOUS
<1> QED BY <1>1, <1>2, <1>3, <1>4

\* What slips is paid on either side.
LEMMA SlipIsPaid ==
    ASSUME Quoted, NEW o \in Nat, NEW d \in Int
    PROVE  /\ BT!Fill(o, d) \in Int /\ BT!Fee(o, d) \in Int
           /\ BT!Size(d) * BT!Size(BT!Fill(o, d) - o) \in Int
           /\ d * BT!Fill(o, d) = d * o + BT!Size(d) * BT!Size(BT!Fill(o, d) - o)
<1> DEFINE x == o \div Slippage
<1>1. x \in Nat
  BY DEF Quoted
<1> HIDE DEF x
<1>2. BT!Fill(o, d) = IF d > 0 THEN o + x ELSE o - x
  BY DEF BT!Fill, x
<1>3. BT!Size(BT!Fill(o, d) - o) = x /\ BT!Size(d) = (IF d < 0 THEN -d ELSE d)
  BY <1>1, <1>2 DEF BT!Size
<1>4. BT!Size(d) \in Nat
  BY <1>3
<1>5. BT!Fill(o, d) \in Int
  BY <1>1, <1>2
<1>6. BT!Fee(o, d) \in Int
  <2>1. BT!Size(d) * BT!Fill(o, d) \in Int
    BY <1>4, <1>5
  <2> QED BY <2>1 DEF BT!Fee, Quoted
<1>7. CASE d > 0
  <2>1. d * (o + x) = d * o + d * x
    BY <1>1
  <2> QED BY <1>1, <1>2, <1>3, <1>5, <1>6, <1>7, <2>1
<1>8. CASE ~(d > 0)
  <2>1. d * (o - x) = d * o + (-d) * x
    BY <1>1
  <2>2. BT!Size(d) = -d
    BY <1>3, <1>8
  <2> QED BY <1>1, <1>2, <1>3, <1>5, <1>6, <1>8, <2>1, <2>2
<1> QED BY <1>7, <1>8

\* A bar moves the worth by what prices bring less what trades cost.
LEMMA BarIsExplained ==
    ASSUME Gapped, Quoted, CurveBooked, NEW gap \in Gaps, NEW asked \in Targets,
           NEW quotes \in Quotes, BT!Bar(gap, asked, quotes), DatedBars'
    PROVE  CurveBooked'
<1> DEFINE before == IF dated = <<>> THEN [day |-> 0, asked |-> asked, quotes |-> quotes]
                                  ELSE dated[Len(dated)]
           now == Append(dated, [day |-> before.day + gap, asked |-> asked, quotes |-> quotes])
           upto == Len(now) - Latency
           nav == BT!Worth(quotes)
           wanted(s) == (BT!Held(now, upto)[s] * nav) \div quotes[s].open
           moves(s) == /\ upto > 0 /\ nav > 0 /\ quotes[s].open > 0
                       /\ Dust * BT!Size((wanted(s) - stake[s]) * quotes[s].open) >= nav
           delta == [s \in Asset |-> IF moves(s) THEN wanted(s) - stake[s] ELSE 0]
           fill(s) == BT!Fill(quotes[s].open, delta[s])
           fee(s) == BT!Fee(quotes[s].open, delta[s])
           close == [s \in Asset |-> (stake[s] + delta[s]) * quotes[s].close]
           outlay == [s \in Asset |-> delta[s] * fill(s) + fee(s)]
           open == [s \in Asset |-> stake[s] * before.quotes[s].close]
           gain == [s \in Asset |-> stake[s] * (quotes[s].close - before.quotes[s].close)
                                       + delta[s] * (quotes[s].close - quotes[s].open)]
           loss == [s \in Asset |-> fee(s) + BT!Size(delta[s]) * BT!Size(fill(s) - quotes[s].open)]
<1>1. /\ dated' = now /\ stake' = [s \in Asset |-> stake[s] + delta[s]]
      /\ purse' = purse - BT!SumFunction(outlay) /\ costs' = costs + BT!SumFunction(loss)
      /\ earned' = earned + BT!SumFunction(gain)
  BY DEF BT!Bar
<1>2. /\ now \in Seq([day : Nat, asked : Targets, quotes : Quotes])
      /\ Len(now) \in Nat \ {0} /\ now[Len(now)].quotes = quotes
      /\ now \in [1 .. Len(now) -> [day : Nat, asked : Targets, quotes : Quotes]]
  <2> DEFINE X == [day : Nat, asked : Targets, quotes : Quotes]
             new == [day |-> before.day + gap, asked |-> asked, quotes |-> quotes]
  <2>1. now \in Seq(X)
    BY <1>1 DEF DatedBars
  <2>2. dated \in Seq(X)
    BY DEF CurveBooked, DatedBars
  <2>3. now = Append(dated, new) /\ new.quotes = quotes
    OBVIOUS
  <2> HIDE DEF now, new, X, before
  <2>4. new \in X
    <3>1. Len(now) = Len(dated) + 1 /\ now[Len(dated) + 1] = new /\ Len(dated) \in Nat
      BY <2>2, <2>3, AppendProperties, LenProperties
    <3>2. Len(now) \in 1 .. Len(now) /\ now \in [1 .. Len(now) -> X]
      BY <2>1, <3>1, LenProperties
    <3> QED BY <3>1, <3>2
  <2>5. Len(now) = Len(dated) + 1 /\ now[Len(dated) + 1] = new /\ Len(dated) \in Nat
    BY <2>2, <2>3, <2>4, AppendProperties, LenProperties
  <2>6. now \in [1 .. Len(now) -> X]
    BY <2>1, LenProperties
  <2> QED BY <2>1, <2>3, <2>5, <2>6 DEF X
<1>3. before.quotes \in Quotes
  <2>1. CASE dated = <<>>
    BY <2>1
  <2>2. CASE dated # <<>>
    <3> DEFINE X == [day : Nat, asked : Targets, quotes : Quotes]
    <3>1. dated \in Seq(X)
      BY DEF CurveBooked, DatedBars
    <3> HIDE DEF X
    <3>2. Len(dated) \in Nat /\ Len(dated) # 0 /\ dated \in [1 .. Len(dated) -> X]
      BY <2>2, <3>1, LenProperties, EmptySeq
    <3>3. dated[Len(dated)] \in X
      BY <3>2
    <3> QED BY <2>2, <3>3 DEF X
  <2> QED BY <2>1, <2>2
<1>4. \A s \in Asset : /\ quotes[s].open \in Nat /\ quotes[s].close \in Int
                        /\ before.quotes[s].close \in Int /\ stake[s] \in Int
  BY <1>3 DEF Quoted, CurveBooked
<1>5. nav \in Int
  <2> DEFINE f == [s \in Asset |-> stake[s] * quotes[s].close]
  <2>1. \A s \in Asset : f[s] \in Int
    BY <1>4
  <2>2. BT!SumFunction(f) = SumFunctionOnSet(f, Asset)
    <3>1. DOMAIN f = Asset
      OBVIOUS
    <3> HIDE DEF f
    <3> QED BY <3>1, BacktestSum
  <2>3. SumFunctionOnSet(f, Asset) \in Int
    <3> HIDE DEF f
    <3> QED BY <2>1, SumType DEF Quoted
  <2>4. nav = purse + BT!SumFunction(f)
    BY DEF BT!Worth
  <2> HIDE DEF f, nav
  <2> QED BY <2>2, <2>3, <2>4 DEF CurveBooked
<1> HIDE DEF before, nav
<1>6. \A s \in Asset : delta[s] \in Int
  <2> SUFFICES ASSUME NEW s \in Asset, moves(s) PROVE wanted(s) \in Int
    BY <1>4
  <2>1. upto \in Nat \ {0} /\ upto <= Len(now)
    BY <1>2 DEF Quoted
  <2>2. PICK m \in 1 .. upto : BT!Scheduled(now, m) /\ \A j \in 1 .. upto : BT!Scheduled(now, j) => j <= m
    <3> HIDE DEF upto, now
    <3> QED BY <2>1, OneIsScheduled
  <2>3. BT!Held(now, upto) = now[m].asked
    <3> HIDE DEF upto, now
    <3> QED BY <2>1, <2>2, HeldIs
  <2>4. now[m].asked \in Targets
    <3>1. m \in 1 .. Len(now)
      BY <1>2, <2>1
    <3> HIDE DEF now
    <3> QED BY <1>2, <3>1
  <2>5. BT!Held(now, upto)[s] \in Int
    BY <2>3, <2>4 DEF Quoted
  <2> DEFINE h == BT!Held(now, upto)[s]
  <2> HIDE DEF h
  <2>6. (h * nav) \div quotes[s].open \in Int
    <3>1. h \in Int
      BY <2>5 DEF h
    <3>2. h * nav \in Int
      BY <1>5, <3>1
    <3> QED BY <1>4, <3>2
  <2> QED BY <2>6 DEF h
<1> HIDE DEF delta
<1>7. \A s \in Asset :
         /\ fill(s) \in Int /\ fee(s) \in Int
         /\ BT!Size(delta[s]) * BT!Size(fill(s) - quotes[s].open) \in Int
         /\ delta[s] * fill(s) = delta[s] * quotes[s].open
                                   + BT!Size(delta[s]) * BT!Size(fill(s) - quotes[s].open)
  BY <1>4, <1>6, SlipIsPaid
<1>8. \A s \in Asset : close[s] + loss[s] = outlay[s] + (open[s] + gain[s])
  <2> SUFFICES ASSUME NEW s \in Asset
               PROVE  close[s] + loss[s] = outlay[s] + (open[s] + gain[s])
    OBVIOUS
  <2> DEFINE p == stake[s]
             d == delta[s]
             c == quotes[s].close
             l == before.quotes[s].close
             o == quotes[s].open
             f == fill(s)
             x == fee(s)
             paid == BT!Size(delta[s]) * BT!Size(fill(s) - quotes[s].open)
  <2>1. /\ p \in Int /\ d \in Int /\ c \in Int /\ l \in Int /\ o \in Int /\ f \in Int
        /\ x \in Int /\ paid \in Int /\ d * f = d * o + paid
    BY <1>4, <1>6, <1>7
  <2>2. /\ close[s] = (p + d) * c /\ loss[s] = x + paid /\ outlay[s] = d * f + x
        /\ open[s] = p * l /\ gain[s] = p * (c - l) + d * (c - o)
    OBVIOUS
  <2> HIDE DEF p, d, c, l, o, f, x, paid, close, loss, outlay, open, gain
  <2>3. (p + d) * c + (x + paid) = (d * f + x) + (p * l + (p * (c - l) + d * (c - o)))
    BY <2>1, RowAgrees
  <2> QED BY <2>2, <2>3
<1>9. /\ close \in [Asset -> Int] /\ loss \in [Asset -> Int] /\ outlay \in [Asset -> Int]
      /\ open \in [Asset -> Int] /\ gain \in [Asset -> Int]
  <2>1. \A s \in Asset : close[s] \in Int /\ open[s] \in Int /\ gain[s] \in Int
    BY <1>4, <1>6
  <2>2. \A s \in Asset : loss[s] \in Int
    BY <1>7
  <2>3. \A s \in Asset : outlay[s] \in Int
    BY <1>6, <1>7
  <2>4. /\ close = [s \in Asset |-> close[s]] /\ loss = [s \in Asset |-> loss[s]]
        /\ outlay = [s \in Asset |-> outlay[s]] /\ open = [s \in Asset |-> open[s]]
        /\ gain = [s \in Asset |-> gain[s]]
    OBVIOUS
  <2> HIDE DEF close, loss, outlay, open, gain
  <2> QED BY <2>1, <2>2, <2>3, <2>4
<1>10. BT!Worth(quotes)' = purse' + BT!SumFunction(close)
  <2>1. BT!Worth(quotes)' = purse' + BT!SumFunction([s \in Asset |-> stake'[s] * quotes[s].close])
    BY DEF BT!Worth
  <2>2. [s \in Asset |-> stake'[s] * quotes[s].close] = close
    BY <1>1
  <2> QED BY <2>1, <2>2, Zenon
<1>11. purse + BT!SumFunction(open) = Capital + earned - costs
  <2>1. CASE dated = <<>>
    <3>1. \A s \in Asset : open[s] = 0
      BY <1>4, <2>1 DEF CurveBooked
    <3>2. BT!SumFunction(open) = SumFunctionOnSet(open, Asset)
      <4>1. DOMAIN open = Asset
        OBVIOUS
      <4> HIDE DEF open
      <4> QED BY <4>1, BacktestSum
    <3> HIDE DEF open
    <3>3. SumFunctionOnSet(open, Asset) = 0
      BY <3>1, SumZero DEF Quoted
    <3> QED BY <2>1, <3>2, <3>3 DEF CurveBooked, Quoted
  <2>2. CASE dated # <<>>
    <3>1. before = dated[Len(dated)]
      BY <2>2 DEF before
    <3>2. BT!Worth(before.quotes) = purse + BT!SumFunction(open)
      BY DEF BT!Worth
    <3> HIDE DEF open
    <3> QED BY <2>2, <3>1, <3>2 DEF CurveBooked, BT!CostsExplain
  <2> QED BY <2>1, <2>2
<1> HIDE DEF close, loss, outlay, open, gain
<1>12. /\ BT!SumFunction(close) + BT!SumFunction(loss)
            = BT!SumFunction(outlay) + (BT!SumFunction(open) + BT!SumFunction(gain))
       /\ BT!SumFunction(close) \in Int /\ BT!SumFunction(outlay) \in Int /\ BT!SumFunction(open) \in Int
       /\ BT!SumFunction(gain) \in Int /\ BT!SumFunction(loss) \in Int
  BY <1>8, <1>9, ColumnsAgree DEF Quoted
<1>13. /\ purse \in Int /\ costs \in Int /\ earned \in Int /\ Capital \in Int
  BY DEF CurveBooked, Quoted
<1> DEFINE sold == BT!SumFunction(close)
           paid == BT!SumFunction(outlay)
           had == BT!SumFunction(open)
           won == BT!SumFunction(gain)
           took == BT!SumFunction(loss)
<1>14. BT!Worth(quotes)' = Capital + earned' - costs'
  <2>1. /\ sold \in Int /\ paid \in Int /\ had \in Int /\ won \in Int /\ took \in Int
        /\ sold + took = paid + (had + won) /\ purse + had = Capital + earned - costs
    BY <1>11, <1>12
  <2>2. /\ purse' = purse - paid /\ costs' = costs + took /\ earned' = earned + won
        /\ BT!Worth(quotes)' = purse' + sold
    BY <1>1, <1>10
  <2> HIDE DEF sold, paid, had, won, took
  <2>3. (purse - paid) + sold = Capital + (earned + won) - (costs + took)
    BY <1>13, <2>1
  <2> QED BY <2>2, <2>3
<1>15. purse' \in Int /\ costs' \in Int /\ earned' \in Int
  BY <1>1, <1>12, <1>13
<1>16. stake' \in [Asset -> Int]
  BY <1>1, <1>4, <1>6
<1>17. dated' # <<>> /\ dated'[Len(dated')].quotes = quotes
  <2>1. dated' = now
    BY <1>1
  <2> HIDE DEF now
  <2> QED BY <1>2, <2>1, EmptySeq
<1>18. BT!CostsExplain'
  <2>1. BT!Worth(dated[Len(dated)].quotes)' = BT!Worth(quotes)'
    BY <1>17 DEF BT!Worth
  <2> QED BY <1>14, <2>1 DEF BT!CostsExplain
<1> QED BY <1>15, <1>16, <1>17, <1>18 DEF CurveBooked

\* What a backtest's curve shows is the capital, what prices brought to the
\* shares that were held and what fills and fees took, through any trades.
THEOREM CurvesAreExplained == ASSUME Gapped, Quoted PROVE BT!Spec => []BT!CostsExplain
<1>1. BT!Init => DatedBars /\ CurveBooked
  BY DEF BT!Init, DatedBars, CurveBooked, BT!CostsExplain, Quoted
<1>2. DatedBars /\ CurveBooked /\ [BT!Next]_(BT!vars) => (DatedBars /\ CurveBooked)'
  <2> SUFFICES ASSUME CurveBooked, [BT!Next]_(BT!vars) PROVE DatedBars' /\ CurveBooked'
    OBVIOUS
  <2>1. DatedBars'
    BY DatedStep DEF CurveBooked
  <2>2. CASE UNCHANGED BT!vars
    BY <2>2 DEF BT!vars, CurveBooked, DatedBars, BT!CostsExplain, BT!Worth
  <2>3. CASE BT!Next
    BY <2>1, <2>3, BarIsExplained DEF BT!Next
  <2> QED BY <2>1, <2>2, <2>3
<1>3. CurveBooked => BT!CostsExplain
  BY DEF CurveBooked
<1> QED BY <1>1, <1>2, <1>3, PTL DEF BT!Spec

(* The costs of a study.                                                     *)

\* Books are weights of finitely many names.
Weighted == IsFiniteSet(Name) /\ Books \subseteq [Name -> Int]

\* Every bar decided at was before this one, and its trade was charged by now;
\* the last book is the one that is held.
CostsBooked ==
    /\ config \in [length : Lengths, refresh : Steps, rebalance : Steps, aware : Awares]
    /\ pos \in Nat /\ book \in [Name -> Int]
    /\ DOMAIN target \subseteq {b \in Nat : b < pos}
    /\ DOMAIN cost \subseteq {b \in Nat : b <= pos}
    /\ W!Held(pos) = book
    /\ W!CostsOfChanges

\* WalkForward takes sums as Sums does.
LEMMA WalkSum == \A f, S : DOMAIN f = S => W!SumFunction(f) = SumFunctionOnSet(f, S)
<1> SUFFICES ASSUME NEW f PROVE W!SumFunction(f) = SumFunctionOnSet(f, DOMAIN f)
  OBVIOUS
<1> QED BY DEF W!SumFunction, W!SumFunctionOnSet, W!FoldFunctionOnSet, W!MapThenFoldSet,
               SumFunctionOnSet, FoldFunctionOnSet, MapThenFoldSet

\* To keep a book costs nothing.
LEMMA NothingTurnsOver ==
    ASSUME Weighted, NEW x \in [Name -> Int]
    PROVE  W!Turnover(x, x) = 0
<1> DEFINE f == [n \in Name |-> W!Size(x[n] - x[n])]
<1>1. \A n \in Name : f[n] = 0
  BY DEF W!Size
<1>2. DOMAIN f = Name
  OBVIOUS
<1>3. W!Turnover(x, x) = W!SumFunction(f)
  BY DEF W!Turnover
<1> HIDE DEF f
<1>4. SumFunctionOnSet(f, Name) = 0
  BY <1>1, SumZero DEF Weighted
<1> QED BY <1>2, <1>3, <1>4, WalkSum

\* A trade that is scaled leaves whole weights.
LEMMA TradeIsWhole ==
    ASSUME NEW from \in [Name -> Int], NEW to \in [Name -> Int],
           NEW room \in [W!Trading(from, to) -> {W!Unknown, 1, 2}]
    PROVE  W!Executed(from, to, room) \in [Name -> Int]
<1> DEFINE S == {2} \cup {room[n] : n \in DOMAIN room}
<1>1. W!Scale(room) \in Int
  <2>1. CASE \E n \in DOMAIN room : room[n] = W!Unknown
    BY <2>1 DEF W!Scale
  <2>2. CASE ~\E n \in DOMAIN room : room[n] = W!Unknown
    <3>1. S \subseteq {1, 2} /\ 2 \in S
      BY <2>2
    <3>2. W!Scale(room) = W!Min(S)
      BY <2>2 DEF W!Scale
    <3> HIDE DEF S
    <3>3. \E y \in S : \A z \in S : y <= z
      BY <3>1
    <3>4. W!Min(S) \in S
      BY <3>3 DEF W!Min
    <3>5. W!Min(S) \in {1, 2}
      BY <3>1, <3>4, Zenon
    <3> QED BY <3>2, <3>5
  <2> QED BY <2>1, <2>2
<1>2. ASSUME NEW n \in Name
      PROVE  from[n] + ((to[n] - from[n]) * W!Scale(room)) \div 2 \in Int
  <2>1. (to[n] - from[n]) * W!Scale(room) \in Int
    BY <1>1
  <2> QED BY <2>1
<1> QED BY <1>2 DEF W!Executed

\* A decision changes what is held after its bar, and nothing before.
LEMMA HeldMoves ==
    ASSUME CostsBooked, W!Decide
    PROVE  /\ \A b \in Nat : b <= pos => W!Held(b)' = W!Held(b)
           /\ \A b \in Nat : b > pos => W!Held(b)' = book'
<1>1. target' = [b \in DOMAIN target \cup {pos} |-> IF b = pos THEN book' ELSE target[b]]
  BY DEF W!Decide
<1>2. pos \in Nat /\ DOMAIN target \subseteq {b \in Nat : b < pos}
  BY DEF CostsBooked
<1>3. ASSUME NEW b \in Nat, b <= pos
      PROVE  W!Held(b)' = W!Held(b)
  <2> DEFINE S == {d \in DOMAIN target : d < b}
  <2>1. {d \in DOMAIN target' : d < b} = S
    BY <1>1, <1>2, <1>3
  <2>2. W!Held(b) = IF S = {} THEN W!Flat ELSE target[W!Max(S)]
    BY DEF W!Held
  <2>3. W!Held(b)' = IF S = {} THEN W!Flat ELSE target'[W!Max(S)]
    <3>1. W!Held(b)' = LET D == {d \in DOMAIN target' : d < b}
                       IN  IF D = {} THEN W!Flat ELSE target'[W!Max(D)]
      BY DEF W!Held
    <3> HIDE DEF S
    <3> QED BY <2>1, <3>1
  <2>4. S # {} => W!Max(S) \in DOMAIN target /\ W!Max(S) # pos
    <3> SUFFICES ASSUME S # {} PROVE W!Max(S) \in DOMAIN target /\ W!Max(S) # pos
      OBVIOUS
    <3>1. S \in SUBSET (-1 .. pos) /\ \A d \in S : d \in DOMAIN target /\ d # pos
      BY <1>2
    <3> HIDE DEF S
    <3>2. W!Max(S) \in S
      BY <1>2, <3>1, HasNewest
    <3> QED BY <3>1, <3>2, Zenon
  <2>5. S # {} => target'[W!Max(S)] = target[W!Max(S)]
    <3> HIDE DEF S
    <3> QED BY <1>1, <2>4
  <2> HIDE DEF S
  <2> QED BY <2>2, <2>3, <2>5
<1>4. ASSUME NEW b \in Nat, b > pos
      PROVE  W!Held(b)' = book'
  <2> DEFINE D == {d \in DOMAIN target' : d < b}
  <2>1. D \in SUBSET (-1 .. pos) /\ pos \in D
    BY <1>1, <1>2, <1>4
  <2>2. W!Held(b)' = IF D = {} THEN W!Flat ELSE target'[W!Max(D)]
    BY DEF W!Held
  <2> HIDE DEF D
  <2>3. W!Max(D) \in D /\ pos <= W!Max(D)
    <3>1. D # {}
      BY <2>1
    <3> QED BY <1>2, <2>1, <3>1, HasNewest
  <2>4. W!Max(D) = pos
    <3>1. W!Max(D) \in -1 .. pos
      BY <2>1, <2>3, Zenon
    <3> QED BY <1>2, <2>3, <3>1
  <2>5. target'[pos] = book'
    BY <1>1
  <2> QED BY <2>1, <2>2, <2>4, <2>5
<1> QED BY <1>3, <1>4

\* A decision is charged on the next bar, and on none that follows.
LEMMA DecisionIsCharged ==
    ASSUME StudyLengths, Weighted, CostsBooked, W!Decide
    PROVE  CostsBooked'
<1>1. /\ target' = [b \in DOMAIN target \cup {pos} |-> IF b = pos THEN book' ELSE target[b]]
      /\ cost' = [b \in DOMAIN cost \cup {pos + 1} |->
                    IF b = pos + 1 THEN W!Turnover(book, book') ELSE cost[b]]
      /\ pos' = pos + config.rebalance /\ config' = config
  BY DEF W!Decide, W!ChargedOn
<1>2. /\ pos \in Nat /\ book \in [Name -> Int] /\ config.rebalance \in Nat \ {0}
      /\ DOMAIN target \subseteq {b \in Nat : b < pos}
      /\ DOMAIN cost \subseteq {b \in Nat : b <= pos}
  BY DEF CostsBooked, StudyLengths
<1>3. book' \in [Name -> Int]
  <2>1. PICK to \in Books \cup {W!Flat} :
          \E room \in [W!Trading(book, to) -> {W!Unknown, 1, 2}] : book' = W!Executed(book, to, room)
    BY DEF W!Decide
  <2>2. to \in [Name -> Int]
    BY <2>1 DEF Weighted, W!Flat
  <2> QED BY <1>2, <2>1, <2>2, TradeIsWhole
<1>4. pos' \in Nat /\ pos' >= pos + 1
  BY <1>1, <1>2
<1>5. /\ DOMAIN target' \subseteq {b \in Nat : b < pos'}
      /\ DOMAIN cost' \subseteq {b \in Nat : b <= pos'}
  BY <1>1, <1>2, <1>4
<1>6. /\ \A b \in Nat : b = pos => W!Held(b)' = book
      /\ \A b \in Nat : b > pos => W!Held(b)' = book'
  <2>1. ASSUME NEW b \in Nat, b = pos PROVE W!Held(b)' = book
    <3>1. W!Held(b)' = W!Held(b)
      BY <1>2, <2>1, HeldMoves
    <3>2. W!Held(b) = book
      BY <2>1 DEF CostsBooked
    <3> QED BY <3>1, <3>2
  <2> QED BY <2>1, HeldMoves
<1>7. W!CostsOfChanges'
  <2>1. W!First \in Nat
    BY FirstBar
  <2> SUFFICES ASSUME NEW b \in W!First + 1 .. pos', b < config.length
               PROVE  W!Turnover(W!Held(b - 1)', W!Held(b)')
                        = IF b \in DOMAIN cost' THEN cost'[b] ELSE 0
    BY <1>1 DEF W!CostsOfChanges, W!First, W!Warmup
  <2>2. b \in Nat /\ b - 1 \in Nat
    BY <2>1, <1>4
  <2>3. CASE b <= pos
    <3>1. W!Held(b - 1)' = W!Held(b - 1) /\ W!Held(b)' = W!Held(b)
      BY <1>2, <2>2, <2>3, HeldMoves
    <3>2. W!Turnover(W!Held(b - 1), W!Held(b)) = IF b \in DOMAIN cost THEN cost[b] ELSE 0
      BY <2>1, <1>2, <2>3 DEF CostsBooked, W!CostsOfChanges
    <3>3. (b \in DOMAIN cost' <=> b \in DOMAIN cost) /\ (b \in DOMAIN cost => cost'[b] = cost[b])
      BY <1>1, <1>2, <2>2, <2>3
    <3> QED BY <3>1, <3>2, <3>3
  <2>4. CASE b = pos + 1
    <3>1. W!Held(b - 1)' = book /\ W!Held(b)' = book'
      <4>1. b - 1 = pos /\ b > pos
        BY <1>2, <2>4
      <4> QED BY <1>6, <2>2, <4>1
    <3>2. b \in DOMAIN cost' /\ cost'[b] = W!Turnover(book, book')
      BY <1>1, <2>4
    <3> QED BY <3>1, <3>2
  <2>5. CASE b > pos + 1
    <3>1. W!Held(b - 1)' = book' /\ W!Held(b)' = book'
      BY <1>2, <1>6, <2>2, <2>5
    <3>2. b \notin DOMAIN cost'
      BY <1>1, <1>2, <2>2, <2>5
    <3> QED BY <1>3, <3>1, <3>2, NothingTurnsOver
  <2> QED BY <1>2, <2>2, <2>3, <2>4, <2>5
<1>8. (W!Held(pos))' = book'
  <2>1. (W!Held(pos))' = LET D == {d \in DOMAIN target' : d < pos'}
                         IN  IF D = {} THEN W!Flat ELSE target'[W!Max(D)]
    BY DEF W!Held
  <2> DEFINE D == {d \in DOMAIN target' : d < pos'}
  <2>2. D \in SUBSET (-1 .. pos) /\ pos \in D
    BY <1>1, <1>2, <1>4
  <2>3. W!Max(D) = pos
    <3> HIDE DEF D
    <3>1. D # {} /\ pos \in Int
      BY <1>2, <2>2
    <3>2. W!Max(D) \in D /\ pos <= W!Max(D)
      BY <1>2, <2>2, <3>1, HasNewest
    <3>3. W!Max(D) \in -1 .. pos
      BY <2>2, <3>2, Zenon
    <3> QED BY <1>2, <3>2, <3>3
  <2>4. target'[pos] = book'
    BY <1>1
  <2> HIDE DEF D
  <2>5. (W!Held(pos))' = IF D = {} THEN W!Flat ELSE target'[W!Max(D)]
    BY <2>1 DEF D
  <2> QED BY <2>2, <2>3, <2>4, <2>5
<1> QED BY <1>1, <1>3, <1>4, <1>5, <1>7, <1>8 DEF CostsBooked

\* A cost falls on the bars where the book of a study changes and is that of
\* the change, however long the study and whatever its market takes of a trade.
THEOREM CostsAreOfChanges ==
    ASSUME StudyLengths, Weighted
    PROVE  W!Spec => []W!CostsOfChanges
<1>1. W!Init => CostsBooked
  <2> SUFFICES ASSUME W!Init PROVE CostsBooked
    OBVIOUS
  <2>1. /\ config \in [length : Lengths, refresh : Steps, rebalance : Steps, aware : Awares]
        /\ pos = W!First /\ book = W!Flat /\ DOMAIN target = {} /\ DOMAIN cost = {}
    BY DEF W!Init
  <2>2. W!First \in Nat
    BY FirstBar
  <2>3. W!Held(pos) = W!Flat
    BY <2>1 DEF W!Held
  <2>4. W!CostsOfChanges
    BY <2>1, <2>2 DEF W!CostsOfChanges
  <2> QED BY <2>1, <2>2, <2>3, <2>4 DEF CostsBooked, W!Flat
<1>2. CostsBooked /\ [W!Next]_(W!vars) => CostsBooked'
  <2> SUFFICES ASSUME CostsBooked, [W!Next]_(W!vars) PROVE CostsBooked'
    OBVIOUS
  <2>1. CASE W!Research \/ UNCHANGED W!vars
    <3>1. UNCHANGED <<config, pos, book, target, cost>>
      BY <2>1 DEF W!Research, W!vars
    <3>2. (W!CostsOfChanges)' = W!CostsOfChanges
      BY <3>1 DEF W!CostsOfChanges, W!Held
    <3>3. (W!Held(pos))' = W!Held(pos)
      BY <3>1 DEF W!Held
    <3> QED BY <3>1, <3>2, <3>3 DEF CostsBooked
  <2>2. CASE W!Decide
    BY <2>2, DecisionIsCharged
  <2> QED BY <2>1, <2>2 DEF W!Next
<1>3. CostsBooked => W!CostsOfChanges
  BY DEF CostsBooked
<1> QED BY <1>1, <1>2, <1>3, PTL DEF W!Spec

----------------------------------------------------------------------------
(* All of them: what the run of Services checks is what the theorems above  *)
(* say of each.                                                             *)

\* A step of the services is one of each or leaves it, and `part` stays.
LEMMA PartStep ==
    ASSUME [Next]_vars
    PROVE  /\ part' = part /\ [K!Next]_(K!vars) /\ [PC!Next]_(PC!vars) /\ [B!Next]_(B!vars)
           /\ [R!Next]_(R!vars) /\ [T!Next]_(T!vars) /\ [H!Next]_(H!vars)
           /\ [W!Next]_(W!vars) /\ [SL!Next]_(SL!vars) /\ [A!Next]_(A!vars)
           /\ [E!Next]_(E!vars) /\ [V!Next]_(V!vars) /\ [P!Next]_(P!vars)
           /\ [N!Next]_(N!vars) /\ [BT!Next]_(BT!vars) /\ [BF!Next]_(BF!vars)
           /\ [J!Next]_(J!vars) /\ [I!Next]_(I!vars)
<1>1. CASE UNCHANGED vars
  BY <1>1 DEF vars, ofKernels, ofCache, ofBlotter, ofRecorder, ofSessions, ofThesis,
              ofWalk, ofStops, ofAssistant, ofAlerts, ofVintages, ofPanels, ofAlpaca,
              ofBacktest, ofBars, ofQuotes, ofBoxes, K!vars, PC!vars, B!vars, R!vars,
              T!vars, H!vars, W!vars, SL!vars, A!vars, E!vars, V!vars, P!vars, N!vars,
              BT!vars, BF!vars, J!vars, I!vars
<1>2. CASE Next
  <2>1. OthersStay
    BY <1>2 DEF Next, OfKernels, OfCache, OfBlotter, OfReplay, OfRecorder, OfSessions,
                OfThesis, OfWalk, OfStops, OfAssistant, OfAlerts, OfVintages, OfPanels,
                OfAlpaca, OfBacktest, OfBars, OfQuotes, OfBoxes, OfGates, OfClusters,
                OfFilings, OfQuarters, OfSegments
  <2>2. /\ (part = "kernels" => K!Next) /\ (part = "cache" => PC!Next)
        /\ (part = "blotter" => B!Next) /\ (part = "recorder" => R!Next)
        /\ (part = "sessions" => T!Next) /\ (part = "thesis" => H!Next)
        /\ (part = "walk" => W!Next) /\ (part = "stops" => SL!Next)
        /\ (part = "assistant" => A!Next) /\ (part = "alerts" => E!Next)
        /\ (part = "vintages" => V!Next) /\ (part = "panels" => P!Next)
        /\ (part = "alpaca" => N!Next) /\ (part = "backtest" => BT!Next)
        /\ (part = "bars" => BF!Next) /\ (part = "quotes" => J!Next)
        /\ (part = "boxes" => I!Next)
    BY <1>2 DEF Next, OfKernels, OfCache, OfBlotter, OfReplay, OfRecorder, OfSessions,
                OfThesis, OfWalk, OfStops, OfAssistant, OfAlerts, OfVintages, OfPanels,
                OfAlpaca, OfBacktest, OfBars, OfQuotes, OfBoxes, OfGates, OfClusters,
                OfFilings, OfQuarters, OfSegments
  <2>3. /\ part' = part
        /\ (part = "kernels" \/ UNCHANGED ofKernels)
        /\ (part = "cache" \/ UNCHANGED ofCache)
        /\ (part = "blotter" \/ UNCHANGED ofBlotter)
        /\ (part = "recorder" \/ UNCHANGED ofRecorder)
        /\ (part = "sessions" \/ UNCHANGED ofSessions)
        /\ (part = "thesis" \/ UNCHANGED ofThesis) /\ (part = "walk" \/ UNCHANGED ofWalk)
        /\ (part = "stops" \/ UNCHANGED ofStops)
        /\ (part = "assistant" \/ UNCHANGED ofAssistant)
        /\ (part = "alerts" \/ UNCHANGED ofAlerts)
        /\ (part = "vintages" \/ UNCHANGED ofVintages)
        /\ (part = "panels" \/ UNCHANGED ofPanels)
        /\ (part = "alpaca" \/ UNCHANGED ofAlpaca)
        /\ (part = "backtest" \/ UNCHANGED ofBacktest)
        /\ (part = "bars" \/ UNCHANGED ofBars) /\ (part = "quotes" \/ UNCHANGED ofQuotes)
        /\ (part = "boxes" \/ UNCHANGED ofBoxes)
    BY <2>1 DEF OthersStay
  <2> QED BY <2>2, <2>3 DEF ofKernels, ofCache, ofBlotter, ofRecorder, ofSessions,
                             ofThesis, ofWalk, ofStops, ofAssistant, ofAlerts,
                             ofVintages, ofPanels, ofAlpaca, ofBacktest, ofBars,
                             ofQuotes, ofBoxes, K!vars, PC!vars, B!vars, R!vars, T!vars,
                             H!vars, W!vars, SL!vars, A!vars, E!vars, V!vars, P!vars,
                             N!vars, BT!vars, BF!vars, J!vars, I!vars
<1> QED BY <1>1, <1>2

\* The services implement each of their parts: those with one start in every
\* behaviour, the others in the behaviours that look at them.
THEOREM EachIsItself ==
    /\ Spec => /\ K!Spec /\ PC!Spec /\ B!Spec /\ R!Spec /\ T!Spec /\ H!Spec /\ E!Spec
               /\ V!Spec /\ N!Spec /\ BT!Spec /\ BF!Spec /\ I!Spec
    /\ Spec => (part = "walk" => W!Spec)
    /\ Spec => (part = "stops" => SL!Spec)
    /\ Spec => (part = "assistant" => A!Spec)
    /\ Spec => (part = "panels" => P!Spec)
    /\ Spec => (part = "quotes" => J!Spec)
<1>1. Init => /\ K!Init /\ PC!Init /\ B!Init /\ R!Init /\ T!Init /\ H!Init /\ E!Init
             /\ V!Init /\ N!Init /\ BT!Init /\ BF!Init /\ I!Init
  BY DEF Init
<1>2. Init => /\ (part = "walk" => W!Init) /\ (part = "stops" => SL!Init)
             /\ (part = "assistant" => A!Init) /\ (part = "panels" => P!Init)
             /\ (part = "quotes" => J!Init)
  BY DEF Init
<1> QED BY <1>1, <1>2, PartStep, PTL DEF Spec, K!Spec, PC!Spec, B!Spec, R!Spec, T!Spec,
                                         H!Spec, W!Spec, SL!Spec, A!Spec, E!Spec,
                                         V!Spec, P!Spec, N!Spec, BT!Spec, BF!Spec,
                                         J!Spec, I!Spec

\* Who asks is answered: run() returns the line of its own cell, the assistant's
\* stream_reply gives every tool call its result, and a symbol that is watched
\* through Alpaca gets its ticks under the name it was asked for by.
THEOREM CellsGetTheirReplies ==
    ASSUME NoKernel \notin KernelNo, Dialogues
    PROVE  Spec => []OwnReply
<1>1. Spec => [](K!OwnReply)
  BY ResultsAreOwn, EachIsItself, PTL
<1>2. Spec => [](part = "assistant" => A!EveryCallAnswered)
  <2>1. ~(part = "assistant") /\ [Next]_vars => (~(part = "assistant"))'
    BY PartStep
  <2>2. A!Spec => [](A!EveryCallAnswered)
    BY CallsAreAnswered, PTL
  <2>3. Spec => (part = "assistant" => A!Spec)
    BY EachIsItself
  <2> QED BY <2>1, <2>2, <2>3, PTL DEF Spec
<1>3. Spec => [](N!AskedIsCarried)
  BY WatchedIsCarried, EachIsItself, PTL
<1>4. /\ K!OwnReply /\ (part = "assistant" => A!EveryCallAnswered) /\ N!AskedIsCarried
     => OwnReply
  BY DEF OwnReply, When
<1> QED BY <1>1, <1>2, <1>3, <1>4, PTL

\* What runs is found where the code looks for it, or was lost in a way that is
\* named: KernelManager's process of a user, the recorder of the process,
\* SessionManager's session, the page's connection and a box's watcher.
THEOREM OneRunsOfEach ==
    ASSUME NoKernel \notin KernelNo, Nobody \notin RecNo, Nobody \notin SesNo, LastTick \in Nat,
           Numbers, Layouts
    PROVE  Spec => []OneOfEach
<1>1. Spec => [](K!StrayExplained)
  BY ResultsAreOwn, EachIsItself, PTL
<1>2. Spec => [](R!OneRecorder)
  BY TicksAreRecorded, EachIsItself, PTL
<1>3. Spec => [](T!SessionsAccounted)
  BY SessionsAreAccounted, EachIsItself, PTL
<1>4. Spec => [](part = "quotes" => J!OneFeed)
  <2>1. ~(part = "quotes") /\ [Next]_vars => (~(part = "quotes"))'
    BY PartStep
  <2>2. J!Spec => [](J!OneFeed)
    BY OneFeedPerProvider, PTL
  <2>3. Spec => (part = "quotes" => J!Spec)
    BY EachIsItself
  <2> QED BY <2>1, <2>2, <2>3, PTL DEF Spec
<1>5. Spec => [](I!WatchersShown)
  BY WatchersAreShown, EachIsItself, PTL
<1>6. /\ K!StrayExplained /\ R!OneRecorder /\ T!SessionsAccounted
     /\ (part = "quotes" => J!OneFeed) /\ I!WatchersShown
     => OneOfEach
  BY DEF OneOfEach, When
<1> QED BY <1>1, <1>2, <1>3, <1>4, <1>5, <1>6, PTL

\* A tick that TickDB is given is in its table once, whatever the recorders that
\* came and went; a print is in one bar of its session, as on the tape.
THEOREM TicksAreKeptOnce ==
    ASSUME Nobody \notin RecNo, LastTick \in Nat, Windowed
    PROVE  Spec => []RecordedOnce
<1>1. Spec => [](R!RecordedOnce)
  BY TicksAreRecorded, EachIsItself, PTL
<1>2. Spec => [](BF!BarsOfTape)
  BY BarsAreTold, EachIsItself, PTL
<1>3. R!RecordedOnce /\ BF!BarsOfTape => RecordedOnce
  BY DEF RecordedOnce, When
<1> QED BY <1>1, <1>2, <1>3, PTL

\* The walk-forward loop decides on research whose labels have ended, a dated
\* panel shows what was public by then and shows it for good, and an order of a
\* hook is filled by a print after those the hook could see
\* (walkforward_research.py:546-700, multisource_research.py:715-768, trading/engine.py:111-150).
THEOREM NothingAheadIsSeen ==
    ASSUME StudyLengths, CalendarDays, Windowed
    PROVE  Spec => []NoLookAhead
<1>1. Spec => [](part = "walk" => W!NoLookAhead)
  <2>1. ~(part = "walk") /\ [Next]_vars => (~(part = "walk"))'
    BY PartStep
  <2>2. W!Spec => [](W!NoLookAhead)
    BY NothingAheadIsRead, PTL
  <2>3. Spec => (part = "walk" => W!Spec)
    BY EachIsItself
  <2> QED BY <2>1, <2>2, <2>3, PTL DEF Spec
<1>2. Spec => [](part = "panels" => P!PastStands)
  <2>1. ~(part = "panels") /\ [Next]_vars => (~(part = "panels"))'
    BY PartStep
  <2>2. P!Spec => [](P!PastStands)
    BY PastStaysShown, PTL
  <2>3. Spec => (part = "panels" => P!Spec)
    BY EachIsItself
  <2> QED BY <2>1, <2>2, <2>3, PTL DEF Spec
<1>3. Spec => [](BF!FillsAsReplayed)
  BY BarsAreTold, EachIsItself, PTL
<1>4. /\ (part = "walk" => W!NoLookAhead) /\ (part = "panels" => P!PastStands)
      /\ BF!FillsAsReplayed
     => NoLookAhead
  BY DEF NoLookAhead, When
<1> QED BY <1>1, <1>2, <1>3, <1>4, PTL

\* TTLCache and the decorator over it serve nothing older than their two
\* lifetimes and the two calls that stored it, on disk or in memory.
THEOREM TheCacheServesFresh ==
    ASSUME Lifetimes
    PROVE  Spec => []ServedFresh
<1>1. Spec => [](PC!ServedFresh)
  BY ServedIsFresh, EachIsItself, PTL
<1>2. /\ PC!ServedFresh
     => ServedFresh
  BY DEF ServedFresh, When
<1> QED BY <1>1, <1>2, PTL

\* rebuild_positions leaves a portfolio as its log has it, unless the commit
\* rested on reads that another request had outdated; and from the first block
\* that begins in it, a window of a study's bars holds what every longer one
\* holds (blotter.py, stat_arb.py:141).
THEOREM TheViewsAgree ==
    ASSUME Entered, Gapped
    PROVE  Spec => []ViewAgrees
<1>1. Spec => [](B!ViewAgrees)
  BY ViewsAgree, EachIsItself, PTL
<1>2. Spec => [](BT!Anchored)
  BY WindowsAreAnchored, EachIsItself, PTL
<1>3. B!ViewAgrees /\ BT!Anchored => ViewAgrees
  BY DEF ViewAgrees, When
<1> QED BY <1>1, <1>2, <1>3, PTL

\* The stop-loss leaves a weight exactly where no bar of its position has met
\* the stop, whatever the prices that are missing.
THEOREM TheStopsHold ==
    ASSUME Quotations
    PROVE  Spec => []StopsHold
<1>1. Spec => [](part = "stops" => SL!StopsHold)
  <2>1. ~(part = "stops") /\ [Next]_vars => (~(part = "stops"))'
    BY PartStep
  <2>2. SL!Spec => [](SL!StopsHold)
    BY StopsAreHeld, PTL
  <2>3. Spec => (part = "stops" => SL!Spec)
    BY EachIsItself
  <2> QED BY <2>1, <2>2, <2>3, PTL DEF Spec
<1>2. /\ (part = "stops" => SL!StopsHold)
     => StopsHold
  BY DEF StopsHold, When
<1> QED BY <1>1, <1>2, PTL

\* A result of another process than the last, whose variables are gone, is
\* marked fresh unless the Kernel was taken from under the run.
THEOREM LossesAreTold == ASSUME NoKernel \notin KernelNo PROVE Spec => StateLossTold
<1>1. K!Spec => K!StateLossTold
  BY ResultsAreOwn
<1> QED BY <1>1, EachIsItself, PTL DEF StateLossTold

\* A step of the part that is looked at is one of its own state.
LEMMA OwnStep ==
    ASSUME Next
    PROVE  /\ part = "thesis" /\ UNCHANGED H!vars => UNCHANGED vars
           /\ part = "alerts" /\ UNCHANGED E!vars => UNCHANGED vars
           /\ part = "vintages" /\ UNCHANGED V!vars => UNCHANGED vars
<1>1. OthersStay
  BY DEF Next, OfKernels, OfCache, OfBlotter, OfReplay, OfRecorder, OfSessions,
         OfThesis, OfWalk, OfStops, OfAssistant, OfAlerts, OfVintages, OfPanels,
         OfAlpaca, OfBacktest, OfBars, OfQuotes, OfBoxes, OfGates, OfClusters,
         OfFilings, OfQuarters, OfSegments
<1> QED BY <1>1 DEF OthersStay, Sharing, H!vars, E!vars, V!vars, vars, ofKernels,
                      ofCache, ofBlotter, ofRecorder, ofSessions, ofThesis, ofWalk,
                      ofStops, ofAssistant, ofAlerts, ofVintages, ofPanels, ofAlpaca,
                      ofBacktest, ofBars, ofQuotes, ofBoxes, ofShared

\* No commit of evaluate_thesis, of the alerts or of a promotion writes what it
\* found on older rows over what they are now, unless the requests overlapped.
THEOREM VerdictsAreKept == Spec => VerdictStands
<1>1. ASSUME [Next]_vars, [H!VerdictKept]_(H!vars), [E!TriggerCounted]_(E!vars),
             [V!NewestTraded]_(V!vars)
      PROVE  [/\ When("thesis", H!VerdictKept) /\ When("alerts", E!TriggerCounted)
              /\ When("vintages", V!NewestTraded)]_vars
  BY <1>1, OwnStep DEF When
<1> QED BY <1>1, VerdictsStand, TriggersAreCounted, NewestIsTraded, EachIsItself,
           PTL DEF Spec, VerdictStands, H!VerdictStands, E!TriggersCounted, V!NewestTrades
=============================================================================

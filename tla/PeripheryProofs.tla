--------------------------- MODULE PeripheryProofs ---------------------------
(***************************************************************************)
(* What is proved of the parts of ServiceParts, each by itself and for     *)
(* every value of its constants: the bars of a paper session beside those  *)
(* of the tape, the kernel processes of the playground, the walk of a      *)
(* study over its history, the cache that the providers share, the two     *)
(* halves of the browser page, the source of live prices, a turn of the    *)
(* assistant, the panels of a study and its stop-loss; then the requests   *)
(* that load rows, wait, and commit what they found - of vintages, alerts  *)
(* and theses - and the session table and the recorder, objects of one     *)
(* process whose coroutines start and stop them across awaits.             *)
(*                                                                         *)
(* Each section has an inductive invariant, a lemma for every step, and    *)
(* the theorem last.                                                       *)
(***************************************************************************)
EXTENDS ServiceParts, FiniteSetTheorems, SequenceTheorems, Sums

----------------------------------------------------------------------------
(* The bars: those a paper session makes of its prints hold the prints that *)
(* the tape's hold, and an order is filled as replay fills it.              *)

Windowed == TapePrices \subseteq Int /\ Width \in Nat \ {0}

\* Windows come in the order of time.
LEMMA WindowsPass ==
    ASSUME Windowed, NEW a \in Nat, NEW b \in Nat, a <= b
    PROVE  BF!Bucket(a) \in Nat /\ BF!Bucket(a) <= BF!Bucket(b)
<1> DEFINE p == a \div Width
           q == b \div Width
<1>1. Width \in Nat /\ Width > 0
  BY DEF Windowed
<1>2. p \in Int /\ q \in Int /\ p * Width <= a /\ a < (p + 1) * Width /\ q * Width <= b /\ b < (q + 1) * Width
  BY <1>1
<1>3. p >= 0
  <2> SUFFICES ASSUME p + 1 <= 0 PROVE FALSE
    BY <1>2
  <2> HIDE DEF p
  <2> DEFINE u == (p + 1) * Width
  <2>1. u <= 0 /\ u \in Int /\ a < u
    BY <1>1, <1>2
  <2> HIDE DEF u
  <2> QED BY <2>1
<1>4. p <= q
  <2> SUFFICES ASSUME q + 1 <= p PROVE FALSE
    BY <1>2
  <2> HIDE DEF p, q
  <2> DEFINE u == (q + 1) * Width
           v == p * Width
  <2>1. u <= v /\ u \in Int /\ v \in Int /\ b < u /\ v <= a
    BY <1>1, <1>2
  <2> HIDE DEF u, v
  <2> QED BY <2>1
<1> QED BY <1>2, <1>3, <1>4 DEF BF!Bucket

Candle == [bucket : Nat, open : Int, high : Int, low : Int, close : Int, prints : Seq(Nat)]

Takes(bar, n) == \E i \in 1 .. Len(bar.prints) : bar.prints[i] = n
Holds(series, n) == \E k \in 1 .. Len(series) : Takes(series[k], n)
Waits(queue, n) == \E i \in 1 .. Len(queue) : queue[i] = n

\* A bar of some prints of a symbol: what it says of the prices is said by the tape.
Says(bar, rows) ==
    LET p == bar.prints
        l == Len(p)
    IN  /\ bar.open = rows[p[1]].price /\ bar.close = rows[p[l]].price
        /\ \E i \in 1 .. l : rows[p[i]].price = bar.high
        /\ \E i \in 1 .. l : rows[p[i]].price = bar.low
        /\ \A i \in 1 .. l : bar.low <= rows[p[i]].price /\ rows[p[i]].price <= bar.high
IsBar(bar, s, rows) ==
    /\ bar \in Candle /\ Len(bar.prints) > 0
    /\ \A i \in 1 .. Len(bar.prints) : bar.prints[i] \in 1 .. Len(rows) /\ rows[bar.prints[i]].symbol = s
    /\ \A i, j \in 1 .. Len(bar.prints) : i < j => bar.prints[i] < bar.prints[j]
    /\ Says(bar, rows)

\* Bars of a symbol, window after window and print after print.
AreBars(series, s, rows) ==
    /\ series \in Seq(Candle)
    /\ \A k \in 1 .. Len(series) : IsBar(series[k], s, rows)
    /\ \A k, l \in 1 .. Len(series) : k < l =>
          /\ series[k].bucket < series[l].bucket
          /\ \A m, n : Takes(series[k], m) /\ Takes(series[l], n) => m < n

IsTape(rows) == rows \in Seq([symbol : Symbol, price : TapePrices, at : Nat])

LEMMA TapeSays ==
    ASSUME Windowed, NEW rows, IsTape(rows), NEW n \in 1 .. Len(rows)
    PROVE  /\ rows[n].price \in Int /\ rows[n].symbol \in Symbol /\ rows[n].at \in Nat
           /\ n \in Nat /\ Len(rows) \in Nat
<1>1. rows[n] \in [symbol : Symbol, price : TapePrices, at : Nat] /\ Len(rows) \in Nat
  BY ElementOfSeq, LenProperties DEF IsTape
<1>2. rows[n].price \in TapePrices /\ rows[n].symbol \in Symbol /\ rows[n].at \in Nat
  BY <1>1
<1>3. rows[n].price \in Int
  BY <1>2 DEF Windowed
<1> QED BY <1>1, <1>2, <1>3

\* A print that opens a bar.
LEMMA OpenedIs ==
    ASSUME Windowed, IsTape(tape), NEW n \in 1 .. Len(tape), NEW bucket \in Nat
    PROVE  /\ IsBar(BF!Opened(n, bucket), tape[n].symbol, tape)
           /\ \A m : Takes(BF!Opened(n, bucket), m) <=> m = n
           /\ BF!Opened(n, bucket).bucket = bucket /\ BF!Opened(n, bucket).prints = <<n>>
           /\ BF!Opened(n, bucket).open = tape[n].price
<1> DEFINE b == BF!Opened(n, bucket)
<1>1. b = [bucket |-> bucket, open |-> tape[n].price, high |-> tape[n].price,
           low |-> tape[n].price, close |-> tape[n].price, prints |-> <<n>>]
  BY DEF BF!Opened
<1>2. tape[n].price \in Int /\ n \in Nat
  BY TapeSays
<1>3. b \in Candle
  BY <1>1, <1>2 DEF Candle
<1>4. b.prints = <<n>> /\ Len(b.prints) = 1 /\ b.prints[1] = n
  BY <1>1
<1>5. Says(b, tape)
  BY <1>1, <1>2, <1>4 DEF Says
<1> QED BY <1>1, <1>2, <1>3, <1>4, <1>5 DEF IsBar, Takes

\* A bar with one print more.
LEMMA UpdatedIs ==
    ASSUME Windowed, IsTape(tape), NEW n \in 1 .. Len(tape), NEW b, IsBar(b, tape[n].symbol, tape),
           \A m : Takes(b, m) => m < n
    PROVE  /\ IsBar(BF!Updated(b, n), tape[n].symbol, tape)
           /\ \A m : Takes(BF!Updated(b, n), m) <=> Takes(b, m) \/ m = n
           /\ BF!Updated(b, n).bucket = b.bucket
           /\ BF!Updated(b, n).open = b.open /\ BF!Updated(b, n).prints[1] = b.prints[1]
<1> DEFINE c == BF!Updated(b, n)
           p == tape[n].price
           s == tape[n].symbol
           l == Len(b.prints)
<1>1. b \in Candle /\ l \in Nat /\ l > 0 /\ p \in Int /\ n \in Nat /\ b.prints \in Seq(Nat)
  <2>1. b \in Candle /\ l > 0
    BY DEF IsBar
  <2>2. b.prints \in Seq(Nat)
    BY <2>1 DEF Candle
  <2>3. p \in Int /\ n \in Nat
    BY TapeSays
  <2> QED BY <2>1, <2>2, <2>3, LenProperties
<1>2. /\ c.bucket = b.bucket /\ c.open = b.open /\ c.close = p
      /\ c.high = IF b.high < p THEN p ELSE b.high
      /\ c.low = IF b.low > p THEN p ELSE b.low
      /\ c.prints = Append(b.prints, n)
  BY <1>1 DEF BF!Updated, Candle
<1>17. c \in [bucket : {c.bucket}, open : {c.open}, high : {c.high}, low : {c.low},
              close : {c.close}, prints : {c.prints}]
  BY <1>1 DEF BF!Updated, Candle
<1>3. /\ c.prints \in Seq(Nat) /\ Len(c.prints) = l + 1 /\ c.prints[l + 1] = n
      /\ \A i \in 1 .. l : c.prints[i] = b.prints[i]
  BY <1>1, <1>2, AppendProperties
<1>4. b.bucket \in Nat /\ b.open \in Int /\ b.high \in Int /\ b.low \in Int
  BY <1>1 DEF Candle
<1>8. /\ \A i \in 1 .. l : b.prints[i] \in 1 .. Len(tape) /\ tape[b.prints[i]].symbol = s
      /\ \A i, j \in 1 .. l : i < j => b.prints[i] < b.prints[j]
      /\ \A i \in 1 .. l : b.prints[i] < n
      /\ b.open = tape[b.prints[1]].price
      /\ \A i \in 1 .. l : b.low <= tape[b.prints[i]].price /\ tape[b.prints[i]].price <= b.high
      /\ \A i \in 1 .. l : tape[b.prints[i]].price \in Int
  <2>1. \A i \in 1 .. l : Takes(b, b.prints[i])
    BY DEF Takes
  <2>2. \A i \in 1 .. l : b.prints[i] \in 1 .. Len(tape)
    BY DEF IsBar
  <2>3. \A k \in 1 .. Len(tape) : tape[k].price \in Int
    BY TapeSays
  <2> QED BY <2>1, <2>2, <2>3 DEF IsBar, Says
<1>9. /\ \E i \in 1 .. l : tape[b.prints[i]].price = b.high
      /\ \E i \in 1 .. l : tape[b.prints[i]].price = b.low
  BY DEF IsBar, Says
<1> HIDE DEF c, p, l, s
<1>5. c \in Candle
  BY <1>1, <1>2, <1>3, <1>4, <1>17 DEF Candle
<1>6. \A i \in 1 .. l + 1 : i \in 1 .. l \/ i = l + 1
  BY <1>1
<1>7. ASSUME NEW m PROVE Takes(c, m) <=> Takes(b, m) \/ m = n
  <2>1. Takes(c, m) <=> \E i \in 1 .. l + 1 : c.prints[i] = m
    BY <1>3 DEF Takes
  <2>2. Takes(b, m) <=> \E i \in 1 .. l : b.prints[i] = m
    BY DEF Takes, l
  <2>3. 1 .. l \subseteq 1 .. l + 1 /\ l + 1 \in 1 .. l + 1
    BY <1>1
  <2> HIDE DEF Takes
  <2> QED BY <1>3, <1>6, <2>1, <2>2, <2>3
<1>10. \E i \in 1 .. l + 1 : tape[c.prints[i]].price = c.high
  <2>1. CASE b.high < p
    BY <1>1, <1>2, <1>3, <2>1 DEF p
  <2>2. CASE ~(b.high < p)
    <3>1. PICK i \in 1 .. l : tape[b.prints[i]].price = b.high
      BY <1>9
    <3> QED BY <1>1, <1>2, <1>3, <2>2, <3>1
  <2> QED BY <2>1, <2>2
<1>11. \E i \in 1 .. l + 1 : tape[c.prints[i]].price = c.low
  <2>1. CASE b.low > p
    BY <1>1, <1>2, <1>3, <2>1 DEF p
  <2>2. CASE ~(b.low > p)
    <3>1. PICK i \in 1 .. l : tape[b.prints[i]].price = b.low
      BY <1>9
    <3> QED BY <1>1, <1>2, <1>3, <2>2, <3>1
  <2> QED BY <2>1, <2>2
<1>18. c.low <= b.low /\ c.low <= p /\ b.high <= c.high /\ p <= c.high /\ c.low \in Int /\ c.high \in Int
  BY <1>1, <1>2, <1>4
<1>12. \A i \in 1 .. l + 1 : c.low <= tape[c.prints[i]].price /\ tape[c.prints[i]].price <= c.high
  <2> TAKE i \in 1 .. l + 1
  <2>1. CASE i \in 1 .. l
    <3> DEFINE x == tape[b.prints[i]].price
    <3>1. tape[c.prints[i]].price = x
      BY <1>3, <2>1
    <3>2. x \in Int /\ b.low <= x /\ x <= b.high
      BY <1>8, <2>1
    <3> HIDE DEF x
    <3> QED BY <1>18, <1>4, <3>1, <3>2
  <2>2. CASE i = l + 1
    <3>1. tape[c.prints[i]].price = p
      BY <1>3, <2>2 DEF p
    <3> QED BY <1>18, <3>1
  <2> QED BY <1>6, <2>1, <2>2
<1>13. \A i, j \in 1 .. l + 1 : i < j => c.prints[i] < c.prints[j]
  <2> TAKE i, j \in 1 .. l + 1
  <2> HAVE i < j
  <2>4. i \in 1 .. l
    BY <1>1
  <2>1. i \in 1 .. l /\ c.prints[i] = b.prints[i]
    BY <1>3, <2>4
  <2>2. CASE j \in 1 .. l
    BY <1>3, <1>8, <2>1, <2>2
  <2>3. CASE j = l + 1
    BY <1>3, <1>8, <2>1, <2>3
  <2> QED BY <1>6, <2>2, <2>3
<1>14. \A i \in 1 .. l + 1 : c.prints[i] \in 1 .. Len(tape) /\ tape[c.prints[i]].symbol = s
  BY <1>3, <1>6, <1>8 DEF s
<1>15. c.open = tape[c.prints[1]].price /\ c.prints[1] = b.prints[1]
       /\ c.close = tape[c.prints[l + 1]].price
  <2>1. 1 \in 1 .. l
    BY <1>1
  <2> QED BY <1>2, <1>3, <1>8, <2>1 DEF p
<1>19. Says(c, tape)
  BY <1>3, <1>10, <1>11, <1>12, <1>15 DEF Says
<1>16. IsBar(c, s, tape)
  <2>1. Len(c.prints) > 0
    BY <1>1, <1>3
  <2> QED BY <1>3, <1>5, <1>13, <1>14, <1>19, <2>1 DEF IsBar
<1> QED BY <1>2, <1>7, <1>15, <1>16 DEF c, s


LEMMA CandlesSay ==
    ASSUME NEW series \in Seq(Candle), NEW k \in 1 .. Len(series)
    PROVE  /\ series[k] \in Candle /\ series[k].bucket \in Nat
           /\ series[k].prints \in Seq(Nat) /\ Len(series[k].prints) \in Nat
<1>1. series[k] \in Candle
  BY ElementOfSeq
<1>2. series[k].bucket \in Nat /\ series[k].prints \in Seq(Nat)
  BY <1>1 DEF Candle
<1> QED BY <1>1, <1>2, LenProperties

\* What was said of a tape is true of the tape that has gone on.
LEMMA TapeGoesOn ==
    ASSUME NEW s, NEW rows, NEW more, Len(rows) \in Nat, Len(more) \in Nat, Len(rows) <= Len(more),
           \A n \in 1 .. Len(rows) : more[n] = rows[n],
           NEW series, AreBars(series, s, rows)
    PROVE  AreBars(series, s, more)
<1>1. ASSUME NEW b, IsBar(b, s, rows) PROVE IsBar(b, s, more)
  <2>1. \A i \in 1 .. Len(b.prints) : /\ b.prints[i] \in 1 .. Len(rows)
                                      /\ rows[b.prints[i]].symbol = s
    BY <1>1 DEF IsBar
  <2>2. \A i \in 1 .. Len(b.prints) : /\ b.prints[i] \in 1 .. Len(more)
                                      /\ more[b.prints[i]] = rows[b.prints[i]]
    BY <2>1
  <2>3. Len(b.prints) \in Nat /\ Len(b.prints) > 0
    BY <1>1, LenProperties DEF IsBar, Candle
  <2>4. 1 \in 1 .. Len(b.prints) /\ Len(b.prints) \in 1 .. Len(b.prints)
    BY <2>3
  <2>5. Says(b, rows)
    BY <1>1 DEF IsBar
  <2>6. Says(b, more)
    BY <2>2, <2>4, <2>5 DEF Says
  <2> QED BY <1>1, <2>1, <2>2, <2>6 DEF IsBar
<1> QED BY <1>1 DEF AreBars

\* One bar more.
LEMMA BarAppended ==
    ASSUME NEW s, NEW rows, NEW series, AreBars(series, s, rows), NEW b, IsBar(b, s, rows),
           \A k \in 1 .. Len(series) : series[k].bucket < b.bucket,
           \A m, n : Holds(series, m) /\ Takes(b, n) => m < n
    PROVE  /\ AreBars(Append(series, b), s, rows)
           /\ \A n : Holds(Append(series, b), n) <=> Holds(series, n) \/ Takes(b, n)
           /\ Len(series) \in Nat /\ Len(Append(series, b)) = Len(series) + 1
           /\ \A k \in 1 .. Len(series) : Append(series, b)[k] = series[k]
           /\ Append(series, b)[Len(series) + 1] = b
<1> DEFINE c == Append(series, b)
           l == Len(series)
<1>1. series \in Seq(Candle) /\ b \in Candle /\ l \in Nat
  BY LenProperties DEF AreBars, IsBar
<1>2. /\ c \in Seq(Candle) /\ Len(c) = l + 1 /\ c[l + 1] = b
      /\ \A k \in 1 .. l : c[k] = series[k]
  BY <1>1, AppendProperties
<1> HIDE DEF c, l
<1>3. \A k \in 1 .. l + 1 : k \in 1 .. l \/ k = l + 1
  BY <1>1
<1>4. 1 .. l \subseteq 1 .. l + 1 /\ l + 1 \in 1 .. l + 1
  BY <1>1
<1>5. \A n : Holds(c, n) <=> Holds(series, n) \/ Takes(b, n)
  BY <1>2, <1>3, <1>4 DEF Holds, l
<1>6. \A k \in 1 .. l + 1 : IsBar(c[k], s, rows)
  BY <1>2, <1>3 DEF AreBars, l
<1>7. ASSUME NEW k \in 1 .. l + 1, NEW j \in 1 .. l + 1, k < j
      PROVE  /\ c[k].bucket < c[j].bucket
             /\ \A m, n : Takes(c[k], m) /\ Takes(c[j], n) => m < n
  <2>1. k \in 1 .. l
    BY <1>1, <1>7
  <2>2. c[k] = series[k]
    BY <1>2, <2>1
  <2>3. CASE j \in 1 .. l
    BY <1>2, <1>7, <2>1, <2>2, <2>3 DEF AreBars, l
  <2>4. CASE j = l + 1
    <3>1. c[j] = b
      BY <1>2, <2>4
    <3>2. \A m : Takes(series[k], m) => Holds(series, m)
      BY <2>1 DEF Holds, l
    <3> QED BY <2>1, <2>2, <3>1, <3>2 DEF l
  <2> QED BY <1>3, <2>3, <2>4
<1>8. AreBars(c, s, rows)
  BY <1>2, <1>6, <1>7 DEF AreBars
<1> QED BY <1>1, <1>2, <1>5, <1>8 DEF c, l

\* One bar less.
LEMMA BarTaken ==
    ASSUME NEW s, NEW rows, NEW series \in Seq(Candle), NEW b \in Candle,
           AreBars(Append(series, b), s, rows)
    PROVE  /\ AreBars(series, s, rows) /\ IsBar(b, s, rows)
           /\ \A k \in 1 .. Len(series) : series[k].bucket < b.bucket
           /\ \A m, n : Holds(series, m) /\ Takes(b, n) => m < n
           /\ \A n : Holds(Append(series, b), n) <=> Holds(series, n) \/ Takes(b, n)
           /\ Len(series) \in Nat /\ Len(Append(series, b)) = Len(series) + 1
           /\ \A k \in 1 .. Len(series) : Append(series, b)[k] = series[k]
           /\ Append(series, b)[Len(series) + 1] = b
<1> DEFINE c == Append(series, b)
           l == Len(series)
<1>1. l \in Nat
  BY LenProperties
<1>2. /\ c \in Seq(Candle) /\ Len(c) = l + 1 /\ c[l + 1] = b
      /\ \A k \in 1 .. l : c[k] = series[k]
  BY <1>1, AppendProperties
<1>9. AreBars(c, s, rows)
  OBVIOUS
<1> HIDE DEF c, l
<1>3. \A k \in 1 .. l + 1 : k \in 1 .. l \/ k = l + 1
  BY <1>1
<1>4. 1 .. l \subseteq 1 .. l + 1 /\ l + 1 \in 1 .. l + 1
  BY <1>1
<1>5. \A n : Holds(c, n) <=> Holds(series, n) \/ Takes(b, n)
  BY <1>2, <1>3, <1>4 DEF Holds, l
<1>6. IsBar(b, s, rows) /\ \A k \in 1 .. l : IsBar(series[k], s, rows)
  BY <1>2, <1>4, <1>9 DEF AreBars
<1>7. \A k \in 1 .. l : /\ series[k].bucket < b.bucket
                        /\ \A m, n : Takes(series[k], m) /\ Takes(b, n) => m < n
  <2> TAKE k \in 1 .. l
  <2>1. k \in 1 .. l + 1 /\ l + 1 \in 1 .. l + 1 /\ k < l + 1 /\ c[k] = series[k] /\ c[l + 1] = b
    BY <1>1, <1>2, <1>4
  <2> QED BY <1>2, <1>9, <2>1 DEF AreBars
<1>8. \A j, k \in 1 .. l : j < k =>
         /\ series[j].bucket < series[k].bucket
         /\ \A m, n : Takes(series[j], m) /\ Takes(series[k], n) => m < n
  <2> TAKE j, k \in 1 .. l
  <2>1. j \in 1 .. l + 1 /\ k \in 1 .. l + 1 /\ c[j] = series[j] /\ c[k] = series[k]
    BY <1>2, <1>4
  <2> QED BY <1>2, <1>9, <2>1 DEF AreBars
<1>10. AreBars(series, s, rows)
  BY <1>6, <1>8 DEF AreBars, l
<1>11. \A m, n : Holds(series, m) /\ Takes(b, n) => m < n
  BY <1>7 DEF Holds, l
<1> QED BY <1>1, <1>2, <1>5, <1>6, <1>7, <1>10, <1>11 DEF c, l

\* A bar is at least its last print, and its prints have numbers.
LEMMA BarsTake ==
    ASSUME NEW s, NEW rows, Len(rows) \in Nat, NEW series, AreBars(series, s, rows), NEW n, Holds(series, n)
    PROVE  n \in 1 .. Len(rows) /\ rows[n].symbol = s
BY DEF AreBars, IsBar, Holds, Takes


Ordering == [at : {"none", "rests", "filled"}, bar : Nat, by : {"timer", "print"}, saw : Nat, filled : Nat]

\* What a turn of the loop has before it: prints wait in the subscription, or
\* in the hands of _run, never in both.
Queue == IF turn.at = "drain" THEN pending ELSE turn.left

FeedTypes ==
    /\ IsTape(tape) /\ clock \in Nat /\ lost \subseteq 1 .. Len(tape)
    /\ pending \in Seq(Nat) /\ turn \in [at : {"drain", "ticks"}, left : Seq(Nat)]
    /\ turn.at = "drain" => turn.left = <<>>
    /\ turn.at = "ticks" => pending = <<>>
    /\ emitted \in [Symbol -> Seq(Candle)] /\ building \in [Symbol -> Candle]
    /\ order \in [Symbol -> Ordering]

\* What waits is on the tape, has not been lost, and is one print of a symbol.
Queued(queue, gone, rows) ==
    /\ queue \in Seq(Nat)
    /\ \A i \in 1 .. Len(queue) : queue[i] \in 1 .. Len(rows) /\ queue[i] \notin gone
    /\ \A i, j \in 1 .. Len(queue) : rows[queue[i]].symbol = rows[queue[j]].symbol => i = j

\* A print of a symbol is lost, waits, or is in its bars, and what waits comes later.
AllTold(s, series, queue, gone, rows) ==
    /\ AreBars(series, s, rows)
    /\ \A n : Holds(series, n) =>
          /\ n \notin gone
          /\ \A i \in 1 .. Len(queue) : rows[queue[i]].symbol = s => n < queue[i]
    /\ \A n \in 1 .. Len(rows) : rows[n].symbol = s => n \in gone \/ Waits(queue, n) \/ Holds(series, n)

\* A bar's window has begun, and is over when on_bar gets it.
Punctual(series, given, now) ==
    /\ \A k \in 1 .. Len(series) : series[k].bucket <= now
    /\ \A k \in 1 .. Len(given) : given[k].bucket < now

\* An order rests until the next print: it has seen all there are.
Rests(o, series, given) ==
    /\ Holds(series, o.saw) /\ \A n : Holds(series, n) => n <= o.saw
    /\ IF o.by = "timer" THEN series = given /\ o.bar = Len(given)
                         ELSE o.bar + 1 \in 1 .. Len(series) /\ series[o.bar + 1].prints[1] = o.saw
Filled(o, series, rows) ==
    /\ Holds(series, o.filled) /\ o.saw < o.filled
    /\ \A n : Holds(series, n) /\ o.saw < n => o.filled <= n
    /\ o.bar + 1 \in 1 .. Len(series)
    /\ IF o.by = "timer" THEN rows[o.filled].price = series[o.bar + 1].open
                         ELSE series[o.bar + 1].prints[1] = o.saw
Owes(o, series, given, rows) == /\ o.at = "rests" => Rests(o, series, given)
                                /\ o.at = "filled" => Filled(o, series, rows)

FeedInv ==
    /\ FeedTypes /\ Queued(Queue, lost, tape)
    /\ \A s \in Symbol : /\ AllTold(s, BF!LiveBars(s), Queue, lost, tape)
                         /\ Punctual(BF!LiveBars(s), emitted[s], BF!Bucket(clock))
                         /\ Owes(order[s], BF!LiveBars(s), emitted[s], tape)

LEMMA FeedBegins == ASSUME BF!Init PROVE FeedInv
<1>1. /\ clock = 0 /\ tape = <<>> /\ pending = <<>> /\ lost = {}
      /\ turn = [at |-> "drain", left |-> <<>>]
      /\ building = [s \in Symbol |-> BF!NoBar] /\ emitted = [s \in Symbol |-> <<>>]
      /\ order = [s \in Symbol |-> BF!NoOrder]
  BY DEF BF!Init
<1>2. BF!NoBar \in Candle /\ BF!NoOrder \in Ordering /\ BF!NoBar.prints = <<>> /\ BF!NoOrder.at = "none"
  BY DEF BF!NoBar, BF!NoOrder, Candle, Ordering
<1>3. FeedTypes
  BY <1>1, <1>2 DEF FeedTypes, IsTape
<1>4. Queue = <<>> /\ Len(Queue) = 0
  BY <1>1 DEF Queue
<1>5. Queued(Queue, lost, tape)
  BY <1>4 DEF Queued
<1>6. ASSUME NEW s \in Symbol
      PROVE  /\ AllTold(s, BF!LiveBars(s), Queue, lost, tape)
             /\ Punctual(BF!LiveBars(s), emitted[s], BF!Bucket(clock))
             /\ Owes(order[s], BF!LiveBars(s), emitted[s], tape)
  <2>1. BF!LiveBars(s) = <<>> /\ emitted[s] = <<>> /\ order[s].at = "none"
    BY <1>1, <1>2 DEF BF!LiveBars
  <2>2. Len(tape) = 0 /\ Len(<<>>) = 0
    BY <1>1
  <2>3. AllTold(s, <<>>, Queue, lost, tape)
    BY <2>2 DEF AllTold, AreBars, Holds
  <2>4. Punctual(<<>>, <<>>, BF!Bucket(clock))
    BY <2>2 DEF Punctual
  <2> QED BY <2>1, <2>3, <2>4 DEF Owes
<1> QED BY <1>3, <1>5, <1>6 DEF FeedInv

\* The clock only goes on.
LEMMA FeedTicks == ASSUME Windowed, FeedInv, BF!Tick PROVE FeedInv'
<1>1. /\ clock' = clock + 1
      /\ UNCHANGED <<tape, pending, turn, building, emitted, order, lost>>
  BY DEF BF!Tick
<1>2. FeedTypes' /\ clock \in Nat /\ clock' \in Nat /\ clock <= clock'
  BY <1>1 DEF FeedInv, FeedTypes
<1>3. BF!Bucket(clock) \in Nat /\ BF!Bucket(clock') \in Nat /\ BF!Bucket(clock) <= BF!Bucket(clock')
  BY <1>2, WindowsPass
<1>4. Queue' = Queue
  BY <1>1 DEF Queue
<1>5. ASSUME NEW s \in Symbol
      PROVE  Punctual(BF!LiveBars(s), emitted[s], BF!Bucket(clock'))
  <2> DEFINE now == BF!Bucket(clock)
             then == BF!Bucket(clock')
             series == BF!LiveBars(s)
  <2>1. AreBars(series, s, tape) /\ Punctual(series, emitted[s], now) /\ emitted[s] \in Seq(Candle)
    BY DEF FeedInv, FeedTypes, AllTold
  <2> HIDE DEF now, then, series
  <2>2. series \in Seq(Candle) /\ now \in Nat /\ then \in Nat /\ now <= then
    BY <1>3, <2>1 DEF AreBars, now, then
  <2>3. /\ \A k \in 1 .. Len(series) : series[k].bucket \in Nat
        /\ \A k \in 1 .. Len(emitted[s]) : emitted[s][k].bucket \in Nat
    BY <2>1, <2>2, CandlesSay
  <2>4. Punctual(series, emitted[s], then)
    BY <2>1, <2>2, <2>3 DEF Punctual
  <2> QED BY <2>4 DEF then, series
<1>6. \A s \in Symbol : BF!LiveBars(s)' = BF!LiveBars(s)
  BY <1>1 DEF BF!LiveBars
<1>7. BF!Bucket(clock)' = BF!Bucket(clock')
  BY DEF BF!Bucket
<1> QED BY <1>1, <1>2, <1>4, <1>5, <1>6, <1>7 DEF FeedInv

\* The prints that waited are taken in hand.
LEMMA FeedDrains == ASSUME FeedInv, BF!Drain PROVE FeedInv'
<1>1. /\ turn.at = "drain" /\ turn' = [at |-> "ticks", left |-> pending] /\ pending' = <<>>
      /\ UNCHANGED <<clock, tape, building, emitted, order, lost>>
  BY DEF BF!Drain
<1>2. FeedTypes'
  BY <1>1 DEF FeedInv, FeedTypes
<1>3. Queue' = Queue
  BY <1>1 DEF Queue
<1>4. \A s \in Symbol : BF!LiveBars(s)' = BF!LiveBars(s)
  BY <1>1 DEF BF!LiveBars
<1>5. BF!Bucket(clock)' = BF!Bucket(clock)
  BY <1>1 DEF BF!Bucket
<1> QED BY <1>1, <1>2, <1>3, <1>4, <1>5 DEF FeedInv


\* An order of the strategy, made and filled.
LEMMA OrdersAre ==
    ASSUME NEW o \in Ordering, NEW n \in Nat, NEW s, NEW by \in {"timer", "print"}, Len(emitted[s]) \in Nat
    PROVE  /\ BF!Matched(o, n) \in Ordering /\ BF!Matched(o, n).at # "rests"
           /\ o.at = "rests" => /\ BF!Matched(o, n).at = "filled" /\ BF!Matched(o, n).filled = n
                                /\ BF!Matched(o, n).saw = o.saw /\ BF!Matched(o, n).bar = o.bar
                                /\ BF!Matched(o, n).by = o.by
           /\ o.at # "rests" => BF!Matched(o, n) = o
           /\ BF!Ordered(s, o, by, n) \in Ordering
           /\ o.at = "rests" => BF!Ordered(s, o, by, n) = o
           /\ o.at # "rests" => BF!Ordered(s, o, by, n) =
                [at |-> "rests", bar |-> Len(emitted[s]) + 1, by |-> by, saw |-> n, filled |-> 0]
<1> DEFINE m == BF!Matched(o, n)
           q == BF!Ordered(s, o, by, n)
<1>1. /\ o.at \in {"none", "rests", "filled"} /\ o.bar \in Nat /\ o.by \in {"timer", "print"}
      /\ o.saw \in Nat /\ o.filled \in Nat
  BY DEF Ordering
<1>2. CASE o.at = "rests"
  <2>1. m = [o EXCEPT !.at = "filled", !.filled = n] /\ q = o
    BY <1>2 DEF BF!Matched, BF!Ordered
  <2>2. m \in Ordering
    BY <2>1 DEF Ordering
  <2>3. m.at = "filled" /\ m.filled = n /\ m.saw = o.saw /\ m.bar = o.bar /\ m.by = o.by
    BY <2>1 DEF Ordering
  <2> QED BY <1>2, <2>1, <2>2, <2>3
<1>3. CASE o.at # "rests"
  <2>1. m = o /\ q = [at |-> "rests", bar |-> Len(emitted[s]) + 1, by |-> by, saw |-> n, filled |-> 0]
    BY <1>3 DEF BF!Matched, BF!Ordered
  <2>2. q \in Ordering
    BY <2>1 DEF Ordering
  <2> QED BY <1>3, <2>1, <2>2
<1> QED BY <1>2, <1>3

\* Closing a bar on the timer.
LEMMA TimerCloses ==
    ASSUME NEW s, NEW rows, NEW given \in Seq(Candle), NEW b \in Candle, Len(rows) \in Nat,
           NEW series, series = Append(given, b), AreBars(series, s, rows), NEW o \in Ordering,
           Owes(o, series, given, rows)
    PROVE  /\ Owes(o, series, series, rows)
           /\ o.at # "rests" =>
                Owes([at |-> "rests", bar |-> Len(given) + 1, by |-> "timer",
                      saw |-> b.prints[Len(b.prints)], filled |-> 0], series, series, rows)
<1> DEFINE l == Len(given)
           p == b.prints
           n == p[Len(p)]
           new == [at |-> "rests", bar |-> l + 1, by |-> "timer", saw |-> n, filled |-> 0]
<1>1. /\ IsBar(b, s, rows) /\ l \in Nat /\ Len(series) = l + 1
      /\ \A m, k : Holds(given, m) /\ Takes(b, k) => m < k
      /\ \A m : Holds(series, m) <=> Holds(given, m) \/ Takes(b, m)
  <2>1. AreBars(Append(given, b), s, rows)
    OBVIOUS
  <2> HIDE DEF l, p, n, new
  <2>2. /\ AreBars(given, s, rows) /\ IsBar(b, s, rows)
        /\ \A k \in 1 .. Len(given) : given[k].bucket < b.bucket
        /\ \A m, k : Holds(given, m) /\ Takes(b, k) => m < k
        /\ \A k : Holds(Append(given, b), k) <=> Holds(given, k) \/ Takes(b, k)
        /\ Len(given) \in Nat /\ Len(Append(given, b)) = Len(given) + 1
        /\ \A k \in 1 .. Len(given) : Append(given, b)[k] = given[k]
        /\ Append(given, b)[Len(given) + 1] = b
    BY ONLY given \in Seq(Candle), b \in Candle, <2>1, BarTaken
  <2> QED BY <2>2 DEF l
<1>2. ~(series = given)
  BY <1>1
<1>3. Owes(o, series, series, rows)
  BY <1>2 DEF Owes, Rests, Filled
<1>4. /\ Len(p) \in Nat /\ Len(p) > 0
      /\ \A i, j \in 1 .. Len(p) : i < j => p[i] < p[j]
      /\ \A i \in 1 .. Len(p) : p[i] \in 1 .. Len(rows)
  BY <1>1, LenProperties DEF IsBar, Candle
<1>5. Len(p) \in 1 .. Len(p)
  BY <1>4
<1>6. \A i \in 1 .. Len(p) : p[i] <= n
  <2> HIDE DEF p
  <2> TAKE i \in 1 .. Len(p)
  <2>1. p[i] \in Int /\ n \in Int /\ i \in Int
    BY ONLY <1>4, <1>5, i \in 1 .. Len(p)
  <2>2. CASE i = Len(p)
    BY ONLY <2>1, <2>2
  <2>3. CASE i < Len(p)
    BY ONLY <1>4, <1>5, <2>1, <2>3, i \in 1 .. Len(p)
  <2>4. i = Len(p) \/ i < Len(p)
    BY ONLY <1>4, i \in 1 .. Len(p)
  <2> QED BY ONLY <2>2, <2>3, <2>4
<1>7. Takes(b, n)
  BY <1>5 DEF Takes
<1>8. \A m : Takes(b, m) => m <= n
  BY <1>6 DEF Takes
<1>9. \A m : Holds(given, m) => m <= n
  <2> TAKE m
  <2> HAVE Holds(given, m)
  <2>1. m \in Nat
    BY <1>1, BarsTake
  <2>2. m < n /\ n \in Nat
    BY <1>1, <1>4, <1>5, <1>7
  <2> QED BY <2>1, <2>2
<1>10. new.at = "rests" /\ new.saw = n /\ new.by = "timer" /\ new.bar = l + 1
  OBVIOUS
<1> HIDE DEF l, n, new
<1>11. Rests(new, series, series)
  BY <1>1, <1>7, <1>8, <1>9, <1>10 DEF Rests
<1>12. Owes(new, series, series, rows)
  BY <1>10, <1>11 DEF Owes
<1> QED BY <1>3, <1>12 DEF l, n, p, new

\* Bars whose window has passed are closed, and may be ordered on.
LEMMA FeedCloses == ASSUME Windowed, FeedInv, BF!CloseDueBars PROVE FeedInv'
<1>1. PICK acting \in SUBSET BF!Due :
        order' = [s \in Symbol |->
                   LET prints == building[s].prints
                   IN IF s \in acting THEN BF!Ordered(s, order[s], "timer", prints[Len(prints)])
                                      ELSE order[s]]
  BY DEF BF!CloseDueBars
<1>2. /\ turn.at = "ticks" /\ turn.left = <<>> /\ turn' = [turn EXCEPT !.at = "drain"]
      /\ emitted' = [s \in Symbol |-> IF s \in BF!Due THEN Append(emitted[s], building[s]) ELSE emitted[s]]
      /\ building' = [s \in Symbol |-> IF s \in BF!Due THEN BF!NoBar ELSE building[s]]
      /\ UNCHANGED <<clock, tape, pending, lost>>
  BY DEF BF!CloseDueBars
<1>3. FeedTypes /\ Len(tape) \in Nat
  BY LenProperties DEF FeedInv, FeedTypes, IsTape
<1>4. Queue' = Queue
  BY <1>2, <1>3 DEF Queue, FeedTypes
<1>5. BF!NoBar \in Candle /\ BF!NoBar.prints = <<>>
  BY DEF BF!NoBar, Candle
<1>6. ASSUME NEW s \in Symbol
      PROVE  /\ emitted'[s] \in Seq(Candle) /\ building'[s] \in Candle /\ order'[s] \in Ordering
             /\ BF!LiveBars(s)' = BF!LiveBars(s)
             /\ Punctual(BF!LiveBars(s), emitted'[s], BF!Bucket(clock))
             /\ Owes(order'[s], BF!LiveBars(s), emitted'[s], tape)
  <2> DEFINE series == BF!LiveBars(s)
             b == building[s]
             given == emitted[s]
             now == BF!Bucket(clock)
  <2>1. b \in Candle /\ given \in Seq(Candle) /\ order[s] \in Ordering /\ Len(given) \in Nat
    BY <1>3, LenProperties DEF FeedTypes
  <2>2. AreBars(series, s, tape) /\ Punctual(series, given, now) /\ Owes(order[s], series, given, tape)
    BY DEF FeedInv, AllTold
  <2>3. BF!LiveBars(s)' = IF building'[s].prints = <<>> THEN emitted'[s]
                                                       ELSE Append(emitted'[s], building'[s])
    BY DEF BF!LiveBars
  <2>4. CASE s \notin BF!Due
    <3>1. emitted'[s] = given /\ building'[s] = b /\ order'[s] = order[s]
      BY <1>1, <1>2, <2>4
    <3> QED BY <2>1, <2>2, <2>3, <3>1 DEF BF!LiveBars
  <2>5. CASE s \in BF!Due
    <3>1. b.prints # <<>> /\ b.bucket < now
      BY <2>5 DEF BF!Due
    <3>2. emitted'[s] = Append(given, b) /\ building'[s] = BF!NoBar
      BY <1>2, <2>5
    <3>3. series = Append(given, b) /\ series = BF!LiveBars(s)'
      BY <1>5, <2>3, <3>1, <3>2 DEF BF!LiveBars
    <3>4. series \in Seq(Candle)
      BY <2>2 DEF AreBars
    <3>5. order'[s] = IF s \in acting THEN BF!Ordered(s, order[s], "timer", b.prints[Len(b.prints)])
                                      ELSE order[s]
      BY <1>1
    <3>10. IsBar(b, s, tape) /\ Len(series) = Len(given) + 1 /\ series[Len(given) + 1] = b
           /\ \A k \in 1 .. Len(given) : series[k] = given[k]
      <4> HIDE DEF series, b, given
      <4>1. AreBars(Append(given, b), s, tape)
        BY <2>2, <3>3
      <4>2. /\ AreBars(given, s, tape) /\ IsBar(b, s, tape)
            /\ \A k \in 1 .. Len(given) : given[k].bucket < b.bucket
            /\ \A m, j : Holds(given, m) /\ Takes(b, j) => m < j
            /\ \A j : Holds(Append(given, b), j) <=> Holds(given, j) \/ Takes(b, j)
            /\ Len(given) \in Nat /\ Len(Append(given, b)) = Len(given) + 1
            /\ \A k \in 1 .. Len(given) : Append(given, b)[k] = given[k]
            /\ Append(given, b)[Len(given) + 1] = b
        BY ONLY <2>1, <4>1, BarTaken
      <4> QED BY <3>3, <4>2
    <3>6. b.prints[Len(b.prints)] \in Nat
      <4>1. Len(b.prints) \in 1 .. Len(b.prints)
        BY <2>1, <3>10, LenProperties DEF IsBar, Candle
      <4> QED BY <1>3, <3>10, <4>1 DEF IsBar
    <3>7. /\ Owes(order[s], series, series, tape)
          /\ order[s].at # "rests" =>
               Owes([at |-> "rests", bar |-> Len(given) + 1, by |-> "timer",
                     saw |-> b.prints[Len(b.prints)], filled |-> 0], series, series, tape)
      BY <1>3, <2>1, <2>2, <3>3, TimerCloses
    <3>8. order'[s] \in Ordering /\ Owes(order'[s], series, series, tape)
      <4>1. /\ BF!Ordered(s, order[s], "timer", b.prints[Len(b.prints)]) \in Ordering
            /\ order[s].at = "rests" => BF!Ordered(s, order[s], "timer", b.prints[Len(b.prints)]) = order[s]
            /\ order[s].at # "rests" => BF!Ordered(s, order[s], "timer", b.prints[Len(b.prints)]) =
                 [at |-> "rests", bar |-> Len(given) + 1, by |-> "timer",
                  saw |-> b.prints[Len(b.prints)], filled |-> 0]
        <5>1. ASSUME NEW p \in Nat
              PROVE  /\ BF!Ordered(s, order[s], "timer", p) \in Ordering
                     /\ order[s].at = "rests" => BF!Ordered(s, order[s], "timer", p) = order[s]
                     /\ order[s].at # "rests" => BF!Ordered(s, order[s], "timer", p) =
                          [at |-> "rests", bar |-> Len(given) + 1, by |-> "timer",
                           saw |-> p, filled |-> 0]
          <6> DEFINE new == [at |-> "rests", bar |-> Len(given) + 1, by |-> "timer",
                             saw |-> p, filled |-> 0]
          <6>1. BF!Ordered(s, order[s], "timer", p) = IF order[s].at = "rests" THEN order[s] ELSE new
            BY ONLY DEF BF!Ordered
          <6>2. order[s] \in Ordering /\ Len(given) \in Nat
            BY <2>1
          <6>3. new \in Ordering
            BY <6>2 DEF Ordering
          <6> HIDE DEF given
          <6> QED BY ONLY <6>1, <6>2, <6>3
        <5> HIDE DEF b, series, given
        <5> QED BY ONLY <3>6, <5>1
      <4> HIDE DEF series, b, given
      <4> QED BY <2>1, <3>5, <3>7, <4>1
    <3>9. Punctual(series, series, now)
      <4>1. \A k \in 1 .. Len(series) : k \in 1 .. Len(given) \/ k = Len(given) + 1
        BY <2>1, <3>10
      <4> HIDE DEF series, b, given, now
      <4>2. \A k \in 1 .. Len(series) : series[k].bucket < now
        BY <2>2, <3>1, <3>10, <4>1 DEF Punctual
      <4> QED BY <2>2, <4>2 DEF Punctual
    <3> QED BY <1>5, <3>2, <3>3, <3>4, <3>8, <3>9
  <2> QED BY <2>4, <2>5
<1>7. FeedTypes'
  BY <1>1, <1>2, <1>3, <1>6 DEF FeedTypes
<1>8. BF!Bucket(clock)' = BF!Bucket(clock)
  BY <1>2 DEF BF!Bucket
<1> QED BY <1>2, <1>4, <1>6, <1>7, <1>8 DEF FeedInv


\* A print has come into the bars, into one that was there or into one of its own.
Grown(series, new, n) ==
    /\ Len(series) \in Nat /\ Len(series) <= Len(new)
    /\ \A m : Holds(new, m) <=> Holds(series, m) \/ m = n
    /\ \A k \in 1 .. Len(series) : new[k].open = series[k].open /\ new[k].prints[1] = series[k].prints[1]
Starting(series, new, n, price) ==
    /\ Len(new) = Len(series) + 1 /\ new[Len(series) + 1].prints = <<n>>
    /\ new[Len(series) + 1].open = price

Passed(bar, now) == bar.prints # <<>> /\ bar.bucket # now

\* A print processed: it is the newest of its symbol's bars.
\* What Process makes of the bars of a symbol.
GivenOf(s, now) ==
    IF Passed(building[s], now) THEN Append(emitted[s], building[s]) ELSE emitted[s]
NextOf(s, n, now) ==
    IF building[s].prints = <<>> \/ Passed(building[s], now) THEN BF!Opened(n, now)
                                                             ELSE BF!Updated(building[s], n)

LEMMA TapeBarsGrow ==
    ASSUME Windowed, FeedInv, NEW n \in 1 .. Len(tape), NEW s \in Symbol, tape[n].symbol = s,
           NEW now \in Nat, now = BF!Bucket(clock), \A m : Holds(BF!LiveBars(s), m) => m < n,
           NEW new, new = Append(GivenOf(s, now), NextOf(s, n, now))
    PROVE  /\ GivenOf(s, now) \in Seq(Candle)
           /\ NextOf(s, n, now) \in Candle /\ NextOf(s, n, now).prints # <<>>
           /\ AreBars(new, s, tape) /\ Punctual(new, GivenOf(s, now), now)
           /\ Grown(BF!LiveBars(s), new, n)
           /\ Passed(building[s], now) \/ BF!LiveBars(s) = emitted[s] =>
                /\ GivenOf(s, now) = BF!LiveBars(s)
                /\ Starting(BF!LiveBars(s), new, n, tape[n].price)
           /\ Passed(building[s], now) => Len(BF!LiveBars(s)) = Len(emitted[s]) + 1
<1> DEFINE em == emitted[s]
           bar == building[s]
           meant == Passed(bar, now)
           given == GivenOf(s, now)
           next == NextOf(s, n, now)
           series == BF!LiveBars(s)
<1>6. meant <=> bar.prints # <<>> /\ bar.bucket # now
  BY DEF Passed
<1>7. given = (IF meant THEN Append(em, bar) ELSE em)
  BY DEF GivenOf
<1>8. next = (IF bar.prints = <<>> \/ meant THEN BF!Opened(n, now) ELSE BF!Updated(bar, n))
  BY DEF NextOf
<1>9. new = Append(given, next) /\ \A m : Holds(series, m) => m < n
  OBVIOUS
<1> HIDE DEF meant, given, next
<1>1. /\ em \in Seq(Candle) /\ bar \in Candle /\ Len(em) \in Nat /\ IsTape(tape) /\ Len(tape) \in Nat
      /\ n \in Nat
  BY LenProperties, TapeSays DEF FeedInv, FeedTypes, IsTape
<1>2. series = IF bar.prints = <<>> THEN em ELSE Append(em, bar)
  BY DEF BF!LiveBars
<1>3. AreBars(series, s, tape) /\ Punctual(series, em, now)
  BY DEF FeedInv, AllTold
<1> HIDE DEF series
<1> SUFFICES
        /\ given \in Seq(Candle) /\ next \in Candle /\ next.prints # <<>>
        /\ AreBars(new, s, tape) /\ Punctual(new, given, now) /\ Grown(series, new, n)
        /\ meant \/ series = em => given = series /\ Starting(series, new, n, tape[n].price)
        /\ meant => Len(series) = Len(em) + 1
  BY DEF meant, given, next, series
<1>4. CASE bar.prints = <<>> \/ meant
  <2>1. next = BF!Opened(n, now)
    BY <1>4, <1>8
  <2>2. given = series
    BY <1>2, <1>4, <1>6, <1>7
  <2>3. /\ IsBar(next, s, tape) /\ \A m : Takes(next, m) <=> m = n
        /\ next.bucket = now /\ next.prints = <<n>> /\ next.open = tape[n].price
    BY <1>1, <2>1, OpenedIs
  <2>4. series \in Seq(Candle) /\ Len(series) \in Nat
    BY <1>3, LenProperties DEF AreBars
  <2>5. \A k \in 1 .. Len(series) : series[k].bucket < now
    <3>1. CASE bar.prints = <<>>
      BY <1>2, <1>3, <3>1 DEF Punctual
    <3>2. CASE meant
      <4>1. series = Append(em, bar) /\ bar.bucket # now /\ AreBars(Append(em, bar), s, tape)
        BY <1>2, <1>3, <1>6, <3>2
      <4>2. /\ Len(Append(em, bar)) = Len(em) + 1 /\ Append(em, bar)[Len(em) + 1] = bar
            /\ \A k \in 1 .. Len(em) : Append(em, bar)[k] = em[k]
        BY ONLY <1>1, <4>1, BarTaken
      <4>3. \A k \in 1 .. Len(series) : k \in 1 .. Len(em) \/ k = Len(em) + 1
        BY <1>1, <4>1, <4>2
      <4>4. \A k \in 1 .. Len(em) : em[k].bucket < now
        BY <1>3 DEF Punctual
      <4>5. bar.bucket \in Nat /\ bar.bucket <= now
        <5>1. Len(em) + 1 \in 1 .. Len(series) /\ series[Len(em) + 1] = bar
          BY <1>1, <4>1, <4>2
        <5>2. bar.bucket \in Nat
          BY <1>1 DEF Candle
        <5> QED BY <1>3, <5>1, <5>2 DEF Punctual
      <4>6. bar.bucket < now
        BY <4>1, <4>5
      <4> HIDE DEF em
      <4> QED BY <4>1, <4>2, <4>3, <4>4, <4>6
    <3> QED BY <1>4, <3>1, <3>2
  <2>6. \A m, k : Holds(series, m) /\ Takes(next, k) => m < k
    BY <1>9, <2>3
  <2>7. /\ AreBars(Append(series, next), s, tape)
        /\ \A m : Holds(Append(series, next), m) <=> Holds(series, m) \/ Takes(next, m)
        /\ Len(Append(series, next)) = Len(series) + 1
        /\ \A k \in 1 .. Len(series) : Append(series, next)[k] = series[k]
        /\ Append(series, next)[Len(series) + 1] = next
    <3>1. \A k \in 1 .. Len(series) : series[k].bucket < next.bucket
      BY <2>3, <2>5
    <3> QED BY ONLY <1>3, <2>3, <2>6, <3>1, BarAppended
  <2>8. meant => Len(series) = Len(em) + 1
    BY <1>1, <1>2, <1>6, AppendProperties
  <2>9. Punctual(new, series, now)
    <3>1. \A k \in 1 .. Len(series) + 1 : k \in 1 .. Len(series) \/ k = Len(series) + 1
      BY <2>4
    <3>2. \A k \in 1 .. Len(series) : series[k].bucket \in Nat
      BY <2>4, CandlesSay
    <3>3. Len(new) = Len(series) + 1 /\ \A k \in 1 .. Len(series) : new[k].bucket = series[k].bucket
      BY <1>9, <2>2, <2>7
    <3>4. new[Len(series) + 1].bucket = now
      BY <1>9, <2>2, <2>3, <2>7
    <3> QED BY ONLY now \in Nat, <2>5, <3>1, <3>2, <3>3, <3>4 DEF Punctual
  <2>10. next \in Candle /\ next.prints # <<>>
    BY <2>3 DEF IsBar
  <2>11. new = Append(series, next)
    BY <1>9, <2>2
  <2>12. Grown(series, new, n)
    BY ONLY <2>3, <2>4, <2>7, <2>11 DEF Grown
  <2>13. Starting(series, new, n, tape[n].price)
    BY ONLY <2>3, <2>7, <2>11 DEF Starting
  <2> QED BY ONLY <2>2, <2>4, <2>7, <2>8, <2>9, <2>10, <2>11, <2>12, <2>13
<1>5. CASE ~(bar.prints = <<>> \/ meant)
  <2>1. next = BF!Updated(bar, n) /\ given = em /\ series = Append(em, bar) /\ bar.bucket = now
    BY <1>2, <1>5, <1>6, <1>7, <1>8
  <2>2. AreBars(Append(em, bar), s, tape)
    BY <1>3, <2>1
  <2>3. /\ AreBars(em, s, tape) /\ IsBar(bar, s, tape)
        /\ \A k \in 1 .. Len(em) : em[k].bucket < bar.bucket
        /\ \A m, k : Holds(em, m) /\ Takes(bar, k) => m < k
        /\ \A k : Holds(Append(em, bar), k) <=> Holds(em, k) \/ Takes(bar, k)
        /\ Len(Append(em, bar)) = Len(em) + 1
        /\ \A k \in 1 .. Len(em) : Append(em, bar)[k] = em[k]
        /\ Append(em, bar)[Len(em) + 1] = bar
    <3>1. em \in Seq(Candle) /\ bar \in Candle
      BY <1>1
    <3> HIDE DEF em
    <3> QED BY ONLY <2>2, <3>1, BarTaken
  <2>4. \A m : Takes(bar, m) => m < n
    BY <1>9, <2>1, <2>3
  <2>5. /\ IsBar(next, s, tape) /\ \A m : Takes(next, m) <=> Takes(bar, m) \/ m = n
        /\ next.bucket = bar.bucket /\ next.open = bar.open /\ next.prints[1] = bar.prints[1]
    BY <1>1, <2>1, <2>3, <2>4, UpdatedIs
  <2>6. \A m, k : Holds(em, m) /\ Takes(next, k) => m < k
    <3> TAKE m, k
    <3> HAVE Holds(em, m) /\ Takes(next, k)
    <3>1. CASE Takes(bar, k)
      BY <2>3, <3>1
    <3>2. CASE k = n
      BY <1>9, <2>1, <2>3, <3>2
    <3> QED BY <2>5, <3>1, <3>2
  <2>7. /\ AreBars(Append(em, next), s, tape)
        /\ \A m : Holds(Append(em, next), m) <=> Holds(em, m) \/ Takes(next, m)
        /\ Len(Append(em, next)) = Len(em) + 1
        /\ \A k \in 1 .. Len(em) : Append(em, next)[k] = em[k]
        /\ Append(em, next)[Len(em) + 1] = next
    <3>1. \A k \in 1 .. Len(em) : em[k].bucket < next.bucket
      BY <2>3, <2>5
    <3> QED BY ONLY <2>3, <2>5, <2>6, <3>1, BarAppended
  <2>8. \A m : Holds(new, m) <=> Holds(series, m) \/ m = n
    BY <1>9, <2>1, <2>3, <2>5, <2>7
  <2>9. \A k \in 1 .. Len(em) + 1 : k \in 1 .. Len(em) \/ k = Len(em) + 1
    BY <1>1
  <2>10. \A k \in 1 .. Len(em) + 1 : new[k].open = series[k].open /\ new[k].prints[1] = series[k].prints[1]
    BY <1>9, <2>1, <2>3, <2>5, <2>7, <2>9
  <2>11. Punctual(new, em, now)
    <3>1. \A k \in 1 .. Len(em) : em[k].bucket \in Nat
      BY <1>1, CandlesSay
    <3> QED BY <1>3, <1>9, <2>1, <2>5, <2>7, <2>9, <3>1 DEF Punctual
  <2>12. next \in Candle /\ next.prints # <<>>
    BY <2>5 DEF IsBar
  <2>13. Len(series) = Len(em) + 1 /\ Len(new) = Len(em) + 1
    BY <1>9, <2>1, <2>3, <2>7
  <2>14. ~(meant \/ series = em)
    BY <1>1, <1>5, <2>13
  <2>15. Grown(series, new, n)
    BY ONLY <1>1, <2>8, <2>10, <2>13 DEF Grown
  <2>16. given = em /\ new = Append(em, next)
    BY <1>9, <2>1
  <2> QED BY ONLY <1>1, <2>7, <2>11, <2>12, <2>14, <2>15, <2>16
<1> QED BY <1>4, <1>5


\* A print fills what rests, at the open of the next bar where the timer closed the last.
LEMMA PrintFills ==
    ASSUME NEW o \in Ordering, NEW rows, NEW series, NEW given, NEW new, NEW after, NEW n \in Nat,
           Owes(o, series, given, rows), Grown(series, new, n),
           \A m : Holds(series, m) => m \in Nat /\ m < n,
           series = given => Starting(series, new, n, rows[n].price),
           NEW q \in Ordering, q.at # "rests", o.at # "rests" => q = o,
           o.at = "rests" => /\ q.at = "filled" /\ q.filled = n /\ q.saw = o.saw
                             /\ q.bar = o.bar /\ q.by = o.by
    PROVE  Owes(q, new, after, rows)
<1>1. /\ Len(series) \in Nat /\ Len(series) <= Len(new)
      /\ \A m : Holds(new, m) <=> Holds(series, m) \/ m = n
      /\ \A k \in 1 .. Len(series) : new[k].open = series[k].open /\ new[k].prints[1] = series[k].prints[1]
  BY DEF Grown
<1>2. o.saw \in Nat /\ o.bar \in Nat /\ o.filled \in Nat /\ o.at \in {"none", "rests", "filled"}
  BY DEF Ordering
<1>3. CASE o.at = "rests"
  <2>1. Rests(o, series, given)
    BY <1>3 DEF Owes
  <2>2. o.saw < n /\ \A m : Holds(new, m) /\ o.saw < m => n <= m
    BY <1>1, <1>2, <2>1 DEF Rests
  <2>3. CASE o.by = "timer"
    <3>1. Starting(series, new, n, rows[n].price) /\ o.bar = Len(series)
      BY <2>1, <2>3 DEF Rests
    <3>2. o.bar + 1 \in 1 .. Len(new) /\ rows[n].price = new[o.bar + 1].open
      BY <1>1, <1>2, <3>1 DEF Starting
    <3>3. Filled(q, new, rows)
      BY <1>1, <1>3, <2>2, <2>3, <3>2 DEF Filled
    <3> QED BY <3>3 DEF Owes
  <2>4. CASE o.by # "timer"
    <3>1. o.bar + 1 \in 1 .. Len(series) /\ series[o.bar + 1].prints[1] = o.saw
      BY <2>1, <2>4 DEF Rests
    <3>2. o.bar + 1 \in 1 .. Len(new) /\ new[o.bar + 1].prints[1] = o.saw
      <4>1. 1 .. Len(series) \subseteq 1 .. Len(new)
        BY <1>1, <1>2, <3>1
      <4> QED BY <1>1, <3>1, <4>1
    <3>3. Filled(q, new, rows)
      BY <1>1, <1>3, <2>2, <2>4, <3>2 DEF Filled
    <3> QED BY <3>3 DEF Owes
  <2> QED BY <2>3, <2>4
<1>4. CASE o.at = "filled"
  <2>1. Filled(o, series, rows) /\ q = o
    BY <1>4 DEF Owes
  <2>2. /\ Holds(series, o.filled) /\ o.saw < o.filled
        /\ \A m : Holds(series, m) /\ o.saw < m => o.filled <= m
        /\ o.bar + 1 \in 1 .. Len(series)
    BY <2>1 DEF Filled
  <2>3. o.bar + 1 \in 1 .. Len(new)
    BY <1>1, <1>2, <2>2
  <2>4. \A m : Holds(new, m) /\ o.saw < m => o.filled <= m
    BY <1>1, <1>2, <2>2
  <2>5. Filled(o, new, rows)
    BY <1>1, <2>1, <2>2, <2>3, <2>4 DEF Filled
  <2> QED BY <2>1, <2>5 DEF Owes
<1>5. CASE o.at = "none"
  BY <1>5 DEF Owes
<1> QED BY <1>2, <1>3, <1>4, <1>5

\* The print at the head of the turn is processed.
LEMMA FeedProcesses == ASSUME Windowed, FeedInv, BF!Process PROVE FeedInv'
<1> DEFINE n == Head(turn.left)
           s == tape[n].symbol
           bar == building[s]
           now == BF!Bucket(clock)
           meant == Passed(bar, now)
           given == GivenOf(s, now)
           next == NextOf(s, n, now)
           series == BF!LiveBars(s)
           new == Append(given, next)
<1>1. /\ turn.at = "ticks" /\ turn.left # <<>>
      /\ turn' = [turn EXCEPT !.left = Tail(@)]
      /\ emitted' = IF meant THEN [emitted EXCEPT ![s] = Append(@, bar)] ELSE emitted
      /\ building' = [building EXCEPT ![s] = next]
      /\ UNCHANGED <<clock, tape, pending, lost>>
  BY Zenon DEF BF!Process, Passed, NextOf
<1>2. PICK acts \in {FALSE, meant} : order' = [order EXCEPT ![s] = BF!AfterPrint(s, n, acts)]
  BY Zenon DEF BF!Process, Passed
<1>3. FeedTypes /\ Len(tape) \in Nat /\ Queued(Queue, lost, tape)
  BY LenProperties DEF FeedInv, FeedTypes, IsTape
<1>4. /\ turn.left \in Seq(Nat) /\ Len(turn.left) \in Nat /\ Len(turn.left) > 0 /\ Queue = turn.left
      /\ n = turn.left[1] /\ 1 \in 1 .. Len(turn.left)
  <2>1. turn.left \in Seq(Nat)
    BY <1>3 DEF FeedTypes
  <2>2. Len(turn.left) \in Nat /\ Len(turn.left) # 0
    BY <1>1, <2>1, LenProperties, EmptySeq
  <2>3. 1 \in 1 .. Len(turn.left) /\ Len(turn.left) > 0
    BY <2>2
  <2>4. n = turn.left[1]
    <3>1. turn.left \in Seq(Nat) /\ turn.left # <<>>
      BY <1>1, <2>1
    <3>2. Head(turn.left) = turn.left[1]
      BY ONLY <3>1, HeadTailProperties
    <3> QED BY <3>2
  <2>5. Queue = turn.left
    BY <1>1 DEF Queue
  <2> QED BY <2>1, <2>2, <2>3, <2>4, <2>5
<1>5. n \in 1 .. Len(tape) /\ s \in Symbol /\ n \in Nat /\ n \notin lost
  BY <1>3, <1>4, TapeSays DEF Queued, FeedTypes
<1>6. \A m : Holds(series, m) => m \in Nat /\ m < n
  <2>1. AllTold(s, series, Queue, lost, tape)
    BY <1>5 DEF FeedInv
  <2> QED BY <1>3, <1>4, <2>1, BarsTake DEF AllTold
<1>7. now \in Nat /\ clock \in Nat
  <2>1. clock \in Nat /\ clock <= clock
    BY <1>3 DEF FeedTypes
  <2> QED BY <2>1, WindowsPass
<1>8. /\ given \in Seq(Candle) /\ next \in Candle /\ next.prints # <<>>
      /\ AreBars(new, s, tape) /\ Punctual(new, given, now) /\ Grown(series, new, n)
      /\ meant \/ series = emitted[s] => given = series /\ Starting(series, new, n, tape[n].price)
      /\ meant => Len(series) = Len(emitted[s]) + 1
  <2>1. /\ now \in Nat /\ now = BF!Bucket(clock) /\ tape[n].symbol = s
        /\ \A m : Holds(BF!LiveBars(s), m) => m < n
    BY <1>6, <1>7
  <2> HIDE DEF n, s, now
  <2> QED BY <1>5, <2>1, TapeBarsGrow
<1>9. /\ emitted \in [Symbol -> Seq(Candle)] /\ building \in [Symbol -> Candle]
      /\ order \in [Symbol -> Ordering] /\ turn \in [at : {"drain", "ticks"}, left : Seq(Nat)]
  BY <1>3 DEF FeedTypes
<1>10. /\ emitted'[s] = given /\ building'[s] = next
       /\ emitted' = [emitted EXCEPT ![s] = given] /\ building' = [building EXCEPT ![s] = next]
  BY <1>1, <1>5, <1>9 DEF GivenOf
<1>11. ASSUME NEW r \in Symbol, r = s
       PROVE  BF!LiveBars(r)' = new /\ emitted'[r] = given
  <2>1. BF!LiveBars(r)' = IF building'[r].prints = <<>> THEN emitted'[r]
                                                      ELSE Append(emitted'[r], building'[r])
    BY DEF BF!LiveBars
  <2>2. next.prints # <<>> /\ emitted'[r] = given /\ building'[r] = next
    BY Zenon, <1>8, <1>10, <1>11
  <2> QED BY ONLY <2>1, <2>2
<1>12. ASSUME NEW r \in Symbol, r # s
       PROVE  BF!LiveBars(r)' = BF!LiveBars(r) /\ emitted'[r] = emitted[r] /\ building'[r] = building[r]
              /\ order'[r] = order[r]
  <2>1. emitted'[r] = emitted[r] /\ building'[r] = building[r] /\ order'[r] = order[r]
    <3> HIDE DEF s, given, next
    <3> QED BY <1>2, <1>9, <1>10, <1>12
  <2> QED BY <2>1 DEF BF!LiveBars
<1>13. order'[s] \in Ordering /\ Owes(order'[s], new, given, tape)
  <2> DEFINE q == BF!Matched(order[s], n)
             em == emitted[s]
  <2>1. order[s] \in Ordering /\ em \in Seq(Candle) /\ Len(em) \in Nat
    BY <1>5, <1>9, LenProperties
  <2>2. Owes(order[s], series, em, tape)
    BY <1>5 DEF FeedInv
  <2>3. /\ q \in Ordering /\ q.at # "rests" /\ (order[s].at # "rests" => q = order[s])
        /\ order[s].at = "rests" => /\ q.at = "filled" /\ q.filled = n /\ q.saw = order[s].saw
                                    /\ q.bar = order[s].bar /\ q.by = order[s].by
    BY Zenon, <1>5, <2>1, OrdersAre
  <2>4. Owes(q, new, given, tape)
    <3> HIDE DEF q, n, s, given, new, series, em, meant
    <3>1. series = em => Starting(series, new, n, tape[n].price)
      BY <1>8 DEF em
    <3> QED BY <1>5, <1>6, <1>8, <2>1, <2>2, <2>3, <3>1, PrintFills
  <2>5. order'[s] = IF acts THEN BF!Ordered(s, q, "print", n) ELSE q
    BY <1>2, <1>5, <1>9 DEF BF!AfterPrint
  <2>6. CASE ~acts
    BY Zenon, <2>3, <2>4, <2>5, <2>6
  <2>7. CASE acts
    <3> DEFINE o == [at |-> "rests", bar |-> Len(em) + 1, by |-> "print", saw |-> n, filled |-> 0]
    <3>1. meant
      BY <1>2, <2>7
    <3>2. order'[s] = o /\ o \in Ordering
      <4>1. q \in Ordering /\ q.at # "rests" /\ "print" \in {"timer", "print"} /\ n \in Nat /\ Len(emitted[s]) \in Nat
        BY <1>5, <2>1, <2>3
      <4>2. order'[s] = BF!Ordered(s, q, "print", n)
        BY <2>5, <2>7
      <4> HIDE DEF q, n, s
      <4>3. BF!Ordered(s, q, "print", n) \in Ordering /\ BF!Ordered(s, q, "print", n) =
                 [at |-> "rests", bar |-> Len(emitted[s]) + 1, by |-> "print", saw |-> n, filled |-> 0]
        <5>1. q.at # "rests" => BF!Ordered(s, q, "print", n) =
                 [at |-> "rests", bar |-> Len(emitted[s]) + 1, by |-> "print", saw |-> n, filled |-> 0]
          BY DEF BF!Ordered
        <5>2. BF!Ordered(s, q, "print", n) \in Ordering
          BY <4>1, OrdersAre
        <5> QED BY <4>1, <5>1, <5>2
      <4> QED BY <4>2, <4>3
    <3>3. /\ Starting(series, new, n, tape[n].price) /\ Len(series) = Len(em) + 1 /\ Grown(series, new, n)
          /\ given = series
      BY <1>8, <3>1
    <3>4. /\ o.saw = n /\ o.bar = Len(em) + 1 /\ o.by = "print" /\ o.at = "rests"
      OBVIOUS
    <3> HIDE DEF o, n, s, given, new, series, em, meant
    <3>5. o.bar + 1 \in 1 .. Len(new) /\ new[o.bar + 1].prints[1] = n
      BY <2>1, <3>3, <3>4 DEF Starting
    <3>6. Holds(new, n) /\ \A m : Holds(new, m) => m <= n
      BY <1>5, <1>6, <3>3 DEF Grown
    <3>7. Rests(o, new, given)
      BY <3>4, <3>5, <3>6 DEF Rests
    <3> QED BY <3>2, <3>4, <3>7 DEF Owes
  <2> QED BY <2>6, <2>7
<1>14. /\ turn' \in [at : {"drain", "ticks"}, left : Seq(Nat)] /\ turn'.at = "ticks"
       /\ turn'.left = Tail(turn.left) /\ Queue' = Tail(turn.left)
  <2>1. Tail(turn.left) \in Seq(Nat)
    BY <1>1, <1>4, HeadTailProperties
  <2> QED BY <1>1, <1>9, <2>1 DEF Queue
<1>15. FeedTypes'
  <2>1. emitted' \in [Symbol -> Seq(Candle)] /\ building' \in [Symbol -> Candle]
    <3> HIDE DEF s, given, next
    <3> QED BY <1>5, <1>8, <1>9, <1>10
  <2>2. order' \in [Symbol -> Ordering]
    BY <1>2, <1>5, <1>9, <1>13
  <2>3. pending' = <<>> /\ pending' \in Seq(Nat)
    BY <1>1, <1>3 DEF FeedTypes
  <2> QED BY <1>1, <1>3, <1>14, <2>1, <2>2, <2>3 DEF FeedTypes
<1>16. /\ Len(Tail(turn.left)) = Len(turn.left) - 1
       /\ \A i \in 1 .. Len(turn.left) - 1 : Tail(turn.left)[i] = turn.left[i + 1]
  BY <1>1, <1>4, HeadTailProperties
<1>17. Queued(Queue', lost', tape')
  <2> DEFINE l == turn.left
             t == Tail(turn.left)
  <2>1. t \in Seq(Nat) /\ Queue' = t /\ lost' = lost /\ tape' = tape
    BY <1>1, <1>4, <1>14, HeadTailProperties
  <2>2. Queued(l, lost, tape)
    BY <1>3, <1>4
  <2>3. \A i \in 1 .. Len(t) : i + 1 \in 1 .. Len(l) /\ t[i] = l[i + 1]
    BY <1>4, <1>16
  <2>4. Queued(t, lost, tape)
    <3> HIDE DEF l, t
    <3>1. \A i \in 1 .. Len(t) : t[i] \in 1 .. Len(tape) /\ t[i] \notin lost
      BY <2>2, <2>3 DEF Queued
    <3>2. \A i, j \in 1 .. Len(t) : tape[t[i]].symbol = tape[t[j]].symbol => i = j
      <4> TAKE i, j \in 1 .. Len(t)
      <4>1. i + 1 \in 1 .. Len(l) /\ j + 1 \in 1 .. Len(l) /\ t[i] = l[i + 1] /\ t[j] = l[j + 1]
        BY <2>3
      <4>2. tape[l[i + 1]].symbol = tape[l[j + 1]].symbol => i + 1 = j + 1
        BY <2>2, <4>1 DEF Queued
      <4> QED BY <4>1, <4>2
    <3> QED BY <2>1, <3>1, <3>2 DEF Queued
  <2> QED BY <2>1, <2>4
<1>18. /\ \A m : Waits(Queue, m) <=> m = n \/ Waits(Queue', m)
       /\ \A i \in 1 .. Len(Queue') : tape[Queue'[i]].symbol # s
       /\ \A i \in 1 .. Len(Queue') : i + 1 \in 1 .. Len(Queue) /\ Queue'[i] = Queue[i + 1]
  <2> DEFINE l == turn.left
             t == Tail(turn.left)
  <2>1. /\ Queue = l /\ Queue' = t /\ Len(t) = Len(l) - 1 /\ Len(l) \in Nat /\ Len(l) > 0 /\ l[1] = n
        /\ \A i \in 1 .. Len(l) - 1 : t[i] = l[i + 1]
    BY <1>4, <1>14, <1>16
  <2>2. \A i \in 1 .. Len(t) : i + 1 \in 1 .. Len(l) /\ t[i] = l[i + 1] /\ i + 1 # 1
    BY <2>1
  <2>3. \A i \in 1 .. Len(l) : i = 1 \/ (i - 1 \in 1 .. Len(t) /\ t[i - 1] = l[i])
    <3> TAKE i \in 1 .. Len(l)
    <3> SUFFICES ASSUME i # 1 PROVE i - 1 \in 1 .. Len(t) /\ t[i - 1] = l[i]
      OBVIOUS
    <3>1. i - 1 \in 1 .. Len(l) - 1 /\ (i - 1) + 1 = i
      BY <2>1
    <3> HIDE DEF l, t
    <3> QED BY <2>1, <3>1
  <2>4. \A i, j \in 1 .. Len(l) : tape[l[i]].symbol = tape[l[j]].symbol => i = j
    BY <1>3, <1>4 DEF Queued
  <2>5. 1 \in 1 .. Len(l) /\ tape[l[1]].symbol = s
    BY <2>1
  <2> HIDE DEF l, t, n, s
  <2>6. \A m : Waits(l, m) <=> m = n \/ Waits(t, m)
    <3> TAKE m
    <3>1. ASSUME Waits(l, m) PROVE m = n \/ Waits(t, m)
      BY <2>1, <2>3, <3>1 DEF Waits
    <3>2. ASSUME m = n \/ Waits(t, m) PROVE Waits(l, m)
      BY <2>1, <2>2, <2>5, <3>2 DEF Waits
    <3> QED BY <3>1, <3>2
  <2>7. \A i \in 1 .. Len(t) : tape[t[i]].symbol # s
    <3> TAKE i \in 1 .. Len(t)
    <3>1. i + 1 \in 1 .. Len(l) /\ t[i] = l[i + 1] /\ i + 1 # 1
      BY <2>2
    <3> QED BY <2>4, <2>5, <3>1
  <2> QED BY <2>1, <2>2, <2>6, <2>7
<1>19. ASSUME NEW r \in Symbol
       PROVE  /\ AllTold(r, BF!LiveBars(r), Queue, lost, tape)'
              /\ Punctual(BF!LiveBars(r), emitted[r], BF!Bucket(clock))'
              /\ Owes(order[r], BF!LiveBars(r), emitted[r], tape)'
  <2>1. /\ AllTold(r, BF!LiveBars(r), Queue, lost, tape)
        /\ Punctual(BF!LiveBars(r), emitted[r], now)
        /\ Owes(order[r], BF!LiveBars(r), emitted[r], tape)
    BY DEF FeedInv
  <2>2. now = BF!Bucket(clock)' /\ lost' = lost /\ tape' = tape
    BY <1>1 DEF BF!Bucket
  <2>3. CASE r = s
    <3>1. BF!LiveBars(r)' = new /\ emitted'[r] = given
      BY <1>11, <2>3
    <3>2. /\ AreBars(new, r, tape) /\ Punctual(new, given, now) /\ Owes(order'[r], new, given, tape)
          /\ \A m : Holds(new, m) <=> Holds(series, m) \/ m = n
      BY Zenon, <1>8, <1>13, <2>3 DEF Grown
    <3>3. AllTold(r, new, Queue', lost, tape)
      <4>1. /\ AreBars(series, r, tape)
            /\ \A m : Holds(series, m) => m \notin lost
            /\ \A m \in 1 .. Len(tape) :
                 tape[m].symbol = r => m \in lost \/ Waits(Queue, m) \/ Holds(series, m)
        BY <2>1, <2>3 DEF AllTold
      <4> HIDE DEF n, s, series, new
      <4>2. \A m : Holds(new, m) => m \notin lost
        BY <1>5, <3>2, <4>1
      <4>3. \A i \in 1 .. Len(Queue') : tape[Queue'[i]].symbol # r
        BY <1>18, <2>3
      <4>4. \A m \in 1 .. Len(tape) :
                 tape[m].symbol = r => m \in lost \/ Waits(Queue', m) \/ Holds(new, m)
        BY <1>18, <3>2, <4>1
      <4> QED BY <3>2, <4>2, <4>3, <4>4 DEF AllTold
    <3> QED BY Zenon, <2>2, <3>1, <3>2, <3>3
  <2>4. CASE r # s
    <3>1. BF!LiveBars(r)' = BF!LiveBars(r) /\ emitted'[r] = emitted[r] /\ order'[r] = order[r]
      BY <1>12, <2>4
    <3>2. AllTold(r, BF!LiveBars(r), Queue', lost, tape)
      <4> DEFINE old == BF!LiveBars(r)
      <4>1. /\ AreBars(old, r, tape)
            /\ \A m : Holds(old, m) =>
                  /\ m \notin lost
                  /\ \A i \in 1 .. Len(Queue) : tape[Queue[i]].symbol = r => m < Queue[i]
            /\ \A m \in 1 .. Len(tape) :
                 tape[m].symbol = r => m \in lost \/ Waits(Queue, m) \/ Holds(old, m)
        BY <2>1 DEF AllTold
      <4> HIDE DEF n, old
      <4>2. \A m : Holds(old, m) =>
                  \A i \in 1 .. Len(Queue') : tape[Queue'[i]].symbol = r => m < Queue'[i]
        BY <1>18, <4>1
      <4>3. \A m \in 1 .. Len(tape) :
                 tape[m].symbol = r => m \in lost \/ Waits(Queue', m) \/ Holds(old, m)
        BY <1>18, <2>4, <4>1 DEF s
      <4>4. AllTold(r, old, Queue', lost, tape)
        BY <4>1, <4>2, <4>3 DEF AllTold
      <4> QED BY <4>4 DEF old
    <3> QED BY <2>1, <2>2, <3>1, <3>2
  <2> QED BY <2>3, <2>4
<1> QED BY <1>15, <1>17, <1>19 DEF FeedInv


\* A print takes the place of the one that waited, which is lost, or waits last.
LEMMA PrintIsPushed ==
    ASSUME FeedInv, NEW s \in Symbol, NEW p \in TapePrices, BF!Publish(s, p)
    PROVE  /\ tape' \in Seq([symbol : Symbol, price : TapePrices, at : Nat])
           /\ Len(tape') = Len(tape) + 1 /\ tape'[Len(tape) + 1].symbol = s
           /\ \A n \in 1 .. Len(tape) : tape'[n] = tape[n]
           /\ Len(tape) \in Nat
           /\ pending' \in Seq(Nat) /\ Queue = pending /\ Queue' = pending'
           /\ \A n : Waits(pending', n) <=>
                n = Len(tape) + 1 \/ (Waits(pending, n) /\ tape[n].symbol # s)
           /\ \A i, j \in 1 .. Len(pending') : tape'[pending'[i]].symbol = tape'[pending'[j]].symbol => i = j
           /\ \A n : n \in lost' <=> n \in lost \/ (Waits(pending, n) /\ ~Waits(pending', n))
<1> DEFINE x == [symbol |-> s, price |-> p, at |-> clock]
           n == Len(tape')
           l == Len(pending)
           same(m) == tape'[m].symbol = tape'[n].symbol
<1>1. /\ turn.at = "drain" /\ tape' = Append(tape, x) /\ pending' = BF!Pushed(n)
      /\ lost' = lost \cup (BF!Range(pending) \ BF!Range(pending'))
      /\ UNCHANGED <<clock, turn, building, emitted, order>>
  BY DEF BF!Publish
<1>2. FeedTypes /\ Queued(Queue, lost, tape)
  BY DEF FeedInv
<1>3. x \in [symbol : Symbol, price : TapePrices, at : Nat] /\ x.symbol = s
  BY <1>2 DEF FeedTypes
<1>4. tape \in Seq([symbol : Symbol, price : TapePrices, at : Nat]) /\ Len(tape) \in Nat
  BY <1>2, LenProperties DEF FeedTypes, IsTape
<1>5. /\ tape' \in Seq([symbol : Symbol, price : TapePrices, at : Nat])
      /\ Len(tape') = Len(tape) + 1 /\ tape'[Len(tape) + 1] = x
      /\ \A k \in 1 .. Len(tape) : tape'[k] = tape[k]
  <2> HIDE DEF x
  <2> QED BY <1>1, <1>3, <1>4, AppendProperties
<1>6. pending \in Seq(Nat) /\ l \in Nat /\ DOMAIN pending = 1 .. l /\ Queue = pending /\ Queue' = pending'
  <2>1. pending \in Seq(Nat)
    BY <1>2 DEF FeedTypes
  <2> QED BY <1>1, <2>1, LenProperties DEF Queue
<1>7. /\ \A i \in 1 .. l : pending[i] \in 1 .. Len(tape) /\ tape'[pending[i]] = tape[pending[i]]
      /\ \A i, j \in 1 .. l : tape[pending[i]].symbol = tape[pending[j]].symbol => i = j
  BY <1>2, <1>5, <1>6 DEF Queued
<1>8. n \in Nat /\ n = Len(tape) + 1 /\ tape'[n].symbol = s /\ n \notin 1 .. Len(tape)
  BY <1>3, <1>4, <1>5
<1>9. /\ pending' \in Seq(Nat)
      /\ \A k : Waits(pending', k) <=> k = n \/ (Waits(pending, k) /\ tape[k].symbol # s)
      /\ \A i, j \in 1 .. Len(pending') : tape'[pending'[i]].symbol = tape'[pending'[j]].symbol => i = j
  <2>1. CASE \E i \in 1 .. l : tape[pending[i]].symbol = s
    <3>1. PICK i \in 1 .. l : tape[pending[i]].symbol = s
      BY <2>1
    <3>2. \A j \in 1 .. l : tape'[pending[j]].symbol = s <=> j = i
      BY <1>7, <3>1
    <3>3. pending' = [j \in 1 .. l |-> IF tape'[pending[j]].symbol = s THEN n ELSE pending[j]]
      BY Zenon, <1>1, <1>6, <1>7, <1>8, <3>1 DEF BF!Pushed
    <3>4. /\ Len(pending') = l /\ pending' \in Seq(Nat)
          /\ \A j \in 1 .. l : pending'[j] = IF j = i THEN n ELSE pending[j]
      <4>1. pending' = [j \in 1 .. l |-> IF j = i THEN n ELSE pending[j]]
        BY <3>2, <3>3
      <4>2. \A j \in 1 .. l : pending[j] \in Nat
        BY <1>4, <1>7
      <4> HIDE DEF n, l
      <4> QED BY <1>6, <1>8, <4>1, <4>2
    <3> HIDE DEF n, l
    <3>5. ASSUME NEW k PROVE Waits(pending', k) <=> k = n \/ (Waits(pending, k) /\ tape[k].symbol # s)
      <4>1. ASSUME Waits(pending', k) PROVE k = n \/ (Waits(pending, k) /\ tape[k].symbol # s)
        <5>1. PICK j \in 1 .. l : pending'[j] = k
          BY <3>4, <4>1 DEF Waits
        <5> QED BY <1>7, <3>2, <3>4, <5>1 DEF Waits, l
      <4>2. ASSUME k = n PROVE Waits(pending', k)
        BY <3>1, <3>4, <4>2 DEF Waits
      <4>3. ASSUME Waits(pending, k), tape[k].symbol # s PROVE Waits(pending', k)
        <5>1. PICK j \in 1 .. l : pending[j] = k
          BY <4>3 DEF Waits, l
        <5>2. j # i
          BY <3>1, <4>3, <5>1
        <5> QED BY <3>4, <5>1, <5>2 DEF Waits
      <4> QED BY <4>1, <4>2, <4>3
    <3>6. \A j \in 1 .. l : tape'[pending'[j]].symbol = tape[pending[j]].symbol
      BY <1>7, <1>8, <3>1, <3>4
    <3> QED BY <1>7, <3>4, <3>5, <3>6
  <2>2. CASE ~\E i \in 1 .. l : tape[pending[i]].symbol = s
    <3>1. pending' = Append(pending, n)
      BY <1>1, <1>6, <1>7, <1>8, <2>2 DEF BF!Pushed
    <3>2. /\ pending' \in Seq(Nat) /\ Len(pending') = l + 1 /\ pending'[l + 1] = n
          /\ \A i \in 1 .. l : pending'[i] = pending[i]
      <4> HIDE DEF n
      <4> QED BY <1>6, <1>8, <3>1, AppendProperties
    <3> HIDE DEF n, l
    <3>3. /\ \A i \in 1 .. l + 1 : i \in 1 .. l \/ i = l + 1
          /\ 1 .. l \subseteq 1 .. l + 1 /\ l + 1 \in 1 .. l + 1
      BY <1>6
    <3>4. ASSUME NEW k PROVE Waits(pending', k) <=> k = n \/ (Waits(pending, k) /\ tape[k].symbol # s)
      <4>1. Waits(pending', k) <=> \E i \in 1 .. l + 1 : pending'[i] = k
        BY <3>2 DEF Waits
      <4>2. Waits(pending, k) <=> \E i \in 1 .. l : pending[i] = k
        BY DEF Waits, l
      <4> HIDE DEF Waits
      <4> QED BY <2>2, <3>2, <3>3, <4>1, <4>2
    <3>5. \A i \in 1 .. l : tape'[pending'[i]].symbol # s /\ tape'[pending'[i]] = tape[pending[i]]
      BY <1>7, <2>2, <3>2
    <3>6. \A i, j \in 1 .. l + 1 : tape'[pending'[i]].symbol = tape'[pending'[j]].symbol => i = j
      <4> TAKE i, j \in 1 .. l + 1
      <4>1. CASE i \in 1 .. l /\ j \in 1 .. l
        BY <1>7, <3>5, <4>1
      <4>2. CASE i = l + 1 /\ j \in 1 .. l
        BY <1>8, <3>2, <3>5, <4>2
      <4>3. CASE j = l + 1 /\ i \in 1 .. l
        BY <1>8, <3>2, <3>5, <4>3
      <4> QED BY <3>3, <4>1, <4>2, <4>3
    <3> QED BY <3>2, <3>4, <3>6
  <2> QED BY <2>1, <2>2
<1>10. ASSUME NEW q \in Seq(Nat), NEW k PROVE k \in BF!Range(q) <=> Waits(q, k)
  <2>1. DOMAIN q = 1 .. Len(q)
    BY LenProperties
  <2> QED BY <2>1 DEF BF!Range, Waits
<1>11. \A k : k \in lost' <=> k \in lost \/ (Waits(pending, k) /\ ~Waits(pending', k))
  BY <1>1, <1>6, <1>9, <1>10
<1> QED BY <1>3, <1>4, <1>5, <1>6, <1>8, <1>9, <1>11

\* The source prints.
LEMMA FeedPublishes ==
    ASSUME FeedInv, NEW s \in Symbol, NEW p \in TapePrices, BF!Publish(s, p)
    PROVE  FeedInv'
<1>1. /\ IsTape(tape)' /\ Len(tape') = Len(tape) + 1 /\ tape'[Len(tape) + 1].symbol = s
      /\ \A n \in 1 .. Len(tape) : tape'[n] = tape[n]
      /\ Len(tape) \in Nat
      /\ pending' \in Seq(Nat) /\ Queue = pending /\ Queue' = pending'
      /\ \A n : Waits(pending', n) <=>
           n = Len(tape) + 1 \/ (Waits(pending, n) /\ tape[n].symbol # s)
      /\ \A i, j \in 1 .. Len(pending') : tape'[pending'[i]].symbol = tape'[pending'[j]].symbol => i = j
      /\ \A n : n \in lost' <=> n \in lost \/ (Waits(pending, n) /\ ~Waits(pending', n))
  BY PrintIsPushed DEF IsTape
<1>2. turn.at = "drain" /\ UNCHANGED <<clock, turn, building, emitted, order>>
  BY DEF BF!Publish
<1>3. FeedTypes /\ Queued(pending, lost, tape)
  BY <1>1 DEF FeedInv
<1>4. /\ \A n : Waits(pending, n) => n \in 1 .. Len(tape) /\ n \notin lost
      /\ lost \subseteq 1 .. Len(tape) /\ 1 .. Len(tape) \subseteq 1 .. Len(tape')
      /\ \A n \in 1 .. Len(tape') : n \in 1 .. Len(tape) \/ n = Len(tape) + 1
      /\ Len(tape) + 1 \notin 1 .. Len(tape) /\ Len(tape) + 1 \in 1 .. Len(tape')
  BY <1>1, <1>3 DEF Queued, Waits, FeedTypes
<1>5. lost' \subseteq 1 .. Len(tape')
  BY <1>1, <1>4
<1>6. FeedTypes'
  BY <1>1, <1>2, <1>3, <1>5 DEF FeedTypes
<1>7. Queued(pending', lost', tape')
  <2>1. \A n : Waits(pending', n) => n \in 1 .. Len(tape') /\ n \notin lost'
    BY <1>1, <1>4
  <2>2. \A i \in 1 .. Len(pending') : Waits(pending', pending'[i])
    BY DEF Waits
  <2> QED BY <1>1, <2>1, <2>2 DEF Queued
<1>8. ASSUME NEW r \in Symbol
      PROVE  /\ AllTold(r, BF!LiveBars(r), pending', lost', tape')
             /\ Owes(order[r], BF!LiveBars(r), emitted[r], tape')
  <2> DEFINE series == BF!LiveBars(r)
  <2>1. AllTold(r, series, pending, lost, tape) /\ Owes(order[r], series, emitted[r], tape)
    BY <1>1 DEF FeedInv
  <2> HIDE DEF series
  <2>2. AreBars(series, r, tape)
    BY <2>1 DEF AllTold
  <2>3. AreBars(series, r, tape')
    <3>1. Len(tape') \in Nat /\ Len(tape) <= Len(tape')
      BY <1>1
    <3> QED BY <1>1, <2>2, <3>1, TapeGoesOn
  <2>4. \A n : Holds(series, n) => n \in 1 .. Len(tape) /\ n \in Nat
    BY <1>1, <2>2, BarsTake
  <2>5. ASSUME NEW n, Waits(pending, n), Holds(series, n) PROVE FALSE
    <3>1. tape[n].symbol = r
      BY <1>1, <2>2, <2>5, BarsTake
    <3>2. PICK i \in 1 .. Len(pending) : pending[i] = n
      BY <2>5 DEF Waits
    <3>3. n < n
      BY <2>1, <2>5, <3>1, <3>2 DEF AllTold
    <3> QED BY <2>4, <2>5, <3>3
  <2>6. \A n : Holds(series, n) => n \notin lost'
    BY <1>1, <2>1, <2>5 DEF AllTold
  <2>7. ASSUME NEW n, Holds(series, n), NEW i \in 1 .. Len(pending'), tape'[pending'[i]].symbol = r
        PROVE  n < pending'[i]
    <3>1. Waits(pending', pending'[i])
      BY DEF Waits
    <3>2. CASE pending'[i] = Len(tape) + 1
      BY <1>1, <2>4, <2>7, <3>2
    <3>3. CASE Waits(pending, pending'[i])
      <4>1. PICK j \in 1 .. Len(pending) : pending[j] = pending'[i]
        BY <3>3 DEF Waits
      <4>2. tape[pending[j]].symbol = r
        BY <1>1, <1>4, <2>7, <3>3, <4>1
      <4>3. n < pending[j]
        BY <2>1, <2>7, <4>2 DEF AllTold
      <4> QED BY <4>1, <4>3
    <3> QED BY <1>1, <3>1, <3>2, <3>3
  <2>8. \A n \in 1 .. Len(tape') :
          tape'[n].symbol = r => n \in lost' \/ Waits(pending', n) \/ Holds(series, n)
    <3> TAKE n \in 1 .. Len(tape')
    <3>1. CASE n = Len(tape) + 1
      BY <1>1, <3>1
    <3>2. CASE n \in 1 .. Len(tape)
      <4>1. tape'[n].symbol = r => n \in lost \/ Waits(pending, n) \/ Holds(series, n)
        BY <1>1, <2>1, <3>2 DEF AllTold
      <4> QED BY <1>1, <4>1
    <3> QED BY <1>4, <3>1, <3>2
  <2>9. AllTold(r, series, pending', lost', tape')
    BY <2>3, <2>6, <2>7, <2>8 DEF AllTold
  <2>10. Owes(order[r], series, emitted[r], tape')
    <3>1. ASSUME NEW o, Filled(o, series, tape) PROVE Filled(o, series, tape')
      <4>1. tape'[o.filled] = tape[o.filled]
        BY <1>1, <2>4, <3>1 DEF Filled
      <4> QED BY <3>1, <4>1 DEF Filled
    <3> QED BY <2>1, <3>1 DEF Owes
  <2> QED BY <2>9, <2>10 DEF series
<1>9. \A r \in Symbol : BF!LiveBars(r)' = BF!LiveBars(r)
  BY <1>2 DEF BF!LiveBars
<1>10. BF!Bucket(clock)' = BF!Bucket(clock)
  BY <1>2 DEF BF!Bucket
<1>11. \A r \in Symbol : Punctual(BF!LiveBars(r), emitted[r], BF!Bucket(clock))
  BY DEF FeedInv
<1> QED BY <1>1, <1>2, <1>6, <1>7, <1>8, <1>9, <1>10, <1>11 DEF FeedInv


LEMMA HighestIs ==
    ASSUME NEW S \in SUBSET Int, NEW x \in S, \A y \in S : y <= x
    PROVE  BF!Max(S) = x
<1>1. \A z \in S : (\A y \in S : z >= y) => z = x
  <2> TAKE z \in S
  <2> HAVE \A y \in S : z >= y
  <2> QED OBVIOUS
<1>2. \E z \in S : \A y \in S : z >= y
  OBVIOUS
<1> QED BY <1>1, <1>2 DEF BF!Max

LEMMA LowestIs ==
    ASSUME NEW S \in SUBSET Int, NEW x \in S, \A y \in S : x <= y
    PROVE  BF!Min(S) = x
<1>1. \A z \in S : (\A y \in S : z <= y) => z = x
  <2> TAKE z \in S
  <2> HAVE \A y \in S : z <= y
  <2> QED OBVIOUS
<1>2. \E z \in S : \A y \in S : z <= y
  OBVIOUS
<1> QED BY <1>1, <1>2 DEF BF!Min

\* A bar that holds the prints of its window is the tape's.
LEMMA BarIsOfTape ==
    ASSUME Windowed, IsTape(tape), NEW s, NEW rows, NEW b, IsBar(b, s, tape),
           {n \in rows : tape[n].symbol = s /\ BF!Bucket(tape[n].at) = b.bucket} = BF!Range(b.prints)
    PROVE  [b EXCEPT !.prints = BF!Range(@)] = BF!TapeBar(s, rows, b.bucket)
<1> DEFINE p == b.prints
           l == Len(p)
           of == BF!Range(p)
           prices == {tape[n].price : n \in of}
<1>1. b \in Candle /\ p \in Seq(Nat) /\ l \in Nat /\ l > 0 /\ DOMAIN p = 1 .. l
  BY LenProperties DEF IsBar, Candle
<1>2. /\ of = {p[i] : i \in 1 .. l}
      /\ \A i, j \in 1 .. l : i < j => p[i] < p[j]
      /\ \A i \in 1 .. l : p[i] \in Nat /\ p[i] \in 1 .. Len(tape)
  BY <1>1 DEF BF!Range, IsBar
<1>3. /\ b.open = tape[p[1]].price /\ b.close = tape[p[l]].price
      /\ \E i \in 1 .. l : tape[p[i]].price = b.high
      /\ \E i \in 1 .. l : tape[p[i]].price = b.low
      /\ \A i \in 1 .. l : b.low <= tape[p[i]].price /\ tape[p[i]].price <= b.high
  BY DEF IsBar, Says
<1>4. 1 \in 1 .. l /\ l \in 1 .. l
  BY <1>1
<1>5. \A i \in 1 .. l : tape[p[i]].price \in Int
  BY <1>2, TapeSays
<1> HIDE DEF p, l, of
<1>6. \A i \in 1 .. l : p[1] <= p[i] /\ p[i] <= p[l]
  <2> TAKE i \in 1 .. l
  <2>1. i = 1 \/ 1 < i
    BY <1>1
  <2>2. i = l \/ i < l
    BY <1>1
  <2> QED BY <1>2, <1>4, <2>1, <2>2
<1>7. BF!Min(of) = p[1]
  <2>1. of \in SUBSET Int /\ p[1] \in of /\ \A y \in of : p[1] <= y
    BY <1>2, <1>4, <1>6
  <2> QED BY <2>1, LowestIs
<1>8. BF!Max(of) = p[l]
  <2>1. of \in SUBSET Int /\ p[l] \in of /\ \A y \in of : y <= p[l]
    BY <1>2, <1>4, <1>6
  <2> QED BY <2>1, HighestIs
<1>9. prices = {tape[p[i]].price : i \in 1 .. l}
  BY <1>2
<1> HIDE DEF prices
<1>10. BF!Max(prices) = b.high
  <2>1. prices \in SUBSET Int /\ b.high \in prices /\ \A y \in prices : y <= b.high
    BY <1>3, <1>5, <1>9
  <2> QED BY <2>1, HighestIs
<1>11. BF!Min(prices) = b.low
  <2>1. prices \in SUBSET Int /\ b.low \in prices /\ \A y \in prices : b.low <= y
    BY <1>3, <1>5, <1>9
  <2> QED BY <2>1, LowestIs
<1>12. BF!TapeBar(s, rows, b.bucket) =
         [bucket |-> b.bucket, open |-> tape[BF!Min(of)].price, high |-> BF!Max(prices),
          low |-> BF!Min(prices), close |-> tape[BF!Max(of)].price, prints |-> of]
  BY DEF BF!TapeBar, of, prices, p
<1>13. [b EXCEPT !.prints = BF!Range(@)] =
         [bucket |-> b.bucket, open |-> b.open, high |-> b.high, low |-> b.low,
          close |-> b.close, prints |-> of]
  BY <1>1 DEF Candle, of, p
<1> QED BY <1>3, <1>7, <1>8, <1>10, <1>11, <1>12, <1>13

\* What the session made of the prints is what the tape says.
LEMMA BarsAreOfTape == ASSUME Windowed, FeedInv PROVE BF!BarsOfTape
<1> SUFFICES ASSUME NEW s \in Symbol
    PROVE LET series == BF!LiveBars(s)
              of == {n \in DOMAIN tape : tape[n].symbol = s}
              waiting == BF!Range(pending) \cup BF!Range(turn.left) \cup lost
          IN  /\ BF!InBars(s) = of \ waiting
              /\ \A k \in DOMAIN series : \A i, j \in DOMAIN series[k].prints :
                    i < j => series[k].prints[i] < series[k].prints[j]
              /\ \A k, l \in DOMAIN series : k < l =>
                    /\ series[k].bucket < series[l].bucket
                    /\ \A m \in BF!Range(series[k].prints), n \in BF!Range(series[l].prints) : m < n
              /\ \A k \in DOMAIN emitted[s] : emitted[s][k].bucket < BF!Bucket(clock)
              /\ BF!OnTime(s) =>
                    /\ {bar.bucket : bar \in BF!Range(series)} = BF!Windows(s, of \ waiting)
                    /\ \A bar \in BF!Range(series) :
                         [bar EXCEPT !.prints = BF!Range(@)] = BF!TapeBar(s, of \ waiting, bar.bucket)
  BY DEF BF!BarsOfTape
<1> DEFINE series == BF!LiveBars(s)
           of == {n \in DOMAIN tape : tape[n].symbol = s}
           waiting == BF!Range(pending) \cup BF!Range(turn.left) \cup lost
<1>1. /\ FeedTypes /\ Queued(Queue, lost, tape) /\ AllTold(s, series, Queue, lost, tape)
      /\ Punctual(series, emitted[s], BF!Bucket(clock)) /\ AreBars(series, s, tape)
  BY DEF FeedInv, AllTold
<1>2. Len(tape) \in Nat /\ DOMAIN tape = 1 .. Len(tape) /\ IsTape(tape)
  BY <1>1, LenProperties DEF FeedTypes, IsTape
<1>3. /\ DOMAIN series = 1 .. Len(series) /\ emitted[s] \in Seq(Candle)
      /\ DOMAIN emitted[s] = 1 .. Len(emitted[s])
  BY <1>1, LenProperties DEF AreBars, FeedTypes
<1>4. \A k \in 1 .. Len(series) : /\ IsBar(series[k], s, tape)
                                  /\ DOMAIN series[k].prints = 1 .. Len(series[k].prints)
  <2> TAKE k \in 1 .. Len(series)
  <2>1. IsBar(series[k], s, tape)
    BY <1>1 DEF AreBars
  <2>2. series[k].prints \in Seq(Nat)
    BY <2>1 DEF IsBar, Candle
  <2> QED BY <2>1, <2>2, LenProperties
<1>5. \A k \in 1 .. Len(series) : \A n : n \in BF!Range(series[k].prints) <=> Takes(series[k], n)
  <2> HIDE DEF series
  <2> QED BY <1>4 DEF BF!Range, Takes
<1>6. \A n : n \in BF!InBars(s) <=> Holds(series, n)
  <2>1. BF!InBars(s) = UNION {BF!Range(bar.prints) : bar \in {series[k] : k \in 1 .. Len(series)}}
    BY <1>3 DEF BF!InBars, BF!Range
  <2> HIDE DEF series
  <2> QED BY <1>5, <2>1 DEF Holds
<1>7. \A n : n \in waiting <=> n \in lost \/ Waits(Queue, n)
  <2>1. ASSUME NEW q \in Seq(Nat), NEW n PROVE n \in BF!Range(q) <=> Waits(q, n)
    <3>1. DOMAIN q = 1 .. Len(q)
      BY LenProperties
    <3> QED BY <3>1 DEF BF!Range, Waits
  <2>2. /\ pending \in Seq(Nat) /\ turn.left \in Seq(Nat) /\ turn.at \in {"drain", "ticks"}
        /\ turn.at = "drain" => turn.left = <<>>
        /\ turn.at = "ticks" => pending = <<>>
    BY <1>1 DEF FeedTypes
  <2>3. \A n : ~Waits(<<>>, n)
    BY DEF Waits
  <2> QED BY <2>1, <2>2, <2>3 DEF Queue
<1>8. \A n : Holds(series, n) => n \in 1 .. Len(tape) /\ tape[n].symbol = s
  BY <1>1, <1>2, BarsTake
<1> HIDE DEF series
<1>9. BF!InBars(s) = of \ waiting
  <2>1. ASSUME NEW n, Holds(series, n) PROVE n \notin lost /\ ~Waits(Queue, n)
    <3>1. /\ n \notin lost
          /\ \A i \in 1 .. Len(Queue) : tape[Queue[i]].symbol = s => n < Queue[i]
      BY <1>1, <2>1 DEF AllTold
    <3>2. \A i \in 1 .. Len(Queue) : Queue[i] # n
      BY <1>2, <1>8, <2>1, <3>1
    <3> QED BY <3>1, <3>2 DEF Waits
  <2>2. \A n \in 1 .. Len(tape) : tape[n].symbol = s => n \in lost \/ Waits(Queue, n) \/ Holds(series, n)
    BY <1>1 DEF AllTold
  <2> HIDE DEF waiting
  <2> QED BY <1>2, <1>6, <1>7, <1>8, <2>1, <2>2
<1>10. \A k, l \in 1 .. Len(series) : k < l =>
         /\ series[k].bucket < series[l].bucket
         /\ \A m, n : Takes(series[k], m) /\ Takes(series[l], n) => m < n
  BY <1>1 DEF AreBars
<1>11. \A k \in DOMAIN emitted[s] : emitted[s][k].bucket < BF!Bucket(clock)
  BY <1>1, <1>3 DEF Punctual
<1>12. \A k \in 1 .. Len(series) : series[k].bucket \in Nat /\ Takes(series[k], series[k].prints[1])
  <2> TAKE k \in 1 .. Len(series)
  <2>1. series \in Seq(Candle)
    BY <1>1 DEF AreBars
  <2>2. series[k].bucket \in Nat /\ Len(series[k].prints) \in Nat /\ Len(series[k].prints) > 0
    BY <1>4, <2>1, CandlesSay DEF IsBar
  <2>3. 1 \in 1 .. Len(series[k].prints)
    BY <2>2
  <2> QED BY <2>2, <2>3 DEF Takes
<1>13. ASSUME BF!OnTime(s)
       PROVE  /\ {bar.bucket : bar \in BF!Range(series)} = BF!Windows(s, of \ waiting)
              /\ \A bar \in BF!Range(series) :
                   [bar EXCEPT !.prints = BF!Range(@)] = BF!TapeBar(s, of \ waiting, bar.bucket)
  <2> DEFINE rows == of \ waiting
             window(n) == BF!Bucket(tape[n].at)
  <2>1. \A k \in 1 .. Len(series) : \A n : Takes(series[k], n) => window(n) = series[k].bucket
    BY <1>3, <1>5, <1>13 DEF BF!OnTime, series
  <2>2. \A n : n \in rows <=> Holds(series, n)
    BY <1>6, <1>9
  <2>3. \A n \in rows : tape[n].symbol = s
    OBVIOUS
  <2>4. BF!Range(series) = {series[k] : k \in 1 .. Len(series)}
    BY <1>3 DEF BF!Range
  <2>5. BF!Windows(s, rows) = {window(n) : n \in {m \in rows : tape[m].symbol = s}}
    BY DEF BF!Windows
  <2> HIDE DEF rows, window
  <2>6. \A k \in 1 .. Len(series) : series[k].prints[1] \in rows /\ window(series[k].prints[1]) = series[k].bucket
    BY <1>12, <2>1, <2>2 DEF Holds
  <2>7. \A n \in rows : \E k \in 1 .. Len(series) : Takes(series[k], n) /\ window(n) = series[k].bucket
    BY <2>1, <2>2 DEF Holds
  <2>8. {bar.bucket : bar \in BF!Range(series)} = BF!Windows(s, rows)
    <3>1. \A w \in {bar.bucket : bar \in BF!Range(series)} : w \in BF!Windows(s, rows)
      BY <2>3, <2>4, <2>5, <2>6
    <3>2. \A w \in BF!Windows(s, rows) : w \in {bar.bucket : bar \in BF!Range(series)}
      BY <2>4, <2>5, <2>7
    <3> QED BY <3>1, <3>2
  <2>9. ASSUME NEW k \in 1 .. Len(series)
        PROVE  {n \in rows : tape[n].symbol = s /\ window(n) = series[k].bucket} = BF!Range(series[k].prints)
    <3>1. ASSUME NEW n \in rows, window(n) = series[k].bucket PROVE Takes(series[k], n)
      <4>1. PICK l \in 1 .. Len(series) : Takes(series[l], n) /\ series[l].bucket = series[k].bucket
        BY <2>7, <3>1
      <4>2. l = k
        <5>1. l < k \/ k < l \/ l = k
          OBVIOUS
        <5> QED BY <1>10, <1>12, <4>1, <5>1
      <4> QED BY <4>1, <4>2
    <3>2. ASSUME NEW n, Takes(series[k], n) PROVE n \in rows /\ window(n) = series[k].bucket
      BY <2>1, <2>2, <3>2 DEF Holds
    <3>3. \A n : n \in BF!Range(series[k].prints) <=> Takes(series[k], n)
      BY <1>5
    <3>4. \A n : n \in rows /\ tape[n].symbol = s /\ window(n) = series[k].bucket <=> Takes(series[k], n)
      BY <2>3, <3>1, <3>2
    <3> HIDE DEF Takes
    <3> QED BY ONLY <3>3, <3>4
  <2>10. ASSUME NEW k \in 1 .. Len(series)
         PROVE  [series[k] EXCEPT !.prints = BF!Range(@)] = BF!TapeBar(s, rows, series[k].bucket)
    <3>1. IsBar(series[k], s, tape)
      BY <1>4
    <3>2. {n \in rows : tape[n].symbol = s /\ BF!Bucket(tape[n].at) = series[k].bucket} = BF!Range(series[k].prints)
      BY <2>9 DEF window
    <3> QED BY <1>2, <3>1, <3>2, BarIsOfTape
  <2> QED BY <2>4, <2>8, <2>10 DEF rows
<1>14. \A k \in DOMAIN series : \A i, j \in DOMAIN series[k].prints :
         i < j => series[k].prints[i] < series[k].prints[j]
  BY <1>3, <1>4 DEF IsBar
<1>15. \A k, l \in DOMAIN series : k < l =>
         /\ series[k].bucket < series[l].bucket
         /\ \A m \in BF!Range(series[k].prints), n \in BF!Range(series[l].prints) : m < n
  BY <1>3, <1>5, <1>10
<1> HIDE DEF of, waiting
<1> QED BY <1>9, <1>11, <1>13, <1>14, <1>15 DEF of, waiting, series

\* What on_bar ordered fills where a replay fills it.
LEMMA OrdersFillAsReplayed == ASSUME FeedInv PROVE BF!FillsAsReplayed
<1> SUFFICES ASSUME NEW s \in Symbol, order[s].at = "filled"
    PROVE /\ \A n \in BF!InBars(s) : n > order[s].saw => order[s].filled <= n
          /\ order[s].filled > order[s].saw
          /\ IF order[s].by = "timer"
               THEN tape[order[s].filled].price = BF!ReplayFill(BF!LiveBars(s), order[s].bar)
               ELSE Head(BF!LiveBars(s)[order[s].bar + 1].prints) = order[s].saw
  BY DEF BF!FillsAsReplayed
<1> DEFINE series == BF!LiveBars(s)
           o == order[s]
<1>1. Filled(o, series, tape) /\ AreBars(series, s, tape) /\ o \in Ordering
  BY DEF FeedInv, Owes, AllTold, FeedTypes
<1>2. series \in Seq(Candle) /\ DOMAIN series = 1 .. Len(series)
  BY <1>1, LenProperties DEF AreBars
<1>3. \A n : n \in BF!InBars(s) => Holds(series, n)
  <2>1. \A k \in 1 .. Len(series) : \A n : n \in BF!Range(series[k].prints) => Takes(series[k], n)
    <3> TAKE k \in 1 .. Len(series)
    <3>1. series[k].prints \in Seq(Nat)
      BY <1>2, CandlesSay
    <3>2. DOMAIN series[k].prints = 1 .. Len(series[k].prints)
      BY <3>1, LenProperties
    <3> HIDE DEF series
    <3> QED BY <3>2 DEF BF!Range, Takes
  <2>2. BF!InBars(s) = UNION {BF!Range(bar.prints) : bar \in {series[k] : k \in 1 .. Len(series)}}
    BY <1>2 DEF BF!InBars, BF!Range
  <2> HIDE DEF series
  <2> QED BY <2>1, <2>2 DEF Holds
<1>4. o.bar + 1 \in 1 .. Len(series) /\ o.saw \in Nat /\ o.filled \in Nat
  BY <1>1 DEF Filled, Ordering
<1>5. Head(series[o.bar + 1].prints) = series[o.bar + 1].prints[1]
  <2> DEFINE p == series[o.bar + 1].prints
  <2>1. p \in Seq(Nat) /\ Len(p) > 0
    BY <1>1, <1>2, <1>4, CandlesSay DEF AreBars, IsBar
  <2>2. p # <<>>
    BY <2>1, EmptySeq
  <2> HIDE DEF p
  <2>3. Head(p) = p[1]
    BY ONLY <2>1, <2>2, HeadTailProperties
  <2> QED BY <2>3 DEF p
<1> HIDE DEF series, o
<1>6. /\ \A n : Holds(series, n) /\ o.saw < n => o.filled <= n
      /\ o.saw < o.filled
      /\ IF o.by = "timer" THEN tape[o.filled].price = series[o.bar + 1].open
                           ELSE series[o.bar + 1].prints[1] = o.saw
  BY <1>1 DEF Filled
<1>7. \A n \in BF!InBars(s) : n > o.saw => o.filled <= n
  BY <1>3, <1>4, <1>6
<1>8. o.filled > o.saw
  BY <1>4, <1>6
<1> QED BY <1>5, <1>6, <1>7, <1>8 DEF BF!ReplayFill, series, o

\* Bars and the orders on them, for any clock, prices and width of a window.
THEOREM BarsAreTold == ASSUME Windowed PROVE BF!Spec => [](BF!BarsOfTape /\ BF!FillsAsReplayed)
<1>1. BF!Init => FeedInv
  BY FeedBegins
<1>2. FeedInv /\ [BF!Next]_BF!vars => FeedInv'
  <2> SUFFICES ASSUME FeedInv, [BF!Next]_BF!vars PROVE FeedInv'
    OBVIOUS
  <2>1. ASSUME NEW s \in Symbol, NEW p \in TapePrices, BF!Publish(s, p) PROVE FeedInv'
    BY <2>1, FeedPublishes
  <2>2. CASE BF!Drain
    BY <2>2, FeedDrains
  <2>3. CASE BF!Process
    BY <2>3, FeedProcesses
  <2>4. CASE BF!CloseDueBars
    BY <2>4, FeedCloses
  <2>5. CASE BF!Tick
    BY <2>5, FeedTicks
  <2>6. CASE UNCHANGED BF!vars
    <3>1. UNCHANGED <<clock, tape, pending, turn, building, emitted, order, lost>>
      BY <2>6 DEF BF!vars
    <3>2. FeedTypes' /\ Queue' = Queue
      BY <3>1 DEF FeedInv, FeedTypes, Queue
    <3>3. \A s \in Symbol : BF!LiveBars(s)' = BF!LiveBars(s)
      BY <3>1 DEF BF!LiveBars
    <3>4. BF!Bucket(clock)' = BF!Bucket(clock)
      BY <3>1 DEF BF!Bucket
    <3> QED BY <3>1, <3>2, <3>3, <3>4 DEF FeedInv
  <2> QED BY <2>1, <2>2, <2>3, <2>4, <2>5, <2>6 DEF BF!Next
<1>3. FeedInv => BF!BarsOfTape /\ BF!FillsAsReplayed
  BY BarsAreOfTape, OrdersFillAsReplayed
<1> QED BY <1>1, <1>2, <1>3, PTL DEF BF!Spec

----------------------------------------------------------------------------
(* The kernels: one process per user, and the answer to the cell that was   *)
(* asked for.                                                               *)

Cells == Seq(Nat)
Answers == Seq([id : Nat, whole : BOOLEAN])
Objects == [made : BOOLEAN, lock : BOOLEAN, proc : {"none", "up", "dead"}, asked : Cells,
            lines : Answers, next : Nat, idle : BOOLEAN, starts : Nat]

\* Who is in Kernel.run, past the lock.
Runs(t) == pc[t] \in {"starting", "write", "read"}

Desks ==
    /\ kernel \in [KernelNo -> Objects]
    /\ table \in KernelNo \cup {NoKernel} /\ doomed \subseteq KernelNo
    /\ pc \in [Tab -> {"out", "wait", "starting", "write", "read"}]
    /\ held \in [Tab -> KernelNo \cup {NoKernel}]
    /\ mine \in [Tab -> Nat] /\ fresh \in [Tab -> BOOLEAN]
    /\ \A t \in Tab : pc[t] # "out" => held[t] \in KernelNo

\* The lock is that of the one request inside.
Locked ==
    /\ \A t \in Tab : Runs(t) => kernel[held[t]].lock
    /\ \A k \in KernelNo : kernel[k].lock => \E t \in Tab : Runs(t) /\ held[t] = k
    /\ \A t, u \in Tab : Runs(t) /\ Runs(u) /\ held[t] = held[u] => t = u

\* What the pipe of a request that reads may hold: its cell, or the answer to
\* it, whole or in two pieces.
Mine(k, n) ==
    \/ kernel[k].asked = <<n>> /\ kernel[k].lines = <<>>
    \/ /\ kernel[k].asked = <<>>
       /\ \/ kernel[k].lines = <<>>
          \/ kernel[k].lines = <<[id |-> n, whole |-> TRUE]>>
          \/ /\ Len(kernel[k].lines) \in Nat \ {0}
             /\ Head(kernel[k].lines).whole = FALSE

\* A living process has an empty pipe but while a request reads from it.
Pipes ==
    /\ \A k \in KernelNo :
         ~kernel[k].lock /\ kernel[k].proc = "up" => kernel[k].asked = <<>> /\ kernel[k].lines = <<>>
    /\ \A t \in Tab :
         /\ pc[t] \in {"starting", "write"} =>
               kernel[held[t]].asked = <<>> /\ kernel[held[t]].lines = <<>>
         /\ pc[t] = "read" => Mine(held[t], mine[t])

\* What lives or is held is in the table, or was taken from it.
Led ==
    /\ \A k \in KernelNo : kernel[k].proc = "up" =>
          kernel[k].made /\ (k = table \/ k \in doomed \/ k \in shaken)
    /\ \A t \in Tab : pc[t] # "out" => kernel[held[t]].made /\ (held[t] = table \/ held[t] \in shaken)

\* Unless a Kernel was taken from under a run, the process that lives is that of
\* the last result, and so is that of a run that found it alive.
Told ==
    shaken = {} =>
      /\ table # NoKernel /\ kernel[table].proc = "up" /\ ~kernel[table].lock
           => shown = <<table, kernel[table].starts>>
      /\ \A t \in Tab : Runs(t) /\ ~fresh[t] => shown = <<held[t], kernel[held[t]].starts>>

KInv == Desks /\ Locked /\ Pipes /\ Led /\ Told /\ ~crossed

(* Nothing has run in the first state. *)
LEMMA KernelInit == ASSUME NoKernel \notin KernelNo PROVE K!Init => KInv
  BY DEF K!Init, K!Unmade, KInv, Desks, Cells, Answers, Objects, Locked, Runs, Pipes, Mine, Led, Told

\* What killing a Kernel's process does to it.
LEMMA Killing ==
    ASSUME NEW r \in Objects
    PROVE  /\ K!Killed(r) \in Objects
           /\ K!Killed(r).proc = "none" /\ K!Killed(r).asked = <<>>
           /\ K!Killed(r).made = r.made /\ K!Killed(r).lock = r.lock
           /\ K!Killed(r).lines = r.lines /\ K!Killed(r).starts = r.starts
           /\ K!Killed(r).next = r.next
<1>1. <<>> \in Cells
  BY DEF Cells
<1> QED BY <1>1 DEF K!Killed, Objects

\* To whom runs belong, what is in their pipes and which result was the last
\* does not change with what only kills, or makes a Kernel.
Tamed ==
    /\ kernel' \in [KernelNo -> Objects]
    /\ \A j \in KernelNo :
         /\ kernel'[j].lock = kernel[j].lock /\ kernel'[j].starts = kernel[j].starts
         /\ kernel'[j].lines = kernel[j].lines
         /\ \/ kernel'[j].asked = kernel[j].asked /\ kernel'[j].proc = kernel[j].proc
            \/ kernel'[j].asked = <<>> /\ kernel'[j].proc = "none"
         /\ kernel[j].made => kernel'[j].made

(* What the reaper does. *)
LEMMA Reaping ==
    ASSUME KInv
    PROVE  /\ K!AfterReap \in [KernelNo -> Objects]
           /\ \A j \in KernelNo :
                K!AfterReap[j] = IF K!Reapable /\ j = table THEN K!Killed(kernel[j]) ELSE kernel[j]
<1>1. \A j \in KernelNo : K!Killed(kernel[j]) \in Objects
  BY Killing DEF KInv, Desks
<1> QED BY <1>1 DEF KInv, Desks, K!AfterReap, K!Reaped, K!Reapable

(* Runs keep what they know through a step that only kills or makes. *)
LEMMA TamedKeeps ==
    ASSUME KInv, Tamed,
           \A u \in Tab : (Runs(u)' <=> Runs(u)) /\ (Runs(u) => held'[u] = held[u] /\ pc'[u] = pc[u]),
           mine' = mine
    PROVE  Locked' /\ Pipes'
<1>1. Locked'
  <2>1. \A t \in Tab : Runs(t)' => kernel'[held'[t]].lock
    BY DEF KInv, Desks, Locked, Tamed, Runs
  <2>2. \A k \in KernelNo : kernel'[k].lock => \E t \in Tab : Runs(t)' /\ held'[t] = k
    BY DEF KInv, Desks, Locked, Tamed
  <2>3. \A t, u \in Tab : Runs(t)' /\ Runs(u)' /\ held'[t] = held'[u] => t = u
    BY DEF KInv, Locked
  <2> QED BY <2>1, <2>2, <2>3 DEF Locked
<1>2. Pipes'
  <2>1. \A k \in KernelNo :
         ~kernel'[k].lock /\ kernel'[k].proc = "up" => kernel'[k].asked = <<>> /\ kernel'[k].lines = <<>>
    BY DEF KInv, Pipes, Tamed
  <2>2. ASSUME NEW t \in Tab, Runs(t)'
        PROVE  /\ pc'[t] \in {"starting", "write"} =>
                     kernel'[held'[t]].asked = <<>> /\ kernel'[held'[t]].lines = <<>>
               /\ pc'[t] = "read" => Mine(held[t], mine[t])'
    <3>1. Runs(t) /\ held'[t] = held[t] /\ pc'[t] = pc[t] /\ held[t] \in KernelNo
      BY <2>2 DEF KInv, Desks, Runs
    <3>2. /\ kernel'[held[t]].lines = kernel[held[t]].lines
          /\ kernel'[held[t]].asked \in {kernel[held[t]].asked, <<>>}
      BY <3>1 DEF Tamed
    <3>3. CASE pc[t] = "read"
      <4>1. Mine(held[t], mine[t])
        BY <3>3 DEF KInv, Pipes
      <4> QED BY <3>1, <3>2, <3>3, <4>1 DEF Mine
    <3>4. CASE pc[t] # "read"
      BY <3>1, <3>2, <3>4 DEF KInv, Pipes, Runs
    <3> QED BY <3>3, <3>4
  <2> QED BY <2>1, <2>2 DEF Pipes, Runs
<1> QED BY <1>1, <1>2

(* A request that takes the Kernel of its user may retire an idle one first. *)
LEMMA GetKeeps == ASSUME NoKernel \notin KernelNo, KInv, NEW t \in Tab, K!Get(t) PROVE KInv'
<1>1. PICK k \in KernelNo :
        /\ IF K!TableAfterReap = NoKernel THEN ~kernel[k].made ELSE k = table
        /\ table' = k /\ kernel' = [K!AfterReap EXCEPT ![k].made = TRUE]
        /\ held' = [held EXCEPT ![t] = k]
  BY DEF K!Get
<1>2. /\ shaken' = K!ShakenByReap /\ pc[t] = "out" /\ pc' = [pc EXCEPT ![t] = "wait"]
      /\ UNCHANGED <<mine, fresh, doomed, closed, shown, crossed>>
  BY DEF K!Get
<1>3. \A j \in KernelNo :
        kernel'[j] = IF j = k THEN [K!AfterReap[j] EXCEPT !.made = TRUE] ELSE K!AfterReap[j]
  BY <1>1, Reaping
<1>4. ASSUME NEW j \in KernelNo
      PROVE  /\ kernel'[j] \in Objects
             /\ kernel'[j].lock = kernel[j].lock /\ kernel'[j].starts = kernel[j].starts
             /\ kernel'[j].lines = kernel[j].lines
             /\ \/ kernel'[j].asked = kernel[j].asked /\ kernel'[j].proc = kernel[j].proc
                \/ kernel'[j].asked = <<>> /\ kernel'[j].proc = "none"
             /\ kernel[j].made => kernel'[j].made
             /\ K!Reapable /\ j = table => kernel'[j].proc = "none"
             /\ kernel'[j].made \/ kernel'[j].made = kernel[j].made
  <2> DEFINE r == K!AfterReap[j]
  <2>1. r = IF K!Reapable /\ j = table THEN K!Killed(kernel[j]) ELSE kernel[j]
    BY Reaping
  <2>2. /\ r \in Objects
        /\ r.lock = kernel[j].lock /\ r.starts = kernel[j].starts
        /\ r.lines = kernel[j].lines /\ r.made = kernel[j].made
        /\ \/ r.asked = kernel[j].asked /\ r.proc = kernel[j].proc
           \/ r.asked = <<>> /\ r.proc = "none"
        /\ K!Reapable /\ j = table => r.proc = "none"
    BY <2>1, Killing DEF KInv, Desks
  <2> HIDE DEF r
  <2>3. kernel'[j] = IF j = k THEN [r EXCEPT !.made = TRUE] ELSE r
    BY <1>3 DEF r
  <2> QED BY <2>2, <2>3 DEF Objects
<1>5. Tamed
  <2>1. DOMAIN kernel' = KernelNo
    BY <1>1, Reaping
  <2>2. kernel' = [j \in KernelNo |-> kernel'[j]]
    BY <1>1, Reaping
  <2> QED BY <1>4, <2>2 DEF Tamed
<1>6. Desks'
  BY <1>1, <1>2, <1>5 DEF KInv, Desks, Tamed
<1>7. \A u \in Tab : (Runs(u)' <=> Runs(u)) /\ (Runs(u) => held'[u] = held[u] /\ pc'[u] = pc[u])
  BY <1>1, <1>2 DEF KInv, Desks, Runs
<1>8. Locked' /\ Pipes'
  BY <1>2, <1>5, <1>7, TamedKeeps
<1>9. /\ shaken \subseteq shaken' 
      /\ K!Reapable => \A u \in Tab : pc[u] # "out" /\ held[u] = table => table \in shaken'
  BY <1>2 DEF K!ShakenByReap, K!Removed, K!Holders, K!Reapable
<1>10. \/ k = table /\ ~K!Reapable /\ table # NoKernel
       \/ ~kernel[k].made /\ (K!Reapable \/ table = NoKernel)
  BY <1>1 DEF K!TableAfterReap
<1>11. kernel'[k].made
  BY <1>3, <1>1, Reaping DEF Objects
<1>12. Led'
  <2>1. ASSUME NEW j \in KernelNo, kernel'[j].proc = "up"
        PROVE  kernel'[j].made /\ (j = table' \/ j \in doomed' \/ j \in shaken')
    <3>1. kernel[j].proc = "up" /\ ~(K!Reapable /\ j = table)
      BY <1>4, <2>1
    <3>2. kernel[j].made /\ (j = table \/ j \in doomed \/ j \in shaken)
      BY <3>1 DEF KInv, Led
    <3> QED BY ZenonT(60), <1>1, <1>2, <1>4, <1>9, <1>10, <3>1, <3>2
  <2>2. ASSUME NEW u \in Tab, pc'[u] # "out"
        PROVE  kernel'[held'[u]].made /\ (held'[u] = table' \/ held'[u] \in shaken')
    <3>1. CASE u = t
      BY <1>1, <1>11, <3>1 DEF KInv, Desks
    <3>2. CASE u # t
      <4>1. held'[u] = held[u] /\ pc[u] # "out"
        BY <1>1, <1>2, <2>2, <3>2 DEF KInv, Desks
      <4>2. held[u] \in KernelNo /\ kernel[held[u]].made /\ (held[u] = table \/ held[u] \in shaken)
        BY <4>1 DEF KInv, Led, Desks
      <4> QED BY <1>1, <1>4, <1>9, <1>10, <4>1, <4>2
    <3> QED BY <3>1, <3>2
  <2> QED BY <2>1, <2>2 DEF Led
<1>13. Told'
  <2> SUFFICES ASSUME shaken' = {}
               PROVE  /\ table' # NoKernel /\ kernel'[table'].proc = "up" /\ ~kernel'[table'].lock
                           => shown' = <<table', kernel'[table'].starts>>
                      /\ \A u \in Tab : Runs(u)' /\ ~fresh'[u] =>
                            shown' = <<held'[u], kernel'[held'[u]].starts>>
    BY DEF Told
  <2>1. shaken = {}
    BY <1>9
  <2>2. ASSUME kernel'[table'].proc = "up", ~kernel'[table'].lock
        PROVE  shown' = <<table', kernel'[table'].starts>>
    <3>1. kernel[k].proc = "up" /\ ~kernel[k].lock /\ kernel'[k].starts = kernel[k].starts
      BY <1>1, <1>4, <2>2
    <3>2. k = table /\ table # NoKernel
      BY <1>10, <3>1 DEF KInv, Led
    <3> QED BY <1>1, <1>2, <2>1, <3>1, <3>2 DEF KInv, Told
  <2>3. ASSUME NEW u \in Tab, Runs(u)', ~fresh'[u]
        PROVE  shown' = <<held'[u], kernel'[held'[u]].starts>>
    <3>1. Runs(u) /\ held'[u] = held[u] /\ ~fresh[u] /\ held[u] \in KernelNo
      BY <1>2, <1>7, <2>3 DEF KInv, Desks, Runs
    <3>2. kernel'[held[u]].starts = kernel[held[u]].starts
      BY <1>4, <3>1
    <3> QED BY <1>2, <2>1, <3>1, <3>2 DEF KInv, Told
  <2> QED BY <2>2, <2>3
<1> QED BY <1>2, <1>6, <1>8, <1>12, <1>13 DEF KInv

(* A step beside the runs: what lives and what is held stays led to. *)
LEMMA BesideKeeps ==
    ASSUME NoKernel \notin KernelNo, KInv, Tamed, UNCHANGED <<pc, held, mine, fresh, shown, crossed>>,
           shaken \subseteq shaken', table' \in {table, NoKernel}, doomed' \subseteq KernelNo,
           \A j \in KernelNo : kernel'[j].proc = "up" => j = table' \/ j \in doomed' \/ j \in shaken',
           \A u \in Tab : pc[u] # "out" => held[u] = table' \/ held[u] \in shaken'
    PROVE  KInv'
<1>1. \A u \in Tab : (Runs(u)' <=> Runs(u)) /\ (Runs(u) => held'[u] = held[u] /\ pc'[u] = pc[u])
  BY DEF Runs
<1>2. Locked' /\ Pipes'
  BY <1>1, TamedKeeps
<1>3. Desks'
  BY DEF KInv, Desks, Tamed
<1>4. Led'
  BY DEF KInv, Desks, Led, Tamed
<1>5. Told'
  <2>1. ASSUME NEW u \in Tab, Runs(u)
        PROVE  held[u] \in KernelNo /\ kernel'[held[u]].starts = kernel[held[u]].starts
    BY <2>1 DEF KInv, Desks, Runs, Tamed
  <2>2. ASSUME table' # NoKernel, kernel'[table'].proc = "up", ~kernel'[table'].lock
        PROVE  /\ table' = table /\ kernel[table].proc = "up" /\ ~kernel[table].lock
               /\ kernel'[table].starts = kernel[table].starts
    <3>1. table' = table /\ table \in KernelNo
      BY <2>2 DEF KInv, Desks
    <3> QED BY <2>2, <3>1 DEF Tamed
  <2> QED BY <1>1, <2>1, <2>2 DEF KInv, Told
<1> QED BY <1>2, <1>3, <1>4, <1>5 DEF KInv

(* Killing one Kernel, or none, is such a step. *)
LEMMA OneKilled ==
    ASSUME KInv, NEW k,
           \/ kernel' = kernel
           \/ k \in KernelNo /\ kernel' = [kernel EXCEPT ![k] = K!Killed(@)]
    PROVE  /\ Tamed
           /\ \A j \in KernelNo : kernel'[j].proc = "up" => kernel[j].proc = "up"
           /\ kernel' # kernel => k \in KernelNo /\ kernel'[k].proc = "none"
<1>1. CASE kernel' = kernel
  BY <1>1 DEF KInv, Desks, Tamed
<1>2. CASE k \in KernelNo /\ kernel' = [kernel EXCEPT ![k] = K!Killed(@)]
  <2>1. \A j \in KernelNo : kernel'[j] = IF j = k THEN K!Killed(kernel[j]) ELSE kernel[j]
    BY <1>2 DEF KInv, Desks
  <2>2. \A j \in KernelNo : kernel[j] \in Objects
    BY DEF KInv, Desks
  <2>3. kernel' \in [KernelNo -> Objects]
    BY <1>2, <2>2, Killing DEF KInv, Desks
  <2>4. k \in KernelNo
    BY <1>2
  <2> QED BY <2>1, <2>2, <2>3, <2>4, Killing DEF Tamed
<1> QED BY <1>1, <1>2

(* Another user's request retires a Kernel that is idle here. *)
LEMMA OthersGetKeeps == ASSUME NoKernel \notin KernelNo, KInv, K!OthersGet PROVE KInv'
<1>1. /\ K!Reapable /\ table' = NoKernel /\ kernel' = [kernel EXCEPT ![table] = K!Killed(@)]
      /\ shaken' = shaken \cup K!Removed
      /\ UNCHANGED <<pc, held, mine, fresh, doomed, closed, shown, crossed>>
  BY DEF K!OthersGet, K!AfterReap, K!ShakenByReap, K!Reaped
<1>2. table \in KernelNo
  BY <1>1 DEF KInv, Desks, K!Reapable
<1>3. /\ Tamed /\ \A j \in KernelNo : kernel'[j].proc = "up" => kernel[j].proc = "up"
      /\ kernel'[table].proc = "none"
  <2>1. kernel'[table] = K!Killed(kernel[table])
    BY <1>1, <1>2 DEF KInv, Desks
  <2>2. kernel'[table].proc = "none"
    BY <2>1 DEF K!Killed, KInv, Desks, Objects
  <2> QED BY <1>1, <1>2, <2>2, OneKilled
<1>4. \A u \in Tab : pc[u] # "out" /\ held[u] = table => table \in shaken'
  BY <1>1 DEF K!Removed, K!Holders, K!Reapable
<1>5. \A j \in KernelNo : kernel'[j].proc = "up" => j = table' \/ j \in doomed' \/ j \in shaken'
  BY <1>1, <1>3 DEF KInv, Led
<1>6. \A u \in Tab : pc[u] # "out" => held[u] = table' \/ held[u] \in shaken'
  BY <1>1, <1>4 DEF KInv, Led
<1>7. doomed' \subseteq KernelNo
  BY <1>1 DEF KInv, Desks
<1>8. UNCHANGED <<pc, held, mine, fresh, shown, crossed>>
  BY <1>1
<1>9. shaken \subseteq shaken' /\ table' \in {table, NoKernel}
  BY <1>1
<1> QED BY <1>3, <1>5, <1>6, <1>7, <1>8, <1>9, BesideKeeps

(* A reset takes the Kernel out of the table, and kills it later. *)
LEMMA ResetKeeps == ASSUME NoKernel \notin KernelNo, KInv, K!Reset PROVE KInv'
<1>1. /\ table # NoKernel /\ table' = NoKernel /\ doomed' = doomed \cup {table}
      /\ shaken' = shaken \cup K!Removed /\ kernel' = kernel
      /\ UNCHANGED <<pc, held, mine, fresh, closed, shown, crossed>>
  BY DEF K!Reset
<1>2. Tamed
  BY <1>1 DEF Tamed, KInv, Desks
<1>3. \A u \in Tab : pc[u] # "out" => held[u] = table' \/ held[u] \in shaken'
  BY <1>1 DEF KInv, Led, K!Removed, K!Holders
<1>4. \A j \in KernelNo : kernel'[j].proc = "up" => j = table' \/ j \in doomed' \/ j \in shaken'
  BY <1>1 DEF KInv, Led
<1>5. doomed' \subseteq KernelNo
  BY <1>1 DEF KInv, Desks
<1>6. UNCHANGED <<pc, held, mine, fresh, shown, crossed>>
  BY <1>1
<1>7. shaken \subseteq shaken' /\ table' \in {table, NoKernel}
  BY <1>1
<1> QED BY <1>2, <1>3, <1>4, <1>5, <1>6, <1>7, BesideKeeps

(* The process of a reset ends, whoever reads from it. *)
LEMMA ResetKillsKeeps ==
    ASSUME NoKernel \notin KernelNo, KInv, NEW k \in KernelNo, K!ResetKills(k) PROVE KInv'
<1>1. /\ k \in doomed /\ doomed' = doomed \ {k} /\ kernel' = [kernel EXCEPT ![k] = K!Killed(@)]
      /\ UNCHANGED <<table, pc, held, mine, fresh, closed, shaken, shown, crossed>>
  BY DEF K!ResetKills
<1>2. Tamed /\ \A j \in KernelNo : kernel'[j].proc = "up" => kernel[j].proc = "up"
  BY <1>1, OneKilled
<1>3. kernel'[k].proc = "none"
  BY <1>1 DEF K!Killed, KInv, Desks, Objects
<1>4. \A j \in KernelNo : kernel'[j].proc = "up" => j = table' \/ j \in doomed' \/ j \in shaken'
  BY <1>1, <1>2, <1>3 DEF KInv, Led
<1>5. \A u \in Tab : pc[u] # "out" => held[u] = table' \/ held[u] \in shaken'
  BY <1>1 DEF KInv, Led
<1>6. doomed' \subseteq KernelNo
  BY <1>1 DEF KInv, Desks
<1>7. UNCHANGED <<pc, held, mine, fresh, shown, crossed>>
  BY <1>1
<1>8. shaken \subseteq shaken' /\ table' \in {table, NoKernel}
  BY <1>1
<1> QED BY <1>2, <1>4, <1>5, <1>6, <1>7, <1>8, BesideKeeps

(* The table is emptied, and its process killed. *)
LEMMA KernelShutdownKeeps == ASSUME NoKernel \notin KernelNo, KInv, K!Shutdown PROVE KInv'
<1>1. /\ table' = NoKernel /\ shaken' = shaken \cup K!Removed
      /\ kernel' = IF table = NoKernel THEN kernel ELSE [kernel EXCEPT ![table] = K!Killed(@)]
      /\ UNCHANGED <<pc, held, mine, fresh, doomed, shown, crossed>>
  BY DEF K!Shutdown
<1>2. Tamed /\ \A j \in KernelNo : kernel'[j].proc = "up" => kernel[j].proc = "up"
  BY <1>1, OneKilled DEF KInv, Desks
<1>3. table # NoKernel => kernel'[table].proc = "none"
  BY <1>1 DEF K!Killed, KInv, Desks, Objects
<1>4. \A j \in KernelNo : kernel'[j].proc = "up" => j = table' \/ j \in doomed' \/ j \in shaken'
  BY <1>1, <1>2, <1>3 DEF KInv, Led
<1>5. \A u \in Tab : pc[u] # "out" => held[u] = table' \/ held[u] \in shaken'
  BY <1>1 DEF KInv, Led, Desks, K!Removed, K!Holders
<1>6. doomed' \subseteq KernelNo
  BY <1>1 DEF KInv, Desks
<1>7. UNCHANGED <<pc, held, mine, fresh, shown, crossed>>
  BY <1>1
<1>8. shaken \subseteq shaken' /\ table' \in {table, NoKernel}
  BY <1>1
<1> QED BY <1>2, <1>4, <1>5, <1>6, <1>7, <1>8, BesideKeeps

(* A Kernel that idles is only marked. *)
LEMMA IdleKeeps ==
    ASSUME NoKernel \notin KernelNo, KInv, NEW k \in KernelNo, K!GrowsIdle(k) PROVE KInv'
<1>1. /\ kernel' = [kernel EXCEPT ![k].idle = TRUE]
      /\ UNCHANGED <<table, pc, held, mine, fresh, doomed, closed, shaken, shown, crossed>>
  BY DEF K!GrowsIdle
<1>2. \A j \in KernelNo : kernel'[j] = IF j = k THEN [kernel[j] EXCEPT !.idle = TRUE] ELSE kernel[j]
  BY <1>1 DEF KInv, Desks
<1>3. \A j \in KernelNo : kernel[j] \in Objects
  BY DEF KInv, Desks
<1>4. kernel' \in [KernelNo -> Objects]
  <2>1. [kernel[k] EXCEPT !.idle = TRUE] \in Objects
    BY <1>3 DEF Objects
  <2> QED BY <1>1, <2>1 DEF KInv, Desks
<1>5. Tamed /\ \A j \in KernelNo : kernel'[j].proc = kernel[j].proc
  <2>1. ASSUME NEW j \in KernelNo
        PROVE  /\ kernel'[j].lock = kernel[j].lock /\ kernel'[j].starts = kernel[j].starts
               /\ kernel'[j].lines = kernel[j].lines /\ kernel'[j].made = kernel[j].made
               /\ kernel'[j].asked = kernel[j].asked /\ kernel'[j].proc = kernel[j].proc
    <3>1. kernel[j] \in Objects
      BY <1>3
    <3> QED BY <1>2, <3>1 DEF Objects
  <2> QED BY <1>4, <2>1 DEF Tamed
<1>6. /\ \A j \in KernelNo : kernel'[j].proc = "up" => j = table' \/ j \in doomed' \/ j \in shaken'
      /\ \A u \in Tab : pc[u] # "out" => held[u] = table' \/ held[u] \in shaken'
  BY <1>1, <1>5 DEF KInv, Led
<1>7. doomed' \subseteq KernelNo
  BY <1>1 DEF KInv, Desks
<1>8. UNCHANGED <<pc, held, mine, fresh, shown, crossed>>
  BY <1>1
<1>9. shaken \subseteq shaken' /\ table' \in {table, NoKernel}
  BY <1>1
<1> QED BY <1>5, <1>6, <1>7, <1>8, <1>9, BesideKeeps

(* A step of one run, which concerns the Kernel it holds. *)
OnlyItsOwn(t) ==
    /\ kernel' \in [KernelNo -> Objects]
    /\ \A j \in KernelNo : j # held[t] => kernel'[j] = kernel[j]
    /\ \A u \in Tab : u # t => pc'[u] = pc[u] /\ held'[u] = held[u] /\ mine'[u] = mine[u] /\ fresh'[u] = fresh[u]
    /\ UNCHANGED <<table, doomed, shaken>>

(* What a run, by one step, leaves to the others: those that wait for the same *)
(* Kernel, and those that hold another one. *)
LEMMA OthersKeep ==
    ASSUME KInv, NEW t \in Tab, pc[t] # "out", OnlyItsOwn(t),
           Runs(t) \/ ~kernel[held[t]].lock
    PROVE  \A u \in Tab : u # t /\ Runs(u) =>
              /\ held[u] # held[t] /\ Runs(u)' /\ held'[u] = held[u] /\ held[u] \in KernelNo
              /\ kernel'[held[u]] = kernel[held[u]]
<1> SUFFICES ASSUME NEW u \in Tab, u # t, Runs(u)
             PROVE  /\ held[u] # held[t] /\ Runs(u)' /\ held'[u] = held[u] /\ held[u] \in KernelNo
                    /\ kernel'[held[u]] = kernel[held[u]]
  OBVIOUS
<1>1. held[u] \in KernelNo
  BY DEF KInv, Desks, Runs
<1>2. held[u] # held[t]
  BY DEF KInv, Locked
<1> QED BY <1>1, <1>2 DEF OnlyItsOwn, Runs

\* A run ends: its lock is free, and its process is gone, or has given the
\* result and nothing else.
LEMMA ReturnKeeps ==
    ASSUME NoKernel \notin KernelNo, KInv, NEW t \in Tab, Runs(t),
           NEW r \in Objects, K!Return(t, r), crossed' = FALSE, r.made = kernel[held[t]].made,
           r.proc = "up" =>
              /\ r.asked = <<>> /\ r.lines = <<>>
              /\ kernel[held[t]].proc = "up" /\ shown' = <<held[t], r.starts>>
    PROVE  KInv'
<1> DEFINE k == held[t]
<1>1. k \in KernelNo /\ pc[t] # "out"
  BY DEF KInv, Desks, Runs
<1>2. /\ kernel' = [kernel EXCEPT ![k] = [r EXCEPT !.lock = FALSE]]
      /\ pc' = [pc EXCEPT ![t] = "out"] /\ held' = [held EXCEPT ![t] = NoKernel]
      /\ mine' = [mine EXCEPT ![t] = 0] /\ fresh' = [fresh EXCEPT ![t] = FALSE]
      /\ UNCHANGED <<table, doomed, closed, shaken>>
  BY DEF K!Return
<1>3. /\ [r EXCEPT !.lock = FALSE] \in Objects
      /\ kernel'[k] = [r EXCEPT !.lock = FALSE]
      /\ \A j \in KernelNo : j # k => kernel'[j] = kernel[j]
  BY <1>1, <1>2 DEF KInv, Desks, Objects
<1>4. /\ kernel'[k].lock = FALSE /\ kernel'[k].proc = r.proc /\ kernel'[k].asked = r.asked
      /\ kernel'[k].lines = r.lines /\ kernel'[k].made = r.made /\ kernel'[k].starts = r.starts
  BY <1>3 DEF Objects
<1>5. OnlyItsOwn(t)
  BY <1>1, <1>2, <1>3 DEF OnlyItsOwn, KInv, Desks
<1>6. pc'[t] = "out" /\ ~Runs(t)'
  BY <1>2 DEF KInv, Desks, Runs
<1>7. Desks'
  BY <1>1, <1>2, <1>5 DEF KInv, Desks, OnlyItsOwn
<1>8. \A u \in Tab : u # t /\ Runs(u) =>
              /\ held[u] # held[t] /\ Runs(u)' /\ held'[u] = held[u] /\ held[u] \in KernelNo
              /\ kernel'[held[u]] = kernel[held[u]]
  BY <1>1, <1>5, OthersKeep
<1>9. \A u \in Tab : Runs(u)' => u # t /\ Runs(u)
  BY <1>6, <1>5 DEF OnlyItsOwn, Runs
<1>10. Locked'
  <2>1. \A u \in Tab : Runs(u)' => kernel'[held'[u]].lock
    BY <1>8, <1>9 DEF KInv, Locked
  <2>2. ASSUME NEW j \in KernelNo, kernel'[j].lock
        PROVE  \E u \in Tab : Runs(u)' /\ held'[u] = j
    <3>1. j # k /\ kernel[j].lock
      BY <1>3, <1>4, <2>2
    <3>2. PICK u \in Tab : Runs(u) /\ held[u] = j
      BY <3>1 DEF KInv, Locked
    <3> QED BY <1>8, <3>1, <3>2
  <2>3. \A u, w \in Tab : Runs(u)' /\ Runs(w)' /\ held'[u] = held'[w] => u = w
    BY <1>8, <1>9 DEF KInv, Locked
  <2> QED BY <2>1, <2>2, <2>3 DEF Locked
<1>11. Pipes'
  <2>1. \A j \in KernelNo :
         ~kernel'[j].lock /\ kernel'[j].proc = "up" => kernel'[j].asked = <<>> /\ kernel'[j].lines = <<>>
    BY <1>3, <1>4 DEF KInv, Pipes
  <2>2. ASSUME NEW u \in Tab, Runs(u)'
        PROVE  /\ pc'[u] \in {"starting", "write"} =>
                     kernel'[held'[u]].asked = <<>> /\ kernel'[held'[u]].lines = <<>>
               /\ pc'[u] = "read" => Mine(held[u], mine[u])'
    <3>1. /\ u # t /\ Runs(u) /\ held'[u] = held[u] /\ kernel'[held[u]] = kernel[held[u]]
          /\ pc'[u] = pc[u] /\ mine'[u] = mine[u]
      BY <1>5, <1>8, <1>9, <2>2 DEF OnlyItsOwn
    <3> QED BY <3>1 DEF KInv, Pipes, Mine
  <2> QED BY <2>1, <2>2 DEF Pipes, Runs
<1>12. Led'
  <2>1. ASSUME NEW j \in KernelNo, kernel'[j].proc = "up"
        PROVE  kernel'[j].made /\ (j = table' \/ j \in doomed' \/ j \in shaken')
    <3>1. kernel[j].proc = "up" /\ kernel'[j].made = kernel[j].made
      BY <1>3, <1>4, <2>1
    <3> QED BY <1>2, <2>1, <3>1 DEF KInv, Led
  <2>2. ASSUME NEW u \in Tab, pc'[u] # "out"
        PROVE  kernel'[held'[u]].made /\ (held'[u] = table' \/ held'[u] \in shaken')
    <3>1. u # t
      BY <1>6, <2>2
    <3>2. pc[u] # "out" /\ held'[u] = held[u] /\ held[u] \in KernelNo
      BY <1>5, <2>2, <3>1 DEF OnlyItsOwn, KInv, Desks
    <3>3. kernel'[held[u]].made = kernel[held[u]].made
      BY <1>3, <1>4, <3>2
    <3> QED BY <1>2, <3>2, <3>3 DEF KInv, Led
  <2> QED BY <2>1, <2>2 DEF Led
<1>13. Told'
  <2> SUFFICES ASSUME shaken' = {}
               PROVE  /\ table' # NoKernel /\ kernel'[table'].proc = "up" /\ ~kernel'[table'].lock
                           => shown' = <<table', kernel'[table'].starts>>
                      /\ \A u \in Tab : Runs(u)' /\ ~fresh'[u] =>
                            shown' = <<held'[u], kernel'[held'[u]].starts>>
    BY DEF Told
  <2>1. shaken = {} /\ table' = k
    BY <1>1, <1>2 DEF KInv, Led
  <2>2. \A u \in Tab : ~Runs(u)'
    BY <1>1, <1>8, <1>9, <2>1 DEF KInv, Led, Runs
  <2> QED BY <1>4, <2>1, <2>2, <1>2
<1> QED BY <1>7, <1>10, <1>11, <1>12, <1>13 DEF KInv

(* The ways out of a run but the one that tells of an answer. *)
LEMMA ReturnsKeep ==
    ASSUME NoKernel \notin KernelNo, KInv, NEW t \in Tab,
           K!NotReady(t) \/ K!BrokenPipe(t) \/ K!Result(t) \/ K!Garbage(t) \/ K!TimedOut(t)
    PROVE  KInv'
<1> DEFINE k == held[t]
           r == kernel[k]
<1>1. Runs(t)
  BY DEF Runs, K!NotReady, K!BrokenPipe, K!Result, K!Garbage, K!TimedOut
<1>2. k \in KernelNo /\ r \in Objects
  BY <1>1 DEF KInv, Desks, Runs
<1>3. K!Killed(r) \in Objects /\ K!Killed(r).proc = "none" /\ K!Killed(r).made = r.made
  BY <1>2, Killing
<1>4. crossed = FALSE
  BY DEF KInv
<1>5. CASE K!NotReady(t) \/ K!TimedOut(t)
  <2>1. K!Return(t, K!Killed(r)) /\ crossed' = FALSE
    BY <1>4, <1>5 DEF K!NotReady, K!TimedOut, K!AfterTimeout, KInv
  <2> DEFINE q == K!Killed(r)
  <2>2. q \in Objects /\ q.proc = "none" /\ q.made = kernel[held[t]].made /\ K!Return(t, q)
    BY <1>3, <2>1
  <2> HIDE DEF q
  <2> QED BY <1>1, <2>1, <2>2, ReturnKeeps
<1>6. CASE K!BrokenPipe(t)
  <2>1. [r EXCEPT !.next = @ + 1] \in Objects /\ [r EXCEPT !.next = @ + 1].made = r.made
    BY <1>2 DEF Objects
  <2>2. K!Return(t, K!Killed([r EXCEPT !.next = @ + 1])) /\ crossed' = FALSE
    BY <1>4, <1>6 DEF K!BrokenPipe, KInv
  <2> DEFINE q == K!Killed([r EXCEPT !.next = @ + 1])
  <2>3. q \in Objects /\ q.proc = "none" /\ q.made = r.made
    <3> HIDE DEF r
    <3> QED BY <2>1, Killing
  <2> HIDE DEF q
  <2>4. K!Return(t, q)
    BY <2>2 DEF q
  <2> QED BY <1>1, <2>2, <2>3, <2>4, ReturnKeeps
<1>7. CASE K!Garbage(t)
  <2>1. r.lines # <<>>
    BY <1>7 DEF K!Garbage
  <2>2. Tail(r.lines) \in Answers
    BY <1>2, <2>1 DEF Objects, Answers
  <2>3. [r EXCEPT !.lines = Tail(@)] \in Objects /\ [r EXCEPT !.lines = Tail(@)].made = r.made
    BY <1>2, <2>2 DEF Objects
  <2>4. K!Return(t, K!Killed([r EXCEPT !.lines = Tail(@)])) /\ crossed' = FALSE
    BY <1>4, <1>7 DEF K!Garbage, K!AfterGarbage, KInv
  <2> DEFINE q == K!Killed([r EXCEPT !.lines = Tail(@)])
  <2>5. q \in Objects /\ q.proc = "none" /\ q.made = r.made
    <3> HIDE DEF r
    <3> QED BY <2>3, Killing
  <2> HIDE DEF q
  <2>6. K!Return(t, q)
    BY <2>4 DEF q
  <2> QED BY <1>1, <2>4, <2>5, <2>6, ReturnKeeps
<1>8. CASE K!Result(t)
  <2>1. /\ pc[t] = "read" /\ r.lines # <<>> /\ Head(r.lines).whole
        /\ K!Return(t, [r EXCEPT !.lines = Tail(@)])
        /\ crossed' = (crossed \/ Head(r.lines).id # mine[t])
        /\ shown' = <<k, r.starts>>
    BY <1>8 DEF K!Result
  <2>2. Mine(k, mine[t])
    BY <2>1 DEF KInv, Pipes
  <2>3. r.asked = <<>> /\ r.lines = <<[id |-> mine[t], whole |-> TRUE]>>
    BY <2>1, <2>2 DEF Mine
  <2>4. Head(r.lines).id = mine[t] /\ Tail(r.lines) = <<>>
    <3> DEFINE l == [id |-> mine[t], whole |-> TRUE]
    <3>1. l.id = mine[t] /\ r.lines = <<l>>
      BY <2>3
    <3> HIDE DEF l
    <3> QED BY <3>1
  <2>5. crossed' = FALSE
    BY <1>4, <2>1, <2>4
  <2> DEFINE q == [r EXCEPT !.lines = Tail(@)]
  <2>6. Tail(r.lines) \in Answers
    <3>1. <<>> \in Answers
      BY DEF Answers
    <3> HIDE DEF r
    <3> QED BY <2>4, <3>1
  <2>7. /\ q \in Objects /\ q.proc = r.proc /\ q.asked = r.asked /\ q.lines = Tail(r.lines)
        /\ q.made = r.made /\ q.starts = r.starts
    BY <1>2, <2>6 DEF Objects
  <2> HIDE DEF q
  <2>8. K!Return(t, q)
    BY <2>1 DEF q
  <2> QED BY <1>1, <2>1, <2>3, <2>4, <2>5, <2>7, <2>8, ReturnKeeps
<1> QED BY <1>5, <1>6, <1>7, <1>8

(* A step of a run that stays one, or of one that enters: what it holds and *)
(* knows afterwards, given for itself, keeps everything. *)
LEMMA RunKeeps ==
    ASSUME NoKernel \notin KernelNo, KInv, NEW t \in Tab, pc[t] # "out", OnlyItsOwn(t),
           Runs(t) \/ ~kernel[held[t]].lock,
           pc' \in [Tab -> {"out", "wait", "starting", "write", "read"}],
           mine' \in [Tab -> Nat], fresh' \in [Tab -> BOOLEAN], held' = held,
           Runs(t)', kernel'[held[t]].lock, kernel'[held[t]].made = kernel[held[t]].made,
           kernel'[held[t]].proc = "up" =>
              held[t] = table \/ held[t] \in doomed \/ held[t] \in shaken,
           pc'[t] \in {"starting", "write"} =>
              kernel'[held[t]].asked = <<>> /\ kernel'[held[t]].lines = <<>>,
           pc'[t] = "read" => Mine(held[t], mine[t])',
           shaken = {} /\ ~fresh'[t] => shown' = <<held[t], kernel'[held[t]].starts>>,
           shown' = shown, crossed' = crossed
    PROVE  KInv'
<1> DEFINE k == held[t]
<1>1. k \in KernelNo
  BY DEF KInv, Desks
<1>2. Desks'
  BY DEF KInv, Desks, OnlyItsOwn
<1>3. \A u \in Tab : u # t /\ Runs(u) =>
              /\ held[u] # held[t] /\ Runs(u)' /\ held'[u] = held[u] /\ held[u] \in KernelNo
              /\ kernel'[held[u]] = kernel[held[u]]
  BY OthersKeep
<1>4. \A u \in Tab : Runs(u)' => u = t \/ Runs(u)
  BY DEF OnlyItsOwn, Runs
<1>5. Locked'
  <2>1. \A u \in Tab : Runs(u)' => kernel'[held'[u]].lock
    BY <1>3, <1>4 DEF KInv, Locked
  <2>2. ASSUME NEW j \in KernelNo, kernel'[j].lock
        PROVE  \E u \in Tab : Runs(u)' /\ held'[u] = j
    <3>1. CASE j = k
      BY <3>1
    <3>2. CASE j # k
      <4>1. kernel[j].lock
        BY <2>2, <3>2 DEF OnlyItsOwn
      <4>2. PICK u \in Tab : Runs(u) /\ held[u] = j
        BY <4>1 DEF KInv, Locked
      <4> QED BY <1>3, <3>2, <4>2
    <3> QED BY <3>1, <3>2
  <2>3. \A u, w \in Tab : Runs(u)' /\ Runs(w)' /\ held'[u] = held'[w] => u = w
    BY <1>3, <1>4 DEF KInv, Locked
  <2> QED BY <2>1, <2>2, <2>3 DEF Locked
<1>6. Pipes'
  <2>1. \A j \in KernelNo :
         ~kernel'[j].lock /\ kernel'[j].proc = "up" => kernel'[j].asked = <<>> /\ kernel'[j].lines = <<>>
    BY <1>1 DEF KInv, Pipes, OnlyItsOwn
  <2>2. ASSUME NEW u \in Tab, u # t, Runs(u)'
        PROVE  /\ pc'[u] \in {"starting", "write"} =>
                     kernel'[held'[u]].asked = <<>> /\ kernel'[held'[u]].lines = <<>>
               /\ pc'[u] = "read" => Mine(held[u], mine[u])'
    <3>1. /\ Runs(u) /\ held'[u] = held[u] /\ kernel'[held[u]] = kernel[held[u]]
          /\ pc'[u] = pc[u] /\ mine'[u] = mine[u]
      BY <1>3, <1>4, <2>2 DEF OnlyItsOwn
    <3> QED BY <3>1 DEF KInv, Pipes, Mine
  <2> QED BY <2>1, <2>2 DEF Pipes, Runs
<1>7. Led'
  <2>1. ASSUME NEW j \in KernelNo, kernel'[j].proc = "up"
        PROVE  kernel'[j].made /\ (j = table' \/ j \in doomed' \/ j \in shaken')
    BY <2>1 DEF KInv, Led, OnlyItsOwn
  <2>2. ASSUME NEW u \in Tab, pc'[u] # "out"
        PROVE  kernel'[held'[u]].made /\ (held'[u] = table' \/ held'[u] \in shaken')
    <3>1. pc[u] # "out" /\ held'[u] = held[u] /\ held[u] \in KernelNo
      BY <2>2 DEF KInv, Desks, OnlyItsOwn
    <3> QED BY <3>1 DEF KInv, Led, OnlyItsOwn
  <2> QED BY <2>1, <2>2 DEF Led
<1>8. Told'
  <2> SUFFICES ASSUME shaken' = {}
               PROVE  /\ table' # NoKernel /\ kernel'[table'].proc = "up" /\ ~kernel'[table'].lock
                           => shown' = <<table', kernel'[table'].starts>>
                      /\ \A u \in Tab : Runs(u)' /\ ~fresh'[u] =>
                            shown' = <<held'[u], kernel'[held'[u]].starts>>
    BY DEF Told
  <2>1. shaken = {} /\ table' = table /\ table = k
    BY DEF KInv, Led, OnlyItsOwn
  <2>2. \A u \in Tab : Runs(u)' => u = t
    BY <1>3, <1>4, <2>1 DEF KInv, Led, Runs
  <2> QED BY <2>1, <2>2
<1> QED BY <1>2, <1>5, <1>6, <1>7, <1>8 DEF KInv

(* Past the lock, a run finds a living process or starts one. *)
LEMMA EnterKeeps == ASSUME NoKernel \notin KernelNo, KInv, NEW t \in Tab, K!Enter(t) PROVE KInv'
<1> DEFINE k == held[t]
           alive == kernel[k].proc = "up"
           taken == [kernel[k] EXCEPT !.lock = TRUE, !.idle = FALSE]
<1>1. /\ pc[t] = "wait" /\ ~kernel[k].lock
      /\ kernel' = [kernel EXCEPT ![k] = IF alive THEN taken ELSE K!Started(taken)]
      /\ fresh' = [fresh EXCEPT ![t] = ~alive]
      /\ pc' = [pc EXCEPT ![t] = IF alive THEN "write" ELSE "starting"]
      /\ UNCHANGED <<table, held, mine, doomed, closed, shaken, shown, crossed>>
  BY DEF K!Enter
<1>2. k \in KernelNo /\ kernel[k] \in Objects
  BY <1>1 DEF KInv, Desks
<1>3. /\ taken \in Objects /\ taken.lock /\ taken.proc = kernel[k].proc /\ taken.made = kernel[k].made
      /\ taken.asked = kernel[k].asked /\ taken.lines = kernel[k].lines /\ taken.starts = kernel[k].starts
  BY <1>2 DEF Objects
<1> HIDE DEF taken
<1>4. /\ K!Started(taken) \in Objects /\ K!Started(taken).lock /\ K!Started(taken).asked = <<>>
      /\ K!Started(taken).lines = <<>> /\ K!Started(taken).made = taken.made
  <2>1. <<>> \in Cells /\ <<>> \in Answers
    BY DEF Cells, Answers
  <2>2. taken.starts + 1 \in Nat
    BY <1>3 DEF Objects
  <2>3. K!Started(taken) = [taken EXCEPT !.proc = "up", !.asked = <<>>, !.lines = <<>>,
                                         !.starts = taken.starts + 1]
    BY DEF K!Started
  <2> DEFINE n == taken.starts + 1
  <2> HIDE DEF n
  <2>4. K!Started(taken) = [taken EXCEPT !.proc = "up", !.asked = <<>>, !.lines = <<>>, !.starts = n]
    BY <2>3 DEF n
  <2>5. n \in Nat
    BY <2>2 DEF n
  <2> QED BY <1>3, <2>1, <2>4, <2>5 DEF Objects
<1>5. kernel'[k] = IF alive THEN taken ELSE K!Started(taken)
  BY <1>1, <1>2 DEF KInv, Desks
<1>6. OnlyItsOwn(t)
  BY <1>1, <1>2, <1>3, <1>4 DEF OnlyItsOwn, KInv, Desks
<1>7. /\ pc'[t] = (IF alive THEN "write" ELSE "starting") /\ fresh'[t] = ~alive
      /\ pc' \in [Tab -> {"out", "wait", "starting", "write", "read"}] /\ fresh' \in [Tab -> BOOLEAN]
      /\ mine' \in [Tab -> Nat]
  BY <1>1 DEF KInv, Desks
<1>8. Runs(t)' /\ pc'[t] # "read"
  BY <1>7 DEF Runs
<1>9. /\ kernel'[k].lock /\ kernel'[k].made = kernel[k].made
      /\ kernel'[k].asked = <<>> /\ kernel'[k].lines = <<>>
  BY <1>1, <1>2, <1>3, <1>4, <1>5 DEF KInv, Pipes
<1>10. k = table \/ k \in shaken
  BY <1>1 DEF KInv, Led
<1>11. shaken = {} /\ ~fresh'[t] => shown' = <<k, kernel'[k].starts>>
  <2> SUFFICES ASSUME shaken = {}, alive
               PROVE  shown' = <<k, kernel'[k].starts>>
    BY <1>7
  <2>1. k = table /\ table # NoKernel
    BY <1>2, <1>10
  <2>2. shown = <<table, kernel[table].starts>>
    BY <1>1, <2>1 DEF KInv, Told
  <2>3. kernel'[k].starts = kernel[k].starts
    BY <1>3, <1>5
  <2> QED BY <1>1, <2>1, <2>2, <2>3
<1>12. pc[t] # "out" /\ held' = held /\ shown' = shown /\ crossed' = crossed
  BY <1>1
<1> HIDE DEF k
<1> QED BY <1>1, <1>6, <1>7, <1>8, <1>9, <1>10, <1>11, <1>12, RunKeeps DEF k

(* A process that says it is ready has an empty pipe. *)
LEMMA ReadyKeeps == ASSUME NoKernel \notin KernelNo, KInv, NEW t \in Tab, K!Ready(t) PROVE KInv'
<1> DEFINE k == held[t]
<1>1. /\ pc[t] = "starting" /\ pc' = [pc EXCEPT ![t] = "write"]
      /\ UNCHANGED <<table, kernel, held, mine, fresh, doomed, closed, shaken, shown, crossed>>
  BY DEF K!Ready
<1>2. k \in KernelNo /\ Runs(t)
  BY <1>1 DEF KInv, Desks, Runs
<1>3. OnlyItsOwn(t)
  BY <1>1, <1>2 DEF OnlyItsOwn, KInv, Desks
<1>4. /\ pc'[t] = "write" /\ pc' \in [Tab -> {"out", "wait", "starting", "write", "read"}]
      /\ mine' \in [Tab -> Nat] /\ fresh' \in [Tab -> BOOLEAN] /\ Runs(t)'
  BY <1>1 DEF KInv, Desks, Runs
<1>5. /\ kernel'[k].lock /\ kernel'[k].made = kernel[k].made
      /\ kernel'[k].asked = <<>> /\ kernel'[k].lines = <<>>
  BY <1>1, <1>2 DEF KInv, Locked, Pipes
<1>6. k = table \/ k \in shaken
  BY <1>1 DEF KInv, Led
<1>7. shaken = {} /\ ~fresh'[t] => shown' = <<k, kernel'[k].starts>>
  BY <1>1, <1>2 DEF KInv, Told
<1>8. pc[t] # "out" /\ pc'[t] # "read" /\ held' = held /\ shown' = shown /\ crossed' = crossed
  BY <1>1, <1>4
<1> HIDE DEF k
<1> QED BY <1>2, <1>3, <1>4, <1>5, <1>6, <1>7, <1>8, RunKeeps DEF k

(* A cell is written to a pipe that is empty. *)
LEMMA WriteKeeps == ASSUME NoKernel \notin KernelNo, KInv, NEW t \in Tab, K!Write(t) PROVE KInv'
<1> DEFINE k == held[t]
           n == kernel[k].next
           r == [kernel[k] EXCEPT !.next = @ + 1, !.asked = Append(@, n)]
<1>1. /\ pc[t] = "write" /\ pc' = [pc EXCEPT ![t] = "read"]
      /\ mine' = [mine EXCEPT ![t] = n] /\ kernel' = [kernel EXCEPT ![k] = r]
      /\ UNCHANGED <<table, held, fresh, doomed, closed, shaken, shown, crossed>>
  BY DEF K!Write
<1>2. k \in KernelNo /\ Runs(t) /\ kernel[k] \in Objects
  BY <1>1 DEF KInv, Desks, Runs
<1>3. kernel[k].asked = <<>> /\ kernel[k].lines = <<>> /\ n \in Nat
  BY <1>1, <1>2 DEF KInv, Pipes, Objects
<1>4. Append(kernel[k].asked, n) = <<n>> /\ <<n>> \in Cells
  <2> HIDE DEF n
  <2>1. Append(<<>>, n) = <<n>> /\ <<n>> \in Cells
    BY <1>3 DEF Cells
  <2> QED BY <1>3, <2>1
<1>5. r = [kernel[k] EXCEPT !.next = n + 1, !.asked = <<n>>] /\ n + 1 \in Nat
  BY <1>3, <1>4
<1> DEFINE m == n + 1
<1>6. r = [kernel[k] EXCEPT !.next = m, !.asked = <<n>>] /\ m \in Nat
  BY <1>5
<1> HIDE DEF m, n, r
<1>7. /\ r \in Objects /\ r.lock = kernel[k].lock /\ r.proc = kernel[k].proc /\ r.made = kernel[k].made
      /\ r.asked = <<n>> /\ r.lines = kernel[k].lines /\ r.starts = kernel[k].starts
  BY <1>2, <1>4, <1>6 DEF Objects
<1>8. kernel'[k] = r /\ OnlyItsOwn(t)
  BY <1>1, <1>2, <1>7 DEF OnlyItsOwn, KInv, Desks
<1>9. /\ pc'[t] = "read" /\ pc' \in [Tab -> {"out", "wait", "starting", "write", "read"}]
      /\ mine'[t] = n /\ mine' \in [Tab -> Nat] /\ fresh' \in [Tab -> BOOLEAN] /\ Runs(t)'
  BY <1>1, <1>3 DEF KInv, Desks, Runs
<1>10. kernel'[k].lock /\ kernel'[k].made = kernel[k].made
  BY <1>2, <1>7, <1>8 DEF KInv, Locked
<1>11. Mine(k, mine[t])'
  BY <1>1, <1>3, <1>7, <1>8, <1>9 DEF Mine
<1>12. k = table \/ k \in shaken
  BY <1>1 DEF KInv, Led
<1>13. shaken = {} /\ ~fresh'[t] => shown' = <<k, kernel'[k].starts>>
  BY <1>1, <1>2, <1>7, <1>8 DEF KInv, Told
<1>14. pc[t] # "out" /\ pc'[t] \notin {"starting", "write"} /\ held' = held /\ shown' = shown /\ crossed' = crossed
  BY <1>1, <1>9
<1>15. Mine(held[t], mine[t])'
  BY <1>1, <1>11
<1> HIDE DEF k
<1> QED BY <1>2, <1>8, <1>9, <1>10, <1>12, <1>13, <1>14, <1>15, RunKeeps DEF k

(* What one living process writes, or that it ends, concerns the run that reads *)
(* from it. *)
LEMMA ProcessKeeps ==
    ASSUME NoKernel \notin KernelNo, KInv, NEW k \in KernelNo, NEW r \in Objects,
           kernel[k].proc = "up", kernel[k].asked # <<>>, kernel' = [kernel EXCEPT ![k] = r],
           UNCHANGED <<table, pc, held, mine, fresh, doomed, closed, shaken, shown, crossed>>,
           r.lock = kernel[k].lock, r.made = kernel[k].made, r.starts = kernel[k].starts,
           \A n \in Nat : kernel[k].asked = <<n>> /\ kernel[k].lines = <<>> => Mine(k, n)'
    PROVE  KInv'
<1>1. PICK t \in Tab : Runs(t) /\ held[t] = k
  BY DEF KInv, Pipes, Locked
<1>2. pc[t] = "read" /\ mine[t] \in Nat
  BY <1>1 DEF KInv, Pipes, Runs, Desks
<1>3. Mine(k, mine[t])'
  BY <1>1, <1>2 DEF KInv, Pipes, Mine
<1>4. OnlyItsOwn(t) /\ kernel'[k] = r
  BY <1>1 DEF OnlyItsOwn, KInv, Desks
<1>5. kernel'[k].lock /\ kernel'[k].made = kernel[k].made
  BY <1>1, <1>4 DEF KInv, Locked
<1>6. k = table \/ k \in shaken
  BY <1>1 DEF KInv, Led, Runs
<1>7. shaken = {} /\ ~fresh'[t] => shown' = <<k, kernel'[k].starts>>
  BY <1>1, <1>4 DEF KInv, Told
<1>8. /\ pc' \in [Tab -> {"out", "wait", "starting", "write", "read"}]
      /\ mine' \in [Tab -> Nat] /\ fresh' \in [Tab -> BOOLEAN] /\ Runs(t)'
      /\ pc[t] # "out" /\ pc'[t] \notin {"starting", "write"}
  BY <1>1, <1>2 DEF KInv, Desks, Runs
<1>9. Mine(held[t], mine[t])'
  BY <1>1, <1>3
<1>10. held' = held /\ shown' = shown /\ crossed' = crossed
  OBVIOUS
<1>11. shaken = {} /\ ~fresh'[t] => shown' = <<held[t], kernel'[held[t]].starts>>
  BY <1>1, <1>7
<1>12. kernel'[held[t]].lock /\ kernel'[held[t]].made = kernel[held[t]].made
  BY <1>1, <1>5
<1>13. held[t] = table \/ held[t] \in shaken
  BY <1>1, <1>6
<1> QED BY <1>1, <1>4, <1>8, <1>9, <1>10, <1>11, <1>12, <1>13, RunKeeps

(* The process answers its cell, in one line or two. *)
LEMMA ComputeKeeps ==
    ASSUME NoKernel \notin KernelNo, KInv, NEW k \in KernelNo, K!Compute(k) PROVE KInv'
<1>1. PICK pieces \in {1, 2} :
        kernel' = [kernel EXCEPT ![k].asked = Tail(@),
                                 ![k].lines = @ \o [i \in 1 .. pieces |->
                                     [id |-> Head(kernel[k].asked), whole |-> pieces = 1]]]
  BY DEF K!Compute
<1>2. /\ kernel[k].proc = "up" /\ kernel[k].asked # <<>>
      /\ UNCHANGED <<table, pc, held, mine, fresh, doomed, closed, shaken, shown, crossed>>
  BY DEF K!Compute
<1>3. PICK t \in Tab : Runs(t) /\ held[t] = k
  BY <1>2 DEF KInv, Pipes, Locked
<1>4. pc[t] = "read" /\ mine[t] \in Nat
  BY <1>2, <1>3 DEF KInv, Pipes, Runs, Desks
<1> DEFINE n == mine[t]
           line == [id |-> n, whole |-> pieces = 1]
           r == [kernel[k] EXCEPT !.asked = <<>>, !.lines = [i \in 1 .. pieces |-> line]]
<1>5. kernel[k].asked = <<n>> /\ kernel[k].lines = <<>>
  BY <1>2, <1>3, <1>4 DEF KInv, Pipes, Mine
<1>6. Head(kernel[k].asked) = n /\ Tail(kernel[k].asked) = <<>>
  <2> HIDE DEF n
  <2> QED BY <1>5
<1>7. line \in [id : Nat, whole : BOOLEAN] /\ line.id = n /\ line.whole = (pieces = 1)
  BY <1>4
<1> DEFINE ls == [i \in 1 .. pieces |-> line]
<1>8. /\ ls \in Answers /\ <<>> \o ls = ls /\ Len(ls) = pieces /\ ls[1] = line /\ Head(ls) = line
      /\ pieces = 1 => ls = <<line>>
  <2> HIDE DEF line
  <2>1. ls \in Answers /\ Len(ls) = pieces /\ ls[1] = line
    BY <1>7 DEF Answers
  <2>2. Head(ls) = line
    BY <2>1
  <2>3. <<>> \o ls = ls
    <3>1. ls \in Seq([id : Nat, whole : BOOLEAN])
      BY <2>1 DEF Answers
    <3> HIDE DEF ls
    <3> QED BY <3>1
  <2>4. pieces = 1 => ls = <<line>>
    OBVIOUS
  <2> QED BY <2>1, <2>2, <2>3, <2>4
<1>9. kernel' = [kernel EXCEPT ![k] = [@ EXCEPT !.asked = Tail(kernel[k].asked), !.lines = kernel[k].lines \o
                    [i \in 1 .. pieces |-> [id |-> Head(kernel[k].asked), whole |-> pieces = 1]]]]
  BY <1>1 DEF KInv, Desks, Objects
<1>10. kernel' = [kernel EXCEPT ![k] = [kernel[k] EXCEPT !.asked = <<>>, !.lines = ls]]
  BY <1>5, <1>6, <1>8, <1>9
<1> HIDE DEF ls
<1> DEFINE q == [kernel[k] EXCEPT !.asked = <<>>, !.lines = ls]
<1>11. /\ q \in Objects /\ q.lock = kernel[k].lock /\ q.made = kernel[k].made
       /\ q.starts = kernel[k].starts /\ q.asked = <<>> /\ q.lines = ls
  <2>1. <<>> \in Cells
    BY DEF Cells
  <2>2. kernel[k] \in Objects
    BY DEF KInv, Desks
  <2>3. ls \in Answers
    BY <1>8
  <2> QED BY <2>1, <2>2, <2>3 DEF Objects
<1> HIDE DEF q
<1>12. kernel' = [kernel EXCEPT ![k] = q] /\ kernel'[k] = q
  BY <1>10 DEF q, KInv, Desks
<1>13. \A m \in Nat : kernel[k].asked = <<m>> /\ kernel[k].lines = <<>> => Mine(k, m)'
  <2> SUFFICES ASSUME NEW m \in Nat, kernel[k].asked = <<m>>
               PROVE  Mine(k, m)'
    OBVIOUS
  <2>1. m = n
    BY <1>5
  <2>2. pieces = 1 => ls = <<[id |-> n, whole |-> TRUE]>>
    BY <1>8
  <2>3. pieces = 2 => Len(ls) \in Nat \ {0} /\ Head(ls).whole = FALSE
    <3> HIDE DEF n, line
    <3> QED BY <1>7, <1>8
  <2> HIDE DEF n, line
  <2> QED BY <1>11, <1>12, <2>1, <2>2, <2>3 DEF Mine
<1> QED BY <1>2, <1>11, <1>12, <1>13, ProcessKeeps

(* A process that dies loses its cell, not the lines it wrote. *)
LEMMA DiesKeeps ==
    ASSUME NoKernel \notin KernelNo, KInv, NEW k \in KernelNo, K!Dies(k) PROVE KInv'
<1> DEFINE r == [kernel[k] EXCEPT !.proc = "dead", !.asked = <<>>]
<1>1. /\ kernel[k].proc = "up" /\ kernel[k].asked # <<>>
      /\ kernel' = [kernel EXCEPT ![k] = r]
      /\ UNCHANGED <<table, pc, held, mine, fresh, doomed, closed, shaken, shown, crossed>>
  BY DEF K!Dies
<1>2. <<>> \in Cells
  BY DEF Cells
<1>3. /\ r \in Objects /\ r.lock = kernel[k].lock /\ r.made = kernel[k].made
      /\ r.starts = kernel[k].starts /\ r.asked = <<>> /\ r.lines = kernel[k].lines
  <2>1. kernel[k] \in Objects
    BY DEF KInv, Desks
  <2> QED BY <1>2, <2>1 DEF Objects
<1> HIDE DEF r
<1>4. kernel'[k] = r
  BY <1>1 DEF KInv, Desks
<1>5. \A n \in Nat : kernel[k].asked = <<n>> /\ kernel[k].lines = <<>> => Mine(k, n)'
  BY <1>3, <1>4 DEF Mine
<1> QED BY <1>1, <1>3, <1>5, ProcessKeeps

(* No step of the kernels breaks their invariant. *)
LEMMA KernelStep == ASSUME NoKernel \notin KernelNo, KInv, [K!Next]_(K!vars) PROVE KInv'
<1>1. CASE UNCHANGED K!vars
  BY <1>1 DEF K!vars, KInv, Desks, Locked, Runs, Pipes, Mine, Led, Told
<1> QED
  BY <1>1, GetKeeps, EnterKeeps, ReadyKeeps, ReturnsKeep, WriteKeeps, OthersGetKeeps, ResetKeeps,
     ResetKillsKeeps, KernelShutdownKeeps, ComputeKeeps, DiesKeeps, IdleKeeps
  DEF K!Next

(* Another process than that of the last result answers a run that found it dead. *)
LEMMA LossIsTold ==
    ASSUME NoKernel \notin KernelNo, KInv, [K!Next]_(K!vars), shown' # shown
    PROVE  shaken # {} \/ \E t \in Tab : pc[t] = "read" /\ pc'[t] = "out" /\ fresh[t]
<1>1. PICK t \in Tab : K!Result(t)
  BY DEF K!Next, K!vars, K!Get, K!Enter, K!Ready, K!NotReady, K!Write, K!BrokenPipe, K!Garbage,
         K!TimedOut, K!ResetKills, K!Compute, K!Dies, K!GrowsIdle, K!OthersGet, K!Reset, K!Shutdown
<1>2. /\ pc[t] = "read" /\ pc' = [pc EXCEPT ![t] = "out"]
      /\ shown' = <<held[t], kernel[held[t]].starts>>
  BY <1>1 DEF K!Result, K!Return
<1>3. pc'[t] = "out" /\ fresh[t] \in BOOLEAN
  BY <1>2 DEF KInv, Desks
<1> QED BY <1>2, <1>3 DEF KInv, Told, Runs

\* "Each user gets one kernel", whose lock is the one request's that is inside
\* it; a result is the answer to the cell that was asked for, although run
\* throws the id away; a process nobody leads to was taken from under a run;
\* and a result that comes from another process than the last one says so
\* (playground/manager.py:60-260).
THEOREM ResultsAreOwn ==
    ASSUME NoKernel \notin KernelNo
    PROVE  K!Spec => [](K!TypeOK /\ K!OwnReply /\ K!StrayExplained) /\ K!StateLossTold
<1>1. KInv => K!TypeOK /\ K!OwnReply /\ K!StrayExplained
  <2> SUFFICES ASSUME KInv PROVE K!TypeOK /\ K!OwnReply /\ K!StrayExplained
    OBVIOUS
  <2>1. K!OwnReply /\ K!StrayExplained
    BY DEF KInv, Led, K!OwnReply, K!StrayExplained
  <2>2. ASSUME NEW k \in KernelNo
        PROVE  /\ kernel[k].proc \in {"none", "up", "dead"}
               /\ LET inside == {t \in K!Holders(k) : pc[t] # "wait"} IN
                  /\ kernel[k].lock <=> inside # {}
                  /\ \A t, u \in inside : t = u
    <3> DEFINE inside == {t \in K!Holders(k) : pc[t] # "wait"}
    <3>1. inside = {t \in Tab : Runs(t) /\ held[t] = k}
      BY DEF K!Holders, Runs, KInv, Desks
    <3> HIDE DEF inside
    <3>2. (kernel[k].lock <=> inside # {}) /\ \A t, u \in inside : t = u
      BY <3>1 DEF KInv, Locked
    <3>3. kernel[k].proc \in {"none", "up", "dead"}
      BY DEF KInv, Desks, Objects
    <3> QED BY <3>2, <3>3 DEF inside
  <2> QED BY <2>1, <2>2 DEF K!TypeOK, KInv, Desks
<1>2. KInv /\ [K!Next]_(K!vars) =>
        [shown' # shown =>
           \/ shaken # {}
           \/ \E t \in Tab : pc[t] = "read" /\ pc'[t] = "out" /\ fresh[t]]_(K!vars)
  BY LossIsTold
<1> QED BY <1>1, <1>2, KernelInit, KernelStep, PTL DEF K!Spec, K!StateLossTold

----------------------------------------------------------------------------
(* The walk-forward study: what a decision reads is not after it.            *)

(* A set of numbers up to n that is not empty has a newest member. *)
LEMMA HasNewest ==
    ASSUME NEW n \in Nat, NEW S \in SUBSET (-1 .. n), S # {}
    PROVE  W!Max(S) \in S /\ \A b \in S : b <= W!Max(S)
<1>1. n \in Int /\ S \in SUBSET Int /\ \A x \in S : x <= n
  OBVIOUS
<1>2. \E x \in S : \A y \in S : x >= y
  BY <1>1, GreatestNumber
<1>3. W!Max(S) \in S /\ \A y \in S : W!Max(S) >= y
  BY <1>2 DEF W!Max
<1> QED BY <1>3

\* The lengths of a study: a block is trained on and tested in, and what is
\* left out between them, and the bars a label takes, may be none.
StudyLengths ==
    /\ Train \in Nat \ {0} /\ Test \in Nat \ {0} /\ Purge \in Nat /\ Horizon \in Nat
    /\ Lengths \subseteq Nat /\ Steps \subseteq Nat \ {0}

\* Vintages are of bars where research is due; the loop stays on the history,
\* and what it last read was not after it.
Walked ==
    /\ config \in [length : Lengths, refresh : Steps, rebalance : Steps, aware : Awares]
    /\ DOMAIN vintage \subseteq W!ResearchBars
    /\ vintage = [b \in DOMAIN vintage |-> W!Researched(b)]
    /\ W!TypeOK
    /\ W!NoLookAhead

(* The first bar of a study has its training and purge behind it. *)
LEMMA FirstBar == ASSUME StudyLengths PROVE W!First \in Nat /\ W!Warmup = W!First + 1
  BY DEF StudyLengths, W!First, W!Warmup

(* A label that research on the bars up to b uses has ended by then, inside the *)
(* block it is of. *)
LEMMA LabelsEnd ==
    ASSUME StudyLengths, NEW b \in Int
    PROVE  \A s \in DOMAIN W!Researched(b) : \A l \in W!Researched(b)[s] :
             l <= b /\ l - Horizon >= W!TestStart(s) /\ l < W!TestStart(s) + Test
<1> SUFFICES ASSUME NEW s \in DOMAIN W!Researched(b), NEW l \in W!Researched(b)[s]
             PROVE  l <= b /\ l - Horizon >= W!TestStart(s) /\ l < W!TestStart(s) + Test
  OBVIOUS
<1>1. s \in Int /\ l \in W!Labels(s) /\ l <= b
  BY DEF W!Researched, W!Folds
<1>2. PICK e \in W!EvalBars(s) : l = e + Horizon
  BY <1>1 DEF W!Labels
<1> QED BY <1>1, <1>2 DEF W!EvalBars, W!TestStart, StudyLengths

(* A study begins with no vintage, at a bar none has passed. *)
LEMMA WalkInit == ASSUME StudyLengths PROVE W!Init => Walked
<1> SUFFICES ASSUME W!Init PROVE Walked
  OBVIOUS
<1>1. /\ config \in [length : Lengths, refresh : Steps, rebalance : Steps, aware : Awares]
      /\ DOMAIN vintage = {} /\ pos = W!First /\ pointer = -1 /\ risk = -1
      /\ DOMAIN target = {} /\ DOMAIN cost = {} /\ last.at = -1
      /\ config.length >= W!Warmup + 1 /\ vintage = [b \in {} |-> W!Researched(b)]
  BY DEF W!Init
<1>2. config.length \in Nat /\ config.rebalance \in Nat
  BY <1>1 DEF StudyLengths
<1>3. W!TypeOK
  BY <1>1, <1>2, FirstBar DEF W!TypeOK
<1> QED BY <1>1, <1>3 DEF Walked, W!NoLookAhead

(* Research adds a vintage that is effective from now. *)
LEMMA ResearchKeeps == ASSUME StudyLengths, Walked, W!Research PROVE Walked'
<1>1. PICK b \in W!ResearchBars \ DOMAIN vintage :
        vintage' = [c \in DOMAIN vintage \cup {b} |-> IF c = b THEN W!Researched(b) ELSE vintage[c]]
  BY DEF W!Research
<1>2. UNCHANGED <<config, pos, pointer, risk, book, target, cost, last>>
  BY DEF W!Research
<1>3. /\ DOMAIN vintage' \subseteq W!ResearchBars
      /\ \A c \in DOMAIN vintage' : vintage'[c] = W!Researched(c)
  BY <1>1 DEF Walked
<1>4. W!ResearchBars' = W!ResearchBars /\ W!DecisionBars' = W!DecisionBars
  BY <1>2 DEF W!ResearchBars, W!DecisionBars
<1>5. \A c \in DOMAIN vintage' : c \in Int
  BY <1>3 DEF W!ResearchBars, W!First, W!Warmup, StudyLengths, Walked
<1>6. \A c \in DOMAIN vintage' : \A s \in DOMAIN vintage'[c] : \A l \in vintage'[c][s] :
        l <= c /\ l - Horizon >= W!TestStart(s) /\ l < W!TestStart(s) + Test
  BY <1>3, <1>5, LabelsEnd
<1>7. W!NoLookAhead'
  BY <1>2, <1>4, <1>6 DEF W!NoLookAhead, W!Capped, Walked
<1>8. vintage' = [c \in DOMAIN vintage' |-> W!Researched(c)]
  BY <1>1, <1>3
<1>9. W!TypeOK'
  BY <1>2, <1>4 DEF Walked, W!TypeOK
<1> QED BY <1>2, <1>3, <1>4, <1>7, <1>8, <1>9 DEF Walked, W!Researched

(* A decision reads the newest vintage that is effective. *)
LEMMA DecideKeeps == ASSUME StudyLengths, Walked, W!Decide PROVE Walked'
<1>1. /\ pos \in W!DecisionBars /\ pointer' = W!Passed(pos)
      /\ DOMAIN target' = DOMAIN target \cup {pos} /\ DOMAIN cost' = DOMAIN cost \cup {pos + 1}
      /\ pos' = pos + config.rebalance /\ config' = config /\ vintage' = vintage
  BY DEF W!Decide, W!ChargedOn
<1>2. PICK modelled \in BOOLEAN, blend \in Books :
       LET lapsed == "stock" \in config.aware /\ (risk = -1 \/ pos - risk >= RiskBars)
           model == IF lapsed /\ modelled THEN pos ELSE risk
           wanted == IF W!Capped /\ model = -1 THEN W!Flat ELSE blend
       IN /\ ~lapsed => modelled
          /\ risk' = model
          /\ \E room \in [W!Trading(book, wanted) -> {W!Unknown, 1, 2}] :
               /\ book' = W!Executed(book, wanted, room)
               /\ last' = [at |-> pos, vintage |-> pointer', risk |-> model,
                           due |-> lapsed, room |-> room, from |-> book, wanted |-> wanted]
  BY DEF W!Decide
<1> DEFINE lapsed == "stock" \in config.aware /\ (risk = -1 \/ pos - risk >= RiskBars)
           model == IF lapsed /\ modelled THEN pos ELSE risk
           wanted == IF W!Capped /\ model = -1 THEN W!Flat ELSE blend
<1>3. /\ last'.at = pos /\ last'.vintage = pointer' /\ last'.risk = risk'
      /\ last'.due = lapsed /\ last'.wanted = wanted /\ risk' = model
  BY <1>2
<1>4. config.length \in Nat /\ config.rebalance \in Nat \ {0} /\ W!First \in Nat
  BY FirstBar DEF Walked, StudyLengths
<1>5. pos \in Nat /\ pos >= W!First /\ pos <= config.length - 2 /\ risk \in -1 .. pos
  BY <1>1, <1>4 DEF W!DecisionBars, Walked, W!TypeOK
<1>6. /\ pointer' \in -1 .. pos
      /\ \A b \in W!ResearchBars : b <= pos => b <= pointer'
  <2> DEFINE S == {b \in W!ResearchBars : b <= pos} \cup {-1}
  <2>1. S \in SUBSET (-1 .. pos) /\ S # {}
    BY <1>4, <1>5 DEF W!ResearchBars
  <2>2. pointer' = W!Max(S)
    BY <1>1 DEF W!Passed
  <2>3. W!Max(S) \in S /\ \A b \in S : b <= W!Max(S)
    <3> HIDE DEF S
    <3> QED BY <1>5, <2>1, HasNewest
  <2>4. pointer' \in -1 .. pos
    <3> HIDE DEF S
    <3> QED BY <2>1, <2>2, <2>3
  <2> QED BY <2>2, <2>3, <2>4
<1>7. risk' \in -1 .. pos
  BY <1>3, <1>5
<1>8. W!ResearchBars' = W!ResearchBars /\ W!DecisionBars' = W!DecisionBars
  BY <1>1 DEF W!ResearchBars, W!DecisionBars
<1>9. W!TypeOK'
  <2>1. pos' \in W!First .. config.length + config.rebalance /\ pos <= pos'
    BY <1>1, <1>4, <1>5
  <2>2. pointer' \in -1 .. pos' /\ risk' \in -1 .. pos'
    BY <1>5, <1>6, <1>7, <2>1, <1>4
  <2>3. DOMAIN target' \subseteq W!DecisionBars
    BY <1>1 DEF Walked, W!TypeOK
  <2>4. DOMAIN cost' \subseteq W!First + 1 .. config.length - 1
    BY <1>1, <1>4, <1>5 DEF Walked, W!TypeOK
  <2> QED BY <1>1, <1>8, <2>1, <2>2, <2>3, <2>4 DEF W!TypeOK
<1>10. /\ "stock" \in config'.aware /\ last'.at - last'.risk >= RiskBars => last'.due
       /\ W!Capped' /\ last'.risk = -1 => last'.wanted = W!Flat
  <2>1. CASE lapsed /\ modelled
    <3>1. last'.due = TRUE /\ risk' = pos
      BY <1>3, <2>1
    <3>2. risk' # -1
      BY <1>5, <3>1
    <3> QED BY <1>3, <3>1, <3>2
  <2>2. CASE ~(lapsed /\ modelled)
    BY <1>1, <1>3, <2>2 DEF W!Capped
  <2> QED BY <2>1, <2>2
<1>11. W!NoLookAhead'
  <2> HIDE DEF lapsed, model, wanted
  <2> QED BY <1>1, <1>3, <1>5, <1>6, <1>7, <1>8, <1>10 DEF W!NoLookAhead, Walked
<1> QED BY <1>1, <1>8, <1>9, <1>11 DEF Walked, W!Researched

\* "prefix_only_no_future_rows", "latest_completed_research_vintage_only" and
\* "labels must finish inside the test block": over a history of any length, a
\* decision follows all it read, which is the newest research there was and a
\* risk model that is old only where a newer one could not be built
\* (walkforward_research.py:546-700).
THEOREM NothingAheadIsRead ==
    ASSUME StudyLengths
    PROVE  W!Spec => [](W!TypeOK /\ W!NoLookAhead)
<1>1. Walked /\ [W!Next]_(W!vars) => Walked'
  <2> SUFFICES ASSUME Walked, [W!Next]_(W!vars) PROVE Walked'
    OBVIOUS
  <2>1. CASE UNCHANGED W!vars
    BY <2>1 DEF W!vars, Walked, W!TypeOK, W!NoLookAhead, W!Capped, W!ResearchBars, W!DecisionBars, W!Researched
  <2> QED BY <2>1, ResearchKeeps, DecideKeeps DEF W!Next
<1>2. Walked => W!TypeOK /\ W!NoLookAhead
  BY DEF Walked
<1> QED BY <1>1, <1>2, WalkInit, PTL DEF W!Spec

----------------------------------------------------------------------------
(* The provider cache: how old a value is when it is served.                 *)

\* Callers have a process, entries a lifetime, calls an end; and the ages that
\* are told apart go beyond the lifetimes.
Lifetimes ==
    /\ ProcOf \in [Thread -> Proc] /\ Ttl \in [PC!Key -> Nat \ {0}]
    /\ Attempts \in Nat \ {0} /\ Slow \in Nat /\ Ancient \in Nat
    /\ \A k \in PC!Key : Ttl[k] <= Ancient

AgeRecs == [age : Nat, old : Nat, state : {"none", "sound", "spoilt"}]

\* How much older a value may be than the entry it is in: the body's call, or
\* the body and both calls.
Lag(k) == IF k = "body" THEN Slow ELSE Ttl["body"] + 2 * Slow - 1

Dated(e, k) ==
    /\ e \in AgeRecs
    /\ e.age <= e.old /\ (e.state # "none" => e.old <= e.age + Lag(k))

Entries ==
    /\ mem \in [Proc -> [PC!Key -> AgeRecs]]
    /\ DOMAIN disk = PC!Key
    /\ \A k \in PC!Key : Dated(disk[k], k) /\ \A p \in Proc : Dated(mem[p][k], k)
    /\ disk = [k \in PC!Key |-> disk[k]]

\* What a caller has in its hands is from its own call, or from a body that was
\* fresh when it found it.
Callers ==
    /\ calls \in [Thread -> {"idle", "fetch", "ask", "keep", "build"}]
    /\ spent \in [Thread -> 0 .. Slow] /\ tries \in [Thread -> 0 .. Attempts - 1]
    /\ got \in [Thread -> Nat]
    /\ \A t \in Thread : /\ calls[t] = "keep" => got[t] <= spent[t]
                         /\ calls[t] = "build" => got[t] < Ttl["body"] + Slow + spent[t]

Ages == Entries /\ Callers

(* No entry has nothing to serve. *)
LEMMA NothingIsDated == ASSUME Lifetimes, NEW k \in PC!Key PROVE Dated(PC!NoEntry, k)
  BY DEF Dated, PC!NoEntry, AgeRecs

(* The layers are empty and nobody calls in the first state. *)
LEMMA CacheInit == ASSUME Lifetimes PROVE PC!Init => Ages
<1> SUFFICES ASSUME PC!Init PROVE Ages
  OBVIOUS
<1>1. \A k \in PC!Key : Dated(PC!NoEntry, k)
  BY NothingIsDated
<1>2. PC!NoEntry \in AgeRecs
  BY DEF PC!NoEntry, AgeRecs
<1>3. Entries
  BY <1>1, <1>2 DEF PC!Init, Entries
<1>4. 0 \in 0 .. Slow /\ 0 \in 0 .. Attempts - 1
  BY DEF Lifetimes
<1>5. Callers
  BY <1>4 DEF PC!Init, Callers
<1> QED BY <1>3, <1>5 DEF Ages

(* A row that moves between the layers keeps its age. *)
LEMMA LookKeeps ==
    ASSUME Lifetimes, Entries, NEW p \in Proc, NEW k \in PC!Key, PC!Look(p, k)
    PROVE  Entries'
<1>1. \/ mem' = mem
      \/ mem' = [mem EXCEPT ![p][k] = disk[k]]
  BY DEF PC!Look, PC!Promoted
<1>2. disk' = disk \/ disk' = [disk EXCEPT ![k] = PC!NoEntry]
  BY DEF PC!Look
<1>3. Dated(PC!NoEntry, k) /\ Dated(disk[k], k)
  BY NothingIsDated DEF Entries
<1>4. disk[k] \in AgeRecs
  BY <1>3 DEF Dated
<1>5. mem' \in [Proc -> [PC!Key -> AgeRecs]]
  <2>1. mem \in [Proc -> [PC!Key -> AgeRecs]]
    BY DEF Entries
  <2>2. CASE mem' = mem
    BY <2>1, <2>2
  <2>3. CASE mem' = [mem EXCEPT ![p][k] = disk[k]]
    <3> DEFINE e == disk[k]
    <3>1. e \in AgeRecs /\ mem' = [mem EXCEPT ![p][k] = e]
      BY <1>4, <2>3
    <3> HIDE DEF e
    <3> QED BY <2>1, <3>1
  <2> QED BY <1>1, <2>2, <2>3
<1>6. \A q \in Proc, j \in PC!Key : mem'[q][j] = mem[q][j] \/ (j = k /\ mem'[q][j] = disk[k])
  BY <1>1 DEF Entries
<1>7. /\ DOMAIN disk' = PC!Key /\ disk' = [j \in PC!Key |-> disk'[j]]
      /\ \A j \in PC!Key : disk'[j] = disk[j] \/ (j = k /\ disk'[j] = PC!NoEntry)
  BY <1>2 DEF Entries
<1>8. \A j \in PC!Key : Dated(disk'[j], j) /\ \A q \in Proc : Dated(mem'[q][j], j)
  BY <1>3, <1>6, <1>7 DEF Entries
<1> QED BY <1>5, <1>7, <1>8 DEF Entries

(* What is stored is new, and older than that by its call's time at most. *)
LEMMA StoreKeeps ==
    ASSUME Lifetimes, Entries, NEW p \in Proc, NEW k \in PC!Key, NEW old \in Nat, old <= Lag(k),
           mem' = [mem EXCEPT ![p][k] = PC!Stored(old)],
           disk' = disk \/ disk' = [disk EXCEPT ![k] = PC!Stored(old)]
    PROVE  Entries'
<1> DEFINE e == PC!Stored(old)
<1>1. e \in AgeRecs /\ e.age = 0 /\ e.old = old
  BY DEF PC!Stored, AgeRecs
<1>2. Lag(k) \in Int
  BY DEF Lag, Lifetimes, PC!Key
<1>3. Dated(e, k)
  <2> HIDE DEF e
  <2> QED BY <1>1, <1>2 DEF Dated
<1> HIDE DEF e
<1>4. mem' = [mem EXCEPT ![p][k] = e] /\ (disk' = disk \/ disk' = [disk EXCEPT ![k] = e])
  BY DEF e
<1>5. mem' \in [Proc -> [PC!Key -> AgeRecs]]
  BY <1>1, <1>4 DEF Entries
<1>6. \A q \in Proc, j \in PC!Key : mem'[q][j] = mem[q][j] \/ (j = k /\ mem'[q][j] = e)
  BY <1>4 DEF Entries
<1>7. /\ DOMAIN disk' = PC!Key /\ disk' = [j \in PC!Key |-> disk'[j]]
      /\ \A j \in PC!Key : disk'[j] = disk[j] \/ (j = k /\ disk'[j] = e)
  BY <1>4 DEF Entries
<1>8. \A j \in PC!Key : Dated(disk'[j], j) /\ \A q \in Proc : Dated(mem'[q][j], j)
  BY <1>3, <1>6, <1>7 DEF Entries
<1> QED BY <1>5, <1>7, <1>8 DEF Entries

(* A call that ends has nothing in its hands. *)
LEMMA EndKeepsCallers == ASSUME Lifetimes, Callers, NEW t \in Thread, PC!End(t) PROVE Callers'
<1>1. 0 \in 0 .. Slow /\ 0 \in 0 .. Attempts - 1
  BY DEF Lifetimes
<1> QED BY <1>1 DEF PC!End, Callers

(* Every step of a caller. *)
LEMMA CallStep ==
    ASSUME Lifetimes, Ages, NEW t \in Thread,
           \/ PC!Call(t) \/ PC!Fetch(t) \/ PC!Answered(t) \/ PC!Refused(t)
           \/ PC!Rejected(t) \/ PC!Keep(t) \/ PC!Build(t) \/ PC!Unpicklable(t) \/ PC!Empty(t)
    PROVE  Ages'
<1> DEFINE p == ProcOf[t]
<1>1. p \in Proc /\ "frame" \in PC!Key /\ "body" \in PC!Key
  BY DEF Lifetimes, PC!Key
<1>2. /\ spent[t] \in Nat /\ spent[t] <= Slow /\ Slow \in Nat /\ got[t] \in Nat
      /\ Ttl["body"] \in Nat \ {0}
  BY <1>1 DEF Ages, Callers, Lifetimes
<1>3. CASE PC!Call(t)
  <2>1. Entries'
    BY <1>1, <1>3, LookKeeps DEF PC!Call, Ages
  <2>2. Callers'
    BY <1>3 DEF PC!Call, Ages, Callers
  <2> QED BY <2>1, <2>2 DEF Ages
<1>4. CASE PC!Fetch(t)
  <2>1. Entries'
    BY <1>1, <1>4, LookKeeps DEF PC!Fetch, Ages
  <2>2. CASE \E e \in PC!Found(p, "body") :
               got' = [got EXCEPT ![t] = e.old] /\ calls' = [calls EXCEPT ![t] = "build"]
    <3>1. PICK e \in PC!Found(p, "body") :
               got' = [got EXCEPT ![t] = e.old] /\ calls' = [calls EXCEPT ![t] = "build"]
      BY <2>2
    <3>2. PC!Fresh(e, "body") /\ Dated(e, "body")
      BY <1>1 DEF PC!Found, PC!InMemory, PC!OnDisk, Ages, Entries
    <3>3. e.old \in Nat /\ e.old < Ttl["body"] + Slow
      BY <1>2, <3>2 DEF PC!Fresh, Dated, Lag, AgeRecs
    <3>4. e.old < Ttl["body"] + Slow + spent[t]
      BY <1>2, <3>3
    <3>5. UNCHANGED <<spent, tries>>
      BY <1>4 DEF PC!Fetch
    <3> QED BY <2>1, <3>1, <3>3, <3>4, <3>5 DEF Ages, Callers
  <2>3. CASE calls' = [calls EXCEPT ![t] = "ask"] /\ UNCHANGED got
    BY <1>4, <2>1, <2>3 DEF PC!Fetch, Ages, Callers
  <2> QED BY <1>4, <2>2, <2>3 DEF PC!Fetch
<1>5. CASE PC!Answered(t)
  <2>1. got' = [got EXCEPT ![t] = 0] /\ calls' = [calls EXCEPT ![t] = "keep"] /\ UNCHANGED <<mem, disk, spent, tries>>
    BY <1>5 DEF PC!Answered
  <2>2. Callers'
    BY <1>2, <2>1 DEF Ages, Callers
  <2> QED BY <2>1, <2>2 DEF Ages, Entries
<1>6. CASE PC!Refused(t)
  <2>1. CASE tries[t] + 1 < Attempts
    <3>1. tries' = [tries EXCEPT ![t] = tries[t] + 1] /\ UNCHANGED <<mem, disk, calls, spent, got>>
      BY <1>6, <2>1 DEF PC!Refused
    <3>2. tries[t] + 1 \in 0 .. Attempts - 1
      BY <2>1 DEF Ages, Callers, Lifetimes
    <3> QED BY <3>1, <3>2 DEF Ages, Callers, Entries
  <2>2. CASE ~(tries[t] + 1 < Attempts)
    BY <1>6, <2>2, EndKeepsCallers DEF PC!Refused, PC!Fail, Ages, Entries
  <2> QED BY <2>1, <2>2
<1>7. CASE PC!Rejected(t) \/ PC!Empty(t)
  BY <1>7, EndKeepsCallers DEF PC!Rejected, PC!Empty, PC!Fail, Ages, Entries
<1>8. CASE PC!Keep(t)
  <2>1. /\ calls[t] = "keep" /\ mem' = [mem EXCEPT ![p]["body"] = PC!Stored(got[t])]
        /\ disk' = disk \/ disk' = [disk EXCEPT !["body"] = PC!Stored(got[t])]
        /\ calls' = [calls EXCEPT ![t] = "build"] /\ UNCHANGED <<spent, tries, got>>
    BY <1>8 DEF PC!Keep, PC!Set
  <2>2. got[t] <= spent[t]
    BY <2>1 DEF Ages, Callers
  <2>3. got[t] <= Lag("body")
    BY <1>2, <2>2 DEF Lag
  <2>4. Entries'
    BY <1>1, <1>2, <2>1, <2>3, StoreKeeps DEF Ages
  <2>5. got[t] < Ttl["body"] + Slow + spent[t]
    BY <1>2, <2>2
  <2>6. Callers'
    BY <2>1, <2>5 DEF Ages, Callers
  <2> QED BY <2>4, <2>6 DEF Ages
<1>9. CASE PC!Build(t) \/ PC!Unpicklable(t)
  <2>1. /\ calls[t] = "build" /\ mem' = [mem EXCEPT ![p]["frame"] = PC!Stored(got[t])]
        /\ disk' = disk \/ disk' = [disk EXCEPT !["frame"] = PC!Stored(got[t])]
        /\ PC!End(t)
    BY <1>9 DEF PC!Build, PC!Unpicklable, PC!Set
  <2>2. got[t] < Ttl["body"] + Slow + spent[t]
    BY <2>1 DEF Ages, Callers
  <2>3. got[t] <= Lag("frame")
    BY <1>2, <2>2 DEF Lag
  <2>4. Entries'
    BY <1>1, <1>2, <2>1, <2>3, StoreKeeps DEF Ages
  <2> QED BY <2>1, <2>4, EndKeepsCallers DEF Ages
<1> QED BY <1>3, <1>4, <1>5, <1>6, <1>7, <1>8, <1>9

(* A process that ends takes its memory and its calls with it. *)
LEMMA ProcessEnds ==
    ASSUME Lifetimes, Ages, NEW p \in Proc, PC!Clear(p) \/ PC!Restart(p) PROVE Ages'
<1>1. \A k \in PC!Key : Dated(PC!NoEntry, k)
  BY NothingIsDated
<1>2. /\ mem' = [mem EXCEPT ![p] = [k \in PC!Key |-> PC!NoEntry]]
      /\ disk' = disk \/ disk' = [k \in PC!Key |-> PC!NoEntry]
  BY DEF PC!Clear, PC!Restart
<1>3. PC!NoEntry \in AgeRecs
  BY DEF PC!NoEntry, AgeRecs
<1>4. Entries'
  BY <1>1, <1>2, <1>3 DEF Ages, Entries
<1>5. 0 \in 0 .. Slow /\ 0 \in 0 .. Attempts - 1
  BY DEF Lifetimes
<1>6. Callers'
  <2>1. CASE PC!Clear(p)
    BY <2>1 DEF PC!Clear, Ages, Callers
  <2>2. CASE PC!Restart(p)
    BY <1>5, <2>2 DEF PC!Restart, Ages, Callers
  <2> QED BY <2>1, <2>2
<1> QED BY <1>4, <1>6 DEF Ages

(* A row that no longer unpickles keeps its age. *)
LEMMA SpoilKeeps == ASSUME Lifetimes, Ages, NEW k \in PC!Key, PC!Spoil(k) PROVE Ages'
<1>1. /\ disk[k].state = "sound" /\ disk' = [disk EXCEPT ![k] = [disk[k] EXCEPT !.state = "spoilt"]]
      /\ UNCHANGED <<mem, calls, spent, tries, got>>
  BY DEF PC!Spoil, Ages, Entries
<1> DEFINE e == [disk[k] EXCEPT !.state = "spoilt"]
<1>2. Dated(disk[k], k)
  BY DEF Ages, Entries
<1>3. Dated(e, k)
  BY <1>1, <1>2 DEF Dated, AgeRecs
<1> HIDE DEF e
<1>4. /\ DOMAIN disk' = PC!Key /\ disk' = [j \in PC!Key |-> disk'[j]]
      /\ \A j \in PC!Key : disk'[j] = disk[j] \/ (j = k /\ disk'[j] = e)
  BY <1>1 DEF Ages, Entries, e
<1>5. Entries'
  BY <1>1, <1>3, <1>4 DEF Ages, Entries
<1> QED BY <1>1, <1>5 DEF Ages, Callers

(* With time an entry and its value grow older alike. *)
LEMMA AgedIsDated ==
    ASSUME Lifetimes, NEW k \in PC!Key, NEW e, Dated(e, k) PROVE Dated(PC!Aged(e, k), k)
<1> DEFINE f == [e EXCEPT !.age = e.age + 1]
           g == [e EXCEPT !.age = e.age + 1, !.old = PC!Older(e.old)]
<1>1. PC!Aged(e, k) = IF PC!Fresh(f, k) THEN g ELSE PC!NoEntry
  BY DEF PC!Aged
<1>2. /\ e \in AgeRecs
      /\ e.age <= e.old /\ (e.state # "none" => e.old <= e.age + Lag(k))
  BY DEF Dated
<1>3. PC!Older(e.old) \in Nat /\ PC!Older(e.old) <= e.old + 1
  BY <1>2 DEF PC!Older, Lifetimes, AgeRecs
<1>4. Lag(k) \in Int /\ Ttl[k] \in Nat /\ Ttl[k] <= Ancient /\ Ancient \in Nat
  BY DEF Lag, Lifetimes, PC!Key
<1>5. CASE PC!Fresh(f, k)
  <2>1. f.age = e.age + 1 /\ f.state = e.state
    BY <1>2
  <2>2. e.age + 1 < Ttl[k] /\ e.state # "none"
    BY <1>5, <2>1 DEF PC!Fresh
  <2>3. e.age + 1 <= PC!Older(e.old)
    BY <1>2, <1>4, <2>2 DEF PC!Older, AgeRecs
  <2> DEFINE o == PC!Older(e.old)
  <2>4. o \in Nat /\ o <= e.old + 1 /\ e.age + 1 <= o
    BY <1>3, <2>3
  <2> HIDE DEF o
  <2>5. g = [e EXCEPT !.age = e.age + 1, !.old = o]
    BY DEF o
  <2> HIDE DEF g
  <2> DEFINE a == e.age + 1
  <2>6. a \in Nat /\ g = [e EXCEPT !.age = a, !.old = o]
    BY <1>2, <2>5 DEF AgeRecs
  <2>8. a = e.age + 1
    OBVIOUS
  <2> HIDE DEF a
  <2>9. g \in AgeRecs /\ g.age = a /\ g.old = o /\ g.state = e.state
    BY <1>2, <2>4, <2>6 DEF AgeRecs
  <2>7. Dated(g, k)
    BY <1>2, <1>4, <2>4, <2>8, <2>9 DEF Dated, AgeRecs
  <2> QED BY <1>1, <1>5, <2>7
<1>6. CASE ~PC!Fresh(f, k)
  BY <1>1, <1>6, NothingIsDated
<1> QED BY <1>5, <1>6

(* A tick makes every entry, and what callers hold, older by one. *)
LEMMA TickKeepsAges == ASSUME Lifetimes, Ages, PC!Tick PROVE Ages'
<1> DEFINE busy == {t \in Thread : calls[t] # "idle"}
<1>1. /\ \A t \in busy : spent[t] < Slow
      /\ spent' = [t \in Thread |-> IF t \in busy THEN spent[t] + 1 ELSE 0]
      /\ got' = [t \in Thread |-> IF calls[t] \in {"keep", "build"} THEN PC!Older(got[t]) ELSE 0]
      /\ mem' = [p \in Proc |-> [k \in PC!Key |-> PC!Aged(mem[p][k], k)]]
      /\ disk' = [k \in PC!Key |-> PC!Aged(disk[k], k)]
      /\ UNCHANGED <<calls, tries>>
  BY DEF PC!Tick
<1>2. \A k \in PC!Key : Dated(PC!Aged(disk[k], k), k) /\ \A p \in Proc : Dated(PC!Aged(mem[p][k], k), k)
  BY AgedIsDated DEF Ages, Entries
<1>3. \A k \in PC!Key, p \in Proc :
        PC!Aged(mem[p][k], k) \in AgeRecs
  BY <1>2 DEF Dated
<1>4. Entries'
  BY <1>1, <1>2, <1>3 DEF Entries
<1>5. ASSUME NEW t \in Thread
      PROVE  /\ spent'[t] \in 0 .. Slow /\ got'[t] \in Nat
             /\ calls[t] = "keep" => got'[t] <= spent'[t]
             /\ calls[t] = "build" => got'[t] < Ttl["body"] + Slow + spent'[t]
  <2>1. spent[t] \in Nat /\ got[t] \in Nat /\ Slow \in Nat /\ Ttl["body"] \in Nat
    BY DEF Ages, Callers, Lifetimes, PC!Key
  <2>2. PC!Older(got[t]) \in Nat /\ PC!Older(got[t]) <= got[t] + 1
    BY <2>1 DEF PC!Older, Lifetimes
  <2>3. /\ calls[t] = "keep" => got[t] <= spent[t]
        /\ calls[t] = "build" => got[t] < Ttl["body"] + Slow + spent[t]
    BY DEF Ages, Callers
  <2>4. /\ got'[t] = IF calls[t] \in {"keep", "build"} THEN PC!Older(got[t]) ELSE 0
        /\ spent'[t] = IF calls[t] # "idle" THEN spent[t] + 1 ELSE 0
        /\ calls[t] # "idle" => spent[t] < Slow
    BY <1>1
  <2> QED BY <2>1, <2>2, <2>3, <2>4
<1>6. Callers'
  BY <1>1, <1>5 DEF Ages, Callers
<1> QED BY <1>4, <1>6 DEF Ages

\* However calls overlap, processes restart and rows move between the layers, a
\* value that is served left the vendor less than the two lifetimes ago, and the
\* time of the two calls that stored its body and its frame: a row that is read
\* back is not renewed (cache.py, core/caching.py, core/http.py).
THEOREM ServedIsFresh ==
    ASSUME Lifetimes
    PROVE  PC!Spec => [](PC!TypeOK /\ PC!ServedFresh)
<1>1. Ages => PC!TypeOK /\ PC!ServedFresh
  <2> SUFFICES ASSUME Ages PROVE PC!TypeOK /\ PC!ServedFresh
    OBVIOUS
  <2>1. PC!TypeOK
    BY DEF Ages, Entries, Callers, Dated, PC!TypeOK
  <2>2. ASSUME NEW a \in PC!ServedAges
        PROVE  a < Ttl["frame"] + Ttl["body"] + 2 * Slow
    <3>1. Ttl["frame"] \in Nat \ {0} /\ Ttl["body"] \in Nat \ {0} /\ Slow \in Nat
      BY DEF Lifetimes, PC!Key
    <3>2. CASE \E p \in Proc : \E e \in PC!Found(p, "frame") : a = e.old
      <4>1. PICK p \in Proc : \E e \in PC!Found(p, "frame") : a = e.old
        BY <3>2
      <4>2. PICK e \in PC!Found(p, "frame") : a = e.old
        BY <4>1
      <4>3. PC!Fresh(e, "frame") /\ Dated(e, "frame")
        BY DEF PC!Found, PC!InMemory, PC!OnDisk, Ages, Entries, PC!Key
      <4> QED BY <3>1, <4>2, <4>3 DEF PC!Fresh, Dated, Lag, AgeRecs
    <3>3. CASE \E t \in Thread : calls[t] = "build" /\ a = got[t]
      <4>1. PICK t \in Thread : calls[t] = "build" /\ a = got[t]
        BY <3>3
      <4>2. got[t] < Ttl["body"] + Slow + spent[t] /\ spent[t] \in 0 .. Slow /\ got[t] \in Nat
        BY <4>1 DEF Ages, Callers
      <4> QED BY <3>1, <4>1, <4>2
    <3>4. \/ \E p \in Proc : \E e \in PC!Found(p, "frame") : a = e.old
          \/ \E t \in Thread : calls[t] = "build" /\ a = got[t]
      BY DEF PC!ServedAges
    <3> QED BY <3>2, <3>3, <3>4
  <2> QED BY <2>1, <2>2 DEF PC!ServedFresh
<1>2. Lifetimes /\ Ages /\ [PC!Next]_(PC!vars) => Ages'
  <2>1. CASE UNCHANGED PC!vars
    BY <2>1 DEF PC!vars, Ages, Entries, Callers
  <2> QED BY <2>1, CallStep, ProcessEnds, SpoilKeeps, TickKeepsAges DEF PC!Next
<1> QED BY <1>1, <1>2, CacheInit, PTL DEF PC!Spec

----------------------------------------------------------------------------
(* The browser's feed: one connection per provider, with what is in sight.   *)

(* A finite set goes into one that has as many members. *)
LEMMA GoesInto ==
    ASSUME NEW S, IsFiniteSet(S), NEW Q, IsFiniteSet(Q), Cardinality(S) <= Cardinality(Q)
    PROVE  \E h \in [S -> Q] : \A a, b \in S : h[a] = h[b] => a = b
<1> DEFINE n == Cardinality(S)
           m == Cardinality(Q)
<1>1. n \in Nat /\ m \in Nat /\ ExistsBijection(1 .. n, S) /\ ExistsBijection(1 .. m, Q)
  BY FS_CardinalityType
<1>2. PICK f : f \in Bijection(1 .. n, S)
  BY <1>1 DEF ExistsBijection
<1>3. PICK g : g \in Bijection(1 .. m, Q)
  BY <1>1 DEF ExistsBijection
<1> HIDE DEF n, m
<1>4. \A s \in S : \E i \in 1 .. n : f[i] = s
  BY <1>2 DEF Bijection, Surjection
<1>5. \A i, j \in 1 .. m : g[i] = g[j] => i = j
  BY <1>3 DEF Bijection, Injection, IsInjective
<1>6. g \in [1 .. m -> Q] /\ n <= m
  BY <1>3 DEF Bijection, Injection, n, m
<1> DEFINE place(s) == CHOOSE i \in 1 .. n : f[i] = s
           h == [s \in S |-> g[place(s)]]
<1>7. \A s \in S : place(s) \in 1 .. n /\ f[place(s)] = s
  BY <1>4
<1>8. \A s \in S : place(s) \in 1 .. m
  BY <1>1, <1>6, <1>7
<1> HIDE DEF place
<1>9. h \in [S -> Q]
  BY <1>6, <1>8
<1>10. \A a, b \in S : h[a] = h[b] => a = b
  BY <1>5, <1>7, <1>8
<1> QED BY <1>9, <1>10

\* What a connection may carry.
Carried == UNION {w.symbols : w \in Boards \cup {J!None}}

LoopRecs == [at : {"none", "fetch", "read", "sleep", "gave up"}, aborted : BOOLEAN,
             symbols : SUBSET Carried, provider : Provider \cup {""}]

\* A number that is taken is that of its provider's connection, or was aborted;
\* a connection carries something, and after the timer what is wanted.
Carries ==
    /\ watchers \in [Watcher -> Boards \cup {J!None}] /\ activeView \in View /\ armed \in BOOLEAN
    /\ conns \in [Provider -> LoopNo \cup {0}] /\ loop \in [LoopNo -> LoopRecs]
    /\ \A p \in Provider : conns[p] # 0 =>
          /\ loop[conns[p]].provider = p /\ loop[conns[p]].at # "none"
          /\ ~loop[conns[p]].aborted /\ loop[conns[p]].symbols # {}
    /\ \A l \in LoopNo : loop[l].at # "none" /\ ~loop[l].aborted =>
          loop[l].provider \in Provider /\ conns[loop[l].provider] = l
    /\ ~armed => \A p \in Provider :
          IF J!Wanted(p) = {} THEN conns[p] = 0
          ELSE conns[p] # 0 /\ loop[conns[p]].symbols = J!Wanted(p)

\* The numbers of connections are enough as the code's are, which has none.
Numbers == 0 \notin LoopNo /\ IsFiniteSet(LoopNo) /\ IsFiniteSet(Provider)

(* What the watchers want is among what a connection may carry. *)
LEMMA WantedIsCarried == ASSUME Carries PROVE \A p : J!Wanted(p) \in SUBSET Carried
  BY DEF Carries, J!Wanted, Carried

(* No connection is open in the first state. *)
LEMMA FeedInit == ASSUME Numbers PROVE J!Init => Carries
<1> SUFFICES ASSUME J!Init PROVE Carries
  OBVIOUS
<1>1. \A p : J!Wanted(p) = {}
  BY DEF J!Init, J!Wanted, J!None
<1>2. J!Unmade \in LoopRecs /\ J!Unmade.at = "none"
  BY DEF J!Unmade, LoopRecs
<1> QED BY <1>1, <1>2 DEF J!Init, Carries

(* The views only change what is wanted, and set the timer. *)
LEMMA ViewsKeep ==
    ASSUME Carries, armed' = TRUE, UNCHANGED <<conns, loop>>,
           watchers' \in [Watcher -> Boards \cup {J!None}], activeView' \in View
    PROVE  Carries'
  BY DEF Carries

(* A connection that goes on, or gives up, is the one it was. *)
LEMMA LoopKeeps ==
    ASSUME Carries, NEW l \in LoopNo, NEW x \in {"fetch", "read", "sleep", "gave up"},
           loop[l].at # "none", ~loop[l].aborted, J!Goes(l, x),
           conns' = conns, activeView' = activeView,
           \/ armed' = armed /\ watchers' = watchers
           \/ armed' = TRUE /\ watchers' \in [Watcher -> Boards \cup {J!None}]
    PROVE  Carries'
<1>1. loop' = [loop EXCEPT ![l].at = x] /\ loop \in [LoopNo -> LoopRecs]
  BY DEF J!Goes, Carries
<1>2. /\ [loop[l] EXCEPT !.at = x] \in LoopRecs
      /\ loop'[l] = [loop[l] EXCEPT !.at = x]
      /\ \A m \in LoopNo : m # l => loop'[m] = loop[m]
  BY <1>1 DEF LoopRecs
<1>3. loop' \in [LoopNo -> LoopRecs]
  BY <1>1, <1>2
<1>4. /\ loop'[l].at # "none" /\ loop'[l].aborted = loop[l].aborted
      /\ loop'[l].symbols = loop[l].symbols /\ loop'[l].provider = loop[l].provider
  BY <1>1, <1>2 DEF LoopRecs
<1>5. armed' \in BOOLEAN /\ watchers' \in [Watcher -> Boards \cup {J!None}]
  BY DEF Carries
<1>6. \A p \in Provider : conns[p] # 0 =>
          /\ loop'[conns[p]].provider = p /\ loop'[conns[p]].at # "none"
          /\ ~loop'[conns[p]].aborted /\ loop'[conns[p]].symbols # {}
          /\ loop'[conns[p]].symbols = loop[conns[p]].symbols
  <2> TAKE p \in Provider
  <2> HAVE conns[p] # 0
  <2>1. conns[p] \in LoopNo
    BY ZenonT(60) DEF Carries
  <2>2. /\ loop[conns[p]].provider = p /\ loop[conns[p]].at # "none"
        /\ ~loop[conns[p]].aborted /\ loop[conns[p]].symbols # {}
    BY DEF Carries
  <2>3. CASE conns[p] = l
    BY <1>4, <2>2, <2>3
  <2>4. CASE conns[p] # l
    <3>1. loop'[conns[p]] = loop[conns[p]]
      BY <1>2, <2>1, <2>4
    <3> QED BY <2>2, <3>1
  <2> QED BY <2>3, <2>4
<1>7. \A m \in LoopNo : loop'[m].at # "none" /\ ~loop'[m].aborted =>
          loop'[m].provider \in Provider /\ conns[loop'[m].provider] = m
  <2> TAKE m \in LoopNo
  <2> HAVE loop'[m].at # "none" /\ ~loop'[m].aborted
  <2>1. loop[m].at # "none" /\ ~loop[m].aborted /\ loop'[m].provider = loop[m].provider
    <3>1. CASE m = l
      BY <1>4, <3>1
    <3>2. CASE m # l
      <4>1. loop'[m] = loop[m]
        BY <1>2, <3>2
      <4> QED BY <4>1
    <3> QED BY <3>1, <3>2
  <2> QED BY <2>1 DEF Carries
<1>8. ~armed' => ~armed /\ \A p : J!Wanted(p)' = J!Wanted(p)
  <2> SUFFICES ASSUME ~armed' PROVE ~armed /\ \A p : J!Wanted(p)' = J!Wanted(p)
    OBVIOUS
  <2>1. armed' = armed /\ watchers' = watchers
    OBVIOUS
  <2>2. \A p : J!Wanted(p)' = J!Wanted(p)
    BY <2>1 DEF J!Wanted, J!Seen
  <2> QED BY <2>1, <2>2
<1>9. ~armed' => \A p \in Provider :
          IF J!Wanted(p)' = {} THEN conns[p] = 0
          ELSE conns[p] # 0 /\ loop'[conns[p]].symbols = J!Wanted(p)'
  <2> SUFFICES ASSUME ~armed', NEW p \in Provider
               PROVE  IF J!Wanted(p)' = {} THEN conns[p] = 0
                      ELSE conns[p] # 0 /\ loop'[conns[p]].symbols = J!Wanted(p)'
    OBVIOUS
  <2>1. IF J!Wanted(p) = {} THEN conns[p] = 0
        ELSE conns[p] # 0 /\ loop[conns[p]].symbols = J!Wanted(p)
    BY <1>8 DEF Carries
  <2> QED BY <1>6, <1>8, <2>1
<1> QED BY <1>3, <1>5, <1>6, <1>7, <1>9 DEF Carries

(* A connection that was aborted leaves no trace. *)
LEMMA LeaveKeeps == ASSUME Numbers, Carries, NEW l \in LoopNo, J!Leave(l) PROVE Carries'
<1>1. /\ loop[l].aborted /\ loop' = [loop EXCEPT ![l] = J!Unmade]
      /\ UNCHANGED <<watchers, activeView, armed, conns>>
  BY DEF J!Leave
<1>2. J!Unmade \in LoopRecs /\ J!Unmade.at = "none"
  BY DEF J!Unmade, LoopRecs
<1>3. /\ loop' \in [LoopNo -> LoopRecs] /\ loop'[l].at = "none"
      /\ \A m \in LoopNo : m # l => loop'[m] = loop[m]
  BY <1>1, <1>2 DEF Carries
<1>4. \A p \in Provider : conns[p] # 0 => conns[p] \in LoopNo /\ conns[p] # l
  BY <1>1 DEF Carries
<1>5. \A p : J!Wanted(p)' = J!Wanted(p)
  BY <1>1 DEF J!Wanted, J!Seen
<1> QED BY <1>1, <1>3, <1>4, <1>5 DEF Carries

(* A rebuild leaves one open connection for each provider that is wanted. *)
LEMMA RebuildKeeps == ASSUME Numbers, Carries, J!Rebuild PROVE Carries'
<1> DEFINE number == J!Number
<1>1. /\ armed' = FALSE /\ UNCHANGED <<watchers, activeView>>
      /\ J!Cardinality(J!Opening) <= J!Cardinality(J!Free)
      /\ conns' = [p \in Provider |-> IF p \in J!Opening THEN number[p]
                                      ELSE IF p \in J!Stale THEN 0 ELSE conns[p]]
      /\ loop' = [l \in LoopNo |-> IF l \in J!Abort THEN [loop[l] EXCEPT !.aborted = TRUE]
                                   ELSE IF \E p \in J!Opening : number[p] = l
                                     THEN J!Opened(CHOOSE p \in J!Opening : number[p] = l)
                                   ELSE loop[l]]
  BY DEF J!Rebuild
<1>2. number \in [J!Opening -> J!Free] /\ \A p, q \in J!Opening : number[p] = number[q] => p = q
  <2>1. IsFiniteSet(J!Opening) /\ IsFiniteSet(J!Free)
    BY FS_Subset DEF J!Opening, J!Free, Numbers
  <2>2. Cardinality(J!Opening) <= Cardinality(J!Free)
    BY <1>1 DEF J!Cardinality, Cardinality
  <2>3. \E h \in [J!Opening -> J!Free] : \A a, b \in J!Opening : h[a] = h[b] => a = b
    BY <2>1, <2>2, GoesInto
  <2>4. \E h \in [J!Opening -> J!Free] : J!IsInjective(h)
    BY <2>3 DEF J!IsInjective
  <2>5. number \in [J!Opening -> J!Free] /\ J!IsInjective(number)
    BY <2>4 DEF J!Number
  <2> QED BY <2>5 DEF J!IsInjective
<1> HIDE DEF number
<1>3. \A l \in J!Free : l \in LoopNo /\ l # 0 /\ loop[l].at = "none" /\ l \notin J!Abort
  <2> TAKE l \in J!Free
  <2>1. l \in LoopNo /\ l # 0 /\ loop[l].at = "none"
    <3>1. l \in LoopNo /\ loop[l] = J!Unmade
      BY DEF J!Free
    <3>2. J!Unmade.at = "none"
      BY DEF J!Unmade
    <3> QED BY <3>1, <3>2 DEF Numbers
  <2>2. \A p \in J!Stale : p \in Provider /\ conns[p] # 0 /\ loop[conns[p]].at # "none"
    BY DEF J!Stale, Carries
  <2>3. l \notin J!Abort
    BY <2>1, <2>2 DEF J!Abort
  <2> QED BY <2>1, <2>3
<1>4. ASSUME NEW p \in J!Opening
      PROVE  /\ p \in Provider /\ conns'[p] = number[p] /\ number[p] \in LoopNo /\ number[p] # 0
             /\ loop'[number[p]] = J!Opened(p) /\ J!Wanted(p) # {}
  <2>1. p \in Provider /\ J!Wanted(p) # {}
    BY DEF J!Opening
  <2>2. number[p] \in J!Free
    BY <1>2
  <2>3. number[p] \in LoopNo /\ number[p] # 0 /\ number[p] \notin J!Abort
    BY <1>3, <2>2
  <2>4. (CHOOSE q \in J!Opening : number[q] = number[p]) = p
    BY <1>2
  <2> QED BY <1>1, <2>1, <2>3, <2>4
<1>5. ASSUME NEW p \in Provider, p \notin J!Opening, conns'[p] # 0
      PROVE  /\ p \notin J!Stale /\ conns'[p] = conns[p] /\ conns[p] \in LoopNo
             /\ loop'[conns[p]] = loop[conns[p]]
  <2>1. p \notin J!Stale /\ conns'[p] = conns[p]
    BY <1>1, <1>5
  <2>2. conns[p] \in LoopNo /\ loop[conns[p]].at # "none" /\ loop[conns[p]].provider = p
    BY <1>5, <2>1 DEF Carries
  <2>3. conns[p] \notin J!Abort
    BY <2>1, <2>2 DEF J!Abort, J!Stale, Carries
  <2>4. ~\E q \in J!Opening : number[q] = conns[p]
    BY <1>2, <1>3, <2>2
  <2> QED BY <1>1, <2>1, <2>2, <2>3, <2>4
<1>6. \A p \in Provider : J!Opened(p) \in LoopRecs
  BY WantedIsCarried DEF J!Opened, LoopRecs
<1>7. \A l \in LoopNo : loop[l] \in LoopRecs /\ [loop[l] EXCEPT !.aborted = TRUE] \in LoopRecs
  <2> TAKE l \in LoopNo
  <2>1. loop[l] \in LoopRecs
    BY DEF Carries
  <2> QED BY <2>1 DEF LoopRecs
<1>8. ASSUME NEW l \in LoopNo
      PROVE  /\ loop'[l] \in LoopRecs
             /\ loop'[l].at # "none" /\ ~loop'[l].aborted =>
                  loop'[l].provider \in Provider /\ conns'[loop'[l].provider] = l
  <2>1. CASE l \in J!Abort
    <3>1. loop'[l] = [loop[l] EXCEPT !.aborted = TRUE]
      BY <1>1, <2>1
    <3>2. loop'[l].aborted
      BY <1>7, <3>1 DEF LoopRecs
    <3> QED BY <1>7, <3>1, <3>2
  <2>2. CASE \E p \in J!Opening : number[p] = l
    <3>1. PICK p \in J!Opening : number[p] = l
      BY <2>2
    <3>2. loop'[l] = J!Opened(p) /\ p \in Provider /\ conns'[p] = l
      BY <1>4, <3>1
    <3> QED BY <1>6, <3>2 DEF J!Opened
  <2>3. CASE l \notin J!Abort /\ ~\E p \in J!Opening : number[p] = l
    <3>1. loop'[l] = loop[l]
      BY <1>1, <2>3
    <3>2. ASSUME loop[l].at # "none", ~loop[l].aborted
          PROVE  loop[l].provider \in Provider /\ conns'[loop[l].provider] = l
      <4> DEFINE p == loop[l].provider
      <4>1. p \in Provider /\ conns[p] = l /\ conns[p] # 0
        BY <3>2 DEF Carries, Numbers
      <4>2. p \notin J!Stale
        BY <2>3, <4>1 DEF J!Abort
      <4>3. p \notin J!Opening
        BY <4>1, <4>2 DEF J!Opening
      <4> QED BY <1>1, <4>1, <4>2, <4>3
    <3> QED BY <1>7, <3>1, <3>2
  <2> QED BY <2>1, <2>2, <2>3
<1>9. \A p : J!Wanted(p)' = J!Wanted(p)
  BY <1>1 DEF J!Wanted, J!Seen
<1>10. ASSUME NEW p \in Provider
       PROVE  /\ conns'[p] \in LoopNo \cup {0}
              /\ conns'[p] # 0 =>
                   /\ loop'[conns'[p]].provider = p /\ loop'[conns'[p]].at # "none"
                   /\ ~loop'[conns'[p]].aborted /\ loop'[conns'[p]].symbols # {}
              /\ IF J!Wanted(p) = {} THEN conns'[p] = 0
                 ELSE conns'[p] # 0 /\ loop'[conns'[p]].symbols = J!Wanted(p)
  <2>1. CASE p \in J!Opening
    <3>1. /\ conns'[p] = number[p] /\ number[p] \in LoopNo /\ number[p] # 0
          /\ loop'[number[p]] = J!Opened(p) /\ J!Wanted(p) # {}
      BY <1>4, <2>1
    <3>2. /\ J!Opened(p).provider = p /\ J!Opened(p).at = "fetch"
          /\ ~J!Opened(p).aborted /\ J!Opened(p).symbols = J!Wanted(p)
      BY DEF J!Opened
    <3> QED BY <3>1, <3>2
  <2>2. CASE p \notin J!Opening /\ conns'[p] # 0
    BY <1>5, <2>2 DEF Carries, J!Stale
  <2>3. CASE p \notin J!Opening /\ conns'[p] = 0
    <3>1. p \in J!Stale \/ conns[p] = 0
      BY <1>1, <2>3
    <3> QED BY <2>3, <3>1 DEF J!Opening
  <2> QED BY <2>1, <2>2, <2>3
<1>11. conns' \in [Provider -> LoopNo \cup {0}] /\ loop' \in [LoopNo -> LoopRecs]
  BY <1>1, <1>8, <1>10
<1>12. watchers' \in [Watcher -> Boards \cup {J!None}] /\ activeView' \in View /\ armed' \in BOOLEAN
  BY <1>1 DEF Carries
<1> QED BY <1>8, <1>9, <1>10, <1>11, <1>12 DEF Carries

\* "The browser holds one connection per provider", and once the timer has fired
\* the connections carry what the watchers in sight want and nothing else, however
\* views, aborts and failures fall between the awaits of the loops
\* (frontend/app.js).
THEOREM OneFeedPerProvider ==
    ASSUME Numbers
    PROVE  J!Spec => [](J!TypeOK /\ J!OneFeed)
<1>1. Carries => J!TypeOK /\ J!OneFeed
  BY DEF Carries, LoopRecs, Numbers, J!TypeOK, J!OneFeed, J!At
<1>2. Carries /\ [J!Next]_(J!vars) => Carries'
  <2> SUFFICES ASSUME Carries, [J!Next]_(J!vars) PROVE Carries'
    OBVIOUS
  <2>1. CASE \E i \in Watcher : J!Close(i) \/ \E w \in Boards : J!Watch(i, w)
    BY <2>1, ViewsKeep DEF J!Close, J!Watch, Carries
  <2>2. CASE \E v \in View : J!SetView(v)
    BY <2>2, ViewsKeep DEF J!SetView, Carries
  <2>3. CASE J!Logout
    BY <2>3, ViewsKeep DEF J!Logout, J!CloseAll, Carries
  <2>4. ASSUME NEW l \in LoopNo, J!Accepted(l) \/ J!Refused(l) \/ J!Lost(l) \/ J!Wake(l)
        PROVE  Carries'
    <3>1. \E x \in {"fetch", "read", "sleep", "gave up"} :
            /\ J!Goes(l, x) /\ loop[l].at # "none" /\ ~loop[l].aborted
            /\ UNCHANGED <<watchers, activeView, armed, conns>>
      BY <2>4 DEF J!Accepted, J!Refused, J!Lost, J!Wake, J!At
    <3> QED BY <3>1, LoopKeeps
  <2>5. ASSUME NEW l \in LoopNo, J!Unauthorized(l) PROVE Carries'
    <3>1. /\ J!Goes(l, "gave up") /\ loop[l].at # "none" /\ ~loop[l].aborted
          /\ armed' = TRUE /\ conns' = conns /\ activeView' = activeView
          /\ watchers' \in [Watcher -> Boards \cup {J!None}]
      BY <2>5 DEF J!Unauthorized, J!At, J!CloseAll
    <3> QED BY <3>1, LoopKeeps
  <2>6. CASE UNCHANGED J!vars
    BY <2>6 DEF J!vars, Carries, J!Wanted, J!Seen
  <2> QED BY <2>1, <2>2, <2>3, <2>4, <2>5, <2>6, LeaveKeeps, RebuildKeeps DEF J!Next
<1> QED BY <1>1, <1>2, FeedInit, PTL DEF J!Spec

----------------------------------------------------------------------------
(* The workspace: one watcher of a box, and of what the box shows.           *)

\* A set of boxes, none of which is named like the tape; more handles than
\* boxes, of which the code has any number; and a list may be empty.
Boxes == "tape" \notin Box /\ "" \notin Shows /\ {} \in Lists
Enough ==
    /\ IsFiniteSet(Box) /\ Handle \in SUBSET (Nat \ {0}) /\ IsFiniteSet(Handle)
    /\ Cardinality(Handle) > Cardinality(Box) + 1
Layouts == Boxes /\ Enough /\ MaxRenders \in Nat

\* A load of this rendering is of what its box shows; watchers are known by
\* their handles, and each is that of its box or of the tape.
Drawn ==
    /\ drawn \in [Box -> Shows \cup {""}] /\ version \in 0 .. MaxRenders
    /\ wsLive \in [Box -> Handle \cup {0}]
    /\ tapeBar \in [symbols : Lists, handle : Handle \cup {0}]
    /\ \A load \in fetches :
          /\ load.box \in Box /\ load.version \in 0 .. version
          /\ load.version = version => load.shows = drawn[load.box]
    /\ \A w \in boxed : w.id \in Handle /\ w.of \in Box \cup {"tape"}
    /\ \A w, u \in boxed : w.id = u.id => w = u
    /\ I!WatchersShown

(* The least of some numbers is among them. *)
LEMMA HasLeast ==
    ASSUME NEW S \in SUBSET Nat, S # {}
    PROVE  I!Min(S) \in S
  BY LeastNumber DEF I!Min

(* There is a handle left for a new watcher: each of the others is that of a box *)
(* or of the tape. *)
LEMMA FreeHandle ==
    ASSUME Layouts, Drawn
    PROVE  /\ I!NewHandle \in Handle /\ I!NewHandle # 0
           /\ \A w \in boxed : w.id # I!NewHandle
<1> DEFINE ids == {w.id : w \in boxed}
           handles == {wsLive[b] : b \in Box}
<1>1. ids \subseteq handles \cup {tapeBar.handle}
  <2> SUFFICES ASSUME NEW w \in boxed PROVE w.id \in handles \cup {tapeBar.handle}
    OBVIOUS
  <2>1. w.of \in Box \cup {"tape"}
    BY DEF Drawn
  <2>2. IF w.of = "tape" THEN tapeBar.handle = w.id ELSE wsLive[w.of] = w.id
    BY DEF Drawn, I!WatchersShown
  <2> QED BY <2>1, <2>2
<1>2. IsFiniteSet(handles) /\ Cardinality(handles) <= Cardinality(Box)
  <2>1. wsLive \in Surjection(Box, handles)
    BY DEF Drawn, Surjection
  <2> QED BY <2>1, FS_Surjection DEF Layouts, Enough
<1> HIDE DEF handles
<1>3. /\ IsFiniteSet(handles \cup {tapeBar.handle})
      /\ Cardinality(handles \cup {tapeBar.handle}) <= Cardinality(Box) + 1
  <2>1. IsFiniteSet(Box) /\ Cardinality(Box) \in Nat /\ Cardinality(handles) \in Nat
    BY <1>2, FS_CardinalityType DEF Layouts, Enough
  <2> DEFINE x == tapeBar.handle
  <2> HIDE DEF x
  <2>2. /\ IsFiniteSet(handles \cup {x})
        /\ Cardinality(handles \cup {x}) = IF x \in handles THEN Cardinality(handles) ELSE Cardinality(handles) + 1
    BY <1>2, FS_AddElement
  <2>3. Cardinality(handles \cup {x}) <= Cardinality(Box) + 1
    BY <1>2, <2>1, <2>2
  <2> QED BY <2>2, <2>3 DEF x
<1>4. Handle \ ids # {}
  <2> SUFFICES ASSUME Handle \subseteq ids PROVE FALSE
    OBVIOUS
  <2>1. Handle \subseteq handles \cup {tapeBar.handle}
    BY <1>1
  <2>2. Cardinality(Handle) <= Cardinality(handles \cup {tapeBar.handle})
    BY <1>3, <2>1, FS_Subset
  <2>3. /\ Cardinality(Handle) \in Nat /\ Cardinality(Box) \in Nat
        /\ Cardinality(handles \cup {tapeBar.handle}) \in Nat /\ Cardinality(Handle) > Cardinality(Box) + 1
    BY <1>3, FS_CardinalityType DEF Layouts, Enough
  <2> QED BY <1>3, <2>2, <2>3
<1>5. I!NewHandle \in Handle \ ids
  BY <1>4, HasLeast DEF I!NewHandle, Layouts, Enough
<1> QED BY <1>5 DEF Layouts, Enough

(* Renderings are numbered. *)
LEMMA RenderingsNumbered == ASSUME Layouts, Drawn PROVE version \in Nat /\ version <= MaxRenders
<1>1. version \in 0 .. MaxRenders /\ MaxRenders \in Nat
  BY DEF Drawn, Layouts
<1> QED BY <1>1

(* Nothing is drawn in the first state. *)
LEMMA WorkspaceInit == ASSUME Layouts PROVE I!Init => Drawn
<1> SUFFICES ASSUME I!Init PROVE Drawn
  OBVIOUS
<1>1. 0 \in 0 .. MaxRenders
  BY DEF Layouts
<1>2. tapeBar \in [symbols : Lists, handle : Handle \cup {0}]
  BY DEF I!Init, Layouts, Boxes
<1> QED BY <1>1, <1>2 DEF I!Init, Drawn, I!WatchersShown

(* A rendering closes the watchers of all boxes, and its loads are its own. *)
LEMMA RenderKeeps ==
    ASSUME Layouts, Drawn, NEW layout \in I!Layout, I!Render(layout) PROVE Drawn'
<1>1. /\ version < MaxRenders /\ version' = version + 1 /\ drawn' = layout
      /\ wsLive' = [b \in Box |-> 0] /\ boxed' = boxed \ I!Closed /\ tapeBar' = tapeBar
      /\ fetches' = fetches \cup {I!LoadOf(b, layout, version', 1) : b \in {c \in Box : layout[c] # ""}}
  BY DEF I!Render
<1>2. version' \in 0 .. MaxRenders /\ version \in Nat /\ version' = version + 1
  <2>1. version < MaxRenders /\ version' = version + 1
    BY <1>1
  <2>2. MaxRenders \in Nat
    BY DEF Layouts
  <2> QED BY <2>1, <2>2, RenderingsNumbered
<1>3. \A load \in fetches' :
          /\ load.box \in Box /\ load.version \in 0 .. version'
          /\ load.version = version' => load.shows = drawn'[load.box]
  <2> TAKE load \in fetches'
  <2>1. CASE load \in fetches
    <3>1. load.box \in Box /\ load.version \in 0 .. version
      BY <2>1 DEF Drawn
    <3>2. load.version \in 0 .. version' /\ load.version # version'
      BY <1>2, <3>1
    <3> QED BY <3>1, <3>2
  <2>2. CASE load \notin fetches
    <3>1. PICK b \in Box : load = I!LoadOf(b, layout, version', 1)
      BY <1>1, <2>2
    <3>2. load.box = b /\ load.version = version' /\ load.shows = layout[b]
      BY <3>1 DEF I!LoadOf
    <3>3. version' \in 0 .. version'
      BY <1>2
    <3>4. drawn' = layout
      BY <1>1
    <3> QED BY <3>2, <3>3, <3>4
  <2> QED BY <2>1, <2>2
<1>4. \A w \in boxed' : w \in boxed /\ w.of = "tape"
  BY <1>1 DEF Drawn, I!WatchersShown, I!Closed
<1>5. \A w \in boxed' : tapeBar.handle = w.id /\ (tapeBar.symbols # {} => w.symbols = tapeBar.symbols)
  BY <1>4 DEF Drawn, I!WatchersShown
<1>6. I!WatchersShown'
  BY <1>1, <1>4, <1>5 DEF I!WatchersShown
<1>7. wsLive' \in [Box -> Handle \cup {0}] /\ drawn' \in [Box -> Shows \cup {""}]
  BY <1>1 DEF I!Layout
<1>8. /\ \A w \in boxed' : w.id \in Handle /\ w.of \in Box \cup {"tape"}
      /\ \A w, u \in boxed' : w.id = u.id => w = u
  BY <1>4 DEF Drawn
<1>9. tapeBar' \in [symbols : Lists, handle : Handle \cup {0}]
  BY <1>1 DEF Drawn
<1> QED BY <1>2, <1>3, <1>6, <1>7, <1>8, <1>9 DEF Drawn

(* An answer is drawn if its rendering is still the last one. *)
LEMMA ArriveKeeps == ASSUME Layouts, Drawn, NEW load \in fetches, I!Arrive(load) PROVE Drawn'
<1> DEFINE n == I!NewHandle
           new == [id |-> n, of |-> load.box, shows |-> load.shows, symbols |-> {}]
<1>1. fetches' = fetches \ {load} /\ UNCHANGED <<version, drawn, tapeBar, cards>>
  BY DEF I!Arrive
<1>2. CASE ~I!Body(load)
  <2>1. wsLive' = wsLive /\ boxed' = boxed
    BY <1>2 DEF I!Arrive
  <2> QED BY <1>1, <2>1 DEF Drawn, I!WatchersShown
<1>3. CASE I!Body(load)
  <2>1. /\ wsLive' = [wsLive EXCEPT ![load.box] = n]
        /\ boxed' = {w \in boxed : w.id # wsLive[load.box]} \cup {new}
    BY <1>3 DEF I!Arrive, I!Without
  <2>2. n \in Handle /\ \A w \in boxed : w.id # n
    BY FreeHandle
  <2>3. load.box \in Box /\ load.shows = drawn[load.box] /\ load.shows # ""
    BY <1>3 DEF I!Body, Drawn
  <2> HIDE DEF n
  <2>4. /\ new.id = n /\ new.of = load.box /\ new.shows = load.shows
    OBVIOUS
  <2> HIDE DEF new
  <2>5. ASSUME NEW w \in boxed'
        PROVE  w = new \/ (w \in boxed /\ w.of # load.box /\ w.id # n)
    <3>1. CASE w = new
      BY <3>1
    <3>2. CASE w # new
      <4>1. w \in boxed /\ w.id # wsLive[load.box] /\ w.id # n
        BY <2>1, <2>2, <3>2
      <4>2. w.of # load.box
        BY <2>3, <4>1 DEF Drawn, I!WatchersShown, Layouts, Boxes
      <4> QED BY <4>1, <4>2
    <3> QED BY <3>1, <3>2
  <2>6. wsLive' \in [Box -> Handle \cup {0}] /\ wsLive'[load.box] = n
    BY <2>1, <2>2, <2>3 DEF Drawn
  <2>7. I!WatchersShown'
    <3> SUFFICES ASSUME NEW w \in boxed'
                 PROVE  IF w.of = "tape"
                          THEN tapeBar.handle = w.id /\ (tapeBar.symbols # {} => w.symbols = tapeBar.symbols)
                          ELSE wsLive'[w.of] = w.id /\ drawn[w.of] = w.shows /\ w.shows # ""
      BY <1>1 DEF I!WatchersShown
    <3>1. CASE w = new
      BY <2>3, <2>4, <2>6, <3>1 DEF Layouts, Boxes
    <3>2. CASE w # new
      <4>1. w \in boxed /\ w.of # load.box /\ w.of \in Box \cup {"tape"}
        BY <2>5, <3>2 DEF Drawn
      <4>2. IF w.of = "tape"
              THEN tapeBar.handle = w.id /\ (tapeBar.symbols # {} => w.symbols = tapeBar.symbols)
              ELSE wsLive[w.of] = w.id /\ drawn[w.of] = w.shows /\ w.shows # ""
        BY <4>1 DEF Drawn, I!WatchersShown
      <4>3. w.of # "tape" => wsLive'[w.of] = wsLive[w.of]
        BY <2>1, <4>1 DEF Drawn
      <4> QED BY <4>2, <4>3
    <3> QED BY <3>1, <3>2
  <2>8. \A w \in boxed' : w.id \in Handle /\ w.of \in Box \cup {"tape"}
    BY <2>2, <2>3, <2>4, <2>5 DEF Drawn
  <2>9. \A w, u \in boxed' : w.id = u.id => w = u
    BY <2>4, <2>5 DEF Drawn
  <2>10. \A l \in fetches' :
          /\ l.box \in Box /\ l.version \in 0 .. version
          /\ l.version = version => l.shows = drawn[l.box]
    BY <1>1 DEF Drawn
  <2> QED BY <1>1, <2>6, <2>7, <2>8, <2>9, <2>10 DEF Drawn
<1> QED BY <1>2, <1>3

(* A list that is refilled leaves its old watchers first. *)
LEMMA QuotesKeep == ASSUME Layouts, Drawn, NEW l \in Lists, I!QuotesCame(l) PROVE Drawn'
<1> DEFINE n == I!NewHandle
           new == [id |-> n, of |-> "tape", shows |-> "", symbols |-> l]
<1>1. /\ tapeBar' = [symbols |-> l, handle |-> n]
      /\ boxed' = {w \in boxed : w.id # tapeBar.handle} \cup {new}
      /\ UNCHANGED <<version, drawn, fetches, wsLive>>
  BY DEF I!QuotesCame, I!Without
<1>2. n \in Handle /\ \A w \in boxed : w.id # n
  BY FreeHandle
<1> HIDE DEF n
<1>3. tapeBar' \in [symbols : Lists, handle : Handle \cup {0}] /\ tapeBar'.handle = n /\ tapeBar'.symbols = l
  BY <1>1, <1>2
<1>4. new.id = n /\ new.of = "tape" /\ new.symbols = l
  OBVIOUS
<1> HIDE DEF new
<1>5. ASSUME NEW w \in boxed'
      PROVE  w = new \/ (w \in boxed /\ w.of \in Box /\ w.of # "tape" /\ w.id # n)
  <2>1. CASE w = new
    BY <2>1
  <2>2. CASE w # new
    <3>1. w \in boxed /\ w.id # tapeBar.handle /\ w.id # n
      BY <1>1, <1>2, <2>2
    <3>2. w.of # "tape"
      BY <3>1 DEF Drawn, I!WatchersShown
    <3> QED BY <3>1, <3>2 DEF Drawn
  <2> QED BY <2>1, <2>2
<1>6. I!WatchersShown'
  <2> SUFFICES ASSUME NEW w \in boxed'
               PROVE  IF w.of = "tape"
                        THEN tapeBar'.handle = w.id /\ (tapeBar'.symbols # {} => w.symbols = tapeBar'.symbols)
                        ELSE wsLive[w.of] = w.id /\ drawn[w.of] = w.shows /\ w.shows # ""
    BY <1>1 DEF I!WatchersShown
  <2> QED BY <1>3, <1>4, <1>5 DEF Drawn, I!WatchersShown
<1>7. /\ \A w \in boxed' : w.id \in Handle /\ w.of \in Box \cup {"tape"}
      /\ \A w, u \in boxed' : w.id = u.id => w = u
  BY <1>2, <1>4, <1>5 DEF Drawn
<1> QED BY <1>1, <1>3, <1>6, <1>7 DEF Drawn

(* The tape, the cards and the socket. *)
LEMMA WorkspaceOthers ==
    ASSUME Layouts, Drawn,
           \/ \E b \in Box : I!Refresh(b)
           \/ \E load \in fetches : I!Fail(load)
           \/ I!LoadCards \/ I!Logout \/ \E l \in Lists : I!ListCame(l)
    PROVE  Drawn'
<1>1. ASSUME NEW b \in Box, I!Refresh(b) PROVE Drawn'
  <2>1. /\ fetches' = fetches \cup {I!LoadOf(b, drawn, version, 2)}
        /\ UNCHANGED <<version, drawn, wsLive, tapeBar, cards, boxed>>
    BY <1>1 DEF I!Refresh
  <2> DEFINE x == I!LoadOf(b, drawn, version, 2)
  <2>2. x.box = b /\ x.version = version /\ x.shows = drawn[b]
    BY DEF I!LoadOf
  <2> HIDE DEF x
  <2>3. version \in 0 .. version
    BY RenderingsNumbered
  <2>4. \A load \in fetches' : load \in fetches \/ load = x
    BY <2>1 DEF x
  <2>5. \A load \in fetches' :
          /\ load.box \in Box /\ load.version \in 0 .. version
          /\ load.version = version => load.shows = drawn[load.box]
    BY <2>2, <2>3, <2>4 DEF Drawn
  <2> QED BY <2>1, <2>5 DEF Drawn, I!WatchersShown
<1>2. ASSUME NEW load \in fetches, I!Fail(load) PROVE Drawn'
  BY <1>2 DEF I!Fail, Drawn, I!WatchersShown
<1>3. ASSUME I!LoadCards PROVE Drawn'
  BY <1>3 DEF I!LoadCards, Drawn, I!WatchersShown
<1>4. ASSUME I!Logout PROVE Drawn'
  <2>1. /\ boxed' = {} /\ wsLive' = [b \in Box |-> 0] /\ tapeBar' = [tapeBar EXCEPT !.handle = 0]
        /\ UNCHANGED <<version, drawn, fetches, cards>>
    BY <1>4 DEF I!Logout
  <2>2. tapeBar' \in [symbols : Lists, handle : Handle \cup {0}]
    BY <2>1 DEF Drawn
  <2> QED BY <2>1, <2>2 DEF Drawn, I!WatchersShown
<1>5. ASSUME NEW l \in Lists, I!ListCame(l) PROVE Drawn'
  <2>1. UNCHANGED <<version, drawn, fetches, wsLive, boxed>>
    BY <1>5 DEF I!ListCame
  <2>2. tapeBar' = tapeBar \/ tapeBar' = [tapeBar EXCEPT !.symbols = {}]
    BY <1>5 DEF I!ListCame
  <2>3. /\ tapeBar' \in [symbols : Lists, handle : Handle \cup {0}] /\ tapeBar'.handle = tapeBar.handle
        /\ tapeBar'.symbols # {} => tapeBar'.symbols = tapeBar.symbols
    BY <2>2 DEF Drawn, Layouts, Boxes
  <2> QED BY <2>1, <2>3 DEF Drawn, I!WatchersShown
<1> QED BY <1>1, <1>2, <1>3, <1>4, <1>5

\* "Live handles per workspace box, closed whenever the box is redrawn or removed":
\* in whatever order the replies of this rendering and of earlier ones come, a
\* watcher streams what its box shows and is the one its handle closes; so is the
\* tape's, but for a list that was emptied (frontend/app.js).
THEOREM WatchersAreShown ==
    ASSUME Layouts
    PROVE  I!Spec => [](I!TypeOK /\ I!WatchersShown)
<1>1. Drawn => I!TypeOK /\ I!WatchersShown
  BY DEF Drawn, I!TypeOK, I!Layout
<1>2. Drawn /\ [I!Next]_(I!vars) => Drawn'
  <2> SUFFICES ASSUME Drawn, [I!Next]_(I!vars) PROVE Drawn'
    OBVIOUS
  <2>1. CASE UNCHANGED I!vars
    BY <2>1 DEF I!vars, Drawn, I!WatchersShown
  <2> QED BY <2>1, RenderKeeps, ArriveKeeps, QuotesKeep, WorkspaceOthers DEF I!Next
<1> QED BY <1>1, <1>2, WorkspaceInit, PTL DEF I!Spec

----------------------------------------------------------------------------
(* The Alpaca source: what is watched is carried, under the name it was      *)
(* asked for.                                                                *)

\* Until a ticker is asked for by two names none of what is watched shares one.
Asked ==
    /\ watched \subseteq Ticker /\ printed = [s \in Ticker |-> printed[s]]
    /\ doubled \in BOOLEAN /\ (~doubled => ~N!Double(watched))
    /\ N!TypeOK /\ N!AskedIsCarried

\* In the first state nobody watches.
LEMMA AskedInit == N!Init => Asked
  BY DEF N!Init, Asked, N!TypeOK, N!AskedIsCarried, N!Double, N!Tickers

\* A translation leads each ticker of the set to one of its symbols, and leaves
\* the other tickers to the names they had.
LEMMA Translated ==
    ASSUME NEW S, back' \in N!Translations(S)
    PROVE  /\ DOMAIN back' = DOMAIN back \cup N!Tickers(S)
           /\ \A t \in N!Tickers(S) : back'[t] \in S /\ Of[back'[t]] = t
           /\ \A t \in DOMAIN back \ N!Tickers(S) : back'[t] = back[t]
<1>1. PICK f \in {g \in [N!Tickers(S) -> S] : \A t \in N!Tickers(S) : Of[g[t]] = t} :
        back' = [t \in DOMAIN back \cup N!Tickers(S) |->
                   IF t \in N!Tickers(S) THEN f[t] ELSE back[t]]
  BY DEF N!Translations
<1> QED BY <1>1

\* What stays of a set without doubles loses no ticker with what goes.
LEMMA TickersPart ==
    ASSUME NEW S, NEW U, ~N!Double(S \cup U), S \cap U = {}
    PROVE  N!Tickers(S \cup U) \ N!Tickers(U) = N!Tickers(S)
  BY DEF N!Double, N!Tickers

\* What a watcher adds is subscribed, and what it drops is taken back.
LEMMA WatchKeeps == ASSUME Asked, NEW S \in SUBSET Ticker, N!Watch(S) PROVE Asked'
<1> DEFINE new == S \ watched
           gone == watched \ S
<1>1. /\ new = {} \/ gone = {}
      /\ watched' = S /\ doubled' = (doubled \/ N!Double(S))
      /\ IF link \in {"open", "broken"} THEN back' \in N!Translations(new \cup gone) ELSE back' = back
      /\ printed' = [s \in Ticker |-> IF s \in new THEN Nil ELSE printed[s]]
      /\ latest' = latest
  BY DEF N!Watch
<1>2. \/ link # "open" /\ link' # "open" /\ carried' = carried /\ late' = late
      \/ /\ link = "open" /\ link' = link
         /\ carried' = (carried \ N!Tickers(gone)) \cup N!Tickers(new)
         /\ late' = late \cup (N!Tickers(gone) \cap carried)
      \/ link = "open" /\ link' = "broken" /\ carried' = {} /\ late' = {}
  BY DEF N!Watch, N!Sent
<1>3. N!Tickers(new \cup gone) = N!Tickers(new) \cup N!Tickers(gone)
  BY DEF N!Tickers
<1>4. N!TypeOK'
  <2>1. \A t \in carried' \cup late' : t \in carried \cup late \cup N!Tickers(new)
    BY <1>2
  <2>2. CASE link # "open"
    BY <1>2, <2>2 DEF Asked, N!TypeOK
  <2>3. CASE link = "open"
    <3>1. /\ DOMAIN back' = DOMAIN back \cup N!Tickers(new \cup gone)
          /\ \A t \in N!Tickers(new \cup gone) : Of[back'[t]] = t
          /\ \A t \in DOMAIN back \ N!Tickers(new \cup gone) : back'[t] = back[t]
      BY <1>1, <2>3, Translated
    <3>2. \A t \in carried \cup late : t \in DOMAIN back /\ Of[back[t]] = t
      BY DEF Asked, N!TypeOK
    <3>3. \A t \in carried' \cup late' : t \in DOMAIN back' /\ Of[back'[t]] = t
      BY <1>3, <2>1, <3>1, <3>2
    <3>4. link' # "open" => carried' = {} /\ late' = {}
      BY <1>2, <2>3
    <3> QED BY <3>3, <3>4 DEF N!TypeOK
  <2> QED BY <2>2, <2>3
<1>5. ASSUME ~doubled'
      PROVE  ~N!Double(watched) /\ ~N!Double(S) /\ ~doubled
  BY <1>1, <1>5 DEF Asked
<1>6. ASSUME ~doubled', link' = "open"
      PROVE  carried' = N!Tickers(S)
  <2>1. carried = N!Tickers(watched) /\ carried' = (carried \ N!Tickers(gone)) \cup N!Tickers(new)
    BY <1>2, <1>5, <1>6 DEF Asked, N!AskedIsCarried
  <2>2. CASE new = {}
    <3>1. watched = S \cup gone /\ S \cap gone = {} /\ N!Tickers(new) = {}
      BY <2>2 DEF N!Tickers
    <3> HIDE DEF new, gone
    <3>2. N!Tickers(watched) \ N!Tickers(gone) = N!Tickers(S)
      BY <1>5, <1>6, <3>1, TickersPart
    <3> QED BY <2>1, <3>1, <3>2
  <2>3. CASE gone = {}
    <3>1. S = watched \cup new
      BY <2>3
    <3> QED BY <2>1, <2>3, <3>1 DEF N!Tickers
  <2> QED BY <1>1, <2>2, <2>3
<1>7. ASSUME ~doubled', link' = "open", NEW s \in S, Of[s] # Nil
      PROVE  back'[Of[s]] = s
  <2>1. /\ \A t \in N!Tickers(new \cup gone) : back'[t] \in new \cup gone /\ Of[back'[t]] = t
        /\ \A t \in DOMAIN back \ N!Tickers(new \cup gone) : back'[t] = back[t]
    BY <1>1, <1>2, <1>7, Translated
  <2>2. CASE Of[s] \in N!Tickers(new \cup gone)
    <3> DEFINE q == back'[Of[s]]
    <3>1. q \in new \cup gone /\ Of[q] = Of[s]
      BY <2>1, <2>2
    <3>2. (q \in S /\ s \in S) \/ (q \in watched /\ s \in watched)
      BY <1>1, <3>1
    <3> HIDE DEF q
    <3>3. q = s
      BY <1>5, <1>7, <3>1, <3>2 DEF N!Double
    <3> QED BY <3>3 DEF q
  <2>3. CASE Of[s] \notin N!Tickers(new \cup gone)
    <3>1. s \in watched
      BY <1>7, <2>3 DEF N!Tickers
    <3>2. Of[s] \in N!Tickers(watched) /\ carried = N!Tickers(watched) /\ back[Of[s]] = s
      BY <1>2, <1>5, <1>7, <3>1 DEF Asked, N!AskedIsCarried, N!Tickers
    <3>3. Of[s] \in DOMAIN back
      BY <3>2 DEF Asked, N!TypeOK
    <3> QED BY <2>1, <2>3, <3>2, <3>3
  <2> QED BY <2>2, <2>3
<1>8. ASSUME ~doubled', NEW s \in S, printed'[s] # Nil
      PROVE  s \in DOMAIN latest' /\ latest'[s] = printed'[s]
  <2>1. s \in watched /\ printed'[s] = printed[s]
    BY <1>1, <1>8
  <2> QED BY <1>1, <1>5, <1>8, <2>1 DEF Asked, N!AskedIsCarried
<1>9. N!AskedIsCarried'
  BY <1>1, <1>6, <1>7, <1>8 DEF N!AskedIsCarried
<1>10. doubled' \in BOOLEAN /\ printed' = [s \in Ticker |-> printed'[s]]
  BY <1>1 DEF Asked, N!Double
<1> QED BY <1>1, <1>4, <1>5, <1>9, <1>10 DEF Asked

\* A login subscribes to everything that is watched.
LEMMA LoginKeeps == ASSUME Asked, N!Login PROVE Asked'
<1>1. /\ link = "hello" /\ link' = "open" /\ back' \in N!Translations(watched)
      /\ carried' = N!Tickers(watched) /\ doubled' = N!Double(watched)
      /\ printed' = [s \in Ticker |-> IF doubled THEN Nil ELSE printed[s]]
      /\ watched' = watched /\ late' = late /\ latest' = latest
  BY DEF N!Login
<1>2. late' = {}
  BY <1>1 DEF Asked, N!TypeOK
<1>3. \A t \in N!Tickers(watched) :
        t \in DOMAIN back' /\ back'[t] \in watched /\ Of[back'[t]] = t
  BY <1>1, Translated
<1>4. N!TypeOK'
  BY <1>1, <1>2, <1>3 DEF N!TypeOK
<1>5. ASSUME ~doubled', NEW s \in watched
      PROVE  /\ Of[s] = Nil \/ back'[Of[s]] = s
             /\ printed'[s] # Nil => s \in DOMAIN latest' /\ latest'[s] = printed'[s]
  <2>1. Of[s] # Nil => Of[s] \in N!Tickers(watched)
    BY DEF N!Tickers
  <2>2. Of[s] # Nil => back'[Of[s]] = s
    BY <1>1, <1>3, <1>5, <2>1 DEF N!Double
  <2>3. s \in Ticker
    BY DEF Asked
  <2>4. printed'[s] # Nil => ~doubled /\ printed'[s] = printed[s]
    BY <1>1, <2>3
  <2> QED BY <1>1, <2>2, <2>4 DEF Asked, N!AskedIsCarried
<1>6. N!AskedIsCarried'
  BY <1>1, <1>5 DEF N!AskedIsCarried
<1>7. doubled' \in BOOLEAN /\ (~doubled' => ~N!Double(watched')) /\ printed' = [s \in Ticker |-> printed'[s]]
  BY <1>1 DEF N!Double
<1> QED BY <1>1, <1>4, <1>6, <1>7 DEF Asked

\* A frame reaches the one symbol of its ticker, a quote with the price of the
\* last trade.
LEMMA FrameKeeps ==
    ASSUME Asked, NEW t \in N!Tickers(Ticker), NEW price \in SourcePrices \cup {Nil}, N!Frame(t, price)
    PROVE  Asked'
<1>1. /\ link = "open" /\ t \in carried \cup late
      /\ latest' = [s \in DOMAIN latest \cup ({back[t]} \cap watched) |->
                      IF s = back[t] /\ s \in watched THEN N!Priced(s, price) ELSE latest[s]]
      /\ printed' = [s \in Ticker |-> IF s \in watched /\ Of[s] = t /\ price # Nil
                                       THEN price ELSE printed[s]]
      /\ UNCHANGED <<watched, back, link, carried, late, doubled>>
  BY DEF N!Frame
<1>2. t # Nil /\ Of[back[t]] = t
  BY <1>1 DEF N!Tickers, Asked, N!TypeOK
<1>3. ASSUME ~doubled, NEW s \in watched, printed'[s] # Nil
      PROVE  s \in DOMAIN latest' /\ latest'[s] = printed'[s]
  <2>1. s \in Ticker /\ (Of[s] = Nil \/ back[Of[s]] = s)
        /\ (printed[s] # Nil => s \in DOMAIN latest /\ latest[s] = printed[s])
    BY <1>1, <1>3 DEF Asked, N!AskedIsCarried
  <2>2. CASE Of[s] = t
    <3>1. back[t] = s
      BY <1>2, <2>1, <2>2
    <3>2. s \in DOMAIN latest' /\ latest'[s] = N!Priced(s, price)
      BY <1>1, <1>3, <3>1
    <3>3. CASE price # Nil
      BY <1>1, <2>1, <2>2, <3>2, <3>3 DEF N!Priced
    <3>4. CASE price = Nil
      <4>1. printed'[s] = printed[s]
        BY <1>1, <2>1, <3>4
      <4> QED BY <1>3, <2>1, <3>2, <3>4, <4>1 DEF N!Priced
    <3> QED BY <3>3, <3>4
  <2>3. CASE Of[s] # t
    <3>1. printed'[s] = printed[s] /\ s # back[t]
      BY <1>1, <1>2, <2>1, <2>3
    <3> QED BY <1>1, <1>3, <2>1, <3>1
  <2> QED BY <2>2, <2>3
<1>4. N!AskedIsCarried'
  BY <1>1, <1>3 DEF Asked, N!AskedIsCarried
<1>5. N!TypeOK' /\ printed' = [s \in Ticker |-> printed'[s]]
  BY <1>1 DEF Asked, N!TypeOK
<1> QED BY <1>1, <1>4, <1>5 DEF Asked

\* No step of the source breaks the invariant.
LEMMA SourceStep == ASSUME Asked, [N!Next]_(N!vars) PROVE Asked'
<1>1. CASE UNCHANGED N!vars
  BY <1>1 DEF N!vars, Asked, N!TypeOK, N!AskedIsCarried
<1>2. CASE N!Stop \/ N!Connect \/ N!Refused \/ N!Complains \/ N!Breaks \/ N!Reconnects
  <2>1. /\ UNCHANGED <<watched, back, latest, printed, doubled>>
        /\ \/ carried' = {} /\ late' = {} /\ link' # "open"
           \/ carried' = carried /\ late' = late /\ (link' = "open" <=> link = "open")
    BY <1>2 DEF N!Stop, N!Connect, N!Refused, N!Complains, N!Breaks, N!Reconnects
  <2> QED BY <2>1 DEF Asked, N!TypeOK, N!AskedIsCarried
<1> QED BY <1>1, <1>2, WatchKeeps, LoginKeeps, FrameKeeps DEF N!Next

\* While no ticker is asked for by two names, what is watched is carried and
\* finds its readers by the name they asked for, with the price of the last
\* trade, through reconnects, failed sends and frames of symbols given up
\* (sources.py, hub.py).
THEOREM WatchedIsCarried == N!Spec => [](N!TypeOK /\ N!AskedIsCarried)
<1>1. Asked => N!TypeOK /\ N!AskedIsCarried
  BY DEF Asked
<1> QED BY <1>1, AskedInit, SourceStep, PTL DEF N!Spec

----------------------------------------------------------------------------
(* A turn of the assistant: every call is answered in the next message, and  *)
(* the stream has one end.                                                   *)

\* The browser sends roles, the settings allow some number of rounds.
Dialogues ==
    /\ MaxCalls \in Nat /\ MaxRounds \subseteq Nat
    /\ Histories \subseteq Seq({"user", "assistant"})

CallRecs == [round : Nat, call : Nat]
CallSeqs == Seq(CallRecs)
Messages == [role : {"user", "assistant"}, calls : CallSeqs]
Ends == {"done", "error", "gone"}

\* The calls of a reply are answered in the next message, all at once.
AnsweredAt(i) ==
    messages[i].role = "assistant" /\ messages[i].calls # <<>> =>
       i < Len(messages) /\ messages[i + 1] = [role |-> "user", calls |-> messages[i].calls]

\* While tools run the reply that called them is the last message, what it calls
\* has run or is to run, and all before it are answered.
Turn ==
    /\ budget \in Nat /\ round \in 0 .. budget
    /\ at \in {"asking", "calling", "running", "ended"}
    /\ messages \in Seq(Messages) /\ toRun \in CallSeqs /\ results \in CallSeqs
    /\ at # "ended" => messages # <<>> /\ messages[1].role = "user"
    /\ at = "asking" => toRun = <<>> /\ event.type # "tool" /\ \A i \in DOMAIN messages : AnsweredAt(i)
    /\ at \in {"calling", "running"} =>
         /\ round < budget
         /\ messages[Len(messages)] = [role |-> "assistant", calls |-> results \o toRun]
         /\ \A i \in 1 .. Len(messages) - 1 : AnsweredAt(i)
    /\ at = "running" => toRun # <<>>
    /\ at = "calling" => event.type # "tool"
    /\ at = "ended" <=> event.type \in Ends
    /\ event.after \notin Ends
    /\ event.type = "done" => event.after # "tool" /\ toRun = <<>>

\* What is left of a history starts with the user.
LEMMA StartsWithUser ==
    ASSUME NEW h \in Seq({"user", "assistant"})
    PROVE  /\ A!Normalised(h) \in Seq({"user", "assistant"})
           /\ A!Normalised(h) # <<>> => A!Normalised(h)[1] = "user"
<1> DEFINE Kept(i) == h[i] = "user" /\ \A j \in 1 .. i - 1 : h[j] # "user"
<1>1. A!Normalised(h) = IF \E i \in DOMAIN h : Kept(i)
                          THEN SubSeq(h, CHOOSE i \in DOMAIN h : Kept(i), Len(h)) ELSE <<>>
  BY DEF A!Normalised
<1>2. CASE \E i \in DOMAIN h : Kept(i)
  <2> DEFINE k == CHOOSE i \in DOMAIN h : Kept(i)
  <2>1. k \in DOMAIN h /\ Kept(k)
    BY <1>2
  <2>2. k \in 1 .. Len(h) /\ h[k] = "user"
    BY <2>1
  <2>3. A!Normalised(h) = SubSeq(h, k, Len(h))
    BY <1>1, <1>2
  <2> HIDE DEF k, Kept
  <2> QED BY <2>2, <2>3
<1>3. CASE ~(\E i \in DOMAIN h : Kept(i))
  BY <1>1, <1>3
<1> QED BY <1>2, <1>3

\* The first request carries the history, in which nothing was called.
LEMMA TurnInit == ASSUME Dialogues, A!Init PROVE Turn
<1>1. PICK h \in Histories :
        LET turns == A!Normalised(h)
        IN /\ messages = [i \in DOMAIN turns |-> A!Text(turns[i])]
           /\ at = IF turns = <<>> THEN "ended" ELSE "asking"
           /\ event = [type |-> IF turns = <<>> THEN "error" ELSE "none", after |-> "none"]
  BY DEF A!Init
<1> DEFINE turns == A!Normalised(h)
<1>2. turns \in Seq({"user", "assistant"}) /\ (turns # <<>> => turns[1] = "user")
  BY StartsWithUser DEF Dialogues
<1>3. /\ messages = [i \in DOMAIN turns |-> A!Text(turns[i])]
      /\ at = IF turns = <<>> THEN "ended" ELSE "asking"
      /\ event = [type |-> IF turns = <<>> THEN "error" ELSE "none", after |-> "none"]
  BY <1>1
<1> HIDE DEF turns
<1>4. \A i \in DOMAIN turns : A!Text(turns[i]) \in Messages /\ A!Text(turns[i]).calls = <<>>
                              /\ A!Text(turns[i]).role = turns[i]
  BY <1>2 DEF A!Text, Messages, CallSeqs
<1>5. messages \in Seq(Messages) /\ DOMAIN messages = DOMAIN turns /\ Len(messages) = Len(turns)
  BY <1>2, <1>3, <1>4
<1>6. \A i \in DOMAIN messages : messages[i].calls = <<>> /\ messages[i].role = turns[i]
  BY <1>3, <1>4, <1>5
<1>7. budget \in Nat /\ round = 0 /\ toRun = <<>> /\ results = <<>> /\ <<>> \in CallSeqs
  BY DEF A!Init, Dialogues, CallSeqs
<1>8. CASE turns = <<>>
  BY <1>3, <1>5, <1>7, <1>8 DEF Turn, Ends
<1>9. CASE turns # <<>>
  <2>1. 1 \in DOMAIN turns /\ messages # <<>> /\ messages[1].role = "user"
    BY <1>2, <1>5, <1>6, <1>9
  <2> QED BY <1>3, <1>5, <1>6, <1>7, <1>9, <2>1 DEF Turn, Ends, AnsweredAt
<1> QED BY <1>8, <1>9

\* A reply that calls tools becomes the last message.
LEMMA CalledKeeps == ASSUME Dialogues, Turn, A!Called PROVE Turn'
<1>1. PICK n \in 1 .. MaxCalls : toRun' = [k \in 1 .. n |-> A!Call(k)]
  BY DEF A!Called
<1> DEFINE m == [role |-> "assistant", calls |-> toRun']
<1>2. /\ at = "asking" /\ at' = "calling" /\ round # budget /\ messages' = Append(messages, m)
      /\ results' = <<>> /\ UNCHANGED <<budget, round, event>>
  BY DEF A!Called, A!LastRound
<1>3. \A k \in 1 .. n : A!Call(k) \in CallRecs
  BY DEF A!Call, Turn, CallRecs
<1>4. toRun' \in CallSeqs /\ toRun' # <<>> /\ <<>> \in CallSeqs
  <2>1. n \in Nat \ {0}
    BY DEF Dialogues
  <2>2. toRun' \in [1 .. n -> CallRecs]
    BY <1>1, <1>3
  <2> QED BY <2>1, <2>2 DEF CallSeqs
<1>5. m \in Messages /\ m = [role |-> "assistant", calls |-> results' \o toRun']
  BY <1>2, <1>4 DEF Messages, CallSeqs
<1> HIDE DEF m
<1>6. /\ messages' \in Seq(Messages) /\ Len(messages') = Len(messages) + 1 /\ Len(messages) \in Nat
      /\ \A i \in DOMAIN messages : messages'[i] = messages[i]
      /\ messages'[Len(messages')] = m
  BY <1>2, <1>5 DEF Turn
<1>7. /\ messages # <<>> /\ messages[1].role = "user" /\ \A i \in DOMAIN messages : AnsweredAt(i)
      /\ round \in 0 .. budget /\ budget \in Nat /\ event.type # "tool"
      /\ DOMAIN messages = 1 .. Len(messages)
  BY <1>2 DEF Turn
<1>8. \A i \in 1 .. Len(messages') - 1 : AnsweredAt(i)'
  <2> SUFFICES ASSUME NEW i \in 1 .. Len(messages') - 1 PROVE AnsweredAt(i)'
    OBVIOUS
  <2>1. i \in DOMAIN messages
    BY <1>6, <1>7
  <2>2. i + 1 \in DOMAIN messages \/ i = Len(messages)
    BY <1>6, <1>7, <2>1
  <2> QED BY <1>6, <1>7, <2>1, <2>2 DEF AnsweredAt
<1>9. messages' # <<>> /\ messages'[1].role = "user"
  BY <1>6, <1>7
<1>10. messages'[Len(messages')] = [role |-> "assistant", calls |-> results' \o toRun'] /\ round < budget
  BY <1>2, <1>5, <1>6, <1>7
<1>11. event.type \notin Ends /\ event.after \notin Ends
  BY <1>2 DEF Turn
<1> HIDE DEF Messages, CallSeqs
<1> QED BY <1>2, <1>4, <1>6, <1>7, <1>8, <1>9, <1>10, <1>11 DEF Turn, Ends

\* The head of a sequence moves to the end of another.
LEMMA OneMoved ==
    ASSUME NEW Q, NEW s \in Seq(Q), s # <<>>, NEW r \in Seq(Q)
    PROVE  /\ Tail(s) \in Seq(Q) /\ Append(r, Head(s)) \in Seq(Q)
           /\ Append(r, Head(s)) \o Tail(s) = r \o s
<1>1. Len(s) \in Nat \ {0} /\ Head(s) = s[1] /\ s[1] \in Q /\ Len(r) \in Nat
  OBVIOUS
<1>2. Tail(s) \in Seq(Q) /\ Append(r, Head(s)) \in Seq(Q)
  BY <1>1
<1> DEFINE a == Append(r, Head(s)) \o Tail(s)
           b == r \o s
<1>3. a \in Seq(Q) /\ b \in Seq(Q) /\ Len(a) = Len(b) /\ Len(b) = Len(r) + Len(s)
  BY <1>1, <1>2
<1>4. \A i \in 1 .. Len(r) + Len(s) : a[i] = b[i]
  BY <1>1, <1>2
<1> HIDE DEF a, b
<1>5. a = b
  BY <1>1, <1>3, <1>4, SeqEqual
<1> QED BY <1>2, <1>5 DEF a, b

\* A tool that ends moves its call from the one side to the other.
LEMMA ToolDoneKeeps == ASSUME Dialogues, Turn, A!ToolDone PROVE Turn'
<1>1. /\ at = "running" /\ at' = "calling" /\ event' = [type |-> "tool_done", after |-> event.type]
      /\ results' = Append(results, Head(toRun)) /\ toRun' = Tail(toRun)
      /\ UNCHANGED <<budget, messages, round>>
  BY DEF A!ToolDone, A!Emit
<1>2. /\ toRun # <<>> /\ toRun \in CallSeqs /\ results \in CallSeqs
      /\ messages[Len(messages)] = [role |-> "assistant", calls |-> results \o toRun]
  BY <1>1 DEF Turn
<1>3. toRun' \in CallSeqs /\ results' \in CallSeqs /\ results' \o toRun' = results \o toRun
  BY <1>1, <1>2, OneMoved DEF CallSeqs
<1> QED BY <1>1, <1>2, <1>3 DEF Turn, AnsweredAt, Ends

\* The results go back in one message, which answers the last reply.
LEMMA AskAgainKeeps == ASSUME Dialogues, Turn, A!AskAgain PROVE Turn'
<1> DEFINE m == [role |-> "user", calls |-> results]
<1>1. /\ at = "calling" /\ toRun = <<>> /\ at' = "asking" /\ round' = round + 1
      /\ messages' = Append(messages, m) /\ UNCHANGED <<budget, toRun, results, event>>
  BY DEF A!AskAgain, A!Answered
<1>2. /\ messages \in Seq(Messages) /\ messages # <<>> /\ messages[1].role = "user"
      /\ messages[Len(messages)] = [role |-> "assistant", calls |-> results \o toRun]
      /\ \A i \in 1 .. Len(messages) - 1 : AnsweredAt(i)
      /\ round < budget /\ round \in 0 .. budget /\ budget \in Nat /\ results \in CallSeqs
      /\ event.type # "tool"
  BY <1>1 DEF Turn
<1>3. results \o toRun = results /\ m \in Messages
  BY <1>1, <1>2 DEF CallSeqs, Messages
<1>4. m.calls = results /\ m.role = "user" /\ m = [role |-> "user", calls |-> results]
  OBVIOUS
<1> HIDE DEF m
<1>5. /\ messages' \in Seq(Messages) /\ Len(messages') = Len(messages) + 1 /\ Len(messages) \in Nat \ {0}
      /\ DOMAIN messages = 1 .. Len(messages) /\ DOMAIN messages' = 1 .. Len(messages')
      /\ \A i \in DOMAIN messages : messages'[i] = messages[i]
      /\ messages'[Len(messages')] = m
  BY <1>1, <1>2, <1>3
<1>6. \A i \in DOMAIN messages' : AnsweredAt(i)'
  <2> SUFFICES ASSUME NEW i \in DOMAIN messages' PROVE AnsweredAt(i)'
    OBVIOUS
  <2>1. CASE i = Len(messages')
    BY <1>4, <1>5, <2>1 DEF AnsweredAt
  <2>2. CASE i = Len(messages)
    <3>1. messages'[i].calls = results /\ i + 1 = Len(messages') /\ i < Len(messages')
      BY <1>2, <1>3, <1>5, <2>2
    <3> QED BY <1>4, <1>5, <3>1 DEF AnsweredAt
  <2>3. CASE i < Len(messages)
    <3>1. i \in 1 .. Len(messages) - 1 /\ i + 1 \in DOMAIN messages /\ i \in DOMAIN messages
      BY <1>5, <2>3
    <3> QED BY <1>2, <1>5, <3>1 DEF AnsweredAt
  <2> QED BY <1>5, <2>1, <2>2, <2>3
<1>7. messages' # <<>> /\ messages'[1].role = "user"
  <2>1. 1 \in DOMAIN messages /\ messages' \in Seq(Messages) /\ Len(messages') # 0
    BY <1>5
  <2>2. messages'[1] = messages[1]
    BY <1>5, <2>1
  <2> QED BY <1>2, <2>1, <2>2
<1> QED BY <1>1, <1>2, <1>5, <1>6, <1>7 DEF Turn, Ends

\* No step of a turn breaks the invariant.
LEMMA TurnStep == ASSUME Dialogues, Turn, [A!Next]_(A!vars) PROVE Turn'
<1>1. CASE UNCHANGED A!vars
  BY <1>1 DEF A!vars, Turn, AnsweredAt, Ends
<1>2. CASE A!Words \/ A!Fatal \/ A!Done \/ A!Gone
  BY <1>2 DEF A!Words, A!Fatal, A!Done, A!Gone, A!Emit, Turn, AnsweredAt, Ends
<1>3. CASE A!Tool
  BY <1>3 DEF A!Tool, A!Emit, Turn, AnsweredAt, Ends
<1> QED BY <1>1, <1>2, <1>3, CalledKeeps, ToolDoneKeeps, AskAgainKeeps DEF A!Next

\* A request starts with the user, and answers each call of each reply in the
\* next message; the stream is ended by one event, its last, and "done" never
\* comes over calls that were not answered (service.py).
THEOREM CallsAreAnswered ==
    ASSUME Dialogues
    PROVE  A!Spec => [](A!TypeOK /\ A!EveryCallAnswered)
<1>1. Turn => A!TypeOK /\ A!EveryCallAnswered
  <2> SUFFICES ASSUME Turn PROVE A!TypeOK /\ A!EveryCallAnswered
    OBVIOUS
  <2>1. ASSUME NEW i \in DOMAIN messages, messages[i].role = "assistant"
        PROVE  [messages[i] EXCEPT !.role = "user"] = [role |-> "user", calls |-> messages[i].calls]
    <3>1. messages[i] \in Messages
      BY DEF Turn
    <3> QED BY <3>1 DEF Messages
  <2> QED BY <2>1 DEF Turn, AnsweredAt, Ends, A!TypeOK, A!EveryCallAnswered
<1> QED BY <1>1, TurnInit, TurnStep, PTL DEF A!Spec

----------------------------------------------------------------------------
(* The panels of a study: what was shown of a day stays, and is no older     *)
(* than it may be.                                                           *)

\* Days count from 1, and limits are numbers of sessions.
CalendarDays ==
    /\ Calendars \subseteq SUBSET (Nat \ {0}) /\ Limit \in Nat /\ MaxAge \in Nat

\* Nothing is of a day to come.
Archives ==
    /\ sessions \in SUBSET (Nat \ {0}) /\ day \in Nat \ {0}
    /\ DOMAIN archive \subseteq 1 .. day /\ DOMAIN scored \subseteq 1 .. day
    /\ archive = [d \in DOMAIN archive |-> archive[d]]
    /\ scored = [d \in DOMAIN scored |-> scored[d]]

Past ==
    /\ Archives
    /\ was = [s \in {t \in sessions : t < day} |-> was[s]]
    /\ \A s \in DOMAIN was : P!Shown(s) = was[s]

\* The counting and the sums of the instance are those of the theorems.
LEMMA SameSums ==
    /\ \A S : P!Cardinality(S) = Cardinality(S)
    /\ \A f, S : P!SumFunctionOnSet(f, S) = SumFunctionOnSet(f, S)
  BY DEF P!Cardinality, Cardinality, P!SumFunctionOnSet, SumFunctionOnSet, P!FoldFunctionOnSet,
         FoldFunctionOnSet, P!MapThenFoldSet, MapThenFoldSet

\* The extremes of a set of days.
LEMMA FirstDay ==
    ASSUME NEW S \in SUBSET Nat, S # {}
    PROVE  P!Min(S) \in S /\ \A y \in S : P!Min(S) <= y
<1>1. \E x \in S : \A y \in S : x <= y
  BY LeastNumber
<1> QED BY <1>1 DEF P!Min

LEMMA NewestDay ==
    ASSUME NEW n \in Nat, NEW S \in SUBSET (0 .. n), S # {}
    PROVE  P!Max(S) \in S /\ \A y \in S : P!Max(S) >= y
<1>1. n \in Int /\ S \in SUBSET Int /\ \A x \in S : x <= n
  OBVIOUS
<1>2. \E x \in S : \A y \in S : x >= y
  BY <1>1, GreatestNumber
<1> QED BY <1>2 DEF P!Max

\* An extreme is named by what makes it one.
LEMMA FirstDayIs ==
    ASSUME NEW S \in SUBSET Nat, NEW x \in S, \A y \in S : x <= y
    PROVE  P!Min(S) = x
<1>1. P!Min(S) \in S /\ P!Min(S) <= x
  BY FirstDay
<1>2. x <= P!Min(S) /\ x \in Nat /\ P!Min(S) \in Nat
  BY <1>1
<1> QED BY <1>1, <1>2

\* From its first session on, a span has one session more than after it.
LEMMA SpanFromFirst ==
    ASSUME Archives, NEW d \in Nat, NEW s \in P!Index, NEW f \in P!Index, f <= s, d <= f,
           \A t \in P!Index : d <= t => f <= t
    PROVE  LET after == {t \in P!Index : f < t /\ t <= s}
           IN /\ Cardinality(after) \in Nat
              /\ Cardinality({t \in P!Index : d <= t /\ t <= s}) = Cardinality(after) + 1
<1> DEFINE after == {t \in P!Index : f < t /\ t <= s}
<1>1. P!Index \subseteq 1 .. day
  BY DEF P!Index, Archives
<1>2. IsFiniteSet(P!Index)
  <2>1. IsFiniteSet(1 .. day)
    BY FS_Interval DEF Archives
  <2> QED BY <1>1, <2>1, FS_Subset
<1>3. IsFiniteSet(after) /\ Cardinality(after) \in Nat
  <2>1. after \in SUBSET P!Index
    OBVIOUS
  <2>2. IsFiniteSet(after)
    BY <1>2, <2>1, FS_Subset
  <2> QED BY <2>2, FS_CardinalityType
<1>4. {t \in P!Index : d <= t /\ t <= s} = after \cup {f} /\ f \notin after
  <2>1. f \in Nat /\ s \in Nat /\ \A t \in P!Index : t \in Nat
    BY <1>1 DEF Archives
  <2>2. \A t \in P!Index : (d <= t /\ t <= s) <=> ((f < t /\ t <= s) \/ t = f)
    BY <2>1
  <2>3. f \notin after
    BY <2>1
  <2> DEFINE span == {t \in P!Index : d <= t /\ t <= s}
  <2>4. ASSUME NEW t PROVE t \in span <=> t \in after \/ t = f
    BY <2>2
  <2>5. span = after \cup {f}
    <3> HIDE DEF span, after
    <3> QED BY <2>4
  <2> QED BY <2>3, <2>5
<1>5. Cardinality(after \cup {f}) = Cardinality(after) + 1
  <2> HIDE DEF after
  <2> QED BY <1>3, <1>4, FS_AddElement
<1> QED BY <1>3, <1>4, <1>5

----------------------------------------------------------------------------
(* The panels, as a function of what was there by the day they show.         *)

Known(s) == {d \in DOMAIN archive : archive[d] # Missing /\ d <= s /\ P!Min(P!Index) <= d}
Seen(s) ==
    IF \/ Known(s) = {}
       \/ Cardinality({t \in P!Index : P!Max(Known(s)) <= t /\ t <= s}) > Limit + 1
      THEN Missing ELSE archive[P!Max(Known(s))]

\* A snapshot that is usable and has surfaced by a session was taken by then.
LEMMA ArchivedIsSeen ==
    ASSUME CalendarDays, Archives, NEW s \in P!Index
    PROVE  P!Archived(s) = Seen(s)
<1> DEFINE surfaced == {d \in P!Usable : P!Surfaces(d) <= s}
           first == P!Min(P!Index)
<1>1. /\ P!Index \subseteq 1 .. day /\ P!Index \in SUBSET Nat /\ day \in Nat
      /\ \A t \in P!Index : t \in Nat
  BY DEF P!Index, Archives
<1>2. first \in P!Index /\ \A t \in P!Index : first <= t
  BY <1>1, FirstDay
<1>3. \A d \in DOMAIN archive : d \in 1 .. day
  BY DEF Archives
<1>4. ASSUME NEW d \in 1 .. day, d <= s
      PROVE  /\ P!Surfaces(d) \in P!Index /\ d <= P!Surfaces(d) /\ P!Surfaces(d) <= s
             /\ \A t \in P!Index : d <= t => P!Surfaces(d) <= t
  <2> DEFINE from == {t \in P!Index : t >= d}
  <2>1. from \in SUBSET Nat /\ s \in from /\ P!Surfaces(d) = P!Min(from)
    BY <1>1, <1>4 DEF P!Surfaces
  <2>2. P!Min(from) \in from /\ \A t \in from : P!Min(from) <= t
    <3> HIDE DEF from
    <3> QED BY <2>1, FirstDay
  <2> QED BY <1>1, <1>4, <2>1, <2>2
<1>5. ASSUME NEW d \in surfaced PROVE d \in Known(s)
  <2>1. PICK a, b \in P!Index : a <= d /\ d <= b
    BY DEF P!Usable
  <2>2. d \in DOMAIN archive /\ archive[d] # Missing /\ d \in 1 .. day
    BY <1>3 DEF P!Usable
  <2>3. first <= d
    <3>1. first <= a /\ first \in Nat /\ a \in Nat
      <4> HIDE DEF first
      <4> QED BY <1>1, <1>2
    <3>2. d \in Nat
      BY <2>2
    <3> HIDE DEF first
    <3> QED BY <2>1, <3>1, <3>2
  <2> DEFINE from == {t \in P!Index : t >= d}
  <2>4. P!Min(from) \in from
    <3>1. from \in SUBSET Nat /\ b \in from
      BY <1>1, <2>1, <2>2
    <3> HIDE DEF from
    <3> QED BY <3>1, FirstDay
  <2>5. d <= s
    <3>1. P!Surfaces(d) <= s /\ P!Surfaces(d) = P!Min(from)
      BY DEF P!Surfaces
    <3> DEFINE f == P!Min(from)
    <3>2. f \in P!Index /\ d <= f /\ d \in Nat
      BY <2>2, <2>4
    <3> HIDE DEF f
    <3>3. f \in Nat /\ s \in Nat
      BY <1>1, <3>2
    <3> QED BY <3>1, <3>2, <3>3 DEF f
  <2> QED BY <2>2, <2>3, <2>5 DEF Known
<1>6. ASSUME NEW d \in Known(s) PROVE d \in surfaced
  <2>1. d \in DOMAIN archive /\ archive[d] # Missing /\ d <= s /\ first <= d /\ d \in 1 .. day
    BY <1>3 DEF Known
  <2>2. d \in P!Usable
    BY <1>2, <2>1 DEF P!Usable
  <2> QED BY <1>4, <2>1, <2>2
<1>7. surfaced = Known(s)
  BY <1>5, <1>6
<1>8. CASE Known(s) = {}
  BY <1>7, <1>8 DEF P!Archived, Seen
<1>9. CASE Known(s) # {}
  <2> DEFINE m == P!Max(Known(s))
             f == P!Surfaces(m)
             after == {t \in P!Index : f < t /\ t <= s}
             span == {t \in P!Index : m <= t /\ t <= s}
  <2>1. m \in Known(s)
    <3>1. Known(s) \in SUBSET (0 .. day)
      BY <1>3, <1>1 DEF Known
    <3> QED BY <1>1, <1>9, <3>1, NewestDay
  <2>2. m \in 1 .. day /\ m <= s
    BY <1>3, <2>1 DEF Known
  <2>3. f \in P!Index /\ m <= f /\ f <= s /\ \A t \in P!Index : m <= t => f <= t
    BY <1>4, <2>2
  <2>4. Cardinality(after) \in Nat /\ Cardinality(span) = Cardinality(after) + 1
    <3>1. m \in Nat
      BY <2>2
    <3> HIDE DEF m, f
    <3> QED BY <2>3, <3>1, SpanFromFirst
  <2>5. P!Carried(f, s) <=> Cardinality(after) <= Limit
    BY SameSums DEF P!Carried
  <2>6. P!Archived(s) = IF ~P!Carried(f, s) THEN Missing ELSE archive[m]
    BY <1>7, <1>9 DEF P!Archived
  <2>7. Seen(s) = IF Cardinality(span) > Limit + 1 THEN Missing ELSE archive[m]
    BY <1>9 DEF Seen
  <2>8. Limit \in Nat
    BY DEF CalendarDays
  <2> HIDE DEF m, f, after, span
  <2> QED BY <2>4, <2>5, <2>6, <2>7, <2>8
<1> QED BY <1>8, <1>9

\* The events a session is the first after.
Heard(s) == {d \in DOMAIN scored : d < s /\ \A t \in P!Index : d < t => s <= t}

\* What is told of on a session is what it is the first after.
LEMMA RawIsHeard ==
    ASSUME Archives, NEW s \in P!Index
    PROVE  /\ P!Raw(s) = SumFunctionOnSet(scored, Heard(s))
           /\ IsFiniteSet(Heard(s)) /\ Heard(s) \subseteq DOMAIN scored
<1> DEFINE heard == {d \in DOMAIN scored : P!NextSession(d) # {} /\ s = P!Min(P!NextSession(d))}
<1>1. P!Index \in SUBSET Nat /\ DOMAIN scored \subseteq 1 .. day /\ day \in Nat
  BY DEF P!Index, Archives
<1>2. ASSUME NEW d \in heard PROVE d \in Heard(s)
  <2>1. P!NextSession(d) \in SUBSET Nat /\ P!NextSession(d) # {}
    BY <1>1 DEF P!NextSession
  <2>2. s \in P!NextSession(d) /\ \A y \in P!NextSession(d) : s <= y
    BY <2>1, FirstDay
  <2> QED BY <1>1, <2>2 DEF Heard, P!NextSession
<1>3. ASSUME NEW d \in Heard(s) PROVE d \in heard
  <2>1. /\ d \in DOMAIN scored /\ P!NextSession(d) \in SUBSET Nat /\ s \in P!NextSession(d)
        /\ \A y \in P!NextSession(d) : s <= y
    BY <1>1 DEF Heard, P!NextSession
  <2> QED BY <2>1, FirstDayIs
<1>4. heard = Heard(s)
  BY <1>2, <1>3
<1>5. P!Raw(s) = SumFunctionOnSet(scored, heard)
  BY SameSums DEF P!Raw
<1>6. IsFiniteSet(Heard(s))
  <2>1. IsFiniteSet(1 .. day) /\ Heard(s) \in SUBSET (1 .. day)
    BY <1>1, FS_Interval DEF Heard
  <2> QED BY <2>1, FS_Subset
<1> QED BY <1>4, <1>5, <1>6 DEF Heard

\* An event that is still heard came before, not longer ago than it may be.
LEMMA DecayIsRecent ==
    ASSUME CalendarDays, Archives, NEW s \in P!Index, P!Decayed(s) # P!Nothing
    PROVE  \E d \in DOMAIN scored :
             d < s /\ Cardinality({t \in P!Index : d < t /\ t <= s}) <= MaxAge + 1
<1> DEFINE loud == {t \in P!Index : t <= s /\ P!Raw(t) # 0}
           m == P!Max(loud)
           age == P!Cardinality({t \in P!Index : m < t /\ t <= s})
<1>1. loud # {} /\ ~(age > MaxAge)
  BY DEF P!Decayed
<1>2. m \in loud
  <2>1. loud \in SUBSET (0 .. day) /\ day \in Nat
    BY DEF P!Index, Archives
  <2> HIDE DEF loud
  <2> QED BY <1>1, <2>1, NewestDay
<1>3. m \in P!Index /\ m <= s /\ P!Raw(m) # 0
  BY <1>2
<1>4. Heard(m) # {}
  <2> HIDE DEF m
  <2> QED BY <1>3, RawIsHeard, SumEmpty
<1>5. PICK d \in DOMAIN scored : d < m /\ \A t \in P!Index : d < t => m <= t
  BY <1>4 DEF Heard
<1>6. age = Cardinality({t \in P!Index : m < t /\ t <= s})
  BY SameSums
<1> HIDE DEF m
<1>7. d \in Nat /\ m \in Nat /\ s \in Nat /\ \A t \in P!Index : t \in Nat
  BY <1>3 DEF Archives, P!Index
<1>8. /\ Cardinality({t \in P!Index : m < t /\ t <= s}) \in Nat
      /\ Cardinality({t \in P!Index : d + 1 <= t /\ t <= s}) =
           Cardinality({t \in P!Index : m < t /\ t <= s}) + 1
  <2>1. d + 1 \in Nat /\ d + 1 <= m /\ \A t \in P!Index : d + 1 <= t => m <= t
    BY <1>5, <1>7
  <2> QED BY <1>3, <2>1, SpanFromFirst
<1>9. {t \in P!Index : d + 1 <= t /\ t <= s} = {t \in P!Index : d < t /\ t <= s}
  <2>1. \A t \in P!Index : d + 1 <= t <=> d < t
    BY <1>7
  <2> QED BY <2>1
<1>10. d < s
  BY <1>3, <1>5, <1>7
<1>11. MaxAge \in Nat
  BY DEF CalendarDays
<1> HIDE DEF age
<1>12. Cardinality({t \in P!Index : d < t /\ t <= s}) <= MaxAge + 1
  BY <1>1, <1>6, <1>8, <1>9, <1>11
<1> QED BY <1>10, <1>12

\* The panels are what the events and snapshots by their day make them.
PanelsRight ==
    \A s \in P!Index :
      /\ P!Archived(s) = Seen(s) /\ P!Raw(s) = SumFunctionOnSet(scored, Heard(s))
      /\ IsFiniteSet(Heard(s)) /\ Heard(s) \subseteq DOMAIN scored

\* So they are before and after a step.
LEMMA PanelsAre == CalendarDays => (Archives => PanelsRight)
  BY ArchivedIsSeen, RawIsHeard DEF PanelsRight

----------------------------------------------------------------------------
(* The past stands. *)

\* What a session shows depends on what was there by its day, and on no session
\* after it.
LEMMA ShownStands ==
    ASSUME CalendarDays, Archives, Archives', sessions' = sessions, day' \in {day, day + 1},
           NEW s \in P!Index,
           \A d \in 1 .. s : d \in DOMAIN archive' <=> d \in DOMAIN archive,
           \A d \in DOMAIN archive : d <= s => archive'[d] = archive[d],
           \A d \in 1 .. s - 1 : d \in DOMAIN scored' <=> d \in DOMAIN scored,
           \A d \in DOMAIN scored : d < s => scored'[d] = scored[d]
    PROVE  s \in P!Index' /\ P!Shown(s)' = P!Shown(s)
<1>1. /\ \A t \in P!Index : t \in P!Index' /\ t \in Nat \ {0}
      /\ \A t \in P!Index' : t \in Nat \ {0} /\ (t \in P!Index \/ t > s)
      /\ s \in Nat \ {0} /\ day \in Nat /\ s <= day
  BY DEF P!Index, Archives
<1>2. \A t : t \in P!Index' /\ t <= s <=> t \in P!Index /\ t <= s
  <2> SUFFICES ASSUME NEW t PROVE t \in P!Index' /\ t <= s <=> t \in P!Index /\ t <= s
    OBVIOUS
  <2>1. CASE t \in P!Index
    BY <1>1, <2>1
  <2>2. CASE t \notin P!Index /\ t \in P!Index'
    <3>1. t > s /\ t \in Nat
      BY <1>1, <2>2
    <3> QED BY <1>1, <2>2, <3>1
  <2> QED BY <2>1, <2>2
<1>3. /\ \A d \in DOMAIN archive : d \in Nat \ {0}
      /\ \A d \in DOMAIN archive' : d \in Nat \ {0}
      /\ \A d \in DOMAIN scored : d \in Nat \ {0}
      /\ \A d \in DOMAIN scored' : d \in Nat \ {0}
  BY DEF Archives
<1>4. P!Min(P!Index') = P!Min(P!Index)
  <2> DEFINE first == P!Min(P!Index)
  <2>1. P!Index \in SUBSET Nat /\ P!Index # {} /\ P!Index' \in SUBSET Nat
    BY <1>1
  <2>2. first \in P!Index /\ \A t \in P!Index : first <= t
    BY <2>1, FirstDay
  <2> HIDE DEF first
  <2>3. first \in P!Index' /\ first \in Nat /\ first <= s
    BY <1>1, <2>2
  <2>4. \A t \in P!Index' : first <= t
    <3> SUFFICES ASSUME NEW t \in P!Index' PROVE first <= t
      OBVIOUS
    <3>1. t \in Nat /\ (t \in P!Index \/ t > s)
      BY <1>1
    <3> QED BY <1>1, <2>2, <2>3, <3>1
  <2>5. P!Min(P!Index') = first
    BY <2>1, <2>3, <2>4, FirstDayIs
  <2> QED BY <2>5 DEF first
<1>5. \A m \in Nat : {t \in P!Index' : m <= t /\ t <= s} = {t \in P!Index : m <= t /\ t <= s}
  BY <1>2
<1>6. /\ P!Archived(s) = Seen(s) /\ P!Archived(s)' = Seen(s)'
      /\ \A t \in P!Index :
           /\ P!Raw(t) = SumFunctionOnSet(scored, Heard(t)) /\ P!Raw(t)' = SumFunctionOnSet(scored', Heard(t)')
           /\ IsFiniteSet(Heard(t)) /\ Heard(t) \subseteq DOMAIN scored
  <2>1. (CalendarDays => (Archives => PanelsRight))'
    BY PanelsAre, PTL
  <2>2. PanelsRight /\ PanelsRight'
    BY <2>1, PanelsAre
  <2> QED BY <1>1, <2>2 DEF PanelsRight
<1>7. Seen(s)' = Seen(s)
  <2>1. Known(s)' = Known(s)
    <3>1. \A d : d \in Known(s)' <=> d \in Known(s)
      BY <1>1, <1>3, <1>4 DEF Known
    <3> QED BY <3>1
  <2>2. CASE Known(s) = {}
    BY <2>1, <2>2 DEF Seen
  <2>3. CASE Known(s) # {}
    <3> DEFINE m == P!Max(Known(s))
    <3>1. m \in Known(s)
      <4>1. Known(s) \in SUBSET (0 .. day)
        BY <1>1, <1>3 DEF Known
      <4> QED BY <1>1, <2>3, <4>1, NewestDay
    <3>2. m \in Nat /\ m <= s /\ m \in DOMAIN archive
      BY <1>3, <3>1 DEF Known
    <3>3. P!Max(Known(s)') = m
      BY <2>1
    <3> HIDE DEF m
    <3>4. archive'[m] = archive[m] /\ {t \in P!Index' : m <= t /\ t <= s} = {t \in P!Index : m <= t /\ t <= s}
      BY <1>5, <3>2
    <3>5. Seen(s)' = IF Cardinality({t \in P!Index' : m <= t /\ t <= s}) > Limit + 1 THEN Missing ELSE archive'[m]
      BY <2>1, <2>3, <3>3 DEF Seen
    <3>6. Seen(s) = IF Cardinality({t \in P!Index : m <= t /\ t <= s}) > Limit + 1 THEN Missing ELSE archive[m]
      BY <2>3 DEF Seen, m
    <3> QED BY <3>4, <3>5, <3>6
  <2> QED BY <2>2, <2>3
<1>8. ASSUME NEW t \in P!Index, t <= s
      PROVE  P!Raw(t)' = P!Raw(t)
  <2>1. t \in Nat \ {0} /\ s \in Nat
    BY <1>1
  <2>2. ASSUME NEW d PROVE d \in Heard(t)' <=> d \in Heard(t)
    <3>1. \A u \in P!Index' : u \in P!Index \/ t <= u
      BY <1>1, <1>8, <2>1
    <3>2. \A e \in DOMAIN scored \cup DOMAIN scored' :
            e < t => (e \in DOMAIN scored' <=> e \in DOMAIN scored)
      BY <1>3, <1>8, <2>1
    <3> QED BY <1>1, <3>1, <3>2 DEF Heard
  <2>3. Heard(t)' = Heard(t)
    BY <2>2
  <2>4. \A d \in Heard(t) : scored'[d] = scored[d]
    <3>1. \A d \in Heard(t) : d \in DOMAIN scored /\ d < t /\ d \in Nat
      BY <1>3 DEF Heard
    <3> QED BY <1>8, <2>1, <3>1
  <2>5. SumFunctionOnSet(scored', Heard(t)) = SumFunctionOnSet(scored, Heard(t))
    BY <1>6, <2>4, SumSame
  <2> QED BY <1>6, <2>3, <2>5
<1>9. P!Decayed(s)' = P!Decayed(s)
  <2> DEFINE loud == {t \in P!Index : t <= s /\ P!Raw(t) # 0}
             m == P!Max(loud)
  <2>1. {t \in P!Index' : t <= s /\ P!Raw(t)' # 0} = loud
    BY <1>2, <1>8
  <2>2. CASE loud = {}
    BY <2>1, <2>2 DEF P!Decayed, P!Nothing
  <2>3. CASE loud # {}
    <3>1. PICK k \in loud : k = m
      <4>1. \A t \in loud : t \in 0 .. day
        BY <1>1
      <4> HIDE DEF loud
      <4> QED BY <1>1, <2>3, <4>1, NewestDay
    <3>2. k \in P!Index /\ k <= s
      OBVIOUS
    <3>3. {t \in P!Index' : k < t /\ t <= s} = {t \in P!Index : k < t /\ t <= s}
      BY <1>2
    <3> DEFINE span == {t \in P!Index : k < t /\ t <= s}
               panel(raw) == IF P!Cardinality(span) > MaxAge THEN P!Nothing
                             ELSE [value |-> raw, age |-> P!Cardinality(span)]
    <3>4. P!Decayed(s) = panel(P!Raw(k))
      BY <2>3, <3>1 DEF P!Decayed
    <3>5. P!Decayed(s)' = panel(P!Raw(k)')
      BY <2>1, <2>3, <3>1, <3>3 DEF P!Decayed, P!Nothing
    <3>6. P!Raw(k)' = P!Raw(k)
      BY <1>8, <3>2
    <3> HIDE DEF panel
    <3> QED BY <3>4, <3>5, <3>6
  <2> QED BY <2>2, <2>3
<1> QED BY <1>1, <1>6, <1>7, <1>9 DEF P!Shown

\* No session is over in the first state.
LEMMA PastInit == CalendarDays => (P!Init => Past)
<1> SUFFICES ASSUME CalendarDays, P!Init PROVE Past
  OBVIOUS
<1>1. sessions \in SUBSET (Nat \ {0}) /\ day = 1
  BY DEF CalendarDays, P!Init
<1>2. {t \in sessions : t < day} = {}
  <2>1. \A t \in sessions : t \in Nat \ {0} /\ ~(t < 1)
    BY <1>1
  <2> QED BY <1>1, <2>1
<1>3. /\ DOMAIN archive = {} /\ DOMAIN scored = {} /\ DOMAIN was = {}
      /\ archive = [d \in {} |-> 0] /\ scored = [d \in {} |-> 0] /\ was = [d \in {} |-> P!Nothing]
  BY DEF P!Init
<1>4. archive = [d \in DOMAIN archive |-> archive[d]] /\ scored = [d \in DOMAIN scored |-> scored[d]]
  BY <1>3
<1>5. was = [s \in {} |-> was[s]]
  BY <1>3
<1> QED BY <1>1, <1>2, <1>3, <1>4, <1>5 DEF Past, Archives

\* What a step leaves as it was of the days up to a session that is over is all
\* of what that session shows.
LEMMA PastKept ==
    ASSUME CalendarDays, Past, Archives', sessions' = sessions, day' = day, was' = was,
           \A d \in 1 .. day - 1 : d \in DOMAIN archive' <=> d \in DOMAIN archive,
           \A d \in DOMAIN archive : d < day => archive'[d] = archive[d],
           \A d \in 1 .. day - 1 : d \in DOMAIN scored' <=> d \in DOMAIN scored,
           \A d \in DOMAIN scored : d < day => scored'[d] = scored[d]
    PROVE  Past'
<1>1. /\ Archives /\ day \in Nat /\ sessions \in SUBSET (Nat \ {0})
      /\ DOMAIN archive \subseteq Nat /\ DOMAIN scored \subseteq Nat
      /\ DOMAIN was = {t \in sessions : t < day}
      /\ \A s \in DOMAIN was : P!Shown(s) = was[s]
  BY DEF Past, Archives
<1>2. ASSUME NEW s \in DOMAIN was PROVE P!Shown(s)' = was'[s]
  <2>1. s \in Nat \ {0} /\ s < day /\ s \in P!Index
    <3>1. s \in sessions /\ s < day
      BY <1>1
    <3>2. sessions \in SUBSET (Nat \ {0}) /\ day \in Nat
      BY <1>1
    <3>3. s \in Nat \ {0}
      BY <3>1, <3>2
    <3>4. s <= day
      BY <3>1, <3>2, <3>3
    <3> QED BY <3>1, <3>3, <3>4 DEF P!Index
  <2>2. /\ \A d \in 1 .. s : d \in DOMAIN archive' <=> d \in DOMAIN archive
        /\ \A d \in DOMAIN archive : d <= s => archive'[d] = archive[d]
        /\ \A d \in 1 .. s - 1 : d \in DOMAIN scored' <=> d \in DOMAIN scored
        /\ \A d \in DOMAIN scored : d < s => scored'[d] = scored[d]
    BY <1>1, <2>1
  <2>3. P!Shown(s)' = P!Shown(s)
    BY <1>1, <2>1, <2>2, ShownStands
  <2> QED BY <1>1, <2>3
<1>3. was' = [s \in {t \in sessions' : t < day'} |-> was'[s]]
  BY DEF Past
<1>4. \A s \in DOMAIN was' : P!Shown(s)' = was'[s]
  BY <1>2
<1> QED BY <1>3, <1>4 DEF Past

\* A snapshot is of the day it is taken.
LEMMA PastCapture == CalendarDays => (Past /\ P!Capture => Past')
<1> SUFFICES ASSUME CalendarDays, Past, P!Capture PROVE Past'
  OBVIOUS
<1>1. PICK v \in Values \cup {Missing} :
        archive' = [d \in DOMAIN archive \cup {day} |-> IF d = day THEN v ELSE archive[d]]
  BY DEF P!Capture
<1>2. sessions' = sessions /\ day' = day /\ scored' = scored /\ was' = was
  BY DEF P!Capture
<1>3. DOMAIN archive' = DOMAIN archive \cup {day} /\ day \in Nat \ {0} /\ DOMAIN archive \subseteq 1 .. day
  BY <1>1 DEF Past, Archives
<1>4. \A d \in DOMAIN archive : d < day => archive'[d] = archive[d]
  BY <1>1, <1>3
<1>5. Archives'
  <2>1. archive' = [d \in DOMAIN archive' |-> archive'[d]]
    BY <1>1, <1>3
  <2> QED BY <1>2, <1>3, <2>1 DEF Past, Archives
<1>6. \A d \in 1 .. day - 1 : d \in DOMAIN archive' <=> d \in DOMAIN archive
  BY <1>3
<1> QED BY <1>2, <1>4, <1>5, <1>6, PastKept

\* An event is of the day it happens on.
LEMMA PastEvent == CalendarDays => (Past /\ P!Event => Past')
<1> SUFFICES ASSUME CalendarDays, Past, P!Event PROVE Past'
  OBVIOUS
<1>1. PICK n \in Scores :
        scored' = [d \in DOMAIN scored \cup {day} |-> IF d = day THEN n ELSE scored[d]]
  BY DEF P!Event
<1>2. sessions' = sessions /\ day' = day /\ archive' = archive /\ was' = was
  BY DEF P!Event
<1>3. DOMAIN scored' = DOMAIN scored \cup {day} /\ day \in Nat \ {0} /\ DOMAIN scored \subseteq 1 .. day
  BY <1>1 DEF Past, Archives
<1>4. \A d \in DOMAIN scored : d < day => scored'[d] = scored[d]
  BY <1>1, <1>3
<1>5. Archives'
  <2>1. scored' = [d \in DOMAIN scored' |-> scored'[d]]
    BY <1>1, <1>3
  <2> QED BY <1>2, <1>3, <2>1 DEF Past, Archives
<1>6. \A d \in 1 .. day - 1 : d \in DOMAIN scored' <=> d \in DOMAIN scored
  BY <1>3
<1> QED BY <1>2, <1>4, <1>5, <1>6, PastKept

\* A session that is over goes on showing what it shows.
LEMMA PastNextDay == CalendarDays => (Past /\ P!NextDay => Past')
<1> SUFFICES ASSUME CalendarDays, Past, P!NextDay PROVE Past'
  OBVIOUS
<1>1. /\ sessions' = sessions /\ archive' = archive /\ scored' = scored /\ day' = day + 1
      /\ was' = [d \in P!Index |-> IF d = day THEN P!Shown(day) ELSE was[d]]
  BY DEF P!NextDay
<1>2. /\ Archives /\ day \in Nat \ {0} /\ sessions \in SUBSET (Nat \ {0})
      /\ DOMAIN was = {t \in sessions : t < day}
      /\ \A s \in DOMAIN was : P!Shown(s) = was[s]
  BY DEF Past, Archives
<1>3. Archives'
  <2>1. 1 .. day \subseteq 1 .. day + 1 /\ day + 1 \in Nat \ {0}
    BY <1>2
  <2> QED BY <1>1, <1>2, <2>1 DEF Archives
<1>4. {t \in sessions' : t < day'} = P!Index
  <2>1. \A t \in sessions : t < day + 1 <=> t <= day
    BY <1>2
  <2> QED BY <1>1, <2>1 DEF P!Index
<1>5. was' = [s \in P!Index |-> was'[s]] /\ DOMAIN was' = P!Index
  BY <1>1
<1>6. ASSUME NEW s \in P!Index PROVE P!Shown(s)' = was'[s]
  <2>1. /\ \A d \in 1 .. s : d \in DOMAIN archive' <=> d \in DOMAIN archive
        /\ \A d \in DOMAIN archive : d <= s => archive'[d] = archive[d]
        /\ \A d \in 1 .. s - 1 : d \in DOMAIN scored' <=> d \in DOMAIN scored
        /\ \A d \in DOMAIN scored : d < s => scored'[d] = scored[d]
    BY <1>1
  <2>2. P!Shown(s)' = P!Shown(s)
    BY <1>1, <1>2, <1>3, <2>1, ShownStands
  <2>3. CASE s = day
    BY <1>1, <2>2, <2>3
  <2>4. CASE s # day
    <3>1. s \in DOMAIN was
      BY <1>2, <2>4 DEF P!Index
    <3> QED BY <1>1, <1>2, <2>2, <2>4, <3>1
  <2> QED BY <2>3, <2>4
<1>7. \A s \in DOMAIN was' : P!Shown(s)' = was'[s]
  BY <1>5, <1>6
<1> QED BY <1>3, <1>4, <1>5, <1>7 DEF Past

\* No step breaks the invariant.
LEMMA PastStep == CalendarDays => (Past /\ [P!Next]_P!vars => Past')
<1> SUFFICES ASSUME CalendarDays, Past, [P!Next]_P!vars PROVE Past'
  OBVIOUS
<1>1. CASE P!Capture
  BY <1>1, PastCapture
<1>2. CASE P!Event
  BY <1>2, PastEvent
<1>3. CASE P!NextDay
  BY <1>3, PastNextDay
<1>4. CASE UNCHANGED P!vars
  <2>1. sessions' = sessions /\ day' = day /\ archive' = archive /\ scored' = scored /\ was' = was
    BY <1>4 DEF P!vars
  <2>2. Archives'
    BY <2>1 DEF Past, Archives
  <2> QED BY <2>1, <2>2, PastKept
<1> QED BY <1>1, <1>2, <1>3, <1>4 DEF P!Next

\* What stands is what the property asks of the panels.
LEMMA PastIsShown == CalendarDays => (Past => P!TypeOK /\ P!PastStands)
<1> SUFFICES ASSUME CalendarDays, Past PROVE P!TypeOK /\ P!PastStands
  OBVIOUS
<1>1. Archives
  BY DEF Past
<1>2. P!TypeOK
  BY DEF Past, Archives, P!TypeOK
<1>3. \A s \in DOMAIN was : P!Shown(s) = was[s]
  BY DEF Past
<1>4. ASSUME NEW s \in P!Index
      PROVE  LET known == {d \in DOMAIN archive : archive[d] # Missing /\ d <= s /\ P!Min(P!Index) <= d}
             IN P!Archived(s) =
                  IF known = {} \/ P!Cardinality({t \in P!Index : P!Max(known) <= t /\ t <= s}) > Limit + 1
                  THEN Missing ELSE archive[P!Max(known)]
  BY <1>1, ArchivedIsSeen, SameSums DEF Seen, Known
<1>5. ASSUME NEW s \in P!Index, P!Decayed(s) # P!Nothing
      PROVE  \E d \in DOMAIN scored :
               d < s /\ P!Cardinality({t \in P!Index : d < t /\ t <= s}) <= MaxAge + 1
  BY <1>1, <1>5, DecayIsRecent, SameSums
<1> QED BY <1>2, <1>3, <1>4, <1>5 DEF P!PastStands

\* What a session showed when it was over it shows for good; a snapshot shows
\* from the session it was taken for on, and for no more sessions than it may;
\* an event is heard after its day, and decays (_load_archived_panels,
\* _event_panels and _decay_events).
THEOREM PastStaysShown == ASSUME CalendarDays PROVE P!Spec => [](P!TypeOK /\ P!PastStands)
<1>1. P!Init => Past
  BY PastInit
<1>2. Past /\ [P!Next]_P!vars => Past'
  BY PastStep
<1>3. Past => P!TypeOK /\ P!PastStands
  BY PastIsShown
<1> QED BY <1>1, <1>2, <1>3, PTL DEF P!Spec

----------------------------------------------------------------------------
(* The stop-loss of a study: what it leaves of the weights.                 *)

\* Prices and weights are numbers, and a price can be told from a missing one.
Quotations == StopPrices \subseteq Int /\ Missing \notin StopPrices /\ Weights \subseteq Int

\* What a position has seen: the bars with a price since it was entered.
SeenOf(i) == {k \in SL!Since(i) : bars[k].price # Missing}
\* A price no other of theirs is better than.
BestOf(sign, js, x) ==
    /\ \E j \in js : bars[j].price = x
    /\ \A j \in js : IF sign > 0 THEN bars[j].price <= x ELSE x <= bars[j].price
\* A position whose last bar is i has been stopped by it.
StoppedBy(i) ==
    \E j \in SL!Since(i) :
      /\ bars[j].price # Missing
      /\ SL!Lost(SL!Sign(bars[i].weight), bars[j].price, SL!ReferenceAt(i, j))

Columns ==
    /\ trailing \in BOOLEAN
    /\ bars \in Seq([weight : Weights, price : StopPrices \cup {Missing}])
    /\ out \in Seq(Weights \cup {0}) /\ Len(out) = Len(bars)
    /\ stopped \in BOOLEAN
    /\ prevSign = IF bars = <<>> THEN 0 ELSE SL!Sign(bars[Len(bars)].weight)

\* Prices are missing at the start only.
Begun == \A i, j \in 1 .. Len(bars) : i < j /\ bars[j].price = Missing => bars[i].price = Missing

\* What the loop keeps of the position it is in.
Position ==
    /\ prevSign = 0 => ~stopped
    /\ prevSign # 0 /\ SeenOf(Len(bars)) = {} => extreme = Missing /\ ~stopped
    /\ prevSign # 0 /\ SeenOf(Len(bars)) # {} =>
         /\ extreme # Missing
         /\ \E k \in SeenOf(Len(bars)) :
               entry = bars[k].price /\ \A j \in SeenOf(Len(bars)) : k <= j
         /\ ~stopped => BestOf(prevSign, SeenOf(Len(bars)), extreme)
         /\ stopped <=> StoppedBy(Len(bars))

\* Every weight left is the one the bars demand.
Left ==
    \A i \in 1 .. Len(bars) :
      out[i] = IF bars[i].weight # 0 /\ StoppedBy(i) THEN 0 ELSE bars[i].weight

Stops == Columns /\ Begun /\ Position /\ Left


\* The greatest and the least of some numbers.
LEMMA GreatestIs ==
    ASSUME NEW Q \in SUBSET Int, NEW x \in Q, \A y \in Q : y <= x
    PROVE  SL!Max(Q) = x
<1>1. \E z \in Q : \A y \in Q : z >= y
  OBVIOUS
<1>2. SL!Max(Q) \in Q /\ \A y \in Q : SL!Max(Q) >= y
  BY <1>1 DEF SL!Max
<1>3. SL!Max(Q) \in Int /\ SL!Max(Q) >= x /\ x >= SL!Max(Q) /\ x \in Int
  BY <1>2
<1> QED BY <1>3

LEMMA LeastIs ==
    ASSUME NEW Q \in SUBSET Int, NEW x \in Q, \A y \in Q : x <= y
    PROVE  SL!Min(Q) = x
<1>1. \E z \in Q : \A y \in Q : z <= y
  OBVIOUS
<1>2. SL!Min(Q) \in Q /\ \A y \in Q : SL!Min(Q) <= y
  BY <1>1 DEF SL!Min
<1>3. SL!Min(Q) \in Int /\ SL!Min(Q) <= x /\ x <= SL!Min(Q) /\ x \in Int
  BY <1>2
<1> QED BY <1>3

\* Of two numbers.
LEMMA OfTwo ==
    ASSUME NEW x \in Int, NEW y \in Int, x <= y
    PROVE  /\ SL!Max({x, y}) = y /\ SL!Max({y, x}) = y
           /\ SL!Min({x, y}) = x /\ SL!Min({y, x}) = x
<1>1. {x, y} = {y, x} /\ {x, y} \in SUBSET Int
  OBVIOUS
<1>2. \A z \in {x, y} : x <= z /\ z <= y
  OBVIOUS
<1>3. SL!Max({x, y}) = y
  BY <1>1, <1>2, GreatestIs
<1>4. SL!Min({x, y}) = x
  BY <1>1, <1>2, LeastIs
<1> QED BY <1>1, <1>3, <1>4

LEMMA StopsInit == Quotations => (SL!Init => Stops)
<1> SUFFICES ASSUME Quotations, SL!Init PROVE Stops
  OBVIOUS
<1>1. Len(bars) = 0 /\ Len(out) = 0
  BY DEF SL!Init
<1>2. Columns
  <2>1. bars \in Seq([weight : Weights, price : StopPrices \cup {Missing}]) /\ out \in Seq(Weights \cup {0})
    BY EmptySeq DEF SL!Init
  <2> QED BY <1>1, <2>1 DEF SL!Init, Columns
<1>3. prevSign = 0 /\ ~stopped
  BY DEF SL!Init
<1> QED
  BY <1>1, <1>2, <1>3 DEF Stops, Begun, Position, Left

\* A bar is appended to the columns.
Appended(w, p) == bars' = Append(bars, [weight |-> w, price |-> p])

LEMMA BarsGrow ==
    ASSUME Quotations, Columns, NEW w \in Weights, NEW p \in StopPrices \cup {Missing}, Appended(w, p)
    PROVE  /\ bars' \in Seq([weight : Weights, price : StopPrices \cup {Missing}])
           /\ Len(bars) \in Nat /\ Len(bars') = Len(bars) + 1
           /\ \A i \in 1 .. Len(bars) : bars'[i] = bars[i]
           /\ bars'[Len(bars) + 1].weight = w /\ bars'[Len(bars) + 1].price = p
           /\ \A i \in 1 .. Len(bars) :
                 /\ bars[i].weight \in Int
                 /\ bars[i].price \in StopPrices \cup {Missing}
<1> DEFINE Rows == [weight : Weights, price : StopPrices \cup {Missing}]
           new == [weight |-> w, price |-> p]
<1>1. new \in Rows /\ bars \in Seq(Rows) /\ bars' = Append(bars, new)
  BY DEF Columns, Appended
<1>2. \A i \in 1 .. Len(bars) : bars[i] \in Rows
  BY <1>1, ElementOfSeq
<1> HIDE DEF Rows, new
<1>3. /\ bars' \in Seq(Rows) /\ Len(bars') = Len(bars) + 1
      /\ \A i \in 1 .. Len(bars) : bars'[i] = bars[i]
      /\ bars'[Len(bars) + 1] = new
  BY <1>1, AppendProperties
<1>4. Len(bars) \in Nat
  BY <1>1, LenProperties
<1>5. \A i \in 1 .. Len(bars) : bars[i].weight \in Weights /\ bars[i].price \in StopPrices \cup {Missing}
  BY <1>2 DEF Rows
<1>6. new.weight = w /\ new.price = p
  BY DEF new
<1> QED BY <1>3, <1>4, <1>5, <1>6 DEF Rows, Quotations

\* A set of numbers of bars has a first.
LEMMA FirstOf ==
    ASSUME NEW Q \in SUBSET Nat, Q # {}
    PROVE  SL!Min(Q) \in Q /\ \A y \in Q : SL!Min(Q) <= y
<1>1. PICK x \in Q : \A y \in Q : x <= y
  BY LeastNumber
<1>2. Q \in SUBSET Int
  OBVIOUS
<1> QED BY <1>1, <1>2, LeastIs

\* What a new bar leaves of the bars before it.
LEMMA PastIsKept ==
    ASSUME Quotations, Columns, NEW w \in Weights, NEW p \in StopPrices \cup {Missing}, Appended(w, p),
           trailing' = trailing, NEW i \in 1 .. Len(bars)
    PROVE  /\ SL!Since(i)' = SL!Since(i) /\ SL!Since(i) \subseteq 1 .. i
           /\ SeenOf(i)' = SeenOf(i)
           /\ \A j \in SeenOf(i) : SL!ReferenceAt(i, j)' = SL!ReferenceAt(i, j)
           /\ StoppedBy(i)' <=> StoppedBy(i)
<1>0. /\ Len(bars) \in Nat
      /\ \A k \in 1 .. i : k \in 1 .. Len(bars) /\ bars'[k] = bars[k]
  <2>1. Len(bars) \in Nat /\ \A k \in 1 .. Len(bars) : bars'[k] = bars[k]
    BY BarsGrow
  <2> QED BY <2>1
<1>1. SL!Since(i)' = SL!Since(i) /\ SL!Since(i) \subseteq 1 .. i
  BY <1>0 DEF SL!Since
<1>2. SeenOf(i)' = SeenOf(i)
  BY <1>0, <1>1 DEF SeenOf
<1>3. ASSUME NEW j \in SeenOf(i) PROVE SL!ReferenceAt(i, j)' = SL!ReferenceAt(i, j)
  <2> DEFINE seen == {k \in SL!Since(i) : k <= j /\ bars[k].price # Missing}
  <2>1. seen' = seen
    BY <1>0, <1>1
  <2>2. \A k \in seen : bars'[k] = bars[k]
    BY <1>0, <1>1
  <2>3. seen # {} /\ seen \in SUBSET Nat
    BY <1>0, <1>1 DEF SeenOf
  <2>4. SL!Min(seen) \in seen
    BY <2>3, FirstOf
  <2>5. SL!PricesOf(seen)' = SL!PricesOf(seen)
    BY <2>1, <2>2 DEF SL!PricesOf
  <2>6. bars'[i] = bars[i]
    BY <1>0
  <2> HIDE DEF seen
  <2>7. SL!ReferenceAt(i, j) =
          IF ~trailing THEN bars[SL!Min(seen)].price
          ELSE IF bars[i].weight > 0 THEN SL!Max(SL!PricesOf(seen)) ELSE SL!Min(SL!PricesOf(seen))
    BY DEF seen, SL!ReferenceAt
  <2>8. SL!ReferenceAt(i, j)' =
          IF ~trailing' THEN bars'[SL!Min(seen')].price
          ELSE IF bars'[i].weight > 0 THEN SL!Max(SL!PricesOf(seen)') ELSE SL!Min(SL!PricesOf(seen)')
    BY DEF seen, SL!ReferenceAt
  <2> QED BY <2>1, <2>2, <2>4, <2>5, <2>6, <2>7, <2>8
<1>4. StoppedBy(i) <=> \E j \in SeenOf(i) :
         SL!Lost(SL!Sign(bars[i].weight), bars[j].price, SL!ReferenceAt(i, j))
  BY DEF StoppedBy, SeenOf
<1>5. StoppedBy(i)' <=> \E j \in SeenOf(i)' :
         SL!Lost(SL!Sign(bars'[i].weight), bars'[j].price, SL!ReferenceAt(i, j)')
  BY DEF StoppedBy, SeenOf, SL!Lost
<1>6. \A j \in SeenOf(i) : bars'[j] = bars[j]
  BY <1>0, <1>1 DEF SeenOf
<1>7. bars'[i] = bars[i]
  BY <1>0
<1>8. StoppedBy(i)' <=> StoppedBy(i)
  BY <1>2, <1>3, <1>4, <1>5, <1>6, <1>7
<1> QED BY <1>1, <1>2, <1>3, <1>8

\* The bars of the position that the new bar is of.
LEMMA RunGoesOn ==
    ASSUME Quotations, Columns, NEW w \in Weights, NEW p \in StopPrices \cup {Missing}, Appended(w, p),
           w # 0, NEW new, new = Len(bars) + 1
    PROVE  /\ SL!Enters(w) => SL!Since(new)' = {new}
           /\ ~SL!Enters(w) => /\ bars # <<>> /\ prevSign = SL!Sign(bars[Len(bars)].weight)
                               /\ SL!Since(new)' = SL!Since(Len(bars)) \cup {new}
<1>1. /\ Len(bars) \in Nat /\ Len(bars') = new
      /\ \A i \in 1 .. Len(bars) : bars'[i] = bars[i]
      /\ bars'[new].weight = w
  BY BarsGrow
<1>2. SL!Sign(w) # 0
  BY DEF SL!Sign, Quotations
<1>3. SL!Since(new)' = {j \in 1 .. new : \A k \in j .. new : SL!Sign(bars'[k].weight) = SL!Sign(w)}
  BY <1>1 DEF SL!Since, SL!Sign
<1>4. CASE bars = <<>>
  <2>1. Len(bars) = 0 /\ prevSign = 0
    BY <1>4 DEF Columns
  <2>2. SL!Since(new)' = {new}
    BY <1>1, <1>3, <2>1
  <2> QED BY <1>2, <2>1, <2>2 DEF SL!Enters
<1>5. CASE bars # <<>>
  <2>1. prevSign = SL!Sign(bars[Len(bars)].weight)
    BY <1>5 DEF Columns
  <2>2. Len(bars) \in 1 .. Len(bars)
    BY <1>1, <1>5, EmptySeq DEF Columns
  <2>3. ASSUME SL!Enters(w) PROVE SL!Since(new)' = {new}
    <3>1. SL!Sign(bars'[Len(bars)].weight) # SL!Sign(w)
      BY <1>1, <2>1, <2>2, <2>3 DEF SL!Enters
    <3>2. \A j \in 1 .. new : j # new => Len(bars) \in j .. new
      BY <1>1
    <3>3. new \in SL!Since(new)'
      BY <1>1, <1>3
    <3> QED BY <1>3, <3>1, <3>2, <3>3
  <2>4. ASSUME ~SL!Enters(w) PROVE SL!Since(new)' = SL!Since(Len(bars)) \cup {new}
    <3>1. SL!Sign(bars[Len(bars)].weight) = SL!Sign(w)
      BY <2>1, <2>4 DEF SL!Enters
    <3>2. SL!Since(Len(bars)) =
            {j \in 1 .. Len(bars) : \A k \in j .. Len(bars) : SL!Sign(bars[k].weight) = SL!Sign(w)}
      BY <3>1 DEF SL!Since
    <3>3. \A j \in 1 .. Len(bars) :
            (\A k \in j .. new : SL!Sign(bars'[k].weight) = SL!Sign(w))
              <=> \A k \in j .. Len(bars) : SL!Sign(bars[k].weight) = SL!Sign(w)
      <4> TAKE j \in 1 .. Len(bars)
      <4>1. j .. new = (j .. Len(bars)) \cup {new} /\ \A k \in j .. Len(bars) : k \in 1 .. Len(bars)
        BY <1>1
      <4> QED BY <1>1, <4>1
    <3>4. new \in SL!Since(new)'
      BY <1>1, <1>3
    <3>5. 1 .. new = (1 .. Len(bars)) \cup {new}
      BY <1>1
    <3> QED BY <1>3, <3>2, <3>3, <3>4, <3>5
  <2> QED BY <1>5, <2>1, <2>3, <2>4
<1> QED BY <1>4, <1>5

\* What a bar does to what the loop keeps, as SL!Bar says it.
Looped(w, p) ==
    LET sign == SL!Sign(w) IN
    /\ entry' = IF SL!Enters(w) \/ (sign # 0 /\ extreme = Missing) THEN p ELSE entry
    /\ extreme' = IF SL!Enters(w) THEN p
                  ELSE IF sign # 0 /\ p # Missing /\ ~stopped THEN SL!Reference(sign, p)
                  ELSE extreme
    /\ stopped' = ((stopped /\ ~SL!Enters(w)) \/ (sign # 0 /\ p # Missing
                     /\ SL!Lost(sign, p, IF trailing THEN extreme' ELSE entry')))
    /\ prevSign' = sign

LEMMA MissingFirst ==
    ASSUME Quotations, Columns, Begun, NEW w \in Weights, NEW p \in StopPrices \cup {Missing}, Appended(w, p),
           p = Missing => \A i \in DOMAIN bars : bars[i].price = Missing
    PROVE  Begun'
<1>1. /\ Len(bars) \in Nat /\ Len(bars') = Len(bars) + 1
      /\ \A i \in 1 .. Len(bars) : bars'[i] = bars[i]
      /\ bars'[Len(bars) + 1].price = p
  BY BarsGrow
<1>2. DOMAIN bars = 1 .. Len(bars)
  BY DEF Columns
<1> QED BY <1>1, <1>2 DEF Begun

\* A reference after a step, and prices after it, of a given set of bars.
LEMMA ReferenceIs ==
    ASSUME NEW n, NEW j, NEW seen, seen = {k \in SL!Since(n)' : k <= j /\ bars'[k].price # Missing}
    PROVE  SL!ReferenceAt(n, j)' =
              IF ~trailing' THEN bars'[SL!Min(seen)].price
              ELSE IF bars'[n].weight > 0 THEN SL!Max({bars'[k].price : k \in seen})
                   ELSE SL!Min({bars'[k].price : k \in seen})
<1>1. SL!PricesOf(seen)' = {bars'[k].price : k \in seen}
  BY DEF SL!PricesOf
<1>2. SL!ReferenceAt(n, j)' =
              IF ~trailing' THEN bars'[SL!Min(seen)].price
              ELSE IF bars'[n].weight > 0 THEN SL!Max(SL!PricesOf(seen)') ELSE SL!Min(SL!PricesOf(seen)')
  BY DEF SL!ReferenceAt
<1> QED BY <1>1, <1>2

\* A position of one bar with a price: the bar is its own reference.
LEMMA FirstPrice ==
    ASSUME NEW n \in Nat, NEW x \in Int, SeenOf(n)' = {n}, bars'[n].price = x
    PROVE  SL!ReferenceAt(n, n)' = x
<1>1. {n} = {k \in SL!Since(n)' : k <= n /\ bars'[k].price # Missing}
  BY DEF SeenOf
<1>2. SL!Min({n}) = n
  BY LeastIs
<1>3. {bars'[k].price : k \in {n}} = {x}
  OBVIOUS
<1>4. SL!Max({x}) = x /\ SL!Min({x}) = x
  BY LeastIs, GreatestIs
<1> QED BY <1>1, <1>2, <1>3, <1>4, ReferenceIs

\* A position that goes on: its earlier bars have the references they had, and
\* the new one has the first or the best of the prices seen.
LEMMA NextPrice ==
    ASSUME Quotations, Columns, NEW w \in Weights, w # 0, NEW p \in StopPrices, Appended(w, p),
           trailing' = trailing, NEW n, n = Len(bars) + 1, ~SL!Enters(w)
    PROVE  /\ \A j \in SeenOf(Len(bars)) : SL!ReferenceAt(n, j)' = SL!ReferenceAt(Len(bars), j)
           /\ \A k \in SeenOf(Len(bars)) :
                 (\A j \in SeenOf(Len(bars)) : k <= j) /\ ~trailing
                   => SL!ReferenceAt(n, n)' = bars[k].price
           /\ \A x \in Int :
                 BestOf(SL!Sign(w), SeenOf(Len(bars)), x) /\ trailing
                   => SL!ReferenceAt(n, n)' = SL!Best(SL!Sign(w), x, p)
<1>1. /\ Len(bars) \in Nat /\ Len(bars') = n
      /\ \A i \in 1 .. Len(bars) : bars'[i] = bars[i] /\ bars[i].weight \in Int
      /\ bars'[n].weight = w /\ bars'[n].price = p
  BY BarsGrow
<1>2. /\ bars # <<>> /\ SL!Sign(bars[Len(bars)].weight) = SL!Sign(w)
      /\ SL!Since(n)' = SL!Since(Len(bars)) \cup {n}
  <2>1. SL!Sign(w) = prevSign
    BY DEF SL!Enters
  <2> QED BY <2>1, RunGoesOn
<1>3. Len(bars) \in 1 .. Len(bars)
  BY <1>1, <1>2, EmptySeq DEF Columns
<1>4. bars[Len(bars)].weight > 0 <=> w > 0
  BY <1>1, <1>2, <1>3 DEF SL!Sign, Quotations
<1>5. SL!Since(Len(bars)) \subseteq 1 .. Len(bars)
  BY DEF SL!Since
<1>6. p # Missing /\ p \in Int /\ w \in Int
  BY DEF Quotations
<1>7. ASSUME NEW j \in SeenOf(Len(bars))
      PROVE  SL!ReferenceAt(n, j)' = SL!ReferenceAt(Len(bars), j)
  <2> DEFINE seen == {k \in SL!Since(Len(bars)) : k <= j /\ bars[k].price # Missing}
  <2> PICK then : then = {k \in SL!Since(n)' : k <= j /\ bars'[k].price # Missing}
    OBVIOUS
  <2>1. j \in 1 .. Len(bars) /\ j \in seen
    BY <1>1, <1>5 DEF SeenOf
  <2>2. then = seen
    BY <1>1, <1>2, <1>5, <2>1
  <2>3. seen # {} /\ seen \in SUBSET Nat /\ \A k \in seen : bars'[k] = bars[k]
    BY <1>1, <1>5, <2>1
  <2>4. SL!Min(seen) \in seen
    BY <2>3, FirstOf
  <2>5. {bars'[k].price : k \in then} = SL!PricesOf(seen)
    BY <2>2, <2>3 DEF SL!PricesOf
  <2> HIDE DEF seen
  <2>6. SL!ReferenceAt(Len(bars), j) =
          IF ~trailing THEN bars[SL!Min(seen)].price
          ELSE IF bars[Len(bars)].weight > 0 THEN SL!Max(SL!PricesOf(seen))
               ELSE SL!Min(SL!PricesOf(seen))
    BY DEF seen, SL!ReferenceAt
  <2>7. SL!ReferenceAt(n, j)' =
          IF ~trailing' THEN bars'[SL!Min(then)].price
          ELSE IF bars'[n].weight > 0 THEN SL!Max({bars'[k].price : k \in then})
               ELSE SL!Min({bars'[k].price : k \in then})
    BY ReferenceIs
  <2>8. bars'[SL!Min(then)].price = bars[SL!Min(seen)].price
    BY <2>2, <2>3, <2>4
  <2>9. bars'[n].weight > 0 <=> bars[Len(bars)].weight > 0
    BY <1>1, <1>4
  <2>10. CASE trailing
    BY <2>5, <2>6, <2>7, <2>9, <2>10
  <2>11. CASE ~trailing
    BY <2>6, <2>7, <2>8, <2>11
  <2> QED BY <2>10, <2>11
<1> DEFINE all == SeenOf(Len(bars))
<1> PICK now : now = {k \in SL!Since(n)' : k <= n /\ bars'[k].price # Missing}
  OBVIOUS
<1>8. all \subseteq 1 .. Len(bars) /\ now = all \cup {n}
  BY <1>1, <1>2, <1>5, <1>6 DEF SeenOf
<1>9. SL!ReferenceAt(n, n)' =
          IF ~trailing' THEN bars'[SL!Min(now)].price
          ELSE IF w > 0 THEN SL!Max({bars'[k].price : k \in now}) ELSE SL!Min({bars'[k].price : k \in now})
  <2>1. SL!ReferenceAt(n, n)' =
          IF ~trailing' THEN bars'[SL!Min(now)].price
          ELSE IF bars'[n].weight > 0 THEN SL!Max({bars'[k].price : k \in now})
               ELSE SL!Min({bars'[k].price : k \in now})
    BY ONLY ReferenceIs, now = {k \in SL!Since(n)' : k <= n /\ bars'[k].price # Missing}
  <2> QED BY <1>1, <2>1
<1>10. ASSUME NEW k \in all, \A j \in all : k <= j, ~trailing
       PROVE  SL!ReferenceAt(n, n)' = bars[k].price
  <2>1. k \in now /\ now \in SUBSET Int /\ \A j \in now : k <= j
    BY <1>1, <1>8, <1>10
  <2>2. SL!Min(now) = k
    BY <2>1, LeastIs
  <2>3. bars'[k] = bars[k]
    BY <1>1, <1>8
  <2> QED BY <1>9, <1>10, <2>2, <2>3
<1>11. ASSUME NEW x \in Int, BestOf(SL!Sign(w), all, x), trailing
       PROVE  SL!ReferenceAt(n, n)' = SL!Best(SL!Sign(w), x, p)
  <2> DEFINE prices == {bars'[k].price : k \in now}
  <2>1. \A k \in all : bars'[k].price = bars[k].price /\ bars[k].price # Missing
    BY <1>1, <1>8 DEF SeenOf
  <2>2. prices = {bars[k].price : k \in all} \cup {p}
    BY <1>1, <1>8, <2>1
  <2>3. \A k \in all : bars[k].price \in Int
    <3>1. \A k \in 1 .. Len(bars) : bars[k].price \in StopPrices \cup {Missing}
      BY BarsGrow
    <3> QED BY <1>8, <2>1, <3>1 DEF Quotations
  <2> HIDE DEF prices
  <2>4. prices \subseteq Int /\ x \in prices /\ p \in prices
    BY <1>6, <1>11, <2>2, <2>3 DEF BestOf
  <2>5. CASE w > 0
    <3>1. SL!Sign(w) > 0
      BY <1>6, <2>5 DEF SL!Sign
    <3>2. SL!Best(SL!Sign(w), x, p) = SL!Max({x, p})
      BY <3>1 DEF SL!Best
    <3>3. \A y \in prices : y <= x \/ y = p
      BY <1>11, <2>2, <3>1 DEF BestOf
    <3>4. CASE p <= x
      <4>1. SL!Max({x, p}) = x
        BY <1>6, <3>4, OfTwo
      <4>2. SL!Max(prices) = x
        BY <1>6, <2>4, <3>3, <3>4, GreatestIs
      <4> QED BY <1>9, <1>11, <2>5, <3>2, <4>1, <4>2 DEF prices
    <3>5. CASE x < p
      <4>1. SL!Max({x, p}) = p
        BY <1>6, <3>5, OfTwo
      <4>2. \A y \in prices : y <= p
        BY <1>6, <2>4, <3>3, <3>5
      <4>3. SL!Max(prices) = p
        BY <1>6, <2>4, <4>2, GreatestIs
      <4> QED BY <1>9, <1>11, <2>5, <3>2, <4>1, <4>3 DEF prices
    <3> QED BY <1>6, <3>4, <3>5
  <2>6. CASE ~(w > 0)
    <3>1. ~(SL!Sign(w) > 0)
      BY <1>6, <2>6 DEF SL!Sign
    <3>2. SL!Best(SL!Sign(w), x, p) = SL!Min({x, p})
      BY <3>1 DEF SL!Best
    <3>3. \A y \in prices : x <= y \/ y = p
      BY <1>11, <2>2, <3>1 DEF BestOf
    <3>4. CASE x <= p
      <4>1. SL!Min({x, p}) = x
        BY <1>6, <3>4, OfTwo
      <4>2. SL!Min(prices) = x
        BY <1>6, <2>4, <3>3, <3>4, LeastIs
      <4> QED BY <1>9, <1>11, <2>6, <3>2, <4>1, <4>2 DEF prices
    <3>5. CASE p <= x
      <4>1. SL!Min({x, p}) = p
        BY <1>6, <3>5, OfTwo
      <4>2. \A y \in prices : p <= y
        BY <1>6, <2>4, <3>3, <3>5
      <4>3. SL!Min(prices) = p
        BY <1>6, <2>4, <4>2, LeastIs
      <4> QED BY <1>9, <1>11, <2>6, <3>2, <4>1, <4>3 DEF prices
    <3> QED BY <1>6, <3>4, <3>5
  <2> QED BY <2>5, <2>6
<1> QED BY <1>7, <1>10, <1>11

\* What is to be shown of the position of a bar: of none, of one that has seen
\* no price yet, and of one that has.
LEMMA PositionNone ==
    ASSUME prevSign' = 0, ~stopped' PROVE Position'
  BY DEF Position

LEMMA PositionUnseen ==
    ASSUME NEW n, Len(bars') = n, SeenOf(n)' = {}, extreme' = Missing, ~stopped'
    PROVE  Position'
<1>1. SeenOf(Len(bars))' = SeenOf(n)'
  BY DEF SeenOf, SL!Since
<1> QED BY <1>1 DEF Position

LEMMA PositionSeen ==
    ASSUME NEW n, Len(bars') = n, NEW k \in SeenOf(n)', extreme' # Missing,
           entry' = bars'[k].price, \A j \in SeenOf(n)' : k <= j,
           prevSign' # 0,
           ~stopped' => /\ \E j \in SeenOf(n)' : bars'[j].price = extreme'
                        /\ \A j \in SeenOf(n)' : IF prevSign' > 0 THEN bars'[j].price <= extreme'
                                                  ELSE extreme' <= bars'[j].price,
           stopped' <=> StoppedBy(n)'
    PROVE  Position'
<1>1. SeenOf(Len(bars))' = SeenOf(n)' /\ StoppedBy(Len(bars))' = StoppedBy(n)'
  BY DEF SeenOf, StoppedBy, SL!Since
<1>2. \E i \in SeenOf(n)' : entry' = bars'[i].price /\ \A j \in SeenOf(n)' : i <= j
  OBVIOUS
<1>3. ~stopped' => BestOf(prevSign, SeenOf(Len(bars)), extreme)'
  BY <1>1 DEF BestOf
<1>4. SeenOf(n)' # {}
  OBVIOUS
<1> QED BY <1>1, <1>2, <1>3, <1>4 DEF Position

LEMMA PositionKept ==
    ASSUME Quotations, Columns, Begun, Position,
           NEW w \in Weights, NEW p \in StopPrices \cup {Missing}, Appended(w, p), Looped(w, p),
           p = Missing => \A i \in DOMAIN bars : bars[i].price = Missing,
           trailing' = trailing, NEW n, n = Len(bars) + 1
    PROVE  Position'
<1>1. /\ Len(bars) \in Nat /\ Len(bars') = n
      /\ \A i \in 1 .. Len(bars) : bars'[i] = bars[i]
      /\ bars'[n].weight = w /\ bars'[n].price = p
  BY BarsGrow
<1>2. /\ prevSign' = SL!Sign(w) /\ w \in Int /\ p \in Int \cup {Missing} /\ n \in Nat
      /\ Missing \notin StopPrices
  BY <1>1 DEF Looped, Quotations
<1>3. SL!Sign(w) = 0 <=> w = 0
  BY <1>2 DEF SL!Sign
<1>5. StoppedBy(n)' <=> \E j \in SeenOf(n)' :
         SL!Lost(SL!Sign(w), bars'[j].price, SL!ReferenceAt(n, j)')
  BY <1>1 DEF StoppedBy, SeenOf, SL!Lost
<1>6. CASE w = 0
  <2>1. ~stopped'
    BY <1>3, <1>6 DEF Looped, Position, SL!Enters
  <2> QED BY <1>2, <1>3, <1>6, <2>1, PositionNone
<1>7. CASE w # 0 /\ SL!Enters(w)
  <2>1. SL!Since(n)' = {n}
    BY <1>7, RunGoesOn
  <2>2. entry' = p /\ extreme' = p
    BY <1>7 DEF Looped
  <2>3. CASE p = Missing
    <3>1. SeenOf(n)' = {}
      BY <1>1, <2>1, <2>3 DEF SeenOf
    <3>2. ~stopped'
      BY <1>7, <2>3 DEF Looped
    <3> QED BY <1>1, <2>2, <2>3, <3>1, <3>2, PositionUnseen
  <2>4. CASE p # Missing
    <3>1. SeenOf(n)' = {n} /\ p \in Int
      BY <1>1, <1>2, <2>1, <2>4 DEF SeenOf
    <3>2. SL!ReferenceAt(n, n)' = p
      BY <1>1, <1>2, <3>1, FirstPrice
    <3>3. stopped' <=> SL!Lost(SL!Sign(w), p, p)
      BY <1>3, <1>7, <2>2, <2>4 DEF Looped
    <3>4. stopped' <=> StoppedBy(n)'
      BY <1>1, <1>5, <3>1, <3>2, <3>3
    <3>7. n \in SeenOf(n)' /\ prevSign' # 0 /\ extreme' # Missing /\ entry' = bars'[n].price
      BY <1>1, <1>2, <1>3, <1>7, <2>2, <2>4, <3>1
    <3>8. \A j \in SeenOf(n)' : n <= j
      BY <1>2, <3>1
    <3>9. /\ \E j \in SeenOf(n)' : bars'[j].price = extreme'
          /\ \A j \in SeenOf(n)' : IF prevSign' > 0 THEN bars'[j].price <= extreme'
                                    ELSE extreme' <= bars'[j].price
      BY <1>1, <2>2, <3>1
    <3> QED BY ONLY <1>1, <3>4, <3>7, <3>8, <3>9, PositionSeen
  <2> QED BY <2>3, <2>4
<1>8. CASE w # 0 /\ ~SL!Enters(w)
  <2> DEFINE all == SeenOf(Len(bars))
  <2>1. /\ bars # <<>> /\ prevSign = SL!Sign(bars[Len(bars)].weight)
        /\ SL!Since(n)' = SL!Since(Len(bars)) \cup {n} /\ prevSign = SL!Sign(w)
    BY <1>8, RunGoesOn DEF SL!Enters
  <2>2. all \subseteq 1 .. Len(bars) /\ \A j \in all : bars'[j] = bars[j] /\ bars[j].price \in Int
    <3>1. all \subseteq 1 .. Len(bars) /\ \A j \in all : bars[j].price # Missing
      BY DEF SeenOf, SL!Since
    <3>2. \A i \in 1 .. Len(bars) : bars[i].price \in StopPrices \cup {Missing}
      BY BarsGrow
    <3> QED BY <1>1, <3>1, <3>2 DEF Quotations
  <2>3. CASE p = Missing
    <3>1. all = {}
      <4>1. \A i \in 1 .. Len(bars) : bars[i].price = Missing
        BY <2>3 DEF Columns
      <4> QED BY <4>1 DEF SeenOf, SL!Since
    <3>2. SeenOf(n)' = {}
      BY <1>1, <2>1, <2>3, <3>1 DEF SeenOf, SL!Since
    <3>3. extreme = Missing /\ ~stopped
      BY <1>3, <1>8, <2>1, <3>1 DEF Position
    <3>4. extreme' = Missing /\ ~stopped'
      BY <1>8, <2>3, <3>3 DEF Looped
    <3> QED BY <1>1, <3>2, <3>4, PositionUnseen
  <2>4. CASE p # Missing /\ all = {}
    <3>1. SeenOf(n)' = {n} /\ p \in Int
      BY <1>1, <1>2, <2>1, <2>4 DEF SeenOf, SL!Since
    <3>2. extreme = Missing /\ ~stopped
      BY <1>3, <1>8, <2>1, <2>4 DEF Position
    <3>3. entry' = p /\ extreme' = p
      BY <1>3, <1>8, <2>4, <3>2 DEF Looped, SL!Reference
    <3>4. SL!ReferenceAt(n, n)' = p
      BY <1>1, <1>2, <3>1, FirstPrice
    <3>5. stopped' <=> SL!Lost(SL!Sign(w), p, p)
      BY <1>3, <1>8, <2>4, <3>2, <3>3 DEF Looped
    <3>6. stopped' <=> StoppedBy(n)'
      BY <1>1, <1>5, <3>1, <3>4, <3>5
    <3>7. n \in SeenOf(n)' /\ prevSign' # 0 /\ extreme' # Missing /\ entry' = bars'[n].price
      BY <1>1, <1>2, <1>3, <1>8, <2>4, <3>3, <3>1
    <3>8. \A j \in SeenOf(n)' : n <= j
      BY <1>2, <3>1
    <3>9. /\ \E j \in SeenOf(n)' : bars'[j].price = extreme'
          /\ \A j \in SeenOf(n)' : IF prevSign' > 0 THEN bars'[j].price <= extreme'
                                    ELSE extreme' <= bars'[j].price
      BY <1>1, <3>3, <3>1
    <3> QED BY ONLY <1>1, <3>6, <3>7, <3>8, <3>9, PositionSeen
  <2>5. CASE p # Missing /\ all # {}
    <3>1. p \in StopPrices /\ p \in Int
      BY <1>2, <2>5
    <3>2. SeenOf(n)' = all \cup {n}
      BY <1>1, <2>1, <2>2, <2>5 DEF SeenOf, SL!Since
    <3>3. /\ extreme # Missing
          /\ \E k \in all : entry = bars[k].price /\ \A j \in all : k <= j
          /\ ~stopped => BestOf(SL!Sign(w), all, extreme)
          /\ stopped <=> StoppedBy(Len(bars))
      BY <1>3, <1>8, <2>1, <2>5 DEF Position
    <3>4. PICK k \in all : entry = bars[k].price /\ \A j \in all : k <= j
      BY <3>3
    <3>5. entry' = entry
      BY <1>8, <3>3 DEF Looped
    <3>6. \A j \in all : SL!ReferenceAt(n, j)' = SL!ReferenceAt(Len(bars), j)
      BY <1>8, <3>1, NextPrice
    <3>7. StoppedBy(Len(bars)) <=> \E j \in all :
             SL!Lost(SL!Sign(w), bars[j].price, SL!ReferenceAt(Len(bars), j))
      BY <2>1 DEF StoppedBy, SeenOf
    <3>8. StoppedBy(n)' <=> \/ StoppedBy(Len(bars))
                            \/ SL!Lost(SL!Sign(w), p, SL!ReferenceAt(n, n)')
      BY <1>1, <1>5, <2>2, <3>2, <3>6, <3>7
    <3>9. k \in SeenOf(n)' /\ entry' = bars'[k].price /\ \A j \in SeenOf(n)' : k <= j
      BY <1>1, <2>2, <3>2, <3>4, <3>5
    <3>10. CASE stopped
      <4>1. extreme' = extreme /\ stopped'
        BY <1>8, <3>10 DEF Looped
      <4>2. stopped' <=> StoppedBy(n)'
        BY <3>3, <3>8, <3>10, <4>1
      <4>3. prevSign' # 0 /\ extreme' # Missing /\ ~(~stopped')
        BY <1>2, <1>3, <1>8, <3>3, <4>1
      <4> QED BY ONLY <1>1, <3>9, <4>2, <4>3, PositionSeen
    <3>11. CASE ~stopped
      <4>1. BestOf(SL!Sign(w), all, extreme) /\ extreme \in Int
        BY <2>2, <3>3, <3>11 DEF BestOf
      <4>2. extreme' = SL!Best(SL!Sign(w), extreme, p)
        BY <1>3, <1>8, <2>5, <3>3, <3>11 DEF Looped, SL!Reference
      <4>3. SL!ReferenceAt(n, n)' = IF trailing THEN extreme' ELSE entry'
        <5>1. CASE trailing
          BY <1>8, <3>1, <4>1, <4>2, <5>1, NextPrice
        <5>2. CASE ~trailing
          BY <1>8, <3>1, <3>4, <3>5, <5>2, NextPrice
        <5> QED BY <5>1, <5>2
      <4>4. stopped' <=> StoppedBy(n)'
        <5>1. stopped' <=> SL!Lost(SL!Sign(w), p, IF trailing THEN extreme' ELSE entry')
          BY <1>3, <1>8, <2>5, <3>11 DEF Looped
        <5> QED BY <3>3, <3>8, <3>11, <4>3, <5>1
      <4>5. /\ extreme' \in {extreme, p}
            /\ IF SL!Sign(w) > 0 THEN extreme <= extreme' /\ p <= extreme'
               ELSE extreme' <= extreme /\ extreme' <= p
        <5>1. CASE extreme <= p
          <6>1. SL!Max({extreme, p}) = p /\ SL!Min({extreme, p}) = extreme
            BY <3>1, <4>1, <5>1, OfTwo
          <6>2. extreme' = IF SL!Sign(w) > 0 THEN p ELSE extreme
            BY <4>2, <6>1 DEF SL!Best
          <6> QED BY <3>1, <4>1, <5>1, <6>2
        <5>2. CASE p <= extreme
          <6>1. SL!Max({extreme, p}) = extreme /\ SL!Min({extreme, p}) = p
            BY <3>1, <4>1, <5>2, OfTwo
          <6>2. extreme' = IF SL!Sign(w) > 0 THEN extreme ELSE p
            BY <4>2, <6>1 DEF SL!Best
          <6> QED BY <3>1, <4>1, <5>2, <6>2
        <5> QED BY <3>1, <4>1, <5>1, <5>2
      <4>6. extreme' # Missing /\ \E j \in SeenOf(n)' : bars'[j].price = extreme'
        BY <1>1, <2>2, <2>5, <3>2, <3>3, <4>1, <4>5 DEF BestOf
      <4>7. \A j \in SeenOf(n)' : IF SL!Sign(w) > 0 THEN bars'[j].price <= extreme'
                                  ELSE extreme' <= bars'[j].price
        <5> TAKE j \in SeenOf(n)'
        <5>1. CASE j = n
          BY <1>1, <4>5, <5>1
        <5>2. CASE j \in all
          <6>1. bars'[j].price \in Int /\ bars'[j].price = bars[j].price /\ extreme' \in Int
            BY <2>2, <3>1, <4>1, <4>5, <5>2
          <6>2. IF SL!Sign(w) > 0 THEN bars[j].price <= extreme ELSE extreme <= bars[j].price
            BY <4>1, <5>2 DEF BestOf
          <6> QED BY <4>1, <4>5, <6>1, <6>2
        <5> QED BY <3>2, <5>1, <5>2
      <4>8. prevSign' # 0
        BY <1>2, <1>3, <1>8
      <4>9. \A j \in SeenOf(n)' : IF prevSign' > 0 THEN bars'[j].price <= extreme'
                                  ELSE extreme' <= bars'[j].price
        BY <1>2, <4>7
      <4> QED BY ONLY <1>1, <3>9, <4>4, <4>6, <4>8, <4>9, PositionSeen
    <3> QED BY <3>10, <3>11
  <2> QED BY <2>3, <2>4, <2>5
<1> QED BY <1>6, <1>7, <1>8

LEMMA StopsStep == ASSUME Quotations, Stops, [SL!Next]_(SL!vars) PROVE Stops'
<1>1. CASE UNCHANGED SL!vars
  <2>1. /\ trailing' = trailing /\ bars' = bars /\ out' = out /\ stopped' = stopped
        /\ entry' = entry /\ extreme' = extreme /\ prevSign' = prevSign
    BY <1>1 DEF SL!vars
  <2>2. \A i : SL!Since(i)' = SL!Since(i)
    BY <2>1 DEF SL!Since
  <2>3. \A i : SeenOf(i)' = SeenOf(i)
    BY <2>1, <2>2 DEF SeenOf
  <2>4. \A i, j : SL!ReferenceAt(i, j)' = SL!ReferenceAt(i, j)
    BY <2>1, <2>2 DEF SL!ReferenceAt, SL!PricesOf
  <2>5. \A i : StoppedBy(i)' <=> StoppedBy(i)
    BY <2>1, <2>2, <2>4 DEF StoppedBy, SL!Lost
  <2>6. Columns' /\ Begun'
    BY <2>1 DEF Stops, Columns, Begun
  <2>7. Left'
    BY <2>1, <2>5 DEF Stops, Left
  <2>8. SeenOf(Len(bars))' = SeenOf(Len(bars)) /\ (StoppedBy(Len(bars))' <=> StoppedBy(Len(bars)))
    <3>1. SeenOf(Len(bars))' = SeenOf(Len(bars))
      BY <2>1 DEF SeenOf, SL!Since
    <3>2. StoppedBy(Len(bars))' <=> StoppedBy(Len(bars))
      BY <2>1 DEF StoppedBy, SL!Since, SL!Lost, SL!ReferenceAt, SL!PricesOf
    <3> QED BY <3>1, <3>2
  <2>9. BestOf(prevSign, SeenOf(Len(bars)), extreme)' <=> BestOf(prevSign, SeenOf(Len(bars)), extreme)
    BY <2>1, <2>8 DEF BestOf
  <2>10. Position'
    BY <2>1, <2>8, <2>9 DEF Stops, Position
  <2> QED BY <2>6, <2>7, <2>10 DEF Stops
<1>2. CASE SL!Bar
  <2>1. PICK w \in Weights, p \in StopPrices \cup {Missing} :
          /\ p = Missing => \A i \in DOMAIN bars : bars[i].price = Missing
          /\ Appended(w, p) /\ Looped(w, p) /\ out' = Append(out, IF stopped' THEN 0 ELSE w)
          /\ trailing' = trailing
    BY <1>2 DEF SL!Bar, Appended, Looped
  <2> PICK n : n = Len(bars) + 1
    OBVIOUS
  <2>2. /\ bars' \in Seq([weight : Weights, price : StopPrices \cup {Missing}])
        /\ Len(bars) \in Nat /\ Len(bars') = n
        /\ \A i \in 1 .. Len(bars) : bars'[i] = bars[i]
        /\ bars'[n].weight = w
    BY <2>1, BarsGrow DEF Stops
  <2>3. Begun' /\ Position'
    BY <2>1, MissingFirst, PositionKept DEF Stops
  <2>4. /\ out' \in Seq(Weights \cup {0}) /\ Len(out') = n
        /\ \A i \in 1 .. Len(bars) : out'[i] = out[i]
        /\ out'[n] = IF stopped' THEN 0 ELSE w
    <3>1. out \in Seq(Weights \cup {0}) /\ (IF stopped' THEN 0 ELSE w) \in Weights \cup {0}
          /\ Len(out) = Len(bars)
      BY DEF Stops, Columns
    <3> QED BY <2>1, <3>1, AppendProperties
  <2>5. Columns'
    <3>1. prevSign' = SL!Sign(w) /\ stopped' \in BOOLEAN /\ bars' # <<>>
      BY <2>1, <2>2 DEF Looped, SL!Lost
    <3>2. trailing \in BOOLEAN
      BY DEF Stops, Columns
    <3> QED BY <2>1, <2>2, <2>4, <3>1, <3>2 DEF Columns
  <2>6. Left'
    <3>1. ASSUME NEW i \in 1 .. Len(bars)
          PROVE  out'[i] = IF bars'[i].weight # 0 /\ StoppedBy(i)' THEN 0 ELSE bars'[i].weight
      <4>1. StoppedBy(i)' <=> StoppedBy(i)
        BY <2>1, PastIsKept DEF Stops
      <4> QED BY <2>2, <2>4, <4>1 DEF Stops, Left
    <3>2. out'[n] = IF w # 0 /\ StoppedBy(n)' THEN 0 ELSE w
      <4>1. CASE w = 0
        BY <2>4, <4>1
      <4>2. CASE w # 0
        <5>1. StoppedBy(n)' <=> stopped'
          <6>1. StoppedBy(Len(bars))' <=> StoppedBy(n)'
            BY <2>2 DEF StoppedBy, SL!Since
          <6>2. SeenOf(Len(bars))' = SeenOf(n)'
            BY <2>2 DEF SeenOf, SL!Since
          <6>3. prevSign' # 0
            BY <2>1, <4>2 DEF Looped, SL!Sign, Quotations
          <6>4. CASE SeenOf(n)' = {}
            <7>1. ~stopped'
              BY <2>3, <6>2, <6>3, <6>4 DEF Position
            <7> QED BY <6>4, <7>1 DEF StoppedBy, SeenOf
          <6>5. CASE SeenOf(n)' # {}
            BY <2>3, <6>1, <6>2, <6>3, <6>5 DEF Position
          <6> QED BY <6>4, <6>5
        <5> QED BY <2>4, <4>2, <5>1
      <4> QED BY <4>1, <4>2
    <3>3. \A i \in 1 .. n : i \in 1 .. Len(bars) \/ i = n
      BY <2>2
    <3> QED BY <2>2, <3>1, <3>2, <3>3 DEF Left
  <2> QED BY <2>3, <2>5, <2>6 DEF Stops
<1> QED BY <1>1, <1>2 DEF SL!Next

\* apply_stop_loss, bar by bar, leaves exactly the weights that its docstring
\* asks for: StopsHold, for any prices, weights, stop and number of bars.
THEOREM StopsAreHeld == ASSUME Quotations PROVE SL!Spec => [](SL!TypeOK /\ SL!StopsHold)
<1>1. Stops => SL!TypeOK /\ SL!StopsHold
  <2> SUFFICES ASSUME Stops PROVE SL!TypeOK /\ SL!StopsHold
    OBVIOUS
  <2>1. DOMAIN bars = 1 .. Len(bars) /\ DOMAIN out = 1 .. Len(bars)
    BY DEF Stops, Columns
  <2>2. SL!TypeOK
    BY <2>1 DEF Stops, Columns, Left, SL!TypeOK
  <2>3. SL!StopsHold
    BY <2>1 DEF Stops, Left, SL!StopsHold, StoppedBy
  <2> QED BY <2>2, <2>3
<1> QED BY <1>1, StopsInit, StopsStep, PTL DEF SL!Spec


----------------------------------------------------------------------------
(* The registry of vintages: one at a time is approved, and it is the newest.*)

\* Without an overlap one promotion is under way at most, what it found covers
\* what is approved, and nothing but the newest vintage is.
Registry ==
    \E n \in Nat :
      /\ V!Rows = 1 .. n /\ approved \cap retired = {}
      /\ \A r \in Request : promotion[r] # V!Out =>
            promotion[r].at = "read" /\ promotion[r].old \subseteq 1 .. n
      /\ promotion = [r \in Request |-> promotion[r]]
      /\ ~raced2 =>
           /\ approved \subseteq {n} /\ traded \in 0 .. n
           /\ \A r \in Request : promotion[r] # V!Out => approved \subseteq promotion[r].old
           /\ \A r, q \in Request : promotion[r] # V!Out /\ promotion[q] # V!Out => r = q

\* The cardinality that the instance counts with is the one of the theorems.
LEMMA SameCardinality == \A S : V!Cardinality(S) = Cardinality(S)
  BY DEF V!Cardinality, Cardinality

\* The number of rows is the number of the newest.
LEMMA Numbered ==
    ASSUME NEW n \in Nat, V!Rows = 1 .. n
    PROVE  V!Cardinality(V!Rows) = n
  BY FS_Interval, SameCardinality

\* Of a vintage that stands alone, and of all there were, the newest.
LEMMA Newest ==
    ASSUME NEW n \in Nat \ {0}
    PROVE  V!Max({n}) = n /\ V!Max(1 .. n) = n
<1>1. n \in 1 .. n /\ \A y \in 1 .. n : n >= y
  OBVIOUS
<1>2. \A x \in 1 .. n : (\A y \in 1 .. n : x >= y) => x = n
  <2> SUFFICES ASSUME NEW x \in 1 .. n, \A y \in 1 .. n : x >= y PROVE x = n
    OBVIOUS
  <2>1. x >= n
    BY <1>1
  <2> QED
    BY <2>1
<1> QED
  BY <1>1, <1>2 DEF V!Max

\* A step after which one vintage stands at most, and that trades none or the
\* newest, is as the theorem says.
LEMMA StandsAlone ==
    ASSUME NEW n, NEW m \in Nat, V!Rows = 1 .. n,
           ~raced2' => approved' \subseteq {m},
           ~raced2' => traded \in 0 .. n /\ (traded' = traded \/ (traded' = n /\ V!Max(V!Rows) = n))
    PROVE  V!NewestTraded
<1>1. ~raced2' => V!Cardinality(approved') <= 1
  <2> SUFFICES ASSUME approved' \subseteq {m} PROVE Cardinality(approved') <= 1
    BY SameCardinality
  <2>1. Cardinality(approved') <= Cardinality({m})
    BY FS_Subset, FS_Singleton
  <2>2. IsFiniteSet(approved')
    BY FS_Subset, FS_Singleton
  <2> QED
    BY <2>1, <2>2, FS_Singleton
<1>2. ~raced2' => traded' >= traded /\ (traded' # traded => traded' = V!Max(V!Rows))
  OBVIOUS
<1> QED
  BY <1>1, <1>2 DEF V!NewestTraded

\* No vintage is registered at the start.
LEMMA RegistryInit == V!Init => Registry
<1> SUFFICES ASSUME V!Init PROVE Registry
  OBVIOUS
<1>1. V!Rows = 1 .. 0 /\ traded \in 0 .. 0 /\ approved \subseteq {0}
  BY DEF V!Init, V!Rows
<1> QED
  BY <1>1 DEF V!Init, Registry

\* A step of the registry keeps the invariant, and trades nothing that is older
\* than what was traded.
LEMMA RegistryStep ==
    ASSUME Registry, [V!Next]_(V!vars)
    PROVE  Registry' /\ V!TypeOK /\ (UNCHANGED V!vars \/ V!NewestTraded)
<1>1. PICK n \in Nat :
        /\ V!Rows = 1 .. n /\ approved \cap retired = {}
        /\ \A r \in Request : promotion[r] # V!Out =>
              promotion[r].at = "read" /\ promotion[r].old \subseteq 1 .. n
        /\ promotion = [r \in Request |-> promotion[r]]
        /\ ~raced2 =>
             /\ approved \subseteq {n} /\ traded \in 0 .. n
             /\ \A r \in Request : promotion[r] # V!Out => approved \subseteq promotion[r].old
             /\ \A r, q \in Request : promotion[r] # V!Out /\ promotion[q] # V!Out => r = q
  BY DEF Registry
<1>2. V!Cardinality(V!Rows) = n /\ V!Rows = approved \cup retired
  BY <1>1, Numbered DEF V!Rows
<1>3. V!TypeOK
  BY <1>1, <1>2 DEF V!TypeOK
<1>4. ASSUME NEW r \in Request, V!Promote(r)
      PROVE  Registry' /\ V!NewestTraded
  <2>1. V!Rows' = 1 .. n
    BY <1>1, <1>4 DEF V!Promote, V!Rows
  <2>2. /\ promotion'[r] = [at |-> "read", old |-> approved]
        /\ \A q \in Request : q # r => promotion'[q] = promotion[q]
        /\ promotion' = [q \in Request |-> promotion'[q]]
    BY <1>1, <1>4 DEF V!Promote
  <2>3. ~raced2' => ~raced2 /\ \A q \in Request : promotion[q] = V!Out
    BY <1>4 DEF V!Promote
  <2>4. approved \subseteq 1 .. n
    BY <1>1, <1>2
  <2>5. UNCHANGED <<approved, retired, traded>>
    BY <1>4 DEF V!Promote
  <2>6. Registry'
    <3>1. \A q \in Request : promotion'[q] # V!Out =>
              promotion'[q].at = "read" /\ promotion'[q].old \subseteq 1 .. n
      BY <1>1, <2>2, <2>4
    <3>2. ~raced2' =>
             /\ approved' \subseteq {n} /\ traded' \in 0 .. n
             /\ \A q \in Request : promotion'[q] # V!Out => approved' \subseteq promotion'[q].old
             /\ \A p, q \in Request : promotion'[p] # V!Out /\ promotion'[q] # V!Out => p = q
      BY <1>1, <2>2, <2>3, <2>5
    <3>3. V!Out' = V!Out
      BY DEF V!Out
    <3> QED
      BY <1>1, <2>1, <2>2, <2>5, <3>1, <3>2, <3>3 DEF Registry
  <2>7. V!NewestTraded
    BY <1>1, <2>3, <2>5, StandsAlone
  <2> QED
    BY <2>6, <2>7
<1>5. ASSUME NEW r \in Request, V!Promoted(r)
      PROVE  Registry' /\ V!NewestTraded
  <2> DEFINE old == promotion[r].old
  <2>1. promotion[r] # V!Out
    BY <1>5 DEF V!Promoted, V!Out
  <2>2. old \subseteq 1 .. n
    BY <1>1, <2>1
  <2>3. approved' = (approved \ old) \cup {n + 1} /\ retired' = retired \cup old
    <3> HIDE DEF V!Rows, V!Cardinality
    <3> QED BY <1>2, <1>5 DEF V!Promoted, V!Retired
  <2> HIDE DEF old
  <2>4. V!Rows' = V!Rows \cup {n + 1}
    BY <1>1, <1>2, <2>2, <2>3 DEF V!Rows
  <2>5. V!Rows' = 1 .. n + 1
    BY <1>1, <2>4
  <2>6. n + 1 \notin approved \cup retired /\ n + 1 \notin old
    BY <1>1, <1>2, <2>2
  <2>7. approved' \cap retired' = {}
    BY <1>1, <2>3, <2>6
  <2>8. /\ promotion'[r] = V!Out
        /\ \A q \in Request : q # r => promotion'[q] = promotion[q]
        /\ promotion' = [q \in Request |-> promotion'[q]]
    BY <1>1, <1>5 DEF V!Promoted
  <2>9. traded' = traded /\ raced2' = raced2
    BY <1>5 DEF V!Promoted
  <2>10. ~raced2 => approved' = {n + 1} /\ \A q \in Request : promotion'[q] = V!Out
    BY <1>1, <2>1, <2>3, <2>8 DEF old
  <2>11. V!Out' = V!Out
    BY DEF V!Out
  <2>12. n + 1 \in Nat /\ (~raced2 => traded' \in 0 .. n + 1) /\ 1 .. n \subseteq 1 .. n + 1
    BY <1>1, <2>9
  <2>13. \A q \in Request : promotion'[q] # V!Out' =>
              promotion'[q].at = "read" /\ promotion'[q].old \subseteq 1 .. n + 1
    BY <1>1, <2>8, <2>11, <2>12
  <2>14. Registry'
    BY <2>5, <2>7, <2>8, <2>9, <2>10, <2>11, <2>12, <2>13 DEF Registry
  <2>15. V!NewestTraded
    BY <1>1, <2>9, <2>10, <2>12, StandsAlone
  <2> QED
    BY <2>14, <2>15
<1>6. ASSUME NEW v \in V!Rows, V!RetireByHand(v)
      PROVE  Registry' /\ V!NewestTraded
  <2>1. V!Rows' = 1 .. n /\ approved' \cap retired' = {} /\ approved' \subseteq approved
    BY <1>1, <1>6 DEF V!RetireByHand, V!Rows
  <2>2. UNCHANGED <<promotion, traded, raced2>> /\ V!Out' = V!Out
    BY <1>6 DEF V!RetireByHand, V!Out
  <2>3. Registry'
    BY <1>1, <2>1, <2>2 DEF Registry
  <2>4. V!NewestTraded
    BY <1>1, <2>1, <2>2, StandsAlone
  <2> QED
    BY <2>3, <2>4
<1>7. CASE V!Cycle
  <2>1. UNCHANGED <<approved, retired, promotion, raced2>> /\ traded' = V!Max(approved)
    BY <1>7 DEF V!Cycle, V!Latest
  <2>2. V!Rows' = V!Rows /\ V!Out' = V!Out
    BY <2>1 DEF V!Rows, V!Out
  <2>3. ~raced2 => approved = {n} /\ n # 0
    BY <1>1, <1>2, <1>7 DEF V!Cycle
  <2>4. ~raced2 => traded' = n /\ V!Max(V!Rows) = n
    BY <1>1, <2>1, <2>3, Newest
  <2>5. Registry'
    BY <1>1, <2>1, <2>2, <2>4 DEF Registry
  <2>6. V!NewestTraded
    BY <1>1, <2>1, <2>4, StandsAlone
  <2> QED
    BY <1>3, <2>5, <2>6
<1>8. CASE UNCHANGED V!vars
  BY <1>3, <1>8 DEF V!vars, Registry, V!Rows, V!Out
<1> QED
  BY <1>3, <1>4, <1>5, <1>6, <1>7, <1>8 DEF V!Next

\* "The live scorer reads only from" the registry: without overlapping
\* promotions, one vintage at most is approved and a cycle never trades an
\* older one than was traded; and the rows are numbered without a gap.
THEOREM NewestIsTraded == V!Spec => []V!TypeOK /\ V!NewestTrades
<1>1. Registry /\ [V!Next]_(V!vars) => Registry' /\ V!TypeOK /\ [V!NewestTraded]_(V!vars)
  BY RegistryStep
<1> QED
  BY <1>1, RegistryInit, PTL DEF V!Spec, V!NewestTrades

----------------------------------------------------------------------------
(* Alerts: what an evaluation counts is what it reports.                     *)

Alerts ==
    /\ DOMAIN row \subseteq DOMAIN told /\ DOMAIN row \subseteq Alert
    /\ row \in [DOMAIN row -> [threshold : AlertPrices, active : BOOLEAN, count : Nat]]
    /\ told \in [DOMAIN told -> Nat]

Evaluations ==
    /\ firing = [r \in Request |-> firing[r]]
    /\ \A r \in Request : firing[r] # E!Out =>
          /\ firing[r].at \in {"loaded", "quoted"}
          /\ \A a \in DOMAIN firing[r].row :
                firing[r].row[a].active = TRUE /\ firing[r].row[a].count \in Nat
          /\ firing[r].at = "quoted" => firing[r].hit \subseteq DOMAIN firing[r].row

\* Without an overlap one evaluation is under way at most, and an alert counts
\* what was reported of it, as does the row that the evaluation loaded.
Agreed ==
    ~raced =>
       /\ \A a \in DOMAIN row : row[a].count = told[a]
       /\ \A r \in Request : firing[r] # E!Out =>
             \A a \in DOMAIN firing[r].row : a \in DOMAIN row => firing[r].row[a].count = row[a].count
       /\ \A r, q \in Request : firing[r] # E!Out /\ firing[q] # E!Out => r = q

Counts == Alerts /\ Evaluations /\ Agreed

\* At the start no alert is stored and none was ever triggered.
LEMMA CountsInit == E!Init => Counts
  BY DEF E!Init, Counts, Alerts, Evaluations, Agreed, E!Out

\* An evaluation that is given up leaves the rest as it is.
LEMMA GivenUp ==
    ASSUME Counts, NEW r \in Request, firing' = [firing EXCEPT ![r] = E!Out],
           UNCHANGED <<row, told, raced>>
    PROVE  Counts'
<1>1. /\ firing' = [q \in Request |-> firing'[q]] /\ firing'[r] = E!Out
      /\ \A q \in Request : q # r => firing'[q] = firing[q]
  BY DEF Counts, Evaluations
<1>2. E!Out' = E!Out
  BY DEF E!Out
<1> QED
  BY <1>1, <1>2 DEF Counts, Alerts, Evaluations, Agreed

\* Every step keeps what is known of the alerts and of those who judge them.
LEMMA CountsStep ==
    ASSUME Counts, [E!Next]_(E!vars)
    PROVE  Counts' /\ E!TypeOK /\ (UNCHANGED E!vars \/ E!TriggerCounted)
<1>1. E!TypeOK
  BY DEF Counts, Alerts, Evaluations, E!TypeOK
<1>2. E!Out' = E!Out
  BY DEF E!Out
<1>3. Counts' => \A a \in DOMAIN row' : raced' \/ row'[a].count = told'[a]
  BY DEF Counts, Agreed
\* Whoever changes nothing an evaluation loaded has nothing to set back.
<1>4. ASSUME Counts', firing' = firing \/ row' = row PROVE E!TriggerCounted
  BY <1>2, <1>3, <1>4 DEF E!TriggerCounted, E!Out
<1>5. ASSUME NEW a \in Alert, E!Create(a)
      PROVE  Counts' /\ E!TriggerCounted
  <2>1. /\ a \notin DOMAIN row
        /\ told' = [b \in DOMAIN told \cup {a} |-> IF b = a THEN 0 ELSE told[b]]
        /\ raced' = (raced \/ \E r \in Request : firing[r] # E!Out /\ a \in DOMAIN firing[r].row)
        /\ firing' = firing
    BY <1>5 DEF E!Create
  <2>2. PICK t \in AlertPrices : row' = [b \in DOMAIN row \cup {a} |->
          IF b = a THEN [threshold |-> t, active |-> TRUE, count |-> 0] ELSE row[b]]
    BY <1>5 DEF E!Create
  <2>3. /\ DOMAIN row' = DOMAIN row \cup {a} /\ DOMAIN told' = DOMAIN told \cup {a}
        /\ row'[a] = [threshold |-> t, active |-> TRUE, count |-> 0] /\ told'[a] = 0
        /\ \A b \in DOMAIN row : row'[b] = row[b]
        /\ \A b \in DOMAIN told : b # a => told'[b] = told[b]
    BY <2>1, <2>2
  <2>4. row'[a] \in [threshold : AlertPrices, active : BOOLEAN, count : Nat] /\ row'[a].count = 0
    BY <2>3
  <2>5. Alerts'
    <3>1. row' \in [DOMAIN row' -> [threshold : AlertPrices, active : BOOLEAN, count : Nat]]
      BY <2>2, <2>3, <2>4 DEF Counts, Alerts
    <3>2. told' \in [DOMAIN told' -> Nat]
      BY <2>1, <2>3 DEF Counts, Alerts
    <3> QED
      BY <2>3, <3>1, <3>2 DEF Counts, Alerts
  <2>6. Evaluations'
    BY <1>2, <2>1 DEF Counts, Evaluations
  <2>7. Agreed'
    <3> SUFFICES ASSUME ~raced' PROVE Agreed'
      BY DEF Agreed
    <3>1. ~raced /\ \A r \in Request : firing[r] # E!Out => a \notin DOMAIN firing[r].row
      BY <2>1
    <3>2. \A b \in DOMAIN row' : row'[b].count = told'[b]
      BY <2>1, <2>3, <2>4, <3>1 DEF Counts, Agreed, Alerts
    <3>3. ASSUME NEW r \in Request, firing[r] # E!Out, NEW b \in DOMAIN firing[r].row, b \in DOMAIN row'
          PROVE  firing[r].row[b].count = row'[b].count
      <4>1. b \in DOMAIN row /\ row'[b] = row[b]
        BY <2>3, <3>1, <3>3
      <4> QED
        BY <3>1, <3>3, <4>1 DEF Counts, Agreed
    <3> QED
      BY <1>2, <2>1, <3>1, <3>2, <3>3 DEF Counts, Agreed
  <2>8. Counts'
    BY <2>5, <2>6, <2>7 DEF Counts
  <2> QED
    BY <1>4, <2>1, <2>8
<1>6. ASSUME NEW a \in Alert, E!Update(a)
      PROVE  Counts' /\ E!TriggerCounted
  <2>1. PICK t \in AlertPrices, on \in BOOLEAN :
          row' = [row EXCEPT ![a].threshold = t, ![a].active = on]
    BY <1>6 DEF E!Update
  <2>2. a \in DOMAIN row /\ UNCHANGED <<firing, evals, told, raced>>
    BY <1>6 DEF E!Update
  <2>3. row[a] \in [threshold : AlertPrices, active : BOOLEAN, count : Nat]
    BY <2>2 DEF Counts, Alerts
  <2>4. /\ DOMAIN row' = DOMAIN row /\ row' = [b \in DOMAIN row |-> row'[b]]
        /\ row'[a] = [[row[a] EXCEPT !.threshold = t] EXCEPT !.active = on]
        /\ \A b \in DOMAIN row : b # a => row'[b] = row[b]
    BY <2>1, <2>2 DEF Counts, Alerts
  <2>5. row'[a] \in [threshold : AlertPrices, active : BOOLEAN, count : Nat] /\ row'[a].count = row[a].count
    BY <2>3, <2>4
  <2>6. Alerts'
    BY <2>2, <2>4, <2>5 DEF Counts, Alerts
  <2>7. \A b \in DOMAIN row : row'[b].count = row[b].count
    BY <2>4, <2>5
  <2>8. Evaluations' /\ Agreed'
    BY <1>2, <2>2, <2>4, <2>7 DEF Counts, Evaluations, Agreed
  <2>9. Counts'
    BY <2>6, <2>8 DEF Counts
  <2> QED
    BY <1>4, <2>2, <2>9
<1>7. ASSUME NEW a \in Alert, E!Delete(a)
      PROVE  Counts' /\ E!TriggerCounted
  <2>1. /\ DOMAIN row' = DOMAIN row \ {a} /\ row' = [b \in DOMAIN row' |-> row'[b]]
        /\ \A b \in DOMAIN row' : row'[b] = row[b]
    BY <1>7 DEF E!Delete, E!Restrict
  <2>2. UNCHANGED <<firing, evals, told, raced>>
    BY <1>7 DEF E!Delete
  <2>3. Alerts'
    BY <2>1, <2>2 DEF Counts, Alerts
  <2>4. Evaluations' /\ Agreed'
    BY <1>2, <2>1, <2>2 DEF Counts, Evaluations, Agreed
  <2>5. Counts'
    BY <2>3, <2>4 DEF Counts
  <2> QED
    BY <1>4, <2>2, <2>5
<1>8. ASSUME NEW r \in Request, E!Load(r)
      PROVE  Counts' /\ E!TriggerCounted
  <2>1. /\ firing[r] = E!Out /\ UNCHANGED <<row, told>>
        /\ raced' = (raced \/ \E q \in Request : firing[q] # E!Out)
    BY <1>8 DEF E!Load
  <2> DEFINE picked == E!Restrict(row, E!Chosen)
  <2>2. /\ firing' = [q \in Request |-> firing'[q]]
        /\ firing'[r] = [at |-> "loaded", row |-> picked]
        /\ \A q \in Request : q # r => firing'[q] = firing[q]
    BY <1>8 DEF E!Load, Counts, Evaluations
  <2>3. \A a \in DOMAIN picked : a \in DOMAIN row /\ picked[a] = row[a] /\ row[a].active
    BY DEF E!Restrict, E!Chosen
  <2> HIDE DEF picked
  <2>4. \A a \in DOMAIN picked : picked[a].active = TRUE /\ picked[a].count \in Nat
    BY <2>3 DEF Counts, Alerts
  <2>5. firing'[r].at = "loaded" /\ firing'[r].row = picked
    BY <2>2
  <2>6. Alerts'
    BY <2>1 DEF Counts, Alerts
  <2>7. Evaluations'
    BY <1>2, <2>2, <2>4, <2>5 DEF Counts, Evaluations
  <2>8. Agreed'
    <3> SUFFICES ASSUME ~raced' PROVE Agreed'
      BY DEF Agreed
    <3>1. ~raced /\ \A q \in Request : firing[q] = E!Out
      BY <2>1
    <3> QED
      BY <1>2, <2>1, <2>2, <2>3, <2>5, <3>1 DEF Counts, Agreed
  <2>9. Counts'
    BY <2>6, <2>7, <2>8 DEF Counts
  <2> QED
    BY <1>4, <2>1, <2>9
<1>9. ASSUME NEW r \in Request, E!Quote(r)
      PROVE  Counts' /\ E!TriggerCounted
  <2>1. firing[r].at = "loaded" /\ UNCHANGED <<row, evals, told, raced>>
    BY <1>9 DEF E!Quote
  <2>2. PICK hit :
          /\ hit \subseteq DOMAIN firing[r].row
          /\ firing' = [firing EXCEPT ![r] = [at |-> "quoted", row |-> firing[r].row, hit |-> hit]]
    BY <1>9 DEF E!Quote
  <2>3. /\ firing' = [q \in Request |-> firing'[q]]
        /\ firing'[r].at = "quoted" /\ firing'[r].row = firing[r].row /\ firing'[r].hit = hit
        /\ \A q \in Request : q # r => firing'[q] = firing[q]
    BY <2>2 DEF Counts, Evaluations
  <2>4. firing[r] # E!Out
    BY <2>1 DEF E!Out
  <2>5. Alerts' /\ Evaluations'
    BY <1>2, <2>1, <2>2, <2>3, <2>4 DEF Counts, Alerts, Evaluations
  <2>6. Agreed'
    BY <1>2, <2>1, <2>3, <2>4 DEF Counts, Agreed
  <2>7. Counts'
    BY <2>5, <2>6 DEF Counts
  <2> QED
    BY <1>4, <2>1, <2>7
<1>10. ASSUME NEW r \in Request, E!Commit(r)
      PROVE  Counts' /\ E!TriggerCounted
  <2> DEFINE e == firing[r]
  <2>1. /\ e.at = "quoted" /\ DOMAIN e.row \subseteq DOMAIN row
        /\ row' = [a \in DOMAIN row |-> IF a \in DOMAIN e.row THEN E!Written(e, a) ELSE row[a]]
        /\ told' = [a \in DOMAIN told |-> IF a \in e.hit THEN told[a] + 1 ELSE told[a]]
        /\ firing' = [firing EXCEPT ![r] = E!Out]
        /\ UNCHANGED <<evals, raced>>
    BY <1>10 DEF E!Commit
  <2>2. e # E!Out
    BY <2>1 DEF E!Out
  <2>3. e.hit \subseteq DOMAIN e.row
    BY <2>1, <2>2 DEF Counts, Evaluations
  <2> HIDE DEF e
  <2>4. /\ DOMAIN row' = DOMAIN row /\ row' = [a \in DOMAIN row |-> row'[a]]
        /\ DOMAIN told' = DOMAIN told /\ told' \in [DOMAIN told -> Nat]
    BY <2>1 DEF Counts, Alerts
  <2>5. ASSUME NEW a \in DOMAIN row, a \in e.hit
        PROVE  /\ row'[a] = [row[a] EXCEPT !.count = e.row[a].count + 1]
               /\ told'[a] = told[a] + 1
    BY <2>1, <2>3, <2>5 DEF E!Written, E!Counted, Counts, Alerts
  <2>6. ASSUME NEW a \in DOMAIN row, a \notin e.hit
        PROVE  row'[a] = row[a] /\ told'[a] = told[a]
    BY <2>1, <2>6 DEF E!Written, Counts, Alerts
  <2>7. /\ firing' = [q \in Request |-> firing'[q]] /\ firing'[r] = E!Out
        /\ \A q \in Request : q # r => firing'[q] = firing[q]
    BY <2>1 DEF Counts, Evaluations
  <2>8. ASSUME NEW a \in DOMAIN row
        PROVE  /\ row'[a].threshold = row[a].threshold /\ row'[a].active = row[a].active
               /\ a \in e.hit => row'[a].count = e.row[a].count + 1
               /\ a \notin e.hit => row'[a].count = row[a].count
    <3>1. row[a] \in [threshold : AlertPrices, active : BOOLEAN, count : Nat]
      BY DEF Counts, Alerts
    <3> QED
      BY <2>5, <2>6, <3>1
  <2>9. ~raced => \A a \in DOMAIN row : row'[a].count = told'[a]
    <3> SUFFICES ASSUME ~raced, NEW a \in DOMAIN row PROVE row'[a].count = told'[a]
      OBVIOUS
    <3>1. row[a].count = told[a]
      BY DEF Counts, Agreed
    <3>2. a \in DOMAIN e.row => e.row[a].count = row[a].count
      BY <2>2 DEF Counts, Agreed, e
    <3>3. CASE a \in e.hit
      <4>1. a \in DOMAIN e.row
        BY <2>3, <3>3
      <4>2. row'[a].count = e.row[a].count + 1
        BY <2>8, <3>3
      <4>3. told'[a] = told[a] + 1
        BY <2>5, <3>3
      <4> QED
        BY <3>1, <3>2, <4>1, <4>2, <4>3
    <3>4. CASE a \notin e.hit
      BY <2>6, <2>8, <3>1, <3>4
    <3> QED
      BY <3>3, <3>4
  <2>10. ~raced => \A q \in Request : firing'[q] = E!Out
    BY <2>2, <2>7 DEF Counts, Agreed, e
  <2>11. Alerts'
    <3>1. ASSUME NEW a \in DOMAIN row
          PROVE  row'[a] \in [threshold : AlertPrices, active : BOOLEAN, count : Nat]
      <4>1. row[a] \in [threshold : AlertPrices, active : BOOLEAN, count : Nat]
        BY DEF Counts, Alerts
      <4>2. a \in e.hit => e.row[a].count + 1 \in Nat
        BY <2>2, <2>3 DEF Counts, Evaluations, e
      <4> QED
        BY <2>5, <2>6, <4>1, <4>2
    <3> QED
      BY <2>4, <3>1 DEF Counts, Alerts
  <2>12. Evaluations'
    BY <1>2, <2>7 DEF Counts, Evaluations
  <2>13. Agreed'
    BY <1>2, <2>1, <2>4, <2>9, <2>10 DEF Agreed
  <2>14. Counts'
    BY <2>11, <2>12, <2>13 DEF Counts
  <2> QED
    BY <1>3, <2>8, <2>14 DEF E!TriggerCounted
<1>11. ASSUME NEW r \in Request, E!Fail(r)
      PROVE  Counts' /\ E!TriggerCounted
  BY <1>4, <1>11, GivenUp DEF E!Fail
<1>12. CASE UNCHANGED E!vars
  BY <1>1, <1>2, <1>12 DEF E!vars, Counts, Alerts, Evaluations, Agreed
<1> QED
  BY <1>1, <1>5, <1>6, <1>7, <1>8, <1>9, <1>10, <1>11, <1>12 DEF E!Next

\* trigger_count says how often a response named the alert as triggered, unless
\* evaluations overlapped or an alert was replaced under one, and nothing an
\* evaluation commits sets back what was edited while it asked for its quote.
THEOREM TriggersAreCounted == E!Spec => []E!TypeOK /\ E!TriggersCounted
<1>1. Counts /\ [E!Next]_(E!vars) => Counts' /\ E!TypeOK /\ [E!TriggerCounted]_(E!vars)
  BY CountsStep
<1> QED
  BY <1>1, CountsInit, PTL DEF E!Spec, E!TriggersCounted

----------------------------------------------------------------------------
(* A thesis: "broken is terminal", and its verdict is that of its checks.    *)

\* What an evaluation found of a broken check is broken, and its verdict is
\* what it found; without an overlap it is the only one, and every check it
\* loaded is as it was, or deleted.
Sound(e) ==
    /\ e.at \in {"out", "loaded", "graded"}
    /\ e.at # "out" =>
          /\ e.status # "closed"
          /\ \A i \in DOMAIN e.check : i \in CheckNo /\ check[i] # "unmade"
    /\ e.at = "graded" =>
          /\ DOMAIN e.found = DOMAIN e.check
          /\ \A i \in DOMAIN e.check :
                /\ e.found[i] \in {"error", "broken", "expired", "holding"}
                /\ e.check[i] = "broken" => e.found[i] = "broken"
          /\ e.verdict \in {"broken", "expired", "supported", "open"}
          /\ e.verdict = "broken" <=> \E i \in DOMAIN e.found : e.found[i] = "broken"

Graded ==
    /\ eval = [r \in Request |-> eval[r]] /\ check = [i \in CheckNo |-> check[i]]
    /\ status \in {"open", "closed", "broken", "supported", "expired"}
    /\ \A r \in Request : Sound(eval[r])

Unspoilt ==
    ~overlapped3 =>
       /\ \A r \in Request : eval[r].at # "out" =>
             \A i \in DOMAIN eval[r].check : check[i] \in {eval[r].check[i], "deleted"}
       /\ \A r, q \in Request : eval[r].at # "out" /\ eval[q].at # "out" => r = q

Thesis == Graded /\ Unspoilt

\* A thesis starts intact, with no evaluation under way.
LEMMA ThesisInit == H!Init => Thesis
  BY DEF H!Init, Thesis, Graded, Sound, Unspoilt, H!Out

\* An evaluation stays sound while no check is unmade again.
LEMMA StaysSound ==
    ASSUME NEW q \in Request, Sound(eval[q]), eval'[q] = eval[q],
           \A i \in CheckNo : check[i] # "unmade" => check'[i] # "unmade"
    PROVE  Sound(eval[q])'
  BY DEF Sound

\* An evaluation that ends, whatever it wrote.
LEMMA EvaluationEnds ==
    ASSUME Thesis, NEW r \in Request, eval' = [eval EXCEPT ![r] = H!Out],
           check' = [i \in CheckNo |-> check'[i]], overlapped3' = overlapped3,
           status' \in {"open", "closed", "broken", "supported", "expired"},
           \A i \in CheckNo : check[i] # "unmade" => check'[i] # "unmade",
           check' = check \/ eval[r].at # "out"
    PROVE  Thesis'
<1>1. /\ eval' = [q \in Request |-> eval'[q]] /\ eval'[r].at = "out"
      /\ \A q \in Request : q # r => eval'[q] = eval[q]
  BY DEF Thesis, Graded, H!Out
<1>2. Graded'
  <2>1. ASSUME NEW q \in Request PROVE Sound(eval[q])'
    <3>1. CASE q = r
      BY <1>1, <3>1 DEF Sound
    <3>2. CASE q # r
      BY <1>1, <3>2, StaysSound DEF Thesis, Graded
    <3> QED
      BY <3>1, <3>2
  <2> QED
    BY <1>1, <2>1 DEF Thesis, Graded
<1>3. Unspoilt'
  BY <1>1 DEF Thesis, Unspoilt
<1> QED
  BY <1>2, <1>3 DEF Thesis

\* A short transaction, which no evaluation loads or commits in.
LEMMA ShortStep ==
    ASSUME Thesis, eval' = eval, check' = [i \in CheckNo |-> check'[i]],
           status' \in {"open", "closed", "broken", "supported", "expired"},
           \A i \in CheckNo : check[i] # "unmade" => check'[i] # "unmade",
           ~overlapped3' => ~overlapped3,
           ~overlapped3' => \A r \in Request : eval[r].at # "out" =>
              \A i \in DOMAIN eval[r].check : check'[i] \in {check[i], "deleted"},
           \A i \in CheckNo : check[i] = "broken" => check'[i] \in {"broken", "deleted"}
    PROVE  Thesis' /\ H!VerdictKept
<1>1. Graded'
  BY SMTT(30) DEF Thesis, Graded, Sound
<1>2. Unspoilt'
  <2> SUFFICES ASSUME ~overlapped3' PROVE Unspoilt'
    BY DEF Unspoilt
  <2>1. ASSUME NEW r \in Request, eval[r].at # "out", NEW i \in DOMAIN eval[r].check
        PROVE  check'[i] \in {eval[r].check[i], "deleted"}
    BY <2>1 DEF Thesis, Unspoilt
  <2> QED
    BY <2>1 DEF Thesis, Unspoilt
<1>3. H!VerdictKept
  BY DEF H!VerdictKept
<1> QED
  BY <1>1, <1>2, <1>3 DEF Thesis

\* A commit whose rows nobody changed leaves the verdict its checks call for.
LEMMA CommitStands ==
    ASSUME Thesis, NEW r \in Request, H!Commit(r)
    PROVE  Thesis' /\ H!VerdictKept
<1> DEFINE e == eval[r]
<1>1. /\ e.at = "graded" /\ DOMAIN e.check \subseteq H!Present
      /\ status' = H!Changed(e.verdict, e.status, status)
      /\ check' = [i \in CheckNo |-> IF i \in DOMAIN e.check
                     THEN H!Changed(e.found[i], e.check[i], check[i]) ELSE check[i]]
      /\ eval' = [eval EXCEPT ![r] = H!Out]
      /\ overlapped3' = overlapped3
  BY DEF H!Commit
<1>2. /\ DOMAIN e.found = DOMAIN e.check
      /\ \A i \in DOMAIN e.check :
            /\ e.found[i] \in {"error", "broken", "expired", "holding"}
            /\ e.check[i] = "broken" => e.found[i] = "broken"
      /\ e.verdict \in {"broken", "expired", "supported", "open"}
      /\ e.verdict = "broken" <=> \E i \in DOMAIN e.found : e.found[i] = "broken"
  BY <1>1 DEF Thesis, Graded, Sound
<1>3. \A i \in CheckNo : check'[i] = IF i \in DOMAIN e.check
                THEN (IF e.found[i] # e.check[i] THEN e.found[i] ELSE check[i]) ELSE check[i]
  BY <1>1 DEF H!Changed
<1>4. status' = IF e.verdict # e.status THEN e.verdict ELSE status
  BY <1>1 DEF H!Changed
<1> HIDE DEF e
<1>5. Thesis'
  <2>1. \A i \in CheckNo : check[i] # "unmade" => check'[i] # "unmade"
    BY <1>2, <1>3
  <2> QED
    BY <1>1, <1>2, <1>4, <2>1, EvaluationEnds DEF Thesis, Graded, e
<1>6. ASSUME NEW i \in CheckNo, check[i] = "broken", ~overlapped3
      PROVE  check'[i] = "broken"
  <2>1. i \in DOMAIN e.check => e.check[i] = "broken"
    BY <1>1, <1>6 DEF Thesis, Unspoilt, e
  <2> QED
    BY <1>2, <1>3, <1>6, <2>1
<1>7. ASSUME H!Current(r)
      PROVE  status' = "broken" <=> \E i \in CheckNo : check'[i] = "broken"
  <2>1. e.status = status /\ e.check = [i \in H!Present |-> check[i]]
    BY <1>7 DEF H!Current, e
  <2>2. status' = e.verdict
    BY <1>4, <2>1
  <2>3. H!Present \subseteq CheckNo /\ \A i \in CheckNo : i \notin H!Present => check[i] # "broken"
    BY DEF H!Present
  <2>4. DOMAIN e.check = H!Present /\ \A i \in H!Present : e.check[i] = check[i]
    BY <2>1
  <2>5. \A i \in CheckNo : IF i \in H!Present THEN check'[i] = e.found[i] ELSE check'[i] = check[i]
    BY <1>3, <2>4
  <2> QED
    BY <1>2, <2>2, <2>3, <2>4, <2>5
<1>8. \A q \in Request : q # r => eval'[q] = eval[q]
  BY <1>1 DEF Thesis, Graded
<1>9. H!VerdictKept
  <2>1. \A q \in Request : eval[q].at = "graded" /\ eval'[q].at = "out" => q = r
    BY <1>8
  <2> QED
    BY <1>1, <1>6, <1>7, <2>1 DEF H!VerdictKept
<1> QED
  BY <1>5, <1>9

\* Every step keeps what an evaluation knows, and the verdict on fresh rows.
LEMMA ThesisStep ==
    ASSUME Thesis, [H!Next]_(H!vars)
    PROVE  Thesis' /\ H!TypeOK /\ (UNCHANGED H!vars \/ H!VerdictKept)
<1>1. H!TypeOK
  BY DEF Thesis, Graded, Sound, H!TypeOK
<1>2. check = [i \in CheckNo |-> check[i]] /\ eval = [r \in Request |-> eval[r]]
  BY DEF Thesis, Graded
<1>3. CASE H!AddCheck
  <2>1. PICK i \in CheckNo, found \in {"holding", "broken"} :
          /\ i \notin H!Present /\ check' = [check EXCEPT ![i] = found]
          /\ overlapped3' = (overlapped3 \/ \E r \in Request : eval[r].at # "out" /\ i \in DOMAIN eval[r].check)
    BY <1>3 DEF H!AddCheck
  <2>2. UNCHANGED <<status, eval>>
    BY <1>3 DEF H!AddCheck
  <2>3. check'[i] = found /\ \A j \in CheckNo : j # i => check'[j] = check[j]
    BY <1>2, <2>1
  <2>4. check[i] # "broken"
    BY <2>1 DEF H!Present
  <2>5. check' = [j \in CheckNo |-> check'[j]]
    BY <1>2, <2>1
  <2>6. ~overlapped3' => \A r \in Request : eval[r].at # "out" =>
              \A j \in DOMAIN eval[r].check : check'[j] \in {check[j], "deleted"}
    <3> SUFFICES ASSUME ~overlapped3', NEW r \in Request, eval[r].at # "out",
                        NEW j \in DOMAIN eval[r].check
                 PROVE  check'[j] = check[j]
      OBVIOUS
    <3>1. j # i
      BY <2>1
    <3>2. j \in CheckNo
      BY DEF Thesis, Graded, Sound
    <3> QED
      BY <2>3, <3>1, <3>2
  <2>7. status' \in {"open", "closed", "broken", "supported", "expired"}
    BY <2>2 DEF Thesis, Graded
  <2> QED
    BY <1>1, <2>1, <2>2, <2>3, <2>4, <2>5, <2>6, <2>7, ShortStep
<1>4. CASE H!DeleteCheck
  <2>1. PICK i \in H!Present : check' = [check EXCEPT ![i] = "deleted"]
    BY <1>4 DEF H!DeleteCheck
  <2>2. UNCHANGED <<status, eval, overlapped3>>
    BY <1>4 DEF H!DeleteCheck
  <2>3. \A j \in CheckNo : check'[j] \in {check[j], "deleted"}
    BY <1>2, <2>1
  <2>4. check' = [j \in CheckNo |-> check'[j]]
    BY <1>2, <2>1
  <2>5. status' \in {"open", "closed", "broken", "supported", "expired"}
    BY <2>2 DEF Thesis, Graded
  <2>6. \A r \in Request : eval[r].at # "out" => DOMAIN eval[r].check \subseteq CheckNo
    BY DEF Thesis, Graded, Sound
  <2> QED
    BY <1>1, <2>2, <2>3, <2>4, <2>5, <2>6, ShortStep
<1>5. CASE H!CloseByHand \/ H!OpenByHand \/ H!Postpone \/ H!DuePasses
  <2>1. UNCHANGED <<check, eval, overlapped3>>
    BY <1>5 DEF H!CloseByHand, H!OpenByHand, H!Postpone, H!DuePasses
  <2>2. status' \in {"open", "closed", "broken", "supported", "expired"}
    BY <1>5 DEF H!CloseByHand, H!OpenByHand, H!Postpone, H!DuePasses, Thesis, Graded
  <2> QED
    BY <1>1, <1>2, <2>1, <2>2, ShortStep
<1>6. ASSUME NEW r \in Request, H!Load(r)
      PROVE  Thesis' /\ H!VerdictKept
  <2>1. /\ eval[r].at = "out" /\ status # "closed" /\ UNCHANGED <<status, due, check>>
        /\ overlapped3' = (overlapped3 \/ \E q \in Request : eval[q].at # "out")
    BY <1>6 DEF H!Load
  <2> DEFINE picked == [i \in H!Present |-> check[i]]
  <2>2. /\ eval' = [q \in Request |-> eval'[q]]
        /\ eval'[r] = [at |-> "loaded", status |-> status, due |-> due, check |-> picked]
        /\ \A q \in Request : q # r => eval'[q] = eval[q]
    BY <1>2, <1>6 DEF H!Load
  <2>3. \A i \in DOMAIN picked : i \in CheckNo /\ check[i] # "unmade" /\ picked[i] = check[i]
    BY DEF H!Present
  <2> HIDE DEF picked
  <2>4. eval'[r].at = "loaded" /\ eval'[r].status = status /\ eval'[r].check = picked
    BY <2>2
  <2>5. Graded'
    <3>1. Sound(eval[r])'
      BY <2>1, <2>3, <2>4 DEF Sound
    <3>2. ASSUME NEW q \in Request, q # r PROVE Sound(eval[q])'
      BY <2>1, <2>2, <3>2, StaysSound DEF Thesis, Graded
    <3> QED
      BY <2>1, <2>2, <3>1, <3>2 DEF Thesis, Graded
  <2>6. Unspoilt'
    <3> SUFFICES ASSUME ~overlapped3' PROVE Unspoilt'
      BY DEF Unspoilt
    <3>1. \A q \in Request : eval[q].at = "out"
      BY <2>1
    <3> QED
      BY <2>1, <2>2, <2>3, <2>4, <3>1 DEF Unspoilt
  <2>7. H!VerdictKept
    BY <2>1, <2>2, <2>4 DEF H!VerdictKept
  <2> QED
    BY <2>5, <2>6, <2>7 DEF Thesis
<1>7. ASSUME NEW r \in Request, H!Grade(r)
      PROVE  Thesis' /\ H!VerdictKept
  <2>1. eval[r].at = "loaded" /\ UNCHANGED <<status, due, check, loads, overlapped3>>
    BY <1>7 DEF H!Grade
  <2>2. PICK found \in [DOMAIN eval[r].check -> {"error", "broken", "expired", "holding"}],
             past \in {eval[r].due, TRUE} :
          /\ \A i \in DOMAIN found : found[i] \in H!Outcomes(eval[r].check[i])
          /\ eval' = [eval EXCEPT ![r] =
               [at |-> "graded", status |-> eval[r].status, check |-> eval[r].check,
                found |-> found, verdict |-> H!Verdict(found, past)]]
    BY <1>7 DEF H!Grade
  <2> DEFINE verdict == H!Verdict(found, past)
  <2>3. /\ verdict \in {"broken", "expired", "supported", "open"}
        /\ verdict = "broken" <=> \E i \in DOMAIN found : found[i] = "broken"
    BY DEF H!Verdict
  <2>4. \A i \in DOMAIN eval[r].check : eval[r].check[i] = "broken" => found[i] = "broken"
    BY <2>2 DEF H!Outcomes
  <2> HIDE DEF verdict
  <2>5. /\ eval' = [q \in Request |-> eval'[q]]
        /\ eval'[r] = [at |-> "graded", status |-> eval[r].status, check |-> eval[r].check,
                       found |-> found, verdict |-> verdict]
        /\ \A q \in Request : q # r => eval'[q] = eval[q]
    BY <1>2, <2>2 DEF verdict
  <2>6. /\ eval'[r].at = "graded" /\ eval'[r].status = eval[r].status
        /\ eval'[r].check = eval[r].check /\ eval'[r].found = found /\ eval'[r].verdict = verdict
        /\ DOMAIN found = DOMAIN eval[r].check
    BY <2>2, <2>5
  <2>7. Graded'
    <3>1. Sound(eval[r])'
      <4>1. /\ eval[r].status # "closed"
            /\ \A i \in DOMAIN eval[r].check : i \in CheckNo /\ check[i] # "unmade"
        BY <2>1 DEF Thesis, Graded, Sound
      <4>2. /\ eval'[r].status # "closed" /\ check' = check
            /\ \A i \in DOMAIN eval'[r].check : i \in CheckNo /\ check[i] # "unmade"
        BY <2>1, <2>6, <4>1
      <4>3. \A i \in DOMAIN found : found[i] \in {"error", "broken", "expired", "holding"}
        BY <2>2
      <4>4. /\ DOMAIN eval'[r].found = DOMAIN eval'[r].check
            /\ \A i \in DOMAIN eval'[r].check :
                 /\ eval'[r].found[i] \in {"error", "broken", "expired", "holding"}
                 /\ eval'[r].check[i] = "broken" => eval'[r].found[i] = "broken"
            /\ eval'[r].verdict \in {"broken", "expired", "supported", "open"}
            /\ eval'[r].verdict = "broken" <=>
                 \E i \in DOMAIN eval'[r].found : eval'[r].found[i] = "broken"
        BY <2>3, <2>4, <2>6, <4>3
      <4> QED
        BY <2>6, <4>2, <4>4 DEF Sound
    <3>2. ASSUME NEW q \in Request, q # r PROVE Sound(eval[q])'
      BY <2>1, <2>5, <3>2, StaysSound DEF Thesis, Graded
    <3> QED
      BY <2>1, <2>5, <3>1, <3>2 DEF Thesis, Graded
  <2>8. Unspoilt'
    BY <2>1, <2>5, <2>6 DEF Thesis, Unspoilt
  <2>9. H!VerdictKept
    BY <2>1, <2>5, <2>6 DEF H!VerdictKept
  <2> QED
    BY <2>7, <2>8, <2>9 DEF Thesis
<1>8. ASSUME NEW r \in Request, H!Fail(r)
      PROVE  Thesis' /\ H!VerdictKept
  <2>1. eval' = [eval EXCEPT ![r] = H!Out] /\ UNCHANGED <<status, due, check, loads, overlapped3>>
    BY <1>8 DEF H!Fail
  <2>2. Thesis'
    BY <2>1, EvaluationEnds DEF Thesis, Graded
  <2>3. H!VerdictKept
    BY <2>1 DEF H!VerdictKept
  <2> QED
    BY <2>2, <2>3
<1>9. CASE UNCHANGED H!vars
  <2>1. /\ status' = status /\ check' = check /\ eval' = eval /\ overlapped3' = overlapped3
    BY <1>9 DEF H!vars
  <2>2. \A r \in Request : Sound(eval[r]) => Sound(eval[r])'
    BY <2>1 DEF Sound
  <2>3. Graded' /\ Unspoilt'
    BY <2>1, <2>2 DEF Thesis, Graded, Unspoilt
  <2> QED
    BY <1>1, <1>9, <2>3 DEF Thesis
<1> QED
  BY <1>1, <1>3, <1>4, <1>5, <1>6, <1>7, <1>8, <1>9, CommitStands DEF H!Next

\* "broken is terminal", through any number of concurrent evaluations but where
\* two overlapped or a check was replaced under one; and an evaluation whose
\* rows are still what it loaded leaves the thesis broken exactly if a check is.
THEOREM VerdictsStand == H!Spec => []H!TypeOK /\ H!VerdictStands
<1>1. Thesis /\ [H!Next]_(H!vars) => Thesis' /\ H!TypeOK /\ [H!VerdictKept]_(H!vars)
  BY ThesisStep
<1> QED
  BY <1>1, ThesisInit, PTL DEF H!Spec, H!VerdictStands

----------------------------------------------------------------------------
(* The session table: one live session per user, and its feed ends with it.  *)

States == {"none", "starting", "running", "stopped", "killed"}
LiveSession ==
    [state : States, task : {"none", "runs", "done"}, sub : BOOLEAN, ended : BOOLEAN,
     crashed : BOOLEAN, raised : SUBSET {"on_start", "on_stop"}, onStop : {0, 1}]
Caller ==
    [at : {"out", "subscribing", "killing", "waiting", "closing"},
     ses : SesNo \cup {Nobody}, state : {"none", "stopped", "killed"}]

Table ==
    /\ current2 \in SesNo \cup {Nobody}
    /\ ses \in [SesNo -> LiveSession] /\ call2 \in [Calling -> Caller]
    /\ down2 \in BOOLEAN /\ overlapped2 \in BOOLEAN

\* A session's flags agree with its state, and one that runs has a task and a
\* feed, is being stopped, or its on_stop raised.
Lives(s) ==
    /\ ses[s].state = "none" => ~ses[s].sub
    /\ ses[s].state \in {"none", "starting"} => ses[s].task = "none"
    /\ ses[s].state = "starting" /\ ses[s].sub => "on_start" \in ses[s].raised
    /\ ses[s].state \in {"stopped", "killed"} => ~ses[s].sub \/ ses[s].crashed
    /\ ses[s].state \notin {"stopped", "killed"} => ~ses[s].ended /\ ses[s].onStop = 0
    /\ ses[s].task = "runs" => ses[s].sub /\ ses[s].state = "running"
    /\ ses[s].ended => ~ses[s].sub /\ ses[s].task = "none"
    /\ ses[s].state = "running" => \/ ses[s].task = "runs" /\ ses[s].sub
                                   \/ T!InHand(s) \/ "on_stop" \in ses[s].raised

\* A start has a session of its own; the others have one that was stored.
Serves(c) ==
    LET s == call2[c].ses IN
    /\ call2[c].at = "out" <=> s = Nobody
    /\ call2[c].at = "subscribing" =>
         /\ ses[s].state = "starting" /\ ~ses[s].sub
         /\ \A d \in Calling : call2[d].ses = s => d = c
    /\ call2[c].at \in {"killing", "waiting", "closing"} =>
         ses[s].state \notin {"none", "starting"} /\ call2[c].state \in {"stopped", "killed"}
    /\ call2[c].at \in {"waiting", "closing"} => ses[s].task = "none"

\* While one start is under way what the table holds does not run, and when the
\* application ends one stop is, of the table's session.
Seated ==
    /\ current2 # Nobody => ses[current2].state \notin {"none", "starting"}
    /\ ~overlapped2 => \A c \in Calling : call2[c].at = "subscribing" =>
         /\ T!MayStart
         /\ \A d \in Calling : call2[d].at = "subscribing" => d = c
    /\ down2 => \A c \in Calling : call2[c].at # "out" =>
         /\ call2[c].ses = current2 /\ call2[c].at \in {"waiting", "closing"}
         /\ \A d \in Calling : call2[d].at # "out" => d = c

SInv == Table /\ (\A s \in SesNo : Lives(s)) /\ (\A c \in Calling : Serves(c)) /\ Seated /\ T!FeedsExplained

\* At the start no session is made and nobody asks.
LEMMA TableInit == ASSUME Nobody \notin SesNo PROVE T!Init => SInv
<1> SUFFICES ASSUME T!Init PROVE SInv
  OBVIOUS
<1>1. T!Unmade \in LiveSession /\ T!Out \in Caller
  BY DEF T!Unmade, T!Out, LiveSession, Caller, States
<1>2. Table
  BY <1>1 DEF T!Init, Table
<1>3. \A s \in SesNo : Lives(s)
  BY DEF T!Init, T!Unmade, Lives
<1>4. (\A c \in Calling : Serves(c)) /\ Seated
  BY DEF T!Init, T!Out, Serves, Seated
<1>5. T!FeedsExplained
  BY DEF T!Init, T!Unmade, T!FeedsExplained
<1> QED
  BY <1>2, <1>3, <1>4, <1>5 DEF SInv

\* What a request knows of the session it works on, while it does.
LEMMA TakesSession ==
    ASSUME Nobody \notin SesNo, SInv, NEW c \in Calling
    PROVE  /\ call2[c] \in Caller
           /\ call2[c].at # "out" => call2[c].ses \in SesNo
           /\ call2[c].at = "out" => call2[c].ses = Nobody
  BY DEF SInv, Table, Serves, Caller

\* A step that changes one session and the requests C, which work on it or on
\* none, before and after.
LEMMA OneSession ==
    ASSUME Nobody \notin SesNo, SInv, NEW s \in SesNo, NEW C \in SUBSET Calling,
           ses' = [ses EXCEPT ![s] = ses'[s]], ses'[s] \in LiveSession,
           call2' = [d \in Calling |-> call2'[d]], current2' \in SesNo \cup {Nobody},
           down2' \in BOOLEAN, overlapped2' \in BOOLEAN,
           \A d \in Calling : d \notin C => call2'[d] = call2[d],
           \A c \in C : /\ call2[c].ses \in {s, Nobody} \/ call2[c].at = "killing"
                        /\ call2'[c] \in Caller /\ call2'[c].ses \in {s, Nobody},
           Lives(s)', \A c \in C : Serves(c)',
           \A d \in Calling : d \notin C /\ call2[d].ses = s =>
              /\ call2[d].at # "subscribing" /\ ses'[s].state \notin {"none", "starting"}
              /\ call2[d].at \in {"waiting", "closing"} => ses'[s].task = "none"
    PROVE  /\ Table' /\ (\A q \in SesNo : Lives(q)') /\ (\A d \in Calling : Serves(d)')
           /\ \A q \in SesNo : q # s => ses'[q] = ses[q] /\ (T!InHand(q) => T!InHand(q)')
<1>1. \A q \in SesNo : q # s => ses'[q] = ses[q]
  BY DEF SInv, Table
<1>2. Table'
  BY DEF SInv, Table
<1>3. \A q \in SesNo : q # s => (T!InHand(q) => T!InHand(q)')
  BY DEF T!InHand
<1>4. ASSUME NEW q \in SesNo PROVE Lives(q)'
  BY <1>1, <1>3 DEF SInv, Lives
<1>5. ASSUME NEW d \in Calling, d \notin C PROVE Serves(d)'
  <2>1. call2'[d] = call2[d] /\ Serves(d)
    BY <1>5 DEF SInv
  <2>2. CASE call2[d].at = "out"
    BY <2>1, <2>2 DEF Serves
  <2>3. CASE call2[d].ses = s
    BY <1>5, <2>1, <2>3 DEF Serves
  <2>4. CASE call2[d].at # "out" /\ call2[d].ses # s
    <3>1. call2[d].ses \in SesNo
      BY <2>4, TakesSession
    <3>2. ses'[call2[d].ses] = ses[call2[d].ses]
      BY <1>1, <2>4, <3>1
    <3>3. \A b \in Calling : call2'[b].ses = call2[d].ses => call2[b].ses = call2[d].ses
      BY <2>4, <3>1
    <3> QED
      BY <2>1, <3>2, <3>3 DEF Serves
  <2> QED
    BY <2>2, <2>3, <2>4
<1> QED
  BY <1>1, <1>2, <1>3, <1>4, <1>5

\* A step of one request that leaves the sessions and the table alone.
LEMMA OneCaller ==
    ASSUME Nobody \notin SesNo, SInv, NEW c \in Calling, UNCHANGED <<ses, current2, down2, overlapped2>>,
           call2' = [call2 EXCEPT ![c] = call2'[c]], call2'[c] \in Caller,
           call2'[c].at # "subscribing", call2'[c].ses \in {call2[c].ses, Nobody, current2},
           \A q \in SesNo : ses[q].sub \/ ses[q].state = "running" => (T!InHand(q) => T!InHand(q)'),
           Serves(c)',
           down2 /\ call2'[c].at # "out" =>
              /\ call2[c].at # "out" /\ call2'[c].ses = current2
              /\ call2'[c].at \in {"waiting", "closing"}
    PROVE  SInv'
<1>1. call2' = [d \in Calling |-> call2'[d]] /\ \A d \in Calling : d # c => call2'[d] = call2[d]
  BY DEF SInv, Table
<1>2. Table'
  BY <1>1 DEF SInv, Table
<1>3. \A q \in SesNo : Lives(q)'
  BY DEF SInv, Lives
<1>4. ASSUME NEW d \in Calling, d # c PROVE Serves(d)'
  <2>1. call2'[d] = call2[d] /\ Serves(d)
    BY <1>1, <1>4 DEF SInv
  <2>2. CASE call2[d].at = "subscribing"
    <3>1. ses[call2[d].ses].state = "starting" /\ call2[d].ses \in SesNo
      BY <2>1, <2>2, TakesSession DEF Serves
    <3>2. call2[d].ses # current2 /\ call2[d].ses # Nobody
      BY <3>1 DEF SInv, Seated
    <3>3. call2[c].ses # call2[d].ses
      BY <1>4, <2>1, <2>2 DEF Serves
    <3>4. call2'[c].ses # call2[d].ses
      BY <3>2, <3>3
    <3> QED
      BY <1>1, <2>1, <2>2, <3>4 DEF Serves
  <2>3. CASE call2[d].at # "subscribing"
    BY <2>1, <2>3 DEF Serves
  <2> QED
    BY <2>2, <2>3
<1>5. Seated'
  BY <1>1 DEF SInv, Seated, T!MayStart
<1>6. T!FeedsExplained'
  BY DEF SInv, T!FeedsExplained
<1> QED
  BY <1>2, <1>3, <1>4, <1>5, <1>6 DEF SInv

\* A subscription that is not granted, a kill that begins or raises, and a close
\* that is asked for change no session.
LEMMA CallerSteps ==
    ASSUME Nobody \notin SesNo, SInv, NEW c \in Calling,
           T!NotSubscribed(c) \/ T!Kill(c) \/ T!KillRaises(c) \/ T!Close(c)
    PROVE  SInv'
<1>1. call2[c] \in Caller /\ Serves(c)
  BY TakesSession DEF SInv
<1>2. ASSUME T!NotSubscribed(c) \/ T!KillRaises(c) PROVE SInv'
  <2>1. call2' = [call2 EXCEPT ![c] = T!Out] /\ UNCHANGED <<ses, current2, down2, overlapped2>>
    BY <1>2 DEF T!NotSubscribed, T!KillRaises, T!Return
  <2>2. call2'[c] = T!Out /\ \A d \in Calling : d # c => call2'[d] = call2[d]
    BY <2>1 DEF SInv, Table
  <2>3. T!Out \in Caller /\ T!Out.at = "out" /\ T!Out.ses = Nobody
    BY DEF T!Out, Caller
  <2>4. call2[c].at = "killing" \/ (call2[c].at = "subscribing" /\ ~ses[call2[c].ses].sub /\ ses[call2[c].ses].state = "starting")
    BY <1>1, <1>2 DEF T!NotSubscribed, T!KillRaises, Serves
  <2>5. \A q \in SesNo : ses[q].sub \/ ses[q].state = "running" => (T!InHand(q) => T!InHand(q)')
    BY <2>2, <2>4 DEF T!InHand
  <2>6. Serves(c)'
    BY <2>2, <2>3 DEF Serves
  <2>7. call2' = [call2 EXCEPT ![c] = call2'[c]]
    BY <2>1, <2>2
  <2> QED
    BY <2>1, <2>2, <2>3, <2>5, <2>6, <2>7, OneCaller
<1>3. ASSUME T!Kill(c) PROVE SInv'
  <2>1. /\ call2' = [call2 EXCEPT ![c] = [at |-> "killing", ses |-> current2, state |-> "killed"]]
        /\ UNCHANGED <<ses, current2, down2, overlapped2>> /\ call2[c].at = "out" /\ ~down2 /\ current2 # Nobody
    BY <1>3 DEF T!Kill
  <2>2. /\ call2'[c] = [at |-> "killing", ses |-> current2, state |-> "killed"]
        /\ \A d \in Calling : d # c => call2'[d] = call2[d]
    BY <2>1 DEF SInv, Table
  <2>3. call2'[c] \in Caller
    BY <2>2 DEF Caller, SInv, Table
  <2>4. \A q \in SesNo : T!InHand(q) => T!InHand(q)'
    BY <2>1, <2>2, TakesSession DEF T!InHand
  <2>5. Serves(c)'
    BY <2>1, <2>2 DEF Serves, SInv, Seated
  <2>6. call2' = [call2 EXCEPT ![c] = call2'[c]]
    BY <2>1, <2>2
  <2>7. call2'[c].at = "killing" /\ call2'[c].ses = current2
    BY <2>2
  <2>8. ~down2 /\ UNCHANGED <<ses, current2, down2, overlapped2>>
    BY <2>1
  <2> QED
    BY <2>3, <2>4, <2>5, <2>6, <2>7, <2>8, OneCaller
<1>4. ASSUME T!Close(c) PROVE SInv'
  <2>1. /\ call2' = [call2 EXCEPT ![c].at = "closing"] /\ call2[c].at = "waiting"
        /\ UNCHANGED <<ses, current2, down2, overlapped2>>
    BY <1>4 DEF T!Close
  <2>2. /\ call2'[c] = [call2[c] EXCEPT !.at = "closing"]
        /\ \A d \in Calling : d # c => call2'[d] = call2[d]
    BY <2>1 DEF SInv, Table
  <2>3. call2'[c] \in Caller /\ call2'[c].at = "closing" /\ call2'[c].ses = call2[c].ses /\ call2'[c].state = call2[c].state
    BY <1>1, <2>2 DEF Caller
  <2>4. \A q \in SesNo : T!InHand(q) => T!InHand(q)'
    BY <2>1, <2>2, <2>3 DEF T!InHand
  <2>5. Serves(c)'
    BY <1>1, <2>1, <2>3 DEF Serves
  <2>6. call2' = [call2 EXCEPT ![c] = call2'[c]]
    BY <2>1, <2>2
  <2>7. down2 => call2[c].ses = current2
    BY <2>1 DEF SInv, Seated
  <2>8. call2[c].at # "out" /\ UNCHANGED <<ses, current2, down2, overlapped2>>
    BY <2>1
  <2> QED
    BY <2>3, <2>4, <2>5, <2>6, <2>7, <2>8, OneCaller
<1> QED
  BY <1>2, <1>3, <1>4
\* A start takes a session nobody has.
LEMMA StartKeeps ==
    ASSUME Nobody \notin SesNo, SInv, NEW c \in Calling, T!Start(c)
    PROVE  SInv'
<1>1. PICK s \in SesNo :
        /\ ses[s] = T!Unmade
        /\ ses' = [ses EXCEPT ![s].state = "starting"]
        /\ call2' = [call2 EXCEPT ![c] = [T!Out EXCEPT !.at = "subscribing", !.ses = s]]
  BY DEF T!Start
<1>2. /\ call2[c].at = "out" /\ ~down2 /\ T!MayStart /\ UNCHANGED <<current2, down2>>
      /\ overlapped2' = (overlapped2 \/ \E d \in Calling : call2[d].at = "subscribing")
  BY DEF T!Start
<1>3. /\ ses[s].state = "none" /\ ses[s].task = "none" /\ ~ses[s].sub /\ ~ses[s].ended
      /\ ses[s].onStop = 0
  BY <1>1 DEF T!Unmade
<1>4. ses'[s] = [ses[s] EXCEPT !.state = "starting"] /\ ses' = [ses EXCEPT ![s] = ses'[s]]
  BY <1>1 DEF SInv, Table
<1>5. ses[s] \in LiveSession
  BY DEF SInv, Table
<1>6. /\ ses'[s] \in LiveSession
      /\ ses'[s].state = "starting" /\ ses'[s].task = "none" /\ ~ses'[s].sub /\ ~ses'[s].ended
      /\ ses'[s].onStop = 0
  BY <1>3, <1>4, <1>5 DEF LiveSession, States
<1>7. /\ \A d \in Calling : d # c => call2'[d] = call2[d]
      /\ call2'[c] = [at |-> "subscribing", ses |-> s, state |-> "none"]
      /\ call2' = [d \in Calling |-> call2'[d]]
  BY <1>1 DEF SInv, Table, T!Out
<1>8. call2'[c] \in Caller /\ call2'[c].at = "subscribing" /\ call2'[c].ses = s
  BY <1>7 DEF Caller
<1>9. Lives(s)'
  BY <1>6 DEF Lives
<1>10. call2[c].ses = Nobody /\ \A d \in Calling : call2[d].ses # s
  <2>1. ASSUME NEW d \in Calling, call2[d].ses = s PROVE FALSE
    <3>1. call2[d].at # "out" /\ call2[d].at \in {"out", "subscribing", "killing", "waiting", "closing"}
      BY <2>1, TakesSession DEF Caller
    <3> QED
      BY <1>3, <2>1, <3>1 DEF SInv, Serves
  <2> QED
    BY <1>2, <2>1, TakesSession
<1>11. Serves(c)'
  BY <1>6, <1>7, <1>8, <1>10 DEF Serves
<1>12. current2' \in SesNo \cup {Nobody} /\ down2' \in BOOLEAN /\ overlapped2' \in BOOLEAN
  BY <1>2 DEF SInv, Table
<1>13. /\ Table' /\ (\A q \in SesNo : Lives(q)') /\ (\A d \in Calling : Serves(d)')
       /\ \A q \in SesNo : q # s => ses'[q] = ses[q] /\ (T!InHand(q) => T!InHand(q)')
  <2> DEFINE C == {c}
  <2>1. \A d \in C : /\ call2[d].ses \in {s, Nobody} \/ call2[d].at = "killing"
                     /\ call2'[d] \in Caller /\ call2'[d].ses \in {s, Nobody} /\ Serves(d)'
    BY <1>8, <1>10, <1>11
  <2>2. C \in SUBSET Calling /\ \A d \in Calling : d \notin C => call2'[d] = call2[d]
    BY <1>7
  <2>3. \A d \in Calling : d \notin C /\ call2[d].ses = s =>
              /\ call2[d].at # "subscribing" /\ ses'[s].state \notin {"none", "starting"}
              /\ call2[d].at \in {"waiting", "closing"} => ses'[s].task = "none"
    BY <1>10
  <2>4. /\ ses' = [ses EXCEPT ![s] = ses'[s]] /\ call2' = [d \in Calling |-> call2'[d]]
        /\ ses'[s] \in LiveSession
    BY <1>4, <1>6, <1>7
  <2> HIDE DEF C
  <2> QED
    BY SMTT(60), <1>9, <1>12, <2>1, <2>2, <2>3, <2>4, OneSession
<1>14. Seated'
  <2>1. current2 # s
    BY <1>3 DEF SInv, Seated
  <2>2. current2' # Nobody => ses'[current2'].state \notin {"none", "starting"}
    BY <1>2, <1>13, <2>1 DEF SInv, Seated, Table
  <2>3. ~overlapped2' => \A d \in Calling : call2'[d].at = "subscribing" =>
          T!MayStart' /\ \A b \in Calling : call2'[b].at = "subscribing" => b = d
    <3>1. T!MayStart'
      BY <1>2, <1>13, <2>1 DEF T!MayStart
    <3> QED
      BY <1>2, <1>7, <3>1
  <2> QED
    BY <1>2, <2>2, <2>3 DEF Seated
<1>15. T!FeedsExplained'
  BY <1>2, <1>6, <1>13 DEF SInv, T!FeedsExplained
<1> QED
  BY <1>13, <1>14, <1>15 DEF SInv

\* The subscription is there: the session is stored, or nobody has it.
LEMMA SubscribedKeeps ==
    ASSUME Nobody \notin SesNo, SInv, NEW c \in Calling, T!Started(c) \/ T!OnStartRaises(c)
    PROVE  SInv'
<1>0. call2[c].at = "subscribing"
  BY DEF T!Started, T!OnStartRaises
<1> PICK s \in SesNo : s = call2[c].ses
  BY <1>0, TakesSession
<1>1. /\ call2[c].at = "subscribing" /\ UNCHANGED <<down2, overlapped2>>
      /\ call2' = [call2 EXCEPT ![c] = T!Out]
      /\ \/ /\ ses' = [ses EXCEPT ![s].sub = TRUE, ![s].state = "running", ![s].task = "runs"]
            /\ current2' = s
         \/ /\ ses' = [ses EXCEPT ![s].sub = TRUE, ![s].raised = @ \cup {"on_start"}]
            /\ current2' = current2
  BY DEF T!Started, T!OnStartRaises, T!Return
<1>2. /\ ses[s].state = "starting" /\ ~ses[s].sub
      /\ \A d \in Calling : call2[d].ses = s => d = c
  BY <1>1, TakesSession DEF SInv, Serves
<1>3. Lives(s) /\ ses[s] \in LiveSession
  BY <1>2 DEF SInv, Table
<1>4. \/ /\ ses'[s] = [[[ses[s] EXCEPT !.sub = TRUE] EXCEPT !.state = "running"] EXCEPT !.task = "runs"]
         /\ current2' = s
      \/ /\ ses'[s] = [[ses[s] EXCEPT !.sub = TRUE] EXCEPT !.raised = ses[s].raised \cup {"on_start"}]
         /\ current2' = current2
  BY <1>1, <1>2 DEF SInv, Table
<1>5. /\ ses'[s] \in LiveSession /\ ses'[s].ended = ses[s].ended /\ ses'[s].onStop = ses[s].onStop
      /\ ses'[s].sub = TRUE
      /\ \/ ses'[s].state = "running" /\ ses'[s].task = "runs" /\ current2' = s
         \/ ses'[s].state = "starting" /\ ses'[s].task = ses[s].task /\ current2' = current2
            /\ "on_start" \in ses'[s].raised
  <2>1. CASE /\ ses'[s] = [[[ses[s] EXCEPT !.sub = TRUE] EXCEPT !.state = "running"] EXCEPT !.task = "runs"]
             /\ current2' = s
    BY <1>3, <2>1 DEF LiveSession, States
  <2>2. CASE /\ ses'[s] = [[ses[s] EXCEPT !.sub = TRUE] EXCEPT !.raised = ses[s].raised \cup {"on_start"}]
             /\ current2' = current2
    <3>1. ses[s].raised \cup {"on_start"} \in SUBSET {"on_start", "on_stop"}
      BY <1>3 DEF LiveSession
    <3> DEFINE raised == ses[s].raised \cup {"on_start"}
    <3>2. "on_start" \in raised
      OBVIOUS
    <3> HIDE DEF raised
    <3>3. ses'[s] = [[ses[s] EXCEPT !.sub = TRUE] EXCEPT !.raised = raised]
      BY <2>2 DEF raised
    <3>4. raised \in SUBSET {"on_start", "on_stop"}
      BY <3>1 DEF raised
    <3> QED
      BY <1>2, <1>3, <2>2, <3>2, <3>3, <3>4 DEF LiveSession, States
  <2> QED
    BY <1>4, <2>1, <2>2
<1>6. ses' = [ses EXCEPT ![s] = ses'[s]]
  BY <1>1, <1>2 DEF SInv, Table
<1>7. /\ \A d \in Calling : d # c => call2'[d] = call2[d]
      /\ call2'[c] = T!Out /\ call2' = [d \in Calling |-> call2'[d]]
  BY <1>1 DEF SInv, Table
<1>8. T!Out \in Caller /\ T!Out.at = "out" /\ T!Out.ses = Nobody
  BY DEF T!Out, Caller
<1>9. Lives(s)'
  <2>1. ses[s].task = "none" /\ ~ses[s].ended /\ ses[s].onStop = 0
    BY <1>2, <1>3 DEF Lives
  <2>2. ~ses'[s].ended /\ ses'[s].onStop = 0
    BY <1>5, <2>1
  <2>3. CASE ses'[s].state = "running" /\ ses'[s].task = "runs"
    BY <1>5, <2>2, <2>3 DEF Lives
  <2>4. CASE ses'[s].state = "starting" /\ ses'[s].task = ses[s].task /\ "on_start" \in ses'[s].raised
    BY <2>1, <2>2, <2>4 DEF Lives
  <2> QED
    BY <1>5, <2>3, <2>4
<1>10. Serves(c)'
  BY <1>7, <1>8 DEF Serves
<1>11. current2' \in SesNo \cup {Nobody} /\ down2' \in BOOLEAN /\ overlapped2' \in BOOLEAN
  BY <1>1, <1>2, <1>4 DEF SInv, Table
<1>12. /\ Table' /\ (\A q \in SesNo : Lives(q)') /\ (\A d \in Calling : Serves(d)')
       /\ \A q \in SesNo : q # s => ses'[q] = ses[q] /\ (T!InHand(q) => T!InHand(q)')
  <2> DEFINE C == {c}
  <2>1. \A d \in C : /\ call2[d].ses \in {s, Nobody} \/ call2[d].at = "killing"
                     /\ call2'[d] \in Caller /\ call2'[d].ses \in {s, Nobody} /\ Serves(d)'
    BY <1>7, <1>8, <1>10
  <2>2. C \in SUBSET Calling /\ \A d \in Calling : d \notin C => call2'[d] = call2[d]
    BY <1>7
  <2>3. \A d \in Calling : d \notin C /\ call2[d].ses = s =>
              /\ call2[d].at # "subscribing" /\ ses'[s].state \notin {"none", "starting"}
              /\ call2[d].at \in {"waiting", "closing"} => ses'[s].task = "none"
    BY <1>2
  <2> HIDE DEF C
  <2> QED
    BY <1>2, <1>5, <1>6, <1>7, <1>9, <1>11, <2>1, <2>2, <2>3, OneSession
<1>13. ~down2
  BY <1>1 DEF SInv, Seated
<1>14. Seated'
  <2>1. current2 # s
    BY <1>2 DEF SInv, Seated
  <2>2. current2' # Nobody => ses'[current2'].state \notin {"none", "starting"}
    BY <1>4, <1>5, <1>12, <2>1 DEF SInv, Seated, Table
  <2>3. ~overlapped2 => \A d \in Calling : call2'[d].at # "subscribing"
    BY <1>1, <1>7, <1>8 DEF SInv, Seated
  <2> QED
    BY <1>1, <1>13, <2>2, <2>3 DEF Seated
<1>15. T!FeedsExplained'
  <2> SUFFICES ASSUME NEW q \in SesNo, ses'[q].sub
               PROVE  q = current2' \/ T!InHand(q)' \/ overlapped2'
                        \/ "on_start" \in ses'[q].raised \/ ses'[q].crashed
    BY DEF T!FeedsExplained
  <2>1. CASE q = s
    BY <1>5, <2>1
  <2>2. CASE q # s /\ q # current2
    BY <1>1, <1>12, <2>2 DEF SInv, T!FeedsExplained
  <2>3. CASE q # s /\ q = current2 /\ ~overlapped2
    <3>1. ses[q].state # "running" /\ ses[q].state \notin {"none", "starting"} /\ ses[q] \in LiveSession
      BY <1>1, <2>3 DEF SInv, Seated, T!MayStart, Table
    <3>2. ses[q].state \in {"stopped", "killed"} /\ ses[q].sub
      BY <1>12, <2>3, <3>1 DEF LiveSession, States
    <3>3. ses[q].crashed
      BY <3>2 DEF SInv, Lives
    <3> QED
      BY <1>12, <2>3, <3>3
  <2> QED
    BY <1>1, <2>1, <2>2, <2>3
<1> QED
  BY <1>12, <1>14, <1>15 DEF SInv

\* A stop takes the task of its session.
LEMMA TakeKeeps ==
    ASSUME Nobody \notin SesNo, SInv, NEW c \in Calling, NEW s \in SesNo, NEW state \in {"stopped", "killed"},
           T!Take(c, s, state), UNCHANGED <<current2, overlapped2>>,
           call2[c].at = "out" \/ (call2[c].at = "killing" /\ call2[c].ses = s),
           ses[s].state \notin {"none", "starting"}, ~down2,
           down2' \in BOOLEAN, down2' => s = current2 /\ \A d \in Calling : call2[d].at = "out"
    PROVE  SInv'
<1>1. ses' = [ses EXCEPT ![s].task = "none"] /\ call2' = [call2 EXCEPT ![c] = [at |-> "waiting", ses |-> s, state |-> state]]
  BY DEF T!Take
<1>2. ses[s] \in LiveSession /\ Lives(s)
  BY DEF SInv, Table
<1>3. ses'[s] = [ses[s] EXCEPT !.task = "none"] /\ ses' = [ses EXCEPT ![s] = ses'[s]]
  BY <1>1 DEF SInv, Table
<1>4. /\ ses'[s] \in LiveSession /\ ses'[s].task = "none"
      /\ ses'[s].state = ses[s].state /\ ses'[s].sub = ses[s].sub /\ ses'[s].ended = ses[s].ended
      /\ ses'[s].crashed = ses[s].crashed /\ ses'[s].raised = ses[s].raised /\ ses'[s].onStop = ses[s].onStop
  BY <1>2, <1>3 DEF LiveSession
<1>5. /\ \A d \in Calling : d # c => call2'[d] = call2[d]
      /\ call2'[c] = [at |-> "waiting", ses |-> s, state |-> state]
      /\ call2' = [d \in Calling |-> call2'[d]]
  BY <1>1 DEF SInv, Table
<1>6. call2'[c] \in Caller /\ call2'[c].at = "waiting" /\ call2'[c].ses = s /\ call2'[c].state = state
  BY <1>5 DEF Caller
<1>7. T!InHand(s)'
  BY <1>6 DEF T!InHand
<1>8. Lives(s)'
  BY <1>2, <1>4, <1>7 DEF Lives
<1>9. Serves(c)'
  BY <1>4, <1>6 DEF Serves
<1>10. current2' \in SesNo \cup {Nobody} /\ overlapped2' \in BOOLEAN
  BY DEF SInv, Table
<1>11. call2[c].ses \in {s, Nobody}
  BY TakesSession
<1>12. /\ Table' /\ (\A q \in SesNo : Lives(q)') /\ (\A d \in Calling : Serves(d)')
       /\ \A q \in SesNo : q # s => ses'[q] = ses[q] /\ (T!InHand(q) => T!InHand(q)')
  <2> DEFINE C == {c}
  <2>1. \A d \in C : /\ call2[d].ses \in {s, Nobody} \/ call2[d].at = "killing"
                     /\ call2'[d] \in Caller /\ call2'[d].ses \in {s, Nobody} /\ Serves(d)'
    BY <1>6, <1>9, <1>11
  <2>2. C \in SUBSET Calling /\ \A d \in Calling : d \notin C => call2'[d] = call2[d]
    BY <1>5
  <2>3. \A d \in Calling : d \notin C /\ call2[d].ses = s =>
              /\ call2[d].at # "subscribing" /\ ses'[s].state \notin {"none", "starting"}
              /\ call2[d].at \in {"waiting", "closing"} => ses'[s].task = "none"
    BY <1>4 DEF SInv, Serves
  <2> HIDE DEF C
  <2> QED
    BY <1>3, <1>4, <1>5, <1>8, <1>10, <2>1, <2>2, <2>3, OneSession
<1>13. \A q \in SesNo : ses'[q].state = ses[q].state /\ ses'[q].sub = ses[q].sub
                        /\ ses'[q].crashed = ses[q].crashed /\ ses'[q].raised = ses[q].raised
  BY <1>4, <1>12
<1>14. Seated'
  <2>1. T!MayStart => T!MayStart'
    BY <1>13 DEF T!MayStart
  <2>2. current2' # Nobody => ses'[current2'].state \notin {"none", "starting"}
    BY <1>13 DEF SInv, Seated, Table
  <2>3. \A d \in Calling : call2'[d].at = "subscribing" => call2[d].at = "subscribing"
    BY <1>5, <1>6
  <2>4. ~overlapped2' => \A d \in Calling : call2'[d].at = "subscribing" =>
          T!MayStart' /\ \A b \in Calling : call2'[b].at = "subscribing" => b = d
    BY <2>1, <2>3 DEF SInv, Seated
  <2>5. down2' => \A d \in Calling : call2'[d].at # "out" => d = c
    BY <1>5
  <2> QED
    BY <1>6, <2>2, <2>4, <2>5 DEF Seated
<1>15. T!FeedsExplained'
  BY <1>7, <1>12, <1>13 DEF SInv, T!FeedsExplained
<1> QED
  BY <1>12, <1>14, <1>15 DEF SInv

\* A stop ends: on_stop returns and the session has its last state, or it raises
\* and the session has the one it had.  Either way its feed is closed.
LEMMA EndKeeps ==
    ASSUME Nobody \notin SesNo, SInv, NEW c \in Calling, T!Finish(c) \/ T!OnStopRaises(c)
    PROVE  SInv'
<1>0. call2[c].at \in {"waiting", "closing"}
  BY DEF T!Finish, T!OnStopRaises, T!Finishing
<1> PICK s \in SesNo : s = call2[c].ses
  BY <1>0, TakesSession
<1> DEFINE x == T!Closed(c)
<1>1. /\ ses[s] \in LiveSession /\ Lives(s) /\ ses[s].task = "none"
      /\ ses[s].state \notin {"none", "starting"}
      /\ call2[c].state \in {"stopped", "killed"}
  BY <1>0 DEF SInv, Table, Serves
<1>2. /\ x \in LiveSession /\ x.task = "none" /\ x.sub = FALSE
      /\ x.state = ses[s].state /\ x.ended = ses[s].ended /\ x.crashed = ses[s].crashed
      /\ x.raised = ses[s].raised /\ x.onStop = ses[s].onStop
  <2>1. CASE call2[c].at = "closing"
    <3>1. x = [ses[s] EXCEPT !.sub = FALSE]
      BY <2>1 DEF T!Closed
    <3> HIDE DEF x
    <3> QED
      BY <1>1, <3>1 DEF LiveSession
  <2>2. CASE call2[c].at # "closing"
    <3>1. x = ses[s] /\ ~ses[s].sub
      BY <2>2 DEF T!Closed, T!Finish, T!OnStopRaises, T!Finishing, T!MustClose
    <3> HIDE DEF x
    <3> QED
      BY <1>1, <3>1 DEF LiveSession
  <2> QED
    BY <2>1, <2>2
<1>3. /\ call2' = [call2 EXCEPT ![c] = T!Out] /\ UNCHANGED <<down2, overlapped2>>
      /\ \/ /\ ses' = [ses EXCEPT ![s] = [x EXCEPT !.state = call2[c].state, !.ended = TRUE,
                 !.onStop = IF T!MustStop(x) THEN @ + 1 ELSE @]]
            /\ current2' = IF down2 THEN Nobody ELSE current2
         \/ /\ ses' = [ses EXCEPT ![s] = [x EXCEPT !.raised = @ \cup {"on_stop"}]]
            /\ T!MustStop(x) /\ current2' = current2
  BY DEF T!Finish, T!OnStopRaises, T!Return
<1> HIDE DEF x
<1>4. T!MustStop(x) <=> ses[s].state = "running"
  BY <1>1, <1>2 DEF T!MustStop
<1>5. ses' = [ses EXCEPT ![s] = ses'[s]]
  BY <1>3 DEF SInv, Table
<1>6. /\ ses'[s] \in LiveSession /\ ses'[s].task = "none" /\ ses'[s].sub = FALSE
      /\ ses'[s].state \notin {"none", "starting"} /\ Lives(s)'
      /\ current2' \in {current2, Nobody} /\ (current2' # current2 => down2)
      /\ ses'[s].state = "running" => ses[s].state = "running"
  <2>1. CASE /\ ses' = [ses EXCEPT ![s] = [x EXCEPT !.state = call2[c].state, !.ended = TRUE,
                 !.onStop = IF T!MustStop(x) THEN @ + 1 ELSE @]]
             /\ current2' = IF down2 THEN Nobody ELSE current2
    <3> DEFINE n == IF T!MustStop(x) THEN x.onStop + 1 ELSE x.onStop
    <3>1. n \in {0, 1}
      BY <1>1, <1>2, <1>4 DEF Lives, LiveSession
    <3>2. ses'[s] = [x EXCEPT !.state = call2[c].state, !.ended = TRUE,
                 !.onStop = IF T!MustStop(x) THEN @ + 1 ELSE @]
      BY <2>1 DEF SInv, Table
    <3>3. ses'[s] = [x EXCEPT !.state = call2[c].state, !.ended = TRUE, !.onStop = n]
      BY <3>2
    <3> HIDE DEF n
    <3>4. /\ ses'[s] \in LiveSession /\ ses'[s].task = "none" /\ ses'[s].sub = FALSE
          /\ ses'[s].state = call2[c].state /\ ses'[s].ended = TRUE /\ ses'[s].onStop = n
      BY ZenonT(60), <1>1, <1>2, <3>1, <3>3 DEF LiveSession, States
    <3>5. Lives(s)'
      BY <1>1, <3>1, <3>4 DEF Lives
    <3> QED
      BY <1>1, <2>1, <3>4, <3>5
  <2>2. CASE /\ ses' = [ses EXCEPT ![s] = [x EXCEPT !.raised = @ \cup {"on_stop"}]]
             /\ T!MustStop(x) /\ current2' = current2
    <3> DEFINE raised == x.raised \cup {"on_stop"}
    <3>1. raised \in SUBSET {"on_start", "on_stop"} /\ "on_stop" \in raised
      BY <1>2 DEF LiveSession
    <3>2. ses'[s] = [x EXCEPT !.raised = x.raised \cup {"on_stop"}]
      BY <2>2 DEF SInv, Table
    <3>3. ses'[s] = [x EXCEPT !.raised = raised]
      BY <3>2
    <3> HIDE DEF raised
    <3>4. /\ ses'[s] \in LiveSession /\ ses'[s].task = "none" /\ ses'[s].sub = FALSE
          /\ ses'[s].state = "running" /\ ses'[s].ended = x.ended /\ ses'[s].onStop = x.onStop
          /\ "on_stop" \in ses'[s].raised
      BY <1>2, <1>4, <2>2, <3>1, <3>3 DEF LiveSession
    <3>5. ses[s].state = "running" /\ ~x.ended /\ x.onStop = 0
      BY <1>1, <1>2, <1>4, <2>2 DEF Lives
    <3>6. Lives(s)'
      BY <3>4, <3>5 DEF Lives
    <3> QED
      BY <2>2, <3>4, <3>5, <3>6
  <2> QED
    BY <1>3, <2>1, <2>2
<1>7. /\ \A d \in Calling : d # c => call2'[d] = call2[d]
      /\ call2'[c] = T!Out /\ call2' = [d \in Calling |-> call2'[d]]
  BY <1>3 DEF SInv, Table
<1>8. T!Out \in Caller /\ T!Out.at = "out" /\ T!Out.ses = Nobody
  BY DEF T!Out, Caller
<1>9. Serves(c)'
  BY <1>7, <1>8 DEF Serves
<1>10. current2' \in SesNo \cup {Nobody} /\ down2' \in BOOLEAN /\ overlapped2' \in BOOLEAN
  BY <1>3, <1>6 DEF SInv, Table
<1>11. /\ Table' /\ (\A q \in SesNo : Lives(q)') /\ (\A d \in Calling : Serves(d)')
       /\ \A q \in SesNo : q # s => ses'[q] = ses[q] /\ (T!InHand(q) => T!InHand(q)')
  <2> DEFINE C == {c}
  <2>1. \A d \in C : /\ call2[d].ses \in {s, Nobody} \/ call2[d].at = "killing"
                     /\ call2'[d] \in Caller /\ call2'[d].ses \in {s, Nobody} /\ Serves(d)'
    BY <1>7, <1>8, <1>9
  <2>2. C \in SUBSET Calling /\ \A d \in Calling : d \notin C => call2'[d] = call2[d]
    BY <1>7
  <2>3. \A d \in Calling : d \notin C /\ call2[d].ses = s =>
              /\ call2[d].at # "subscribing" /\ ses'[s].state \notin {"none", "starting"}
              /\ call2[d].at \in {"waiting", "closing"} => ses'[s].task = "none"
    BY <1>1, <1>6 DEF SInv, Serves
  <2>4. /\ ses' = [ses EXCEPT ![s] = ses'[s]] /\ call2' = [d \in Calling |-> call2'[d]]
        /\ ses'[s] \in LiveSession /\ Lives(s)'
    BY <1>5, <1>6, <1>7
  <2> HIDE DEF C
  <2> QED
    BY SMTT(60), <1>10, <2>1, <2>2, <2>3, <2>4, OneSession
<1>12. Seated'
  <2>1. \A q \in SesNo : ses'[q].state = "running" => ses[q].state = "running"
    BY <1>6, <1>11
  <2>2. ~down2 => (T!MayStart => T!MayStart')
    BY <1>6, <2>1 DEF T!MayStart
  <2>3. current2' # Nobody => ses'[current2'].state \notin {"none", "starting"}
    BY <1>6, <1>11 DEF SInv, Seated, Table
  <2>4. \A d \in Calling : call2'[d].at # "out" => call2'[d] = call2[d]
    BY <1>7, <1>8
  <2>5. down2 => \A d \in Calling : call2'[d].at = "out"
    BY <1>0, <1>7, <1>8 DEF SInv, Seated
  <2>6. ~overlapped2' => \A d \in Calling : call2'[d].at = "subscribing" =>
          T!MayStart' /\ \A b \in Calling : call2'[b].at = "subscribing" => b = d
    BY <1>3, <2>2, <2>4, <2>5 DEF SInv, Seated
  <2> QED
    BY <1>3, <2>3, <2>5, <2>6 DEF Seated
<1>13. T!FeedsExplained'
  <2> SUFFICES ASSUME NEW q \in SesNo, ses'[q].sub
               PROVE  q = current2' \/ T!InHand(q)' \/ overlapped2'
                        \/ "on_start" \in ses'[q].raised \/ ses'[q].crashed
    BY DEF T!FeedsExplained
  <2>1. q # s /\ ses'[q] = ses[q] /\ (T!InHand(q) => T!InHand(q)')
    BY <1>6, <1>11
  <2>2. CASE q # current2 \/ current2' = current2
    BY <1>3, <2>1, <2>2 DEF SInv, T!FeedsExplained
  <2>3. CASE q = current2 /\ current2' # current2
    \* The end of the application: its one stop is of the table's session.
    BY <1>0, <1>6, <2>1, <2>3 DEF SInv, Seated
  <2> QED
    BY <2>2, <2>3
<1> QED
  BY <1>11, <1>12, <1>13 DEF SInv

\* A hook raises: the session says it has stopped, and keeps its feed.
LEMMA CrashKeeps ==
    ASSUME Nobody \notin SesNo, SInv, NEW s \in SesNo, T!Crash(s)
    PROVE  SInv'
<1>1. /\ ses[s].task = "runs" /\ UNCHANGED <<current2, call2, down2, overlapped2>>
      /\ ses' = [ses EXCEPT ![s].task = "done", ![s].state = "stopped", ![s].crashed = TRUE]
  BY DEF T!Crash
<1>2. ses[s] \in LiveSession /\ Lives(s)
  BY DEF SInv, Table
<1>3. /\ ses'[s] = [[[ses[s] EXCEPT !.task = "done"] EXCEPT !.state = "stopped"] EXCEPT !.crashed = TRUE]
      /\ ses' = [ses EXCEPT ![s] = ses'[s]]
  BY <1>1 DEF SInv, Table
<1>4. /\ ses'[s] \in LiveSession /\ ses'[s].task = "done" /\ ses'[s].state = "stopped"
      /\ ses'[s].crashed = TRUE /\ ses'[s].sub = ses[s].sub /\ ses'[s].ended = ses[s].ended
      /\ ses'[s].raised = ses[s].raised /\ ses'[s].onStop = ses[s].onStop
  BY <1>2, <1>3 DEF LiveSession, States
<1>5. ses[s].state = "running" /\ ~ses[s].ended
  BY <1>1, <1>2 DEF Lives
<1>6. Lives(s)'
  BY <1>2, <1>4, <1>5 DEF Lives
<1>7. /\ Table' /\ (\A q \in SesNo : Lives(q)') /\ (\A d \in Calling : Serves(d)')
       /\ \A q \in SesNo : q # s => ses'[q] = ses[q] /\ (T!InHand(q) => T!InHand(q)')
  <2> DEFINE C == {}
  <2>1. \A d \in C : /\ call2[d].ses \in {s, Nobody} \/ call2[d].at = "killing"
                     /\ call2'[d] \in Caller /\ call2'[d].ses \in {s, Nobody} /\ Serves(d)'
    OBVIOUS
  <2>2. C \in SUBSET Calling /\ \A d \in Calling : d \notin C => call2'[d] = call2[d]
    BY <1>1
  <2>3. \A d \in Calling : d \notin C /\ call2[d].ses = s =>
              /\ call2[d].at # "subscribing" /\ ses'[s].state \notin {"none", "starting"}
              /\ call2[d].at \in {"waiting", "closing"} => ses'[s].task = "none"
    BY <1>1, <1>4, <1>5 DEF SInv, Serves
  <2>4. call2' = [d \in Calling |-> call2'[d]] /\ current2' \in SesNo \cup {Nobody}
        /\ down2' \in BOOLEAN /\ overlapped2' \in BOOLEAN
    BY <1>1 DEF SInv, Table
  <2> HIDE DEF C
  <2> QED
    BY <1>3, <1>4, <1>6, <2>1, <2>2, <2>3, <2>4, OneSession
<1>8. \A q \in SesNo : ses'[q].state = ses[q].state \/ ses'[q].state = "stopped"
  BY <1>4, <1>7
<1>9. Seated'
  <2>1. T!MayStart => T!MayStart'
    BY <1>1, <1>8 DEF T!MayStart
  <2>2. current2' # Nobody => ses'[current2'].state \notin {"none", "starting"}
    BY <1>1, <1>8 DEF SInv, Seated, Table
  <2> QED
    BY <1>1, <2>1, <2>2 DEF SInv, Seated
<1>10. T!FeedsExplained'
  BY <1>1, <1>4, <1>7 DEF SInv, T!FeedsExplained
<1> QED
  BY <1>7, <1>9, <1>10 DEF SInv

\* The application ends: what runs is stopped, then the table is cleared.
LEMMA ShutdownKeeps ==
    ASSUME Nobody \notin SesNo, SInv, NEW c \in Calling, T!Shutdown(c)
    PROVE  SInv'
<1>1. ~down2 /\ down2' = TRUE /\ overlapped2' = overlapped2 /\ \A d \in Calling : call2[d].at = "out"
  BY DEF T!Shutdown
<1>2. CASE ~T!MayStart
  <2>1. current2 \in SesNo /\ ses[current2].state = "running" /\ T!Take(c, current2, "stopped") /\ current2' = current2
    BY <1>2 DEF T!Shutdown, T!MayStart
  <2> QED
    BY <1>1, <2>1, TakeKeeps
<1>3. CASE T!MayStart
  <2>1. current2' = Nobody /\ UNCHANGED <<ses, call2>>
    BY <1>3 DEF T!Shutdown
  <2>2. Table' /\ (\A s \in SesNo : Lives(s)') /\ (\A d \in Calling : Serves(d)') /\ Seated'
    BY <1>1, <2>1 DEF SInv, Table, Lives, Serves, Seated, T!InHand
  <2>3. T!FeedsExplained'
    <3> SUFFICES ASSUME NEW q \in SesNo, ses[q].sub, q = current2 PROVE ses[q].crashed
      BY <1>1, <2>1 DEF SInv, T!FeedsExplained, T!InHand
    <3>1. ses[q].state # "running" /\ ses[q].state \notin {"none", "starting"} /\ ses[q] \in LiveSession
      BY <1>3 DEF SInv, Seated, T!MayStart, Table
    <3>2. ses[q].state \in {"stopped", "killed"}
      BY <3>1 DEF LiveSession, States
    <3> QED
      BY <3>2 DEF SInv, Lives
  <2> QED
    BY <2>2, <2>3 DEF SInv
<1> QED
  BY <1>2, <1>3

\* Every step keeps what is known of the sessions.
LEMMA SessionStep == ASSUME Nobody \notin SesNo, SInv, [T!Next]_(T!vars) PROVE SInv'
<1>1. ASSUME NEW c \in Calling, T!Stop(c) PROVE SInv'
  <2>1. /\ current2 \in SesNo /\ T!Take(c, current2, "stopped") /\ call2[c].at = "out"
        /\ ~down2 /\ UNCHANGED <<current2, down2, overlapped2>>
    BY <1>1 DEF T!Stop, SInv, Table
  <2> QED
    BY <2>1, TakeKeeps DEF SInv, Seated, Table
<1>2. ASSUME NEW c \in Calling, T!KillStops(c) PROVE SInv'
  <2>1. /\ call2[c].at = "killing" /\ T!Take(c, call2[c].ses, "killed")
        /\ UNCHANGED <<current2, down2, overlapped2>>
    BY <1>2 DEF T!KillStops
  <2>2. call2[c].ses \in SesNo /\ ses[call2[c].ses].state \notin {"none", "starting"} /\ ~down2
    BY <2>1, TakesSession DEF SInv, Serves, Seated
  <2>3. down2' \in BOOLEAN /\ ~down2'
    BY <2>1, <2>2 DEF SInv, Table
  <2> PICK s \in SesNo : s = call2[c].ses
    BY <2>2
  <2> QED
    BY <2>1, <2>2, <2>3, TakeKeeps
<1>3. CASE UNCHANGED T!vars
  BY <1>3 DEF T!vars, SInv, Table, Lives, Serves, Seated, T!InHand, T!MayStart, T!FeedsExplained
<1> QED
  BY <1>1, <1>2, <1>3, StartKeeps, SubscribedKeeps, CallerSteps, EndKeeps, ShutdownKeeps, CrashKeeps
  DEF T!Next

\* "One live session per user", and its feed ends with it: an open feed is that
\* of the table's session or of a request's, or was lost in one of the three ways
\* the module names; what ended is closed and its strategy told once, and what
\* says it runs has a task and a feed, is being stopped, or its on_stop raised.
THEOREM SessionsAreAccounted ==
    ASSUME Nobody \notin SesNo
    PROVE  T!Spec => [](T!TypeOK /\ T!SessionsAccounted)
<1>1. SInv => T!TypeOK /\ T!SessionsAccounted
  <2> SUFFICES ASSUME SInv PROVE T!TypeOK /\ T!SessionsAccounted
    OBVIOUS
  <2>1. T!TypeOK
    BY DEF SInv, Table, LiveSession, States, Lives, T!TypeOK
  <2>2. \A s \in SesNo : ses[s].onStop <= 1
    BY DEF SInv, Table, LiveSession
  <2>3. T!StatesTrue
    BY <2>2 DEF SInv, Lives, T!StatesTrue
  <2> QED
    BY <2>1, <2>3 DEF SInv, T!SessionsAccounted
<1>2. SInv /\ [T!Next]_(T!vars) => SInv'
  BY SessionStep
<1> QED
  BY <1>1, <1>2, TableInit, PTL DEF T!Spec

----------------------------------------------------------------------------
(* The tick recorder: where a tick is, and who runs.                         *)

\* A recorder, and a request.
Recording ==
    [made : BOOLEAN, task : {"none", "drain", "flush"}, sub : BOOLEAN, hooked : BOOLEAN,
     pending : SUBSET R!Tick, buffer : SUBSET R!Tick, rows : SUBSET R!Tick,
     thread : {"none", "swap", "write"}, files : [R!Tick -> {0, 1}],
     dropped : SUBSET R!Tick, given : SUBSET R!Tick, late : SUBSET R!Tick]

Asker == [at : {"out", "stopping", "closing", "join", "joining"}, rec : RecNo \cup {Nobody},
          start : BOOLEAN]

\* The ticks that are in a file.
Filed(x) == {n \in R!Tick : x.files[n] = 1}

\* A tick of a recorder is in one place - the subscription, the buffer, the hands
\* of a thread, a file - unless it could not be written; none is of the future.
Apart(x, n) ==
    /\ x.pending \cup x.buffer \cup x.rows \cup Filed(x) \subseteq x.given
    /\ x.given \subseteq Filed(x) \cup x.dropped \cup x.rows \cup x.buffer \cup x.pending
    /\ x.given \subseteq 1 .. n
    /\ x.pending \cap (x.buffer \cup x.rows \cup Filed(x)) = {}
    /\ x.buffer \cap (x.rows \cup Filed(x)) = {}
    /\ x.rows \cap Filed(x) = {}

\* The task, its thread and the subscription of a recorder fit together.
Fits(x) ==
    /\ x.task # "none" => x.sub
    /\ x.sub \/ x.hooked \/ x.thread # "none" => x.made
    /\ x.thread # "write" => x.rows = {}
    /\ x.task = "flush" => x.thread # "none"
    /\ x.task = "drain" => x.thread = "none"

\* A request is there for the recorder.
Stopping(r) == \E c \in Calling : call[c].at = "stopping" /\ call[c].rec = r
Joining(r) == \E c \in Calling : call[c].at = "joining" /\ call[c].rec = r

\* What is left in a buffer or in a subscription has somebody who takes it out,
\* or came while the subscription was being closed.
Cared(r) ==
    LET x == rec[r] IN
    /\ x.buffer # {} => x.task # "none" \/ Stopping(r) \/ R!Closing(r)
    /\ x.hooked => x.task # "none" \/ R!Closing(r) \/ Joining(r) \/ (Stopping(r) /\ x.sub)
    /\ x.pending \subseteq x.late \/ x.task # "none" \/ Joining(r) \/ (Stopping(r) /\ x.sub)
    /\ R!Closing(r) => x.pending \subseteq x.late

\* What a request relies on: a recorder it stops or joins has no task, and one
\* that it joins is its own.
Attends(c) ==
    LET r == call[c].rec IN
    /\ call[c].at \in {"out", "join"} <=> r = Nobody
    /\ call[c].at = "out" => ~call[c].start
    /\ call[c].at \in {"join", "joining"} => call[c].start
    /\ r # Nobody => rec[r].made /\ rec[r].task = "none"
    /\ call[c].at = "joining" =>
         /\ rec[r].thread = "none" /\ rec[r].buffer = {} /\ ~rec[r].sub /\ r # current
         /\ \A d \in Calling : call[d].rec = r => d = c

Recorders ==
    /\ current \in RecNo \cup {Nobody} /\ published \in Nat
    /\ rec \in [RecNo -> Recording] /\ call \in [Calling -> Asker]
    /\ down \in BOOLEAN /\ overlapped \in BOOLEAN

\* The current recorder was started, and without an overlap it alone runs, and
\* not while a start is under way.
Alone ==
    /\ current # Nobody => rec[current].made
    /\ ~overlapped =>
         /\ \A r \in RecNo : rec[r].task # "none" => r = current
         /\ \A c \in Calling : call[c].start =>
              /\ current # Nobody => rec[current].task = "none"
              /\ \A d \in Calling : call[d].start => d = c

RInv ==
    /\ Recorders /\ Alone
    /\ \A r \in RecNo : Apart(rec[r], published) /\ Fits(rec[r]) /\ Cared(r)
    /\ \A c \in Calling : Attends(c)

\* At the start nothing is recorded and nobody asks.
LEMMA RecorderInit == ASSUME Nobody \notin RecNo PROVE R!Init => RInv
<1> SUFFICES ASSUME R!Init PROVE RInv
  OBVIOUS
<1>1. R!Unmade \in Recording /\ R!Out \in Asker
  BY DEF R!Unmade, R!Out, Recording, Asker
<1>2. Filed(R!Unmade) = {}
  BY DEF Filed, R!Unmade
<1>3. \A r \in RecNo : Apart(rec[r], published) /\ Fits(rec[r])
  BY <1>2 DEF R!Init, Apart, Fits, R!Unmade
<1>4. \A c \in Calling : call[c].at = "out" /\ call[c].rec = Nobody /\ ~call[c].start
  BY DEF R!Init, R!Out
<1>5. \A r \in RecNo : rec[r].buffer = {} /\ ~rec[r].hooked /\ rec[r].pending = {} /\ rec[r].task = "none"
  BY DEF R!Init, R!Unmade
<1>6. \A r \in RecNo : Cared(r)
  BY <1>5 DEF Cared
<1>7. \A c \in Calling : Attends(c)
  BY <1>4 DEF Attends
<1>8. Recorders /\ Alone
  BY <1>1, <1>4, <1>5 DEF R!Init, Recorders, Alone
<1> QED
  BY <1>3, <1>6, <1>7, <1>8 DEF RInv

\* What stands in the subscription goes into the buffer.
LEMMA Appends ==
    ASSUME NEW x \in Recording, NEW n, Apart(x, n)
    PROVE  LET y == R!Appended(x) IN
           /\ y \in Recording /\ Apart(y, n)
           /\ y = [x EXCEPT !.buffer = x.buffer \cup x.pending, !.pending = {}]
<1> DEFINE y == R!Appended(x)
<1>1. y = [x EXCEPT !.buffer = x.buffer \cup x.pending, !.pending = {}]
  BY DEF R!Appended
<1>2. y \in Recording
  BY <1>1 DEF Recording
<1>3. /\ y.pending = {} /\ y.buffer = x.buffer \cup x.pending /\ y.rows = x.rows
      /\ y.files = x.files /\ y.given = x.given /\ y.dropped = x.dropped
  BY <1>1 DEF Recording
<1>4. Filed(y) = Filed(x)
  BY <1>3 DEF Filed
<1> HIDE DEF y
<1>5. Apart(y, n)
  BY <1>3, <1>4 DEF Apart
<1> QED
  BY <1>1, <1>2, <1>5 DEF y

\* A thread takes the buffer, or writes or loses what it has taken.
LEMMA Writes ==
    ASSUME NEW x \in Recording, NEW n, Apart(x, n),
           NEW y, y = R!Written(x) \/ y = R!Failed(x)
    PROVE  /\ y \in Recording /\ Apart(y, n) /\ y.rows = {}
           /\ y.made = x.made /\ y.task = x.task /\ y.sub = x.sub /\ y.hooked = x.hooked
           /\ y.pending = x.pending /\ y.buffer = x.buffer /\ y.thread = x.thread
           /\ y.given = x.given /\ y.late = x.late
<1>1. CASE y = R!Written(x)
  <2> DEFINE f == [i \in R!Tick |-> x.files[i] + IF i \in x.rows THEN 1 ELSE 0]
  <2>1. y = [x EXCEPT !.rows = {}, !.files = f]
    BY <1>1 DEF R!Written
  <2>2. \A i \in R!Tick : x.files[i] \in {0, 1} /\ (i \in x.rows => x.files[i] = 0)
    BY DEF Apart, Filed, Recording
  <2>3. f \in [R!Tick -> {0, 1}]
    BY <2>2
  <2>4. \A i \in R!Tick : f[i] = 1 <=> x.files[i] = 1 \/ i \in x.rows
    BY <2>2
  <2> HIDE DEF f
  <2>5. y \in Recording
    BY <2>1, <2>3 DEF Recording
  <2>6. /\ y.rows = {} /\ y.files = f /\ y.pending = x.pending /\ y.buffer = x.buffer
        /\ y.given = x.given /\ y.late = x.late /\ y.dropped = x.dropped
        /\ y.made = x.made /\ y.task = x.task /\ y.sub = x.sub /\ y.hooked = x.hooked
        /\ y.thread = x.thread /\ x.rows \subseteq R!Tick
    BY <2>1 DEF Recording
  <2>7. Filed(y) = Filed(x) \cup x.rows
    BY <2>4, <2>6 DEF Filed
  <2>8. Apart(y, n)
    BY <2>6, <2>7 DEF Apart
  <2> QED
    BY <2>5, <2>6, <2>8
<1>2. CASE y = R!Failed(x)
  <2>1. y = [x EXCEPT !.rows = {}, !.dropped = x.dropped \cup x.rows]
    BY <1>2 DEF R!Failed
  <2>2. y \in Recording
    BY <2>1 DEF Recording
  <2>3. /\ y.rows = {} /\ y.files = x.files /\ y.pending = x.pending /\ y.buffer = x.buffer
        /\ y.given = x.given /\ y.late = x.late /\ y.dropped = x.dropped \cup x.rows
        /\ y.made = x.made /\ y.task = x.task /\ y.sub = x.sub /\ y.hooked = x.hooked
        /\ y.thread = x.thread
    BY <2>1 DEF Recording
  <2>4. Filed(y) = Filed(x)
    BY <2>3 DEF Filed
  <2>5. Apart(y, n)
    BY <2>3, <2>4 DEF Apart
  <2> QED
    BY <2>2, <2>3, <2>5
<1> QED
  BY <1>1, <1>2

\* A flush on the event loop writes or loses the buffer, and leaves a thread what
\* it has taken.
LEMMA Flushes ==
    ASSUME NEW x \in Recording, NEW n, Apart(x, n), NEW ok \in BOOLEAN
    PROVE  LET y == R!Flushed(x, ok) IN
           /\ y \in Recording /\ Apart(y, n) /\ y.buffer = {} /\ y.rows = x.rows
           /\ y.made = x.made /\ y.task = x.task /\ y.sub = x.sub /\ y.hooked = x.hooked
           /\ y.pending = x.pending /\ y.thread = x.thread /\ y.given = x.given /\ y.late = x.late
<1> DEFINE z == [x EXCEPT !.rows = x.buffer, !.buffer = {}]
           d == IF ok THEN R!Written(z) ELSE R!Failed(z)
           y == R!Flushed(x, ok)
           f == [i \in R!Tick |-> x.files[i] + IF i \in x.buffer THEN 1 ELSE 0]
<1>1. y = [d EXCEPT !.rows = x.rows]
  <2>1. R!Swapped([x EXCEPT !.rows = {}]) = z
    BY DEF R!Swapped, Recording
  <2> QED
    BY <2>1 DEF R!Flushed
<1>2. /\ z \in Recording /\ z.rows = x.buffer /\ z.buffer = {} /\ z.files = x.files
      /\ z.made = x.made /\ z.task = x.task /\ z.sub = x.sub /\ z.hooked = x.hooked
      /\ z.pending = x.pending /\ z.thread = x.thread /\ z.given = x.given /\ z.late = x.late
      /\ z.dropped = x.dropped
  BY DEF Recording
<1>3. \A i \in R!Tick : x.files[i] \in {0, 1} /\ (i \in x.buffer => x.files[i] = 0)
  BY DEF Apart, Filed, Recording
<1>4. f \in [R!Tick -> {0, 1}] /\ \A i \in R!Tick : f[i] = 1 <=> x.files[i] = 1 \/ i \in x.buffer
  BY <1>3
<1> HIDE DEF z
<1>5. /\ d \in Recording /\ d.buffer = {}
      /\ d.made = x.made /\ d.task = x.task /\ d.sub = x.sub /\ d.hooked = x.hooked
      /\ d.pending = x.pending /\ d.thread = x.thread /\ d.given = x.given /\ d.late = x.late
      /\ \/ d.files = f /\ d.dropped = x.dropped
         \/ d.files = x.files /\ d.dropped = x.dropped \cup x.buffer
  <2>1. CASE ok
    <3>1. d = [z EXCEPT !.rows = {}, !.files = f]
      BY <1>2, <2>1 DEF R!Written
    <3> HIDE DEF d, f
    <3> QED
      BY <1>2, <1>4, <3>1 DEF Recording
  <2>2. CASE ~ok
    <3>1. d = [z EXCEPT !.rows = {}, !.dropped = x.dropped \cup x.buffer]
      BY <1>2, <2>2 DEF R!Failed
    <3> HIDE DEF d
    <3> QED
      BY <1>2, <3>1 DEF Recording
  <2> QED
    BY <2>1, <2>2
<1> HIDE DEF d
<1>6. y \in Recording
  <2> HIDE DEF y
  <2> QED
    BY <1>1, <1>5 DEF Recording
<1>7. /\ y.rows = x.rows /\ y.buffer = {}
      /\ y.made = x.made /\ y.task = x.task /\ y.sub = x.sub /\ y.hooked = x.hooked
      /\ y.pending = x.pending /\ y.thread = x.thread /\ y.given = x.given /\ y.late = x.late
      /\ \/ y.files = f /\ y.dropped = x.dropped
         \/ y.files = x.files /\ y.dropped = x.dropped \cup x.buffer
  <2> HIDE DEF y
  <2> QED
    BY <1>1, <1>5 DEF Recording
<1> HIDE DEF y
<1>8. \/ Filed(y) = Filed(x) \cup x.buffer /\ y.dropped = x.dropped
      \/ Filed(y) = Filed(x) /\ y.dropped = x.dropped \cup x.buffer
  <2> HIDE DEF f
  <2>1. x.buffer \subseteq R!Tick
    BY DEF Recording
  <2> QED
    BY <1>4, <1>7, <2>1 DEF Filed
<1>9. Apart(y, n)
  BY <1>7, <1>8 DEF Apart
<1> QED
  BY <1>6, <1>7, <1>9 DEF y

\* A request that is not idle works on a recorder, or is about to start one.
LEMMA TakesRecorder ==
    ASSUME Nobody \notin RecNo, RInv, NEW c \in Calling
    PROVE  /\ call[c] \in Asker
           /\ call[c].at \in {"stopping", "closing", "joining"} => call[c].rec \in RecNo
  BY DEF RInv, Recorders, Attends, Asker

\* A step that changes one recorder and one request, which works on it or on
\* none, before and after.
LEMMA OneRecorder ==
    ASSUME Nobody \notin RecNo, RInv, NEW r \in RecNo, NEW C \in SUBSET Calling,
           rec' = [rec EXCEPT ![r] = rec'[r]], rec'[r] \in Recording,
           call' = [d \in Calling |-> call'[d]], current' \in {current, r, Nobody},
           down' \in BOOLEAN, overlapped' \in BOOLEAN, published' = published,
           \A d \in Calling : d \notin C => call'[d] = call[d],
           \A c \in C : /\ call[c].rec \in {r, Nobody}
                        /\ call'[c] \in Asker /\ call'[c].rec \in {r, Nobody},
           Apart(rec'[r], published), Fits(rec'[r]), Cared(r)', \A c \in C : Attends(c)',
           \A d \in Calling : d \notin C /\ call[d].rec = r => Attends(d)',
           Alone'
    PROVE  RInv'
<1>1. \A q \in RecNo : q # r => rec'[q] = rec[q]
  BY DEF RInv, Recorders
<1>2. Recorders'
  BY DEF RInv, Recorders
<1>3. \A q \in RecNo : Apart(rec[q], published)' /\ Fits(rec[q])'
  BY <1>1 DEF RInv
<1>4. ASSUME NEW q \in RecNo, q # r PROVE Cared(q)'
  <2>1. \A d \in Calling : (call'[d].rec = q <=> call[d].rec = q) /\ (call[d].rec = q => call'[d] = call[d])
    BY <1>4
  <2>2. (R!Closing(q)' <=> R!Closing(q)) /\ (Joining(q)' <=> Joining(q)) /\ (Stopping(q)' <=> Stopping(q))
    BY <2>1 DEF R!Closing, Joining, Stopping
  <2> QED
    BY <1>1, <1>4, <2>2 DEF RInv, Cared
<1>5. ASSUME NEW d \in Calling, d \notin C, call[d].rec # r PROVE Attends(d)'
  <2>1. call'[d] = call[d] /\ Attends(d)
    BY <1>5 DEF RInv
  <2>2. CASE call[d].rec = Nobody
    BY <2>1, <2>2 DEF Attends, RInv, Recorders, Asker
  <2>3. CASE call[d].rec # Nobody
    <3>1. call[d].rec \in RecNo
      BY <2>3 DEF RInv, Recorders, Asker
    <3>2. rec'[call[d].rec] = rec[call[d].rec]
      BY <1>1, <1>5, <3>1
    <3>3. \A e \in Calling : call'[e].rec = call[d].rec => call[e].rec = call[d].rec
      BY <1>5, <2>3
    <3> QED
      BY <1>5, <2>1, <2>3, <3>2, <3>3 DEF Attends
  <2> QED
    BY <2>2, <2>3
<1> QED
  BY <1>2, <1>3, <1>4, <1>5 DEF RInv

\* What the loop and the thread of a recorder do to it.
Worked(x, y) ==
    /\ y \in Recording /\ Apart(y, published) /\ Fits(y)
    /\ y.made = x.made /\ y.sub = x.sub /\ y.hooked = x.hooked /\ y.late = x.late
    /\ (y.task # "none" <=> x.task # "none")
    /\ y.pending \in {x.pending, {}}
    /\ y.buffer # {} => x.task # "none" \/ y.buffer = x.buffer
    /\ y.thread # "none" => x.task # "none" \/ x.thread # "none"
    /\ x.task = "none" /\ x.buffer = {} => y.buffer = {}

\* The recorder's own loop and its thread move what they hold, and no request.
LEMMA RecorderWorks ==
    ASSUME Nobody \notin RecNo, RInv, NEW r \in RecNo, R!Drain(r) \/ R!ThreadSwap(r) \/ R!ThreadWrite(r)
    PROVE  RInv'
<1>1. UNCHANGED <<current, call, published, down, overlapped>>
  BY DEF R!Drain, R!ThreadSwap, R!ThreadWrite
<1> PICK x : x = rec[r]
  OBVIOUS
<1>2. x \in Recording /\ Apart(x, published) /\ Fits(x) /\ Cared(r)
  BY DEF RInv, Recorders
<1>3. \E y : rec' = [rec EXCEPT ![r] = y] /\ Worked(x, y)
  <2>1. CASE R!Drain(r)
    <3> PICK y : y = R!Appended(x)
      OBVIOUS
    <3>1. /\ y \in Recording /\ Apart(y, published)
          /\ y = [x EXCEPT !.buffer = x.buffer \cup x.pending, !.pending = {}]
      BY <1>2, Appends
    <3>2. /\ y.pending = {} /\ y.made = x.made /\ y.task = x.task /\ y.sub = x.sub
          /\ y.hooked = x.hooked /\ y.late = x.late /\ y.thread = x.thread /\ y.rows = x.rows
      BY <1>2, <3>1 DEF Recording
    <3>3. x.task = "drain" /\ Fits(y)
      BY <1>2, <2>1, <3>2 DEF R!Drain, Fits
    <3>4. CASE rec' = [rec EXCEPT ![r] = y]
      <4>1. Worked(x, y)
        BY <3>1, <3>2, <3>3 DEF Worked
      <4> QED
        BY <3>4, <4>1
    <3>5. CASE rec' = [rec EXCEPT ![r] = [y EXCEPT !.task = "flush", !.thread = "swap"]]
      <4> PICK z : z = [y EXCEPT !.task = "flush", !.thread = "swap"]
        OBVIOUS
      <4>1. z \in Recording
        BY <3>1 DEF Recording
      <4>2. /\ z.task = "flush" /\ z.thread = "swap" /\ z.pending = y.pending /\ z.made = y.made
            /\ z.sub = y.sub /\ z.hooked = y.hooked /\ z.late = y.late /\ z.rows = y.rows
            /\ z.files = y.files /\ z.buffer = y.buffer /\ z.given = y.given /\ z.dropped = y.dropped
        BY <3>1 DEF Recording
      <4>3. Apart(z, published)
        BY <3>1, <4>2 DEF Apart, Filed
      <4>4. Fits(z)
        BY <3>2, <3>3, <4>2 DEF Fits
      <4>5. Worked(x, z)
        BY <3>2, <3>3, <4>1, <4>2, <4>3, <4>4 DEF Worked
      <4> QED
        BY <3>5, <4>5
    <3> QED
      BY <2>1, <3>4, <3>5 DEF R!Drain
  <2>2. CASE R!ThreadSwap(r)
    <3> PICK y : y = [R!Swapped(x) EXCEPT !.thread = "write"]
      OBVIOUS
    <3>1. y = [[[x EXCEPT !.rows = x.buffer] EXCEPT !.buffer = {}] EXCEPT !.thread = "write"]
      BY DEF R!Swapped
    <3>2. y \in Recording
      BY <1>2, <3>1 DEF Recording
    <3>3. /\ y.rows = x.buffer /\ y.buffer = {} /\ y.thread = "write" /\ y.pending = x.pending
          /\ y.made = x.made /\ y.task = x.task /\ y.sub = x.sub /\ y.hooked = x.hooked
          /\ y.late = x.late /\ y.files = x.files /\ y.given = x.given /\ y.dropped = x.dropped
      BY <1>2, <3>1 DEF Recording
    <3>4. x.thread = "swap" /\ x.rows = {} /\ rec' = [rec EXCEPT ![r] = y]
      BY <1>2, <2>2 DEF R!ThreadSwap, Fits
    <3>5. Apart(y, published)
      BY <1>2, <3>3, <3>4 DEF Apart, Filed
    <3>6. Fits(y)
      BY <1>2, <3>3, <3>4 DEF Fits
    <3>7. Worked(x, y)
      BY <3>2, <3>3, <3>4, <3>5, <3>6 DEF Worked
    <3> QED
      BY <3>4, <3>7
  <2>3. CASE R!ThreadWrite(r)
    <3>1. PICK y \in {R!Written(x), R!Failed(x)} :
             rec' = [rec EXCEPT ![r] = [y EXCEPT !.thread = "none",
                                        !.task = IF y.task = "flush" THEN "drain" ELSE y.task]]
      BY <2>3 DEF R!ThreadWrite
    <3>2. /\ y \in Recording /\ Apart(y, published) /\ y.rows = {}
          /\ y.made = x.made /\ y.task = x.task /\ y.sub = x.sub /\ y.hooked = x.hooked
          /\ y.pending = x.pending /\ y.buffer = x.buffer /\ y.thread = x.thread
          /\ y.given = x.given /\ y.late = x.late
      BY <1>2, Writes
    <3> PICK z : z = [y EXCEPT !.thread = "none",
                               !.task = IF y.task = "flush" THEN "drain" ELSE y.task]
      OBVIOUS
    <3>3. z \in Recording
      BY <3>2 DEF Recording
    <3>4. /\ z.thread = "none" /\ z.task = (IF y.task = "flush" THEN "drain" ELSE y.task)
          /\ z.pending = y.pending /\ z.made = y.made /\ z.sub = y.sub /\ z.hooked = y.hooked
          /\ z.late = y.late /\ z.rows = y.rows /\ z.files = y.files /\ z.buffer = y.buffer
          /\ z.given = y.given /\ z.dropped = y.dropped
      BY <3>2 DEF Recording
    <3>5. Apart(z, published)
      BY <3>2, <3>4 DEF Apart, Filed
    <3>6. x.thread = "write" /\ x.task \in {"none", "drain", "flush"}
      BY <1>2, <2>3 DEF R!ThreadWrite, Recording
    <3>7. Fits(z)
      BY <1>2, <3>2, <3>4, <3>6 DEF Fits
    <3>8. Worked(x, z)
      BY <3>2, <3>3, <3>4, <3>5, <3>6, <3>7 DEF Worked
    <3> QED
      BY <3>1, <3>8
  <2> QED
    BY <2>1, <2>2, <2>3
<1>4. PICK y : rec' = [rec EXCEPT ![r] = y] /\ Worked(x, y)
  BY <1>3
<1>5. rec'[r] = y /\ \A q \in RecNo : q # r => rec'[q] = rec[q]
  BY <1>4 DEF RInv, Recorders, Worked
<1>6. Cared(r)'
  <2>1. (R!Closing(r)' <=> R!Closing(r)) /\ (Joining(r)' <=> Joining(r)) /\ (Stopping(r)' <=> Stopping(r))
    BY <1>1 DEF R!Closing, Joining, Stopping
  <2> QED
    BY <1>2, <1>4, <1>5, <2>1 DEF Cared, Worked
<1>7. \A d \in Calling : call[d].rec = r => Attends(d)'
  BY <1>1, <1>4, <1>5 DEF RInv, Attends, Worked
<1>8. Alone'
  BY <1>1, <1>4, <1>5 DEF RInv, Recorders, Alone, Worked
<1>9. /\ call' = [d \in Calling |-> call'[d]] /\ down' \in BOOLEAN /\ overlapped' \in BOOLEAN
      /\ rec' = [rec EXCEPT ![r] = rec'[r]]
  BY <1>1, <1>4, <1>5 DEF RInv, Recorders
<1>10. rec'[r] \in Recording /\ Apart(rec'[r], published) /\ Fits(rec'[r])
  BY <1>4, <1>5 DEF Worked
<1>11. current' \in {current, r, Nobody} /\ published' = published
  BY <1>1
<1> PICK C \in SUBSET Calling : C = {}
  OBVIOUS
<1>12. /\ \A d \in Calling : d \notin C => call'[d] = call[d]
       /\ \A d \in Calling : d \notin C /\ call[d].rec = r => Attends(d)'
  BY <1>1, <1>7
<1>13. \A c \in C : /\ call[c].rec \in {r, Nobody}
                     /\ call'[c] \in Asker /\ call'[c].rec \in {r, Nobody} /\ Attends(c)'
  OBVIOUS
<1> QED
  BY <1>6, <1>8, <1>9, <1>10, <1>11, <1>12, <1>13, OneRecorder

\* The other requests that stop the recorder find it as they left it.
LEMMA OtherStops ==
    ASSUME Nobody \notin RecNo, RInv, NEW r \in RecNo, NEW c \in Calling,
           \A d \in Calling : d # c => call'[d] = call[d],
           rec'[r].made, rec'[r].task = "none",
           \A d \in Calling : d # c /\ call[d].rec = r => call[d].at # "joining"
    PROVE  \A d \in Calling : d # c /\ call[d].rec = r => Attends(d)'
<1> SUFFICES ASSUME NEW d \in Calling, d # c, call[d].rec = r PROVE Attends(d)'
  OBVIOUS
<1>1. call'[d] = call[d] /\ Attends(d) /\ call[d].at # "joining"
  BY DEF RInv
<1> QED
  BY <1>1 DEF Attends

\* A request takes the current recorder to stop it: its task is cancelled, its
\* thread is not.
CancelsCurrent(c, s) ==
    /\ call[c].at = "out" /\ current # Nobody
    /\ call' = [call EXCEPT ![c] = [at |-> "stopping", rec |-> current, start |-> s]]
    /\ rec' = [rec EXCEPT ![current] = R!Cancelled(rec[current])]

\* Such a step keeps the invariant.
LEMMA Cancels ==
    ASSUME Nobody \notin RecNo, RInv, NEW c \in Calling, NEW s \in BOOLEAN, CancelsCurrent(c, s),
           current' \in {current, Nobody}, overlapped' \in BOOLEAN, UNCHANGED <<published, down>>,
           Alone'
    PROVE  RInv'
<1> PICK r \in RecNo : r = current
  BY DEF RInv, Recorders, CancelsCurrent
<1> PICK x : x = rec[r]
  OBVIOUS
<1>1. x \in Recording /\ Apart(x, published) /\ Fits(x) /\ Cared(r) /\ x.made
  BY DEF RInv, Recorders, Alone, CancelsCurrent
<1> PICK y : y = [x EXCEPT !.task = "none"]
  OBVIOUS
<1>2. rec'[r] = y /\ rec' = [rec EXCEPT ![r] = rec'[r]]
  BY DEF R!Cancelled, RInv, Recorders, CancelsCurrent
<1>3. y \in Recording
  BY <1>1 DEF Recording
<1>4. /\ y.task = "none" /\ y.thread = x.thread /\ y.pending = x.pending /\ y.made = x.made
      /\ y.sub = x.sub /\ y.hooked = x.hooked /\ y.late = x.late /\ y.rows = x.rows
      /\ y.files = x.files /\ y.buffer = x.buffer /\ y.given = x.given /\ y.dropped = x.dropped
  BY <1>1 DEF Recording
<1>5. Apart(y, published) /\ Fits(y)
  BY <1>1, <1>4 DEF Apart, Filed, Fits
<1>6. /\ call'[c] = [at |-> "stopping", rec |-> r, start |-> s]
      /\ \A d \in Calling : d # c => call'[d] = call[d]
      /\ call' = [d \in Calling |-> call'[d]] /\ call[c].rec = Nobody
  BY DEF RInv, Recorders, Attends, CancelsCurrent
<1>7. call'[c] \in Asker
  BY <1>6 DEF Asker
<1>8. Cared(r)'
  <2>1. Stopping(r)'
    BY <1>6 DEF Stopping
  <2>2. R!Closing(r)' => R!Closing(r)
    BY <1>6 DEF R!Closing
  <2>3. Joining(r) => FALSE
    BY DEF Joining, RInv, Attends
  <2>4. R!Closing(r) => x.task = "none"
    BY DEF R!Closing, RInv, Attends
  <2>5. x.sub \/ x.task = "none"
    BY <1>1 DEF Fits
  <2>6. R!Closing(r) => R!Closing(r)'
    BY <1>6 DEF R!Closing
  <2> QED
    BY <1>1, <1>2, <1>4, <2>1, <2>2, <2>3, <2>4, <2>5, <2>6 DEF Cared
<1>9. Attends(c)'
  <2>1. call'[c].at = "stopping" /\ call'[c].rec = r /\ r # Nobody
    BY <1>6
  <2>2. rec'[r].made /\ rec'[r].task = "none"
    BY <1>1, <1>2, <1>4
  <2> QED
    BY <2>1, <2>2 DEF Attends
<1>10. \A d \in Calling : d # c /\ call[d].rec = r => Attends(d)'
  <2>1. \A d \in Calling : d # c /\ call[d].rec = r => call[d].at # "joining"
    BY DEF RInv, Attends
  <2>2. rec'[r].made /\ rec'[r].task = "none"
    BY <1>1, <1>2, <1>4
  <2>3. \A d \in Calling : d # c => call'[d] = call[d]
    BY <1>6
  <2> QED
    BY <2>1, <2>2, <2>3, OtherStops
<1>11. /\ down' \in BOOLEAN /\ published' = published /\ current' \in {current, r, Nobody}
       /\ rec'[r] \in Recording /\ Apart(rec'[r], published) /\ Fits(rec'[r])
  BY <1>2, <1>3, <1>5 DEF RInv, Recorders
<1> PICK C \in SUBSET Calling : C = {c}
  OBVIOUS
<1>12. /\ \A d \in Calling : d \notin C => call'[d] = call[d]
       /\ \A d \in Calling : d \notin C /\ call[d].rec = r => Attends(d)'
  BY <1>6, <1>10
<1>13. \A d \in C : /\ call[d].rec \in {r, Nobody}
                     /\ call'[d] \in Asker /\ call'[d].rec \in {r, Nobody} /\ Attends(d)'
  BY <1>6, <1>7, <1>9
<1> QED
  BY <1>2, <1>6, <1>8, <1>11, <1>12, <1>13, OneRecorder

\* A request that works on no recorder, before and after, changes none.
LEMMA BetweenRecorders ==
    ASSUME Nobody \notin RecNo, RInv, NEW c \in Calling, NEW y,
           y = R!Out \/ y = [at |-> "join", rec |-> Nobody, start |-> TRUE],
           call[c].at \in {"out", "join"}, call' = [call EXCEPT ![c] = y],
           UNCHANGED <<rec, current, published, down>>, overlapped' \in BOOLEAN, Alone'
    PROVE  RInv'
<1>1. /\ y \in Asker /\ y.rec = Nobody /\ y.at \in {"out", "join"}
      /\ y.at = "out" => ~y.start
      /\ y.at = "join" => y.start
  <2>1. CASE y = R!Out
    BY <2>1 DEF R!Out, Asker
  <2>2. CASE y = [at |-> "join", rec |-> Nobody, start |-> TRUE]
    BY <2>2 DEF Asker
  <2> QED
    BY <2>1, <2>2
<1>2. call'[c] = y /\ (\A d \in Calling : d # c => call'[d] = call[d]) /\ call[c].rec = Nobody
  BY DEF RInv, Recorders, Attends
<1>3. Recorders'
  BY <1>1, <1>2 DEF RInv, Recorders
<1>4. \A r \in RecNo, d \in Calling : call'[d].rec = r <=> call[d].rec = r
  BY <1>1, <1>2
<1>5. ASSUME NEW r \in RecNo PROVE Cared(r)'
  <2>1. (R!Closing(r)' <=> R!Closing(r)) /\ (Joining(r)' <=> Joining(r)) /\ (Stopping(r)' <=> Stopping(r))
    BY <1>1, <1>2 DEF R!Closing, Joining, Stopping
  <2> QED
    BY <2>1 DEF RInv, Cared
<1>6. Attends(c)'
  BY <1>1, <1>2 DEF Attends
<1>7. ASSUME NEW d \in Calling, d # c PROVE Attends(d)'
  BY <1>1, <1>2, <1>7 DEF RInv, Attends
<1>8. \A r \in RecNo : Apart(rec[r], published)' /\ Fits(rec[r])'
  BY DEF RInv
<1> QED
  BY <1>3, <1>5, <1>6, <1>7, <1>8 DEF RInv

\* A stop takes the current recorder away from the process.
LEMMA StopTakes == ASSUME Nobody \notin RecNo, RInv, NEW c \in Calling, R!Stop(c) PROVE RInv'
<1>1. /\ call[c].at = "out" /\ current # Nobody
      /\ call' = [call EXCEPT ![c] = [at |-> "stopping", rec |-> current, start |-> FALSE]]
      /\ rec' = [rec EXCEPT ![current] = R!Cancelled(rec[current])]
      /\ current' = Nobody /\ UNCHANGED <<published, down, overlapped>>
  BY DEF R!Stop
<1>2. Alone'
  <2>1. rec[current] \in Recording /\ current \in RecNo
    BY <1>1 DEF RInv, Recorders
  <2>2. rec'[current].task = "none" /\ \A q \in RecNo : q # current => rec'[q] = rec[q]
    BY <1>1, <2>1 DEF R!Cancelled, Recording, RInv, Recorders
  <2>3. \A d \in Calling : call'[d].start => call[d].start
    BY <1>1 DEF RInv, Recorders
  <2> QED
    BY <1>1, <2>2, <2>3 DEF RInv, Alone
<1>3. overlapped' \in BOOLEAN
  BY <1>1 DEF RInv, Recorders
<1>4. CancelsCurrent(c, FALSE)
  BY <1>1 DEF CancelsCurrent
<1> QED
  BY <1>1, <1>2, <1>3, <1>4, Cancels

\* A start stops the recorder that runs, or goes on at once.
LEMMA StartTakes == ASSUME Nobody \notin RecNo, RInv, NEW c \in Calling, R!Start(c) PROVE RInv'
<1>1. /\ call[c].at = "out" /\ ~down /\ UNCHANGED <<current, published, down>>
      /\ overlapped' = (overlapped \/ R!Starting # {})
  BY DEF R!Start
<1>2. overlapped' \in BOOLEAN
  BY <1>1 DEF RInv, Recorders
<1>3. ~overlapped' => ~overlapped /\ \A d \in Calling : ~call[d].start
  BY <1>1 DEF R!Starting
<1>4. CASE R!Replaced(current)
  <2>1. /\ call' = [call EXCEPT ![c] = [at |-> "stopping", rec |-> current, start |-> TRUE]]
        /\ rec' = [rec EXCEPT ![current] = R!Cancelled(rec[current])]
    BY <1>4 DEF R!Start
  <2>2. current # Nobody /\ current \in RecNo
    BY <1>4 DEF R!Replaced, R!Running, RInv, Recorders
  <2>3. rec[current] \in Recording
    BY <2>2 DEF RInv, Recorders
  <2>4. /\ rec'[current].task = "none" /\ rec'[current].made = rec[current].made
        /\ \A q \in RecNo : q # current => rec'[q] = rec[q]
    BY <2>1, <2>2, <2>3 DEF R!Cancelled, Recording, RInv, Recorders
  <2>5. \A d \in Calling : d # c => call'[d] = call[d]
    BY <2>1 DEF RInv, Recorders
  <2>6. Alone'
    BY <1>1, <1>3, <2>2, <2>4, <2>5 DEF RInv, Alone
  <2>7. CancelsCurrent(c, TRUE)
    BY <1>1, <2>1, <2>2 DEF CancelsCurrent
  <2> QED
    BY <1>1, <1>2, <2>6, <2>7, Cancels
<1>5. CASE ~R!Replaced(current)
  <2>1. /\ call' = [call EXCEPT ![c] = [at |-> "join", rec |-> Nobody, start |-> TRUE]]
        /\ rec' = rec
    BY <1>5 DEF R!Start
  <2>2. current # Nobody => rec[current].task = "none"
    BY <1>5 DEF R!Replaced, R!Running, RInv, Recorders, Recording
  <2>3. /\ call'[c] = [at |-> "join", rec |-> Nobody, start |-> TRUE]
        /\ \A d \in Calling : d # c => call'[d] = call[d]
    BY <2>1 DEF RInv, Recorders
  <2>4. Alone'
    BY <1>1, <1>3, <2>1, <2>2, <2>3 DEF RInv, Alone
  <2> QED
    BY <1>1, <1>2, <2>1, <2>3, <2>4, BetweenRecorders
<1> QED
  BY <1>4, <1>5

\* A refused provider ends the request.
LEMMA RefuseKeeps == ASSUME Nobody \notin RecNo, RInv, NEW c \in Calling, R!Refuse(c) PROVE RInv'
<1>1. /\ call[c].at = "join" /\ call' = [call EXCEPT ![c] = R!Out]
      /\ UNCHANGED <<current, rec, published, down, overlapped>>
  BY DEF R!Refuse
<1>2. \A d \in Calling : call'[d].start => call[d].start
  BY <1>1 DEF RInv, Recorders, R!Out
<1>3. Alone' /\ overlapped' \in BOOLEAN
  BY <1>1, <1>2 DEF RInv, Recorders, Alone
<1> QED
  BY <1>1, <1>3, BetweenRecorders

\* A recorder that is swept has had what its subscription held, and is being
\* closed.
LEMMA SweepKeeps == ASSUME Nobody \notin RecNo, RInv, NEW c \in Calling, R!Sweep(c) PROVE RInv'
<1> PICK r \in RecNo : r = call[c].rec
  BY TakesRecorder DEF R!Sweep
<1> PICK x : x = rec[r]
  OBVIOUS
<1> PICK y : y = R!Appended(x)
  OBVIOUS
<1>1. /\ call[c].at = "stopping" /\ x.sub
      /\ rec' = [rec EXCEPT ![r] = y]
      /\ call' = [call EXCEPT ![c].at = "closing"]
      /\ UNCHANGED <<current, published, down, overlapped>>
  BY DEF R!Sweep, R!Swept
<1>2. /\ x \in Recording /\ Apart(x, published) /\ Fits(x) /\ Cared(r) /\ Attends(c)
      /\ call[c] \in Asker
  BY DEF RInv, Recorders
<1>3. x.made /\ x.task = "none" /\ r # Nobody
  BY <1>1, <1>2 DEF Attends
<1>4. /\ y \in Recording /\ Apart(y, published)
      /\ y = [x EXCEPT !.buffer = x.buffer \cup x.pending, !.pending = {}]
  BY <1>2, Appends
<1>5. /\ y.pending = {} /\ y.made = x.made /\ y.task = x.task /\ y.sub = x.sub
      /\ y.hooked = x.hooked /\ y.late = x.late /\ y.thread = x.thread /\ y.rows = x.rows
  BY <1>2, <1>4 DEF Recording
<1>6. Fits(y)
  BY <1>2, <1>5 DEF Fits
<1>7. /\ call'[c] = [call[c] EXCEPT !.at = "closing"]
      /\ \A d \in Calling : d # c => call'[d] = call[d]
      /\ call' = [d \in Calling |-> call'[d]]
  BY <1>1 DEF RInv, Recorders
<1>8. /\ call'[c].at = "closing" /\ call'[c].rec = r /\ call'[c].start = call[c].start
      /\ call'[c] \in Asker
  BY <1>2, <1>7 DEF Asker
<1>9. rec'[r] = y /\ rec' = [rec EXCEPT ![r] = rec'[r]] /\ \A q \in RecNo : q # r => rec'[q] = rec[q]
  BY <1>1 DEF RInv, Recorders
<1>10. Cared(r)'
  <2>1. R!Closing(r)'
    BY <1>8 DEF R!Closing
  <2> QED
    BY <1>5, <1>9, <2>1 DEF Cared
<1>11. Attends(c)'
  <2>1. rec'[r].made /\ rec'[r].task = "none"
    BY <1>3, <1>5, <1>9
  <2>2. call'[c].at = "closing" /\ call'[c].rec = r /\ r # Nobody
    BY <1>3, <1>8
  <2> QED
    BY <2>1, <2>2 DEF Attends
<1>12. \A d \in Calling : d # c /\ call[d].rec = r => Attends(d)'
  <2>1. \A d \in Calling : d # c /\ call[d].rec = r => call[d].at # "joining"
    BY <1>1 DEF RInv, Attends
  <2>2. rec'[r].made /\ rec'[r].task = "none"
    BY <1>3, <1>5, <1>9
  <2> QED
    BY <1>7, <2>1, <2>2, OtherStops
<1>13. Alone'
  <2>1. \A q \in RecNo : rec'[q].task = rec[q].task /\ rec'[q].made = rec[q].made
    BY <1>5, <1>9
  <2>2. \A d \in Calling : call'[d].start = call[d].start
    BY <1>7, <1>8
  <2>3. current' = current /\ overlapped' = overlapped /\ current \in RecNo \cup {Nobody}
    BY <1>1 DEF RInv, Recorders
  <2> QED
    BY <2>1, <2>2, <2>3 DEF RInv, Alone
<1>14. /\ rec'[r] \in Recording /\ Apart(rec'[r], published) /\ Fits(rec'[r])
       /\ current' \in {current, r, Nobody} /\ published' = published
       /\ down' \in BOOLEAN /\ overlapped' \in BOOLEAN
  BY <1>1, <1>4, <1>6, <1>9 DEF RInv, Recorders
<1> PICK C \in SUBSET Calling : C = {c}
  OBVIOUS
<1>15. /\ \A d \in Calling : d \notin C => call'[d] = call[d]
       /\ \A d \in Calling : d \notin C /\ call[d].rec = r => Attends(d)'
       /\ \A d \in C : /\ call[d].rec \in {r, Nobody}
                       /\ call'[d] \in Asker /\ call'[d].rec \in {r, Nobody} /\ Attends(d)'
  BY <1>7, <1>8, <1>11, <1>12
<1> QED
  BY <1>7, <1>9, <1>10, <1>13, <1>14, <1>15, OneRecorder

\* A recorder whose subscription is closed, or never was, writes or loses the
\* rest, and what it is given no more came while it was being closed.
LEMMA CloseKeeps == ASSUME Nobody \notin RecNo, RInv, NEW c \in Calling, R!Close(c) PROVE RInv'
<1> PICK r \in RecNo : r = call[c].rec
  BY TakesRecorder DEF R!Close
<1> PICK x : x = rec[r]
  OBVIOUS
<1>1. PICK z : z = [x EXCEPT !.sub = FALSE, !.hooked = FALSE]
  OBVIOUS
<1>2. /\ call[c].at = "closing" \/ (call[c].at = "stopping" /\ ~x.sub)
      /\ call' = [call EXCEPT ![c] = IF call[c].start
                    THEN [at |-> "join", rec |-> Nobody, start |-> TRUE] ELSE R!Out]
      /\ UNCHANGED <<current, published, down, overlapped>>
  BY DEF R!Close
<1>3. PICK ok \in BOOLEAN : rec' = [rec EXCEPT ![r] = R!Flushed(z, ok)]
  BY <1>1 DEF R!Close
<1>4. PICK y : y = R!Flushed(z, ok)
  OBVIOUS
<1>5. /\ x \in Recording /\ Apart(x, published) /\ Fits(x) /\ Cared(r) /\ Attends(c)
      /\ call[c] \in Asker
  BY DEF RInv, Recorders
<1>6. x.made /\ x.task = "none" /\ r # Nobody
  BY <1>2, <1>5 DEF Attends
<1>7. z \in Recording
  BY <1>1, <1>5 DEF Recording
<1>8. /\ ~z.sub /\ ~z.hooked /\ z.made = x.made /\ z.task = x.task /\ z.thread = x.thread
      /\ z.late = x.late /\ z.pending = x.pending /\ z.buffer = x.buffer /\ z.rows = x.rows
      /\ z.files = x.files /\ z.given = x.given /\ z.dropped = x.dropped
  BY <1>1, <1>5 DEF Recording
<1>9. Apart(z, published)
  <2>1. Filed(z) = Filed(x)
    BY <1>8 DEF Filed
  <2> QED
    BY ZenonT(60), <1>5, <1>8, <2>1 DEF Apart
<1>10. /\ y \in Recording /\ Apart(y, published) /\ y.buffer = {} /\ y.rows = x.rows
      /\ y.made = x.made /\ y.task = x.task /\ ~y.sub /\ ~y.hooked
      /\ y.pending = x.pending /\ y.thread = x.thread /\ y.late = x.late
  BY <1>7, <1>8, <1>9, <1>4, Flushes
<1>11. Fits(y)
  BY <1>5, <1>6, <1>10 DEF Fits
<1>12. /\ \A d \in Calling : d # c => call'[d] = call[d]
       /\ call' = [d \in Calling |-> call'[d]]
       /\ call'[c] = IF call[c].start THEN [at |-> "join", rec |-> Nobody, start |-> TRUE] ELSE R!Out
  BY <1>2 DEF RInv, Recorders
<1>13. /\ call'[c] \in Asker /\ call'[c].at \in {"join", "out"} /\ call'[c].rec = Nobody
       /\ call'[c].start = call[c].start
       /\ call'[c].at = "out" <=> ~call[c].start
  <2>1. CASE call[c].start
    BY <1>12, <2>1 DEF Asker, R!Out
  <2>2. CASE ~call[c].start
    <3>1. call'[c] = R!Out /\ call[c].start \in BOOLEAN
      BY <1>5, <1>12, <2>2 DEF Asker
    <3>2. R!Out \in Asker /\ R!Out.at = "out" /\ R!Out.rec = Nobody /\ ~R!Out.start
      BY DEF Asker, R!Out
    <3>3. call'[c].start = FALSE /\ call[c].start = FALSE
      BY <2>2, <3>1, <3>2
    <3> QED
      BY <3>1, <3>2, <3>3
  <2> QED
    BY <2>1, <2>2
<1>14. rec'[r] = y /\ rec' = [rec EXCEPT ![r] = rec'[r]] /\ \A q \in RecNo : q # r => rec'[q] = rec[q]
  BY <1>3, <1>4 DEF RInv, Recorders
<1>15. x.pending \subseteq x.late
  <2>1. CASE call[c].at = "closing"
    BY <1>5, <2>1 DEF Cared, R!Closing
  <2>2. CASE call[c].at = "stopping" /\ ~x.sub
    <3>1. ~Joining(r)
      BY <2>2 DEF Joining, RInv, Attends
    <3> QED
      BY <1>5, <1>6, <2>2, <3>1 DEF Cared
  <2> QED
    BY <1>2, <2>1, <2>2
<1>16. Cared(r)'
  BY <1>10, <1>14, <1>15 DEF Cared
<1>17. Attends(c)'
  BY <1>13 DEF Attends
<1>18. \A d \in Calling : d # c /\ call[d].rec = r => Attends(d)'
  <2>1. \A d \in Calling : d # c /\ call[d].rec = r => call[d].at # "joining"
    BY <1>2 DEF RInv, Attends
  <2>2. rec'[r].made /\ rec'[r].task = "none"
    BY <1>6, <1>10, <1>14
  <2> QED
    BY <1>12, <2>1, <2>2, OtherStops
<1>19. Alone'
  <2>1. \A q \in RecNo : rec'[q].task = rec[q].task /\ rec'[q].made = rec[q].made
    BY <1>10, <1>14
  <2>2. \A d \in Calling : call'[d].start = call[d].start
    BY <1>12, <1>13
  <2> QED
    BY <1>2, <2>1, <2>2 DEF RInv, Recorders, Alone
<1>20. /\ rec'[r] \in Recording /\ Apart(rec'[r], published) /\ Fits(rec'[r])
       /\ current' \in {current, r, Nobody} /\ published' = published
       /\ down' \in BOOLEAN /\ overlapped' \in BOOLEAN
  BY <1>2, <1>10, <1>11, <1>14 DEF RInv, Recorders
<1> PICK C \in SUBSET Calling : C = {c}
  OBVIOUS
<1>21. /\ \A d \in Calling : d \notin C => call'[d] = call[d]
       /\ \A d \in Calling : d \notin C /\ call[d].rec = r => Attends(d)'
       /\ \A d \in C : /\ call[d].rec \in {r, Nobody}
                       /\ call'[d] \in Asker /\ call'[d].rec \in {r, Nobody} /\ Attends(d)'
  BY <1>12, <1>13, <1>17, <1>18
<1> QED
  BY <1>12, <1>14, <1>16, <1>19, <1>20, <1>21, OneRecorder

\* A start joins with a recorder nobody has.
LEMMA JoinKeeps == ASSUME Nobody \notin RecNo, RInv, NEW c \in Calling, R!Join(c) PROVE RInv'
<1>1. PICK r \in RecNo :
        /\ ~rec[r].made
        /\ rec' = [rec EXCEPT ![r].made = TRUE, ![r].hooked = TRUE]
        /\ call' = [call EXCEPT ![c].at = "joining", ![c].rec = r]
  BY DEF R!Join
<1>2. call[c].at = "join" /\ UNCHANGED <<current, published, down, overlapped>>
  BY DEF R!Join
<1> PICK x : x = rec[r]
  OBVIOUS
<1>3. /\ x \in Recording /\ Apart(x, published) /\ Fits(x) /\ Cared(r) /\ Attends(c)
      /\ call[c] \in Asker
  BY DEF RInv, Recorders
<1>4. \A d \in Calling : call[d].rec # r
  BY <1>1 DEF RInv, Attends, Recorders
<1>5. x.task = "none" /\ ~x.sub /\ x.thread = "none"
  BY <1>1, <1>3 DEF Fits, Recording
<1>6. x.buffer = {}
  BY <1>3, <1>4, <1>5 DEF Cared, Stopping, R!Closing
<1>7. PICK y : y = [x EXCEPT !.made = TRUE, !.hooked = TRUE]
  OBVIOUS
<1>8. rec'[r] = y /\ rec' = [rec EXCEPT ![r] = rec'[r]] /\ \A q \in RecNo : q # r => rec'[q] = rec[q]
  BY <1>1, <1>7 DEF RInv, Recorders
<1>9. y \in Recording
  BY <1>3, <1>7 DEF Recording
<1>10. /\ y.made /\ y.hooked /\ y.task = x.task /\ y.sub = x.sub /\ y.thread = x.thread
       /\ y.late = x.late /\ y.pending = x.pending /\ y.buffer = x.buffer /\ y.rows = x.rows
       /\ y.files = x.files /\ y.given = x.given /\ y.dropped = x.dropped
  BY <1>3, <1>7 DEF Recording
<1>11. Apart(y, published)
  <2>1. Filed(y) = Filed(x)
    BY <1>10 DEF Filed
  <2> QED
    BY <1>3, <1>10, <2>1 DEF Apart
<1>12. Fits(y)
  BY <1>3, <1>10 DEF Fits
<1>13. /\ call'[c] = [call[c] EXCEPT !.at = "joining", !.rec = r]
       /\ \A d \in Calling : d # c => call'[d] = call[d]
       /\ call' = [d \in Calling |-> call'[d]]
  BY <1>1 DEF RInv, Recorders
<1>14. /\ call'[c].at = "joining" /\ call'[c].rec = r /\ call'[c].start = call[c].start
       /\ call'[c] \in Asker
  BY <1>3, <1>13 DEF Asker
<1>15. r # current /\ r # Nobody /\ call[c].rec = Nobody /\ call[c].start
  BY <1>1, <1>2, <1>3 DEF RInv, Alone, Attends
<1>16. Cared(r)'
  <2>1. Joining(r)'
    BY <1>14 DEF Joining
  <2>2. ~R!Closing(r)'
    BY <1>4, <1>13, <1>14 DEF R!Closing
  <2> QED
    BY <1>6, <1>8, <1>10, <2>1, <2>2 DEF Cared
<1>17. Attends(c)'
  <2>1. /\ rec'[r].made /\ rec'[r].task = "none" /\ rec'[r].thread = "none"
        /\ rec'[r].buffer = {} /\ ~rec'[r].sub
    BY <1>5, <1>6, <1>8, <1>10
  <2>2. \A d \in Calling : call'[d].rec = r => d = c
    BY <1>4, <1>13
  <2>3. current' = current /\ call'[c].start
    BY <1>2, <1>14, <1>15
  <2> QED
    BY <1>14, <1>15, <2>1, <2>2, <2>3 DEF Attends
<1>18. Alone'
  <2>1. \A q \in RecNo : rec'[q].task = rec[q].task /\ (rec[q].made => rec'[q].made)
    BY <1>8, <1>10
  <2>2. \A d \in Calling : call'[d].start = call[d].start
    BY <1>13, <1>14
  <2> QED
    BY <1>2, <2>1, <2>2 DEF RInv, Recorders, Alone
<1>19. /\ rec'[r] \in Recording /\ Apart(rec'[r], published) /\ Fits(rec'[r])
       /\ current' \in {current, r, Nobody} /\ published' = published
       /\ down' \in BOOLEAN /\ overlapped' \in BOOLEAN
  BY <1>2, <1>8, <1>9, <1>11, <1>12 DEF RInv, Recorders
<1> PICK C \in SUBSET Calling : C = {c}
  OBVIOUS
<1>20. /\ \A d \in Calling : d \notin C => call'[d] = call[d]
       /\ \A d \in Calling : d \notin C /\ call[d].rec = r => Attends(d)'
       /\ \A d \in C : /\ call[d].rec \in {r, Nobody}
                       /\ call'[d] \in Asker /\ call'[d].rec \in {r, Nobody} /\ Attends(d)'
  BY <1>4, <1>13, <1>14, <1>15, <1>17
<1> QED
  BY <1>8, <1>13, <1>16, <1>18, <1>19, <1>20, OneRecorder

\* The subscription is there: the recorder runs, and is the current one.
LEMMA JoinedKeeps == ASSUME Nobody \notin RecNo, RInv, NEW c \in Calling, R!Joined(c) PROVE RInv'
<1> PICK r \in RecNo : r = call[c].rec
  BY TakesRecorder DEF R!Joined
<1> PICK x : x = rec[r]
  OBVIOUS
<1>1. /\ call[c].at = "joining"
      /\ rec' = [rec EXCEPT ![r].sub = TRUE, ![r].task = "drain"]
      /\ call' = [call EXCEPT ![c] = R!Out]
      /\ current' = r /\ UNCHANGED <<published, down, overlapped>>
  BY DEF R!Joined
<1>2. /\ x \in Recording /\ Apart(x, published) /\ Fits(x) /\ Cared(r) /\ Attends(c)
      /\ call[c] \in Asker
  BY DEF RInv, Recorders
<1>3. /\ x.made /\ x.task = "none" /\ x.thread = "none" /\ call[c].start /\ r # Nobody
      /\ \A d \in Calling : call[d].rec = r => d = c
  BY <1>1, <1>2 DEF Attends
<1>4. PICK y : y = [x EXCEPT !.sub = TRUE, !.task = "drain"]
  OBVIOUS
<1>5. rec'[r] = y /\ rec' = [rec EXCEPT ![r] = rec'[r]] /\ \A q \in RecNo : q # r => rec'[q] = rec[q]
  BY <1>1, <1>4 DEF RInv, Recorders
<1>6. y \in Recording
  BY <1>2, <1>4 DEF Recording
<1>7. /\ y.made = x.made /\ y.hooked = x.hooked /\ y.task = "drain" /\ y.sub /\ y.thread = x.thread
      /\ y.late = x.late /\ y.pending = x.pending /\ y.buffer = x.buffer /\ y.rows = x.rows
      /\ y.files = x.files /\ y.given = x.given /\ y.dropped = x.dropped
  BY <1>2, <1>4 DEF Recording
<1>8. Apart(y, published)
  <2>1. Filed(y) = Filed(x)
    BY <1>7 DEF Filed
  <2> QED
    BY ZenonT(60), <1>2, <1>7, <2>1 DEF Apart
<1>9. Fits(y)
  BY <1>2, <1>3, <1>7 DEF Fits
<1>10. /\ call'[c] = R!Out
       /\ \A d \in Calling : d # c => call'[d] = call[d]
       /\ call' = [d \in Calling |-> call'[d]]
  BY <1>1 DEF RInv, Recorders
<1>11. R!Out \in Asker /\ R!Out.at = "out" /\ R!Out.rec = Nobody /\ ~R!Out.start
  BY DEF R!Out, Asker
<1>12. Cared(r)'
  <2>1. \A d \in Calling : call'[d].rec # r
    BY <1>3, <1>10, <1>11
  <2>2. ~R!Closing(r)'
    BY <2>1 DEF R!Closing
  <2> QED
    BY <1>5, <1>7, <2>2 DEF Cared
<1>13. Attends(c)'
  BY <1>10, <1>11 DEF Attends
<1>14. Alone'
  <2>1. rec'[current'].made
    BY <1>1, <1>3, <1>5, <1>7
  <2>2. ASSUME ~overlapped', NEW q \in RecNo, rec'[q].task # "none" PROVE q = current'
    <3>1. current # Nobody => rec[current].task = "none"
      BY <1>1, <1>3, <2>2 DEF RInv, Alone
    <3>2. rec[q].task # "none" => q = current
      BY <1>1, <2>2 DEF RInv, Alone
    <3>3. q # Nobody
      OBVIOUS
    <3> QED
      BY <1>1, <1>5, <2>2, <3>1, <3>2, <3>3
  <2>3. ~overlapped' => \A d \in Calling : ~call'[d].start
    <3>1. ~overlapped => \A d \in Calling : call[d].start => d = c
      BY <1>3 DEF RInv, Alone
    <3> QED
      BY <1>1, <1>10, <1>11, <3>1
  <2> QED
    BY <2>1, <2>2, <2>3 DEF Alone
<1>15. /\ rec'[r] \in Recording /\ Apart(rec'[r], published) /\ Fits(rec'[r])
       /\ current' \in {current, r, Nobody} /\ published' = published
       /\ down' \in BOOLEAN /\ overlapped' \in BOOLEAN
  BY <1>1, <1>5, <1>6, <1>8, <1>9 DEF RInv, Recorders
<1> PICK C \in SUBSET Calling : C = {c}
  OBVIOUS
<1>16. /\ \A d \in Calling : d \notin C => call'[d] = call[d]
       /\ \A d \in Calling : d \notin C /\ call[d].rec = r => Attends(d)'
       /\ \A d \in C : /\ call[d].rec \in {r, Nobody}
                       /\ call'[d] \in Asker /\ call'[d].rec \in {r, Nobody} /\ Attends(d)'
  BY <1>3, <1>10, <1>11, <1>13
<1> QED
  BY <1>5, <1>10, <1>12, <1>14, <1>15, <1>16, OneRecorder

\* A tick is given to those who are subscribed, and to none twice.
LEMMA PublishKeeps == ASSUME Nobody \notin RecNo, LastTick \in Nat, RInv, R!Publish PROVE RInv'
<1>1. PICK n \in Nat : /\ n = published + 1 /\ n \notin 1 .. published
                       /\ (1 .. published) \cup {n} \subseteq 1 .. n
  <2>1. published \in Nat
    BY DEF RInv, Recorders
  <2>2. /\ published + 1 \in Nat /\ published + 1 \notin 1 .. published
        /\ (1 .. published) \cup {published + 1} \subseteq 1 .. (published + 1)
    BY <2>1
  <2> QED
    BY <2>2
<1>2. /\ n \in R!Tick /\ published' = n /\ published \in Nat /\ n \in Nat
      /\ UNCHANGED <<current, call, down, overlapped>>
      /\ rec' = [r \in RecNo |->
           IF rec[r].hooked
             THEN [rec[r] EXCEPT !.pending = rec[r].pending \cup {n}, !.given = rec[r].given \cup {n},
                     !.late = IF R!Closing(r) THEN rec[r].late \cup {n} ELSE rec[r].late]
             ELSE rec[r]]
  <2>1. published \in Nat /\ published < LastTick /\ published' = n
    BY <1>1 DEF R!Publish, RInv, Recorders
  <2>2. n \in R!Tick /\ n \in Nat
    BY <1>1, <2>1 DEF R!Tick
  <2> QED
    BY <2>1, <2>2 DEF R!Publish
<1>3. ASSUME NEW r \in RecNo
      PROVE  /\ rec'[r] \in Recording /\ Apart(rec'[r], n) /\ Fits(rec'[r]) /\ Cared(r)'
             /\ rec'[r].made = rec[r].made /\ rec'[r].task = rec[r].task /\ rec'[r].thread = rec[r].thread
             /\ rec'[r].sub = rec[r].sub /\ rec'[r].buffer = rec[r].buffer
  <2>1. PICK x : x = rec[r]
    OBVIOUS
  <2>2. x \in Recording /\ Apart(x, published) /\ Fits(x) /\ Cared(r)
    BY <2>1 DEF RInv, Recorders
  <2>3. /\ (R!Closing(r)' <=> R!Closing(r)) /\ (Joining(r)' <=> Joining(r))
        /\ (Stopping(r)' <=> Stopping(r))
    BY <1>2 DEF R!Closing, Joining, Stopping
  <2>4. PICK behind : behind = IF R!Closing(r) THEN x.late \cup {n} ELSE x.late
    OBVIOUS
  <2>5. CASE ~x.hooked
    <3>1. rec'[r] = x
      BY <1>2, <2>1, <2>5
    <3>2. Apart(x, n)
      BY <1>1, <2>2 DEF Apart
    <3> QED
      BY <2>1, <2>2, <2>3, <3>1, <3>2 DEF Cared
  <2>6. CASE x.hooked
    <3>1. PICK y : y = [x EXCEPT !.pending = x.pending \cup {n}, !.given = x.given \cup {n}, !.late = behind]
      OBVIOUS
    <3>2. rec'[r] = y
      BY <1>2, <2>1, <2>4, <2>6, <3>1
    <3>3. behind \subseteq R!Tick
      BY <1>2, <2>2, <2>4 DEF Recording
    <3>4. y \in Recording
      BY <1>2, <2>2, <3>1, <3>3 DEF Recording
    <3>5. /\ y.pending = x.pending \cup {n} /\ y.given = x.given \cup {n} /\ y.late = behind
          /\ y.made = x.made /\ y.hooked = x.hooked /\ y.task = x.task /\ y.sub = x.sub
          /\ y.thread = x.thread /\ y.buffer = x.buffer /\ y.rows = x.rows /\ y.files = x.files
          /\ y.dropped = x.dropped
      BY <2>2, <3>1 DEF Recording
    <3>6. Apart(y, n)
      <4>1. Filed(y) = Filed(x)
        BY <3>5 DEF Filed
      <4>2. n \notin x.given /\ x.given \cup {n} \subseteq 1 .. n
        BY <1>1, <2>2 DEF Apart
      <4> QED
        BY <2>2, <3>5, <4>1, <4>2 DEF Apart
    <3>7. Fits(y)
      BY <2>2, <3>5 DEF Fits
    <3>8. R!Closing(r) => y.pending \subseteq y.late
      BY <2>1, <2>2, <2>4, <3>5 DEF Cared
    <3>9. Cared(r)'
      BY <2>1, <2>2, <2>3, <2>6, <3>2, <3>5, <3>8 DEF Cared
    <3> QED
      BY <2>1, <3>2, <3>4, <3>5, <3>6, <3>7, <3>9
  <2> QED
    BY <2>5, <2>6
<1>4. Recorders'
  <2>1. rec' \in [RecNo -> Recording]
    BY <1>2, <1>3
  <2> QED
    BY <1>2, <2>1 DEF RInv, Recorders
<1>5. Alone'
  <2>1. \A q \in RecNo : rec'[q].made = rec[q].made /\ rec'[q].task = rec[q].task
    BY <1>3
  <2>2. UNCHANGED <<current, call, overlapped>>
    BY <1>2
  <2> QED
    BY <2>1, <2>2 DEF RInv, Recorders, Alone
<1>6. ASSUME NEW c \in Calling PROVE Attends(c)'
  <2>1. call[c].rec \in RecNo \cup {Nobody}
    BY DEF RInv, Recorders, Asker
  <2>2. \A q \in RecNo : /\ rec'[q].made = rec[q].made /\ rec'[q].task = rec[q].task
                           /\ rec'[q].thread = rec[q].thread /\ rec'[q].sub = rec[q].sub
                           /\ rec'[q].buffer = rec[q].buffer
    BY <1>3
  <2>3. UNCHANGED <<current, call>>
    BY <1>2
  <2> QED
    BY <2>1, <2>2, <2>3 DEF RInv, Attends
<1> QED
  BY <1>2, <1>3, <1>4, <1>5, <1>6 DEF RInv

\* The hubs forget everybody, when no request is under way.
LEMMA ForgetKeeps == ASSUME Nobody \notin RecNo, RInv, R!Shutdown PROVE RInv'
<1>1. /\ rec' = [r \in RecNo |-> [rec[r] EXCEPT !.hooked = FALSE]]
      /\ down' = TRUE /\ UNCHANGED <<current, call, published, overlapped>>
  BY DEF R!Shutdown
<1>2. ASSUME NEW r \in RecNo
      PROVE  /\ rec'[r] \in Recording /\ Apart(rec'[r], published) /\ Fits(rec'[r]) /\ Cared(r)'
             /\ rec'[r].made = rec[r].made /\ rec'[r].task = rec[r].task /\ rec'[r].thread = rec[r].thread
             /\ rec'[r].sub = rec[r].sub /\ rec'[r].buffer = rec[r].buffer
  <2>1. PICK x : x = rec[r]
    OBVIOUS
  <2>2. x \in Recording /\ Apart(x, published) /\ Fits(x) /\ Cared(r)
    BY <2>1 DEF RInv, Recorders
  <2>3. /\ (R!Closing(r)' <=> R!Closing(r)) /\ (Joining(r)' <=> Joining(r))
        /\ (Stopping(r)' <=> Stopping(r))
    BY <1>1 DEF R!Closing, Joining, Stopping
  <2>4. PICK y : y = [x EXCEPT !.hooked = FALSE]
    OBVIOUS
  <2>5. rec'[r] = y
    BY <1>1, <2>1, <2>4
  <2>6. y \in Recording
    BY <2>2, <2>4 DEF Recording
  <2>7. /\ y.pending = x.pending /\ y.given = x.given /\ y.late = x.late
        /\ y.made = x.made /\ ~y.hooked /\ y.task = x.task /\ y.sub = x.sub
        /\ y.thread = x.thread /\ y.buffer = x.buffer /\ y.rows = x.rows /\ y.files = x.files
        /\ y.dropped = x.dropped
    BY <2>2, <2>4 DEF Recording
  <2>8. Apart(y, published)
    <3>1. Filed(y) = Filed(x)
      BY <2>7 DEF Filed
    <3> QED
      BY <2>2, <2>7, <3>1 DEF Apart
  <2>9. Fits(y)
    BY <2>2, <2>7 DEF Fits
  <2>10. Cared(r)'
    BY <2>1, <2>2, <2>3, <2>5, <2>7 DEF Cared
  <2> QED
    BY <2>1, <2>5, <2>6, <2>7, <2>8, <2>9, <2>10
<1>3. Recorders'
  <2>1. rec' \in [RecNo -> Recording]
    BY <1>1, <1>2
  <2> QED
    BY <1>1, <2>1 DEF RInv, Recorders
<1>4. Alone'
  <2>1. \A q \in RecNo : rec'[q].made = rec[q].made /\ rec'[q].task = rec[q].task
    BY <1>2
  <2>2. UNCHANGED <<current, call, overlapped>>
    BY <1>1
  <2> QED
    BY <2>1, <2>2 DEF RInv, Recorders, Alone
<1>5. ASSUME NEW c \in Calling PROVE Attends(c)'
  <2>1. call[c].rec \in RecNo \cup {Nobody}
    BY DEF RInv, Recorders, Asker
  <2>2. \A q \in RecNo : /\ rec'[q].made = rec[q].made /\ rec'[q].task = rec[q].task
                           /\ rec'[q].thread = rec[q].thread /\ rec'[q].sub = rec[q].sub
                           /\ rec'[q].buffer = rec[q].buffer
    BY <1>2
  <2>3. UNCHANGED <<current, call>>
    BY <1>1
  <2> QED
    BY <2>1, <2>2, <2>3 DEF RInv, Attends
<1> QED
  BY <1>1, <1>2, <1>3, <1>4, <1>5 DEF RInv

\* Every step keeps what is known of the recorders.
LEMMA RecorderStep ==
    ASSUME Nobody \notin RecNo, LastTick \in Nat, RInv, [R!Next]_(R!vars)
    PROVE  RInv'
<1>1. CASE UNCHANGED R!vars
  <2>1. UNCHANGED <<current, rec, call, published, down, overlapped>>
    BY <1>1 DEF R!vars
  <2>2. Recorders' /\ Alone'
    BY <2>1 DEF RInv, Recorders, Alone
  <2>3. \A r \in RecNo : Apart(rec[r], published)' /\ Fits(rec[r])' /\ Cared(r)'
    BY <2>1 DEF RInv, Cared, R!Closing, Joining, Stopping
  <2>4. \A c \in Calling : Attends(c)'
    BY <2>1 DEF RInv, Attends
  <2> QED
    BY <2>2, <2>3, <2>4 DEF RInv
<1> QED
  BY <1>1, StartTakes, RefuseKeeps, JoinKeeps, JoinedKeeps, StopTakes, SweepKeeps, CloseKeeps,
     RecorderWorks, PublishKeeps, ForgetKeeps
  DEF R!Next

\* "Once more on stop, so a clean shutdown loses nothing", and "one recorder per
\* process": no tick is written twice, and when a recorder is stopped all it was
\* given is in a file, in the hands of a thread, failed to be written, or came
\* after the sweep; a recorder that runs is the current one, unless two starts
\* overlapped (recorder.py:60-200).
THEOREM TicksAreRecorded ==
    ASSUME Nobody \notin RecNo, LastTick \in Nat
    PROVE  R!Spec => [](R!TypeOK /\ R!RecordedOnce /\ R!OneRecorder)
<1>1. RInv => R!TypeOK /\ R!RecordedOnce /\ R!OneRecorder
  <2> SUFFICES ASSUME RInv PROVE R!TypeOK /\ R!RecordedOnce /\ R!OneRecorder
    OBVIOUS
  <2>1. R!TypeOK
    BY DEF RInv, Recorders, Alone, Fits, R!TypeOK, R!Running
  <2>2. R!OneRecorder
    BY DEF RInv, Alone, R!OneRecorder, R!Running
  <2>3. R!RecordedOnce
    <3> SUFFICES ASSUME NEW r \in RecNo
                 PROVE  LET x == rec[r]
                            gone == {n \in R!Tick : x.files[n] = 1} \cup x.dropped \cup x.rows
                        IN  /\ \A n \in R!Tick : x.files[n] <= 1
                            /\ x.given \subseteq gone \cup x.buffer \cup x.pending
                            /\ R!Ended(r) => x.given \subseteq gone \cup (x.pending \cap x.late)
      BY DEF R!RecordedOnce
    <3>1. /\ rec[r] \in Recording /\ Apart(rec[r], published) /\ Cared(r)
      BY DEF RInv, Recorders
    <3>2. \A n \in R!Tick : rec[r].files[n] \in {0, 1}
      BY <3>1 DEF Recording
    <3>3. R!Ended(r) => rec[r].buffer = {} /\ rec[r].pending \subseteq rec[r].late
      BY <3>1 DEF R!Ended, Cared, R!Closing, Joining, Stopping
    <3> QED
      BY <3>1, <3>2, <3>3 DEF Apart, Filed
  <2> QED
    BY <2>1, <2>2, <2>3
<1>2. RInv /\ [R!Next]_(R!vars) => RInv'
  BY RecorderStep
<1> QED
  BY <1>1, <1>2, RecorderInit, PTL DEF R!Spec

\* Prices are numbers, and a window has a length.
=============================================================================

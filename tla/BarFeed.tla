------------------------------ MODULE BarFeed ------------------------------
(* The bars of a live paper session (trading/engine.py, driven by the loop   *)
(* of trading/manager.py) beside those stream/tickdb.py makes of the tape,   *)
(* which replay feeds to the same strategy.  A live print belongs to the     *)
(* window in which it is processed, a print of the tape to that of its own   *)
(* time.  The loop awaits only in drain: prints arrive when it waits there,  *)
(* the newest of each symbol; the clock goes on whenever it likes.  The      *)
(* strategy acts on bars: it may order the symbol of the bar at the market.  *)
EXTENDS Integers, Sequences, FiniteSetsExt

CONSTANTS
  Symbol,
  Prices,     \* positive: what a print may say
  Width,      \* bar_seconds
  MaxClock,   \* bound on the clock
  MaxPrints   \* bound: prints on the tape

VARIABLES
  clock,      \* time.time()
  tape,       \* what the source printed: symbol, price, time
  pending,    \* Subscription.pending, newest print of a symbol, in order of arrival
  turn,       \* _run: where it is, and the drained prints left to process
  building,   \* _building, a bar without prints for none
  emitted,    \* the bars on_bar was given, with the prints in them
  order,      \* the strategy's last order of a symbol
  lost        \* history: prints that newer ones pushed out of pending

vars == <<clock, tape, pending, turn, building, emitted, order, lost>>

\* `prints` is history, and stands for "ticks".
NoBar == [bucket |-> 0, open |-> 0, high |-> 0, low |-> 0, close |-> 0, prints |-> <<>>]
NoOrder == [at |-> "none", bar |-> 0, by |-> "timer", saw |-> 0, filled |-> 0]

Init == /\ clock = 0 /\ tape = <<>> /\ pending = <<>> /\ lost = {}
        /\ turn = [at |-> "drain", left |-> <<>>]
        /\ building = [s \in Symbol |-> NoBar] /\ emitted = [s \in Symbol |-> <<>>]
        /\ order = [s \in Symbol |-> NoOrder]

Bucket(time) == time \div Width

\* _update_bar: a bar is opened by a print and updated by the ones after it.
Opened(n, bucket) == [bucket |-> bucket, open |-> tape[n].price, high |-> tape[n].price,
                      low |-> tape[n].price, close |-> tape[n].price, prints |-> <<n>>]

\* Slip: the low follows the last price.
UpdatedLow(bar, n) ==
  LET price == tape[n].price IN
  [bar EXCEPT !.high = IF @ < price THEN price ELSE @, !.low = price,
              !.close = price, !.prints = Append(@, n)]

Updated(bar, n) ==
  LET price == tape[n].price IN
  [bar EXCEPT !.high = IF @ < price THEN price ELSE @, !.low = IF @ > price THEN price ELSE @,
              !.close = price, !.prints = Append(@, n)]

----------------------------------------------------------------------------
(* The live session. *)

\* push: the newest print takes its symbol's place in the dict, or the last.
Pushed(n) ==
  LET same(m) == tape'[m].symbol = tape'[n].symbol
  IN  IF \E i \in DOMAIN pending : same(pending[i])
        THEN [i \in DOMAIN pending |-> IF same(pending[i]) THEN n ELSE pending[i]]
        ELSE Append(pending, n)

Publish(s, p) ==
  /\ turn.at = "drain" /\ Len(tape) < MaxPrints
  /\ tape' = Append(tape, [symbol |-> s, price |-> p, at |-> clock])
  /\ pending' = Pushed(Len(tape'))
  /\ lost' = lost \cup (Range(pending) \ Range(pending'))
  /\ UNCHANGED <<clock, turn, building, emitted, order>>

\* drain returns what waits, or nothing after its timeout.
Drain == /\ turn.at = "drain"
         /\ turn' = [at |-> "ticks", left |-> pending] /\ pending' = <<>>
         /\ UNCHANGED <<clock, tape, building, emitted, order, lost>>

\* A print fills what rests; on_bar may order, having seen prices up to print n.
Matched(o, n) == IF o.at = "rests" THEN [o EXCEPT !.at = "filled", !.filled = n] ELSE o
Ordered(s, o, by, n) ==
  IF o.at = "rests" THEN o
  ELSE [at |-> "rests", bar |-> Len(emitted[s]) + 1, by |-> by, saw |-> n, filled |-> 0]

\* Slip: the bar is closed first, and what its hook orders takes the print that closed it.
BarFirst(s, n, acts) == Matched(IF acts THEN Ordered(s, order[s], "print", n) ELSE order[s], n)

\* The print fills first, and is last_tick when it closes a bar: the hook sees
\* its price already, and the order misses it.
AfterPrint(s, n, acts) ==
  IF acts THEN Ordered(s, Matched(order[s], n), "print", n) ELSE Matched(order[s], n)

\* process_tick with _update_bar: a print of another window closes the bar.
Process ==
  LET n == Head(turn.left)
      s == tape[n].symbol
      bar == building[s]
      now == Bucket(clock)
      due == bar.prints # <<>> /\ bar.bucket # now
  IN  /\ turn.at = "ticks" /\ turn.left # <<>>
      /\ turn' = [turn EXCEPT !.left = Tail(@)]
      /\ emitted' = IF due THEN [emitted EXCEPT ![s] = Append(@, bar)] ELSE emitted
      /\ building' = [building EXCEPT ![s] =
                        IF bar.prints = <<>> \/ due THEN Opened(n, now) ELSE Updated(bar, n)]
      /\ \E acts \in {FALSE, due} : order' = [order EXCEPT ![s] = AfterPrint(s, n, acts)]
      /\ UNCHANGED <<clock, tape, pending, lost>>

\* Slip: the window that is still open counts as passed.
DueEarly == {s \in Symbol : building[s].prints # <<>> /\ building[s].bucket <= Bucket(clock)}

\* close_due_bars, once a turn: bars whose window has passed, of quiet symbols too.
Due == {s \in Symbol : building[s].prints # <<>> /\ building[s].bucket < Bucket(clock)}
CloseDueBars ==
  /\ turn.at = "ticks" /\ turn.left = <<>>
  /\ turn' = [turn EXCEPT !.at = "drain"]
  /\ emitted' = [s \in Symbol |-> IF s \in Due THEN Append(emitted[s], building[s]) ELSE emitted[s]]
  /\ building' = [s \in Symbol |-> IF s \in Due THEN NoBar ELSE building[s]]
  /\ \E acting \in SUBSET Due :
       order' = [s \in Symbol |->
                   LET prints == building[s].prints
                   IN IF s \in acting THEN Ordered(s, order[s], "timer", prints[Len(prints)])
                                      ELSE order[s]]
  /\ UNCHANGED <<clock, tape, pending, lost>>

Tick == /\ clock < MaxClock /\ clock' = clock + 1
        /\ UNCHANGED <<tape, pending, turn, building, emitted, order, lost>>

Next == \/ \E s \in Symbol, p \in Prices : Publish(s, p)
        \/ Drain \/ Process \/ CloseDueBars \/ Tick

Spec == Init /\ [][Next]_vars

----------------------------------------------------------------------------
(* The tape. *)

\* tickdb.bars: prints grouped by the window of their time.
Windows(s, rows) == {Bucket(tape[n].at) : n \in {m \in rows : tape[m].symbol = s}}
TapeBar(s, rows, bucket) ==
  LET of == {n \in rows : tape[n].symbol = s /\ Bucket(tape[n].at) = bucket}
      prices == {tape[n].price : n \in of}
  IN [bucket |-> bucket, open |-> tape[Min(of)].price, high |-> Max(prices),
      low |-> Min(prices), close |-> tape[Max(of)].price, prints |-> of]

\* replay: what is ordered on a bar takes the open of the symbol's next bar.
ReplayFill(bars, k) == bars[k + 1].open

----------------------------------------------------------------------------
(* Properties. *)

LiveBars(s) == IF building[s].prints = <<>> THEN emitted[s] ELSE Append(emitted[s], building[s])
InBars(s) == UNION {Range(bar.prints) : bar \in Range(LiveBars(s))}
OnTime(s) == \A k \in DOMAIN LiveBars(s) : \A n \in Range(LiveBars(s)[k].prints) :
               Bucket(tape[n].at) = LiveBars(s)[k].bucket

\* Prints and windows are numbered, and a bar's window has begun.
TypeOK ==
  /\ \A n \in DOMAIN tape : tape[n] \in [symbol : Symbol, price : Prices, at : 0 .. clock]
  /\ \A s \in Symbol : \A k \in DOMAIN LiveBars(s) : LiveBars(s)[k].bucket \in 0 .. Bucket(clock)
  /\ order \in [Symbol -> [at : {"none", "rests", "filled"}, bar : Nat, by : {"timer", "print"},
                           saw : 0 .. MaxPrints, filled : 0 .. MaxPrints]]

\* Whichever of the two closes a bar, the first print of a later window or the
\* timer: a print the session was given is in one bar of its symbol, in order,
\* a window has one bar and on_bar gets it when the window is over.  And where
\* every print was processed in the window of its own time, the bars are those
\* tickdb makes of the same prints: what a replay of the tape shows the strategy.
BarsOfTape ==
  \A s \in Symbol :
    LET bars == LiveBars(s)
        of == {n \in DOMAIN tape : tape[n].symbol = s}
        waiting == Range(pending) \cup Range(turn.left) \cup lost
    IN  /\ InBars(s) = of \ waiting
        /\ \A k \in DOMAIN bars : \A i, j \in DOMAIN bars[k].prints :
              i < j => bars[k].prints[i] < bars[k].prints[j]
        /\ \A k, l \in DOMAIN bars : k < l =>
              /\ bars[k].bucket < bars[l].bucket
              /\ \A m \in Range(bars[k].prints), n \in Range(bars[l].prints) : m < n
        /\ \A k \in DOMAIN emitted[s] : emitted[s][k].bucket < Bucket(clock)
        /\ OnTime(s) =>
              /\ {bar.bucket : bar \in Range(bars)} = Windows(s, of \ waiting)
              /\ \A bar \in Range(bars) :
                   [bar EXCEPT !.prints = Range(@)] = TapeBar(s, of \ waiting, bar.bucket)

\* "Nothing ever fills at the price that triggered it": an order of on_bar takes
\* the first print after those its hook could see.  Where the timer closed the
\* bar that is the next bar's open, as in a replay; where a print did, that print
\* is the next bar's open, and the order takes the one after it.
FillsAsReplayed ==
  \A s \in Symbol :
    LET o == order[s]
        bars == LiveBars(s)
    IN  o.at = "filled" =>
          /\ \A n \in InBars(s) : n > o.saw => o.filled <= n
          /\ o.filled > o.saw
          /\ IF o.by = "timer"
               THEN tape[o.filled].price = ReplayFill(bars, o.bar)
               ELSE Head(bars[o.bar + 1].prints) = o.saw
=============================================================================

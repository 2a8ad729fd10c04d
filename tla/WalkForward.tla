----------------------------- MODULE WalkForward -----------------------------
(* The walk-forward portfolio (backtest/walkforward_research.py): research   *)
(* repeated on growing prefixes of one price history, decisions that use the *)
(* newest research, and one bar between a decision and its execution.  Bars  *)
(* are numbered from 0.  A book is a weight per name; what a target is made  *)
(* of is left open, except that it is neutral.  What the loop reads is kept, *)
(* as the last bar each thing was computed from.                             *)
EXTENDS Integers, FiniteSets, FiniteSetsExt

CONSTANTS
  Name,       \* the columns of the price panel
  Books,      \* the targets the blend can ask for
  Train, Purge, Test, Horizon,  \* lengths in bars
  Lengths, Steps,  \* bounds: lengths of the history, and refresh and rebalance periods
  Awares,     \* the options tried: which of alpha_risk_aware and stock_risk_aware are on
  RiskBars    \* factor_risk_refresh_days

VARIABLES
  config,     \* the length of the history, the two periods and the options
  vintage,    \* vintage_by_pos: per bar researched at, the bars its labels end at, by fold
  pos,        \* the bar of the next decision, after the research
  pointer,    \* research_pointer, as the newest bar it has passed, or -1
  risk,       \* latest_factor_risk_pos, or -1
  book,       \* current
  target, cost,  \* target_weights and daily_costs, at the bars that were set
  last        \* what the last decision read and did

vars == <<config, vintage, pos, pointer, risk, book, target, cost, last>>

Unknown == -1   \* no volume, or none above zero
Flat == [n \in Name |-> 0]
Size(x) == IF x < 0 THEN -x ELSE x
\* Sleeves of alpha under the caps of a risk model.
Capped == config.aware = {"alpha", "stock"}
Warmup == Train + Purge + Test
First == Warmup - 1

\* decision_positions leaves out the last bar, where nothing can be executed.
ResearchBars == {b \in First .. config.length - 1 : (b - First) % config.refresh = 0}
DecisionBars == {b \in First .. config.length - 2 : (b - First) % config.rebalance = 0}

----------------------------------------------------------------------------
(* Research on the bars up to one bar. *)

\* _fold_windows over `length` bars: the test blocks, and the bars of each
\* whose label, h bars ahead, still ends inside it.
TestStart(s) == s + Train + Purge
\* Slip: the block is evaluated to its end.
EvalBarsWhole(s) == TestStart(s) .. TestStart(s) + Test - 1
EvalBars(s) == TestStart(s) .. TestStart(s) + Test - 1 - Horizon
\* A block with no such bar is no fold.
Folds(length) ==
  {s \in 0 .. length : s % Test = 0 /\ s + Warmup <= length /\ EvalBars(s) # {}}
Labels(s) == {b + Horizon : b \in EvalBars(s)}

\* research_signal_suite on the prefix: forward_returns has no label past it.
Researched(bar) == [s \in Folds(bar + 1) |-> {l \in Labels(s) : l <= bar}]

Init == /\ config \in [length : Lengths, refresh : Steps, rebalance : Steps, aware : Awares]
        /\ config.length >= Warmup + 1
        /\ vintage = [b \in {} |-> Researched(b)] /\ pos = First /\ pointer = -1 /\ risk = -1
        /\ book = Flat /\ target = [b \in {} |-> Flat] /\ cost = [b \in {} |-> 0]
        /\ last = [at |-> -1]

\* The first loop: every vintage is made before any decision is.
Research ==
  /\ \E b \in ResearchBars \ DOMAIN vintage :
       /\ \A c \in ResearchBars : c < b => c \in DOMAIN vintage
       /\ vintage' = [c \in DOMAIN vintage \cup {b} |->
                        IF c = b THEN Researched(b) ELSE vintage[c]]
  /\ UNCHANGED <<config, pos, pointer, risk, book, target, cost, last>>

----------------------------------------------------------------------------
(* A decision. *)

\* Slip: the pointer moves past the next vintage too.
PassedNext(bar) == Max({b \in ResearchBars : b <= bar + config.refresh} \cup {-1})

\* The while loop over research_pointer.
Passed(bar) == Max({b \in ResearchBars : b <= bar} \cup {-1})

\* _execute_delta.  `room` is, for each name that trades, what the market can
\* take of it in halves of the trade, or that its volume is not known: the
\* whole trade is scaled alike, to nothing if one volume is missing.
Trading(from, to) == {n \in Name : from[n] # to[n]}
Scale(room) ==
  IF \E n \in DOMAIN room : room[n] = Unknown THEN 0 ELSE Min({2} \cup {room[n] : n \in DOMAIN room})

\* Slip: each name is scaled by its own volume.
ExecutedApart(from, to, room) ==
  [n \in Name |-> IF n \notin DOMAIN room THEN from[n]
                  ELSE from[n] + ((to[n] - from[n]) * Scale([m \in {n} |-> room[m]])) \div 2]
Executed(from, to, room) ==
  [n \in Name |-> from[n] + ((to[n] - from[n]) * Scale(room)) \div 2]

\* Slip: the trade is charged when it is decided.
ChargedOnAtOnce(bar) == bar
\* The cost of a trade falls on the bar that executes it.
ChargedOn(bar) == bar + 1

Turnover(from, to) == SumFunction([n \in Name |-> Size(to[n] - from[n])])

\* Without a risk model, a book that is to be capped is flat.
Decide ==
  /\ ResearchBars = DOMAIN vintage /\ pos \in DecisionBars
  /\ pointer' = Passed(pos)
  /\ \E modelled \in BOOLEAN, blend \in Books :
       LET due == "stock" \in config.aware /\ (risk = -1 \/ pos - risk >= RiskBars)
           model == IF due /\ modelled THEN pos ELSE risk
           wanted == IF Capped /\ model = -1 THEN Flat ELSE blend
       IN /\ ~due => modelled
          /\ Capped /\ model = -1 => blend = Flat
          /\ risk' = model
          /\ \E room \in [Trading(book, wanted) -> {Unknown, 1, 2}] :
               /\ book' = Executed(book, wanted, room)
               /\ last' = [at |-> pos, vintage |-> pointer', risk |-> model,
                           due |-> due, room |-> room, from |-> book, wanted |-> wanted]
  /\ target' = [b \in DOMAIN target \cup {pos} |-> IF b = pos THEN book' ELSE target[b]]
  /\ cost' = [b \in DOMAIN cost \cup {ChargedOn(pos)} |->
                IF b = ChargedOn(pos) THEN Turnover(book, book') ELSE cost[b]]
  /\ pos' = pos + config.rebalance
  /\ UNCHANGED <<config, vintage>>

Next == Research \/ Decide
Spec == Init /\ [][Next]_vars

----------------------------------------------------------------------------
(* Properties. *)

\* The loop and what it sets stay on the history.
TypeOK == /\ pos \in First .. config.length + config.rebalance
          /\ pointer \in -1 .. pos /\ risk \in -1 .. pos
          /\ DOMAIN target \subseteq DecisionBars
          /\ DOMAIN cost \subseteq First + 1 .. config.length - 1

\* "prefix_only_no_future_rows", "latest_completed_research_vintage_only" and
\* "labels must finish inside the test block so folds do not borrow the next
\* block's outcome data".  A decision follows all it read; what it read is the
\* newest research there was, and a risk model that is old only where a newer
\* one could not be built.  Without a risk model a capped book is flat.
NoLookAhead ==
  /\ \A b \in DOMAIN vintage : \A s \in DOMAIN vintage[b] :
       \A l \in vintage[b][s] : l <= b /\ l - Horizon >= TestStart(s) /\ l < TestStart(s) + Test
  /\ last.at # -1 =>
       /\ last.vintage <= last.at
       /\ \A b \in ResearchBars : b <= last.at => b <= last.vintage
       /\ last.risk <= last.at
       /\ "stock" \in config.aware /\ last.at - last.risk >= RiskBars => last.due
       /\ Capped /\ last.risk = -1 => last.wanted = Flat

\* The book of a bar is the last one decided before it.
Held(bar) == LET set == {b \in DOMAIN target : b < bar}
             IN IF set = {} THEN Flat ELSE target[Max(set)]

\* "execution_lag_bars: 1": a cost falls on the bars where the book held
\* changes, and is that of the change.
CostsOfChanges ==
  \A b \in First + 1 .. pos : b < config.length =>
    Turnover(Held(b - 1), Held(b)) = IF b \in DOMAIN cost THEN cost[b] ELSE 0

\* And "uniform_scale_of_delta_to_target": no name trades more than its market
\* takes; nothing trades when one volume is not known; and a book of which part
\* could be traded is neutral again.
CostsFollowBook ==
  /\ CostsOfChanges
  /\ SumFunction(book) = 0
  /\ last.at # -1 =>
       \A n \in DOMAIN last.room :
         IF last.room[n] = Unknown THEN book = last.from
         ELSE 2 * Size(book[n] - last.from[n]) <= last.room[n] * Size(last.wanted[n] - last.from[n])
=============================================================================

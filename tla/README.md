# A verification project for the mini financial terminal

TLA+ models of the terminal's stateful core and of the calculations in it that
are hard to test, the TLC configurations that check them on small instances,
and TLAPS proofs of the properties that matter most.  Paths are relative to the
repository root, most often under `backend/`, unless they end in `.tla` or
`.cfg`.

## 1. Inventory of the system

The terminal is one FastAPI process (`backend/main.py`) with a SQLite database,
a browser client, two command-line jobs and a handful of long-lived in-process
objects.  Handlers declared `def` run on a thread pool, handlers declared
`async def` and all streaming code run on one event loop; each request and each
command-line job has a database session of its own.

| Part | Code (in `backend/`) | State it keeps | Hard behaviour |
|---|---|---|---|
| Daily production cycle | `trading/production.py`, `routers/production.py`, `cli/daily_cycle.py` | runs, orders, position snapshots and vintages in the database | two jobs at once, crash between a broker call and its commit, lost replies, partial fills, two broker kinds |
| Paper-trading sessions | `trading/{manager,engine,oms,risk,broker,strategy}.py`, `routers/trading.py` | a session per user: strategy engine, risk gate, order manager, broker adapter, kill flag | kill against ticks in flight, orders at the broker while the loop does something else, overlapping starts, hooks that raise |
| Stream hub | `stream/hub.py`, `stream/sources.py` | subscribers, counts per symbol, one upstream task per source, last tick per symbol | subscribe and unsubscribe racing the source task, reconnects, linger before closing, slow readers, two names of one ticker |
| Tick recorder | `stream/recorder.py`, `stream/tickdb.py` | one recorder per process, its buffer, the part files | flush failing, stop against a flush in a thread, two starts at once |
| Playground kernels | `playground/{manager,kernel}.py`, `routers/playground.py` | one process per user, a lock per kernel, an idle reaper | a reset, the reaper or a shutdown while a cell runs or waits; time-outs and late answers |
| Provider cache and HTTP client | `cache.py`, `core/{http,caching}.py` | a memory layer per process over one file of rows with their age | entries built from entries, processes sharing the file, retries |
| Portfolio accounting | `portfolio/accounting.py`, `routers/portfolio.py` | transactions; positions and cash derived from them | lots through flat, requests that re-derive from what they had loaded |
| Accounts and sessions | `auth.py`, `routers/{auth,user}.py` | users, tokens, preferences, watchlists, alerts | alerts edited while they are evaluated |
| Thesis scheduler and memory | `thesis/{scheduler,memory,fresh}.py` | the signal log: events and what they were worth at each horizon; a periodic sweep | sweeps by clock and by hand, scans and the backfill in sessions of their own; a batch full of events that cannot be graded |
| Thesis spine | `thesis/spine.py`, `routers/thesis.py` | theses and their checks | two evaluations over rows loaded before |
| Assistant | `assistant/*`, `routers/assistant.py` | nothing between turns; the tool loop of one turn | failing tools, the cap on rounds, one terminal event |
| Command core | `core/{registry,api,interface,models,utils,docs,errors}.py`, `cli/terminal.py` | a registry filled at import; the command history | - |
| Extensions | `extensions/*` | none (one command per function) | - |
| Providers | `providers/*`, `data/provider.py` | none of their own (they call the cache) | quarters from overlapping spans, breakdowns tagged at two levels |
| Research and backtests | `backtest/*`, `research/*`, `factors/*` | none, but for archived snapshots | what was known when, gates over many signals, stops, costs |
| Flagged names and thesis pipeline | `flagged/*`, the rest of `thesis/*` | cached documents | filings that tell one decision several times |
| Analytics, valuation, reports | `portfolio/*` except accounting, `valuation/*`, `reports/*` | none | a curve that has to end where the ledger does |
| Application shell | `{main,config,database,schemas,models}.py`, the other routers | settings, engine | order of shutdown |
| Browser client | `frontend/app.js`, `frontend/index.html` | the page; watchers of quotes, a connection per provider, the boxes of the workspace | replies that come after the page was drawn again, connections aborted while they wait |

How they interact: the production cycle calls the research code as a function
and the broker over HTTPS; a paper session subscribes to the stream hub, feeds
its engine, and posts orders through a broker executor thread; the recorder is
one more subscriber of the hub; the playground and assistant call back into the
command core; everything that fetches goes through the cache; the sweep, the
scans and the evaluations share the database with every request.

### What makes each part correct

- **Production cycle.**  The ledger books exactly what the venue executed, once;
  a booked row is final; ledger and broker differ only for a reason one can
  name; nothing reaches the venue past the gateway; the book stays within the
  targets; open orders are booked at last and the two books converge.  The
  newest approved vintage is the one that trades.
- **Paper session.**  No order is posted twice or forgotten, whatever threads
  flush the queue; what is reported filled is booked once and whole, and an
  execution is overlooked only in ways one can name; orders walk the life a
  broker gives them; a kill ends.
- **Session table.**  One running session per user; its feed ends with it; the
  state it shows is the one it is in.
- **Paper engine.**  Cash and positions balance with the executions, an order
  fills at the next print and never at its own, a flatten leaves the book flat,
  and the internal executor implements the same order machine as the broker's.
- **Stream hub.**  Counts are exact, the upstream set is the union of what is
  watched, the source runs while somebody watches and stops afterwards, a slow
  reader loses old ticks only; under Alpaca's names a reader gets his ticks with
  their price.
- **Recorder.**  One runs per process; a tick drained is written once, whatever
  flushes and stops overlap.
- **Kernels.**  One process per user; a cell gets its own answer or an error; a
  result from a process without the old variables says so.
- **Cache.**  What is served is younger than its lifetimes together.
- **Portfolio.**  Lots, cash and realised profit add up in any order of entry
  and under both methods; positions and cash are those of the log; the curve
  ends where the ledger does, and a deposit is no gain.
- **Signal log.**  A grade is never lost; an event of a living symbol gets every
  grade.
- **Theses and alerts.**  A broken check stays broken, a trigger that was told
  is counted.
- **Research.**  No study reads what was not known; a signal that is used has
  earned it and is the only one of its cluster; a stopped position stays out;
  costs explain the books.
- **Filings.**  One decision is one row, a quarter has one amount, a part of the
  revenue stands in one row.
- **Browser.**  One connection per provider, with the symbols in sight; a box
  hears of what it shows, through the one watcher it can close.
- **Assistant.**  Every tool call is answered in the next request, and a turn
  has one end.

## 2. Modules

```
OrderBook            what oms.py promises of its order machine
  ^ implemented by
PaperSession         session at a broker: loop, threads, venue, stop, kill
  MCPaperSession     instances for TLC
  PaperSessionProofs (EXTENDS Sums)
  ^ and by
PaperEngine          session with the internal executor: ticks, accounts, caps
  MCPaperEngine
  PaperEngineProofs  (EXTENDS Sums)

ProductionCycle      cycle, reconciliation, both brokers, venue, crashes
  MCProductionCycle
  ProductionCycleProofs  (EXTENDS Sums)

Sums                 lemmas: induction, and sums over finite sets

StreamHub            hub, Yahoo source, readers, vendor
  MCStreamHub, StreamHubProofs

SignalLog            scans, sweeps and the backfill over the signal log
  MCSignalLog, SignalLogProofs

ServiceParts         the parts that stand alone, an instance of each:
  SessionTable  Recorder  Kernels          objects on the loop, in threads, in processes
  ProviderCache AlpacaSource               what lies between the vendors and a reader
  ThesisLedger  AlertBook  VintageRegistry rows loaded, judged and written later
  WalkForward   StopLoss   PointInTime     the parts of a study
  BarFeed                                  live bars beside those of the tape
  AssistantTurn                            one turn
  LiveClient    Workspace                  the browser's feed and who listens to it
  PeripheryProofs  (EXTENDS Sums)          theorems about each of them

Services             (EXTENDS ServiceParts) one of each, with the parts that use others:
  Blotter       (EXTENDS PortfolioReplay)  requests over one portfolio
  PortfolioCurve (EXTENDS BlotterLog, which EXTENDS PortfolioReplay)
  SignalGates   Backtest                   more of a study
  Disclosures   Quarters  SegmentTable     what is made of filings
  MCServices                               its constants for TLC
  ServiceProofs  (EXTENDS PeripheryProofs) theorems about the blotter and the
                                           backtest, and about all of them together
```

Definitions whose comment begins with "Slip:" are variants of the definition
that follows them, with a mistake one could make in that code; `PROJECT.json`
uses them to show that each property notices its mistake.  Nothing in `Next`
refers to them.

### ProductionCycle

| State | Code |
|---|---|
| `run`, `order` | the committed rows of `production_runs` and `production_orders`; `sent` says that the row has a broker id, `fill` is its `fill_qty` |
| `pc`, `job` | where a call of `run_daily_cycle` or `reconcile` is, and what it holds in memory: the broker it was asked for, what its poll has learned, the ledger's positions as it read them, the drafts of its rows |
| `venue`, `account` | the orders and the positions at Alpaca (external) |
| `tradingOn`, `day` | `settings.trading_enabled` and the clock |
| `failures`, `overlapped` | a bound, and history for one property |

A step is what happens between two points where another job can get in: a
commit, or a request to the broker.  `StartCycle`/`BlockAtStart` are stages 1
and 2; `Poll`, `Book`, `ReadLedger` and
`BlockOnDiscrepancy`/`Reconciled`/`ReportComparison` are `reconcile`, split at
the broker's answers and at the commit; `Plan`,
`Submit*` and `Finish` are stages 10 to 12, the submit loop broken at each
request; `BlockOnEquity` and `Block` are the failing stages between.  `Fail` is
a crash or a failed commit anywhere.  A reply that is lost is
`SubmitTimedOut`: the venue has the order, the row says rejected.

The comparison is made of two reads: `ReadLedger` takes the ledger's positions
(`production.py:882`) and the broker answers later (`:884`), so another job may
book between and the two need not be of one moment.  With the ledger as broker
both are reads of one table, and may differ for that reason too.

Abstractions.  A target is a number of shares, so the optimiser, prices and the
scaling of a vector to the average volume appear as a choice (`Target`, `Nav`,
`Capacity`).  The poll of all open orders is one step that learns any subset of
what the venue would answer, which covers every order of its requests, since
what it learns (an order has ended) stays true.  The vintage a cycle trades is
an input here, and `VintageRegistry` says which one it is.  Two jobs may hold the database at once; SQLite's write lock allows
fewer interleavings than the model does, and the CLI job is a second process.
The snapshot table is written and never read, and left out.

### PaperSession and OrderBook

| State | Code |
|---|---|
| `order`, `pos` | `OrderManager.orders` (`known` says that it has a broker id) and its position in the one symbol |
| `outbox` | `AlpacaPaperExecutor._outbox` |
| `killed`, `state` | `RiskGate.killed`, `LiveSession.state` |
| `task`, `killer` | where the session's `_run` and each call of `kill` is |
| `work` | the frame of each `flush_and_poll` on its thread: the queue it took, orders posted without reply so far, open orders still to poll, fills found |
| `venue` | the orders at Alpaca (external), with how often each was posted |

What runs on the event loop between two awaits is one action and excludes the
rest of the loop (`LoopFree`); every request of a thread is an action of its
own, because the loop and the other thread go on meanwhile.  `Swap` is the one
critical section of the code.  `Booking` is a state of its own because the
`on_fill` hooks run in it and may place orders or raise.  The risk gate's size
checks are a choice; its kill switch is not.

Abstractions.  One symbol, no prices, so ticks do not appear; the queue is a
set, so a thread may post in any order, which is more than the code does.
The venue's "cancel all" is one step.  `OrderBook` is the abstract machine of
`oms.py` (`SUBMITTED`, `ACKNOWLEDGED`, then one terminal state; the position
moves with `FILLED`), and `LifecycleSpec` instantiates it with the mapping
`order[o].state`, `order[o].qty`, `pos`.

### PaperEngine

| State | Code |
|---|---|
| `order`, `pos`, `cash`, `paid` | `PaperOMS.orders`, `positions`, `cash`, `commissions_paid` |
| `quote`, `stale` | `engine.last_tick`, and whether it is older than `stale_seconds` |
| `killed`, `state` | `RiskGate.killed`, `LiveSession.state` |
| `due` | what the `match` that is running still has to fill |
| `prints`, `flat` | the number of ticks processed per symbol (a bound, and the clock of one property), and history of a kill that flattened |

With the internal executor nothing awaits, so the hazards are long sequences of
legal calls and not interleavings.  `Tick` and `Kill` compute the orders their
`match` fills, `Fill` books them one by one with the arithmetic of `_fill`, and
nothing else runs meanwhile.  `PlaceOrder` and `LossLimit` are `place_order`
through the checks of the gate in their order; a refusal changes nothing that
is modelled.  Hooks run between ticks and may do anything `ctx` offers.

Abstractions.  Prices are whole numbers from a small set with every average
cost whole, so that `\div` is the division of the code; a print carries the price
a buy pays and a sell gets, which stands for quotes and slippage alike.  Bars
and timers only choose the hook.  Orders of one match fill in any order; the
code takes them as created.

### StreamHub

| State | Code |
|---|---|
| `reader` | where each subscription's owner is; "joining" and "left" readers hold the lock over an await |
| `holder` | the owner of `hub._lock` |
| `subs`, `refs`, `latest` | `hub._subs`, `_refs`, `latest` |
| `linger`, `check`, `task` | the timer `_linger`, the task it creates for `_stop_if_idle`, the source's `_task` |
| `stopping`, `symbols`, `open` | the source's `_stopping`, `_symbols`, `connected` |
| `wire`, `printed` | what the vendor carries and its last tick (external) |
| `pending`, `seen` | each subscription's pending ticks and what it drained last |

The interesting interleavings are those of an asyncio lock held over awaits:
`Join` ends at the send of the difference and `Joined` comes back from it, and
publishes, drains, the timer and a reconnect happen between.  A frame handed to
the vendor arrives; `Drop` and `Forget` are the vendor's and the network's
failures, `Heartbeat` and `Connect` the cures in the code.  A request that ends
is cancelled at its next await: `Vanish` before the first frame, `LeaveCancelled`
while `unsubscribe` waits for the lock, and `LeftCancelled` while it waits for
the source, of which the reader stays "cut".

Abstractions.  A tick is a number; one subscription per reader at a time; the
recorder and the paper session subscribe as readers do.  The Alpaca source, with
its names, its login and its ticks without a price, is `AlpacaSource`.

### Services

These services share no state, so a behaviour of all of them together is one
behaviour of each.  `Services` puts an instance of each module next to the
others; the variable `part` says whose steps a behaviour shows, and the rest
stays where it starts.  The gates (once with every gate, once with more signals
to link), filings, quarters and segments take turns with `v1` to `v5`.
`MCServices` has the constants, `services` checks all parts in one run, and each
property of that run is the conjunction of what it says about the parts it
names: `OneOfEach` about kernels, recorders, sessions, connections and watchers,
`NoLookAhead` about folds, panels and orders, `ViewAgrees` about a portfolio's
positions and a window's schedule, and so on.
`ServiceParts` holds the instances that the proofs of single parts need.

**SessionTable** (`trading/manager.py`).  `current` is `_sessions[user]`, `ses`
the `LiveSession` objects, `call` the requests between their awaits.  Every await
of `start`, `stop`, `kill` and `shutdown` is a boundary of steps, and one that
would not suspend is taken for one that may.  `OnStartRaises` and `OnStopRaises`
are the hooks of a strategy, `Crash` the task's.  `SessionsAccounted`: a feed
that stays open is in the table, in somebody's hands, or lost in one of the ways
the module names (overlapping starts, an `on_start` that raises).

**Recorder** (`stream/recorder.py`).  `current` is `_recorder`; a `rec` holds its
task, its subscription, the ticks pending, in the buffer, in the hands of a
thread (`rows`) and in the files.  The swap in `flush` is one step and the write
another.  `given`, `late`, `dropped` are history, for `RecordedOnce`.  A tick
stands for all ticks of a symbol that the subscription conflates.

**Kernels** (`playground/manager.py`).  `table` is `_kernels[user]`; a `kernel`
has its lock, its process, what was written to it and what lies in its pipe.
The reaper, `reset` and `shutdown` take a kernel out of the table without its
lock; `Holders` are the requests that go on with it.  A cell answers, hangs,
writes garbage or ends the process.  Other users appear through the reaper only.

**ProviderCache** (`cache.py`, `core/caching.py`, `core/http.py`).  Ages stand
for time stamps.  A frame (`@cached`) is built from a body (`fetch`), both in
memory per process and in one file; a process restarts, a row does not unpickle,
an attempt fails.  The bound of `ServedFresh` is the sum of both lifetimes and
the time of the two calls, which is what the code guarantees.

**PortfolioReplay, Blotter, BlotterLog, PortfolioCurve** (`portfolio/*.py`).
`Replay` is the fold of `build_ledger` with `CloseLot`, the average collapse and
cash flows in integers (`Unit` makes every division exact).  `BlotterLog` goes
through every log of a menu of rows; `Conserved` compares what the lots and the
cash hold with what the rows paid, `OrderFree` two orders of entry.
`PortfolioCurve` draws `share_frame`, `cash_frame` and the session gains from
the same logs.  `Blotter` has the requests: `Load` is a session's first read,
then the write lock with its flush, then the commit, which writes the attributes
that differ from what was loaded.

**ThesisLedger, AlertBook, VintageRegistry** (`thesis/spine.py`,
`routers/user.py`, `trading/production.py`).  Each has rows, short transactions
of other requests, and an operation in two or three steps over rows it loaded
before; `overlapped` is the history that tells when two were under way, or when
SQLite gave a row's number again under one.  An evaluation judges a check by the
review date it loaded, which may pass before it writes.

**SignalLog** (`thesis/memory.py`, `thesis/scheduler.py`; a run of its own).
`rows` are the events by identity, under the scanner's name or the family's;
`scan`, `sweep` and `fill` are sessions that read, and commit all or nothing.
`Select` takes the oldest unfinished events up to `Batch`.  `Ends(Clock)` and
`Grade(Clock)` are the sweep of the scheduler.

**WalkForward, SignalGates, StopLoss, PointInTime, Backtest** (`backtest/*.py`).
`WalkForward` is the loop of research, decision and execution one bar later;
numbers of a fold are replaced by the bars they were computed from, a book by a
weight per name with the capacity scaling.  Of the options, those about the risk
model (`alpha_risk_aware`, `stock_risk_aware`) decide what a rebalance does
without one and are in `config.aware`; the others only choose the target.
`SignalGates` is the selection over reports, p-values and a union-find over
correlated pairs, step by step, against a reference (`StepUp`, `Reached`); a
signal without a p-value does not count among the tests.  `StopLoss` is the state machine of
one column against a definition over its history.  `PointInTime` archives
snapshots and events day by day and rebuilds the panels on every day.
`Backtest` is the event-driven engine bar by bar with floor rounding, in which a
symbol without a usable open is not traded, and the rebalance schedule.

**Disclosures, Quarters, SegmentTable** (`thesis/collapse.py`,
`providers/sec.py`, `providers/segments.py`).  Filings are enumerated; the folds
of `collapse.py`, the choice of spans in `_quarterize` and the choice of members
in `_resolve` are compared with what the filings were made from.  A restatement
is a second version of the books.  The worths of the parts of a revenue are
powers of four, so that no two sets of members have equal sums by chance.  The
give-up at `_ROLLUP_MAX_SUMS` cannot be reached: of the eighteen members allowed,
seventeen others make fewer sums.

**AssistantTurn** (`assistant/service.py`).  The steps of the generator:
pieces of text, the end of a reply with its calls, one tool at a time, the
request with their results, errors, and a browser that goes away.

**BarFeed** (`trading/engine.py`, `trading/manager.py`, `stream/tickdb.py`).
`pending` is the subscription of a session, `turn` its loop, `building` and
`emitted` the live bars, `tape` what the source printed.  `Process` is
`process_tick` with `_update_bar`, `CloseDueBars` the timer; the clock may go on
between any two steps, so prints can reach the loop a window late.  `BarsOfTape`
compares the bars with those `tickdb.bars` makes of the same prints, where each
was processed in its own window; `FillsAsReplayed` says what an order placed on a
bar takes.

**AlpacaSource** (`stream/sources.py`, `stream/hub.py`).  `carried` is what
Alpaca sends, `back` the dictionary that turns a ticker into the name asked for,
`late` the tickers of which frames are on their way; `latest` is the hub's last
tick with the merge of quotes without a price.

**LiveClient** (`Live` in `frontend/app.js`).  `loop` holds the calls of `open`:
each fetches, reads, sleeps and starts again, and learns at an await that its
`AbortController` was used.  `Rebuild` is the timer's callback, which compares
`conns` with what the watchers in sight want; it may come at any time after the
last change, and so does each answer of the server.  A loop that gave up stays
in `conns` as the code leaves it.  What the pill says is left out.

**Workspace** (`frontend/app.js`).  The registrations of `LiveClient`, seen from
those who make them.  `Render` is `renderWorkspace`, with which every change of
the layout ends; a load remembers the rendering it belongs to, as `wsBody` asks.
A handle whose watcher is gone closes nothing and stands as 0.  The tape's load
waits twice and has no such number.

## 3. Runs

Every run ends within four minutes on two workers.  `services` is the largest,
with 1.3 million distinct states over its 23 parts; the passing ones beside it
have a few hundred to half a million.

| Run | Instance | What it shows |
|---|---|---|
| `production_venue` | 2 cycles, 1 reconciler, 1 symbol, two-share orders, 1 failure, Alpaca | fills exact and final, drift explained, book within targets; orders are booked at last, books converge |
| `production_ledger` | 2 cycles, 2 days, 2 symbols with uneven targets, three equities, two scales, ledger broker | a simulated fill happens only past the gates |
| `production_unanswered` | 2 cycles, positions request may fail | violation: a cycle trades over a disagreement |
| `paper_broker` | 2 two-share orders, no kill, 1 lost reply | what is reported filled is booked once and whole, executions are overlooked only in named ways, refinement of `OrderBook` |
| `paper_partial` | 1 two-share order, no kill and no failure | violation: shares of an order that filled in part and then expired are not booked |
| `paper_kill` | 1 order, 1 kill with or without flatten, cancels, 1 failure | posted once, nothing lost, the kill ends, orders resolve |
| `paper_double` | 2 orders, 1 flattening kill | violation: an execution booked twice |
| `engine` | 3 orders, 2 symbols, 2 quotes, market and limit, every cap in reach, 2 prints a symbol | books balance, next-print fills, flatten is flat, refinement of `OrderBook` |
| `hub` | 2 readers, overlapping symbols, 2 ticks each, vanishing browsers | counts, union, feed, newest tick; feed arrives, idle source stops |
| `signals` | a living and a dead event, 2 horizons, 1 scan, a sweep by clock and one by hand, the backfill | keys unique, grades kept, every grade at last |
| `services` | the 23 parts below | twelve properties, each over the parts it names |
| `blotter_cash` | 2 requests on one portfolio | violation: the cash is not that of the log |

The parts of `services`:

| Part | Instance | Properties |
|---|---|---|
| `kernels` | 2 tabs, 2 kernels, 2 cells and 2 processes each | `OwnReply`, `OneOfEach`, `StateLossTold` |
| `cache` | 2 processes, a caller each, lifetimes of 2, 2 attempts | `ServedFresh` |
| `blotter` | 2 requests at once, 3 in all, 2 rows, both methods | `ViewAgrees` |
| `replay` | every log of up to 4 of ten rows on two symbols, both methods; curves of up to 3 rows on four calendars | `BooksHold` |
| `recorder` | 2 calls, 2 recorders, 2 ticks | `OneOfEach`, `RecordedOnce` |
| `sessions` | 2 calls, 2 sessions | `OneOfEach` |
| `thesis` | 2 evaluations, 2 checks | `VerdictStands` |
| `alerts` | 2 evaluations, 2 alerts, 2 prices | `VerdictStands` |
| `vintages` | 2 promotions at once, 4 vintages | `VerdictStands` |
| `bars` | 2 symbols, 3 prints, 2 prices, windows of 2 over 4 instants | `RecordedOnce`, `NoLookAhead` |
| `alpaca` | two names of one ticker and a symbol without one, 2 prices | `OwnReply` |
| `quotes` | 2 watchers of three kinds, 2 views, 2 providers, 2 connections that have not ended | `OneOfEach` |
| `boxes` | a box with 2 settings and the tape, 3 renderings, a refresh of each | `OneOfEach` |
| `assistant` | up to 2 calls a reply, caps of 0 to 2 rounds, four histories | `OwnReply` |
| `walk` | histories of 8 and 9 bars, refresh and rebalance every 1 to 3, three settings of the risk options | `NoLookAhead`, `BooksHold` |
| `gates`, `clusters` | 3 signals with gates, p-values or none, and scores; 4 that only differ in their links | `SurvivorsEarnIt` |
| `stops` | 4 bars, three prices or none, long, larger, flat and short | `StopsHold` |
| `panels` | 4 days, two calendars with closed days | `NoLookAhead` |
| `backtest` | 2 symbols, 4 bars, one without an open, gaps of 1 and 2 days, dear costs | `BooksHold`, `ViewAgrees` |
| `filings` | up to 6 of twelve filings of 2 owners | `BooksHold` |
| `quarters` | a year and the quarter before it, 2 versions of the books | `BooksHold` |
| `segments` | five parts, three roll-ups, up to two of five tables | `BooksHold` |

**Bounds.**  Two cycles are the smallest number with an overlap, and a
reconciler adds a third concurrent poller; an order is rewritten by at most one
job at a time in any interleaving of two, and the proofs lift the number.  Two
shares are the smallest order that can fill in part.  One failure (`MaxFailures`)
is enough for each mistake because a failure ends a job or one request; the
failure can hit anywhere.  Two days let a ledger order become fillable.  A kill
and the task give two threads, the most a session has per kill.  Two rounds of
a kill let the count be off by one.  Two readers with one common symbol are the
smallest instance in which a count differs from a flag, and two ticks the
smallest in which an old tick differs from the newest.  Three orders allow a
position to be built, averaged, turned through flat and flattened; a purchase of
one and a sale of two make every case of `_fill` happen, and the two quotes move
the equity across the loss limit.  Two requests are what an overlap needs, in
every service; a second session, kernel or recorder is there to replace
the first.  Two connections are one that was aborted and the one that replaces it.
Four rows of a log let a
position be opened in two lots, closed in part and turned.  Three equal or
unequal p-values are the smallest case in which the step-up rule differs from
comparing each with its own limit, and four signals the smallest in which two
clusters are joined.  A year is the unit of `_quarterize`, and the quarter before
it gives a span of another start.  The bounds of the models are the constants
called `Max...`, `Slow`, `Ancient`, `Last` and `CurveRows`; the
sets of names bound the number of calls.

**Deadlock** is not checked (`CHECK_DEADLOCK FALSE`) in any run: cycles end,
killed sessions stay killed, logs and histories are full, names are used up.

**Symmetry** is used only in runs without liveness properties: cycles in
`ProductionCycle`, and the two requests of each service in `services`, which
nothing distinguishes.

**Fairness.**  `ProductionCycle`: a thread that can go on does (weak fairness of
each job); a day order ends at the venue; the crontab of
`docs/production-trading.md` repeats the reconciliation, so a request that is
repeated for ever is answered at last (strong fairness of a poll that sees a
given order).  The cycle itself is not repeated.  `PaperSession`: the event loop
is first-in-first-out, so a coroutine whose future is done is resumed even if
other handlers run in between (strong fairness, because their critical sections
disable it now and then); a thread's request is answered or times out (weak);
the venue ends a live order with its day.  `StreamHub`: `asyncio.Lock` is fair
and its holders' awaits end (strong fairness of a reader's step); `call_later`
goes off; the reconnect loop with its bounded back-off and the fifteen-second
heartbeat happen again and again although the socket may break between.
`SignalLog`: the clock sleeps a finite time and its sweep, a thread, ends (weak);
days pass (weak); a download that is asked for again with every sweep
prices a living symbol at last (strong fairness of the clock's grading).
Scans, sweeps by hand, the backfill and the end of the process are not fair:
they may happen or not.

**Properties that name an exception.**  Several properties hold except after a
step that the model names, such as `overlapped`, `shaken` or `doubled`.  The
exception is a history variable that becomes true only at that step (or a state
reached only by it, such as a reader that is "cut" or an order closed with a
part filled), so the
property still says that nothing else can cause the damage; what happens in the
exception itself is told in section 5.

**Type invariants.**  Those of `hub`, the paper session and the cycle are proved
and not run again.

## 4. Proofs

TLC checks the instances above; the theorems hold for every value of the
constants that satisfies the modules' assumptions.  Where the code needs a
condition for what it promises, the theorem has it as a hypothesis, and a run or
section 5 shows what happens without.

**Sums.**  What a sum over a finite set is, for any set: `SumFunctionOnSet` of the
community modules is a recursion over a choice, and the theorems here say that
it has a solution (`SumRecursion`), that the choice does not matter, and what one
changed value does to the sum (`SumChange`), and that sums add up (`SumPlus`).  The library's induction theorems
take an operator as a parameter, which the provers cannot instantiate;
`NumberInduction` and `SubsetInduction` are stated with sets in the place of
predicates and proved from the fact that a well-founded relation has a minimum
(`WFMin`), as are the least and the greatest of a set of numbers
(`LeastNumber`, `GreatestNumber`).

**ProductionCycleProofs.**

- `TypeCorrect`, for any number of cycles, reconcilers, symbols, days and
  failures and any set of brokers.  The ledger broker's position is a sum over
  rows, which the lemmas of `Sums` type.
- `FillsCorrect` (`FillsMatchVenue`) and `RowsFinal` (`FinalRowsStay`), on the
  condition `OnAlpaca` (`Broker = {"alpaca"}`).  `FillsMatchVenue` is not
  inductive: a poll writes later what it learned earlier, and rows exist in
  memory before they are committed.  `LedgerInv` adds that a row appears only
  with its cycle's commit (`RowsCommitted`), that a draft is marked sent exactly
  when it was submitted and what is left to submit is unknown to the venue
  (`DraftsSound`), that what a poll saw stays true until it is booked
  (`SeenSound`), and what a committed row says in either case (`RowsSound`).
  `OwnRowsFinal` is `FinalRowsStay` for a ledger that is its own broker
  (`OnLedger`): what a poll saw is open, or filled as it would fill it
  (`SeenInLedger`).  With both brokers the properties are false (section 5).
- `OnlyTheGateTrades` (`OnlyGatedOrdersTrade`), for any brokers: `GateInv` says
  which lines a cycle can have reached past the gates (`Gated`), and that a poll
  only looks at rows that were submitted.
- `DriftHasItsReason` (`DriftIsExplained`), on Alpaca: the account of a symbol is
  the sum over all cycles of what the venue executed, and `AccountMoves` says
  that each step changes one term of it and the account by the same amount.
- `TargetsBoundTheBook` (`BookWithinTargets`), on Alpaca: one cycle at most is
  between its plan and its last order, and what is left of its orders takes
  the book no farther than the targets (`TargetsInv`), whatever part of them is
  executed; `ScaledBetween` is what the capacity scale does to an order.

**PaperSessionProofs.**  `TypeCorrect`, `NeverPostedTwice` (`PostedOnce`) and
`NothingIsLost` (`NothingLost`).  The invariant says where an order can be:
`OnePlace` (the queue or one thread, and there either waiting or posted),
`Unposted` (what waits was not posted), `Kept` (what is `SUBMITTED` is
somewhere), `Unused` (a fresh name is nowhere), and `ThreadsBegin`/`ThreadsEnd`
tie a thread to the coroutine that waits for it, without which a second `Swap`
of the same thread would overwrite what it holds.  A stopped task's thread runs
on, which is why the tie is one way only.

Of the books: `NothingBookedTwice` (`BookedOnce`: the position is what the orders
reported filled have executed) in a session that no kill flattens (`Unflattened`), with kills, cancels, stops, crashes and lost replies:
what a thread is about to book is executed and not booked yet (`Settled`), and
the position is a sum over the orders.  `paper_double` is what a flattening kill
does.  `KeepsLifecycle` (the refinement of `OrderBook`) and `ExecutionsAreSeen`
(`ExecutionIsSeen`) in a session without kills and cancels (`Undisturbed`), of
which `oms.py` draws its order machine.  An execution that the session does not
see is one whose reply was lost, or of an order the venue closed with a part
filled; `paper_partial` shows that the second loses shares.  A cancel overtakes an order on its way,
which is then booked from `CANCELLED` (section 5).  A crash, the end of the
session and any failed request are among its steps.

**PaperEngineProofs.**  `TypeCorrect`, `FilledByTheNextPrint`
(`NextPrintFills`), `KilledIsFlat` (`FlattenedIsFlat`), `KeepsLifecycle` (the
refinement of `OrderBook`) and `BooksAlwaysBalance` (`BooksBalance`).  The invariant
says what the fills of one match still owe: they rest (`DueSound`), for some
shares (`Sized`), at the print their strategy had not seen (`Prompt`), and after
a kill each closes its symbol (`Flattening`).  The books are a sum over symbols;
they balance as long as the averages a fill forms are whole (`WholeAverages`),
since the model divides whole numbers where the code divides floats; the
quotes of the run are chosen so that they are.

**StreamHubProofs.**  `TypeCorrect`, `CountsExact` (`RefsCount`),
`UnionIsUpstream`, `FeedAlwaysRuns` and `NewestNeverLost`.  `HubInv` joins
`Places` (a subscription's reader has not left), `Runs` (a source told to stop
has no task, so `FeedRuns` survives a return during the linger), `Upstream` (a
closed socket carries nothing, so a reconnect starts from the union) and
`Newest` (a reader still joining holds no tick the hub does not know).  Counting
needs the lemmas `WatchersAdd` and `WatchersRemove` on cardinalities, and
`WatchedIsUnion` connects the counts to the union.

**SignalLogProofs.**  `TypeCorrect` and `GradesAreKept` (`StampsKept`) for any
facts, scans and sweeps.  Sessions read without a lock and write later, so the
invariant says what each still knows when it commits: that the horizons a
sweep stamps have elapsed (`Timely`), which rows the backfill found without
their family and that their twins are still there, and that an event has one
qualified row (`Rows`).

**PeripheryProofs.**  Theorems about the parts of `ServiceParts`, each by itself and
for any number of its requests.

- `BarsAreTold` of `BarFeed` (`BarsOfTape` and `FillsAsReplayed`), for any clock,
  prices and width of a window (`Windowed`): the prints on their way are in the
  order of the tape and later than those in bars (`Queued`, `AllTold`), a bar is
  what its prints make of it (`IsBar`), no window is told before it has passed
  (`Punctual`), and a resting order owes the first print after those its hook could
  see (`Owes`).
- `ResultsAreOwn` of `Kernels` (its `OwnReply`, `StrayExplained`, `StateLossTold`):
  the invariant says what the pipe of a request that reads may hold (`Mine`),
  that the pipe of a process nobody reads from is empty (`Pipes`), and which
  process the last result came from (`Told`).
- `ServedIsFresh` of `ProviderCache`: an entry's value is older than the entry by
  one call, or by the body's lifetime and two calls (`Lag`), and what a caller
  holds is on the way to that (`Callers`).  The hypothesis `Lifetimes` says that
  lifetimes are positive and no longer than `Ancient`, at which ages are cut off.
- `WatchedIsCarried` of `AlpacaSource`, without a hypothesis.
- `CallsAreAnswered` of `AssistantTurn` (`EveryCallAnswered`): while tools run, the
  last message is the reply that called them, and what it calls is what has run
  followed by what is to run (`Turn`).  `Dialogues`: a history is a sequence of the
  two roles, rounds and calls are numbers.
- `NothingAheadIsRead` of `WalkForward` (`NoLookAhead`), for blocks and a history
  of any length (`StudyLengths`), and `PastStaysShown` of `PointInTime`
  (`PastStands`), for any calendar: what a session shows is written as a
  function of what there was by its day (`Seen`, `Heard`), of which no later step
  changes anything (`ShownStands`).
- `OneFeedPerProvider` of `LiveClient` (`OneFeed`): what runs and was not aborted
  is in `conns`, and what is there is of use (`Carries`).  `Numbers` asks
  for finite sets, of which the timer's callback takes as many numbers as it
  opens connections (`GoesInto`).
- `WatchersAreShown` of `Workspace`: a load of this rendering is of what its box
  shows (`Drawn`).  `Layouts` asks for one handle more than boxes and tape can
  hold, of which the code has no bound, and that no box is called tape.
- `StopsAreHeld` of `StopLoss` (`StopsHold`), for any prices, weights and
  gaps in them (`Quotations`): the loop's entry, extreme and stop are what the
  property computes from the whole history of the position.
- `NewestIsTraded` of `VintageRegistry`, `TriggersAreCounted` of `AlertBook` and
  `VerdictsStand` of `ThesisLedger`: the exception is `overlapped` in each, and the
  invariants say that without an overlap what a request loaded is still there.
- `SessionsAreAccounted` of `SessionTable`: every feed has somebody who will stop
  it (`InHand`, `Serves`), or was lost in one of three ways.
- `TicksAreRecorded` of `Recorder`: a tick is in the buffer, in the hands of one
  thread or in a file (`Apart`), and what a recorder that stops waits for has
  not been forgotten (`Attends`).

The names of sessions and recorders are assumed not to contain `Nobody`.

**ServiceProofs.**  `ViewsAgree` of `Blotter`: the log is finite and its rows have the
sides the form offers (`Entered`); a request that has loaded the log and computed
positions from it holds what the log gives, as long as nobody has written since
(`stale`); the fold of the log stays a fold here, of which the proof needs that
it depends on the rows only.  `WindowsAreAnchored` of `Backtest` (`Anchored`): the
last scheduled bar of a window that has seen a block begin is the last scheduled
bar of all.  It goes into `ViewAgrees`; `NoLookAhead` says nothing of the fills of a
backtest, whose sizes do know the close of their bar (section 5).

Two of the books that `BooksHold` compares are sums, and proved.
`CurvesAreExplained` of `Backtest` (`CostsExplain`): in every row, what the shares
and the cash become is what prices bring less what the fill slips and the fee
takes, whichever side is traded (`RowAgrees`, `SlipIsPaid`), and the sums of such
columns agree (`ColumnsAgree`).  `Quoted` says that targets, prices and rates are
whole; an open may be zero, and is not traded then.  `CostsAreOfChanges` of `WalkForward`
(`CostsOfChanges`): every bar decided at lies before the next one, and its trade
was charged on the bar after it (`CostsBooked`).  The rest of `CostsFollowBook`,
that a book scaled in part is neutral again, is false of whole weights in
general, which half a trade rounds; the run's weights are multiples of 16.

Then all parts together.  `EachIsItself` says that `Services` implements each of
its parts that the theorems above speak of (`PartStep`: a step is one of the part
or leaves it alone; the parts that start only when they are looked at are
themselves in those behaviours).  With it, the properties of the run `services`
follow for every value of the constants: `CellsGetTheirReplies` (`OwnReply`),
`OneRunsOfEach` (`OneOfEach`), `TicksAreKeptOnce` (`RecordedOnce`),
`NothingAheadIsSeen` (`NoLookAhead`), `TheCacheServesFresh` (`ServedFresh`),
`TheViewsAgree` (`ViewAgrees`), `TheStopsHold` (`StopsHold`), and the action
properties `LossesAreTold` (`StateLossTold`) and `VerdictsAreKept`
(`VerdictStands`).

**Only model-checked.**  Everything under fairness: `OpenOrdersResolve`,
`BooksConverge`, `KillEnds`, `OrdersResolve`, `FeedArrives`, `IdleStops`,
`EventuallyGraded`.  Of `Services`: `BooksHold` but for the two parts above: the
replay of transactions, the curve, the quarters, the segments and the filings
are compared with references over the same data; they are folds, and what a fold
is for every input takes an induction over data;
`SurvivorsEarnIt`, since `SignalGates` follows a forest with a recursive operator,
about which the prover can say nothing; and `TypeOK`, of which the parts in
`PeripheryProofs` have their own.

## 5. Where the code and its documentation disagree

Shown by runs:

- `paper_double`: a flattening kill and the session's task poll the same order
  and both book it (`trading/manager.py:112`, against `oms.py:147`).
- `paper_partial`: an order the venue cancels or expires after filling it in part
  ends as CANCELLED and its shares are dropped (`trading/broker.py:166`, against
  "the book must follow the venue" of `oms.py:147`).  The production cycle books
  such fills (`trading/production.py:318`).
- `production_unanswered`: a positions request that fails counts as a clean
  reconciliation (`trading/production.py:885`, against
  `docs/production-trading.md:124`).
- `blotter_cash`: two requests leave a portfolio whose cash is not that of its
  log (`portfolio/accounting.py:291`, against `models.py:517`).

Met while modelling; the exceptions that the properties name are among them.

*Trading.*
- A cancelled order is posted by the next flush and becomes ACKNOWLEDGED
  (`broker.py:130`, against the lifecycle of `oms.py:3`); `LifecycleSpec` is
  checked without cancels therefore.
- An order the task's thread posts after the kill's cancel request outlives the
  kill (`manager.py:103`, against "cancel the rest" of `:96`).
- The loss limit engages the kill switch and cancels nothing; an order that rests
  fills at the next tick (`risk.py:96`, against `risk.py:9-12` and
  `docs/paper-trading.md:66-68`).
- The position cap is measured against booked shares (`risk.py:80`), so two
  resting orders can pass one by one and exceed it together.
- With `Broker = {"alpaca", "ledger"}` TLC finds `FillsMatchVenue` violated in
  six steps.  A cycle at Alpaca submits an order and commits; the next day a
  reconciliation that names the ledger polls every open row with its own
  adapter (`production.py:874`), simulates a fill for it and books it, although
  the venue has executed nothing.  The repository does not say that requests may
  mix brokers, so the models assume they do not.
- `reconcile` reads the ledger before it asks the broker (`production.py:882`,
  `:884`), so a fill booked by another job between the two is a discrepancy that
  nobody made; of the ledger broker `:862` says the two "coincide by
  construction".
- Two promotions at once leave two vintages approved, and retiring the newer one
  brings the older one back into use.
- `start` of a session, or of a recorder, looks at the table before an await and
  writes it after: two at once leave one running that nobody can stop.  A hook
  that raises in `on_stop` leaves a session that says it runs and has no task
  (`manager.py:90`), which a start refuses to replace; one that raises in
  `on_start` leaves its subscription.

- "The hooks cannot tell which feed is driving them" (`strategy.py:16`), but a
  live bar that is closed by a print of the next window is shown when that print
  is the last price (`engine.py:122`), and an order on it misses that print, the
  open a replay would fill it at: the second case of `FillsAsReplayed`.  A live
  bar belongs to the time it was processed, and carries the volume of the day so
  far (`engine.py:181`) where `tickdb.py:101` takes the difference.

*Streams.*
- A browser that leaves between `subscribe` and the first frame of the response
  (`routers/stream.py:98`) leaves a subscription nobody closes, because the
  `finally` that would is in a generator that never started: `Vanish` in
  `StreamHub`, after which the source runs for good.  So does one whose
  `unsubscribe` is cancelled while it waits for the lock (`hub.py:146`); one
  cancelled while it waits for the source (`hub.py:159`) has gone, but never
  sets the timer that would stop an idle source.
- `_translate` keeps one name per Alpaca ticker (`sources.py:329`): of BRK-B and
  BRK.B only the one asked for last gets ticks, and giving up one silences the
  other.  `fatal` is never set back, so keys that were refused once are not
  tried again before a restart.  A quote before any trade reaches readers
  without a price, against "every tick a reader sees is a complete row"
  (`hub.py:172`).
- The recorder stops its old self before the new one has subscribed: a start
  that fails ends the recording.  Ticks that arrive between the last sweep of
  the subscription and its close are lost (`late`).
- At shutdown (`main.py:70`) the hubs go before the recorder and the sessions
  that read from them.

*Browser.*
- A loop that gave up at a 4xx, of which the comment says that it "will not fix
  itself" (`app.js:106`), stays in `conns`: its provider is silent until the
  symbols wanted of it change.  More than 100 symbols together are one such
  request (`hub.py:57`), for the tape as well.
- "One connection per provider" (`docs/live-streaming.md`) counts the default
  provider and the same one by name as two.
- A watchlist that became empty clears the tape and leaves its watcher open
  (`app.js:661`), and so does a refresh that fails in a box (`app.js:1475`).
- Two loads of the cards may come back in the other order; the older list then
  stands, with its own watcher.

*Services.*
- A lifetime bounds each layer of the cache, not the two together: a quote can
  be served when it is as old as frame and body lifetimes together
  (`core/caching.py:30`, against "2 min for quotes" of `README.md:226`).
- The reaper and a reset take a kernel while a cell waits for its lock; the cell
  then starts a process that the table does not lead to, and that nothing will
  kill.
- A change of the cost basis re-derives positions from a log read before the
  write lock; a row committed in between is missing until the next change.
- Prices before the first quote are filled back from the future in the equity
  curve (`ffill().bfill()` of `value_series`).
- The command history is pruned only when a run's number, counted over all
  users, is a multiple of 25 (`core/api.py:122`), so a user who never draws one
  exceeds the cap of `README.md:603`.

*Theses.*
- Events that no download prices any more are never finished; when as many of
  them are the oldest as a batch takes, nothing else is graded
  (`thesis/memory.py:261`, against "an event keeps being revisited until its
  longest horizon is stamped").  `EventuallyGraded` is checked with fewer.
- One key that is there already rolls back a whole batch of a scan
  (`memory.py:127`).  A sweep that grades a row while the backfill merges it
  away loses the grade.
- An expired check can still break (`spine.py:97-100`), although `:120-123` says
  that it "can therefore never fire".
- Of two evaluations that overlap, the later commit sets back a check that the
  earlier one found broken, or puts a thesis closed by hand back to what it
  found; the verdict is told before the commit that may fail.  A check or an
  alert that is deleted and made again under an evaluation gets the old one's
  verdict, because SQLite gives its number again.

*Research and filings.*
- The event-driven engine sizes the orders it fills at a bar's open with that
  bar's close (`backtest/engine.py:145`, against "eliminating look-ahead bias"
  of `:14`).  `Backtest` does as the code does, and no property speaks of it.
- A risk model that cannot be rebuilt is replaced by the last one that could
  (`last.due` in `WalkForward`).
- Events dated before the panel all land on its first bar
  (`multisource_research.py:867`).  A second capture on one day rewrites
  that day's snapshot; two at once fail on the unique constraint.
- Affiliates of equal seniority may be kept in turn, which breaks a program into
  pieces, and so does a row of the same day in another form of ownership.
  `affiliate_dupes` is a count, although `collapse.py:80` says that the other
  rows are returned in it.
- In a year of which only part is filed again, the quarter that is a difference
  takes the whole restatement (`sec.py:397`).  `QuartersRight` speaks of years
  from one set of books.
- In a breakdown, sums that agree by chance hide a row: of the
  members 1, 2 and 3 and a roll-up of the first two, the 3 may be taken for the
  roll-up (`segments.py:505`); and when no
  table adds up, one that covers a part may be taken for the whole (`:464-468`).

## 6. Plan and what is not modelled

Modelled with proofs: the production cycle, both paper sessions, the hub, the
signal log, and of the services all but the replay of a log, the curve, the
gates, filings, quarters and segments, which are modelled and checked.

Theorems worth proving next: that a replay of the blotter pays for what it
holds, once the provers can be given an induction over the rows.

Not modelled, and why:

- **Numerics over floating point**: regressions, covariances, optimisers,
  statistics, discounted cash flows (`backtest/*`, `research/*`, `factors/*`,
  `valuation/*`, `portfolio/analytics.py` but for the curve,
  `extensions/quantitative.py`).  Their states are arrays of reals, about which
  TLC can say nothing; what surrounds them - order, time, selection, books - is
  modelled.
- **Text**: the sources of the thesis pipeline, triage and deep dives, the
  detectors of flagged names, the assistant's prompt and tools, reports.  They
  score and lay out documents and keep nothing but caches.
- **Parsers of external formats** (`providers/*`, `data/provider.py`, the decoding
  of frames), and the commands over them (`extensions/*`), which have no state.
- **Command core**: the registry is filled at import and read afterwards.
- **Accounts**: logins, watchlists and preferences are rows that a request reads
  and writes in one short transaction.
- **`day_stats` of the tick database and pruning**: reads over files nobody
  changes any more.
- **Details of modelled parts**: equity marks and built-in strategies of the
  paper engine; the throttle per host of the HTTP client, which retries pass by; the
  import of a CSV and the validation of fields; the registry of hubs.
- **The other views of the browser client**: each fetches and draws.

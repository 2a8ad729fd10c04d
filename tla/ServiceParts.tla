---------------------------- MODULE ServiceParts ----------------------------
(* The services and studies that Services puts side by side and that need no *)
(* more than their own module: each under the letters that the composition   *)
(* and the proofs know it by, with its constants and its variables.          *)
EXTENDS Integers, Sequences, FiniteSets

CONSTANTS
  Tab, KernelNo, MaxRuns, MaxStarts, NoKernel,                    \* Kernels
  Proc, Thread, ProcOf, Ttl, Attempts, Slow, Ancient,             \* ProviderCache
  Calling, RecNo, LastTick, Nobody,                               \* Recorder
  SesNo,                                                          \* SessionTable
  Request,                                          \* of the four that load and commit
  CheckNo, MaxLoads,                                              \* ThesisLedger
  Name, Books, Train, Purge, Test, Horizon, Lengths, Steps, Awares, RiskBars,  \* WalkForward
  StopPrices, Missing, Weights, StopOf, Whole, MaxBars,           \* StopLoss
  MaxCalls, MaxRounds, Histories,                                 \* AssistantTurn
  Alert, AlertPrices, MaxEvals,                                   \* AlertBook
  MaxVintages,                                                    \* VintageRegistry
  LastDay, Calendars, Values, Scores, Limit, MaxAge,              \* PointInTime
  Ticker, Of, Nil, SourcePrices,                                  \* AlpacaSource
  Watcher, Boards, View, Provider, LoopNo,                        \* LiveClient
  Symbol, TapePrices, Width, MaxClock, MaxPrints,                 \* BarFeed
  Box, Shows, Lists, Handle, MaxRenders, MaxCards                 \* Workspace

VARIABLES
  table, kernel, pc, held, mine, fresh, doomed, closed, shaken, shown, crossed,
  mem, disk, calls, spent, tries, got,
  current, rec, call, published, down, overlapped,
  current2, ses, call2, down2, overlapped2,
  status, due, check, eval, loads, overlapped3,
  config, vintage, pos, pointer, risk, book, target, cost, last,
  trailing, bars, out, stopped, entry, extreme, prevSign,
  budget, at, messages, round, toRun, results, event,
  row, firing, evals, told, raced,
  approved, retired, promotion, traded, raced2,
  sessions, day, archive, scored, was,
  watched, back, link, fatal, carried, late, latest, printed, doubled,
  watchers, activeView, armed, conns, loop,
  clock, tape, pending, turn, building, emitted, order, lost,
  version, drawn, fetches, wsLive, tapeBar, cards, boxed

K == INSTANCE Kernels
PC == INSTANCE ProviderCache WITH pc <- calls, Retries <- Attempts
R == INSTANCE Recorder WITH Call <- Calling
T == INSTANCE SessionTable WITH current <- current2, call <- call2, down <- down2,
                                overlapped <- overlapped2, Call <- Calling
H == INSTANCE ThesisLedger WITH overlapped <- overlapped3
W == INSTANCE WalkForward
SL == INSTANCE StopLoss WITH Prices <- StopPrices
A == INSTANCE AssistantTurn
E == INSTANCE AlertBook WITH overlapped <- raced, eval <- firing, Prices <- AlertPrices
V == INSTANCE VintageRegistry WITH overlapped <- raced2
P == INSTANCE PointInTime
N == INSTANCE AlpacaSource WITH traded <- printed, Symbol <- Ticker, Prices <- SourcePrices,
                                None <- Nil
J == INSTANCE LiveClient WITH Menu <- Boards
BF == INSTANCE BarFeed WITH Prices <- TapePrices
I == INSTANCE Workspace WITH loads <- fetches, tape <- tapeBar, watchers <- boxed
=============================================================================

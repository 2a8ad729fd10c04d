CONSTANTS
  Parts = {"kernels", "cache", "blotter", "replay", "recorder", "sessions", "thesis",
           "walk", "gates", "clusters", "stops", "assistant", "alerts", "vintages",
           "panels", "filings", "alpaca", "backtest", "quarters", "segments", "bars", "quotes", "boxes"}
  one = one  two = two  server = server  shell = shell  thread1 = thread1  thread2 = thread2
  Tab = {one, two}  KernelNo = {1, 2}  MaxRuns = 2  MaxStarts = 2  NoKernel = 0
  Proc = {server, shell}  Thread = {thread1, thread2}  ProcOf <- MCProcOf  Ttl <- MCTtl
  Attempts = 2  Slow = 1  Ancient = 6
  Request = {one, two}  RowId = {1, 2}  Menu <- FewRows  Method = {"fifo", "average"}
  MaxRequests = 3  Unit = 12
  LogMenu <- AllRows  MaxRows = 4  CurveUnit = 30240  CurveDays <- MCCurveDays  CurveRows = 3
  Closings <- MCClose
  Calling = {one, two}  RecNo = {1, 2}  LastTick = 2  Nobody = 0
  SesNo = {1, 2}
  CheckNo = {1, 2}  MaxLoads = 2
  Name = {"a", "b"}  Books <- MCBooks  Train = 2  Purge = 1  Test = 3  Horizon = 1
  Lengths = {8, 9}  Steps = {1, 2, 3}  Awares <- MCAwares  RiskBars = 2
  Signal = {1, 2, 3}  Levels = {0, 1, 2, 3}  GateUnit = 10  Alpha = 2  GateScores = {0, 1}
  Failures = {{}, {"neutral"}}  LabelBars = 2  TestBars = {1, 2, 3, 4, 5}
  Linkable = {1, 2, 3, 4}  LinkBars = 3  LinkTests = {1, 2, 3, 4, 5, 6, 7}
  StopPrices = {2, 3, 4}  Missing = 0  Weights <- MCWeights  StopOf = 1  Whole = 3  MaxBars = 4
  MaxCalls = 2  MaxRounds = {0, 1, 2}  Histories <- MCHistories
  Alert = {1, 2}  AlertPrices = {1, 2}  MaxEvals = 2
  MaxVintages = 4
  LastDay = 4  Calendars <- MCCalendars  Values = {1, 2}  Scores <- MCScores  Limit = 1  MaxAge = 1
  Filing <- Filings  MaxFilings = 6  MaxGap = 4  MinLegs = 3  Similarity = 50
  Ticker = {"BRK-B", "BRK.B", "^GSPC"}  Of <- MCOf  Nil = ""  SourcePrices = {"1", "2"}
  Asset = {"x", "y"}  Targets <- MCTargets  Quotes <- MCQuotes  Gaps = {1, 2}  Every = 2
  Latency = 1  Capital = 1024  Slippage = 4  Commission = 8  Dust = 16  BacktestBars = 4
  Quarter = {1, 2, 3, 4, 5}  Begins = {2}  QuarterWorth <- MCQuarterWorth
  Part = {"a", "b", "c", "d", "e"}  PartWorth <- MCPartWorth  Member <- MCMember
  PartsOf <- MCPartsOf  Tables <- MCTables  Tolerance = 50  MaxMembers = 7
  Symbol = {one, two}  TapePrices = {1, 2}  Width = 2  MaxClock = 3  MaxPrints = 3
  Watcher = {1, 2}  Boards <- MCBoards  View = {"market", "workspace"}
  Provider = {"default", "alpaca"}  LoopNo = {1, 2}
  Box = {"box"}  Shows = {"x", "y"}  Lists <- MCLists  Handle = {1, 2, 3}  MaxRenders = 3
  MaxCards = 1
SYMMETRY Alike
SPECIFICATION Spec
INVARIANTS TypeOK OwnReply OneOfEach ServedFresh ViewAgrees BooksHold RecordedOnce
  NoLookAhead SurvivorsEarnIt StopsHold
PROPERTIES StateLossTold VerdictStands
CHECK_DEADLOCK FALSE

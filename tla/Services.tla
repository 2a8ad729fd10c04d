------------------------------ MODULE Services ------------------------------
(* The services beside trading, and the studies.  They share no state, so a  *)
(* behaviour of all of them is one of each: `part` names the one whose steps *)
(* a behaviour shows, and the others stay where they start.                  *)
EXTENDS ServiceParts

CONSTANTS
  Parts,                                        \* the ones that are looked at
  RowId, Menu, Method, MaxRequests, Unit,                         \* Blotter
  LogMenu, MaxRows, CurveUnit, CurveDays, CurveRows, Closings,    \* PortfolioCurve
  Signal, Levels, GateUnit, Alpha, GateScores, Failures, LabelBars, TestBars,
  Linkable, LinkBars, LinkTests,                                  \* SignalGates, twice
  Filing, MaxFilings, MaxGap, MinLegs, Similarity,                \* Disclosures
  Asset, Targets, Quotes, Gaps, Every, Latency, Capital, Slippage, Commission, Dust,
  BacktestBars,                                                   \* Backtest
  Quarter, Begins, QuarterWorth,                                  \* Quarters
  Part, PartWorth, Member, PartsOf, Tables, Tolerance, MaxMembers  \* SegmentTable

VARIABLES
  part,
  exists, log, method, cash, positions, req, begun, stale,
  entries,
  dated, stake, purse, costs, earned,
  v1, v2, v3, v4, v5      \* of the gates, filings, quarters and segments, in turn

B == INSTANCE Blotter
LC == INSTANCE PortfolioCurve WITH log <- entries, Menu <- LogMenu, Unit <- CurveUnit,
                                   Calendars <- CurveDays, Close <- Closings
BT == INSTANCE Backtest WITH bars <- dated, positions <- stake, cash <- purse,
                             Symbol <- Asset, MaxBars <- BacktestBars
\* The gates twice: some signals with every gate, and more of them that only
\* differ in what they link.
GA == INSTANCE SignalGates WITH row <- v1, q <- v2, linked <- v3, parent <- v4, todo <- v5,
        Unit <- GateUnit, Scores <- GateScores, Horizon <- LabelBars, Bars <- TestBars
GC == INSTANCE SignalGates WITH row <- v1, q <- v2, linked <- v3, parent <- v4, todo <- v5,
        Signal <- Linkable, Levels <- {1}, Unit <- GateUnit, Scores <- {1}, Failures <- {{}},
        Horizon <- LinkBars, Bars <- LinkTests
DI == INSTANCE Disclosures WITH raw <- v1, kept <- v2, run <- v3, program <- v4, next <- v5
QU == INSTANCE Quarters WITH books <- v1, facts <- v2, Worth <- QuarterWorth
SE == INSTANCE SegmentTable WITH tagged <- v1, tables <- v2, known <- v3, kept <- v4, at <- v5,
        Worth <- PartWorth, Parts <- PartsOf

ofKernels == <<table, kernel, pc, held, mine, fresh, doomed, closed, shaken, shown, crossed>>
ofCache == <<mem, disk, calls, spent, tries, got>>
ofBlotter == <<exists, log, method, cash, positions, req, begun, stale>>
ofRecorder == <<current, rec, call, published, down, overlapped>>
ofSessions == <<current2, ses, call2, down2, overlapped2>>
ofThesis == <<status, due, check, eval, loads, overlapped3>>
ofWalk == <<config, vintage, pos, pointer, risk, book, target, cost, last>>
ofStops == <<trailing, bars, out, stopped, entry, extreme, prevSign>>
ofAssistant == <<budget, at, messages, round, toRun, results, event>>
ofAlerts == <<row, firing, evals, told, raced>>
ofVintages == <<approved, retired, promotion, traded, raced2>>
ofPanels == <<sessions, day, archive, scored, was>>
ofAlpaca == <<watched, back, link, fatal, carried, late, latest, printed, doubled>>
ofBacktest == <<dated, stake, purse, costs, earned>>
ofBars == <<clock, tape, pending, turn, building, emitted, order, lost>>
ofQuotes == <<watchers, activeView, armed, conns, loop>>
ofBoxes == <<version, drawn, fetches, wsLive, tapeBar, cards, boxed>>
ofShared == <<v1, v2, v3, v4, v5>>
vars == <<part, entries, ofKernels, ofCache, ofBlotter, ofRecorder, ofSessions, ofThesis, ofWalk,
          ofStops, ofAssistant, ofAlerts, ofVintages, ofPanels, ofAlpaca, ofBacktest, ofBars,
          ofQuotes, ofBoxes, ofShared>>

Idle5(a, b, c, d, e) == a = 0 /\ b = 0 /\ c = 0 /\ d = 0 /\ e = 0
Idle7(a, b, c, d, e, f, g) == a = 0 /\ b = 0 /\ Idle5(c, d, e, f, g)
Idle9(a, b, c, d, e, f, g, h, i) == a = 0 /\ b = 0 /\ Idle7(c, d, e, f, g, h, i)

\* Where there is one start only, a part is there whether it is looked at or not.
Init == /\ part \in Parts
        /\ K!Init /\ PC!Init /\ B!Init /\ LC!Init /\ R!Init /\ T!Init /\ H!Init
        /\ E!Init /\ V!Init /\ N!Init /\ BT!Init /\ BF!Init /\ I!Init
        /\ IF part = "walk" THEN W!Init
             ELSE Idle9(config, vintage, pos, pointer, risk, book, target, cost, last)
        /\ IF part = "stops" THEN SL!Init
             ELSE Idle7(trailing, bars, out, stopped, entry, extreme, prevSign)
        /\ IF part = "assistant" THEN A!Init
             ELSE Idle7(budget, at, messages, round, toRun, results, event)
        /\ IF part = "panels" THEN P!Init ELSE Idle5(sessions, day, archive, scored, was)
        /\ IF part = "quotes" THEN J!Init ELSE Idle5(watchers, activeView, armed, conns, loop)
        /\ CASE part = "gates" -> GA!Init
             [] part = "clusters" -> GC!Init
             [] part = "filings" -> DI!Init
             [] part = "quarters" -> QU!Init /\ v3 = 0 /\ v4 = 0 /\ v5 = 0
             [] part = "segments" -> SE!Init
             [] OTHER -> Idle5(v1, v2, v3, v4, v5)

\* Everything but the part's own stays.
Sharing == {"gates", "clusters", "filings", "quarters", "segments"}
OthersStay ==
  /\ UNCHANGED part
  /\ IF part = "kernels" THEN TRUE ELSE UNCHANGED ofKernels
  /\ IF part = "cache" THEN TRUE ELSE UNCHANGED ofCache
  /\ IF part = "blotter" THEN TRUE ELSE UNCHANGED ofBlotter
  /\ IF part = "replay" THEN TRUE ELSE UNCHANGED entries
  /\ IF part = "recorder" THEN TRUE ELSE UNCHANGED ofRecorder
  /\ IF part = "sessions" THEN TRUE ELSE UNCHANGED ofSessions
  /\ IF part = "thesis" THEN TRUE ELSE UNCHANGED ofThesis
  /\ IF part = "walk" THEN TRUE ELSE UNCHANGED ofWalk
  /\ IF part = "stops" THEN TRUE ELSE UNCHANGED ofStops
  /\ IF part = "assistant" THEN TRUE ELSE UNCHANGED ofAssistant
  /\ IF part = "alerts" THEN TRUE ELSE UNCHANGED ofAlerts
  /\ IF part = "vintages" THEN TRUE ELSE UNCHANGED ofVintages
  /\ IF part = "panels" THEN TRUE ELSE UNCHANGED ofPanels
  /\ IF part = "alpaca" THEN TRUE ELSE UNCHANGED ofAlpaca
  /\ IF part = "backtest" THEN TRUE ELSE UNCHANGED ofBacktest
  /\ IF part = "bars" THEN TRUE ELSE UNCHANGED ofBars
  /\ IF part = "quotes" THEN TRUE ELSE UNCHANGED ofQuotes
  /\ IF part = "boxes" THEN TRUE ELSE UNCHANGED ofBoxes
  /\ IF part \in Sharing THEN TRUE ELSE UNCHANGED ofShared

OfKernels == part = "kernels" /\ OthersStay /\ K!Next
OfCache == part = "cache" /\ OthersStay /\ PC!Next
OfBlotter == part = "blotter" /\ OthersStay /\ B!Next
OfReplay == part = "replay" /\ OthersStay /\ LC!Next
OfRecorder == part = "recorder" /\ OthersStay /\ R!Next
OfSessions == part = "sessions" /\ OthersStay /\ T!Next
OfThesis == part = "thesis" /\ OthersStay /\ H!Next
OfWalk == part = "walk" /\ OthersStay /\ W!Next
OfStops == part = "stops" /\ OthersStay /\ SL!Next
OfAssistant == part = "assistant" /\ OthersStay /\ A!Next
OfAlerts == part = "alerts" /\ OthersStay /\ E!Next
OfVintages == part = "vintages" /\ OthersStay /\ V!Next
OfPanels == part = "panels" /\ OthersStay /\ P!Next
OfAlpaca == part = "alpaca" /\ OthersStay /\ N!Next
OfBacktest == part = "backtest" /\ OthersStay /\ BT!Next
OfBars == part = "bars" /\ OthersStay /\ BF!Next
OfQuotes == part = "quotes" /\ OthersStay /\ J!Next
OfBoxes == part = "boxes" /\ OthersStay /\ I!Next
OfGates == part = "gates" /\ OthersStay /\ GA!Next
OfClusters == part = "clusters" /\ OthersStay /\ GC!Next
OfFilings == part = "filings" /\ OthersStay /\ DI!Next
OfQuarters == part = "quarters" /\ OthersStay /\ UNCHANGED <<v3, v4, v5>> /\ QU!Next
OfSegments == part = "segments" /\ OthersStay /\ SE!Next
Next == \/ OfKernels \/ OfCache \/ OfBlotter \/ OfReplay \/ OfRecorder \/ OfSessions \/ OfThesis
        \/ OfWalk \/ OfStops \/ OfAssistant \/ OfAlerts \/ OfVintages \/ OfPanels \/ OfAlpaca
        \/ OfBacktest \/ OfBars \/ OfQuotes \/ OfBoxes
        \/ OfGates \/ OfClusters \/ OfFilings \/ OfQuarters \/ OfSegments
Spec == Init /\ [][Next]_vars

----------------------------------------------------------------------------
(* Properties. *)

When(name, property) == part = name => property

\* Each part's state has its type.
TypeOK == /\ When("kernels", K!TypeOK) /\ When("cache", PC!TypeOK) /\ When("blotter", B!TypeOK)
          /\ When("replay", LC!TypeOK) /\ When("recorder", R!TypeOK)
          /\ When("sessions", T!TypeOK) /\ When("thesis", H!TypeOK)
          /\ When("walk", W!TypeOK) /\ When("gates", GA!TypeOK) /\ When("clusters", GC!TypeOK)
          /\ When("stops", SL!TypeOK) /\ When("assistant", A!TypeOK) /\ When("alerts", E!TypeOK)
          /\ When("vintages", V!TypeOK) /\ When("panels", P!TypeOK) /\ When("filings", DI!TypeOK)
          /\ When("alpaca", N!TypeOK) /\ When("backtest", BT!TypeOK)
          /\ When("quarters", QU!TypeOK) /\ When("segments", SE!TypeOK) /\ When("bars", BF!TypeOK)
          /\ When("quotes", J!TypeOK) /\ When("boxes", I!TypeOK)

\* Of the modules that state them: a kernel that lost its state says so, no
\* entry of the cache outlives its time, and no position is kept past its stop.
StateLossTold == K!StateLossTold
ServedFresh == When("cache", PC!ServedFresh)
CashAgrees == B!CashAgrees
StopsHold == When("stops", SL!StopsHold)

\* Two views of one history agree: a portfolio's rows with the replay of its
\* log, and a window of a study's bars with a longer one on what is held.
ViewAgrees == When("blotter", B!ViewAgrees) /\ When("backtest", BT!Anchored)

\* Of the signals that pass, one of a cluster is used: with all gates, and with
\* clusters of more signals.
SurvivorsEarnIt == When("gates", GA!SurvivorsEarnIt) /\ When("clusters", GC!SurvivorsEarnIt)

\* What is asked is answered, to the one who asked: an execution in a kernel,
\* each tool call of the assistant's, and a symbol with its ticks.
OwnReply == /\ When("kernels", K!OwnReply) /\ When("assistant", A!EveryCallAnswered)
            /\ When("alpaca", N!AskedIsCarried)

\* The books add up: a portfolio's transactions with the curve drawn from them,
\* the book of the walk-forward loop with its costs, a backtest's capital, an
\* issuer's quarters, its segments, and what insiders bought.
BooksHold == /\ When("replay", LC!BooksHold) /\ When("replay", LC!CurveHolds)
             /\ When("walk", W!CostsFollowBook) /\ When("backtest", BT!CostsExplain)
             /\ When("quarters", QU!QuartersRight) /\ When("segments", SE!EachPartOnce)
             /\ When("filings", DI!DecisionsCounted)

\* No study sees what was not known yet: neither in a fold's training rows nor
\* in the panels it is given; nor does an order take a price that it was placed
\* on.  Of the fills of a backtest it says nothing: engine.py:145 sizes those at
\* a bar's open by what the portfolio is worth at its close.
NoLookAhead == /\ When("walk", W!NoLookAhead) /\ When("panels", P!PastStands)
               /\ When("bars", BF!FillsAsReplayed)

\* A tick that arrives is kept once: in the recorder's table, and in a bar.
RecordedOnce == When("recorder", R!RecordedOnce) /\ When("bars", BF!BarsOfTape)

\* What was found on rows that were read earlier is not written over what they
\* are now: a thesis with its checks, alerts, and the vintage that trades.
VerdictStands == [][/\ When("thesis", H!VerdictKept) /\ When("alerts", E!TriggerCounted)
                    /\ When("vintages", V!NewestTraded)]_vars

\* "Each user gets one kernel", "one recorder per process", "one live session
\* per user id", "one connection per provider", one watcher of a box: what runs
\* can be found in its table, is in somebody's hands, or was lost in one of the
\* ways that each module names.
OneOfEach == /\ When("kernels", K!StrayExplained) /\ When("recorder", R!OneRecorder)
             /\ When("sessions", T!SessionsAccounted)
             /\ When("quotes", J!OneFeed) /\ When("boxes", I!WatchersShown)
=============================================================================

--------------------------- MODULE ProductionCycle ---------------------------
(***************************************************************************)
(* The daily production cycle of backend/trading/production.py: the order  *)
(* ledger in the database, the two daily broker adapters, reconciliation   *)
(* and the risk gateway between them, with the venue, crashes and lost     *)
(* replies around them.                                                    *)
(*                                                                         *)
(* A cycle is one call of run_daily_cycle (the CLI job or POST /run), a    *)
(* reconciler a job that calls reconcile alone.  Each runs on a thread and *)
(* a database session of its own, so their steps interleave; a step is     *)
(* what happens between two points where another job, or the venue, can    *)
(* get in: a commit, or a request to the broker.                           *)
(*                                                                         *)
(* A run writes at most one order per symbol, so an order row, and the     *)
(* venue order it became, are named by the pair <<cycle, symbol>>.         *)
(* Quantities are whole signed shares (a sell is negative); prices are not *)
(* modelled, so a target is a number of shares and NAV is an input.        *)
(***************************************************************************)
EXTENDS Integers, FiniteSets, Functions

CONSTANTS
    Cycle,        \* calls of run_daily_cycle
    Reconciler,   \* jobs that call reconcile again and again
    Symbol,       \* the vintage's universe
    Broker,       \* the broker kinds requests name: "ledger", "alpaca"
    Target,       \* the target books the projection may return, in shares
    Nav,          \* the account equities the broker may report
    Capacity,     \* divisors the uniform ADV scale may apply to a trade vector
    MinLot,       \* min_order_notional, in shares
    MaxOrders,    \* max_order_count
    MaxLossPct,   \* max_daily_loss_fraction, in percent
    MaxDataAge,   \* max_data_age_days
    Answers,      \* whether a request for positions gets one: {TRUE} or BOOLEAN
    MaxDay,       \* bound: days modelled
    MaxFailures   \* bound: crashes, failed commits and lost submit replies

ASSUME SymbolAssumption == IsFiniteSet(Symbol) /\ IsFiniteSet(Cycle)
ASSUME JobAssumption == Cycle \cap Reconciler = {}
ASSUME BrokerAssumption == Broker \subseteq {"ledger", "alpaca"}
ASSUME TargetAssumption == Target \subseteq [Symbol -> Int]
ASSUME NavAssumption == Nav \subseteq Int
ASSUME AnswersAssumption == Answers \subseteq BOOLEAN
ASSUME NumberAssumption ==
    /\ Capacity \subseteq Nat \ {0}
    /\ MinLot \in Nat \ {0}
    /\ MaxOrders \in Nat
    /\ MaxLossPct \in Nat
    /\ MaxDataAge \in Nat
    /\ MaxDay \in Nat \ {0}
    /\ MaxFailures \in Nat

VARIABLES
    day,        \* today, on every job's clock
    tradingOn,  \* settings.trading_enabled, the kill switch of the deployment
    run,        \* production_runs: the committed row of each cycle
    order,      \* production_orders: the committed row of each order
    venue,      \* the orders at the venue, each with what it executed
    account,    \* the positions the venue reports for the account
    pc,         \* where each job is
    job,        \* what each job holds in memory, drafts of rows included
    failures,   \* how many failures have happened
    overlapped  \* history: some plan was computed while orders were in flight

vars == <<day, tradingOn, run, order, venue, account, pc, job, failures, overlapped>>

Job     == Cycle \cup Reconciler
OrderId == Cycle \X Symbol

----------------------------------------------------------------------------
(* Rows, and the numbers read from them.                                   *)

RowStatus    == {"none", "planned", "submitted", "filled", "cancelled", "rejected"}
BookedStatus == {"filled", "cancelled", "rejected"}
Row     == [status : RowStatus, qty : Int, sent : BOOLEAN, fill : Int]
NoRow   == [status |-> "none", qty |-> 0, sent |-> FALSE, fill |-> 0]
Planned(q) == [status |-> "planned", qty |-> q, sent |-> FALSE, fill |-> 0]

\* A venue order is live until it is filled, closed (canceled, expired,
\* done for the day, possibly after a partial fill) or rejected.
VenueStatus == {"none", "live", "filled", "closed", "rejected"}
VenueDone   == {"filled", "closed", "rejected"}
VenueOrder  == [status : VenueStatus, qty : Int, filled : Int]
NoVenueOrder == [status |-> "none", qty |-> 0, filled |-> 0]

RunStatus == {"none", "blocked", "recorded", "submitted"}
Run == [status : RunStatus, id : Nat, broker : Broker \cup {"none"},
        asOf : Nat, hasNav : BOOLEAN, nav : Int]
NoRun == [status |-> "none", id |-> 0, broker |-> "none",
          asOf |-> 0, hasNav |-> FALSE, nav |-> 0]

JobData == [broker : Broker \cup {"none"}, enabled : BOOLEAN, today : Nat, asOf : Nat,
            seen : SUBSET OrderId, ledger : [Symbol -> Int], agreed : BOOLEAN, hasNav : BOOLEAN, nav : Int, allowed : BOOLEAN,
            draft : [Symbol -> Row], todo : SUBSET Symbol]
NoRows == [s \in Symbol |-> NoRow]
Flat   == [s \in Symbol |-> 0]
NoData == [broker |-> "none", enabled |-> FALSE, today |-> 0, asOf |-> 0,
           seen |-> {}, ledger |-> Flat, agreed |-> FALSE, hasNav |-> FALSE, nav |-> 0, allowed |-> FALSE,
           draft |-> NoRows, todo |-> {}]

\* LedgerBroker.positions(): every recorded fill counts, whatever its status.
LedgerFills(s)    == [c \in Cycle |-> order[<<c, s>>].fill]
LedgerPosition(s) == SumFunction(LedgerFills(s))

\* broker.positions(): the venue's account, or the ledger itself.
BrokerPosition(b, s) == IF b = "alpaca" THEN account[s] ELSE LedgerPosition(s)

OpenRows == {o \in OrderId : order[o].status = "submitted"}

Committed == {c \in Cycle : run[c].status # "none"}

----------------------------------------------------------------------------
Init ==
    /\ day = 1
    /\ tradingOn \in BOOLEAN
    /\ run = [c \in Cycle |-> NoRun]
    /\ order = [o \in OrderId |-> NoRow]
    /\ venue = [o \in OrderId |-> NoVenueOrder]
    /\ account = Flat
    /\ pc = [j \in Job |-> "idle"]
    /\ job = [j \in Job |-> NoData]
    /\ failures = 0
    /\ overlapped = FALSE

\* finish(): the run row and its orders become durable in one commit.
CommitRun(c, status, rows) ==
    /\ run' = [run EXCEPT ![c] =
         [status |-> status, id |-> Cardinality(Committed) + 1,
          broker |-> job[c].broker, asOf |-> job[c].asOf,
          hasNav |-> job[c].hasNav, nav |-> job[c].nav]]
    /\ order' = [o \in OrderId |-> IF o[1] = c THEN rows[o[2]] ELSE order[o]]
    /\ pc' = [pc EXCEPT ![c] = "done"]
    /\ job' = [job EXCEPT ![c] = NoData]

\* A stage that fails records the run as blocked, with no orders.
Block(c) ==
    /\ pc[c] = "plan"
    /\ CommitRun(c, "blocked", NoRows)
    /\ UNCHANGED <<day, tradingOn, venue, account, failures, overlapped>>

\* Stages 1 and 2: with an approved, fresh vintage and a decision bar at most
\* MaxDataAge days old the cycle goes on to reconcile.
StartCycle(c, b, enabled, asOf) ==
    /\ pc[c] = "idle"
    /\ day - asOf <= MaxDataAge
    /\ pc' = [pc EXCEPT ![c] = "poll"]
    /\ job' = [job EXCEPT ![c] = [NoData EXCEPT !.broker = b, !.enabled = enabled,
                                              !.today = day, !.asOf = asOf]]
    /\ UNCHANGED <<day, tradingOn, run, order, venue, account, failures, overlapped>>

\* No approved vintage, one too old, no prices, or a decision bar too old
\* blocks the day at once (asOf = 0: the decision bar is not known yet).
BlockAtStart(c, b, asOf) ==
    /\ pc[c] = "idle"
    /\ pc' = [pc EXCEPT ![c] = "done"]
    /\ run' = [run EXCEPT ![c] =
         [status |-> "blocked", id |-> Cardinality(Committed) + 1,
          broker |-> b, asOf |-> asOf, hasNav |-> FALSE, nav |-> 0]]
    /\ UNCHANGED <<day, tradingOn, order, venue, account, job, failures, overlapped>>

StartReconcile(r, b) ==
    /\ pc[r] = "idle"
    /\ pc' = [pc EXCEPT ![r] = "poll"]
    /\ job' = [job EXCEPT ![r] = [NoData EXCEPT !.broker = b, !.today = day]]
    /\ UNCHANGED <<day, tradingOn, run, order, venue, account, failures, overlapped>>

----------------------------------------------------------------------------
(* reconcile(): poll every open order, book what was learned, compare.     *)

\* Slip: only a complete fill counts as the end of an order.
FillableOnceFilled(b, today) ==
    IF b = "alpaca"
    THEN {o \in OpenRows : order[o].sent /\ venue[o].status = "filled"}
    ELSE {o \in OpenRows : run[o[1]].asOf < today}

\* Slip: the ledger fills every row with a quantity, hypothetical ones too.
FillableWhateverStatus(b, today) ==
    IF b = "alpaca"
    THEN {o \in OpenRows : order[o].sent /\ venue[o].status \in VenueDone}
    ELSE {o \in OrderId : order[o].qty # 0 /\ run[o[1]].asOf < today}

\* The orders whose end a poll by this broker learns when the request works:
\* Alpaca answers for the orders it knows, the ledger simulates a fill for
\* every order whose decision bar lies before today.
Fillable(b, today) ==
    IF b = "alpaca"
    THEN {o \in OpenRows : order[o].sent /\ venue[o].status \in VenueDone}
    ELSE {o \in OpenRows : run[o[1]].asOf < today}

\* Any of the requests may fail (Alpaca unreachable, no open price yet);
\* the order then stays open until the next reconciliation.
Poll(j) ==
    /\ pc[j] = "poll"
    /\ \E seen \in SUBSET Fillable(job[j].broker, job[j].today) :
         job' = [job EXCEPT ![j].seen = seen]
    /\ pc' = [pc EXCEPT ![j] = "book"]
    /\ UNCHANGED <<day, tradingOn, run, order, venue, account, failures, overlapped>>

\* Slip: a cancelled order keeps the fill it had when it was submitted.
BookedRowDroppingPartials(b, o) ==
    IF b = "ledger" \/ venue[o].status = "filled"
    THEN [order[o] EXCEPT !.status = "filled", !.fill = order[o].qty]
    ELSE [order[o] EXCEPT !.status = "cancelled"]

\* Slip: each poll adds the executed quantity to the row.
BookedRowAdding(b, o) ==
    [order[o] EXCEPT !.status = "filled",
                     !.fill = @ + (IF b = "ledger" THEN order[o].qty ELSE venue[o].filled)]

\* How poll_and_fill rewrites an open row.  A terminal state can still carry
\* a partial fill; a rejection carries none.
BookedRow(b, o) ==
    IF b = "ledger"
    THEN [order[o] EXCEPT !.status = "filled", !.fill = order[o].qty]
    ELSE CASE venue[o].status = "filled" ->
                [order[o] EXCEPT !.status = "filled", !.fill = venue[o].filled]
           [] venue[o].status = "closed" ->
                [order[o] EXCEPT !.status = "cancelled", !.fill = venue[o].filled]
           [] OTHER -> [order[o] EXCEPT !.status = "rejected"]

\* The commit after the poll writes the rows the poll loaded and changed.
Book(j) ==
    /\ pc[j] = "book"
    /\ order' = [o \in OrderId |->
                   IF o \in job[j].seen THEN BookedRow(job[j].broker, o) ELSE order[o]]
    /\ job' = [job EXCEPT ![j].seen = {}]
    /\ pc' = [pc EXCEPT ![j] = "read"]
    /\ UNCHANGED <<day, tradingOn, run, venue, account, failures, overlapped>>

\* The ledger's positions are read first, the broker is asked for its own in a
\* request after that: other jobs book, and the venue executes, in between.
ReadLedger(j) ==
    /\ pc[j] = "read"
    /\ job' = [job EXCEPT ![j].ledger = [s \in Symbol |-> LedgerPosition(s)]]
    /\ pc' = [pc EXCEPT ![j] = "compare"]
    /\ UNCHANGED <<day, tradingOn, run, order, venue, account, failures, overlapped>>

\* The ledger as it was read, against the broker's positions as it answers now.
Discrepancies(j) ==
    {s \in Symbol : job[j].ledger[s] # BrokerPosition(job[j].broker, s)}

\* A reconciler reports the comparison and ends.
ReportComparison(r) ==
    /\ pc[r] = "compare"
    /\ pc' = [pc EXCEPT ![r] = "idle"]
    /\ job' = [job EXCEPT ![r] = NoData]
    /\ UNCHANGED <<day, tradingOn, run, order, venue, account, failures, overlapped>>

\* Two different books block the day.
BlockOnDiscrepancy(c) ==
    /\ pc[c] = "compare"
    /\ Discrepancies(c) # {}
    /\ CommitRun(c, "blocked", NoRows)
    /\ UNCHANGED <<day, tradingOn, venue, account, failures, overlapped>>

\* The cycle goes on when the books agree, and when the broker's positions
\* are not answered: then there is nothing to compare and the list of
\* discrepancies stays empty.  `agreed` is history: whether the broker held what
\* the cycle had read in the ledger when it asked, or would have asked.
Reconciled(c, answered) ==
    /\ pc[c] = "compare"
    /\ job[c].broker = "ledger" => answered
    /\ answered => Discrepancies(c) = {}
    /\ pc' = [pc EXCEPT ![c] = "plan"]
    /\ job' = [job EXCEPT ![c].agreed = (Discrepancies(c) = {}), ![c].ledger = Flat]
    /\ UNCHANGED <<day, tradingOn, run, order, venue, account, failures, overlapped>>

----------------------------------------------------------------------------
(* Stages 10 to 12: diff the target against the broker's book, pass the    *)
(* gateway, write the rows and submit them one by one.                     *)

Magnitude(n) == IF n < 0 THEN -n ELSE n
ScaledBy(n, k) == IF n < 0 THEN -((-n) \div k) ELSE n \div k

\* Slip: the whole target is ordered, whatever is held.
DeltaFromFlat(target, held, priced, k, s) ==
    IF s \in priced /\ Magnitude(target[s]) >= MinLot THEN ScaledBy(target[s], k) ELSE 0

\* _target_to_orders(): symbols without a mark price and deltas below the
\* minimum are skipped, one scale applies to the whole vector, and a sell
\* that would end short is dropped where no borrow is available.
Delta(target, held, priced, k, s) ==
    LET delta == target[s] - held[s] IN
    IF s \in priced /\ Magnitude(delta) >= MinLot THEN ScaledBy(delta, k) ELSE 0

Orders(target, held, priced, shortable, k) ==
    {s \in Symbol :
       LET delta == Delta(target, held, priced, k, s) IN
       /\ Magnitude(delta) >= MinLot
       /\ delta < 0 /\ held[s] + delta < 0 => s \in shortable}

\* The previous run whose NAV compares: same broker, latest id.
PreviousRun(b) ==
    {c \in Committed :
       /\ run[c].hasNav /\ run[c].broker = b
       /\ \A d \in Committed : run[d].hasNav /\ run[d].broker = b => run[d].id <= run[c].id}

\* (previous - nav) / previous <= max_daily_loss_fraction; a previous NAV of
\* zero counts as none, and a negative one turns the inequality around.
LossAllowed(b, nav) ==
    \A c \in PreviousRun(b) :
       LET previous == run[c].nav IN
       /\ previous > 0 => (previous - nav) * 100 <= MaxLossPct * previous
       /\ previous < 0 => (previous - nav) * 100 >= MaxLossPct * previous

Gateway(c, nav, n, inLimits) ==
    /\ tradingOn
    /\ job[c].enabled
    /\ inLimits
    /\ n <= MaxOrders
    /\ LossAllowed(job[c].broker, nav)

\* Orders that still may change the position: live at the venue, open in the
\* ledger, or in the hands of another cycle that is submitting them.
InFlight(c) ==
    \/ OpenRows # {}
    \/ \E o \in OrderId : venue[o].status = "live"
    \/ \E d \in Cycle \ {c} : pc[d] = "submit" /\ job[d].allowed

Plan(c, target, nav, inLimits, k, priced, shortable) ==
    LET held  == [s \in Symbol |-> BrokerPosition(job[c].broker, s)]
        names == Orders(target, held, priced, shortable, k)
        ok    == Gateway(c, nav, Cardinality(names), inLimits)
        draft == [s \in Symbol |->
                    IF s \in names THEN Planned(Delta(target, held, priced, k, s)) ELSE NoRow]
    IN /\ pc[c] = "plan"
       /\ nav > 0
       /\ pc' = [pc EXCEPT ![c] = "submit"]
       /\ job' = [job EXCEPT ![c] = [@ EXCEPT !.hasNav = TRUE, !.nav = nav, !.allowed = ok,
                                             !.draft = draft, !.todo = IF ok THEN names ELSE {}]]
       /\ overlapped' = (overlapped \/ (ok /\ names # {} /\ InFlight(c)))
       /\ UNCHANGED <<day, tradingOn, run, order, venue, account, failures>>

\* An account without equity blocks the day; its NAV is still recorded.
BlockOnEquity(c, nav) ==
    /\ pc[c] = "plan"
    /\ nav <= 0
    /\ run' = [run EXCEPT ![c] =
         [status |-> "blocked", id |-> Cardinality(Committed) + 1,
          broker |-> job[c].broker, asOf |-> job[c].asOf, hasNav |-> TRUE, nav |-> nav]]
    /\ pc' = [pc EXCEPT ![c] = "done"]
    /\ job' = [job EXCEPT ![c] = NoData]
    /\ UNCHANGED <<day, tradingOn, order, venue, account, failures, overlapped>>

\* One submit that leaves the draft row `status`, known to the broker if sent.
Submitted(c, s, status, sent) ==
    /\ pc[c] = "submit"
    /\ s \in job[c].todo
    /\ job' = [job EXCEPT ![c].todo = @ \ {s},
                          ![c].draft[s] = [@ EXCEPT !.status = status, !.sent = sent]]
    /\ UNCHANGED <<day, tradingOn, run, order, account, pc, overlapped>>

VenueAccepts(c, s) ==
    venue' = [venue EXCEPT ![<<c, s>>] =
                [status |-> "live", qty |-> job[c].draft[s].qty, filled |-> 0]]

\* LedgerBroker.submit(): the row itself is the order.
SubmitToLedger(c, s) ==
    /\ job[c].broker = "ledger"
    /\ Submitted(c, s, "submitted", FALSE)
    /\ UNCHANGED <<venue, failures>>

SubmitAccepted(c, s) ==
    /\ job[c].broker = "alpaca"
    /\ Submitted(c, s, "submitted", TRUE)
    /\ VenueAccepts(c, s)
    /\ UNCHANGED failures

\* The venue refuses the order, or never hears of it: recorded as rejected.
SubmitRefused(c, s) ==
    /\ job[c].broker = "alpaca"
    /\ Submitted(c, s, "rejected", FALSE)
    /\ UNCHANGED <<venue, failures>>

\* The venue accepts the order but the reply is lost: also rejected.
SubmitTimedOut(c, s) ==
    /\ job[c].broker = "alpaca"
    /\ failures < MaxFailures
    /\ Submitted(c, s, "rejected", FALSE)
    /\ VenueAccepts(c, s)
    /\ failures' = failures + 1

Finish(c) ==
    /\ pc[c] = "submit"
    /\ job[c].todo = {}
    /\ CommitRun(c, IF job[c].allowed THEN "submitted" ELSE "recorded", job[c].draft)
    /\ UNCHANGED <<day, tradingOn, venue, account, failures, overlapped>>

----------------------------------------------------------------------------
(* The world around the jobs.                                              *)

\* The process dies, or the session raises (a locked database, a failed
\* commit): everything not committed is lost, what the venue holds is not.
Fail(j) ==
    /\ pc[j] \notin {"idle", "done"}
    /\ failures < MaxFailures
    /\ failures' = failures + 1
    /\ pc' = [pc EXCEPT ![j] = IF j \in Cycle THEN "done" ELSE "idle"]
    /\ job' = [job EXCEPT ![j] = NoData]
    /\ UNCHANGED <<day, tradingOn, run, order, venue, account, overlapped>>

\* The venue executes one more share of a live order.
VenueFill(o) ==
    /\ venue[o].status = "live"
    /\ LET share  == IF venue[o].qty > 0 THEN 1 ELSE -1
           filled == venue[o].filled + share
       IN /\ venue' = [venue EXCEPT ![o].filled = filled,
                           ![o].status = IF filled = venue[o].qty THEN "filled" ELSE "live"]
          /\ account' = [account EXCEPT ![o[2]] = @ + share]
    /\ UNCHANGED <<day, tradingOn, run, order, pc, job, failures, overlapped>>

\* A day order ends with the session: canceled, expired or done for the day.
VenueClose(o) ==
    /\ venue[o].status = "live"
    /\ venue' = [venue EXCEPT ![o].status = "closed"]
    /\ UNCHANGED <<day, tradingOn, run, order, account, pc, job, failures, overlapped>>

VenueReject(o) ==
    /\ venue[o].status = "live" /\ venue[o].filled = 0
    /\ venue' = [venue EXCEPT ![o].status = "rejected"]
    /\ UNCHANGED <<day, tradingOn, run, order, account, pc, job, failures, overlapped>>

NextDay ==
    /\ day < MaxDay
    /\ day' = day + 1
    /\ UNCHANGED <<tradingOn, run, order, venue, account, pc, job, failures, overlapped>>

CycleStep(c) ==
    \/ \E b \in Broker, enabled \in BOOLEAN, asOf \in 1..day : StartCycle(c, b, enabled, asOf)
    \/ \E b \in Broker, asOf \in 0..day : BlockAtStart(c, b, asOf)
    \/ BlockOnDiscrepancy(c)
    \/ \E answered \in Answers : Reconciled(c, answered)
    \/ Block(c)
    \/ \E target \in Target, nav \in Nav, inLimits \in BOOLEAN, k \in Capacity,
          priced \in SUBSET Symbol, shortable \in SUBSET Symbol :
          Plan(c, target, nav, inLimits, k, priced, shortable)
    \/ \E nav \in Nav : BlockOnEquity(c, nav)
    \/ \E s \in Symbol : \/ SubmitToLedger(c, s) \/ SubmitAccepted(c, s)
                         \/ SubmitRefused(c, s) \/ SubmitTimedOut(c, s)
    \/ Finish(c)

ReconcilerStep(r) == ReportComparison(r) \/ \E b \in Broker : StartReconcile(r, b)

PollStep(j) == Poll(j) \/ Book(j) \/ ReadLedger(j)

VenueStep(o) == VenueFill(o) \/ VenueClose(o) \/ VenueReject(o)

Next ==
    \/ \E c \in Cycle : CycleStep(c)
    \/ \E r \in Reconciler : ReconcilerStep(r)
    \/ \E j \in Job : PollStep(j) \/ Fail(j)
    \/ \E o \in OrderId : VenueStep(o)
    \/ NextDay

Spec == Init /\ [][Next]_vars

\* Threads that run get on, a venue order ends with its session, the crontab
\* keeps calling the reconciler, and a request repeated for ever is answered.
Fairness ==
    /\ \A c \in Cycle : WF_vars(CycleStep(c) \/ PollStep(c))
    /\ \A r \in Reconciler : WF_vars(ReconcilerStep(r) \/ PollStep(r))
    /\ \A r \in Reconciler, o \in OrderId : SF_vars(Poll(r) /\ o \in job'[r].seen)
    /\ \A o \in OrderId : WF_vars(VenueStep(o))

FairSpec == Spec /\ Fairness

----------------------------------------------------------------------------
(* Properties.                                                             *)

PC == {"idle", "poll", "book", "read", "compare", "plan", "submit", "done"}

\* Every variable keeps the shape the database columns and the call frames of
\* run_daily_cycle and reconcile give it.
TypeOK ==
    /\ day \in 1..MaxDay
    /\ tradingOn \in BOOLEAN
    /\ run \in [Cycle -> Run]
    /\ order \in [OrderId -> Row]
    /\ venue \in [OrderId -> VenueOrder]
    /\ account \in [Symbol -> Int]
    /\ pc \in [Job -> PC]
    /\ job \in [Job -> JobData]
    /\ failures \in 0..MaxFailures
    /\ overlapped \in BOOLEAN

\* poll_and_fill books what the venue executed and never guesses: a row of an
\* order the venue knows carries a fill only when the venue has ended the
\* order, and then exactly the venue's, however many jobs poll it at once.
FillsMatchVenue ==
    \A o \in OrderId :
       order[o].sent =>
          IF order[o].status \in BookedStatus
          THEN venue[o].status \in VenueDone /\ order[o].fill = venue[o].filled
          ELSE order[o].fill = 0

\* A booked row is final: no later poll, of whatever job, and no commit of
\* another cycle rewrites it; nor does anything rewrite a row left planned.
FinalRowsStay ==
    [][\A o \in OrderId :
         order[o].status \in BookedStatus \cup {"planned"} => order'[o] = order[o]]_vars

\* An order that the venue holds and no row of the ledger ever will own: its
\* cycle is over, by a crash or by a submit whose reply was lost.
Orphan(o) == venue[o].status # "none" /\ ~order[o].sent /\ pc[o[1]] = "done"

\* What the venue executed of an order and the ledger does not show.
Unbooked(o) ==
    /\ venue[o].filled # 0
    /\ \/ order[o].status = "submitted"
       \/ pc[o[1]] = "submit"
       \/ Orphan(o)

\* The ledger and the broker disagree about a symbol only for a reason one
\* can name: an order of that symbol not booked yet, or an orphan.  What the
\* cycle's comparison reports is never an artefact of its own bookkeeping.
DriftIsExplained ==
    \A s \in Symbol :
       LedgerPosition(s) # account[s] => \E c \in Cycle : Unbooked(<<c, s>>)

\* The gateway is the only way to the broker: with the kill switch off, or in
\* a run recorded or blocked, no order leaves the ledger and no row moves on
\* from planned.
OnlyGatedOrdersTrade ==
    \A o \in OrderId :
       venue[o].status # "none" \/ order[o].status \notin {"none", "planned"} =>
          tradingOn /\ run[o[1]].status \in {"none", "submitted"}

\* The book the orders trade against: the venue's, or the ledger itself.
TradedPosition(s) == IF "alpaca" \in Broker THEN account[s] ELSE LedgerPosition(s)

\* Between flat and the most, and the least, of the symbol the targets name.
WithinTargets(shares, s) ==
    /\ shares <= 0 \/ \E t \in Target : shares <= t[s]
    /\ shares >= 0 \/ \E t \in Target : shares >= t[s]

\* Diffing the target against what is held, and never against what is still in
\* flight, keeps the book between the targets as long as no plan was computed
\* over orders in flight; partial fills, refusals, lost replies and crashes
\* cannot carry it outside.
BookWithinTargets ==
    ~overlapped => \A s \in Symbol : WithinTargets(TradedPosition(s), s)

\* "The next cycle refuses to trade while a discrepancy stands": no order
\* reaches the venue from a cycle that read another book in the ledger than the
\* broker held when it was to be asked.
NoTradeOverDisagreement ==
    [][\A c \in Cycle, s \in Symbol :
         venue[<<c, s>>].status = "none" /\ venue'[<<c, s>>].status # "none"
            => job[c].agreed]_vars

\* Every order submitted in a committed run is eventually booked, whatever
\* polls fail and jobs die on the way.
OpenOrdersResolve ==
    \A o \in OrderId : order[o].status = "submitted" ~> order[o].status \in BookedStatus

\* Left alone, the two books come to agree for good on every symbol that has
\* no orphan: a late or partial fill heals, only an orphan keeps them apart.
BooksConverge ==
    <>[](\A s \in Symbol :
           \/ LedgerPosition(s) = account[s]
           \/ \E c \in Cycle : Orphan(<<c, s>>) /\ venue[<<c, s>>].filled # 0)

=============================================================================

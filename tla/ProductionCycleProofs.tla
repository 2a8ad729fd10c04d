------------------------ MODULE ProductionCycleProofs ------------------------
(***************************************************************************)
(* Theorems about ProductionCycle: its types, what is booked and what may  *)
(* be traded, and how far the book can get from the targets.               *)
(***************************************************************************)
EXTENDS ProductionCycle, Sums

\* The case some results are about: every request names the broker "alpaca",
\* whose account is kept by the venue and not rebuilt from the ledger.
OnAlpaca == Broker = {"alpaca"}

(* The next run id is a natural number: only finitely many runs committed. *)
LEMMA NextIdIsNat == Cardinality(Committed) + 1 \in Nat
<1>1. IsFiniteSet(Committed)
  BY FS_Subset, SymbolAssumption DEF Committed
<1> QED BY <1>1, FS_CardinalityType

(* A symbol's order is a whole number of shares. *)
LEMMA DeltaIsInt ==
  ASSUME NEW target \in [Symbol -> Int], NEW held \in [Symbol -> Int],
         NEW priced, NEW k \in Nat \ {0}, NEW s \in Symbol
  PROVE  Delta(target, held, priced, k, s) \in Int
<1> DEFINE d == target[s] - held[s]
<1>1. d \in Int OBVIOUS
<1>2. ScaledBy(d, k) \in Int
  <2>1. d \div k \in Int BY <1>1
  <2>2. (-d) \div k \in Int BY <1>1
  <2> QED BY <2>1, <2>2 DEF ScaledBy
<1> QED BY <1>2 DEF Delta

(* A position is a whole number of shares, the ledger's too: a sum of fills. *)
LEMMA PositionIsInt ==
  ASSUME TypeOK
  PROVE  \A s \in Symbol : LedgerPosition(s) \in Int /\ \A b : BrokerPosition(b, s) \in Int
<1> TAKE s \in Symbol
<1>1. \A c \in Cycle : LedgerFills(s)[c] \in Int
  <2>1. \A c \in Cycle : <<c, s>> \in OrderId BY DEF OrderId
  <2> QED BY <2>1 DEF LedgerFills, TypeOK, Row
<1>2. SumFunctionOnSet(LedgerFills(s), Cycle) \in Int BY <1>1, SymbolAssumption, SumType
<1>3. LedgerPosition(s) = SumFunctionOnSet(LedgerFills(s), Cycle)
  BY DEF LedgerPosition, SumFunction, LedgerFills
<1> QED BY <1>2, <1>3 DEF BrokerPosition, TypeOK

(* Committing a run keeps the run and order tables well typed. *)
LEMMA CommitRunType ==
  ASSUME TypeOK, NEW c \in Cycle, NEW status \in RunStatus, NEW rows \in [Symbol -> Row],
         CommitRun(c, status, rows)
  PROVE  /\ run' \in [Cycle -> Run]
         /\ order' \in [OrderId -> Row]
         /\ pc' \in [Job -> PC]
         /\ job' \in [Job -> JobData]
<1>1. c \in Job BY DEF Job
<1>2. job[c] \in JobData BY <1>1 DEF TypeOK
<1>3. run' \in [Cycle -> Run]
  BY <1>2, NextIdIsNat DEF CommitRun, TypeOK, Run, JobData
<1>4. order' \in [OrderId -> Row]
  <2>1. \A o \in OrderId : o[2] \in Symbol BY DEF OrderId
  <2> QED BY <2>1 DEF CommitRun, TypeOK
<1>5. pc' \in [Job -> PC] BY <1>1 DEF CommitRun, TypeOK, PC
<1>6. NoData \in JobData BY DEF NoData, Flat, JobData, NoRows, NoRow, Row, RowStatus
<1>7. job' \in [Job -> JobData] BY <1>6 DEF CommitRun, TypeOK
<1> QED BY <1>3, <1>4, <1>5, <1>7

\* A job past its first step knows its broker.
BrokerKnown == \A j \in Job : pc[j] \notin {"idle", "done"} => job[j].broker \in Broker

(* Every initial state is well typed. *)
LEMMA TypeInit == Init => TypeOK
<1> SUFFICES ASSUME Init PROVE TypeOK OBVIOUS
<1>1. run \in [Cycle -> Run] BY DEF Init, NoRun, Run, RunStatus
<1>2. order \in [OrderId -> Row] BY DEF Init, NoRow, Row, RowStatus
<1>3. venue \in [OrderId -> VenueOrder] BY DEF Init, NoVenueOrder, VenueOrder, VenueStatus
<1>4. job \in [Job -> JobData]
  BY DEF Init, NoData, Flat, JobData, NoRows, NoRow, Row, RowStatus
<1>5. account \in [Symbol -> Int] BY DEF Init, Flat
<1>6. pc \in [Job -> PC] BY DEF Init, PC
<1>7. day \in 1..MaxDay /\ failures \in 0..MaxFailures BY NumberAssumption DEF Init
<1> QED BY <1>1, <1>2, <1>3, <1>4, <1>5, <1>6, <1>7 DEF Init, TypeOK

(* Every step from a well-typed state leads to a well-typed state. *)
LEMMA TypeStep == ASSUME TypeOK, BrokerKnown, [Next]_vars PROVE TypeOK'
<1>a. NoRow \in Row /\ NoRows \in [Symbol -> Row] BY DEF NoRows, NoRow, Row, RowStatus
<1>f. Flat \in [Symbol -> Int] BY DEF Flat
<1>b. NoData \in JobData BY <1>a, <1>f DEF NoData, JobData
<1>c. Cycle \subseteq Job /\ Reconciler \subseteq Job BY DEF Job
<1>1. ASSUME NEW c \in Cycle, NEW b \in Broker, NEW enabled \in BOOLEAN, NEW asOf \in 1..day,
             StartCycle(c, b, enabled, asOf)
      PROVE  TypeOK'
  <2>1. asOf \in Nat /\ day \in Nat BY NumberAssumption DEF TypeOK
  <2>2. [NoData EXCEPT !.broker = b, !.enabled = enabled, !.today = day, !.asOf = asOf]
          \in JobData BY <1>b, <2>1 DEF JobData, NoData
  <2> QED BY <1>1, <1>c, <2>2 DEF StartCycle, TypeOK, PC
<1>2. ASSUME NEW c \in Cycle, NEW b \in Broker, NEW asOf \in 0..day, BlockAtStart(c, b, asOf)
      PROVE  TypeOK'
  <2>1. asOf \in Nat BY NumberAssumption DEF TypeOK
  <2>2. [status |-> "blocked", id |-> Cardinality(Committed) + 1,
         broker |-> b, asOf |-> asOf, hasNav |-> FALSE, nav |-> 0] \in Run
    BY <2>1, NextIdIsNat DEF Run, RunStatus
  <2> QED BY <1>2, <1>c, <2>2 DEF BlockAtStart, TypeOK, PC
<1>3. ASSUME NEW c \in Cycle, Block(c) \/ BlockOnDiscrepancy(c) PROVE TypeOK'
  <2>1. "blocked" \in RunStatus BY DEF RunStatus
  <2>2. CommitRun(c, "blocked", NoRows) BY <1>3 DEF Block, BlockOnDiscrepancy
  <2> QED BY <1>3, <1>a, <2>1, <2>2, CommitRunType DEF Block, BlockOnDiscrepancy, TypeOK
<1>4. ASSUME NEW c \in Cycle, NEW answered \in Answers, Reconciled(c, answered) PROVE TypeOK'
  <2>1. job[c] \in JobData BY <1>c DEF TypeOK
  <2> DEFINE same == Discrepancies(c) = {}
  <2>3. same \in BOOLEAN OBVIOUS
  <2>4. job' = [job EXCEPT ![c] = [job[c] EXCEPT !.agreed = same, !.ledger = Flat]]
    BY <1>4 DEF Reconciled
  <2> HIDE DEF same
  <2>5. [job[c] EXCEPT !.agreed = same, !.ledger = Flat] \in JobData
    BY <1>f, <2>1, <2>3 DEF JobData
  <2>2. job' \in [Job -> JobData] BY <1>c, <2>4, <2>5 DEF TypeOK
  <2> QED BY <1>4, <2>2, <1>c DEF Reconciled, TypeOK, PC
<1>5. ASSUME NEW c \in Cycle, NEW target \in Target, NEW nav \in Nav, NEW inLimits \in BOOLEAN,
             NEW k \in Capacity, NEW priced \in SUBSET Symbol, NEW shortable \in SUBSET Symbol,
             Plan(c, target, nav, inLimits, k, priced, shortable)
      PROVE  TypeOK'
  <2> DEFINE held  == [s \in Symbol |-> BrokerPosition(job[c].broker, s)]
             names == Orders(target, held, priced, shortable, k)
             ok    == Gateway(c, nav, Cardinality(names), inLimits)
             draft == [s \in Symbol |->
                        IF s \in names THEN Planned(Delta(target, held, priced, k, s)) ELSE NoRow]
  <2>2. held \in [Symbol -> Int] BY PositionIsInt
  <2>3. target \in [Symbol -> Int] /\ nav \in Int BY TargetAssumption, NavAssumption
  <2>4. k \in Nat \ {0} BY NumberAssumption
  <2>5. \A s \in Symbol : Delta(target, held, priced, k, s) \in Int
    BY <2>2, <2>3, <2>4, DeltaIsInt
  <2> HIDE DEF held
  <2>6. draft \in [Symbol -> Row]
    <3>1. \A s \in Symbol : Planned(Delta(target, held, priced, k, s)) \in Row
      BY <2>5 DEF Planned, Row, RowStatus
    <3> QED BY <3>1, <1>a
  <2>7. (IF ok THEN names ELSE {}) \in SUBSET Symbol BY DEF Orders
  <2>8. ok \in BOOLEAN BY DEF Gateway
  <2> HIDE DEF names, ok, draft
  <2>9. job' = [job EXCEPT ![c] = [job[c] EXCEPT !.hasNav = TRUE, !.nav = nav, !.allowed = ok,
                                       !.draft = draft, !.todo = IF ok THEN names ELSE {}]]
    BY <1>5 DEF Plan, held, names, ok, draft
  <2>d. job[c] \in JobData BY <1>c DEF TypeOK
  <2>e. [job[c] EXCEPT !.hasNav = TRUE, !.nav = nav, !.allowed = ok,
                       !.draft = draft, !.todo = IF ok THEN names ELSE {}] \in JobData
    BY <2>3, <2>6, <2>7, <2>8, <2>d DEF JobData
  <2>10. job' \in [Job -> JobData] BY <1>c, <2>9, <2>e DEF TypeOK
  <2>11. overlapped' \in BOOLEAN BY <1>5 DEF Plan, TypeOK
  <2> QED BY <1>5, <1>c, <2>10, <2>11 DEF Plan, TypeOK, PC
<1>6. ASSUME NEW c \in Cycle, NEW nav \in Nav, BlockOnEquity(c, nav) PROVE TypeOK'
  <2>1. job[c] \in JobData /\ nav \in Int BY <1>c, NavAssumption DEF TypeOK
  <2>2. [status |-> "blocked", id |-> Cardinality(Committed) + 1, broker |-> job[c].broker,
         asOf |-> job[c].asOf, hasNav |-> TRUE, nav |-> nav] \in Run
    BY <2>1, NextIdIsNat DEF Run, RunStatus, JobData
  <2> QED BY <1>6, <1>b, <1>c, <2>2 DEF BlockOnEquity, TypeOK, PC
<1>7. ASSUME NEW c \in Cycle, NEW s \in Symbol, NEW status \in {"submitted", "rejected"},
             NEW sent \in BOOLEAN, Submitted(c, s, status, sent),
             venue' = venue \/ VenueAccepts(c, s), failures' \in 0..MaxFailures
      PROVE  TypeOK'
  <2>1. job[c] \in JobData BY <1>c DEF TypeOK
  <2>2. job[c].draft[s] \in Row BY <2>1 DEF JobData
  <2>3. [job[c].draft[s] EXCEPT !.status = status, !.sent = sent] \in Row
    BY <2>2 DEF Row, RowStatus
  <2>4. job' \in [Job -> JobData] BY <1>7, <1>c, <2>1, <2>3 DEF Submitted, TypeOK, JobData
  <2>5. <<c, s>> \in OrderId BY DEF OrderId
  <2>6. venue' \in [OrderId -> VenueOrder]
    <3>1. [status |-> "live", qty |-> job[c].draft[s].qty, filled |-> 0] \in VenueOrder
      BY <2>2 DEF VenueOrder, VenueStatus, Row
    <3> QED BY <1>7, <2>5, <3>1 DEF VenueAccepts, TypeOK
  <2> QED BY <1>7, <2>4, <2>6 DEF Submitted, TypeOK
<1>8. ASSUME NEW c \in Cycle, Finish(c) PROVE TypeOK'
  <2>1. job[c] \in JobData BY <1>c DEF TypeOK
  <2>2. job[c].draft \in [Symbol -> Row] BY <2>1 DEF JobData
  <2>3. (IF job[c].allowed THEN "submitted" ELSE "recorded") \in RunStatus BY DEF RunStatus
  <2>4. CommitRun(c, IF job[c].allowed THEN "submitted" ELSE "recorded", job[c].draft)
    BY <1>8 DEF Finish
  <2> QED BY <1>8, <2>2, <2>3, <2>4, CommitRunType DEF Finish, TypeOK
<1>9. ASSUME NEW r \in Reconciler, NEW b \in Broker, StartReconcile(r, b) PROVE TypeOK'
  <2>2. day \in Nat BY NumberAssumption DEF TypeOK
  <2>1. [NoData EXCEPT !.broker = b, !.today = day] \in JobData
    BY <1>b, <2>2 DEF JobData, NoData
  <2> QED BY <1>9, <1>c, <2>1 DEF StartReconcile, TypeOK, PC
<1>10. ASSUME NEW r \in Reconciler, ReportComparison(r) PROVE TypeOK'
  BY <1>10, <1>b, <1>c DEF ReportComparison, TypeOK, PC
<1>11. ASSUME NEW j \in Job, Poll(j) PROVE TypeOK'
  <2>1. PICK seen \in SUBSET Fillable(job[j].broker, job[j].today) :
           job' = [job EXCEPT ![j].seen = seen]
    BY <1>11 DEF Poll
  <2>2. seen \in SUBSET OrderId BY <2>1 DEF Fillable, OpenRows
  <2>5. job[j] \in JobData BY DEF TypeOK
  <2>4. [job[j] EXCEPT !.seen = seen] \in JobData BY <2>2, <2>5 DEF JobData
  <2>3. job' \in [Job -> JobData] BY <2>1, <2>4 DEF TypeOK
  <2> QED BY <1>11, <2>3 DEF Poll, TypeOK, PC
<1>12. ASSUME NEW j \in Job, Book(j) PROVE TypeOK'
  <2>1. \A o \in OrderId : BookedRow(job[j].broker, o) \in Row
    BY DEF BookedRow, TypeOK, Row, RowStatus, VenueOrder
  <2>2. order' \in [OrderId -> Row] BY <1>12, <2>1 DEF Book, TypeOK
  <2>5. job[j] \in JobData BY DEF TypeOK
  <2>4. [job[j] EXCEPT !.seen = {}] \in JobData BY <2>5 DEF JobData
  <2>3. job' \in [Job -> JobData] BY <1>12, <2>4 DEF Book, TypeOK
  <2> QED BY <1>12, <2>2, <2>3 DEF Book, TypeOK, PC
<1>18. ASSUME NEW j \in Job, ReadLedger(j) PROVE TypeOK'
  <2> DEFINE view == [s \in Symbol |-> LedgerPosition(s)]
  <2>1. view \in [Symbol -> Int] BY PositionIsInt
  <2>2. job' = [job EXCEPT ![j] = [job[j] EXCEPT !.ledger = view]] BY <1>18 DEF ReadLedger
  <2>3. job[j] \in JobData BY DEF TypeOK
  <2> HIDE DEF view
  <2>4. [job[j] EXCEPT !.ledger = view] \in JobData BY <2>1, <2>3 DEF JobData
  <2>5. job' \in [Job -> JobData] BY <2>2, <2>4 DEF TypeOK
  <2> QED BY <1>18, <2>5 DEF ReadLedger, TypeOK, PC
<1>13. ASSUME NEW j \in Job, Fail(j) PROVE TypeOK'
  <2>1. failures' \in 0..MaxFailures BY <1>13, NumberAssumption DEF Fail, TypeOK
  <2> QED BY <1>13, <1>b, <2>1 DEF Fail, TypeOK, PC
<1>14. ASSUME NEW o \in OrderId, VenueStep(o) PROVE TypeOK'
  <2>1. venue[o] \in VenueOrder /\ o[2] \in Symbol BY DEF TypeOK, OrderId
  <2>2. venue' \in [OrderId -> VenueOrder]
    BY <1>14, <2>1 DEF VenueStep, VenueFill, VenueClose, VenueReject, VenueOrder, VenueStatus, TypeOK
  <2>3. account' \in [Symbol -> Int]
    BY <1>14, <2>1 DEF VenueStep, VenueFill, VenueClose, VenueReject, TypeOK
  <2> QED BY <1>14, <2>2, <2>3 DEF VenueStep, VenueFill, VenueClose, VenueReject, TypeOK
<1>15. ASSUME NextDay PROVE TypeOK'
  BY <1>15, NumberAssumption DEF NextDay, TypeOK
<1>16. ASSUME UNCHANGED vars PROVE TypeOK'
  BY <1>16 DEF vars, TypeOK
<1>17. ASSUME NEW c \in Cycle, NEW s \in Symbol,
              \/ SubmitToLedger(c, s) \/ SubmitAccepted(c, s)
              \/ SubmitRefused(c, s) \/ SubmitTimedOut(c, s)
       PROVE  TypeOK'
  <2>1. failures' = failures \/ (failures < MaxFailures /\ failures' = failures + 1)
    BY <1>17 DEF SubmitToLedger, SubmitAccepted, SubmitRefused, SubmitTimedOut
  <2>2. failures' \in 0..MaxFailures BY <2>1, NumberAssumption DEF TypeOK
  <2> QED BY <1>7, <1>17, <2>2 DEF SubmitToLedger, SubmitAccepted, SubmitRefused, SubmitTimedOut
<1> QED
  BY <1>1, <1>2, <1>3, <1>4, <1>5, <1>6, <1>8, <1>9, <1>10, <1>11, <1>12, <1>13, <1>14,
     <1>15, <1>16, <1>17, <1>18
  DEF Next, CycleStep, ReconcilerStep, PollStep

(* Jobs keep knowing their broker. *)
LEMMA BrokerStep == ASSUME TypeOK, BrokerKnown, [Next]_vars PROVE BrokerKnown'
<1>c. Cycle \subseteq Job /\ Reconciler \subseteq Job BY DEF Job
<1>1. ASSUME NEW c \in Cycle, CycleStep(c) PROVE BrokerKnown'
  <2>1. CASE \E b \in Broker, enabled \in BOOLEAN, asOf \in 1..day : StartCycle(c, b, enabled, asOf)
    BY <2>1, <1>c DEF StartCycle, BrokerKnown, TypeOK, NoData
  <2>2. CASE \E b \in Broker, asOf \in 0..day : BlockAtStart(c, b, asOf)
    BY <2>2, <1>c DEF BlockAtStart, BrokerKnown, TypeOK
  <2>4. CASE BlockOnDiscrepancy(c) \/ Block(c) \/ Finish(c)
    BY <2>4, <1>c DEF BlockOnDiscrepancy, Block, Finish, CommitRun, BrokerKnown, TypeOK
  <2>5. CASE \E answered \in Answers : Reconciled(c, answered)
    BY <2>5, <1>c DEF Reconciled, BrokerKnown, TypeOK, JobData
  <2>6. ASSUME NEW target, NEW nav, NEW inLimits, NEW k, NEW priced, NEW shortable,
               Plan(c, target, nav, inLimits, k, priced, shortable)
        PROVE  BrokerKnown'
    <3>1. job[c].broker \in Broker BY <2>6, <1>c DEF Plan, BrokerKnown
    <3>2. PICK data : /\ data.broker = job[c].broker
                      /\ job' = [job EXCEPT ![c] = data]
      <4>1. job[c] \in JobData BY <1>c DEF TypeOK
      <4> QED BY <2>6, <4>1 DEF Plan, JobData
    <3> QED BY <2>6, <1>c, <3>1, <3>2 DEF Plan, BrokerKnown, TypeOK
  <2>7. CASE \E nav \in Nav : BlockOnEquity(c, nav)
    BY <2>7, <1>c DEF BlockOnEquity, BrokerKnown, TypeOK
  <2>8. ASSUME NEW s \in Symbol, NEW status, NEW sent, Submitted(c, s, status, sent)
        PROVE  BrokerKnown'
    BY <2>8, <1>c DEF Submitted, BrokerKnown, TypeOK, JobData
  <2> QED
    BY <1>1, <2>1, <2>2, <2>4, <2>5, <2>6, <2>7, <2>8
    DEF CycleStep, SubmitToLedger, SubmitAccepted, SubmitRefused, SubmitTimedOut
<1>2. ASSUME NEW r \in Reconciler, ReconcilerStep(r) PROVE BrokerKnown'
  <2>1. CASE ReportComparison(r)
    BY <2>1, <1>c DEF ReportComparison, BrokerKnown, TypeOK
  <2>2. ASSUME NEW b \in Broker, StartReconcile(r, b) PROVE BrokerKnown'
    <3>1. [NoData EXCEPT !.broker = b, !.today = day].broker = b BY DEF NoData
    <3>2. r \in Job BY <1>c
    <3> QED BY <2>2, <3>1, <3>2 DEF StartReconcile, BrokerKnown, TypeOK
  <2> QED BY <1>2, <2>1, <2>2 DEF ReconcilerStep
<1>3. ASSUME NEW j \in Job, PollStep(j) PROVE BrokerKnown'
  <2>1. CASE Book(j) BY <2>1 DEF Book, BrokerKnown, TypeOK, JobData
  <2>2. CASE Poll(j)
    <3>1. PICK seen : job' = [job EXCEPT ![j].seen = seen] BY <2>2 DEF Poll
    <3> QED BY <2>2, <3>1 DEF Poll, BrokerKnown, TypeOK, JobData
  <2>3. CASE ReadLedger(j)
    <3>1. PICK view : job' = [job EXCEPT ![j].ledger = view] BY <2>3 DEF ReadLedger
    <3> QED BY <2>3, <3>1 DEF ReadLedger, BrokerKnown, TypeOK, JobData
  <2> QED BY <1>3, <2>1, <2>2, <2>3 DEF PollStep
<1>4. ASSUME NEW j \in Job, Fail(j) PROVE BrokerKnown'
  BY <1>4 DEF Fail, BrokerKnown, TypeOK
<1>5. CASE (\E o \in OrderId : VenueStep(o)) \/ NextDay \/ UNCHANGED vars
  BY <1>5 DEF VenueStep, VenueFill, VenueClose, VenueReject, NextDay, vars, BrokerKnown
<1> QED BY <1>1, <1>2, <1>3, <1>4, <1>5 DEF Next

(* Every reachable state is well typed: type correctness of the daily cycle  *)
(* for any brokers and any number of cycles, symbols and days.               *)
THEOREM TypeCorrect == Spec => []TypeOK
<1>1. Init => TypeOK /\ BrokerKnown
  BY TypeInit DEF Init, BrokerKnown
<1>2. TypeOK /\ BrokerKnown /\ [Next]_vars => (TypeOK /\ BrokerKnown)'
  BY TypeStep, BrokerStep
<1> QED BY <1>1, <1>2, PTL DEF Spec

----------------------------------------------------------------------------
(* The inductive invariant behind FillsMatchVenue and FinalRowsStay.       *)

Unsubmitted == {"idle", "poll", "book", "read", "compare", "plan"}

\* What a booked row must say, given how the venue ended its order.
BookedRight(o) ==
    /\ order[o].fill = venue[o].filled
    /\ \/ venue[o].status = "filled" /\ order[o].status = "filled"
       \/ venue[o].status = "closed" /\ order[o].status = "cancelled"
       \/ venue[o].status = "rejected" /\ order[o].status = "rejected"

\* Rows appear with the commit of their cycle, and venue orders only from the
\* submit loop on.
RowsCommitted ==
    \A o \in OrderId :
       /\ pc[o[1]] # "done" => order[o] = NoRow
       /\ pc[o[1]] \in Unsubmitted => venue[o] = NoVenueOrder
       /\ venue[o].status \in {"none", "rejected"} => venue[o].filled = 0

\* A draft is sent exactly when it is recorded as submitted, and carries no
\* fill; what is left to submit has not reached the venue.
DraftSound(c, s) ==
    LET row == job[c].draft[s] IN
    /\ row.fill = 0
    /\ row.status \in {"none", "planned", "submitted", "rejected"}
    /\ row.sent <=> row.status = "submitted"
    /\ row.sent => venue[<<c, s>>].status # "none"
    /\ s \in job[c].todo => pc[c] = "submit" /\ venue[<<c, s>>] = NoVenueOrder

DraftsSound == \A c \in Cycle, s \in Symbol : DraftSound(c, s)

\* What a poll has learned stays true until it is written.
SeenSound ==
    \A j \in Job : \A o \in job[j].seen :
       /\ order[o].sent /\ order[o].status \in {"submitted"} \cup BookedStatus
       /\ venue[o].status \in VenueDone

\* A committed row the venue knows is open without a fill, or booked right;
\* any other row has no fill and is not open.
RowSound(o) ==
    IF order[o].sent
    THEN /\ venue[o].status # "none"
         /\ \/ order[o].status = "submitted" /\ order[o].fill = 0
            \/ venue[o].status \in VenueDone /\ BookedRight(o)
    ELSE order[o].status \in {"none", "planned", "rejected"} /\ order[o].fill = 0

RowsSound == \A o \in OrderId : RowSound(o)

LedgerInv == TypeOK /\ BrokerKnown /\ RowsCommitted /\ DraftsSound /\ SeenSound /\ RowsSound

(* Nothing is known of any order at the start. *)
LEMMA LedgerInit == Init => LedgerInv
<1> SUFFICES ASSUME Init PROVE LedgerInv OBVIOUS
<1>1. TypeOK BY TypeInit
<1>2. BrokerKnown BY DEF Init, BrokerKnown
<1>c. Cycle \subseteq Job /\ \A o \in OrderId : o[1] \in Job BY DEF Job, OrderId
<1>3. RowsCommitted BY <1>c DEF Init, RowsCommitted, NoRow, NoVenueOrder, Unsubmitted
<1>4. DraftsSound
  <2>1. \A c \in Cycle, s \in Symbol : job[c].draft[s] = NoRow /\ job[c].todo = {}
    BY <1>c DEF Init, NoData, NoRows
  <2> QED BY <2>1 DEF DraftsSound, DraftSound, NoRow
<1>5. SeenSound BY DEF Init, SeenSound, NoData
<1>6. RowsSound BY DEF Init, RowsSound, RowSound, NoRow
<1> QED BY <1>1, <1>2, <1>3, <1>4, <1>5, <1>6 DEF LedgerInv

(* The commit of a run adds the rows of its cycle and touches no other. *)
LEMMA CommitKeepsLedger ==
  ASSUME LedgerInv, NEW c \in Cycle, NEW status, NEW rows \in [Symbol -> Row],
         pc[c] \notin {"idle", "done"}, rows = NoRows \/ rows = job[c].draft,
         job[c].todo = {} \/ rows = NoRows,
         CommitRun(c, status, rows), venue' = venue
  PROVE  /\ RowsCommitted' /\ DraftsSound' /\ SeenSound' /\ RowsSound'
         /\ \A o \in OrderId : order[o] # NoRow => order'[o] = order[o]
<1>c. Cycle \subseteq Job /\ c \in Job BY DEF Job
<1>o. \A o \in OrderId : o[1] \in Job /\ o[1] \in Cycle /\ o[2] \in Symbol /\ o = <<o[1], o[2]>>
  BY DEF OrderId, Job
<1>d. /\ job \in [Job -> JobData] /\ pc \in [Job -> PC] /\ order \in [OrderId -> Row]
  BY DEF LedgerInv, TypeOK
<1>1. \A o \in OrderId : order[o] # NoRow => order'[o] = order[o]
  BY <1>o DEF CommitRun, LedgerInv, RowsCommitted
<1>2. RowsCommitted'
  BY <1>c, <1>d, <1>o DEF CommitRun, LedgerInv, RowsCommitted, Unsubmitted
<1>3. DraftsSound'
  BY <1>c, <1>d DEF CommitRun, LedgerInv, DraftsSound, DraftSound, NoData, NoRows, NoRow
<1>4. SeenSound'
  <2>1. \A j \in Job : job'[j].seen = job[j].seen \/ job'[j].seen = {}
    BY <1>d DEF CommitRun, NoData
  <2>2. \A j \in Job : job[j].seen \in SUBSET OrderId BY <1>d DEF JobData
  <2>3. \A j \in Job : \A o \in job[j].seen : order[o] # NoRow
    BY DEF LedgerInv, SeenSound, NoRow
  <2> QED BY <1>1, <2>1, <2>2, <2>3 DEF LedgerInv, SeenSound
<1>5. RowsSound'
  <2>1. \A s \in Symbol : /\ rows[s].fill = 0
                          /\ rows[s].status \in {"none", "planned", "submitted", "rejected"}
                          /\ rows[s].sent <=> rows[s].status = "submitted"
                          /\ rows[s].sent => venue[<<c, s>>].status # "none"
    <3>1. CASE rows = NoRows BY <3>1 DEF NoRows, NoRow
    <3>2. CASE rows = job[c].draft BY <3>2 DEF LedgerInv, DraftsSound, DraftSound
    <3> QED BY <3>1, <3>2
  <2>2. ASSUME NEW o \in OrderId, o[1] = c PROVE RowSound(o)'
    <3>1. order'[o] = rows[o[2]] BY <2>2 DEF CommitRun
    <3>2. venue'[o] = venue[<<c, o[2]>>] BY <1>o, <2>2
    <3>3. o[2] \in Symbol /\ rows[o[2]].sent \in BOOLEAN BY <1>o DEF Row
    <3> QED BY <2>1, <3>1, <3>2, <3>3 DEF RowSound
  <2>3. \A o \in OrderId : o[1] # c => RowSound(o)'
    BY <1>o DEF CommitRun, RowSound, LedgerInv, RowsSound, BookedRight
  <2> QED BY <2>2, <2>3 DEF RowsSound
<1> QED BY <1>1, <1>2, <1>3, <1>4, <1>5

\* What a step may do to the ledger: final rows stay as they are.
FinalRows == \A o \in OrderId :
                order[o].status \in BookedStatus \cup {"planned"} => order'[o] = order[o]

Kept == /\ RowsCommitted' /\ DraftsSound' /\ SeenSound' /\ RowsSound'
        /\ FinalRows

(* A step of a cycle other than a commit or a submit changes its own pc and *)
(* data, and no row.                                                        *)
LEMMA LocalStepKeeps ==
  ASSUME LedgerInv, NEW j \in Job, NEW p, NEW data \in JobData,
         pc' = [pc EXCEPT ![j] = p], job' = [job EXCEPT ![j] = data],
         UNCHANGED <<order, venue>>,
         \A o \in data.seen : /\ order[o].sent /\ order[o].status \in {"submitted"} \cup BookedStatus
                              /\ venue[o].status \in VenueDone,
         j \in Cycle => data.todo = {} \/ (p = "submit" /\ pc[j] \in Unsubmitted),
         j \in Cycle => \A s \in Symbol :
                          \/ data.draft[s] = job[j].draft[s]
                          \/ data.draft[s].fill = 0 /\ ~data.draft[s].sent
                             /\ data.draft[s].status \in {"none", "planned"},
         p \in Unsubmitted => pc[j] \in Unsubmitted \/ j \in Reconciler,
         p # "done" => pc[j] # "done"
  PROVE  Kept
<1>c. Cycle \subseteq Job BY DEF Job
<1>d. job \in [Job -> JobData] /\ pc \in [Job -> PC] BY DEF LedgerInv, TypeOK
<1>o. \A o \in OrderId : o[1] \in Job /\ o[1] \in Cycle BY DEF OrderId, Job
<1>1. RowsCommitted'
  <2>1. \A o \in OrderId : /\ pc'[o[1]] # "done" => pc[o[1]] # "done"
                           /\ pc'[o[1]] \in Unsubmitted => pc[o[1]] \in Unsubmitted
    BY <1>d, <1>o, JobAssumption
  <2> QED BY <2>1 DEF LedgerInv, RowsCommitted, NoRow, NoVenueOrder
<1>2. DraftsSound'
  <2> SUFFICES ASSUME NEW c \in Cycle, NEW s \in Symbol PROVE DraftSound(c, s)'
    BY DEF DraftsSound
  <2>1. CASE c # j
    BY <1>c, <1>d, <2>1 DEF LedgerInv, DraftsSound, DraftSound
  <2>2. CASE c = j
    <3>1. job'[c] = data /\ pc'[c] = p BY <1>c, <1>d, <2>2
    <3>2. pc[j] \in Unsubmitted => venue[<<c, s>>] = NoVenueOrder
      BY <2>2 DEF LedgerInv, RowsCommitted, OrderId
    <3>3. DraftSound(c, s) BY DEF LedgerInv, DraftsSound
    <3>4. CASE data.draft[s] = job[j].draft[s] BY <2>2, <3>1, <3>2, <3>3, <3>4 DEF DraftSound
    <3>5. CASE data.draft[s] # job[j].draft[s] BY <2>2, <3>1, <3>2, <3>5 DEF DraftSound
    <3> QED BY <3>4, <3>5
  <2> QED BY <2>1, <2>2
<1>3. SeenSound'
  BY <1>d DEF LedgerInv, SeenSound
<1>4. RowsSound' BY DEF LedgerInv, RowsSound, RowSound, BookedRight
<1>5. FinalRows BY DEF FinalRows
<1> QED BY <1>1, <1>2, <1>3, <1>4, <1>5 DEF Kept

(* Writing what a poll has seen books each order right, and again the same. *)
LEMMA BookKeeps == ASSUME OnAlpaca, LedgerInv, NEW j \in Job, Book(j) PROVE Kept
<1>d. job \in [Job -> JobData] /\ pc \in [Job -> PC] /\ order \in [OrderId -> Row]
  BY DEF LedgerInv, TypeOK
<1>c. Cycle \subseteq Job BY DEF Job
<1>b. job[j].broker = "alpaca" BY DEF OnAlpaca, LedgerInv, BrokerKnown, Book
<1>s. \A o \in job[j].seen : o \in OrderId /\ order[o].sent /\ venue[o].status \in VenueDone
                            /\ order[o].status \in {"submitted"} \cup BookedStatus
  BY <1>d DEF JobData, LedgerInv, SeenSound
<1>v. venue' = venue BY DEF Book
<1>1. ASSUME NEW o \in job[j].seen
      PROVE  /\ order'[o].sent /\ order'[o].status \in BookedStatus
             /\ BookedRight(o)'
             /\ order[o].status \in BookedStatus => order'[o] = order[o]
  <2>1. order'[o] = BookedRow("alpaca", o) BY <1>b, <1>s, <1>1 DEF Book
  <2>2. order[o] \in Row /\ order[o].sent /\ venue[o].status \in VenueDone BY <1>d, <1>s, <1>1
  <2>3. RowSound(o) BY <1>s, <1>1 DEF LedgerInv, RowsSound
  <2>4. venue[o].status = "rejected" => venue[o].filled = 0
    BY <1>s, <1>1 DEF LedgerInv, RowsCommitted
  <2>5. CASE venue[o].status = "filled"
    <3>1. order'[o] = [order[o] EXCEPT !.status = "filled", !.fill = venue[o].filled]
      BY <2>1, <2>5 DEF BookedRow
    <3>2. /\ order'[o].sent /\ order'[o].status = "filled"
          /\ order'[o].fill = venue[o].filled
      BY <2>2, <3>1 DEF Row
    <3>3. BookedRight(o)' BY <1>v, <2>5, <3>2 DEF BookedRight
    <3>4. ASSUME order[o].status \in BookedStatus PROVE order'[o] = order[o]
      <4>1. BookedRight(o) BY <2>2, <2>3, <3>4 DEF RowSound, BookedStatus
      <4>2. order[o].fill = venue[o].filled /\ order[o].status = "filled"
        BY <2>5, <4>1 DEF BookedRight
      <4> QED BY <2>2, <3>1, <4>2 DEF Row
    <3> QED BY <3>2, <3>3, <3>4 DEF BookedStatus
  <2>6. CASE venue[o].status = "closed"
    <3>1. order'[o] = [order[o] EXCEPT !.status = "cancelled", !.fill = venue[o].filled]
      BY <2>1, <2>6 DEF BookedRow
    <3>2. /\ order'[o].sent /\ order'[o].status = "cancelled"
          /\ order'[o].fill = venue[o].filled
      BY <2>2, <3>1 DEF Row
    <3>3. BookedRight(o)' BY <1>v, <2>6, <3>2 DEF BookedRight
    <3>4. ASSUME order[o].status \in BookedStatus PROVE order'[o] = order[o]
      <4>1. BookedRight(o) BY <2>2, <2>3, <3>4 DEF RowSound, BookedStatus
      <4>2. order[o].fill = venue[o].filled /\ order[o].status = "cancelled"
        BY <2>6, <4>1 DEF BookedRight
      <4> QED BY <2>2, <3>1, <4>2 DEF Row
    <3> QED BY <3>2, <3>3, <3>4 DEF BookedStatus
  <2>7. CASE venue[o].status = "rejected"
    <3>1. order'[o] = [order[o] EXCEPT !.status = "rejected"] BY <2>1, <2>7 DEF BookedRow
    <3>2. order[o].fill = 0 BY <2>2, <2>3, <2>4, <2>7 DEF RowSound, BookedRight
    <3> QED BY <1>v, <2>2, <2>3, <2>4, <2>7, <3>1, <3>2 DEF BookedRight, BookedStatus, RowSound, Row
  <2> QED BY <2>2, <2>5, <2>6, <2>7 DEF VenueDone
<1>2. \A o \in OrderId : o \notin job[j].seen => order'[o] = order[o] BY DEF Book
<1>3. RowsCommitted'
  <2>1. \A o \in job[j].seen : order[o] # NoRow BY <1>s DEF NoRow
  <2>2. \A o \in OrderId : o[1] \in Job BY DEF OrderId, Job
  <2> QED BY <1>d, <1>s, <1>v, <1>2, <2>1, <2>2 DEF Book, LedgerInv, RowsCommitted, Unsubmitted
<1>4. DraftsSound'
  <2>1. \A c \in Cycle : /\ job'[c].draft = job[c].draft /\ job'[c].todo = job[c].todo
                         /\ job[c].todo # {} => c # j
    <3>1. ASSUME NEW c \in Cycle
          PROVE  /\ job'[c].draft = job[c].draft
                 /\ job'[c].todo = job[c].todo
      <4>1. job[c] \in JobData BY <1>c, <1>d
      <4>2. job'[c] = job[c] \/ job'[c] = [job[c] EXCEPT !.seen = {}]
        BY <1>c, <1>d DEF Book
      <4> QED BY <4>1, <4>2 DEF JobData
    <3>2. ASSUME NEW c \in Cycle, job[c].todo # {} PROVE c # j
      <4>1. job[c] \in JobData BY <1>c, <1>d
      <4>2. PICK s \in Symbol : s \in job[c].todo BY <3>2, <4>1 DEF JobData
      <4>3. DraftSound(c, s) BY DEF LedgerInv, DraftsSound
      <4> QED BY <4>2, <4>3 DEF DraftSound, Book
    <3> QED BY <3>1, <3>2
  <2>2. ASSUME NEW c \in Cycle, NEW s \in Symbol PROVE DraftSound(c, s)'
    <3>1. DraftSound(c, s) BY DEF LedgerInv, DraftsSound
    <3>2. s \in job'[c].todo => pc'[c] = pc[c] BY <1>c, <1>d, <2>1 DEF Book
    <3> QED BY <1>v, <2>1, <3>1, <3>2 DEF DraftSound
  <2> QED BY <2>2 DEF DraftsSound
<1>5. SeenSound'
  <2>1. \A i \in Job : job'[i].seen \subseteq job[i].seen BY <1>d DEF Book, JobData
  <2>2. \A i \in Job : \A o \in job[i].seen : o \in OrderId BY <1>d DEF JobData
  <2> QED BY <1>v, <1>1, <1>2, <2>1, <2>2 DEF LedgerInv, SeenSound
<1>6. RowsSound'
  <2>1. \A o \in OrderId : o \in job[j].seen => RowSound(o)'
    BY <1>s, <1>v, <1>1 DEF RowSound, VenueDone
  <2>2. \A o \in OrderId : o \notin job[j].seen => RowSound(o)'
    BY <1>v, <1>2 DEF RowSound, LedgerInv, RowsSound, BookedRight
  <2> QED BY <2>1, <2>2 DEF RowsSound
<1>7. FinalRows BY <1>s, <1>1, <1>2 DEF FinalRows, BookedStatus
<1> QED BY <1>3, <1>4, <1>5, <1>6, <1>7 DEF Kept

(* A submit sends one draft that the venue did not know, and books nothing. *)
LEMMA SubmitKeeps ==
  ASSUME LedgerInv, NEW c \in Cycle, NEW s \in Symbol,
         NEW status \in {"submitted", "rejected"}, NEW sent \in BOOLEAN,
         Submitted(c, s, status, sent), sent <=> status = "submitted",
         venue' = venue \/ VenueAccepts(c, s), sent => VenueAccepts(c, s)
  PROVE  Kept
<1>c. Cycle \subseteq Job /\ c \in Job /\ <<c, s>> \in OrderId BY DEF Job, OrderId
<1>d. /\ job \in [Job -> JobData] /\ pc \in [Job -> PC]
      /\ venue \in [OrderId -> VenueOrder]
  BY DEF LedgerInv, TypeOK
<1>j. job[c] \in JobData /\ job[c].draft \in [Symbol -> Row] BY <1>c, <1>d DEF JobData
<1>s. pc[c] = "submit" /\ s \in job[c].todo /\ venue[<<c, s>>] = NoVenueOrder
  BY DEF Submitted, LedgerInv, DraftsSound, DraftSound
<1>u. order' = order /\ pc' = pc BY DEF Submitted
<1>v. /\ \A o \in OrderId : o # <<c, s>> => venue'[o] = venue[o]
      /\ venue'[<<c, s>>].filled = 0
      /\ sent => venue'[<<c, s>>].status # "none"
  BY <1>c, <1>d, <1>s DEF VenueAccepts, NoVenueOrder
<1>1. RowsCommitted'
  <2>1. order[<<c, s>>] = NoRow /\ pc[c] \notin Unsubmitted
    BY <1>c, <1>s DEF LedgerInv, RowsCommitted, Unsubmitted
  <2>2. ASSUME NEW o \in OrderId
        PROVE  /\ pc[o[1]] # "done" => order[o] = NoRow
               /\ pc[o[1]] \in Unsubmitted => venue'[o] = NoVenueOrder
               /\ venue'[o].status \in {"none", "rejected"} => venue'[o].filled = 0
    <3>1. CASE o = <<c, s>> BY <1>v, <2>1, <3>1
    <3>2. CASE o # <<c, s>> BY <1>v, <3>2 DEF LedgerInv, RowsCommitted
    <3> QED BY <3>1, <3>2
  <2> QED BY <1>u, <2>2 DEF RowsCommitted
<1>2. DraftsSound'
  <2> SUFFICES ASSUME NEW d \in Cycle, NEW t \in Symbol PROVE DraftSound(d, t)'
    BY DEF DraftsSound
  <2>1. DraftSound(d, t) BY DEF LedgerInv, DraftsSound
  <2>2. CASE d = c /\ t = s
    <3>1. /\ job'[c].draft[s] = [job[c].draft[s] EXCEPT !.status = status, !.sent = sent]
          /\ s \notin job'[c].todo
      BY <1>c, <1>d, <1>j DEF Submitted, JobData
    <3>2. /\ job'[c].draft[s].fill = job[c].draft[s].fill
          /\ job'[c].draft[s].status = status
          /\ job'[c].draft[s].sent = sent
      <4>1. job[c].draft[s] \in Row BY <1>j
      <4> QED BY <3>1, <4>1 DEF Row
    <3>3. DraftSound(c, s)' BY <1>v, <2>1, <2>2, <3>1, <3>2 DEF DraftSound
    <3> QED BY <2>2, <3>3
  <2>3. CASE d # c \/ t # s
    <3>1. /\ job'[d].draft[t] = job[d].draft[t]
          /\ t \in job'[d].todo => t \in job[d].todo
      BY <1>c, <1>d, <1>j, <2>3 DEF Submitted, JobData
    <3>2. <<d, t>> # <<c, s>> /\ <<d, t>> \in OrderId BY <2>3 DEF OrderId
    <3>3. venue'[<<d, t>>] = venue[<<d, t>>] BY <1>v, <3>2
    <3> QED BY <1>u, <2>1, <3>1, <3>3 DEF DraftSound
  <2> QED BY <2>2, <2>3
<1>n. order[<<c, s>>] = NoRow BY <1>c, <1>s DEF LedgerInv, RowsCommitted
<1>3. SeenSound'
  <2>1. \A j \in Job : job'[j].seen = job[j].seen BY <1>c, <1>d DEF Submitted, JobData
  <2>3. ~order[<<c, s>>].sent BY <1>n DEF NoRow
  <2>2. \A j \in Job : \A o \in job[j].seen : o \in OrderId /\ o # <<c, s>>
    BY <1>d, <2>3 DEF JobData, LedgerInv, SeenSound
  <2> QED BY <1>u, <1>v, <2>1, <2>2 DEF LedgerInv, SeenSound
<1>4. RowsSound'
  <2>1. RowSound(<<c, s>>)' BY <1>u, <1>n DEF RowSound, NoRow
  <2>2. \A o \in OrderId : o # <<c, s>> => RowSound(o)'
    BY <1>u, <1>v DEF LedgerInv, RowsSound, RowSound, BookedRight
  <2> QED BY <2>1, <2>2 DEF RowsSound
<1>5. FinalRows BY <1>u DEF FinalRows
<1> QED BY <1>1, <1>2, <1>3, <1>4, <1>5 DEF Kept

(* What the venue does on its own concerns live orders, which no row calls  *)
(* booked and no poll has seen ended.                                       *)
LEMMA VenueKeeps == ASSUME LedgerInv, NEW o \in OrderId, VenueStep(o) PROVE Kept
<1>u. order' = order /\ pc' = pc /\ job' = job
  BY DEF VenueStep, VenueFill, VenueClose, VenueReject
<1>v. /\ venue[o].status = "live"
      /\ \A p \in OrderId : p # o => venue'[p] = venue[p]
      /\ venue'[o].status \in VenueStatus \ {"none"}
      /\ venue'[o].status = "rejected" => venue'[o].filled = 0
  BY DEF VenueStep, VenueFill, VenueClose, VenueReject, LedgerInv, TypeOK, VenueOrder, VenueStatus
<1>1. RowsCommitted'
  BY <1>u, <1>v DEF LedgerInv, RowsCommitted, NoVenueOrder
<1>2. DraftsSound'
  <2> SUFFICES ASSUME NEW c \in Cycle, NEW s \in Symbol PROVE DraftSound(c, s)'
    BY DEF DraftsSound
  <2>1. DraftSound(c, s) /\ <<c, s>> \in OrderId BY DEF LedgerInv, DraftsSound, OrderId
  <2> QED BY <1>u, <1>v, <2>1 DEF DraftSound, NoVenueOrder
<1>3. SeenSound'
  <2>1. \A j \in Job : \A p \in job[j].seen : p \in OrderId /\ p # o
    BY <1>v DEF LedgerInv, TypeOK, JobData, SeenSound, VenueDone
  <2> QED BY <1>u, <1>v, <2>1 DEF LedgerInv, SeenSound
<1>4. RowsSound'
  <2>1. RowSound(o)' BY <1>u, <1>v DEF LedgerInv, RowsSound, RowSound, VenueDone
  <2>2. \A p \in OrderId : p # o => RowSound(p)'
    BY <1>u, <1>v DEF LedgerInv, RowsSound, RowSound, BookedRight
  <2> QED BY <2>1, <2>2 DEF RowsSound
<1>5. FinalRows BY <1>u DEF FinalRows
<1> QED BY <1>1, <1>2, <1>3, <1>4, <1>5 DEF Kept

(* The invariant and the finality of rows, step by step. *)
LEMMA LedgerStep == ASSUME OnAlpaca, LedgerInv, [Next]_vars PROVE LedgerInv' /\ FinalRows
<1>t. TypeOK' /\ BrokerKnown' BY TypeStep, BrokerStep DEF LedgerInv
<1> SUFFICES Kept BY <1>t DEF Kept, LedgerInv
<1>c. Cycle \subseteq Job /\ Reconciler \subseteq Job BY DEF Job
<1>d. job \in [Job -> JobData] /\ pc \in [Job -> PC] BY DEF LedgerInv, TypeOK
<1>e. job' \in [Job -> JobData] BY <1>t DEF TypeOK
<1>n. /\ NoData.seen = {} /\ NoData.todo = {} /\ NoData \in JobData
      /\ \A s \in Symbol : NoData.draft[s] = NoRow
      /\ NoRow.fill = 0 /\ ~NoRow.sent /\ NoRow.status = "none"
  BY DEF NoData, Flat, NoRows, NoRow, JobData, Row, RowStatus
<1>1. ASSUME NEW c \in Cycle, NEW b \in Broker, NEW enabled \in BOOLEAN, NEW asOf \in 1..day,
             StartCycle(c, b, enabled, asOf)
      PROVE  Kept
  <2> DEFINE data == [NoData EXCEPT !.broker = b, !.enabled = enabled,
                                    !.today = day, !.asOf = asOf]
  <2>1. job' = [job EXCEPT ![c] = data] /\ pc' = [pc EXCEPT ![c] = "poll"]
    BY <1>1 DEF StartCycle
  <2>2. data.seen = {} /\ data.todo = {} /\ data.draft = NoData.draft BY DEF NoData
  <2>3. data \in JobData BY <1>c, <1>d, <1>e, <2>1
  <2>4. \A s \in Symbol : /\ data.draft[s].fill = 0 /\ ~data.draft[s].sent
                          /\ data.draft[s].status \in {"none", "planned"}
    BY <1>n, <2>2
  <2>5. UNCHANGED <<order, venue>> /\ pc[c] = "idle" BY <1>1 DEF StartCycle
  <2>6. pc[c] # "done" /\ pc[c] \in Unsubmitted BY <2>5 DEF Unsubmitted
  <2> HIDE DEF data
  <2> QED BY <1>c, <2>1, <2>2, <2>3, <2>4, <2>5, <2>6, LocalStepKeeps
<1>2. ASSUME NEW c \in Cycle, NEW b \in Broker, NEW asOf \in 0..day, BlockAtStart(c, b, asOf)
      PROVE  Kept
  <2>1. job' = [job EXCEPT ![c] = job[c]] BY <1>2, <1>c, <1>d DEF BlockAtStart
  <2>2. job[c] \in JobData BY <1>c, <1>d
  <2>3. \A o \in job[c].seen : /\ order[o].sent /\ order[o].status \in {"submitted"} \cup BookedStatus
                               /\ venue[o].status \in VenueDone
    BY <1>c DEF LedgerInv, SeenSound
  <2>4. job[c].todo = {}
    BY <1>2, <2>2 DEF BlockAtStart, LedgerInv, DraftsSound, DraftSound, JobData
  <2> QED BY <1>2, <1>c, <2>1, <2>2, <2>3, <2>4, LocalStepKeeps DEF BlockAtStart, Unsubmitted
<1>3. ASSUME NEW c \in Cycle, Block(c) \/ BlockOnDiscrepancy(c) PROVE Kept
  <2>1. CommitRun(c, "blocked", NoRows) /\ venue' = venue /\ pc[c] \in {"plan", "compare"}
    BY <1>3 DEF Block, BlockOnDiscrepancy
  <2>2. NoRows \in [Symbol -> Row] BY DEF NoRows, NoRow, Row, RowStatus
  <2>3. /\ RowsCommitted' /\ DraftsSound' /\ SeenSound' /\ RowsSound'
        /\ \A o \in OrderId : order[o] # NoRow => order'[o] = order[o]
    BY <2>1, <2>2, CommitKeepsLedger DEF Unsubmitted
  <2> QED BY <2>3 DEF Kept, FinalRows, NoRow, BookedStatus
<1>4. ASSUME NEW c \in Cycle, NEW answered \in Answers, Reconciled(c, answered) PROVE Kept
  <2> DEFINE data == [job[c] EXCEPT !.agreed = (Discrepancies(c) = {}), !.ledger = Flat]
  <2>1. job' = [job EXCEPT ![c] = data] BY <1>4 DEF Reconciled
  <2>2. data \in JobData BY <1>c, <1>d, <1>e, <2>1
  <2>3. job[c] \in JobData BY <1>c, <1>d
  <2>4. data.seen = job[c].seen /\ data.todo = job[c].todo /\ data.draft = job[c].draft
    BY <2>3 DEF JobData
  <2>5. job[c].todo = {}
    BY <1>4, <2>3 DEF Reconciled, LedgerInv, DraftsSound, DraftSound, JobData
  <2>6. \A o \in data.seen : /\ order[o].sent /\ order[o].status \in {"submitted"} \cup BookedStatus
                             /\ venue[o].status \in VenueDone
    BY <1>c, <2>4 DEF LedgerInv, SeenSound
  <2> HIDE DEF data
  <2> QED BY <1>4, <1>c, <2>1, <2>2, <2>4, <2>5, <2>6, LocalStepKeeps DEF Reconciled, Unsubmitted
<1>5. ASSUME NEW c \in Cycle, NEW target, NEW nav, NEW inLimits, NEW k, NEW priced, NEW shortable,
             Plan(c, target, nav, inLimits, k, priced, shortable)
      PROVE  Kept
  <2>1. job[c] \in JobData BY <1>c, <1>d
  <2> DEFINE held  == [s \in Symbol |-> BrokerPosition(job[c].broker, s)]
             names == Orders(target, held, priced, shortable, k)
             ok    == Gateway(c, nav, Cardinality(names), inLimits)
             draft == [s \in Symbol |->
                        IF s \in names THEN Planned(Delta(target, held, priced, k, s)) ELSE NoRow]
             todo  == IF ok THEN names ELSE {}
  <2> DEFINE data == [job[c] EXCEPT !.hasNav = TRUE, !.nav = nav, !.allowed = ok,
                                    !.draft = draft, !.todo = todo]
  <2>3. data.seen = job[c].seen /\ data.draft = draft BY <2>1 DEF JobData
  <2>5. job' = [job EXCEPT ![c] = data] BY <1>5 DEF Plan
  <2>4. data \in JobData BY <1>c, <1>d, <1>e, <2>5
  <2>6. ASSUME NEW s \in Symbol
        PROVE  draft[s].fill = 0 /\ ~draft[s].sent /\ draft[s].status \in {"none", "planned"}
    <3>1. draft[s] = NoRow \/ draft[s] = Planned(Delta(target, held, priced, k, s)) OBVIOUS
    <3> HIDE DEF draft, held
    <3> QED BY <3>1 DEF NoRow, Planned
  <2>8. /\ pc' = [pc EXCEPT ![c] = "submit"] /\ UNCHANGED <<order, venue>>
        /\ pc[c] \in Unsubmitted
    BY <1>5 DEF Plan, Unsubmitted
  <2>9. "submit" \notin Unsubmitted /\ pc[c] # "done" BY <1>5 DEF Plan, Unsubmitted
  <2>7. \A o \in data.seen : /\ order[o].sent /\ order[o].status \in {"submitted"} \cup BookedStatus
                             /\ venue[o].status \in VenueDone
    BY <1>c, <2>3 DEF LedgerInv, SeenSound
  <2> HIDE DEF data, draft
  <2> QED BY <1>c, <2>3, <2>4, <2>5, <2>6, <2>7, <2>8, <2>9, LocalStepKeeps
<1>6. ASSUME NEW c \in Cycle, NEW nav \in Nav, BlockOnEquity(c, nav) PROVE Kept
  BY <1>6, <1>c, <1>n, LocalStepKeeps DEF BlockOnEquity, Unsubmitted
<1>7. ASSUME NEW c \in Cycle, NEW s \in Symbol,
             \/ SubmitToLedger(c, s) \/ SubmitAccepted(c, s)
             \/ SubmitRefused(c, s) \/ SubmitTimedOut(c, s)
      PROVE  Kept
  <2>1. ~SubmitToLedger(c, s)
    BY <1>c DEF SubmitToLedger, Submitted, OnAlpaca, LedgerInv, BrokerKnown
  <2> QED BY <1>7, <2>1, SubmitKeeps DEF SubmitAccepted, SubmitRefused, SubmitTimedOut
<1>8. ASSUME NEW c \in Cycle, Finish(c) PROVE Kept
  <2>1. job[c].draft \in [Symbol -> Row] BY <1>c, <1>d DEF JobData
  <2>2. /\ pc[c] \notin {"idle", "done"} /\ job[c].todo = {} /\ venue' = venue
        /\ CommitRun(c, IF job[c].allowed THEN "submitted" ELSE "recorded", job[c].draft)
    BY <1>8 DEF Finish
  <2>3. /\ RowsCommitted' /\ DraftsSound' /\ SeenSound' /\ RowsSound'
        /\ \A o \in OrderId : order[o] # NoRow => order'[o] = order[o]
    BY <2>1, <2>2, CommitKeepsLedger
  <2>4. FinalRows BY <1>n, <2>3 DEF FinalRows, BookedStatus
  <2> QED BY <2>3, <2>4 DEF Kept
<1>9. ASSUME NEW r \in Reconciler, NEW b \in Broker, StartReconcile(r, b) PROVE Kept
  <2> DEFINE data == [NoData EXCEPT !.broker = b, !.today = day]
  <2>1. job' = [job EXCEPT ![r] = data] BY <1>9 DEF StartReconcile
  <2>2. data.seen = {} BY DEF NoData
  <2>3. data \in JobData BY <1>c, <1>d, <1>e, <2>1
  <2> HIDE DEF data
  <2> QED BY <1>9, <1>c, <2>1, <2>2, <2>3, JobAssumption, LocalStepKeeps DEF StartReconcile
<1>10. ASSUME NEW r \in Reconciler, ReportComparison(r) PROVE Kept
  BY <1>10, <1>c, <1>n, JobAssumption, LocalStepKeeps DEF ReportComparison
<1>11. ASSUME NEW j \in Job, Poll(j) PROVE Kept
  <2>1. job[j] \in JobData BY <1>d
  <2>2. job[j].broker = "alpaca" BY <1>11 DEF Poll, OnAlpaca, LedgerInv, BrokerKnown
  <2>3. PICK seen \in SUBSET Fillable("alpaca", job[j].today) :
           job' = [job EXCEPT ![j].seen = seen]
    BY <1>11, <2>2 DEF Poll
  <2> DEFINE data == [job[j] EXCEPT !.seen = seen]
  <2>4. job' = [job EXCEPT ![j] = data] BY <2>3
  <2>5. data \in JobData BY <1>d, <1>e, <2>4
  <2>6. data.seen = seen /\ data.todo = job[j].todo /\ data.draft = job[j].draft
    BY <2>1 DEF JobData
  <2>7. \A o \in seen : /\ order[o].sent /\ order[o].status \in {"submitted"} \cup BookedStatus
                        /\ venue[o].status \in VenueDone
    BY <2>3 DEF Fillable, OpenRows
  <2>8. j \in Cycle => job[j].todo = {}
    BY <1>11, <2>1 DEF Poll, LedgerInv, DraftsSound, DraftSound, JobData
  <2> HIDE DEF data
  <2> QED BY <1>11, <2>4, <2>5, <2>6, <2>7, <2>8, LocalStepKeeps DEF Poll, Unsubmitted
<1>12. ASSUME NEW j \in Job, Book(j) PROVE Kept BY <1>12, BookKeeps
<1>16. ASSUME NEW j \in Job, ReadLedger(j) PROVE Kept
  <2> DEFINE data == [job[j] EXCEPT !.ledger = [s \in Symbol |-> LedgerPosition(s)]]
  <2>1. job' = [job EXCEPT ![j] = data] BY <1>16 DEF ReadLedger
  <2>2. data \in JobData BY <1>d, <1>e, <2>1
  <2>3. job[j] \in JobData BY <1>d
  <2>4. data.seen = job[j].seen /\ data.todo = job[j].todo /\ data.draft = job[j].draft
    BY <2>3 DEF JobData
  <2>5. j \in Cycle => job[j].todo = {}
    BY <1>16, <2>3 DEF ReadLedger, LedgerInv, DraftsSound, DraftSound, JobData
  <2>6. \A o \in data.seen : /\ order[o].sent /\ order[o].status \in {"submitted"} \cup BookedStatus
                             /\ venue[o].status \in VenueDone
    BY <2>4 DEF LedgerInv, SeenSound
  <2> HIDE DEF data
  <2> QED BY <1>16, <2>1, <2>2, <2>4, <2>5, <2>6, LocalStepKeeps DEF ReadLedger, Unsubmitted
<1>13. ASSUME NEW j \in Job, Fail(j) PROVE Kept
  BY <1>13, <1>n, LocalStepKeeps DEF Fail, Unsubmitted, Job
<1>14. ASSUME NEW o \in OrderId, VenueStep(o) PROVE Kept BY <1>14, VenueKeeps
<1>15. CASE NextDay \/ UNCHANGED vars
  BY <1>15 DEF NextDay, vars, Kept, LedgerInv, RowsCommitted, DraftsSound, DraftSound,
               SeenSound, RowsSound, RowSound, BookedRight, FinalRows
<1> QED
  BY <1>1, <1>2, <1>3, <1>4, <1>5, <1>6, <1>7, <1>8, <1>9, <1>10, <1>11, <1>12, <1>13,
     <1>14, <1>15, <1>16
  DEF Next, CycleStep, ReconcilerStep, PollStep

(* Reconciliation books exactly what the venue executed, whatever jobs poll *)
(* the same order at once, crash, or lose a reply.                          *)
THEOREM FillsCorrect == OnAlpaca => (Spec => []FillsMatchVenue)
<1> SUFFICES ASSUME OnAlpaca PROVE Spec => []FillsMatchVenue OBVIOUS
<1>1. Init => LedgerInv BY LedgerInit
<1>2. LedgerInv /\ [Next]_vars => LedgerInv' BY LedgerStep
<1>3. LedgerInv => FillsMatchVenue
  BY DEF LedgerInv, RowsSound, RowSound, BookedRight, FillsMatchVenue, BookedStatus
<1> QED BY <1>1, <1>2, <1>3, PTL DEF Spec

(* No step rewrites a row that is booked, or planned by a run that submitted *)
(* nothing.                                                                  *)
THEOREM RowsFinal == OnAlpaca => (Spec => FinalRowsStay)
<1> SUFFICES ASSUME OnAlpaca PROVE Spec => FinalRowsStay OBVIOUS
<1>1. Init => LedgerInv BY LedgerInit
<1>2. LedgerInv /\ [Next]_vars => LedgerInv' BY LedgerStep
<1>3. LedgerInv /\ [Next]_vars =>
        [\A o \in OrderId :
           order[o].status \in BookedStatus \cup {"planned"} => order'[o] = order[o]]_vars
  BY LedgerStep DEF FinalRows
<1> QED BY <1>1, <1>2, <1>3, PTL DEF Spec, FinalRowsStay

----------------------------------------------------------------------------
(* The same of a ledger that is its own broker: a row is the order, and two *)
(* jobs that poll it book it alike.                                         *)

OnLedger == Broker = {"ledger"}

\* Rows appear with the commit of their cycle.
Unwritten == \A o \in OrderId : pc[o[1]] # "done" => order[o] = NoRow

\* A row a poll has seen is open, or another poll has booked it whole.
SeenInLedger ==
    \A j \in Job : \A o \in job[j].seen :
       \/ order[o].status = "submitted"
       \/ order[o].status = "filled" /\ order[o].fill = order[o].qty

OwnBookInv == TypeOK /\ BrokerKnown /\ Unwritten /\ SeenInLedger

\* What a step that commits no row does.
NoRowMoves ==
    /\ order' = order
    /\ \A c \in Cycle : pc'[c] # "done" => pc[c] # "done"
    /\ \A j \in Job : job'[j].seen \subseteq job[j].seen

(* A step that commits no row leaves what polls have seen as it was. *)
LEMMA QuietKeepsOwnBook ==
  ASSUME OwnBookInv, NoRowMoves
  PROVE  Unwritten' /\ SeenInLedger' /\ FinalRows
<1>1. \A o \in OrderId : o[1] \in Cycle BY DEF OrderId
<1> QED BY <1>1 DEF OwnBookInv, NoRowMoves, Unwritten, SeenInLedger, FinalRows

(* The commit of a run writes rows that were not there. *)
LEMMA CommitKeepsOwnBook ==
  ASSUME OwnBookInv, NEW c \in Cycle, NEW status, NEW rows, pc[c] \notin {"idle", "done"},
         CommitRun(c, status, rows)
  PROVE  Unwritten' /\ SeenInLedger' /\ FinalRows
<1>c. c \in Job BY DEF Job
<1>d. job \in [Job -> JobData] /\ pc \in [Job -> PC] BY DEF OwnBookInv, TypeOK
<1>o. \A o \in OrderId : o[1] \in Job BY DEF OrderId, Job
<1>1. \A o \in OrderId : order[o] # NoRow => order'[o] = order[o]
  BY DEF CommitRun, OwnBookInv, Unwritten
<1>2. Unwritten'
  BY <1>c, <1>d, <1>o DEF CommitRun, OwnBookInv, Unwritten
<1>3. \A j \in Job : job'[j].seen \subseteq job[j].seen
  BY <1>c, <1>d DEF CommitRun, NoData
<1>4. \A j \in Job : job[j].seen \in SUBSET OrderId BY <1>d DEF JobData
<1>5. \A j \in Job : \A o \in job[j].seen : order'[o] = order[o]
  BY <1>1, <1>4 DEF OwnBookInv, SeenInLedger, NoRow
<1>6. SeenInLedger' BY <1>3, <1>5 DEF OwnBookInv, SeenInLedger
<1>7. FinalRows BY <1>1 DEF FinalRows, NoRow, BookedStatus
<1> QED BY <1>2, <1>6, <1>7

(* A poll of the ledger sees open rows. *)
LEMMA PollKeepsOwnBook ==
  ASSUME OnLedger, OwnBookInv, NEW j \in Job, Poll(j)
  PROVE  Unwritten' /\ SeenInLedger' /\ FinalRows
<1>d. job \in [Job -> JobData] /\ pc \in [Job -> PC] BY DEF OwnBookInv, TypeOK
<1>o. \A o \in OrderId : o[1] \in Job BY DEF OrderId, Job
<1>1. job[j].broker = "ledger" BY DEF Poll, OnLedger, OwnBookInv, BrokerKnown
<1>2. PICK seen \in SUBSET Fillable("ledger", job[j].today) :
         job' = [job EXCEPT ![j].seen = seen]
  BY <1>1 DEF Poll
<1>3. \A o \in seen : order[o].status = "submitted" BY <1>2 DEF Fillable, OpenRows
<1>4. job'[j].seen = seen /\ \A k \in Job : k # j => job'[k] = job[k]
  BY <1>2, <1>d DEF JobData
<1>5. SeenInLedger' BY <1>3, <1>4 DEF Poll, OwnBookInv, SeenInLedger
<1>6. Unwritten' BY <1>d, <1>o DEF Poll, OwnBookInv, Unwritten
<1> QED BY <1>5, <1>6 DEF Poll, FinalRows

(* Booking fills what is open and leaves what another job has filled. *)
LEMMA BookKeepsOwnBook ==
  ASSUME OnLedger, OwnBookInv, NEW j \in Job, Book(j)
  PROVE  Unwritten' /\ SeenInLedger' /\ FinalRows
<1>d. job \in [Job -> JobData] /\ pc \in [Job -> PC] /\ order \in [OrderId -> Row]
  BY DEF OwnBookInv, TypeOK
<1>o. \A o \in OrderId : o[1] \in Job BY DEF OrderId, Job
<1>1. job[j].broker = "ledger" BY DEF Book, OnLedger, OwnBookInv, BrokerKnown
<1>2. \A k \in Job : job[k].seen \in SUBSET OrderId BY <1>d DEF JobData
<1>3. ASSUME NEW o \in OrderId
      PROVE  order'[o] = IF o \in job[j].seen
                           THEN [order[o] EXCEPT !.status = "filled", !.fill = order[o].qty]
                           ELSE order[o]
  BY <1>1 DEF Book, BookedRow
<1>4. ASSUME NEW o \in OrderId, o \in job[j].seen
      PROVE  /\ order'[o].status = "filled" /\ order'[o].fill = order'[o].qty
             /\ order[o].status = "filled" => order'[o] = order[o]
             /\ order[o].status \in {"submitted", "filled"}
  <2>1. order[o] \in Row BY <1>d
  <2>2. order'[o] = [order[o] EXCEPT !.status = "filled", !.fill = order[o].qty]
    BY <1>3, <1>4
  <2>3. order[o].status = "submitted" \/ (order[o].status = "filled" /\ order[o].fill = order[o].qty)
    BY <1>4 DEF OwnBookInv, SeenInLedger
  <2>4. order'[o].status = "filled" /\ order'[o].fill = order'[o].qty
    BY <2>1, <2>2 DEF Row
  <2>5. ASSUME order[o].status = "filled" PROVE order'[o] = order[o]
    <3>1. order[o].fill = order[o].qty BY <2>3, <2>5
    <3>2. order'[o] = [order[o] EXCEPT !.status = order[o].status, !.fill = order[o].fill]
      BY <2>2, <2>5, <3>1
    <3> QED BY <2>1, <3>2 DEF Row
  <2> QED BY <2>3, <2>4, <2>5
<1>5. FinalRows
  BY <1>3, <1>4 DEF FinalRows, BookedStatus
<1>6. Unwritten'
  <2>1. ASSUME NEW o \in OrderId, pc'[o[1]] # "done" PROVE order'[o] = NoRow
    <3>1. pc[o[1]] # "done" BY <2>1, <1>d, <1>o DEF Book
    <3>2. order[o] = NoRow BY <3>1 DEF OwnBookInv, Unwritten
    <3>3. o \notin job[j].seen BY <1>4, <3>2 DEF NoRow
    <3> QED BY <1>3, <3>2, <3>3
  <2> QED BY <2>1 DEF Unwritten
<1>7. SeenInLedger'
  <2>1. ASSUME NEW k \in Job, NEW o \in job'[k].seen
        PROVE  \/ order'[o].status = "submitted"
               \/ order'[o].status = "filled" /\ order'[o].fill = order'[o].qty
    <3>1. o \in job[k].seen /\ o \in OrderId
      BY <1>d, <1>2 DEF Book, JobData
    <3>2. CASE o \in job[j].seen BY <1>4, <3>1, <3>2
    <3>3. CASE o \notin job[j].seen BY <1>3, <3>1, <3>3 DEF OwnBookInv, SeenInLedger
    <3> QED BY <3>2, <3>3
  <2> QED BY <2>1 DEF SeenInLedger
<1> QED BY <1>5, <1>6, <1>7

LEMMA OwnBookStep ==
  ASSUME OnLedger, OwnBookInv, [Next]_vars PROVE OwnBookInv' /\ FinalRows
<1>t. TypeOK' /\ BrokerKnown' BY TypeStep, BrokerStep DEF OwnBookInv
<1> SUFFICES Unwritten' /\ SeenInLedger' /\ FinalRows BY <1>t DEF OwnBookInv
<1>c. Cycle \subseteq Job /\ Reconciler \subseteq Job BY DEF Job
<1>d. job \in [Job -> JobData] /\ pc \in [Job -> PC] BY DEF OwnBookInv, TypeOK
<1>n. NoData.seen = {} BY DEF NoData
<1>1. ASSUME NEW c \in Cycle, NEW b \in Broker, NEW enabled \in BOOLEAN, NEW asOf \in 1..day,
             StartCycle(c, b, enabled, asOf)
      PROVE  NoRowMoves
  <2> DEFINE data == [NoData EXCEPT !.broker = b, !.enabled = enabled,
                                    !.today = day, !.asOf = asOf]
  <2>1. job' = [job EXCEPT ![c] = data] BY <1>1 DEF StartCycle
  <2>2. data.seen = {} BY DEF NoData
  <2> HIDE DEF data
  <2> QED BY <1>1, <1>c, <1>d, <2>1, <2>2 DEF StartCycle, NoRowMoves
<1>2. ASSUME NEW c \in Cycle,
             \/ \E b \in Broker, asOf \in 0..day : BlockAtStart(c, b, asOf)
             \/ \E nav \in Nav : BlockOnEquity(c, nav)
      PROVE  NoRowMoves
  BY <1>2, <1>c, <1>d, <1>n DEF BlockAtStart, BlockOnEquity, NoRowMoves
<1>3. ASSUME NEW c \in Cycle, Block(c) \/ BlockOnDiscrepancy(c) \/ Finish(c)
      PROVE  Unwritten' /\ SeenInLedger' /\ FinalRows
  BY <1>3, CommitKeepsOwnBook DEF Block, BlockOnDiscrepancy, Finish
<1>4. ASSUME NEW c \in Cycle, NEW answered \in Answers, Reconciled(c, answered)
      PROVE  NoRowMoves
  <2>1. job[c] \in JobData BY <1>c, <1>d
  <2>2. PICK agreed : job' = [job EXCEPT ![c].agreed = agreed, ![c].ledger = Flat]
    BY <1>4 DEF Reconciled
  <2>3. \A j \in Job : job'[j].seen = job[j].seen BY <1>c, <1>d, <2>1, <2>2 DEF JobData
  <2> QED BY <1>4, <1>c, <1>d, <2>3 DEF Reconciled, NoRowMoves
<1>5. ASSUME NEW c \in Cycle, NEW target, NEW nav, NEW inLimits, NEW k, NEW priced, NEW shortable,
             Plan(c, target, nav, inLimits, k, priced, shortable)
      PROVE  NoRowMoves
  <2>1. job[c] \in JobData BY <1>c, <1>d
  <2>2. PICK ok, draft, todo :
           job' = [job EXCEPT ![c] = [@ EXCEPT !.hasNav = TRUE, !.nav = nav, !.allowed = ok,
                                               !.draft = draft, !.todo = todo]]
    BY <1>5 DEF Plan
  <2>3. \A j \in Job : job'[j].seen = job[j].seen BY <1>c, <1>d, <2>1, <2>2 DEF JobData
  <2> QED BY <1>5, <1>c, <1>d, <2>3 DEF Plan, NoRowMoves
<1>6. ASSUME NEW c \in Cycle, NEW s \in Symbol,
             \/ SubmitToLedger(c, s) \/ SubmitAccepted(c, s)
             \/ SubmitRefused(c, s) \/ SubmitTimedOut(c, s)
      PROVE  NoRowMoves
  <2>1. job[c] \in JobData BY <1>c, <1>d
  <2>2. PICK status, sent : Submitted(c, s, status, sent)
    BY <1>6 DEF SubmitToLedger, SubmitAccepted, SubmitRefused, SubmitTimedOut
  <2>3. \A j \in Job : job'[j].seen = job[j].seen
    BY <1>c, <1>d, <2>1, <2>2 DEF Submitted, JobData
  <2> QED BY <2>2, <2>3 DEF Submitted, NoRowMoves
<1>7. ASSUME NEW r \in Reconciler, NEW b \in Broker, StartReconcile(r, b) PROVE NoRowMoves
  <2> DEFINE data == [NoData EXCEPT !.broker = b, !.today = day]
  <2>1. job' = [job EXCEPT ![r] = data] BY <1>7 DEF StartReconcile
  <2>2. data.seen = {} BY DEF NoData
  <2> HIDE DEF data
  <2> QED BY <1>7, <1>c, <1>d, <2>1, <2>2 DEF StartReconcile, NoRowMoves
<1>8. ASSUME NEW r \in Reconciler, ReportComparison(r) PROVE NoRowMoves
  BY <1>8, <1>c, <1>d, <1>n, JobAssumption DEF ReportComparison, NoRowMoves
<1>9. ASSUME NEW j \in Job, Fail(j) PROVE NoRowMoves
  BY <1>9, <1>c, <1>d, <1>n DEF Fail, NoRowMoves
<1>10. ASSUME NEW o \in OrderId, VenueStep(o) PROVE NoRowMoves
  BY <1>10 DEF VenueStep, VenueFill, VenueClose, VenueReject, NoRowMoves
<1>11. ASSUME NextDay \/ UNCHANGED vars PROVE NoRowMoves
  <2>1. UNCHANGED <<order, pc, job>> BY <1>11 DEF NextDay, vars
  <2> QED BY <2>1 DEF NoRowMoves
<1>12. ASSUME NEW j \in Job, PollStep(j) PROVE Unwritten' /\ SeenInLedger' /\ FinalRows
  <2>1. ASSUME ReadLedger(j) PROVE NoRowMoves
    <3>1. job[j] \in JobData BY <1>d
    <3>2. PICK view : job' = [job EXCEPT ![j].ledger = view] BY <2>1 DEF ReadLedger
    <3>3. \A i \in Job : job'[i].seen = job[i].seen BY <1>d, <3>1, <3>2 DEF JobData
    <3> QED BY <2>1, <1>c, <1>d, <3>3 DEF ReadLedger, NoRowMoves
  <2> QED BY <1>12, <2>1, PollKeepsOwnBook, BookKeepsOwnBook, QuietKeepsOwnBook DEF PollStep
<1> QED
  BY <1>1, <1>2, <1>3, <1>4, <1>5, <1>6, <1>7, <1>8, <1>9, <1>10, <1>11, <1>12,
     QuietKeepsOwnBook
  DEF Next, CycleStep, ReconcilerStep

(* Of a ledger that is its own broker too, no step rewrites a row that is   *)
(* booked, or planned by a run that submitted nothing.                      *)
THEOREM OwnRowsFinal == OnLedger => (Spec => FinalRowsStay)
<1> SUFFICES ASSUME OnLedger PROVE Spec => FinalRowsStay OBVIOUS
<1>1. Init => OwnBookInv
  <2> SUFFICES ASSUME Init PROVE OwnBookInv OBVIOUS
  <2>1. TypeOK BY TypeInit
  <2>2. \A o \in OrderId : o[1] \in Job BY DEF OrderId, Job
  <2> QED BY <2>1, <2>2 DEF Init, OwnBookInv, BrokerKnown, Unwritten, SeenInLedger, NoData
<1>2. OwnBookInv /\ [Next]_vars => OwnBookInv' BY OwnBookStep
<1>3. OwnBookInv /\ [Next]_vars =>
        [\A o \in OrderId :
           order[o].status \in BookedStatus \cup {"planned"} => order'[o] = order[o]]_vars
  BY OwnBookStep DEF FinalRows
<1> QED BY <1>1, <1>2, <1>3, PTL DEF Spec, FinalRowsStay

----------------------------------------------------------------------------
(* Only what the gateway allowed is traded, whatever brokers are named.    *)

\* Rows appear with the commit of their cycle and orders with its submits;
\* what is submitted passed the gateway.
Gated(c) ==
    /\ pc[c] # "done" => /\ run[c].status = "none"
                         /\ \A s \in Symbol : order[<<c, s>>].status = "none"
    /\ pc[c] \in Unsubmitted => \A s \in Symbol : venue[<<c, s>>].status = "none"
    /\ pc[c] # "submit" => \A s \in Symbol : s \notin job[c].todo
    /\ pc[c] = "submit" =>
         \/ tradingOn /\ job[c].allowed
         \/ \A s \in Symbol : /\ s \notin job[c].todo
                              /\ job[c].draft[s].status \in {"none", "planned"}
                              /\ venue[<<c, s>>].status = "none"

\* A poll looks at rows that were submitted.
SeenSubmitted ==
    \A j \in Job : \A o \in job[j].seen : order[o].status \notin {"none", "planned"}

GateInv == /\ TypeOK /\ BrokerKnown
           /\ (\A c \in Cycle : Gated(c)) /\ SeenSubmitted /\ OnlyGatedOrdersTrade

(* A cycle's own step keeps what concerns the other jobs. *)
LEMMA OwnStepGates ==
  ASSUME GateInv, TypeOK', NEW c \in Cycle, tradingOn' = tradingOn,
         \A d \in Cycle : d # c => pc'[d] = pc[d] /\ job'[d] = job[d] /\ run'[d] = run[d],
         \A o \in OrderId : o[1] # c => order'[o] = order[o] /\ venue'[o] = venue[o],
         \A j \in Job : job'[j].seen \subseteq job[j].seen,
         Gated(c)',
         \A s \in Symbol : order[<<c, s>>].status \notin {"none", "planned"} =>
                              order'[<<c, s>>].status \notin {"none", "planned"},
         \A s \in Symbol :
            \/ venue'[<<c, s>>].status # "none"
            \/ order'[<<c, s>>].status \notin {"none", "planned"}
            => tradingOn /\ run'[c].status \in {"none", "submitted"}
  PROVE  (\A d \in Cycle : Gated(d)') /\ SeenSubmitted' /\ OnlyGatedOrdersTrade'
<1>o. \A o \in OrderId : o[1] \in Cycle /\ o[2] \in Symbol /\ o = <<o[1], o[2]>> BY DEF OrderId
<1>1. ASSUME NEW d \in Cycle, d # c PROVE Gated(d)'
  <2>1. \A s \in Symbol : <<d, s>> \in OrderId /\ <<d, s>>[1] # c BY <1>1 DEF OrderId
  <2>2. Gated(d) BY DEF GateInv
  <2> QED BY <1>1, <2>1, <2>2 DEF Gated
<1>2. SeenSubmitted'
  <2> SUFFICES ASSUME NEW j \in Job, NEW o \in job'[j].seen
               PROVE  order'[o].status \notin {"none", "planned"}
    BY DEF SeenSubmitted
  <2>1. o \in job[j].seen /\ o \in OrderId BY DEF GateInv, TypeOK, JobData
  <2>2. order[o].status \notin {"none", "planned"} BY <2>1 DEF GateInv, SeenSubmitted
  <2>3. CASE o[1] = c
    <3>1. o = <<c, o[2]>> /\ o[2] \in Symbol BY <1>o, <2>1, <2>3
    <3> QED BY <2>2, <3>1
  <2>4. CASE o[1] # c BY <2>1, <2>2, <2>4
  <2> QED BY <2>3, <2>4
<1>3. OnlyGatedOrdersTrade'
  <2> SUFFICES ASSUME NEW o \in OrderId,
                      venue'[o].status # "none" \/ order'[o].status \notin {"none", "planned"}
               PROVE  tradingOn /\ run'[o[1]].status \in {"none", "submitted"}
    BY DEF OnlyGatedOrdersTrade
  <2>1. CASE o[1] = c
    <3>1. o = <<c, o[2]>> /\ o[2] \in Symbol BY <1>o, <2>1
    <3> QED BY <2>1, <3>1
  <2>2. CASE o[1] # c BY <1>o, <2>2 DEF GateInv, OnlyGatedOrdersTrade
  <2> QED BY <2>1, <2>2
<1> QED BY <1>1, <1>2, <1>3

(* A step of a cycle that commits nothing and submits nothing: what it knows *)
(* of its orders is what the gateway let it plan.                            *)
LEMMA PlanningGates ==
  ASSUME GateInv, TypeOK', NEW c \in Cycle,
         UNCHANGED <<tradingOn, run, order, venue>>,
         \A j \in Job : j # c => pc'[j] = pc[j] /\ job'[j] = job[j],
         pc[c] \in Unsubmitted, pc'[c] \in Unsubmitted \cup {"submit"},
         job'[c].seen \subseteq job[c].seen,
         \/ \A s \in Symbol : s \notin job'[c].todo
         \/ tradingOn /\ job'[c].allowed /\ pc'[c] = "submit",
         pc'[c] = "submit" => \A s \in Symbol : job'[c].draft[s].status \in {"none", "planned"}
  PROVE  (\A d \in Cycle : Gated(d)') /\ SeenSubmitted' /\ OnlyGatedOrdersTrade'
<1>1. Gated(c) /\ pc[c] # "done" BY DEF GateInv, Unsubmitted
<1>2. \A s \in Symbol : order[<<c, s>>].status = "none" /\ venue[<<c, s>>].status = "none"
  BY <1>1 DEF Gated
<1>3. Gated(c)'
  <2>1. run'[c].status = "none" BY <1>1 DEF Gated
  <2> QED BY <1>2, <2>1 DEF Gated, Unsubmitted
<1>4. \A d \in Cycle : d # c => pc'[d] = pc[d] /\ job'[d] = job[d] BY DEF Job
<1>5. \A j \in Job : job'[j].seen \subseteq job[j].seen OBVIOUS
<1> QED BY <1>2, <1>3, <1>4, <1>5, OwnStepGates

(* The commit of a run, when its rows are what its status allows. *)
LEMMA CommitGates ==
  ASSUME GateInv, TypeOK', NEW c \in Cycle, pc[c] # "done",
         UNCHANGED <<tradingOn, venue>>,
         \A j \in Job : j # c => pc'[j] = pc[j] /\ job'[j] = job[j],
         \A d \in Cycle : d # c => run'[d] = run[d],
         \A o \in OrderId : o[1] # c => order'[o] = order[o],
         pc'[c] = "done", job'[c].seen \subseteq job[c].seen,
         \A s \in Symbol : s \notin job'[c].todo,
         \/ tradingOn /\ run'[c].status = "submitted"
         \/ \A s \in Symbol : /\ venue[<<c, s>>].status = "none"
                              /\ order'[<<c, s>>].status \in {"none", "planned"}
  PROVE  (\A d \in Cycle : Gated(d)') /\ SeenSubmitted' /\ OnlyGatedOrdersTrade'
<1>1. \A s \in Symbol : order[<<c, s>>].status = "none" BY DEF GateInv, Gated
<1>2. Gated(c)' BY DEF Gated, Unsubmitted
<1>3. \A d \in Cycle : d # c => pc'[d] = pc[d] /\ job'[d] = job[d] BY DEF Job
<1>4. \A j \in Job : job'[j].seen \subseteq job[j].seen OBVIOUS
<1> QED BY <1>1, <1>2, <1>3, <1>4, OwnStepGates

(* One submit: the gateway has allowed what is left to do. *)
LEMMA SubmitGates ==
  ASSUME GateInv, TypeOK', NEW c \in Cycle, NEW s \in Symbol, NEW status, NEW sent,
         Submitted(c, s, status, sent), venue' = venue \/ VenueAccepts(c, s)
  PROVE  (\A d \in Cycle : Gated(d)') /\ SeenSubmitted' /\ OnlyGatedOrdersTrade'
<1>c. c \in Job BY DEF Job
<1>d. /\ job \in [Job -> JobData] /\ pc \in [Job -> PC] /\ venue \in [OrderId -> VenueOrder]
      /\ job[c] \in JobData
  BY <1>c DEF GateInv, TypeOK
<1>1. pc[c] = "submit" /\ s \in job[c].todo /\ UNCHANGED <<tradingOn, run, order, pc>>
  BY DEF Submitted
<1>2. tradingOn /\ job[c].allowed /\ run[c].status = "none"
  BY <1>1 DEF GateInv, Gated
<1>3. job'[c].allowed = job[c].allowed /\ job'[c].seen = job[c].seen
  BY <1>c, <1>d DEF Submitted, JobData
<1>4. \A d \in Job : d # c => job'[d] = job[d] BY <1>d DEF Submitted
<1>5. \A o \in OrderId : o[1] # c => venue'[o] = venue[o]
  BY <1>d DEF VenueAccepts, OrderId
<1>6. Gated(c)'
  <2>1. Gated(c) BY DEF GateInv
  <2> QED BY <1>1, <1>2, <1>3, <2>1 DEF Gated, Unsubmitted
<1>7. \A d \in Cycle : d # c => job'[d] = job[d] BY <1>4 DEF Job
<1>8. \A j \in Job : job'[j].seen \subseteq job[j].seen BY <1>3, <1>4
<1> QED BY <1>1, <1>2, <1>5, <1>6, <1>7, <1>8, OwnStepGates

(* What other jobs and the venue do to rows and orders that are submitted. *)
LEMMA WorldGates ==
  ASSUME GateInv, TypeOK', UNCHANGED <<tradingOn, run>>,
         \A c \in Cycle : /\ job'[c].todo = job[c].todo /\ job'[c].draft = job[c].draft
                          /\ job'[c].allowed = job[c].allowed
                          /\ \/ pc'[c] = pc[c]
                             \/ pc[c] \in Unsubmitted /\ pc'[c] \in Unsubmitted,
         \A o \in OrderId : /\ venue'[o].status = "none" <=> venue[o].status = "none"
                            /\ \/ order'[o].status = order[o].status
                               \/ /\ order'[o].status \notin {"none", "planned"}
                                  /\ order[o].status \notin {"none", "planned"},
         SeenSubmitted'
  PROVE  (\A d \in Cycle : Gated(d)') /\ SeenSubmitted' /\ OnlyGatedOrdersTrade'
<1>1. ASSUME NEW d \in Cycle PROVE Gated(d)'
  <2>1. Gated(d) /\ \A s \in Symbol : <<d, s>> \in OrderId BY DEF GateInv, OrderId
  <2>2. \A s \in Symbol : /\ order'[<<d, s>>].status = "none" <=> order[<<d, s>>].status = "none"
                          /\ venue'[<<d, s>>].status = "none" <=> venue[<<d, s>>].status = "none"
    BY <2>1
  <2>3. /\ pc'[d] = "done" <=> pc[d] = "done"
        /\ pc'[d] = "submit" <=> pc[d] = "submit"
        /\ pc'[d] \in Unsubmitted <=> pc[d] \in Unsubmitted
    BY DEF Unsubmitted
  <2> QED BY <2>1, <2>2, <2>3 DEF Gated
<1>2. OnlyGatedOrdersTrade'
  BY DEF GateInv, OnlyGatedOrdersTrade
<1> QED BY <1>1, <1>2

(* No step trades what the gateway has not allowed. *)
LEMMA GateStep == ASSUME GateInv, [Next]_vars PROVE GateInv'
<1>t. TypeOK' /\ BrokerKnown' BY TypeStep, BrokerStep DEF GateInv
<1> SUFFICES (\A d \in Cycle : Gated(d)') /\ SeenSubmitted' /\ OnlyGatedOrdersTrade'
  BY <1>t DEF GateInv
<1>c. Cycle \subseteq Job /\ Reconciler \subseteq Job /\ Job = Cycle \cup Reconciler BY DEF Job
<1>d. job \in [Job -> JobData] /\ pc \in [Job -> PC] BY DEF GateInv, TypeOK
<1>n. /\ NoData.seen = {} /\ NoData.todo = {} /\ \A s \in Symbol : NoRows[s].status = "none"
  BY DEF NoData, NoRows, NoRow
<1>g. \A c \in Cycle : /\ Gated(c)
                       /\ pc[c] # "submit" => \A s \in Symbol : s \notin job[c].todo
                       /\ pc[c] \in Unsubmitted => \A s \in Symbol : venue[<<c, s>>].status = "none"
  BY DEF GateInv, Gated
<1>1. ASSUME NEW c \in Cycle, NEW b \in Broker, NEW enabled \in BOOLEAN, NEW asOf \in 1..day,
             StartCycle(c, b, enabled, asOf)
      PROVE  (\A d \in Cycle : Gated(d)') /\ SeenSubmitted' /\ OnlyGatedOrdersTrade'
  <2> DEFINE data == [NoData EXCEPT !.broker = b, !.enabled = enabled,
                                    !.today = day, !.asOf = asOf]
  <2>1. /\ job' = [job EXCEPT ![c] = data] /\ pc' = [pc EXCEPT ![c] = "poll"] /\ pc[c] = "idle"
        /\ UNCHANGED <<tradingOn, run, order, venue>>
    BY <1>1 DEF StartCycle
  <2>2. data.seen = {} /\ data.todo = {} BY DEF NoData
  <2> HIDE DEF data
  <2>3. /\ pc'[c] = "poll" /\ job'[c] = data
        /\ \A j \in Job : j # c => pc'[j] = pc[j] /\ job'[j] = job[j]
    BY <1>c, <1>d, <2>1
  <2> QED BY <1>t, <2>1, <2>2, <2>3, PlanningGates DEF Unsubmitted
<1>2. ASSUME NEW c \in Cycle, NEW b \in Broker, NEW asOf \in 0..day, BlockAtStart(c, b, asOf)
      PROVE  (\A d \in Cycle : Gated(d)') /\ SeenSubmitted' /\ OnlyGatedOrdersTrade'
  <2>1. /\ pc[c] = "idle" /\ pc' = [pc EXCEPT ![c] = "done"]
        /\ UNCHANGED <<tradingOn, order, venue, job>>
    BY <1>2 DEF BlockAtStart
  <2>2. run'[c].status = "blocked" /\ \A d \in Cycle : d # c => run'[d] = run[d]
    BY <1>2 DEF BlockAtStart, GateInv, TypeOK
  <2>3. \A s \in Symbol : order[<<c, s>>].status = "none" /\ venue[<<c, s>>].status = "none"
    BY <1>g, <2>1 DEF Gated, Unsubmitted
  <2>4. /\ pc'[c] = "done" /\ job'[c] = job[c] /\ \A s \in Symbol : s \notin job[c].todo
        /\ \A j \in Job : j # c => pc'[j] = pc[j] /\ job'[j] = job[j]
    BY <1>c, <1>d, <1>g, <2>1
  <2> QED BY <1>t, <2>1, <2>2, <2>3, <2>4, CommitGates
<1>3. ASSUME NEW c \in Cycle, Block(c) \/ BlockOnDiscrepancy(c) \/ \E nav \in Nav : BlockOnEquity(c, nav)
      PROVE  (\A d \in Cycle : Gated(d)') /\ SeenSubmitted' /\ OnlyGatedOrdersTrade'
  <2>1. /\ pc[c] \in {"plan", "compare"} /\ pc' = [pc EXCEPT ![c] = "done"]
        /\ job' = [job EXCEPT ![c] = NoData] /\ UNCHANGED <<tradingOn, venue>>
    BY <1>3 DEF Block, BlockOnDiscrepancy, BlockOnEquity, CommitRun
  <2>2. run'[c].status = "blocked" /\ \A d \in Cycle : d # c => run'[d] = run[d]
    BY <1>3 DEF Block, BlockOnDiscrepancy, BlockOnEquity, CommitRun, GateInv, TypeOK
  <2>3. \A s \in Symbol : order[<<c, s>>].status = "none" /\ venue[<<c, s>>].status = "none"
    BY <1>g, <2>1 DEF Gated, Unsubmitted
  <2>4. \/ \A o \in OrderId : order'[o] = IF o[1] = c THEN NoRows[o[2]] ELSE order[o]
        \/ order' = order
    BY <1>3 DEF Block, BlockOnDiscrepancy, BlockOnEquity, CommitRun
  <2>5. \A o \in OrderId : o[1] # c => order'[o] = order[o] BY <2>4
  <2>6. \A s \in Symbol : order'[<<c, s>>].status = "none"
    <3> TAKE s \in Symbol
    <3>1. <<c, s>> \in OrderId BY DEF OrderId
    <3> QED BY <1>n, <2>3, <2>4, <3>1
  <2>7. /\ pc[c] # "done" /\ pc'[c] = "done" /\ job'[c] = NoData
        /\ \A j \in Job : j # c => pc'[j] = pc[j] /\ job'[j] = job[j]
    BY <1>c, <1>d, <2>1
  <2> QED BY <1>n, <1>t, <2>1, <2>2, <2>3, <2>5, <2>6, <2>7, CommitGates
<1>4. ASSUME NEW c \in Cycle, NEW answered \in Answers, Reconciled(c, answered)
      PROVE  (\A d \in Cycle : Gated(d)') /\ SeenSubmitted' /\ OnlyGatedOrdersTrade'
  <2> DEFINE data == [job[c] EXCEPT !.agreed = (Discrepancies(c) = {}), !.ledger = Flat]
  <2>1. /\ job' = [job EXCEPT ![c] = data] /\ pc' = [pc EXCEPT ![c] = "plan"] /\ pc[c] = "compare"
        /\ UNCHANGED <<tradingOn, run, order, venue>>
    BY <1>4 DEF Reconciled
  <2>2. data.seen = job[c].seen /\ data.todo = job[c].todo BY <1>c, <1>d DEF JobData
  <2> HIDE DEF data
  <2>3. /\ pc'[c] = "plan" /\ job'[c] = data /\ \A s \in Symbol : s \notin data.todo
        /\ \A j \in Job : j # c => pc'[j] = pc[j] /\ job'[j] = job[j]
    BY <1>c, <1>d, <1>g, <2>1, <2>2
  <2> QED BY <1>t, <2>1, <2>2, <2>3, PlanningGates DEF Unsubmitted
<1>5. ASSUME NEW c \in Cycle, NEW target, NEW nav, NEW inLimits, NEW k, NEW priced, NEW shortable,
             Plan(c, target, nav, inLimits, k, priced, shortable)
      PROVE  (\A d \in Cycle : Gated(d)') /\ SeenSubmitted' /\ OnlyGatedOrdersTrade'
  <2> DEFINE held  == [s \in Symbol |-> BrokerPosition(job[c].broker, s)]
             names == Orders(target, held, priced, shortable, k)
             ok    == Gateway(c, nav, Cardinality(names), inLimits)
             draft == [s \in Symbol |->
                        IF s \in names THEN Planned(Delta(target, held, priced, k, s)) ELSE NoRow]
             data  == [job[c] EXCEPT !.hasNav = TRUE, !.nav = nav, !.allowed = ok,
                                     !.draft = draft, !.todo = IF ok THEN names ELSE {}]
  <2>1. /\ job' = [job EXCEPT ![c] = data] /\ pc' = [pc EXCEPT ![c] = "submit"] /\ pc[c] = "plan"
        /\ UNCHANGED <<tradingOn, run, order, venue>>
    BY <1>5 DEF Plan
  <2>2. ok => tradingOn BY DEF Gateway
  <2>3. \A s \in Symbol : draft[s].status \in {"none", "planned"} BY DEF Planned, NoRow
  <2> HIDE DEF held, names, ok, draft
  <2>4. /\ data.seen = job[c].seen /\ data.todo = IF ok THEN names ELSE {}
        /\ data.draft = draft /\ data.allowed = ok
    BY <1>c, <1>d DEF JobData
  <2>5. (tradingOn /\ data.allowed) \/ (\A s \in Symbol : s \notin data.todo)
    BY <2>2, <2>4
  <2>6. \A s \in Symbol : data.draft[s].status \in {"none", "planned"} BY <2>3, <2>4
  <2> HIDE DEF data
  <2>7. /\ pc'[c] = "submit" /\ job'[c] = data
        /\ \A j \in Job : j # c => pc'[j] = pc[j] /\ job'[j] = job[j]
    BY <1>c, <1>d, <2>1
  <2> QED BY <1>t, <2>1, <2>4, <2>5, <2>6, <2>7, PlanningGates DEF Unsubmitted
<1>6. ASSUME NEW c \in Cycle, Finish(c)
      PROVE  (\A d \in Cycle : Gated(d)') /\ SeenSubmitted' /\ OnlyGatedOrdersTrade'
  <2>1. /\ pc[c] = "submit" /\ pc' = [pc EXCEPT ![c] = "done"]
        /\ job' = [job EXCEPT ![c] = NoData] /\ UNCHANGED <<tradingOn, venue>>
        /\ \A o \in OrderId : order'[o] = IF o[1] = c THEN job[c].draft[o[2]] ELSE order[o]
    BY <1>6 DEF Finish, CommitRun
  <2>2. /\ run'[c].status = IF job[c].allowed THEN "submitted" ELSE "recorded"
        /\ \A d \in Cycle : d # c => run'[d] = run[d]
    BY <1>6 DEF Finish, CommitRun, GateInv, TypeOK
  <2>3. \/ tradingOn /\ job[c].allowed
        \/ \A s \in Symbol : /\ job[c].draft[s].status \in {"none", "planned"}
                             /\ venue[<<c, s>>].status = "none"
    BY <1>g, <2>1 DEF Gated
  <2>4. /\ pc'[c] = "done" /\ job'[c] = NoData
        /\ \A j \in Job : j # c => pc'[j] = pc[j] /\ job'[j] = job[j]
    BY <1>c, <1>d, <2>1
  <2>5. \A s \in Symbol : order'[<<c, s>>] = job[c].draft[s] BY <2>1 DEF OrderId
  <2> QED BY <1>n, <1>t, <2>1, <2>2, <2>3, <2>4, <2>5, CommitGates
<1>7. ASSUME NEW c \in Cycle, NEW s \in Symbol,
             \/ SubmitToLedger(c, s) \/ SubmitAccepted(c, s)
             \/ SubmitRefused(c, s) \/ SubmitTimedOut(c, s)
      PROVE  (\A d \in Cycle : Gated(d)') /\ SeenSubmitted' /\ OnlyGatedOrdersTrade'
  BY <1>7, <1>t, SubmitGates DEF SubmitToLedger, SubmitAccepted, SubmitRefused, SubmitTimedOut
<1>8. ASSUME NEW r \in Reconciler, ReconcilerStep(r)
      PROVE  (\A d \in Cycle : Gated(d)') /\ SeenSubmitted' /\ OnlyGatedOrdersTrade'
  <2>1. \A d \in Cycle : job'[d] = job[d] /\ pc'[d] = pc[d]
    BY <1>8, <1>d, JobAssumption DEF ReconcilerStep, ReportComparison, StartReconcile, Job
  <2>2. UNCHANGED <<tradingOn, run, order, venue>>
    BY <1>8 DEF ReconcilerStep, ReportComparison, StartReconcile
  <2>3. \A j \in Job : job'[j].seen = job[j].seen \/ job'[j].seen = {}
    <3> SUFFICES ASSUME NEW j \in Job PROVE job'[j].seen = job[j].seen \/ job'[j].seen = {}
      OBVIOUS
    <3>1. \/ job'[j] = job[j] \/ job'[j] = NoData
          \/ \E b \in Broker : job'[j] = [NoData EXCEPT !.broker = b, !.today = day]
      BY <1>8, <1>d DEF ReconcilerStep, ReportComparison, StartReconcile
    <3>2. \A b \in Broker : [NoData EXCEPT !.broker = b, !.today = day].seen = {} BY DEF NoData
    <3> QED BY <1>n, <3>1, <3>2
  <2>4. SeenSubmitted' BY <2>2, <2>3 DEF GateInv, SeenSubmitted
  <2> QED BY <1>t, <2>1, <2>2, <2>4, WorldGates
<1>9. ASSUME NEW j \in Job, Poll(j)
      PROVE  (\A d \in Cycle : Gated(d)') /\ SeenSubmitted' /\ OnlyGatedOrdersTrade'
  <2>1. PICK seen \in SUBSET Fillable(job[j].broker, job[j].today) :
           job' = [job EXCEPT ![j].seen = seen]
    BY <1>9 DEF Poll
  <2>2. /\ pc[j] = "poll" /\ pc' = [pc EXCEPT ![j] = "book"]
        /\ UNCHANGED <<tradingOn, run, order, venue>>
    BY <1>9 DEF Poll
  <2>3. seen \subseteq OpenRows BY <2>1 DEF Fillable
  <2>4. \A d \in Job : \/ d # j /\ job'[d] = job[d] /\ pc'[d] = pc[d]
                       \/ /\ d = j /\ job'[d] = [job[d] EXCEPT !.seen = seen] /\ job[d] \in JobData
                          /\ pc[d] = "poll" /\ pc'[d] = "book"
    BY <1>d, <2>1, <2>2
  <2>5. \A d \in Cycle : /\ job'[d].todo = job[d].todo /\ job'[d].draft = job[d].draft
                         /\ job'[d].allowed = job[d].allowed
                         /\ \/ pc'[d] = pc[d]
                            \/ pc[d] \in Unsubmitted /\ pc'[d] \in Unsubmitted
    <3> TAKE d \in Cycle
    <3>1. CASE d # j BY <1>c, <2>4, <3>1
    <3>2. CASE d = j BY ZenonT(60), <1>c, <2>4, <3>2 DEF JobData, Unsubmitted
    <3> QED BY <3>1, <3>2
  <2>6. SeenSubmitted'
    <3>1. \A d \in Job : job'[d].seen = job[d].seen \/ job'[d].seen = seen
      BY <2>4 DEF JobData
    <3> QED BY <2>2, <2>3, <3>1 DEF GateInv, SeenSubmitted, OpenRows
  <2> QED BY <1>t, <2>2, <2>5, <2>6, WorldGates
<1>10. ASSUME NEW j \in Job, Book(j)
       PROVE  (\A d \in Cycle : Gated(d)') /\ SeenSubmitted' /\ OnlyGatedOrdersTrade'
  <2>1. /\ pc[j] = "book" /\ pc' = [pc EXCEPT ![j] = "read"]
        /\ job' = [job EXCEPT ![j].seen = {}] /\ UNCHANGED <<tradingOn, run, venue>>
    BY <1>10 DEF Book
  <2>4. \A d \in Job : \/ d # j /\ job'[d] = job[d] /\ pc'[d] = pc[d]
                       \/ /\ d = j /\ job'[d] = [job[d] EXCEPT !.seen = {}] /\ job[d] \in JobData
                          /\ pc[d] = "book" /\ pc'[d] = "read"
    BY <1>d, <2>1
  <2>5. \A d \in Cycle : /\ job'[d].todo = job[d].todo /\ job'[d].draft = job[d].draft
                         /\ job'[d].allowed = job[d].allowed
                         /\ \/ pc'[d] = pc[d]
                            \/ pc[d] \in Unsubmitted /\ pc'[d] \in Unsubmitted
    <3> TAKE d \in Cycle
    <3>1. CASE d # j BY <1>c, <2>4, <3>1
    <3>2. CASE d = j BY ZenonT(60), <1>c, <2>4, <3>2 DEF JobData, Unsubmitted
    <3> QED BY <3>1, <3>2
  <2>6. \A o \in OrderId : \/ order'[o] = order[o]
                           \/ /\ order'[o].status \notin {"none", "planned"}
                              /\ order[o].status \notin {"none", "planned"}
    <3>1. \A o \in OrderId : BookedRow(job[j].broker, o).status \in BookedStatus
      BY DEF BookedRow, BookedStatus, GateInv, TypeOK, Row
    <3> QED BY <1>10, <3>1 DEF Book, BookedStatus, GateInv, SeenSubmitted
  <2>7. SeenSubmitted'
    <3>1. \A d \in Job : job'[d].seen \subseteq job[d].seen BY <2>4 DEF JobData
    <3>2. \A d \in Job : job[d].seen \subseteq OrderId BY <1>d DEF JobData
    <3> QED BY <2>6, <3>1, <3>2 DEF GateInv, SeenSubmitted
  <2> QED BY <1>t, <2>1, <2>5, <2>6, <2>7, WorldGates
<1>14. ASSUME NEW j \in Job, ReadLedger(j)
       PROVE  (\A d \in Cycle : Gated(d)') /\ SeenSubmitted' /\ OnlyGatedOrdersTrade'
  <2>1. PICK view : job' = [job EXCEPT ![j].ledger = view] BY <1>14 DEF ReadLedger
  <2>2. /\ pc[j] = "read" /\ pc' = [pc EXCEPT ![j] = "compare"]
        /\ UNCHANGED <<tradingOn, run, order, venue>>
    BY <1>14 DEF ReadLedger
  <2>3. \A d \in Job : \/ d # j /\ job'[d] = job[d] /\ pc'[d] = pc[d]
                       \/ /\ d = j /\ job'[d] = [job[d] EXCEPT !.ledger = view] /\ job[d] \in JobData
                          /\ pc[d] = "read" /\ pc'[d] = "compare"
    BY <1>d, <2>1, <2>2
  <2>4. \A d \in Cycle : /\ job'[d].todo = job[d].todo /\ job'[d].draft = job[d].draft
                         /\ job'[d].allowed = job[d].allowed
                         /\ \/ pc'[d] = pc[d]
                            \/ pc[d] \in Unsubmitted /\ pc'[d] \in Unsubmitted
    <3> TAKE d \in Cycle
    <3>1. CASE d # j BY <1>c, <2>3, <3>1
    <3>2. CASE d = j BY ZenonT(60), <1>c, <2>3, <3>2 DEF JobData, Unsubmitted
    <3> QED BY <3>1, <3>2
  <2>5. SeenSubmitted'
    <3>1. \A d \in Job : job'[d].seen = job[d].seen BY <2>3 DEF JobData
    <3> QED BY <2>2, <3>1 DEF GateInv, SeenSubmitted
  <2> QED BY <1>t, <2>2, <2>4, <2>5, WorldGates
<1>11. ASSUME NEW j \in Job, Fail(j)
       PROVE  (\A d \in Cycle : Gated(d)') /\ SeenSubmitted' /\ OnlyGatedOrdersTrade'
  <2>1. /\ pc[j] \notin {"idle", "done"} /\ UNCHANGED <<tradingOn, run, order, venue>>
        /\ pc' = [pc EXCEPT ![j] = IF j \in Cycle THEN "done" ELSE "idle"]
        /\ job' = [job EXCEPT ![j] = NoData]
    BY <1>11 DEF Fail
  <2>2. \A d \in Job : /\ d # j => job'[d] = job[d] /\ pc'[d] = pc[d]
                       /\ job'[d].seen \subseteq job[d].seen
    BY <1>d, <1>n, <2>1
  <2>3. CASE j \in Cycle
    <3>1. pc'[j] = "done" /\ job'[j] = NoData BY <1>d, <2>1, <2>3
    <3>2. Gated(j)' BY <1>n, <3>1 DEF Gated, Unsubmitted
    <3>3. \A s \in Symbol : /\ order[<<j, s>>].status = "none"
                            /\ venue[<<j, s>>].status # "none" => tradingOn
                            /\ run[j].status = "none"
      <4>1. Gated(j) BY <1>g, <2>3
      <4>2. pc[j] \in Unsubmitted \cup {"submit"} BY <1>d, <2>1 DEF PC, Unsubmitted
      <4> QED BY <2>1, <4>1, <4>2 DEF Gated
    <3> QED BY <1>c, <1>t, <2>1, <2>2, <2>3, <3>2, <3>3, OwnStepGates
  <2>4. CASE j \notin Cycle
    <3>1. \A d \in Cycle : job'[d] = job[d] /\ pc'[d] = pc[d] BY <1>c, <2>2, <2>4
    <3>2. SeenSubmitted' BY <2>1, <2>2 DEF GateInv, SeenSubmitted
    <3> QED BY <1>t, <2>1, <3>1, <3>2, WorldGates
  <2> QED BY <2>3, <2>4
<1>12. ASSUME NEW o \in OrderId, VenueStep(o)
       PROVE  (\A d \in Cycle : Gated(d)') /\ SeenSubmitted' /\ OnlyGatedOrdersTrade'
  <2>1. UNCHANGED <<tradingOn, run, order, pc, job>>
    BY <1>12 DEF VenueStep, VenueFill, VenueClose, VenueReject
  <2>2. \A p \in OrderId : venue'[p].status = "none" <=> venue[p].status = "none"
    BY <1>12 DEF VenueStep, VenueFill, VenueClose, VenueReject, GateInv, TypeOK, VenueOrder
  <2>3. SeenSubmitted' BY <2>1 DEF GateInv, SeenSubmitted
  <2> QED BY <1>t, <2>1, <2>2, <2>3, WorldGates
<1>13. CASE NextDay \/ UNCHANGED vars
  <2>1. UNCHANGED <<tradingOn, run, order, venue, pc, job>> BY <1>13 DEF NextDay, vars
  <2>2. SeenSubmitted' BY <2>1 DEF GateInv, SeenSubmitted
  <2> QED BY <1>t, <2>1, <2>2, WorldGates
<1> QED
  BY <1>1, <1>2, <1>3, <1>4, <1>5, <1>6, <1>7, <1>8, <1>9, <1>10, <1>11, <1>12, <1>13,
     <1>14
  DEF Next, CycleStep, PollStep

(* Nothing is submitted at the start. *)
LEMMA GateInit == Init => GateInv
<1> SUFFICES ASSUME Init PROVE GateInv OBVIOUS
<1>1. TypeOK /\ BrokerKnown BY TypeInit DEF Init, BrokerKnown
<1>2. /\ \A j \in Job : pc[j] = "idle" /\ job[j].seen = {} /\ job[j].todo = {}
      /\ \A o \in OrderId : order[o].status = "none" /\ venue[o].status = "none"
      /\ \A c \in Cycle : run[c].status = "none"
  BY DEF Init, NoData, NoRow, NoVenueOrder, NoRun
<1>3. ASSUME NEW c \in Cycle PROVE Gated(c)
  <2>1. c \in Job /\ \A s \in Symbol : <<c, s>> \in OrderId BY DEF Job, OrderId
  <2> QED BY <1>2, <2>1 DEF Gated
<1>4. SeenSubmitted /\ OnlyGatedOrdersTrade BY <1>2 DEF SeenSubmitted, OnlyGatedOrdersTrade
<1> QED BY <1>1, <1>3, <1>4 DEF GateInv

(* The gateway is the only way to the broker, for the ledger and for the     *)
(* venue (production.py:841-872).                                            *)
THEOREM OnlyTheGateTrades == Spec => []OnlyGatedOrdersTrade
<1>1. Init => GateInv BY GateInit
<1>2. GateInv /\ [Next]_vars => GateInv' BY GateStep
<1>3. GateInv => OnlyGatedOrdersTrade BY DEF GateInv
<1> QED BY <1>1, <1>2, <1>3, PTL DEF Spec
----------------------------------------------------------------------------
(* The ledger and the account.                                             *)

\* The account is what the venue executed of all orders.
Executed(s) == [c \in Cycle |-> venue[<<c, s>>].filled]
AccountSums == \A s \in Symbol : account[s] = SumFunctionOnSet(Executed(s), Cycle)

(* What a step does to the account, it does to what an order executed. *)
LEMMA AccountStep ==
  ASSUME TypeOK, TypeOK', AccountSums,
         \/ account' = account /\ \A o \in OrderId : venue'[o].filled = venue[o].filled
         \/ \E o \in OrderId : VenueFill(o)
  PROVE  AccountSums'
<1> SUFFICES ASSUME NEW s \in Symbol
             PROVE  account'[s] = SumFunctionOnSet(Executed(s)', Cycle)
  BY DEF AccountSums
<1>o. \A c \in Cycle : <<c, s>> \in OrderId BY DEF OrderId
<1>1. \A c \in Cycle : /\ Executed(s)[c] = venue[<<c, s>>].filled
                       /\ Executed(s)'[c] = venue'[<<c, s>>].filled
                       /\ Executed(s)[c] \in Int /\ Executed(s)'[c] \in Int
  BY <1>o DEF Executed, TypeOK, VenueOrder
<1>2. account[s] = SumFunctionOnSet(Executed(s), Cycle) /\ account[s] \in Int
  BY DEF AccountSums, TypeOK
<1>3. CASE account' = account /\ \A o \in OrderId : venue'[o].filled = venue[o].filled
  <2>1. \A c \in Cycle : Executed(s)[c] = Executed(s)'[c] BY <1>o, <1>1, <1>3
  <2>2. SumFunctionOnSet(Executed(s), Cycle) = SumFunctionOnSet(Executed(s)', Cycle)
    BY <2>1, SymbolAssumption, SumSame
  <2> QED BY <1>2, <1>3, <2>2
<1>4. ASSUME NEW d \in Cycle, NEW t \in Symbol, VenueFill(<<d, t>>)
      PROVE  account'[s] = SumFunctionOnSet(Executed(s)', Cycle)
  <2> DEFINE o     == <<d, t>>
             share == IF venue[o].qty > 0 THEN 1 ELSE -1
  <2>1. /\ o \in OrderId /\ o[2] = t
        /\ venue \in [OrderId -> VenueOrder] /\ account \in [Symbol -> Int]
    BY DEF OrderId, TypeOK
  <2>2. /\ venue'[o].filled = venue[o].filled + share
        /\ \A p \in OrderId : p # o => venue'[p] = venue[p]
        /\ account' = [account EXCEPT ![t] = @ + share]
    BY <1>4, <2>1 DEF VenueFill, VenueOrder
  <2>3. share \in Int OBVIOUS
  <2>4. \A c \in Cycle : <<c, s>> = o <=> c = d /\ s = t OBVIOUS
  <2> HIDE DEF share, o
  <2>5. CASE s = t
    <3>1. \A c \in Cycle \ {d} : Executed(s)[c] = Executed(s)'[c]
      BY <1>o, <1>1, <2>2, <2>4
    <3>2. Executed(s)'[d] = Executed(s)[d] + share
      BY <1>o, <1>1, <2>2, <2>4, <2>5
    <3> DEFINE f == Executed(s)
               h == Executed(s)'
    <3>3. /\ \A c \in Cycle : f[c] \in Int /\ h[c] \in Int
          /\ \A c \in Cycle \ {d} : f[c] = h[c]
          /\ h[d] = f[d] + share /\ account[s] = SumFunctionOnSet(f, Cycle)
      BY <1>1, <1>2, <3>1, <3>2
    <3> HIDE DEF f, h
    <3>4. SumFunctionOnSet(h, Cycle) = SumFunctionOnSet(f, Cycle) - f[d] + h[d]
      BY <3>3, SymbolAssumption, SumChange
    <3>5. account'[s] = account[s] + share BY <2>1, <2>2, <2>5
    <3>6. account'[s] = SumFunctionOnSet(h, Cycle) BY <1>2, <2>3, <3>3, <3>4, <3>5
    <3> QED BY <3>6 DEF h
  <2>6. CASE s # t
    <3>1. \A c \in Cycle : Executed(s)[c] = Executed(s)'[c]
      BY <1>o, <1>1, <2>2, <2>4, <2>6
    <3>2. SumFunctionOnSet(Executed(s), Cycle) = SumFunctionOnSet(Executed(s)', Cycle)
      BY <3>1, SymbolAssumption, SumSame
    <3>3. account'[s] = account[s] BY <2>1, <2>2, <2>6
    <3> QED BY <1>2, <3>2, <3>3
  <2> QED BY <2>5, <2>6
<1> QED BY <1>3, <1>4 DEF OrderId

(* The account moves with the venue's executions and with nothing else. *)
LEMMA AccountMoves ==
  ASSUME LedgerInv, [Next]_vars
  PROVE  \/ account' = account /\ \A o \in OrderId : venue'[o].filled = venue[o].filled
         \/ \E o \in OrderId : VenueFill(o)
<1>1. ASSUME NEW c \in Cycle, NEW s \in Symbol, NEW status, NEW sent, Submitted(c, s, status, sent),
             venue' = venue \/ VenueAccepts(c, s)
      PROVE  account' = account /\ \A o \in OrderId : venue'[o].filled = venue[o].filled
  <2>1. venue[<<c, s>>] = NoVenueOrder BY <1>1 DEF Submitted, LedgerInv, DraftsSound, DraftSound
  <2> QED BY <1>1, <2>1 DEF Submitted, VenueAccepts, NoVenueOrder, LedgerInv, TypeOK
<1>2. ASSUME NEW c \in Cycle, CycleStep(c)
      PROVE  account' = account /\ \A o \in OrderId : venue'[o].filled = venue[o].filled
  <2>1. CASE \E s \in Symbol : \/ SubmitToLedger(c, s) \/ SubmitAccepted(c, s)
                               \/ SubmitRefused(c, s) \/ SubmitTimedOut(c, s)
    BY <1>1, <2>1 DEF SubmitToLedger, SubmitAccepted, SubmitRefused, SubmitTimedOut
  <2>2. CASE ~\E s \in Symbol : \/ SubmitToLedger(c, s) \/ SubmitAccepted(c, s)
                                \/ SubmitRefused(c, s) \/ SubmitTimedOut(c, s)
    <3>1. ASSUME NEW target, NEW nav, NEW inLimits, NEW k, NEW priced, NEW shortable,
                 Plan(c, target, nav, inLimits, k, priced, shortable)
          PROVE  account' = account /\ venue' = venue
      BY <3>1 DEF Plan
    <3>2. ASSUME NEW nav, NEW b, NEW enabled, NEW asOf,
                 StartCycle(c, b, enabled, asOf) \/ BlockAtStart(c, b, asOf) \/ BlockOnEquity(c, nav)
          PROVE  account' = account /\ venue' = venue
      BY <3>2 DEF StartCycle, BlockAtStart, BlockOnEquity
    <3>3. ASSUME NEW answered, \/ BlockOnDiscrepancy(c) \/ Reconciled(c, answered)
                               \/ Block(c) \/ Finish(c)
          PROVE  account' = account /\ venue' = venue
      BY <3>3 DEF BlockOnDiscrepancy, Reconciled, Block, Finish
    <3>4. account' = account /\ venue' = venue
      BY <1>2, <2>2, <3>1, <3>2, <3>3 DEF CycleStep
    <3> QED BY <3>4
  <2> QED BY <2>1, <2>2
<1>3. ASSUME NEW o \in OrderId, VenueClose(o) \/ VenueReject(o)
      PROVE  account' = account /\ \A p \in OrderId : venue'[p].filled = venue[p].filled
  BY <1>3 DEF VenueClose, VenueReject, LedgerInv, TypeOK, VenueOrder
<1>4. CASE \/ \E r \in Reconciler : ReconcilerStep(r)
           \/ \E j \in Job : PollStep(j) \/ Fail(j)
           \/ NextDay \/ UNCHANGED vars
  BY <1>4 DEF ReconcilerStep, ReportComparison, StartReconcile, PollStep, Poll, Book, ReadLedger,
              Fail, NextDay, vars
<1> QED BY <1>2, <1>3, <1>4 DEF Next, VenueStep

(* The books of ledger and venue differ only by orders one can name: open,   *)
(* being submitted, or orphaned (production.py:300-331, :882-900).           *)
THEOREM DriftHasItsReason == OnAlpaca => (Spec => []DriftIsExplained)
<1> SUFFICES ASSUME OnAlpaca PROVE Spec => []DriftIsExplained OBVIOUS
<1>1. Init => LedgerInv /\ AccountSums
  <2> SUFFICES ASSUME Init, NEW s \in Symbol
               PROVE  account[s] = SumFunctionOnSet(Executed(s), Cycle)
    BY LedgerInit DEF AccountSums
  <2>1. \A c \in Cycle : Executed(s)[c] = 0 BY DEF Init, Executed, NoVenueOrder, OrderId
  <2> QED BY <2>1, SymbolAssumption, SumZero DEF Init, Flat
<1>2. LedgerInv /\ AccountSums /\ [Next]_vars => (LedgerInv /\ AccountSums)'
  BY LedgerStep, AccountMoves, AccountStep DEF LedgerInv
<1>3. LedgerInv /\ AccountSums => DriftIsExplained
  <2> SUFFICES ASSUME LedgerInv, AccountSums, NEW s \in Symbol,
                      \A c \in Cycle : ~Unbooked(<<c, s>>)
               PROVE  LedgerPosition(s) = account[s]
    BY DEF DriftIsExplained
  <2>1. \A c \in Cycle : LedgerFills(s)[c] = Executed(s)[c]
    <3> TAKE c \in Cycle
    <3> DEFINE o == <<c, s>>
    <3>1. /\ o \in OrderId /\ o[1] = c /\ c \in Job
          /\ LedgerFills(s)[c] = order[o].fill /\ Executed(s)[c] = venue[o].filled
      BY DEF OrderId, LedgerFills, Executed, Job
    <3>2. RowSound(o) /\ order[o].sent \in BOOLEAN /\ pc[c] \in PC
      BY <3>1 DEF LedgerInv, RowsSound, TypeOK, Row
    <3>3. /\ pc[c] \in Unsubmitted => venue[o].filled = 0
          /\ venue[o].status = "none" => venue[o].filled = 0
      BY <3>1 DEF LedgerInv, RowsCommitted, NoVenueOrder
    <3>4. venue[o].filled # 0 => order[o].status # "submitted" /\ pc[c] # "submit" /\ ~Orphan(o)
      BY <3>1 DEF Unbooked
    <3> HIDE DEF o
    <3>5. CASE order[o].sent
      BY <3>1, <3>2, <3>4, <3>5 DEF RowSound, BookedRight
    <3>6. CASE ~order[o].sent
      BY <3>1, <3>2, <3>3, <3>4, <3>6 DEF RowSound, Orphan, PC, Unsubmitted
    <3> QED BY <3>2, <3>5, <3>6
  <2>2. SumFunctionOnSet(LedgerFills(s), Cycle) = SumFunctionOnSet(Executed(s), Cycle)
    BY <2>1, SymbolAssumption, SumSame
  <2>3. LedgerPosition(s) = SumFunctionOnSet(LedgerFills(s), Cycle)
    BY DEF LedgerPosition, SumFunction, LedgerFills
  <2> QED BY <2>2, <2>3 DEF AccountSums
<1> QED BY <1>1, <1>2, <1>3, PTL DEF Spec
----------------------------------------------------------------------------
(* The book and the targets.                                               *)

\* What is still to come of a cycle's order, and whether anything is.
Remaining(c, s) ==
    CASE s \in job[c].todo -> job[c].draft[s].qty
      [] s \notin job[c].todo /\ venue[<<c, s>>].status = "live" ->
           venue[<<c, s>>].qty - venue[<<c, s>>].filled
      [] OTHER -> 0

Active(c) == \E s \in Symbol : s \in job[c].todo \/ venue[<<c, s>>].status = "live"

\* A live order has shares left, and has executed on its own side.
LiveSound ==
    \A o \in OrderId : venue[o].status = "live" =>
       \/ 0 <= venue[o].filled /\ venue[o].filled < venue[o].qty
       \/ venue[o].qty < venue[o].filled /\ venue[o].filled <= 0

\* What is left to submit was allowed, and is not nothing.
TodoSound ==
    \A c \in Cycle, s \in Symbol :
       s \in job[c].todo => job[c].allowed /\ job[c].draft[s].qty # 0

Hull ==
    ~overlapped =>
       /\ \A c, d \in Cycle : Active(c) /\ Active(d) => c = d
       /\ \A s \in Symbol : WithinTargets(account[s], s)
       /\ \A c \in Cycle, s \in Symbol : WithinTargets(account[s] + Remaining(c, s), s)

TargetsInv == LiveSound /\ TodoSound /\ Hull

(* Dividing an order by the capacity scale makes it smaller, never turns it. *)
LEMMA ScaledBetween ==
  ASSUME NEW d \in Int, NEW k \in Nat \ {0}
  PROVE  /\ ScaledBy(d, k) \in Int
         /\ d >= 0 => 0 <= ScaledBy(d, k) /\ ScaledBy(d, k) <= d
         /\ d < 0 => d <= ScaledBy(d, k) /\ ScaledBy(d, k) <= 0
<1>1. ASSUME NEW n \in Nat PROVE n \div k \in Nat /\ n \div k <= n
  <2> DEFINE q == n \div k
             r == n % k
  <2>1. q \in Int /\ r \in 0..(k - 1) /\ n = k * q + r OBVIOUS
  <2> HIDE DEF q, r
  <2>2. q >= 0
    <3>1. CASE q < 0
      <4>1. q <= -1 BY <2>1, <3>1
      <4>2. k * q <= k * (-1) BY <2>1, <4>1
      <4> QED BY <2>1, <4>2
    <3> QED BY <2>1, <3>1
  <2>3. q <= k * q BY <2>1, <2>2
  <2>4. q <= n BY <2>1, <2>2, <2>3
  <2> QED BY <2>1, <2>2, <2>4 DEF q
<1>2. CASE d >= 0
  <2>1. d \in Nat BY <1>2
  <2>2. ScaledBy(d, k) = d \div k BY <1>2 DEF ScaledBy
  <2> QED BY <1>1, <1>2, <2>1, <2>2
<1>3. CASE d < 0
  <2>1. -d \in Nat BY <1>3
  <2>2. ScaledBy(d, k) = -((-d) \div k) BY <1>3 DEF ScaledBy
  <2> DEFINE q == (-d) \div k
  <2>3. q \in Nat /\ q <= -d BY <1>1, <2>1
  <2>4. ScaledBy(d, k) = -q BY <2>2
  <2> HIDE DEF q
  <2> QED BY <1>3, <2>3, <2>4
<1> QED BY <1>2, <1>3

(* What lies between two books within the targets is within them. *)
LEMMA Between ==
  ASSUME NEW s \in Symbol, NEW x \in Int, NEW y \in Int, NEW z \in Int,
         WithinTargets(x, s), WithinTargets(y, s), (x <= z /\ z <= y) \/ (y <= z /\ z <= x)
  PROVE  WithinTargets(z, s)
<1>1. \A t \in Target : t[s] \in Int BY TargetAssumption
<1> QED BY <1>1 DEF WithinTargets

(* What is still to come of an order is a whole number of shares, and is      *)
(* something only of an active cycle's.                                       *)
LEMMA RemainingIsInt ==
  ASSUME TypeOK
  PROVE  \A c \in Cycle, s \in Symbol :
            /\ Remaining(c, s) \in Int /\ account[s] \in Int
            /\ ~Active(c) => Remaining(c, s) = 0
<1> TAKE c \in Cycle, s \in Symbol
<1>1. /\ <<c, s>> \in OrderId /\ c \in Job BY DEF OrderId, Job
<1>2. /\ venue[<<c, s>>].qty \in Int /\ venue[<<c, s>>].filled \in Int
      /\ job[c].draft[s].qty \in Int /\ account[s] \in Int
  BY <1>1 DEF TypeOK, VenueOrder, JobData, Row
<1> QED BY <1>2 DEF Remaining, Active

(* A step that sends, executes and plans nothing: at most something that was *)
(* to be submitted is not.                                                   *)
LEMMA QuietTargets ==
  ASSUME LedgerInv, TypeOK', TargetsInv, UNCHANGED <<venue, account, overlapped>>,
         \A c \in Cycle : job'[c].todo \subseteq job[c].todo,
         \A c \in Cycle, s \in Symbol :
            s \in job'[c].todo => /\ job'[c].draft[s].qty = job[c].draft[s].qty
                                  /\ job'[c].allowed = job[c].allowed
  PROVE  TargetsInv'
<1>1. LiveSound' /\ TodoSound' BY DEF TargetsInv, LiveSound, TodoSound
<1>2. \A c \in Cycle : Active(c)' => Active(c) BY DEF Active
<1>3. ASSUME NEW c \in Cycle, NEW s \in Symbol
      PROVE  Remaining(c, s)' = Remaining(c, s) \/ Remaining(c, s)' = 0
  <2>1. s \in job[c].todo => venue[<<c, s>>] = NoVenueOrder BY DEF LedgerInv, DraftsSound, DraftSound
  <2>2. CASE s \in job'[c].todo BY <2>2 DEF Remaining
  <2>3. CASE s \notin job'[c].todo BY <2>1, <2>3 DEF Remaining, NoVenueOrder
  <2> QED BY <2>2, <2>3
<1>4. \A s \in Symbol : account[s] + 0 = account[s] BY DEF LedgerInv, TypeOK
<1>5. Hull'
  <2> SUFFICES ASSUME ~overlapped
               PROVE  /\ \A c, d \in Cycle : Active(c)' /\ Active(d)' => c = d
                      /\ \A s \in Symbol : WithinTargets(account[s], s)'
                      /\ \A c \in Cycle, s \in Symbol : WithinTargets(account[s] + Remaining(c, s), s)'
    BY DEF Hull
  <2>1. /\ \A c, d \in Cycle : Active(c) /\ Active(d) => c = d
        /\ \A s \in Symbol : WithinTargets(account[s], s)
        /\ \A c \in Cycle, s \in Symbol : WithinTargets(account[s] + Remaining(c, s), s)
    BY DEF TargetsInv, Hull
  <2>2. \A s \in Symbol : WithinTargets(account[s], s)' BY <2>1 DEF WithinTargets
  <2>3. ASSUME NEW c \in Cycle, NEW s \in Symbol PROVE WithinTargets(account[s] + Remaining(c, s), s)'
    <3>1. CASE Remaining(c, s)' = Remaining(c, s) BY <2>1, <3>1 DEF WithinTargets
    <3>2. CASE Remaining(c, s)' = 0 BY <1>4, <2>1, <3>2 DEF WithinTargets
    <3> QED BY <1>3, <3>1, <3>2
  <2> QED BY <1>2, <2>1, <2>2, <2>3
<1> QED BY <1>1, <1>5 DEF TargetsInv

(* An order the venue takes in is the one that was to be submitted. *)
LEMMA AcceptTargets ==
  ASSUME LedgerInv, TypeOK', TargetsInv, NEW c \in Cycle, NEW s \in Symbol, NEW status, NEW sent,
         Submitted(c, s, status, sent), VenueAccepts(c, s)
  PROVE  TargetsInv'
<1>c. c \in Job /\ <<c, s>> \in OrderId BY DEF Job, OrderId
<1>d. /\ job \in [Job -> JobData] /\ job[c] \in JobData /\ venue \in [OrderId -> VenueOrder]
      /\ job[c].draft[s] \in Row
  BY <1>c DEF LedgerInv, TypeOK, JobData
<1>1. s \in job[c].todo /\ UNCHANGED <<account, overlapped>> BY DEF Submitted
<1>2. /\ venue'[<<c, s>>].status = "live" /\ venue'[<<c, s>>].filled = 0
      /\ venue'[<<c, s>>].qty = job[c].draft[s].qty
      /\ \A o \in OrderId : o # <<c, s>> => venue'[o] = venue[o]
  BY <1>c, <1>d DEF VenueAccepts
<1>3. /\ \A d \in Cycle : d # c => job'[d] = job[d]
      /\ job'[c].todo = job[c].todo \ {s} /\ job'[c].allowed = job[c].allowed
      /\ \A t \in Symbol : job'[c].draft[t].qty = job[c].draft[t].qty
  <2>1. job' = [job EXCEPT ![c].todo = @ \ {s},
                           ![c].draft[s] = [@ EXCEPT !.status = status, !.sent = sent]]
    BY DEF Submitted
  <2>2. \A d \in Cycle : d # c => job'[d] = job[d] BY <1>d, <2>1 DEF Job
  <2>3. job'[c].todo = job[c].todo \ {s} /\ job'[c].allowed = job[c].allowed
    BY <1>c, <1>d, <2>1 DEF JobData
  <2>4. \A t \in Symbol : job'[c].draft[t].qty = job[c].draft[t].qty
    <3>1. job'[c].draft = [job[c].draft EXCEPT ![s] = [@ EXCEPT !.status = status, !.sent = sent]]
      BY <1>c, <1>d, <2>1 DEF JobData
    <3>2. job[c].draft \in [Symbol -> Row] BY <1>d DEF JobData
    <3>3. [job[c].draft[s] EXCEPT !.status = status, !.sent = sent].qty = job[c].draft[s].qty
      BY <1>d DEF Row
    <3> QED BY <3>1, <3>2, <3>3
  <2> QED BY <2>2, <2>3, <2>4
<1>4. LiveSound'
  <2>1. job[c].draft[s].qty \in Int /\ job[c].draft[s].qty # 0
    BY <1>1, <1>d DEF TargetsInv, TodoSound, Row
  <2> QED BY <1>2, <2>1 DEF TargetsInv, LiveSound
<1>5. TodoSound' BY <1>3 DEF TargetsInv, TodoSound
<1>6. \A d \in Cycle : Active(d)' => Active(d)
  <2>1. \A d \in Cycle, t \in Symbol : <<d, t>> \in OrderId /\ (<<d, t>> = <<c, s>> <=> d = c /\ t = s)
    BY DEF OrderId
  <2>2. Active(c) BY <1>1 DEF Active
  <2>3. \A d \in Cycle : d # c => (Active(d)' => Active(d)) BY <1>2, <1>3, <2>1 DEF Active
  <2> QED BY <2>2, <2>3
<1>7. ASSUME NEW d \in Cycle, NEW t \in Symbol PROVE Remaining(d, t)' = Remaining(d, t)
  <2>1. <<d, t>> \in OrderId /\ (<<d, t>> = <<c, s>> <=> d = c /\ t = s) BY DEF OrderId
  <2>2. CASE d = c /\ t = s
    <3>1. Remaining(c, s) = job[c].draft[s].qty BY <1>1 DEF Remaining
    <3>2. Remaining(c, s)' = job[c].draft[s].qty - 0 BY <1>2, <1>3 DEF Remaining
    <3> QED BY <1>d, <2>2, <3>1, <3>2 DEF Row
  <2>3. CASE ~(d = c /\ t = s)
    <3>1. venue'[<<d, t>>] = venue[<<d, t>>] BY <1>2, <2>1, <2>3
    <3>2. /\ t \in job'[d].todo <=> t \in job[d].todo
          /\ job'[d].draft[t].qty = job[d].draft[t].qty
      BY <1>3, <2>3
    <3> QED BY <3>1, <3>2 DEF Remaining
  <2> QED BY <2>2, <2>3
<1>8. Hull'
  <2>1. CASE overlapped BY <1>1, <2>1 DEF Hull
  <2>2. CASE ~overlapped
    <3>1. /\ \A d, e \in Cycle : Active(d) /\ Active(e) => d = e
          /\ \A t \in Symbol : WithinTargets(account[t], t)
          /\ \A d \in Cycle, t \in Symbol : WithinTargets(account[t] + Remaining(d, t), t)
      BY <2>2 DEF TargetsInv, Hull
    <3>2. \A d, e \in Cycle : Active(d)' /\ Active(e)' => d = e BY <1>6, <3>1
    <3>3. \A t \in Symbol : WithinTargets(account[t], t)' BY <1>1, <3>1 DEF WithinTargets
    <3>4. \A d \in Cycle, t \in Symbol : WithinTargets(account[t] + Remaining(d, t), t)'
      BY <1>1, <1>7, <3>1 DEF WithinTargets
    <3> QED BY <3>2, <3>3, <3>4 DEF Hull
  <2> QED BY <2>1, <2>2
<1> QED BY <1>4, <1>5, <1>8 DEF TargetsInv

(* The venue executes a share of what was still to come, or ends an order. *)
LEMMA VenueTargets ==
  ASSUME LedgerInv, TypeOK', TargetsInv, NEW c \in Cycle, NEW s \in Symbol, VenueStep(<<c, s>>)
  PROVE  TargetsInv'
<1> DEFINE o == <<c, s>>
<1>c. o \in OrderId /\ o[2] = s BY DEF OrderId
<1>d. /\ venue \in [OrderId -> VenueOrder] /\ account \in [Symbol -> Int]
      /\ venue[o].qty \in Int /\ venue[o].filled \in Int
  BY <1>c DEF LedgerInv, TypeOK, VenueOrder
<1>e. \A d \in Cycle, t \in Symbol : <<d, t>> \in OrderId /\ (<<d, t>> = o <=> d = c /\ t = s)
  BY DEF OrderId
<1>1. /\ venue[o].status = "live" /\ UNCHANGED <<job, overlapped>>
      /\ \A p \in OrderId : p # o => venue'[p] = venue[p]
  BY DEF VenueStep, VenueFill, VenueClose, VenueReject, LedgerInv, TypeOK
<1>2. s \notin job[c].todo
  <2>1. s \in job[c].todo => venue[o] = NoVenueOrder BY DEF LedgerInv, DraftsSound, DraftSound
  <2> QED BY <1>1, <2>1 DEF NoVenueOrder
<1>3. PICK share \in {-1, 0, 1} :
        /\ \A t \in Symbol : account'[t] = IF t = s THEN account[t] + share ELSE account[t]
        /\ venue'[o].qty = venue[o].qty /\ venue'[o].filled = venue[o].filled + share
        /\ share # 0 => /\ share = IF venue[o].qty > 0 THEN 1 ELSE -1
                        /\ venue'[o].status =
                             IF venue[o].filled + share = venue[o].qty THEN "filled" ELSE "live"
        /\ share = 0 => venue'[o].status # "live"
  <2>1. CASE VenueFill(o)
    <3> DEFINE sh == IF venue[o].qty > 0 THEN 1 ELSE -1
    <3>1. /\ venue' = [venue EXCEPT ![o].filled = venue[o].filled + sh,
                           ![o].status = IF venue[o].filled + sh = venue[o].qty
                                         THEN "filled" ELSE "live"]
          /\ account' = [account EXCEPT ![s] = @ + sh]
      BY <1>c, <2>1 DEF VenueFill
    <3>2. sh \in {-1, 1} OBVIOUS
    <3>3. /\ venue'[o].qty = venue[o].qty /\ venue'[o].filled = venue[o].filled + sh
          /\ venue'[o].status = IF venue[o].filled + sh = venue[o].qty THEN "filled" ELSE "live"
      BY <1>c, <1>d, <3>1 DEF VenueOrder
    <3>4. \A t \in Symbol : account'[t] = IF t = s THEN account[t] + sh ELSE account[t]
      BY <1>d, <3>1
    <3>5. sh = IF venue[o].qty > 0 THEN 1 ELSE -1 OBVIOUS
    <3> HIDE DEF sh, o
    <3> QED BY <3>2, <3>3, <3>4, <3>5
  <2>2. CASE VenueClose(o) \/ VenueReject(o)
    <3>1. /\ account' = account /\ venue'[o].qty = venue[o].qty
          /\ venue'[o].filled = venue[o].filled /\ venue'[o].status # "live"
      BY <1>c, <1>d, <2>2 DEF VenueClose, VenueReject, VenueOrder
    <3> QED BY <1>d, <3>1
  <2> QED BY <2>1, <2>2 DEF VenueStep
<1> HIDE DEF o
<1>4. \/ 0 <= venue[o].filled /\ venue[o].filled < venue[o].qty
      \/ venue[o].qty < venue[o].filled /\ venue[o].filled <= 0
  BY <1>1, <1>c DEF TargetsInv, LiveSound
<1>5. LiveSound'
  <2> SUFFICES ASSUME NEW p \in OrderId, venue'[p].status = "live"
               PROVE  \/ 0 <= venue'[p].filled /\ venue'[p].filled < venue'[p].qty
                      \/ venue'[p].qty < venue'[p].filled /\ venue'[p].filled <= 0
    BY DEF LiveSound
  <2>1. CASE p = o BY <1>3, <1>4, <1>d, <2>1
  <2>2. CASE p # o BY <1>1, <2>2 DEF TargetsInv, LiveSound
  <2> QED BY <2>1, <2>2
<1>6. TodoSound' BY <1>1 DEF TargetsInv, TodoSound
<1>7. Active(c) BY <1>1 DEF Active, o
<1>8. \A d \in Cycle : Active(d)' => Active(d)
  <2>1. \A d \in Cycle : d # c => (Active(d)' => Active(d)) BY <1>1, <1>e DEF Active
  <2> QED BY <1>7, <2>1
<1>9. /\ Remaining(c, s) = venue[o].qty - venue[o].filled
      /\ Remaining(c, s)' = IF share = 0 THEN 0 ELSE Remaining(c, s) - share
  <2>1. Remaining(c, s) = venue[o].qty - venue[o].filled BY <1>1, <1>2 DEF Remaining, o
  <2>2. Remaining(c, s)' = IF venue'[o].status = "live" THEN venue'[o].qty - venue'[o].filled ELSE 0
    BY <1>1, <1>2 DEF Remaining, o
  <2> QED BY <1>3, <1>d, <2>1, <2>2
<1>10. \A d \in Cycle, t \in Symbol : ~(d = c /\ t = s) => Remaining(d, t)' = Remaining(d, t)
  BY <1>1, <1>e DEF Remaining
<1>11. Hull'
  <2>1. CASE overlapped BY <1>1, <2>1 DEF Hull
  <2>2. CASE ~overlapped
    <3>1. /\ \A d, e \in Cycle : Active(d) /\ Active(e) => d = e
          /\ \A t \in Symbol : WithinTargets(account[t], t)
          /\ \A d \in Cycle, t \in Symbol : WithinTargets(account[t] + Remaining(d, t), t)
      BY <2>2 DEF TargetsInv, Hull
    <3>2. \A d, e \in Cycle : Active(d)' /\ Active(e)' => d = e BY <1>8, <3>1
    <3>3. WithinTargets(account[s] + share, s)
      <4>1. WithinTargets(account[s], s) /\ WithinTargets(account[s] + Remaining(c, s), s)
        BY <3>1
      <4>2. /\ account[s] \in Int /\ Remaining(c, s) \in Int
        BY <1>9, <1>d
      <4>3. \/ 0 <= share /\ share <= Remaining(c, s)
            \/ Remaining(c, s) <= share /\ share <= 0
        BY <1>3, <1>4, <1>9, <1>d
      <4> DEFINE x == account[s]
                 y == account[s] + Remaining(c, s)
                 z == account[s] + share
      <4>4. /\ x \in Int /\ y \in Int /\ z \in Int
            /\ (x <= z /\ z <= y) \/ (y <= z /\ z <= x)
            /\ WithinTargets(x, s) /\ WithinTargets(y, s)
        BY <4>1, <4>2, <4>3
      <4> HIDE DEF x, y, z
      <4>5. WithinTargets(z, s) BY <4>4, Between
      <4> QED BY <4>5 DEF z
    <3>4. \A t \in Symbol : WithinTargets(account'[t], t)
      BY <1>3, <3>1, <3>3
    <3>5. ASSUME NEW d \in Cycle, NEW t \in Symbol
          PROVE  WithinTargets(account'[t] + Remaining(d, t)', t)
      <4>1. CASE d = c /\ t = s
        <5>1. /\ account'[s] = account[s] + share
              /\ account[s] \in Int /\ Remaining(c, s) \in Int
          BY <1>3, <1>9, <1>d
        <5>2. \/ share = 0 /\ account'[s] + Remaining(c, s)' = account'[s]
              \/ account'[s] + Remaining(c, s)' = account[s] + Remaining(c, s)
          BY <1>9, <5>1
        <5> QED BY <3>1, <3>4, <4>1, <5>2
      <4>2. CASE d = c /\ t # s
        BY <1>3, <1>10, <3>1, <4>2
      <4>3. CASE d # c
        <5>1. Remaining(d, t)' = 0 /\ account[t] \in Int /\ account'[t] \in Int
          BY <1>3, <1>7, <1>10, <1>d, <3>1, <4>3, RemainingIsInt DEF LedgerInv
        <5>2. account'[t] + Remaining(d, t)' = account'[t] BY <5>1
        <5> QED BY <3>4, <5>2
      <4> QED BY <4>1, <4>2, <4>3
    <3>6. \A t \in Symbol : WithinTargets(account[t], t)' BY <3>4 DEF WithinTargets
    <3>7. \A d \in Cycle, t \in Symbol : WithinTargets(account[t] + Remaining(d, t), t)'
      BY <3>5 DEF WithinTargets
    <3> QED BY <3>2, <3>6, <3>7 DEF Hull
  <2> QED BY <2>1, <2>2
<1> QED BY <1>5, <1>6, <1>11 DEF TargetsInv
(* A plan goes from what the account holds towards the target, and over       *)
(* nothing in flight unless that is recorded.                                *)
LEMMA PlanTargets ==
  ASSUME OnAlpaca, LedgerInv, TypeOK', TargetsInv,
         NEW c \in Cycle, NEW target \in Target, NEW nav, NEW inLimits,
         NEW k \in Capacity, NEW priced, NEW shortable,
         Plan(c, target, nav, inLimits, k, priced, shortable)
  PROVE  TargetsInv'
<1> DEFINE held  == [s \in Symbol |-> BrokerPosition(job[c].broker, s)]
           names == Orders(target, held, priced, shortable, k)
           ok    == Gateway(c, nav, Cardinality(names), inLimits)
           delta(s) == Delta(target, held, priced, k, s)
           draft == [s \in Symbol |-> IF s \in names THEN Planned(delta(s)) ELSE NoRow]
           todo  == IF ok THEN names ELSE {}
           data  == [job[c] EXCEPT !.hasNav = TRUE, !.nav = nav, !.allowed = ok,
                                   !.draft = draft, !.todo = todo]
<1>c. c \in Job /\ job \in [Job -> JobData] /\ job[c] \in JobData BY DEF Job, LedgerInv, TypeOK
<1>1. /\ pc[c] = "plan" /\ job' = [job EXCEPT ![c] = data]
      /\ overlapped' = (overlapped \/ (ok /\ names # {} /\ InFlight(c)))
      /\ UNCHANGED <<venue, account>>
  BY DEF Plan
<1>2. held = account
  <2>1. job[c].broker = "alpaca" BY <1>1, <1>c DEF OnAlpaca, LedgerInv, BrokerKnown
  <2> QED BY <2>1 DEF BrokerPosition, LedgerInv, TypeOK
<1>3. ASSUME NEW s \in names
      PROVE  /\ s \in Symbol /\ delta(s) \in Int /\ delta(s) # 0
             /\ draft[s].qty = delta(s)
             /\ WithinTargets(account[s], s) => WithinTargets(account[s] + delta(s), s)
  <2>1. s \in Symbol /\ Magnitude(delta(s)) >= MinLot BY DEF Orders
  <2>2. target[s] \in Int /\ account[s] \in Int /\ k \in Nat \ {0} /\ MinLot \in Nat \ {0}
    BY <2>1, TargetAssumption, NumberAssumption DEF LedgerInv, TypeOK
  <2> DEFINE gap == target[s] - account[s]
  <2>3. delta(s) = ScaledBy(gap, k) \/ delta(s) = 0 BY <1>2 DEF Delta
  <2>4. gap \in Int BY <2>2
  <2>5. /\ ScaledBy(gap, k) \in Int
        /\ gap >= 0 => 0 <= ScaledBy(gap, k) /\ ScaledBy(gap, k) <= gap
        /\ gap < 0 => gap <= ScaledBy(gap, k) /\ ScaledBy(gap, k) <= 0
    BY <2>2, <2>4, ScaledBetween
  <2>6. delta(s) \in Int BY <2>3, <2>5
  <2>7. delta(s) # 0 BY <2>1, <2>2 DEF Magnitude
  <2>8. draft[s].qty = delta(s) BY <2>1 DEF Planned
  <2>9. ASSUME WithinTargets(account[s], s) PROVE WithinTargets(account[s] + delta(s), s)
    <3> DEFINE x == account[s]
               y == target[s]
               z == account[s] + delta(s)
    <3>1. WithinTargets(y, s) BY <2>2 DEF WithinTargets
    <3>2. x \in Int /\ y \in Int /\ z \in Int BY <2>2, <2>6
    <3>3. (x <= z /\ z <= y) \/ (y <= z /\ z <= x) BY <2>2, <2>3, <2>5, <2>7
    <3>4. WithinTargets(x, s) BY <2>9
    <3> HIDE DEF x, y, z
    <3>5. WithinTargets(z, s) BY <2>1, <3>1, <3>2, <3>3, <3>4, Between
    <3> QED BY <3>5 DEF z
  <2> QED BY <2>1, <2>6, <2>7, <2>8, <2>9
<1> HIDE DEF held, names, ok, delta, draft
<1>4. /\ job'[c].todo = todo /\ job'[c].draft = draft /\ job'[c].allowed = ok
      /\ \A d \in Cycle : d # c => job'[d] = job[d]
  <2>1. data.todo = todo /\ data.draft = draft /\ data.allowed = ok BY <1>c DEF JobData
  <2> HIDE DEF data
  <2> QED BY <1>1, <1>c, <2>1 DEF Job
<1>5. LiveSound' BY <1>1 DEF TargetsInv, LiveSound
<1>6. TodoSound'
  <2> SUFFICES ASSUME NEW d \in Cycle, NEW s \in Symbol, s \in job'[d].todo
               PROVE  job'[d].allowed /\ job'[d].draft[s].qty # 0
    BY DEF TodoSound
  <2>1. CASE d # c BY <1>4, <2>1 DEF TargetsInv, TodoSound
  <2>2. CASE d = c BY <1>3, <1>4, <2>2
  <2> QED BY <2>1, <2>2
<1>7. \A s \in Symbol : /\ s \notin job[c].todo /\ venue[<<c, s>>].status # "live"
  <2> TAKE s \in Symbol
  <2>1. pc[c] \in Unsubmitted /\ <<c, s>> \in OrderId BY <1>1 DEF Unsubmitted, OrderId
  <2>2. venue[<<c, s>>] = NoVenueOrder BY <2>1 DEF LedgerInv, RowsCommitted
  <2>3. DraftSound(c, s) BY DEF LedgerInv, DraftsSound
  <2> QED BY <1>1, <2>2, <2>3 DEF NoVenueOrder, DraftSound
<1>8. \A d \in Cycle : d # c => /\ Active(d)' <=> Active(d)
                                /\ \A s \in Symbol : Remaining(d, s)' = Remaining(d, s)
  BY <1>1, <1>4 DEF Active, Remaining
<1>9. \A s \in Symbol : Remaining(c, s)' = IF s \in todo THEN draft[s].qty ELSE 0
  BY <1>1, <1>4, <1>7 DEF Remaining
<1>10. Active(c)' => ok /\ names # {}
  BY <1>1, <1>4, <1>7 DEF Active
<1>11. InFlight(c) \/ \A d \in Cycle : d # c => ~Active(d)
  <2> SUFFICES ASSUME NEW d \in Cycle, d # c, Active(d)
               PROVE  InFlight(c)
    OBVIOUS
  <2>1. PICK s \in Symbol : s \in job[d].todo \/ venue[<<d, s>>].status = "live" BY DEF Active
  <2>2. CASE venue[<<d, s>>].status = "live" BY <2>2 DEF InFlight, OrderId
  <2>3. CASE s \in job[d].todo
    <3>1. pc[d] = "submit" BY <2>3 DEF LedgerInv, DraftsSound, DraftSound
    <3>2. job[d].allowed BY <2>3 DEF TargetsInv, TodoSound
    <3> QED BY <3>1, <3>2 DEF InFlight
  <2> QED BY <2>1, <2>2, <2>3
<1>12. Hull'
  <2>1. CASE overlapped' BY <2>1 DEF Hull
  <2>2. CASE ~overlapped'
    <3>1. /\ ~overlapped
          /\ \A d, e \in Cycle : Active(d) /\ Active(e) => d = e
          /\ \A t \in Symbol : WithinTargets(account[t], t)
          /\ \A d \in Cycle, t \in Symbol : WithinTargets(account[t] + Remaining(d, t), t)
      BY <1>1, <2>2 DEF TargetsInv, Hull
    <3>2. Active(c)' => \A d \in Cycle : d # c => ~Active(d)
      BY <1>1, <1>10, <1>11, <2>2
    <3>3. \A d, e \in Cycle : Active(d)' /\ Active(e)' => d = e BY <1>8, <3>1, <3>2
    <3>4. \A t \in Symbol : WithinTargets(account[t], t)' BY <1>1, <3>1 DEF WithinTargets
    <3>5. ASSUME NEW d \in Cycle, NEW t \in Symbol
          PROVE  WithinTargets(account[t] + Remaining(d, t)', t)
      <4>1. CASE d # c BY <1>8, <3>1, <4>1
      <4>2. CASE d = c /\ t \in todo BY <1>3, <1>9, <3>1, <4>2
      <4>3. CASE d = c /\ t \notin todo
        <5>1. account[t] + Remaining(d, t)' = account[t] BY <1>9, <4>3 DEF LedgerInv, TypeOK
        <5> QED BY <3>1, <5>1
      <4> QED BY <4>1, <4>2, <4>3
    <3>6. \A d \in Cycle, t \in Symbol : WithinTargets(account[t] + Remaining(d, t), t)'
      BY <1>1, <3>5 DEF WithinTargets
    <3> QED BY <3>3, <3>4, <3>6 DEF Hull
  <2> QED BY <2>1, <2>2
<1> QED BY <1>5, <1>6, <1>12 DEF TargetsInv

(* No step takes an account over which nothing was planned out of the targets. *)
LEMMA TargetsStep == ASSUME OnAlpaca, LedgerInv, TypeOK', TargetsInv, [Next]_vars PROVE TargetsInv'
<1>c. Cycle \subseteq Job /\ Reconciler \subseteq Job BY DEF Job
<1>d. job \in [Job -> JobData] BY DEF LedgerInv, TypeOK
<1>n. NoData.todo = {} BY DEF NoData
<1>q. ASSUME UNCHANGED <<venue, account, overlapped>>,
             \A c \in Cycle : \/ job'[c].todo = {}
                              \/ /\ job'[c].todo = job[c].todo /\ job'[c].draft = job[c].draft
                                 /\ job'[c].allowed = job[c].allowed
      PROVE  TargetsInv'
  BY <1>q, QuietTargets
<1>1. ASSUME NEW c \in Cycle, CycleStep(c)
      PROVE  TargetsInv'
  <2>1. ASSUME NEW target \in Target, NEW nav, NEW inLimits, NEW k \in Capacity,
               NEW priced, NEW shortable, Plan(c, target, nav, inLimits, k, priced, shortable)
        PROVE  TargetsInv'
    BY <2>1, PlanTargets
  <2>2. ASSUME NEW s \in Symbol, SubmitAccepted(c, s) \/ SubmitTimedOut(c, s)
        PROVE  TargetsInv'
    BY <2>2, AcceptTargets DEF SubmitAccepted, SubmitTimedOut
  <2>3. ASSUME NEW s \in Symbol, SubmitToLedger(c, s) \/ SubmitRefused(c, s)
        PROVE  TargetsInv'
    <3>1. PICK status, sent : Submitted(c, s, status, sent)
      BY <2>3 DEF SubmitToLedger, SubmitRefused
    <3>2. venue' = venue BY <2>3 DEF SubmitToLedger, SubmitRefused
    <3>3. account' = account /\ overlapped' = overlapped BY <3>1 DEF Submitted
    <3>4. \A d \in Cycle : job'[d] = job[d] \/ d = c BY <1>d, <3>1 DEF Submitted, Job
    <3>5. /\ job'[c].todo = job[c].todo \ {s} /\ job'[c].allowed = job[c].allowed
          /\ \A t \in Symbol : job'[c].draft[t].qty = job[c].draft[t].qty
      <4>1. /\ job' = [job EXCEPT ![c].todo = @ \ {s},
                                  ![c].draft[s] = [@ EXCEPT !.status = status, !.sent = sent]]
            /\ job[c] \in JobData /\ c \in Job
        BY <1>c, <1>d, <3>1 DEF Submitted
      <4>2. job[c].draft \in [Symbol -> Row] /\ job[c].draft[s] \in Row BY <4>1 DEF JobData
      <4>3. [job[c].draft[s] EXCEPT !.status = status, !.sent = sent].qty = job[c].draft[s].qty
        BY <4>2 DEF Row
      <4>4. /\ job'[c].todo = job[c].todo \ {s} /\ job'[c].allowed = job[c].allowed
            /\ job'[c].draft = [job[c].draft EXCEPT ![s] = [@ EXCEPT !.status = status, !.sent = sent]]
        BY <1>d, <4>1 DEF JobData
      <4> QED BY <4>2, <4>3, <4>4
    <3> QED BY <3>2, <3>3, <3>4, <3>5, QuietTargets
  <2>4. ASSUME NEW b, NEW enabled, NEW asOf, StartCycle(c, b, enabled, asOf) \/ BlockAtStart(c, b, asOf)
        PROVE  TargetsInv'
    <3>1. UNCHANGED <<venue, account, overlapped>> BY <2>4 DEF StartCycle, BlockAtStart
    <3>2. [NoData EXCEPT !.broker = b, !.enabled = enabled, !.today = day, !.asOf = asOf].todo = {}
      BY DEF NoData
    <3>3. \A d \in Cycle : job'[d] = job[d] \/ job'[d].todo = {}
      BY <1>c, <1>d, <2>4, <3>2 DEF StartCycle, BlockAtStart
    <3> QED BY <1>q, <3>1, <3>3
  <2>5. ASSUME NEW answered, Reconciled(c, answered)
        PROVE  TargetsInv'
    <3>1. UNCHANGED <<venue, account, overlapped>> BY <2>5 DEF Reconciled
    <3> DEFINE same == Discrepancies(c) = {}
               data == [job[c] EXCEPT !.agreed = same, !.ledger = Flat]
    <3>2. job' = [job EXCEPT ![c] = data] BY <2>5 DEF Reconciled
    <3>3. job[c] \in JobData BY <1>c, <1>d
    <3> HIDE DEF same
    <3>4. data.todo = job[c].todo /\ data.draft = job[c].draft /\ data.allowed = job[c].allowed
      BY <3>3 DEF JobData
    <3> HIDE DEF data
    <3> QED BY <1>c, <1>d, <1>q, <3>1, <3>2, <3>4
  <2>6. ASSUME NEW nav, Block(c) \/ BlockOnDiscrepancy(c) \/ Finish(c) \/ BlockOnEquity(c, nav)
        PROVE  TargetsInv'
    <3>1. UNCHANGED <<venue, account, overlapped>> /\ job' = [job EXCEPT ![c] = NoData]
      BY <2>6 DEF Block, BlockOnDiscrepancy, Finish, BlockOnEquity, CommitRun
    <3> QED BY <1>c, <1>d, <1>n, <1>q, <3>1
  <2> QED BY <1>1, <2>1, <2>2, <2>3, <2>4, <2>5, <2>6 DEF CycleStep
<1>2. ASSUME NEW r \in Reconciler, ReconcilerStep(r)
      PROVE  TargetsInv'
  <2>1. \A d \in Cycle : job'[d] = job[d]
    BY <1>2, <1>d, JobAssumption DEF ReconcilerStep, ReportComparison, StartReconcile, Job
  <2>2. UNCHANGED <<venue, account, overlapped>>
    BY <1>2 DEF ReconcilerStep, ReportComparison, StartReconcile
  <2> QED BY <1>q, <2>1, <2>2
<1>3. ASSUME NEW j \in Job, PollStep(j)
      PROVE  TargetsInv'
  <2>1. PICK seen, view : \/ job' = [job EXCEPT ![j].seen = seen]
                          \/ job' = [job EXCEPT ![j].ledger = view]
    BY <1>3 DEF PollStep, Poll, Book, ReadLedger
  <2>2. UNCHANGED <<venue, account, overlapped>> BY <1>3 DEF PollStep, Poll, Book, ReadLedger
  <2>3. ASSUME NEW d \in Cycle
        PROVE  /\ job'[d].todo = job[d].todo /\ job'[d].draft = job[d].draft
               /\ job'[d].allowed = job[d].allowed
    <3>1. job[d] \in JobData /\ d \in Job BY <1>c, <1>d
    <3>2. \/ job'[d] = job[d] \/ job'[d] = [job[d] EXCEPT !.seen = seen]
          \/ job'[d] = [job[d] EXCEPT !.ledger = view]
      BY <1>d, <2>1, <3>1
    <3> QED BY <3>1, <3>2 DEF JobData
  <2> QED BY <1>q, <2>2, <2>3
<1>4. ASSUME NEW j \in Job, Fail(j)
      PROVE  TargetsInv'
  <2>1. UNCHANGED <<venue, account, overlapped>> /\ job' = [job EXCEPT ![j] = NoData]
    BY <1>4 DEF Fail
  <2> QED BY <1>c, <1>d, <1>n, <1>q, <2>1
<1>5. ASSUME NEW o \in OrderId, VenueStep(o)
      PROVE  TargetsInv'
  BY <1>5, VenueTargets DEF OrderId
<1>6. CASE NextDay \/ UNCHANGED vars
  BY <1>6, <1>q DEF NextDay, vars
<1> QED BY <1>1, <1>2, <1>3, <1>4, <1>5, <1>6 DEF Next

(* The account stays between the targets and flat as long as no plan was      *)
(* computed over orders in flight (production.py:704, :786-845).              *)
THEOREM TargetsBoundTheBook == OnAlpaca => (Spec => []BookWithinTargets)
<1> SUFFICES ASSUME OnAlpaca PROVE Spec => []BookWithinTargets OBVIOUS
<1>1. Init => LedgerInv /\ TargetsInv
  <2> SUFFICES ASSUME Init PROVE TargetsInv BY LedgerInit
  <2>1. /\ \A o \in OrderId : venue[o].status = "none"
        /\ \A c \in Cycle : job[c].todo = {}
        /\ \A s \in Symbol : account[s] = 0
    BY DEF Flat, Init, NoVenueOrder, NoData, Job
  <2>2. LiveSound /\ TodoSound BY <2>1 DEF LiveSound, TodoSound
  <2>3. \A c \in Cycle, s \in Symbol : ~Active(c) /\ Remaining(c, s) = 0
    <3>1. \A c \in Cycle, s \in Symbol : <<c, s>> \in OrderId BY DEF OrderId
    <3> QED BY <2>1, <3>1 DEF Active, Remaining
  <2>4. \A s \in Symbol : WithinTargets(0, s) BY DEF WithinTargets
  <2>5. Hull
    <3>1. \A c, d \in Cycle : Active(c) /\ Active(d) => c = d
      <4> SUFFICES ASSUME NEW c \in Cycle, Active(c) PROVE FALSE OBVIOUS
      <4> QED BY <2>3 DEF Active
    <3>2. 0 + 0 = 0 OBVIOUS
    <3> QED BY <2>1, <2>3, <2>4, <3>1, <3>2 DEF Hull
  <2> QED BY <2>2, <2>5 DEF TargetsInv
<1>2. LedgerInv /\ TargetsInv /\ [Next]_vars => (LedgerInv /\ TargetsInv)'
  BY LedgerStep, TargetsStep DEF LedgerInv
<1>3. LedgerInv /\ TargetsInv => BookWithinTargets
  <2>1. "alpaca" \in Broker BY DEF OnAlpaca
  <2> QED BY <2>1 DEF TargetsInv, Hull, BookWithinTargets, TradedPosition
<1> QED BY <1>1, <1>2, <1>3, PTL DEF Spec
=============================================================================

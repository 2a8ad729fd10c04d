------------------------------ MODULE Blotter ------------------------------
(* One portfolio's blotter (routers/portfolio.py over portfolio/accounting): *)
(* every change of the transaction log re-derives the positions table and    *)
(* the cash from the whole log.  Requests run in threads, each with its own  *)
(* session over one SQLite file.  A session reads without a lock until its   *)
(* first flush; the flush takes the write lock, and what it reads from then  *)
(* to its commit is current - except what it had loaded before, which its    *)
(* identity map hands back unchanged.  At commit it writes only attributes   *)
(* that differ from the values it loaded.                                    *)
EXTENDS PortfolioReplay

CONSTANTS
  Request,    \* concurrent requests
  RowId,      \* 1 .. the number of ids: bounds the log
  Menu,       \* the rows a client enters
  Method,     \* cost basis methods
  MaxRequests \* bound: requests a behaviour makes

VARIABLES
  exists,     \* the portfolio is in the database
  log,        \* transactions: a function from the ids in use
  method, cash,  \* portfolios.cost_basis_method and .cash
  positions,  \* positions: a function from symbols
  req,        \* per request: where it is and what its session holds
  begun,      \* requests made so far
  stale       \* history: what the last commit derived from outdated reads

vars == <<exists, log, method, cash, positions, req, begun, stale>>
database == <<exists, log, method, cash, positions>>

Out == [at |-> "out"]
Init == /\ exists = FALSE /\ log = <<>> /\ method = "fifo" /\ cash = 0
        /\ positions = <<>> /\ req = [r \in Request |-> Out]
        /\ begun = 0 /\ stale = {}

Done(r) == req' = [req EXCEPT ![r] = Out]

\* create_portfolio, with an opening deposit or none.
Open ==
  \E first \in {<<>>} \cup {<<t>> : t \in {u \in Menu : u.side = "deposit"}} :
    /\ ~exists /\ exists' = TRUE
    /\ log' = first /\ method' \in Method
    /\ cash' = Replay(first, method').cash
    /\ positions' = <<>> /\ stale' = {} /\ UNCHANGED <<req, begun>>

\* delete_portfolio: rows and positions go with it, those of others' commits
\* too; what is under way finds nothing to update.
Close == /\ exists /\ exists' = FALSE
         /\ log' = <<>> /\ positions' = <<>> /\ cash' = 0 /\ method' = "fifo"
         /\ stale' = {} /\ UNCHANGED <<req, begun>>

----------------------------------------------------------------------------
(* The session's first reads: the portfolio, and the row the request is      *)
(* about if it is about one (404 when there is none).  What the client wants *)
(* done with it only shows when it is done.                                  *)
Load(r) ==
  /\ exists /\ req[r].at = "out"
  /\ begun < MaxRequests /\ begun' = begun + 1
  /\ \E i \in {0} \cup DOMAIN log :
       req' = [req EXCEPT ![r] = [at |-> "loaded", cash |-> cash, method |-> method,
                                  id |-> i, row |-> IF i = 0 THEN <<>> ELSE log[i]]]
  /\ UNCHANGED <<database, stale>>

----------------------------------------------------------------------------
(* rebuild_positions and the commit. *)

\* portfolio.cash is written if the new value is not the one first loaded.
CashWritten(s, l) == IF l.cash # s.cash THEN l.cash ELSE cash

\* Slip: orphans, whose trades were all deleted, stay.
WrittenOver(rows) ==
  [s \in DOMAIN rows \cup DOMAIN positions |-> IF s \in DOMAIN rows THEN rows[s] ELSE positions[s]]

\* Every row of the derivation is written, every other row deleted.
Written(rows) == rows

\* An amended row: the attributes that changed go to the database, the
\* session's own copy goes into its replay.
Amended(s, to) == [a \in DOMAIN to |-> IF to[a] # s.row[a] THEN to[a] ELSE log[s.id][a]]

\* With the write lock held, the log and the positions it reads are current.
Rewrite(r, after, seen) ==
  LET s == req[r]  ledger == Replay(seen, s.method) IN
  /\ log' = after /\ positions' = Written(Rows(ledger)) /\ cash' = CashWritten(s, ledger)
  /\ stale' = (IF s.method # method \/ seen # after THEN {"positions"} ELSE {})
                \cup (IF s.cash # cash \/ seen # after THEN {"cash"} ELSE {})
  /\ Done(r) /\ UNCHANGED <<exists, method, begun>>

\* An id is one more than the greatest in use.
Create(r) ==
  /\ exists /\ req[r].at = "loaded" /\ req[r].id = 0
  /\ \E i \in RowId, t \in Menu :
       /\ \A j \in DOMAIN log : j < i
       /\ i = 1 \/ i - 1 \in DOMAIN log
       /\ LET after == With(log, i, t) IN Rewrite(r, after, after)

Amend(r) ==
  LET s == req[r] IN
  /\ s.at = "loaded" /\ s.id \in DOMAIN log
  /\ \E t \in Menu \ {s.row} :
       Rewrite(r, [log EXCEPT ![s.id] = Amended(s, t)], [log EXCEPT ![s.id] = t])

\* The delete of a row that another request deleted goes through.
Delete(r) ==
  LET s == req[r]
      after == [i \in DOMAIN log \ {s.id} |-> log[i]]
  IN  /\ exists /\ s.at = "loaded" /\ s.id # 0
      /\ Rewrite(r, after, after)

\* Nothing to flush: a change of method waits in the session until the commit,
\* and an amendment that changes nothing has nothing to write.  The log and
\* the positions are read one after the other, with no lock.
ReadLog(r) ==
  LET s == req[r]
      seen == IF s.id \in DOMAIN log THEN [log EXCEPT ![s.id] = s.row] ELSE log
  IN  /\ s.at = "loaded"
      /\ \E m \in Method :
           /\ (s.id = 0) <=> (m # s.method)
           /\ req' = [req EXCEPT ![r] = [at |-> "log", cash |-> s.cash, method |-> s.method,
                                        new |-> m, seen |-> seen]]
      /\ UNCHANGED <<database, begun, stale>>
ReadRows(r) == /\ req[r].at = "log"
               /\ req' = [req EXCEPT ![r] = [at |-> "rows", cash |-> @.cash, method |-> @.method,
                                            new |-> @.new, seen |-> @.seen, base |-> positions]]
               /\ UNCHANGED <<database, begun, stale>>

\* The commit writes the differences to what was read, row by row and
\* attribute by attribute; it fails where a row it inserts is there already
\* or one it updates is gone.
Restate(r) ==
  LET s == req[r]
      ledger == Replay(s.seen, s.new)
      want == Rows(ledger)
      both == DOMAIN want \cap DOMAIN s.base
      inserted == DOMAIN want \ DOMAIN s.base
      updated == {sym \in both : want[sym] # s.base[sym]}
      Merged(sym) == [a \in DOMAIN want[sym] |->
                        IF want[sym][a] # s.base[sym][a] THEN want[sym][a]
                                                         ELSE positions[sym][a]]
      left == (DOMAIN positions \ (DOMAIN s.base \ DOMAIN want)) \cup inserted
      outdated == s.seen # log \/ s.base # positions
  IN  /\ exists /\ s.at = "rows"
      /\ updated \subseteq DOMAIN positions /\ inserted \cap DOMAIN positions = {}
      /\ positions' = [sym \in left |->
                         IF sym \in inserted THEN want[sym]
                         ELSE IF sym \in updated THEN Merged(sym) ELSE positions[sym]]
      /\ method' = IF s.new # s.method THEN s.new ELSE method
      /\ cash' = CashWritten(s, ledger)
      /\ stale' = (IF outdated \/ s.method # method THEN {"positions"} ELSE {})
                    \cup (IF outdated \/ s.cash # cash THEN {"cash"} ELSE {})
      /\ Done(r) /\ UNCHANGED <<exists, log, begun>>

\* An error - the row or the portfolio is gone, a conflict, a lock not had in
\* time - rolls the request back.
Fail(r) == /\ req[r].at # "out" /\ Done(r) /\ UNCHANGED <<database, begun, stale>>

Next == \/ Open \/ Close
        \/ \E r \in Request :
             \/ Load(r) \/ Create(r) \/ Amend(r) \/ Delete(r)
             \/ ReadLog(r) \/ ReadRows(r) \/ Restate(r) \/ Fail(r)

Spec == Init /\ [][Next]_vars

----------------------------------------------------------------------------
(* Properties. *)

\* The tables are of one portfolio: none, or its rows, positions of symbols,
\* and sessions that hold what they need.
TypeOK ==
  /\ DOMAIN log \subseteq RowId /\ method \in Method
  /\ exists \/ (log = <<>> /\ positions = <<>> /\ cash = 0)
  /\ \A r \in Request : req[r].at \in {"out", "loaded", "log", "rows"}

\* "An edited or deleted transaction cannot leave a position wrong": unless
\* the last commit worked on reads that another commit had outdated, the
\* positions and the cash are the replay of the log under the method - and a
\* commit on current reads puts right whatever was wrong before it.
ViewAgrees ==
  LET ledger == Replay(log, method) IN
  /\ "positions" \notin stale => positions = Rows(ledger)
  /\ "cash" \notin stale => cash = ledger.cash

\* "Cash held in the account, derived from the transaction log on rebuild".
CashAgrees == cash = Replay(log, method).cash
=============================================================================

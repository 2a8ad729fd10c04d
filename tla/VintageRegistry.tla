--------------------------- MODULE VintageRegistry ---------------------------
(* The registry of research vintages (trading/production.py and              *)
(* routers/production.py) and who takes one from it: a promotion retires the *)
(* approved ones it finds and adds its own in one commit, and the daily      *)
(* cycle trades the newest approved one.  Vintages are numbered in the order *)
(* of their rows.                                                            *)
EXTENDS Naturals, FiniteSets, FiniteSetsExt

CONSTANTS Request, MaxVintages   \* MaxVintages is a bound

VARIABLES
  approved, retired,  \* the vintages by status
  promotion,          \* per request: the vintages its promotion found approved
  traded,             \* history: the vintages that cycles traded, newest last
  overlapped          \* history: two promotions at once

vars == <<approved, retired, promotion, traded, overlapped>>
Out == [at |-> "out"]
Rows == approved \cup retired

Init == /\ approved = {} /\ retired = {} /\ promotion = [r \in Request |-> Out]
        /\ traded = 0 /\ overlapped = FALSE

\* promote_vintage, after the research and unless its blend is empty: the query.
Promote(r) ==
  /\ promotion[r] = Out /\ Cardinality(Rows) < MaxVintages
  /\ promotion' = [promotion EXCEPT ![r] = [at |-> "read", old |-> approved]]
  /\ overlapped' = (overlapped \/ \E q \in Request : promotion[q] # Out)
  /\ UNCHANGED <<approved, retired, traded>>

\* Slip: the predecessors are left approved.
RetiredNone(old) == {}
Retired(old) == old
\* Its commit.
Promoted(r) ==
  /\ promotion[r].at = "read" /\ Cardinality(Rows) < MaxVintages
  /\ LET new == Cardinality(Rows) + 1
         old == Retired(promotion[r].old)
     IN /\ approved' = (approved \ old) \cup {new}
        /\ retired' = retired \cup old
  /\ promotion' = [promotion EXCEPT ![r] = Out]
  /\ UNCHANGED <<traded, overlapped>>

\* retire_vintage, of any vintage.
RetireByHand(v) == /\ v \in approved
                   /\ approved' = approved \ {v} /\ retired' = retired \cup {v}
                   /\ UNCHANGED <<promotion, traded, overlapped>>

Latest == Max(approved)
\* run_daily_cycle takes one, and keeps it to its end; without one it is blocked.
Cycle == /\ approved # {} /\ traded' = Latest
         /\ UNCHANGED <<approved, retired, promotion, overlapped>>

Next == \/ \E r \in Request : Promote(r) \/ Promoted(r)
        \/ \E v \in Rows : RetireByHand(v)
        \/ Cycle
Spec == Init /\ [][Next]_vars

----------------------------------------------------------------------------
(* Properties. *)

\* A vintage has one status, and the rows are numbered without a gap.
TypeOK == approved \cap retired = {} /\ Rows = 1 .. Cardinality(Rows)

\* "The live scorer reads only from" the registry, where a promotion retires
\* its predecessors: one vintage at most is approved, and a cycle never goes
\* back to an older one than was traded - unless promotions overlapped, when
\* two stay approved and retiring the newer one brings the older one back.
NewestTraded ==
  ~overlapped' => /\ Cardinality(approved') <= 1
                  /\ traded' >= traded
                  /\ traded' # traded => traded' = Max(Rows)
NewestTrades == [][NewestTraded]_vars
=============================================================================

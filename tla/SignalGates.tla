----------------------------- MODULE SignalGates -----------------------------
(* Which researched signals are used (backtest/signal_research.py and        *)
(* research_controls.py): each signal has passed or failed the gates of its  *)
(* own, has a p-value and a score; then the false-discovery rate is held     *)
(* over all of them, and of each cluster of correlated ones one is kept.     *)
(* P-values are levels out of Unit, compared with alpha = Alpha / Unit.      *)
EXTENDS Naturals, Sequences, FiniteSets, SequencesExt

CONSTANTS
  Signal,      \* the names, as 1 .. their number: names only break ties
  Levels, Unit, Alpha,  \* p-values are Levels / Unit, alpha is Alpha / Unit;
                        \* level 0 is None, for too few observations
  Scores,      \* selection scores
  Failures,    \* what a signal may fail of its own gates
  Horizon, Bars  \* a label's bars, and the bars of a test block

VARIABLES
  row,         \* reports: per signal, its gates, its p-value and its score
  q,           \* q_values, once they are computed
  linked,      \* the pairs that correlate at or above the threshold
  parent,      \* correlation_clusters: the forest of union
  todo         \* the pairs its loop still has to look at

vars == <<row, q, linked, parent, todo>>

Pairs == SetToSortSeq({x \in Signal \X Signal : x[1] < x[2]},
           LAMBDA x, y : x[1] < y[1] \/ (x[1] = y[1] /\ x[2] < y[2]))

Init == /\ row = [s \in Signal |-> <<>>] /\ q = <<>> /\ linked \in SUBSET Range(Pairs)
        /\ parent = [s \in Signal |-> s] /\ todo = Pairs

----------------------------------------------------------------------------
(* The rows, and the clusters. *)

\* The gates failed are among raw, neutral and execution; one that is switched
\* off is passed.
Report ==
  /\ \E s \in Signal :
       /\ row[s] = <<>> /\ \A t \in Signal : t < s => row[t] # <<>>
       /\ \E failed \in Failures, p \in Levels, score \in Scores :
            row' = [row EXCEPT ![s] = [failed |-> failed, p |-> p, score |-> score]]
  /\ UNCHANGED <<q, linked, parent, todo>>

\* benjamini_hochberg: p * m / rank over the signals that have a p-value, in the
\* unit of q-values, which every rank divides.  Equal p-values keep the order of
\* the names.
None == 0
Tested(p) == {s \in Signal : p[s] # None}
QUnit == Unit * ProductSet(Signal)
Rank(p, s) == Cardinality({t \in Tested(p) : p[t] < p[s] \/ (p[t] = p[s] /\ t <= s)})
RawQ(p, s) == (p[s] * Cardinality(Tested(p)) * ProductSet(Signal)) \div Rank(p, s)

\* Slip: the running minimum is taken from the smallest p-value up.
QUp(p) == [s \in Signal |-> IF p[s] = None THEN None ELSE
  Min({QUnit} \cup {RawQ(p, t) : t \in {u \in Tested(p) : Rank(p, u) <= Rank(p, s)}})]
\* The running minimum goes from the largest p-value down, and is at most one.
Q(p) == [s \in Signal |-> IF p[s] = None THEN None ELSE
  Min({QUnit} \cup {RawQ(p, t) : t \in {u \in Tested(p) : Rank(p, u) >= Rank(p, s)}})]

\* Every hypothesis tested counts, not only the attractive ones.
Adjust ==
  /\ q = <<>> /\ \A s \in Signal : row[s] # <<>>
  /\ q' = Q([s \in Signal |-> row[s].p])
  /\ UNCHANGED <<row, linked, parent, todo>>

\* find, with path halving: the forest it leaves, and the root.
Find(forest, x) ==
  LET find[at \in [Signal -> Signal] \X Signal] ==
        LET links == at[1]
            name == at[2]
            above == links[links[name]]
        IN IF links[name] = name THEN [forest |-> links, root |-> name]
           ELSE find[<<[links EXCEPT ![name] = above], above>>]
  IN find[<<forest, x>>]

\* Slip: the right name, and not its root, is hung under the left root.
UnitedLeaf(forest, a, b) ==
  LET left == Find(forest, a) IN [left.forest EXCEPT ![b] = left.root]
United(forest, a, b) ==
  LET left == Find(forest, a)
      right == Find(left.forest, b)
  IN [right.forest EXCEPT ![right.root] = left.root]

\* One pair of the double loop.
Unite ==
  /\ q # <<>> /\ todo # <<>>
  /\ todo' = Tail(todo)
  /\ parent' = IF Head(todo) \in linked THEN United(parent, Head(todo)[1], Head(todo)[2])
               ELSE parent
  /\ UNCHANGED <<row, q, linked>>

Next == Report \/ Adjust \/ Unite
Spec == Init /\ [][Next]_vars

----------------------------------------------------------------------------
(* The controls. *)

FdrPass(s) == q[s] # None /\ q[s] <= Alpha * ProductSet(Signal)

Cluster(s) == {t \in Signal : Find(parent, t).root = Find(parent, s).root}
OwnGates(s) == row[s].failed = {}
FdrEligible(s) == OwnGates(s) /\ FdrPass(s)

\* Slip: the best score of the cluster is kept, eligible or not.
RepresentativeAny(s) ==
  CHOOSE t \in Cluster(s) : \A u \in Cluster(s) : row[t].score >= row[u].score

\* choose_cluster_representatives: the best score, then the least q (one, if it
\* has none), then the last name, among the eligible of the cluster or, with
\* none, among all.
Penalty(s) == IF q[s] = None THEN QUnit ELSE q[s]
Better(t, u) == \/ row[t].score > row[u].score
                \/ row[t].score = row[u].score /\ Penalty(t) < Penalty(u)
                \/ row[t].score = row[u].score /\ Penalty(t) = Penalty(u) /\ t >= u
Representative(s) ==
  LET eligible == {t \in Cluster(s) : FdrEligible(t)}
      pool == IF eligible = {} THEN Cluster(s) ELSE eligible
  IN CHOOSE t \in pool : \A u \in pool : Better(t, u)

\* final_validated.
Validated == {s \in Signal : FdrEligible(s) /\ s = Representative(s)}

\* Slip: every observation counts.
SampleAll(seen) == seen
\* _metric_block: every h-th of the observations there are.
Sample(seen) == {b \in seen : Cardinality({c \in seen : c < b}) % Horizon = 0}

----------------------------------------------------------------------------
(* Properties. *)

\* The forest of the clusters has no cycle: every name has a root.
TypeOK ==
  /\ parent \in [Signal -> Signal]
  /\ \A s \in Signal : row[s] # <<>> => row[s].p \in Levels /\ row[s].score \in Scores

\* Two signals are in a cluster exactly if a chain of linked ones joins them.
Reached[s \in Signal, n \in 0 .. Cardinality(Signal)] ==
  IF n = 0 THEN {s}
  ELSE Reached[s, n - 1] \cup
       {t \in Signal : \E u \in Reached[s, n - 1] : <<t, u>> \in linked \/ <<u, t>> \in linked}

\* Benjamini and Hochberg's step-up rule: rejected are the k smallest of the m
\* p-values there are, k the largest with the k-th at or under k / m of alpha.
StepUp(s) ==
  LET some == {t \in Signal : row[t].p # None}
  IN s \in some /\ \E t \in some :
       /\ row[s].p <= row[t].p
       /\ row[t].p * Cardinality(some) <= Alpha * Cardinality({u \in some : row[u].p <= row[t].p})

\* What a p-value is computed from are bars whose labels do not overlap.
SamplesIndependent ==
  \A seen \in SUBSET Bars : \A b, c \in Sample(seen) : b < c => c - b >= Horizon

Reported == todo = <<>> /\ q # <<>>
SurvivorsEarnIt ==
  Reported =>
    /\ \A s \in Signal : Cluster(s) = Reached[s, Cardinality(Signal)]
    /\ \A s \in Signal : FdrPass(s) <=> StepUp(s)
    /\ \A s \in Validated : OwnGates(s) /\ StepUp(s) /\ Cluster(s) \cap Validated = {s}
    /\ \A s \in Signal : OwnGates(s) /\ StepUp(s) =>
         \E t \in Validated : t \in Cluster(s) /\ row[t].score >= row[s].score
    /\ SamplesIndependent
=============================================================================

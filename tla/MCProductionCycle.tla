-------------------------- MODULE MCProductionCycle --------------------------
(* Small instances of ProductionCycle for TLC. *)
EXTENDS ProductionCycle, TLC

CONSTANTS c1, c2, c3, r1, s1, s2

\* Long or short one share of the only symbol, or flat.
OneSymbolTargets == {[s \in {s1} |-> q] : q \in {-1, 1}}

\* A larger long book: two shares, so that an order can fill in part.
TwoShareTargets == {[s \in {s1} |-> q] : q \in {0, 2}}

\* A book of two symbols, one leg larger, and its mirror image: the larger
\* order can fill in part, and one leg can trade without the other.
UnevenTargets == {[s \in {s1, s2} |-> IF s = s1 THEN 2 * q ELSE -q] : q \in {-1, 1}}

\* Equities: none left, a loss of 6 percent, the starting capital.
LedgerNavs == {-10, 94, 100}

CycleSymmetry == Permutations(Cycle)
=============================================================================

---------------------------- MODULE MCPaperSession ----------------------------
(* Small instances of PaperSession for TLC. *)
EXTENDS PaperSession, TLC

CONSTANTS o1, o2, o3, k1, k2

\* A purchase that can fill in part.
TwoShares == {2}

\* A purchase of one share.
OneShare == {1}

\* A purchase and a sale of one share.
BothSides == {-1, 1}

Symmetry == Permutations(Request) \cup Permutations(Killer)
=============================================================================

---------------------------- MODULE MCPaperEngine ----------------------------
(* Small instances of PaperEngine for TLC. *)
EXTENDS PaperEngine, TLC

CONSTANTS o1, o2, o3, s1, s2

\* The last order is for the second symbol, if there is one.
Assigned == [o \in Order |-> IF o \in Symbol THEN o
                             ELSE IF s2 \in Symbol /\ o = o3 THEN s2 ELSE s1]

\* A purchase of one share, a sale of two.
OneIn == {1, -2}

\* A market order, and a limit between the two quotes.
Limits == {NoLimit, 18}

\* A price without a spread, and half of it with one.
Quotes == {[last |-> 24, buy |-> 24, sell |-> 24], [last |-> 12, buy |-> 18, sell |-> 6]}
=============================================================================

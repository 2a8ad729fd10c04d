---------------------------- MODULE MCStreamHub ----------------------------
(* Small instances of StreamHub for TLC. *)
EXTENDS StreamHub, TLC

CONSTANTS r1, r2, r3, s1, s2

\* One reader watches a symbol, the others that symbol and a second one.
Overlapping == [r \in Reader |-> IF r = r1 THEN {s1} ELSE {s1, s2}]
=============================================================================

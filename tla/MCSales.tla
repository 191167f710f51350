-------------------------------- MODULE MCSales --------------------------------
(* Two pieces that sell for 1 and 2; in units of money the legal limit is 3.     *)
EXTENDS Sales, TLC

CONSTANTS p1, p2, c1, c2, s1, s2

MCPieces == {p1, p2}
MCPrice  == [p \in MCPieces |-> IF p = p1 THEN 1 ELSE 2]
OneTill  == {s1}
TwoTills == {s1, s2}
OneNamed == {c1}
TwoNamed == {c1, c2}
Paid     == {0, 2}
Unpaid   == {0}

\* Sessions are alike, and so are named customers.
Alike == Permutations(TwoTills) \cup Permutations(TwoNamed)
===============================================================================

--------------------------- MODULE MCStockMovements ---------------------------
(* Three sessions, two balance rows, a purchase and two bills that want the same  *)
(* last piece.  In the exchange instance the bills also take in old gold.       *)
EXTENDS StockMovements

CONSTANTS s1, s2, s3, grn, inv1, inv2

MCSessions == {s1, s2, s3}
MCRows     == {1, 2}
MCDocs     == {grn, inv1, inv2}

\* One of each bought; a bill for the first, and a bill for both.
MCGoods ==
  [d \in MCDocs |-> [r \in MCRows |->
     IF d = grn THEN 1 ELSE IF d = inv1 /\ r = 2 THEN 0 ELSE -1]]
MCNone == [d \in MCDocs |-> [r \in MCRows |-> 0]]

\* Bills with old gold: a gram of it into the second row, and one piece of the
\* first row sold.
MCOldGold == [d \in MCDocs |-> [r \in MCRows |-> IF d # grn /\ r = 2 THEN 1 ELSE 0]]
MCSold    == [d \in MCDocs |-> [r \in MCRows |-> IF r = 2 THEN 0 ELSE IF d = grn THEN 2 ELSE -1]]
===============================================================================

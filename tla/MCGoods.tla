-------------------------------- MODULE MCGoods --------------------------------
(* Branch "a" with a shop and a safe, branch "b" with a shop; one behaviour does one   *)
(* of the things in MCBounds, so that each is small and one run covers all of them.    *)
EXTENDS Goods, TLC

CONSTANTS p1, p2, c1, c2, s1, s2, safe, shop, town, roadA, roadB, x, y

MCPlaces  == {safe, shop, town, roadA, roadB}
MCBranch  == [l \in MCPlaces |-> IF l \in {town, roadB} THEN "b" ELSE "a"]
MCTransit == [b \in {"a", "b"} |-> IF b = "a" THEN roadA ELSE roadB]

Line(item, pieces, gross, stone, basis, rate, making) ==
  [item |-> item, pieces |-> pieces, gross |-> gross, stone |-> stone, basis |-> basis, rate |-> rate,
   touch |-> 100, makingBasis |-> "flat", making |-> making, stones |-> 0]

Rings == Line("tagged", 2, 3, 0, "rupee", 2, 1)     \* cost 8 for 3 g: does not divide
Bangle == Line("tagged", 1, 3, 1, "fine", 3, 1)
Bar   == Line("metal", 0, 2, 0, "fine", 3, 0)
MCGoodsLines == {Rings, Bangle, Bar}

MCTags  == {[gross |-> 1, net |-> 1], [gross |-> 2, net |-> 2], [gross |-> 3, net |-> 2]}
MCParts == {[pieces |-> 1, gross |-> 1], [pieces |-> 1, gross |-> 2]}
MCReweighs == {[gross |-> 2, net |-> 1]}
MCWeights == [l \in {1, 2} |-> 2]

Nowhere == [r \in ({"tagged", "metal"} \X MCPlaces) |-> Nothing]
SomeMetal == [r \in ({"tagged", "metal"} \X MCPlaces) |->
                IF r = <<"metal", shop>> THEN [pieces |-> 0, gross |-> 2, net |-> 2, cost |-> 5] ELSE Nothing]
Ring(l, w) == [status |-> "in_stock", place |-> l, lot |-> 0, gross |-> w, net |-> w, cost |-> 3, soldAt |-> None]
NoPieces == [p \in {} |-> 0]
TwoPieces == [p \in {p1, p2} |-> IF p = p1 THEN Ring(shop, 1) ELSE Ring(safe, 2)]

Nil == [pieces |-> NoPieces, metal |-> Nowhere, clerks |-> {}, sessions |-> {}, at |-> {shop}, suppliers |-> {x}, places |-> {shop},
        goods |-> {}, orders |-> 0, inwards |-> 0, bills |-> 0, returns |-> 0, settlements |-> 0,
        transfers |-> 0, counts |-> 0, adjusts |-> FALSE, metalMost |-> 3, sells |-> FALSE]

Buying   == [Nil EXCEPT !.clerks = {c1}, !.goods = {Rings, Bangle}, !.inwards = 2, !.bills = 1, !.returns = 2]
Ordering == [Nil EXCEPT !.clerks = {c1}, !.goods = {Rings}, !.orders = 1, !.inwards = 2]
Settling == [Nil EXCEPT !.clerks = {c1}, !.goods = {Bar}, !.inwards = 2, !.returns = 1, !.settlements = 2]
Billing  == [Nil EXCEPT !.clerks = {c1}, !.suppliers = {x, y}, !.goods = {Bar}, !.inwards = 2, !.bills = 2]
Racing   == [Nil EXCEPT !.clerks = {c1, c2}, !.goods = {Rings}, !.orders = 1, !.inwards = 1,
                         !.bills = 2, !.returns = 2]
Moving   == [Nil EXCEPT !.sessions = {s1}, !.pieces = TwoPieces, !.metal = SomeMetal, !.transfers = 3, !.sells = TRUE]
Adjusting == [Nil EXCEPT !.sessions = {s1}, !.pieces = TwoPieces, !.metal = SomeMetal, !.transfers = 1, !.adjusts = TRUE]
Counting == [Nil EXCEPT !.sessions = {s1}, !.pieces = TwoPieces, !.metal = SomeMetal, !.counts = 2, !.transfers = 1]
Apart    == [p \in {p1, p2} |-> IF p = p1 THEN Ring(town, 1) ELSE Ring(safe, 2)]
Recalling == [Nil EXCEPT !.sessions = {s1}, !.pieces = Apart, !.counts = 1, !.transfers = 1]
Selling  == [Nil EXCEPT !.sessions = {s1}, !.pieces = TwoPieces, !.counts = 1, !.sells = TRUE]
Whole    == [Nil EXCEPT !.clerks = {c1}, !.sessions = {s1}, !.goods = {Rings, Bar}, !.inwards = 1,
                        !.transfers = 2, !.returns = 1, !.sells = TRUE]

MCBounds == {Buying, Ordering, Settling, Billing, Racing, Moving, Adjusting, Counting, Recalling, Whole}
OnlySelling == {Selling}
===============================================================================

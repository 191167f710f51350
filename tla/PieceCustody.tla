----------------------------- MODULE PieceCustody -----------------------------
(***************************************************************************)
(* What billing promises about who has a tagged piece, without documents:  *)
(* a piece is in the shop, out on approval with a customer, or sold to     *)
(* one, and only the customer who has it on approval can be billed it.     *)
(* Undoing a sale puts the piece back where the sale took it from.         *)
(***************************************************************************)
CONSTANTS
  Pieces,     \* tagged pieces
  Buyers,     \* who can be billed
  Nobody      \* nobody has the piece

VARIABLE
  place       \* where each piece is, who has it, and what a sale took it from

Shop == [at |-> "shop", with |-> Nobody, from |-> "shop"]
Approval(c) == [at |-> "approval", with |-> c, from |-> "shop"]
Sold(c, from) == [at |-> "sold", with |-> c, from |-> from]

Init == place = [p \in Pieces |-> Shop]

\* Every piece of set moves at once, the rest stay.
Move(set, to(_)) == place' = [p \in Pieces |-> IF p \in set THEN to(p) ELSE place[p]]

SendOut(set, c) ==
  /\ \A p \in set : place[p] = Shop
  /\ Move(set, LAMBDA p : Approval(c))

BringBack(set) ==
  /\ \A p \in set : place[p].at = "approval"
  /\ Move(set, LAMBDA p : Shop)

Sell(set, c) ==
  /\ \A p \in set : place[p] \in {Shop, Approval(c)}
  /\ Move(set, LAMBDA p : Sold(c, place[p].at))

ReturnGoods(set, c) ==
  /\ \A p \in set : place[p].at = "sold" /\ place[p].with = c
  /\ Move(set, LAMBDA p : Shop)

UndoSale(set, c) ==
  /\ \A p \in set : place[p].at = "sold" /\ place[p].with = c
  /\ Move(set, LAMBDA p : IF place[p].from = "approval" THEN Approval(c) ELSE Shop)

Next ==
  \E set \in SUBSET Pieces, c \in Buyers :
    \/ SendOut(set, c)
    \/ BringBack(set)
    \/ Sell(set, c)
    \/ ReturnGoods(set, c)
    \/ UndoSale(set, c)

Spec == Init /\ [][Next]_place
===============================================================================

--------------------------------- MODULE Shelf ---------------------------------
(***************************************************************************)
(* What purchases, tagging, transfers and counts have in common: tagged    *)
(* pieces (stock_piece), the balance of each item at each location         *)
(* (stock_balance) and recordMovements, which changes balances in one      *)
(* batch.  StockMovements has the row locks behind a batch; here a batch   *)
(* is one step.  There are two items, one tracked piece by piece and one   *)
(* lot item ("metal") of one purity, so fine weight goes with net weight.  *)
(***************************************************************************)
EXTENDS Money, FiniteSets, Functions

CONSTANTS
  Pieces,      \* pieces that can be tagged
  Places,      \* stock locations
  BranchOf,    \* the branch each location belongs to
  Transit,     \* each branch's transit location
  Bounds,      \* what a behaviour starts from and how much it may do
  None

VARIABLES
  bound,       \* the member of Bounds this behaviour keeps to
  piece,       \* stock_piece
  stock        \* stock_balance

shelfVars == <<bound, piece, stock>>

Rows == {"tagged", "metal"} \X Places

Counters == {l \in Places : \A b \in DOMAIN Transit : Transit[b] # l}

\* A branch's transit location is one of its own.
ASSUME PlacesAssumption ==
  /\ IsFiniteSet(Pieces) /\ None \notin Places
  /\ \A b \in DOMAIN Transit : Transit[b] \in Places /\ BranchOf[Transit[b]] = b
  /\ \A l \in Counters : BranchOf[l] \in DOMAIN Transit

\* What a movement carries.
Measures == [pieces : Int, gross : Int, net : Int, cost : Int]

Nothing == [pieces |-> 0, gross |-> 0, net |-> 0, cost |-> 0]

Plus(a, b) == [pieces |-> a.pieces + b.pieces, gross |-> a.gross + b.gross,
               net |-> a.net + b.net, cost |-> a.cost + b.cost]

Minus(a, b) == [pieces |-> a.pieces - b.pieces, gross |-> a.gross - b.gross,
                net |-> a.net - b.net, cost |-> a.cost - b.cost]

Total(measures) == FoldFunction(Plus, Nothing, measures)

\* soldAt is the location of the movement that sold it, which undoing the sale reverses.
PieceRows == [status : {"none", "in_stock", "in_transit", "sold", "written_off"}, place : Places \cup {None},
              lot : Nat, gross : Nat, net : Nat, cost : Int, soldAt : Places \cup {None}]

NoPiece == [status |-> "none", place |-> None, lot |-> 0, gross |-> 0, net |-> 0, cost |-> 0, soldAt |-> None]

\* A behaviour starts with goods in stock at counters.
ASSUME ShelfAssumption ==
  \A b \in Bounds :
    /\ DOMAIN b.pieces \subseteq Pieces
    /\ \A p \in DOMAIN b.pieces :
         LET row == b.pieces[p] IN
         row \in PieceRows /\ row.status = "in_stock" /\ row.place \in Counters /\ row.lot = 0 /\ row.soldAt = None
    /\ b.metal \in [Rows -> Measures]
    /\ \A r \in Rows : b.metal[r].net >= 0
    /\ \A l \in Places : b.metal[<<"tagged", l>>] = Nothing /\ b.metal[<<"metal", l>>].pieces = 0
    /\ \A road \in Places \ Counters : b.metal[<<"metal", road>>] = Nothing

Weighed(p) == [pieces |-> 1, gross |-> piece[p].gross, net |-> piece[p].net, cost |-> piece[p].cost]

InStock(p) == piece[p].status = "in_stock"

\* A batch's movements one way: what it moves per row.
At(item, l, m) == [r \in Rows |-> IF r = <<item, l>> THEN m ELSE Nothing]

PiecesAt(place) ==
  [r \in Rows |-> Total([p \in {p \in DOMAIN place : <<"tagged", place[p]>> = r} |-> Weighed(p)])]

WhereItIs(set) == [p \in set |-> piece[p].place]

AllAt(set, l) == [p \in set |-> l]

With(f, g) == [r \in Rows |-> Plus(f[r], g[r])]

Short(r, after) == after.net < 0 \/ (r[1] = "tagged" /\ after.pieces < 0)

\* Rows with an `out` in the batch may not end below zero, unless it must go through.
recordMovements(into, out, allowNegative) ==
  LET after == [r \in Rows |-> Minus(Plus(stock[r], into[r]), out[r])] IN
  /\ allowNegative \/ \A r \in Rows : out[r] # Nothing => ~Short(r, after[r])
  /\ stock' = after

\* A lot item's weight at what the location carries it at on average.
lotMovement(l, weight) ==
  [pieces |-> 0, gross |-> weight, net |-> weight,
   cost |-> Rounded(weight * stock[<<"metal", l>>].cost, stock[<<"metal", l>>].net)]

\* The number the next document of a kind takes.
Unused(doc, last) == {i \in 1..last : doc[i].status = "none" /\ \A j \in 1..last : j < i => doc[j].status # "none"}

ShelfInit ==
  /\ bound \in Bounds
  /\ piece = [p \in Pieces |-> IF p \in DOMAIN bound.pieces THEN bound.pieces[p] ELSE NoPiece]
  /\ stock = With(PiecesAt([p \in DOMAIN bound.pieces |-> bound.pieces[p].place]), bound.metal)
===============================================================================

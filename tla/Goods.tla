--------------------------------- MODULE Goods ---------------------------------
(***************************************************************************)
(* Goods from the supplier's delivery to the counter: Purchases (orders,   *)
(* inwards, tagging, bills, returns, settlements) and Floor (transfers,    *)
(* counts, adjustments) on the same pieces and balances, and what has to   *)
(* hold between them.                                                      *)
(***************************************************************************)
EXTENDS Purchases, Floor

goodsVars == <<shelfVars, purchaseVars, floorVars>>

Init == ShelfInit /\ PurchasesInit /\ FloorInit

Next ==
  \/ \E c \in Clerks :
       \/ createOrder(c) /\ UNCHANGED floorVars
       \/ closeOrder(c) /\ UNCHANGED floorVars
       \/ createInward(c) /\ UNCHANGED floorVars
       \/ \E i \in Inwards : BeginCancelInward(c, i) /\ UNCHANGED floorVars
       \/ cancelInward(c) /\ UNCHANGED floorVars
       \/ createBill(c) /\ UNCHANGED floorVars
       \/ \E b \in Bills : cancelBill(c, b) /\ UNCHANGED floorVars
       \/ \E i \in Inwards : BeginTag(c, i) /\ UNCHANGED floorVars
       \/ tagPieces(c) /\ UNCHANGED floorVars
       \/ \E i \in Inwards : closeLot(c, i) /\ UNCHANGED floorVars
       \/ \E p \in Pieces : returnTagged(c, p) /\ UNCHANGED floorVars
       \/ \E i \in Inwards : returnMetal(c, i) /\ UNCHANGED floorVars
       \/ \E i \in Inwards : BeginReturnUntagged(c, i) /\ UNCHANGED floorVars
       \/ returnUntagged(c) /\ UNCHANGED floorVars
       \/ paySupplier(c) /\ UNCHANGED floorVars
       \/ BeginSettleMetal(c) /\ UNCHANGED floorVars
       \/ createSettlement(c) /\ UNCHANGED floorVars
       \/ \E k \in Settlements : cancelSettlement(c, k) /\ UNCHANGED floorVars
       \/ GiveUp(c) /\ UNCHANGED floorVars
  \/ \E s \in Sessions :
       \/ dispatchTransfer(s) /\ UNCHANGED purchaseVars
       \/ \E t \in Transfers : land(s, t) /\ UNCHANGED purchaseVars
       \/ adjustStock(s) /\ UNCHANGED purchaseVars
       \/ \E p \in Pieces : correctPieceWeights(s, p) /\ UNCHANGED purchaseVars
       \/ BeginStartCount(s) /\ UNCHANGED purchaseVars
       \/ startCount(s) /\ UNCHANGED purchaseVars
       \/ \E c \in Counts : scanTags(s, c) /\ UNCHANGED purchaseVars
       \/ \E c \in Counts : weighLot(s, c) /\ UNCHANGED purchaseVars
       \/ \E c \in Counts : removeCountLine(s, c) /\ UNCHANGED purchaseVars
       \/ \E c \in Counts : cancelCount(s, c) /\ UNCHANGED purchaseVars
       \/ \E c \in Counts : BeginPostCount(s, c) /\ UNCHANGED purchaseVars
       \/ postCount(s) /\ UNCHANGED purchaseVars
       \/ \E p \in Pieces : sellPiece(s, p) /\ UNCHANGED purchaseVars
       \/ \E p \in Pieces : undoSale(s, p) /\ UNCHANGED purchaseVars
       \/ Abandon(s) /\ UNCHANGED purchaseVars

Spec == Init /\ [][Next]_goodsVars

-------------------------------------------------------------------------------
\* Types of every table and balance, including balances that may go below zero.
GoodsTypeOK ==
  /\ bound \in Bounds
  /\ piece \in [Pieces -> PieceRows]
  /\ stock \in [Rows -> Measures]
  /\ PurchasesTypeOK /\ FloorTypeOK

\* What of a lot is on the books and not a piece.  Closing it takes the rest off, but a
\* return of its last untagged pieces closes it with whatever weight it left, and closeLot
\* sees no rest in a lot with more net weight tagged than arrived.  Cancelling its inward
\* takes off all that was received, also what closing it had taken off before.
Untagged(i) ==
  LET rest == Minus(Minus(lot[i].expected, lot[i].tagged), lot[i].difference)
      stray == \/ \E r \in ReturnsOf(i) : back[r].stock.pieces > 0 /\ rest.pieces = 0
               \/ rest.pieces <= 0 /\ rest.gross <= 0 /\ rest.net <= 0
  IN IF ~Posted(i) THEN Minus(Nothing, lot[i].difference)
     ELSE IF lot[i].status = "open" \/ stray THEN rest ELSE Nothing

\* Tagging, cancelling an inward and posting a count look at rows they do not lock; what
\* these promise holds while one request at a time is served on either side.
Alone == /\ \A c, d \in bound.clerks : c = d
         /\ \A s, u \in bound.sessions : s = u

\* No balance is ever below zero, although a delivery, a reversed settlement and an undone
\* sale are let through unchecked (stock.service.ts:166-171, 181-197).
NoneShort == \A r \in Rows : stock[r].net >= 0 /\ stock[r].pieces >= 0

\* Where the balances have a piece: at its own place, or on the road its transfer takes.
OnBooksAt(p, l) ==
  \/ InStock(p) /\ piece[p].place = l
  \/ /\ piece[p].status = "in_transit"
     /\ \E t \in Transfers : /\ transfer[t].status = "in_transit" /\ p \in transfer[t].pieces
                             /\ Transit[BranchOf[transfer[t].to]] = l

\* The balance of every location is the pieces that are there or on the road to it, at
\* their own weight and cost, and what waits there to be tagged, through inwards,
\* tagging, returns, transfers, re-weighing, write-offs, counts and sales
\* (stock.service.ts:55, tagging.service.ts:228-229); a piece on the road says it is there,
\* unless a count posted meanwhile put it at the location counted (count.service.ts:156);
\* and no balance is short.
BooksAgree ==
  /\ Alone => \A l \in Places :
       stock[<<"tagged", l>>] =
         Plus(Total([p \in {p \in Pieces : OnBooksAt(p, l)} |-> Weighed(p)]),
              Total([i \in {i \in Inwards : lot[i].status # "none" /\ inward[i].place = l} |-> Untagged(i)]))
  /\ bound.counts = 0 => \A p \in Pieces : piece[p].status = "in_transit" => OnBooksAt(p, piece[p].place)
  /\ NoneShort

\* "Until then everyone can see exactly what is on the road" (transfer.service.ts:4-8): a
\* piece in transit is on exactly one open transfer, a piece on one is in transit, and the
\* transit location's metal is what open transfers to that branch carry.  Two sessions can
\* write off a piece on the road: postCount updates every piece that was missing when it
\* read the books, wherever it is by then.
OnTheRoad ==
  LET open == {t \in Transfers : transfer[t].status = "in_transit"} IN
  /\ \A p \in Pieces :
       LET carriers == Cardinality({t \in open : p \in transfer[t].pieces}) IN
       /\ carriers <= 1
       /\ piece[p].status = "in_transit" => carriers = 1
       /\ carriers = 1 => \/ piece[p].status = "in_transit"
                          \/ piece[p].status = "written_off" /\ \E s, u \in bound.sessions : s # u
  /\ \A b \in DOMAIN Transit :
       stock[<<"metal", Transit[b]>>] =
         Total([t \in {t \in open : BranchOf[transfer[t].to] = b} |-> transfer[t].metal])

\* "Each piece takes the lot's cost by weight, the last one what is left"
\* (tagging.service.ts:155): what an inward cost is what its pieces cost, what went back
\* untagged and what is left to share, and nothing is left when all pieces are tagged.
CostShared ==
  Alone => \A i \in Inwards :
    LET left == Minus(lot[i].expected, lot[i].tagged)
        untagged == {r \in ReturnsOf(i) : back[r].stock.pieces > 0}
        ofLot == {p \in Pieces : piece[p].lot = i}
    IN lot[i].status # "none" =>
         /\ left.cost >= 0 /\ left.pieces >= 0
         /\ Cardinality(ofLot) = lot[i].tagged.pieces
         /\ left.pieces = 0 /\ untagged = {} => left.cost = 0
         /\ \E gone \in SUBSET untagged :
              SumFunction([p \in ofLot |-> piece[p].cost])
                + SumFunction([r \in gone |-> back[r].stock.cost]) + left.cost = inward[i].line.cost

\* "Received quantities on the order's lines, and the order closes when everything has
\* arrived" (purchase.service.ts:279): they are what the posted inwards brought, except
\* on a line all of whose inwards are cancelled; and an order left open still waits for
\* something.
OrderFollows ==
  \A o \in Orders :
    /\ \A l \in OrderLines :
         \/ order[o].received[l] = Arrived(inward, o, l)
         \/ /\ Receipts(inward, o, l) # {}
            /\ \A i \in Receipts(inward, o, l) : inward[i].status = "cancelled"
    /\ order[o].status = "confirmed" => \E l \in OrderLines : order[o].received[l] < OrderWeight[l]

\* "A direct purchase goes with its bill: both are cancelled together"
\* (purchase.service.ts:317): neither stands without the other; no inward hangs on a
\* cancelled bill; and a bill that stands is for the inwards that stand on it.
BillTogether ==
  /\ \A i \in Inwards :
       inward[i].status # "none" =>
         /\ inward[i].direct => inward[i].bill # 0 /\ bill[inward[i].bill].status = inward[i].status
         /\ Posted(i) /\ inward[i].bill # 0 => bill[inward[i].bill].status = "posted"
  /\ \A b \in Bills :
       bill[b].status = "posted" =>
         bill[b].taxable = SumFunction([i \in {i \in Inwards : Posted(i) /\ inward[i].bill = b} |-> inward[i].line.cost])

\* What the ledger says a supplier is owed, in rupees and in fine metal, is what the
\* documents that stand say: inwards, bills' GST, returns and settlements, through every
\* cancellation (purchase.service.ts:46-58).
OwedByDocuments ==
  \A s \in Suppliers :
    LET inwards  == {i \in Inwards : Posted(i) /\ inward[i].supplier = s}
        bills    == {b \in Bills : bill[b].status = "posted" /\ bill[b].supplier = s}
        returns  == {r \in Returns : back[r].status = "posted" /\ inward[back[r].inward].supplier = s}
        standing == {k \in Settlements : settled[k].status = "posted" /\ settled[k].supplier = s}
        fixed    == {k \in standing : settled[k].kind = "rate_fix"}
        paid     == {k \in standing : settled[k].kind = "payment"}
    IN
    /\ owing[s].rupees = SumFunction([i \in inwards |-> inward[i].line.rupees])
         + SumFunction([b \in bills |-> bill[b].gst])
         - SumFunction([r \in returns |-> back[r].rupees + back[r].gst])
         + SumFunction([k \in fixed |-> settled[k].amount]) - SumFunction([k \in paid |-> settled[k].amount])
    /\ owing[s].fine = SumFunction([i \in inwards |-> inward[i].line.fine])
         - SumFunction([r \in returns |-> back[r].fine]) - SumFunction([k \in standing |-> settled[k].fine])

\* "Weighed lots are set to what the scale said", and pieces scanned here from elsewhere
\* in the branch are here afterwards (count.service.ts:118-122), if nobody else works
\* between the reading of the books and the posting.
CountSettles ==
  [][\A c \in Counts :
       LET here == count[c].place IN
       Alone /\ bound.clerks = {} /\ count[c].status = "open" /\ count'[c].status = "posted" =>
         /\ count[c].weighed # None => stock'[<<"metal", here>>].net = count[c].weighed
         /\ \A p \in Pieces :
              count[c].line[p] = "elsewhere" /\ InStock(p) /\ BranchOf[piece[p].place] = BranchOf[here]
                => piece'[p].place = here]_goodsVars
===============================================================================

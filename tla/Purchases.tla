------------------------------- MODULE Purchases -------------------------------
(***************************************************************************)
(* modules/purchase/purchase.service.ts and modules/tagging: purchase      *)
(* orders, goods inward, the supplier's bill, returns to the supplier and  *)
(* settlements, and the tagging of what arrived piece by piece.            *)
(*                                                                         *)
(* Each request is one transaction.  Tagging, cancelling an inward,        *)
(* returning untagged pieces and settling metal decide by rows they read   *)
(* without a lock, so they take two steps; the rest is one step.           *)
(*                                                                         *)
(* An inward and a return have one line.  Money and weights are small      *)
(* whole numbers with the code's rounding, fine weight is net weight, and  *)
(* one GST rate holds.  Dates, invoice numbers, hallmark IDs and a piece's *)
(* own making charges are left out.                                        *)
(***************************************************************************)
EXTENDS Shelf

CONSTANTS
  Clerks,        \* requests served at once
  Suppliers,
  Goods,         \* lines as entered on an inward
  Tags,          \* gross and net weights a piece may be tagged at
  Parts,         \* pieces and weight that may go back untagged, or metal out
  Amounts,       \* what may be paid
  FixRate,       \* the rate at which metal owed is turned into rupees
  GstRate,       \* percent
  OrderLines, OrderWeight,   \* lines of an order, and what each asks for
  MaxOrders, MaxInwards, MaxBills, MaxReturns, MaxSettlements   \* bounds: documents raised

VARIABLES
  order,       \* purchase_order with its lines
  inward,      \* goods_receipt with its line
  lot,         \* tagging_lot of each inward
  bill,        \* purchase_invoice
  back,        \* purchase_return
  settled,     \* supplier_settlement
  owing,       \* ledger balances of 2000 and 2010 per supplier
  account,     \* ledger balances of 1200, 1300, 4200 and the money accounts
  errand       \* the request each clerk is in the middle of

purchaseVars == <<order, inward, lot, bill, back, settled, owing, account, errand>>

Orders      == 1..MaxOrders
Inwards     == 1..MaxInwards
Bills       == 1..MaxBills
Returns     == 1..MaxReturns
Settlements == 1..MaxSettlements

-------------------------------------------------------------------------------
\* Rows.

GoodsRows == [item : {"tagged", "metal"}, pieces : Nat, gross : Nat, stone : Nat, basis : {"rupee", "fine"},
              rate : Nat, touch : 1..100, makingBasis : {"per_gram", "flat", "percent"}, making : Nat, stones : Nat]

PricedRows == [item : {"tagged", "metal"}, pieces : Nat, gross : Nat, net : Nat, basis : {"rupee", "fine"},
               metal : Nat, cost : Nat, rupees : Nat, fine : Nat]

OrderRows == [status : {"none", "confirmed", "closed", "cancelled"}, supplier : Suppliers \cup {None},
              received : [OrderLines -> Nat]]

NoOrder == [status |-> "none", supplier |-> None, received |-> [l \in OrderLines |-> 0]]

InwardRows == [status : {"none", "posted", "cancelled"}, supplier : Suppliers, place : Places, line : PricedRows,
               direct : BOOLEAN, bill : {0} \cup Bills, order : {0} \cup Orders, orderLine : OrderLines \cup {None}]

NoInward == [status |-> "none"]

\* difference is what closing the lot took off the books (its stock adjustment).
LotRows == [status : {"none", "open", "closed"}, expected : Measures, tagged : Measures, difference : Measures]

NoLot == [status |-> "none", expected |-> Nothing, tagged |-> Nothing, difference |-> Nothing]

BillRows == [status : {"none", "posted", "cancelled"}, supplier : Suppliers \cup {None}, taxable : Nat, gst : Nat]

NoBill == [status |-> "none", supplier |-> None, taxable |-> 0, gst |-> 0]

ReturnRows == [status : {"none", "posted"}, inward : {0} \cup Inwards, stock : Measures, rupees : Int, metal : Int,
               fine : Int, gst : Int]

NoReturn == [status |-> "none", inward |-> 0, stock |-> Nothing, rupees |-> 0, metal |-> 0, fine |-> 0, gst |-> 0]

SettlementRows == [status : {"none", "posted", "cancelled"}, supplier : Suppliers \cup {None},
                   kind : {"payment", "metal", "rate_fix"}, place : Places \cup {None},
                   fine : Nat, carried : Int, amount : Int]

NoSettlement == [status |-> "none", supplier |-> None, kind |-> "payment", place |-> None,
                 fine |-> 0, carried |-> 0, amount |-> 0]

ASSUME PurchasesAssumption ==
  /\ Goods \subseteq {g \in GoodsRows : g.stone <= g.gross /\ (g.item = "tagged" => g.pieces > 0)}
  /\ Tags \subseteq [gross : Nat, net : Nat] /\ Parts \subseteq [pieces : Nat, gross : Nat]
  /\ Amounts \subseteq Nat /\ FixRate \in Nat /\ GstRate \in Nat
  /\ OrderLines # {} /\ None \notin OrderLines /\ OrderWeight \in [OrderLines -> Nat \ {0}]
  /\ MaxOrders \in Nat /\ MaxInwards \in Nat /\ MaxBills \in Nat /\ MaxReturns \in Nat /\ MaxSettlements \in Nat
  /\ \A b \in Bounds :
       /\ b.clerks \subseteq Clerks /\ b.suppliers \subseteq Suppliers /\ b.places \subseteq Counters /\ b.goods \subseteq Goods
       /\ b.orders \in 0..MaxOrders /\ b.inwards \in 0..MaxInwards /\ b.bills \in 0..MaxBills
       /\ b.returns \in 0..MaxReturns /\ b.settlements \in 0..MaxSettlements

\* fineIn and valueIn add up the weight_in rows of 2010, and weight_in times the rate.
Owings == [rupees : Int, metal : Int, fine : Int, fineIn : Nat, valueIn : Nat]

Errands == [pc : {"idle", "tag", "cancel", "return", "settle"}, doc : {0} \cup Inwards, measure : Measures,
            kind : {"none", "metal", "rate_fix"}, supplier : Suppliers \cup {None},
            place : Places \cup {None}, carried : Int]

Free == [pc |-> "idle", doc |-> 0, measure |-> Nothing, kind |-> "none", supplier |-> None,
         place |-> None, carried |-> 0]

PurchasesTypeOK ==
  /\ order \in [Orders -> OrderRows]
  /\ inward \in [Inwards -> InwardRows \cup {NoInward}]
  /\ lot \in [Inwards -> LotRows]
  /\ bill \in [Bills -> BillRows]
  /\ back \in [Returns -> ReturnRows]
  /\ settled \in [Settlements -> SettlementRows]
  /\ owing \in [Suppliers -> Owings]
  /\ account \in [stock : Int, gst : Int, gap : Int, paid : Int]
  /\ errand \in [Clerks -> Errands]

PurchasesInit ==
  /\ order = [o \in Orders |-> NoOrder]
  /\ inward = [i \in Inwards |-> NoInward]
  /\ lot = [i \in Inwards |-> NoLot]
  /\ bill = [b \in Bills |-> NoBill]
  /\ back = [r \in Returns |-> NoReturn]
  /\ settled = [k \in Settlements |-> NoSettlement]
  /\ owing = [s \in Suppliers |-> [rupees |-> 0, metal |-> 0, fine |-> 0, fineIn |-> 0, valueIn |-> 0]]
  /\ account = [stock |-> 0, gst |-> 0, gap |-> 0, paid |-> 0]
  /\ errand = [c \in Clerks |-> Free]

OneStep(c) == c \in bound.clerks /\ errand[c].pc = "idle"

HasInward(i) == \E c \in Clerks : errand[c].pc \in {"cancel", "return"} /\ errand[c].doc = i

Posted(i) == inward[i].status = "posted"

Finish(c) == errand' = [errand EXCEPT ![c] = Free]

-------------------------------------------------------------------------------
\* Ledger.  A voucher is what it adds to 1200, 1300, 4200 and the money accounts
\* (debit) and to what the supplier is owed (credit).

Balanced(v) == v.stock + v.gst + v.gap + v.paid = v.rupees + v.metal

Voucher(stock_, gst, gap, paid, rupees, metal) ==
  [stock |-> stock_, gst |-> gst, gap |-> gap, paid |-> paid, rupees |-> rupees, metal |-> metal]

\* Reversing one writes its mirror image.
Mirror(v) == Voucher(-v.stock, -v.gst, -v.gap, -v.paid, -v.rupees, -v.metal)

\* A voucher that does not balance is refused.
postVoucher(s, v, fineIn, fineOut, value) ==
  /\ Balanced(v)
  /\ account' = [stock |-> account.stock + v.stock, gst |-> account.gst + v.gst,
                 gap |-> account.gap + v.gap, paid |-> account.paid + v.paid]
  /\ owing' = [owing EXCEPT ![s] =
       [rupees |-> @.rupees + v.rupees, metal |-> @.metal + v.metal, fine |-> @.fine + fineIn - fineOut,
        fineIn |-> @.fineIn + fineIn, valueIn |-> @.valueIn + value]]

\* 2010 is carried at the average over all weight that ever came in.
carriedRate(s) == Rounded(owing[s].valueIn, owing[s].fineIn)

-------------------------------------------------------------------------------
\* Orders.

createOrder(c) ==
  \E s \in bound.suppliers, o \in Unused(order, bound.orders) :
    /\ OneStep(c)
    /\ order' = [order EXCEPT ![o].status = "confirmed", ![o].supplier = s]
    /\ UNCHANGED <<shelfVars, inward, lot, bill, back, settled, owing, account, errand>>

closeOrder(c) ==
  \E o \in Orders, status \in {"closed", "cancelled"} :
    /\ OneStep(c)
    /\ order[o].status = "confirmed"
    /\ status = "cancelled" => ~\E i \in Inwards : Posted(i) /\ inward[i].order = o
    /\ order' = [order EXCEPT ![o].status = status]
    /\ UNCHANGED <<shelfVars, inward, lot, bill, back, settled, owing, account, errand>>

Receipts(rows, o, l) == {i \in Inwards : rows[i].status # "none" /\ rows[i].order = o /\ rows[i].orderLine = l}

Arrived(rows, o, l) ==
  SumFunction([i \in {i \in Receipts(rows, o, l) : rows[i].status = "posted"} |-> rows[i].line.gross])

\* Receipts counted whatever became of them.
receivedOn_All(rows, o, l) == SumFunction([i \in Receipts(rows, o, l) |-> rows[i].line.gross])

\* A line whose receipts are all cancelled drops out of the join and keeps what it says.
receivedOn(rows, o, l) ==
  IF Receipts(rows, o, l) # {} /\ \A i \in Receipts(rows, o, l) : rows[i].status = "cancelled"
    THEN order[o].received[l] ELSE Arrived(rows, o, l)

\* rollUpOrder: received quantities; the order is closed when everything has arrived.
rollUpOrder(rows, o) ==
  LET received == [l \in OrderLines |-> receivedOn(rows, o, l)] IN
  order' = IF o = 0 THEN order ELSE
    [order EXCEPT ![o].received = received,
                  ![o].status = IF @ \notin {"confirmed", "closed"} THEN @
                    ELSE IF \A l \in OrderLines : received[l] >= OrderWeight[l] THEN "closed" ELSE "confirmed"]

-------------------------------------------------------------------------------
\* Goods inward.

\* Metal by weight, making on its basis, stones; on fine basis the metal is owed as
\* metal, by touch, and only the rest in rupees.
priceInward(g) ==
  LET net == g.gross - g.stone
      metal == net * g.rate
      making == IF g.makingBasis = "flat" THEN g.making * (IF g.pieces > 1 THEN g.pieces ELSE 1)
                ELSE IF g.makingBasis = "percent" THEN Rounded(metal * g.making, 100) ELSE net * g.making
      cost == metal + making + g.stones
      fine == g.basis = "fine"
  IN [item |-> g.item, pieces |-> IF g.item = "tagged" THEN g.pieces ELSE 0, gross |-> g.gross, net |-> net,
      basis |-> g.basis, metal |-> metal, cost |-> cost, rupees |-> IF fine THEN making + g.stones ELSE cost,
      fine |-> IF fine THEN Rounded(net * g.touch, 100) ELSE 0]

Received(p) == [pieces |-> p.pieces, gross |-> p.gross, net |-> p.net, cost |-> p.cost]

InwardVoucher(p) == Voucher(p.cost, 0, 0, 0, p.rupees, IF p.basis = "fine" THEN p.metal ELSE 0)

gstOn(amount) == Rounded(amount * GstRate, 100)

\* createBill, for inwards that are on none: its own row and theirs.
Billed(b, s, set, rows, gst) ==
  /\ bill' = [bill EXCEPT ![b] = [status |-> "posted", supplier |-> s, gst |-> gst,
                                  taxable |-> SumFunction([i \in set |-> rows[i].line.cost])]]
  /\ inward' = [i \in Inwards |-> IF i \in set THEN [rows[i] EXCEPT !.bill = b] ELSE rows[i]]

\* A direct purchase has its bill from the start, other goods may have.  GST is what
\* the rate says, or none (a supplier without a GSTIN).
createInward(c) ==
  \E s \in bound.suppliers, l \in bound.places, g \in bound.goods, direct, billed, gstin \in BOOLEAN :
  \E o \in {0} \cup {o \in Orders : order[o].status = "confirmed" /\ order[o].supplier = s},
     ol \in OrderLines \cup {None} :
    LET p == priceInward(g)
        gst == IF billed /\ gstin THEN gstOn(p.cost) ELSE 0
        v == InwardVoucher(p)
    IN
    /\ OneStep(c)
    /\ direct => billed
    /\ ol # None => o # 0
    /\ \E i \in Unused(inward, bound.inwards) :
         LET rows == [inward EXCEPT ![i] = [status |-> "posted", supplier |-> s, place |-> l, line |-> p,
                        direct |-> direct, bill |-> 0, order |-> o, orderLine |-> ol]]
         IN
         /\ lot' = [lot EXCEPT ![i] = IF p.item = "tagged"
                      THEN [NoLot EXCEPT !.status = "open", !.expected = Received(p)] ELSE NoLot]
         /\ rollUpOrder(rows, o)
         /\ \/ ~billed /\ inward' = rows /\ bill' = bill
            \/ billed /\ \E b \in Unused(bill, bound.bills) : Billed(b, s, {i}, rows, gst)
    /\ recordMovements(At(p.item, l, Received(p)), At(p.item, l, Nothing), FALSE)
    /\ postVoucher(s, [v EXCEPT !.gst = gst, !.rupees = @ + gst], p.fine, 0, v.metal)
    /\ UNCHANGED <<bound, piece, back, settled, errand>>

ReturnsOf(i) == {r \in Returns : back[r].status = "posted" /\ back[r].inward = i}

\* Billed or not.
Cancellable_Billed(i) == Posted(i) /\ lot[i].tagged.pieces = 0 /\ ReturnsOf(i) = {}

Cancellable(i) ==
  /\ Posted(i)
  /\ inward[i].bill # 0 => inward[i].direct
  /\ lot[i].tagged.pieces = 0 /\ ReturnsOf(i) = {}

\* The inward is locked; whether anything of it is tagged is only looked at.
BeginCancelInward(c, i) ==
  /\ OneStep(c) /\ ~HasInward(i)
  /\ Cancellable(i)
  /\ errand' = [errand EXCEPT ![c] = [Free EXCEPT !.pc = "cancel", !.doc = i]]
  /\ UNCHANGED <<shelfVars, order, inward, lot, bill, back, settled, owing, account>>

\* What a posted bill is worth to the ledger.
BillVoucher(b) == Voucher(0, bill[b].gst, 0, 0, bill[b].gst, 0)

\* Reverses goods ("refuses when the goods were already sold or moved") and voucher,
\* closes the lot, and takes a direct purchase's bill with it.
cancelInward(c) ==
  LET i == errand[c].doc
      w == inward[i]
      v == Mirror(InwardVoucher(w.line))
      withBill == w.direct /\ w.bill # 0
      gst == IF withBill THEN bill[w.bill].gst ELSE 0
      rows == [inward EXCEPT ![i].status = "cancelled"]
  IN
  /\ errand[c].pc = "cancel"
  /\ recordMovements(At(w.line.item, w.place, Nothing), At(w.line.item, w.place, Received(w.line)), FALSE)
  /\ postVoucher(w.supplier, [v EXCEPT !.gst = -gst, !.rupees = @ - gst], 0, w.line.fine, 0)
  /\ lot' = [lot EXCEPT ![i].status = IF @ = "none" THEN "none" ELSE "closed"]
  /\ inward' = rows
  /\ bill' = IF withBill THEN [bill EXCEPT ![w.bill].status = "cancelled"] ELSE bill
  /\ rollUpOrder(rows, w.order)
  /\ Finish(c)
  /\ UNCHANGED <<bound, piece, back, settled>>

-------------------------------------------------------------------------------
\* Bills.

createBill(c) ==
  \E s \in bound.suppliers, set \in (SUBSET Inwards) \ {{}}, gstin \in BOOLEAN :
  \E b \in Unused(bill, bound.bills) :
    LET gst == IF gstin THEN Rounded(SumFunction([i \in set |-> inward[i].line.cost * GstRate]), 100) ELSE 0 IN
    /\ OneStep(c)
    /\ \A i \in set : Posted(i) /\ ~HasInward(i) /\ inward[i].supplier = s /\ inward[i].bill = 0
    /\ Billed(b, s, set, inward, gst)
    /\ postVoucher(s, Voucher(0, gst, 0, 0, gst, 0), 0, 0, 0)
    /\ UNCHANGED <<shelfVars, order, lot, back, settled, errand>>

DirectOn(b) == {i \in Inwards : Posted(i) /\ inward[i].direct /\ inward[i].bill = b}

\* Not while a direct purchase stands on it.  Its whole GST is reversed; posted inwards
\* wait for a bill again.
cancelBill(c, b) ==
  /\ OneStep(c)
  /\ bill[b].status = "posted"
  /\ DirectOn(b) = {}
  /\ \A i \in Inwards : Posted(i) /\ inward[i].bill = b => ~HasInward(i)
  /\ bill' = [bill EXCEPT ![b].status = "cancelled"]
  /\ inward' = [i \in Inwards |-> IF Posted(i) /\ inward[i].bill = b THEN [inward[i] EXCEPT !.bill = 0]
                                  ELSE inward[i]]
  /\ postVoucher(bill[b].supplier, Mirror(BillVoucher(b)), 0, 0, 0)
  /\ UNCHANGED <<shelfVars, order, lot, back, settled, errand>>

-------------------------------------------------------------------------------
\* Tagging.

\* By the whole lot's weight instead of what is left of it.
pieceCost_OfWhole(i, gross) == Rounded(lot[i].expected.cost * gross, lot[i].expected.gross)

\* By weight, of the cost still untagged; the last piece takes what is left.
pieceCost(i, gross) ==
  LET left == Minus(lot[i].expected, lot[i].tagged) IN
  IF left.pieces = 1 THEN left.cost ELSE Rounded(left.cost * gross, left.gross)

\* The lot is read without a lock: open, pieces left to tag, and that much weight left.
BeginTag(c, i) ==
  \E w \in Tags :
    LET left == Minus(lot[i].expected, lot[i].tagged) IN
    /\ OneStep(c)
    /\ lot[i].status = "open"
    /\ left.pieces > 0 /\ w.gross <= left.gross
    /\ \E p \in Pieces : piece[p].status = "none"
    /\ errand' = [errand EXCEPT ![c] = [Free EXCEPT !.pc = "tag", !.doc = i,
         !.measure = [pieces |-> 1, gross |-> w.gross, net |-> w.net, cost |-> pieceCost(i, w.gross)]]]
    /\ UNCHANGED <<shelfVars, order, inward, lot, bill, back, settled, owing, account>>

\* The piece leaves the lot and comes in as itself; the lot closes when nothing is over
\* or short.
tagPieces(c) ==
  LET i == errand[c].doc
      m == errand[c].measure
      l == inward[i].place
      tagged == Plus(lot[i].tagged, m)
  IN
  /\ errand[c].pc = "tag"
  /\ \E p \in Pieces :
       /\ piece[p].status = "none"
       /\ piece' = [piece EXCEPT ![p] = [NoPiece EXCEPT !.status = "in_stock", !.place = l, !.lot = i,
                                           !.gross = m.gross, !.net = m.net, !.cost = m.cost]]
  /\ recordMovements(At("tagged", l, m), At("tagged", l, m), FALSE)
  /\ lot' = [lot EXCEPT ![i].tagged = tagged,
                        ![i].status = IF tagged = lot[i].expected THEN "closed" ELSE @]
  /\ Finish(c)
  /\ UNCHANGED <<bound, order, inward, bill, back, settled, owing, account>>

\* Only missing pieces count as a difference.
leftOver_Pieces(left) == left.pieces > 0

leftOver(left) == left.pieces > 0 \/ left.gross > 0 \/ left.net > 0

\* "Anything not tagged leaves stock on one tagging-difference adjustment."
closeLot(c, i) ==
  LET left == Minus(lot[i].expected, lot[i].tagged)
      gone == IF leftOver(left) THEN left ELSE Nothing
  IN
  /\ OneStep(c)
  /\ lot[i].status = "open"
  /\ recordMovements(At("tagged", inward[i].place, Nothing), At("tagged", inward[i].place, gone), FALSE)
  /\ lot' = [lot EXCEPT ![i].status = "closed", ![i].difference = gone]
  /\ UNCHANGED <<bound, piece, order, inward, bill, back, settled, owing, account, errand>>

-------------------------------------------------------------------------------
\* Returns to the supplier: on the terms bought, in proportion to net weight.

Terms(i, m) ==
  LET p == inward[i].line
      share(amount) == Rounded(amount * m.net, p.net)
      metal == IF p.basis = "fine" THEN share(p.metal) ELSE 0
  IN [metal |-> metal, rupees |-> share(p.cost) - metal, fine |-> share(p.fine)]

\* createReturn's own row, voucher and movement.  GST comes off whenever there is a bill,
\* and the gap to what the goods cost is gain or loss.
Returned(i, l, m) ==
  LET t == Terms(i, m)
      gst == IF inward[i].bill # 0 THEN gstOn(t.rupees + t.metal) ELSE 0
  IN
  /\ \E r \in Unused(back, bound.returns) :
       back' = [back EXCEPT ![r] = [status |-> "posted", inward |-> i, stock |-> m, rupees |-> t.rupees,
                                    metal |-> t.metal, fine |-> t.fine, gst |-> gst]]
  /\ recordMovements(At(inward[i].line.item, l, Nothing), At(inward[i].line.item, l, m), FALSE)
  /\ postVoucher(inward[i].supplier,
       Voucher(-m.cost, -gst, m.cost - t.rupees - t.metal, 0, -(t.rupees + gst), -t.metal), 0, t.fine, 0)

\* A tagged piece that came on this inward, from wherever it is in stock.
returnTagged(c, p) ==
  LET i == piece[p].lot IN
  /\ OneStep(c)
  /\ InStock(p) /\ i # 0
  /\ Posted(i) /\ ~HasInward(i)
  /\ Returned(i, piece[p].place, Weighed(p))
  /\ piece' = [piece EXCEPT ![p].status = "written_off"]
  /\ UNCHANGED <<bound, order, inward, lot, bill, settled, errand>>

\* Part of a lot item; earlier returns of the line are not counted.
returnMetal(c, i) ==
  \E part \in Parts :
    /\ OneStep(c)
    /\ Posted(i) /\ ~HasInward(i)
    /\ inward[i].line.item = "metal"
    /\ part.gross > 0 /\ part.gross <= inward[i].line.net
    /\ Returned(i, inward[i].place,
         [pieces |-> 0, gross |-> Rounded(inward[i].line.gross * part.gross, inward[i].line.net),
          net |-> part.gross, cost |-> Rounded(inward[i].line.cost * part.gross, inward[i].line.net)])
    /\ UNCHANGED <<bound, piece, order, inward, lot, bill, settled, errand>>

\* Untagged pieces and their weight, measured against the lot as read without a lock.
BeginReturnUntagged(c, i) ==
  \E part \in Parts :
    LET left == Minus(lot[i].expected, lot[i].tagged)
        share(amount) == Rounded(amount * part.gross, left.gross)
    IN
    /\ OneStep(c) /\ ~HasInward(i)
    /\ Posted(i)
    /\ lot[i].status = "open"
    /\ part.pieces > 0 /\ part.pieces <= left.pieces
    /\ part.gross > 0 /\ part.gross <= left.gross
    /\ errand' = [errand EXCEPT ![c] = [Free EXCEPT !.pc = "return", !.doc = i,
         !.measure = [pieces |-> part.pieces, gross |-> part.gross, net |-> share(left.net), cost |-> share(left.cost)]]]
    /\ UNCHANGED <<shelfVars, order, inward, lot, bill, back, settled, owing, account>>

\* The lot expects that much less, and closes when no piece is left to tag.
returnUntagged(c) ==
  LET i == errand[c].doc
      m == errand[c].measure
      expected == Minus(lot[i].expected, m)
  IN
  /\ errand[c].pc = "return"
  /\ Returned(i, inward[i].place, m)
  /\ lot' = [lot EXCEPT ![i].expected = expected,
                        ![i].status = IF expected.pieces = lot[i].tagged.pieces THEN "closed" ELSE @]
  /\ Finish(c)
  /\ UNCHANGED <<bound, piece, order, inward, bill, settled>>

-------------------------------------------------------------------------------
\* Settlements.

\* Money paid, of any amount.
paySupplier(c) ==
  \E s \in bound.suppliers, amount \in Amounts, k \in Unused(settled, bound.settlements) :
    /\ OneStep(c)
    /\ settled' = [settled EXCEPT ![k] = [NoSettlement EXCEPT !.status = "posted", !.supplier = s, !.amount = amount]]
    /\ postVoucher(s, Voucher(0, 0, 0, -amount, -amount, 0), 0, 0, 0)
    /\ UNCHANGED <<shelfVars, order, inward, lot, bill, back, errand>>

\* Metal given, or a rate fixed for it: no more than is owed, by the balance read now.
BeginSettleMetal(c) ==
  \E s \in bound.suppliers, l \in bound.places, part \in Parts, kind \in {"metal", "rate_fix"} :
    /\ OneStep(c)
    /\ Unused(settled, bound.settlements) # {}
    /\ part.gross > 0 /\ part.gross <= owing[s].fine
    /\ errand' = [errand EXCEPT ![c] = [Free EXCEPT !.pc = "settle", !.kind = kind, !.supplier = s,
         !.place = l, !.measure = [Nothing EXCEPT !.gross = part.gross, !.net = part.gross],
         !.carried = part.gross * carriedRate(s)]]
    /\ UNCHANGED <<shelfVars, order, inward, lot, bill, back, settled, owing, account>>

\* The agreed rupees are forgotten, all that was carried is gain.
SettlementVoucher_NoRupees(k) ==
  IF k.kind = "payment" THEN Voucher(0, 0, 0, -k.amount, -k.amount, 0)
  ELSE IF k.kind = "metal" THEN Voucher(-k.amount, 0, k.amount - k.carried, 0, 0, -k.carried)
  ELSE Voucher(0, 0, -k.carried, 0, 0, -k.carried)

SettlementVoucher(k) ==
  IF k.kind = "payment" THEN Voucher(0, 0, 0, -k.amount, -k.amount, 0)
  ELSE IF k.kind = "metal" THEN Voucher(-k.amount, 0, k.amount - k.carried, 0, 0, -k.carried)
  ELSE Voucher(0, 0, k.amount - k.carried, 0, k.amount, -k.carried)

\* What is carried on 2010 goes; metal leaves stock at its average cost, or rupees are
\* owed instead; the gap is gain or loss.
createSettlement(c) ==
  LET e == errand[c]
      out == IF e.kind = "metal" THEN lotMovement(e.place, e.measure.net) ELSE Nothing
      row == [status |-> "posted", supplier |-> e.supplier, kind |-> e.kind, place |-> e.place, fine |-> e.measure.net,
              carried |-> e.carried, amount |-> IF e.kind = "metal" THEN out.cost ELSE e.measure.net * FixRate]
  IN
  /\ e.pc = "settle"
  /\ \E k \in Unused(settled, bound.settlements) : settled' = [settled EXCEPT ![k] = row]
  /\ recordMovements(At("metal", e.place, Nothing), At("metal", e.place, out), FALSE)
  /\ postVoucher(e.supplier, SettlementVoucher(row), 0, e.measure.net, 0)
  /\ Finish(c)
  /\ UNCHANGED <<bound, piece, order, inward, lot, bill, back>>

\* Reversed, goods and voucher.  The metal's mirror row comes in without a rate.
cancelSettlement(c, k) ==
  LET row == settled[k]
      returned == IF row.kind = "metal"
        THEN [pieces |-> 0, gross |-> row.fine, net |-> row.fine, cost |-> row.amount] ELSE Nothing
  IN
  /\ OneStep(c)
  /\ row.status = "posted"
  /\ settled' = [settled EXCEPT ![k].status = "cancelled"]
  /\ stock' = IF returned = Nothing THEN stock
              ELSE [stock EXCEPT ![<<"metal", row.place>>] = Plus(@, returned)]
  /\ postVoucher(row.supplier, Mirror(SettlementVoucher(row)), row.fine, 0, 0)
  /\ UNCHANGED <<bound, piece, order, inward, lot, bill, back, errand>>

\* A request that fails leaves nothing.
GiveUp(c) ==
  /\ errand[c].pc # "idle"
  /\ Finish(c)
  /\ UNCHANGED <<shelfVars, order, inward, lot, bill, back, settled, owing, account>>
===============================================================================

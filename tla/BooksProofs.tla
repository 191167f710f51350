------------------------------ MODULE BooksProofs ------------------------------
(***************************************************************************)
(* That what an inward cost is shared among what was made of it, and that  *)
(* the balances are the goods, for any number of pieces, places, clerks,   *)
(* sessions and documents.  A balance is told twice: by the pieces a place *)
(* answers for and what of each lot waits there (RowsTold).  Every step    *)
(* moves pieces, lots and the balance together; what it has to know of the *)
(* rest is in the other parts of BooksInv.                                 *)
(***************************************************************************)
EXTENDS GoodsProofs

-------------------------------------------------------------------------------
\* What an inward cost.

OfLot(rows, i) == {p \in Pieces : rows[p].lot = i}

CostOf(rows, i) == SumFunctionOnSet([p \in Pieces |-> rows[p].cost], OfLot(rows, i))

WentBack(rows, gone) == SumFunctionOnSet([r \in Returns |-> rows[r].stock.cost], gone)

Left(i) == Minus(lot[i].expected, lot[i].tagged)

\* Of a lot: its pieces, what went back untagged, and the rest.
Shared(i) ==
  /\ Left(i).cost >= 0 /\ Left(i).pieces >= 0
  /\ Cardinality(OfLot(piece, i)) = lot[i].tagged.pieces
  /\ \E gone \in SUBSET Returns :
       /\ \A r \in gone : back[r].status = "posted" /\ back[r].inward = i /\ back[r].stock.pieces > 0
       /\ Left(i).pieces = 0 /\ gone = {} => Left(i).cost = 0
       /\ (CostOf(piece, i) + WentBack(back, gone)) + Left(i).cost = inward[i].line.cost

\* What one clerk is about to take is there.
Measured(c) ==
  LET m == errand[c].measure
      left == Left(errand[c].doc)
  IN
  /\ errand[c].pc = "tag" =>
       /\ m.pieces = 1 /\ left.pieces > 0 /\ 0 <= m.cost /\ m.cost <= left.cost
       /\ left.pieces = 1 => m.cost = left.cost
  /\ errand[c].pc = "return" =>
       /\ 0 < m.pieces /\ m.pieces <= left.pieces /\ 0 <= m.cost /\ m.cost <= left.cost

CostInv ==
  /\ Claimed
  /\ \A p \in Pieces : piece[p].status = "none" => piece[p].lot = 0
  /\ Alone => /\ \A i \in Inwards : lot[i].status # "none" => Shared(i)
              /\ \A c \in Clerks : Measured(c)

\* A share of something is no more than all of it.
LEMMA RoundedAtMost ==
  ASSUME NEW a \in Nat, NEW g \in Nat, NEW b \in Nat, g <= b
  PROVE  Rounded(a * g, b) \in Nat /\ Rounded(a * g, b) <= a
<1>1. a * g \in Nat /\ a * b \in Nat /\ a * g <= a * b
  <2>1. a * g \in Nat /\ a * b \in Nat /\ a * (b - g) \in Nat
    BY Products
  <2>2. a * (b - g) = a * b - a * g
    OBVIOUS
  <2> QED
    BY <2>1, <2>2
<1>2. Rounded(a * g, b) \in Nat
  BY <1>1, RoundedTyped
<1>3. CASE b = 0
  BY <1>3 DEF Rounded
<1>4. CASE b > 0
  <2> DEFINE d == 2 * b
             x == 2 * (a * g) + b
             q == x \div d
  <2>1. d \in Nat /\ d > 0 /\ x \in Nat
    BY <1>1, <1>4
  <2>2. Rounded(a * g, b) = q
    BY <1>1, <1>4 DEF Rounded
  <2>3. a * d = 2 * (a * b)
    OBVIOUS
  <2>4. x < a * d + d
    BY <1>1, <1>4, <2>3
  <2> HIDE DEF x, d
  <2>5. q \in Int /\ d * q <= x
    BY <2>1
  <2> HIDE DEF q
  <2>6. ASSUME q > a PROVE FALSE
    <3>1. d * (q - (a + 1)) >= 0
      BY <2>1, <2>5, <2>6
    <3>2. d * (q - (a + 1)) = d * q - (a * d + d)
      BY <2>1, <2>5
    <3>3. d * q \in Int /\ a * d \in Int
      BY <2>1, <2>5, Products
    <3> QED
      BY <2>1, <2>4, <2>5, <3>1, <3>2, <3>3
  <2> QED
    BY <1>2, <2>2, <2>5, <2>6
<1> QED
  BY <1>2, <1>3, <1>4

LEMMA CostTypes ==
  ASSUME GoodsTypeOK
  PROVE  /\ \A p \in Pieces : piece[p].cost \in Int /\ piece[p].lot \in Nat
         /\ \A r \in Returns : back[r].stock.cost \in Int /\ back[r].stock.pieces \in Int
         /\ \A i \in Inwards : lot[i].expected \in Measures /\ lot[i].tagged \in Measures /\ Left(i) \in Measures
         /\ \A i \in Inwards : IsFiniteSet(OfLot(piece, i)) /\ CostOf(piece, i) \in Int
         /\ \A gone \in SUBSET Returns : IsFiniteSet(gone) /\ WentBack(back, gone) \in Int
<1>1. piece \in [Pieces -> PieceRows] /\ back \in [Returns -> ReturnRows] /\ lot \in [Inwards -> LotRows]
  BY DEF GoodsTypeOK, PurchasesTypeOK
<1>2. \A p \in Pieces : piece[p].cost \in Int /\ piece[p].lot \in Nat
  BY <1>1 DEF PieceRows
<1>3. \A r \in Returns : back[r].stock \in Measures
  BY <1>1 DEF ReturnRows
<1>4. \A r \in Returns : back[r].stock.cost \in Int /\ back[r].stock.pieces \in Int
  BY <1>3 DEF Measures
<1>5. \A i \in Inwards : lot[i].expected \in Measures /\ lot[i].tagged \in Measures
  BY <1>1 DEF LotRows
<1>6. \A i \in Inwards : Left(i) \in Measures
  BY <1>5, MeasureFacts DEF Left
<1>7. \A i \in Inwards : IsFiniteSet(OfLot(piece, i)) /\ OfLot(piece, i) \subseteq Pieces
  BY GoodsFinite, FS_Subset DEF OfLot
<1>8. \A gone \in SUBSET Returns : IsFiniteSet(gone)
  BY GoodsFinite, FS_Subset
<1>9. ASSUME NEW i \in Inwards PROVE CostOf(piece, i) \in Int
  <2> DEFINE f == [p \in Pieces |-> piece[p].cost]
             S == OfLot(piece, i)
  <2>1. IsFiniteSet(S) /\ \A p \in S : f[p] \in Int
    BY <1>2, <1>7
  <2>2. CostOf(piece, i) = SumFunctionOnSet(f, S)
    BY DEF CostOf
  <2> HIDE DEF f, S
  <2> QED
    BY <2>1, <2>2, SumInt
<1>10. ASSUME NEW gone \in SUBSET Returns PROVE WentBack(back, gone) \in Int
  <2> DEFINE f == [r \in Returns |-> back[r].stock.cost]
  <2>1. IsFiniteSet(gone) /\ \A r \in gone : f[r] \in Int
    BY <1>4, <1>8
  <2>2. WentBack(back, gone) = SumFunctionOnSet(f, gone)
    BY DEF WentBack
  <2> HIDE DEF f
  <2> QED
    BY <2>1, <2>2, SumInt
<1> QED
  BY <1>2, <1>4, <1>5, <1>6, <1>7, <1>8, <1>9, <1>10

\* The pieces of a lot cost what they cost before, and so does what went back.
LEMMA CostStays ==
  ASSUME GoodsTypeOK, NEW i \in Inwards,
         \A p \in Pieces : piece'[p].lot = i <=> piece[p].lot = i,
         \A p \in Pieces : piece[p].lot = i => piece'[p].cost = piece[p].cost
  PROVE  OfLot(piece', i) = OfLot(piece, i) /\ CostOf(piece', i) = CostOf(piece, i)
<1> DEFINE f == [p \in Pieces |-> piece[p].cost]
           e == [p \in Pieces |-> piece'[p].cost]
           S == OfLot(piece, i)
<1>1. OfLot(piece', i) = S
  BY DEF OfLot
<1>2. IsFiniteSet(S) /\ \A p \in S : p \in Pieces /\ piece[p].lot = i /\ piece[p].cost \in Int
  BY CostTypes DEF OfLot
<1>3. \A p \in S : f[p] \in Int /\ e[p] = f[p]
  BY <1>2
<1>4. CostOf(piece, i) = SumFunctionOnSet(f, S) /\ CostOf(piece', i) = SumFunctionOnSet(e, S)
  BY <1>1 DEF CostOf
<1> HIDE DEF f, e, S
<1>5. SumFunctionOnSet(e, S) = SumFunctionOnSet(f, S)
  BY <1>2, <1>3, SumOfSame
<1> QED
  BY <1>1, <1>4, <1>5 DEF S

LEMMA WentBackStays ==
  ASSUME GoodsTypeOK, NEW gone \in SUBSET Returns, \A r \in gone : back'[r] = back[r]
  PROVE  WentBack(back', gone) = WentBack(back, gone)
<1> DEFINE f == [r \in Returns |-> back[r].stock.cost]
           e == [r \in Returns |-> back'[r].stock.cost]
<1>1. IsFiniteSet(gone) /\ \A r \in gone : f[r] \in Int /\ e[r] = f[r]
  BY CostTypes
<1>2. WentBack(back, gone) = SumFunctionOnSet(f, gone) /\ WentBack(back', gone) = SumFunctionOnSet(e, gone)
  BY DEF WentBack
<1> HIDE DEF f, e
<1> QED
  BY <1>1, <1>2, SumOfSame

LEMMA SharedStays ==
  ASSUME GoodsTypeOK, NEW i \in Inwards, Shared(i),
         lot'[i].expected = lot[i].expected, lot'[i].tagged = lot[i].tagged, inward'[i].line = inward[i].line,
         \A p \in Pieces : piece'[p].lot = i <=> piece[p].lot = i,
         \A p \in Pieces : piece[p].lot = i => piece'[p].cost = piece[p].cost,
         \A r \in Returns : back[r].status = "posted" => back'[r] = back[r]
  PROVE  Shared(i)'
<1>1. OfLot(piece', i) = OfLot(piece, i) /\ CostOf(piece', i) = CostOf(piece, i)
  BY CostStays
<1>2. Left(i)' = Left(i)
  BY DEF Left
<1>3. PICK gone \in SUBSET Returns :
       /\ \A r \in gone : back[r].status = "posted" /\ back[r].inward = i /\ back[r].stock.pieces > 0
       /\ Left(i).pieces = 0 /\ gone = {} => Left(i).cost = 0
       /\ (CostOf(piece, i) + WentBack(back, gone)) + Left(i).cost = inward[i].line.cost
  BY DEF Shared
<1>4. \A r \in gone : back'[r] = back[r]
  BY <1>3
<1>5. WentBack(back', gone) = WentBack(back, gone)
  BY <1>4, WentBackStays
<1>6. \A r \in gone : back'[r].status = "posted" /\ back'[r].inward = i /\ back'[r].stock.pieces > 0
  BY <1>3, <1>4
<1>7. \E set \in SUBSET Returns :
       /\ \A r \in set : back'[r].status = "posted" /\ back'[r].inward = i /\ back'[r].stock.pieces > 0
       /\ Left(i)'.pieces = 0 /\ set = {} => Left(i)'.cost = 0
       /\ (CostOf(piece', i) + WentBack(back', set)) + Left(i)'.cost = inward'[i].line.cost
  <2>1. /\ Left(i)'.pieces = 0 /\ gone = {} => Left(i)'.cost = 0
        /\ (CostOf(piece', i) + WentBack(back', gone)) + Left(i)'.cost = inward'[i].line.cost
    BY <1>1, <1>2, <1>3, <1>5
  <2> QED
    BY <1>6, <2>1
<1>8. /\ Left(i)'.cost >= 0 /\ Left(i)'.pieces >= 0
      /\ Cardinality(OfLot(piece', i)) = lot'[i].tagged.pieces
  BY <1>1, <1>2 DEF Shared
<1> QED
  BY <1>7, <1>8 DEF Shared

\* The floor moves pieces, and neither what they cost nor the lot they are of.
LEMMA FloorCosts ==
  ASSUME GoodsInv, NEW s \in Sessions, SessionStep(s)
  PROVE  \A p \in Pieces : /\ piece'[p].lot = piece[p].lot /\ piece'[p].cost = piece[p].cost
                           /\ piece'[p].status = "none" => piece[p].status = "none"
<1>0. piece \in [Pieces -> PieceRows]
  BY DEF GoodsInv, GoodsTypeOK
<1>1. CASE dispatchTransfer(s)
  <2>1. PICK from, to \in Counters, set \in SUBSET Pieces, m \in Measures, t \in Transfers :
           /\ \A p \in set : InStock(p) /\ piece[p].place = from
           /\ m.net >= 0 /\ transfer[t].status = "none"
           /\ transfer' = [transfer EXCEPT ![t] =
                [status |-> IF BranchOf[from] = BranchOf[to] THEN "received" ELSE "in_transit",
                 from |-> from, to |-> to, pieces |-> set, metal |-> m]]
           /\ piece' = [p \in Pieces |-> IF p \in set
                THEN [piece[p] EXCEPT !.place = landing(from, to),
                                      !.status = IF BranchOf[from] = BranchOf[to] THEN "in_stock" ELSE "in_transit"]
                ELSE piece[p]]
           /\ stock' \in [Rows -> Measures] /\ MetalTold'
           /\ \A x \in Places : stock'[<<"metal", x>>] =
                Minus(Plus(stock[<<"metal", x>>], IF x = landing(from, to) THEN m ELSE Nothing),
                      IF x = from THEN m ELSE Nothing)
           /\ UNCHANGED <<bound, count, asked>>
    BY <1>1, dispatchTransferFacts
  <2> DEFINE l == landing(from, to)
             status == IF BranchOf[from] = BranchOf[to] THEN "in_stock" ELSE "in_transit"
  <2>2. piece' = [p \in Pieces |-> IF p \in set THEN [piece[p] EXCEPT !.place = l, !.status = status] ELSE piece[p]]
    BY <2>1
  <2>3. status # "none"
    OBVIOUS
  <2> HIDE DEF l, status
  <2> QED
    BY <1>0, <2>2, <2>3 DEF PieceRows
<1>2. ASSUME NEW t \in Transfers, land(s, t)
      PROVE  \A p \in Pieces : /\ piece'[p].lot = piece[p].lot /\ piece'[p].cost = piece[p].cost
                               /\ piece'[p].status = "none" => piece[p].status = "none"
  <2>1. PICK target \in Counters :
          piece' = [p \in Pieces |-> IF p \in transfer[t].pieces
                      THEN [piece[p] EXCEPT !.place = target, !.status = "in_stock"] ELSE piece[p]]
    BY <1>2, landFacts
  <2> QED
    BY <1>0, <2>1 DEF PieceRows
<1>3. CASE adjustStock(s)
  <2>1. PICK set \in SUBSET Pieces :
          piece' = [p \in Pieces |-> IF p \in set THEN [piece[p] EXCEPT !.status = "written_off"] ELSE piece[p]]
    BY <1>3, adjustStockFacts
  <2> QED
    BY <1>0, <2>1 DEF PieceRows
<1>4. ASSUME NEW q \in Pieces, correctPieceWeights(s, q) \/ sellPiece(s, q) \/ undoSale(s, q)
      PROVE  \A p \in Pieces : /\ piece'[p].lot = piece[p].lot /\ piece'[p].cost = piece[p].cost
                               /\ piece'[p].status = "none" => piece[p].status = "none"
  <2>1. /\ \A p \in Pieces \ {q} : piece'[p] = piece[p]
        /\ piece'[q].lot = piece[q].lot /\ piece'[q].cost = piece[q].cost
        /\ \/ InStock(q) /\ piece'[q].status = piece[q].status /\ piece'[q].soldAt = piece[q].soldAt
           \/ InStock(q) /\ piece'[q].status = "sold"
           \/ piece[q].soldAt # None /\ piece'[q].soldAt = None /\ piece'[q].status = "in_stock"
    BY <1>4, OnePieceFacts
  <2> QED
    BY <2>1
<1>5. CASE postCount(s)
  <2> DEFINE q == asked[s]
             here == count[q.count].place
  <2>1. \A p \in Pieces :
              \/ piece'[p] = piece[p]
              \/ piece'[p] = [piece[p] EXCEPT !.place = here]
              \/ p \in q.missing /\ piece'[p] = [piece[p] EXCEPT !.status = "written_off"]
    BY <1>5, postCountFacts
  <2> HIDE DEF q, here
  <2>2. ASSUME NEW p \in Pieces
        PROVE  /\ piece'[p].lot = piece[p].lot /\ piece'[p].cost = piece[p].cost
               /\ piece'[p].status = "none" => piece[p].status = "none"
    <3>1. piece[p] \in PieceRows
      BY <1>0
    <3>2. /\ [piece[p] EXCEPT !.place = here].lot = piece[p].lot /\ [piece[p] EXCEPT !.place = here].cost = piece[p].cost
          /\ [piece[p] EXCEPT !.place = here].status = piece[p].status
      BY <3>1 DEF PieceRows
    <3>3. /\ [piece[p] EXCEPT !.status = "written_off"].lot = piece[p].lot
          /\ [piece[p] EXCEPT !.status = "written_off"].cost = piece[p].cost
          /\ [piece[p] EXCEPT !.status = "written_off"].status # "none"
      BY <3>1 DEF PieceRows
    <3> QED
      BY <2>1, <3>2, <3>3
  <2> QED
    BY <2>2
<1>6. CASE BeginStartCount(s) \/ startCount(s) \/ Abandon(s)
  BY <1>6 DEF BeginStartCount, startCount, Abandon, shelfVars
<1>7. ASSUME NEW c \in Counts, \/ scanTags(s, c) \/ weighLot(s, c) \/ removeCountLine(s, c) \/ cancelCount(s, c)
                               \/ BeginPostCount(s, c)
      PROVE  piece' = piece
  BY <1>7 DEF scanTags, weighLot, removeCountLine, cancelCount, BeginPostCount, shelfVars
<1> QED
  BY <1>1, <1>2, <1>3, <1>4, <1>5, <1>6, <1>7 DEF SessionStep

\* One more piece of a lot, and what it cost.
LEMMA tagPiecesShares ==
  ASSUME GoodsInv, NEW c \in Clerks, tagPieces(c), Measured(c), NEW i, i = errand[c].doc,
         \A p \in Pieces : piece[p].status = "none" => piece[p].lot = 0
  PROVE  /\ \A p \in Pieces : piece'[p].status = "none" => piece'[p].lot = 0
         /\ \A j \in Inwards : Shared(j) => Shared(j)'
<1>0. /\ inward \in [Inwards -> InwardRows \cup {NoInward}] /\ lot \in [Inwards -> LotRows] /\ piece \in [Pieces -> PieceRows]
      /\ errand \in [Clerks -> Errands] /\ GoodsTypeOK
  BY DEF GoodsInv, GoodsTypeOK, PurchasesTypeOK
<1> DEFINE m == errand[c].measure
           l == inward[i].place
           tagged == Plus(lot[i].tagged, m)
           status == IF tagged = lot[i].expected THEN "closed" ELSE lot[i].status
           row == [NoPiece EXCEPT !.status = "in_stock", !.place = l, !.lot = i,
                     !.gross = m.gross, !.net = m.net, !.cost = m.cost]
<1>1. PICK p \in Pieces : piece[p].status = "none" /\ piece' = [piece EXCEPT ![p] = row]
  BY DEF tagPieces
<1>2. /\ errand[c].pc = "tag"
      /\ lot' = [lot EXCEPT ![i].tagged = tagged, ![i].status = status]
      /\ UNCHANGED <<inward, back>>
  BY DEF tagPieces
<1>3. i \in Inwards /\ lot[i].status # "none"
  BY <1>2 DEF GoodsInv, ErrandsTold, ErrandTold
<1>4. m \in Measures /\ lot[i].tagged \in Measures /\ lot[i].expected \in Measures
  BY <1>0, <1>3 DEF Errands, LotRows
<1>5. /\ m.pieces = 1 /\ Left(i).pieces > 0 /\ 0 <= m.cost /\ m.cost <= Left(i).cost
      /\ Left(i).pieces = 1 => m.cost = Left(i).cost
  BY <1>2 DEF Measured
<1>6. i \in Nat /\ i # 0
  BY <1>3, GoodsFinite
<1>7. row.status = "in_stock" /\ row.lot = i /\ row.cost = m.cost
  BY DEF NoPiece
<1>8. tagged \in Measures /\ tagged.pieces = lot[i].tagged.pieces + m.pieces /\ tagged.cost = lot[i].tagged.cost + m.cost
  <2>1. tagged \in Measures
    BY <1>4, MeasureFacts
  <2> QED
    BY <2>1 DEF Plus
<1> HIDE DEF row, tagged, status, m, l
<1>9. piece'[p] = row /\ \A q \in Pieces \ {p} : piece'[q] = piece[q]
  BY <1>0, <1>1
<1>10. piece[p].lot = 0
  BY <1>1
<1>11. lot'[i].expected = lot[i].expected /\ lot'[i].tagged = tagged /\ \A j \in Inwards \ {i} : lot'[j] = lot[j]
  BY <1>0, <1>2, <1>3 DEF LotRows
<1>12. ASSUME NEW j \in Inwards \ {i}, Shared(j) PROVE Shared(j)'
  <2>1. j # 0 /\ j # i
    BY GoodsFinite
  <2>2. /\ \A q \in Pieces : piece'[q].lot = j <=> piece[q].lot = j
        /\ \A q \in Pieces : piece[q].lot = j => piece'[q].cost = piece[q].cost
    BY <1>7, <1>9, <1>10, <2>1
  <2>3. lot'[j].expected = lot[j].expected /\ lot'[j].tagged = lot[j].tagged /\ inward'[j].line = inward[j].line
    BY <1>2, <1>11
  <2>4. \A r \in Returns : back[r].status = "posted" => back'[r] = back[r]
    BY <1>2
  <2> QED
    BY <1>0, <1>12, <2>2, <2>3, <2>4, SharedStays
<1>13. ASSUME Shared(i) PROVE Shared(i)'
  <2> DEFINE f == [q \in Pieces |-> piece[q].cost]
             e == [q \in Pieces |-> piece'[q].cost]
             S == OfLot(piece, i)
             T == OfLot(piece', i)
  <2>1. /\ \A q \in Pieces : piece[q].cost \in Int
        /\ IsFiniteSet(S) /\ S \subseteq Pieces /\ p \notin S /\ CostOf(piece, i) \in Int
        /\ lot[i].expected \in Measures /\ lot[i].tagged \in Measures /\ Left(i) \in Measures
        /\ \A gone \in SUBSET Returns : WentBack(back, gone) \in Int
    BY <1>0, <1>3, <1>6, <1>10, CostTypes DEF OfLot
  <2>2. T = S \cup {p}
    BY <1>7, <1>9 DEF OfLot
  <2>3. \A q \in S \cup {p} : e[q] \in Int
    BY <1>4, <1>7, <1>9, <2>1 DEF Measures
  <2>4. \A q \in S : f[q] \in Int /\ e[q] = f[q]
    BY <1>9, <2>1
  <2>5. e[p] = m.cost
    BY <1>7, <1>9
  <2>6. CostOf(piece, i) = SumFunctionOnSet(f, S) /\ CostOf(piece', i) = SumFunctionOnSet(e, T)
    BY DEF CostOf
  <2> HIDE DEF f, e, S, T
  <2>7. SumFunctionOnSet(e, S \cup {p}) = SumFunctionOnSet(e, S) + e[p]
    BY <2>1, <2>3, SumAdds
  <2>8. SumFunctionOnSet(e, S) = SumFunctionOnSet(f, S)
    BY <2>1, <2>4, SumOfSame
  <2>9. CostOf(piece', i) = CostOf(piece, i) + m.cost
    BY <2>2, <2>5, <2>6, <2>7, <2>8
  <2>10. Cardinality(T) = Cardinality(S) + 1
    BY <2>1, <2>2, FS_AddElement
  <2>11. Left(i)'.cost = Left(i).cost - m.cost /\ Left(i)'.pieces = Left(i).pieces - 1
    <3>1. /\ Left(i).cost = lot[i].expected.cost - lot[i].tagged.cost
          /\ Left(i).pieces = lot[i].expected.pieces - lot[i].tagged.pieces
      BY DEF Left, Minus
    <3>2. /\ Left(i)'.cost = lot[i].expected.cost - tagged.cost
          /\ Left(i)'.pieces = lot[i].expected.pieces - tagged.pieces
      BY <1>11 DEF Left, Minus
    <3> QED
      BY <1>4, <1>5, <1>8, <3>1, <3>2 DEF Measures
  <2>12. PICK gone \in SUBSET Returns :
       /\ \A r \in gone : back[r].status = "posted" /\ back[r].inward = i /\ back[r].stock.pieces > 0
       /\ Left(i).pieces = 0 /\ gone = {} => Left(i).cost = 0
       /\ (CostOf(piece, i) + WentBack(back, gone)) + Left(i).cost = inward[i].line.cost
    BY <1>13 DEF Shared
  <2>13. m.cost \in Int /\ Left(i).cost \in Int /\ Left(i).pieces \in Int
    BY <1>4, <2>1 DEF Measures
  <2>14. WentBack(back, gone) \in Int
    BY <2>1
  <2>15. /\ Left(i)'.pieces = 0 /\ gone = {} => Left(i)'.cost = 0
         /\ (CostOf(piece', i) + WentBack(back', gone)) + Left(i)'.cost = inward'[i].line.cost
         /\ Left(i)'.cost >= 0 /\ Left(i)'.pieces >= 0
    BY <1>2, <1>5, <2>1, <2>9, <2>11, <2>12, <2>13, <2>14
  <2>16. Cardinality(OfLot(piece', i)) = lot'[i].tagged.pieces
    <3>1. Cardinality(OfLot(piece, i)) = lot[i].tagged.pieces
      BY <1>13 DEF Shared
    <3>2. lot[i].tagged.pieces \in Int
      BY <1>4 DEF Measures
    <3> QED
      BY <1>5, <1>8, <1>11, <2>10, <3>1, <3>2 DEF S, T
  <2>17. \A r \in gone : back'[r].status = "posted" /\ back'[r].inward = i /\ back'[r].stock.pieces > 0
    BY <1>2, <2>12
  <2>18. \E set \in SUBSET Returns :
       /\ \A r \in set : back'[r].status = "posted" /\ back'[r].inward = i /\ back'[r].stock.pieces > 0
       /\ Left(i)'.pieces = 0 /\ set = {} => Left(i)'.cost = 0
       /\ (CostOf(piece', i) + WentBack(back', set)) + Left(i)'.cost = inward'[i].line.cost
    BY <2>15, <2>17
  <2> QED
    BY <2>15, <2>16, <2>18 DEF Shared
<1>14. \A q \in Pieces : piece'[q].status = "none" => piece'[q].lot = 0
  BY <1>7, <1>9
<1> QED
  BY <1>12, <1>13, <1>14

\* A return is a row more.
LEMMA ReturnsStay ==
  ASSUME GoodsInv, NEW i \in Inwards, Posted(i), NEW l, NEW m \in Measures, Returned(i, l, m)
  PROVE  /\ \A r \in Returns : back[r].status = "posted" => back'[r] = back[r]
         /\ \E r \in Returns : /\ back[r].status = "none"
                               /\ back'[r].status = "posted" /\ back'[r].inward = i /\ back'[r].stock = m
                               /\ \A x \in Returns \ {r} : back'[x] = back[x]
<1>1. GoodsTypeOK
  BY DEF GoodsInv
<1>2. PICK r \in Returns : /\ back[r].status = "none"
                           /\ back'[r].status = "posted" /\ back'[r].inward = i /\ back'[r].stock = m
                           /\ \A x \in Returns \ {r} : back'[x] = back[x]
  BY <1>1, ReturnedFacts
<1>3. \A x \in Returns : back[x].status = "posted" => back'[x] = back[x]
  BY <1>2
<1> QED
  BY <1>2, <1>3

\* What goes back untagged takes its cost along.
LEMMA returnUntaggedShares ==
  ASSUME GoodsInv, NEW c \in Clerks, returnUntagged(c), Measured(c), NEW i, i = errand[c].doc
  PROVE  piece' = piece /\ \A j \in Inwards : Shared(j) => Shared(j)'
<1>0. /\ lot \in [Inwards -> LotRows] /\ errand \in [Clerks -> Errands] /\ GoodsTypeOK
  BY DEF GoodsInv, GoodsTypeOK, PurchasesTypeOK
<1> DEFINE m == errand[c].measure
           l == inward[i].place
           expected == Minus(lot[i].expected, m)
           status == IF expected.pieces = lot[i].tagged.pieces THEN "closed" ELSE lot[i].status
<1>1. /\ errand[c].pc = "return" /\ Returned(i, l, m)
      /\ lot' = [lot EXCEPT ![i].expected = expected, ![i].status = status]
      /\ UNCHANGED <<piece, inward>>
  BY DEF returnUntagged
<1>2. i \in Inwards /\ lot[i].status # "none" /\ Posted(i)
  BY <1>1 DEF GoodsInv, ErrandsTold, ErrandTold, Returning, Posted
<1>3. m \in Measures /\ lot[i].tagged \in Measures /\ lot[i].expected \in Measures
  BY <1>0, <1>2 DEF Errands, LotRows
<1>4. 0 < m.pieces /\ m.pieces <= Left(i).pieces /\ 0 <= m.cost /\ m.cost <= Left(i).cost
  BY <1>1 DEF Measured
<1>5. /\ expected \in Measures /\ expected.pieces = lot[i].expected.pieces - m.pieces
      /\ expected.cost = lot[i].expected.cost - m.cost
  <2>1. expected \in Measures
    BY <1>3, MeasureFacts
  <2> QED
    BY <2>1 DEF Minus
<1> HIDE DEF expected, status, m, l
<1>6. lot'[i].expected = expected /\ lot'[i].tagged = lot[i].tagged /\ \A j \in Inwards \ {i} : lot'[j] = lot[j]
  BY <1>0, <1>1, <1>2 DEF LotRows
<1>7. \A r \in Returns : back[r].status = "posted" => back'[r] = back[r]
  BY <1>1, <1>2, <1>3, ReturnsStay
<1>8. PICK r \in Returns : /\ back[r].status = "none"
                           /\ back'[r].status = "posted" /\ back'[r].inward = i /\ back'[r].stock = m
                           /\ \A x \in Returns \ {r} : back'[x] = back[x]
  BY <1>1, <1>2, <1>3, ReturnsStay
<1>9. ASSUME NEW j \in Inwards \ {i}, Shared(j) PROVE Shared(j)'
  <2>1. lot'[j].expected = lot[j].expected /\ lot'[j].tagged = lot[j].tagged /\ inward'[j].line = inward[j].line
    BY <1>1, <1>6
  <2>2. /\ \A q \in Pieces : piece'[q].lot = j <=> piece[q].lot = j
        /\ \A q \in Pieces : piece[q].lot = j => piece'[q].cost = piece[q].cost
    BY <1>1
  <2> QED
    BY <1>0, <1>7, <1>9, <2>1, <2>2, SharedStays
<1>10. ASSUME Shared(i) PROVE Shared(i)'
  <2>1. PICK gone \in SUBSET Returns :
       /\ \A x \in gone : back[x].status = "posted" /\ back[x].inward = i /\ back[x].stock.pieces > 0
       /\ Left(i).pieces = 0 /\ gone = {} => Left(i).cost = 0
       /\ (CostOf(piece, i) + WentBack(back, gone)) + Left(i).cost = inward[i].line.cost
    BY <1>10 DEF Shared
  <2> DEFINE f == [x \in Returns |-> back[x].stock.cost]
             e == [x \in Returns |-> back'[x].stock.cost]
             set == gone \cup {r}
  <2>2. /\ \A x \in Returns : back[x].stock.cost \in Int
        /\ IsFiniteSet(gone) /\ WentBack(back, gone) \in Int
        /\ CostOf(piece, i) \in Int /\ Left(i) \in Measures
    BY <1>0, <1>2, CostTypes
  <2>3. r \notin gone /\ \A x \in gone : x \in Returns /\ back'[x] = back[x]
    BY <1>8, <2>1
  <2>4. \A x \in gone \cup {r} : e[x] \in Int
    BY <1>3, <1>8, <2>2, <2>3 DEF Measures
  <2>5. \A x \in gone : f[x] \in Int /\ e[x] = f[x]
    BY <2>2, <2>3
  <2>6. e[r] = m.cost
    BY <1>8
  <2>7. WentBack(back, gone) = SumFunctionOnSet(f, gone) /\ WentBack(back', set) = SumFunctionOnSet(e, gone \cup {r})
    BY DEF WentBack
  <2> HIDE DEF f, e
  <2>8. SumFunctionOnSet(e, gone \cup {r}) = SumFunctionOnSet(e, gone) + e[r]
    BY <2>2, <2>3, <2>4, SumAdds
  <2>9. SumFunctionOnSet(e, gone) = SumFunctionOnSet(f, gone)
    BY <2>2, <2>5, SumOfSame
  <2>10. WentBack(back', set) = WentBack(back, gone) + m.cost
    BY <2>6, <2>7, <2>8, <2>9
  <2>11. Left(i)'.cost = Left(i).cost - m.cost /\ Left(i)'.pieces = Left(i).pieces - m.pieces
    <3>1. /\ Left(i).cost = lot[i].expected.cost - lot[i].tagged.cost
          /\ Left(i).pieces = lot[i].expected.pieces - lot[i].tagged.pieces
      BY DEF Left, Minus
    <3>2. /\ Left(i)'.cost = expected.cost - lot[i].tagged.cost
          /\ Left(i)'.pieces = expected.pieces - lot[i].tagged.pieces
      BY <1>6 DEF Left, Minus
    <3> QED
      BY <1>3, <1>5, <3>1, <3>2 DEF Measures
  <2>12. m.cost \in Int /\ m.pieces \in Int /\ Left(i).cost \in Int /\ Left(i).pieces \in Int
    BY <1>3, <2>2 DEF Measures
  <2>13. /\ (CostOf(piece', i) + WentBack(back', set)) + Left(i)'.cost = inward'[i].line.cost
         /\ Left(i)'.cost >= 0 /\ Left(i)'.pieces >= 0
    BY <1>1, <1>4, <2>1, <2>2, <2>10, <2>11, <2>12
  <2>14. Cardinality(OfLot(piece', i)) = lot'[i].tagged.pieces
    BY <1>1, <1>6, <1>10 DEF Shared
  <2>15. \A x \in set : back'[x].status = "posted" /\ back'[x].inward = i /\ back'[x].stock.pieces > 0
    BY <1>4, <1>8, <2>1, <2>3
  <2>16. set # {} /\ set \in SUBSET Returns
    OBVIOUS
  <2> HIDE DEF set
  <2>17. \E x \in SUBSET Returns :
       /\ \A y \in x : back'[y].status = "posted" /\ back'[y].inward = i /\ back'[y].stock.pieces > 0
       /\ Left(i)'.pieces = 0 /\ x = {} => Left(i)'.cost = 0
       /\ (CostOf(piece', i) + WentBack(back', x)) + Left(i)'.cost = inward'[i].line.cost
    BY <2>13, <2>15, <2>16
  <2> QED
    BY <2>13, <2>14, <2>17 DEF Shared
<1> QED
  BY <1>1, <1>9, <1>10

\* A delivery has nothing to do with pieces or returns.
LEMMA createInwardLeaves ==
  ASSUME NEW c \in Clerks, createInward(c)
  PROVE  UNCHANGED <<piece, back, settled>>
<1>1. PICK s \in bound.suppliers, l \in bound.places, g \in bound.goods, direct, billed, gstin \in BOOLEAN :
      \E o \in {0} \cup {o \in Orders : order[o].status = "confirmed" /\ order[o].supplier = s},
         ol \in OrderLines \cup {None} :
        LET p == priceInward(g)
            gst == IF billed /\ gstin THEN gstOn(p.cost) ELSE 0
            v == InwardVoucher(p)
        IN
        /\ OneStep(c)
        /\ direct => billed
        /\ ol # None => o # 0
        /\ \E i \in Unused(inward, bound.inwards) :
             LET rows == [inward EXCEPT ![i] = [status |-> "posted", supplier |-> s, place |-> l, line |-> p,
                            direct |-> direct, bill |-> 0, order |-> o, orderLine |-> ol]]
             IN
             /\ lot' = [lot EXCEPT ![i] = IF p.item = "tagged"
                          THEN [NoLot EXCEPT !.status = "open", !.expected = Received(p)] ELSE NoLot]
             /\ rollUpOrder(rows, o)
             /\ \/ ~billed /\ inward' = rows /\ bill' = bill
                \/ billed /\ \E b \in Unused(bill, bound.bills) : Billed(b, s, {i}, rows, gst)
        /\ recordMovements(At(p.item, l, Received(p)), At(p.item, l, Nothing), FALSE)
        /\ postVoucher(s, [v EXCEPT !.gst = gst, !.rupees = @ + gst], p.fine, 0, v.metal)
        /\ UNCHANGED <<bound, piece, back, settled, errand>>
  BY Zenon DEF createInward
<1> QED
  BY <1>1

\* A delivery to be tagged begins with all its cost to share.
LEMMA createInwardShares ==
  ASSUME GoodsInv, NEW c \in Clerks, createInward(c), \A j \in Inwards : lot[j].status # "none" => Shared(j)
  PROVE  piece' = piece /\ back' = back /\ \A j \in Inwards : lot'[j].status # "none" => Shared(j)'
<1>0. /\ lot \in [Inwards -> LotRows] /\ inward \in [Inwards -> InwardRows \cup {NoInward}] /\ GoodsTypeOK
  BY DEF GoodsInv, GoodsTypeOK, PurchasesTypeOK
<1>1. PICK s \in Suppliers, l \in Counters, p \in PricedRows, i \in Inwards, o \in {0} \cup Orders, gst \in Nat,
            billed, direct \in BOOLEAN :
         \E ol \in OrderLines \cup {None} :
         \E rows \in [Inwards -> InwardRows \cup {NoInward}] :
           /\ inward[i].status = "none" /\ (direct => billed) /\ (p.item = "tagged" => p.pieces > 0)
           /\ p.item = "metal" => p.pieces = 0
           /\ o # 0 => order[o].status = "confirmed"
           /\ rows = [inward EXCEPT ![i] = [status |-> "posted", supplier |-> s, place |-> l, line |-> p,
                        direct |-> direct, bill |-> 0, order |-> o, orderLine |-> ol]]
           /\ lot' = [lot EXCEPT ![i] = IF p.item = "tagged"
                        THEN [NoLot EXCEPT !.status = "open", !.expected = Received(p)] ELSE NoLot]
           /\ rollUpOrder(rows, o)
           /\ \/ ~billed /\ inward' = rows /\ bill' = bill /\ gst = 0
              \/ billed /\ \E b \in Bills : bill[b].status = "none" /\ Billed(b, s, {i}, rows, gst)
           /\ recordMovements(At(p.item, l, Received(p)), At(p.item, l, Nothing), FALSE)
           /\ postVoucher(s, [InwardVoucher(p) EXCEPT !.gst = gst, !.rupees = @ + gst], p.fine, 0, InwardVoucher(p).metal)
  BY InwardFacts, Zenon
<1> DEFINE open == [NoLot EXCEPT !.status = "open", !.expected = Received(p)]
<1>2. PICK ol \in OrderLines \cup {None}, rows \in [Inwards -> InwardRows \cup {NoInward}] :
        /\ rows = [inward EXCEPT ![i] = [status |-> "posted", supplier |-> s, place |-> l, line |-> p,
                        direct |-> direct, bill |-> 0, order |-> o, orderLine |-> ol]]
        /\ \/ ~billed /\ inward' = rows /\ bill' = bill /\ gst = 0
           \/ billed /\ \E b \in Bills : bill[b].status = "none" /\ Billed(b, s, {i}, rows, gst)
  BY <1>1
<1>3. /\ inward[i].status = "none" /\ (p.item = "tagged" => p.pieces > 0)
      /\ lot' = [lot EXCEPT ![i] = IF p.item = "tagged" THEN open ELSE NoLot]
  BY <1>1
<1>4. rows[i].status = "posted" /\ rows[i].line = p /\ \A j \in Inwards \ {i} : rows[j] = inward[j]
  BY <1>0, <1>2
<1>5. \A j \in Inwards : Alike(inward'[j], rows[j])
  <2>1. CASE inward' = rows
    BY <2>1 DEF Alike
  <2>2. CASE \E b \in Bills : Billed(b, s, {i}, rows, gst)
    <3>1. PICK b \in Bills : Billed(b, s, {i}, rows, gst)
      BY <2>2
    <3>2. bill \in [Bills -> BillRows]
      BY <1>0 DEF GoodsTypeOK, PurchasesTypeOK
    <3>3. {i} \in SUBSET Inwards /\ \A x \in {i} : rows[x].status # "none"
      BY <1>4
    <3> QED
      BY <3>1, <3>2, <3>3, BilledFacts
  <2> QED
    BY <1>2, <2>1, <2>2
<1>6. open.status = "open" /\ open.expected = Received(p) /\ open.tagged = Nothing /\ NoLot.status = "none"
  BY DEF NoLot
<1> HIDE DEF open
<1>7. lot'[i] = (IF p.item = "tagged" THEN open ELSE NoLot) /\ \A j \in Inwards \ {i} : lot'[j] = lot[j]
  BY <1>0, <1>3
<1>8. piece' = piece /\ back' = back
  BY createInwardLeaves
<1>9. ASSUME NEW j \in Inwards \ {i}, lot'[j].status # "none" PROVE Shared(j)'
  <2>1. lot[j].status # "none" /\ lot'[j].expected = lot[j].expected /\ lot'[j].tagged = lot[j].tagged
    BY <1>7, <1>9
  <2>2. inward[j].status # "none"
    BY <2>1 DEF GoodsInv, InwardsTold
  <2>3. inward'[j].line = inward[j].line
    BY <1>4, <1>5, <2>2 DEF Alike
  <2>4. Shared(j)
    BY <2>1
  <2>5. /\ \A q \in Pieces : piece'[q].lot = j <=> piece[q].lot = j
        /\ \A q \in Pieces : piece[q].lot = j => piece'[q].cost = piece[q].cost
        /\ \A r \in Returns : back[r].status = "posted" => back'[r] = back[r]
    BY <1>8
  <2> QED
    BY <1>0, <2>1, <2>3, <2>4, <2>5, SharedStays
<1>10. ASSUME lot'[i].status # "none" PROVE Shared(i)'
  <2>1. p.item = "tagged" /\ lot'[i] = open
    BY <1>6, <1>7, <1>10
  <2>2. p.pieces > 0 /\ p.pieces \in Int /\ p.cost \in Int /\ p.cost >= 0
    BY <1>3, <2>1 DEF PricedRows
  <2>3. Left(i)'.cost = p.cost /\ Left(i)'.pieces = p.pieces
    BY <1>6, <2>1, <2>2 DEF Left, Minus, Received, Nothing
  <2>4. i # 0 /\ lot[i].status = "none"
    BY <1>3, GoodsFinite DEF GoodsInv, InwardsTold
  <2>5. OfLot(piece', i) = {}
    <3>1. \A q \in Pieces : piece[q].lot # i
      BY <2>4 DEF GoodsInv, PiecesTold
    <3> QED
      BY <1>8, <3>1 DEF OfLot
  <2>6. CostOf(piece', i) = 0 /\ WentBack(back', {}) = 0
    BY <2>5, SumOfNone DEF CostOf, WentBack
  <2>7. inward'[i].line = p
    BY <1>4, <1>5 DEF Alike
  <2>8. Cardinality(OfLot(piece', i)) = lot'[i].tagged.pieces
    BY <1>6, <2>1, <2>5, FS_EmptySet DEF Nothing
  <2>9. /\ Left(i)'.pieces # 0 /\ Left(i)'.cost >= 0 /\ Left(i)'.pieces >= 0
        /\ (CostOf(piece', i) + WentBack(back', {})) + Left(i)'.cost = inward'[i].line.cost
    BY <2>2, <2>3, <2>6, <2>7
  <2>10. \E x \in SUBSET Returns :
       /\ \A y \in x : back'[y].status = "posted" /\ back'[y].inward = i /\ back'[y].stock.pieces > 0
       /\ Left(i)'.pieces = 0 /\ x = {} => Left(i)'.cost = 0
       /\ (CostOf(piece', i) + WentBack(back', x)) + Left(i)'.cost = inward'[i].line.cost
    <3>1. {} \in SUBSET Returns
      OBVIOUS
    <3> QED
      BY <2>9, <3>1
  <2> QED
    BY <2>8, <2>9, <2>10 DEF Shared
<1> QED
  BY <1>8, <1>9, <1>10

\* Nothing else changes what a lot cost or how much of it is left.
LotsStay ==
  /\ \A p \in Pieces : /\ piece'[p].lot = piece[p].lot /\ piece'[p].cost = piece[p].cost
                       /\ piece'[p].status = "none" => piece[p].status = "none"
  /\ \A i \in Inwards : /\ lot'[i].expected = lot[i].expected /\ lot'[i].tagged = lot[i].tagged
                        /\ lot'[i].status # "none" => lot[i].status # "none"
                        /\ lot[i].status # "none" => inward'[i].line = inward[i].line
  /\ \A r \in Returns : back[r].status = "posted" => back'[r] = back[r]

LEMMA LotsStayShared ==
  ASSUME GoodsTypeOK, LotsStay, \A i \in Inwards : lot[i].status # "none" => Shared(i)
  PROVE  \A i \in Inwards : lot'[i].status # "none" => Shared(i)'
<1> SUFFICES ASSUME NEW i \in Inwards, lot'[i].status # "none"
             PROVE  Shared(i)'
  OBVIOUS
<1>1. /\ lot'[i].expected = lot[i].expected /\ lot'[i].tagged = lot[i].tagged /\ inward'[i].line = inward[i].line
      /\ Shared(i)
  BY DEF LotsStay
<1>2. /\ \A p \in Pieces : piece'[p].lot = i <=> piece[p].lot = i
      /\ \A p \in Pieces : piece[p].lot = i => piece'[p].cost = piece[p].cost
      /\ \A r \in Returns : back[r].status = "posted" => back'[r] = back[r]
  BY DEF LotsStay
<1> QED
  BY <1>1, <1>2, SharedStays

LEMMA OthersLeaveLots ==
  ASSUME GoodsInv, NEW c \in Clerks, ClerkStep(c), ~createInward(c), ~tagPieces(c), ~returnUntagged(c)
  PROVE  LotsStay
<1>0. /\ piece \in [Pieces -> PieceRows] /\ inward \in [Inwards -> InwardRows \cup {NoInward}] /\ lot \in [Inwards -> LotRows]
  BY DEF GoodsInv, GoodsTypeOK, PurchasesTypeOK
<1>1. CASE UNCHANGED <<piece, inward, lot, back>>
  BY <1>1 DEF LotsStay
<1>2. CASE createOrder(c) \/ closeOrder(c) \/ paySupplier(c) \/ BeginSettleMetal(c) \/ createSettlement(c) \/ GiveUp(c)
  <2>1. UNCHANGED <<piece, inward, lot, back>>
    BY <1>2 DEF createOrder, closeOrder, paySupplier, BeginSettleMetal, createSettlement, GiveUp, shelfVars
  <2> QED
    BY <1>1, <2>1
<1>3. ASSUME NEW i \in Inwards, BeginCancelInward(c, i) \/ BeginTag(c, i) \/ BeginReturnUntagged(c, i)
      PROVE  LotsStay
  <2>1. UNCHANGED <<piece, inward, lot, back>>
    BY <1>3 DEF BeginCancelInward, BeginTag, BeginReturnUntagged, shelfVars
  <2> QED
    BY <1>1, <2>1
<1>4. ASSUME NEW k \in Settlements, cancelSettlement(c, k)
      PROVE  LotsStay
  <2>1. UNCHANGED <<piece, inward, lot, back>>
    BY <1>4 DEF cancelSettlement
  <2> QED
    BY <1>1, <2>1
<1>5. ASSUME UNCHANGED <<piece, lot, back>>, \A i \in Inwards : Alike(inward'[i], inward[i])
      PROVE  LotsStay
  <2>1. \A i \in Inwards : lot[i].status # "none" => inward[i].status # "none"
    BY DEF GoodsInv, InwardsTold
  <2>2. \A i \in Inwards : lot[i].status # "none" => inward'[i].line = inward[i].line
    BY <1>5, <2>1 DEF Alike
  <2> QED
    BY <1>5, <2>2 DEF LotsStay
<1>6. CASE createBill(c)
  <2>1. \A i \in Inwards : Alike(inward'[i], inward[i])
    BY <1>6, createBillAlike
  <2>2. UNCHANGED <<piece, lot, back>>
    BY <1>6 DEF createBill, shelfVars
  <2> QED
    BY <1>5, <2>1, <2>2
<1>7. ASSUME NEW b \in Bills, cancelBill(c, b)
      PROVE  LotsStay
  <2>1. inward' = [i \in Inwards |-> IF Posted(i) /\ inward[i].bill = b THEN [inward[i] EXCEPT !.bill = 0] ELSE inward[i]]
    BY <1>7 DEF cancelBill
  <2>2. \A i \in Inwards : Posted(i) => inward[i] \in InwardRows
    BY <1>0, InwardRow DEF Posted
  <2>3. \A i \in Inwards : Alike(inward'[i], inward[i])
    BY <2>1, <2>2 DEF Alike, InwardRows
  <2>4. UNCHANGED <<piece, lot, back>>
    BY <1>7 DEF cancelBill, shelfVars
  <2> QED
    BY <1>5, <2>3, <2>4
<1>8. CASE cancelInward(c)
  <2> DEFINE i == errand[c].doc
             status == IF lot[i].status = "none" THEN "none" ELSE "closed"
             w == inward[i]
             rows == [inward EXCEPT ![i].status = "cancelled"]
  <2>1. /\ lot' = [lot EXCEPT ![i].status = status] /\ UNCHANGED <<piece, back>>
        /\ inward' = [inward EXCEPT ![i].status = "cancelled"] /\ errand[c].pc = "cancel"
    BY <1>8 DEF cancelInward
  <2>2. i \in Inwards /\ w.status = "posted"
    BY <2>1 DEF GoodsInv, ErrandsTold, ErrandTold, Returning
  <2>3. w \in InwardRows
    BY <1>0, <2>2, InwardRow
  <2>4. inward'[i].line = w.line /\ \A j \in Inwards \ {i} : inward'[j] = inward[j]
    BY <1>0, <2>1, <2>2, <2>3 DEF InwardRows
  <2>5. lot[i].status = "none" => status = "none"
    OBVIOUS
  <2> HIDE DEF status, i
  <2>6. /\ lot'[i].expected = lot[i].expected /\ lot'[i].tagged = lot[i].tagged /\ lot'[i].status = status
        /\ \A j \in Inwards \ {i} : lot'[j] = lot[j]
    BY <1>0, <2>1, <2>2 DEF LotRows
  <2> QED
    BY <2>1, <2>4, <2>5, <2>6 DEF LotsStay
<1>9. ASSUME NEW i \in Inwards, closeLot(c, i)
      PROVE  LotsStay
  <2> DEFINE left == Minus(lot[i].expected, lot[i].tagged)
             gone == IF leftOver(left) THEN left ELSE Nothing
  <2>1. /\ lot[i].status = "open" /\ lot' = [lot EXCEPT ![i].status = "closed", ![i].difference = gone]
        /\ UNCHANGED <<piece, inward, back>>
    BY <1>9 DEF closeLot
  <2> HIDE DEF gone
  <2>2. \A j \in Inwards : /\ lot'[j].expected = lot[j].expected /\ lot'[j].tagged = lot[j].tagged
                           /\ lot'[j].status # "none" => lot[j].status # "none"
    BY <1>0, <2>1 DEF LotRows
  <2> QED
    BY <2>1, <2>2 DEF LotsStay
<1>10. ASSUME NEW p \in Pieces, returnTagged(c, p)
       PROVE  LotsStay
  <2> DEFINE i == piece[p].lot
             l == piece[p].place
             m == Weighed(p)
  <2>1. /\ i # 0 /\ Posted(i) /\ Returned(i, l, m) /\ piece' = [piece EXCEPT ![p].status = "written_off"]
        /\ UNCHANGED <<lot, inward>>
    BY <1>10 DEF returnTagged
  <2>2. i \in Inwards
    BY <2>1 DEF GoodsInv, PiecesTold
  <2>3. m \in Measures
    BY <1>0 DEF Weighed, Measures, PieceRows
  <2>4. \A q \in Pieces : /\ piece'[q].lot = piece[q].lot /\ piece'[q].cost = piece[q].cost
                          /\ piece'[q].status = "none" => piece[q].status = "none"
    BY <1>0, <2>1 DEF PieceRows
  <2> HIDE DEF i, l, m
  <2>5. \A r \in Returns : back[r].status = "posted" => back'[r] = back[r]
    BY <2>1, <2>2, <2>3, ReturnsStay
  <2> QED
    BY <2>1, <2>4, <2>5 DEF LotsStay
<1>11. ASSUME NEW i \in Inwards, returnMetal(c, i)
       PROVE  LotsStay
  <2>1. PICK part \in Parts :
        /\ Posted(i)
        /\ Returned(i, inward[i].place,
             [pieces |-> 0, gross |-> Rounded(inward[i].line.gross * part.gross, inward[i].line.net),
              net |-> part.gross, cost |-> Rounded(inward[i].line.cost * part.gross, inward[i].line.net)])
        /\ UNCHANGED <<bound, piece, order, inward, lot, bill, settled, errand>>
    BY <1>11 DEF returnMetal
  <2> DEFINE l == inward[i].place
             m == [pieces |-> 0, gross |-> Rounded(inward[i].line.gross * part.gross, inward[i].line.net),
                   net |-> part.gross, cost |-> Rounded(inward[i].line.cost * part.gross, inward[i].line.net)]
  <2>2. Returned(i, l, m)
    BY <2>1
  <2>3. m \in Measures
    <3>1. inward[i].line \in PricedRows /\ part.gross \in Nat
      BY <1>0, <2>1, InwardRow, PurchasesAssumption DEF Posted
    <3>2. inward[i].line.gross * part.gross \in Int /\ inward[i].line.cost * part.gross \in Int /\ inward[i].line.net \in Nat
      BY <3>1, Products DEF PricedRows
    <3>3. /\ Rounded(inward[i].line.gross * part.gross, inward[i].line.net) \in Int
          /\ Rounded(inward[i].line.cost * part.gross, inward[i].line.net) \in Int
      BY <3>2, RoundedTyped
    <3> QED
      BY <3>1, <3>3 DEF Measures
  <2> HIDE DEF l, m
  <2>4. \A r \in Returns : back[r].status = "posted" => back'[r] = back[r]
    BY <2>1, <2>2, <2>3, ReturnsStay
  <2> QED
    BY <2>1, <2>4 DEF LotsStay
<1> QED
  BY <1>2, <1>3, <1>4, <1>6, <1>7, <1>8, <1>9, <1>10, <1>11 DEF ClerkStep

\* What is read of a lot is there to take.
LEMMA BeginTagMeasures ==
  ASSUME GoodsInv, NEW c \in Clerks, NEW i \in Inwards, BeginTag(c, i), Shared(i)
  PROVE  Measured(c)'
<1>1. PICK w \in Tags :
        LET left == Minus(lot[i].expected, lot[i].tagged) IN
        /\ OneStep(c)
        /\ lot[i].status = "open"
        /\ left.pieces > 0 /\ w.gross <= left.gross
        /\ \E p \in Pieces : piece[p].status = "none"
        /\ errand' = [errand EXCEPT ![c] = [Free EXCEPT !.pc = "tag", !.doc = i,
             !.measure = [pieces |-> 1, gross |-> w.gross, net |-> w.net, cost |-> pieceCost(i, w.gross)]]]
        /\ UNCHANGED <<shelfVars, order, inward, lot, bill, back, settled, owing, account>>
  BY Zenon DEF BeginTag
<1> DEFINE left == Left(i)
           m == [pieces |-> 1, gross |-> w.gross, net |-> w.net, cost |-> pieceCost(i, w.gross)]
           e == [Free EXCEPT !.pc = "tag", !.doc = i, !.measure = m]
<1>2. w.gross \in Nat /\ GoodsTypeOK /\ errand \in [Clerks -> Errands]
  BY PurchasesAssumption DEF GoodsInv, GoodsTypeOK, PurchasesTypeOK
<1>3. left \in Measures
  BY <1>2, CostTypes
<1>4. left.pieces > 0 /\ w.gross <= left.gross /\ errand' = [errand EXCEPT ![c] = e] /\ lot' = lot
  BY <1>1 DEF Left
<1>5. left.cost >= 0
  BY DEF Shared
<1>6. pieceCost(i, w.gross) = IF left.pieces = 1 THEN left.cost ELSE Rounded(left.cost * w.gross, left.gross)
  BY DEF pieceCost, Left
<1> HIDE DEF left
<1>7. left.cost \in Nat /\ left.gross \in Nat /\ left.pieces \in Int
  BY <1>2, <1>3, <1>4, <1>5 DEF Measures
<1>8. Rounded(left.cost * w.gross, left.gross) \in Nat /\ Rounded(left.cost * w.gross, left.gross) <= left.cost
  BY <1>2, <1>4, <1>7, RoundedAtMost
<1>9. /\ 0 <= pieceCost(i, w.gross) /\ pieceCost(i, w.gross) <= left.cost
      /\ left.pieces = 1 => pieceCost(i, w.gross) = left.cost
  BY <1>6, <1>7, <1>8
<1>10. m.pieces = 1 /\ m.cost = pieceCost(i, w.gross)
  OBVIOUS
<1> HIDE DEF m
<1>11. e.pc = "tag" /\ e.doc = i /\ e.measure = m
  BY DEF Free
<1> HIDE DEF e
<1>12. errand'[c] = e /\ Left(i)' = left
  BY <1>2, <1>4 DEF left, Left
<1> QED
  BY <1>4, <1>9, <1>10, <1>11, <1>12 DEF Measured, Left

LEMMA BeginReturnUntaggedMeasures ==
  ASSUME GoodsInv, NEW c \in Clerks, NEW i \in Inwards, BeginReturnUntagged(c, i), Shared(i)
  PROVE  Measured(c)'
<1> DEFINE left == Minus(lot[i].expected, lot[i].tagged)
<1>1. PICK part \in Parts :
        LET share(amount) == Rounded(amount * part.gross, left.gross) IN
        /\ OneStep(c) /\ ~HasInward(i)
        /\ Posted(i)
        /\ lot[i].status = "open"
        /\ part.pieces > 0 /\ part.pieces <= left.pieces
        /\ part.gross > 0 /\ part.gross <= left.gross
        /\ errand' = [errand EXCEPT ![c] = [Free EXCEPT !.pc = "return", !.doc = i,
             !.measure = [pieces |-> part.pieces, gross |-> part.gross, net |-> share(left.net), cost |-> share(left.cost)]]]
        /\ UNCHANGED <<shelfVars, order, inward, lot, bill, back, settled, owing, account>>
  BY Zenon DEF BeginReturnUntagged
<1> DEFINE share(amount) == Rounded(amount * part.gross, left.gross)
           m == [pieces |-> part.pieces, gross |-> part.gross, net |-> share(left.net), cost |-> share(left.cost)]
           e == [Free EXCEPT !.pc = "return", !.doc = i, !.measure = m]
<1>2. part.gross \in Nat /\ GoodsTypeOK /\ errand \in [Clerks -> Errands]
  BY PurchasesAssumption DEF GoodsInv, GoodsTypeOK, PurchasesTypeOK
<1>3. left = Left(i)
  BY DEF Left
<1>4. left \in Measures
  BY <1>2, <1>3, CostTypes
<1>5. /\ part.pieces > 0 /\ part.pieces <= left.pieces /\ part.gross <= left.gross
      /\ errand' = [errand EXCEPT ![c] = e] /\ lot' = lot
  BY <1>1
<1>6. left.cost >= 0
  BY <1>3 DEF Shared
<1> HIDE DEF left
<1>7. left.cost \in Nat /\ left.gross \in Nat
  BY <1>2, <1>4, <1>5, <1>6 DEF Measures
<1>8. share(left.cost) \in Nat /\ share(left.cost) <= left.cost
  BY <1>2, <1>5, <1>7, RoundedAtMost
<1>9. m.pieces = part.pieces /\ m.cost = share(left.cost)
  OBVIOUS
<1> HIDE DEF m, share
<1>10. e.pc = "return" /\ e.doc = i /\ e.measure = m
  BY DEF Free
<1> HIDE DEF e
<1>11. errand'[c] = e /\ Left(i)' = left
  BY <1>2, <1>3, <1>5 DEF Left
<1> QED
  BY <1>5, <1>7, <1>8, <1>9, <1>10, <1>11 DEF Measured, Left

\* Who is about to take of a lot has just read it, when nobody else does.
LEMMA ClerkMeasures ==
  ASSUME GoodsInv, NEW c \in Clerks, ClerkStep(c), \A i \in Inwards : lot[i].status # "none" => Shared(i),
         errand'[c].pc \in {"tag", "return"}
  PROVE  Measured(c)'
<1>0. errand \in [Clerks -> Errands] /\ Free.pc = "idle"
  BY DEF GoodsInv, GoodsTypeOK, PurchasesTypeOK, Free
<1>1. errand[c].pc = "idle"
  BY ClerkActs
<1>2. errand' # errand
  BY <1>1
<1>3. CASE \E i \in Inwards : BeginTag(c, i)
  <2>1. PICK i \in Inwards : BeginTag(c, i)
    BY <1>3
  <2>2. Shared(i)
    BY <2>1 DEF BeginTag
  <2> QED
    BY <2>1, <2>2, BeginTagMeasures
<1>4. CASE \E i \in Inwards : BeginReturnUntagged(c, i)
  <2>1. PICK i \in Inwards : BeginReturnUntagged(c, i)
    BY <1>4
  <2>2. Shared(i)
    BY <2>1 DEF BeginReturnUntagged
  <2> QED
    BY <2>1, <2>2, BeginReturnUntaggedMeasures
<1>5. ASSUME NEW i \in Inwards, BeginCancelInward(c, i) PROVE FALSE
  <2> DEFINE e == [Free EXCEPT !.pc = "cancel", !.doc = i]
  <2>1. errand' = [errand EXCEPT ![c] = e] /\ e.pc = "cancel"
    BY <1>5 DEF BeginCancelInward, Free
  <2> HIDE DEF e
  <2> QED
    BY <1>0, <2>1
<1>6. ASSUME BeginSettleMetal(c) PROVE FALSE
  <2>1. PICK s \in bound.suppliers, l \in bound.places, part \in Parts, kind \in {"metal", "rate_fix"} :
    /\ OneStep(c)
    /\ Unused(settled, bound.settlements) # {}
    /\ part.gross > 0 /\ part.gross <= owing[s].fine
    /\ errand' = [errand EXCEPT ![c] = [Free EXCEPT !.pc = "settle", !.kind = kind, !.supplier = s,
         !.place = l, !.measure = [Nothing EXCEPT !.gross = part.gross, !.net = part.gross],
         !.carried = part.gross * carriedRate(s)]]
    /\ UNCHANGED <<shelfVars, order, inward, lot, bill, back, settled, owing, account>>
    BY <1>6, Zenon DEF BeginSettleMetal
  <2> DEFINE m == [Nothing EXCEPT !.gross = part.gross, !.net = part.gross]
             n == part.gross * carriedRate(s)
             e == [Free EXCEPT !.pc = "settle", !.kind = kind, !.supplier = s, !.place = l, !.measure = m, !.carried = n]
  <2>2. errand' = [errand EXCEPT ![c] = e]
    BY <2>1
  <2> HIDE DEF m, n
  <2>3. e.pc = "settle"
    BY DEF Free
  <2> HIDE DEF e
  <2> QED
    BY <1>0, <2>2, <2>3
<1>7. CASE \/ cancelInward(c) \/ tagPieces(c) \/ returnUntagged(c) \/ createSettlement(c) \/ GiveUp(c)
  BY <1>1, <1>7 DEF cancelInward, tagPieces, returnUntagged, createSettlement, GiveUp
<1>8. CASE createOrder(c) \/ closeOrder(c) \/ createBill(c) \/ paySupplier(c)
  BY <1>2, <1>8 DEF createOrder, closeOrder, createBill, paySupplier
<1>9. CASE createInward(c)
  BY <1>2, <1>9, createInwardIdle
<1>10. ASSUME NEW i \in Inwards, closeLot(c, i) \/ returnMetal(c, i) PROVE FALSE
  BY <1>2, <1>10 DEF closeLot, returnMetal
<1>11. ASSUME NEW b \in Bills, cancelBill(c, b) PROVE FALSE
  BY <1>2, <1>11 DEF cancelBill
<1>12. ASSUME NEW p \in Pieces, returnTagged(c, p) PROVE FALSE
  BY <1>2, <1>12 DEF returnTagged
<1>13. ASSUME NEW k \in Settlements, cancelSettlement(c, k) PROVE FALSE
  BY <1>2, <1>13 DEF cancelSettlement
<1> QED
  BY <1>3, <1>4, <1>5, <1>6, <1>7, <1>8, <1>9, <1>10, <1>11, <1>12, <1>13 DEF ClerkStep

LEMMA ClerkShares ==
  ASSUME GoodsInv, CostInv, NEW c \in Clerks, ClerkStep(c)
  PROVE  CostInv'
<1>0. GoodsTypeOK
  BY DEF GoodsInv
<1>1. /\ bound' = bound
      /\ c \in bound.clerks \/ errand[c].pc # "idle"
      /\ \A d \in Clerks : d # c => errand'[d] = errand[d]
      /\ errand[c].pc # "idle" => errand'[c].pc = "idle"
  BY ClerkActs
<1>2. c \in bound.clerks
  BY <1>1 DEF CostInv, Claimed
<1>3. Claimed'
  BY <1>1, <1>2 DEF CostInv, Claimed
<1>4. Alone' <=> Alone
  BY <1>1 DEF Alone
<1>5. \A p \in Pieces : piece'[p].status = "none" => piece'[p].lot = 0
  <2>1. CASE createInward(c)
    BY <2>1, createInwardLeaves DEF CostInv
  <2>2. CASE tagPieces(c)
    <3>1. PICK p \in Pieces : \E row : piece' = [piece EXCEPT ![p] = row] /\ row.status = "in_stock"
      <4> DEFINE l == inward[errand[c].doc].place
                 m == errand[c].measure
                 i == errand[c].doc
                 row == [NoPiece EXCEPT !.status = "in_stock", !.place = l, !.lot = i,
                           !.gross = m.gross, !.net = m.net, !.cost = m.cost]
      <4>1. \E p \in Pieces : piece' = [piece EXCEPT ![p] = row]
        BY <2>2 DEF tagPieces
      <4>2. row.status = "in_stock"
        BY DEF NoPiece
      <4> HIDE DEF row
      <4> QED
        BY <4>1, <4>2
    <3>2. piece \in [Pieces -> PieceRows]
      BY <1>0 DEF GoodsTypeOK
    <3> QED
      BY <3>1, <3>2 DEF CostInv
  <2>3. CASE returnUntagged(c)
    <3>1. piece' = piece
      BY <2>3 DEF returnUntagged
    <3> QED
      BY <3>1 DEF CostInv
  <2>4. CASE ~createInward(c) /\ ~tagPieces(c) /\ ~returnUntagged(c)
    BY <2>4, OthersLeaveLots DEF LotsStay, CostInv
  <2> QED
    BY <2>1, <2>2, <2>3, <2>4
<1>6. ASSUME Alone
      PROVE  /\ \A i \in Inwards : lot'[i].status # "none" => Shared(i)'
             /\ \A d \in Clerks : Measured(d)'
  <2>1. (\A i \in Inwards : lot[i].status # "none" => Shared(i)) /\ Measured(c)
    BY <1>6 DEF CostInv
  <2>2. \A i \in Inwards : lot'[i].status # "none" => Shared(i)'
    <3>1. CASE createInward(c)
      BY <2>1, <3>1, createInwardShares
    <3>2. ASSUME NEW i, i = errand[c].doc, \A j \in Inwards : Shared(j) => Shared(j)',
                 \A j \in Inwards : j # i => lot'[j].status = lot[j].status, i \in Inwards, lot[i].status # "none"
          PROVE  \A j \in Inwards : lot'[j].status # "none" => Shared(j)'
      BY <2>1, <3>2
    <3>3. CASE tagPieces(c) \/ returnUntagged(c)
      <4> DEFINE i == errand[c].doc
      <4>1. errand[c].pc \in {"tag", "return"} /\ \E row : lot' = [lot EXCEPT ![i] = row]
        BY <3>3 DEF tagPieces, returnUntagged
      <4>2. i \in Inwards /\ lot[i].status # "none"
        BY <4>1 DEF GoodsInv, ErrandsTold, ErrandTold, Returning
      <4>3. lot \in [Inwards -> LotRows]
        BY <1>0 DEF GoodsTypeOK, PurchasesTypeOK
      <4>4. \A j \in Inwards : j # i => lot'[j].status = lot[j].status
        BY <4>1, <4>2, <4>3
      <4>5. \A j \in Inwards : Shared(j) => Shared(j)'
        <5>1. \A p \in Pieces : piece[p].status = "none" => piece[p].lot = 0
          BY DEF CostInv
        <5>2. CASE tagPieces(c)
          BY <2>1, <5>1, <5>2, tagPiecesShares
        <5>3. CASE returnUntagged(c)
          BY <2>1, <5>3, returnUntaggedShares
        <5> QED
          BY <3>3, <5>2, <5>3
      <4> QED
        BY <3>2, <4>2, <4>4, <4>5
    <3>4. CASE ~createInward(c) /\ ~tagPieces(c) /\ ~returnUntagged(c)
      <4>1. LotsStay
        BY <3>4, OthersLeaveLots
      <4> QED
        BY <1>0, <2>1, <4>1, LotsStayShared
    <3> QED
      BY <3>1, <3>3, <3>4
  <2>3. ASSUME NEW d \in Clerks PROVE Measured(d)'
    <3>1. CASE d # c
      <4>1. errand'[d].pc = "idle"
        BY <1>1, <1>2, <1>6, <3>1 DEF CostInv, Claimed, Alone
      <4> QED
        BY <4>1 DEF Measured
    <3>2. CASE d = c
      <4>1. CASE errand'[c].pc \in {"tag", "return"}
        BY <2>1, <3>2, <4>1, ClerkMeasures
      <4>2. CASE errand'[c].pc \notin {"tag", "return"}
        BY <3>2, <4>2 DEF Measured
      <4> QED
        BY <4>1, <4>2
    <3> QED
      BY <3>1, <3>2
  <2> QED
    BY <2>2, <2>3
<1> QED
  BY <1>3, <1>4, <1>5, <1>6 DEF CostInv

LEMMA CostKeeps ==
  ASSUME GoodsInv, CostInv, [Next]_goodsVars
  PROVE  CostInv'
<1>0. GoodsTypeOK
  BY DEF GoodsInv
<1>1. ASSUME NEW c \in Clerks, ClerkStep(c) PROVE CostInv'
  BY <1>1, ClerkShares
<1>2. ASSUME UNCHANGED purchaseVars, bound' = bound,
             \A p \in Pieces : /\ piece'[p].lot = piece[p].lot /\ piece'[p].cost = piece[p].cost
                               /\ piece'[p].status = "none" => piece[p].status = "none"
      PROVE  CostInv'
  <2>1. errand' = errand /\ lot' = lot /\ inward' = inward /\ back' = back
    BY <1>2 DEF purchaseVars
  <2>2. Claimed' /\ (Alone' <=> Alone) /\ \A p \in Pieces : piece'[p].status = "none" => piece'[p].lot = 0
    BY <1>2, <2>1 DEF CostInv, Claimed, Alone
  <2>3. LotsStay
    BY <1>2, <2>1 DEF LotsStay
  <2>4. \A c \in Clerks : Measured(c) => Measured(c)'
    BY <2>1 DEF Measured, Left
  <2>5. (\A i \in Inwards : lot[i].status # "none" => Shared(i)) => \A i \in Inwards : lot'[i].status # "none" => Shared(i)'
    BY <1>0, <2>3, LotsStayShared
  <2> QED
    BY <2>2, <2>4, <2>5 DEF CostInv
<1>3. ASSUME NEW s \in Sessions, SessionStep(s), UNCHANGED purchaseVars PROVE CostInv'
  <2>1. bound' = bound
    BY <1>3, SessionActs
  <2>2. \A p \in Pieces : /\ piece'[p].lot = piece[p].lot /\ piece'[p].cost = piece[p].cost
                          /\ piece'[p].status = "none" => piece[p].status = "none"
    BY <1>3, FloorCosts
  <2> QED
    BY <1>2, <1>3, <2>1, <2>2
<1>4. CASE UNCHANGED goodsVars
  BY <1>2, <1>4 DEF goodsVars, shelfVars
<1> QED
  BY <1>1, <1>3, <1>4, Steps

LEMMA CostStarts ==
  ASSUME Init
  PROVE  CostInv
<1>1. errand = [c \in Clerks |-> Free] /\ lot = [i \in Inwards |-> NoLot]
  BY DEF Init, PurchasesInit
<1>2. piece = [p \in Pieces |-> IF p \in DOMAIN bound.pieces THEN bound.pieces[p] ELSE NoPiece] /\ bound \in Bounds
  BY DEF Init, ShelfInit
<1>3. \A p \in DOMAIN bound.pieces : bound.pieces[p].status = "in_stock"
  BY <1>2, ShelfAssumption
<1>4. \A p \in Pieces : piece[p].status = "none" => piece[p].lot = 0
  BY <1>2, <1>3 DEF NoPiece
<1>5. \A c \in Clerks : errand[c].pc = "idle"
  BY <1>1 DEF Free
<1>6. \A i \in Inwards : lot[i].status = "none"
  BY <1>1 DEF NoLot
<1> QED
  BY <1>4, <1>5, <1>6 DEF CostInv, Claimed, Measured

\* "Each piece takes the lot's cost by weight, the last one what is left"
\* (tagging.service.ts:155): however many goods are delivered, tagged and sent back, what an
\* inward cost is what its pieces cost, what went back untagged and what is left to share,
\* with nothing left over when every piece is tagged, when one clerk tags at a time.
THEOREM CostSharedEver == Spec => []CostShared
<1>1. Init => CostInv
  BY CostStarts
<1>2. GoodsInv /\ CostInv /\ [Next]_goodsVars => CostInv'
  BY CostKeeps
<1>3. GoodsInv /\ CostInv => CostShared
  <2> SUFFICES ASSUME GoodsInv, CostInv, Alone, NEW i \in Inwards, lot[i].status # "none"
               PROVE  LET left == Minus(lot[i].expected, lot[i].tagged)
                          untagged == {r \in ReturnsOf(i) : back[r].stock.pieces > 0}
                          ofLot == {p \in Pieces : piece[p].lot = i}
                      IN /\ left.cost >= 0 /\ left.pieces >= 0
                         /\ Cardinality(ofLot) = lot[i].tagged.pieces
                         /\ left.pieces = 0 /\ untagged = {} => left.cost = 0
                         /\ \E gone \in SUBSET untagged :
                              SumFunction([p \in ofLot |-> piece[p].cost])
                                + SumFunction([r \in gone |-> back[r].stock.cost]) + left.cost = inward[i].line.cost
    BY DEF CostShared
  <2> DEFINE left == Minus(lot[i].expected, lot[i].tagged)
             untagged == {r \in ReturnsOf(i) : back[r].stock.pieces > 0}
             ofLot == {p \in Pieces : piece[p].lot = i}
  <2>0. GoodsTypeOK
    BY DEF GoodsInv
  <2>1. Shared(i) /\ left = Left(i) /\ ofLot = OfLot(piece, i)
    BY DEF CostInv, Left, OfLot
  <2>2. PICK gone \in SUBSET Returns :
       /\ \A r \in gone : back[r].status = "posted" /\ back[r].inward = i /\ back[r].stock.pieces > 0
       /\ Left(i).pieces = 0 /\ gone = {} => Left(i).cost = 0
       /\ (CostOf(piece, i) + WentBack(back, gone)) + Left(i).cost = inward[i].line.cost
    BY <2>1 DEF Shared
  <2>3. gone \in SUBSET untagged
    BY <2>2 DEF ReturnsOf
  <2>4. SumFunction([p \in ofLot |-> piece[p].cost]) = CostOf(piece, i)
    <3> DEFINE f == [p \in Pieces |-> piece[p].cost]
               e == [p \in ofLot |-> piece[p].cost]
    <3>1. IsFiniteSet(ofLot) /\ DOMAIN e = ofLot /\ \A p \in ofLot : f[p] \in Int /\ e[p] = f[p]
      BY <2>0, <2>1, CostTypes
    <3>2. SumFunctionOnSet(f, ofLot) = CostOf(piece, i)
      BY <2>1 DEF CostOf
    <3>3. SumFunction(e) = SumFunctionOnSet(e, DOMAIN e)
      BY DEF SumFunction, SumFunctionOnSet
    <3> HIDE DEF e, f, ofLot
    <3>4. SumFunctionOnSet(e, ofLot) = SumFunctionOnSet(f, ofLot)
      BY <3>1, SumOfSame
    <3> QED
      BY <3>1, <3>2, <3>3, <3>4 DEF e
  <2>5. SumFunction([r \in gone |-> back[r].stock.cost]) = WentBack(back, gone)
    <3> DEFINE f == [r \in Returns |-> back[r].stock.cost]
               e == [r \in gone |-> back[r].stock.cost]
    <3>1. IsFiniteSet(gone) /\ DOMAIN e = gone /\ \A r \in gone : f[r] \in Int /\ e[r] = f[r]
      BY <2>0, CostTypes
    <3>2. SumFunctionOnSet(f, gone) = WentBack(back, gone)
      BY DEF WentBack
    <3>3. SumFunction(e) = SumFunctionOnSet(e, DOMAIN e)
      BY DEF SumFunction, SumFunctionOnSet
    <3> HIDE DEF e, f
    <3>4. SumFunctionOnSet(e, gone) = SumFunctionOnSet(f, gone)
      BY <3>1, SumOfSame
    <3> QED
      BY <3>1, <3>2, <3>3, <3>4 DEF e
  <2>6. CostOf(piece, i) \in Int /\ WentBack(back, gone) \in Int
    BY <2>0, CostTypes
  <2> HIDE DEF left, untagged, ofLot
  <2>7. left.cost >= 0 /\ left.pieces >= 0 /\ Cardinality(ofLot) = lot[i].tagged.pieces
    BY <2>1 DEF Shared
  <2>8. left.pieces = 0 /\ untagged = {} => left.cost = 0
    BY <2>1, <2>2, <2>3
  <2>9. SumFunction([p \in ofLot |-> piece[p].cost]) + SumFunction([r \in gone |-> back[r].stock.cost]) + left.cost
          = inward[i].line.cost
    BY <2>1, <2>2, <2>4, <2>5
  <2>10. \E x \in SUBSET untagged :
           SumFunction([p \in ofLot |-> piece[p].cost]) + SumFunction([r \in x |-> back[r].stock.cost]) + left.cost
             = inward[i].line.cost
    BY <2>3, <2>9
  <2> QED
    BY <2>7, <2>8, <2>10 DEF left, untagged, ofLot
<1> QED
  BY <1>1, <1>2, <1>3, GoodsInvHolds, PTL DEF Spec

-------------------------------------------------------------------------------
\* The balances.

\* A piece's share of its place's balance.
Worth(row) == [pieces |-> 1, gross |-> row.gross, net |-> row.net, cost |-> row.cost]

\* The pieces a place answers for: in stock there, or on an open transfer's way to it.
HeldAt(rows, docs, l) ==
  {p \in Pieces :
     \/ rows[p].status = "in_stock" /\ rows[p].place = l
     \/ \E t \in Transfers : /\ docs[t].status = "in_transit" /\ p \in docs[t].pieces
                             /\ Transit[BranchOf[docs[t].to]] = l}

\* Added up over all pieces there are.
Picked(rows, set) == [p \in Pieces |-> IF p \in set THEN Worth(rows[p]) ELSE Nothing]

\* Which of a set are put at a place, or taken from it.
PutAt(set, k, l) == IF k = l THEN set ELSE {}

TakenFrom(set, l) == {p \in set : piece[p].place = l}

\* What of a lot is neither tagged nor taken off.
Rest(row) == Minus(Minus(row.expected, row.tagged), row.difference)

\* What of each lot is on the books at a place and not a piece.
WaitingAt(lots, inwards, l) ==
  [i \in Inwards |-> IF lots[i].status = "none" \/ inwards[i].place # l THEN Nothing
                     ELSE IF inwards[i].status = "posted" THEN Rest(lots[i]) ELSE Minus(Nothing, lots[i].difference)]

\* A place's balance, told by its pieces and lots.
Told(l) == stock[<<"tagged", l>>] = Plus(Total(Picked(piece, HeldAt(piece, transfer, l))), Total(WaitingAt(lot, inward, l)))

\* At a counter only while requests come one at a time: on the road always.
RowsTold == \A l \in Places : l \notin Counters \/ Alone => Told(l)

\* No counter has less than nothing of its pieces; what is weighed is not counted.
Covered ==
  /\ \A l \in Counters : stock[<<"tagged", l>>].net >= 0 /\ stock[<<"tagged", l>>].pieces >= 0
  /\ \A l \in Places : stock[<<"metal", l>>].pieces = 0

\* Metal has no pieces.
Uncounted ==
  /\ \A t \in Transfers : transfer[t].metal.pieces = 0
  /\ \A i \in Inwards : inward[i].status # "none" /\ inward[i].line.item = "metal" => inward[i].line.pieces = 0

\* Where pieces are, or were sold.
PlacesTold ==
  /\ \A p \in Pieces : InStock(p) \/ piece[p].soldAt # None => piece[p].place \in Counters
  /\ \A p \in Pieces : piece[p].soldAt # None => bound.sells /\ piece[p].soldAt = piece[p].place
  /\ \A c \in Counts : count[c].status # "none" => bound.counts > 0
  /\ bound.counts = 0 => \A p \in Pieces, t \in Transfers : Carried(t, p) => piece[p].place = Transit[BranchOf[transfer[t].to]]

\* What a count about to be posted writes off was here and not moved here.
MissingTold ==
  \A s \in Sessions : asked[s].pc = "post" =>
    /\ asked[s].moveHere \cap asked[s].missing = {}
    /\ \A p \in asked[s].missing : /\ piece[p].status # "none"
                                   /\ Alone /\ InStock(p) => piece[p].place = count[asked[s].count].place

\* Nothing of a closed lot waits, or what stays on the books is a rest it was closed with.
Gone(i) == Rest(lot[i]) = Nothing \/ (\E r \in ReturnsOf(i) : back[r].stock.pieces > 0 /\ Rest(lot[i]).pieces = 0)
           \/ (Rest(lot[i]).pieces <= 0 /\ Rest(lot[i]).gross <= 0 /\ Rest(lot[i]).net <= 0)

\* What a lot's status says of its measures.
LotTold(i) ==
  lot[i].status # "none" =>
    /\ lot[i].tagged.pieces >= 0 /\ (lot[i].tagged.pieces = 0 => lot[i].tagged = Nothing)
    /\ lot[i].status = "open" => Posted(i) /\ lot[i].difference = Nothing
    /\ ReturnsOf(i) = {} => lot[i].expected = Received(inward[i].line)
    /\ lot[i].status = "closed" /\ Posted(i) => Gone(i)

\* What a clerk saw of a lot is still so.
ErrandOpen(c) ==
  LET e == errand[c] IN
  /\ e.pc \in {"tag", "return"} => lot[e.doc].status = "open"
  /\ e.pc = "cancel" => lot[e.doc].tagged.pieces = 0 /\ ReturnsOf(e.doc) = {}

LotsTold ==
  /\ \A i \in Inwards : inward[i].status # "none" /\ inward[i].line.item = "tagged" => lot[i].status # "none"
  /\ Alone => (\A i \in Inwards : LotTold(i)) /\ (\A c \in Clerks : ErrandOpen(c))

BooksInv == RowsTold /\ Covered /\ Uncounted /\ PlacesTold /\ MissingTold /\ LotsTold

-------------------------------------------------------------------------------
\* Measures added and taken away.

\* What is put to a measure and taken from it may be taken in any order.
LEMMA MeasuresMove ==
  ASSUME NEW h \in Measures, NEW w \in Measures, NEW a \in Measures, NEW b \in Measures
  PROVE  /\ Minus(Plus(Plus(h, w), a), b) = Plus(Minus(Plus(h, a), b), w)
         /\ Minus(Plus(Plus(h, w), a), b) = Plus(h, Minus(Plus(w, a), b))
         /\ Minus(Plus(h, a), a) = h /\ Plus(h, Nothing) = h /\ Plus(Nothing, h) = h
         /\ Plus(a, b) = Plus(b, a) /\ Minus(Minus(h, a), b) = Minus(h, Plus(a, b))
         /\ Minus(Plus(h, Nothing), a) = Minus(h, a)
BY DEF Measures, Plus, Minus, Nothing

\* Totals follow when every one of them changes.
LEMMA TotalOfSum ==
  ASSUME NEW S, IsFiniteSet(S), NEW f, NEW g, NEW a, NEW b, DOMAIN f = S, DOMAIN g = S, DOMAIN a = S, DOMAIN b = S,
         \A x \in S : f[x] \in Measures /\ a[x] \in Measures /\ b[x] \in Measures,
         \A x \in S : g[x] = Minus(Plus(f[x], a[x]), b[x])
  PROVE  /\ Total(f) \in Measures /\ Total(g) \in Measures /\ Total(a) \in Measures /\ Total(b) \in Measures
         /\ Total(g) = Minus(Plus(Total(f), Total(a)), Total(b))
<1> DEFINE P(m) == [x \in S |-> m[x].pieces]
           G(m) == [x \in S |-> m[x].gross]
           N(m) == [x \in S |-> m[x].net]
           C(m) == [x \in S |-> m[x].cost]
<1>1. \A x \in S : g[x] \in Measures
  BY MeasureFacts
<1>2. /\ Total(f) \in Measures /\ Total(g) \in Measures /\ Total(a) \in Measures /\ Total(b) \in Measures
      /\ Total(f) = Parted(f, S) /\ Total(g) = Parted(g, S) /\ Total(a) = Parted(a, S) /\ Total(b) = Parted(b, S)
  BY <1>1, TotalTyped, TotalByParts
<1>3. /\ Total(f) = [pieces |-> SumFunctionOnSet(P(f), S), gross |-> SumFunctionOnSet(G(f), S),
                     net |-> SumFunctionOnSet(N(f), S), cost |-> SumFunctionOnSet(C(f), S)]
      /\ Total(g) = [pieces |-> SumFunctionOnSet(P(g), S), gross |-> SumFunctionOnSet(G(g), S),
                     net |-> SumFunctionOnSet(N(g), S), cost |-> SumFunctionOnSet(C(g), S)]
      /\ Total(a) = [pieces |-> SumFunctionOnSet(P(a), S), gross |-> SumFunctionOnSet(G(a), S),
                     net |-> SumFunctionOnSet(N(a), S), cost |-> SumFunctionOnSet(C(a), S)]
      /\ Total(b) = [pieces |-> SumFunctionOnSet(P(b), S), gross |-> SumFunctionOnSet(G(b), S),
                     net |-> SumFunctionOnSet(N(b), S), cost |-> SumFunctionOnSet(C(b), S)]
  BY <1>2 DEF Parted
<1>4. \A x \in S :
        /\ P(f)[x] \in Int /\ P(a)[x] \in Int /\ P(b)[x] \in Int /\ P(g)[x] = (P(f)[x] + P(a)[x]) - P(b)[x]
        /\ G(f)[x] \in Int /\ G(a)[x] \in Int /\ G(b)[x] \in Int /\ G(g)[x] = (G(f)[x] + G(a)[x]) - G(b)[x]
        /\ N(f)[x] \in Int /\ N(a)[x] \in Int /\ N(b)[x] \in Int /\ N(g)[x] = (N(f)[x] + N(a)[x]) - N(b)[x]
        /\ C(f)[x] \in Int /\ C(a)[x] \in Int /\ C(b)[x] \in Int /\ C(g)[x] = (C(f)[x] + C(a)[x]) - C(b)[x]
  BY DEF Measures, Plus, Minus
<1>5. ASSUME NEW k, NEW l, NEW m, NEW n,
             \A x \in S : k[x] \in Int /\ l[x] \in Int /\ m[x] \in Int /\ n[x] = (k[x] + l[x]) - m[x]
      PROVE  SumFunctionOnSet(n, S) = (SumFunctionOnSet(k, S) + SumFunctionOnSet(l, S)) - SumFunctionOnSet(m, S)
  <2> DEFINE kl == [x \in S |-> k[x] + l[x]]
  <2>1. \A x \in S : k[x] \in Int /\ l[x] \in Int /\ kl[x] = k[x] + l[x]
    BY <1>5
  <2>2. \A x \in S : n[x] \in Int /\ m[x] \in Int /\ kl[x] = n[x] + m[x]
    BY <1>5
  <2> HIDE DEF kl
  <2>3. SumFunctionOnSet(kl, S) = SumFunctionOnSet(k, S) + SumFunctionOnSet(l, S)
    BY <2>1, SumOfSums
  <2>4. SumFunctionOnSet(kl, S) = SumFunctionOnSet(n, S) + SumFunctionOnSet(m, S)
    BY <2>2, SumOfSums
  <2>5. /\ SumFunctionOnSet(n, S) \in Int /\ SumFunctionOnSet(m, S) \in Int
        /\ SumFunctionOnSet(k, S) \in Int /\ SumFunctionOnSet(l, S) \in Int
    BY <2>1, <2>2, SumInt
  <2> QED
    BY <2>3, <2>4, <2>5
<1> HIDE DEF P, G, N, C
<1>6. SumFunctionOnSet(P(g), S) = (SumFunctionOnSet(P(f), S) + SumFunctionOnSet(P(a), S)) - SumFunctionOnSet(P(b), S)
  <2>1. \A x \in S : P(f)[x] \in Int /\ P(a)[x] \in Int /\ P(b)[x] \in Int /\ P(g)[x] = (P(f)[x] + P(a)[x]) - P(b)[x]
    BY <1>4
  <2> QED
    BY <1>5, <2>1
<1>7. SumFunctionOnSet(G(g), S) = (SumFunctionOnSet(G(f), S) + SumFunctionOnSet(G(a), S)) - SumFunctionOnSet(G(b), S)
  <2>1. \A x \in S : G(f)[x] \in Int /\ G(a)[x] \in Int /\ G(b)[x] \in Int /\ G(g)[x] = (G(f)[x] + G(a)[x]) - G(b)[x]
    BY <1>4
  <2> QED
    BY <1>5, <2>1
<1>8. SumFunctionOnSet(N(g), S) = (SumFunctionOnSet(N(f), S) + SumFunctionOnSet(N(a), S)) - SumFunctionOnSet(N(b), S)
  <2>1. \A x \in S : N(f)[x] \in Int /\ N(a)[x] \in Int /\ N(b)[x] \in Int /\ N(g)[x] = (N(f)[x] + N(a)[x]) - N(b)[x]
    BY <1>4
  <2> QED
    BY <1>5, <2>1
<1>9. SumFunctionOnSet(C(g), S) = (SumFunctionOnSet(C(f), S) + SumFunctionOnSet(C(a), S)) - SumFunctionOnSet(C(b), S)
  <2>1. \A x \in S : C(f)[x] \in Int /\ C(a)[x] \in Int /\ C(b)[x] \in Int /\ C(g)[x] = (C(f)[x] + C(a)[x]) - C(b)[x]
    BY <1>4
  <2> QED
    BY <1>5, <2>1
<1>10. Total(g) = Minus(Plus(Total(f), Total(a)), Total(b))
  BY <1>3, <1>6, <1>7, <1>8, <1>9 DEF Plus, Minus
<1> QED
  BY <1>2, <1>10

-------------------------------------------------------------------------------
\* Pieces picked out.

\* What is picked is measures, and its total is never below nothing.
LEMMA PickedTyped ==
  ASSUME NEW rows \in [Pieces -> PieceRows], NEW set
  PROVE  /\ DOMAIN Picked(rows, set) = Pieces /\ \A p \in Pieces : Picked(rows, set)[p] \in Measures
         /\ \A p \in Pieces : Worth(rows[p]) \in Measures /\ Worth(rows[p]).net >= 0 /\ Worth(rows[p]).pieces = 1
         /\ Total(Picked(rows, set)) \in Measures
         /\ Total(Picked(rows, set)).net >= 0 /\ Total(Picked(rows, set)).pieces >= 0
<1> DEFINE f == Picked(rows, set)
<1>1. \A p \in Pieces : Worth(rows[p]) \in Measures /\ Worth(rows[p]).net >= 0 /\ Worth(rows[p]).pieces = 1
  BY DEF Worth, Measures, PieceRows
<1>2. /\ DOMAIN f = Pieces
      /\ \A p \in Pieces : f[p] = Nothing \/ f[p] = Worth(rows[p])
  BY DEF Picked
<1>3. Nothing \in Measures /\ Nothing.net = 0 /\ Nothing.pieces = 0
  BY DEF Nothing, Measures
<1> HIDE DEF f
<1>4. \A p \in Pieces : f[p] \in Measures /\ f[p].net \in Nat /\ f[p].pieces \in Nat
  <2> SUFFICES ASSUME NEW p \in Pieces PROVE f[p] \in Measures /\ f[p].net \in Nat /\ f[p].pieces \in Nat
    OBVIOUS
  <2>1. f[p] \in Measures /\ f[p].net >= 0 /\ f[p].pieces >= 0
    BY <1>1, <1>2, <1>3
  <2> QED
    BY <2>1 DEF Measures
<1>5. Total(f) \in Measures /\ Total(f) = Parted(f, Pieces)
  BY <1>2, <1>4, GoodsFinite, TotalTyped, TotalByParts
<1>6. Total(f).net \in Nat /\ Total(f).pieces \in Nat
  <2> DEFINE n == [p \in Pieces |-> f[p].net]
             k == [p \in Pieces |-> f[p].pieces]
  <2>1. Total(f).net = SumFunctionOnSet(n, Pieces) /\ Total(f).pieces = SumFunctionOnSet(k, Pieces)
    BY <1>2, <1>5 DEF Parted
  <2>2. \A p \in Pieces : n[p] \in Nat /\ k[p] \in Nat
    BY <1>4
  <2> HIDE DEF n, k
  <2> QED
    BY <2>1, <2>2, GoodsFinite, SumNat
<1> QED
  BY <1>1, <1>2, <1>4, <1>5, <1>6 DEF f

\* From what is there to what is there after some came and some went.
LEMMA PickedMoves ==
  ASSUME NEW rows \in [Pieces -> PieceRows], NEW next \in [Pieces -> PieceRows],
         NEW here, NEW now, NEW came, NEW went,
         \A p \in Pieces : IF (p \in came) <=> (p \in went) THEN (p \in now) <=> (p \in here)
                           ELSE ((p \in here) <=> (p \in went)) /\ ((p \in now) <=> (p \in came)),
         \A p \in Pieces : p \in now => Worth(next[p]) = Worth(rows[p])
  PROVE  Total(Picked(next, now)) = Minus(Plus(Total(Picked(rows, here)), Total(Picked(rows, came))), Total(Picked(rows, went)))
<1> DEFINE f == Picked(rows, here)
           g == Picked(next, now)
           a == Picked(rows, came)
           b == Picked(rows, went)
<1>1. /\ DOMAIN f = Pieces /\ DOMAIN g = Pieces /\ DOMAIN a = Pieces /\ DOMAIN b = Pieces
      /\ \A p \in Pieces : f[p] \in Measures /\ a[p] \in Measures /\ b[p] \in Measures
  BY PickedTyped
<1>2. ASSUME NEW p \in Pieces PROVE g[p] = Minus(Plus(f[p], a[p]), b[p])
  <2> DEFINE w == Worth(rows[p])
             v == Worth(next[p])
  <2>1. /\ f[p] = (IF p \in here THEN w ELSE Nothing) /\ a[p] = (IF p \in came THEN w ELSE Nothing)
        /\ b[p] = (IF p \in went THEN w ELSE Nothing) /\ g[p] = (IF p \in now THEN v ELSE Nothing)
    BY DEF Picked
  <2>2. w \in Measures /\ Nothing \in Measures /\ (p \in now => v = w)
    BY PickedTyped, MeasureFacts
  <2> HIDE DEF w, v, f, g, a, b
  <2>3. /\ Minus(Plus(w, w), w) = w /\ Minus(Plus(Nothing, w), w) = Nothing /\ Minus(Plus(Nothing, w), Nothing) = w
        /\ Minus(Plus(w, Nothing), w) = Nothing /\ Minus(Plus(w, Nothing), Nothing) = w
        /\ Minus(Plus(Nothing, Nothing), Nothing) = Nothing
    BY <2>2 DEF Measures, Plus, Minus, Nothing
  <2> QED
    BY <2>1, <2>2, <2>3
<1> HIDE DEF f, g, a, b
<1>3. Total(g) = Minus(Plus(Total(f), Total(a)), Total(b))
  BY <1>1, <1>2, GoodsFinite, TotalOfSum
<1> QED
  BY <1>3 DEF f, g, a, b

\* Nothing picked, nothing there.
LEMMA PickedNone ==
  ASSUME NEW rows \in [Pieces -> PieceRows]
  PROVE  Total(Picked(rows, {})) = Nothing
<1> DEFINE e == Picked(rows, {})
           f == [x \in {} |-> Nothing]
<1>1. DOMAIN e = Pieces /\ \A p \in Pieces \ {} : e[p] = Nothing
  BY DEF Picked
<1>2. DOMAIN f = {} /\ {} \in SUBSET Pieces
  OBVIOUS
<1> HIDE DEF e, f
<1>3. \A p \in {} : f[p] \in Measures /\ e[p] = f[p]
  OBVIOUS
<1>4. Total(f) = Total(e)
  BY <1>1, <1>2, <1>3, GoodsFinite, TotalOfPart
<1>5. Total(f) = Nothing
  BY <1>2, TotalOfNone
<1> QED
  BY <1>4, <1>5 DEF e

\* One piece picked is its worth.
LEMMA PickedOne ==
  ASSUME NEW rows \in [Pieces -> PieceRows], NEW p \in Pieces
  PROVE  Total(Picked(rows, {p})) = Worth(rows[p])
<1> DEFINE e == Picked(rows, {p})
           f == Picked(rows, {})
<1>1. /\ DOMAIN e = Pieces /\ DOMAIN f = Pieces
      /\ \A x \in Pieces : f[x] \in Measures /\ e[x] \in Measures
      /\ Worth(rows[p]) \in Measures
  BY PickedTyped
<1>2. e[p] = Worth(rows[p]) /\ f[p] = Nothing /\ \A x \in Pieces \ {p} : e[x] = f[x]
  BY DEF Picked
<1> HIDE DEF e, f
<1>3. Total(e) = Minus(Plus(Total(f), e[p]), f[p])
  BY <1>1, <1>2, GoodsFinite, TotalChanges
<1>4. Total(f) = Nothing
  BY PickedNone DEF f
<1> QED
  BY <1>1, <1>2, <1>3, <1>4, MeasureFacts DEF e

\* Two lots of pieces apart from each other.
LEMMA PickedBoth ==
  ASSUME NEW rows \in [Pieces -> PieceRows], NEW A \in SUBSET Pieces, NEW B \in SUBSET Pieces, A \cap B = {}
  PROVE  Total(Picked(rows, A \cup B)) = Plus(Total(Picked(rows, A)), Total(Picked(rows, B)))
<1> DEFINE C == A \cup B
           N == {}
<1>1. \A p \in Pieces : IF (p \in B) <=> (p \in N) THEN (p \in C) <=> (p \in A)
                        ELSE ((p \in A) <=> (p \in N)) /\ ((p \in C) <=> (p \in B))
  OBVIOUS
<1> HIDE DEF C, N
<1>2. Total(Picked(rows, C)) = Minus(Plus(Total(Picked(rows, A)), Total(Picked(rows, B))), Total(Picked(rows, N)))
  BY <1>1, PickedMoves
<1>3. Total(Picked(rows, N)) = Nothing
  BY PickedNone DEF N
<1>4. Plus(Total(Picked(rows, A)), Total(Picked(rows, B))) \in Measures
  BY PickedTyped, MeasureFacts
<1> QED
  BY <1>2, <1>3, <1>4, MeasureFacts DEF C

\* A batch moves, in a place's row, the pieces it lists for that place.
LEMMA PickedTotal ==
  ASSUME piece \in [Pieces -> PieceRows], NEW place, DOMAIN place \subseteq Pieces, NEW l \in Places
  PROVE  PiecesAt(place)[<<"tagged", l>>] = Total(Picked(piece, {p \in DOMAIN place : place[p] = l}))
<1> DEFINE R == {p \in DOMAIN place : <<"tagged", place[p]>> = <<"tagged", l>>}
           T == {p \in DOMAIN place : place[p] = l}
           f == [p \in R |-> Weighed(p)]
           e == Picked(piece, T)
<1>1. <<"tagged", l>> \in Rows
  BY DEF Rows
<1>2. PiecesAt(place)[<<"tagged", l>>] = Total(f)
  BY <1>1 DEF PiecesAt
<1>3. R = T /\ R \in SUBSET Pieces
  OBVIOUS
<1>4. \A p \in Pieces : e[p] \in Measures
  BY PickedTyped
<1>5. /\ DOMAIN f = R /\ DOMAIN e = Pieces
      /\ \A p \in R : e[p] = f[p]
      /\ \A p \in Pieces \ R : e[p] = Nothing
  BY <1>3 DEF Picked, Worth, Weighed
<1> HIDE DEF R, T, f, e
<1>6. \A p \in R : f[p] \in Measures /\ e[p] = f[p]
  BY <1>3, <1>4, <1>5
<1>7. Total(f) = Total(e)
  BY <1>3, <1>5, <1>6, GoodsFinite, TotalOfPart
<1> QED
  BY <1>2, <1>7 DEF e, T

\* Pieces moved from where they are.
LEMMA PiecesTaken ==
  ASSUME piece \in [Pieces -> PieceRows], NEW set \in SUBSET Pieces, NEW l \in Places
  PROVE  PiecesAt(WhereItIs(set))[<<"tagged", l>>] = Total(Picked(piece, TakenFrom(set, l)))
<1> DEFINE place == WhereItIs(set)
           T == {p \in DOMAIN place : place[p] = l}
<1>1. DOMAIN place \subseteq Pieces /\ T = TakenFrom(set, l)
  BY DEF WhereItIs, TakenFrom
<1> HIDE DEF place
<1>2. PiecesAt(place)[<<"tagged", l>>] = Total(Picked(piece, {p \in DOMAIN place : place[p] = l}))
  BY <1>1, PickedTotal
<1> QED
  BY <1>1, <1>2 DEF place

\* Pieces moved to one place.
LEMMA PiecesPut ==
  ASSUME piece \in [Pieces -> PieceRows], NEW set \in SUBSET Pieces, NEW l \in Places, NEW k
  PROVE  PiecesAt(AllAt(set, k))[<<"tagged", l>>] = Total(Picked(piece, PutAt(set, k, l)))
<1> DEFINE place == AllAt(set, k)
           T == {p \in DOMAIN place : place[p] = l}
<1>1. DOMAIN place \subseteq Pieces /\ T = PutAt(set, k, l)
  BY DEF AllAt, PutAt
<1> HIDE DEF place
<1>2. PiecesAt(place)[<<"tagged", l>>] = Total(Picked(piece, {p \in DOMAIN place : place[p] = l}))
  BY <1>1, PickedTotal
<1> QED
  BY <1>1, <1>2 DEF place

-------------------------------------------------------------------------------
\* What a batch does to the pieces of a place.

\* A batch that is let through leaves no counter with less than nothing (recordMovements,
\* stock.service.ts:55-200).
LEMMA BatchCovers ==
  ASSUME stock \in [Rows -> Measures], Covered, NEW into \in [Rows -> Measures], NEW out \in [Rows -> Measures],
         NEW allowed \in BOOLEAN, recordMovements(into, out, allowed),
         \A l \in Counters : into[<<"tagged", l>>].net >= 0 /\ into[<<"tagged", l>>].pieces >= 0,
         allowed => \A l \in Counters : out[<<"tagged", l>>] = Nothing,
         \A l \in Places : into[<<"metal", l>>].pieces = 0 /\ out[<<"metal", l>>].pieces = 0
  PROVE  /\ Covered'
         /\ \A l \in Places : stock'[<<"tagged", l>>] =
              Minus(Plus(stock[<<"tagged", l>>], into[<<"tagged", l>>]), out[<<"tagged", l>>])
<1>1. \A r \in Rows : stock'[r] = Minus(Plus(stock[r], into[r]), out[r])
  BY RecordFacts
<1>2. \A l \in Places : <<"tagged", l>> \in Rows /\ <<"metal", l>> \in Rows
  BY DEF Rows
<1>3. ASSUME NEW l \in Counters
      PROVE  stock'[<<"tagged", l>>].net >= 0 /\ stock'[<<"tagged", l>>].pieces >= 0
  <2> DEFINE r == <<"tagged", l>>
             s0 == stock[r]
             i0 == into[r]
             o0 == out[r]
  <2>1. r \in Rows /\ r[1] = "tagged"
    BY <1>2 DEF Counters
  <2>2. s0 \in Measures /\ i0 \in Measures /\ o0 \in Measures /\ stock'[r] = Minus(Plus(s0, i0), o0)
    BY <1>1, <2>1
  <2>3. s0.net >= 0 /\ s0.pieces >= 0 /\ i0.net >= 0 /\ i0.pieces >= 0
    BY DEF Covered
  <2>4. CASE o0 = Nothing
    <3> HIDE DEF r, s0, i0, o0
    <3>1. stock'[r] = Plus(s0, i0)
      BY <2>2, <2>4, MeasureFacts
    <3>2. Plus(s0, i0).net = s0.net + i0.net /\ Plus(s0, i0).pieces = s0.pieces + i0.pieces
      BY DEF Plus
    <3>3. s0.net \in Int /\ s0.pieces \in Int /\ i0.net \in Int /\ i0.pieces \in Int
      BY <2>2 DEF Measures
    <3> QED
      BY <2>3, <3>1, <3>2, <3>3 DEF r
  <2>5. CASE o0 # Nothing
    <3>1. ~allowed
      BY <2>5
    <3>2. ~Short(r, Minus(Plus(s0, i0), o0))
      <4>1. \A x \in Rows : out[x] # Nothing => ~Short(x, Minus(Plus(stock[x], into[x]), out[x]))
        BY <3>1 DEF recordMovements
      <4> QED
        BY <2>1, <2>5, <4>1
    <3> HIDE DEF s0, i0, o0
    <3>3. ~Short(r, stock'[r])
      BY <2>2, <3>2
    <3>4. stock'[r] \in Measures
      BY <2>2, MeasureFacts
    <3> HIDE DEF r
    <3>5. stock'[r].net >= 0 /\ stock'[r].pieces >= 0
      BY <2>1, <3>3, <3>4 DEF Short, Measures
    <3> QED
      BY <3>5 DEF r
  <2> QED
    BY <2>4, <2>5
<1>4. ASSUME NEW l \in Places PROVE stock'[<<"metal", l>>].pieces = 0
  <2> DEFINE r == <<"metal", l>>
  <2>1. stock'[r] = Minus(Plus(stock[r], into[r]), out[r])
    BY <1>1, <1>2
  <2>2. stock[r].pieces = 0 /\ into[r].pieces = 0 /\ out[r].pieces = 0
    BY DEF Covered
  <2> HIDE DEF r
  <2>3. stock'[r].pieces = (0 + 0) - 0
    BY <2>1, <2>2 DEF Plus, Minus
  <2> QED
    BY <2>3 DEF r
<1> QED
  BY <1>1, <1>2, <1>3, <1>4 DEF Covered

\* Pieces in rows where metal is moved too.
LEMMA TaggedOf ==
  ASSUME NEW f \in [Rows -> Measures], \A l \in Places : f[<<"metal", l>>] = Nothing, NEW k, NEW m \in Measures, m.pieces = 0
  PROVE  /\ With(f, At("metal", k, m)) \in [Rows -> Measures]
         /\ \A l \in Places : With(f, At("metal", k, m))[<<"tagged", l>>] = f[<<"tagged", l>>]
         /\ \A l \in Places : With(f, At("metal", k, m))[<<"metal", l>>].pieces = 0
<1> DEFINE g == At("metal", k, m)
<1>1. g \in [Rows -> Measures] /\ \A r \in Rows : g[r] = IF r = <<"metal", k>> THEN m ELSE Nothing
  BY AtTyped
<1> HIDE DEF g
<1>2. With(f, g) \in [Rows -> Measures] /\ \A r \in Rows : With(f, g)[r] = Plus(f[r], g[r])
  BY <1>1, WithTyped
<1>3. ASSUME NEW l \in Places
      PROVE  With(f, g)[<<"tagged", l>>] = f[<<"tagged", l>>] /\ With(f, g)[<<"metal", l>>].pieces = 0
  <2>1. <<"metal", l>> \in Rows /\ <<"tagged", l>> \in Rows /\ <<"tagged", l>> # <<"metal", k>>
    BY DEF Rows
  <2>2. With(f, g)[<<"tagged", l>>] = f[<<"tagged", l>>]
    <3>1. f[<<"tagged", l>>] \in Measures /\ g[<<"tagged", l>>] = Nothing
      BY <1>1, <2>1
    <3> QED
      BY <1>2, <2>1, <3>1, MeasureFacts
  <2>3. With(f, g)[<<"metal", l>>] = g[<<"metal", l>>]
    <3>1. f[<<"metal", l>>] = Nothing /\ g[<<"metal", l>>] \in Measures
      BY <1>1, <2>1
    <3> QED
      BY <1>2, <2>1, <3>1, MeasureFacts
  <2>4. g[<<"metal", l>>].pieces = 0
    BY <1>1, <2>1 DEF Nothing
  <2> QED
    BY <2>2, <2>3, <2>4
<1> QED
  BY <1>2, <1>3 DEF g

\* Pieces and metal put somewhere, or taken from where they are.
LEMMA BatchInto ==
  ASSUME piece \in [Pieces -> PieceRows], NEW set \in SUBSET Pieces, NEW k, NEW m \in Measures, m.pieces = 0, NEW j
  PROVE  LET into == With(PiecesAt(AllAt(set, j)), At("metal", k, m)) IN
         /\ into \in [Rows -> Measures]
         /\ \A l \in Places : /\ into[<<"tagged", l>>] = Total(Picked(piece, PutAt(set, j, l)))
                              /\ into[<<"tagged", l>>].net >= 0 /\ into[<<"tagged", l>>].pieces >= 0
                              /\ into[<<"metal", l>>].pieces = 0
<1> DEFINE f == PiecesAt(AllAt(set, j))
<1>1. f \in [Rows -> Measures] /\ \A l \in Places : f[<<"metal", l>>] = Nothing
  BY PiecesAtPlaces
<1>2. \A l \in Places : /\ f[<<"tagged", l>>] = Total(Picked(piece, PutAt(set, j, l)))
                        /\ f[<<"tagged", l>>].net >= 0 /\ f[<<"tagged", l>>].pieces >= 0
  BY PiecesPut, PickedTyped
<1> HIDE DEF f
<1>3. /\ With(f, At("metal", k, m)) \in [Rows -> Measures]
      /\ \A l \in Places : With(f, At("metal", k, m))[<<"tagged", l>>] = f[<<"tagged", l>>]
      /\ \A l \in Places : With(f, At("metal", k, m))[<<"metal", l>>].pieces = 0
  BY <1>1, TaggedOf
<1> QED
  BY <1>2, <1>3 DEF f

\* Taken from where they are.
LEMMA BatchOut ==
  ASSUME piece \in [Pieces -> PieceRows], NEW set \in SUBSET Pieces, NEW k, NEW m \in Measures, m.pieces = 0
  PROVE  LET out == With(PiecesAt(WhereItIs(set)), At("metal", k, m)) IN
         /\ out \in [Rows -> Measures]
         /\ \A l \in Places : /\ out[<<"tagged", l>>] = Total(Picked(piece, TakenFrom(set, l)))
                              /\ out[<<"metal", l>>].pieces = 0
<1> DEFINE f == PiecesAt(WhereItIs(set))
<1>1. f \in [Rows -> Measures] /\ \A l \in Places : f[<<"metal", l>>] = Nothing
  BY PiecesAtPlaces
<1>2. \A l \in Places : f[<<"tagged", l>>] = Total(Picked(piece, TakenFrom(set, l)))
  BY PiecesTaken
<1> HIDE DEF f
<1>3. /\ With(f, At("metal", k, m)) \in [Rows -> Measures]
      /\ \A l \in Places : With(f, At("metal", k, m))[<<"tagged", l>>] = f[<<"tagged", l>>]
      /\ \A l \in Places : With(f, At("metal", k, m))[<<"metal", l>>].pieces = 0
  BY <1>1, TaggedOf
<1> QED
  BY <1>2, <1>3 DEF f

\* What waits to be tagged.
LEMMA WaitingTyped ==
  ASSUME lot \in [Inwards -> LotRows], NEW inwards, NEW l
  PROVE  /\ DOMAIN WaitingAt(lot, inwards, l) = Inwards
         /\ \A i \in Inwards : /\ WaitingAt(lot, inwards, l)[i] \in Measures /\ Rest(lot[i]) \in Measures
                               /\ lot[i].expected \in Measures /\ lot[i].tagged \in Measures /\ lot[i].difference \in Measures
         /\ Total(WaitingAt(lot, inwards, l)) \in Measures
<1> DEFINE f == WaitingAt(lot, inwards, l)
<1>1. ASSUME NEW i \in Inwards
      PROVE  /\ Rest(lot[i]) \in Measures
             /\ lot[i].expected \in Measures /\ lot[i].tagged \in Measures /\ lot[i].difference \in Measures
  <2>1. lot[i].expected \in Measures /\ lot[i].tagged \in Measures /\ lot[i].difference \in Measures
    BY DEF LotRows
  <2> QED
    BY <2>1, MeasureFacts DEF Rest
<1>2. DOMAIN f = Inwards
  BY DEF WaitingAt
<1>3. \A i \in Inwards : f[i] = Nothing \/ f[i] = Rest(lot[i]) \/ f[i] = Minus(Nothing, lot[i].difference)
  BY DEF WaitingAt
<1>4. \A i \in Inwards : f[i] \in Measures
  BY <1>1, <1>3, MeasureFacts
<1> HIDE DEF f
<1>5. Total(f) \in Measures
  BY <1>2, <1>4, GoodsFinite, TotalTyped
<1> QED
  BY <1>1, <1>2, <1>4, <1>5 DEF f

\* Pieces come and go, and what waits stays.
LEMMA ToldMoves ==
  ASSUME GoodsTypeOK, GoodsTypeOK', NEW l \in Places, Told(l), NEW came, NEW went,
         stock'[<<"tagged", l>>] =
           Minus(Plus(stock[<<"tagged", l>>], Total(Picked(piece, came))), Total(Picked(piece, went))),
         \A p \in Pieces :
           IF (p \in came) <=> (p \in went) THEN (p \in HeldAt(piece', transfer', l)) <=> (p \in HeldAt(piece, transfer, l))
           ELSE ((p \in HeldAt(piece, transfer, l)) <=> (p \in went)) /\ ((p \in HeldAt(piece', transfer', l)) <=> (p \in came)),
         \A p \in Pieces : p \in HeldAt(piece', transfer', l) => Worth(piece'[p]) = Worth(piece[p]),
         WaitingAt(lot', inward', l) = WaitingAt(lot, inward, l)
  PROVE  Told(l)'
<1> DEFINE here == HeldAt(piece, transfer, l)
           now == HeldAt(piece', transfer', l)
           rows == piece
           next == piece'
           h == Total(Picked(rows, here))
           n == Total(Picked(next, now))
           a == Total(Picked(rows, came))
           b == Total(Picked(rows, went))
           w == Total(WaitingAt(lot, inward, l))
<1>1. rows \in [Pieces -> PieceRows] /\ next \in [Pieces -> PieceRows] /\ lot \in [Inwards -> LotRows]
  BY DEF GoodsTypeOK, PurchasesTypeOK
<1>2. /\ \A p \in Pieces : IF (p \in came) <=> (p \in went) THEN (p \in now) <=> (p \in here)
                           ELSE ((p \in here) <=> (p \in went)) /\ ((p \in now) <=> (p \in came))
      /\ \A p \in Pieces : p \in now => Worth(next[p]) = Worth(rows[p])
  OBVIOUS
<1>3. stock'[<<"tagged", l>>] = Minus(Plus(Plus(h, w), a), b)
  BY DEF Told
<1>4. w \in Measures
  BY <1>1, WaitingTyped
<1>5. Told(l)' <=> stock'[<<"tagged", l>>] = Plus(n, w)
  BY DEF Told
<1> HIDE DEF here, now, rows, next, w
<1>6. h \in Measures /\ a \in Measures /\ b \in Measures
  BY <1>1, PickedTyped
<1>7. n = Minus(Plus(h, a), b)
  BY <1>1, <1>2, PickedMoves
<1> HIDE DEF h, a, b, n
<1> QED
  BY <1>3, <1>4, <1>5, <1>6, <1>7, MeasuresMove

-------------------------------------------------------------------------------
\* Transfers, piece by piece.

\* What sending goods does to pieces and to the rows of pieces (transfer.service.ts).
LEMMA dispatchTransferMoves ==
  ASSUME GoodsInv, Covered, NEW s \in Sessions, dispatchTransfer(s)
  PROVE  \E from, to \in Counters, set \in SUBSET Pieces, m \in Measures, t \in Transfers :
           /\ \A p \in set : InStock(p) /\ piece[p].place = from
           /\ m.pieces = 0 /\ transfer[t].status = "none"
           /\ transfer' = [transfer EXCEPT ![t] =
                [status |-> IF BranchOf[from] = BranchOf[to] THEN "received" ELSE "in_transit",
                 from |-> from, to |-> to, pieces |-> set, metal |-> m]]
           /\ piece' = [p \in Pieces |-> IF p \in set
                THEN [piece[p] EXCEPT !.place = landing(from, to),
                                      !.status = IF BranchOf[from] = BranchOf[to] THEN "in_stock" ELSE "in_transit"]
                ELSE piece[p]]
           /\ Covered'
           /\ \A l \in Places : stock'[<<"tagged", l>>] =
                Minus(Plus(stock[<<"tagged", l>>], Total(Picked(piece, PutAt(set, landing(from, to), l)))),
                      Total(Picked(piece, TakenFrom(set, l))))
           /\ UNCHANGED <<bound, count, asked>>
<1>0. piece \in [Pieces -> PieceRows] /\ stock \in [Rows -> Measures] /\ MetalTold /\ bound \in Bounds
  BY DEF GoodsInv, GoodsTypeOK
<1>1. PICK from, to \in Counters, set \in SUBSET Pieces, weight \in Scales :
        LET sent == Sent(set, weight, from)
            there == landing(from, to)
            sameBranch == BranchOf[from] = BranchOf[to]
        IN
        /\ Atomic(s)
        /\ from # to /\ (set # {} \/ weight > 0)
        /\ \A p \in set : InStock(p) /\ piece[p].place = from
        /\ \E t \in Unused(transfer, bound.transfers) :
             transfer' = [transfer EXCEPT ![t] =
               [status |-> IF sameBranch THEN "received" ELSE "in_transit",
                from |-> from, to |-> to, pieces |-> set, metal |-> sent.metal]]
        /\ recordMovements(With(PiecesAt(AllAt(set, there)), At("metal", there, sent.metal)),
                           With(sent.tagged, At("metal", from, sent.metal)), FALSE)
        /\ piece' = [p \in Pieces |-> IF p \in set
             THEN [piece[p] EXCEPT !.place = there, !.status = IF sameBranch THEN "in_stock" ELSE "in_transit"]
             ELSE piece[p]]
        /\ UNCHANGED <<bound, count, asked>>
  BY Zenon DEF dispatchTransfer
<1> DEFINE sent == Sent(set, weight, from)
           m == sent.metal
           where == landing(from, to)
           into == With(PiecesAt(AllAt(set, where)), At("metal", where, m))
           out == With(PiecesAt(WhereItIs(set)), At("metal", from, m))
           allowed == FALSE
<1>2. PICK t \in Unused(transfer, bound.transfers) :
        transfer' = [transfer EXCEPT ![t] =
               [status |-> IF BranchOf[from] = BranchOf[to] THEN "received" ELSE "in_transit",
                from |-> from, to |-> to, pieces |-> set, metal |-> m]]
  BY <1>1
<1>3. t \in Transfers /\ transfer[t].status = "none"
  BY <1>0, BoundFacts
<1>4. sent.tagged = PiecesAt(WhereItIs(set)) /\ m \in Measures
  BY SentFacts
<1>5. /\ \A p \in set : InStock(p) /\ piece[p].place = from
      /\ recordMovements(into, out, allowed) /\ allowed \in BOOLEAN /\ ~allowed
      /\ piece' = [p \in Pieces |-> IF p \in set
                THEN [piece[p] EXCEPT !.place = landing(from, to),
                                      !.status = IF BranchOf[from] = BranchOf[to] THEN "in_stock" ELSE "in_transit"]
                ELSE piece[p]]
      /\ UNCHANGED <<bound, count, asked>>
  BY <1>1, <1>4
<1>6. m.pieces = 0
  <2>1. m = IF weight = 0 THEN Nothing ELSE lotMovement(from, weight)
    BY DEF Sent
  <2>2. weight \in Int
    BY FloorAssumption
  <2>3. lotMovement(from, weight).pieces = 0 /\ Nothing.pieces = 0
    BY <1>0, <2>2, LotMovementTyped DEF Nothing
  <2> QED
    BY <2>1, <2>3
<1> HIDE DEF sent, m, where, allowed
<1>7. /\ into \in [Rows -> Measures] /\ out \in [Rows -> Measures]
      /\ \A l \in Places : /\ into[<<"tagged", l>>] = Total(Picked(piece, PutAt(set, where, l)))
                           /\ into[<<"tagged", l>>].net >= 0 /\ into[<<"tagged", l>>].pieces >= 0
                           /\ into[<<"metal", l>>].pieces = 0
                           /\ out[<<"tagged", l>>] = Total(Picked(piece, TakenFrom(set, l)))
                           /\ out[<<"metal", l>>].pieces = 0
  <2>1. /\ into \in [Rows -> Measures]
        /\ \A l \in Places : /\ into[<<"tagged", l>>] = Total(Picked(piece, PutAt(set, where, l)))
                             /\ into[<<"tagged", l>>].net >= 0 /\ into[<<"tagged", l>>].pieces >= 0
                             /\ into[<<"metal", l>>].pieces = 0
    BY <1>0, <1>4, <1>6, BatchInto
  <2>2. /\ out \in [Rows -> Measures]
        /\ \A l \in Places : /\ out[<<"tagged", l>>] = Total(Picked(piece, TakenFrom(set, l)))
                             /\ out[<<"metal", l>>].pieces = 0
    BY <1>0, <1>4, <1>6, BatchOut
  <2> QED
    BY <2>1, <2>2
<1> HIDE DEF into, out
<1>8. /\ \A l \in Counters : into[<<"tagged", l>>].net >= 0 /\ into[<<"tagged", l>>].pieces >= 0
      /\ \A l \in Places : into[<<"metal", l>>].pieces = 0 /\ out[<<"metal", l>>].pieces = 0
      /\ allowed => \A l \in Counters : out[<<"tagged", l>>] = Nothing
  BY <1>5, <1>7 DEF Counters
<1>9. /\ Covered'
      /\ \A l \in Places : stock'[<<"tagged", l>>] =
           Minus(Plus(stock[<<"tagged", l>>], into[<<"tagged", l>>]), out[<<"tagged", l>>])
  BY <1>0, <1>5, <1>7, <1>8, BatchCovers
<1>10. \A l \in Places : stock'[<<"tagged", l>>] =
         Minus(Plus(stock[<<"tagged", l>>], Total(Picked(piece, PutAt(set, landing(from, to), l)))),
               Total(Picked(piece, TakenFrom(set, l))))
  BY <1>7, <1>9 DEF where
<1> QED
  BY <1>2, <1>3, <1>4, <1>5, <1>6, <1>9, <1>10

\* Goods sent leave their counter's books and are on the books of where they are going.
LEMMA dispatchTransferTold ==
  ASSUME GoodsInv, GoodsTypeOK', RoadInv, BooksInv, NEW s \in Sessions, dispatchTransfer(s), UNCHANGED purchaseVars
  PROVE  RowsTold' /\ Covered' /\ Uncounted'
<1>0. /\ piece \in [Pieces -> PieceRows] /\ transfer \in [Transfers -> TransferRows]
      /\ RowsTold /\ Covered /\ Uncounted
  BY DEF GoodsInv, GoodsTypeOK, FloorTypeOK, BooksInv
<1>1. PICK from, to \in Counters, set \in SUBSET Pieces, m \in Measures, t \in Transfers :
        /\ \A p \in set : InStock(p) /\ piece[p].place = from
        /\ m.pieces = 0 /\ transfer[t].status = "none"
        /\ transfer' = [transfer EXCEPT ![t] =
             [status |-> IF BranchOf[from] = BranchOf[to] THEN "received" ELSE "in_transit",
              from |-> from, to |-> to, pieces |-> set, metal |-> m]]
        /\ piece' = [p \in Pieces |-> IF p \in set
             THEN [piece[p] EXCEPT !.place = landing(from, to),
                                   !.status = IF BranchOf[from] = BranchOf[to] THEN "in_stock" ELSE "in_transit"]
             ELSE piece[p]]
        /\ Covered'
        /\ \A l \in Places : stock'[<<"tagged", l>>] =
             Minus(Plus(stock[<<"tagged", l>>], Total(Picked(piece, PutAt(set, landing(from, to), l)))),
                   Total(Picked(piece, TakenFrom(set, l))))
        /\ UNCHANGED <<bound, count, asked>>
  BY <1>0, dispatchTransferMoves
<1> DEFINE where == landing(from, to)
           same == BranchOf[from] = BranchOf[to]
<1>2. where = IF same THEN to ELSE Transit[BranchOf[to]]
  BY LandingFacts
<1>3. \A p \in Pieces, u \in Transfers : Carried(u, p) => ~InStock(p)
  BY DEF RoadInv, InStock
<1>4. /\ \A u \in Transfers \ {t} : transfer'[u] = transfer[u]
      /\ transfer'[t].pieces = set /\ transfer'[t].to = to /\ transfer'[t].metal = m
      /\ transfer'[t].status = IF same THEN "received" ELSE "in_transit"
  BY <1>0, <1>1
<1>5. \A p \in Pieces :
        /\ p \notin set => piece'[p] = piece[p]
        /\ p \in set => /\ piece'[p].place = where /\ piece'[p].status = IF same THEN "in_stock" ELSE "in_transit"
                        /\ Worth(piece'[p]) = Worth(piece[p])
  BY <1>0, <1>1, ZenonT(30) DEF PieceRows, Worth
<1> HIDE DEF where, same
<1>6. ASSUME NEW l \in Places, Told(l) PROVE Told(l)'
  <2> DEFINE came == PutAt(set, where, l)
             went == TakenFrom(set, l)
             here == HeldAt(piece, transfer, l)
             now == HeldAt(piece', transfer', l)
  <2>1. stock'[<<"tagged", l>>] =
           Minus(Plus(stock[<<"tagged", l>>], Total(Picked(piece, came))), Total(Picked(piece, went)))
    BY <1>1 DEF where
  <2>2. ASSUME NEW p \in Pieces, p \notin set
        PROVE  p \notin came /\ p \notin went /\ (p \in now <=> p \in here)
    <3>0. p \notin came /\ p \notin went
      BY <2>2 DEF PutAt, TakenFrom
    <3>1. \A u \in Transfers : transfer'[u].status = "in_transit" /\ p \in transfer'[u].pieces
                               <=> transfer[u].status = "in_transit" /\ p \in transfer[u].pieces
      BY <1>1, <1>4, <2>2
    <3>2. \A u \in Transfers : transfer[u].status = "in_transit" => transfer'[u].to = transfer[u].to
      BY <1>1, <1>4
    <3>3. piece'[p] = piece[p]
      BY <1>5, <2>2
    <3> QED
      BY <3>0, <3>1, <3>2, <3>3 DEF HeldAt
  <2>3. ASSUME NEW p \in Pieces, p \in set
        PROVE  (p \in here <=> p \in went) /\ (p \in now <=> p \in came)
    <3>1. InStock(p) /\ \A u \in Transfers : ~Carried(u, p)
      BY <1>1, <1>3, <2>3
    <3>2. p \in here <=> p \in went
      BY <2>3, <3>1 DEF HeldAt, InStock, Carried, TakenFrom
    <3>3. \A u \in Transfers : transfer'[u].status = "in_transit" /\ p \in transfer'[u].pieces <=> u = t /\ ~same
      BY <1>4, <2>3, <3>1 DEF Carried
    <3>4. p \in now <=> p \in came
      <4>1. CASE same
        BY <1>2, <1>5, <2>3, <3>3, <4>1 DEF HeldAt, PutAt
      <4>2. CASE ~same
        BY <1>2, <1>4, <1>5, <2>3, <3>3, <4>2 DEF HeldAt, PutAt
      <4> QED
        BY <4>1, <4>2
    <3> QED
      BY <3>2, <3>4
  <2>4. \A p \in Pieces : p \in now => Worth(piece'[p]) = Worth(piece[p])
    BY <1>5
  <2>5. WaitingAt(lot', inward', l) = WaitingAt(lot, inward, l)
    BY DEF purchaseVars
  <2> HIDE DEF came, went
  <2>6. \A p \in Pieces :
           IF (p \in came) <=> (p \in went) THEN (p \in now) <=> (p \in here)
           ELSE ((p \in here) <=> (p \in went)) /\ ((p \in now) <=> (p \in came))
    BY <2>2, <2>3
  <2> QED
    BY <1>6, <2>1, <2>4, <2>5, <2>6, ToldMoves DEF GoodsInv
<1>7. RowsTold'
  <2>1. Alone' = Alone
    BY <1>1 DEF Alone
  <2> QED
    BY <1>0, <1>6, <2>1 DEF RowsTold
<1>8. Uncounted'
  <2>1. \A u \in Transfers : transfer'[u].metal.pieces = 0
    BY <1>0, <1>1, <1>4 DEF Uncounted
  <2> QED
    BY <1>0, <2>1 DEF Uncounted, purchaseVars
<1> QED
  BY <1>1, <1>7, <1>8

\* What receiving or cancelling a transfer does.
LEMMA landMoves ==
  ASSUME GoodsInv, Covered, Uncounted, NEW s \in Sessions, NEW t \in Transfers, land(s, t)
  PROVE  \E status \in {"received", "cancelled"}, target \in Counters :
           LET transit == Transit[BranchOf[transfer[t].to]]
               set == transfer[t].pieces
           IN
           /\ transfer[t].status = "in_transit"
           /\ transfer' = [transfer EXCEPT ![t].status = status]
           /\ piece' = [p \in Pieces |-> IF p \in set
                THEN [piece[p] EXCEPT !.place = target, !.status = "in_stock"] ELSE piece[p]]
           /\ Covered'
           /\ \A l \in Places : stock'[<<"tagged", l>>] =
                Minus(Plus(stock[<<"tagged", l>>], Total(Picked(piece, PutAt(set, target, l)))),
                      Total(Picked(piece, PutAt(set, transit, l))))
           /\ UNCHANGED <<bound, count, asked>>
<1>0. /\ piece \in [Pieces -> PieceRows] /\ stock \in [Rows -> Measures] /\ MetalTold /\ FloorTold
      /\ transfer \in [Transfers -> TransferRows]
  BY DEF GoodsInv, GoodsTypeOK, FloorTypeOK
<1> DEFINE row == transfer[t]
           m == row.metal
           set == row.pieces
           transit == Transit[BranchOf[row.to]]
<1>1. PICK status \in {"received", "cancelled"} :
        LET target == IF status = "received" THEN row.to ELSE row.from IN
        /\ Atomic(s)
        /\ openTransfer(t)
        /\ recordMovements(With(PiecesAt(AllAt(set, target)), At("metal", target, m)),
                           With(PiecesAt(AllAt(set, transit)), At("metal", transit, m)), TRUE)
        /\ piece' = [p \in Pieces |-> IF p \in set
             THEN [piece[p] EXCEPT !.place = target, !.status = "in_stock"] ELSE piece[p]]
        /\ transfer' = [transfer EXCEPT ![t].status = status]
        /\ UNCHANGED <<bound, count, asked>>
  BY Zenon DEF land
<1> DEFINE target == IF status = "received" THEN row.to ELSE row.from
           into == With(PiecesAt(AllAt(set, target)), At("metal", target, m))
           out == With(PiecesAt(AllAt(set, transit)), At("metal", transit, m))
           allowed == TRUE
<1>2. /\ row.status = "in_transit" /\ recordMovements(into, out, allowed) /\ allowed \in BOOLEAN
      /\ piece' = [p \in Pieces |-> IF p \in set
             THEN [piece[p] EXCEPT !.place = target, !.status = "in_stock"] ELSE piece[p]]
      /\ transfer' = [transfer EXCEPT ![t].status = status]
      /\ UNCHANGED <<bound, count, asked>>
  BY <1>1 DEF openTransfer
<1>3. row.from \in Counters /\ row.to \in Counters /\ target \in Counters
  BY <1>0, <1>2 DEF FloorTold
<1>4. set \in SUBSET Pieces /\ m \in Measures /\ m.pieces = 0
  BY <1>0 DEF TransferRows, Uncounted
<1>5. transit \in Places \ Counters
  BY <1>3, LandingFacts
<1> HIDE DEF target, transit, m, set, allowed
<1>6. /\ into \in [Rows -> Measures]
      /\ \A l \in Places : /\ into[<<"tagged", l>>] = Total(Picked(piece, PutAt(set, target, l)))
                           /\ into[<<"tagged", l>>].net >= 0 /\ into[<<"tagged", l>>].pieces >= 0
                           /\ into[<<"metal", l>>].pieces = 0
  BY <1>0, <1>4, BatchInto
<1>7. /\ out \in [Rows -> Measures]
      /\ \A l \in Places : /\ out[<<"tagged", l>>] = Total(Picked(piece, PutAt(set, transit, l)))
                           /\ out[<<"tagged", l>>].net >= 0 /\ out[<<"tagged", l>>].pieces >= 0
                           /\ out[<<"metal", l>>].pieces = 0
  BY <1>0, <1>4, BatchInto, ZenonT(30)
<1> HIDE DEF into, out
<1>8. \A l \in Counters : out[<<"tagged", l>>] = Nothing
  <2> SUFFICES ASSUME NEW l \in Counters PROVE out[<<"tagged", l>>] = Nothing
    OBVIOUS
  <2>1. PutAt(set, transit, l) = {} /\ l \in Places
    BY <1>5 DEF PutAt, Counters
  <2> QED
    BY <1>0, <1>7, <2>1, PickedNone
<1>9. /\ \A l \in Counters : into[<<"tagged", l>>].net >= 0 /\ into[<<"tagged", l>>].pieces >= 0
      /\ \A l \in Places : into[<<"metal", l>>].pieces = 0 /\ out[<<"metal", l>>].pieces = 0
  BY <1>6, <1>7 DEF Counters
<1>10. /\ Covered'
       /\ \A l \in Places : stock'[<<"tagged", l>>] =
            Minus(Plus(stock[<<"tagged", l>>], into[<<"tagged", l>>]), out[<<"tagged", l>>])
  BY <1>0, <1>2, <1>6, <1>7, <1>8, <1>9, BatchCovers
<1>11. \A l \in Places : stock'[<<"tagged", l>>] =
         Minus(Plus(stock[<<"tagged", l>>], Total(Picked(piece, PutAt(set, target, l)))),
               Total(Picked(piece, PutAt(set, transit, l))))
  BY <1>6, <1>7, <1>10
<1> HIDE DEF row
<1> QED
  BY <1>2, <1>3, <1>10, <1>11 DEF set, transit, row

\* Goods received or back leave the road's books.
LEMMA landTold ==
  ASSUME GoodsInv, GoodsTypeOK', RoadInv, BooksInv, NEW s \in Sessions, NEW t \in Transfers, land(s, t), UNCHANGED purchaseVars
  PROVE  RowsTold' /\ Covered' /\ Uncounted'
<1>0. /\ piece \in [Pieces -> PieceRows] /\ transfer \in [Transfers -> TransferRows]
      /\ RowsTold /\ Covered /\ Uncounted
  BY DEF GoodsInv, GoodsTypeOK, FloorTypeOK, BooksInv
<1> DEFINE transit == Transit[BranchOf[transfer[t].to]]
           set == transfer[t].pieces
<1>1. PICK status \in {"received", "cancelled"}, target \in Counters :
        /\ transfer[t].status = "in_transit"
        /\ transfer' = [transfer EXCEPT ![t].status = status]
        /\ piece' = [p \in Pieces |-> IF p \in set
             THEN [piece[p] EXCEPT !.place = target, !.status = "in_stock"] ELSE piece[p]]
        /\ Covered'
        /\ \A l \in Places : stock'[<<"tagged", l>>] =
             Minus(Plus(stock[<<"tagged", l>>], Total(Picked(piece, PutAt(set, target, l)))),
                   Total(Picked(piece, PutAt(set, transit, l))))
        /\ UNCHANGED <<bound, count, asked>>
  BY <1>0, landMoves
<1>2. \A p \in set : /\ ~InStock(p) /\ \A u \in Transfers : Carried(u, p) <=> u = t
  BY <1>0, <1>1 DEF RoadInv, InStock, Carried, TransferRows
<1>3. /\ \A u \in Transfers : /\ transfer'[u].pieces = transfer[u].pieces /\ transfer'[u].to = transfer[u].to
                              /\ transfer'[u].metal = transfer[u].metal
                              /\ u # t => transfer'[u].status = transfer[u].status
      /\ transfer'[t].status # "in_transit"
  BY <1>0, <1>1 DEF TransferRows
<1>4. \A p \in Pieces :
        /\ p \notin set => piece'[p] = piece[p]
        /\ p \in set => /\ piece'[p].place = target /\ piece'[p].status = "in_stock"
                        /\ Worth(piece'[p]) = Worth(piece[p])
  BY <1>0, <1>1 DEF PieceRows, Worth
<1>5. ASSUME NEW l \in Places, Told(l) PROVE Told(l)'
  <2> DEFINE came == PutAt(set, target, l)
             went == PutAt(set, transit, l)
             here == HeldAt(piece, transfer, l)
             now == HeldAt(piece', transfer', l)
  <2>1. stock'[<<"tagged", l>>] =
           Minus(Plus(stock[<<"tagged", l>>], Total(Picked(piece, came))), Total(Picked(piece, went)))
    BY <1>1
  <2>2. ASSUME NEW p \in Pieces, p \notin set
        PROVE  p \notin came /\ p \notin went /\ (p \in now <=> p \in here)
    <3>0. p \notin came /\ p \notin went
      BY <2>2 DEF PutAt
    <3>1. \A u \in Transfers : transfer'[u].status = "in_transit" /\ p \in transfer'[u].pieces
                               <=> transfer[u].status = "in_transit" /\ p \in transfer[u].pieces
      BY <1>1, <1>3, <2>2
    <3>2. piece'[p] = piece[p]
      BY <1>4, <2>2
    <3> QED
      BY <1>3, <3>0, <3>1, <3>2 DEF HeldAt
  <2>3. ASSUME NEW p \in Pieces, p \in set
        PROVE  (p \in here <=> p \in went) /\ (p \in now <=> p \in came)
    <3>1. p \in here <=> p \in went
      BY <1>2, <2>3 DEF HeldAt, InStock, Carried, PutAt
    <3>2. \A u \in Transfers : ~(transfer'[u].status = "in_transit" /\ p \in transfer'[u].pieces)
      BY <1>2, <1>3, <2>3 DEF Carried
    <3>3. p \in now <=> p \in came
      BY <1>4, <2>3, <3>2 DEF HeldAt, PutAt
    <3> QED
      BY <3>1, <3>3
  <2>4. \A p \in Pieces : p \in now => Worth(piece'[p]) = Worth(piece[p])
    BY <1>4
  <2>5. WaitingAt(lot', inward', l) = WaitingAt(lot, inward, l)
    BY DEF purchaseVars
  <2> HIDE DEF came, went
  <2>6. \A p \in Pieces :
           IF (p \in came) <=> (p \in went) THEN (p \in now) <=> (p \in here)
           ELSE ((p \in here) <=> (p \in went)) /\ ((p \in now) <=> (p \in came))
    BY <2>2, <2>3
  <2> QED
    BY <1>5, <2>1, <2>4, <2>5, <2>6, ToldMoves DEF GoodsInv
<1>6. RowsTold'
  <2>1. Alone' = Alone
    BY <1>1 DEF Alone
  <2> QED
    BY <1>0, <1>5, <2>1 DEF RowsTold
<1>7. Uncounted'
  BY <1>0, <1>3 DEF Uncounted, purchaseVars
<1> QED
  BY <1>1, <1>6, <1>7

-------------------------------------------------------------------------------
\* Adjustments and the counter.

\* What writing pieces off by hand does.
LEMMA adjustStockMoves ==
  ASSUME GoodsInv, Covered, NEW s \in Sessions, adjustStock(s)
  PROVE  \E set \in SUBSET Pieces :
           /\ Covered'
           /\ \A p \in set : InStock(p)
           /\ \A x \in Places : stock'[<<"tagged", x>>] =
                Minus(Plus(stock[<<"tagged", x>>], Nothing), Total(Picked(piece, TakenFrom(set, x))))
           /\ piece' = [p \in Pieces |-> IF p \in set THEN [piece[p] EXCEPT !.status = "written_off"] ELSE piece[p]]
           /\ UNCHANGED <<bound, floorVars>>
<1>0. piece \in [Pieces -> PieceRows] /\ stock \in [Rows -> Measures] /\ MetalTold /\ bound \in Bounds
  BY DEF GoodsInv, GoodsTypeOK
<1>1. PICK l \in bound.at, set \in SUBSET Pieces, weight \in Scales, found \in BOOLEAN :
        LET metal == IF weight = 0 THEN Nothing ELSE lotMovement(l, weight) IN
        /\ Atomic(s) /\ bound.adjusts
        /\ set # {} \/ weight > 0
        /\ found => set = {} /\ stock[<<"metal", l>>].net + weight <= bound.metalMost
        /\ \A p \in set : InStock(p) /\ BranchOf[piece[p].place] = BranchOf[l]
        /\ recordMovements(At("metal", l, IF found THEN metal ELSE Nothing),
                           With(PiecesAt(WhereItIs(set)), At("metal", l, IF found THEN Nothing ELSE metal)), FALSE)
        /\ piece' = [p \in Pieces |-> IF p \in set THEN [piece[p] EXCEPT !.status = "written_off"] ELSE piece[p]]
        /\ UNCHANGED <<bound, floorVars>>
  BY Zenon DEF adjustStock
<1> DEFINE lot_ == IF weight = 0 THEN Nothing ELSE lotMovement(l, weight)
           a == IF found THEN lot_ ELSE Nothing
           b == IF found THEN Nothing ELSE lot_
           into == At("metal", l, a)
           out == With(PiecesAt(WhereItIs(set)), At("metal", l, b))
           allowed == FALSE
<1>2. /\ recordMovements(into, out, allowed) /\ allowed \in BOOLEAN /\ ~allowed /\ \A p \in set : InStock(p)
      /\ piece' = [p \in Pieces |-> IF p \in set THEN [piece[p] EXCEPT !.status = "written_off"] ELSE piece[p]]
      /\ UNCHANGED <<bound, floorVars>>
  BY <1>1
<1>3. l \in Counters /\ weight \in Int
  BY <1>0, BoundFacts, FloorAssumption
<1>4. Nothing \in Measures /\ Nothing.pieces = 0 /\ Nothing.net = 0
  BY DEF Nothing, Measures
<1>5. lot_ \in Measures /\ lot_.pieces = 0
  BY <1>0, <1>3, <1>4, LotMovementTyped
<1> HIDE DEF lot_
<1>6. a \in Measures /\ b \in Measures /\ a.pieces = 0 /\ b.pieces = 0
  BY <1>4, <1>5
<1> HIDE DEF a, b, allowed
<1>7. /\ out \in [Rows -> Measures]
      /\ \A x \in Places : /\ out[<<"tagged", x>>] = Total(Picked(piece, TakenFrom(set, x)))
                           /\ out[<<"metal", x>>].pieces = 0
  BY <1>0, <1>6, BatchOut
<1>8. into \in [Rows -> Measures] /\ \A r \in Rows : into[r] = IF r = <<"metal", l>> THEN a ELSE Nothing
  BY <1>6, AtTyped
<1> HIDE DEF into, out
<1>9. \A x \in Places : into[<<"tagged", x>>] = Nothing /\ into[<<"metal", x>>].pieces = 0
  <2>1. \A x \in Places : <<"metal", x>> \in Rows /\ <<"tagged", x>> \in Rows
    BY DEF Rows
  <2> QED
    BY <1>4, <1>6, <1>8, <2>1
<1>10. /\ \A x \in Counters : into[<<"tagged", x>>].net >= 0 /\ into[<<"tagged", x>>].pieces >= 0
       /\ \A x \in Places : into[<<"metal", x>>].pieces = 0 /\ out[<<"metal", x>>].pieces = 0
       /\ allowed => \A x \in Counters : out[<<"tagged", x>>] = Nothing
  <2>1. Nothing.net >= 0 /\ Nothing.pieces >= 0 /\ \A x \in Counters : x \in Places
    BY DEF Nothing, Counters
  <2> QED
    BY <1>2, <1>7, <1>9, <2>1
<1>11. /\ Covered'
       /\ \A x \in Places : stock'[<<"tagged", x>>] =
            Minus(Plus(stock[<<"tagged", x>>], into[<<"tagged", x>>]), out[<<"tagged", x>>])
  BY <1>0, <1>2, <1>7, <1>8, <1>10, BatchCovers
<1>12. \A x \in Places : stock'[<<"tagged", x>>] =
         Minus(Plus(stock[<<"tagged", x>>], Nothing), Total(Picked(piece, TakenFrom(set, x))))
  BY <1>7, <1>9, <1>11
<1> QED
  BY <1>2, <1>11, <1>12

\* Pieces written off leave their counter's books.
LEMMA adjustStockTold ==
  ASSUME GoodsInv, GoodsTypeOK', RoadInv, BooksInv, NEW s \in Sessions, adjustStock(s), UNCHANGED purchaseVars
  PROVE  RowsTold' /\ Covered' /\ Uncounted'
<1>0. /\ piece \in [Pieces -> PieceRows] /\ RowsTold /\ Covered /\ Uncounted
  BY DEF GoodsInv, GoodsTypeOK, FloorTypeOK, BooksInv
<1>1. PICK set \in SUBSET Pieces :
        /\ Covered'
        /\ \A p \in set : InStock(p)
        /\ \A x \in Places : stock'[<<"tagged", x>>] =
             Minus(Plus(stock[<<"tagged", x>>], Nothing), Total(Picked(piece, TakenFrom(set, x))))
        /\ piece' = [p \in Pieces |-> IF p \in set THEN [piece[p] EXCEPT !.status = "written_off"] ELSE piece[p]]
        /\ UNCHANGED <<bound, floorVars>>
  BY <1>0, adjustStockMoves
<1>2. transfer' = transfer /\ \A p \in set : InStock(p) /\ \A u \in Transfers : ~Carried(u, p)
  BY <1>1 DEF RoadInv, InStock, floorVars
<1>3. \A p \in Pieces :
        /\ p \notin set => piece'[p] = piece[p]
        /\ p \in set => piece'[p].status = "written_off" /\ Worth(piece'[p]) = Worth(piece[p])
  BY <1>0, <1>1 DEF PieceRows, Worth
<1>4. ASSUME NEW l \in Places, Told(l) PROVE Told(l)'
  <2> DEFINE came == {}
             went == TakenFrom(set, l)
             here == HeldAt(piece, transfer, l)
             now == HeldAt(piece', transfer', l)
  <2>1. stock'[<<"tagged", l>>] =
           Minus(Plus(stock[<<"tagged", l>>], Total(Picked(piece, came))), Total(Picked(piece, went)))
    BY <1>0, <1>1, PickedNone
  <2>2. ASSUME NEW p \in Pieces, p \notin set
        PROVE  p \notin came /\ p \notin went /\ (p \in now <=> p \in here)
    <3>1. p \notin went /\ piece'[p] = piece[p]
      BY <1>3, <2>2 DEF TakenFrom
    <3> QED
      BY <1>2, <3>1 DEF HeldAt
  <2>3. ASSUME NEW p \in Pieces, p \in set
        PROVE  (p \in here <=> p \in went) /\ (p \in now <=> p \in came)
    <3>1. p \in here <=> p \in went
      BY <1>2, <2>3 DEF HeldAt, InStock, Carried, TakenFrom
    <3>2. p \notin now
      BY <1>2, <1>3, <2>3 DEF HeldAt, Carried
    <3> QED
      BY <3>1, <3>2
  <2>4. \A p \in Pieces : p \in now => Worth(piece'[p]) = Worth(piece[p])
    BY <1>3
  <2>5. WaitingAt(lot', inward', l) = WaitingAt(lot, inward, l)
    BY DEF purchaseVars
  <2> HIDE DEF came, went
  <2>6. \A p \in Pieces :
           IF (p \in came) <=> (p \in went) THEN (p \in now) <=> (p \in here)
           ELSE ((p \in here) <=> (p \in went)) /\ ((p \in now) <=> (p \in came))
    BY <2>2, <2>3
  <2> QED
    BY <1>4, <2>1, <2>4, <2>5, <2>6, ToldMoves DEF GoodsInv
<1>5. RowsTold'
  <2>1. Alone' = Alone
    BY <1>1 DEF Alone
  <2> QED
    BY <1>0, <1>4, <2>1 DEF RowsTold
<1>6. Uncounted'
  BY <1>0, <1>2 DEF Uncounted, purchaseVars
<1> QED
  BY <1>1, <1>5, <1>6

\* A batch of one row.
LEMMA OneRowMoves ==
  ASSUME stock \in [Rows -> Measures], Covered, NEW item \in {"tagged", "metal"}, NEW k, NEW a \in Measures, NEW b \in Measures,
         NEW allowed \in BOOLEAN, recordMovements(At(item, k, a), At(item, k, b), allowed),
         item = "tagged" => a.net >= 0 /\ a.pieces >= 0, item = "metal" => a.pieces = 0 /\ b.pieces = 0,
         allowed => b = Nothing
  PROVE  /\ Covered'
         /\ item = "tagged" =>
              \A l \in Places : stock'[<<"tagged", l>>] = IF l = k THEN Minus(Plus(stock[<<"tagged", l>>], a), b)
                                                                  ELSE stock[<<"tagged", l>>]
         /\ item = "metal" => \A l \in Places : stock'[<<"tagged", l>>] = stock[<<"tagged", l>>]
<1> DEFINE into == At(item, k, a)
           out == At(item, k, b)
<1>1. /\ into \in [Rows -> Measures] /\ \A r \in Rows : into[r] = IF r = <<item, k>> THEN a ELSE Nothing
      /\ out \in [Rows -> Measures] /\ \A r \in Rows : out[r] = IF r = <<item, k>> THEN b ELSE Nothing
      /\ recordMovements(into, out, allowed)
  BY AtTyped
<1> HIDE DEF into, out
<1>2. \A l \in Places : <<"metal", l>> \in Rows /\ <<"tagged", l>> \in Rows
  BY DEF Rows
<1>3. Nothing \in Measures /\ Nothing.pieces = 0 /\ Nothing.net = 0
  BY DEF Nothing, Measures
<1>4. \A l \in Places :
        /\ into[<<"tagged", l>>] = IF item = "tagged" /\ l = k THEN a ELSE Nothing
        /\ out[<<"tagged", l>>] = IF item = "tagged" /\ l = k THEN b ELSE Nothing
        /\ into[<<"metal", l>>] = IF item = "metal" /\ l = k THEN a ELSE Nothing
        /\ out[<<"metal", l>>] = IF item = "metal" /\ l = k THEN b ELSE Nothing
  BY <1>1, <1>2
<1>5. /\ \A l \in Counters : into[<<"tagged", l>>].net >= 0 /\ into[<<"tagged", l>>].pieces >= 0
      /\ \A l \in Places : into[<<"metal", l>>].pieces = 0 /\ out[<<"metal", l>>].pieces = 0
      /\ allowed => \A l \in Counters : out[<<"tagged", l>>] = Nothing
  <2>1. Nothing.net >= 0 /\ Nothing.pieces >= 0 /\ \A l \in Counters : l \in Places
    BY DEF Nothing, Counters
  <2>2. ASSUME NEW l \in Counters
        PROVE  /\ into[<<"tagged", l>>].net >= 0 /\ into[<<"tagged", l>>].pieces >= 0
               /\ allowed => out[<<"tagged", l>>] = Nothing
    <3>1. CASE item = "tagged" /\ l = k
      BY <1>4, <2>1, <3>1
    <3>2. CASE ~(item = "tagged" /\ l = k)
      <4>1. into[<<"tagged", l>>] = Nothing /\ out[<<"tagged", l>>] = Nothing
        BY <1>4, <2>1, <3>2
      <4> QED
        BY <2>1, <4>1
    <3> QED
      BY <3>1, <3>2
  <2>3. ASSUME NEW l \in Places PROVE into[<<"metal", l>>].pieces = 0 /\ out[<<"metal", l>>].pieces = 0
    <3>1. CASE item = "metal" /\ l = k
      BY <1>4, <3>1
    <3>2. CASE ~(item = "metal" /\ l = k)
      <4>1. into[<<"metal", l>>] = Nothing /\ out[<<"metal", l>>] = Nothing
        BY <1>4, <3>2
      <4> QED
        BY <1>3, <4>1
    <3> QED
      BY <3>1, <3>2
  <2> QED
    BY <2>2, <2>3
<1>6. /\ Covered'
      /\ \A l \in Places : stock'[<<"tagged", l>>] =
           Minus(Plus(stock[<<"tagged", l>>], into[<<"tagged", l>>]), out[<<"tagged", l>>])
  BY <1>1, <1>5, BatchCovers
<1>7. \A l \in Places : Minus(Plus(stock[<<"tagged", l>>], Nothing), Nothing) = stock[<<"tagged", l>>]
  BY <1>2, MeasureFacts
<1> QED
  BY <1>4, <1>6, <1>7

\* One piece put at one place.
LEMMA PickedPut ==
  ASSUME NEW rows \in [Pieces -> PieceRows], NEW p \in Pieces, NEW k, NEW l
  PROVE  Total(Picked(rows, PutAt({p}, k, l))) = IF l = k THEN Worth(rows[p]) ELSE Nothing
<1>1. CASE l = k
  BY <1>1, PickedOne DEF PutAt
<1>2. CASE l # k
  BY <1>2, PickedNone DEF PutAt
<1> QED
  BY <1>1, <1>2

\* One piece sold, back from a sale, or re-weighed.
LEMMA sellPieceTold ==
  ASSUME GoodsInv, GoodsTypeOK', RoadInv, BooksInv, NEW s \in Sessions, NEW p \in Pieces, sellPiece(s, p), UNCHANGED purchaseVars
  PROVE  RowsTold' /\ Covered' /\ Uncounted'
<1>0. /\ piece \in [Pieces -> PieceRows] /\ stock \in [Rows -> Measures] /\ RowsTold /\ Covered /\ Uncounted
      /\ Nothing \in Measures /\ Nothing.net >= 0 /\ Nothing.pieces >= 0 /\ "tagged" # "metal"
  BY MeasureFacts DEF GoodsInv, GoodsTypeOK, FloorTypeOK, BooksInv, Nothing
<1> DEFINE k == piece[p].place
           w == Weighed(p)
           allowed == FALSE
           item == "tagged"
<1>1. /\ InStock(p) /\ recordMovements(At(item, k, Nothing), At(item, k, w), allowed) /\ allowed \in BOOLEAN /\ ~allowed
      /\ piece' = [piece EXCEPT ![p].status = "sold", ![p].soldAt = piece[p].place]
      /\ UNCHANGED <<bound, floorVars>> /\ item = "tagged" /\ item \in {"tagged", "metal"}
  BY DEF sellPiece
<1>2. w = Worth(piece[p]) /\ w \in Measures
  BY <1>0, PickedTyped DEF Worth, Weighed
<1>3. /\ \A q \in Pieces \ {p} : piece'[q] = piece[q]
      /\ piece'[p].status = "sold" /\ Worth(piece'[p]) = Worth(piece[p])
  BY <1>0, <1>1 DEF PieceRows, Worth
<1>4. transfer' = transfer /\ \A u \in Transfers : ~Carried(u, p)
  BY <1>1 DEF RoadInv, InStock, floorVars
<1> HIDE DEF k, w, allowed, item
<1>5. /\ Covered'
      /\ \A l \in Places : stock'[<<"tagged", l>>] = IF l = k THEN Minus(Plus(stock[<<"tagged", l>>], Nothing), w)
                                                     ELSE stock[<<"tagged", l>>]
  BY <1>0, <1>1, <1>2, OneRowMoves
<1>6. ASSUME NEW l \in Places, Told(l) PROVE Told(l)'
  <2> DEFINE came == {}
             went == PutAt({p}, k, l)
             here == HeldAt(piece, transfer, l)
             now == HeldAt(piece', transfer', l)
  <2>1. stock'[<<"tagged", l>>] =
           Minus(Plus(stock[<<"tagged", l>>], Total(Picked(piece, came))), Total(Picked(piece, went)))
    <3>1. Total(Picked(piece, came)) = Nothing
      BY <1>0, PickedNone
    <3>2. Total(Picked(piece, went)) = IF l = k THEN w ELSE Nothing
      BY <1>0, <1>2, PickedPut
    <3>3. <<"tagged", l>> \in Rows
      BY DEF Rows
    <3>4. Minus(Plus(stock[<<"tagged", l>>], Nothing), Nothing) = stock[<<"tagged", l>>]
      BY <1>0, <3>3, MeasureFacts
    <3> HIDE DEF came, went
    <3> QED
      BY <1>5, <3>1, <3>2, <3>4
  <2>2. ASSUME NEW q \in Pieces, q # p
        PROVE  q \notin came /\ q \notin went /\ (q \in now <=> q \in here)
    <3>1. q \notin went /\ piece'[q] = piece[q]
      BY <1>3, <2>2 DEF PutAt
    <3> QED
      BY <1>4, <3>1 DEF HeldAt
  <2>3. (p \in here <=> p \in went) /\ (p \in now <=> p \in came)
    <3>1. p \in here <=> p \in went
      BY <1>1, <1>4 DEF HeldAt, InStock, Carried, PutAt, k
    <3>2. p \notin now
      BY <1>3, <1>4 DEF HeldAt, Carried
    <3> QED
      BY <3>1, <3>2
  <2>4. \A q \in Pieces : q \in now => Worth(piece'[q]) = Worth(piece[q])
    BY <1>3
  <2>5. WaitingAt(lot', inward', l) = WaitingAt(lot, inward, l)
    BY DEF purchaseVars
  <2> HIDE DEF came, went
  <2>6. \A q \in Pieces :
           IF (q \in came) <=> (q \in went) THEN (q \in now) <=> (q \in here)
           ELSE ((q \in here) <=> (q \in went)) /\ ((q \in now) <=> (q \in came))
    BY <2>2, <2>3
  <2> QED
    BY <1>6, <2>1, <2>4, <2>5, <2>6, ToldMoves DEF GoodsInv
<1>7. RowsTold'
  <2>1. Alone' = Alone
    BY <1>1 DEF Alone
  <2> QED
    BY <1>0, <1>6, <2>1 DEF RowsTold
<1>8. Uncounted'
  BY <1>0, <1>4 DEF Uncounted, purchaseVars
<1> QED
  BY <1>5, <1>7, <1>8

\* A sale undone puts the piece back on the books of where it was sold, which is where it is.
LEMMA undoSaleTold ==
  ASSUME GoodsInv, GoodsTypeOK', RoadInv, BooksInv, NEW s \in Sessions, NEW p \in Pieces, undoSale(s, p), UNCHANGED purchaseVars
  PROVE  RowsTold' /\ Covered' /\ Uncounted'
<1>0. /\ piece \in [Pieces -> PieceRows] /\ stock \in [Rows -> Measures] /\ RowsTold /\ Covered /\ Uncounted
      /\ Nothing \in Measures /\ "tagged" # "metal"
  BY MeasureFacts DEF GoodsInv, GoodsTypeOK, FloorTypeOK, BooksInv
<1> DEFINE k == piece[p].soldAt
           w == Weighed(p)
           allowed == TRUE
           item == "tagged"
<1>1. /\ k # None /\ recordMovements(At(item, k, w), At(item, k, Nothing), allowed) /\ allowed \in BOOLEAN
      /\ piece' = [piece EXCEPT ![p].status = "in_stock", ![p].soldAt = None]
      /\ UNCHANGED <<bound, floorVars>> /\ item = "tagged" /\ item \in {"tagged", "metal"}
  BY DEF undoSale
<1>2. w = Worth(piece[p]) /\ w \in Measures /\ w.net >= 0 /\ w.pieces >= 0
  <2>1. w = Worth(piece[p]) /\ w \in Measures /\ w.net >= 0 /\ w.pieces = 1
    BY <1>0, PickedTyped DEF Worth, Weighed
  <2> HIDE DEF w
  <2> QED
    BY <2>1
<1>3. /\ \A q \in Pieces \ {p} : piece'[q] = piece[q]
      /\ piece'[p].status = "in_stock" /\ piece'[p].place = piece[p].place /\ Worth(piece'[p]) = Worth(piece[p])
  BY <1>0, <1>1 DEF PieceRows, Worth
<1>4. transfer' = transfer /\ ~InStock(p) /\ (\A u \in Transfers : ~Carried(u, p)) /\ piece[p].place = k
  BY <1>1 DEF RoadInv, floorVars, BooksInv, PlacesTold
<1> HIDE DEF k, w, allowed, item
<1>5. /\ Covered'
      /\ \A l \in Places : stock'[<<"tagged", l>>] = IF l = k THEN Minus(Plus(stock[<<"tagged", l>>], w), Nothing)
                                                     ELSE stock[<<"tagged", l>>]
  BY <1>0, <1>1, <1>2, OneRowMoves
<1>6. ASSUME NEW l \in Places, Told(l) PROVE Told(l)'
  <2> DEFINE came == PutAt({p}, k, l)
             went == {}
             here == HeldAt(piece, transfer, l)
             now == HeldAt(piece', transfer', l)
  <2>1. stock'[<<"tagged", l>>] =
           Minus(Plus(stock[<<"tagged", l>>], Total(Picked(piece, came))), Total(Picked(piece, went)))
    <3>1. Total(Picked(piece, went)) = Nothing
      BY <1>0, PickedNone
    <3>2. Total(Picked(piece, came)) = IF l = k THEN w ELSE Nothing
      BY <1>0, <1>2, PickedPut
    <3>3. <<"tagged", l>> \in Rows
      BY DEF Rows
    <3>4. Minus(Plus(stock[<<"tagged", l>>], Nothing), Nothing) = stock[<<"tagged", l>>]
      BY <1>0, <3>3, MeasureFacts
    <3> HIDE DEF came, went
    <3> QED
      BY <1>5, <3>1, <3>2, <3>4
  <2>2. ASSUME NEW q \in Pieces, q # p
        PROVE  q \notin came /\ q \notin went /\ (q \in now <=> q \in here)
    <3>1. q \notin came /\ piece'[q] = piece[q]
      BY <1>3, <2>2 DEF PutAt
    <3> QED
      BY <1>4, <3>1 DEF HeldAt
  <2>3. (p \in here <=> p \in went) /\ (p \in now <=> p \in came)
    <3>1. p \notin here
      BY <1>4 DEF HeldAt, InStock, Carried
    <3>2. p \in now <=> p \in came
      BY <1>3, <1>4 DEF HeldAt, Carried, PutAt
    <3> QED
      BY <3>1, <3>2
  <2>4. \A q \in Pieces : q \in now => Worth(piece'[q]) = Worth(piece[q])
    BY <1>3
  <2>5. WaitingAt(lot', inward', l) = WaitingAt(lot, inward, l)
    BY DEF purchaseVars
  <2> HIDE DEF came, went
  <2>6. \A q \in Pieces :
           IF (q \in came) <=> (q \in went) THEN (q \in now) <=> (q \in here)
           ELSE ((q \in here) <=> (q \in went)) /\ ((q \in now) <=> (q \in came))
    BY <2>2, <2>3
  <2> QED
    BY <1>6, <2>1, <2>4, <2>5, <2>6, ToldMoves DEF GoodsInv
<1>7. RowsTold'
  <2>1. Alone' = Alone
    BY <1>1 DEF Alone
  <2> QED
    BY <1>0, <1>6, <2>1 DEF RowsTold
<1>8. Uncounted'
  BY <1>0, <1>4 DEF Uncounted, purchaseVars
<1> QED
  BY <1>5, <1>7, <1>8

\* A piece weighed again is on the books at its new weight.
LEMMA correctPieceWeightsTold ==
  ASSUME GoodsInv, GoodsTypeOK', RoadInv, BooksInv, NEW s \in Sessions, NEW p \in Pieces, correctPieceWeights(s, p),
         UNCHANGED purchaseVars
  PROVE  RowsTold' /\ Covered' /\ Uncounted'
<1>0. /\ piece \in [Pieces -> PieceRows] /\ piece' \in [Pieces -> PieceRows] /\ stock \in [Rows -> Measures]
      /\ lot \in [Inwards -> LotRows] /\ RowsTold /\ Covered /\ Uncounted /\ "tagged" # "metal"
  BY DEF GoodsInv, GoodsTypeOK, PurchasesTypeOK, BooksInv
<1>1. PICK w \in Reweighs :
        /\ InStock(p)
        /\ recordMovements(At("tagged", piece[p].place, [Weighed(p) EXCEPT !.gross = w.gross, !.net = w.net]),
                           At("tagged", piece[p].place, Weighed(p)), FALSE)
        /\ piece' = [piece EXCEPT ![p].gross = w.gross, ![p].net = w.net]
        /\ UNCHANGED <<bound, floorVars>>
  BY DEF correctPieceWeights
<1> DEFINE k == piece[p].place
           old == Worth(piece[p])
           new == Worth(piece'[p])
           allowed == FALSE
           item == "tagged"
           rows == piece
           next == piece'
<1>2. [Weighed(p) EXCEPT !.gross = w.gross, !.net = w.net] = new /\ Weighed(p) = old
  <2>1. piece[p] \in PieceRows /\ piece'[p] = [piece[p] EXCEPT !.gross = w.gross, !.net = w.net]
    BY <1>0, <1>1
  <2>2. piece'[p].gross = w.gross /\ piece'[p].net = w.net /\ piece'[p].cost = piece[p].cost
    BY <2>1 DEF PieceRows
  <2>3. Weighed(p) = old /\ old \in Measures /\ new \in Measures
    BY <1>0, PickedTyped DEF Worth, Weighed
  <2>4. /\ new.pieces = old.pieces /\ new.gross = w.gross /\ new.net = w.net /\ new.cost = old.cost
        /\ w.gross \in Int /\ w.net \in Int
    BY <2>2, FloorAssumption DEF Worth
  <2> HIDE DEF new, old
  <2>5. [old EXCEPT !.gross = w.gross, !.net = w.net] = new
    BY <2>3, <2>4 DEF Measures
  <2> QED
    BY <2>3, <2>5
<1>3. /\ recordMovements(At(item, k, new), At(item, k, old), allowed) /\ allowed \in BOOLEAN /\ ~allowed
      /\ item = "tagged" /\ item \in {"tagged", "metal"}
  BY <1>1, <1>2
<1>4. /\ \A q \in Pieces \ {p} : next[q] = rows[q]
      /\ next[p].status = rows[p].status /\ next[p].place = rows[p].place
  BY <1>0, <1>1 DEF PieceRows
<1>5. transfer' = transfer /\ \A u \in Transfers : ~Carried(u, p)
  BY <1>1 DEF RoadInv, InStock, floorVars
<1>6. old \in Measures /\ new \in Measures /\ new.net >= 0 /\ new.pieces >= 0
  <2>1. old \in Measures /\ new \in Measures /\ new.net >= 0 /\ new.pieces = 1
    BY <1>0, PickedTyped
  <2> HIDE DEF old, new
  <2> QED
    BY <2>1
<1>7. rows \in [Pieces -> PieceRows] /\ next \in [Pieces -> PieceRows] /\ rows[p].status = "in_stock" /\ rows[p].place = k
  BY <1>0, <1>1 DEF InStock
<1>8. old = Worth(rows[p]) /\ new = Worth(next[p])
  OBVIOUS
<1> HIDE DEF k, allowed, item, old, new
<1>9. /\ Covered'
      /\ \A l \in Places : stock'[<<"tagged", l>>] = IF l = k THEN Minus(Plus(stock[<<"tagged", l>>], new), old)
                                                     ELSE stock[<<"tagged", l>>]
  BY <1>0, <1>3, <1>6, OneRowMoves
<1>10. ASSUME NEW l \in Places, Told(l) PROVE Told(l)'
  <2> DEFINE here == HeldAt(rows, transfer, l)
             now == HeldAt(next, transfer', l)
             f == Picked(rows, here)
             e == Picked(next, now)
             v == Total(WaitingAt(lot, inward, l))
             r == <<"tagged", l>>
  <2>1. \A q \in Pieces : q \in now <=> q \in here
    <3> SUFFICES ASSUME NEW q \in Pieces PROVE q \in now <=> q \in here
      OBVIOUS
    <3>1. next[q].status = rows[q].status /\ next[q].place = rows[q].place
      BY <1>4
    <3> QED
      BY <1>5, <3>1 DEF HeldAt
  <2>2. p \in here <=> l = k
    BY <1>5, <1>7 DEF HeldAt, Carried
  <2>3. /\ DOMAIN f = Pieces /\ DOMAIN e = Pieces /\ Total(f) \in Measures /\ Total(e) \in Measures
        /\ \A q \in Pieces : f[q] \in Measures /\ e[q] \in Measures
    BY <1>7, PickedTyped
  <2>4. /\ \A q \in Pieces \ {p} : e[q] = f[q]
        /\ f[p] = IF l = k THEN old ELSE Nothing
        /\ e[p] = IF l = k THEN new ELSE Nothing
    BY <1>4, <1>8, <2>1, <2>2 DEF Picked
  <2>5. v \in Measures
    BY <1>0, WaitingTyped
  <2>6. stock[r] = Plus(Total(f), v)
    BY <1>10 DEF Told
  <2>7. Told(l)' <=> stock'[r] = Plus(Total(e), v)
    BY DEF Told, purchaseVars
  <2> HIDE DEF f, e, v, here, now
  <2>8. Total(e) = Minus(Plus(Total(f), e[p]), f[p])
    BY <2>3, <2>4, GoodsFinite, TotalChanges
  <2>9. CASE l = k
    <3>1. stock'[r] = Minus(Plus(Plus(Total(f), v), new), old) /\ Total(e) = Minus(Plus(Total(f), new), old)
      BY <1>9, <2>4, <2>6, <2>8, <2>9
    <3>2. Minus(Plus(Plus(Total(f), v), new), old) = Plus(Minus(Plus(Total(f), new), old), v)
      BY <1>6, <2>3, <2>5, MeasuresMove
    <3> QED
      BY <2>7, <3>1, <3>2
  <2>10. CASE l # k
    <3>1. Total(e) = Minus(Plus(Total(f), Nothing), Nothing) /\ stock'[r] = stock[r]
      BY <1>9, <2>4, <2>8, <2>10
    <3>2. Total(e) = Total(f)
      BY <2>3, <3>1, MeasureFacts
    <3> QED
      BY <2>6, <2>7, <3>1, <3>2
  <2> QED
    BY <2>9, <2>10
<1>11. RowsTold'
  <2>1. Alone' = Alone
    BY <1>1 DEF Alone
  <2> QED
    BY <1>0, <1>10, <2>1 DEF RowsTold
<1>12. Uncounted'
  BY <1>0, <1>5 DEF Uncounted, purchaseVars
<1> QED
  BY <1>9, <1>11, <1>12

-------------------------------------------------------------------------------
\* Counts.

\* What posting a count does, whatever was done since it looked at the books.
LEMMA postCountMoves ==
  ASSUME GoodsInv, Covered, NEW s \in Sessions, postCount(s)
  PROVE  LET q == asked[s]
             here == count[q.count].place
             moved == {p \in q.moveHere : InStock(p)}
             lost == {p \in q.missing : InStock(p)}
         IN
         /\ q.pc = "post" /\ q.count \in Counts /\ here \in Counters /\ q.moveHere \subseteq Pieces /\ q.missing \subseteq Pieces
         /\ Covered'
         /\ \/ UNCHANGED <<piece, stock>>
            \/ /\ \A x \in Places : stock'[<<"tagged", x>>] =
                    Minus(Plus(stock[<<"tagged", x>>], Total(Picked(piece, PutAt(moved, here, x)))),
                          Plus(Total(Picked(piece, TakenFrom(moved, x))), Total(Picked(piece, PutAt(lost, here, x)))))
               /\ piece' = [p \in Pieces |->
                    IF p \in q.moveHere THEN [piece[p] EXCEPT !.place = here]
                    ELSE IF p \in q.missing THEN [piece[p] EXCEPT !.status = "written_off"] ELSE piece[p]]
         /\ UNCHANGED <<bound, transfer>>
<1>0. /\ piece \in [Pieces -> PieceRows] /\ stock \in [Rows -> Measures] /\ MetalTold /\ FloorTold
      /\ asked \in [Sessions -> Questions]
  BY DEF GoodsInv, GoodsTypeOK, FloorTypeOK
<1> DEFINE q == asked[s]
           here == count[q.count].place
           moved == {p \in q.moveHere : InStock(p)}
           lost == {p \in q.missing : InStock(p)}
           weight == IF q.diff < 0 THEN -q.diff ELSE q.diff
           metal == IF q.diff = 0 THEN Nothing ELSE lotMovement(here, weight)
           a == IF q.diff > 0 THEN metal ELSE Nothing
           b == IF q.diff < 0 THEN metal ELSE Nothing
           f == PiecesAt(AllAt(moved, here))
           g == PiecesAt(WhereItIs(moved))
           h == PiecesAt(AllAt(lost, here))
           into == With(f, At("metal", here, a))
           out == With(With(g, h), At("metal", here, b))
           allowed == FALSE
<1>1. /\ q.pc = "post" /\ UNCHANGED <<bound, transfer>> /\ allowed \in BOOLEAN /\ ~allowed
  BY DEF postCount
<1>2. \/ UNCHANGED <<piece, stock>>
      \/ /\ recordMovements(into, out, allowed)
         /\ piece' = [p \in Pieces |->
              IF p \in q.moveHere THEN [piece[p] EXCEPT !.place = here]
              ELSE IF p \in q.missing THEN [piece[p] EXCEPT !.status = "written_off"] ELSE piece[p]]
  BY DEF postCount
<1>3. q \in Questions /\ q.count \in Counts /\ here \in Counters /\ q.diff \in Int
  BY <1>0, <1>1 DEF FloorTold, Questions
<1>4. weight \in Int
  BY <1>3
<1>5. moved \in SUBSET Pieces /\ lost \in SUBSET Pieces /\ q.moveHere \subseteq Pieces /\ q.missing \subseteq Pieces
  BY <1>3 DEF Questions
<1> HIDE DEF q, here, moved, lost, weight, allowed
<1>6. metal \in Measures /\ metal.pieces = 0 /\ Nothing \in Measures /\ Nothing.pieces = 0
  <2>1. Nothing \in Measures /\ Nothing.pieces = 0
    BY DEF Nothing, Measures
  <2> QED
    BY <1>0, <1>3, <1>4, <2>1, LotMovementTyped
<1> HIDE DEF metal
<1>7. a \in Measures /\ b \in Measures /\ a.pieces = 0 /\ b.pieces = 0
  BY <1>6
<1> HIDE DEF a, b
<1>8. /\ into \in [Rows -> Measures]
      /\ \A x \in Places : /\ into[<<"tagged", x>>] = Total(Picked(piece, PutAt(moved, here, x)))
                           /\ into[<<"tagged", x>>].net >= 0 /\ into[<<"tagged", x>>].pieces >= 0
                           /\ into[<<"metal", x>>].pieces = 0
  <2>1. piece \in [Pieces -> PieceRows] /\ moved \in SUBSET Pieces /\ a \in Measures /\ a.pieces = 0
    BY <1>0, <1>5, <1>7
  <2> QED
    BY <2>1, BatchInto, ZenonT(30)
<1>9. /\ g \in [Rows -> Measures] /\ h \in [Rows -> Measures]
      /\ \A x \in Places : g[<<"metal", x>>] = Nothing /\ h[<<"metal", x>>] = Nothing
  BY <1>0, <1>5, PiecesAtPlaces
<1>10. \A x \in Places : /\ g[<<"tagged", x>>] = Total(Picked(piece, TakenFrom(moved, x)))
                         /\ h[<<"tagged", x>>] = Total(Picked(piece, PutAt(lost, here, x)))
  BY <1>0, <1>5, PiecesTaken, PiecesPut
<1> HIDE DEF f, g, h, into
<1>11. /\ out \in [Rows -> Measures]
       /\ \A x \in Places : out[<<"tagged", x>>] = Plus(g[<<"tagged", x>>], h[<<"tagged", x>>]) /\ out[<<"metal", x>>].pieces = 0
  <2> DEFINE k == With(g, h)
  <2>1. k \in [Rows -> Measures] /\ \A r \in Rows : k[r] = Plus(g[r], h[r])
    BY <1>9, WithTyped
  <2>2. \A x \in Places : <<"metal", x>> \in Rows /\ <<"tagged", x>> \in Rows
    BY DEF Rows
  <2>3. \A x \in Places : k[<<"metal", x>>] = Nothing
    BY <1>6, <1>9, <2>1, <2>2, MeasureFacts
  <2> HIDE DEF k
  <2>4. /\ With(k, At("metal", here, b)) \in [Rows -> Measures]
        /\ \A x \in Places : With(k, At("metal", here, b))[<<"tagged", x>>] = k[<<"tagged", x>>]
        /\ \A x \in Places : With(k, At("metal", here, b))[<<"metal", x>>].pieces = 0
    BY <1>7, <2>1, <2>3, TaggedOf
  <2> QED
    BY <2>1, <2>2, <2>4 DEF k
<1> HIDE DEF out
<1>12. /\ Covered'
       /\ \/ UNCHANGED <<piece, stock>>
          \/ /\ \A x \in Places : stock'[<<"tagged", x>>] =
                  Minus(Plus(stock[<<"tagged", x>>], into[<<"tagged", x>>]), out[<<"tagged", x>>])
             /\ piece' = [p \in Pieces |->
                  IF p \in q.moveHere THEN [piece[p] EXCEPT !.place = here]
                  ELSE IF p \in q.missing THEN [piece[p] EXCEPT !.status = "written_off"] ELSE piece[p]]
  <2>1. CASE UNCHANGED <<piece, stock>>
    BY <2>1 DEF Covered
  <2>2. CASE /\ recordMovements(into, out, allowed)
             /\ piece' = [p \in Pieces |->
                  IF p \in q.moveHere THEN [piece[p] EXCEPT !.place = here]
                  ELSE IF p \in q.missing THEN [piece[p] EXCEPT !.status = "written_off"] ELSE piece[p]]
    <3>1. /\ \A l \in Counters : into[<<"tagged", l>>].net >= 0 /\ into[<<"tagged", l>>].pieces >= 0
          /\ \A l \in Places : into[<<"metal", l>>].pieces = 0 /\ out[<<"metal", l>>].pieces = 0
          /\ allowed => \A l \in Counters : out[<<"tagged", l>>] = Nothing
      BY <1>1, <1>8, <1>11 DEF Counters
    <3>2. /\ Covered'
          /\ \A x \in Places : stock'[<<"tagged", x>>] =
               Minus(Plus(stock[<<"tagged", x>>], into[<<"tagged", x>>]), out[<<"tagged", x>>])
      BY <1>0, <1>1, <1>8, <1>11, <2>2, <3>1, BatchCovers
    <3> QED
      BY <2>2, <3>2
  <2> QED
    BY <1>2, <2>1, <2>2
<1>13. \/ UNCHANGED <<piece, stock>>
       \/ /\ \A x \in Places : stock'[<<"tagged", x>>] =
               Minus(Plus(stock[<<"tagged", x>>], Total(Picked(piece, PutAt(moved, here, x)))),
                     Plus(Total(Picked(piece, TakenFrom(moved, x))), Total(Picked(piece, PutAt(lost, here, x)))))
          /\ piece' = [p \in Pieces |->
               IF p \in q.moveHere THEN [piece[p] EXCEPT !.place = here]
               ELSE IF p \in q.missing THEN [piece[p] EXCEPT !.status = "written_off"] ELSE piece[p]]
  BY <1>8, <1>10, <1>11, <1>12
<1> QED
  BY <1>1, <1>3, <1>5, <1>12, <1>13 DEF q, here, moved, lost

\* A count moves pieces to where they were found and writes off what was not found.
LEMMA postCountTold ==
  ASSUME GoodsInv, GoodsTypeOK', RoadInv, BooksInv, NEW s \in Sessions, postCount(s), UNCHANGED purchaseVars
  PROVE  RowsTold' /\ Covered' /\ Uncounted'
<1>0. /\ piece \in [Pieces -> PieceRows] /\ RowsTold /\ Covered /\ Uncounted /\ PlacesTold /\ MissingTold
  BY DEF GoodsInv, GoodsTypeOK, BooksInv
<1> DEFINE q == asked[s]
           here == count[q.count].place
           moved == {p \in q.moveHere : InStock(p)}
           lost == {p \in q.missing : InStock(p)}
           there == q.moveHere
           gone == q.missing
<1>1. /\ q.pc = "post" /\ here \in Counters /\ there \subseteq Pieces /\ gone \subseteq Pieces
      /\ Covered'
      /\ \/ UNCHANGED <<piece, stock>>
         \/ /\ \A x \in Places : stock'[<<"tagged", x>>] =
                 Minus(Plus(stock[<<"tagged", x>>], Total(Picked(piece, PutAt(moved, here, x)))),
                       Plus(Total(Picked(piece, TakenFrom(moved, x))), Total(Picked(piece, PutAt(lost, here, x)))))
            /\ piece' = [p \in Pieces |->
                 IF p \in there THEN [piece[p] EXCEPT !.place = here]
                 ELSE IF p \in gone THEN [piece[p] EXCEPT !.status = "written_off"] ELSE piece[p]]
      /\ UNCHANGED <<bound, transfer>>
  BY <1>0, postCountMoves
<1>2. /\ there \cap gone = {}
      /\ \A p \in gone : Alone /\ InStock(p) => piece[p].place = here
  BY <1>0, <1>1 DEF MissingTold
<1>3. /\ moved = {p \in there : InStock(p)} /\ lost = {p \in gone : InStock(p)}
      /\ moved \subseteq Pieces /\ lost \subseteq Pieces
  BY <1>1
<1>4. \A p \in Pieces : InStock(p) => piece[p].place \in Counters /\ \A u \in Transfers : ~Carried(u, p)
  BY <1>0 DEF PlacesTold, RoadInv, InStock
<1> HIDE DEF q, here, moved, lost, there, gone
<1>5. ASSUME NEW l \in Places, l \notin Counters \/ Alone, Told(l) PROVE Told(l)'
  <2>1. WaitingAt(lot', inward', l) = WaitingAt(lot, inward, l)
    BY DEF purchaseVars
  <2>2. CASE UNCHANGED <<piece, stock>>
    BY <1>1, <1>5, <2>1, <2>2 DEF Told
  <2>3. CASE /\ \A x \in Places : stock'[<<"tagged", x>>] =
                  Minus(Plus(stock[<<"tagged", x>>], Total(Picked(piece, PutAt(moved, here, x)))),
                        Plus(Total(Picked(piece, TakenFrom(moved, x))), Total(Picked(piece, PutAt(lost, here, x)))))
             /\ piece' = [p \in Pieces |->
                  IF p \in there THEN [piece[p] EXCEPT !.place = here]
                  ELSE IF p \in gone THEN [piece[p] EXCEPT !.status = "written_off"] ELSE piece[p]]
    <3> DEFINE came == PutAt(moved, here, l)
               A == TakenFrom(moved, l)
               B == PutAt(lost, here, l)
               went == A \cup B
               held == HeldAt(piece, transfer, l)
               now == HeldAt(piece', transfer', l)
    <3>1. A \in SUBSET Pieces /\ B \in SUBSET Pieces /\ A \cap B = {}
      BY <1>2, <1>3 DEF TakenFrom, PutAt
    <3>2. stock'[<<"tagged", l>>] =
            Minus(Plus(stock[<<"tagged", l>>], Total(Picked(piece, came))), Total(Picked(piece, went)))
      <4>1. Total(Picked(piece, A \cup B)) = Plus(Total(Picked(piece, A)), Total(Picked(piece, B)))
        <5> HIDE DEF A, B
        <5> QED
          BY <1>0, <3>1, PickedBoth
      <4> QED
        BY <2>3, <4>1
    <3>3. \A p \in Pieces :
            /\ p \in there => piece'[p].place = here /\ piece'[p].status = piece[p].status
            /\ p \in gone => piece'[p].place = piece[p].place /\ piece'[p].status = "written_off"
            /\ p \notin there \cup gone => piece'[p] = piece[p]
            /\ Worth(piece'[p]) = Worth(piece[p])
      <4> SUFFICES ASSUME NEW p \in Pieces
                   PROVE  /\ p \in there => piece'[p].place = here /\ piece'[p].status = piece[p].status
                          /\ p \in gone => piece'[p].place = piece[p].place /\ piece'[p].status = "written_off"
                          /\ p \notin there \cup gone => piece'[p] = piece[p]
                          /\ Worth(piece'[p]) = Worth(piece[p])
        OBVIOUS
      <4>1. piece[p] \in PieceRows
        BY <1>0
      <4>2. CASE p \in there
        <5>1. p \notin gone /\ piece'[p] = [piece[p] EXCEPT !.place = here]
          BY <1>2, <2>3, <4>2
        <5> QED
          BY <4>1, <4>2, <5>1 DEF PieceRows, Worth
      <4>3. CASE p \notin there /\ p \in gone
        <5>1. piece'[p] = [piece[p] EXCEPT !.status = "written_off"]
          BY <2>3, <4>3
        <5> QED
          BY <4>1, <4>3, <5>1 DEF PieceRows, Worth
      <4>4. CASE p \notin there /\ p \notin gone
        BY <2>3, <4>4
      <4> QED
        BY <4>2, <4>3, <4>4
    <3>4. ASSUME NEW p \in Pieces
          PROVE  \/ p \notin came /\ p \notin went /\ (p \in now <=> p \in held)
                 \/ (p \in held <=> p \in went) /\ (p \in now <=> p \in came)
      <4>1. CASE p \in moved
        <5>1. /\ InStock(p) /\ p \notin lost /\ piece'[p].place = here /\ piece'[p].status = "in_stock"
              /\ \A u \in Transfers : ~Carried(u, p)
          BY <1>2, <1>3, <1>4, <3>3, <4>1 DEF InStock
        <5>2. p \in held <=> p \in went
          BY <4>1, <5>1 DEF HeldAt, InStock, Carried, TakenFrom, PutAt
        <5>3. p \in now <=> p \in came
          BY <1>1, <4>1, <5>1 DEF HeldAt, Carried, PutAt
        <5> QED
          BY <5>2, <5>3
      <4>2. CASE p \in lost
        <5>1. /\ InStock(p) /\ p \notin moved /\ piece'[p].status = "written_off" /\ piece[p].place \in Counters
              /\ (Alone => piece[p].place = here) /\ \A u \in Transfers : ~Carried(u, p)
          BY <1>2, <1>3, <1>4, <3>3, <4>2
        <5>2. p \in went <=> here = l
          BY <4>2, <5>1 DEF TakenFrom, PutAt
        <5>3. p \in held <=> piece[p].place = l
          BY <5>1 DEF HeldAt, InStock, Carried
        <5>4. p \notin now
          BY <1>1, <5>1 DEF HeldAt, Carried
        <5>5. p \notin came
          BY <5>1 DEF PutAt
        <5> QED
          BY <1>1, <1>5, <5>1, <5>2, <5>3, <5>4, <5>5
      <4>3. CASE p \notin moved /\ p \notin lost
        <5>1. p \notin came /\ p \notin went
          BY <4>3 DEF PutAt, TakenFrom
        <5>2. p \in now <=> p \in held
          <6>1. CASE InStock(p)
            <7>1. piece'[p] = piece[p]
              BY <1>3, <3>3, <4>3, <6>1
            <7> QED
              BY <1>1, <7>1 DEF HeldAt
          <6>2. CASE ~InStock(p)
            <7>1. piece[p].status # "in_stock" /\ piece'[p].status # "in_stock"
              BY <3>3, <6>2 DEF InStock
            <7> QED
              BY <1>1, <7>1 DEF HeldAt
          <6> QED
            BY <6>1, <6>2
        <5> QED
          BY <5>1, <5>2
      <4> QED
        BY <4>1, <4>2, <4>3
    <3>5. \A p \in Pieces : p \in now => Worth(piece'[p]) = Worth(piece[p])
      BY <3>3
    <3> HIDE DEF came, went
    <3>6. \A p \in Pieces :
             IF (p \in came) <=> (p \in went) THEN (p \in now) <=> (p \in held)
             ELSE ((p \in held) <=> (p \in went)) /\ ((p \in now) <=> (p \in came))
      BY <3>4
    <3> QED
      BY <1>5, <2>1, <3>2, <3>5, <3>6, ToldMoves DEF GoodsInv
  <2> QED
    BY <1>1, <2>2, <2>3
<1>6. RowsTold'
  <2>1. Alone' = Alone
    BY <1>1 DEF Alone
  <2> QED
    BY <1>0, <1>5, <2>1 DEF RowsTold
<1>7. Uncounted'
  BY <1>0, <1>1 DEF Uncounted, purchaseVars
<1> QED
  BY <1>1, <1>6, <1>7

-------------------------------------------------------------------------------
\* Every session's step.

\* Nothing else of counting touches the shelf.
LEMMA CountingLeaves ==
  ASSUME NEW s \in Sessions,
         \/ BeginStartCount(s) \/ startCount(s) \/ Abandon(s)
         \/ (\E c \in Counts : scanTags(s, c) \/ weighLot(s, c) \/ removeCountLine(s, c) \/ cancelCount(s, c))
         \/ (\E c \in Counts : BeginPostCount(s, c))
  PROVE  UNCHANGED <<shelfVars, transfer>>
BY DEF BeginStartCount, startCount, Abandon, scanTags, weighLot, removeCountLine, cancelCount, BeginPostCount

\* Every step of a session leaves the rows told.
LEMMA SessionTold ==
  ASSUME GoodsInv, GoodsTypeOK', RoadInv, BooksInv, NEW s \in Sessions, SessionStep(s), UNCHANGED purchaseVars
  PROVE  RowsTold' /\ Covered' /\ Uncounted'
<1>1. CASE UNCHANGED <<shelfVars, transfer>>
  <2>1. RowsTold /\ Covered /\ Uncounted
    BY DEF BooksInv
  <2>2. UNCHANGED <<bound, piece, stock, transfer, lot, inward>>
    BY <1>1 DEF shelfVars, purchaseVars
  <2>3. Alone' = Alone /\ \A l \in Places : Told(l)' <=> Told(l)
    BY <2>2 DEF Alone, Told
  <2> QED
    BY <2>1, <2>2, <2>3 DEF RowsTold, Covered, Uncounted
<1>2. \/ dispatchTransfer(s) \/ (\E t \in Transfers : land(s, t)) \/ adjustStock(s)
      \/ (\E p \in Pieces : correctPieceWeights(s, p) \/ sellPiece(s, p) \/ undoSale(s, p))
      \/ postCount(s)
      \/ UNCHANGED <<shelfVars, transfer>>
  BY CountingLeaves DEF SessionStep
<1> QED
  BY <1>1, <1>2, dispatchTransferTold, landTold, adjustStockTold, correctPieceWeightsTold, sellPieceTold, undoSaleTold, postCountTold

\* How a step may change where pieces are.
LEMMA PlacesKeep ==
  ASSUME PlacesTold, bound' = bound,
         \A p \in Pieces :
           \/ piece'[p].place = piece[p].place /\ piece'[p].soldAt = piece[p].soldAt /\ (InStock(p)' => InStock(p))
           \/ InStock(p) /\ piece'[p].place = piece[p].place /\ piece'[p].soldAt = piece[p].place /\ bound.sells
           \/ piece[p].soldAt # None /\ piece'[p].place = piece[p].place /\ piece'[p].soldAt = None
           \/ piece'[p].soldAt = None /\ (InStock(p)' => piece'[p].place \in Counters),
         \A p \in Pieces, t \in Transfers : bound.counts = 0 /\ Carried(t, p)' =>
           \/ Carried(t, p) /\ transfer'[t].to = transfer[t].to /\ piece'[p].place = piece[p].place
           \/ piece'[p].place = Transit[BranchOf[transfer'[t].to]],
         \A c \in Counts : count'[c].status # "none" => bound.counts > 0
  PROVE  PlacesTold'
<1>1. ASSUME NEW p \in Pieces
      PROVE  /\ InStock(p)' \/ piece'[p].soldAt # None => piece'[p].place \in Counters
             /\ piece'[p].soldAt # None => bound.sells /\ piece'[p].soldAt = piece'[p].place
  BY DEF PlacesTold
<1>2. ASSUME bound.counts = 0, NEW p \in Pieces, NEW t \in Transfers, Carried(t, p)'
      PROVE  piece'[p].place = Transit[BranchOf[transfer'[t].to]]
  BY <1>2 DEF PlacesTold
<1> QED
  BY <1>1, <1>2 DEF PlacesTold

\* Counts are raised only where there may be some.
LEMMA CountsNumbered ==
  ASSUME GoodsInv, PlacesTold, NEW s \in Sessions, SessionStep(s)
  PROVE  \A c \in Counts : count'[c].status # "none" => bound.counts > 0
<1>0. count \in [Counts -> CountRows] /\ bound \in Bounds
  BY DEF GoodsInv, GoodsTypeOK, FloorTypeOK
<1>1. CASE count' = count
  BY <1>1 DEF PlacesTold
<1>2. CASE startCount(s)
  <2>1. PICK c \in Unused(count, bound.counts) :
          count' = [count EXCEPT ![c].status = "open", ![c].place = asked[s].place]
    BY <1>2 DEF startCount
  <2>2. bound.counts \in Nat
    BY <1>0, FloorAssumption
  <2>3. bound.counts > 0
    BY <2>1, <2>2 DEF Unused
  <2> QED
    BY <2>3
<1>3. ASSUME NEW c \in Counts, scanTags(s, c) \/ weighLot(s, c) \/ removeCountLine(s, c) \/ cancelCount(s, c)
      PROVE  \A d \in Counts : count'[d].status # "none" => bound.counts > 0
  <2>1. openCount(c)
    BY <1>3 DEF scanTags, weighLot, removeCountLine, cancelCount
  <2> QED
    BY <2>1 DEF openCount, PlacesTold
<1>4. CASE postCount(s)
  <2>1. asked[s].count \in Counts /\ count[asked[s].count].status # "none"
    BY <1>4 DEF postCount, GoodsInv, FloorTold
  <2> QED
    BY <2>1 DEF PlacesTold
<1>5. CASE dispatchTransfer(s)
  BY <1>1, <1>5, DispatchIdle
<1>6. ASSUME NEW t \in Transfers, land(s, t) PROVE count' = count
  BY <1>6 DEF land
<1>7. CASE adjustStock(s)
  <2>1. UNCHANGED <<bound, floorVars>>
    BY <1>7, Zenon DEF adjustStock
  <2> QED
    BY <1>1, <2>1 DEF floorVars
<1>8. ASSUME NEW p \in Pieces, correctPieceWeights(s, p) \/ sellPiece(s, p) \/ undoSale(s, p) PROVE count' = count
  BY <1>8 DEF correctPieceWeights, sellPiece, undoSale, floorVars
<1>9. CASE BeginStartCount(s) \/ Abandon(s)
  BY <1>1, <1>9 DEF BeginStartCount, Abandon
<1>10. ASSUME NEW c \in Counts, BeginPostCount(s, c) PROVE count' = count
  BY <1>10 DEF BeginPostCount
<1> QED
  BY <1>1, <1>2, <1>3, <1>4, <1>5, <1>6, <1>7, <1>8, <1>9, <1>10 DEF SessionStep

\* A dispatched piece is where its transfer lands it.
LEMMA dispatchTransferPlaces ==
  ASSUME GoodsInv, RoadInv, PlacesTold, NEW s \in Sessions, SessionStep(s), dispatchTransfer(s)
  PROVE  PlacesTold'
<1>0. piece \in [Pieces -> PieceRows] /\ transfer \in [Transfers -> TransferRows]
  BY DEF GoodsInv, GoodsTypeOK, FloorTypeOK
<1>1. PICK from, to \in Counters, set \in SUBSET Pieces, m \in Measures, t \in Transfers :
           /\ \A p \in set : InStock(p) /\ piece[p].place = from
           /\ m.net >= 0 /\ transfer[t].status = "none"
           /\ transfer' = [transfer EXCEPT ![t] =
                [status |-> IF BranchOf[from] = BranchOf[to] THEN "received" ELSE "in_transit",
                 from |-> from, to |-> to, pieces |-> set, metal |-> m]]
           /\ piece' = [p \in Pieces |-> IF p \in set
                THEN [piece[p] EXCEPT !.place = landing(from, to),
                                      !.status = IF BranchOf[from] = BranchOf[to] THEN "in_stock" ELSE "in_transit"]
                ELSE piece[p]]
           /\ stock' \in [Rows -> Measures] /\ MetalTold'
           /\ \A x \in Places : stock'[<<"metal", x>>] =
                Minus(Plus(stock[<<"metal", x>>], IF x = landing(from, to) THEN m ELSE Nothing),
                      IF x = from THEN m ELSE Nothing)
           /\ UNCHANGED <<bound, count, asked>>
  BY dispatchTransferFacts
<1> DEFINE same == BranchOf[from] = BranchOf[to]
           l == landing(from, to)
           status == IF same THEN "in_stock" ELSE "in_transit"
           row == [status |-> IF same THEN "received" ELSE "in_transit", from |-> from, to |-> to, pieces |-> set, metal |-> m]
<1>2. /\ piece' = [p \in Pieces |-> IF p \in set THEN [piece[p] EXCEPT !.place = l, !.status = status] ELSE piece[p]]
      /\ transfer' = [transfer EXCEPT ![t] = row] /\ row.to = to /\ row.pieces = set /\ (row.status = "in_transit" <=> ~same)
      /\ l = IF same THEN to ELSE Transit[BranchOf[to]]
      /\ status = "in_stock" => l \in Counters
  BY <1>1, LandingFacts
<1> HIDE DEF same, l, status, row
<1>3. \A p \in set : piece'[p].place = l /\ piece'[p].status = status /\ piece'[p].soldAt = None
  <2> SUFFICES ASSUME NEW p \in set PROVE piece'[p].place = l /\ piece'[p].status = status /\ piece'[p].soldAt = None
    OBVIOUS
  <2>1. piece[p] \in PieceRows /\ piece[p].soldAt = None /\ piece'[p] = [piece[p] EXCEPT !.place = l, !.status = status]
    BY <1>0, <1>1, <1>2 DEF RoadInv
  <2> QED
    BY <2>1 DEF PieceRows
<1>4. \A p \in Pieces \ set : piece'[p] = piece[p]
  BY <1>2
<1>5. \A p \in Pieces :
        \/ piece'[p].place = piece[p].place /\ piece'[p].soldAt = piece[p].soldAt /\ (InStock(p)' => InStock(p))
        \/ piece'[p].soldAt = None /\ (InStock(p)' => piece'[p].place \in Counters)
  BY <1>2, <1>3, <1>4 DEF InStock
<1>6. ASSUME NEW p \in Pieces, NEW u \in Transfers, Carried(u, p)'
      PROVE  \/ Carried(u, p) /\ transfer'[u].to = transfer[u].to /\ piece'[p].place = piece[p].place
             \/ piece'[p].place = Transit[BranchOf[transfer'[u].to]]
  <2>1. CASE u = t
    <3>1. transfer'[u] = row
      BY <1>0, <1>2, <2>1
    <3> QED
      BY <1>2, <1>3, <1>6, <3>1 DEF Carried
  <2>2. CASE u # t
    <3>1. transfer'[u] = transfer[u]
      BY <1>0, <1>2, <2>2
    <3>2. Carried(u, p)
      BY <1>6, <3>1 DEF Carried
    <3>3. p \notin set
      BY <1>1, <3>2 DEF RoadInv, InStock
    <3> QED
      BY <1>4, <3>1, <3>2, <3>3
  <2> QED
    BY <2>1, <2>2
<1> QED
  BY <1>1, <1>5, <1>6, CountsNumbered, PlacesKeep

\* A piece that landed is at a counter.
LEMMA landPlaces ==
  ASSUME GoodsInv, RoadInv, PlacesTold, NEW s \in Sessions, SessionStep(s), NEW t \in Transfers, land(s, t)
  PROVE  PlacesTold'
<1>0. piece \in [Pieces -> PieceRows] /\ transfer \in [Transfers -> TransferRows]
  BY DEF GoodsInv, GoodsTypeOK, FloorTypeOK
<1>1. PICK status \in {"received", "cancelled"}, target \in Counters :
           /\ transfer[t].status = "in_transit" /\ transfer[t].to \in Counters
           /\ transfer' = [transfer EXCEPT ![t].status = status]
           /\ piece' = [p \in Pieces |-> IF p \in transfer[t].pieces
                THEN [piece[p] EXCEPT !.place = target, !.status = "in_stock"] ELSE piece[p]]
           /\ stock' \in [Rows -> Measures] /\ MetalTold'
           /\ \A x \in Places : stock'[<<"metal", x>>] =
                Minus(Plus(stock[<<"metal", x>>], IF x = target THEN transfer[t].metal ELSE Nothing),
                      IF x = Transit[BranchOf[transfer[t].to]] THEN transfer[t].metal ELSE Nothing)
           /\ UNCHANGED <<bound, count, asked>>
  BY landFacts
<1>2. /\ \A u \in Transfers \ {t} : transfer'[u] = transfer[u]
      /\ transfer'[t].status # "in_transit"
  BY <1>0, <1>1 DEF TransferRows
<1>3. \A p \in Pieces : p \in transfer[t].pieces => piece'[p].place = target /\ piece'[p].soldAt = None
  <2> SUFFICES ASSUME NEW p \in Pieces, p \in transfer[t].pieces PROVE piece'[p].place = target /\ piece'[p].soldAt = None
    OBVIOUS
  <2>1. piece[p].soldAt = None
    BY <1>1 DEF RoadInv, Carried
  <2>2. piece[p] \in PieceRows /\ piece'[p] = [piece[p] EXCEPT !.place = target, !.status = "in_stock"]
    BY <1>0, <1>1
  <2> QED
    BY <2>1, <2>2 DEF PieceRows
<1>4. \A p \in Pieces : p \notin transfer[t].pieces => piece'[p] = piece[p]
  BY <1>1
<1>5. \A p \in Pieces :
        \/ piece'[p].place = piece[p].place /\ piece'[p].soldAt = piece[p].soldAt /\ (InStock(p)' => InStock(p))
        \/ piece'[p].soldAt = None /\ (InStock(p)' => piece'[p].place \in Counters)
  BY <1>1, <1>3, <1>4 DEF InStock
<1>6. ASSUME NEW p \in Pieces, NEW u \in Transfers, Carried(u, p)'
      PROVE  Carried(u, p) /\ transfer'[u].to = transfer[u].to /\ piece'[p].place = piece[p].place
  <2>1. u # t
    BY <1>2, <1>6 DEF Carried
  <2>2. transfer'[u] = transfer[u]
    BY <1>2, <2>1
  <2>3. Carried(u, p)
    BY <1>6, <2>2 DEF Carried
  <2>4. p \notin transfer[t].pieces
    BY <1>1, <2>1, <2>3 DEF RoadInv, Carried
  <2> QED
    BY <1>4, <2>2, <2>3, <2>4
<1> QED
  BY <1>1, <1>5, <1>6, CountsNumbered, PlacesKeep

\* A piece written off stays where it is.
LEMMA adjustStockPlaces ==
  ASSUME GoodsInv, PlacesTold, NEW s \in Sessions, SessionStep(s), adjustStock(s)
  PROVE  PlacesTold'
<1>0. piece \in [Pieces -> PieceRows]
  BY DEF GoodsInv, GoodsTypeOK
<1>1. PICK l \in Counters, set \in SUBSET Pieces :
           /\ stock' \in [Rows -> Measures] /\ MetalTold'
           /\ \A x \in Places \ {l} : stock'[<<"metal", x>>] = stock[<<"metal", x>>]
           /\ \A p \in set : InStock(p)
           /\ piece' = [p \in Pieces |-> IF p \in set THEN [piece[p] EXCEPT !.status = "written_off"] ELSE piece[p]]
           /\ UNCHANGED <<bound, floorVars>>
  BY adjustStockFacts
<1>2. ASSUME NEW p \in Pieces
      PROVE  piece'[p].place = piece[p].place /\ piece'[p].soldAt = piece[p].soldAt /\ (InStock(p)' => InStock(p))
  <2>1. piece[p] \in PieceRows
    BY <1>0
  <2> QED
    BY <1>1, <2>1 DEF PieceRows, InStock
<1>3. \A p \in Pieces, t \in Transfers : Carried(t, p)' => Carried(t, p) /\ transfer'[t].to = transfer[t].to
  BY <1>1 DEF Carried, floorVars
<1> QED
  BY <1>1, <1>2, <1>3, CountsNumbered, PlacesKeep

\* Neither a sale nor its undoing nor a scale moves a piece.
LEMMA OnePiecePlaces ==
  ASSUME GoodsInv, PlacesTold, NEW s \in Sessions, SessionStep(s), NEW p \in Pieces,
         correctPieceWeights(s, p) \/ sellPiece(s, p) \/ undoSale(s, p)
  PROVE  PlacesTold'
<1>0. piece \in [Pieces -> PieceRows] /\ piece[p] \in PieceRows
  BY DEF GoodsInv, GoodsTypeOK
<1>1. /\ UNCHANGED <<bound, floorVars>> /\ piece' \in [Pieces -> PieceRows] /\ \A q \in Pieces \ {p} : piece'[q] = piece[q]
  BY OnePieceFacts
<1>2. CASE correctPieceWeights(s, p)
  <2>1. PICK w \in Reweighs : InStock(p) /\ piece' = [piece EXCEPT ![p].gross = w.gross, ![p].net = w.net]
    BY <1>2 DEF correctPieceWeights
  <2>2. piece'[p].place = piece[p].place /\ piece'[p].soldAt = piece[p].soldAt /\ InStock(p)
    BY <1>0, <2>1 DEF PieceRows
  <2>3. \A q \in Pieces :
          piece'[q].place = piece[q].place /\ piece'[q].soldAt = piece[q].soldAt /\ (InStock(q)' => InStock(q))
    BY <1>1, <2>2 DEF InStock
  <2>4. \A q \in Pieces, t \in Transfers : Carried(t, q)' => Carried(t, q) /\ transfer'[t].to = transfer[t].to
    BY <1>1 DEF Carried, floorVars
  <2> QED
    BY <1>1, <2>3, <2>4, CountsNumbered, PlacesKeep
<1>3. CASE sellPiece(s, p)
  <2>1. InStock(p) /\ bound.sells /\ piece' = [piece EXCEPT ![p].status = "sold", ![p].soldAt = piece[p].place]
    BY <1>3 DEF sellPiece
  <2>2. InStock(p) /\ piece'[p].place = piece[p].place /\ piece'[p].soldAt = piece[p].place /\ bound.sells
    BY <1>0, <2>1 DEF PieceRows
  <2>3. \A q \in Pieces :
          \/ piece'[q].place = piece[q].place /\ piece'[q].soldAt = piece[q].soldAt /\ (InStock(q)' => InStock(q))
          \/ InStock(q) /\ piece'[q].place = piece[q].place /\ piece'[q].soldAt = piece[q].place /\ bound.sells
    BY <1>1, <2>2 DEF InStock
  <2>4. \A q \in Pieces, t \in Transfers :
          Carried(t, q)' => Carried(t, q) /\ transfer'[t].to = transfer[t].to /\ piece'[q].place = piece[q].place
    BY <1>1, <2>2 DEF Carried, floorVars
  <2> QED
    BY <1>1, <2>3, <2>4, CountsNumbered, PlacesKeep
<1>4. CASE undoSale(s, p)
  <2>1. piece[p].soldAt # None /\ piece' = [piece EXCEPT ![p].status = "in_stock", ![p].soldAt = None]
    BY <1>4 DEF undoSale
  <2>2. piece[p].soldAt # None /\ piece'[p].place = piece[p].place /\ piece'[p].soldAt = None
    BY <1>0, <2>1 DEF PieceRows
  <2>3. \A q \in Pieces :
          \/ piece'[q].place = piece[q].place /\ piece'[q].soldAt = piece[q].soldAt /\ (InStock(q)' => InStock(q))
          \/ piece[q].soldAt # None /\ piece'[q].place = piece[q].place /\ piece'[q].soldAt = None
    BY <1>1, <2>2 DEF InStock
  <2>4. \A q \in Pieces, t \in Transfers :
          Carried(t, q)' => Carried(t, q) /\ transfer'[t].to = transfer[t].to /\ piece'[q].place = piece[q].place
    BY <1>1, <2>2 DEF Carried, floorVars
  <2> QED
    BY <1>1, <2>3, <2>4, CountsNumbered, PlacesKeep
<1> QED
  BY <1>2, <1>3, <1>4

\* A count moves pieces to its own counter, and none that is sold where there are no sales.
LEMMA postCountPlaces ==
  ASSUME GoodsInv, Covered, PlacesTold, ~(bound.sells /\ bound.counts > 0), NEW s \in Sessions, SessionStep(s), postCount(s)
  PROVE  PlacesTold'
<1>0. piece \in [Pieces -> PieceRows]
  BY DEF GoodsInv, GoodsTypeOK
<1> DEFINE q == asked[s]
           here == count[q.count].place
<1>1. /\ q.pc = "post" /\ q.count \in Counts /\ here \in Counters
      /\ \A p \in Pieces :
              \/ piece'[p] = piece[p]
              \/ piece'[p] = [piece[p] EXCEPT !.place = here]
              \/ p \in q.missing /\ piece'[p] = [piece[p] EXCEPT !.status = "written_off"]
      /\ UNCHANGED <<bound, transfer>>
  BY postCountFacts
<1>2. bound.counts > 0
  BY <1>1 DEF GoodsInv, FloorTold, PlacesTold
<1> HIDE DEF q, here
<1>3. ASSUME NEW p \in Pieces
      PROVE  \/ piece'[p].place = piece[p].place /\ piece'[p].soldAt = piece[p].soldAt /\ (InStock(p)' => InStock(p))
             \/ piece'[p].soldAt = None /\ (InStock(p)' => piece'[p].place \in Counters)
  <2>1. piece[p] \in PieceRows
    BY <1>0
  <2>2. piece[p].soldAt = None
    BY <1>2 DEF PlacesTold
  <2>3. CASE piece'[p] = piece[p]
    BY <2>3 DEF InStock
  <2>4. CASE piece'[p] = [piece[p] EXCEPT !.place = here]
    <3>1. piece'[p].place = here /\ piece'[p].soldAt = piece[p].soldAt
      BY <2>1, <2>4 DEF PieceRows
    <3> QED
      BY <1>1, <2>2, <3>1
  <2>5. CASE piece'[p] = [piece[p] EXCEPT !.status = "written_off"]
    <3>1. piece'[p].place = piece[p].place /\ piece'[p].soldAt = piece[p].soldAt /\ piece'[p].status = "written_off"
      BY <2>1, <2>5 DEF PieceRows
    <3> QED
      BY <3>1 DEF InStock
  <2> QED
    BY <1>1, <2>3, <2>4, <2>5
<1>4. bound.counts # 0
  BY <1>2
<1> QED
  BY <1>1, <1>3, <1>4, CountsNumbered, PlacesKeep

\* Every step of a session leaves pieces where they are told to be.
LEMMA SessionPlaces ==
  ASSUME GoodsInv, RoadInv, BooksInv, ~(bound.sells /\ bound.counts > 0), NEW s \in Sessions, SessionStep(s)
  PROVE  PlacesTold'
<1>0. PlacesTold /\ Covered
  BY DEF BooksInv
<1>1. CASE UNCHANGED <<shelfVars, transfer>>
  <2>1. UNCHANGED <<bound, piece, transfer>>
    BY <1>1 DEF shelfVars
  <2>2. \A p \in Pieces :
          piece'[p].place = piece[p].place /\ piece'[p].soldAt = piece[p].soldAt /\ (InStock(p)' => InStock(p))
    BY <2>1 DEF InStock
  <2>3. \A p \in Pieces, t \in Transfers : Carried(t, p)' => Carried(t, p) /\ transfer'[t].to = transfer[t].to
    BY <2>1 DEF Carried
  <2> QED
    BY <1>0, <2>1, <2>2, <2>3, CountsNumbered, PlacesKeep
<1>2. \/ dispatchTransfer(s) \/ (\E t \in Transfers : land(s, t)) \/ adjustStock(s)
      \/ (\E p \in Pieces : correctPieceWeights(s, p) \/ sellPiece(s, p) \/ undoSale(s, p))
      \/ postCount(s)
      \/ UNCHANGED <<shelfVars, transfer>>
  BY CountingLeaves DEF SessionStep
<1> QED
  BY <1>0, <1>1, <1>2, dispatchTransferPlaces, landPlaces, adjustStockPlaces, OnePiecePlaces, postCountPlaces

\* What a count is about to write off is what the books have there and no scan does.
LEMMA BeginPostCountMisses ==
  ASSUME GoodsInv, NEW s \in Sessions, NEW c \in Counts, BeginPostCount(s, c)
  PROVE  asked'[s].missing \in {{}, missingFrom(c)}
<1>0. asked \in [Sessions -> Questions]
  BY DEF GoodsInv, GoodsTypeOK, FloorTypeOK
<1>1. PICK writeOffMissing \in BOOLEAN :
            asked' = [asked EXCEPT ![s] =
                 [Unasked EXCEPT !.pc = "post", !.count = c, !.moveHere = elsewhere(c),
                                 !.missing = IF writeOffMissing THEN missingFrom(c) ELSE {},
                                 !.diff = IF count[c].weighed = None THEN 0
                                          ELSE count[c].weighed - stock[<<"metal", count[c].place>>].net]]
  BY DEF BeginPostCount
<1> DEFINE missing == IF writeOffMissing THEN missingFrom(c) ELSE {}
           diff == IF count[c].weighed = None THEN 0
                   ELSE count[c].weighed - stock[<<"metal", count[c].place>>].net
           here == elsewhere(c)
           q == [Unasked EXCEPT !.pc = "post", !.count = c, !.moveHere = here, !.missing = missing, !.diff = diff]
<1>2. asked' = [asked EXCEPT ![s] = q]
  BY <1>1
<1>3. missing \in {{}, missingFrom(c)}
  OBVIOUS
<1> HIDE DEF missing, diff, here
<1>4. q.missing = missing
  BY DEF Unasked
<1> HIDE DEF q
<1> QED
  BY <1>0, <1>2, <1>3, <1>4

\* Alone, what a count is about to write off stays where it was.
LEMMA SessionMisses ==
  ASSUME GoodsInv, BooksInv, NEW s \in Sessions, SessionStep(s)
  PROVE  MissingTold'
<1>0. piece \in [Pieces -> PieceRows] /\ MissingTold
  BY DEF GoodsInv, GoodsTypeOK, BooksInv
<1>1. /\ bound' = bound /\ s \in bound.sessions
      /\ \A u \in Sessions : u # s => asked'[u] = asked[u]
      /\ asked'[s].pc = "post" => \E c \in Counts : BeginPostCount(s, c)
  BY SessionActs
<1>2. \A p \in Pieces : piece[p].status # "none" => piece'[p].status # "none"
  BY FloorCosts
<1> SUFFICES ASSUME NEW u \in Sessions, asked'[u].pc = "post"
             PROVE  /\ asked'[u].moveHere \cap asked'[u].missing = {}
                    /\ \A p \in asked'[u].missing :
                         /\ piece'[p].status # "none"
                         /\ Alone' /\ InStock(p)' => piece'[p].place = count'[asked'[u].count].place
  BY DEF MissingTold
<1>3. CASE u # s
  <2>1. asked'[u] = asked[u] /\ asked[u].pc = "post"
    BY <1>1, <1>3
  <2>2. u \in bound.sessions /\ asked[u].missing \subseteq Pieces
    BY <2>1 DEF GoodsInv, FloorTold, GoodsTypeOK, FloorTypeOK, Questions
  <2>3. ~Alone'
    BY <1>1, <1>3, <2>2 DEF Alone
  <2> QED
    BY <1>0, <1>2, <2>1, <2>2, <2>3 DEF MissingTold
<1>4. CASE u = s
  <2>1. PICK c \in Counts : BeginPostCount(s, c)
    BY <1>1, <1>4
  <2>2. /\ asked'[s].count = c /\ asked'[s].moveHere = elsewhere(c) /\ UNCHANGED <<shelfVars, transfer, count>>
        /\ asked'[s].missing \in {{}, missingFrom(c)}
    BY <2>1, BeginPostCountFacts, BeginPostCountMisses
  <2>3. elsewhere(c) \cap missingFrom(c) = {}
    BY DEF elsewhere, missingFrom
  <2>4. \A p \in missingFrom(c) : piece[p].status = "in_stock" /\ piece[p].place = count[c].place
    BY DEF missingFrom, InStock
  <2> QED
    BY <1>4, <2>2, <2>3, <2>4 DEF shelfVars
<1> QED
  BY <1>3, <1>4

\* What a session does leaves the books told.
LEMMA SessionBooks ==
  ASSUME GoodsInv, GoodsTypeOK', RoadInv, BooksInv, ~(bound.sells /\ bound.counts > 0),
         NEW s \in Sessions, SessionStep(s), UNCHANGED purchaseVars
  PROVE  BooksInv'
<1>1. RowsTold' /\ Covered' /\ Uncounted' /\ PlacesTold' /\ MissingTold'
  BY SessionTold, SessionPlaces, SessionMisses
<1>2. UNCHANGED <<inward, lot, back, errand, bound>>
  BY SessionActs DEF purchaseVars
<1>3. LotsTold'
  BY <1>2 DEF BooksInv, LotsTold, LotTold, ErrandOpen, Gone, ReturnsOf, Posted, Alone
<1> QED
  BY <1>1, <1>3 DEF BooksInv

-------------------------------------------------------------------------------
\* Clerks.

\* Only tagging makes a piece and only a return of one takes it away.
LEMMA OthersLeavePieces ==
  ASSUME NEW c \in Clerks, ClerkStep(c), ~tagPieces(c), \A p \in Pieces : ~returnTagged(c, p)
  PROVE  piece' = piece
<1>1. CASE createOrder(c) \/ closeOrder(c) \/ paySupplier(c) \/ BeginSettleMetal(c) \/ createSettlement(c) \/ GiveUp(c)
  BY <1>1 DEF createOrder, closeOrder, paySupplier, BeginSettleMetal, createSettlement, GiveUp, shelfVars
<1>2. ASSUME NEW i \in Inwards, BeginCancelInward(c, i) \/ BeginTag(c, i) \/ BeginReturnUntagged(c, i)
      PROVE  piece' = piece
  BY <1>2 DEF BeginCancelInward, BeginTag, BeginReturnUntagged, shelfVars
<1>3. CASE createBill(c)
  BY <1>3 DEF createBill, shelfVars
<1>4. ASSUME NEW b \in Bills, cancelBill(c, b)
      PROVE  piece' = piece
  BY <1>4 DEF cancelBill, shelfVars
<1>5. ASSUME NEW i \in Inwards, closeLot(c, i) \/ returnMetal(c, i)
      PROVE  piece' = piece
  BY <1>5 DEF closeLot, returnMetal
<1>6. CASE cancelInward(c) \/ returnUntagged(c)
  BY <1>6 DEF cancelInward, returnUntagged
<1>7. CASE createInward(c)
  BY <1>7, createInwardLeaves
<1>8. ASSUME NEW k \in Settlements, cancelSettlement(c, k)
      PROVE  piece' = piece
  BY <1>8 DEF cancelSettlement
<1> QED
  BY <1>1, <1>2, <1>3, <1>4, <1>5, <1>6, <1>7, <1>8 DEF ClerkStep

\* What tagging a piece out of a lot does (tagging.service.ts:155-250).
LEMMA tagPiecesFacts ==
  ASSUME GoodsInv, NEW c \in Clerks, tagPieces(c)
  PROVE  LET i == errand[c].doc
             m == errand[c].measure
         IN
         /\ errand[c].pc = "tag" /\ i \in Inwards /\ lot[i].status # "none" /\ m \in Measures
         /\ inward[i].status # "none" /\ inward[i].place \in Counters
         /\ \E p \in Pieces :
              /\ piece[p].status = "none" /\ \A q \in Pieces \ {p} : piece'[q] = piece[q]
              /\ piece'[p].status = "in_stock" /\ piece'[p].place = inward[i].place /\ piece'[p].soldAt = None
              /\ piece'[p].gross = m.gross /\ piece'[p].net = m.net /\ piece'[p].cost = m.cost
         /\ recordMovements(At("tagged", inward[i].place, m), At("tagged", inward[i].place, m), FALSE)
         /\ lot'[i].expected = lot[i].expected /\ lot'[i].tagged = Plus(lot[i].tagged, m)
         /\ lot'[i].difference = lot[i].difference
         /\ lot'[i].status = IF Plus(lot[i].tagged, m) = lot[i].expected THEN "closed" ELSE lot[i].status
         /\ \A j \in Inwards \ {i} : lot'[j] = lot[j]
         /\ UNCHANGED <<bound, inward, back>>
<1>0. /\ lot \in [Inwards -> LotRows] /\ piece \in [Pieces -> PieceRows] /\ errand \in [Clerks -> Errands]
  BY DEF GoodsInv, GoodsTypeOK, PurchasesTypeOK
<1> DEFINE i == errand[c].doc
           m == errand[c].measure
           l == inward[i].place
           tagged == Plus(lot[i].tagged, m)
           status == IF tagged = lot[i].expected THEN "closed" ELSE lot[i].status
           row == [NoPiece EXCEPT !.status = "in_stock", !.place = l, !.lot = i,
                     !.gross = m.gross, !.net = m.net, !.cost = m.cost]
<1>1. PICK p \in Pieces : piece[p].status = "none" /\ piece' = [piece EXCEPT ![p] = row]
  BY DEF tagPieces
<1>2. /\ errand[c].pc = "tag"
      /\ recordMovements(At("tagged", l, m), At("tagged", l, m), FALSE)
      /\ lot' = [lot EXCEPT ![i].tagged = tagged, ![i].status = status]
      /\ UNCHANGED <<bound, inward, back>>
  BY DEF tagPieces
<1>3. i \in Inwards /\ lot[i].status # "none" /\ m \in Measures
  BY <1>0, <1>2 DEF GoodsInv, ErrandsTold, ErrandTold, Errands
<1>4. inward[i].status # "none" /\ l \in Counters
  BY <1>3 DEF GoodsInv, InwardsTold
<1>5. /\ row.status = "in_stock" /\ row.place = l /\ row.soldAt = None
      /\ row.gross = m.gross /\ row.net = m.net /\ row.cost = m.cost
  BY DEF NoPiece
<1>6. status = IF tagged = lot[i].expected THEN "closed" ELSE lot[i].status
  OBVIOUS
<1> HIDE DEF row, status, tagged
<1>7. piece'[p] = row /\ \A q \in Pieces \ {p} : piece'[q] = piece[q]
  BY <1>0, <1>1
<1>8. /\ lot'[i].expected = lot[i].expected /\ lot'[i].tagged = tagged /\ lot'[i].difference = lot[i].difference
      /\ lot'[i].status = status /\ \A j \in Inwards \ {i} : lot'[j] = lot[j]
  BY <1>0, <1>2, <1>3 DEF LotRows
<1> QED
  BY <1>1, <1>2, <1>3, <1>4, <1>5, <1>6, <1>7, <1>8 DEF tagged

\* What a clerk may do to a piece.
LEMMA ClerkPieces ==
  ASSUME GoodsInv, NEW c \in Clerks, ClerkStep(c)
  PROVE  \A p \in Pieces :
           \/ piece'[p] = piece[p]
           \/ /\ piece[p].status = "none" /\ piece'[p].status = "in_stock"
              /\ piece'[p].soldAt = None /\ piece'[p].place \in Counters
           \/ /\ InStock(p) /\ piece'[p].status = "written_off"
              /\ piece'[p].place = piece[p].place /\ piece'[p].soldAt = piece[p].soldAt
<1>0. piece \in [Pieces -> PieceRows]
  BY DEF GoodsInv, GoodsTypeOK
<1>1. CASE tagPieces(c)
  <2> DEFINE i == errand[c].doc
  <2>1. inward[i].place \in Counters
    BY <1>1, tagPiecesFacts
  <2>2. PICK p \in Pieces :
          /\ piece[p].status = "none" /\ \A q \in Pieces \ {p} : piece'[q] = piece[q]
          /\ piece'[p].status = "in_stock" /\ piece'[p].place = inward[i].place /\ piece'[p].soldAt = None
    BY <1>1, tagPiecesFacts
  <2> QED
    BY <2>1, <2>2
<1>2. CASE \E p \in Pieces : returnTagged(c, p)
  <2>1. PICK p \in Pieces : InStock(p) /\ piece' = [piece EXCEPT ![p].status = "written_off"]
    BY <1>2 DEF returnTagged
  <2>2. piece[p] \in PieceRows
    BY <1>0
  <2>3. /\ piece'[p].status = "written_off" /\ piece'[p].place = piece[p].place /\ piece'[p].soldAt = piece[p].soldAt
        /\ \A q \in Pieces \ {p} : piece'[q] = piece[q]
    BY <1>0, <2>1, <2>2 DEF PieceRows
  <2> QED
    BY <2>1, <2>3
<1> QED
  BY <1>1, <1>2, OthersLeavePieces

\* A clerk's pieces come to a counter, and go from where they are.
LEMMA ClerkPlaces ==
  ASSUME GoodsInv, RoadInv, BooksInv, NEW c \in Clerks, ClerkStep(c), UNCHANGED floorVars
  PROVE  PlacesTold' /\ MissingTold'
<1>1. bound' = bound /\ transfer' = transfer /\ count' = count /\ asked' = asked
  BY ClerkActs DEF floorVars
<1>2. PlacesTold /\ MissingTold /\ \A s \in Sessions : asked[s].missing \subseteq Pieces
  BY DEF BooksInv, GoodsInv, GoodsTypeOK, FloorTypeOK, Questions
<1>3. \A p \in Pieces :
        \/ piece'[p].place = piece[p].place /\ piece'[p].soldAt = piece[p].soldAt /\ (InStock(p)' => InStock(p))
        \/ piece'[p].soldAt = None /\ (InStock(p)' => piece'[p].place \in Counters)
  BY ClerkPieces DEF InStock
<1>4. ASSUME NEW p \in Pieces, NEW t \in Transfers, Carried(t, p)'
      PROVE  Carried(t, p) /\ transfer'[t].to = transfer[t].to /\ piece'[p].place = piece[p].place
  <2>1. Carried(t, p)
    BY <1>1, <1>4 DEF Carried
  <2>2. piece[p].status # "none"
    BY <2>1 DEF RoadInv
  <2> QED
    BY <1>1, <2>1, <2>2, ClerkPieces
<1>5. \A c1 \in Counts : count'[c1].status # "none" => bound.counts > 0
  BY <1>1, <1>2 DEF PlacesTold
<1>6. PlacesTold'
  BY <1>1, <1>2, <1>3, <1>4, <1>5, PlacesKeep
<1>7. ASSUME NEW s \in Sessions, asked'[s].pc = "post"
      PROVE  /\ asked'[s].moveHere \cap asked'[s].missing = {}
             /\ \A p \in asked'[s].missing :
                  /\ piece'[p].status # "none"
                  /\ Alone' /\ InStock(p)' => piece'[p].place = count'[asked'[s].count].place
  <2>1. /\ asked[s].pc = "post" /\ asked[s].moveHere \cap asked[s].missing = {} /\ asked'[s] = asked[s]
        /\ \A p \in asked[s].missing : /\ piece[p].status # "none"
                                       /\ Alone /\ InStock(p) => piece[p].place = count[asked[s].count].place
    BY <1>1, <1>2, <1>7 DEF MissingTold
  <2>2. Alone' = Alone
    BY <1>1 DEF Alone
  <2>3. \A p \in Pieces : piece[p].status # "none" =>
          piece'[p].status # "none" /\ (InStock(p)' => InStock(p) /\ piece'[p].place = piece[p].place)
    BY ClerkPieces DEF InStock
  <2> QED
    BY <1>1, <1>2, <2>1, <2>2, <2>3
<1> QED
  BY <1>6, <1>7 DEF MissingTold

-------------------------------------------------------------------------------
\* One counter and one inward.

\* What the books say at a place, when a clerk changes one inward's share of it.
LEMMA RowSame ==
  ASSUME GoodsTypeOK, NEW l \in Places, Told(l), transfer' = transfer, stock'[<<"tagged", l>>] = stock[<<"tagged", l>>],
         \A p \in Pieces : \/ piece'[p] = piece[p]
                           \/ p \notin HeldAt(piece, transfer, l) /\ p \notin HeldAt(piece', transfer', l),
         \A j \in Inwards : WaitingAt(lot', inward', l)[j] = WaitingAt(lot, inward, l)[j]
  PROVE  Told(l)'
<1> DEFINE here == HeldAt(piece, transfer, l)
           now == HeldAt(piece', transfer', l)
<1>1. \A p \in Pieces : (p \in now <=> p \in here) /\ (p \in now => Worth(piece'[p]) = Worth(piece[p]))
  <2> SUFFICES ASSUME NEW p \in Pieces PROVE (p \in now <=> p \in here) /\ (p \in now => Worth(piece'[p]) = Worth(piece[p]))
    OBVIOUS
  <2>1. CASE piece'[p] = piece[p]
    BY <2>1 DEF HeldAt
  <2> QED
    BY <2>1
<1>2. WaitingAt(lot', inward', l) = WaitingAt(lot, inward, l)
  <2>1. /\ WaitingAt(lot', inward', l) = [j \in Inwards |-> WaitingAt(lot', inward', l)[j]]
        /\ WaitingAt(lot, inward, l) = [j \in Inwards |-> WaitingAt(lot, inward, l)[j]]
    BY DEF WaitingAt
  <2> QED
    BY <2>1, Zenon
<1> HIDE DEF here, now
<1>3. Picked(piece', now) = Picked(piece, here)
  BY <1>1 DEF Picked
<1> QED
  BY <1>2, <1>3 DEF Told, here, now

\* Shares put together.
LEMMA SpreadOver ==
  ASSUME NEW m \in Measures, NEW a \in Measures, NEW b \in Measures
  PROVE  Minus(Plus(m, a), b) = Plus(m, Minus(a, b)) /\ Minus(a, b) \in Measures
BY DEF Plus, Minus, Measures

\* Two places' shares side by side.
LEMMA SideBySide ==
  ASSUME NEW h \in Measures, NEW x \in Measures, NEW e \in Measures, NEW y \in Measures
  PROVE  Plus(Plus(h, x), Plus(e, y)) = Plus(Plus(h, e), Plus(x, y)) /\ Plus(h, e) \in Measures
BY DEF Plus, Measures

\* What came to the pieces and to what waits is what came to the balance.
LEMMA EvenShift ==
  ASSUME NEW w \in Measures, NEW v \in Measures, NEW old \in Measures, NEW new \in Measures,
         NEW a \in Measures, NEW b \in Measures, Plus(Plus(w, new), b) = Plus(Plus(v, old), a)
  PROVE  Plus(Minus(w, v), Minus(new, old)) = Minus(a, b)
<1>0. /\ (w.pieces + new.pieces) + b.pieces = (v.pieces + old.pieces) + a.pieces
      /\ (w.gross + new.gross) + b.gross = (v.gross + old.gross) + a.gross
      /\ (w.net + new.net) + b.net = (v.net + old.net) + a.net
      /\ (w.cost + new.cost) + b.cost = (v.cost + old.cost) + a.cost
  BY DEF Plus
<1>1. (w.pieces - v.pieces) + (new.pieces - old.pieces) = a.pieces - b.pieces
  <2>1. /\ w.pieces \in Int /\ v.pieces \in Int /\ old.pieces \in Int /\ new.pieces \in Int /\ a.pieces \in Int /\ b.pieces \in Int
    BY DEF Measures
  <2>2. (w.pieces + new.pieces) + b.pieces = (v.pieces + old.pieces) + a.pieces
    BY <1>0
  <2> QED
    BY <2>1, <2>2
<1>2. (w.gross - v.gross) + (new.gross - old.gross) = a.gross - b.gross
  <2>1. /\ w.gross \in Int /\ v.gross \in Int /\ old.gross \in Int /\ new.gross \in Int /\ a.gross \in Int /\ b.gross \in Int
    BY DEF Measures
  <2>2. (w.gross + new.gross) + b.gross = (v.gross + old.gross) + a.gross
    BY <1>0
  <2> QED
    BY <2>1, <2>2
<1>3. (w.net - v.net) + (new.net - old.net) = a.net - b.net
  <2>1. /\ w.net \in Int /\ v.net \in Int /\ old.net \in Int /\ new.net \in Int /\ a.net \in Int /\ b.net \in Int
    BY DEF Measures
  <2>2. (w.net + new.net) + b.net = (v.net + old.net) + a.net
    BY <1>0
  <2> QED
    BY <2>1, <2>2
<1>4. (w.cost - v.cost) + (new.cost - old.cost) = a.cost - b.cost
  <2>1. /\ w.cost \in Int /\ v.cost \in Int /\ old.cost \in Int /\ new.cost \in Int /\ a.cost \in Int /\ b.cost \in Int
    BY DEF Measures
  <2>2. (w.cost + new.cost) + b.cost = (v.cost + old.cost) + a.cost
    BY <1>0
  <2> QED
    BY <2>1, <2>2
<1> QED
  BY <1>1, <1>2, <1>3, <1>4 DEF Plus, Minus

\* One place's row, when one lot and the pieces there change with its balance.
LEMMA RowTold ==
  ASSUME GoodsTypeOK, GoodsTypeOK', NEW l \in Places, Told(l), NEW i \in Inwards,
         NEW w \in Measures, NEW v \in Measures, NEW a \in Measures, NEW b \in Measures,
         Total(Picked(piece', HeldAt(piece', transfer', l)))
           = Minus(Plus(Total(Picked(piece, HeldAt(piece, transfer, l))), w), v),
         \A j \in Inwards \ {i} : WaitingAt(lot', inward', l)[j] = WaitingAt(lot, inward, l)[j],
         stock'[<<"tagged", l>>] = Minus(Plus(stock[<<"tagged", l>>], a), b),
         Plus(Plus(w, WaitingAt(lot', inward', l)[i]), b) = Plus(Plus(v, WaitingAt(lot, inward, l)[i]), a)
  PROVE  Told(l)'
<1> DEFINE h == Total(Picked(piece, HeldAt(piece, transfer, l)))
           f == WaitingAt(lot, inward, l)
           g == WaitingAt(lot', inward', l)
<1>0. lot \in [Inwards -> LotRows] /\ lot' \in [Inwards -> LotRows] /\ piece \in [Pieces -> PieceRows]
  BY DEF GoodsTypeOK, PurchasesTypeOK
<1>1. /\ DOMAIN f = Inwards /\ DOMAIN g = Inwards /\ Total(f) \in Measures /\ h \in Measures
      /\ \A j \in Inwards : f[j] \in Measures /\ g[j] \in Measures
  <2>1. DOMAIN f = Inwards /\ (\A j \in Inwards : f[j] \in Measures) /\ Total(f) \in Measures
    BY <1>0, WaitingTyped
  <2>2. DOMAIN g = Inwards /\ (\A j \in Inwards : g[j] \in Measures)
    <3> DEFINE rows == lot'
               others == inward'
    <3>1. rows \in [Inwards -> LotRows]
      BY <1>0
    <3> HIDE DEF rows, others
    <3>2. \A j \in Inwards : rows[j].expected \in Measures /\ rows[j].tagged \in Measures /\ rows[j].difference \in Measures
      BY <3>1 DEF LotRows
    <3>3. \A j \in Inwards : /\ Minus(Minus(rows[j].expected, rows[j].tagged), rows[j].difference) \in Measures
                             /\ Minus(Nothing, rows[j].difference) \in Measures /\ Nothing \in Measures
      BY <3>2 DEF Minus, Measures, Nothing
    <3> QED
      BY <3>3 DEF WaitingAt, Rest, rows, others
  <2>3. h \in Measures
    BY <1>0, PickedTyped
  <2> QED
    BY <2>1, <2>2, <2>3
<1>2. stock[<<"tagged", l>>] = Plus(h, Total(f))
  BY DEF Told
<1>3. /\ stock'[<<"tagged", l>>] = Minus(Plus(stock[<<"tagged", l>>], a), b)
      /\ Plus(Plus(w, g[i]), b) = Plus(Plus(v, f[i]), a)
      /\ \A j \in Inwards \ {i} : g[j] = f[j]
  OBVIOUS
<1>4. Told(l)' <=> stock'[<<"tagged", l>>] = Plus(Minus(Plus(h, w), v), Total(g))
  BY DEF Told
<1> HIDE DEF h, f, g
<1>5. Total(g) = Minus(Plus(Total(f), g[i]), f[i])
  <2>1. IsFiniteSet(Inwards)
    BY GoodsFinite
  <2>2. \A j \in Inwards : f[j] \in Measures /\ g[j] \in Measures
    BY <1>1
  <2>3. DOMAIN f = Inwards /\ DOMAIN g = Inwards /\ \A j \in Inwards \ {i} : g[j] = f[j]
    BY <1>1, <1>3
  <2> QED
    BY <2>1, <2>2, <2>3, TotalChanges
<1>6. Minus(Plus(Plus(h, Total(f)), a), b) = Plus(Minus(Plus(h, w), v), Minus(Plus(Total(f), g[i]), f[i]))
  <2>1. f[i] \in Measures /\ g[i] \in Measures /\ Total(f) \in Measures /\ h \in Measures
    BY <1>1
  <2> DEFINE e == Total(f)
             old == f[i]
             new == g[i]
  <2>2. /\ h \in Measures /\ e \in Measures /\ w \in Measures /\ v \in Measures
        /\ old \in Measures /\ new \in Measures /\ a \in Measures /\ b \in Measures
        /\ Plus(Plus(w, new), b) = Plus(Plus(v, old), a)
    BY <1>3, <2>1
  <2> HIDE DEF e, old, new
  <2>3. Minus(Plus(Plus(h, e), a), b) = Plus(Minus(Plus(h, w), v), Minus(Plus(e, new), old))
    <3> DEFINE x == Minus(w, v)
               y == Minus(new, old)
    <3>1. x \in Measures /\ y \in Measures /\ Plus(x, y) = Minus(a, b) /\ Plus(h, e) \in Measures
      <4>1. x \in Measures /\ y \in Measures
        BY <2>2, SpreadOver
      <4>2. Plus(x, y) = Minus(a, b)
        BY <2>2, EvenShift, SMTT(30)
      <4>3. Plus(h, e) \in Measures
        BY <2>2, MeasureFacts
      <4> QED
        BY <4>1, <4>2, <4>3
    <3>2. Minus(Plus(h, w), v) = Plus(h, x) /\ Minus(Plus(e, new), old) = Plus(e, y)
      BY <2>2, SpreadOver
    <3>3. Minus(Plus(Plus(h, e), a), b) = Plus(Plus(h, e), Plus(x, y))
      BY <2>2, <3>1, SpreadOver
    <3> HIDE DEF x, y
    <3>4. Plus(Plus(h, x), Plus(e, y)) = Plus(Plus(h, e), Plus(x, y))
      BY <2>2, <3>1, SideBySide
    <3> QED
      BY <3>2, <3>3, <3>4
  <2> QED
    BY <2>3 DEF e, old, new
<1> QED
  BY <1>2, <1>3, <1>4, <1>5, <1>6

\* What a place holds when one piece changes.
LEMMA HeldChanges ==
  ASSUME piece \in [Pieces -> PieceRows], piece' \in [Pieces -> PieceRows], NEW p \in Pieces,
         \A q \in Pieces \ {p} : piece'[q] = piece[q], transfer' = transfer, NEW l
  PROVE  /\ Total(Picked(piece', HeldAt(piece', transfer', l)))
              = Minus(Plus(Total(Picked(piece, HeldAt(piece, transfer, l))), Picked(piece', HeldAt(piece', transfer', l))[p]),
                      Picked(piece, HeldAt(piece, transfer, l))[p])
         /\ Picked(piece', HeldAt(piece', transfer', l))[p] \in Measures
         /\ Picked(piece, HeldAt(piece, transfer, l))[p] \in Measures
<1> DEFINE rows == piece
           next == piece'
           here == HeldAt(rows, transfer, l)
           now == HeldAt(next, transfer', l)
           f == Picked(rows, here)
           e == Picked(next, now)
<1>1. rows \in [Pieces -> PieceRows] /\ next \in [Pieces -> PieceRows]
  OBVIOUS
<1>2. \A q \in Pieces \ {p} : q \in now <=> q \in here
  <2> SUFFICES ASSUME NEW q \in Pieces \ {p} PROVE q \in now <=> q \in here
    OBVIOUS
  <2>1. next[q] = rows[q]
    OBVIOUS
  <2> QED
    BY <2>1 DEF HeldAt
<1>3. \A q \in Pieces \ {p} : next[q] = rows[q]
  OBVIOUS
<1> HIDE DEF rows, next, here, now
<1>4. /\ DOMAIN f = Pieces /\ DOMAIN e = Pieces
      /\ \A q \in Pieces : f[q] \in Measures /\ e[q] \in Measures
  BY <1>1, PickedTyped
<1>5. \A q \in Pieces \ {p} : e[q] = f[q]
  BY <1>2, <1>3 DEF Picked
<1> HIDE DEF f, e
<1>6. Total(e) = Minus(Plus(Total(f), e[p]), f[p])
  BY <1>4, <1>5, GoodsFinite, TotalChanges
<1> QED
  BY <1>4, <1>6 DEF f, e, rows, next, here, now

\* A lot that stands waits as it did.
LEMMA WaitingAlike ==
  ASSUME GoodsInv, NEW j \in Inwards, lot'[j] = lot[j], Alike(inward'[j], inward[j]), NEW l
  PROVE  WaitingAt(lot', inward', l)[j] = WaitingAt(lot, inward, l)[j]
<1>1. lot[j].status # "none" => inward[j].status # "none"
  BY DEF GoodsInv, InwardsTold
<1>2. lot[j].status # "none" => inward'[j].place = inward[j].place /\ inward'[j].status = inward[j].status
  BY <1>1 DEF Alike
<1> QED
  BY <1>2 DEF WaitingAt

\* And is told as it was.
LEMMA LotToldStays ==
  ASSUME GoodsInv, NEW i \in Inwards, LotTold(i), lot'[i] = lot[i], Alike(inward'[i], inward[i]),
         \A r \in Returns : back[r].status = "posted" => back'[r] = back[r]
  PROVE  LotTold(i)'
<1>1. lot[i].status # "none" => inward'[i].status = inward[i].status /\ inward'[i].line = inward[i].line
  BY DEF GoodsInv, InwardsTold, Alike
<1>2. \A r \in Returns : r \in ReturnsOf(i) => r \in ReturnsOf(i)' /\ back'[r] = back[r]
  BY DEF ReturnsOf
<1>3. ReturnsOf(i)' = {} => ReturnsOf(i) = {}
  BY <1>2 DEF ReturnsOf
<1>4. Gone(i) => Gone(i)'
  BY <1>2 DEF Gone, ReturnsOf
<1> QED
  BY <1>1, <1>3, <1>4 DEF LotTold, Posted

\* Lots as they are told, whoever is in the middle of what.
LotsRight ==
  /\ \A i \in Inwards : inward[i].status # "none" /\ inward[i].line.item = "tagged" => lot[i].status # "none"
  /\ Alone => \A i \in Inwards : LotTold(i)

\* All rows, when what changes is at one counter and of one inward.
LEMMA RowsKeep ==
  ASSUME GoodsInv, GoodsTypeOK', RowsTold, bound' = bound, transfer' = transfer, NEW i \in Inwards, NEW k \in Counters,
         NEW w \in Measures, NEW v \in Measures, NEW a \in Measures, NEW b \in Measures,
         \A l \in Places \ {k} : stock'[<<"tagged", l>>] = stock[<<"tagged", l>>],
         stock'[<<"tagged", k>>] = Minus(Plus(stock[<<"tagged", k>>], a), b),
         \A p \in Pieces : \/ piece'[p] = piece[p]
                           \/ \A l \in Places \ {k} :
                                p \notin HeldAt(piece, transfer, l) /\ p \notin HeldAt(piece', transfer', l),
         Total(Picked(piece', HeldAt(piece', transfer', k)))
           = Minus(Plus(Total(Picked(piece, HeldAt(piece, transfer, k))), w), v),
         \A j \in Inwards \ {i} : lot'[j] = lot[j] /\ Alike(inward'[j], inward[j]),
         \A l \in Places \ {k} : WaitingAt(lot', inward', l)[i] = WaitingAt(lot, inward, l)[i],
         Alone => Plus(Plus(w, WaitingAt(lot', inward', k)[i]), b) = Plus(Plus(v, WaitingAt(lot, inward, k)[i]), a)
  PROVE  RowsTold'
<1>1. GoodsTypeOK /\ k \in Places
  BY DEF GoodsInv, Counters
<1>2. ASSUME NEW j \in Inwards \ {i}, NEW l
      PROVE  WaitingAt(lot', inward', l)[j] = WaitingAt(lot, inward, l)[j]
  <2>1. j \in Inwards /\ lot'[j] = lot[j] /\ Alike(inward'[j], inward[j])
    OBVIOUS
  <2> QED
    BY <2>1, WaitingAlike
<1>3. SUFFICES ASSUME NEW l \in Places, l \notin Counters \/ Alone PROVE Told(l)'
  BY DEF RowsTold, Alone
<1>4. Told(l)
  BY <1>3 DEF RowsTold
<1>5. CASE l # k
  <2>1. \A j \in Inwards : WaitingAt(lot', inward', l)[j] = WaitingAt(lot, inward, l)[j]
    BY <1>2, <1>5
  <2>2. stock'[<<"tagged", l>>] = stock[<<"tagged", l>>]
    BY <1>5
  <2>3. \A p \in Pieces : \/ piece'[p] = piece[p]
                          \/ p \notin HeldAt(piece, transfer, l) /\ p \notin HeldAt(piece', transfer', l)
    BY <1>5
  <2> QED
    BY <1>1, <1>4, <2>1, <2>2, <2>3, RowSame
<1>6. CASE l = k
  <2>1. Told(k)
    BY <1>4, <1>6
  <2>2. Plus(Plus(w, WaitingAt(lot', inward', k)[i]), b) = Plus(Plus(v, WaitingAt(lot, inward, k)[i]), a)
    BY <1>3, <1>6
  <2>3. \A j \in Inwards \ {i} : WaitingAt(lot', inward', k)[j] = WaitingAt(lot, inward, k)[j]
    BY <1>2
  <2>4. Told(k)'
    BY <1>1, <2>1, <2>2, <2>3, RowTold
  <2> QED
    BY <1>6, <2>4
<1> QED
  BY <1>5, <1>6

\* All lots, when one is changed.
LEMMA LotsKeep ==
  ASSUME GoodsInv, LotsTold, bound' = bound, NEW i \in Inwards,
         \A j \in Inwards \ {i} : lot'[j] = lot[j] /\ Alike(inward'[j], inward[j]),
         \A r \in Returns : back[r].status = "posted" => back'[r] = back[r],
         inward'[i].status # "none" /\ inward'[i].line.item = "tagged" => lot'[i].status # "none",
         Alone => LotTold(i)'
  PROVE  LotsRight'
<1>1. Alone' = Alone
  BY DEF Alone
<1>2. ASSUME NEW j \in Inwards, inward'[j].status # "none", inward'[j].line.item = "tagged"
      PROVE  lot'[j].status # "none"
  <2>1. CASE j = i
    BY <1>2, <2>1
  <2>2. CASE j # i
    BY <1>2, <2>2 DEF LotsTold, Alike
  <2> QED
    BY <2>1, <2>2
<1>3. ASSUME Alone, NEW j \in Inwards
      PROVE  LotTold(j)'
  <2>1. CASE j = i
    BY <1>3, <2>1
  <2>2. CASE j # i
    <3>1. LotTold(j) /\ lot'[j] = lot[j] /\ Alike(inward'[j], inward[j])
      BY <1>3, <2>2 DEF LotsTold
    <3> QED
      BY <3>1, LotToldStays
  <2> QED
    BY <2>1, <2>2
<1> QED
  BY <1>1, <1>2, <1>3 DEF LotsRight

\* Metal stays uncounted.
LEMMA UncountedKeeps ==
  ASSUME Uncounted, transfer' = transfer, NEW i \in Inwards, \A j \in Inwards \ {i} : Alike(inward'[j], inward[j]),
         inward'[i].line.item = "metal" => inward'[i].line.pieces = 0
  PROVE  Uncounted'
<1>1. ASSUME NEW j \in Inwards, inward'[j].status # "none", inward'[j].line.item = "metal"
      PROVE  inward'[j].line.pieces = 0
  <2>1. CASE j = i
    BY <1>1, <2>1
  <2>2. CASE j # i
    <3>1. inward[j].status # "none" /\ inward'[j].line = inward[j].line
      BY <1>1, <2>2 DEF Alike
    <3> QED
      BY <1>1, <3>1 DEF Uncounted
  <2> QED
    BY <2>1, <2>2
<1> QED
  BY <1>1 DEF Uncounted

\* An inward is like itself.
LEMMA AlikeItself ==
  \A x : Alike(x, x)
BY DEF Alike

\* Papers that change nothing tagged.
Quiet ==
  /\ piece' = piece /\ lot' = lot /\ \A i \in Inwards : Alike(inward'[i], inward[i])
  /\ \A l \in Places : stock'[<<"tagged", l>>] = stock[<<"tagged", l>>]
  /\ \A r \in Returns : back[r].status = "posted" => back'[r] = back[r]
  /\ Covered'

\* Papers that change nothing tagged leave the books told.
LEMMA QuietBooks ==
  ASSUME GoodsInv, BooksInv, Quiet, bound' = bound, transfer' = transfer
  PROVE  RowsTold' /\ Covered' /\ Uncounted' /\ LotsRight'
<1>1. GoodsTypeOK /\ RowsTold /\ LotsTold /\ Uncounted
  BY DEF GoodsInv, BooksInv
<1>2. Alone' = Alone
  BY DEF Alone
<1>3. ASSUME NEW l \in Places, l \notin Counters \/ Alone
      PROVE  Told(l)'
  <2>1. Told(l)
    BY <1>1, <1>3 DEF RowsTold
  <2>2. \A p \in Pieces : \/ piece'[p] = piece[p]
                          \/ p \notin HeldAt(piece, transfer, l) /\ p \notin HeldAt(piece', transfer', l)
    BY DEF Quiet
  <2>3. stock'[<<"tagged", l>>] = stock[<<"tagged", l>>]
    BY DEF Quiet
  <2>4. \A j \in Inwards : WaitingAt(lot', inward', l)[j] = WaitingAt(lot, inward, l)[j]
    <3>1. \A j \in Inwards : lot'[j] = lot[j] /\ Alike(inward'[j], inward[j])
      BY DEF Quiet
    <3> QED
      BY <3>1, WaitingAlike
  <2> QED
    BY <1>1, <2>1, <2>2, <2>3, <2>4, RowSame
<1>4. RowsTold'
  BY <1>2, <1>3 DEF RowsTold
<1>5. Uncounted'
  <2>1. \A j \in Inwards : inward'[j].status # "none" => inward[j].status # "none" /\ inward'[j].line = inward[j].line
    BY DEF Quiet, Alike
  <2> QED
    BY <1>1, <2>1 DEF Uncounted
<1>6. \A i \in Inwards : inward'[i].status # "none" /\ inward'[i].line.item = "tagged" => lot'[i].status # "none"
  BY <1>1 DEF LotsTold, Quiet, Alike
<1>7. ASSUME Alone, NEW i \in Inwards
      PROVE  LotTold(i)'
  <2>1. LotTold(i)
    BY <1>1, <1>7 DEF LotsTold
  <2>2. lot'[i] = lot[i] /\ Alike(inward'[i], inward[i])
    BY DEF Quiet
  <2>3. \A r \in Returns : back[r].status = "posted" => back'[r] = back[r]
    BY DEF Quiet
  <2> QED
    BY <2>1, <2>2, <2>3, LotToldStays
<1> QED
  BY <1>2, <1>4, <1>5, <1>6, <1>7 DEF LotsRight, Quiet

\* Papers without a movement.
LEMMA QuietStep ==
  ASSUME Covered, stock' = stock, UNCHANGED <<piece, lot, back>>, \A i \in Inwards : Alike(inward'[i], inward[i])
  PROVE  Quiet
BY DEF Quiet, Covered

\* Papers that move metal alone.
LEMMA QuietMetal ==
  ASSUME GoodsInv, Covered, NEW k, NEW a \in Measures, NEW b \in Measures, a.pieces = 0, b.pieces = 0,
         recordMovements(At("metal", k, a), At("metal", k, b), FALSE)
  PROVE  Covered' /\ \A l \in Places : stock'[<<"tagged", l>>] = stock[<<"tagged", l>>]
<1> DEFINE item == "metal"
           allowed == FALSE
<1>1. stock \in [Rows -> Measures] /\ item \in {"tagged", "metal"} /\ allowed \in BOOLEAN /\ (allowed => b = Nothing)
  BY DEF GoodsInv, GoodsTypeOK
<1>2. item = "tagged" => a.net >= 0 /\ a.pieces >= 0
  OBVIOUS
<1>3. item = "metal" => a.pieces = 0 /\ b.pieces = 0
  OBVIOUS
<1>4. recordMovements(At(item, k, a), At(item, k, b), allowed) /\ item = "metal"
  OBVIOUS
<1> HIDE DEF item, allowed
<1> QED
  BY <1>1, <1>2, <1>3, <1>4, OneRowMoves

\* Orders, bills, payments, settlements, metal returned, and every first look at a lot.
LEMMA QuietSteps ==
  ASSUME GoodsInv, BooksInv, NEW c \in Clerks, ClerkStep(c), ~createInward(c), ~cancelInward(c), ~tagPieces(c),
         \A i \in Inwards : ~closeLot(c, i), \A p \in Pieces : ~returnTagged(c, p), ~returnUntagged(c)
  PROVE  Quiet
<1>0. /\ piece \in [Pieces -> PieceRows] /\ inward \in [Inwards -> InwardRows \cup {NoInward}]
      /\ stock \in [Rows -> Measures] /\ settled \in [Settlements -> SettlementRows] /\ MetalTold
      /\ Covered /\ \A i \in Inwards : Alike(inward[i], inward[i])
  BY AlikeItself DEF GoodsInv, GoodsTypeOK, PurchasesTypeOK, BooksInv
<1>1. ASSUME UNCHANGED <<piece, stock, inward, lot, back>>
      PROVE  Quiet
  BY <1>0, <1>1, QuietStep
<1>2. CASE createOrder(c) \/ closeOrder(c) \/ paySupplier(c) \/ BeginSettleMetal(c) \/ GiveUp(c)
  <2>1. UNCHANGED <<piece, stock, inward, lot, back>>
    BY <1>2 DEF createOrder, closeOrder, paySupplier, BeginSettleMetal, GiveUp, shelfVars
  <2> QED
    BY <1>1, <2>1
<1>3. ASSUME NEW i \in Inwards, BeginCancelInward(c, i) \/ BeginTag(c, i) \/ BeginReturnUntagged(c, i)
      PROVE  Quiet
  <2>1. UNCHANGED <<piece, stock, inward, lot, back>>
    BY <1>3 DEF BeginCancelInward, BeginTag, BeginReturnUntagged, shelfVars
  <2> QED
    BY <1>1, <2>1
<1>4. CASE createBill(c)
  <2>1. \A i \in Inwards : Alike(inward'[i], inward[i])
    BY <1>4, createBillAlike
  <2>2. UNCHANGED <<piece, stock, lot, back>>
    BY <1>4 DEF createBill, shelfVars
  <2> QED
    BY <1>0, <2>1, <2>2, QuietStep
<1>5. ASSUME NEW b \in Bills, cancelBill(c, b)
      PROVE  Quiet
  <2>1. inward' = [i \in Inwards |-> IF Posted(i) /\ inward[i].bill = b THEN [inward[i] EXCEPT !.bill = 0] ELSE inward[i]]
    BY <1>5 DEF cancelBill
  <2>2. \A i \in Inwards : Posted(i) => inward[i] \in InwardRows
    BY <1>0, InwardRow DEF Posted
  <2>3. \A i \in Inwards : Alike(inward'[i], inward[i])
    BY <2>1, <2>2 DEF Alike, InwardRows
  <2>4. UNCHANGED <<piece, stock, lot, back>>
    BY <1>5 DEF cancelBill, shelfVars
  <2> QED
    BY <1>0, <2>3, <2>4, QuietStep
<1>6. ASSUME UNCHANGED <<piece, inward, lot>>, NEW k, NEW b \in Measures, b.pieces = 0,
             recordMovements(At("metal", k, Nothing), At("metal", k, b), FALSE),
             \A r \in Returns : back[r].status = "posted" => back'[r] = back[r]
      PROVE  Quiet
  <2>1. Nothing \in Measures /\ Nothing.pieces = 0
    BY MeasureFacts DEF Nothing
  <2>2. Covered' /\ \A l \in Places : stock'[<<"tagged", l>>] = stock[<<"tagged", l>>]
    BY <1>0, <1>6, <2>1, QuietMetal
  <2> QED
    BY <1>0, <1>6, <2>2 DEF Quiet
<1>7. ASSUME NEW i \in Inwards, returnMetal(c, i)
      PROVE  Quiet
  <2>1. PICK part \in Parts :
        /\ Posted(i)
        /\ inward[i].line.item = "metal"
        /\ Returned(i, inward[i].place,
             [pieces |-> 0, gross |-> Rounded(inward[i].line.gross * part.gross, inward[i].line.net),
              net |-> part.gross, cost |-> Rounded(inward[i].line.cost * part.gross, inward[i].line.net)])
        /\ UNCHANGED <<piece, inward, lot>>
    BY <1>7, Zenon DEF returnMetal
  <2> DEFINE m == [pieces |-> 0, gross |-> Rounded(inward[i].line.gross * part.gross, inward[i].line.net),
                   net |-> part.gross, cost |-> Rounded(inward[i].line.cost * part.gross, inward[i].line.net)]
             l == inward[i].place
  <2>2. inward[i] \in InwardRows
    BY <1>0, <2>1, InwardRow DEF Posted
  <2>3. m \in Measures /\ m.pieces = 0
    <3>1. inward[i].line.gross \in Nat /\ inward[i].line.cost \in Nat /\ inward[i].line.net \in Nat /\ part.gross \in Nat
      BY <2>2, PurchasesAssumption DEF InwardRows, PricedRows
    <3>2. inward[i].line.gross * part.gross \in Nat /\ inward[i].line.cost * part.gross \in Nat
      BY <3>1, Products
    <3>3. /\ Rounded(inward[i].line.gross * part.gross, inward[i].line.net) \in Int
          /\ Rounded(inward[i].line.cost * part.gross, inward[i].line.net) \in Int
      BY <3>1, <3>2, RoundedTyped
    <3> QED
      BY <3>1, <3>3 DEF Measures
  <2>4. Returned(i, l, m)
    BY <2>1
  <2> HIDE DEF m, l
  <2>5. recordMovements(At("metal", l, Nothing), At("metal", l, m), FALSE)
    BY <2>1, <2>4 DEF Returned
  <2>6. \A r \in Returns : back[r].status = "posted" => back'[r] = back[r]
    BY <2>1, <2>3, <2>4, ReturnsStay
  <2> QED
    BY <1>6, <2>1, <2>3, <2>5, <2>6
<1>8. CASE createSettlement(c)
  <2> DEFINE out == IF errand[c].kind = "metal" THEN lotMovement(errand[c].place, errand[c].measure.net) ELSE Nothing
             l == errand[c].place
  <2>1. /\ errand[c].pc = "settle" /\ recordMovements(At("metal", l, Nothing), At("metal", l, out), FALSE)
        /\ UNCHANGED <<piece, inward, lot, back>>
    BY <1>8 DEF createSettlement
  <2>2. out \in Measures
    BY <2>1, SettlementFacts
  <2>3. out.pieces = 0
    BY DEF lotMovement, Nothing
  <2> HIDE DEF out
  <2> QED
    BY <1>6, <2>1, <2>2, <2>3
<1>9. ASSUME NEW k \in Settlements, cancelSettlement(c, k)
      PROVE  Quiet
  <2> DEFINE row == settled[k]
             m == IF row.kind = "metal" THEN [pieces |-> 0, gross |-> row.fine, net |-> row.fine, cost |-> row.amount]
                  ELSE Nothing
             r == <<"metal", row.place>>
  <2>1. /\ stock' = IF m = Nothing THEN stock ELSE [stock EXCEPT ![r] = Plus(@, m)]
        /\ UNCHANGED <<piece, inward, lot, back>>
    BY <1>9 DEF cancelSettlement
  <2>2. row \in SettlementRows /\ (row.kind = "metal" => row.place \in Counters)
    BY <1>0 DEF GoodsInv, SettlementsTold
  <2>3. m # Nothing => row.kind = "metal"
    OBVIOUS
  <2>4. m \in Measures /\ m.pieces = 0
    BY <2>2 DEF SettlementRows, Measures, Nothing
  <2> HIDE DEF m
  <2>5. CASE m = Nothing
    <3>1. UNCHANGED <<piece, stock, inward, lot, back>>
      BY <2>1, <2>5
    <3> QED
      BY <1>1, <3>1
  <2>6. CASE m # Nothing
    <3>1. r \in Rows
      BY <2>2, <2>3, <2>6 DEF Rows, Counters
    <3>2. stock'[r] = Plus(stock[r], m) /\ \A x \in Rows \ {r} : stock'[x] = stock[x]
      BY <1>0, <2>1, <2>6, <3>1
    <3>3. stock'[r].pieces = stock[r].pieces + m.pieces /\ stock[r].pieces \in Int
      BY <1>0, <3>1, <3>2 DEF Plus, Measures
    <3>4. \A l \in Places : <<"tagged", l>> \in Rows \ {r} /\ <<"metal", l>> \in Rows
      BY DEF Rows
    <3>5. \A l \in Places : stock'[<<"tagged", l>>] = stock[<<"tagged", l>>]
      BY <3>2, <3>4
    <3>6. \A l \in Places : stock'[<<"metal", l>>].pieces = 0
      <4>1. SUFFICES ASSUME NEW l \in Places PROVE stock'[<<"metal", l>>].pieces = 0
        OBVIOUS
      <4>2. stock[<<"metal", l>>].pieces = 0
        BY <1>0 DEF Covered
      <4>3. CASE r = <<"metal", l>>
        <5>1. stock[r].pieces = 0 /\ m.pieces = 0
          BY <2>4, <4>2, <4>3
        <5>2. stock'[r].pieces = 0
          BY <3>3, <5>1
        <5> QED
          BY <4>3, <5>2
      <4>4. CASE r # <<"metal", l>>
        BY <3>2, <3>4, <4>2, <4>4
      <4> QED
        BY <4>3, <4>4
    <3>7. Counters \subseteq Places
      BY DEF Counters
    <3>8. Covered'
      BY <1>0, <3>5, <3>6, <3>7 DEF Covered
    <3> QED
      BY <1>0, <2>1, <3>5, <3>8 DEF Quiet
  <2> QED
    BY <2>5, <2>6
<1> QED
  BY <1>2, <1>3, <1>4, <1>5, <1>7, <1>8, <1>9 DEF ClerkStep

-------------------------------------------------------------------------------
\* Papers that move tagged goods.

\* A movement of tagged goods between the supplier's lot and one place.
LEMMA TaggedRow ==
  ASSUME GoodsInv, Covered, NEW k \in Counters, NEW a \in Measures, NEW b \in Measures, a.net >= 0, a.pieces >= 0,
         recordMovements(At("tagged", k, a), At("tagged", k, b), FALSE)
  PROVE  /\ Covered' /\ stock'[<<"tagged", k>>] = Minus(Plus(stock[<<"tagged", k>>], a), b)
         /\ \A l \in Places \ {k} : stock'[<<"tagged", l>>] = stock[<<"tagged", l>>]
<1> DEFINE item == "tagged"
           allowed == FALSE
<1>1. stock \in [Rows -> Measures] /\ item \in {"tagged", "metal"} /\ allowed \in BOOLEAN /\ (allowed => b = Nothing)
  BY DEF GoodsInv, GoodsTypeOK
<1>2. item = "tagged" => a.net >= 0 /\ a.pieces >= 0
  OBVIOUS
<1>3. item = "metal" => a.pieces = 0 /\ b.pieces = 0
  OBVIOUS
<1>4. recordMovements(At(item, k, a), At(item, k, b), allowed) /\ item = "tagged"
  OBVIOUS
<1> HIDE DEF item, allowed
<1>5. /\ Covered'
      /\ item = "tagged" =>
           \A l \in Places : stock'[<<"tagged", l>>] = IF l = k THEN Minus(Plus(stock[<<"tagged", l>>], a), b)
                                                               ELSE stock[<<"tagged", l>>]
      /\ item = "metal" => \A l \in Places : stock'[<<"tagged", l>>] = stock[<<"tagged", l>>]
  BY <1>1, <1>2, <1>3, <1>4, OneRowMoves
<1>6. k \in Places
  BY DEF Counters
<1> QED
  BY <1>4, <1>5, <1>6

\* Nothing tagged changes hands, only what waits.
LEMMA PiecesStand ==
  ASSUME GoodsInv, piece' = piece, transfer' = transfer, NEW k
  PROVE  /\ \A p \in Pieces : piece'[p] = piece[p]
         /\ Total(Picked(piece', HeldAt(piece', transfer', k)))
              = Minus(Plus(Total(Picked(piece, HeldAt(piece, transfer, k))), Nothing), Nothing)
<1> DEFINE h == Total(Picked(piece, HeldAt(piece, transfer, k)))
<1>1. piece \in [Pieces -> PieceRows]
  BY DEF GoodsInv, GoodsTypeOK
<1>2. h \in Measures
  BY <1>1, PickedTyped
<1>3. Total(Picked(piece', HeldAt(piece', transfer', k))) = h
  OBVIOUS
<1> HIDE DEF h
<1>4. Minus(Plus(h, Nothing), Nothing) = h
  BY <1>2, MeasureFacts
<1> QED
  BY <1>3, <1>4 DEF h

\* Goods delivered wait at their counter (purchase.service.ts).
LEMMA createInwardBooks ==
  ASSUME GoodsInv, GoodsTypeOK', BooksInv, NEW c \in Clerks, createInward(c), transfer' = transfer
  PROVE  RowsTold' /\ Covered' /\ Uncounted' /\ LotsRight'
<1>0. /\ lot \in [Inwards -> LotRows] /\ inward \in [Inwards -> InwardRows \cup {NoInward}] /\ GoodsTypeOK
      /\ RowsTold /\ Covered /\ Uncounted /\ LotsTold /\ bound' = bound /\ UNCHANGED <<piece, back>>
  BY createInwardIdle, createInwardLeaves DEF GoodsInv, GoodsTypeOK, PurchasesTypeOK, BooksInv
<1>1. PICK s \in Suppliers, l \in Counters, p \in PricedRows, i \in Inwards, o \in {0} \cup Orders, gst \in Nat,
            billed, direct \in BOOLEAN :
         \E ol \in OrderLines \cup {None} :
         \E rows \in [Inwards -> InwardRows \cup {NoInward}] :
           /\ inward[i].status = "none" /\ (direct => billed) /\ (p.item = "tagged" => p.pieces > 0)
           /\ p.item = "metal" => p.pieces = 0
           /\ o # 0 => order[o].status = "confirmed"
           /\ rows = [inward EXCEPT ![i] = [status |-> "posted", supplier |-> s, place |-> l, line |-> p,
                        direct |-> direct, bill |-> 0, order |-> o, orderLine |-> ol]]
           /\ lot' = [lot EXCEPT ![i] = IF p.item = "tagged"
                        THEN [NoLot EXCEPT !.status = "open", !.expected = Received(p)] ELSE NoLot]
           /\ rollUpOrder(rows, o)
           /\ \/ ~billed /\ inward' = rows /\ bill' = bill /\ gst = 0
              \/ billed /\ \E b \in Bills : bill[b].status = "none" /\ Billed(b, s, {i}, rows, gst)
           /\ recordMovements(At(p.item, l, Received(p)), At(p.item, l, Nothing), FALSE)
           /\ postVoucher(s, [InwardVoucher(p) EXCEPT !.gst = gst, !.rupees = @ + gst], p.fine, 0, InwardVoucher(p).metal)
  BY InwardFacts, Zenon
<1> DEFINE open == [NoLot EXCEPT !.status = "open", !.expected = Received(p)]
<1>2. PICK ol \in OrderLines \cup {None}, rows \in [Inwards -> InwardRows \cup {NoInward}] :
        /\ rows = [inward EXCEPT ![i] = [status |-> "posted", supplier |-> s, place |-> l, line |-> p,
                        direct |-> direct, bill |-> 0, order |-> o, orderLine |-> ol]]
        /\ \/ ~billed /\ inward' = rows /\ bill' = bill /\ gst = 0
           \/ billed /\ \E b \in Bills : bill[b].status = "none" /\ Billed(b, s, {i}, rows, gst)
  BY <1>1
<1>3. /\ inward[i].status = "none" /\ (p.item = "tagged" => p.pieces > 0) /\ (p.item = "metal" => p.pieces = 0)
      /\ lot' = [lot EXCEPT ![i] = IF p.item = "tagged" THEN open ELSE NoLot]
      /\ recordMovements(At(p.item, l, Received(p)), At(p.item, l, Nothing), FALSE)
  BY <1>1
<1>4. /\ rows[i].status = "posted" /\ rows[i].line = p /\ rows[i].place = l
      /\ \A j \in Inwards \ {i} : rows[j] = inward[j]
  BY <1>0, <1>2
<1>5. \A j \in Inwards : Alike(inward'[j], rows[j])
  <2>1. CASE inward' = rows
    BY <2>1 DEF Alike
  <2>2. CASE \E b \in Bills : Billed(b, s, {i}, rows, gst)
    <3>1. PICK b \in Bills : Billed(b, s, {i}, rows, gst)
      BY <2>2
    <3>2. bill \in [Bills -> BillRows]
      BY <1>0 DEF GoodsTypeOK, PurchasesTypeOK
    <3>3. {i} \in SUBSET Inwards /\ \A x \in {i} : rows[x].status # "none"
      BY <1>4
    <3> QED
      BY <3>1, <3>2, <3>3, BilledFacts
  <2> QED
    BY <1>2, <2>1, <2>2
<1>6. /\ open.status = "open" /\ open.expected = Received(p) /\ open.tagged = Nothing /\ open.difference = Nothing
      /\ NoLot.status = "none"
  BY DEF NoLot
<1> HIDE DEF open
<1>7. lot'[i] = (IF p.item = "tagged" THEN open ELSE NoLot) /\ \A j \in Inwards \ {i} : lot'[j] = lot[j]
  BY <1>0, <1>3
<1>8. inward'[i].status = "posted" /\ inward'[i].line = p /\ inward'[i].place = l
  BY <1>4, <1>5 DEF Alike
<1>9. \A j \in Inwards \ {i} : lot'[j] = lot[j] /\ Alike(inward'[j], inward[j])
  BY <1>4, <1>5, <1>7
<1>10. p.item \in {"tagged", "metal"} /\ Received(p) \in Measures /\ Received(p).net >= 0 /\ Received(p).pieces = p.pieces
       /\ p.pieces >= 0
  BY DEF PricedRows, Received, Measures
<1>11. lot[i].status = "none" /\ \A k : WaitingAt(lot, inward, k)[i] = Nothing
  BY <1>3 DEF GoodsInv, InwardsTold, WaitingAt
<1>12. Uncounted'
  <2>1. \A j \in Inwards \ {i} : Alike(inward'[j], inward[j])
    BY <1>9
  <2>2. inward'[i].line.item = "metal" => inward'[i].line.pieces = 0
    BY <1>3, <1>8
  <2> QED
    BY <1>0, <2>1, <2>2, UncountedKeeps
<1>13. LotsRight'
  <2>1. inward'[i].status # "none" /\ inward'[i].line.item = "tagged" => lot'[i].status # "none"
    BY <1>6, <1>7, <1>8
  <2>2. LotTold(i)'
    <3>1. CASE p.item = "tagged"
      <4>1. Nothing.pieces = 0 /\ Posted(i)' /\ lot'[i] = open
        BY <1>7, <1>8, <3>1 DEF Nothing, Posted
      <4> QED
        BY <1>6, <1>8, <4>1 DEF LotTold
    <3>2. CASE p.item # "tagged"
      BY <1>6, <1>7, <3>2 DEF LotTold
    <3> QED
      BY <3>1, <3>2
  <2>3. \A r \in Returns : back[r].status = "posted" => back'[r] = back[r]
    BY <1>0
  <2> QED
    BY <1>0, <1>9, <2>1, <2>2, <2>3, LotsKeep
<1>14. Nothing \in Measures /\ Nothing.pieces = 0
  BY MeasureFacts DEF Nothing
<1>15. \A k \in Places \ {l} : WaitingAt(lot', inward', k)[i] = WaitingAt(lot, inward, k)[i]
  <2>1. \A k \in Places \ {l} : WaitingAt(lot', inward', k)[i] = Nothing
    BY <1>8 DEF WaitingAt
  <2> QED
    BY <1>11, <2>1
<1>16. /\ \A q \in Pieces : piece'[q] = piece[q]
       /\ Total(Picked(piece', HeldAt(piece', transfer', l)))
            = Minus(Plus(Total(Picked(piece, HeldAt(piece, transfer, l))), Nothing), Nothing)
  BY <1>0, PiecesStand
<1>17. ASSUME NEW a \in Measures, Covered', \A k \in Places \ {l} : stock'[<<"tagged", k>>] = stock[<<"tagged", k>>],
              stock'[<<"tagged", l>>] = Minus(Plus(stock[<<"tagged", l>>], a), Nothing),
              WaitingAt(lot', inward', l)[i] = a
       PROVE  RowsTold'
  <2>1. Plus(Plus(Nothing, WaitingAt(lot', inward', l)[i]), Nothing) = Plus(Plus(Nothing, WaitingAt(lot, inward, l)[i]), a)
    <3>1. Plus(Plus(Nothing, a), Nothing) = a /\ Plus(Plus(Nothing, Nothing), a) = a
      BY <1>14, <1>17, MeasureFacts
    <3> QED
      BY <1>11, <1>17, <3>1
  <2>2. \A q \in Pieces : \/ piece'[q] = piece[q]
                          \/ \A k \in Places \ {l} :
                               q \notin HeldAt(piece, transfer, k) /\ q \notin HeldAt(piece', transfer', k)
    BY <1>16
  <2> DEFINE w == Nothing
             v == Nothing
             b == Nothing
  <2>3. /\ w \in Measures /\ v \in Measures /\ b \in Measures
        /\ stock'[<<"tagged", l>>] = Minus(Plus(stock[<<"tagged", l>>], a), b)
        /\ Total(Picked(piece', HeldAt(piece', transfer', l)))
             = Minus(Plus(Total(Picked(piece, HeldAt(piece, transfer, l))), w), v)
        /\ Plus(Plus(w, WaitingAt(lot', inward', l)[i]), b) = Plus(Plus(v, WaitingAt(lot, inward, l)[i]), a)
    BY <1>14, <1>16, <1>17, <2>1
  <2> HIDE DEF w, v, b
  <2>4. /\ RowsTold /\ bound' = bound /\ transfer' = transfer
        /\ w \in Measures /\ v \in Measures /\ a \in Measures /\ b \in Measures
    BY <1>0, <2>3
  <2>5. \A k \in Places \ {l} : stock'[<<"tagged", k>>] = stock[<<"tagged", k>>]
    BY <1>17
  <2>6. stock'[<<"tagged", l>>] = Minus(Plus(stock[<<"tagged", l>>], a), b)
    BY <2>3
  <2>7. Total(Picked(piece', HeldAt(piece', transfer', l)))
          = Minus(Plus(Total(Picked(piece, HeldAt(piece, transfer, l))), w), v)
    BY <2>3
  <2>8. Alone => Plus(Plus(w, WaitingAt(lot', inward', l)[i]), b) = Plus(Plus(v, WaitingAt(lot, inward, l)[i]), a)
    BY <2>3
  <2> QED
    BY <1>9, <1>15, <2>2, <2>4, <2>5, <2>6, <2>7, <2>8, RowsKeep
<1>18. CASE p.item = "tagged"
  <2>1. /\ Covered' /\ stock'[<<"tagged", l>>] = Minus(Plus(stock[<<"tagged", l>>], Received(p)), Nothing)
        /\ \A k \in Places \ {l} : stock'[<<"tagged", k>>] = stock[<<"tagged", k>>]
    <3>1. recordMovements(At("tagged", l, Received(p)), At("tagged", l, Nothing), FALSE)
      BY <1>3, <1>18
    <3>2. Received(p) \in Measures /\ Received(p).net >= 0 /\ Received(p).pieces >= 0
      BY <1>10
    <3> QED
      BY <1>0, <1>14, <3>1, <3>2, TaggedRow
  <2>2. WaitingAt(lot', inward', l)[i] = Received(p)
    <3>1. WaitingAt(lot', inward', l)[i] = Minus(Minus(Received(p), Nothing), Nothing)
      BY <1>6, <1>7, <1>8, <1>18 DEF WaitingAt, Rest
    <3> QED
      BY <1>10, <3>1, MeasureFacts
  <2> QED
    BY <1>10, <1>12, <1>13, <1>17, <2>1, <2>2
<1>19. CASE p.item = "metal"
  <2>1. Covered' /\ \A k \in Places : stock'[<<"tagged", k>>] = stock[<<"tagged", k>>]
    <3>1. recordMovements(At("metal", l, Received(p)), At("metal", l, Nothing), FALSE)
      BY <1>3, <1>19
    <3>2. Received(p) \in Measures /\ Received(p).pieces = 0
      BY <1>3, <1>10, <1>19
    <3> QED
      BY <1>0, <1>14, <3>1, <3>2, QuietMetal
  <2>2. stock'[<<"tagged", l>>] = Minus(Plus(stock[<<"tagged", l>>], Nothing), Nothing)
    <3>1. l \in Places /\ <<"tagged", l>> \in Rows
      BY DEF Counters, Rows
    <3>2. stock[<<"tagged", l>>] \in Measures
      BY <1>0, <3>1 DEF GoodsTypeOK
    <3> QED
      BY <2>1, <3>1, <3>2, MeasureFacts
  <2>3. WaitingAt(lot', inward', l)[i] = Nothing
    BY <1>6, <1>7, <1>19 DEF WaitingAt
  <2> QED
    BY <1>12, <1>13, <1>14, <1>17, <2>1, <2>2, <2>3
<1> QED
  BY <1>10, <1>18, <1>19

\* What waits of one lot becomes less by what its place gives away.
LEMMA LotGives ==
  ASSUME GoodsInv, GoodsTypeOK', RowsTold, bound' = bound, transfer' = transfer, \A p \in Pieces : piece'[p] = piece[p],
         NEW i \in Inwards, NEW k \in Counters, NEW b \in Measures,
         Total(Picked(piece', HeldAt(piece', transfer', k)))
           = Minus(Plus(Total(Picked(piece, HeldAt(piece, transfer, k))), Nothing), Nothing),
         \A l \in Places \ {k} : stock'[<<"tagged", l>>] = stock[<<"tagged", l>>],
         stock'[<<"tagged", k>>] = Minus(Plus(stock[<<"tagged", k>>], Nothing), b),
         \A j \in Inwards \ {i} : lot'[j] = lot[j] /\ Alike(inward'[j], inward[j]),
         \A l \in Places \ {k} : WaitingAt(lot', inward', l)[i] = WaitingAt(lot, inward, l)[i],
         Alone => WaitingAt(lot', inward', k)[i] = Minus(WaitingAt(lot, inward, k)[i], b)
  PROVE  RowsTold'
<1> DEFINE w == Nothing
           v == Nothing
           a == Nothing
           old == WaitingAt(lot, inward, k)[i]
<1>1. Nothing \in Measures
  BY MeasureFacts
<1>2. old \in Measures
  <2>1. lot \in [Inwards -> LotRows]
    BY DEF GoodsInv, GoodsTypeOK, PurchasesTypeOK
  <2> QED
    BY <2>1, WaitingTyped
<1>4. Alone => Plus(Plus(Nothing, WaitingAt(lot', inward', k)[i]), b) = Plus(Plus(Nothing, old), Nothing)
  <2>1. SUFFICES ASSUME Alone
                 PROVE  Plus(Plus(Nothing, WaitingAt(lot', inward', k)[i]), b) = Plus(Plus(Nothing, old), Nothing)
    OBVIOUS
  <2>2. WaitingAt(lot', inward', k)[i] = Minus(old, b)
    BY <2>1
  <2> HIDE DEF old
  <2>3. Minus(old, b) \in Measures /\ Plus(Minus(old, b), b) = old
    BY <1>2 DEF Measures, Plus, Minus
  <2>4. Plus(Nothing, Minus(old, b)) = Minus(old, b) /\ Plus(Plus(Nothing, old), Nothing) = old
    BY <1>2, <2>3, MeasureFacts
  <2> QED
    BY <2>2, <2>3, <2>4
<1>5. /\ w \in Measures /\ v \in Measures /\ a \in Measures
      /\ stock'[<<"tagged", k>>] = Minus(Plus(stock[<<"tagged", k>>], a), b)
      /\ Total(Picked(piece', HeldAt(piece', transfer', k)))
           = Minus(Plus(Total(Picked(piece, HeldAt(piece, transfer, k))), w), v)
      /\ Alone => Plus(Plus(w, WaitingAt(lot', inward', k)[i]), b) = Plus(Plus(v, WaitingAt(lot, inward, k)[i]), a)
  BY <1>1, <1>4
<1>6. \A p \in Pieces : \/ piece'[p] = piece[p]
                        \/ \A l \in Places \ {k} :
                             p \notin HeldAt(piece, transfer, l) /\ p \notin HeldAt(piece', transfer', l)
  OBVIOUS
<1> HIDE DEF w, v, a, old
<1>7. w \in Measures /\ v \in Measures /\ a \in Measures
  BY <1>5
<1>8. stock'[<<"tagged", k>>] = Minus(Plus(stock[<<"tagged", k>>], a), b)
  BY <1>5
<1>9. Total(Picked(piece', HeldAt(piece', transfer', k)))
        = Minus(Plus(Total(Picked(piece, HeldAt(piece, transfer, k))), w), v)
  BY <1>5
<1>10. Alone => Plus(Plus(w, WaitingAt(lot', inward', k)[i]), b) = Plus(Plus(v, WaitingAt(lot, inward, k)[i]), a)
  BY <1>5
<1> QED
  BY <1>6, <1>7, <1>8, <1>9, <1>10, RowsKeep

\* An inward cancelled takes off the books all that it brought.
LEMMA cancelInwardBooks ==
  ASSUME GoodsInv, GoodsTypeOK', BooksInv, NEW c \in Clerks, cancelInward(c), transfer' = transfer
  PROVE  RowsTold' /\ Covered' /\ Uncounted' /\ LotsRight'
<1>0. /\ lot \in [Inwards -> LotRows] /\ inward \in [Inwards -> InwardRows \cup {NoInward}] /\ stock \in [Rows -> Measures]
      /\ RowsTold /\ Covered /\ Uncounted /\ LotsTold
  BY DEF GoodsInv, GoodsTypeOK, PurchasesTypeOK, BooksInv
<1>doc. PICK i \in Inwards : i = errand[c].doc
  <2>1. errand[c].pc = "cancel"
    BY DEF cancelInward
  <2> QED
    BY <2>1 DEF GoodsInv, ErrandsTold, ErrandTold, Returning
<1> DEFINE status == IF lot[i].status = "none" THEN "none" ELSE "closed"
           w == inward[i]
           k == w.place
           m == Received(w.line)
<1>1. /\ lot' = [lot EXCEPT ![i].status = status] /\ UNCHANGED <<bound, piece, back>>
      /\ inward' = [inward EXCEPT ![i].status = "cancelled"] /\ errand[c].pc = "cancel"
      /\ recordMovements(At(w.line.item, k, Nothing), At(w.line.item, k, m), FALSE)
  BY <1>doc DEF cancelInward
<1>2. i \in Inwards /\ w.status = "posted"
  BY <1>doc, <1>1 DEF GoodsInv, ErrandsTold, ErrandTold, Returning
<1>3. w \in InwardRows /\ k \in Counters /\ (lot[i].status # "none" => w.line.item = "tagged")
  BY <1>0, <1>2, InwardRow DEF GoodsInv, InwardsTold
<1>4. /\ inward'[i].line = w.line /\ inward'[i].place = k /\ inward'[i].status = "cancelled"
      /\ \A j \in Inwards \ {i} : inward'[j] = inward[j]
  BY <1>0, <1>1, <1>2, <1>3 DEF InwardRows
<1>5. status = IF lot[i].status = "none" THEN "none" ELSE "closed"
  OBVIOUS
<1>6. w.line.item \in {"tagged", "metal"} /\ m \in Measures /\ m.pieces = w.line.pieces
  BY <1>3 DEF InwardRows, PricedRows, Received, Measures
<1> HIDE DEF status, m
<1>7. /\ lot'[i].expected = lot[i].expected /\ lot'[i].tagged = lot[i].tagged /\ lot'[i].difference = lot[i].difference
      /\ lot'[i].status = status /\ \A j \in Inwards \ {i} : lot'[j] = lot[j]
  BY <1>0, <1>1, <1>2 DEF LotRows
<1>8. \A j \in Inwards \ {i} : lot'[j] = lot[j] /\ Alike(inward'[j], inward[j])
  BY <1>4, <1>7, AlikeItself
<1>9. Uncounted'
  <2>1. \A j \in Inwards \ {i} : Alike(inward'[j], inward[j])
    BY <1>8
  <2>2. inward'[i].line.item = "metal" => inward'[i].line.pieces = 0
    BY <1>0, <1>2, <1>4 DEF Uncounted
  <2>3. transfer' = transfer /\ i \in Inwards
    BY <1>2
  <2> QED
    BY <1>0, <2>1, <2>2, <2>3, UncountedKeeps
<1>10. Alone /\ lot[i].status # "none" =>
         /\ LotTold(i) /\ ReturnsOf(i) = {} /\ lot[i].tagged = Nothing /\ lot[i].expected = Received(w.line)
  <2>1. SUFFICES ASSUME Alone, lot[i].status # "none"
                 PROVE  LotTold(i) /\ ReturnsOf(i) = {} /\ lot[i].tagged = Nothing /\ lot[i].expected = Received(w.line)
    OBVIOUS
  <2>2. LotTold(i) /\ ErrandOpen(c)
    BY <1>0, <1>2, <2>1 DEF LotsTold
  <2>3. lot[i].tagged.pieces = 0 /\ ReturnsOf(i) = {}
    BY <1>doc, <1>1, <2>2 DEF ErrandOpen
  <2> QED
    BY <2>1, <2>2, <2>3 DEF LotTold
<1>11. LotsRight'
  <2>1. inward'[i].status # "none" /\ inward'[i].line.item = "tagged" => lot'[i].status # "none"
    BY <1>0, <1>2, <1>4, <1>5, <1>7 DEF LotsTold
  <2>2. Alone => LotTold(i)'
    <3>1. SUFFICES ASSUME Alone, lot'[i].status # "none" PROVE LotTold(i)'
      BY DEF LotTold
    <3>2. lot[i].status # "none" /\ lot'[i].status = "closed"
      BY <1>5, <1>7, <3>1
    <3>3. LotTold(i) /\ ~Posted(i)'
      BY <1>4, <1>10, <3>1, <3>2 DEF Posted
    <3>4. ReturnsOf(i)' = ReturnsOf(i)
      BY <1>1 DEF ReturnsOf
    <3> QED
      BY <1>4, <1>7, <3>2, <3>3, <3>4 DEF LotTold
  <2>3. \A r \in Returns : back[r].status = "posted" => back'[r] = back[r]
    BY <1>1
  <2>4. bound' = bound /\ i \in Inwards
    BY <1>1, <1>2
  <2> QED
    BY <1>0, <1>8, <2>1, <2>2, <2>3, <2>4, LotsKeep
<1>12. Nothing \in Measures /\ Nothing.pieces = 0 /\ Nothing.net = 0
  BY MeasureFacts DEF Nothing
<1>13. \A l \in Places \ {k} : WaitingAt(lot', inward', l)[i] = WaitingAt(lot, inward, l)[i]
  BY <1>2, <1>4 DEF WaitingAt
<1>14. ASSUME NEW b \in Measures, Covered', \A l \in Places \ {k} : stock'[<<"tagged", l>>] = stock[<<"tagged", l>>],
              stock'[<<"tagged", k>>] = Minus(Plus(stock[<<"tagged", k>>], Nothing), b),
              Alone => WaitingAt(lot', inward', k)[i] = Minus(WaitingAt(lot, inward, k)[i], b)
       PROVE  RowsTold'
  <2>1. k \in Counters /\ RowsTold /\ bound' = bound /\ piece' = piece
    BY <1>0, <1>1, <1>2, <1>3
  <2> HIDE DEF k
  <2>2. /\ \A p \in Pieces : piece'[p] = piece[p]
        /\ Total(Picked(piece', HeldAt(piece', transfer', k)))
             = Minus(Plus(Total(Picked(piece, HeldAt(piece, transfer, k))), Nothing), Nothing)
    BY <2>1, PiecesStand
  <2> QED
    BY <1>8, <1>13, <1>14, <2>1, <2>2, LotGives
<1>15. CASE w.line.item = "tagged"
  <2>1. /\ Covered' /\ stock'[<<"tagged", k>>] = Minus(Plus(stock[<<"tagged", k>>], Nothing), m)
        /\ \A l \in Places \ {k} : stock'[<<"tagged", l>>] = stock[<<"tagged", l>>]
    <3>1. recordMovements(At("tagged", k, Nothing), At("tagged", k, m), FALSE)
      BY <1>1, <1>15
    <3>2. Nothing.net >= 0 /\ Nothing.pieces >= 0 /\ k \in Counters
      BY <1>3, <1>12
    <3> HIDE DEF k
    <3> QED
      BY <1>0, <1>6, <1>12, <3>1, <3>2, TaggedRow
  <2>2. Alone => WaitingAt(lot', inward', k)[i] = Minus(WaitingAt(lot, inward, k)[i], m)
    <3>1. SUFFICES ASSUME Alone PROVE WaitingAt(lot', inward', k)[i] = Minus(WaitingAt(lot, inward, k)[i], m)
      OBVIOUS
    <3>2. lot[i].status # "none"
      BY <1>0, <1>2, <1>15 DEF LotsTold
    <3>3. lot[i].tagged = Nothing /\ lot[i].expected = m
      BY <1>10, <3>1, <3>2 DEF m
    <3>4. lot'[i].status # "none"
      BY <1>5, <1>7, <3>2
    <3>5. WaitingAt(lot', inward', k)[i] = Minus(Nothing, lot[i].difference)
      BY <1>2, <1>4, <1>7, <3>4 DEF WaitingAt
    <3>6. WaitingAt(lot, inward, k)[i] = Minus(Minus(m, Nothing), lot[i].difference)
      BY <1>2, <3>2, <3>3 DEF WaitingAt, Rest
    <3>7. lot[i].difference \in Measures
      BY <1>0, <1>2 DEF LotRows
    <3>8. Minus(Nothing, lot[i].difference) = Minus(Minus(Minus(m, Nothing), lot[i].difference), m)
      BY <1>6, <3>7 DEF Minus, Nothing, Measures
    <3> QED
      BY <3>5, <3>6, <3>8
  <2> QED
    BY <1>6, <1>9, <1>11, <1>14, <2>1, <2>2
<1>16. CASE w.line.item = "metal"
  <2>1. Covered' /\ \A l \in Places : stock'[<<"tagged", l>>] = stock[<<"tagged", l>>]
    <3>1. recordMovements(At("metal", k, Nothing), At("metal", k, m), FALSE)
      BY <1>1, <1>16
    <3>2. m.pieces = 0
      BY <1>0, <1>2, <1>6, <1>16 DEF Uncounted
    <3> HIDE DEF k
    <3> QED
      BY <1>0, <1>6, <1>12, <3>1, <3>2, QuietMetal
  <2>2. stock'[<<"tagged", k>>] = Minus(Plus(stock[<<"tagged", k>>], Nothing), Nothing)
    <3>1. k \in Places /\ <<"tagged", k>> \in Rows
      BY <1>3 DEF Counters, Rows
    <3>2. stock[<<"tagged", k>>] \in Measures
      BY <1>0, <3>1
    <3> QED
      BY <2>1, <3>1, <3>2, MeasureFacts
  <2>3. WaitingAt(lot', inward', k)[i] = Minus(WaitingAt(lot, inward, k)[i], Nothing)
    <3>1. lot[i].status = "none" /\ lot'[i].status = "none"
      BY <1>3, <1>5, <1>7, <1>16
    <3>2. WaitingAt(lot', inward', k)[i] = Nothing /\ WaitingAt(lot, inward, k)[i] = Nothing
      BY <1>2, <3>1 DEF WaitingAt
    <3> QED
      BY <1>12, <3>2, MeasureFacts
  <2> QED
    BY <1>9, <1>11, <1>12, <1>14, <2>1, <2>2, <2>3
<1> QED
  BY <1>6, <1>15, <1>16

\* A lot closed takes the rest of it off the books.
LEMMA closeLotBooks ==
  ASSUME GoodsInv, GoodsTypeOK', BooksInv, NEW c \in Clerks, NEW i \in Inwards, closeLot(c, i), transfer' = transfer
  PROVE  RowsTold' /\ Covered' /\ Uncounted' /\ LotsRight'
<1>0. lot \in [Inwards -> LotRows] /\ RowsTold /\ Covered /\ Uncounted /\ LotsTold
  BY DEF GoodsInv, GoodsTypeOK, PurchasesTypeOK, BooksInv
<1> DEFINE left == Minus(lot[i].expected, lot[i].tagged)
           gone == IF leftOver(left) THEN left ELSE Nothing
           k == inward[i].place
<1>1. /\ lot[i].status = "open" /\ lot' = [lot EXCEPT ![i].status = "closed", ![i].difference = gone]
      /\ UNCHANGED <<bound, piece, inward, back>>
      /\ recordMovements(At("tagged", k, Nothing), At("tagged", k, gone), FALSE)
  BY DEF closeLot
<1>2. lot[i].expected \in Measures /\ lot[i].tagged \in Measures /\ lot[i].difference \in Measures
  BY <1>0 DEF LotRows
<1>3. inward[i].status # "none" /\ k \in Counters
  BY <1>1 DEF GoodsInv, InwardsTold
<1>4. Nothing \in Measures /\ Nothing.pieces = 0 /\ Nothing.net = 0
  BY MeasureFacts DEF Nothing
<1>5. left \in Measures
  BY <1>2, MeasureFacts
<1>6. gone = IF leftOver(left) THEN left ELSE Nothing
  OBVIOUS
<1> HIDE DEF gone
<1>7. gone \in Measures
  BY <1>4, <1>5, <1>6
<1>8. /\ lot'[i].expected = lot[i].expected /\ lot'[i].tagged = lot[i].tagged /\ lot'[i].difference = gone
      /\ lot'[i].status = "closed" /\ \A j \in Inwards \ {i} : lot'[j] = lot[j]
  BY <1>0, <1>1 DEF LotRows
<1>9. \A j \in Inwards \ {i} : lot'[j] = lot[j] /\ Alike(inward'[j], inward[j])
  BY <1>1, <1>8, AlikeItself
<1>10. Alone => /\ LotTold(i) /\ Posted(i) /\ lot[i].difference = Nothing
                /\ Rest(lot[i]) = left /\ Rest(lot'[i]) = Minus(left, gone)
  <2>1. SUFFICES ASSUME Alone PROVE /\ LotTold(i) /\ Posted(i) /\ lot[i].difference = Nothing
                                    /\ Rest(lot[i]) = left /\ Rest(lot'[i]) = Minus(left, gone)
    OBVIOUS
  <2>2. LotTold(i) /\ Posted(i) /\ lot[i].difference = Nothing
    BY <1>0, <1>1, <2>1 DEF LotsTold, LotTold
  <2>3. Rest(lot[i]) = Minus(left, Nothing) /\ Rest(lot'[i]) = Minus(left, gone)
    BY <1>8, <2>2 DEF Rest
  <2> QED
    BY <1>5, <2>2, <2>3, MeasureFacts
<1>11. LotsRight'
  <2>1. inward'[i].status # "none" /\ inward'[i].line.item = "tagged" => lot'[i].status # "none"
    BY <1>8
  <2>2. Alone => LotTold(i)'
    <3>1. SUFFICES ASSUME Alone PROVE LotTold(i)'
      OBVIOUS
    <3>2. LotTold(i) /\ Rest(lot'[i]) = Minus(left, gone)
      BY <1>10, <3>1
    <3>3. ReturnsOf(i)' = ReturnsOf(i) /\ inward'[i] = inward[i]
      BY <1>1 DEF ReturnsOf
    <3>4. Gone(i)'
      <4>1. CASE leftOver(left)
        <5>1. Minus(left, left) = Nothing
          BY <1>5 DEF Measures, Minus, Nothing
        <5> QED
          BY <1>6, <3>2, <4>1, <5>1 DEF Gone
      <4>2. CASE ~leftOver(left)
        <5>1. Minus(left, Nothing) = left
          BY <1>5, MeasureFacts
        <5>2. left.pieces <= 0 /\ left.gross <= 0 /\ left.net <= 0
          BY <1>5, <4>2 DEF leftOver, Measures
        <5>3. Rest(lot'[i]) = left
          BY <1>6, <3>2, <4>2, <5>1
        <5> HIDE DEF left
        <5> QED
          BY <5>2, <5>3 DEF Gone
      <4> QED
        BY <4>1, <4>2
    <3> QED
      BY <1>1, <1>8, <3>2, <3>3, <3>4 DEF LotTold
  <2>3. \A r \in Returns : back[r].status = "posted" => back'[r] = back[r]
    BY <1>1
  <2>4. bound' = bound
    BY <1>1
  <2> QED
    BY <1>0, <1>9, <2>1, <2>2, <2>3, <2>4, LotsKeep
<1>12. Uncounted'
  <2>1. \A j \in Inwards \ {i} : Alike(inward'[j], inward[j])
    BY <1>9
  <2>2. inward'[i].line.item = "metal" => inward'[i].line.pieces = 0
    BY <1>0, <1>1, <1>3 DEF Uncounted
  <2> QED
    BY <1>0, <2>1, <2>2, UncountedKeeps
<1>13. /\ Covered' /\ stock'[<<"tagged", k>>] = Minus(Plus(stock[<<"tagged", k>>], Nothing), gone)
       /\ \A l \in Places \ {k} : stock'[<<"tagged", l>>] = stock[<<"tagged", l>>]
  <2>1. recordMovements(At("tagged", k, Nothing), At("tagged", k, gone), FALSE) /\ k \in Counters
    BY <1>1, <1>3
  <2>2. Nothing.net >= 0 /\ Nothing.pieces >= 0
    BY <1>4
  <2> HIDE DEF k
  <2> QED
    BY <1>0, <1>4, <1>7, <2>1, <2>2, TaggedRow
<1>14. \A l \in Places \ {k} : WaitingAt(lot', inward', l)[i] = WaitingAt(lot, inward, l)[i]
  BY <1>1 DEF WaitingAt
<1>15. Alone => WaitingAt(lot', inward', k)[i] = Minus(WaitingAt(lot, inward, k)[i], gone)
  <2>1. SUFFICES ASSUME Alone PROVE WaitingAt(lot', inward', k)[i] = Minus(WaitingAt(lot, inward, k)[i], gone)
    OBVIOUS
  <2>2. Posted(i) /\ Rest(lot[i]) = left /\ Rest(lot'[i]) = Minus(left, gone)
    BY <1>10, <2>1
  <2>3. WaitingAt(lot', inward', k)[i] = Rest(lot'[i]) /\ WaitingAt(lot, inward, k)[i] = Rest(lot[i])
    BY <1>1, <1>8, <2>2 DEF WaitingAt, Posted
  <2> QED
    BY <2>2, <2>3
<1>16. RowsTold'
  <2>1. k \in Counters /\ RowsTold /\ bound' = bound /\ piece' = piece
    BY <1>0, <1>1, <1>3
  <2> HIDE DEF k
  <2>2. /\ \A p \in Pieces : piece'[p] = piece[p]
        /\ Total(Picked(piece', HeldAt(piece', transfer', k)))
             = Minus(Plus(Total(Picked(piece, HeldAt(piece, transfer, k))), Nothing), Nothing)
    BY <2>1, PiecesStand
  <2> QED
    BY <1>7, <1>9, <1>13, <1>14, <1>15, <2>1, <2>2, LotGives
<1> QED
  BY <1>11, <1>12, <1>13, <1>16

\* Goods that go back untagged wait no longer.
LEMMA returnUntaggedBooks ==
  ASSUME GoodsInv, GoodsTypeOK', CostInv, BooksInv, NEW c \in Clerks, returnUntagged(c), transfer' = transfer
  PROVE  RowsTold' /\ Covered' /\ Uncounted' /\ LotsRight'
<1>0. /\ lot \in [Inwards -> LotRows] /\ errand \in [Clerks -> Errands] /\ RowsTold /\ Covered /\ Uncounted /\ LotsTold
  BY DEF GoodsInv, GoodsTypeOK, PurchasesTypeOK, BooksInv
<1>doc. PICK i \in Inwards : i = errand[c].doc
  <2>1. errand[c].pc = "return"
    BY DEF returnUntagged
  <2> QED
    BY <2>1 DEF GoodsInv, ErrandsTold, ErrandTold, Returning
<1> DEFINE m == errand[c].measure
           k == inward[i].place
           expected == Minus(lot[i].expected, m)
           status == IF expected.pieces = lot[i].tagged.pieces THEN "closed" ELSE lot[i].status
<1>1. /\ errand[c].pc = "return" /\ Returned(i, k, m)
      /\ lot' = [lot EXCEPT ![i].expected = expected, ![i].status = status]
      /\ UNCHANGED <<bound, piece, inward>>
  BY <1>doc DEF returnUntagged
<1>2. lot[i].status # "none" /\ Posted(i)
  BY <1>doc, <1>1 DEF GoodsInv, ErrandsTold, ErrandTold, Returning, Posted
<1>3. /\ m \in Measures /\ lot[i].tagged \in Measures /\ lot[i].expected \in Measures /\ lot[i].difference \in Measures
      /\ expected \in Measures
  <2>1. m \in Measures /\ lot[i].tagged \in Measures /\ lot[i].expected \in Measures /\ lot[i].difference \in Measures
    BY <1>0 DEF Errands, LotRows
  <2> QED
    BY <2>1, MeasureFacts
<1>4. inward[i].line.item = "tagged" /\ k \in Counters
  BY <1>2 DEF GoodsInv, InwardsTold
<1>5. /\ status = IF expected.pieces = lot[i].tagged.pieces THEN "closed" ELSE lot[i].status
      /\ recordMovements(At("tagged", k, Nothing), At("tagged", k, m), FALSE)
      /\ Rest([expected |-> expected, tagged |-> lot[i].tagged, difference |-> lot[i].difference])
           = Minus(Rest(lot[i]), m)
  <2>1. recordMovements(At("tagged", k, Nothing), At("tagged", k, m), FALSE)
    BY <1>1, <1>4 DEF Returned
  <2>2. Minus(Minus(Minus(lot[i].expected, m), lot[i].tagged), lot[i].difference)
          = Minus(Minus(Minus(lot[i].expected, lot[i].tagged), lot[i].difference), m)
    <3> HIDE DEF m
    <3> QED
      BY <1>3 DEF Measures, Minus
  <2> QED
    BY <2>1, <2>2 DEF Rest
<1>6. Nothing \in Measures /\ Nothing.pieces = 0 /\ Nothing.net = 0
  BY MeasureFacts DEF Nothing
<1>7. Alone => lot[i].status = "open" /\ LotTold(i) /\ lot[i].difference = Nothing /\ m.pieces > 0
  <2>1. SUFFICES ASSUME Alone PROVE lot[i].status = "open" /\ LotTold(i) /\ lot[i].difference = Nothing /\ m.pieces > 0
    OBVIOUS
  <2>2. LotTold(i) /\ ErrandOpen(c) /\ Measured(c)
    BY <1>0, <2>1 DEF LotsTold, CostInv
  <2>3. lot[i].status = "open" /\ 0 < m.pieces
    BY <1>doc, <1>1, <2>2 DEF ErrandOpen, Measured
  <2> QED
    BY <1>3, <2>2, <2>3 DEF LotTold, Measures
<1>8. /\ \A r \in Returns : back[r].status = "posted" => back'[r] = back[r]
      /\ \E r \in Returns : /\ back[r].status = "none"
                            /\ back'[r].status = "posted" /\ back'[r].inward = i /\ back'[r].stock = m
                            /\ \A x \in Returns \ {r} : back'[x] = back[x]
  <2> HIDE DEF m, k
  <2> QED
    BY <1>1, <1>2, <1>3, ReturnsStay
<1> HIDE DEF status, expected, m
<1>9. /\ lot'[i].expected = expected /\ lot'[i].tagged = lot[i].tagged /\ lot'[i].difference = lot[i].difference
      /\ lot'[i].status = status /\ \A j \in Inwards \ {i} : lot'[j] = lot[j]
  BY <1>0, <1>1 DEF LotRows
<1>10. Rest(lot'[i]) = Minus(Rest(lot[i]), m)
  BY <1>5, <1>9 DEF Rest
<1>11. \A j \in Inwards \ {i} : lot'[j] = lot[j] /\ Alike(inward'[j], inward[j])
  BY <1>1, <1>9, AlikeItself
<1>12. LotsRight'
  <2>1. inward'[i].status # "none" /\ inward'[i].line.item = "tagged" => lot'[i].status # "none"
    BY <1>2, <1>5, <1>9
  <2>2. Alone => LotTold(i)'
    <3>1. SUFFICES ASSUME Alone PROVE LotTold(i)'
      OBVIOUS
    <3>2. lot[i].status = "open" /\ LotTold(i) /\ lot[i].difference = Nothing /\ m.pieces > 0
      BY <1>7, <3>1
    <3>3. PICK r \in Returns : back'[r].status = "posted" /\ back'[r].inward = i /\ back'[r].stock = m
      BY <1>8
    <3>4. r \in ReturnsOf(i)' /\ ReturnsOf(i)' # {}
      BY <3>3 DEF ReturnsOf
    <3>5. Posted(i)'
      BY <1>1, <1>2 DEF Posted
    <3>6. status = "closed" => Gone(i)'
      <4>1. SUFFICES ASSUME status = "closed" PROVE Gone(i)'
        OBVIOUS
      <4>2. expected.pieces = lot[i].tagged.pieces
        BY <1>5, <3>2, <4>1
      <4>3. Rest(lot'[i]).pieces = (expected.pieces - lot[i].tagged.pieces) - 0
        BY <1>9, <3>2 DEF Rest, Minus, Nothing
      <4>4. Rest(lot'[i]).pieces = 0
        BY <1>3, <4>2, <4>3 DEF Measures
      <4> QED
        BY <3>2, <3>3, <3>4, <4>4 DEF Gone
    <3>7. lot[i].tagged.pieces >= 0 /\ (lot[i].tagged.pieces = 0 => lot[i].tagged = Nothing)
      BY <1>2, <3>2 DEF LotTold
    <3> QED
      BY <1>9, <3>2, <3>4, <3>5, <3>6, <3>7 DEF LotTold
  <2>3. bound' = bound
    BY <1>1
  <2> QED
    BY <1>0, <1>8, <1>11, <2>1, <2>2, <2>3, LotsKeep
<1>13. Uncounted'
  <2>1. \A j \in Inwards \ {i} : Alike(inward'[j], inward[j])
    BY <1>11
  <2>2. inward'[i].line.item = "metal" => inward'[i].line.pieces = 0
    BY <1>1, <1>4
  <2> QED
    BY <1>0, <2>1, <2>2, UncountedKeeps
<1>14. /\ Covered' /\ stock'[<<"tagged", k>>] = Minus(Plus(stock[<<"tagged", k>>], Nothing), m)
       /\ \A l \in Places \ {k} : stock'[<<"tagged", l>>] = stock[<<"tagged", l>>]
  <2>1. recordMovements(At("tagged", k, Nothing), At("tagged", k, m), FALSE) /\ k \in Counters
    BY <1>4, <1>5
  <2>2. Nothing.net >= 0 /\ Nothing.pieces >= 0
    BY <1>6
  <2> HIDE DEF k
  <2> QED
    BY <1>0, <1>3, <1>6, <2>1, <2>2, TaggedRow
<1>15. \A l \in Places \ {k} : WaitingAt(lot', inward', l)[i] = WaitingAt(lot, inward, l)[i]
  BY <1>1 DEF WaitingAt
<1>16. WaitingAt(lot', inward', k)[i] = Minus(WaitingAt(lot, inward, k)[i], m)
  <2>1. WaitingAt(lot', inward', k)[i] = Rest(lot'[i]) /\ WaitingAt(lot, inward, k)[i] = Rest(lot[i])
    BY <1>1, <1>2, <1>5, <1>9 DEF WaitingAt, Posted
  <2> QED
    BY <1>10, <2>1
<1>17. RowsTold'
  <2>1. k \in Counters /\ RowsTold /\ bound' = bound /\ piece' = piece
    BY <1>0, <1>1, <1>4
  <2> HIDE DEF k
  <2>2. /\ \A p \in Pieces : piece'[p] = piece[p]
        /\ Total(Picked(piece', HeldAt(piece', transfer', k)))
             = Minus(Plus(Total(Picked(piece, HeldAt(piece, transfer, k))), Nothing), Nothing)
    BY <2>1, PiecesStand
  <2> QED
    BY <1>3, <1>11, <1>14, <1>15, <1>16, <2>1, <2>2, LotGives
<1> QED
  BY <1>12, <1>13, <1>14, <1>17

\* Coming in as it went out, a tagged movement changes no row.
LEMMA TaggedBack ==
  ASSUME GoodsInv, Covered, NEW k, NEW m \in Measures, recordMovements(At("tagged", k, m), At("tagged", k, m), FALSE)
  PROVE  /\ Covered' /\ \A l \in Places : stock'[<<"tagged", l>>] = stock[<<"tagged", l>>]
<1> DEFINE item == "tagged"
           allowed == FALSE
           into == At(item, k, m)
<1>1. stock \in [Rows -> Measures] /\ into \in [Rows -> Measures] /\ allowed \in BOOLEAN
  BY AtTyped DEF GoodsInv, GoodsTypeOK
<1>2. recordMovements(into, into, allowed)
  OBVIOUS
<1> HIDE DEF into, allowed
<1>3. \A r \in Rows : stock'[r] = Minus(Plus(stock[r], into[r]), into[r])
  BY <1>1, <1>2, RecordFacts
<1>4. \A r \in Rows : stock[r] \in Measures /\ into[r] \in Measures
  BY <1>1
<1>5. \A r \in Rows : stock'[r] = stock[r]
  <2> SUFFICES ASSUME NEW r \in Rows PROVE stock'[r] = stock[r]
    OBVIOUS
  <2> DEFINE h == stock[r]
             a == into[r]
  <2>1. h \in Measures /\ a \in Measures /\ stock'[r] = Minus(Plus(h, a), a)
    BY <1>3, <1>4
  <2> HIDE DEF h, a
  <2>2. Minus(Plus(h, a), a) = h
    BY <2>1 DEF Measures, Plus, Minus
  <2> QED
    BY <2>1, <2>2 DEF h
<1>6. \A l \in Places : <<"tagged", l>> \in Rows /\ <<"metal", l>> \in Rows
  BY DEF Rows
<1>7. Counters \subseteq Places
  BY DEF Counters
<1> QED
  BY <1>5, <1>6, <1>7 DEF Covered

\* A piece tagged is on the books in place of what waited (tagging.service.ts:228-229).
LEMMA tagPiecesBooks ==
  ASSUME GoodsInv, GoodsTypeOK', RoadInv, CostInv, BooksInv, NEW c \in Clerks, tagPieces(c), transfer' = transfer
  PROVE  RowsTold' /\ Covered' /\ Uncounted' /\ LotsRight'
<1>0. /\ lot \in [Inwards -> LotRows] /\ piece \in [Pieces -> PieceRows] /\ piece' \in [Pieces -> PieceRows]
      /\ stock \in [Rows -> Measures] /\ RowsTold /\ Covered /\ Uncounted /\ LotsTold
  BY DEF GoodsInv, GoodsTypeOK, PurchasesTypeOK, BooksInv
<1>doc. PICK i \in Inwards : i = errand[c].doc
  BY tagPiecesFacts
<1> DEFINE m == errand[c].measure
           k == inward[i].place
           tagged == Plus(lot[i].tagged, m)
<1>1. /\ errand[c].pc = "tag" /\ lot[i].status # "none" /\ m \in Measures
      /\ inward[i].status # "none" /\ k \in Counters
      /\ \E p \in Pieces :
           /\ piece[p].status = "none" /\ \A q \in Pieces \ {p} : piece'[q] = piece[q]
           /\ piece'[p].status = "in_stock" /\ piece'[p].place = k /\ piece'[p].soldAt = None
           /\ piece'[p].gross = m.gross /\ piece'[p].net = m.net /\ piece'[p].cost = m.cost
      /\ recordMovements(At("tagged", k, m), At("tagged", k, m), FALSE)
      /\ lot'[i].expected = lot[i].expected /\ lot'[i].tagged = tagged
      /\ lot'[i].difference = lot[i].difference
      /\ lot'[i].status = IF tagged = lot[i].expected THEN "closed" ELSE lot[i].status
      /\ \A j \in Inwards \ {i} : lot'[j] = lot[j]
      /\ UNCHANGED <<bound, inward, back>>
  BY <1>doc, tagPiecesFacts
<1>2. PICK p \in Pieces :
        /\ piece[p].status = "none" /\ \A q \in Pieces \ {p} : piece'[q] = piece[q]
        /\ piece'[p].status = "in_stock" /\ piece'[p].place = k /\ piece'[p].soldAt = None
        /\ piece'[p].gross = m.gross /\ piece'[p].net = m.net /\ piece'[p].cost = m.cost
  BY <1>1
<1>3. Alone => /\ m.pieces = 1 /\ lot[i].status = "open" /\ LotTold(i) /\ Posted(i) /\ lot[i].difference = Nothing
  <2>1. SUFFICES ASSUME Alone
                 PROVE  m.pieces = 1 /\ lot[i].status = "open" /\ LotTold(i) /\ Posted(i) /\ lot[i].difference = Nothing
    OBVIOUS
  <2>2. LotTold(i) /\ ErrandOpen(c) /\ Measured(c)
    BY <1>0, <2>1 DEF LotsTold, CostInv
  <2>3. lot[i].status = "open" /\ m.pieces = 1
    BY <1>doc, <1>1, <2>2 DEF ErrandOpen, Measured
  <2> QED
    BY <2>2, <2>3 DEF LotTold
<1>4. /\ lot[i].tagged \in Measures /\ lot[i].expected \in Measures /\ lot[i].difference \in Measures /\ tagged \in Measures
  <2>1. lot[i].tagged \in Measures /\ lot[i].expected \in Measures /\ lot[i].difference \in Measures
    BY <1>0 DEF LotRows
  <2> QED
    BY <1>1, <2>1, MeasureFacts
<1>5. Nothing \in Measures /\ Nothing.pieces = 0
  BY MeasureFacts DEF Nothing
<1>6. \A j \in Inwards \ {i} : lot'[j] = lot[j] /\ Alike(inward'[j], inward[j])
  BY <1>1, AlikeItself
<1>7. Covered' /\ \A l \in Places : stock'[<<"tagged", l>>] = stock[<<"tagged", l>>]
  <2> HIDE DEF m, k
  <2> QED
    BY <1>0, <1>1, TaggedBack
<1>8. LotsRight'
  <2>1. inward'[i].status # "none" /\ inward'[i].line.item = "tagged" => lot'[i].status # "none"
    BY <1>1
  <2>2. Alone => LotTold(i)'
    <3>1. SUFFICES ASSUME Alone PROVE LotTold(i)'
      OBVIOUS
    <3>2. m.pieces = 1 /\ lot[i].status = "open" /\ LotTold(i) /\ Posted(i) /\ lot[i].difference = Nothing
      BY <1>3, <3>1
    <3>3. lot[i].tagged.pieces >= 0
      BY <1>1, <3>2 DEF LotTold
    <3>4. tagged.pieces > 0
      <4>1. tagged.pieces = lot[i].tagged.pieces + m.pieces /\ lot[i].tagged.pieces \in Int
        BY <1>4 DEF Plus, Measures
      <4> QED
        BY <3>2, <3>3, <4>1
    <3>5. ReturnsOf(i)' = ReturnsOf(i) /\ Posted(i)' /\ inward'[i] = inward[i]
      BY <1>1, <3>2 DEF ReturnsOf, Posted
    <3>6. lot'[i].status = "closed" => Gone(i)'
      <4>1. SUFFICES ASSUME tagged = lot[i].expected PROVE Gone(i)'
        BY <1>1, <3>2
      <4>2. Rest(lot'[i]) = Minus(Minus(tagged, tagged), Nothing)
        BY <1>1, <3>2, <4>1 DEF Rest
      <4> HIDE DEF tagged
      <4>3. Minus(Minus(tagged, tagged), Nothing) = Nothing
        BY <1>4 DEF Measures, Minus, Nothing
      <4> QED
        BY <4>2, <4>3 DEF Gone
    <3>7. ReturnsOf(i) = {} => lot[i].expected = Received(inward[i].line)
      BY <1>1, <3>2 DEF LotTold
    <3> HIDE DEF tagged
    <3> QED
      BY <1>1, <1>4, <3>2, <3>4, <3>5, <3>6, <3>7 DEF LotTold, Measures
  <2>3. \A r \in Returns : back[r].status = "posted" => back'[r] = back[r]
    BY <1>1
  <2>4. bound' = bound
    BY <1>1
  <2> QED
    BY <1>0, <1>6, <2>1, <2>2, <2>3, <2>4, LotsKeep
<1>9. Uncounted'
  <2>1. \A j \in Inwards \ {i} : Alike(inward'[j], inward[j])
    BY <1>6
  <2>2. inward'[i].line.item = "metal" => inward'[i].line.pieces = 0
    BY <1>0, <1>1 DEF Uncounted
  <2> QED
    BY <1>0, <2>1, <2>2, UncountedKeeps
<1>10. \A l \in Places \ {k} : WaitingAt(lot', inward', l)[i] = WaitingAt(lot, inward, l)[i]
  BY <1>1 DEF WaitingAt
<1>11. \A t \in Transfers : transfer[t].status = "in_transit" => p \notin transfer[t].pieces
  BY <1>2 DEF RoadInv, Carried
<1>12. /\ \A l : p \notin HeldAt(piece, transfer, l)
       /\ \A l : p \in HeldAt(piece', transfer', l) <=> l = k
  BY <1>2, <1>11 DEF HeldAt
<1> DEFINE here == HeldAt(piece, transfer, k)
           now == HeldAt(piece', transfer', k)
           w == Picked(piece', now)[p]
           v == Picked(piece, here)[p]
           a == Nothing
           b == Nothing
<1>13. /\ Total(Picked(piece', now)) = Minus(Plus(Total(Picked(piece, here)), w), v)
       /\ w \in Measures /\ v \in Measures
  <2> HIDE DEF k
  <2>1. \A q \in Pieces \ {p} : piece'[q] = piece[q]
    BY <1>2
  <2> QED
    BY <1>0, <2>1, HeldChanges
<1>14. w = Worth(piece'[p]) /\ v = Nothing
  BY <1>12 DEF Picked
<1>15. Worth(piece'[p]) = [pieces |-> 1, gross |-> m.gross, net |-> m.net, cost |-> m.cost]
  BY <1>2 DEF Worth
<1>16. Alone => Plus(Plus(w, WaitingAt(lot', inward', k)[i]), b) = Plus(Plus(v, WaitingAt(lot, inward, k)[i]), a)
  <2>1. SUFFICES ASSUME Alone
                 PROVE  Plus(Plus(w, WaitingAt(lot', inward', k)[i]), b) = Plus(Plus(v, WaitingAt(lot, inward, k)[i]), a)
    OBVIOUS
  <2>2. m.pieces = 1 /\ lot[i].status = "open" /\ Posted(i)
    BY <1>3, <2>1
  <2>3. w = m
    BY <1>1, <1>14, <1>15, <2>2 DEF Measures
  <2>4. WaitingAt(lot', inward', k)[i] = Minus(Minus(lot[i].expected, Plus(lot[i].tagged, m)), lot[i].difference)
    <3>1. lot'[i].status # "none"
      BY <1>1, <2>2
    <3> QED
      BY <1>1, <2>2, <3>1 DEF WaitingAt, Rest, Posted
  <2>5. WaitingAt(lot, inward, k)[i] = Minus(Minus(lot[i].expected, lot[i].tagged), lot[i].difference)
    BY <2>2 DEF WaitingAt, Rest, Posted
  <2> HIDE DEF w, v, m
  <2>6. Plus(Plus(m, Minus(Minus(lot[i].expected, Plus(lot[i].tagged, m)), lot[i].difference)), Nothing)
          = Plus(Plus(Nothing, Minus(Minus(lot[i].expected, lot[i].tagged), lot[i].difference)), Nothing)
    <3> DEFINE e == lot[i].expected
               t == lot[i].tagged
               d == lot[i].difference
               rest == Minus(Minus(e, t), d)
    <3>1. e \in Measures /\ t \in Measures /\ d \in Measures /\ m \in Measures
      BY <1>1, <1>4
    <3>2. rest \in Measures
      BY <3>1, MeasureFacts
    <3> HIDE DEF e, t, d
    <3>3. Plus(m, Minus(Minus(e, Plus(t, m)), d)) = rest
      BY <3>1 DEF Measures, Plus, Minus
    <3> HIDE DEF rest
    <3>4. Plus(rest, Nothing) = rest /\ Plus(Nothing, rest) = rest
      BY <3>2, MeasureFacts
    <3> QED
      BY <3>3, <3>4 DEF e, t, d, rest
  <2> QED
    BY <1>14, <2>3, <2>4, <2>5, <2>6
<1>17. /\ \A l \in Places \ {k} : stock'[<<"tagged", l>>] = stock[<<"tagged", l>>]
       /\ stock'[<<"tagged", k>>] = Minus(Plus(stock[<<"tagged", k>>], a), b)
  <2>1. k \in Places /\ <<"tagged", k>> \in Rows
    BY <1>1 DEF Counters, Rows
  <2>2. stock[<<"tagged", k>>] \in Measures
    BY <1>0, <2>1
  <2> QED
    BY <1>7, <2>1, <2>2, MeasureFacts
<1>18. \A q \in Pieces : \/ piece'[q] = piece[q]
                         \/ \A l \in Places \ {k} :
                              q \notin HeldAt(piece, transfer, l) /\ q \notin HeldAt(piece', transfer', l)
  BY <1>2, <1>12
<1>19. a \in Measures /\ b \in Measures /\ k \in Counters /\ RowsTold /\ bound' = bound
  BY <1>0, <1>1, <1>5
<1> HIDE DEF w, v, a, b, k
<1>20. Total(Picked(piece', HeldAt(piece', transfer', k)))
         = Minus(Plus(Total(Picked(piece, HeldAt(piece, transfer, k))), w), v)
  BY <1>13
<1>21. RowsTold'
  <2>1. \A l \in Places \ {k} : stock'[<<"tagged", l>>] = stock[<<"tagged", l>>]
    BY <1>17
  <2>2. stock'[<<"tagged", k>>] = Minus(Plus(stock[<<"tagged", k>>], a), b)
    BY <1>17
  <2>3. w \in Measures /\ v \in Measures /\ a \in Measures /\ b \in Measures
    BY <1>13, <1>19
  <2> QED
    BY <1>6, <1>10, <1>16, <1>18, <1>19, <1>20, <2>1, <2>2, <2>3, RowsKeep
<1> QED
  BY <1>7, <1>8, <1>9, <1>21

\* A tagged piece that goes back leaves its place's books.
LEMMA returnTaggedBooks ==
  ASSUME GoodsInv, GoodsTypeOK', RoadInv, BooksInv, NEW c \in Clerks, NEW p \in Pieces, returnTagged(c, p), transfer' = transfer
  PROVE  RowsTold' /\ Covered' /\ Uncounted' /\ LotsRight'
<1>0. /\ lot \in [Inwards -> LotRows] /\ piece \in [Pieces -> PieceRows] /\ piece' \in [Pieces -> PieceRows]
      /\ RowsTold /\ Covered /\ Uncounted /\ LotsTold /\ PlacesTold
  BY DEF GoodsInv, GoodsTypeOK, PurchasesTypeOK, BooksInv
<1>doc. PICK i \in Inwards : i = piece[p].lot
  BY DEF returnTagged, GoodsInv, PiecesTold
<1> DEFINE m == Weighed(p)
           k == piece[p].place
<1>1. /\ InStock(p) /\ i # 0 /\ Posted(i) /\ Returned(i, k, m) /\ piece' = [piece EXCEPT ![p].status = "written_off"]
      /\ UNCHANGED <<bound, lot, inward>>
  BY <1>doc DEF returnTagged
<1>2. lot[i].status # "none" /\ inward[i].line.item = "tagged" /\ k \in Counters
  BY <1>0, <1>doc, <1>1 DEF GoodsInv, PiecesTold, InwardsTold, PlacesTold
<1>3. m \in Measures /\ m = Worth(piece[p])
  BY <1>0 DEF Weighed, Worth, Measures, PieceRows
<1>4. /\ piece'[p].status = "written_off" /\ piece'[p].place = k /\ piece[p].status = "in_stock"
      /\ \A q \in Pieces \ {p} : piece'[q] = piece[q]
  <2>1. piece[p] \in PieceRows
    BY <1>0
  <2> QED
    BY <1>0, <1>1, <2>1 DEF PieceRows, InStock
<1>5. Nothing \in Measures /\ Nothing.pieces = 0 /\ Nothing.net = 0
  BY MeasureFacts DEF Nothing
<1>6. recordMovements(At("tagged", k, Nothing), At("tagged", k, m), FALSE)
  BY <1>1, <1>2 DEF Returned
<1> HIDE DEF m
<1>7. \A r \in Returns : back[r].status = "posted" => back'[r] = back[r]
  <2> HIDE DEF k
  <2> QED
    BY <1>1, <1>3, ReturnsStay
<1>8. \A j \in Inwards : lot'[j] = lot[j] /\ Alike(inward'[j], inward[j])
  BY <1>1, AlikeItself
<1>9. /\ Covered' /\ stock'[<<"tagged", k>>] = Minus(Plus(stock[<<"tagged", k>>], Nothing), m)
      /\ \A l \in Places \ {k} : stock'[<<"tagged", l>>] = stock[<<"tagged", l>>]
  <2>1. Nothing.net >= 0 /\ Nothing.pieces >= 0 /\ k \in Counters
    BY <1>2, <1>5
  <2> HIDE DEF k
  <2> QED
    BY <1>0, <1>3, <1>5, <1>6, <2>1, TaggedRow
<1>10. LotsRight'
  <2>1. inward'[i].status # "none" /\ inward'[i].line.item = "tagged" => lot'[i].status # "none"
    BY <1>1, <1>2
  <2>2. Alone => LotTold(i)'
    <3>1. SUFFICES ASSUME Alone PROVE LotTold(i)'
      OBVIOUS
    <3>2. LotTold(i) /\ lot'[i] = lot[i] /\ Alike(inward'[i], inward[i])
      BY <1>0, <1>8, <3>1 DEF LotsTold
    <3> QED
      BY <1>7, <3>2, LotToldStays
  <2>3. bound' = bound
    BY <1>1
  <2>4. \A j \in Inwards \ {i} : lot'[j] = lot[j] /\ Alike(inward'[j], inward[j])
    BY <1>8
  <2> QED
    BY <1>0, <1>7, <2>1, <2>2, <2>3, <2>4, LotsKeep
<1>11. Uncounted'
  <2>1. \A j \in Inwards \ {i} : Alike(inward'[j], inward[j])
    BY <1>8
  <2>2. inward'[i].line.item = "metal" => inward'[i].line.pieces = 0
    BY <1>1, <1>2
  <2> QED
    BY <1>0, <2>1, <2>2, UncountedKeeps
<1>12. \A t \in Transfers : transfer[t].status = "in_transit" => p \notin transfer[t].pieces
  BY <1>4 DEF RoadInv, Carried
<1>13. /\ \A l : p \in HeldAt(piece, transfer, l) <=> l = k
       /\ \A l : p \notin HeldAt(piece', transfer', l)
  BY <1>4, <1>12 DEF HeldAt
<1> DEFINE here == HeldAt(piece, transfer, k)
           now == HeldAt(piece', transfer', k)
           w == Picked(piece', now)[p]
           v == Picked(piece, here)[p]
           a == Nothing
           b == m
<1>14. /\ Total(Picked(piece', now)) = Minus(Plus(Total(Picked(piece, here)), w), v)
       /\ w \in Measures /\ v \in Measures
  <2> HIDE DEF k
  <2>1. \A q \in Pieces \ {p} : piece'[q] = piece[q]
    BY <1>4
  <2> QED
    BY <1>0, <2>1, HeldChanges
<1>15. w = Nothing /\ v = m
  BY <1>3, <1>13 DEF Picked
<1>16. \A l : WaitingAt(lot', inward', l)[i] = WaitingAt(lot, inward, l)[i]
  BY <1>1
<1>17. Plus(Plus(w, WaitingAt(lot', inward', k)[i]), b) = Plus(Plus(v, WaitingAt(lot, inward, k)[i]), a)
  <2> DEFINE x == WaitingAt(lot, inward, k)[i]
  <2>1. x \in Measures /\ WaitingAt(lot', inward', k)[i] = x
    BY <1>0, <1>16, WaitingTyped
  <2> HIDE DEF x, w, v
  <2>2. Plus(Plus(Nothing, x), m) = Plus(Plus(m, x), Nothing)
    BY <1>3, <2>1 DEF Measures, Plus, Nothing
  <2> QED
    BY <1>15, <2>1, <2>2 DEF x
<1>18. \A q \in Pieces : \/ piece'[q] = piece[q]
                         \/ \A l \in Places \ {k} :
                              q \notin HeldAt(piece, transfer, l) /\ q \notin HeldAt(piece', transfer', l)
  BY <1>4, <1>13
<1>19. /\ a \in Measures /\ b \in Measures /\ k \in Counters /\ RowsTold /\ bound' = bound
       /\ stock'[<<"tagged", k>>] = Minus(Plus(stock[<<"tagged", k>>], a), b)
  BY <1>0, <1>1, <1>2, <1>3, <1>5, <1>9
<1> HIDE DEF w, v, a, b, k
<1>20. Total(Picked(piece', HeldAt(piece', transfer', k)))
         = Minus(Plus(Total(Picked(piece, HeldAt(piece, transfer, k))), w), v)
  BY <1>14
<1>21. RowsTold'
  <2>1. \A l \in Places \ {k} : stock'[<<"tagged", l>>] = stock[<<"tagged", l>>]
    BY <1>9
  <2>2. stock'[<<"tagged", k>>] = Minus(Plus(stock[<<"tagged", k>>], a), b)
    BY <1>19
  <2>3. w \in Measures /\ v \in Measures /\ a \in Measures /\ b \in Measures
    BY <1>14, <1>19
  <2>4. \A j \in Inwards \ {i} : lot'[j] = lot[j] /\ Alike(inward'[j], inward[j])
    BY <1>8
  <2>5. \A l \in Places \ {k} : WaitingAt(lot', inward', l)[i] = WaitingAt(lot, inward, l)[i]
    BY <1>16
  <2>6. Alone => Plus(Plus(w, WaitingAt(lot', inward', k)[i]), b) = Plus(Plus(v, WaitingAt(lot, inward, k)[i]), a)
    BY <1>17
  <2> QED
    BY <1>18, <1>19, <1>20, <2>1, <2>2, <2>3, <2>4, <2>5, <2>6, RowsKeep
<1> QED
  BY <1>9, <1>10, <1>11, <1>21

\* A clerk working alone begins only what the papers allow.
LEMMA ClerkOpens ==
  ASSUME GoodsInv, NEW c \in Clerks, ClerkStep(c), errand'[c].pc \in {"tag", "return", "cancel"}
  PROVE  ErrandOpen(c)'
<1>0. errand \in [Clerks -> Errands] /\ Free.pc = "idle"
  BY DEF GoodsInv, GoodsTypeOK, PurchasesTypeOK, Free
<1>1. errand[c].pc = "idle"
  BY ClerkActs
<1>2. errand' # errand
  BY <1>1
<1>3. ASSUME NEW i \in Inwards, BeginTag(c, i)
      PROVE  ErrandOpen(c)'
  <2>1. PICK w \in Tags :
        /\ lot[i].status = "open"
        /\ errand' = [errand EXCEPT ![c] = [Free EXCEPT !.pc = "tag", !.doc = i,
             !.measure = [pieces |-> 1, gross |-> w.gross, net |-> w.net, cost |-> pieceCost(i, w.gross)]]]
        /\ UNCHANGED <<inward, lot, back>>
    BY <1>3, Zenon DEF BeginTag
  <2> DEFINE m == [pieces |-> 1, gross |-> w.gross, net |-> w.net, cost |-> pieceCost(i, w.gross)]
             e == [Free EXCEPT !.pc = "tag", !.doc = i, !.measure = m]
  <2>2. errand' = [errand EXCEPT ![c] = e] /\ e.pc = "tag" /\ e.doc = i
    BY <2>1 DEF Free
  <2> HIDE DEF e
  <2>3. errand'[c].pc = "tag" /\ errand'[c].doc = i
    BY <1>0, <2>2
  <2> QED
    BY <2>1, <2>3 DEF ErrandOpen
<1>4. ASSUME NEW i \in Inwards, BeginReturnUntagged(c, i)
      PROVE  ErrandOpen(c)'
  <2> DEFINE left == Minus(lot[i].expected, lot[i].tagged)
             share(amount, part) == Rounded(amount * part.gross, left.gross)
             m(part) == [pieces |-> part.pieces, gross |-> part.gross, net |-> share(left.net, part), cost |-> share(left.cost, part)]
             e(part) == [Free EXCEPT !.pc = "return", !.doc = i, !.measure = m(part)]
  <2>1. /\ \E part \in Parts : errand' = [errand EXCEPT ![c] = e(part)]
        /\ lot[i].status = "open" /\ UNCHANGED <<inward, lot, back>>
    BY <1>4 DEF BeginReturnUntagged
  <2>2. \A part : e(part).pc = "return" /\ e(part).doc = i
    BY DEF Free
  <2> HIDE DEF e
  <2>3. errand'[c].pc = "return" /\ errand'[c].doc = i
    BY <1>0, <2>1, <2>2
  <2> QED
    BY <2>1, <2>3 DEF ErrandOpen
<1>5. ASSUME NEW i \in Inwards, BeginCancelInward(c, i)
      PROVE  ErrandOpen(c)'
  <2> DEFINE e == [Free EXCEPT !.pc = "cancel", !.doc = i]
  <2>1. /\ errand' = [errand EXCEPT ![c] = e] /\ e.pc = "cancel" /\ e.doc = i
        /\ lot[i].tagged.pieces = 0 /\ ReturnsOf(i) = {} /\ UNCHANGED <<inward, lot, back>>
    BY <1>5 DEF BeginCancelInward, Cancellable, Free
  <2> HIDE DEF e
  <2>2. errand'[c].pc = "cancel" /\ errand'[c].doc = i
    BY <1>0, <2>1
  <2>3. ReturnsOf(i)' = ReturnsOf(i)
    BY <2>1 DEF ReturnsOf
  <2> QED
    BY <2>1, <2>2, <2>3 DEF ErrandOpen, ReturnsOf
<1>6. ASSUME BeginSettleMetal(c) PROVE FALSE
  <2>1. PICK s \in bound.suppliers, l \in bound.places, part \in Parts, kind \in {"metal", "rate_fix"} :
    /\ OneStep(c)
    /\ Unused(settled, bound.settlements) # {}
    /\ part.gross > 0 /\ part.gross <= owing[s].fine
    /\ errand' = [errand EXCEPT ![c] = [Free EXCEPT !.pc = "settle", !.kind = kind, !.supplier = s,
         !.place = l, !.measure = [Nothing EXCEPT !.gross = part.gross, !.net = part.gross],
         !.carried = part.gross * carriedRate(s)]]
    /\ UNCHANGED <<shelfVars, order, inward, lot, bill, back, settled, owing, account>>
    BY <1>6, Zenon DEF BeginSettleMetal
  <2> DEFINE m == [Nothing EXCEPT !.gross = part.gross, !.net = part.gross]
             n == part.gross * carriedRate(s)
             e == [Free EXCEPT !.pc = "settle", !.kind = kind, !.supplier = s, !.place = l, !.measure = m, !.carried = n]
  <2>2. errand' = [errand EXCEPT ![c] = e]
    BY <2>1
  <2> HIDE DEF m, n
  <2>3. e.pc = "settle"
    BY DEF Free
  <2> HIDE DEF e
  <2> QED
    BY <1>0, <2>2, <2>3
<1>7. CASE \/ cancelInward(c) \/ tagPieces(c) \/ returnUntagged(c) \/ createSettlement(c) \/ GiveUp(c)
  BY <1>1, <1>7 DEF cancelInward, tagPieces, returnUntagged, createSettlement, GiveUp
<1>8. CASE createOrder(c) \/ closeOrder(c) \/ createBill(c) \/ paySupplier(c)
  BY <1>2, <1>8 DEF createOrder, closeOrder, createBill, paySupplier
<1>9. CASE createInward(c)
  BY <1>2, <1>9, createInwardIdle
<1>10. ASSUME NEW i \in Inwards, closeLot(c, i) \/ returnMetal(c, i) PROVE FALSE
  BY <1>2, <1>10 DEF closeLot, returnMetal
<1>11. ASSUME NEW b \in Bills, cancelBill(c, b) PROVE FALSE
  BY <1>2, <1>11 DEF cancelBill
<1>12. ASSUME NEW p \in Pieces, returnTagged(c, p) PROVE FALSE
  BY <1>2, <1>12 DEF returnTagged
<1>13. ASSUME NEW k \in Settlements, cancelSettlement(c, k) PROVE FALSE
  BY <1>2, <1>13 DEF cancelSettlement
<1> QED
  BY <1>3, <1>4, <1>5, <1>6, <1>7, <1>8, <1>9, <1>10, <1>11, <1>12, <1>13 DEF ClerkStep

\* What a clerk does leaves the books told.
LEMMA ClerkBooks ==
  ASSUME GoodsInv, GoodsTypeOK', RoadInv, CostInv, BooksInv, NEW c \in Clerks, ClerkStep(c), UNCHANGED floorVars
  PROVE  BooksInv'
<1>1. /\ bound' = bound
      /\ c \in bound.clerks \/ errand[c].pc # "idle"
      /\ \A d \in Clerks : d # c => errand'[d] = errand[d]
  BY ClerkActs
<1>2. transfer' = transfer
  BY DEF floorVars
<1>3. RowsTold' /\ Covered' /\ Uncounted' /\ LotsRight'
  <2>1. CASE createInward(c)
    BY <1>2, <2>1, createInwardBooks
  <2>2. CASE cancelInward(c)
    BY <1>2, <2>2, cancelInwardBooks
  <2>3. CASE tagPieces(c)
    BY <1>2, <2>3, tagPiecesBooks
  <2>4. CASE \E i \in Inwards : closeLot(c, i)
    BY <1>2, <2>4, closeLotBooks
  <2>5. CASE \E p \in Pieces : returnTagged(c, p)
    BY <1>2, <2>5, returnTaggedBooks
  <2>6. CASE returnUntagged(c)
    BY <1>2, <2>6, returnUntaggedBooks
  <2>7. CASE /\ ~createInward(c) /\ ~cancelInward(c) /\ ~tagPieces(c) /\ ~returnUntagged(c)
             /\ \A i \in Inwards : ~closeLot(c, i)
             /\ \A p \in Pieces : ~returnTagged(c, p)
    <3>1. Quiet
      BY <2>7, QuietSteps
    <3> QED
      BY <1>1, <1>2, <3>1, QuietBooks
  <2> QED
    BY <2>1, <2>2, <2>3, <2>4, <2>5, <2>6, <2>7
<1>4. PlacesTold' /\ MissingTold'
  BY ClerkPlaces
<1>5. Alone' = Alone
  BY <1>1 DEF Alone
<1>6. ASSUME Alone, NEW d \in Clerks
      PROVE  ErrandOpen(d)'
  <2>1. CASE d # c
    <3>1. errand'[d].pc = "idle"
      BY <1>1, <1>6, <2>1 DEF CostInv, Claimed, Alone
    <3> QED
      BY <3>1 DEF ErrandOpen
  <2>2. CASE d = c
    <3>1. CASE errand'[c].pc \in {"tag", "return", "cancel"}
      BY <2>2, <3>1, ClerkOpens
    <3>2. CASE errand'[c].pc \notin {"tag", "return", "cancel"}
      BY <2>2, <3>2 DEF ErrandOpen
    <3> QED
      BY <3>1, <3>2
  <2> QED
    BY <2>1, <2>2
<1>7. LotsTold'
  BY <1>3, <1>5, <1>6 DEF LotsTold, LotsRight
<1> QED
  BY <1>3, <1>4, <1>7 DEF BooksInv

\* Every step leaves the books told.
LEMMA BooksKeeps ==
  ASSUME GoodsInv, GoodsTypeOK', RoadInv, CostInv, BooksInv, ~(bound.sells /\ bound.counts > 0), [Next]_goodsVars
  PROVE  BooksInv'
<1>1. ASSUME NEW c \in Clerks, ClerkStep(c), UNCHANGED floorVars PROVE BooksInv'
  BY <1>1, ClerkBooks
<1>2. ASSUME NEW s \in Sessions, SessionStep(s), UNCHANGED purchaseVars PROVE BooksInv'
  BY <1>2, SessionBooks
<1>3. CASE UNCHANGED goodsVars
  <2>1. /\ bound' = bound /\ piece' = piece /\ stock' = stock /\ inward' = inward /\ lot' = lot /\ back' = back
        /\ errand' = errand /\ transfer' = transfer /\ count' = count /\ asked' = asked
    BY <1>3 DEF goodsVars, shelfVars, purchaseVars, floorVars
  <2>2. RowsTold'
    BY <2>1 DEF BooksInv, RowsTold, Told, Alone
  <2>3. Covered' /\ Uncounted'
    BY <2>1 DEF BooksInv, Covered, Uncounted
  <2>4. PlacesTold'
    BY <2>1 DEF BooksInv, PlacesTold, InStock, Carried
  <2>5. MissingTold'
    BY <2>1 DEF BooksInv, MissingTold, InStock, Alone
  <2>6. LotsTold'
    BY <2>1 DEF BooksInv, LotsTold, LotTold, ErrandOpen, Gone, ReturnsOf, Posted, Alone
  <2> QED
    BY <2>2, <2>3, <2>4, <2>5, <2>6 DEF BooksInv
<1> QED
  BY <1>1, <1>2, <1>3, Steps

-------------------------------------------------------------------------------
\* The balances are the goods.

\* What adds up to nothing.
LEMMA TotalOfNothings ==
  ASSUME NEW S, IsFiniteSet(S), NEW e, DOMAIN e = S, \A x \in S : e[x] = Nothing
  PROVE  Total(e) = Nothing
<1> DEFINE R == {}
           none == [x \in R |-> Nothing]
<1>1. R \in SUBSET S /\ DOMAIN none = R /\ R = {}
  OBVIOUS
<1>2. \A x \in R : none[x] \in Measures /\ e[x] = none[x]
  BY <1>1
<1>3. \A x \in S \ R : e[x] = Nothing
  OBVIOUS
<1> HIDE DEF R, none
<1>4. Total(none) = Total(e)
  <2>1. DOMAIN e = S /\ IsFiniteSet(S)
    OBVIOUS
  <2>2. R \in SUBSET S /\ DOMAIN none = R
    BY <1>1
  <2> QED
    BY <1>2, <1>3, <2>1, <2>2, TotalOfPart
<1> QED
  BY <1>1, <1>4, TotalOfNone

\* The first rows.
LEMMA BooksStarts ==
  ASSUME Init
  PROVE  BooksInv
<1>0. GoodsInv
  BY GoodsStarts
<1>1. /\ bound \in Bounds
      /\ piece = [p \in Pieces |-> IF p \in DOMAIN bound.pieces THEN bound.pieces[p] ELSE NoPiece]
      /\ stock = With(PiecesAt([p \in DOMAIN bound.pieces |-> bound.pieces[p].place]), bound.metal)
  BY DEF Init, ShelfInit
<1>2. /\ transfer = [t \in Transfers |-> NoTransfer] /\ count = [c \in Counts |-> NoCount]
      /\ asked = [s \in Sessions |-> Unasked]
      /\ inward = [i \in Inwards |-> NoInward] /\ lot = [i \in Inwards |-> NoLot] /\ errand = [c \in Clerks |-> Free]
  BY DEF Init, FloorInit, PurchasesInit
<1>3. /\ \A t \in Transfers : transfer[t].status = "none" /\ transfer[t].metal = Nothing
      /\ \A c \in Counts : count[c].status = "none"
      /\ \A s \in Sessions : asked[s].pc = "idle"
      /\ \A i \in Inwards : inward[i].status = "none" /\ lot[i].status = "none"
      /\ \A c \in Clerks : errand[c].pc = "idle"
  BY <1>2 DEF NoTransfer, NoCount, Unasked, NoInward, NoLot, Free
<1>4. piece \in [Pieces -> PieceRows] /\ DOMAIN bound.pieces \subseteq Pieces
  BY <1>0, <1>1, ShelfAssumption DEF GoodsInv, GoodsTypeOK
<1>5. \A p \in Pieces : IF p \in DOMAIN bound.pieces
                        THEN piece[p] = bound.pieces[p] /\ InStock(p) /\ piece[p].place \in Counters /\ piece[p].soldAt = None
                        ELSE piece[p].status = "none" /\ piece[p].soldAt = None
  BY <1>1, ShelfAssumption DEF NoPiece, InStock
<1>6. ASSUME NEW l \in Places
      PROVE  /\ stock[<<"tagged", l>>] = Total(Picked(piece, HeldAt(piece, transfer, l)))
             /\ stock[<<"metal", l>>].pieces = 0
  <2> DEFINE at == [p \in DOMAIN bound.pieces |-> bound.pieces[p].place]
             T == {p \in DOMAIN at : at[p] = l}
             f == PiecesAt(at)
  <2>1. /\ <<"tagged", l>> \in Rows /\ <<"metal", l>> \in Rows
        /\ bound.metal[<<"tagged", l>>] = Nothing /\ bound.metal[<<"metal", l>>].pieces = 0
        /\ bound.metal \in [Rows -> Measures]
    BY <1>1, ShelfAssumption DEF Rows
  <2>2. DOMAIN at \subseteq Pieces
    BY <1>4
  <2>3. HeldAt(piece, transfer, l) = T
    BY <1>3, <1>4, <1>5 DEF HeldAt, InStock
  <2>4. stock = With(f, bound.metal)
    BY <1>1
  <2> HIDE DEF at
  <2>5. f \in [Rows -> Measures] /\ f[<<"metal", l>>] = Nothing
    BY <1>4, <2>2, PiecesAtTyped
  <2>6. f[<<"tagged", l>>] = Total(Picked(piece, T))
    BY <1>4, <2>2, PickedTotal
  <2> HIDE DEF f, T
  <2>7. stock[<<"tagged", l>>] = Plus(f[<<"tagged", l>>], Nothing)
        /\ stock[<<"metal", l>>] = Plus(Nothing, bound.metal[<<"metal", l>>])
    BY <2>1, <2>4, <2>5 DEF With
  <2>8. f[<<"tagged", l>>] \in Measures /\ bound.metal[<<"metal", l>>] \in Measures
    BY <2>1, <2>5
  <2>9. stock[<<"tagged", l>>] = f[<<"tagged", l>>] /\ stock[<<"metal", l>>] = bound.metal[<<"metal", l>>]
    BY <2>7, <2>8, MeasuresMove, MeasureFacts
  <2> QED
    BY <2>1, <2>3, <2>6, <2>9
<1>7. ASSUME NEW l \in Places PROVE Told(l)
  <2> DEFINE held == Total(Picked(piece, HeldAt(piece, transfer, l)))
             waits == WaitingAt(lot, inward, l)
  <2>1. DOMAIN waits = Inwards /\ \A i \in Inwards : waits[i] = Nothing
    BY <1>3 DEF WaitingAt
  <2> HIDE DEF waits
  <2>2. Total(waits) = Nothing
    BY <2>1, GoodsFinite, TotalOfNothings
  <2>3. held \in Measures
    BY <1>4, PickedTyped
  <2>4. stock[<<"tagged", l>>] = held
    BY <1>6
  <2> HIDE DEF held
  <2>5. stock[<<"tagged", l>>] = Plus(held, Total(waits))
    BY <2>2, <2>3, <2>4, MeasuresMove, MeasureFacts
  <2> QED
    BY <2>5 DEF Told, held, waits
<1>8. Covered
  <2>1. ASSUME NEW l \in Counters PROVE stock[<<"tagged", l>>].net >= 0 /\ stock[<<"tagged", l>>].pieces >= 0
    <3> DEFINE set == HeldAt(piece, transfer, l)
    <3>1. stock[<<"tagged", l>>] = Total(Picked(piece, set))
      BY <1>6 DEF Counters
    <3> HIDE DEF set
    <3> QED
      BY <1>4, <3>1, PickedTyped
  <2> QED
    BY <1>6, <2>1 DEF Covered
<1>9. Uncounted
  BY <1>3 DEF Uncounted, Nothing
<1>10. PlacesTold
  BY <1>3, <1>5 DEF PlacesTold, InStock, Carried
<1>11. MissingTold
  BY <1>3 DEF MissingTold
<1>12. LotsTold
  BY <1>3 DEF LotsTold, LotTold, ErrandOpen
<1> QED
  BY <1>7, <1>8, <1>9, <1>10, <1>11, <1>12 DEF BooksInv, RowsTold

\* A lot's rest is what the balances say waits there.
LEMMA WaitingMeans ==
  ASSUME GoodsInv, BooksInv, Alone, NEW i \in Inwards, lot[i].status # "none"
  PROVE  WaitingAt(lot, inward, inward[i].place)[i] = Untagged(i)
<1> DEFINE rest == Minus(Minus(lot[i].expected, lot[i].tagged), lot[i].difference)
           stray == \/ \E r \in ReturnsOf(i) : back[r].stock.pieces > 0 /\ rest.pieces = 0
                    \/ rest.pieces <= 0 /\ rest.gross <= 0 /\ rest.net <= 0
<1>1. rest = Rest(lot[i])
  BY DEF Rest
<1>2. lot[i].status \in {"open", "closed"}
  BY DEF GoodsInv, GoodsTypeOK, PurchasesTypeOK, LotRows
<1>3. LotTold(i)
  BY DEF BooksInv, LotsTold
<1>4. WaitingAt(lot, inward, inward[i].place)[i] = IF Posted(i) THEN Rest(lot[i]) ELSE Minus(Nothing, lot[i].difference)
  BY DEF WaitingAt, Posted
<1>5. Untagged(i) = IF ~Posted(i) THEN Minus(Nothing, lot[i].difference)
                    ELSE IF lot[i].status = "open" \/ stray THEN rest ELSE Nothing
  BY DEF Untagged
<1>6. stray \/ rest = Nothing \/ lot[i].status = "open" \/ ~Posted(i)
  <2>1. lot[i].status = "closed" /\ Posted(i) => Gone(i)
    BY <1>3 DEF LotTold
  <2>2. Gone(i) => rest = Nothing \/ stray
    BY <1>1 DEF Gone
  <2> QED
    BY <1>2, <2>1, <2>2
<1> HIDE DEF rest, stray
<1> QED
  BY <1>1, <1>4, <1>5, <1>6

\* What a place has by its own pieces and lots is what it answers for.
LEMMA PlaceAgrees ==
  ASSUME GoodsInv, RoadInv, BooksInv, Alone, NEW l \in Places
  PROVE  stock[<<"tagged", l>>] =
           Plus(Total([p \in {p \in Pieces : OnBooksAt(p, l)} |-> Weighed(p)]),
                Total([i \in {i \in Inwards : lot[i].status # "none" /\ inward[i].place = l} |-> Untagged(i)]))
<1> DEFINE held == HeldAt(piece, transfer, l)
           here == {p \in Pieces : OnBooksAt(p, l)}
           f == [p \in here |-> Weighed(p)]
           e == Picked(piece, held)
           lots == {i \in Inwards : lot[i].status # "none" /\ inward[i].place = l}
           g == [i \in lots |-> Untagged(i)]
           w == WaitingAt(lot, inward, l)
<1>0. piece \in [Pieces -> PieceRows] /\ lot \in [Inwards -> LotRows]
  BY DEF GoodsInv, GoodsTypeOK, PurchasesTypeOK
<1>1. stock[<<"tagged", l>>] = Plus(Total(e), Total(w))
  BY DEF BooksInv, RowsTold, Told
<1>2. here = held
  <2>1. ~TwoAtOnce
    BY DEF TwoAtOnce, Alone
  <2>2. \A p \in Pieces, t \in Transfers : Carried(t, p) => piece[p].status = "in_transit"
    BY <2>1 DEF RoadInv
  <2> QED
    BY <2>2 DEF OnBooksAt, HeldAt, InStock, Carried
<1>3. \A p \in Pieces : e[p] \in Measures
  BY <1>0, PickedTyped
<1>4. /\ DOMAIN f = here /\ DOMAIN e = Pieces /\ here \in SUBSET Pieces
      /\ \A p \in here : e[p] = f[p]
      /\ \A p \in Pieces \ here : e[p] = Nothing
  BY <1>2 DEF Picked, Worth, Weighed
<1>5. DOMAIN w = Inwards /\ \A i \in Inwards : w[i] \in Measures
  BY <1>0, WaitingTyped
<1>6. ASSUME NEW i \in lots PROVE w[i] = g[i]
  BY <1>6, WaitingMeans
<1>7. \A i \in Inwards \ lots : w[i] = Nothing
  BY DEF WaitingAt
<1>8. DOMAIN g = lots /\ lots \in SUBSET Inwards
  OBVIOUS
<1> HIDE DEF held, here, f, e, lots, g, w
<1>9. Total(f) = Total(e)
  <2>1. \A p \in here : f[p] \in Measures /\ e[p] = f[p]
    BY <1>3, <1>4
  <2> QED
    BY <1>4, <2>1, GoodsFinite, TotalOfPart
<1>10. Total(g) = Total(w)
  <2>1. \A i \in lots : g[i] \in Measures /\ w[i] = g[i]
    BY <1>5, <1>6, <1>8
  <2>2. IsFiniteSet(Inwards)
    BY GoodsFinite
  <2>3. lots \in SUBSET Inwards /\ DOMAIN g = lots /\ DOMAIN w = Inwards
    BY <1>5, <1>8
  <2> QED
    BY <1>7, <2>1, <2>2, <2>3, TotalOfPart
<1> QED
  BY <1>1, <1>9, <1>10 DEF f, g, here, lots

\* No balance is short: those at counters are watched, and on the road there is what is carried.
LEMMA NoneIsShort ==
  ASSUME GoodsInv, RoadInv, BooksInv
  PROVE  NoneShort
<1>0. /\ piece \in [Pieces -> PieceRows] /\ lot \in [Inwards -> LotRows] /\ transfer \in [Transfers -> TransferRows]
      /\ stock \in [Rows -> Measures]
  BY DEF GoodsInv, GoodsTypeOK, PurchasesTypeOK, FloorTypeOK
<1>1. ASSUME NEW l \in Counters
      PROVE  /\ stock[<<"tagged", l>>].net >= 0 /\ stock[<<"tagged", l>>].pieces >= 0
             /\ stock[<<"metal", l>>].net >= 0 /\ stock[<<"metal", l>>].pieces >= 0
  <2>1. l \in Places
    BY DEF Counters
  <2>2. stock[<<"metal", l>>].pieces = 0
    BY <2>1 DEF BooksInv, Covered
  <2> QED
    BY <2>2 DEF BooksInv, Covered, GoodsInv, MetalTold
<1>2. ASSUME NEW l \in Places, l \notin Counters
      PROVE  stock[<<"tagged", l>>].net >= 0 /\ stock[<<"tagged", l>>].pieces >= 0
  <2> DEFINE held == Total(Picked(piece, HeldAt(piece, transfer, l)))
             w == WaitingAt(lot, inward, l)
  <2>1. stock[<<"tagged", l>>] = Plus(held, Total(w))
    BY <1>2 DEF BooksInv, RowsTold, Told
  <2>2. DOMAIN w = Inwards /\ \A i \in Inwards : w[i] = Nothing
    <3>1. \A i \in Inwards : lot[i].status # "none" => inward[i].place # l
      BY <1>2 DEF GoodsInv, InwardsTold
    <3> QED
      BY <3>1 DEF WaitingAt
  <2>3. held \in Measures /\ held.net >= 0 /\ held.pieces >= 0
    BY <1>0, PickedTyped
  <2> HIDE DEF held, w
  <2>4. Total(w) = Nothing
    BY <2>2, GoodsFinite, TotalOfNothings
  <2>5. stock[<<"tagged", l>>] = held
    BY <2>1, <2>3, <2>4, MeasuresMove, MeasureFacts
  <2> QED
    BY <2>3, <2>5
<1>3. ASSUME NEW l \in Places, l \notin Counters
      PROVE  stock[<<"metal", l>>].net >= 0 /\ stock[<<"metal", l>>].pieces >= 0
  <2>1. PICK b \in DOMAIN Transit : Transit[b] = l
    BY <1>3 DEF Counters
  <2> DEFINE load == LoadTo(transfer, b)
             n == [t \in Transfers |-> load[t].net]
  <2>2. stock[<<"metal", l>>] = Total(load)
    BY <2>1 DEF RoadInv, LoadTold
  <2>3. DOMAIN load = Transfers
    BY DEF LoadTo
  <2>4. ASSUME NEW t \in Transfers PROVE load[t] \in Measures /\ load[t].net >= 0
    <3>1. transfer[t].metal \in Measures
      BY <1>0 DEF TransferRows
    <3>2. transfer[t].metal.net >= 0 /\ Nothing.net = 0
      BY DEF GoodsInv, FloorTold, Nothing
    <3> QED
      BY <3>1, <3>2, MeasureFacts DEF LoadTo
  <2> HIDE DEF load
  <2>5. \A t \in Transfers : n[t] \in Nat
    BY <2>4 DEF Measures
  <2>6. Total(load).net = SumFunctionOnSet(n, Transfers)
    <3>1. Total(load) = Parted(load, Transfers)
      BY <2>3, <2>4, GoodsFinite, TotalByParts
    <3> QED
      BY <2>3, <3>1 DEF Parted
  <2> HIDE DEF n
  <2>7. SumFunctionOnSet(n, Transfers) \in Nat
    BY <2>5, GoodsFinite, SumNat
  <2>8. stock[<<"metal", l>>].pieces = 0
    BY DEF BooksInv, Covered
  <2> QED
    BY <2>2, <2>6, <2>7, <2>8
<1>4. ASSUME NEW r \in Rows PROVE stock[r].net >= 0 /\ stock[r].pieces >= 0
  <2>1. PICK item \in {"tagged", "metal"}, l \in Places : r = <<item, l>>
    BY DEF Rows
  <2> QED
    BY <1>1, <1>2, <1>3, <2>1
<1> QED
  BY <1>4 DEF NoneShort

\* Told twice, the books agree.
LEMMA BooksMean ==
  ASSUME GoodsInv, RoadInv, BooksInv
  PROVE  BooksAgree
<1>1. ASSUME bound.counts = 0, NEW p \in Pieces, piece[p].status = "in_transit"
      PROVE  OnBooksAt(p, piece[p].place)
  <2>1. PICK t \in Transfers : Carried(t, p)
    BY <1>1 DEF RoadInv
  <2>2. piece[p].place = Transit[BranchOf[transfer[t].to]]
    BY <1>1, <2>1 DEF BooksInv, PlacesTold
  <2> QED
    BY <1>1, <2>1, <2>2 DEF OnBooksAt, Carried
<1> QED
  BY <1>1, PlaceAgrees, NoneIsShort DEF BooksAgree

\* The balances of stock_balance are the goods (recordMovements, stock.service.ts:55): whatever
\* is delivered, tagged out of what waits (tagging.service.ts:228-229), returned, cancelled,
\* sent, received, re-weighed, adjusted, counted or sold, a location's balance is the pieces it
\* answers for and what waits there; a piece on the road says so until a count moves it
\* (count.service.ts:156); and no balance is below zero.  It is for behaviours that do not both
\* count and sell: a count also moves a piece that has been sold since it was scanned, and undoing the
\* sale then puts its weight at one place and the piece at another (the run goods_recount).
THEOREM BooksAgreeEver ==
  ASSUME \A b \in Bounds : ~(b.sells /\ b.counts > 0)
  PROVE  Spec => []BooksAgree
<1>1. Init => RoadInv /\ CostInv /\ BooksInv
  BY RoadStarts, CostStarts, BooksStarts
<1>2. GoodsInv /\ GoodsInv' /\ (RoadInv /\ CostInv /\ BooksInv) /\ [Next]_goodsVars => (RoadInv /\ CostInv /\ BooksInv)'
  <2> SUFFICES ASSUME GoodsInv, GoodsInv', RoadInv, CostInv, BooksInv, [Next]_goodsVars
               PROVE  RoadInv' /\ CostInv' /\ BooksInv'
    OBVIOUS
  <2>1. bound \in Bounds
    BY DEF GoodsInv, GoodsTypeOK
  <2>2. GoodsTypeOK'
    BY DEF GoodsInv
  <2> QED
    BY <2>1, <2>2, RoadHolds, CostKeeps, BooksKeeps
<1>3. GoodsInv /\ RoadInv /\ BooksInv => BooksAgree
  BY BooksMean
<1> QED
  BY <1>1, <1>2, <1>3, GoodsInvHolds, PTL DEF Spec
===============================================================================

------------------------------- MODULE GoodsProofs -------------------------------
(***************************************************************************)
(* What purchases and the floor keep to, for any number of pieces,         *)
(* places, clerks, sessions and documents: orders follow what arrived,     *)
(* bills stand with their inwards, what suppliers are owed is what the     *)
(* documents say, and goods on the road are on one open transfer.          *)
(***************************************************************************)
EXTENDS Goods, SumTheorems

-------------------------------------------------------------------------------
\* Measures and their totals.

LEMMA MeasureFacts ==
  /\ Nothing \in Measures
  /\ \A a, b \in Measures : Plus(a, b) \in Measures /\ Minus(a, b) \in Measures
  /\ \A a \in Measures : Plus(a, Nothing) = a /\ Plus(Nothing, a) = a /\ Minus(a, Nothing) = a
BY DEF Measures, Nothing, Plus, Minus

\* A total has the sum of each part.
Parted(f, s) ==
  [pieces |-> SumFunctionOnSet([x \in DOMAIN f |-> f[x].pieces], s),
   gross |-> SumFunctionOnSet([x \in DOMAIN f |-> f[x].gross], s),
   net |-> SumFunctionOnSet([x \in DOMAIN f |-> f[x].net], s),
   cost |-> SumFunctionOnSet([x \in DOMAIN f |-> f[x].cost], s)]

LEMMA PartedUnfolds ==
  ASSUME NEW S, IsFiniteSet(S), NEW f, DOMAIN f = S, \A x \in S : f[x] \in Measures
  PROVE  /\ Parted(f, {}) = Nothing
         /\ \A s \in SUBSET S : Parted(f, s) \in Measures
         /\ \A s \in SUBSET S : s # {} => Parted(f, s) = Plus(f[Pick(s)], Parted(f, s \ {Pick(s)}))
<1> DEFINE p == [x \in S |-> f[x].pieces]
           g == [x \in S |-> f[x].gross]
           n == [x \in S |-> f[x].net]
           c == [x \in S |-> f[x].cost]
<1>1. \A s : Parted(f, s) = [pieces |-> SumFunctionOnSet(p, s), gross |-> SumFunctionOnSet(g, s),
                             net |-> SumFunctionOnSet(n, s), cost |-> SumFunctionOnSet(c, s)]
  BY DEF Parted
<1>2. \A x \in S : /\ p[x] \in Int /\ g[x] \in Int /\ n[x] \in Int /\ c[x] \in Int
                   /\ f[x] = [pieces |-> p[x], gross |-> g[x], net |-> n[x], cost |-> c[x]]
  BY DEF Measures
<1> HIDE DEF p, g, n, c
<1>3. Parted(f, {}) = Nothing
  BY <1>1, SumOfNone DEF Nothing
<1>4. ASSUME NEW s \in SUBSET S
      PROVE  /\ IsFiniteSet(s) /\ \A x \in s : p[x] \in Int /\ g[x] \in Int /\ n[x] \in Int /\ c[x] \in Int
             /\ SumFunctionOnSet(p, s) \in Int /\ SumFunctionOnSet(g, s) \in Int
             /\ SumFunctionOnSet(n, s) \in Int /\ SumFunctionOnSet(c, s) \in Int
  <2>1. IsFiniteSet(s) /\ \A x \in s : p[x] \in Int /\ g[x] \in Int /\ n[x] \in Int /\ c[x] \in Int
    BY <1>2, FS_Subset
  <2> QED
    BY <2>1, SumInt
<1>5. ASSUME NEW s \in SUBSET S, s # {}
      PROVE  Parted(f, s) = Plus(f[Pick(s)], Parted(f, s \ {Pick(s)}))
  <2> DEFINE x == Pick(s)
             r == s \ {x}
  <2>1. x \in S
    BY <1>5 DEF Pick
  <2>2. /\ SumFunctionOnSet(p, s) = p[x] + SumFunctionOnSet(p, r)
        /\ SumFunctionOnSet(g, s) = g[x] + SumFunctionOnSet(g, r)
        /\ SumFunctionOnSet(n, s) = n[x] + SumFunctionOnSet(n, r)
        /\ SumFunctionOnSet(c, s) = c[x] + SumFunctionOnSet(c, r)
    BY <1>4, <1>5, SumOfPicked
  <2> HIDE DEF x, r
  <2>3. f[x] = [pieces |-> p[x], gross |-> g[x], net |-> n[x], cost |-> c[x]]
    BY <1>2, <2>1
  <2>4. Parted(f, s) = Plus(f[x], Parted(f, r))
    BY <1>1, <2>2, <2>3 DEF Plus
  <2> QED
    BY <2>4 DEF x, r
<1> QED
  BY <1>1, <1>3, <1>4, <1>5 DEF Measures

LEMMA TotalByParts ==
  ASSUME NEW S, IsFiniteSet(S), NEW f, DOMAIN f = S, \A x \in S : f[x] \in Measures
  PROVE  Total(f) = Parted(f, S)
<1> DEFINE Adds(g) == g = [s \in SUBSET S |-> IF s = {} THEN Nothing ELSE Plus(f[Pick(s)], g[s \ {Pick(s)}])]
           h == [s \in SUBSET S |-> Parted(f, s)]
<1>1. Adds(h)
  <2>1. ASSUME NEW s \in SUBSET S
        PROVE  Parted(f, s) = IF s = {} THEN Nothing ELSE Plus(f[Pick(s)], h[s \ {Pick(s)}])
    <3>1. CASE s = {}
      BY <3>1, PartedUnfolds
    <3>2. CASE s # {}
      <4> DEFINE r == s \ {Pick(s)}
      <4>1. \A t \in SUBSET S : t # {} => Parted(f, t) = Plus(f[Pick(t)], Parted(f, t \ {Pick(t)}))
        BY PartedUnfolds
      <4>2. r \in SUBSET S /\ h[r] = Parted(f, r)
        OBVIOUS
      <4> HIDE DEF h
      <4> QED
        BY <3>2, <4>1, <4>2
    <3> QED
      BY <3>1, <3>2
  <2> QED
    BY <2>1
<1>2. ASSUME NEW g, Adds(g) PROVE g[S] = Parted(f, S)
  <2> DEFINE Same == {n \in Nat : \A s \in SUBSET S : Cardinality(s) = n => g[s] = Parted(f, s)}
  <2>0. ASSUME NEW s \in SUBSET S
        PROVE  /\ Cardinality(s) \in Nat /\ (Cardinality(s) = 0 <=> s = {})
               /\ s # {} => s \ {Pick(s)} \in SUBSET S /\ Cardinality(s \ {Pick(s)}) = Cardinality(s) - 1
               /\ g[s] = IF s = {} THEN Nothing ELSE Plus(f[Pick(s)], g[s \ {Pick(s)}])
    <3>1. IsFiniteSet(s)
      BY FS_Subset
    <3>2. Cardinality(s) \in Nat /\ (Cardinality(s) = 0 <=> s = {})
      BY <3>1, FS_CardinalityType, FS_EmptySet
    <3>3. s # {} => Pick(s) \in s
      BY DEF Pick
    <3>4. s # {} => Cardinality(s \ {Pick(s)}) = Cardinality(s) - 1
      BY <3>1, <3>3, FS_RemoveElement
    <3>5. g[s] = IF s = {} THEN Nothing ELSE Plus(f[Pick(s)], g[s \ {Pick(s)}])
      BY <1>2
    <3> QED
      BY <3>2, <3>4, <3>5
  <2>1. 0 \in Same
    <3> SUFFICES ASSUME NEW s \in SUBSET S, Cardinality(s) = 0 PROVE g[s] = Parted(f, s)
      OBVIOUS
    <3>1. s = {} /\ g[s] = Nothing
      BY <2>0
    <3>2. Parted(f, {}) = Nothing
      BY PartedUnfolds
    <3> QED
      BY <3>1, <3>2
  <2>2. ASSUME NEW n \in Nat, n \in Same PROVE n + 1 \in Same
    <3> SUFFICES ASSUME NEW s \in SUBSET S, Cardinality(s) = n + 1 PROVE g[s] = Parted(f, s)
      OBVIOUS
    <3> DEFINE r == s \ {Pick(s)}
    <3>0. s # {}
      <4>1. Cardinality(s) = 0 <=> s = {}
        BY <2>0
      <4>2. n + 1 # 0
        OBVIOUS
      <4> QED
        BY <4>1, <4>2
    <3>1. r \in SUBSET S /\ Cardinality(r) = (n + 1) - 1
      BY <2>0, <3>0
    <3>5. Cardinality(r) = n
      BY <3>1
    <3>2. g[r] = Parted(f, r)
      BY <2>2, <3>1, <3>5
    <3>3. g[s] = Plus(f[Pick(s)], g[r])
      BY <2>0, <3>0
    <3>4. Parted(f, s) = Plus(f[Pick(s)], Parted(f, r))
      BY <3>0, PartedUnfolds
    <3> QED
      BY <3>2, <3>3, <3>4
  <2> HIDE DEF Same
  <2>3. Nat \subseteq Same
    BY <2>1, <2>2, NaturalsBySteps
  <2> QED
    BY <2>0, <2>3 DEF Same
<1>3. Total(f) = (CHOOSE g : Adds(g))[S]
  BY DEF Total, FoldFunction, FoldFunctionOnSet, MapThenFoldSet, Pick
<1> HIDE DEF Adds
<1> QED
  BY <1>1, <1>2, <1>3

LEMMA TotalTyped ==
  ASSUME NEW S, IsFiniteSet(S), NEW f, DOMAIN f = S, \A x \in S : f[x] \in Measures
  PROVE  Total(f) \in Measures
BY TotalByParts, PartedUnfolds

LEMMA TotalOfNone ==
  ASSUME NEW f, DOMAIN f = {}
  PROVE  Total(f) = Nothing
BY TotalByParts, PartedUnfolds, FS_EmptySet

\* One of those added up changes.
LEMMA TotalChanges ==
  ASSUME NEW S, IsFiniteSet(S), NEW a \in S, NEW f, NEW e, DOMAIN f = S, DOMAIN e = S,
         \A x \in S : f[x] \in Measures /\ e[x] \in Measures, \A x \in S \ {a} : e[x] = f[x]
  PROVE  Total(e) = Minus(Plus(Total(f), e[a]), f[a])
<1> DEFINE Part(m) == [pieces |-> [x \in S |-> m[x].pieces], gross |-> [x \in S |-> m[x].gross],
                       net |-> [x \in S |-> m[x].net], cost |-> [x \in S |-> m[x].cost]]
           was == Part(f)
           is == Part(e)
<1>1. /\ Total(f) = [pieces |-> SumFunctionOnSet(was.pieces, S), gross |-> SumFunctionOnSet(was.gross, S),
                     net |-> SumFunctionOnSet(was.net, S), cost |-> SumFunctionOnSet(was.cost, S)]
      /\ Total(e) = [pieces |-> SumFunctionOnSet(is.pieces, S), gross |-> SumFunctionOnSet(is.gross, S),
                     net |-> SumFunctionOnSet(is.net, S), cost |-> SumFunctionOnSet(is.cost, S)]
  <2>1. Total(f) = Parted(f, S) /\ Total(e) = Parted(e, S)
    BY TotalByParts
  <2> QED
    BY <2>1 DEF Parted
<1>2. \A x \in S : /\ was.pieces[x] = f[x].pieces /\ was.gross[x] = f[x].gross
                   /\ was.net[x] = f[x].net /\ was.cost[x] = f[x].cost
                   /\ is.pieces[x] = e[x].pieces /\ is.gross[x] = e[x].gross
                   /\ is.net[x] = e[x].net /\ is.cost[x] = e[x].cost
  OBVIOUS
<1>3. \A x \in S : /\ f[x].pieces \in Int /\ f[x].gross \in Int /\ f[x].net \in Int /\ f[x].cost \in Int
                   /\ e[x].pieces \in Int /\ e[x].gross \in Int /\ e[x].net \in Int /\ e[x].cost \in Int
  BY DEF Measures
<1> HIDE DEF was, is
<1>4. SumFunctionOnSet(is.pieces, S) = SumFunctionOnSet(was.pieces, S) - f[a].pieces + e[a].pieces
  <2>1. \A x \in S : was.pieces[x] \in Int /\ is.pieces[x] \in Int
    BY <1>2, <1>3
  <2>2. \A x \in S \ {a} : is.pieces[x] = was.pieces[x]
    BY <1>2
  <2>3. SumFunctionOnSet(is.pieces, S) = SumFunctionOnSet(was.pieces, S) - was.pieces[a] + is.pieces[a]
    BY <2>1, <2>2, SumChanges
  <2> QED
    BY <1>2, <2>3
<1>5. SumFunctionOnSet(is.gross, S) = SumFunctionOnSet(was.gross, S) - f[a].gross + e[a].gross
  <2>1. \A x \in S : was.gross[x] \in Int /\ is.gross[x] \in Int
    BY <1>2, <1>3
  <2>2. \A x \in S \ {a} : is.gross[x] = was.gross[x]
    BY <1>2
  <2>3. SumFunctionOnSet(is.gross, S) = SumFunctionOnSet(was.gross, S) - was.gross[a] + is.gross[a]
    BY <2>1, <2>2, SumChanges
  <2> QED
    BY <1>2, <2>3
<1>6. SumFunctionOnSet(is.net, S) = SumFunctionOnSet(was.net, S) - f[a].net + e[a].net
  <2>1. \A x \in S : was.net[x] \in Int /\ is.net[x] \in Int
    BY <1>2, <1>3
  <2>2. \A x \in S \ {a} : is.net[x] = was.net[x]
    BY <1>2
  <2>3. SumFunctionOnSet(is.net, S) = SumFunctionOnSet(was.net, S) - was.net[a] + is.net[a]
    BY <2>1, <2>2, SumChanges
  <2> QED
    BY <1>2, <2>3
<1>7. SumFunctionOnSet(is.cost, S) = SumFunctionOnSet(was.cost, S) - f[a].cost + e[a].cost
  <2>1. \A x \in S : was.cost[x] \in Int /\ is.cost[x] \in Int
    BY <1>2, <1>3
  <2>2. \A x \in S \ {a} : is.cost[x] = was.cost[x]
    BY <1>2
  <2>3. SumFunctionOnSet(is.cost, S) = SumFunctionOnSet(was.cost, S) - was.cost[a] + is.cost[a]
    BY <2>1, <2>2, SumChanges
  <2> QED
    BY <1>2, <2>3
<1>8. /\ SumFunctionOnSet(was.pieces, S) \in Int /\ SumFunctionOnSet(was.gross, S) \in Int
      /\ SumFunctionOnSet(was.net, S) \in Int /\ SumFunctionOnSet(was.cost, S) \in Int
  BY <1>2, <1>3, SumInt
<1> QED
  BY <1>1, <1>3, <1>4, <1>5, <1>6, <1>7, <1>8 DEF Plus, Minus

\* Those left out of a total might as well be nothing.
LEMMA TotalOfPart ==
  ASSUME NEW S, IsFiniteSet(S), NEW R \in SUBSET S, NEW f, NEW e, DOMAIN f = R, DOMAIN e = S,
         \A x \in R : f[x] \in Measures /\ e[x] = f[x], \A x \in S \ R : e[x] = Nothing
  PROVE  Total(f) = Total(e)
<1>1. IsFiniteSet(R)
  BY FS_Subset
<1>2. \A x \in S : e[x] \in Measures
  BY MeasureFacts
<1>3. Total(f) = Parted(f, R) /\ Total(e) = Parted(e, S)
  BY <1>1, <1>2, TotalByParts
<1> DEFINE p(m, T) == [x \in T |-> m[x].pieces]
           g(m, T) == [x \in T |-> m[x].gross]
           n(m, T) == [x \in T |-> m[x].net]
           c(m, T) == [x \in T |-> m[x].cost]
<1>4. /\ \A x \in R : /\ p(f, R)[x] \in Int /\ g(f, R)[x] \in Int /\ n(f, R)[x] \in Int /\ c(f, R)[x] \in Int
                      /\ p(e, S)[x] = p(f, R)[x] /\ g(e, S)[x] = g(f, R)[x]
                      /\ n(e, S)[x] = n(f, R)[x] /\ c(e, S)[x] = c(f, R)[x]
      /\ \A x \in S \ R : p(e, S)[x] = 0 /\ g(e, S)[x] = 0 /\ n(e, S)[x] = 0 /\ c(e, S)[x] = 0
  BY DEF Measures, Nothing
<1>5. /\ Parted(f, R) = [pieces |-> SumFunctionOnSet(p(f, R), R), gross |-> SumFunctionOnSet(g(f, R), R),
                         net |-> SumFunctionOnSet(n(f, R), R), cost |-> SumFunctionOnSet(c(f, R), R)]
      /\ Parted(e, S) = [pieces |-> SumFunctionOnSet(p(e, S), S), gross |-> SumFunctionOnSet(g(e, S), S),
                         net |-> SumFunctionOnSet(n(e, S), S), cost |-> SumFunctionOnSet(c(e, S), S)]
  BY DEF Parted
<1> HIDE DEF p, g, n, c
<1>6. /\ SumFunctionOnSet(p(f, R), R) = SumFunctionOnSet(p(e, S), S)
      /\ SumFunctionOnSet(g(f, R), R) = SumFunctionOnSet(g(e, S), S)
      /\ SumFunctionOnSet(n(f, R), R) = SumFunctionOnSet(n(e, S), S)
      /\ SumFunctionOnSet(c(f, R), R) = SumFunctionOnSet(c(e, S), S)
  BY <1>4, SumOfPart
<1> QED
  BY <1>3, <1>5, <1>6

-------------------------------------------------------------------------------
\* What the rows say of each other, whoever is in the middle of what.

Returning(e) == e.pc \in {"cancel", "return"}

\* A request works on an inward that is there; cancelling it or returning from it is one
\* clerk's at a time, and stands till then.
ErrandTold(errands, inwards, lots, c) ==
  LET e == errands[c] IN
  /\ e.pc = "tag" => e.doc \in Inwards /\ lots[e.doc].status # "none" /\ e.measure.gross \in Nat /\ e.measure.net \in Nat
  /\ Returning(e) =>
       /\ e.doc \in Inwards /\ inwards[e.doc].status = "posted"
       /\ \A d \in Clerks : Returning(errands[d]) /\ errands[d].doc = e.doc => d = c
  /\ e.pc = "cancel" => (inwards[e.doc].bill # 0 => inwards[e.doc].direct)
  /\ e.pc = "return" => lots[e.doc].status # "none"
  /\ e.pc = "settle" =>
       e.kind \in {"metal", "rate_fix"} /\ e.supplier \in Suppliers /\ e.place \in Counters /\ e.measure.net \in Nat

ErrandsTold == \A c \in Clerks : ErrandTold(errand, inward, lot, c)

\* Goods arrive at a counter, and a lot is of goods to be tagged.
InwardsTold ==
  \A i \in Inwards :
    /\ lot[i].status # "none" => inward[i].status # "none" /\ inward[i].line.item = "tagged"
    /\ inward[i].status # "none" => inward[i].place \in Counters

PiecesTold == \A p \in Pieces : piece[p].lot # 0 => piece[p].lot \in Inwards /\ lot[piece[p].lot].status # "none"

SettlementsTold ==
  \A k \in Settlements : settled[k].kind = "metal" => settled[k].place \in Counters

\* Metal at a counter is never below zero.
MetalTold == \A l \in Counters : stock[<<"metal", l>>].net >= 0

\* Goods go from one counter to another; a count is taken at a counter.
FloorTold ==
  /\ \A t \in Transfers : transfer[t].metal.net >= 0
  /\ \A t \in Transfers : transfer[t].status # "none" => transfer[t].from \in Counters /\ transfer[t].to \in Counters
  /\ \A c \in Counts : count[c].status # "none" => count[c].place \in Counters
  /\ \A s \in Sessions :
       /\ asked[s].pc # "idle" => s \in bound.sessions
       /\ asked[s].pc = "start" => asked[s].place \in Counters
       /\ asked[s].pc = "post" => asked[s].count \in Counts /\ count[asked[s].count].status # "none"

GoodsInv ==
  /\ GoodsTypeOK
  /\ ErrandsTold /\ InwardsTold /\ PiecesTold /\ SettlementsTold /\ MetalTold /\ FloorTold

-------------------------------------------------------------------------------
\* What the helpers return.

LEMMA GoodsFinite ==
  /\ IsFiniteSet(Orders) /\ IsFiniteSet(Inwards) /\ IsFiniteSet(Bills) /\ IsFiniteSet(Returns)
  /\ IsFiniteSet(Settlements) /\ IsFiniteSet(Transfers) /\ IsFiniteSet(Pieces)
  /\ Orders \subseteq Nat /\ Inwards \subseteq Nat /\ Bills \subseteq Nat /\ Returns \subseteq Nat
  /\ 0 \notin Orders /\ 0 \notin Inwards /\ 0 \notin Bills /\ 0 \notin Returns
<1>1. /\ 1 \in Int /\ MaxOrders \in Int /\ MaxInwards \in Int /\ MaxBills \in Int /\ MaxReturns \in Int
      /\ MaxSettlements \in Int /\ MaxTransfers \in Int
  BY PurchasesAssumption, FloorAssumption
<1>2. \A n \in Int : IsFiniteSet(1..n)
  BY FS_Interval
<1> QED
  BY <1>1, <1>2, PlacesAssumption DEF Orders, Inwards, Bills, Returns, Settlements, Transfers

LEMMA UnusedFacts ==
  ASSUME NEW m \in Nat, NEW last \in 0..m, NEW doc, NEW i \in Unused(doc, last)
  PROVE  i \in 1..m /\ doc[i].status = "none"
BY DEF Unused

LEMMA BoundFacts ==
  ASSUME bound \in Bounds
  PROVE  /\ bound.clerks \subseteq Clerks /\ bound.suppliers \subseteq Suppliers /\ bound.places \subseteq Counters
         /\ bound.goods \subseteq Goods /\ bound.sessions \subseteq Sessions /\ bound.at \subseteq Counters
         /\ \A o \in Unused(order, bound.orders) : o \in Orders /\ order[o].status = "none"
         /\ \A i \in Unused(inward, bound.inwards) : i \in Inwards /\ inward[i].status = "none"
         /\ \A b \in Unused(bill, bound.bills) : b \in Bills /\ bill[b].status = "none"
         /\ \A r \in Unused(back, bound.returns) : r \in Returns /\ back[r].status = "none"
         /\ \A k \in Unused(settled, bound.settlements) : k \in Settlements /\ settled[k].status = "none"
         /\ \A t \in Unused(transfer, bound.transfers) : t \in Transfers /\ transfer[t].status = "none"
         /\ \A c \in Unused(count, bound.counts) : c \in Counts /\ count[c].status = "none"
<1>1. /\ bound.orders \in 0..MaxOrders /\ bound.inwards \in 0..MaxInwards /\ bound.bills \in 0..MaxBills
      /\ bound.returns \in 0..MaxReturns /\ bound.settlements \in 0..MaxSettlements
      /\ bound.transfers \in 0..MaxTransfers /\ bound.counts \in 0..MaxCounts
  BY PurchasesAssumption, FloorAssumption
<1>2. /\ MaxOrders \in Nat /\ MaxInwards \in Nat /\ MaxBills \in Nat /\ MaxReturns \in Nat /\ MaxSettlements \in Nat
      /\ MaxTransfers \in Nat /\ MaxCounts \in Nat
  BY PurchasesAssumption, FloorAssumption
<1>3. /\ bound.clerks \subseteq Clerks /\ bound.suppliers \subseteq Suppliers /\ bound.places \subseteq Counters
      /\ bound.goods \subseteq Goods /\ bound.sessions \subseteq Sessions /\ bound.at \subseteq Counters
  BY PurchasesAssumption, FloorAssumption
<1>4. /\ \A o \in Unused(order, bound.orders) : o \in Orders /\ order[o].status = "none"
      /\ \A i \in Unused(inward, bound.inwards) : i \in Inwards /\ inward[i].status = "none"
      /\ \A b \in Unused(bill, bound.bills) : b \in Bills /\ bill[b].status = "none"
  BY <1>1, <1>2, UnusedFacts DEF Orders, Inwards, Bills
<1>5. /\ \A r \in Unused(back, bound.returns) : r \in Returns /\ back[r].status = "none"
      /\ \A k \in Unused(settled, bound.settlements) : k \in Settlements /\ settled[k].status = "none"
  BY <1>1, <1>2, UnusedFacts DEF Returns, Settlements
<1>6. /\ \A t \in Unused(transfer, bound.transfers) : t \in Transfers /\ transfer[t].status = "none"
      /\ \A c \in Unused(count, bound.counts) : c \in Counts /\ count[c].status = "none"
  BY <1>1, <1>2, UnusedFacts DEF Transfers, Counts
<1> QED
  BY <1>3, <1>4, <1>5, <1>6

LEMMA RoundedTyped ==
  ASSUME NEW b \in Nat
  PROVE  /\ \A a \in Int : Rounded(a, b) \in Int
         /\ \A a \in Nat : Rounded(a, b) \in Nat
<1>1. CASE b = 0
  BY <1>1 DEF Rounded
<1>2. CASE b > 0
  <2> DEFINE d == 2 * b
  <2>1. d \in Nat /\ d > 0
    BY <1>2
  <2>2. \A a \in Int : Rounded(a, b) = IF a >= 0 THEN (2 * a + b) \div d ELSE -((b - 2 * a) \div d)
    BY <1>2 DEF Rounded
  <2> HIDE DEF d
  <2>3. \A x \in Int : x \div d \in Int /\ (x >= 0 => x \div d >= 0)
    BY <2>1
  <2>4. \A a \in Int : 2 * a + b \in Int /\ b - 2 * a \in Int /\ (a >= 0 => 2 * a + b >= 0)
    OBVIOUS
  <2> QED
    BY <2>2, <2>3, <2>4
<1> QED
  BY <1>1, <1>2

LEMMA Products ==
  /\ \A a, b \in Int : a * b \in Int
  /\ \A a, b \in Nat : a * b \in Nat
OBVIOUS

LEMMA PricedTyped ==
  ASSUME NEW g \in Goods
  PROVE  /\ priceInward(g) \in PricedRows
         /\ priceInward(g).item = "tagged" => priceInward(g).pieces > 0
         /\ priceInward(g).item = "metal" => priceInward(g).pieces = 0
<1> DEFINE net == g.gross - g.stone
           metal == net * g.rate
           making == IF g.makingBasis = "flat" THEN g.making * (IF g.pieces > 1 THEN g.pieces ELSE 1)
                     ELSE IF g.makingBasis = "percent" THEN Rounded(metal * g.making, 100) ELSE net * g.making
           cost == metal + making + g.stones
           fine == IF g.basis = "fine" THEN Rounded(net * g.touch, 100) ELSE 0
           rupees == IF g.basis = "fine" THEN making + g.stones ELSE cost
<1>1. g \in GoodsRows /\ g.stone <= g.gross /\ (g.item = "tagged" => g.pieces > 0)
  BY PurchasesAssumption
<1>2. /\ g.item \in {"tagged", "metal"} /\ g.basis \in {"rupee", "fine"} /\ g.pieces \in Nat /\ g.gross \in Nat
      /\ g.stone \in Nat /\ g.rate \in Nat /\ g.touch \in Nat /\ g.making \in Nat /\ g.stones \in Nat
  BY <1>1 DEF GoodsRows
<1>3. net \in Nat
  BY <1>1, <1>2
<1> HIDE DEF net
<1>4. metal \in Nat
  BY <1>2, <1>3, Products
<1> HIDE DEF metal
<1>5. making \in Nat
  <2>1. metal * g.making \in Nat /\ net * g.making \in Nat /\ g.making * g.pieces \in Nat /\ g.making * 1 \in Nat
    BY <1>2, <1>3, <1>4, Products
  <2>2. Rounded(metal * g.making, 100) \in Nat
    BY <2>1, RoundedTyped
  <2> QED
    BY <2>1, <2>2
<1> HIDE DEF making
<1>6. cost \in Nat
  BY <1>2, <1>4, <1>5
<1> HIDE DEF cost
<1>7. fine \in Nat
  <2>1. net * g.touch \in Nat
    BY <1>2, <1>3, Products
  <2> QED
    BY <2>1, RoundedTyped
<1>8. rupees \in Nat
  BY <1>2, <1>5, <1>6
<1> HIDE DEF fine, rupees
<1>9. priceInward(g) = [item |-> g.item, pieces |-> IF g.item = "tagged" THEN g.pieces ELSE 0, gross |-> g.gross,
        net |-> net, basis |-> g.basis, metal |-> metal, cost |-> cost, rupees |-> rupees, fine |-> fine]
  BY DEF priceInward, net, metal, making, cost, fine, rupees
<1> QED
  BY <1>1, <1>2, <1>3, <1>4, <1>6, <1>7, <1>8, <1>9 DEF PricedRows

LEMMA AtTyped ==
  ASSUME NEW item, NEW l, NEW m \in Measures
  PROVE  /\ At(item, l, m) \in [Rows -> Measures]
         /\ \A r \in Rows : At(item, l, m)[r] = IF r = <<item, l>> THEN m ELSE Nothing
BY MeasureFacts DEF At

LEMMA WithTyped ==
  ASSUME NEW f \in [Rows -> Measures], NEW g \in [Rows -> Measures]
  PROVE  With(f, g) \in [Rows -> Measures] /\ \A r \in Rows : With(f, g)[r] = Plus(f[r], g[r])
BY MeasureFacts DEF With

LEMMA PiecesAtTyped ==
  ASSUME piece \in [Pieces -> PieceRows], NEW place, DOMAIN place \subseteq Pieces
  PROVE  /\ PiecesAt(place) \in [Rows -> Measures]
         /\ \A l \in Places : PiecesAt(place)[<<"metal", l>>] = Nothing
<1>1. ASSUME NEW r \in Rows PROVE PiecesAt(place)[r] \in Measures
  <2> DEFINE S == {p \in DOMAIN place : <<"tagged", place[p]>> = r}
             f == [p \in S |-> Weighed(p)]
  <2>1. IsFiniteSet(S)
    BY FS_Subset, PlacesAssumption
  <2>2. \A p \in S : f[p] \in Measures
    BY DEF Weighed, Measures, PieceRows
  <2>3. Total(f) \in Measures
    BY <2>1, <2>2, TotalTyped
  <2> QED
    BY <2>3 DEF PiecesAt
<1>2. ASSUME NEW l \in Places PROVE PiecesAt(place)[<<"metal", l>>] = Nothing
  <2> DEFINE S == {p \in DOMAIN place : <<"tagged", place[p]>> = <<"metal", l>>}
             f == [p \in S |-> Weighed(p)]
  <2>1. S = {}
    OBVIOUS
  <2>2. Total(f) = Nothing
    BY <2>1, TotalOfNone
  <2> QED
    BY <2>2 DEF PiecesAt, Rows
<1> QED
  BY <1>1, <1>2 DEF PiecesAt

\* A batch changes every row by what it moves there, and one that has to keep to what is
\* there leaves no row it takes from below zero.
LEMMA RecordFacts ==
  ASSUME stock \in [Rows -> Measures], NEW into \in [Rows -> Measures], NEW out \in [Rows -> Measures],
         NEW allowed \in BOOLEAN, recordMovements(into, out, allowed)
  PROVE  /\ stock' \in [Rows -> Measures]
         /\ \A r \in Rows : stock'[r] = Minus(Plus(stock[r], into[r]), out[r])
         /\ ~allowed => \A r \in Rows : out[r] # Nothing => stock'[r].net >= 0
<1>1. stock' = [r \in Rows |-> Minus(Plus(stock[r], into[r]), out[r])]
  BY DEF recordMovements
<1>2. \A r \in Rows : Minus(Plus(stock[r], into[r]), out[r]) \in Measures
  BY MeasureFacts
<1>3. ~allowed => \A r \in Rows : out[r] # Nothing => ~Short(r, stock'[r])
  BY <1>1 DEF recordMovements
<1>4. stock' \in [Rows -> Measures]
  BY <1>1, <1>2
<1>5. \A r \in Rows : stock'[r].net \in Int
  BY <1>4 DEF Measures
<1> QED
  BY <1>1, <1>3, <1>4, <1>5 DEF Short

\* Metal at the counters stays where it was, or above.
LEMMA MetalStays ==
  ASSUME stock \in [Rows -> Measures], NEW into \in [Rows -> Measures], NEW out \in [Rows -> Measures],
         NEW allowed \in BOOLEAN, recordMovements(into, out, allowed),
         \A l \in Counters : stock[<<"metal", l>>].net >= 0,
         \A l \in Counters : into[<<"metal", l>>].net >= 0,
         allowed => \A l \in Counters : out[<<"metal", l>>] = Nothing
  PROVE  stock' \in [Rows -> Measures] /\ \A l \in Counters : stock'[<<"metal", l>>].net >= 0
<1>1. /\ stock' \in [Rows -> Measures]
      /\ \A r \in Rows : stock'[r] = Minus(Plus(stock[r], into[r]), out[r])
      /\ ~allowed => \A r \in Rows : out[r] # Nothing => stock'[r].net >= 0
  BY RecordFacts
<1>2. ASSUME NEW l \in Counters PROVE stock'[<<"metal", l>>].net >= 0
  <2> DEFINE r == <<"metal", l>>
  <2>1. r \in Rows
    BY DEF Rows, Counters
  <2> HIDE DEF r
  <2>2. CASE out[r] = Nothing
    <3>1. stock[r].net >= 0 /\ into[r].net >= 0
      BY DEF r
    <3>2. stock'[r] = Minus(Plus(stock[r], into[r]), out[r]) /\ stock[r] \in Measures /\ into[r] \in Measures
      BY <1>1, <2>1
    <3>3. stock'[r].net >= 0
      BY <2>2, <3>1, <3>2 DEF Minus, Plus, Nothing, Measures
    <3> QED
      BY <3>3 DEF r
  <2>3. CASE out[r] # Nothing
    <3>1. ~allowed
      BY <2>3 DEF r
    <3>2. stock'[r].net >= 0
      BY <1>1, <2>1, <2>3, <3>1
    <3> QED
      BY <3>2 DEF r
  <2> QED
    BY <2>2, <2>3
<1> QED
  BY <1>1, <1>2

Vouchers == [stock : Int, gst : Int, gap : Int, paid : Int, rupees : Int, metal : Int]

LEMMA VoucherFacts ==
  ASSUME owing \in [Suppliers -> Owings], account \in [stock : Int, gst : Int, gap : Int, paid : Int],
         NEW s, NEW v \in Vouchers, NEW fineIn \in Nat, NEW fineOut \in Int, NEW value \in Nat,
         postVoucher(s, v, fineIn, fineOut, value)
  PROVE  /\ account' \in [stock : Int, gst : Int, gap : Int, paid : Int]
         /\ owing' \in [Suppliers -> Owings]
         /\ \A x \in Suppliers :
              /\ owing'[x].rupees = IF x = s THEN owing[x].rupees + v.rupees ELSE owing[x].rupees
              /\ owing'[x].fine = IF x = s THEN owing[x].fine + fineIn - fineOut ELSE owing[x].fine
<1> DEFINE after(x) == [rupees |-> owing[x].rupees + v.rupees, metal |-> owing[x].metal + v.metal,
                        fine |-> owing[x].fine + fineIn - fineOut, fineIn |-> owing[x].fineIn + fineIn,
                        valueIn |-> owing[x].valueIn + value]
<1>1. account' \in [stock : Int, gst : Int, gap : Int, paid : Int]
  BY DEF postVoucher, Vouchers
<1>2. owing' = [x \in Suppliers |-> IF x = s THEN after(x) ELSE owing[x]]
  BY DEF postVoucher
<1>3. \A x \in Suppliers : /\ after(x) \in Owings
                           /\ after(x).rupees = owing[x].rupees + v.rupees
                           /\ after(x).fine = owing[x].fine + fineIn - fineOut
  BY DEF Owings, Vouchers
<1> HIDE DEF after
<1> QED
  BY <1>1, <1>2, <1>3

LEMMA InwardRow ==
  ASSUME NEW row \in InwardRows \cup {NoInward}, row.status # "none"
  PROVE  /\ row \in InwardRows /\ row.supplier \in Suppliers /\ row.place \in Places /\ row.line \in PricedRows
         /\ row.direct \in BOOLEAN /\ row.bill \in {0} \cup Bills /\ row.order \in {0} \cup Orders
         /\ row.status \in {"posted", "cancelled"}
BY DEF InwardRows, NoInward

LEMMA ArrivedTyped ==
  ASSUME NEW rows \in [Inwards -> InwardRows \cup {NoInward}], NEW o, NEW l
  PROVE  Arrived(rows, o, l) \in Nat
<1> DEFINE S == {i \in Receipts(rows, o, l) : rows[i].status = "posted"}
           f == [i \in S |-> rows[i].line.gross]
<1>1. S \subseteq Inwards /\ \A i \in S : rows[i].status # "none"
  BY DEF Receipts
<1>2. IsFiniteSet(S)
  BY <1>1, GoodsFinite, FS_Subset
<1>3. \A i \in S : f[i] \in Nat
  <2>1. \A i \in S : rows[i].line \in PricedRows
    BY <1>1, InwardRow
  <2> QED
    BY <2>1 DEF PricedRows
<1> HIDE DEF S
<1>4. SumFunctionOnSet(f, S) \in Nat
  BY <1>2, <1>3, SumNat
<1>5. DOMAIN f = S
  OBVIOUS
<1> HIDE DEF f
<1> QED
  BY <1>4, <1>5 DEF Arrived, S, f, SumFunction

LEMMA RollUpFacts ==
  ASSUME order \in [Orders -> OrderRows], NEW rows \in [Inwards -> InwardRows \cup {NoInward}],
         NEW o \in {0} \cup Orders, rollUpOrder(rows, o)
  PROVE  /\ order' \in [Orders -> OrderRows]
         /\ \A x \in Orders : x # o => order'[x] = order[x]
         /\ o # 0 => /\ order'[o].received = [l \in OrderLines |-> receivedOn(rows, o, l)]
                     /\ order'[o].status = IF order[o].status \notin {"confirmed", "closed"} THEN order[o].status
                          ELSE IF \A l \in OrderLines : receivedOn(rows, o, l) >= OrderWeight[l] THEN "closed"
                               ELSE "confirmed"
<1>1. CASE o = 0
  <2>1. order' = order
    BY <1>1 DEF rollUpOrder
  <2> QED
    BY <1>1, <2>1
<1>2. CASE o # 0
  <2> DEFINE received == [l \in OrderLines |-> receivedOn(rows, o, l)]
             status == IF order[o].status \notin {"confirmed", "closed"} THEN order[o].status
                       ELSE IF \A l \in OrderLines : receivedOn(rows, o, l) >= OrderWeight[l] THEN "closed" ELSE "confirmed"
             row == [status |-> status, supplier |-> order[o].supplier, received |-> received]
  <2>1. o \in Orders /\ order[o] \in OrderRows
    BY <1>2
  <2>2. received \in [OrderLines -> Nat]
    <3>1. ASSUME NEW l \in OrderLines PROVE receivedOn(rows, o, l) \in Nat
      <4>1. order[o].received[l] \in Nat
        BY <2>1 DEF OrderRows
      <4>2. Arrived(rows, o, l) \in Nat
        BY ArrivedTyped
      <4> QED
        BY <4>1, <4>2 DEF receivedOn
    <3> QED
      BY <3>1
  <2>3. \A l \in OrderLines : received[l] = receivedOn(rows, o, l)
    OBVIOUS
  <2>5. order' = [order EXCEPT ![o].received = received, ![o].status = status]
    BY <1>2, <2>1, <2>3 DEF rollUpOrder
  <2>6. status \in {"none", "confirmed", "closed", "cancelled"}
    BY <2>1 DEF OrderRows
  <2> HIDE DEF received, status
  <2>7. row \in OrderRows
    BY <2>1, <2>2, <2>6 DEF OrderRows
  <2>8. order'[o] = row
    BY <2>1, <2>5 DEF row, OrderRows
  <2>9. row.received = received /\ row.status = status
    OBVIOUS
  <2> HIDE DEF row
  <2>10. order' \in [Orders -> OrderRows] /\ \A x \in Orders : x # o => order'[x] = order[x]
    <3>1. DOMAIN order' = Orders /\ order' = [x \in Orders |-> order'[x]]
      BY <2>5
    <3>2. \A x \in Orders : x # o => order'[x] = order[x]
      BY <2>5
    <3> QED
      BY <2>7, <2>8, <3>1, <3>2
  <2> QED
    BY <2>8, <2>9, <2>10 DEF received, status
<1> QED
  BY <1>1, <1>2

\* The same inward, whatever bill it is on.
Alike(x, y) ==
  /\ x.status = y.status
  /\ x.status # "none" => /\ x.supplier = y.supplier /\ x.place = y.place /\ x.line = y.line
                          /\ x.direct = y.direct /\ x.order = y.order /\ x.orderLine = y.orderLine

LEMMA BilledFacts ==
  ASSUME bill \in [Bills -> BillRows], NEW rows \in [Inwards -> InwardRows \cup {NoInward}],
         NEW b \in Bills, NEW s \in Suppliers, NEW set \in SUBSET Inwards, \A i \in set : rows[i].status # "none",
         NEW gst \in Nat, Billed(b, s, set, rows, gst)
  PROVE  /\ bill' \in [Bills -> BillRows] /\ inward' \in [Inwards -> InwardRows \cup {NoInward}]
         /\ \A i \in Inwards : Alike(inward'[i], rows[i])
         /\ \A i \in set : inward'[i].bill = b
         /\ \A i \in Inwards \ set : inward'[i] = rows[i]
         /\ \A x \in Bills \ {b} : bill'[x] = bill[x]
         /\ bill'[b].status = "posted" /\ bill'[b].supplier = s /\ bill'[b].gst = gst
<1> DEFINE f == [i \in set |-> rows[i].line.cost]
           on(i) == [rows[i] EXCEPT !.bill = b]
           row == [status |-> "posted", supplier |-> s, gst |-> gst, taxable |-> SumFunction(f)]
<1>1. \A i \in set : rows[i] \in InwardRows
  BY InwardRow
<1>2. SumFunction(f) \in Nat
  <2>1. \A i \in set : f[i] \in Nat
    BY <1>1 DEF InwardRows, PricedRows
  <2>2. IsFiniteSet(set) /\ DOMAIN f = set
    BY GoodsFinite, FS_Subset
  <2> HIDE DEF f
  <2> QED
    BY <2>1, <2>2, SumNat DEF SumFunction
<1>3. bill' = [bill EXCEPT ![b] = row] /\ inward' = [i \in Inwards |-> IF i \in set THEN on(i) ELSE rows[i]]
  BY DEF Billed
<1> HIDE DEF f
<1>4. row \in BillRows
  BY <1>2 DEF BillRows
<1>5. \A i \in set : on(i) \in InwardRows /\ Alike(on(i), rows[i]) /\ on(i).bill = b
  BY <1>1 DEF InwardRows, Alike
<1>6. \A i \in Inwards : Alike(rows[i], rows[i])
  BY DEF Alike
<1>7. row.status = "posted" /\ row.supplier = s /\ row.gst = gst /\ row.taxable = SumFunction(f)
  OBVIOUS
<1> HIDE DEF on, row
<1>8. bill'[b] = row /\ \A x \in Bills \ {b} : bill'[x] = bill[x]
  BY <1>3
<1>9. bill' \in [Bills -> BillRows]
  BY <1>3, <1>4
<1> QED
  BY <1>3, <1>5, <1>6, <1>7, <1>8, <1>9 DEF f

LEMMA ReturnedFacts ==
  ASSUME GoodsTypeOK, NEW i \in Inwards, Posted(i), NEW l, NEW m \in Measures, Returned(i, l, m)
  PROVE  /\ stock' \in [Rows -> Measures]
         /\ \A r \in Rows : r[1] # inward[i].line.item => stock'[r] = stock[r]
         /\ (\A x \in Counters : stock[<<"metal", x>>].net >= 0) => \A x \in Counters : stock'[<<"metal", x>>].net >= 0
         /\ \A r \in Rows : r # <<inward[i].line.item, l>> => stock'[r] = stock[r]
         /\ back' \in [Returns -> ReturnRows]
         /\ account' \in [stock : Int, gst : Int, gap : Int, paid : Int] /\ owing' \in [Suppliers -> Owings]
         /\ \E r \in Returns :
              /\ back[r].status = "none" /\ back'[r].status = "posted" /\ back'[r].inward = i /\ back'[r].stock = m
              /\ \A x \in Returns \ {r} : back'[x] = back[x]
              /\ \A x \in Suppliers :
                   LET mine == x = inward[i].supplier IN
                   /\ owing'[x].rupees = owing[x].rupees - (IF mine THEN back'[r].rupees + back'[r].gst ELSE 0)
                   /\ owing'[x].fine = owing[x].fine - (IF mine THEN back'[r].fine ELSE 0)
<1> DEFINE t == Terms(i, m)
           gst == IF inward[i].bill # 0 THEN gstOn(t.rupees + t.metal) ELSE 0
           row == [status |-> "posted", inward |-> i, stock |-> m, rupees |-> t.rupees,
                   metal |-> t.metal, fine |-> t.fine, gst |-> gst]
           v == Voucher(-m.cost, -gst, m.cost - t.rupees - t.metal, 0, -(t.rupees + gst), -t.metal)
           none == At(inward[i].line.item, l, Nothing)
           out == At(inward[i].line.item, l, m)
<1>1. inward[i] \in InwardRows \cup {NoInward} /\ inward[i].status # "none"
  BY DEF GoodsTypeOK, PurchasesTypeOK, Posted
<1>2. inward[i].line \in PricedRows /\ inward[i].supplier \in Suppliers
  BY <1>1, InwardRow
<1>3. t.rupees \in Int /\ t.metal \in Int /\ t.fine \in Int
  <2> DEFINE p == inward[i].line
             share(amount) == Rounded(amount * m.net, p.net)
             metal == IF p.basis = "fine" THEN share(p.metal) ELSE 0
  <2>1. p.net \in Nat /\ p.metal \in Int /\ p.cost \in Int /\ p.fine \in Int /\ m.net \in Int
    BY <1>2 DEF PricedRows, Measures
  <2>2. \A amount \in Int : share(amount) \in Int
    BY <2>1, Products, RoundedTyped
  <2>3. metal \in Int /\ share(p.cost) \in Int /\ share(p.fine) \in Int
    BY <2>1, <2>2
  <2>4. t = [metal |-> metal, rupees |-> share(p.cost) - metal, fine |-> share(p.fine)]
    BY DEF Terms
  <2> HIDE DEF share, metal, t
  <2> QED
    BY <2>3, <2>4
<1> HIDE DEF t
<1>4. gst \in Int
  <2>1. (t.rupees + t.metal) * GstRate \in Int
    BY <1>3, Products, PurchasesAssumption
  <2> QED
    BY <2>1, RoundedTyped DEF gstOn
<1> HIDE DEF gst
<1>5. row \in ReturnRows
  BY <1>3, <1>4 DEF ReturnRows
<1>6. v \in Vouchers /\ v.rupees = -(t.rupees + gst)
  BY <1>3, <1>4 DEF Vouchers, Voucher, Measures
<1>7. recordMovements(none, out, FALSE) /\ postVoucher(inward[i].supplier, v, 0, t.fine, 0)
  BY DEF Returned, t, gst
<1>8. PICK r \in Unused(back, bound.returns) : back' = [back EXCEPT ![r] = row]
  BY DEF Returned, t, gst
<1>9. r \in Returns /\ back[r].status = "none"
  BY BoundFacts DEF GoodsTypeOK
<1>10. back \in [Returns -> ReturnRows]
  BY DEF GoodsTypeOK, PurchasesTypeOK
<1>11. /\ row.status = "posted" /\ row.inward = i /\ row.stock = m /\ row.rupees = t.rupees /\ row.fine = t.fine
       /\ row.gst = gst
  OBVIOUS
<1> HIDE DEF row, v
<1>12. back' \in [Returns -> ReturnRows] /\ back'[r] = row /\ \A x \in Returns \ {r} : back'[x] = back[x]
  BY <1>5, <1>8, <1>9, <1>10
<1>13. /\ none \in [Rows -> Measures] /\ out \in [Rows -> Measures]
       /\ \A x \in Rows : none[x] = Nothing /\ out[x] = IF x = <<inward[i].line.item, l>> THEN m ELSE Nothing
  BY AtTyped, MeasureFacts
<1> HIDE DEF none, out
<1>14. stock \in [Rows -> Measures]
  BY DEF GoodsTypeOK
<1>15. stock' \in [Rows -> Measures] /\ \A x \in Rows : stock'[x] = Minus(Plus(stock[x], none[x]), out[x])
  BY <1>7, <1>13, <1>14, RecordFacts
<1>16. \A x \in Rows : x # <<inward[i].line.item, l>> => stock'[x] = stock[x]
  BY <1>13, <1>14, <1>15, MeasureFacts
<1>17. (\A x \in Counters : stock[<<"metal", x>>].net >= 0) => \A x \in Counters : stock'[<<"metal", x>>].net >= 0
  <2> SUFFICES ASSUME \A x \in Counters : stock[<<"metal", x>>].net >= 0
               PROVE  \A x \in Counters : stock'[<<"metal", x>>].net >= 0
    OBVIOUS
  <2>1. \A x \in Counters : <<"metal", x>> \in Rows
    BY DEF Counters, Rows
  <2>2. \A x \in Counters : none[<<"metal", x>>] = Nothing
    BY <1>13, <2>1
  <2>3. Nothing.net = 0
    BY DEF Nothing
  <2>4. ASSUME NEW x \in Counters PROVE none[<<"metal", x>>].net >= 0
    <3>1. none[<<"metal", x>>] = Nothing
      BY <2>2
    <3> QED
      BY <2>3, <3>1
  <2> QED
    BY <1>7, <1>13, <1>14, <2>4, MetalStays
<1>18. owing \in [Suppliers -> Owings] /\ account \in [stock : Int, gst : Int, gap : Int, paid : Int]
  BY DEF GoodsTypeOK, PurchasesTypeOK
<1>19. /\ account' \in [stock : Int, gst : Int, gap : Int, paid : Int] /\ owing' \in [Suppliers -> Owings]
       /\ \A x \in Suppliers :
            /\ owing'[x].rupees = IF x = inward[i].supplier THEN owing[x].rupees + v.rupees ELSE owing[x].rupees
            /\ owing'[x].fine = IF x = inward[i].supplier THEN owing[x].fine + 0 - t.fine ELSE owing[x].fine
  BY <1>3, <1>6, <1>7, <1>18, VoucherFacts
<1>20. \A x \in Suppliers : owing[x].rupees \in Int /\ owing[x].fine \in Int
  BY <1>18 DEF Owings
<1>21. \A x \in Suppliers :
         LET mine == x = inward[i].supplier IN
         /\ owing'[x].rupees = owing[x].rupees - (IF mine THEN back'[r].rupees + back'[r].gst ELSE 0)
         /\ owing'[x].fine = owing[x].fine - (IF mine THEN back'[r].fine ELSE 0)
  BY <1>3, <1>4, <1>6, <1>11, <1>12, <1>19, <1>20
<1>22. \A x \in Rows : x[1] # inward[i].line.item => stock'[x] = stock[x]
  BY <1>16
<1> QED
  BY <1>9, <1>11, <1>12, <1>15, <1>16, <1>17, <1>19, <1>21, <1>22

-------------------------------------------------------------------------------
\* What an action that leaves most alone keeps.

LEMMA FloorStays ==
  ASSUME GoodsInv, UNCHANGED <<bound, floorVars>>
  PROVE  bound' \in Bounds /\ FloorTypeOK' /\ FloorTold'
BY DEF GoodsInv, GoodsTypeOK, floorVars, FloorTypeOK, FloorTold

LEMMA PurchasesStay ==
  ASSUME GoodsInv, UNCHANGED purchaseVars, \A p \in Pieces : piece'[p].lot = piece[p].lot
  PROVE  PurchasesTypeOK' /\ ErrandsTold' /\ InwardsTold' /\ PiecesTold' /\ SettlementsTold'
<1>1. /\ order' = order /\ inward' = inward /\ lot' = lot /\ bill' = bill /\ back' = back /\ settled' = settled
      /\ owing' = owing /\ account' = account /\ errand' = errand
  BY DEF purchaseVars
<1>2. PurchasesTypeOK'
  BY <1>1 DEF GoodsInv, GoodsTypeOK, PurchasesTypeOK
<1>3. ErrandsTold' /\ InwardsTold'
  BY <1>1 DEF GoodsInv, ErrandsTold, InwardsTold
<1>4. PiecesTold' /\ SettlementsTold'
  BY <1>1 DEF GoodsInv, PiecesTold, SettlementsTold
<1> QED
  BY <1>2, <1>3, <1>4

\* A clerk goes on with what the others leave alone, or is free again.
LEMMA ErrandsStay ==
  ASSUME ErrandsTold, \A d \in Clerks : errand'[d] \in {errand[d], Free},
         \A i \in Inwards : lot[i].status # "none" => lot'[i].status # "none",
         \A d \in Clerks : Returning(errand'[d]) => inward'[errand[d].doc] = inward[errand[d].doc]
  PROVE  ErrandsTold'
<1>1. Free.pc = "idle" /\ ~Returning(Free)
  BY DEF Free, Returning
<1> SUFFICES ASSUME NEW c \in Clerks PROVE ErrandTold(errand', inward', lot', c)
  BY DEF ErrandsTold
<1>0. ErrandTold(errand, inward, lot, c)
  BY DEF ErrandsTold
<1>2. CASE errand'[c] = Free
  <2>1. errand'[c].pc = "idle" /\ ~Returning(errand'[c])
    BY <1>1, <1>2
  <2> QED
    BY <2>1 DEF ErrandTold
<1>3. CASE errand'[c] = errand[c]
  <2>1. Returning(errand'[c]) =>
          /\ errand[c].doc \in Inwards /\ inward[errand[c].doc].status = "posted"
          /\ inward'[errand[c].doc] = inward[errand[c].doc]
    BY <1>0, <1>3 DEF ErrandTold
  <2>2. ASSUME Returning(errand'[c]), NEW d \in Clerks, Returning(errand'[d]), errand'[d].doc = errand'[c].doc
        PROVE  d = c
    <3>1. errand'[d] = errand[d]
      BY <1>1, <2>2
    <3> QED
      BY <1>0, <1>3, <2>2, <3>1 DEF ErrandTold
  <2>3. errand[c].pc = "cancel" => Returning(errand[c])
    BY DEF Returning
  <2>4. errand[c].pc = "return" => Returning(errand[c])
    BY DEF Returning
  <2> QED
    BY <1>0, <1>3, <2>1, <2>2, <2>3, <2>4 DEF ErrandTold
<1> QED
  BY <1>2, <1>3

\* A clerk takes up a request.
LEMMA ErrandTaken ==
  ASSUME GoodsInv, NEW c \in Clerks, NEW e \in Errands, errand' = [errand EXCEPT ![c] = e],
         UNCHANGED <<shelfVars, order, inward, lot, bill, back, settled, owing, account>>, UNCHANGED floorVars,
         e.pc = "tag" => e.doc \in Inwards /\ lot[e.doc].status # "none" /\ e.measure.gross \in Nat /\ e.measure.net \in Nat,
         Returning(e) => e.doc \in Inwards /\ Posted(e.doc) /\ ~HasInward(e.doc),
         e.pc = "cancel" => (inward[e.doc].bill # 0 => inward[e.doc].direct),
         e.pc = "return" => lot[e.doc].status # "none",
         e.pc = "settle" =>
           e.kind \in {"metal", "rate_fix"} /\ e.supplier \in Suppliers /\ e.place \in Counters /\ e.measure.net \in Nat
  PROVE  GoodsInv'
<1>0. UNCHANGED <<bound, piece, stock>>
  BY DEF shelfVars
<1>1. FloorTypeOK' /\ FloorTold'
  BY <1>0, FloorStays
<1>2. errand \in [Clerks -> Errands]
  BY DEF GoodsInv, GoodsTypeOK, PurchasesTypeOK
<1>3. errand'[c] = e /\ \A d \in Clerks \ {c} : errand'[d] = errand[d]
  BY <1>2
<1>4. PurchasesTypeOK'
  BY <1>2 DEF GoodsInv, GoodsTypeOK, PurchasesTypeOK
<1>5. GoodsTypeOK'
  BY <1>0, <1>1, <1>4 DEF GoodsInv, GoodsTypeOK
<1>6. ErrandsTold'
  <2>1. \A d \in Clerks : Returning(errand[d]) => d = c \/ errand[d].doc # e.doc \/ ~Returning(e)
    BY DEF HasInward, Returning
  <2> SUFFICES ASSUME NEW d \in Clerks PROVE ErrandTold(errand', inward, lot, d)
    BY DEF ErrandsTold
  <2>5. \A b \in Clerks : ErrandTold(errand, inward, lot, b)
    BY DEF GoodsInv, ErrandsTold
  <2>2. ASSUME Returning(errand'[d]), NEW b \in Clerks, Returning(errand'[b]), errand'[b].doc = errand'[d].doc
        PROVE  b = d
    <3>1. CASE d = c /\ b # c
      BY <1>3, <2>1, <2>2, <3>1
    <3>2. CASE d # c /\ b = c
      BY <1>3, <2>1, <2>2, <3>2
    <3>3. CASE d # c /\ b # c
      BY <1>3, <2>2, <2>5, <3>3 DEF ErrandTold
    <3> QED
      BY <3>1, <3>2, <3>3
  <2>3. CASE d = c
    BY <1>3, <2>2, <2>3 DEF ErrandTold, Posted
  <2>4. CASE d # c
    <3>1. errand'[d] = errand[d]
      BY <1>3, <2>4
    <3> QED
      BY <2>2, <2>5, <3>1 DEF ErrandTold
  <2> QED
    BY <2>3, <2>4
<1>7. InwardsTold' /\ PiecesTold' /\ SettlementsTold' /\ MetalTold'
  BY <1>0 DEF GoodsInv, InwardsTold, PiecesTold, SettlementsTold, MetalTold
<1> QED
  BY <1>1, <1>5, <1>6, <1>7 DEF GoodsInv

-------------------------------------------------------------------------------
\* Each action of the purchases keeps the invariant.

LEMMA OrdersKeep ==
  ASSUME GoodsInv, NEW c \in Clerks, createOrder(c) \/ closeOrder(c), UNCHANGED floorVars
  PROVE  GoodsInv'
<1>0. order \in [Orders -> OrderRows] /\ bound \in Bounds
  BY DEF GoodsInv, GoodsTypeOK, PurchasesTypeOK
<1>1. order' \in [Orders -> OrderRows]
  <2>1. CASE createOrder(c)
    <3>1. PICK s \in bound.suppliers, o \in Unused(order, bound.orders) :
            order' = [order EXCEPT ![o].status = "confirmed", ![o].supplier = s]
      BY <2>1 DEF createOrder
    <3>2. s \in Suppliers /\ o \in Orders
      BY <1>0, BoundFacts
    <3> QED
      BY <1>0, <3>1, <3>2 DEF OrderRows
  <2>2. CASE closeOrder(c)
    <3>1. PICK o \in Orders, status \in {"closed", "cancelled"} : order' = [order EXCEPT ![o].status = status]
      BY <2>2 DEF closeOrder
    <3> QED
      BY <1>0, <3>1 DEF OrderRows
  <2> QED
    BY <2>1, <2>2
<1>2. /\ bound' = bound /\ piece' = piece /\ stock' = stock /\ inward' = inward /\ lot' = lot /\ bill' = bill
      /\ back' = back /\ settled' = settled /\ owing' = owing /\ account' = account /\ errand' = errand
  BY DEF createOrder, closeOrder, shelfVars
<1>3. FloorTypeOK' /\ FloorTold'
  BY <1>2, FloorStays
<1>4. GoodsTypeOK'
  BY <1>1, <1>2, <1>3 DEF GoodsInv, GoodsTypeOK, PurchasesTypeOK
<1>5. ErrandsTold' /\ InwardsTold' /\ PiecesTold' /\ SettlementsTold' /\ MetalTold'
  BY <1>2 DEF GoodsInv, ErrandsTold, InwardsTold, PiecesTold, SettlementsTold, MetalTold
<1> QED
  BY <1>3, <1>4, <1>5 DEF GoodsInv

LEMMA InwardVoucherFacts ==
  ASSUME NEW p \in PricedRows, NEW gst \in Int
  PROVE  /\ LET v == [InwardVoucher(p) EXCEPT !.gst = gst, !.rupees = @ + gst] IN
            v \in Vouchers /\ v.rupees = p.rupees + gst
         /\ InwardVoucher(p).metal \in Nat
         /\ LET v == [Mirror(InwardVoucher(p)) EXCEPT !.gst = -gst, !.rupees = @ - gst] IN
            v \in Vouchers /\ v.rupees = -(p.rupees + gst)
<1>1. p.cost \in Nat /\ p.rupees \in Nat /\ p.metal \in Nat
  BY DEF PricedRows
<1> DEFINE metal == IF p.basis = "fine" THEN p.metal ELSE 0
<1>2. metal \in Nat
  BY <1>1
<1>3. InwardVoucher(p) = [stock |-> p.cost, gst |-> 0, gap |-> 0, paid |-> 0, rupees |-> p.rupees, metal |-> metal]
  BY DEF InwardVoucher, Voucher
<1> HIDE DEF metal
<1>4. Mirror(InwardVoucher(p)) = [stock |-> -p.cost, gst |-> -0, gap |-> -0, paid |-> -0,
                                  rupees |-> -p.rupees, metal |-> -metal]
  BY <1>3 DEF Mirror, Voucher
<1>5. InwardVoucher(p) \in Vouchers /\ InwardVoucher(p).rupees = p.rupees /\ InwardVoucher(p).metal = metal
  BY <1>1, <1>2, <1>3 DEF Vouchers
<1>6. Mirror(InwardVoucher(p)) \in Vouchers /\ Mirror(InwardVoucher(p)).rupees = -p.rupees
  BY <1>1, <1>2, <1>4 DEF Vouchers
<1>7. ASSUME NEW v \in Vouchers, NEW tax \in Int, NEW due \in Int
      PROVE  [v EXCEPT !.gst = tax, !.rupees = due] \in Vouchers /\ [v EXCEPT !.gst = tax, !.rupees = due].rupees = due
  BY <1>7 DEF Vouchers
<1> DEFINE v == InwardVoucher(p)
           w == Mirror(InwardVoucher(p))
<1>8. /\ [v EXCEPT !.gst = gst, !.rupees = @ + gst] = [v EXCEPT !.gst = gst, !.rupees = v.rupees + gst]
      /\ [w EXCEPT !.gst = -gst, !.rupees = @ - gst] = [w EXCEPT !.gst = -gst, !.rupees = w.rupees - gst]
  OBVIOUS
<1>9. v.rupees + gst \in Int /\ w.rupees - gst \in Int /\ -gst \in Int /\ w.rupees - gst = -(p.rupees + gst)
  BY <1>1, <1>5, <1>6
<1>10. v \in Vouchers /\ w \in Vouchers
  BY <1>5, <1>6
<1> DEFINE due == v.rupees + gst
           undue == w.rupees - gst
           untax == -gst
<1>11. due \in Int /\ undue \in Int /\ untax \in Int
  BY <1>9
<1> HIDE DEF v, w, due, undue, untax
<1>12. /\ [v EXCEPT !.gst = gst, !.rupees = due] \in Vouchers
       /\ [v EXCEPT !.gst = gst, !.rupees = due].rupees = due
       /\ [w EXCEPT !.gst = untax, !.rupees = undue] \in Vouchers
       /\ [w EXCEPT !.gst = untax, !.rupees = undue].rupees = undue
  BY <1>7, <1>10, <1>11
<1>13. /\ LET x == [v EXCEPT !.gst = gst, !.rupees = @ + gst] IN x \in Vouchers /\ x.rupees = due
       /\ LET x == [w EXCEPT !.gst = -gst, !.rupees = @ - gst] IN x \in Vouchers /\ x.rupees = undue
  BY <1>8, <1>12 DEF due, undue, untax
<1> QED
  BY <1>2, <1>5, <1>9, <1>13 DEF v, w, due, undue

\* What a new inward brings: its own row, its lot, what it adds to order, bill and books.
LEMMA InwardFacts ==
  ASSUME GoodsInv, NEW c \in Clerks, createInward(c)
  PROVE  \E s \in Suppliers, l \in Counters, p \in PricedRows, i \in Inwards, o \in {0} \cup Orders, gst \in Nat,
            billed, direct \in BOOLEAN :
         \E ol \in OrderLines \cup {None} :
         \E rows \in [Inwards -> InwardRows \cup {NoInward}] :
           /\ inward[i].status = "none" /\ (direct => billed) /\ (p.item = "tagged" => p.pieces > 0)
           /\ p.item = "metal" => p.pieces = 0
           /\ o # 0 => order[o].status = "confirmed"
           /\ rows = [inward EXCEPT ![i] = [status |-> "posted", supplier |-> s, place |-> l, line |-> p,
                        direct |-> direct, bill |-> 0, order |-> o, orderLine |-> ol]]
           /\ lot' = [lot EXCEPT ![i] = IF p.item = "tagged"
                        THEN [NoLot EXCEPT !.status = "open", !.expected = Received(p)] ELSE NoLot]
           /\ rollUpOrder(rows, o)
           /\ \/ ~billed /\ inward' = rows /\ bill' = bill /\ gst = 0
              \/ billed /\ \E b \in Bills : bill[b].status = "none" /\ Billed(b, s, {i}, rows, gst)
           /\ recordMovements(At(p.item, l, Received(p)), At(p.item, l, Nothing), FALSE)
           /\ postVoucher(s, [InwardVoucher(p) EXCEPT !.gst = gst, !.rupees = @ + gst], p.fine, 0, InwardVoucher(p).metal)
<1>1. PICK s \in bound.suppliers, l \in bound.places, g \in bound.goods, direct, billed, gstin \in BOOLEAN :
      \E o \in {0} \cup {o \in Orders : order[o].status = "confirmed" /\ order[o].supplier = s},
         ol \in OrderLines \cup {None} :
        LET p == priceInward(g)
            gst == IF billed /\ gstin THEN gstOn(p.cost) ELSE 0
            v == InwardVoucher(p)
        IN
        /\ OneStep(c)
        /\ direct => billed
        /\ ol # None => o # 0
        /\ \E i \in Unused(inward, bound.inwards) :
             LET rows == [inward EXCEPT ![i] = [status |-> "posted", supplier |-> s, place |-> l, line |-> p,
                            direct |-> direct, bill |-> 0, order |-> o, orderLine |-> ol]]
             IN
             /\ lot' = [lot EXCEPT ![i] = IF p.item = "tagged"
                          THEN [NoLot EXCEPT !.status = "open", !.expected = Received(p)] ELSE NoLot]
             /\ rollUpOrder(rows, o)
             /\ \/ ~billed /\ inward' = rows /\ bill' = bill
                \/ billed /\ \E b \in Unused(bill, bound.bills) : Billed(b, s, {i}, rows, gst)
        /\ recordMovements(At(p.item, l, Received(p)), At(p.item, l, Nothing), FALSE)
        /\ postVoucher(s, [v EXCEPT !.gst = gst, !.rupees = @ + gst], p.fine, 0, v.metal)
        /\ UNCHANGED <<bound, piece, back, settled, errand>>
  BY Zenon DEF createInward
<1> DEFINE p == priceInward(g)
           gst == IF billed /\ gstin THEN gstOn(p.cost) ELSE 0
<1>2. PICK o \in {0} \cup {o \in Orders : order[o].status = "confirmed" /\ order[o].supplier = s},
           ol \in OrderLines \cup {None} :
        /\ direct => billed
        /\ \E i \in Unused(inward, bound.inwards) :
             LET rows == [inward EXCEPT ![i] = [status |-> "posted", supplier |-> s, place |-> l, line |-> p,
                            direct |-> direct, bill |-> 0, order |-> o, orderLine |-> ol]]
             IN
             /\ lot' = [lot EXCEPT ![i] = IF p.item = "tagged"
                          THEN [NoLot EXCEPT !.status = "open", !.expected = Received(p)] ELSE NoLot]
             /\ rollUpOrder(rows, o)
             /\ \/ ~billed /\ inward' = rows /\ bill' = bill
                \/ billed /\ \E b \in Unused(bill, bound.bills) : Billed(b, s, {i}, rows, gst)
        /\ recordMovements(At(p.item, l, Received(p)), At(p.item, l, Nothing), FALSE)
        /\ postVoucher(s, [InwardVoucher(p) EXCEPT !.gst = gst, !.rupees = @ + gst], p.fine, 0, InwardVoucher(p).metal)
  BY <1>1, Zenon
<1> HIDE DEF p
<1>3. PICK i \in Unused(inward, bound.inwards) :
             LET rows == [inward EXCEPT ![i] = [status |-> "posted", supplier |-> s, place |-> l, line |-> p,
                            direct |-> direct, bill |-> 0, order |-> o, orderLine |-> ol]]
             IN
             /\ lot' = [lot EXCEPT ![i] = IF p.item = "tagged"
                          THEN [NoLot EXCEPT !.status = "open", !.expected = Received(p)] ELSE NoLot]
             /\ rollUpOrder(rows, o)
             /\ \/ ~billed /\ inward' = rows /\ bill' = bill
                \/ billed /\ \E b \in Unused(bill, bound.bills) : Billed(b, s, {i}, rows, gst)
  BY <1>2
<1> DEFINE row == [status |-> "posted", supplier |-> s, place |-> l, line |-> p,
                   direct |-> direct, bill |-> 0, order |-> o, orderLine |-> ol]
           rows == [inward EXCEPT ![i] = row]
<1>4. bound \in Bounds /\ inward \in [Inwards -> InwardRows \cup {NoInward}]
  BY DEF GoodsInv, GoodsTypeOK, PurchasesTypeOK
<1>5. /\ s \in Suppliers /\ l \in Counters /\ g \in Goods /\ i \in Inwards /\ inward[i].status = "none"
      /\ \A b \in Unused(bill, bound.bills) : b \in Bills /\ bill[b].status = "none"
  BY <1>4, BoundFacts
<1>6. p \in PricedRows /\ (p.item = "tagged" => p.pieces > 0) /\ (p.item = "metal" => p.pieces = 0)
  BY <1>5, PricedTyped DEF p
<1>7. gst \in Nat
  <2>1. p.cost \in Nat /\ GstRate \in Nat
    BY <1>6, PurchasesAssumption DEF PricedRows
  <2>2. gstOn(p.cost) \in Nat
    BY <2>1, Products, RoundedTyped DEF gstOn
  <2> QED
    BY <2>2
<1>8. o \in {0} \cup Orders /\ (o # 0 => order[o].status = "confirmed")
  OBVIOUS
<1>9. row \in InwardRows
  BY <1>5, <1>6, <1>8 DEF InwardRows, Counters
<1>10. rows \in [Inwards -> InwardRows \cup {NoInward}]
  BY <1>4, <1>5, <1>9
<1>11. ~billed => gst = 0
  OBVIOUS
<1>12. \/ ~billed /\ inward' = rows /\ bill' = bill /\ gst = 0
       \/ billed /\ \E b \in Bills : bill[b].status = "none" /\ Billed(b, s, {i}, rows, gst)
  BY <1>3, <1>5, <1>11
<1> HIDE DEF gst
<1> QED
  BY <1>2, <1>3, <1>5, <1>6, <1>7, <1>8, <1>10, <1>12

LEMMA createInwardKeeps ==
  ASSUME GoodsInv, NEW c \in Clerks, createInward(c), UNCHANGED floorVars
  PROVE  GoodsInv'
<1>0. /\ order \in [Orders -> OrderRows] /\ inward \in [Inwards -> InwardRows \cup {NoInward}] /\ lot \in [Inwards -> LotRows]
      /\ bill \in [Bills -> BillRows] /\ stock \in [Rows -> Measures] /\ owing \in [Suppliers -> Owings]
      /\ account \in [stock : Int, gst : Int, gap : Int, paid : Int] /\ MetalTold
  BY DEF GoodsInv, GoodsTypeOK, PurchasesTypeOK
<1>1. PICK s \in Suppliers, l \in Counters, p \in PricedRows, i \in Inwards, o \in {0} \cup Orders, gst \in Nat,
            billed, direct \in BOOLEAN :
         \E ol \in OrderLines \cup {None} :
         \E rows \in [Inwards -> InwardRows \cup {NoInward}] :
           /\ inward[i].status = "none" /\ (direct => billed) /\ (p.item = "tagged" => p.pieces > 0)
           /\ p.item = "metal" => p.pieces = 0
           /\ o # 0 => order[o].status = "confirmed"
           /\ rows = [inward EXCEPT ![i] = [status |-> "posted", supplier |-> s, place |-> l, line |-> p,
                        direct |-> direct, bill |-> 0, order |-> o, orderLine |-> ol]]
           /\ lot' = [lot EXCEPT ![i] = IF p.item = "tagged"
                        THEN [NoLot EXCEPT !.status = "open", !.expected = Received(p)] ELSE NoLot]
           /\ rollUpOrder(rows, o)
           /\ \/ ~billed /\ inward' = rows /\ bill' = bill /\ gst = 0
              \/ billed /\ \E b \in Bills : bill[b].status = "none" /\ Billed(b, s, {i}, rows, gst)
           /\ recordMovements(At(p.item, l, Received(p)), At(p.item, l, Nothing), FALSE)
           /\ postVoucher(s, [InwardVoucher(p) EXCEPT !.gst = gst, !.rupees = @ + gst], p.fine, 0, InwardVoucher(p).metal)
  BY InwardFacts
<1>2. PICK ol \in OrderLines \cup {None} : \E rows \in [Inwards -> InwardRows \cup {NoInward}] :
           /\ rows = [inward EXCEPT ![i] = [status |-> "posted", supplier |-> s, place |-> l, line |-> p,
                        direct |-> direct, bill |-> 0, order |-> o, orderLine |-> ol]]
           /\ rollUpOrder(rows, o)
           /\ \/ ~billed /\ inward' = rows /\ bill' = bill /\ gst = 0
              \/ billed /\ \E b \in Bills : bill[b].status = "none" /\ Billed(b, s, {i}, rows, gst)
  BY <1>1
<1>3. PICK rows \in [Inwards -> InwardRows \cup {NoInward}] :
           /\ rows = [inward EXCEPT ![i] = [status |-> "posted", supplier |-> s, place |-> l, line |-> p,
                        direct |-> direct, bill |-> 0, order |-> o, orderLine |-> ol]]
           /\ rollUpOrder(rows, o)
           /\ \/ ~billed /\ inward' = rows /\ bill' = bill /\ gst = 0
              \/ billed /\ \E b \in Bills : bill[b].status = "none" /\ Billed(b, s, {i}, rows, gst)
  BY <1>2
<1> DEFINE m == Received(p)
           fresh == IF p.item = "tagged" THEN [NoLot EXCEPT !.status = "open", !.expected = m] ELSE NoLot
           v == [InwardVoucher(p) EXCEPT !.gst = gst, !.rupees = @ + gst]
           into == At(p.item, l, m)
           out == At(p.item, l, Nothing)
<1>4. /\ inward[i].status = "none" /\ lot' = [lot EXCEPT ![i] = fresh] /\ recordMovements(into, out, FALSE)
      /\ postVoucher(s, v, p.fine, 0, InwardVoucher(p).metal)
  BY <1>1
<1>5. m \in Measures /\ m.net \in Nat /\ p.fine \in Nat
  BY DEF Received, Measures, PricedRows
<1>6. fresh \in LotRows /\ (fresh.status # "none" => p.item = "tagged")
  BY <1>5, MeasureFacts DEF NoLot, LotRows
<1> HIDE DEF fresh, m
<1>7. v \in Vouchers /\ InwardVoucher(p).metal \in Nat
  <2>1. gst \in Int
    OBVIOUS
  <2> QED
    BY <2>1, InwardVoucherFacts
<1> HIDE DEF v
<1>8. owing' \in [Suppliers -> Owings] /\ account' \in [stock : Int, gst : Int, gap : Int, paid : Int]
  <2>1. 0 \in Int
    OBVIOUS
  <2> DEFINE value == InwardVoucher(p).metal
             fineIn == p.fine
  <2>2. value \in Nat /\ fineIn \in Nat /\ postVoucher(s, v, fineIn, 0, value)
    BY <1>4, <1>5, <1>7
  <2> HIDE DEF value, fineIn
  <2> QED
    BY <1>0, <1>7, <2>1, <2>2, VoucherFacts, Zenon
<1>9. /\ rows[i].status = "posted" /\ rows[i].place = l /\ rows[i].line = p
      /\ \A x \in Inwards \ {i} : rows[x] = inward[x]
  BY <1>0, <1>3
<1>10. order' \in [Orders -> OrderRows]
  BY <1>0, <1>3, RollUpFacts
<1>11. /\ inward' \in [Inwards -> InwardRows \cup {NoInward}] /\ bill' \in [Bills -> BillRows]
       /\ \A x \in Inwards \ {i} : inward'[x] = inward[x]
       /\ inward'[i].status = "posted" /\ inward'[i].place = l /\ inward'[i].line = p
  <2>1. CASE ~billed
    BY <1>0, <1>3, <1>9, <2>1
  <2>2. CASE billed
    <3>1. PICK b \in Bills : Billed(b, s, {i}, rows, gst)
      BY <1>3, <2>2
    <3> DEFINE set == {i}
    <3>2. set \in SUBSET Inwards /\ (\A x \in set : rows[x].status # "none") /\ Billed(b, s, set, rows, gst)
      BY <1>9, <3>1
    <3>5. Inwards \ set = Inwards \ {i}
      OBVIOUS
    <3>6. b \in Bills /\ s \in Suppliers /\ gst \in Nat /\ rows \in [Inwards -> InwardRows \cup {NoInward}]
      OBVIOUS
    <3>7. bill \in [Bills -> BillRows]
      BY <1>0
    <3>8. bill' \in [Bills -> BillRows]
      BY <3>2, <3>6, <3>7, BilledFacts, Zenon
    <3>9. inward' \in [Inwards -> InwardRows \cup {NoInward}]
      BY <3>2, <3>6, <3>7, BilledFacts, SMT
    <3> HIDE DEF set
    <3>3. \A x \in Inwards : Alike(inward'[x], rows[x])
      BY <3>2, <3>6, <3>7, BilledFacts, Zenon
    <3>10. \A x \in Inwards \ set : inward'[x] = rows[x]
      BY <3>2, <3>6, <3>7, BilledFacts, SMT
    <3>4. Alike(inward'[i], rows[i])
      BY <3>3
    <3> QED
      BY <1>9, <3>4, <3>5, <3>8, <3>9, <3>10 DEF Alike
  <2> QED
    BY <2>1, <2>2
<1>12. /\ into \in [Rows -> Measures] /\ out \in [Rows -> Measures]
       /\ \A r \in Rows : into[r] = IF r = <<p.item, l>> THEN m ELSE Nothing
  BY <1>5, AtTyped, MeasureFacts
<1> HIDE DEF into, out
<1>13. stock' \in [Rows -> Measures] /\ MetalTold'
  <2>1. ASSUME NEW x \in Counters PROVE into[<<"metal", x>>].net >= 0
    <3>1. <<"metal", x>> \in Rows
      BY DEF Rows, Counters
    <3>2. into[<<"metal", x>>] = m \/ into[<<"metal", x>>] = Nothing
      BY <1>12, <3>1
    <3>3. Nothing.net = 0
      BY DEF Nothing
    <3> QED
      BY <1>5, <3>2, <3>3
  <2> QED
    BY <1>0, <1>4, <1>12, <2>1, MetalStays DEF MetalTold
<1>14. bound' = bound /\ piece' = piece /\ back' = back /\ settled' = settled /\ errand' = errand
  BY DEF createInward
<1>15. FloorTypeOK' /\ FloorTold'
  BY <1>14, FloorStays
<1>16. lot' \in [Inwards -> LotRows] /\ lot'[i] = fresh /\ \A x \in Inwards \ {i} : lot'[x] = lot[x]
  BY <1>0, <1>4, <1>6
<1>17. GoodsTypeOK'
  BY <1>8, <1>10, <1>11, <1>13, <1>14, <1>15, <1>16 DEF GoodsInv, GoodsTypeOK, PurchasesTypeOK
<1>18. lot[i].status = "none"
  BY <1>4 DEF GoodsInv, InwardsTold
<1>19. ErrandsTold'
  <2>1. \A d \in Clerks : errand'[d] \in {errand[d], Free}
    BY <1>14
  <2>2. \A x \in Inwards : lot[x].status # "none" => lot'[x].status # "none"
    BY <1>16, <1>18
  <2>3. \A d \in Clerks : Returning(errand'[d]) => inward'[errand[d].doc] = inward[errand[d].doc]
    BY <1>4, <1>11, <1>14 DEF GoodsInv, ErrandsTold, ErrandTold
  <2> QED
    BY <2>1, <2>2, <2>3, ErrandsStay DEF GoodsInv
<1>20. InwardsTold'
  BY <1>6, <1>11, <1>16 DEF GoodsInv, InwardsTold
<1>21. PiecesTold' /\ SettlementsTold'
  BY <1>14, <1>16, <1>18 DEF GoodsInv, PiecesTold, SettlementsTold
<1> QED
  BY <1>13, <1>15, <1>17, <1>19, <1>20, <1>21 DEF GoodsInv

LEMMA FreeTyped == Free \in Errands
<1>1. 0 \in {0} \cup Inwards /\ None \in Suppliers \cup {None} /\ None \in Places \cup {None} /\ 0 \in Int
  OBVIOUS
<1> QED
  BY <1>1, MeasureFacts DEF Free, Errands

LEMMA BeginCancelInwardKeeps ==
  ASSUME GoodsInv, NEW c \in Clerks, NEW i \in Inwards, BeginCancelInward(c, i), UNCHANGED floorVars
  PROVE  GoodsInv'
<1> DEFINE e == [Free EXCEPT !.pc = "cancel", !.doc = i]
<1>1. e \in Errands /\ e.pc = "cancel" /\ e.doc = i
  BY FreeTyped DEF Errands
<1>2. errand' = [errand EXCEPT ![c] = e]
  BY DEF BeginCancelInward
<1> HIDE DEF e
<1>3. ~HasInward(i) /\ Posted(i) /\ (inward[i].bill # 0 => inward[i].direct)
  BY DEF BeginCancelInward, Cancellable
<1>4. UNCHANGED <<shelfVars, order, inward, lot, bill, back, settled, owing, account>>
  BY DEF BeginCancelInward
<1> QED
  BY <1>1, <1>2, <1>3, <1>4, ErrandTaken

LEMMA cancelInwardKeeps ==
  ASSUME GoodsInv, NEW c \in Clerks, cancelInward(c), UNCHANGED floorVars
  PROVE  GoodsInv'
<1>0. /\ order \in [Orders -> OrderRows] /\ inward \in [Inwards -> InwardRows \cup {NoInward}] /\ lot \in [Inwards -> LotRows]
      /\ bill \in [Bills -> BillRows] /\ stock \in [Rows -> Measures] /\ owing \in [Suppliers -> Owings]
      /\ account \in [stock : Int, gst : Int, gap : Int, paid : Int] /\ errand \in [Clerks -> Errands] /\ MetalTold
  BY DEF GoodsInv, GoodsTypeOK, PurchasesTypeOK
<1> DEFINE i == errand[c].doc
           w == inward[i]
           withBill == w.direct /\ w.bill # 0
           gst == IF withBill THEN bill[w.bill].gst ELSE 0
           rows == [inward EXCEPT ![i].status = "cancelled"]
           v == [Mirror(InwardVoucher(w.line)) EXCEPT !.gst = -gst, !.rupees = @ - gst]
           into == At(w.line.item, w.place, Nothing)
           out == At(w.line.item, w.place, Received(w.line))
<1>1. /\ errand[c].pc = "cancel" /\ recordMovements(into, out, FALSE)
      /\ postVoucher(w.supplier, v, 0, w.line.fine, 0)
      /\ lot' = [lot EXCEPT ![i].status = IF @ = "none" THEN "none" ELSE "closed"]
      /\ inward' = rows /\ bill' = IF withBill THEN [bill EXCEPT ![w.bill].status = "cancelled"] ELSE bill
      /\ rollUpOrder(rows, w.order) /\ errand' = [errand EXCEPT ![c] = Free]
      /\ UNCHANGED <<bound, piece, back, settled>>
  BY DEF cancelInward, Finish
<1>2. i \in Inwards /\ w.status = "posted"
  BY <1>1 DEF GoodsInv, ErrandsTold, ErrandTold, Returning
<1>3. /\ w \in InwardRows /\ w.line \in PricedRows /\ w.bill \in {0} \cup Bills /\ w.order \in {0} \cup Orders
  BY <1>0, <1>2, InwardRow
<1>4. gst \in Int
  BY <1>0, <1>3 DEF BillRows
<1>5. rows \in [Inwards -> InwardRows \cup {NoInward}] /\ \A x \in Inwards \ {i} : rows[x] = inward[x]
  BY <1>0, <1>2, <1>3 DEF InwardRows
<1>6. rows[i].status = "cancelled" /\ rows[i].line = w.line /\ rows[i].place = w.place
  BY <1>0, <1>2, <1>3 DEF InwardRows
<1>7. bill' \in [Bills -> BillRows]
  <2>1. CASE withBill
    <3>1. w.bill \in Bills
      BY <1>3, <2>1
    <3>2. bill' = [bill EXCEPT ![w.bill].status = "cancelled"]
      BY <1>1, <2>1
    <3> HIDE DEF w
    <3> QED
      BY <1>0, <3>1, <3>2 DEF BillRows
  <2>2. CASE ~withBill
    BY <1>0, <1>1, <2>2
  <2> QED
    BY <2>1, <2>2
<1> HIDE DEF gst
<1>8. v \in Vouchers
  BY <1>3, <1>4, InwardVoucherFacts
<1>9. Received(w.line) \in Measures /\ w.line.fine \in Nat
  BY <1>3 DEF Received, Measures, PricedRows
<1> HIDE DEF v
<1>10. owing' \in [Suppliers -> Owings] /\ account' \in [stock : Int, gst : Int, gap : Int, paid : Int]
  <2>1. 0 \in Nat
    OBVIOUS
  <2> DEFINE fineOut == w.line.fine
             s == w.supplier
  <2>2. fineOut \in Int
    BY <1>9
  <2>3. postVoucher(s, v, 0, fineOut, 0)
    BY <1>1
  <2> HIDE DEF fineOut, s
  <2> QED
    BY <1>0, <1>8, <2>1, <2>2, <2>3, VoucherFacts, Zenon
<1>11. order' \in [Orders -> OrderRows]
  <2> HIDE DEF rows, w
  <2> QED
    BY <1>0, <1>1, <1>3, <1>5, RollUpFacts
<1>12. /\ into \in [Rows -> Measures] /\ out \in [Rows -> Measures]
       /\ \A r \in Rows : into[r] = Nothing
  BY <1>9, AtTyped, MeasureFacts
<1> HIDE DEF into, out
<1>13. stock' \in [Rows -> Measures] /\ MetalTold'
  <2>1. ASSUME NEW x \in Counters PROVE into[<<"metal", x>>].net >= 0
    <3>1. into[<<"metal", x>>] = Nothing
      BY <1>12 DEF Rows, Counters
    <3>2. Nothing.net = 0
      BY DEF Nothing
    <3> QED
      BY <3>1, <3>2
  <2> QED
    BY <1>0, <1>1, <1>12, <2>1, MetalStays DEF MetalTold
<1>14. lot' \in [Inwards -> LotRows] /\ \A x \in Inwards : lot'[x].status # "none" <=> lot[x].status # "none"
  BY <1>0, <1>1, <1>2, ZenonT(30) DEF LotRows
<1>15. FloorTypeOK' /\ FloorTold'
  BY <1>1, FloorStays
<1>16. errand' \in [Clerks -> Errands]
  BY <1>0, <1>1, FreeTyped
<1> HIDE DEF rows
<1>17. GoodsTypeOK'
  BY <1>1, <1>5, <1>7, <1>10, <1>11, <1>13, <1>14, <1>15, <1>16 DEF GoodsInv, GoodsTypeOK, PurchasesTypeOK
<1>18. ErrandsTold'
  <2>1. \A d \in Clerks : errand'[d] = IF d = c THEN Free ELSE errand[d]
    BY <1>0, <1>1
  <2>2. ASSUME NEW d \in Clerks, Returning(errand'[d]) PROVE inward'[errand[d].doc] = inward[errand[d].doc]
    <3>1. d # c /\ Returning(errand[d])
      BY <2>1, <2>2 DEF Returning, Free
    <3>2. Returning(errand[c])
      BY <1>1 DEF Returning
    <3>3. errand[d].doc \in Inwards /\ errand[d].doc # i
      BY <3>1, <3>2 DEF GoodsInv, ErrandsTold, ErrandTold
    <3> QED
      BY <1>1, <1>5, <3>3
  <2> QED
    BY <1>14, <2>1, <2>2, ErrandsStay DEF GoodsInv
<1>19. InwardsTold'
  BY <1>1, <1>2, <1>5, <1>6, <1>14, SMTT(30) DEF GoodsInv, InwardsTold
<1>20. PiecesTold' /\ SettlementsTold'
  BY <1>1, <1>14 DEF GoodsInv, PiecesTold, SettlementsTold
<1> QED
  BY <1>13, <1>15, <1>17, <1>18, <1>19, <1>20 DEF GoodsInv

LEMMA createBillFacts ==
  ASSUME GoodsInv, NEW c \in Clerks, createBill(c)
  PROVE  \E s \in Suppliers, set \in (SUBSET Inwards) \ {{}}, b \in Bills, gst \in Nat :
           /\ \A i \in set : Posted(i) /\ ~HasInward(i) /\ inward[i].supplier = s /\ inward[i].bill = 0
           /\ bill[b].status = "none" /\ Billed(b, s, set, inward, gst)
           /\ postVoucher(s, Voucher(0, gst, 0, 0, gst, 0), 0, 0, 0)
           /\ UNCHANGED <<shelfVars, order, lot, back, settled, errand>>
<1>0. /\ inward \in [Inwards -> InwardRows \cup {NoInward}] /\ bill \in [Bills -> BillRows] /\ owing \in [Suppliers -> Owings]
      /\ account \in [stock : Int, gst : Int, gap : Int, paid : Int] /\ bound \in Bounds
  BY DEF GoodsInv, GoodsTypeOK, PurchasesTypeOK
<1>1. PICK s \in bound.suppliers, set \in (SUBSET Inwards) \ {{}}, gstin \in BOOLEAN :
      \E b \in Unused(bill, bound.bills) :
        LET gst == IF gstin THEN Rounded(SumFunction([i \in set |-> inward[i].line.cost * GstRate]), 100) ELSE 0 IN
        /\ OneStep(c)
        /\ \A i \in set : Posted(i) /\ ~HasInward(i) /\ inward[i].supplier = s /\ inward[i].bill = 0
        /\ Billed(b, s, set, inward, gst)
        /\ postVoucher(s, Voucher(0, gst, 0, 0, gst, 0), 0, 0, 0)
        /\ UNCHANGED <<shelfVars, order, lot, back, settled, errand>>
  BY Zenon DEF createBill
<1> DEFINE gst == IF gstin THEN Rounded(SumFunction([i \in set |-> inward[i].line.cost * GstRate]), 100) ELSE 0
           v == Voucher(0, gst, 0, 0, gst, 0)
<1>2. PICK b \in Unused(bill, bound.bills) :
        /\ \A i \in set : Posted(i) /\ ~HasInward(i) /\ inward[i].supplier = s /\ inward[i].bill = 0
        /\ Billed(b, s, set, inward, gst) /\ postVoucher(s, v, 0, 0, 0)
        /\ UNCHANGED <<shelfVars, order, lot, back, settled, errand>>
  BY <1>1
<1>3. s \in Suppliers /\ b \in Bills /\ set \in SUBSET Inwards
  BY <1>0, BoundFacts
<1>4. gst \in Nat
  <2> DEFINE f == [i \in set |-> inward[i].line.cost * GstRate]
  <2>1. \A i \in set : f[i] \in Nat
    <3>1. \A i \in set : inward[i] \in InwardRows
      BY <1>0, <1>2, <1>3, InwardRow DEF Posted
    <3>2. \A i \in set : inward[i].line.cost \in Nat
      BY <3>1 DEF InwardRows, PricedRows
    <3> QED
      BY <3>2, Products, PurchasesAssumption
  <2>2. IsFiniteSet(set) /\ DOMAIN f = set
    BY <1>3, GoodsFinite, FS_Subset
  <2> HIDE DEF f
  <2>3. SumFunction(f) \in Nat
    BY <2>1, <2>2, SumNat DEF SumFunction
  <2>4. Rounded(SumFunction(f), 100) \in Nat
    BY <2>3, RoundedTyped
  <2> QED
    BY <2>4 DEF f
<1> HIDE DEF gst
<1>5. bill[b].status = "none"
  BY <1>0, BoundFacts
<1> QED
  BY <1>2, <1>3, <1>4, <1>5

LEMMA createBillKeeps ==
  ASSUME GoodsInv, NEW c \in Clerks, createBill(c), UNCHANGED floorVars
  PROVE  GoodsInv'
<1>0. /\ inward \in [Inwards -> InwardRows \cup {NoInward}] /\ bill \in [Bills -> BillRows] /\ owing \in [Suppliers -> Owings]
      /\ account \in [stock : Int, gst : Int, gap : Int, paid : Int]
  BY DEF GoodsInv, GoodsTypeOK, PurchasesTypeOK
<1>1. PICK s \in Suppliers, set \in (SUBSET Inwards) \ {{}}, b \in Bills, gst \in Nat :
        /\ \A i \in set : Posted(i) /\ ~HasInward(i) /\ inward[i].supplier = s /\ inward[i].bill = 0
        /\ bill[b].status = "none" /\ Billed(b, s, set, inward, gst)
        /\ postVoucher(s, Voucher(0, gst, 0, 0, gst, 0), 0, 0, 0)
        /\ UNCHANGED <<shelfVars, order, lot, back, settled, errand>>
  BY createBillFacts
<1> DEFINE v == Voucher(0, gst, 0, 0, gst, 0)
<1>2. /\ \A i \in set : Posted(i) /\ ~HasInward(i) /\ inward[i].supplier = s /\ inward[i].bill = 0
      /\ Billed(b, s, set, inward, gst) /\ postVoucher(s, v, 0, 0, 0)
      /\ UNCHANGED <<shelfVars, order, lot, back, settled, errand>>
  BY <1>1
<1>3. set \in SUBSET Inwards
  OBVIOUS
<1>4. gst \in Nat
  OBVIOUS
<1>5. v \in Vouchers /\ 0 \in Nat /\ 0 \in Int
  BY <1>4 DEF Voucher, Vouchers
<1> HIDE DEF v
<1>6. owing' \in [Suppliers -> Owings] /\ account' \in [stock : Int, gst : Int, gap : Int, paid : Int]
  BY <1>0, <1>2, <1>5, VoucherFacts, Zenon
<1>7. \A i \in set : inward[i].status # "none"
  BY <1>2 DEF Posted
<1>8. /\ bill' \in [Bills -> BillRows] /\ inward' \in [Inwards -> InwardRows \cup {NoInward}]
      /\ \A i \in Inwards : Alike(inward'[i], inward[i])
  BY <1>0, <1>2, <1>3, <1>4, <1>7, BilledFacts, Zenon
<1>9. \A i \in Inwards \ set : inward'[i] = inward[i]
  <2>1. Billed(b, s, set, inward, gst)
    BY <1>2
  <2> QED
    BY <2>1 DEF Billed
<1>10. /\ bound' = bound /\ piece' = piece /\ stock' = stock /\ order' = order /\ lot' = lot /\ back' = back
       /\ settled' = settled /\ errand' = errand
  BY <1>2 DEF shelfVars
<1>11. FloorTypeOK' /\ FloorTold'
  BY <1>10, FloorStays
<1>12. GoodsTypeOK'
  BY <1>6, <1>8, <1>10, <1>11 DEF GoodsInv, GoodsTypeOK, PurchasesTypeOK
<1>13. ErrandsTold'
  <2>1. \A d \in Clerks : Returning(errand[d]) => errand[d].doc \in Inwards /\ HasInward(errand[d].doc)
    BY DEF Returning, HasInward, GoodsInv, ErrandsTold, ErrandTold
  <2>2. \A d \in Clerks : Returning(errand'[d]) => inward'[errand[d].doc] = inward[errand[d].doc]
    BY <1>2, <1>9, <1>10, <2>1
  <2> QED
    BY <1>10, <2>2, ErrandsStay DEF GoodsInv
<1>14. InwardsTold' /\ PiecesTold' /\ SettlementsTold' /\ MetalTold'
  BY <1>8, <1>10 DEF GoodsInv, InwardsTold, PiecesTold, SettlementsTold, MetalTold, Alike
<1> QED
  BY <1>11, <1>12, <1>13, <1>14 DEF GoodsInv

LEMMA createBillAlike ==
  ASSUME GoodsInv, NEW c \in Clerks, createBill(c)
  PROVE  order' = order /\ \A i \in Inwards : Alike(inward'[i], inward[i])
<1>0. inward \in [Inwards -> InwardRows \cup {NoInward}] /\ bill \in [Bills -> BillRows]
  BY DEF GoodsInv, GoodsTypeOK, PurchasesTypeOK
<1>1. PICK s \in Suppliers, set \in (SUBSET Inwards) \ {{}}, b \in Bills, gst \in Nat :
        /\ \A i \in set : Posted(i) /\ ~HasInward(i) /\ inward[i].supplier = s /\ inward[i].bill = 0
        /\ bill[b].status = "none" /\ Billed(b, s, set, inward, gst)
        /\ postVoucher(s, Voucher(0, gst, 0, 0, gst, 0), 0, 0, 0)
        /\ UNCHANGED <<shelfVars, order, lot, back, settled, errand>>
  BY createBillFacts
<1>2. set \in SUBSET Inwards /\ (\A i \in set : inward[i].status # "none") /\ Billed(b, s, set, inward, gst)
  BY <1>1 DEF Posted
<1>3. \A i \in Inwards : Alike(inward'[i], inward[i])
  BY <1>0, <1>2, BilledFacts, Zenon
<1>4. order' = order
  BY <1>1
<1> QED
  BY <1>3, <1>4

LEMMA BillVoucherFacts ==
  ASSUME bill \in [Bills -> BillRows], NEW b \in Bills
  PROVE  Mirror(BillVoucher(b)) \in Vouchers /\ Mirror(BillVoucher(b)).rupees = -bill[b].gst
<1>1. bill[b].gst \in Nat
  BY DEF BillRows
<1> DEFINE gst == bill[b].gst
<1>2. BillVoucher(b) = Voucher(0, gst, 0, 0, gst, 0)
  BY DEF BillVoucher
<1> HIDE DEF gst
<1>3. Mirror(BillVoucher(b)) = Voucher(-0, -gst, -0, -0, -gst, -0)
  BY <1>2 DEF Mirror, Voucher
<1>4. gst \in Int
  BY <1>1 DEF gst
<1>5. Mirror(BillVoucher(b)) \in Vouchers /\ Mirror(BillVoucher(b)).rupees = -gst
  BY <1>3, <1>4 DEF Voucher, Vouchers
<1> QED
  BY <1>5 DEF gst

LEMMA cancelBillKeeps ==
  ASSUME GoodsInv, NEW c \in Clerks, NEW b \in Bills, cancelBill(c, b), UNCHANGED floorVars
  PROVE  GoodsInv'
<1>0. /\ inward \in [Inwards -> InwardRows \cup {NoInward}] /\ bill \in [Bills -> BillRows] /\ owing \in [Suppliers -> Owings]
      /\ account \in [stock : Int, gst : Int, gap : Int, paid : Int]
  BY DEF GoodsInv, GoodsTypeOK, PurchasesTypeOK
<1> DEFINE off(i) == [inward[i] EXCEPT !.bill = 0]
           v == Mirror(BillVoucher(b))
<1>1. /\ \A i \in Inwards : Posted(i) /\ inward[i].bill = b => ~HasInward(i)
      /\ bill' = [bill EXCEPT ![b].status = "cancelled"]
      /\ inward' = [i \in Inwards |-> IF Posted(i) /\ inward[i].bill = b THEN off(i) ELSE inward[i]]
      /\ postVoucher(bill[b].supplier, v, 0, 0, 0)
      /\ UNCHANGED <<shelfVars, order, lot, back, settled, errand>>
  BY DEF cancelBill
<1>2. v \in Vouchers /\ 0 \in Nat /\ 0 \in Int
  BY <1>0, BillVoucherFacts
<1> HIDE DEF v
<1>3. owing' \in [Suppliers -> Owings] /\ account' \in [stock : Int, gst : Int, gap : Int, paid : Int]
  BY <1>0, <1>1, <1>2, VoucherFacts, Zenon
<1>4. bill' \in [Bills -> BillRows]
  BY <1>0, <1>1 DEF BillRows
<1>5. ASSUME NEW i \in Inwards, Posted(i) PROVE off(i) \in InwardRows /\ Alike(off(i), inward[i])
  <2>1. inward[i] \in InwardRows
    BY <1>0, <1>5, InwardRow DEF Posted
  <2> QED
    BY <2>1 DEF InwardRows, Alike
<1> HIDE DEF off
<1>6. \A i \in Inwards : Alike(inward[i], inward[i])
  BY DEF Alike
<1>7. inward' \in [Inwards -> InwardRows \cup {NoInward}] /\ \A i \in Inwards : Alike(inward'[i], inward[i])
  BY <1>0, <1>1, <1>5, <1>6
<1>8. /\ bound' = bound /\ piece' = piece /\ stock' = stock /\ order' = order /\ lot' = lot /\ back' = back
      /\ settled' = settled /\ errand' = errand
  BY <1>1 DEF shelfVars
<1>9. FloorTypeOK' /\ FloorTold'
  BY <1>8, FloorStays
<1>10. GoodsTypeOK'
  BY <1>3, <1>4, <1>7, <1>8, <1>9 DEF GoodsInv, GoodsTypeOK, PurchasesTypeOK
<1>11. ErrandsTold'
  <2>1. \A d \in Clerks : Returning(errand[d]) => errand[d].doc \in Inwards /\ HasInward(errand[d].doc)
    BY DEF Returning, HasInward, GoodsInv, ErrandsTold, ErrandTold
  <2>2. \A d \in Clerks : Returning(errand'[d]) => inward'[errand[d].doc] = inward[errand[d].doc]
    BY <1>1, <1>8, <2>1
  <2> QED
    BY <1>8, <2>2, ErrandsStay DEF GoodsInv
<1>12. InwardsTold' /\ PiecesTold' /\ SettlementsTold' /\ MetalTold'
  BY <1>7, <1>8 DEF GoodsInv, InwardsTold, PiecesTold, SettlementsTold, MetalTold, Alike
<1> QED
  BY <1>9, <1>10, <1>11, <1>12 DEF GoodsInv

\* One movement in and one out at the same place.
LEMMA MovementKeeps ==
  ASSUME stock \in [Rows -> Measures], MetalTold, NEW item, NEW l, NEW a \in Measures, NEW b \in Measures,
         item = "tagged" \/ a.net >= 0, recordMovements(At(item, l, a), At(item, l, b), FALSE)
  PROVE  stock' \in [Rows -> Measures] /\ MetalTold'
<1> DEFINE into == At(item, l, a)
           out == At(item, l, b)
<1>1. /\ into \in [Rows -> Measures] /\ out \in [Rows -> Measures] /\ recordMovements(into, out, FALSE)
      /\ \A r \in Rows : into[r] = IF r = <<item, l>> THEN a ELSE Nothing
  BY AtTyped
<1> HIDE DEF into, out
<1>2. ASSUME NEW x \in Counters PROVE into[<<"metal", x>>].net >= 0
  <2>1. <<"metal", x>> \in Rows
    BY DEF Rows, Counters
  <2>2. into[<<"metal", x>>] = Nothing \/ (into[<<"metal", x>>] = a /\ item = "metal")
    BY <1>1, <2>1
  <2>3. Nothing.net = 0
    BY DEF Nothing
  <2> QED
    BY <2>2, <2>3
<1> QED
  BY <1>1, <1>2, MetalStays DEF MetalTold

LEMMA BeginTagKeeps ==
  ASSUME GoodsInv, NEW c \in Clerks, NEW i \in Inwards, BeginTag(c, i), UNCHANGED floorVars
  PROVE  GoodsInv'
<1>1. PICK w \in Tags :
        LET left == Minus(lot[i].expected, lot[i].tagged) IN
        /\ OneStep(c)
        /\ lot[i].status = "open"
        /\ left.pieces > 0 /\ w.gross <= left.gross
        /\ \E p \in Pieces : piece[p].status = "none"
        /\ errand' = [errand EXCEPT ![c] = [Free EXCEPT !.pc = "tag", !.doc = i,
             !.measure = [pieces |-> 1, gross |-> w.gross, net |-> w.net, cost |-> pieceCost(i, w.gross)]]]
        /\ UNCHANGED <<shelfVars, order, inward, lot, bill, back, settled, owing, account>>
  BY Zenon DEF BeginTag
<1> DEFINE left == Minus(lot[i].expected, lot[i].tagged)
           m == [pieces |-> 1, gross |-> w.gross, net |-> w.net, cost |-> pieceCost(i, w.gross)]
           e == [Free EXCEPT !.pc = "tag", !.doc = i, !.measure = m]
<1>2. lot[i] \in LotRows /\ w.gross \in Nat /\ w.net \in Nat
  BY PurchasesAssumption DEF GoodsInv, GoodsTypeOK, PurchasesTypeOK
<1>3. left \in Measures
  BY <1>2, MeasureFacts DEF LotRows
<1> HIDE DEF left
<1>4. left.gross \in Nat /\ left.cost \in Int
  <2>1. w.gross <= left.gross
    BY <1>1 DEF left
  <2> QED
    BY <1>2, <1>3, <2>1 DEF Measures
<1>5. pieceCost(i, w.gross) \in Int
  <2>1. left.cost * w.gross \in Int
    BY <1>2, <1>4, Products
  <2>2. Rounded(left.cost * w.gross, left.gross) \in Int
    BY <1>4, <2>1, RoundedTyped
  <2>3. pieceCost(i, w.gross) = IF left.pieces = 1 THEN left.cost ELSE Rounded(left.cost * w.gross, left.gross)
    BY DEF pieceCost, left
  <2> QED
    BY <1>4, <2>2, <2>3
<1>6. m \in Measures /\ m.gross = w.gross /\ m.net = w.net
  BY <1>2, <1>5 DEF Measures
<1>7. errand' = [errand EXCEPT ![c] = e]
  BY <1>1
<1> HIDE DEF m
<1>8. e \in Errands /\ e.pc = "tag" /\ e.doc = i /\ e.measure = m
  BY <1>6, FreeTyped DEF Errands
<1> HIDE DEF e
<1>9. ~Returning(e) /\ lot[i].status # "none"
  BY <1>1, <1>8 DEF Returning
<1>10. UNCHANGED <<shelfVars, order, inward, lot, bill, back, settled, owing, account>>
  BY <1>1
<1> QED
  BY <1>2, <1>6, <1>7, <1>8, <1>9, <1>10, ErrandTaken

\* An errand done: its clerk is free again.
LEMMA FinishFacts ==
  ASSUME GoodsInv, NEW c \in Clerks, Finish(c), \A i \in Inwards : lot[i].status # "none" => lot'[i].status # "none",
         inward' = inward
  PROVE  errand' \in [Clerks -> Errands] /\ ErrandsTold'
<1>1. errand \in [Clerks -> Errands] /\ ErrandsTold
  BY DEF GoodsInv, GoodsTypeOK, PurchasesTypeOK
<1>2. errand' = [errand EXCEPT ![c] = Free]
  BY DEF Finish
<1>3. errand' \in [Clerks -> Errands] /\ \A d \in Clerks : errand'[d] \in {errand[d], Free}
  BY <1>1, <1>2, FreeTyped
<1> QED
  BY <1>1, <1>3, ErrandsStay

LEMMA tagPiecesKeeps ==
  ASSUME GoodsInv, NEW c \in Clerks, tagPieces(c), UNCHANGED floorVars
  PROVE  GoodsInv'
<1>0. /\ inward \in [Inwards -> InwardRows \cup {NoInward}] /\ lot \in [Inwards -> LotRows] /\ piece \in [Pieces -> PieceRows]
      /\ stock \in [Rows -> Measures] /\ errand \in [Clerks -> Errands] /\ MetalTold
  BY DEF GoodsInv, GoodsTypeOK, PurchasesTypeOK
<1> DEFINE i == errand[c].doc
           m == errand[c].measure
           l == inward[i].place
           tagged == Plus(lot[i].tagged, m)
           status == IF tagged = lot[i].expected THEN "closed" ELSE lot[i].status
           row == [NoPiece EXCEPT !.status = "in_stock", !.place = l, !.lot = i,
                     !.gross = m.gross, !.net = m.net, !.cost = m.cost]
<1>1. PICK p \in Pieces : piece[p].status = "none" /\ piece' = [piece EXCEPT ![p] = row]
  BY DEF tagPieces
<1>2. /\ errand[c].pc = "tag" /\ recordMovements(At("tagged", l, m), At("tagged", l, m), FALSE)
      /\ lot' = [lot EXCEPT ![i].tagged = tagged, ![i].status = status]
      /\ Finish(c) /\ UNCHANGED <<bound, order, inward, bill, back, settled, owing, account>>
  BY DEF tagPieces
<1>3. i \in Inwards /\ lot[i].status # "none" /\ m.gross \in Nat /\ m.net \in Nat
  BY <1>2 DEF GoodsInv, ErrandsTold, ErrandTold
<1>4. m \in Measures /\ m.cost \in Int /\ lot[i] \in LotRows
  BY <1>0, <1>3 DEF Errands, Measures
<1>5. l \in Places
  BY <1>3 DEF GoodsInv, InwardsTold, Counters
<1>6. i \in Nat
  BY <1>3, GoodsFinite
<1>7. tagged \in Measures /\ status \in {"open", "closed"}
  BY <1>3, <1>4, MeasureFacts DEF LotRows
<1> HIDE DEF l, tagged, status, m, i
<1>8. row \in PieceRows /\ row.lot = i
  <2>1. NoPiece \in PieceRows
    BY DEF NoPiece, PieceRows
  <2> DEFINE g == m.gross
             n == m.net
             k == m.cost
  <2>2. g \in Nat /\ n \in Nat /\ k \in Int
    BY <1>3, <1>4
  <2>3. row = [NoPiece EXCEPT !.status = "in_stock", !.place = l, !.lot = i, !.gross = g, !.net = n, !.cost = k]
    OBVIOUS
  <2> HIDE DEF g, n, k, row
  <2> QED
    BY <1>5, <1>6, <2>1, <2>2, <2>3 DEF PieceRows
<1> HIDE DEF row
<1>9. piece' \in [Pieces -> PieceRows] /\ \A q \in Pieces : piece'[q].lot \in {piece[q].lot, i}
  BY <1>0, <1>1, <1>8
<1>10. lot' \in [Inwards -> LotRows] /\ \A x \in Inwards : lot[x].status # "none" <=> lot'[x].status # "none"
  BY <1>0, <1>2, <1>3, <1>7 DEF LotRows
<1>11. stock' \in [Rows -> Measures] /\ MetalTold'
  BY <1>0, <1>2, <1>4, MovementKeeps
<1>12. errand' \in [Clerks -> Errands] /\ ErrandsTold'
  BY <1>2, <1>10, FinishFacts
<1>13. FloorTypeOK' /\ FloorTold'
  BY <1>2, FloorStays
<1>14. GoodsTypeOK'
  BY <1>2, <1>9, <1>10, <1>11, <1>12, <1>13 DEF GoodsInv, GoodsTypeOK, PurchasesTypeOK
<1>15. InwardsTold' /\ SettlementsTold'
  BY <1>2, <1>10 DEF GoodsInv, InwardsTold, SettlementsTold
<1>16. PiecesTold'
  BY <1>3, <1>9, <1>10 DEF GoodsInv, PiecesTold
<1> QED
  BY <1>11, <1>12, <1>13, <1>14, <1>15, <1>16 DEF GoodsInv

LEMMA closeLotKeeps ==
  ASSUME GoodsInv, NEW c \in Clerks, NEW i \in Inwards, closeLot(c, i), UNCHANGED floorVars
  PROVE  GoodsInv'
<1>0. lot \in [Inwards -> LotRows] /\ stock \in [Rows -> Measures] /\ MetalTold
  BY DEF GoodsInv, GoodsTypeOK, PurchasesTypeOK
<1> DEFINE left == Minus(lot[i].expected, lot[i].tagged)
           gone == IF leftOver(left) THEN left ELSE Nothing
           l == inward[i].place
<1>1. /\ lot[i].status = "open" /\ recordMovements(At("tagged", l, Nothing), At("tagged", l, gone), FALSE)
      /\ lot' = [lot EXCEPT ![i].status = "closed", ![i].difference = gone]
      /\ UNCHANGED <<bound, piece, order, inward, bill, back, settled, owing, account, errand>>
  BY DEF closeLot
<1>2. gone \in Measures
  BY <1>0, MeasureFacts DEF LotRows
<1> HIDE DEF gone, l
<1>3. lot' \in [Inwards -> LotRows] /\ \A x \in Inwards : lot[x].status # "none" <=> lot'[x].status # "none"
  BY <1>0, <1>1, <1>2 DEF LotRows
<1>4. stock' \in [Rows -> Measures] /\ MetalTold'
  BY <1>0, <1>1, <1>2, MeasureFacts, MovementKeeps
<1>5. FloorTypeOK' /\ FloorTold'
  BY <1>1, FloorStays
<1>6. GoodsTypeOK'
  BY <1>1, <1>3, <1>4, <1>5 DEF GoodsInv, GoodsTypeOK, PurchasesTypeOK
<1>7. ErrandsTold'
  BY <1>1, <1>3, ErrandsStay DEF GoodsInv
<1>8. InwardsTold' /\ PiecesTold' /\ SettlementsTold'
  BY <1>1, <1>3 DEF GoodsInv, InwardsTold, PiecesTold, SettlementsTold
<1> QED
  BY <1>4, <1>5, <1>6, <1>7, <1>8 DEF GoodsInv

\* What a return leaves alone.
LEMMA ReturnKeeps ==
  ASSUME GoodsInv, NEW i \in Inwards, Posted(i), NEW l, NEW m \in Measures, Returned(i, l, m), UNCHANGED floorVars,
         UNCHANGED <<bound, order, inward, bill, settled>>, piece' \in [Pieces -> PieceRows],
         \A p \in Pieces : piece'[p].lot = piece[p].lot, lot' \in [Inwards -> LotRows],
         \A x \in Inwards : lot[x].status # "none" <=> lot'[x].status # "none",
         errand' \in [Clerks -> Errands], ErrandsTold'
  PROVE  GoodsInv'
<1>1. /\ stock' \in [Rows -> Measures] /\ back' \in [Returns -> ReturnRows]
      /\ account' \in [stock : Int, gst : Int, gap : Int, paid : Int] /\ owing' \in [Suppliers -> Owings]
      /\ (\A x \in Counters : stock[<<"metal", x>>].net >= 0) => \A x \in Counters : stock'[<<"metal", x>>].net >= 0
  <2>1. GoodsTypeOK
    BY DEF GoodsInv
  <2> QED
    BY <2>1, ReturnedFacts
<1>2. MetalTold'
  BY <1>1 DEF GoodsInv, MetalTold
<1>3. FloorTypeOK' /\ FloorTold'
  BY FloorStays
<1>4. GoodsTypeOK'
  BY <1>1, <1>3 DEF GoodsInv, GoodsTypeOK, PurchasesTypeOK
<1>5. InwardsTold' /\ PiecesTold' /\ SettlementsTold'
  BY DEF GoodsInv, InwardsTold, PiecesTold, SettlementsTold
<1> QED
  BY <1>2, <1>3, <1>4, <1>5 DEF GoodsInv

LEMMA returnTaggedKeeps ==
  ASSUME GoodsInv, NEW c \in Clerks, NEW p \in Pieces, returnTagged(c, p), UNCHANGED floorVars
  PROVE  GoodsInv'
<1> DEFINE i == piece[p].lot
           l == piece[p].place
           m == Weighed(p)
<1>0. piece \in [Pieces -> PieceRows] /\ lot \in [Inwards -> LotRows] /\ errand \in [Clerks -> Errands] /\ ErrandsTold
  BY DEF GoodsInv, GoodsTypeOK, PurchasesTypeOK
<1>1. /\ i # 0 /\ Posted(i) /\ Returned(i, l, m) /\ piece' = [piece EXCEPT ![p].status = "written_off"]
      /\ UNCHANGED <<bound, order, inward, lot, bill, settled, errand>>
  BY DEF returnTagged
<1>2. i \in Inwards
  BY <1>1 DEF GoodsInv, PiecesTold
<1>3. m \in Measures
  BY <1>0 DEF Weighed, Measures, PieceRows
<1>4. piece' \in [Pieces -> PieceRows] /\ \A q \in Pieces : piece'[q].lot = piece[q].lot
  BY <1>0, <1>1 DEF PieceRows
<1>5. lot' \in [Inwards -> LotRows] /\ errand' \in [Clerks -> Errands]
  BY <1>0, <1>1
<1>6. ErrandsTold'
  BY <1>0, <1>1, ErrandsStay
<1> HIDE DEF i, l, m
<1> QED
  BY <1>1, <1>2, <1>3, <1>4, <1>5, <1>6, ReturnKeeps

LEMMA returnMetalKeeps ==
  ASSUME GoodsInv, NEW c \in Clerks, NEW i \in Inwards, returnMetal(c, i), UNCHANGED floorVars
  PROVE  GoodsInv'
<1>0. /\ piece \in [Pieces -> PieceRows] /\ lot \in [Inwards -> LotRows] /\ errand \in [Clerks -> Errands] /\ ErrandsTold
      /\ inward \in [Inwards -> InwardRows \cup {NoInward}]
  BY DEF GoodsInv, GoodsTypeOK, PurchasesTypeOK
<1>1. PICK part \in Parts :
        /\ Posted(i)
        /\ Returned(i, inward[i].place,
             [pieces |-> 0, gross |-> Rounded(inward[i].line.gross * part.gross, inward[i].line.net),
              net |-> part.gross, cost |-> Rounded(inward[i].line.cost * part.gross, inward[i].line.net)])
        /\ UNCHANGED <<bound, piece, order, inward, lot, bill, settled, errand>>
  BY DEF returnMetal
<1> DEFINE l == inward[i].place
           m == [pieces |-> 0, gross |-> Rounded(inward[i].line.gross * part.gross, inward[i].line.net),
                 net |-> part.gross, cost |-> Rounded(inward[i].line.cost * part.gross, inward[i].line.net)]
<1>2. Returned(i, l, m)
  BY <1>1
<1>3. m \in Measures
  <2>1. inward[i].line \in PricedRows /\ part.gross \in Nat
    BY <1>0, <1>1, InwardRow, PurchasesAssumption DEF Posted
  <2>2. inward[i].line.gross * part.gross \in Int /\ inward[i].line.cost * part.gross \in Int /\ inward[i].line.net \in Nat
    BY <2>1, Products DEF PricedRows
  <2>3. /\ Rounded(inward[i].line.gross * part.gross, inward[i].line.net) \in Int
        /\ Rounded(inward[i].line.cost * part.gross, inward[i].line.net) \in Int
    BY <2>2, RoundedTyped
  <2> QED
    BY <2>1, <2>3 DEF Measures
<1> HIDE DEF l, m
<1>4. piece' \in [Pieces -> PieceRows] /\ \A q \in Pieces : piece'[q].lot = piece[q].lot
  BY <1>0, <1>1
<1>5. lot' \in [Inwards -> LotRows] /\ errand' \in [Clerks -> Errands]
  BY <1>0, <1>1
<1>6. ErrandsTold'
  BY <1>0, <1>1, ErrandsStay
<1>7. lot' = lot
  BY <1>1
<1> QED
  BY <1>1, <1>2, <1>3, <1>4, <1>5, <1>6, <1>7, ReturnKeeps

LEMMA BeginReturnUntaggedKeeps ==
  ASSUME GoodsInv, NEW c \in Clerks, NEW i \in Inwards, BeginReturnUntagged(c, i), UNCHANGED floorVars
  PROVE  GoodsInv'
<1> DEFINE left == Minus(lot[i].expected, lot[i].tagged)
<1>1. PICK part \in Parts :
        LET share(amount) == Rounded(amount * part.gross, left.gross) IN
        /\ OneStep(c) /\ ~HasInward(i)
        /\ Posted(i)
        /\ lot[i].status = "open"
        /\ part.pieces > 0 /\ part.pieces <= left.pieces
        /\ part.gross > 0 /\ part.gross <= left.gross
        /\ errand' = [errand EXCEPT ![c] = [Free EXCEPT !.pc = "return", !.doc = i,
             !.measure = [pieces |-> part.pieces, gross |-> part.gross, net |-> share(left.net), cost |-> share(left.cost)]]]
        /\ UNCHANGED <<shelfVars, order, inward, lot, bill, back, settled, owing, account>>
  BY Zenon DEF BeginReturnUntagged
<1> DEFINE share(amount) == Rounded(amount * part.gross, left.gross)
           m == [pieces |-> part.pieces, gross |-> part.gross, net |-> share(left.net), cost |-> share(left.cost)]
           e == [Free EXCEPT !.pc = "return", !.doc = i, !.measure = m]
<1>2. lot[i] \in LotRows /\ part.gross \in Nat /\ part.pieces \in Nat
  BY PurchasesAssumption DEF GoodsInv, GoodsTypeOK, PurchasesTypeOK
<1>3. left \in Measures
  BY <1>2, MeasureFacts DEF LotRows
<1>4. errand' = [errand EXCEPT ![c] = e] /\ part.gross <= left.gross
  BY <1>1
<1> HIDE DEF left
<1>5. m \in Measures
  <2>1. left.gross \in Nat /\ left.net \in Int /\ left.cost \in Int
    BY <1>2, <1>3, <1>4 DEF Measures
  <2>2. left.net * part.gross \in Int /\ left.cost * part.gross \in Int
    BY <1>2, <2>1, Products
  <2>3. share(left.net) \in Int /\ share(left.cost) \in Int
    BY <2>1, <2>2, RoundedTyped
  <2> HIDE DEF share
  <2> QED
    BY <1>2, <2>3 DEF Measures
<1> HIDE DEF m
<1>6. e \in Errands /\ e.pc = "return" /\ e.doc = i
  BY <1>5, FreeTyped DEF Errands
<1> HIDE DEF e
<1>7. ~HasInward(i) /\ Posted(i) /\ lot[i].status # "none"
  BY <1>1
<1>8. UNCHANGED <<shelfVars, order, inward, lot, bill, back, settled, owing, account>>
  BY <1>1
<1> QED
  BY <1>4, <1>6, <1>7, <1>8, ErrandTaken

LEMMA returnUntaggedKeeps ==
  ASSUME GoodsInv, NEW c \in Clerks, returnUntagged(c), UNCHANGED floorVars
  PROVE  GoodsInv'
<1>0. /\ piece \in [Pieces -> PieceRows] /\ lot \in [Inwards -> LotRows] /\ errand \in [Clerks -> Errands] /\ ErrandsTold
  BY DEF GoodsInv, GoodsTypeOK, PurchasesTypeOK
<1> DEFINE i == errand[c].doc
           m == errand[c].measure
           l == inward[i].place
           expected == Minus(lot[i].expected, m)
           status == IF expected.pieces = lot[i].tagged.pieces THEN "closed" ELSE lot[i].status
<1>1. /\ errand[c].pc = "return" /\ Returned(i, l, m) /\ Finish(c)
      /\ lot' = [lot EXCEPT ![i].expected = expected, ![i].status = status]
      /\ UNCHANGED <<bound, piece, order, inward, bill, settled>>
  BY DEF returnUntagged
<1>2. i \in Inwards /\ lot[i].status # "none" /\ Posted(i)
  BY <1>1 DEF GoodsInv, ErrandsTold, ErrandTold, Returning, Posted
<1>3. m \in Measures
  BY <1>0 DEF Errands
<1>4. expected \in Measures /\ status \in {"open", "closed"}
  BY <1>0, <1>2, <1>3, MeasureFacts DEF LotRows
<1> HIDE DEF i, m, l, expected, status
<1>5. lot' \in [Inwards -> LotRows] /\ \A x \in Inwards : lot[x].status # "none" <=> lot'[x].status # "none"
  BY <1>0, <1>1, <1>2, <1>4 DEF LotRows
<1>6. errand' \in [Clerks -> Errands] /\ ErrandsTold'
  BY <1>1, <1>5, FinishFacts
<1>7. piece' \in [Pieces -> PieceRows] /\ \A q \in Pieces : piece'[q].lot = piece[q].lot
  BY <1>0, <1>1
<1> QED
  BY <1>1, <1>2, <1>3, <1>5, <1>6, <1>7, ReturnKeeps

LEMMA paySupplierKeeps ==
  ASSUME GoodsInv, NEW c \in Clerks, paySupplier(c), UNCHANGED floorVars
  PROVE  GoodsInv'
<1>0. /\ owing \in [Suppliers -> Owings] /\ account \in [stock : Int, gst : Int, gap : Int, paid : Int]
      /\ settled \in [Settlements -> SettlementRows] /\ bound \in Bounds
  BY DEF GoodsInv, GoodsTypeOK, PurchasesTypeOK
<1>1. PICK s \in bound.suppliers, amount \in Amounts, k \in Unused(settled, bound.settlements) :
        /\ settled' = [settled EXCEPT ![k] = [NoSettlement EXCEPT !.status = "posted", !.supplier = s, !.amount = amount]]
        /\ postVoucher(s, Voucher(0, 0, 0, -amount, -amount, 0), 0, 0, 0)
        /\ UNCHANGED <<shelfVars, order, inward, lot, bill, back, errand>>
  BY DEF paySupplier
<1> DEFINE v == Voucher(0, 0, 0, -amount, -amount, 0)
           row == [NoSettlement EXCEPT !.status = "posted", !.supplier = s, !.amount = amount]
<1>2. s \in Suppliers /\ k \in Settlements /\ amount \in Int
  BY <1>0, BoundFacts, PurchasesAssumption
<1>3. v \in Vouchers /\ postVoucher(s, v, 0, 0, 0) /\ 0 \in Nat /\ 0 \in Int
  BY <1>1, <1>2 DEF Voucher, Vouchers
<1>4. row \in SettlementRows /\ row.kind = "payment"
  <2>1. NoSettlement \in SettlementRows /\ NoSettlement.kind = "payment"
    BY DEF NoSettlement, SettlementRows
  <2> QED
    BY <1>2, <2>1 DEF SettlementRows
<1>5. settled' = [settled EXCEPT ![k] = row]
  BY <1>1
<1> HIDE DEF v, row
<1>6. owing' \in [Suppliers -> Owings] /\ account' \in [stock : Int, gst : Int, gap : Int, paid : Int]
  BY <1>0, <1>3, VoucherFacts, Zenon
<1>7. settled' \in [Settlements -> SettlementRows] /\ \A x \in Settlements \ {k} : settled'[x] = settled[x]
  BY <1>0, <1>4, <1>5
<1>8. settled'[k] = row
  BY <1>0, <1>2, <1>5
<1>9. /\ bound' = bound /\ piece' = piece /\ stock' = stock /\ order' = order /\ inward' = inward /\ lot' = lot
      /\ bill' = bill /\ back' = back /\ errand' = errand
  BY <1>1 DEF shelfVars
<1>10. FloorTypeOK' /\ FloorTold'
  BY <1>9, FloorStays
<1>11. GoodsTypeOK'
  BY <1>6, <1>7, <1>9, <1>10 DEF GoodsInv, GoodsTypeOK, PurchasesTypeOK
<1>12. SettlementsTold'
  BY <1>4, <1>7, <1>8 DEF GoodsInv, SettlementsTold
<1>13. ErrandsTold' /\ InwardsTold' /\ PiecesTold' /\ MetalTold'
  BY <1>9 DEF GoodsInv, ErrandsTold, InwardsTold, PiecesTold, MetalTold
<1> QED
  BY <1>10, <1>11, <1>12, <1>13 DEF GoodsInv

LEMMA LotMovementTyped ==
  ASSUME stock \in [Rows -> Measures], MetalTold, NEW l \in Counters, NEW weight \in Int
  PROVE  /\ lotMovement(l, weight) \in Measures /\ lotMovement(l, weight).net = weight
         /\ lotMovement(l, weight).pieces = 0
<1> DEFINE r == <<"metal", l>>
           cost == Rounded(weight * stock[r].cost, stock[r].net)
<1>1. stock[r] \in Measures /\ stock[r].net >= 0
  BY DEF MetalTold, Rows, Counters
<1>2. weight * stock[r].cost \in Int /\ stock[r].net \in Nat
  BY <1>1, Products DEF Measures
<1>3. cost \in Int
  BY <1>2, RoundedTyped
<1>4. lotMovement(l, weight) = [pieces |-> 0, gross |-> weight, net |-> weight, cost |-> cost]
  BY DEF lotMovement
<1> HIDE DEF cost
<1> QED
  BY <1>3, <1>4 DEF Measures

LEMMA SettlementVoucherFacts ==
  ASSUME NEW k \in SettlementRows
  PROVE  LET due == IF k.kind = "payment" THEN -k.amount ELSE IF k.kind = "metal" THEN 0 ELSE k.amount IN
         /\ SettlementVoucher(k) \in Vouchers /\ SettlementVoucher(k).rupees = due
         /\ Mirror(SettlementVoucher(k)) \in Vouchers /\ Mirror(SettlementVoucher(k)).rupees = -due
<1>1. k.amount \in Int /\ k.carried \in Int
  BY DEF SettlementRows
<1> DEFINE due == IF k.kind = "payment" THEN -k.amount ELSE IF k.kind = "metal" THEN 0 ELSE k.amount
           v == SettlementVoucher(k)
<1>2. v \in Vouchers /\ v.rupees = due
  BY <1>1 DEF SettlementVoucher, Voucher, Vouchers
<1> HIDE DEF v, due
<1>3. Mirror(v) \in Vouchers /\ Mirror(v).rupees = -due
  BY <1>2 DEF Mirror, Voucher, Vouchers
<1> QED
  BY <1>2, <1>3 DEF v, due

LEMMA BeginSettleMetalKeeps ==
  ASSUME GoodsInv, NEW c \in Clerks, BeginSettleMetal(c), UNCHANGED floorVars
  PROVE  GoodsInv'
<1>0. owing \in [Suppliers -> Owings] /\ bound \in Bounds
  BY DEF GoodsInv, GoodsTypeOK, PurchasesTypeOK
<1>1. PICK s \in bound.suppliers, l \in bound.places, part \in Parts, kind \in {"metal", "rate_fix"} :
        /\ errand' = [errand EXCEPT ![c] = [Free EXCEPT !.pc = "settle", !.kind = kind, !.supplier = s,
             !.place = l, !.measure = [Nothing EXCEPT !.gross = part.gross, !.net = part.gross],
             !.carried = part.gross * carriedRate(s)]]
        /\ UNCHANGED <<shelfVars, order, inward, lot, bill, back, settled, owing, account>>
  BY DEF BeginSettleMetal
<1> DEFINE m == [Nothing EXCEPT !.gross = part.gross, !.net = part.gross]
           carried == part.gross * carriedRate(s)
           e == [Free EXCEPT !.pc = "settle", !.kind = kind, !.supplier = s, !.place = l, !.measure = m, !.carried = carried]
<1>2. s \in Suppliers /\ l \in Counters /\ part.gross \in Nat
  BY <1>0, BoundFacts, PurchasesAssumption
<1>3. m \in Measures /\ m.net = part.gross
  <2> DEFINE g == part.gross
  <2>1. g \in Int /\ m = [Nothing EXCEPT !.gross = g, !.net = g]
    BY <1>2
  <2> HIDE DEF g, m
  <2>2. m \in Measures /\ m.net = g
    BY <2>1, MeasureFacts DEF Measures
  <2> QED
    BY <2>2 DEF g
<1>4. carried \in Int
  <2>1. owing[s].valueIn \in Nat /\ owing[s].fineIn \in Nat
    BY <1>0, <1>2 DEF Owings
  <2>2. carriedRate(s) \in Nat
    BY <2>1, RoundedTyped DEF carriedRate
  <2> QED
    BY <1>2, <2>2, Products
<1>5. errand' = [errand EXCEPT ![c] = e]
  BY <1>1
<1> HIDE DEF m, carried
<1>6. e \in Errands /\ e.pc = "settle" /\ e.kind = kind /\ e.supplier = s /\ e.place = l /\ e.measure = m
  BY <1>2, <1>3, <1>4, FreeTyped DEF Errands, Counters
<1> HIDE DEF e
<1>7. ~Returning(e)
  BY <1>6 DEF Returning
<1>8. UNCHANGED <<shelfVars, order, inward, lot, bill, back, settled, owing, account>>
  BY <1>1
<1> QED
  BY <1>2, <1>3, <1>5, <1>6, <1>7, <1>8, ErrandTaken

\* The settlement a clerk is about to record.
LEMMA SettlementFacts ==
  ASSUME GoodsInv, NEW c \in Clerks, errand[c].pc = "settle"
  PROVE  LET e == errand[c]
             out == IF e.kind = "metal" THEN lotMovement(e.place, e.measure.net) ELSE Nothing
             row == [status |-> "posted", supplier |-> e.supplier, kind |-> e.kind, place |-> e.place,
                     fine |-> e.measure.net, carried |-> e.carried,
                     amount |-> IF e.kind = "metal" THEN out.cost ELSE e.measure.net * FixRate]
         IN /\ out \in Measures /\ row \in SettlementRows /\ e.supplier \in Suppliers /\ e.place \in Counters
            /\ e.kind \in {"metal", "rate_fix"} /\ e.measure.net \in Nat
<1>0. errand \in [Clerks -> Errands] /\ stock \in [Rows -> Measures] /\ MetalTold
  BY DEF GoodsInv, GoodsTypeOK, PurchasesTypeOK
<1> DEFINE e == errand[c]
           out == IF e.kind = "metal" THEN lotMovement(e.place, e.measure.net) ELSE Nothing
           amount == IF e.kind = "metal" THEN out.cost ELSE e.measure.net * FixRate
<1>1. e \in Errands /\ e.kind \in {"metal", "rate_fix"} /\ e.supplier \in Suppliers /\ e.place \in Counters /\ e.measure.net \in Nat
  BY <1>0 DEF GoodsInv, ErrandsTold, ErrandTold
<1>2. out \in Measures
  BY <1>0, <1>1, LotMovementTyped, MeasureFacts
<1> HIDE DEF out
<1>3. amount \in Int
  <2>1. e.measure.net * FixRate \in Int /\ out.cost \in Int
    BY <1>1, <1>2, Products, PurchasesAssumption DEF Measures
  <2> QED
    BY <2>1
<1> HIDE DEF amount
<1>4. e.carried \in Int /\ e.place \in Places
  BY <1>1 DEF Errands, Counters
<1>5. [status |-> "posted", supplier |-> e.supplier, kind |-> e.kind, place |-> e.place,
       fine |-> e.measure.net, carried |-> e.carried, amount |-> amount] \in SettlementRows
  BY <1>1, <1>3, <1>4 DEF SettlementRows
<1> QED
  BY <1>1, <1>2, <1>5 DEF out, amount

LEMMA createSettlementKeeps ==
  ASSUME GoodsInv, NEW c \in Clerks, createSettlement(c), UNCHANGED floorVars
  PROVE  GoodsInv'
<1>0. /\ owing \in [Suppliers -> Owings] /\ account \in [stock : Int, gst : Int, gap : Int, paid : Int]
      /\ settled \in [Settlements -> SettlementRows] /\ bound \in Bounds /\ stock \in [Rows -> Measures] /\ MetalTold
  BY DEF GoodsInv, GoodsTypeOK, PurchasesTypeOK
<1> DEFINE e == errand[c]
           out == IF e.kind = "metal" THEN lotMovement(e.place, e.measure.net) ELSE Nothing
           row == [status |-> "posted", supplier |-> e.supplier, kind |-> e.kind, place |-> e.place,
                   fine |-> e.measure.net, carried |-> e.carried,
                   amount |-> IF e.kind = "metal" THEN out.cost ELSE e.measure.net * FixRate]
           v == SettlementVoucher(row)
           s == e.supplier
           fineOut == e.measure.net
           l == e.place
<1>1. /\ errand[c].pc = "settle" /\ recordMovements(At("metal", l, Nothing), At("metal", l, out), FALSE)
      /\ postVoucher(s, v, 0, fineOut, 0) /\ Finish(c)
      /\ UNCHANGED <<bound, piece, order, inward, lot, bill, back>>
  BY DEF createSettlement
<1>2. PICK k \in Unused(settled, bound.settlements) : settled' = [settled EXCEPT ![k] = row]
  BY DEF createSettlement
<1>3. k \in Settlements
  BY <1>0, BoundFacts
<1>4. out \in Measures /\ row \in SettlementRows /\ l \in Counters /\ fineOut \in Int
  BY <1>1, SettlementFacts
<1>5. row.place = l
  OBVIOUS
<1> HIDE DEF out, row, l
<1>6. v \in Vouchers /\ 0 \in Nat
  BY <1>4, SettlementVoucherFacts
<1> HIDE DEF v, s, fineOut
<1>7. owing' \in [Suppliers -> Owings] /\ account' \in [stock : Int, gst : Int, gap : Int, paid : Int]
  BY <1>0, <1>1, <1>4, <1>6, VoucherFacts, Zenon
<1>8. settled' \in [Settlements -> SettlementRows] /\ \A x \in Settlements : settled'[x] \in {settled[x], row}
  BY <1>0, <1>2, <1>4
<1>9. stock' \in [Rows -> Measures] /\ MetalTold'
  <2>1. Nothing \in Measures /\ Nothing.net >= 0
    BY DEF Nothing, Measures
  <2> QED
    BY <1>0, <1>1, <1>4, <2>1, MovementKeeps
<1>10. errand' \in [Clerks -> Errands] /\ ErrandsTold'
  BY <1>1, FinishFacts
<1>11. FloorTypeOK' /\ FloorTold'
  BY <1>1, FloorStays
<1>12. GoodsTypeOK'
  BY <1>1, <1>7, <1>8, <1>9, <1>10, <1>11 DEF GoodsInv, GoodsTypeOK, PurchasesTypeOK
<1>13. SettlementsTold'
  BY <1>4, <1>5, <1>8 DEF GoodsInv, SettlementsTold
<1>14. InwardsTold' /\ PiecesTold'
  BY <1>1 DEF GoodsInv, InwardsTold, PiecesTold
<1> QED
  BY <1>9, <1>10, <1>11, <1>12, <1>13, <1>14 DEF GoodsInv

LEMMA cancelSettlementKeeps ==
  ASSUME GoodsInv, NEW c \in Clerks, NEW k \in Settlements, cancelSettlement(c, k), UNCHANGED floorVars
  PROVE  GoodsInv'
<1>0. /\ owing \in [Suppliers -> Owings] /\ account \in [stock : Int, gst : Int, gap : Int, paid : Int]
      /\ settled \in [Settlements -> SettlementRows] /\ stock \in [Rows -> Measures] /\ MetalTold
  BY DEF GoodsInv, GoodsTypeOK, PurchasesTypeOK
<1> DEFINE row == settled[k]
           returned == IF row.kind = "metal"
             THEN [pieces |-> 0, gross |-> row.fine, net |-> row.fine, cost |-> row.amount] ELSE Nothing
           v == Mirror(SettlementVoucher(row))
           s == row.supplier
           fineIn == row.fine
<1>1. /\ settled' = [settled EXCEPT ![k].status = "cancelled"]
      /\ stock' = IF returned = Nothing THEN stock
                  ELSE [stock EXCEPT ![<<"metal", row.place>>] = Plus(@, returned)]
      /\ postVoucher(s, v, fineIn, 0, 0)
      /\ UNCHANGED <<bound, piece, order, inward, lot, bill, back, errand>>
  BY DEF cancelSettlement
<1>2. row \in SettlementRows /\ fineIn \in Nat /\ row.amount \in Int
  BY <1>0 DEF SettlementRows
<1>3. v \in Vouchers /\ 0 \in Nat /\ 0 \in Int
  BY <1>2, SettlementVoucherFacts
<1>4. returned \in Measures /\ returned.net >= 0
  BY <1>2 DEF Measures, Nothing
<1>5. row.kind = "metal" => row.place \in Counters
  BY DEF GoodsInv, SettlementsTold
<1>6. stock' \in [Rows -> Measures] /\ MetalTold'
  <2>1. CASE returned = Nothing
    <3>1. stock' = stock
      BY <1>1, <2>1
    <3> QED
      BY <1>0, <3>1 DEF MetalTold
  <2>2. CASE returned # Nothing
    <3> DEFINE r == <<"metal", row.place>>
    <3>1. row.place \in Counters /\ stock' = [stock EXCEPT ![r] = Plus(stock[r], returned)]
      BY <1>1, <1>5, <2>2
    <3>2. r \in Rows
      BY <3>1 DEF Rows, Counters
    <3>3. stock[r] \in Measures /\ stock[r].net >= 0
      BY <1>0, <3>1, <3>2 DEF MetalTold
    <3> HIDE DEF r, returned
    <3>4. Plus(stock[r], returned) \in Measures /\ Plus(stock[r], returned).net >= 0
      BY <1>4, <3>3 DEF Plus, Measures
    <3>5. stock' \in [Rows -> Measures] /\ \A x \in Rows : stock'[x] = stock[x] \/ stock'[x].net >= 0
      BY <1>0, <3>1, <3>2, <3>4
    <3>6. ASSUME NEW x \in Counters PROVE stock'[<<"metal", x>>].net >= 0
      <4>1. <<"metal", x>> \in Rows
        BY DEF Rows, Counters
      <4> QED
        BY <1>0, <3>5, <4>1 DEF MetalTold
    <3> QED
      BY <3>5, <3>6 DEF MetalTold
  <2> QED
    BY <2>1, <2>2
<1> HIDE DEF v, s, fineIn, returned
<1>7. owing' \in [Suppliers -> Owings] /\ account' \in [stock : Int, gst : Int, gap : Int, paid : Int]
  BY <1>0, <1>1, <1>2, <1>3, VoucherFacts, Zenon
<1>8. settled' \in [Settlements -> SettlementRows]
      /\ \A x \in Settlements : settled'[x].kind = settled[x].kind /\ settled'[x].place = settled[x].place
  BY <1>0, <1>1 DEF SettlementRows
<1>9. FloorTypeOK' /\ FloorTold'
  BY <1>1, FloorStays
<1>10. GoodsTypeOK'
  BY <1>1, <1>6, <1>7, <1>8, <1>9 DEF GoodsInv, GoodsTypeOK, PurchasesTypeOK
<1>11. SettlementsTold'
  BY <1>8 DEF GoodsInv, SettlementsTold
<1>12. ErrandsTold' /\ InwardsTold' /\ PiecesTold'
  BY <1>1 DEF GoodsInv, ErrandsTold, InwardsTold, PiecesTold
<1> QED
  BY <1>6, <1>9, <1>10, <1>11, <1>12 DEF GoodsInv

LEMMA GiveUpKeeps ==
  ASSUME GoodsInv, NEW c \in Clerks, GiveUp(c), UNCHANGED floorVars
  PROVE  GoodsInv'
<1>1. /\ bound' = bound /\ piece' = piece /\ stock' = stock /\ order' = order /\ inward' = inward /\ lot' = lot
      /\ bill' = bill /\ back' = back /\ settled' = settled /\ owing' = owing /\ account' = account /\ Finish(c)
  BY DEF GiveUp, shelfVars
<1>2. errand' \in [Clerks -> Errands] /\ ErrandsTold'
  BY <1>1, FinishFacts
<1>3. FloorTypeOK' /\ FloorTold'
  BY <1>1, FloorStays
<1>4. GoodsTypeOK'
  BY <1>1, <1>2, <1>3 DEF GoodsInv, GoodsTypeOK, PurchasesTypeOK
<1>5. InwardsTold' /\ PiecesTold' /\ SettlementsTold' /\ MetalTold'
  BY <1>1 DEF GoodsInv, InwardsTold, PiecesTold, SettlementsTold, MetalTold
<1> QED
  BY <1>2, <1>3, <1>4, <1>5 DEF GoodsInv

-------------------------------------------------------------------------------
\* Each action of the floor keeps the invariant.

LEMMA PiecesAtPlaces ==
  ASSUME piece \in [Pieces -> PieceRows], NEW set \in SUBSET Pieces
  PROVE  /\ PiecesAt(WhereItIs(set)) \in [Rows -> Measures]
         /\ \A l \in Places : PiecesAt(WhereItIs(set))[<<"metal", l>>] = Nothing
         /\ \A k : /\ PiecesAt(AllAt(set, k)) \in [Rows -> Measures]
                   /\ \A l \in Places : PiecesAt(AllAt(set, k))[<<"metal", l>>] = Nothing
<1> DEFINE where == WhereItIs(set)
           at(k) == AllAt(set, k)
<1>1. DOMAIN where \subseteq Pieces /\ \A k : DOMAIN at(k) \subseteq Pieces
  BY DEF WhereItIs, AllAt
<1> HIDE DEF where, at
<1>2. PiecesAt(where) \in [Rows -> Measures] /\ \A l \in Places : PiecesAt(where)[<<"metal", l>>] = Nothing
  BY <1>1, PiecesAtTyped
<1>3. ASSUME NEW k
      PROVE  PiecesAt(at(k)) \in [Rows -> Measures] /\ \A l \in Places : PiecesAt(at(k))[<<"metal", l>>] = Nothing
  <2> DEFINE place == at(k)
  <2>1. DOMAIN place \subseteq Pieces
    BY <1>1
  <2> HIDE DEF place
  <2>2. PiecesAt(place) \in [Rows -> Measures] /\ \A l \in Places : PiecesAt(place)[<<"metal", l>>] = Nothing
    BY <2>1, PiecesAtTyped
  <2> QED
    BY <2>2 DEF place
<1> QED
  BY <1>2, <1>3 DEF where, at

\* Metal in rows where pieces are moved too.
LEMMA MetalOf ==
  ASSUME NEW f \in [Rows -> Measures], \A l \in Places : f[<<"metal", l>>] = Nothing, NEW k, NEW m \in Measures
  PROVE  /\ With(f, At("metal", k, m)) \in [Rows -> Measures]
         /\ \A l \in Places : With(f, At("metal", k, m))[<<"metal", l>>] = IF l = k THEN m ELSE Nothing
<1> DEFINE g == At("metal", k, m)
<1>1. g \in [Rows -> Measures] /\ \A r \in Rows : g[r] = IF r = <<"metal", k>> THEN m ELSE Nothing
  BY AtTyped
<1> HIDE DEF g
<1>2. With(f, g) \in [Rows -> Measures] /\ \A r \in Rows : With(f, g)[r] = Plus(f[r], g[r])
  BY <1>1, WithTyped
<1>3. ASSUME NEW l \in Places PROVE With(f, g)[<<"metal", l>>] = IF l = k THEN m ELSE Nothing
  <2>1. <<"metal", l>> \in Rows
    BY DEF Rows
  <2>2. With(f, g)[<<"metal", l>>] = Plus(Nothing, g[<<"metal", l>>])
    BY <1>2, <2>1
  <2>3. g[<<"metal", l>>] = IF l = k THEN m ELSE Nothing
    BY <1>1, <2>1
  <2>4. g[<<"metal", l>>] \in Measures
    BY <1>1, <2>1
  <2> QED
    BY <2>2, <2>3, <2>4, MeasureFacts
<1> QED
  BY <1>2, <1>3 DEF g

\* What a batch does to the metal at each place.
LEMMA BatchFacts ==
  ASSUME stock \in [Rows -> Measures], NEW into \in [Rows -> Measures], NEW out \in [Rows -> Measures],
         NEW allowed \in BOOLEAN, recordMovements(into, out, allowed)
  PROVE  /\ stock' \in [Rows -> Measures]
         /\ \A x \in Places : stock'[<<"metal", x>>] = Minus(Plus(stock[<<"metal", x>>], into[<<"metal", x>>]), out[<<"metal", x>>])
         /\ /\ MetalTold /\ \A x \in Counters : into[<<"metal", x>>].net >= 0
            /\ allowed => \A x \in Counters : out[<<"metal", x>>] = Nothing
            => MetalTold'
<1>1. /\ stock' \in [Rows -> Measures]
      /\ \A r \in Rows : stock'[r] = Minus(Plus(stock[r], into[r]), out[r])
  BY RecordFacts
<1>2. \A x \in Places : <<"metal", x>> \in Rows
  BY DEF Rows
<1>3. ASSUME MetalTold, \A x \in Counters : into[<<"metal", x>>].net >= 0,
             allowed => \A x \in Counters : out[<<"metal", x>>] = Nothing
      PROVE  MetalTold'
  <2>1. \A x \in Counters : stock[<<"metal", x>>].net >= 0
    BY <1>3 DEF MetalTold
  <2>2. \A x \in Counters : stock'[<<"metal", x>>].net >= 0
    BY <1>3, <2>1, MetalStays
  <2> QED
    BY <2>2 DEF MetalTold
<1> QED
  BY <1>1, <1>2, <1>3

LEMMA LandingFacts ==
  ASSUME NEW from \in Counters, NEW to \in Counters
  PROVE  /\ landing(from, to) \in Places /\ Transit[BranchOf[to]] \in Places \ Counters
         /\ BranchOf[to] \in DOMAIN Transit
         /\ landing(from, to) = IF BranchOf[from] = BranchOf[to] THEN to ELSE Transit[BranchOf[to]]
BY PlacesAssumption DEF Counters, landing

\* A floor action has only its own tables, pieces and balances to answer for.
LEMMA FloorKeeps ==
  ASSUME GoodsInv, UNCHANGED purchaseVars, bound' = bound, piece' \in [Pieces -> PieceRows],
         \A p \in Pieces : piece'[p].lot = piece[p].lot, stock' \in [Rows -> Measures], MetalTold', FloorTypeOK', FloorTold'
  PROVE  GoodsInv'
<1>1. PurchasesTypeOK' /\ ErrandsTold' /\ InwardsTold' /\ PiecesTold' /\ SettlementsTold'
  BY PurchasesStay
<1>2. bound \in Bounds
  BY DEF GoodsInv, GoodsTypeOK
<1> QED
  BY <1>1, <1>2 DEF GoodsInv, GoodsTypeOK

\* What is sent: pieces that are where they are sent from, and metal.
LEMMA SentFacts ==
  ASSUME GoodsInv, NEW from \in Counters, NEW set \in SUBSET Pieces, NEW weight \in Scales
  PROVE  LET sent == Sent(set, weight, from) IN
         /\ sent.tagged = PiecesAt(WhereItIs(set)) /\ sent.tagged \in [Rows -> Measures]
         /\ \A l \in Places : sent.tagged[<<"metal", l>>] = Nothing
         /\ sent.metal \in Measures /\ sent.metal.net >= 0
<1>0. piece \in [Pieces -> PieceRows] /\ stock \in [Rows -> Measures] /\ MetalTold
  BY DEF GoodsInv, GoodsTypeOK
<1>1. weight \in Nat
  BY FloorAssumption
<1> DEFINE metal == IF weight = 0 THEN Nothing ELSE lotMovement(from, weight)
           tagged == PiecesAt(WhereItIs(set))
<1>2. metal \in Measures /\ metal.net >= 0
  <2>1. Nothing \in Measures /\ Nothing.net = 0
    BY DEF Nothing, Measures
  <2>2. lotMovement(from, weight) \in Measures /\ lotMovement(from, weight).net = weight
    BY <1>0, <1>1, LotMovementTyped
  <2> QED
    BY <1>1, <2>1, <2>2
<1>3. tagged \in [Rows -> Measures] /\ \A l \in Places : tagged[<<"metal", l>>] = Nothing
  BY <1>0, PiecesAtPlaces
<1>4. Sent(set, weight, from) = [tagged |-> tagged, metal |-> metal]
  BY DEF Sent
<1> HIDE DEF metal, tagged
<1>5. Sent(set, weight, from).tagged = tagged /\ Sent(set, weight, from).metal = metal
  BY <1>4
<1> QED
  BY <1>2, <1>3, <1>5 DEF tagged

LEMMA dispatchTransferFacts ==
  ASSUME GoodsInv, NEW s \in Sessions, dispatchTransfer(s)
  PROVE  \E from, to \in Counters, set \in SUBSET Pieces, m \in Measures, t \in Transfers :
           /\ \A p \in set : InStock(p) /\ piece[p].place = from
           /\ m.net >= 0 /\ transfer[t].status = "none"
           /\ transfer' = [transfer EXCEPT ![t] =
                [status |-> IF BranchOf[from] = BranchOf[to] THEN "received" ELSE "in_transit",
                 from |-> from, to |-> to, pieces |-> set, metal |-> m]]
           /\ piece' = [p \in Pieces |-> IF p \in set
                THEN [piece[p] EXCEPT !.place = landing(from, to),
                                      !.status = IF BranchOf[from] = BranchOf[to] THEN "in_stock" ELSE "in_transit"]
                ELSE piece[p]]
           /\ stock' \in [Rows -> Measures] /\ MetalTold'
           /\ \A x \in Places : stock'[<<"metal", x>>] =
                Minus(Plus(stock[<<"metal", x>>], IF x = landing(from, to) THEN m ELSE Nothing),
                      IF x = from THEN m ELSE Nothing)
           /\ UNCHANGED <<bound, count, asked>>
<1>0. piece \in [Pieces -> PieceRows] /\ stock \in [Rows -> Measures] /\ MetalTold /\ bound \in Bounds
  BY DEF GoodsInv, GoodsTypeOK
<1>1. PICK from, to \in Counters, set \in SUBSET Pieces, weight \in Scales :
        LET sent == Sent(set, weight, from)
            there == landing(from, to)
            sameBranch == BranchOf[from] = BranchOf[to]
        IN
        /\ Atomic(s)
        /\ from # to /\ (set # {} \/ weight > 0)
        /\ \A p \in set : InStock(p) /\ piece[p].place = from
        /\ \E t \in Unused(transfer, bound.transfers) :
             transfer' = [transfer EXCEPT ![t] =
               [status |-> IF sameBranch THEN "received" ELSE "in_transit",
                from |-> from, to |-> to, pieces |-> set, metal |-> sent.metal]]
        /\ recordMovements(With(PiecesAt(AllAt(set, there)), At("metal", there, sent.metal)),
                           With(sent.tagged, At("metal", from, sent.metal)), FALSE)
        /\ piece' = [p \in Pieces |-> IF p \in set
             THEN [piece[p] EXCEPT !.place = there, !.status = IF sameBranch THEN "in_stock" ELSE "in_transit"]
             ELSE piece[p]]
        /\ UNCHANGED <<bound, count, asked>>
  BY Zenon DEF dispatchTransfer
<1> DEFINE sent == Sent(set, weight, from)
           m == sent.metal
           where == landing(from, to)
           into == With(PiecesAt(AllAt(set, where)), At("metal", where, m))
           out == With(sent.tagged, At("metal", from, m))
<1>2. PICK t \in Unused(transfer, bound.transfers) :
        transfer' = [transfer EXCEPT ![t] =
               [status |-> IF BranchOf[from] = BranchOf[to] THEN "received" ELSE "in_transit",
                from |-> from, to |-> to, pieces |-> set, metal |-> m]]
  BY <1>1
<1>3. t \in Transfers /\ transfer[t].status = "none"
  BY <1>0, BoundFacts
<1>4. /\ \A p \in set : InStock(p) /\ piece[p].place = from
      /\ recordMovements(into, out, FALSE)
      /\ piece' = [p \in Pieces |-> IF p \in set
                THEN [piece[p] EXCEPT !.place = landing(from, to),
                                      !.status = IF BranchOf[from] = BranchOf[to] THEN "in_stock" ELSE "in_transit"]
                ELSE piece[p]]
      /\ UNCHANGED <<bound, count, asked>>
  BY <1>1
<1>5. sent.tagged \in [Rows -> Measures] /\ (\A l \in Places : sent.tagged[<<"metal", l>>] = Nothing)
      /\ m \in Measures /\ m.net >= 0
  BY SentFacts
<1> HIDE DEF sent, m, where
<1>6. /\ into \in [Rows -> Measures] /\ out \in [Rows -> Measures]
      /\ \A x \in Places : into[<<"metal", x>>] = IF x = where THEN m ELSE Nothing
      /\ \A x \in Places : out[<<"metal", x>>] = IF x = from THEN m ELSE Nothing
  <2> DEFINE f == PiecesAt(AllAt(set, where))
             g == sent.tagged
  <2>1. f \in [Rows -> Measures] /\ \A l \in Places : f[<<"metal", l>>] = Nothing
    BY <1>0, PiecesAtPlaces
  <2>2. g \in [Rows -> Measures] /\ \A l \in Places : g[<<"metal", l>>] = Nothing
    BY <1>5
  <2> HIDE DEF f, g
  <2>3. /\ With(f, At("metal", where, m)) \in [Rows -> Measures]
        /\ \A l \in Places : With(f, At("metal", where, m))[<<"metal", l>>] = IF l = where THEN m ELSE Nothing
    BY <1>5, <2>1, MetalOf
  <2>4. /\ With(g, At("metal", from, m)) \in [Rows -> Measures]
        /\ \A l \in Places : With(g, At("metal", from, m))[<<"metal", l>>] = IF l = from THEN m ELSE Nothing
    BY <1>5, <2>2, MetalOf
  <2> QED
    BY <2>3, <2>4 DEF f, g
<1> HIDE DEF into, out
<1>7. /\ stock' \in [Rows -> Measures] /\ MetalTold'
      /\ \A x \in Places : stock'[<<"metal", x>>] =
           Minus(Plus(stock[<<"metal", x>>], IF x = where THEN m ELSE Nothing), IF x = from THEN m ELSE Nothing)
  <2> DEFINE allowed == FALSE
  <2>1. allowed \in BOOLEAN /\ recordMovements(into, out, allowed) /\ ~allowed
    BY <1>4
  <2> HIDE DEF allowed
  <2>2. ASSUME NEW x \in Counters PROVE into[<<"metal", x>>].net >= 0
    <3>1. Nothing.net = 0 /\ x \in Places
      BY DEF Nothing, Counters
    <3>2. into[<<"metal", x>>] = m \/ into[<<"metal", x>>] = Nothing
      BY <1>6, <3>1
    <3> QED
      BY <1>5, <3>1, <3>2
  <2>3. /\ stock' \in [Rows -> Measures] /\ MetalTold'
        /\ \A x \in Places : stock'[<<"metal", x>>] = Minus(Plus(stock[<<"metal", x>>], into[<<"metal", x>>]), out[<<"metal", x>>])
    BY <1>0, <1>6, <2>1, <2>2, BatchFacts
  <2> QED
    BY <1>6, <2>3
<1> QED
  BY <1>2, <1>3, <1>4, <1>5, <1>7, ZenonT(30) DEF where

LEMMA dispatchTransferKeeps ==
  ASSUME GoodsInv, NEW s \in Sessions, dispatchTransfer(s), UNCHANGED purchaseVars
  PROVE  GoodsInv'
<1>0. piece \in [Pieces -> PieceRows] /\ transfer \in [Transfers -> TransferRows] /\ FloorTold /\ FloorTypeOK
  BY DEF GoodsInv, GoodsTypeOK, FloorTypeOK
<1>1. PICK from, to \in Counters, set \in SUBSET Pieces, m \in Measures, t \in Transfers :
        /\ \A p \in set : InStock(p) /\ piece[p].place = from
        /\ m.net >= 0 /\ transfer[t].status = "none"
        /\ transfer' = [transfer EXCEPT ![t] =
             [status |-> IF BranchOf[from] = BranchOf[to] THEN "received" ELSE "in_transit",
              from |-> from, to |-> to, pieces |-> set, metal |-> m]]
        /\ piece' = [p \in Pieces |-> IF p \in set
             THEN [piece[p] EXCEPT !.place = landing(from, to),
                                   !.status = IF BranchOf[from] = BranchOf[to] THEN "in_stock" ELSE "in_transit"]
             ELSE piece[p]]
        /\ stock' \in [Rows -> Measures] /\ MetalTold'
        /\ \A x \in Places : stock'[<<"metal", x>>] =
             Minus(Plus(stock[<<"metal", x>>], IF x = landing(from, to) THEN m ELSE Nothing),
                   IF x = from THEN m ELSE Nothing)
        /\ UNCHANGED <<bound, count, asked>>
  BY dispatchTransferFacts
<1> DEFINE where == landing(from, to)
           state == IF BranchOf[from] = BranchOf[to] THEN "in_stock" ELSE "in_transit"
           status == IF BranchOf[from] = BranchOf[to] THEN "received" ELSE "in_transit"
           row == [status |-> status, from |-> from, to |-> to, pieces |-> set, metal |-> m]
           moved(p) == [piece[p] EXCEPT !.place = where, !.status = state]
<1>2. where \in Places /\ state \in {"in_stock", "in_transit"} /\ status \in {"received", "in_transit"}
  BY LandingFacts
<1>3. piece' = [p \in Pieces |-> IF p \in set THEN moved(p) ELSE piece[p]] /\ transfer' = [transfer EXCEPT ![t] = row]
  BY <1>1
<1> HIDE DEF where, state, status
<1>4. \A p \in Pieces : moved(p) \in PieceRows /\ moved(p).lot = piece[p].lot
  BY <1>0, <1>2 DEF PieceRows
<1>5. row \in TransferRows /\ row.metal.net >= 0 /\ row.from \in Counters /\ row.to \in Counters
  BY <1>1, <1>2 DEF TransferRows, Counters
<1> HIDE DEF moved, row
<1>6. piece' \in [Pieces -> PieceRows] /\ \A p \in Pieces : piece'[p].lot = piece[p].lot
  BY <1>0, <1>3, <1>4
<1>7. transfer' \in [Transfers -> TransferRows] /\ \A x \in Transfers : transfer'[x] \in {transfer[x], row}
  BY <1>0, <1>3, <1>5
<1>8. bound' = bound /\ count' = count /\ asked' = asked
  BY <1>1
<1>9. FloorTypeOK'
  BY <1>0, <1>7, <1>8 DEF FloorTypeOK
<1>10. FloorTold'
  BY <1>0, <1>5, <1>7, <1>8 DEF FloorTold
<1> QED
  BY <1>1, <1>6, <1>8, <1>9, <1>10, FloorKeeps

\* What lands goes from the branch's transit location to one of the transfer's ends.
LEMMA landFacts ==
  ASSUME GoodsInv, NEW s \in Sessions, NEW t \in Transfers, land(s, t)
  PROVE  \E status \in {"received", "cancelled"}, target \in Counters :
           /\ transfer[t].status = "in_transit" /\ transfer[t].to \in Counters
           /\ transfer' = [transfer EXCEPT ![t].status = status]
           /\ piece' = [p \in Pieces |-> IF p \in transfer[t].pieces
                THEN [piece[p] EXCEPT !.place = target, !.status = "in_stock"] ELSE piece[p]]
           /\ stock' \in [Rows -> Measures] /\ MetalTold'
           /\ \A x \in Places : stock'[<<"metal", x>>] =
                Minus(Plus(stock[<<"metal", x>>], IF x = target THEN transfer[t].metal ELSE Nothing),
                      IF x = Transit[BranchOf[transfer[t].to]] THEN transfer[t].metal ELSE Nothing)
           /\ UNCHANGED <<bound, count, asked>>
<1>0. /\ piece \in [Pieces -> PieceRows] /\ stock \in [Rows -> Measures] /\ MetalTold /\ FloorTold
      /\ transfer \in [Transfers -> TransferRows]
  BY DEF GoodsInv, GoodsTypeOK, FloorTypeOK
<1> DEFINE row == transfer[t]
           m == row.metal
           set == row.pieces
           transit == Transit[BranchOf[row.to]]
<1>1. PICK status \in {"received", "cancelled"} :
        LET target == IF status = "received" THEN row.to ELSE row.from IN
        /\ Atomic(s)
        /\ openTransfer(t)
        /\ recordMovements(With(PiecesAt(AllAt(set, target)), At("metal", target, m)),
                           With(PiecesAt(AllAt(set, transit)), At("metal", transit, m)), TRUE)
        /\ piece' = [p \in Pieces |-> IF p \in set
             THEN [piece[p] EXCEPT !.place = target, !.status = "in_stock"] ELSE piece[p]]
        /\ transfer' = [transfer EXCEPT ![t].status = status]
        /\ UNCHANGED <<bound, count, asked>>
  BY Zenon DEF land
<1> DEFINE target == IF status = "received" THEN row.to ELSE row.from
           into == With(PiecesAt(AllAt(set, target)), At("metal", target, m))
           out == With(PiecesAt(AllAt(set, transit)), At("metal", transit, m))
           allowed == TRUE
<1>2. /\ row.status = "in_transit" /\ recordMovements(into, out, allowed)
      /\ piece' = [p \in Pieces |-> IF p \in set
             THEN [piece[p] EXCEPT !.place = target, !.status = "in_stock"] ELSE piece[p]]
      /\ transfer' = [transfer EXCEPT ![t].status = status]
      /\ UNCHANGED <<bound, count, asked>>
  BY <1>1 DEF openTransfer
<1>3. row.from \in Counters /\ row.to \in Counters /\ target \in Counters /\ m.net >= 0
  BY <1>0, <1>2 DEF FloorTold
<1>4. set \in SUBSET Pieces /\ m \in Measures /\ allowed \in BOOLEAN
  BY <1>0 DEF TransferRows
<1>5. transit \in Places \ Counters
  BY <1>3, LandingFacts
<1> HIDE DEF target, transit, m, set, allowed
<1>6. /\ into \in [Rows -> Measures] /\ out \in [Rows -> Measures]
      /\ \A x \in Places : into[<<"metal", x>>] = IF x = target THEN m ELSE Nothing
      /\ \A x \in Places : out[<<"metal", x>>] = IF x = transit THEN m ELSE Nothing
  <2> DEFINE f == PiecesAt(AllAt(set, target))
             g == PiecesAt(AllAt(set, transit))
  <2>1. f \in [Rows -> Measures] /\ \A l \in Places : f[<<"metal", l>>] = Nothing
    BY <1>0, <1>4, PiecesAtPlaces
  <2>2. g \in [Rows -> Measures] /\ \A l \in Places : g[<<"metal", l>>] = Nothing
    BY <1>0, <1>4, PiecesAtPlaces
  <2> HIDE DEF f, g
  <2>3. /\ With(f, At("metal", target, m)) \in [Rows -> Measures]
        /\ \A l \in Places : With(f, At("metal", target, m))[<<"metal", l>>] = IF l = target THEN m ELSE Nothing
    BY <1>4, <2>1, MetalOf
  <2>4. /\ With(g, At("metal", transit, m)) \in [Rows -> Measures]
        /\ \A l \in Places : With(g, At("metal", transit, m))[<<"metal", l>>] = IF l = transit THEN m ELSE Nothing
    BY <1>4, <2>2, MetalOf
  <2> QED
    BY <2>3, <2>4 DEF f, g
<1> HIDE DEF into, out
<1>7. ASSUME NEW x \in Counters PROVE into[<<"metal", x>>].net >= 0 /\ out[<<"metal", x>>] = Nothing
  <2>1. Nothing.net = 0 /\ x \in Places /\ x # transit
    BY <1>5 DEF Nothing, Counters
  <2>2. into[<<"metal", x>>] = m \/ into[<<"metal", x>>] = Nothing
    BY <1>6, <2>1
  <2> QED
    BY <1>3, <1>6, <2>1, <2>2
<1>8. /\ stock' \in [Rows -> Measures] /\ MetalTold'
      /\ \A x \in Places : stock'[<<"metal", x>>] = Minus(Plus(stock[<<"metal", x>>], into[<<"metal", x>>]), out[<<"metal", x>>])
  BY <1>0, <1>2, <1>4, <1>6, <1>7, BatchFacts
<1>9. \A x \in Places : stock'[<<"metal", x>>] =
        Minus(Plus(stock[<<"metal", x>>], IF x = target THEN m ELSE Nothing), IF x = transit THEN m ELSE Nothing)
  BY <1>6, <1>8
<1> HIDE DEF row
<1> QED
  BY <1>2, <1>3, <1>8, <1>9 DEF set, m, transit, row

LEMMA landKeeps ==
  ASSUME GoodsInv, NEW s \in Sessions, NEW t \in Transfers, land(s, t), UNCHANGED purchaseVars
  PROVE  GoodsInv'
<1>0. piece \in [Pieces -> PieceRows] /\ transfer \in [Transfers -> TransferRows] /\ FloorTold /\ FloorTypeOK
  BY DEF GoodsInv, GoodsTypeOK, FloorTypeOK
<1>1. PICK status \in {"received", "cancelled"}, target \in Counters :
        /\ transfer[t].status = "in_transit" /\ transfer[t].to \in Counters
        /\ transfer' = [transfer EXCEPT ![t].status = status]
        /\ piece' = [p \in Pieces |-> IF p \in transfer[t].pieces
             THEN [piece[p] EXCEPT !.place = target, !.status = "in_stock"] ELSE piece[p]]
        /\ stock' \in [Rows -> Measures] /\ MetalTold'
        /\ \A x \in Places : stock'[<<"metal", x>>] =
             Minus(Plus(stock[<<"metal", x>>], IF x = target THEN transfer[t].metal ELSE Nothing),
                   IF x = Transit[BranchOf[transfer[t].to]] THEN transfer[t].metal ELSE Nothing)
        /\ UNCHANGED <<bound, count, asked>>
  BY landFacts
<1> DEFINE moved(p) == [piece[p] EXCEPT !.place = target, !.status = "in_stock"]
<1>2. \A p \in Pieces : moved(p) \in PieceRows /\ moved(p).lot = piece[p].lot
  BY <1>0 DEF PieceRows, Counters
<1>3. piece' = [p \in Pieces |-> IF p \in transfer[t].pieces THEN moved(p) ELSE piece[p]]
  BY <1>1
<1> HIDE DEF moved
<1>4. piece' \in [Pieces -> PieceRows] /\ \A p \in Pieces : piece'[p].lot = piece[p].lot
  BY <1>0, <1>2, <1>3
<1>5. /\ transfer' \in [Transfers -> TransferRows]
      /\ \A x \in Transfers : /\ transfer'[x].metal = transfer[x].metal /\ transfer'[x].from = transfer[x].from
                              /\ transfer'[x].to = transfer[x].to
                              /\ transfer'[x].status # "none" => transfer[x].status # "none"
  BY <1>0, <1>1 DEF TransferRows
<1>6. bound' = bound /\ count' = count /\ asked' = asked
  BY <1>1
<1>7. FloorTypeOK'
  BY <1>0, <1>5, <1>6 DEF FloorTypeOK
<1>8. FloorTold'
  BY <1>0, <1>5, <1>6 DEF FloorTold
<1> QED
  BY <1>1, <1>4, <1>6, <1>7, <1>8, FloorKeeps

\* Metal put at or taken from a counter as the location carries it, or none.
LEMMA LotOrNothing ==
  ASSUME stock \in [Rows -> Measures], MetalTold, NEW l \in Counters, NEW weight \in Nat, NEW given \in BOOLEAN
  PROVE  LET m == IF given THEN lotMovement(l, weight) ELSE Nothing IN m \in Measures /\ m.net >= 0
<1>1. lotMovement(l, weight) \in Measures /\ lotMovement(l, weight).net = weight
  BY LotMovementTyped
<1>2. Nothing \in Measures /\ Nothing.net = 0
  BY DEF Nothing, Measures
<1> QED
  BY <1>1, <1>2

\* A batch whose metal comes and goes at one counter.
LEMMA CounterFacts ==
  ASSUME stock \in [Rows -> Measures], MetalTold, NEW into \in [Rows -> Measures], NEW out \in [Rows -> Measures],
         NEW l \in Counters, into[<<"metal", l>>].net >= 0,
         \A x \in Places \ {l} : into[<<"metal", x>>] = Nothing /\ out[<<"metal", x>>] = Nothing,
         recordMovements(into, out, FALSE)
  PROVE  /\ stock' \in [Rows -> Measures] /\ MetalTold'
         /\ \A x \in Places \ {l} : stock'[<<"metal", x>>] = stock[<<"metal", x>>]
<1> DEFINE allowed == FALSE
<1>1. allowed \in BOOLEAN /\ recordMovements(into, out, allowed) /\ ~allowed
  OBVIOUS
<1> HIDE DEF allowed
<1>2. ASSUME NEW x \in Counters PROVE into[<<"metal", x>>].net >= 0
  <2>1. Nothing.net = 0 /\ x \in Places
    BY DEF Nothing, Counters
  <2>2. x = l \/ into[<<"metal", x>>] = Nothing
    BY <2>1
  <2> QED
    BY <2>1, <2>2
<1>3. /\ stock' \in [Rows -> Measures] /\ MetalTold'
      /\ \A x \in Places : stock'[<<"metal", x>>] = Minus(Plus(stock[<<"metal", x>>], into[<<"metal", x>>]), out[<<"metal", x>>])
  BY <1>1, <1>2, BatchFacts
<1>4. ASSUME NEW x \in Places \ {l} PROVE stock'[<<"metal", x>>] = stock[<<"metal", x>>]
  <2>1. <<"metal", x>> \in Rows
    BY DEF Rows
  <2>2. stock'[<<"metal", x>>] = Minus(Plus(stock[<<"metal", x>>], Nothing), Nothing)
    BY <1>3
  <2> QED
    BY <2>1, <2>2, MeasureFacts
<1> QED
  BY <1>3, <1>4

LEMMA adjustStockFacts ==
  ASSUME GoodsInv, NEW s \in Sessions, adjustStock(s)
  PROVE  \E l \in Counters, set \in SUBSET Pieces :
           /\ stock' \in [Rows -> Measures] /\ MetalTold'
           /\ \A x \in Places \ {l} : stock'[<<"metal", x>>] = stock[<<"metal", x>>]
           /\ \A p \in set : InStock(p)
           /\ piece' = [p \in Pieces |-> IF p \in set THEN [piece[p] EXCEPT !.status = "written_off"] ELSE piece[p]]
           /\ UNCHANGED <<bound, floorVars>>
<1>0. piece \in [Pieces -> PieceRows] /\ stock \in [Rows -> Measures] /\ MetalTold /\ bound \in Bounds
  BY DEF GoodsInv, GoodsTypeOK
<1>1. PICK l \in bound.at, set \in SUBSET Pieces, weight \in Scales, found \in BOOLEAN :
        LET metal == IF weight = 0 THEN Nothing ELSE lotMovement(l, weight) IN
        /\ Atomic(s) /\ bound.adjusts
        /\ set # {} \/ weight > 0
        /\ found => set = {} /\ stock[<<"metal", l>>].net + weight <= bound.metalMost
        /\ \A p \in set : InStock(p) /\ BranchOf[piece[p].place] = BranchOf[l]
        /\ recordMovements(At("metal", l, IF found THEN metal ELSE Nothing),
                           With(PiecesAt(WhereItIs(set)), At("metal", l, IF found THEN Nothing ELSE metal)), FALSE)
        /\ piece' = [p \in Pieces |-> IF p \in set THEN [piece[p] EXCEPT !.status = "written_off"] ELSE piece[p]]
        /\ UNCHANGED <<bound, floorVars>>
  BY Zenon DEF adjustStock
<1> DEFINE lot_ == IF weight = 0 THEN Nothing ELSE lotMovement(l, weight)
           a == IF found THEN lot_ ELSE Nothing
           b == IF found THEN Nothing ELSE lot_
           f == PiecesAt(WhereItIs(set))
           into == At("metal", l, a)
           out == With(f, At("metal", l, b))
<1>2. /\ recordMovements(into, out, FALSE) /\ \A p \in set : InStock(p)
      /\ piece' = [p \in Pieces |-> IF p \in set THEN [piece[p] EXCEPT !.status = "written_off"] ELSE piece[p]]
      /\ UNCHANGED <<bound, floorVars>>
  BY <1>1
<1>3. l \in Counters /\ weight \in Nat
  BY <1>0, BoundFacts, FloorAssumption
<1>4. lot_ \in Measures /\ lot_.net >= 0
  <2> DEFINE given == weight # 0
  <2>1. lot_ = IF given THEN lotMovement(l, weight) ELSE Nothing
    OBVIOUS
  <2>2. given \in BOOLEAN
    OBVIOUS
  <2> HIDE DEF given, lot_
  <2> QED
    BY <1>0, <1>3, <2>1, <2>2, LotOrNothing
<1> HIDE DEF lot_
<1>5. a \in Measures /\ b \in Measures /\ a.net >= 0
  <2>1. Nothing \in Measures /\ Nothing.net = 0
    BY DEF Nothing, Measures
  <2> QED
    BY <1>4, <2>1
<1>6. f \in [Rows -> Measures] /\ \A x \in Places : f[<<"metal", x>>] = Nothing
  BY <1>0, PiecesAtPlaces
<1> HIDE DEF a, b, f
<1>7. /\ out \in [Rows -> Measures]
      /\ \A x \in Places : out[<<"metal", x>>] = IF x = l THEN b ELSE Nothing
  BY <1>5, <1>6, MetalOf
<1>8. into \in [Rows -> Measures] /\ \A r \in Rows : into[r] = IF r = <<"metal", l>> THEN a ELSE Nothing
  BY <1>5, AtTyped
<1> HIDE DEF into, out
<1>9. ASSUME NEW x \in Places
      PROVE  /\ into[<<"metal", x>>] = a \/ into[<<"metal", x>>] = Nothing
             /\ x # l => into[<<"metal", x>>] = Nothing /\ out[<<"metal", x>>] = Nothing
  <2>1. <<"metal", x>> \in Rows
    BY DEF Rows
  <2> QED
    BY <1>7, <1>8, <2>1
<1>10. /\ stock' \in [Rows -> Measures] /\ MetalTold'
       /\ \A x \in Places \ {l} : stock'[<<"metal", x>>] = stock[<<"metal", x>>]
  <2>1. into[<<"metal", l>>].net >= 0
    <3>1. l \in Places /\ Nothing.net = 0
      BY <1>3 DEF Counters, Nothing
    <3>2. into[<<"metal", l>>] = a \/ into[<<"metal", l>>] = Nothing
      BY <1>9, <3>1
    <3> QED
      BY <1>5, <3>1, <3>2
  <2>2. \A x \in Places \ {l} : into[<<"metal", x>>] = Nothing /\ out[<<"metal", x>>] = Nothing
    BY <1>9
  <2>3. recordMovements(into, out, FALSE) /\ into \in [Rows -> Measures] /\ out \in [Rows -> Measures]
    BY <1>2, <1>7, <1>8
  <2> QED
    BY <1>0, <1>3, <2>1, <2>2, <2>3, CounterFacts
<1> QED
  BY <1>2, <1>3, <1>10

LEMMA adjustStockKeeps ==
  ASSUME GoodsInv, NEW s \in Sessions, adjustStock(s), UNCHANGED purchaseVars
  PROVE  GoodsInv'
<1>0. piece \in [Pieces -> PieceRows]
  BY DEF GoodsInv, GoodsTypeOK
<1>1. PICK l \in Counters, set \in SUBSET Pieces :
        /\ stock' \in [Rows -> Measures] /\ MetalTold'
        /\ \A x \in Places \ {l} : stock'[<<"metal", x>>] = stock[<<"metal", x>>]
        /\ \A p \in set : InStock(p)
        /\ piece' = [p \in Pieces |-> IF p \in set THEN [piece[p] EXCEPT !.status = "written_off"] ELSE piece[p]]
        /\ UNCHANGED <<bound, floorVars>>
  BY adjustStockFacts
<1>2. piece' \in [Pieces -> PieceRows] /\ \A p \in Pieces : piece'[p].lot = piece[p].lot
  BY <1>0, <1>1 DEF PieceRows
<1>3. FloorTypeOK' /\ FloorTold'
  BY <1>1, FloorStays
<1> QED
  BY <1>1, <1>2, <1>3, FloorKeeps

\* What moves a piece moves no metal.
LEMMA PieceMoved ==
  ASSUME stock \in [Rows -> Measures], MetalTold, NEW l, NEW k, NEW a \in Measures, NEW b \in Measures, NEW allowed \in BOOLEAN,
         recordMovements(At("tagged", l, a), At("tagged", k, b), allowed)
  PROVE  /\ stock' \in [Rows -> Measures] /\ MetalTold'
         /\ \A x \in Places : stock'[<<"metal", x>>] = stock[<<"metal", x>>]
<1> DEFINE into == At("tagged", l, a)
           out == At("tagged", k, b)
<1>1. /\ into \in [Rows -> Measures] /\ out \in [Rows -> Measures] /\ recordMovements(into, out, allowed)
      /\ \A r \in Rows : into[r] = IF r = <<"tagged", l>> THEN a ELSE Nothing
      /\ \A r \in Rows : out[r] = IF r = <<"tagged", k>> THEN b ELSE Nothing
  BY AtTyped
<1> HIDE DEF into, out
<1>2. \A x \in Places : into[<<"metal", x>>] = Nothing /\ out[<<"metal", x>>] = Nothing
  <2> SUFFICES ASSUME NEW x \in Places PROVE into[<<"metal", x>>] = Nothing /\ out[<<"metal", x>>] = Nothing
    OBVIOUS
  <2>1. <<"metal", x>> \in Rows
    BY DEF Rows
  <2> QED
    BY <1>1, <2>1
<1>3. ASSUME NEW x \in Counters PROVE into[<<"metal", x>>].net >= 0 /\ out[<<"metal", x>>] = Nothing
  <2>1. Nothing.net >= 0 /\ x \in Places
    BY DEF Counters, Nothing
  <2>2. into[<<"metal", x>>] = Nothing /\ out[<<"metal", x>>] = Nothing
    BY <1>2, <2>1
  <2> QED
    BY <2>1, <2>2
<1>4. /\ stock' \in [Rows -> Measures] /\ MetalTold'
      /\ \A x \in Places : stock'[<<"metal", x>>] = Minus(Plus(stock[<<"metal", x>>], into[<<"metal", x>>]), out[<<"metal", x>>])
  BY <1>1, <1>3, BatchFacts
<1>5. ASSUME NEW x \in Places PROVE stock'[<<"metal", x>>] = stock[<<"metal", x>>]
  <2>1. <<"metal", x>> \in Rows
    BY DEF Rows
  <2>2. stock'[<<"metal", x>>] = Minus(Plus(stock[<<"metal", x>>], Nothing), Nothing)
    BY <1>2, <1>4
  <2> QED
    BY <2>1, <2>2, MeasureFacts
<1> QED
  BY <1>4, <1>5

\* One piece re-weighed, sold, or back from a sale: only its own row and its place's
\* pieces change.
LEMMA OnePieceFacts ==
  ASSUME GoodsInv, NEW s \in Sessions, NEW p \in Pieces,
         correctPieceWeights(s, p) \/ sellPiece(s, p) \/ undoSale(s, p)
  PROVE  /\ stock' \in [Rows -> Measures] /\ MetalTold'
         /\ \A x \in Places : stock'[<<"metal", x>>] = stock[<<"metal", x>>]
         /\ piece' \in [Pieces -> PieceRows] /\ \A q \in Pieces \ {p} : piece'[q] = piece[q]
         /\ piece'[p].lot = piece[p].lot /\ piece'[p].cost = piece[p].cost
         /\ \/ InStock(p) /\ piece'[p].status = piece[p].status /\ piece'[p].soldAt = piece[p].soldAt
            \/ InStock(p) /\ piece'[p].status = "sold"
            \/ piece[p].soldAt # None /\ piece'[p].soldAt = None /\ piece'[p].status = "in_stock"
         /\ UNCHANGED <<bound, floorVars>>
<1>0. piece \in [Pieces -> PieceRows] /\ stock \in [Rows -> Measures] /\ MetalTold
  BY DEF GoodsInv, GoodsTypeOK
<1> DEFINE old == Weighed(p)
<1>1. old \in Measures /\ TRUE \in BOOLEAN /\ FALSE \in BOOLEAN /\ Nothing \in Measures
  BY <1>0, MeasureFacts DEF Weighed, Measures, PieceRows
<1>2. CASE correctPieceWeights(s, p)
  <2>1. PICK w \in Reweighs :
          /\ InStock(p)
          /\ recordMovements(At("tagged", piece[p].place, [old EXCEPT !.gross = w.gross, !.net = w.net]),
                             At("tagged", piece[p].place, old), FALSE)
          /\ piece' = [piece EXCEPT ![p].gross = w.gross, ![p].net = w.net]
          /\ UNCHANGED <<bound, floorVars>>
    BY <1>2 DEF correctPieceWeights
  <2> DEFINE new == [old EXCEPT !.gross = w.gross, !.net = w.net]
             l == piece[p].place
  <2>2. w.gross \in Nat /\ w.net \in Nat
    BY FloorAssumption
  <2>3. new \in Measures
    <3> DEFINE g == w.gross
               n == w.net
    <3>1. g \in Int /\ n \in Int /\ new = [old EXCEPT !.gross = g, !.net = n]
      BY <2>2
    <3> HIDE DEF old, g, n, new
    <3> QED
      BY <1>1, <3>1 DEF Measures
  <2>4. recordMovements(At("tagged", l, new), At("tagged", l, old), FALSE)
    BY <2>1
  <2>5. /\ piece' \in [Pieces -> PieceRows] /\ \A q \in Pieces \ {p} : piece'[q] = piece[q]
        /\ piece'[p].lot = piece[p].lot /\ piece'[p].cost = piece[p].cost /\ piece'[p].status = piece[p].status /\ piece'[p].soldAt = piece[p].soldAt
    BY <1>0, <2>1, <2>2 DEF PieceRows
  <2> HIDE DEF new, l, old
  <2>6. /\ stock' \in [Rows -> Measures] /\ MetalTold'
        /\ \A x \in Places : stock'[<<"metal", x>>] = stock[<<"metal", x>>]
    BY <1>0, <1>1, <2>3, <2>4, PieceMoved
  <2> QED
    BY <2>1, <2>5, <2>6
<1>3. CASE sellPiece(s, p)
  <2> DEFINE l == piece[p].place
  <2>1. /\ InStock(p) /\ recordMovements(At("tagged", l, Nothing), At("tagged", l, old), FALSE)
        /\ piece' = [piece EXCEPT ![p].status = "sold", ![p].soldAt = piece[p].place]
        /\ UNCHANGED <<bound, floorVars>>
    BY <1>3 DEF sellPiece
  <2>2. /\ piece' \in [Pieces -> PieceRows] /\ \A q \in Pieces \ {p} : piece'[q] = piece[q]
        /\ piece'[p].lot = piece[p].lot /\ piece'[p].cost = piece[p].cost /\ piece'[p].status = "sold"
    BY <1>0, <2>1 DEF PieceRows
  <2> HIDE DEF l, old
  <2>3. /\ stock' \in [Rows -> Measures] /\ MetalTold'
        /\ \A x \in Places : stock'[<<"metal", x>>] = stock[<<"metal", x>>]
    BY <1>0, <1>1, <2>1, PieceMoved
  <2> QED
    BY <2>1, <2>2, <2>3
<1>4. CASE undoSale(s, p)
  <2> DEFINE l == piece[p].soldAt
  <2>1. /\ piece[p].soldAt # None /\ recordMovements(At("tagged", l, old), At("tagged", l, Nothing), TRUE)
        /\ piece' = [piece EXCEPT ![p].status = "in_stock", ![p].soldAt = None]
        /\ UNCHANGED <<bound, floorVars>>
    BY <1>4 DEF undoSale
  <2>2. /\ piece' \in [Pieces -> PieceRows] /\ \A q \in Pieces \ {p} : piece'[q] = piece[q]
        /\ piece'[p].lot = piece[p].lot /\ piece'[p].cost = piece[p].cost /\ piece'[p].status = "in_stock" /\ piece'[p].soldAt = None
    BY <1>0, <2>1 DEF PieceRows
  <2> HIDE DEF l, old
  <2>3. /\ stock' \in [Rows -> Measures] /\ MetalTold'
        /\ \A x \in Places : stock'[<<"metal", x>>] = stock[<<"metal", x>>]
    BY <1>0, <1>1, <2>1, PieceMoved
  <2> QED
    BY <2>1, <2>2, <2>3
<1> QED
  BY <1>2, <1>3, <1>4

LEMMA OnePieceKeeps ==
  ASSUME GoodsInv, NEW s \in Sessions, NEW p \in Pieces,
         correctPieceWeights(s, p) \/ sellPiece(s, p) \/ undoSale(s, p), UNCHANGED purchaseVars
  PROVE  GoodsInv'
<1>1. /\ stock' \in [Rows -> Measures] /\ MetalTold' /\ piece' \in [Pieces -> PieceRows]
      /\ \A q \in Pieces : piece'[q].lot = piece[q].lot
      /\ UNCHANGED <<bound, floorVars>>
  BY OnePieceFacts
<1>2. FloorTypeOK' /\ FloorTold'
  BY <1>1, FloorStays
<1> QED
  BY <1>1, <1>2, FloorKeeps

LEMMA UnaskedTyped == Unasked \in Questions /\ Unasked.pc = "idle"
<1>1. 0 \in Nat /\ None \in Places \cup {None} /\ 0 \in Int /\ {} \in SUBSET Pieces
  OBVIOUS
<1> QED
  BY <1>1 DEF Unasked, Questions

\* Counting moves no goods until a count is posted.
LEMMA CountingKeeps ==
  ASSUME GoodsInv, UNCHANGED purchaseVars, UNCHANGED <<shelfVars, transfer>>, count' \in [Counts -> CountRows],
         asked' \in [Sessions -> Questions],
         \A c \in Counts : /\ count[c].status # "none" => count'[c].status # "none"
                           /\ count'[c].status # "none" => count'[c].place \in Counters,
         \A s \in Sessions : asked'[s] \in {asked[s], Unasked} \/
           /\ s \in bound.sessions /\ (asked'[s].pc = "start" => asked'[s].place \in Counters)
           /\ asked'[s].pc = "post" => asked'[s].count \in Counts /\ count'[asked'[s].count].status # "none"
  PROVE  GoodsInv'
<1>0. FloorTold /\ FloorTypeOK /\ MetalTold /\ piece \in [Pieces -> PieceRows] /\ stock \in [Rows -> Measures]
  BY DEF GoodsInv, GoodsTypeOK
<1>1. bound' = bound /\ piece' = piece /\ stock' = stock /\ transfer' = transfer
  BY DEF shelfVars
<1>2. FloorTypeOK' /\ MetalTold'
  BY <1>0, <1>1 DEF FloorTypeOK, MetalTold
<1>3. FloorTold'
  <2> SUFFICES ASSUME NEW s \in Sessions
               PROVE  /\ asked'[s].pc # "idle" => s \in bound.sessions
                      /\ asked'[s].pc = "start" => asked'[s].place \in Counters
                      /\ asked'[s].pc = "post" => asked'[s].count \in Counts /\ count'[asked'[s].count].status # "none"
    BY <1>0, <1>1 DEF FloorTold
  <2>1. CASE asked'[s] = Unasked
    BY <2>1, UnaskedTyped
  <2>2. CASE asked'[s] = asked[s]
    BY <1>0, <2>2 DEF FloorTold
  <2> QED
    BY <2>1, <2>2
<1> QED
  BY <1>0, <1>1, <1>2, <1>3, FloorKeeps

LEMMA AskedKeeps ==
  ASSUME GoodsInv, NEW s \in Sessions, UNCHANGED purchaseVars,
         BeginStartCount(s) \/ (\E c \in Counts : BeginPostCount(s, c)) \/ Abandon(s)
  PROVE  GoodsInv'
<1>0. /\ count \in [Counts -> CountRows] /\ asked \in [Sessions -> Questions] /\ FloorTold /\ bound \in Bounds
      /\ stock \in [Rows -> Measures]
  BY DEF GoodsInv, GoodsTypeOK, FloorTypeOK
<1>1. UNCHANGED <<shelfVars, transfer>> /\ count' = count
  BY DEF BeginStartCount, BeginPostCount, Abandon
<1>2. PICK q \in Questions :
        /\ asked' = [asked EXCEPT ![s] = q]
        /\ q = Unasked \/ /\ s \in bound.sessions /\ (q.pc = "start" => q.place \in Counters)
                          /\ q.pc = "post" => q.count \in Counts /\ count[q.count].status # "none"
  <2>1. CASE BeginStartCount(s)
    <3>1. PICK l \in bound.at :
            Atomic(s) /\ asked' = [asked EXCEPT ![s] = [Unasked EXCEPT !.pc = "start", !.place = l]]
      BY <2>1 DEF BeginStartCount
    <3> DEFINE q == [Unasked EXCEPT !.pc = "start", !.place = l]
    <3>2. l \in Counters /\ s \in bound.sessions
      BY <1>0, <3>1, BoundFacts DEF Atomic
    <3>3. q \in Questions /\ q.pc = "start" /\ q.place = l
      BY <3>2, UnaskedTyped DEF Questions, Counters
    <3> QED
      BY <3>1, <3>2, <3>3
  <2>2. CASE \E c \in Counts : BeginPostCount(s, c)
    <3>1. PICK c \in Counts : BeginPostCount(s, c)
      BY <2>2
    <3>2. PICK writeOffMissing \in BOOLEAN :
            /\ Atomic(s) /\ openCount(c)
            /\ asked' = [asked EXCEPT ![s] =
                 [Unasked EXCEPT !.pc = "post", !.count = c, !.moveHere = elsewhere(c),
                                 !.missing = IF writeOffMissing THEN missingFrom(c) ELSE {},
                                 !.diff = IF count[c].weighed = None THEN 0
                                          ELSE count[c].weighed - stock[<<"metal", count[c].place>>].net]]
      BY <3>1 DEF BeginPostCount
    <3> DEFINE missing == IF writeOffMissing THEN missingFrom(c) ELSE {}
               diff == IF count[c].weighed = None THEN 0
                       ELSE count[c].weighed - stock[<<"metal", count[c].place>>].net
               here == elsewhere(c)
               q == [Unasked EXCEPT !.pc = "post", !.count = c, !.moveHere = here, !.missing = missing, !.diff = diff]
    <3>3. count[c].status = "open" /\ s \in bound.sessions /\ count[c].place \in Counters
      BY <1>0, <3>2 DEF Atomic, openCount, FloorTold
    <3>4. diff \in Int
      <4>1. <<"metal", count[c].place>> \in Rows
        BY <3>3 DEF Rows, Counters
      <4>2. count[c].weighed \in Nat \cup {None}
        BY <1>0 DEF CountRows
      <4>3. stock[<<"metal", count[c].place>>].net \in Int
        BY <1>0, <4>1 DEF Measures
      <4> QED
        BY <4>2, <4>3
    <3>5. missing \in SUBSET Pieces /\ here \in SUBSET Pieces
      BY DEF missingFrom, elsewhere
    <3>6. c \in Nat
      <4>1. MaxCounts \in Int
        BY FloorAssumption
      <4> QED
        BY <4>1 DEF Counts
    <3>7. asked' = [asked EXCEPT ![s] = q]
      BY <3>2
    <3> HIDE DEF missing, diff, here
    <3>8. q \in Questions /\ q.pc = "post" /\ q.count = c
      BY <3>4, <3>5, <3>6, UnaskedTyped DEF Questions
    <3> HIDE DEF q
    <3> QED
      BY <3>3, <3>7, <3>8
  <2>3. CASE Abandon(s)
    BY <2>3, UnaskedTyped DEF Abandon, Answered
  <2> QED
    BY <2>1, <2>2, <2>3
<1>3. asked' \in [Sessions -> Questions] /\ asked'[s] = q /\ \A x \in Sessions \ {s} : asked'[x] = asked[x]
  BY <1>0, <1>2
<1>4. count' \in [Counts -> CountRows]
      /\ \A c \in Counts : /\ count[c].status # "none" => count'[c].status # "none"
                           /\ count'[c].status # "none" => count'[c].place \in Counters
  BY <1>0, <1>1 DEF FloorTold
<1>5. \A x \in Sessions : asked'[x] \in {asked[x], Unasked} \/
           /\ x \in bound.sessions /\ (asked'[x].pc = "start" => asked'[x].place \in Counters)
           /\ asked'[x].pc = "post" => asked'[x].count \in Counts /\ count'[asked'[x].count].status # "none"
  <2> SUFFICES ASSUME NEW x \in Sessions
               PROVE  asked'[x] \in {asked[x], Unasked} \/
                      /\ x \in bound.sessions /\ (asked'[x].pc = "start" => asked'[x].place \in Counters)
                      /\ asked'[x].pc = "post" => asked'[x].count \in Counts /\ count'[asked'[x].count].status # "none"
    OBVIOUS
  <2>1. CASE x = s
    BY <1>1, <1>2, <1>3, <2>1
  <2>2. CASE x # s
    BY <1>3, <2>2
  <2> QED
    BY <2>1, <2>2
<1> QED
  BY <1>1, <1>3, <1>4, <1>5, CountingKeeps

LEMMA CountKeeps ==
  ASSUME GoodsInv, NEW s \in Sessions, NEW c \in Counts, UNCHANGED purchaseVars,
         scanTags(s, c) \/ weighLot(s, c) \/ removeCountLine(s, c) \/ cancelCount(s, c)
  PROVE  GoodsInv'
<1>0. count \in [Counts -> CountRows] /\ asked \in [Sessions -> Questions] /\ FloorTold
  BY DEF GoodsInv, GoodsTypeOK, FloorTypeOK
<1>1. UNCHANGED <<shelfVars, transfer>> /\ asked' = asked /\ count[c].status = "open"
  BY DEF scanTags, weighLot, removeCountLine, cancelCount, openCount
<1>2. /\ count' \in [Counts -> CountRows]
      /\ \A x \in Counts : count'[x].place = count[x].place /\ (count'[x].status # "none" <=> count[x].status # "none")
  <2>1. CASE scanTags(s, c)
    <3>1. PICK p \in Pieces : count' = [count EXCEPT ![c].line[p] = outcome(c, p)]
      BY <2>1 DEF scanTags
    <3> DEFINE found == outcome(c, p)
    <3>2. found \in {"none", "found", "elsewhere", "unknown"}
      BY DEF outcome
    <3>3. count' = [count EXCEPT ![c].line[p] = found]
      BY <3>1
    <3> HIDE DEF found
    <3> QED
      BY <1>0, <1>1, <3>2, <3>3 DEF CountRows
  <2>2. CASE weighLot(s, c)
    <3>1. PICK weight \in Scales : count' = [count EXCEPT ![c].weighed = weight]
      BY <2>2 DEF weighLot
    <3>2. weight \in Nat
      BY FloorAssumption
    <3> QED
      BY <1>0, <1>1, <3>1, <3>2 DEF CountRows
  <2>3. CASE removeCountLine(s, c)
    <3>1. CASE count' = [count EXCEPT ![c].weighed = None]
      BY <1>0, <1>1, <3>1 DEF CountRows
    <3>2. CASE \E p \in Pieces : count' = [count EXCEPT ![c].line[p] = "none"]
      <4>1. PICK p \in Pieces : count' = [count EXCEPT ![c].line[p] = "none"]
        BY <3>2
      <4> QED
        BY <1>0, <1>1, <4>1 DEF CountRows
    <3> QED
      BY <2>3, <3>1, <3>2 DEF removeCountLine
  <2>4. CASE cancelCount(s, c)
    BY <1>0, <1>1, <2>4 DEF cancelCount, CountRows
  <2> QED
    BY <2>1, <2>2, <2>3, <2>4
<1>3. \A x \in Counts : /\ count[x].status # "none" => count'[x].status # "none"
                        /\ count'[x].status # "none" => count'[x].place \in Counters
  BY <1>0, <1>2 DEF FloorTold
<1>4. asked' \in [Sessions -> Questions] /\ \A x \in Sessions : asked'[x] \in {asked[x], Unasked}
  BY <1>0, <1>1
<1> QED
  BY <1>1, <1>2, <1>3, <1>4, CountingKeeps

LEMMA startCountKeeps ==
  ASSUME GoodsInv, NEW s \in Sessions, startCount(s), UNCHANGED purchaseVars
  PROVE  GoodsInv'
<1>0. /\ count \in [Counts -> CountRows] /\ asked \in [Sessions -> Questions] /\ FloorTold /\ bound \in Bounds
  BY DEF GoodsInv, GoodsTypeOK, FloorTypeOK
<1> DEFINE l == asked[s].place
<1>1. PICK c \in Unused(count, bound.counts) : count' = [count EXCEPT ![c].status = "open", ![c].place = l]
  BY DEF startCount
<1>2. l \in Counters /\ asked' = [asked EXCEPT ![s] = Unasked] /\ UNCHANGED <<shelfVars, transfer>>
  BY <1>0 DEF startCount, Answered, FloorTold
<1>3. c \in Counts /\ l \in Places
  BY <1>0, <1>2, BoundFacts DEF Counters
<1> HIDE DEF l
<1>4. /\ count' \in [Counts -> CountRows] /\ count'[c].status = "open" /\ count'[c].place = l
      /\ \A x \in Counts \ {c} : count'[x] = count[x]
  BY <1>0, <1>1, <1>3 DEF CountRows
<1>5. \A x \in Counts : /\ count[x].status # "none" => count'[x].status # "none"
                        /\ count'[x].status # "none" => count'[x].place \in Counters
  BY <1>0, <1>2, <1>4 DEF FloorTold
<1>6. asked' \in [Sessions -> Questions] /\ \A x \in Sessions : asked'[x] \in {asked[x], Unasked}
  BY <1>0, <1>2, UnaskedTyped
<1> QED
  BY <1>2, <1>4, <1>5, <1>6, CountingKeeps

\* Posting a count moves and writes off what it was set against; metal only at its own place.
LEMMA postCountFacts ==
  ASSUME GoodsInv, NEW s \in Sessions, postCount(s)
  PROVE  LET q == asked[s]
             here == count[q.count].place
         IN
         /\ q.pc = "post" /\ q.count \in Counts /\ here \in Counters
         /\ stock' \in [Rows -> Measures] /\ MetalTold'
         /\ \A x \in Places \ {here} : stock'[<<"metal", x>>] = stock[<<"metal", x>>]
         /\ \A p \in Pieces :
              \/ piece'[p] = piece[p]
              \/ piece'[p] = [piece[p] EXCEPT !.place = here]
              \/ p \in q.missing /\ piece'[p] = [piece[p] EXCEPT !.status = "written_off"]
         /\ DOMAIN piece' = Pieces /\ piece' = [p \in Pieces |-> piece'[p]]
         /\ count' = [count EXCEPT ![q.count].status = "posted"]
         /\ asked' = [asked EXCEPT ![s] = Unasked]
         /\ UNCHANGED <<bound, transfer>>
<1>0. /\ piece \in [Pieces -> PieceRows] /\ stock \in [Rows -> Measures] /\ MetalTold /\ FloorTold
      /\ asked \in [Sessions -> Questions]
  BY DEF GoodsInv, GoodsTypeOK, FloorTypeOK
<1> DEFINE q == asked[s]
           here == count[q.count].place
           moved == {p \in q.moveHere : InStock(p)}
           lost == {p \in q.missing : InStock(p)}
           weight == IF q.diff < 0 THEN -q.diff ELSE q.diff
           metal == IF q.diff = 0 THEN Nothing ELSE lotMovement(here, weight)
           a == IF q.diff > 0 THEN metal ELSE Nothing
           b == IF q.diff < 0 THEN metal ELSE Nothing
           f == PiecesAt(AllAt(moved, here))
           g == PiecesAt(WhereItIs(moved))
           h == PiecesAt(AllAt(lost, here))
           into == With(f, At("metal", here, a))
           out == With(With(g, h), At("metal", here, b))
<1>1. /\ q.pc = "post" /\ asked' = [asked EXCEPT ![s] = Unasked]
      /\ count' = [count EXCEPT ![q.count].status = "posted"] /\ UNCHANGED <<bound, transfer>>
  BY DEF postCount, Answered
<1>2. \/ UNCHANGED <<piece, stock>>
      \/ /\ recordMovements(into, out, FALSE)
         /\ piece' = [p \in Pieces |->
              IF p \in q.moveHere THEN [piece[p] EXCEPT !.place = here]
              ELSE IF p \in q.missing THEN [piece[p] EXCEPT !.status = "written_off"] ELSE piece[p]]
  BY DEF postCount
<1>3. q \in Questions /\ q.count \in Counts /\ here \in Counters /\ q.diff \in Int
  BY <1>0, <1>1 DEF FloorTold, Questions
<1>4. weight \in Nat
  BY <1>3
<1>5. moved \in SUBSET Pieces /\ lost \in SUBSET Pieces
  BY <1>3 DEF Questions
<1> HIDE DEF q, here, moved, lost, weight
<1>6. metal \in Measures /\ metal.net >= 0
  <2> DEFINE given == q.diff # 0
  <2>1. metal = IF given THEN lotMovement(here, weight) ELSE Nothing
    OBVIOUS
  <2>2. given \in BOOLEAN
    OBVIOUS
  <2> HIDE DEF given, metal
  <2> QED
    BY <1>0, <1>3, <1>4, <2>1, <2>2, LotOrNothing
<1> HIDE DEF metal
<1>7. a \in Measures /\ b \in Measures /\ a.net >= 0
  <2>1. Nothing \in Measures /\ Nothing.net = 0
    BY DEF Nothing, Measures
  <2> QED
    BY <1>6, <2>1
<1>8. /\ f \in [Rows -> Measures] /\ \A x \in Places : f[<<"metal", x>>] = Nothing
  BY <1>0, <1>5, PiecesAtPlaces
<1>9. /\ g \in [Rows -> Measures] /\ h \in [Rows -> Measures]
      /\ \A x \in Places : g[<<"metal", x>>] = Nothing /\ h[<<"metal", x>>] = Nothing
  BY <1>0, <1>5, PiecesAtPlaces
<1> HIDE DEF a, b, f, g, h
<1>10. With(g, h) \in [Rows -> Measures] /\ \A x \in Places : With(g, h)[<<"metal", x>>] = Nothing
  <2>1. With(g, h) \in [Rows -> Measures] /\ \A r \in Rows : With(g, h)[r] = Plus(g[r], h[r])
    BY <1>9, WithTyped
  <2>2. \A x \in Places : <<"metal", x>> \in Rows
    BY DEF Rows
  <2> QED
    BY <1>9, <2>1, <2>2, MeasureFacts
<1>11. /\ into \in [Rows -> Measures] /\ \A x \in Places : into[<<"metal", x>>] = IF x = here THEN a ELSE Nothing
  BY <1>7, <1>8, MetalOf
<1>12. /\ out \in [Rows -> Measures] /\ \A x \in Places : out[<<"metal", x>>] = IF x = here THEN b ELSE Nothing
  <2> DEFINE k == With(g, h)
  <2>1. k \in [Rows -> Measures] /\ \A x \in Places : k[<<"metal", x>>] = Nothing
    BY <1>10
  <2> HIDE DEF k
  <2>2. /\ With(k, At("metal", here, b)) \in [Rows -> Measures]
        /\ \A x \in Places : With(k, At("metal", here, b))[<<"metal", x>>] = IF x = here THEN b ELSE Nothing
    BY <1>7, <2>1, MetalOf
  <2> QED
    BY <2>2 DEF k
<1> HIDE DEF into, out
<1>13. /\ stock' \in [Rows -> Measures] /\ MetalTold'
       /\ \A x \in Places \ {here} : stock'[<<"metal", x>>] = stock[<<"metal", x>>]
  <2>1. CASE UNCHANGED <<piece, stock>>
    BY <1>0, <2>1 DEF MetalTold
  <2>2. CASE recordMovements(into, out, FALSE)
    <3>1. into[<<"metal", here>>].net >= 0
      BY <1>3, <1>7, <1>11 DEF Counters
    <3>2. \A x \in Places \ {here} : into[<<"metal", x>>] = Nothing /\ out[<<"metal", x>>] = Nothing
      BY <1>11, <1>12
    <3> QED
      BY <1>0, <1>3, <1>11, <1>12, <2>2, <3>1, <3>2, CounterFacts
  <2> QED
    BY <1>2, <2>1, <2>2
<1>14. /\ piece' = [p \in Pieces |-> piece'[p]]
       /\ \A p \in Pieces :
            \/ piece'[p] = piece[p]
            \/ piece'[p] = [piece[p] EXCEPT !.place = here]
            \/ p \in q.missing /\ piece'[p] = [piece[p] EXCEPT !.status = "written_off"]
  BY <1>0, <1>2
<1> QED
  BY <1>1, <1>3, <1>13, <1>14 DEF q, here

LEMMA postCountKeeps ==
  ASSUME GoodsInv, NEW s \in Sessions, postCount(s), UNCHANGED purchaseVars
  PROVE  GoodsInv'
<1>0. /\ count \in [Counts -> CountRows] /\ asked \in [Sessions -> Questions] /\ FloorTold /\ FloorTypeOK
      /\ piece \in [Pieces -> PieceRows]
  BY DEF GoodsInv, GoodsTypeOK, FloorTypeOK
<1> DEFINE q == asked[s]
           here == count[q.count].place
<1>1. /\ q.pc = "post" /\ q.count \in Counts /\ here \in Counters
      /\ stock' \in [Rows -> Measures] /\ MetalTold'
      /\ \A p \in Pieces :
           \/ piece'[p] = piece[p]
           \/ piece'[p] = [piece[p] EXCEPT !.place = here]
           \/ p \in q.missing /\ piece'[p] = [piece[p] EXCEPT !.status = "written_off"]
      /\ piece' = [p \in Pieces |-> piece'[p]]
      /\ count' = [count EXCEPT ![q.count].status = "posted"]
      /\ asked' = [asked EXCEPT ![s] = Unasked]
      /\ UNCHANGED <<bound, transfer>>
  BY postCountFacts
<1>2. here \in Places
  BY <1>1 DEF Counters
<1> HIDE DEF q, here
<1>3. \A p \in Pieces : piece'[p] \in PieceRows /\ piece'[p].lot = piece[p].lot
  <2> SUFFICES ASSUME NEW p \in Pieces PROVE piece'[p] \in PieceRows /\ piece'[p].lot = piece[p].lot
    OBVIOUS
  <2>1. piece[p] \in PieceRows
    BY <1>0
  <2>2. CASE piece'[p] = piece[p]
    BY <2>1, <2>2
  <2>3. CASE piece'[p] = [piece[p] EXCEPT !.place = here]
    BY <1>2, <2>1, <2>3 DEF PieceRows
  <2>4. CASE piece'[p] = [piece[p] EXCEPT !.status = "written_off"]
    BY <2>1, <2>4 DEF PieceRows
  <2> QED
    BY <1>1, <2>2, <2>3, <2>4
<1>4. piece' \in [Pieces -> PieceRows]
  BY <1>1, <1>3
<1>5. /\ count' \in [Counts -> CountRows]
      /\ \A c \in Counts : /\ count[c].status # "none" => count'[c].status # "none"
                           /\ count'[c].place = count[c].place
  <2> DEFINE k == q.count
  <2>1. k \in Counts /\ count' = [count EXCEPT ![k].status = "posted"]
    BY <1>1
  <2> HIDE DEF k
  <2> QED
    BY <1>0, <2>1 DEF CountRows
<1>6. asked' \in [Sessions -> Questions] /\ \A x \in Sessions : asked'[x] \in {asked[x], Unasked}
  BY <1>0, <1>1, UnaskedTyped
<1>7. FloorTypeOK'
  BY <1>0, <1>1, <1>5, <1>6 DEF FloorTypeOK
<1>8. \A c \in Counts : count'[c].status # "none" => count'[c].place \in Counters
  <2>1. count[q.count].status # "none"
    BY <1>0, <1>1 DEF FloorTold, q
  <2> QED
    BY <1>0, <1>1, <1>5, <2>1 DEF FloorTold
<1>9. FloorTold'
  <2> SUFFICES ASSUME NEW x \in Sessions
               PROVE  /\ asked'[x].pc # "idle" => x \in bound.sessions
                      /\ asked'[x].pc = "start" => asked'[x].place \in Counters
                      /\ asked'[x].pc = "post" => asked'[x].count \in Counts /\ count'[asked'[x].count].status # "none"
    BY <1>0, <1>1, <1>8 DEF FloorTold
  <2>1. CASE asked'[x] = Unasked
    BY <2>1, UnaskedTyped
  <2>2. CASE asked'[x] = asked[x]
    BY <1>0, <1>5, <2>2 DEF FloorTold
  <2> QED
    BY <1>6, <2>1, <2>2
<1> QED
  BY <1>1, <1>3, <1>4, <1>7, <1>9, FloorKeeps

-------------------------------------------------------------------------------
\* Nothing has happened yet.

LEMMA GoodsStarts ==
  ASSUME Init
  PROVE  GoodsInv
<1>1. /\ bound \in Bounds
      /\ piece = [p \in Pieces |-> IF p \in DOMAIN bound.pieces THEN bound.pieces[p] ELSE NoPiece]
      /\ stock = With(PiecesAt([p \in DOMAIN bound.pieces |-> bound.pieces[p].place]), bound.metal)
  BY DEF Init, ShelfInit
<1>2. piece \in [Pieces -> PieceRows] /\ \A p \in Pieces : piece[p].lot = 0
  <2>1. NoPiece \in PieceRows /\ NoPiece.lot = 0
    <3>1. None \in Places \cup {None} /\ 0 \in Nat /\ 0 \in Int
      OBVIOUS
    <3> QED
      BY <3>1 DEF NoPiece, PieceRows
  <2>2. \A p \in DOMAIN bound.pieces : bound.pieces[p] \in PieceRows /\ bound.pieces[p].lot = 0
    BY <1>1, ShelfAssumption
  <2> QED
    BY <1>1, <2>1, <2>2
<1>3. stock \in [Rows -> Measures] /\ MetalTold
  <2> DEFINE place == [p \in DOMAIN bound.pieces |-> bound.pieces[p].place]
             f == PiecesAt(place)
  <2>1. DOMAIN place \subseteq Pieces
    BY <1>1, ShelfAssumption
  <2> HIDE DEF place
  <2>2. f \in [Rows -> Measures] /\ \A l \in Places : f[<<"metal", l>>] = Nothing
    BY <1>2, <2>1, PiecesAtTyped
  <2>3. bound.metal \in [Rows -> Measures] /\ \A r \in Rows : bound.metal[r].net >= 0
    BY <1>1, ShelfAssumption
  <2>4. stock = With(f, bound.metal)
    BY <1>1 DEF place
  <2> HIDE DEF f
  <2>5. stock \in [Rows -> Measures] /\ \A r \in Rows : stock[r] = Plus(f[r], bound.metal[r])
    BY <2>2, <2>3, <2>4, WithTyped
  <2>6. ASSUME NEW l \in Counters PROVE stock[<<"metal", l>>].net >= 0
    <3>1. <<"metal", l>> \in Rows /\ l \in Places
      BY DEF Rows, Counters
    <3>2. stock[<<"metal", l>>] = bound.metal[<<"metal", l>>]
      BY <2>2, <2>3, <2>5, <3>1, MeasureFacts
    <3> QED
      BY <2>3, <3>1, <3>2
  <2> QED
    BY <2>5, <2>6 DEF MetalTold
<1>4. /\ order = [o \in Orders |-> NoOrder] /\ inward = [i \in Inwards |-> NoInward] /\ lot = [i \in Inwards |-> NoLot]
      /\ bill = [b \in Bills |-> NoBill] /\ back = [r \in Returns |-> NoReturn]
      /\ settled = [k \in Settlements |-> NoSettlement]
      /\ owing = [s \in Suppliers |-> [rupees |-> 0, metal |-> 0, fine |-> 0, fineIn |-> 0, valueIn |-> 0]]
      /\ account = [stock |-> 0, gst |-> 0, gap |-> 0, paid |-> 0] /\ errand = [c \in Clerks |-> Free]
  BY DEF Init, PurchasesInit
<1>5. PurchasesTypeOK
  <2>1. NoOrder \in OrderRows
    BY DEF NoOrder, OrderRows
  <2>2. NoLot \in LotRows
    BY MeasureFacts DEF NoLot, LotRows
  <2>3. NoBill \in BillRows
    BY DEF NoBill, BillRows
  <2>4. NoReturn \in ReturnRows
    BY MeasureFacts DEF NoReturn, ReturnRows
  <2>5. NoSettlement \in SettlementRows
    BY DEF NoSettlement, SettlementRows
  <2>6. [rupees |-> 0, metal |-> 0, fine |-> 0, fineIn |-> 0, valueIn |-> 0] \in Owings
    BY DEF Owings
  <2>7. account \in [stock : Int, gst : Int, gap : Int, paid : Int]
    BY <1>4
  <2> QED
    BY <1>4, <2>1, <2>2, <2>3, <2>4, <2>5, <2>6, <2>7, FreeTyped DEF PurchasesTypeOK
<1>6. /\ transfer = [t \in Transfers |-> NoTransfer] /\ count = [c \in Counts |-> NoCount]
      /\ asked = [s \in Sessions |-> Unasked]
  BY DEF Init, FloorInit
<1>7. FloorTypeOK
  <2>1. NoTransfer \in TransferRows
    BY MeasureFacts DEF NoTransfer, TransferRows
  <2>2. NoCount \in CountRows
    BY DEF NoCount, CountRows
  <2> QED
    BY <1>6, <2>1, <2>2, UnaskedTyped DEF FloorTypeOK
<1>8. FloorTold
  BY <1>6, UnaskedTyped DEF FloorTold, NoTransfer, NoCount, Nothing
<1>9. ErrandsTold
  BY <1>4 DEF ErrandsTold, ErrandTold, Returning, Free
<1>10. InwardsTold /\ PiecesTold /\ SettlementsTold
  BY <1>2, <1>4 DEF InwardsTold, PiecesTold, SettlementsTold, NoLot, NoInward, NoSettlement
<1> QED
  BY <1>1, <1>2, <1>3, <1>5, <1>7, <1>8, <1>9, <1>10 DEF GoodsInv, GoodsTypeOK

LEMMA GoodsKeeps ==
  ASSUME GoodsInv, [Next]_goodsVars
  PROVE  GoodsInv'
<1>1. ASSUME NEW c \in Clerks, UNCHANGED floorVars,
             \/ createOrder(c) \/ closeOrder(c) \/ createInward(c) \/ cancelInward(c) \/ createBill(c)
             \/ tagPieces(c) \/ returnUntagged(c) \/ paySupplier(c) \/ BeginSettleMetal(c) \/ createSettlement(c)
             \/ GiveUp(c)
      PROVE  GoodsInv'
  BY <1>1, OrdersKeep, createInwardKeeps, cancelInwardKeeps, createBillKeeps, tagPiecesKeeps, returnUntaggedKeeps,
     paySupplierKeeps, BeginSettleMetalKeeps, createSettlementKeeps, GiveUpKeeps
<1>2. ASSUME NEW c \in Clerks, UNCHANGED floorVars, NEW i \in Inwards,
             \/ BeginCancelInward(c, i) \/ BeginTag(c, i) \/ closeLot(c, i) \/ returnMetal(c, i) \/ BeginReturnUntagged(c, i)
      PROVE  GoodsInv'
  BY <1>2, BeginCancelInwardKeeps, BeginTagKeeps, closeLotKeeps, returnMetalKeeps, BeginReturnUntaggedKeeps
<1>3. ASSUME NEW c \in Clerks, UNCHANGED floorVars,
             \/ \E b \in Bills : cancelBill(c, b)
             \/ \E p \in Pieces : returnTagged(c, p)
             \/ \E k \in Settlements : cancelSettlement(c, k)
      PROVE  GoodsInv'
  BY <1>3, cancelBillKeeps, returnTaggedKeeps, cancelSettlementKeeps
<1>4. ASSUME NEW s \in Sessions, UNCHANGED purchaseVars,
             \/ dispatchTransfer(s) \/ \E t \in Transfers : land(s, t)
             \/ adjustStock(s)
             \/ \E p \in Pieces : correctPieceWeights(s, p) \/ sellPiece(s, p) \/ undoSale(s, p)
      PROVE  GoodsInv'
  BY <1>4, dispatchTransferKeeps, landKeeps, adjustStockKeeps, OnePieceKeeps
<1>5. ASSUME NEW s \in Sessions, UNCHANGED purchaseVars,
             \/ BeginStartCount(s) \/ startCount(s) \/ postCount(s) \/ Abandon(s)
             \/ \E c \in Counts : BeginPostCount(s, c)
             \/ \E c \in Counts : scanTags(s, c) \/ weighLot(s, c) \/ removeCountLine(s, c) \/ cancelCount(s, c)
      PROVE  GoodsInv'
  BY <1>5, AskedKeeps, CountKeeps, startCountKeeps, postCountKeeps
<1>6. CASE UNCHANGED goodsVars
  <2>1. UNCHANGED purchaseVars /\ UNCHANGED floorVars /\ bound' = bound /\ piece' = piece /\ stock' = stock
    BY <1>6 DEF goodsVars, shelfVars
  <2>2. FloorTypeOK' /\ FloorTold'
    BY <2>1, FloorStays
  <2>3. piece' \in [Pieces -> PieceRows] /\ stock' \in [Rows -> Measures] /\ MetalTold'
    BY <2>1 DEF GoodsInv, GoodsTypeOK, MetalTold
  <2> QED
    BY <2>1, <2>2, <2>3, FloorKeeps
<1> QED
  BY <1>1, <1>2, <1>3, <1>4, <1>5, <1>6 DEF Next

\* What rows say of each other holds of every behaviour: no request is lost from under
\* the one that cancels or returns its inward, no metal balance at a counter is short.
THEOREM GoodsInvHolds == Spec => []GoodsInv
<1>1. Init => GoodsInv
  BY GoodsStarts
<1>2. GoodsInv /\ [Next]_goodsVars => GoodsInv'
  BY GoodsKeeps
<1> QED
  BY <1>1, <1>2, PTL DEF Spec

\* Types of every table and balance of purchases and the floor, through every request.
THEOREM GoodsTyped == Spec => []GoodsTypeOK
<1>1. GoodsInv => GoodsTypeOK
  BY DEF GoodsInv
<1> QED
  BY <1>1, GoodsInvHolds, PTL

-------------------------------------------------------------------------------
\* Orders.

OrderInv ==
  /\ OrderFollows
  /\ \A i \in Inwards : inward[i].status # "none" /\ inward[i].order # 0 => order[inward[i].order].status # "none"
  /\ \A o \in Orders : order[o].status = "none" => \A l \in OrderLines : order[o].received[l] = 0

\* Receipts that are the same but for the bill they are on bring the same.
LEMMA SameReceipts ==
  ASSUME NEW rows, NEW others, NEW o, NEW l, Receipts(others, o, l) = Receipts(rows, o, l),
         \A i \in Receipts(rows, o, l) : others[i].status = rows[i].status /\ others[i].line = rows[i].line
  PROVE  Arrived(others, o, l) = Arrived(rows, o, l)
<1> DEFINE P(r) == {i \in Receipts(r, o, l) : r[i].status = "posted"}
           f(r) == [i \in P(r) |-> r[i].line.gross]
<1>1. P(others) = P(rows)
  OBVIOUS
<1>2. f(others) = f(rows)
  BY <1>1
<1> QED
  BY <1>2 DEF Arrived

LEMMA AlikeReceipts ==
  ASSUME NEW rows \in [Inwards -> InwardRows \cup {NoInward}], NEW others \in [Inwards -> InwardRows \cup {NoInward}],
         NEW o, NEW l, \A i \in Inwards : Alike(others[i], rows[i])
  PROVE  /\ Receipts(others, o, l) = Receipts(rows, o, l) /\ Arrived(others, o, l) = Arrived(rows, o, l)
         /\ \A i \in Receipts(rows, o, l) : others[i].status = rows[i].status
<1>1. Receipts(others, o, l) = Receipts(rows, o, l)
  BY DEF Receipts, Alike
<1>2. \A i \in Receipts(rows, o, l) : others[i].status = rows[i].status /\ others[i].line = rows[i].line
  BY DEF Receipts, Alike
<1> QED
  BY <1>1, <1>2, SameReceipts

\* An order keeps following when its inwards change no more than their bill.
LEMMA OrderStays ==
  ASSUME OrderInv, GoodsInv, GoodsInv', order' = order, \A i \in Inwards : Alike(inward'[i], inward[i])
  PROVE  OrderInv'
<1>1. \A o, l : /\ Receipts(inward', o, l) = Receipts(inward, o, l) /\ Arrived(inward', o, l) = Arrived(inward, o, l)
                /\ \A i \in Receipts(inward, o, l) : inward'[i].status = inward[i].status
  <2> SUFFICES ASSUME NEW o, NEW l
               PROVE  /\ Receipts(inward', o, l) = Receipts(inward, o, l) /\ Arrived(inward', o, l) = Arrived(inward, o, l)
                      /\ \A j \in Receipts(inward, o, l) : inward'[j].status = inward[j].status
    OBVIOUS
  <2> DEFINE others == inward'
  <2>1. /\ others \in [Inwards -> InwardRows \cup {NoInward}] /\ inward \in [Inwards -> InwardRows \cup {NoInward}]
        /\ \A j \in Inwards : Alike(others[j], inward[j])
    BY DEF GoodsInv, GoodsTypeOK, PurchasesTypeOK
  <2> HIDE DEF others
  <2>2. /\ Receipts(others, o, l) = Receipts(inward, o, l) /\ Arrived(others, o, l) = Arrived(inward, o, l)
        /\ \A j \in Receipts(inward, o, l) : others[j].status = inward[j].status
    BY <2>1, AlikeReceipts
  <2> QED
    BY <2>2 DEF others
<1>2. OrderFollows'
  <2> SUFFICES ASSUME NEW o \in Orders
               PROVE  /\ \A l \in OrderLines :
                           \/ order[o].received[l] = Arrived(inward', o, l)
                           \/ /\ Receipts(inward', o, l) # {}
                              /\ \A i \in Receipts(inward', o, l) : inward'[i].status = "cancelled"
                      /\ order[o].status = "confirmed" => \E l \in OrderLines : order[o].received[l] < OrderWeight[l]
    BY DEF OrderFollows
  <2>1. /\ \A l \in OrderLines :
             \/ order[o].received[l] = Arrived(inward, o, l)
             \/ /\ Receipts(inward, o, l) # {}
                /\ \A i \in Receipts(inward, o, l) : inward[i].status = "cancelled"
        /\ order[o].status = "confirmed" => \E l \in OrderLines : order[o].received[l] < OrderWeight[l]
    BY DEF OrderInv, OrderFollows
  <2> QED
    BY <1>1, <2>1
<1>3. \A i \in Inwards : inward'[i].status # "none" => inward[i].status # "none" /\ inward'[i].order = inward[i].order
  BY DEF Alike
<1> QED
  BY <1>2, <1>3 DEF OrderInv

\* One inward comes or goes, and its order is rolled up.
LEMMA OrderRolled ==
  ASSUME GoodsInv, GoodsInv', OrderInv, NEW rows \in [Inwards -> InwardRows \cup {NoInward}], NEW o \in {0} \cup Orders,
         NEW i \in Inwards, \A j \in Inwards \ {i} : rows[j] = inward[j], rows[i].status # "none", rows[i].order = o,
         inward[i].status # "none" => inward[i].order = o, o # 0 => order[o].status # "none",
         rollUpOrder(rows, o), \A j \in Inwards : Alike(inward'[j], rows[j])
  PROVE  OrderInv'
<1>0. order \in [Orders -> OrderRows]
  BY DEF GoodsInv, GoodsTypeOK, PurchasesTypeOK
<1>1. /\ order' \in [Orders -> OrderRows] /\ \A x \in Orders : x # o => order'[x] = order[x]
      /\ o # 0 => /\ order'[o].received = [l \in OrderLines |-> receivedOn(rows, o, l)]
                  /\ order'[o].status = IF order[o].status \notin {"confirmed", "closed"} THEN order[o].status
                       ELSE IF \A l \in OrderLines : receivedOn(rows, o, l) >= OrderWeight[l] THEN "closed"
                            ELSE "confirmed"
  BY <1>0, RollUpFacts
<1>2. \A x, l : /\ Receipts(inward', x, l) = Receipts(rows, x, l) /\ Arrived(inward', x, l) = Arrived(rows, x, l)
                /\ \A j \in Receipts(rows, x, l) : inward'[j].status = rows[j].status
  <2> SUFFICES ASSUME NEW x, NEW l
               PROVE  /\ Receipts(inward', x, l) = Receipts(rows, x, l) /\ Arrived(inward', x, l) = Arrived(rows, x, l)
                      /\ \A j \in Receipts(rows, x, l) : inward'[j].status = rows[j].status
    OBVIOUS
  <2> DEFINE others == inward'
  <2>1. /\ others \in [Inwards -> InwardRows \cup {NoInward}] /\ inward \in [Inwards -> InwardRows \cup {NoInward}]
        /\ \A j \in Inwards : Alike(others[j], rows[j])
    BY DEF GoodsInv, GoodsTypeOK, PurchasesTypeOK
  <2> HIDE DEF others
  <2>2. /\ Receipts(others, x, l) = Receipts(rows, x, l) /\ Arrived(others, x, l) = Arrived(rows, x, l)
        /\ \A j \in Receipts(rows, x, l) : others[j].status = rows[j].status
    BY <2>1, AlikeReceipts
  <2> QED
    BY <2>2 DEF others
<1>3. ASSUME NEW x \in Orders, x # o, NEW l
      PROVE  /\ Receipts(rows, x, l) = Receipts(inward, x, l) /\ Arrived(rows, x, l) = Arrived(inward, x, l)
             /\ \A j \in Receipts(inward, x, l) : rows[j].status = inward[j].status
  <2>1. i \notin Receipts(rows, x, l) /\ i \notin Receipts(inward, x, l)
    BY <1>3 DEF Receipts
  <2>2. Receipts(rows, x, l) = Receipts(inward, x, l)
    BY <2>1 DEF Receipts
  <2>3. \A j \in Receipts(inward, x, l) : rows[j] = inward[j]
    BY <2>1 DEF Receipts
  <2> QED
    BY <2>2, <2>3, SameReceipts
<1>4. ASSUME NEW x \in Orders
      PROVE  /\ \A l \in OrderLines :
                  \/ order'[x].received[l] = Arrived(inward', x, l)
                  \/ /\ Receipts(inward', x, l) # {}
                     /\ \A j \in Receipts(inward', x, l) : inward'[j].status = "cancelled"
             /\ order'[x].status = "confirmed" => \E l \in OrderLines : order'[x].received[l] < OrderWeight[l]
  <2>1. CASE x # o
    <3>1. /\ \A l \in OrderLines :
               \/ order[x].received[l] = Arrived(inward, x, l)
               \/ /\ Receipts(inward, x, l) # {}
                  /\ \A j \in Receipts(inward, x, l) : inward[j].status = "cancelled"
          /\ order[x].status = "confirmed" => \E l \in OrderLines : order[x].received[l] < OrderWeight[l]
      BY DEF OrderInv, OrderFollows
    <3>2. order'[x] = order[x]
      BY <1>1, <2>1
    <3>3. ASSUME NEW l \in OrderLines
          PROVE  \/ order'[x].received[l] = Arrived(inward', x, l)
                 \/ /\ Receipts(inward', x, l) # {}
                    /\ \A j \in Receipts(inward', x, l) : inward'[j].status = "cancelled"
      <4>1. /\ Receipts(inward', x, l) = Receipts(inward, x, l) /\ Arrived(inward', x, l) = Arrived(inward, x, l)
            /\ \A j \in Receipts(inward, x, l) : inward'[j].status = inward[j].status
        BY <1>2, <1>3, <2>1
      <4> QED
        BY <3>1, <3>2, <4>1
    <3> QED
      BY <3>1, <3>2, <3>3
  <2>2. CASE x = o
    <3>1. o # 0
      BY <2>2, GoodsFinite
    <3>2. \A l \in OrderLines : order'[x].received[l] = receivedOn(rows, o, l)
      BY <1>1, <2>2, <3>1
    <3>3. ASSUME NEW l \in OrderLines
          PROVE  \/ order'[x].received[l] = Arrived(inward', x, l)
                 \/ /\ Receipts(inward', x, l) # {}
                    /\ \A j \in Receipts(inward', x, l) : inward'[j].status = "cancelled"
      <4>1. CASE Receipts(rows, o, l) # {} /\ \A j \in Receipts(rows, o, l) : rows[j].status = "cancelled"
        BY <1>2, <2>2, <4>1
      <4>2. CASE ~(Receipts(rows, o, l) # {} /\ \A j \in Receipts(rows, o, l) : rows[j].status = "cancelled")
        <5>1. receivedOn(rows, o, l) = Arrived(rows, o, l)
          BY <4>2 DEF receivedOn
        <5> QED
          BY <1>2, <2>2, <3>2, <5>1
      <4> QED
        BY <4>1, <4>2
    <3>4. ASSUME order'[x].status = "confirmed" PROVE \E l \in OrderLines : order'[x].received[l] < OrderWeight[l]
      <4>1. order[o].status \in {"confirmed", "closed"}
        BY <1>0, <1>1, <2>2, <3>1, <3>4
      <4>2. ~\A l \in OrderLines : receivedOn(rows, o, l) >= OrderWeight[l]
        BY <1>1, <2>2, <3>1, <3>4, <4>1
      <4>3. PICK l \in OrderLines : ~(receivedOn(rows, o, l) >= OrderWeight[l])
        BY <4>2
      <4>4. order'[x].received[l] \in Nat /\ OrderWeight[l] \in Nat
        <5>1. order'[x] \in OrderRows
          BY <1>1
        <5> QED
          BY <5>1, PurchasesAssumption DEF OrderRows
      <4> QED
        BY <3>2, <4>3, <4>4
    <3> QED
      BY <3>3, <3>4
  <2> QED
    BY <2>1, <2>2
<1>5. \A x \in Orders : order[x].status # "none" => order'[x].status # "none"
  BY <1>0, <1>1, GoodsFinite
<1>6. ASSUME NEW j \in Inwards, inward'[j].status # "none", inward'[j].order # 0
      PROVE  order'[inward'[j].order].status # "none"
  <2>1. rows[j].status # "none" /\ inward'[j].order = rows[j].order
    BY <1>6 DEF Alike
  <2>2. rows[j].order \in {0} \cup Orders
    BY <2>1, InwardRow
  <2>3. CASE j = i
    BY <1>5, <1>6, <2>1, <2>2, <2>3
  <2>4. CASE j # i
    <3>1. order[inward[j].order].status # "none"
      BY <1>6, <2>1, <2>4 DEF OrderInv
    <3> QED
      BY <1>5, <1>6, <2>1, <2>2, <2>4, <3>1
  <2> QED
    BY <2>3, <2>4
<1>7. ASSUME NEW x \in Orders, order'[x].status = "none" PROVE \A l \in OrderLines : order'[x].received[l] = 0
  <2>1. order[x].status = "none"
    BY <1>5, <1>7
  <2>2. x # o
    BY <2>1, GoodsFinite
  <2> QED
    BY <1>1, <2>1, <2>2 DEF OrderInv
<1> QED
  BY <1>4, <1>6, <1>7 DEF OrderInv, OrderFollows

\* Orders, inwards and bills change only with orders, inwards and bills.
LEMMA PapersStay ==
  ASSUME [Next]_goodsVars
  PROVE  \/ UNCHANGED <<order, inward, bill>>
         \/ \E c \in Clerks : \/ createOrder(c) \/ closeOrder(c) \/ createInward(c) \/ cancelInward(c) \/ createBill(c)
                              \/ \E b \in Bills : cancelBill(c, b)
<1>1. ASSUME NEW c \in Clerks,
             \/ tagPieces(c) \/ returnUntagged(c) \/ paySupplier(c) \/ BeginSettleMetal(c) \/ createSettlement(c) \/ GiveUp(c)
      PROVE  UNCHANGED <<order, inward, bill>>
  BY <1>1 DEF tagPieces, returnUntagged, paySupplier, BeginSettleMetal, createSettlement, GiveUp
<1>2. ASSUME NEW c \in Clerks, NEW i \in Inwards,
             \/ BeginCancelInward(c, i) \/ BeginTag(c, i) \/ closeLot(c, i) \/ returnMetal(c, i) \/ BeginReturnUntagged(c, i)
      PROVE  UNCHANGED <<order, inward, bill>>
  BY <1>2 DEF BeginCancelInward, BeginTag, closeLot, returnMetal, BeginReturnUntagged
<1>3. ASSUME NEW c \in Clerks,
             (\E p \in Pieces : returnTagged(c, p)) \/ \E k \in Settlements : cancelSettlement(c, k)
      PROVE  UNCHANGED <<order, inward, bill>>
  BY <1>3 DEF returnTagged, cancelSettlement
<1>4. CASE UNCHANGED purchaseVars
  BY <1>4 DEF purchaseVars
<1>5. CASE UNCHANGED goodsVars
  BY <1>5 DEF goodsVars, purchaseVars
<1> QED
  BY <1>1, <1>2, <1>3, <1>4, <1>5 DEF Next

\* What cancelling an inward does to it and to its order.
LEMMA CancelFacts ==
  ASSUME GoodsInv, NEW c \in Clerks, cancelInward(c)
  PROVE  \E i \in Inwards :
           LET w == inward[i]
               rows == [inward EXCEPT ![i].status = "cancelled"]
           IN
           /\ errand[c].doc = i /\ Posted(i) /\ (w.bill # 0 => w.direct)
           /\ w \in InwardRows /\ w.order \in {0} \cup Orders /\ w.bill \in {0} \cup Bills
           /\ rows \in [Inwards -> InwardRows \cup {NoInward}]
           /\ \A j \in Inwards \ {i} : rows[j] = inward[j]
           /\ rows[i].status = "cancelled" /\ Alike(rows[i], [w EXCEPT !.status = "cancelled"])
           /\ rows[i].order = w.order /\ rows[i].bill = w.bill /\ rows[i].direct = w.direct
           /\ rollUpOrder(rows, w.order) /\ inward' = rows
           /\ bill' = IF w.direct /\ w.bill # 0 THEN [bill EXCEPT ![w.bill].status = "cancelled"] ELSE bill
<1> DEFINE i == errand[c].doc
           w == inward[i]
           rows == [inward EXCEPT ![i].status = "cancelled"]
<1>0. inward \in [Inwards -> InwardRows \cup {NoInward}]
  BY DEF GoodsInv, GoodsTypeOK, PurchasesTypeOK
<1>1. /\ errand[c].pc = "cancel" /\ rollUpOrder(rows, w.order) /\ inward' = rows
      /\ bill' = IF w.direct /\ w.bill # 0 THEN [bill EXCEPT ![w.bill].status = "cancelled"] ELSE bill
  BY DEF cancelInward
<1>2. i \in Inwards /\ w.status = "posted" /\ (w.bill # 0 => w.direct)
  BY <1>1 DEF GoodsInv, ErrandsTold, ErrandTold, Returning
<1>3. w \in InwardRows /\ w.order \in {0} \cup Orders /\ w.bill \in {0} \cup Bills
  BY <1>0, <1>2, InwardRow
<1>4. /\ rows \in [Inwards -> InwardRows \cup {NoInward}] /\ \A j \in Inwards \ {i} : rows[j] = inward[j]
      /\ rows[i] = [w EXCEPT !.status = "cancelled"]
  BY <1>0, <1>2, <1>3 DEF InwardRows
<1>5. /\ rows[i].status = "cancelled" /\ Alike(rows[i], [w EXCEPT !.status = "cancelled"])
      /\ rows[i].order = w.order /\ rows[i].bill = w.bill /\ rows[i].direct = w.direct
  BY <1>3, <1>4 DEF InwardRows, Alike
<1> QED
  BY <1>1, <1>2, <1>3, <1>4, <1>5 DEF Posted

LEMMA OrderKeeps ==
  ASSUME GoodsInv, GoodsInv', OrderInv, [Next]_goodsVars
  PROVE  OrderInv'
<1>0. /\ order \in [Orders -> OrderRows] /\ inward \in [Inwards -> InwardRows \cup {NoInward}] /\ bound \in Bounds
      /\ bill \in [Bills -> BillRows]
  BY DEF GoodsInv, GoodsTypeOK, PurchasesTypeOK
<1>1. CASE UNCHANGED <<order, inward, bill>>
  <2>1. \A i \in Inwards : Alike(inward'[i], inward[i])
    BY <1>1 DEF Alike
  <2> QED
    BY <1>1, <2>1, OrderStays
<1>2. ASSUME NEW c \in Clerks, createOrder(c) PROVE OrderInv'
  <2>1. PICK s \in bound.suppliers, o \in Unused(order, bound.orders) :
          /\ order' = [order EXCEPT ![o].status = "confirmed", ![o].supplier = s]
          /\ UNCHANGED <<shelfVars, inward, lot, bill, back, settled, owing, account, errand>>
    BY <1>2 DEF createOrder
  <2>2. o \in Orders /\ order[o].status = "none"
    BY <1>0, BoundFacts
  <2>3. \A x \in Orders : order'[x].received = order[x].received /\ (x # o => order'[x] = order[x])
    BY <1>0, <2>1, <2>2 DEF OrderRows
  <2>4. order'[o].status = "confirmed"
    BY <1>0, <2>1, <2>2 DEF OrderRows
  <2>5. inward' = inward
    BY <2>1
  <2>6. \E l \in OrderLines : order[o].received[l] < OrderWeight[l]
    <3>1. PICK l \in OrderLines : TRUE
      BY PurchasesAssumption
    <3>2. order[o].received[l] = 0 /\ OrderWeight[l] \in Nat \ {0}
      BY <2>2, PurchasesAssumption DEF OrderInv
    <3> QED
      BY <3>2
  <2>7. OrderFollows'
    <3> SUFFICES ASSUME NEW x \in Orders
                 PROVE  /\ \A l \in OrderLines :
                             \/ order'[x].received[l] = Arrived(inward', x, l)
                             \/ /\ Receipts(inward', x, l) # {}
                                /\ \A j \in Receipts(inward', x, l) : inward'[j].status = "cancelled"
                        /\ order'[x].status = "confirmed" => \E l \in OrderLines : order'[x].received[l] < OrderWeight[l]
      BY DEF OrderFollows
    <3>1. /\ \A l \in OrderLines :
               \/ order[x].received[l] = Arrived(inward, x, l)
               \/ /\ Receipts(inward, x, l) # {}
                  /\ \A j \in Receipts(inward, x, l) : inward[j].status = "cancelled"
          /\ order[x].status = "confirmed" => \E l \in OrderLines : order[x].received[l] < OrderWeight[l]
      BY DEF OrderInv, OrderFollows
    <3> QED
      BY <2>3, <2>5, <2>6, <3>1
  <2>8. \A x \in Orders : order[x].status # "none" => order'[x].status # "none"
    BY <2>3, <2>4
  <2>9. \A i \in Inwards : inward[i].status # "none" => inward[i].order \in {0} \cup Orders
    BY <1>0, InwardRow DEF InwardRows
  <2>10. \A i \in Inwards : inward'[i].status # "none" /\ inward'[i].order # 0
                              => order'[inward'[i].order].status # "none"
    BY <2>5, <2>8, <2>9 DEF OrderInv
  <2>11. \A x \in Orders : order'[x].status = "none" => \A l \in OrderLines : order'[x].received[l] = 0
    BY <2>3, <2>4 DEF OrderInv
  <2> QED
    BY <2>7, <2>10, <2>11 DEF OrderInv
<1>3. ASSUME NEW c \in Clerks, closeOrder(c) PROVE OrderInv'
  <2>1. PICK o \in Orders, status \in {"closed", "cancelled"} :
          /\ order[o].status = "confirmed" /\ order' = [order EXCEPT ![o].status = status]
          /\ UNCHANGED <<shelfVars, inward, lot, bill, back, settled, owing, account, errand>>
    BY <1>3 DEF closeOrder
  <2>2. \A x \in Orders : order'[x].received = order[x].received /\ (x # o => order'[x] = order[x])
    BY <1>0, <2>1 DEF OrderRows
  <2>3. order'[o].status = status
    BY <1>0, <2>1 DEF OrderRows
  <2>4. inward' = inward
    BY <2>1
  <2>5. OrderFollows'
    <3> SUFFICES ASSUME NEW x \in Orders
                 PROVE  /\ \A l \in OrderLines :
                             \/ order'[x].received[l] = Arrived(inward', x, l)
                             \/ /\ Receipts(inward', x, l) # {}
                                /\ \A j \in Receipts(inward', x, l) : inward'[j].status = "cancelled"
                        /\ order'[x].status = "confirmed" => \E l \in OrderLines : order'[x].received[l] < OrderWeight[l]
      BY DEF OrderFollows
    <3>1. /\ \A l \in OrderLines :
               \/ order[x].received[l] = Arrived(inward, x, l)
               \/ /\ Receipts(inward, x, l) # {}
                  /\ \A j \in Receipts(inward, x, l) : inward[j].status = "cancelled"
          /\ order[x].status = "confirmed" => \E l \in OrderLines : order[x].received[l] < OrderWeight[l]
      BY DEF OrderInv, OrderFollows
    <3> QED
      BY <2>2, <2>3, <2>4, <3>1
  <2> QED
    BY <2>1, <2>2, <2>3, <2>4, <2>5 DEF OrderInv
<1>4. ASSUME NEW c \in Clerks, createInward(c) PROVE OrderInv'
  <2>1. PICK s \in Suppliers, l \in Counters, p \in PricedRows, i \in Inwards, o \in {0} \cup Orders, gst \in Nat,
            billed, direct \in BOOLEAN :
         \E ol \in OrderLines \cup {None} :
         \E rows \in [Inwards -> InwardRows \cup {NoInward}] :
           /\ inward[i].status = "none" /\ (direct => billed) /\ (p.item = "tagged" => p.pieces > 0)
           /\ p.item = "metal" => p.pieces = 0
           /\ o # 0 => order[o].status = "confirmed"
           /\ rows = [inward EXCEPT ![i] = [status |-> "posted", supplier |-> s, place |-> l, line |-> p,
                        direct |-> direct, bill |-> 0, order |-> o, orderLine |-> ol]]
           /\ lot' = [lot EXCEPT ![i] = IF p.item = "tagged"
                        THEN [NoLot EXCEPT !.status = "open", !.expected = Received(p)] ELSE NoLot]
           /\ rollUpOrder(rows, o)
           /\ \/ ~billed /\ inward' = rows /\ bill' = bill /\ gst = 0
              \/ billed /\ \E b \in Bills : bill[b].status = "none" /\ Billed(b, s, {i}, rows, gst)
           /\ recordMovements(At(p.item, l, Received(p)), At(p.item, l, Nothing), FALSE)
           /\ postVoucher(s, [InwardVoucher(p) EXCEPT !.gst = gst, !.rupees = @ + gst], p.fine, 0, InwardVoucher(p).metal)
    BY <1>4, InwardFacts
  <2>2. PICK ol \in OrderLines \cup {None}, rows \in [Inwards -> InwardRows \cup {NoInward}] :
           /\ rows = [inward EXCEPT ![i] = [status |-> "posted", supplier |-> s, place |-> l, line |-> p,
                        direct |-> direct, bill |-> 0, order |-> o, orderLine |-> ol]]
           /\ rollUpOrder(rows, o)
           /\ \/ ~billed /\ inward' = rows /\ bill' = bill /\ gst = 0
              \/ billed /\ \E b \in Bills : bill[b].status = "none" /\ Billed(b, s, {i}, rows, gst)
    BY <2>1
  <2>3. inward[i].status = "none" /\ (o # 0 => order[o].status = "confirmed")
    BY <2>1
  <2>4. rows[i].status = "posted" /\ rows[i].order = o /\ \A x \in Inwards \ {i} : rows[x] = inward[x]
    BY <1>0, <2>2
  <2>5. \A x \in Inwards : Alike(inward'[x], rows[x])
    <3>1. CASE inward' = rows
      BY <3>1 DEF Alike
    <3>2. CASE \E b \in Bills : Billed(b, s, {i}, rows, gst)
      <4>1. PICK b \in Bills : Billed(b, s, {i}, rows, gst)
        BY <3>2
      <4> DEFINE set == {i}
      <4>2. set \in SUBSET Inwards /\ (\A x \in set : rows[x].status # "none") /\ Billed(b, s, set, rows, gst)
        BY <2>4, <4>1
      <4> HIDE DEF set
      <4> QED
        BY <1>0, <4>2, BilledFacts, Zenon
    <3> QED
      BY <2>2, <3>1, <3>2
  <2>6. rollUpOrder(rows, o)
    BY <2>2
  <2>7. rows[i].status # "none" /\ (inward[i].status # "none" => inward[i].order = o) /\ (o # 0 => order[o].status # "none")
    BY <2>3, <2>4
  <2> QED
    BY <2>4, <2>5, <2>6, <2>7, OrderRolled
<1>5. ASSUME NEW c \in Clerks, cancelInward(c) PROVE OrderInv'
  <2>1. PICK i \in Inwards :
           LET w == inward[i]
               rows == [inward EXCEPT ![i].status = "cancelled"]
           IN
           /\ errand[c].doc = i /\ Posted(i) /\ (w.bill # 0 => w.direct)
           /\ w \in InwardRows /\ w.order \in {0} \cup Orders /\ w.bill \in {0} \cup Bills
           /\ rows \in [Inwards -> InwardRows \cup {NoInward}]
           /\ \A j \in Inwards \ {i} : rows[j] = inward[j]
           /\ rows[i].status = "cancelled" /\ Alike(rows[i], [w EXCEPT !.status = "cancelled"])
           /\ rows[i].order = w.order /\ rows[i].bill = w.bill /\ rows[i].direct = w.direct
           /\ rollUpOrder(rows, w.order) /\ inward' = rows
           /\ bill' = IF w.direct /\ w.bill # 0 THEN [bill EXCEPT ![w.bill].status = "cancelled"] ELSE bill
    BY <1>5, CancelFacts
  <2> DEFINE rows == [inward EXCEPT ![i].status = "cancelled"]
             o == inward[i].order
  <2>2. /\ rows \in [Inwards -> InwardRows \cup {NoInward}] /\ \A j \in Inwards \ {i} : rows[j] = inward[j]
        /\ rows[i].status # "none" /\ rows[i].order = o /\ o \in {0} \cup Orders /\ rollUpOrder(rows, o) /\ inward' = rows
        /\ inward[i].status # "none"
    BY <2>1 DEF Posted
  <2>3. o # 0 => order[o].status # "none"
    BY <2>2 DEF OrderInv
  <2> HIDE DEF rows, o
  <2>4. \A j \in Inwards : Alike(inward'[j], rows[j])
    BY <2>2 DEF Alike
  <2>5. inward[i].status # "none" => inward[i].order = o
    BY DEF o
  <2> QED
    BY <2>2, <2>3, <2>4, <2>5, OrderRolled
<1>6. ASSUME NEW c \in Clerks, createBill(c) PROVE OrderInv'
  <2>1. order' = order /\ \A i \in Inwards : Alike(inward'[i], inward[i])
    BY <1>6, createBillAlike
  <2> QED
    BY <2>1, OrderStays
<1>7. ASSUME NEW c \in Clerks, NEW b \in Bills, cancelBill(c, b) PROVE OrderInv'
  <2>1. order' = order
    BY <1>7 DEF cancelBill
  <2>2. \A i \in Inwards : Alike(inward'[i], inward[i])
    <3> SUFFICES ASSUME NEW i \in Inwards PROVE Alike(inward'[i], inward[i])
      OBVIOUS
    <3>1. inward'[i] = IF Posted(i) /\ inward[i].bill = b THEN [inward[i] EXCEPT !.bill = 0] ELSE inward[i]
      BY <1>7 DEF cancelBill
    <3>2. CASE Posted(i) /\ inward[i].bill = b
      <4>1. inward[i] \in InwardRows
        BY <1>0, <3>2, InwardRow DEF Posted
      <4> QED
        BY <3>1, <3>2, <4>1 DEF InwardRows, Alike
    <3> QED
      BY <3>1, <3>2 DEF Alike
  <2> QED
    BY <2>1, <2>2, OrderStays
<1> QED
  BY <1>1, <1>2, <1>3, <1>4, <1>5, <1>6, <1>7, PapersStay

LEMMA OrderStarts ==
  ASSUME Init
  PROVE  OrderInv
<1>1. order = [o \in Orders |-> NoOrder] /\ inward = [i \in Inwards |-> NoInward]
  BY DEF Init, PurchasesInit
<1>2. \A i \in Inwards : inward[i].status = "none"
  BY <1>1 DEF NoInward
<1>3. ASSUME NEW o, NEW l PROVE Arrived(inward, o, l) = 0
  <2> DEFINE S == {i \in Receipts(inward, o, l) : inward[i].status = "posted"}
             f == [i \in S |-> inward[i].line.gross]
  <2>1. S = {}
    BY <1>2 DEF Receipts
  <2>2. DOMAIN f = {}
    BY <2>1
  <2> HIDE DEF f
  <2>3. SumFunction(f) = 0
    BY <2>2, SumOfNone DEF SumFunction
  <2> QED
    BY <2>3 DEF Arrived, f
<1>4. \A o \in Orders : order[o].status = "none" /\ \A l \in OrderLines : order[o].received[l] = 0
  BY <1>1 DEF NoOrder
<1> QED
  BY <1>2, <1>3, <1>4 DEF OrderInv, OrderFollows

\* "The order closes when everything has arrived" (purchase.service.ts:279): whatever comes
\* in, goes back or is cancelled, an order's lines say what its standing inwards brought,
\* and an order left open waits for something.
THEOREM OrdersFollowEver == Spec => []OrderFollows
<1>1. Init => OrderInv
  BY OrderStarts
<1>2. GoodsInv /\ GoodsInv' /\ OrderInv /\ [Next]_goodsVars => OrderInv'
  BY OrderKeeps
<1>3. OrderInv => OrderFollows
  BY DEF OrderInv
<1> QED
  BY <1>1, <1>2, <1>3, GoodsInvHolds, PTL DEF Spec

-------------------------------------------------------------------------------
\* Bills and the inwards on them.

OnBill(rows, b) == {i \in Inwards : rows[i].status = "posted" /\ rows[i].bill = b}

BilledCost(rows, b) == SumFunction([i \in OnBill(rows, b) |-> rows[i].line.cost])

\* A direct purchase is alone on its bill, and an inward cancelled for itself was on none.
BillInv ==
  /\ BillTogether
  /\ \A i, j \in Inwards :
       inward[i].status # "none" /\ inward[i].direct /\ inward[j].status # "none" /\ inward[j].bill = inward[i].bill => j = i
  /\ \A i \in Inwards : inward[i].status = "cancelled" /\ ~inward[i].direct => inward[i].bill = 0

\* What stands on the bills, one part of it at a time.
LEMMA BillParts ==
  BillTogether <=>
    /\ \A i \in Inwards : inward[i].status # "none" /\ inward[i].direct =>
         inward[i].bill # 0 /\ bill[inward[i].bill].status = inward[i].status
    /\ \A i \in Inwards : inward[i].status = "posted" /\ inward[i].bill # 0 => bill[inward[i].bill].status = "posted"
    /\ \A b \in Bills : bill[b].status = "posted" => bill[b].taxable = BilledCost(inward, b)
<1>1. \A i \in Inwards : Posted(i) => inward[i].status # "none"
  BY DEF Posted
<1> QED
  BY <1>1 DEF BillTogether, Posted, BilledCost, OnBill

LEMMA SameBilled ==
  ASSUME NEW rows, NEW others, NEW b, OnBill(others, b) = OnBill(rows, b),
         \A i \in OnBill(rows, b) : others[i].line = rows[i].line
  PROVE  BilledCost(others, b) = BilledCost(rows, b)
<1>1. [i \in OnBill(others, b) |-> others[i].line.cost] = [i \in OnBill(rows, b) |-> rows[i].line.cost]
  OBVIOUS
<1> QED
  BY <1>1 DEF BilledCost

\* An inward's bill is one there is, while the inward is there.
LEMMA BillThere ==
  ASSUME GoodsTypeOK, BillInv, NEW i \in Inwards, inward[i].status # "none", inward[i].bill # 0
  PROVE  inward[i].bill \in Bills /\ bill[inward[i].bill].status # "none"
<1>1. inward[i] \in InwardRows
  BY InwardRow DEF GoodsTypeOK, PurchasesTypeOK
<1>2. inward[i].bill \in Bills /\ inward[i].status \in {"posted", "cancelled"}
  BY <1>1 DEF InwardRows
<1>3. CASE inward[i].status = "posted"
  <2>1. bill[inward[i].bill].status = "posted"
    BY <1>3, BillParts DEF BillInv
  <2> QED
    BY <1>2, <2>1
<1>4. CASE inward[i].status = "cancelled"
  <2>1. inward[i].direct
    BY <1>1, <1>4 DEF BillInv, InwardRows
  <2>2. bill[inward[i].bill].status = "cancelled"
    BY <1>4, <2>1, BillParts DEF BillInv
  <2> QED
    BY <1>2, <2>2
<1> QED
  BY <1>2, <1>3, <1>4

\* A new bill takes inwards that were on none; a direct purchase it takes alone.
LEMMA BilledTogether ==
  ASSUME GoodsTypeOK, BillInv, NEW rows \in [Inwards -> InwardRows \cup {NoInward}], NEW b \in Bills, bill[b].status = "none",
         NEW s \in Suppliers, NEW set \in SUBSET Inwards, NEW gst \in Nat, Billed(b, s, set, rows, gst),
         \A i \in Inwards \ set : rows[i] = inward[i],
         \A i \in set : /\ rows[i].status = "posted" /\ (rows[i].direct => set = {i})
                        /\ inward[i].status = "none" \/ inward[i].bill = 0
  PROVE  BillInv'
<1>0. bill \in [Bills -> BillRows] /\ inward \in [Inwards -> InwardRows \cup {NoInward}]
  BY DEF GoodsTypeOK, PurchasesTypeOK
<1>1. /\ \A i \in Inwards : Alike(inward'[i], rows[i])
      /\ \A i \in set : inward'[i].bill = b
      /\ \A i \in Inwards \ set : inward'[i] = rows[i]
      /\ \A x \in Bills \ {b} : bill'[x] = bill[x]
      /\ bill'[b].status = "posted"
  <2>1. \A i \in set : rows[i].status # "none"
    OBVIOUS
  <2>2. \A i \in Inwards : Alike(inward'[i], rows[i])
    BY <1>0, <2>1, BilledFacts, Zenon
  <2>3. \A i \in set : inward'[i].bill = b
    BY <1>0, <2>1, BilledFacts
  <2>4. \A i \in Inwards \ set : inward'[i] = rows[i]
    BY <1>0, <2>1, BilledFacts, SMTT(30)
  <2>5. \A x \in Bills \ {b} : bill'[x] = bill[x]
    BY <1>0, <2>1, BilledFacts, SMTT(30)
  <2>6. bill'[b].status = "posted"
    BY <1>0, <2>1, BilledFacts, Zenon
  <2> QED
    BY <2>2, <2>3, <2>4, <2>5, <2>6
<1>2. bill'[b].taxable = SumFunction([i \in set |-> rows[i].line.cost])
  BY <1>0 DEF Billed, BillRows
<1>3. \A i \in set : /\ inward'[i].status = "posted" /\ inward'[i].bill = b
                     /\ inward'[i].direct = rows[i].direct /\ inward'[i].line = rows[i].line
  BY <1>1 DEF Alike
<1>4. \A i \in Inwards \ set : inward'[i] = inward[i]
  BY <1>1
<1>5. \A i \in Inwards : inward[i].status # "none" => inward[i].bill # b
  BY BillThere, GoodsFinite
<1>6. \A i \in Inwards : inward[i].status # "none" => inward[i].bill \in {0} \cup Bills
  BY <1>0, InwardRow DEF InwardRows
<1>7. ASSUME NEW i \in Inwards, inward'[i].status # "none", inward'[i].direct
      PROVE  inward'[i].bill # 0 /\ bill'[inward'[i].bill].status = inward'[i].status
  <2>1. CASE i \in set
    BY <1>1, <1>3, <2>1, GoodsFinite
  <2>2. CASE i \notin set
    <3>1. inward[i].status # "none" /\ inward[i].direct /\ inward'[i] = inward[i]
      BY <1>4, <1>7, <2>2
    <3>2. inward[i].bill # 0 /\ bill[inward[i].bill].status = inward[i].status
      BY <3>1, BillParts DEF BillInv
    <3>3. inward[i].bill \in Bills \ {b}
      BY <1>5, <1>6, <3>1, <3>2
    <3> QED
      BY <1>1, <3>1, <3>2, <3>3
  <2> QED
    BY <2>1, <2>2
<1>8. ASSUME NEW i \in Inwards, inward'[i].status = "posted", inward'[i].bill # 0
      PROVE  bill'[inward'[i].bill].status = "posted"
  <2>1. CASE i \in set
    BY <1>1, <1>3, <2>1
  <2>2. CASE i \notin set
    <3>1. inward[i].status = "posted" /\ inward[i].bill # 0 /\ inward'[i] = inward[i]
      BY <1>4, <1>8, <2>2
    <3>2. bill[inward[i].bill].status = "posted"
      BY <3>1, BillParts DEF BillInv
    <3>3. inward[i].bill \in Bills \ {b}
      BY <1>5, <1>6, <3>1
    <3> QED
      BY <1>1, <3>1, <3>2, <3>3
  <2> QED
    BY <2>1, <2>2
<1>9. ASSUME NEW x \in Bills, bill'[x].status = "posted" PROVE bill'[x].taxable = BilledCost(inward', x)
  <2>1. CASE x = b
    <3>1. OnBill(inward', b) = set
      BY <1>3, <1>4, <1>5 DEF OnBill
    <3>2. [i \in OnBill(inward', b) |-> inward'[i].line.cost] = [i \in set |-> rows[i].line.cost]
      BY <1>3, <3>1
    <3> QED
      BY <1>2, <2>1, <3>2 DEF BilledCost
  <2>2. CASE x # b
    <3>1. bill'[x] = bill[x] /\ bill[x].taxable = BilledCost(inward, x)
      BY <1>1, <1>9, <2>2, BillParts DEF BillInv
    <3>2. OnBill(inward', x) = OnBill(inward, x)
      <4> SUFFICES ASSUME NEW i \in Inwards
                   PROVE  (inward'[i].status = "posted" /\ inward'[i].bill = x)
                            <=> (inward[i].status = "posted" /\ inward[i].bill = x)
        BY DEF OnBill
      <4>1. CASE i \in set
        <5>1. inward'[i].bill # x
          BY <1>3, <2>2, <4>1
        <5>2. inward[i].status = "none" \/ inward[i].bill = 0
          BY <4>1
        <5> QED
          BY <5>1, <5>2, GoodsFinite
      <4>2. CASE i \notin set
        BY <1>4, <4>2
      <4> QED
        BY <4>1, <4>2
    <3>3. \A i \in OnBill(inward', x) : i \in Inwards \ set
      BY <1>3, <2>2 DEF OnBill
    <3>4. \A i \in OnBill(inward, x) : inward'[i].line = inward[i].line
      BY <1>4, <3>2, <3>3
    <3>5. BilledCost(inward', x) = BilledCost(inward, x)
      BY <3>2, <3>4, SameBilled
    <3> QED
      BY <3>1, <3>5
  <2> QED
    BY <2>1, <2>2
<1>10. ASSUME NEW i \in Inwards, NEW j \in Inwards, inward'[i].status # "none", inward'[i].direct,
              inward'[j].status # "none", inward'[j].bill = inward'[i].bill
       PROVE  j = i
  <2>1. CASE i \in set /\ j \in set
    <3>1. set = {i}
      BY <1>3, <1>10, <2>1
    <3> QED
      BY <2>1, <3>1
  <2>2. CASE i \notin set /\ j \notin set
    BY <1>4, <1>10, <2>2 DEF BillInv
  <2>3. CASE i \in set /\ j \notin set
    BY <1>3, <1>4, <1>5, <1>10, <2>3
  <2>4. CASE i \notin set /\ j \in set
    BY <1>3, <1>4, <1>5, <1>10, <2>4
  <2> QED
    BY <2>1, <2>2, <2>3, <2>4
<1>11. ASSUME NEW i \in Inwards, inward'[i].status = "cancelled", ~inward'[i].direct PROVE inward'[i].bill = 0
  <2>1. i \notin set
    BY <1>3, <1>11
  <2> QED
    BY <1>4, <1>11, <2>1 DEF BillInv
<1>12. BillTogether'
  <2>1. \A i \in Inwards : Posted(i)' => inward'[i].status # "none"
    BY DEF Posted
  <2> QED
    BY <1>7, <1>8, <1>9, <2>1 DEF BillTogether, Posted, BilledCost, OnBill
<1> QED
  BY <1>10, <1>11, <1>12 DEF BillInv

LEMMA BillPartsNext ==
  ASSUME \A i \in Inwards : inward'[i].status # "none" /\ inward'[i].direct =>
           inward'[i].bill # 0 /\ bill'[inward'[i].bill].status = inward'[i].status,
         \A i \in Inwards : inward'[i].status = "posted" /\ inward'[i].bill # 0 => bill'[inward'[i].bill].status = "posted",
         \A b \in Bills : bill'[b].status = "posted" => bill'[b].taxable = BilledCost(inward', b)
  PROVE  BillTogether'
<1>1. \A i \in Inwards : Posted(i)' => inward'[i].status # "none"
  BY DEF Posted
<1> QED
  BY <1>1 DEF BillTogether, Posted, BilledCost, OnBill

\* A bill goes, or none: its inwards are off it or go with it, and an inward may come in on
\* no bill.
LEMMA BillGoes ==
  ASSUME GoodsTypeOK, BillInv, NEW gone \in {0} \cup Bills,
         bill' = IF gone = 0 THEN bill ELSE [bill EXCEPT ![gone].status = "cancelled"],
         \A i \in Inwards :
           \/ inward'[i] = inward[i] /\ (gone # 0 /\ inward[i].status = "posted" => inward[i].bill # gone)
           \/ /\ inward'[i].status = "posted" /\ ~inward'[i].direct /\ inward'[i].bill = 0
              /\ inward[i].status = "none" \/ inward[i].bill \in {0, gone}
           \/ /\ inward'[i].status = "cancelled" /\ inward'[i].direct = inward[i].direct /\ inward'[i].bill = inward[i].bill
              /\ inward[i].status = "posted" /\ inward[i].bill = gone /\ (gone # 0 => inward[i].direct)
  PROVE  BillInv'
<1> DEFINE Same(i) == inward'[i] = inward[i] /\ (gone # 0 /\ inward[i].status = "posted" => inward[i].bill # gone)
           Off(i) == /\ inward'[i].status = "posted" /\ ~inward'[i].direct /\ inward'[i].bill = 0
                     /\ inward[i].status = "none" \/ inward[i].bill \in {0, gone}
           Gone(i) == /\ inward'[i].status = "cancelled" /\ inward'[i].direct = inward[i].direct
                      /\ inward'[i].bill = inward[i].bill
                      /\ inward[i].status = "posted" /\ inward[i].bill = gone /\ (gone # 0 => inward[i].direct)
<1>0. bill \in [Bills -> BillRows] /\ inward \in [Inwards -> InwardRows \cup {NoInward}] /\ 0 \notin Bills
  BY GoodsFinite DEF GoodsTypeOK, PurchasesTypeOK
<1>1. \A i \in Inwards : Same(i) \/ Off(i) \/ Gone(i)
  OBVIOUS
<1>2. /\ \A x \in Bills : x # gone => bill'[x] = bill[x]
      /\ gone # 0 => bill'[gone].status = "cancelled"
  BY <1>0 DEF BillRows
<1>3. \A i \in Inwards : inward[i].status # "none" /\ inward[i].bill # 0 => inward[i].bill \in Bills
  BY BillThere
<1>4. /\ \A i \in Inwards : inward[i].status # "none" /\ inward[i].direct =>
           inward[i].bill # 0 /\ bill[inward[i].bill].status = inward[i].status
      /\ \A i \in Inwards : inward[i].status = "posted" /\ inward[i].bill # 0 => bill[inward[i].bill].status = "posted"
      /\ \A b \in Bills : bill[b].status = "posted" => bill[b].taxable = BilledCost(inward, b)
  BY BillParts DEF BillInv
<1>5. ASSUME NEW i \in Inwards, inward'[i].status # "none", inward'[i].direct
      PROVE  inward'[i].bill # 0 /\ bill'[inward'[i].bill].status = inward'[i].status
  <2>1. CASE Same(i)
    <3>1. inward[i].bill # 0 /\ bill[inward[i].bill].status = inward[i].status /\ inward[i].bill \in Bills
      BY <1>3, <1>4, <1>5, <2>1
    <3>2. CASE inward[i].bill # gone
      BY <1>2, <2>1, <3>1, <3>2
    <3>3. CASE inward[i].bill = gone
      <4>1. gone # 0 /\ inward[i].status # "posted" /\ inward[i] \in InwardRows
        BY <1>0, <1>5, <2>1, <3>1, <3>3, InwardRow
      <4>2. inward[i].status = "cancelled"
        BY <1>5, <2>1, <4>1 DEF InwardRows
      <4> QED
        BY <1>2, <2>1, <3>3, <4>1, <4>2
    <3> QED
      BY <3>2, <3>3
  <2>2. CASE Gone(i)
    BY <1>2, <1>4, <1>5, <2>2
  <2> QED
    BY <1>1, <1>5, <2>1, <2>2
<1>6. ASSUME NEW i \in Inwards, inward'[i].status = "posted", inward'[i].bill # 0
      PROVE  bill'[inward'[i].bill].status = "posted"
  <2>1. Same(i)
    BY <1>1, <1>6
  <2>2. bill[inward[i].bill].status = "posted" /\ inward[i].bill \in Bills /\ inward[i].bill # gone
    BY <1>3, <1>4, <1>6, <2>1
  <2> QED
    BY <1>2, <2>1, <2>2
<1>7. ASSUME NEW x \in Bills, bill'[x].status = "posted" PROVE bill'[x].taxable = BilledCost(inward', x)
  <2>1. x # gone /\ bill'[x] = bill[x] /\ x # 0
    BY <1>0, <1>2, <1>7
  <2>2. \A i \in Inwards : (inward'[i].status = "posted" /\ inward'[i].bill = x)
                             <=> (inward[i].status = "posted" /\ inward[i].bill = x)
    BY <1>1, <2>1
  <2>3. OnBill(inward', x) = OnBill(inward, x)
    BY <2>2 DEF OnBill
  <2>4. \A i \in OnBill(inward, x) : inward'[i].line = inward[i].line
    BY <1>1, <2>1, <2>2 DEF OnBill
  <2>5. BilledCost(inward', x) = BilledCost(inward, x)
    BY <2>3, <2>4, SameBilled
  <2> QED
    BY <1>4, <1>7, <2>1, <2>5
<1>8. ASSUME NEW i \in Inwards, NEW j \in Inwards, inward'[i].status # "none", inward'[i].direct,
             inward'[j].status # "none", inward'[j].bill = inward'[i].bill
      PROVE  j = i
  <2>1. inward'[i].bill # 0
    BY <1>5, <1>8
  <2>2. (Same(i) \/ Gone(i)) /\ (Same(j) \/ Gone(j))
    BY <1>1, <1>8, <2>1
  <2>3. /\ inward[i].status # "none" /\ inward[i].direct /\ inward[i].bill = inward'[i].bill
        /\ inward[j].status # "none" /\ inward[j].bill = inward'[j].bill
    BY <1>8, <2>2
  <2> QED
    BY <1>8, <2>3 DEF BillInv
<1>9. ASSUME NEW i \in Inwards, inward'[i].status = "cancelled", ~inward'[i].direct PROVE inward'[i].bill = 0
  BY <1>1, <1>9 DEF BillInv
<1>10. BillTogether'
  BY <1>5, <1>6, <1>7, BillPartsNext
<1> QED
  BY <1>8, <1>9, <1>10 DEF BillInv

LEMMA BillKeeps ==
  ASSUME GoodsInv, BillInv, [Next]_goodsVars
  PROVE  BillInv'
<1>0. /\ inward \in [Inwards -> InwardRows \cup {NoInward}] /\ bill \in [Bills -> BillRows] /\ GoodsTypeOK
      /\ 0 \in {0} \cup Bills /\ 0 \notin Bills
  BY GoodsFinite DEF GoodsInv, GoodsTypeOK, PurchasesTypeOK
<1>1. CASE inward' = inward /\ bill' = bill
  <2> DEFINE gone == 0
  <2>1. /\ gone \in {0} \cup Bills /\ (bill' = IF gone = 0 THEN bill ELSE [bill EXCEPT ![gone].status = "cancelled"])
        /\ \A i \in Inwards : inward'[i] = inward[i] /\ (gone # 0 /\ inward[i].status = "posted" => inward[i].bill # gone)
    BY <1>1
  <2> HIDE DEF gone
  <2> QED
    BY <1>0, <2>1, BillGoes
<1>2. ASSUME NEW c \in Clerks, createOrder(c) \/ closeOrder(c) PROVE BillInv'
  BY <1>1, <1>2 DEF createOrder, closeOrder
<1>3. ASSUME NEW c \in Clerks, createInward(c) PROVE BillInv'
  <2>1. PICK s \in Suppliers, l \in Counters, p \in PricedRows, i \in Inwards, o \in {0} \cup Orders, gst \in Nat,
            billed, direct \in BOOLEAN :
         \E ol \in OrderLines \cup {None} :
         \E rows \in [Inwards -> InwardRows \cup {NoInward}] :
           /\ inward[i].status = "none" /\ (direct => billed) /\ (p.item = "tagged" => p.pieces > 0)
           /\ p.item = "metal" => p.pieces = 0
           /\ o # 0 => order[o].status = "confirmed"
           /\ rows = [inward EXCEPT ![i] = [status |-> "posted", supplier |-> s, place |-> l, line |-> p,
                        direct |-> direct, bill |-> 0, order |-> o, orderLine |-> ol]]
           /\ lot' = [lot EXCEPT ![i] = IF p.item = "tagged"
                        THEN [NoLot EXCEPT !.status = "open", !.expected = Received(p)] ELSE NoLot]
           /\ rollUpOrder(rows, o)
           /\ \/ ~billed /\ inward' = rows /\ bill' = bill /\ gst = 0
              \/ billed /\ \E b \in Bills : bill[b].status = "none" /\ Billed(b, s, {i}, rows, gst)
           /\ recordMovements(At(p.item, l, Received(p)), At(p.item, l, Nothing), FALSE)
           /\ postVoucher(s, [InwardVoucher(p) EXCEPT !.gst = gst, !.rupees = @ + gst], p.fine, 0, InwardVoucher(p).metal)
    BY <1>3, InwardFacts
  <2>2. PICK ol \in OrderLines \cup {None}, rows \in [Inwards -> InwardRows \cup {NoInward}] :
           /\ rows = [inward EXCEPT ![i] = [status |-> "posted", supplier |-> s, place |-> l, line |-> p,
                        direct |-> direct, bill |-> 0, order |-> o, orderLine |-> ol]]
           /\ \/ ~billed /\ inward' = rows /\ bill' = bill /\ gst = 0
              \/ billed /\ \E b \in Bills : bill[b].status = "none" /\ Billed(b, s, {i}, rows, gst)
    BY <2>1
  <2>3. /\ rows[i].status = "posted" /\ rows[i].direct = direct /\ rows[i].bill = 0
        /\ \A x \in Inwards \ {i} : rows[x] = inward[x]
    BY <1>0, <2>2
  <2>4. CASE ~billed /\ inward' = rows /\ bill' = bill
    <3> DEFINE gone == 0
    <3>1. gone \in {0} \cup Bills /\ (bill' = IF gone = 0 THEN bill ELSE [bill EXCEPT ![gone].status = "cancelled"])
      BY <2>4
    <3>2. \A x \in Inwards :
            \/ inward'[x] = inward[x] /\ (gone # 0 /\ inward[x].status = "posted" => inward[x].bill # gone)
            \/ /\ inward'[x].status = "posted" /\ ~inward'[x].direct /\ inward'[x].bill = 0
               /\ inward[x].status = "none" \/ inward[x].bill \in {0, gone}
      BY <2>1, <2>3, <2>4
    <3> HIDE DEF gone
    <3> QED
      BY <1>0, <3>1, <3>2, BillGoes
  <2>5. CASE \E b \in Bills : bill[b].status = "none" /\ Billed(b, s, {i}, rows, gst)
    <3>1. PICK b \in Bills : bill[b].status = "none" /\ Billed(b, s, {i}, rows, gst)
      BY <2>5
    <3> DEFINE set == {i}
    <3>2. /\ set \in SUBSET Inwards /\ Billed(b, s, set, rows, gst) /\ (\A x \in Inwards \ set : rows[x] = inward[x])
          /\ \A x \in set : /\ rows[x].status = "posted" /\ (rows[x].direct => set = {x})
                            /\ inward[x].status = "none" \/ inward[x].bill = 0
      BY <2>1, <2>3, <3>1
    <3> HIDE DEF set
    <3> QED
      BY <1>0, <3>1, <3>2, BilledTogether
  <2> QED
    BY <2>2, <2>4, <2>5
<1>4. ASSUME NEW c \in Clerks, createBill(c) PROVE BillInv'
  <2>1. PICK s \in Suppliers, set \in (SUBSET Inwards) \ {{}}, b \in Bills, gst \in Nat :
          /\ \A i \in set : Posted(i) /\ ~HasInward(i) /\ inward[i].supplier = s /\ inward[i].bill = 0
          /\ bill[b].status = "none" /\ Billed(b, s, set, inward, gst)
          /\ postVoucher(s, Voucher(0, gst, 0, 0, gst, 0), 0, 0, 0)
          /\ UNCHANGED <<shelfVars, order, lot, back, settled, errand>>
    BY <1>4, createBillFacts
  <2>2. \A i \in set : /\ inward[i].status = "posted" /\ (inward[i].direct => set = {i})
                       /\ inward[i].status = "none" \/ inward[i].bill = 0
    BY <2>1, BillParts DEF BillInv, Posted
  <2>3. \A i \in Inwards \ set : inward[i] = inward[i]
    OBVIOUS
  <2>4. set \in SUBSET Inwards /\ bill[b].status = "none" /\ Billed(b, s, set, inward, gst)
    BY <2>1
  <2> QED
    BY <1>0, <2>2, <2>3, <2>4, BilledTogether
<1>5. ASSUME NEW c \in Clerks, cancelInward(c) PROVE BillInv'
  <2>1. PICK i \in Inwards :
           LET w == inward[i]
               rows == [inward EXCEPT ![i].status = "cancelled"]
           IN
           /\ errand[c].doc = i /\ Posted(i) /\ (w.bill # 0 => w.direct)
           /\ w \in InwardRows /\ w.order \in {0} \cup Orders /\ w.bill \in {0} \cup Bills
           /\ rows \in [Inwards -> InwardRows \cup {NoInward}]
           /\ \A j \in Inwards \ {i} : rows[j] = inward[j]
           /\ rows[i].status = "cancelled" /\ Alike(rows[i], [w EXCEPT !.status = "cancelled"])
           /\ rows[i].order = w.order /\ rows[i].bill = w.bill /\ rows[i].direct = w.direct
           /\ rollUpOrder(rows, w.order) /\ inward' = rows
           /\ bill' = IF w.direct /\ w.bill # 0 THEN [bill EXCEPT ![w.bill].status = "cancelled"] ELSE bill
    BY <1>5, CancelFacts
  <2> DEFINE gone == inward[i].bill
  <2>2. /\ inward'[i].status = "cancelled" /\ inward'[i].direct = inward[i].direct /\ inward'[i].bill = inward[i].bill
        /\ inward[i].status = "posted" /\ (gone # 0 => inward[i].direct) /\ gone \in {0} \cup Bills
        /\ \A j \in Inwards \ {i} : inward'[j] = inward[j]
    BY <2>1 DEF Posted
  <2>3. bill' = IF gone = 0 THEN bill ELSE [bill EXCEPT ![gone].status = "cancelled"]
    BY <2>1, <2>2
  <2>4. \A j \in Inwards \ {i} : gone # 0 /\ inward[j].status = "posted" => inward[j].bill # gone
    BY <2>2 DEF BillInv
  <2>5. gone = inward[i].bill
    OBVIOUS
  <2> HIDE DEF gone
  <2>6. \A j \in Inwards :
           \/ inward'[j] = inward[j] /\ (gone # 0 /\ inward[j].status = "posted" => inward[j].bill # gone)
           \/ /\ inward'[j].status = "cancelled" /\ inward'[j].direct = inward[j].direct /\ inward'[j].bill = inward[j].bill
              /\ inward[j].status = "posted" /\ inward[j].bill = gone /\ (gone # 0 => inward[j].direct)
    BY <2>2, <2>4, <2>5
  <2> QED
    BY <1>0, <2>2, <2>3, <2>6, BillGoes
<1>6. ASSUME NEW c \in Clerks, NEW b \in Bills, cancelBill(c, b) PROVE BillInv'
  <2>1. /\ bill' = [bill EXCEPT ![b].status = "cancelled"] /\ DirectOn(b) = {}
        /\ inward' = [i \in Inwards |-> IF Posted(i) /\ inward[i].bill = b THEN [inward[i] EXCEPT !.bill = 0]
                                        ELSE inward[i]]
    BY <1>6 DEF cancelBill
  <2>2. b # 0 /\ b \in {0} \cup Bills
    BY <1>0
  <2>3. ASSUME NEW i \in Inwards
        PROVE  \/ inward'[i] = inward[i] /\ (b # 0 /\ inward[i].status = "posted" => inward[i].bill # b)
               \/ /\ inward'[i].status = "posted" /\ ~inward'[i].direct /\ inward'[i].bill = 0
                  /\ inward[i].status = "none" \/ inward[i].bill \in {0, b}
    <3>1. CASE Posted(i) /\ inward[i].bill = b
      <4>1. inward[i] \in InwardRows /\ ~inward[i].direct
        BY <1>0, <2>1, <3>1, InwardRow DEF Posted, DirectOn
      <4>2. inward'[i] = [inward[i] EXCEPT !.bill = 0]
        BY <2>1, <3>1
      <4>3. inward'[i].status = "posted" /\ ~inward'[i].direct /\ inward'[i].bill = 0
        BY <3>1, <4>1, <4>2 DEF InwardRows, Posted
      <4> QED
        BY <3>1, <4>3
    <3>2. CASE ~(Posted(i) /\ inward[i].bill = b)
      BY <2>1, <3>2 DEF Posted
    <3> QED
      BY <3>1, <3>2
  <2>4. bill' = IF b = 0 THEN bill ELSE [bill EXCEPT ![b].status = "cancelled"]
    BY <2>1, <2>2
  <2> QED
    BY <1>0, <2>2, <2>3, <2>4, BillGoes
<1> QED
  BY <1>1, <1>2, <1>3, <1>4, <1>5, <1>6, PapersStay

LEMMA BillStarts ==
  ASSUME Init
  PROVE  BillInv
<1>1. bill = [b \in Bills |-> NoBill] /\ inward = [i \in Inwards |-> NoInward]
  BY DEF Init, PurchasesInit
<1>2. (\A i \in Inwards : inward[i].status = "none") /\ \A b \in Bills : bill[b].status = "none"
  BY <1>1 DEF NoInward, NoBill
<1>3. BillTogether
  BY <1>2, BillParts
<1> QED
  BY <1>2, <1>3 DEF BillInv

\* "A direct purchase goes with its bill: both are cancelled together"
\* (purchase.service.ts:317): through every bill, cancellation and order of requests, neither
\* stands without the other, and a bill that stands is for what stands on it.
THEOREM BillsTogetherEver == Spec => []BillTogether
<1>1. Init => BillInv
  BY BillStarts
<1>2. GoodsInv /\ BillInv /\ [Next]_goodsVars => BillInv'
  BY BillKeeps
<1>3. BillInv => BillTogether
  BY DEF BillInv
<1> QED
  BY <1>1, <1>2, <1>3, GoodsInvHolds, PTL DEF Spec

-------------------------------------------------------------------------------
\* What the documents that stand say a supplier is owed, table by table.

InwardDue(row, s)  == IF row.status = "posted" /\ row.supplier = s THEN row.line.rupees ELSE 0
InwardFine(row, s) == IF row.status = "posted" /\ row.supplier = s THEN row.line.fine ELSE 0
BillDue(row, s)    == IF row.status = "posted" /\ row.supplier = s THEN row.gst ELSE 0
BackDue(row, rows, s)  == IF row.status = "posted" /\ rows[row.inward].supplier = s THEN row.rupees + row.gst ELSE 0
BackFine(row, rows, s) == IF row.status = "posted" /\ rows[row.inward].supplier = s THEN row.fine ELSE 0
FixedDue(row, s) == IF row.status = "posted" /\ row.supplier = s /\ row.kind = "rate_fix" THEN row.amount ELSE 0
PaidDue(row, s)  == IF row.status = "posted" /\ row.supplier = s /\ row.kind = "payment" THEN row.amount ELSE 0
GivenFine(row, s) == IF row.status = "posted" /\ row.supplier = s THEN row.fine ELSE 0

InwardDues(rows, s)  == SumFunctionOnSet([i \in Inwards |-> InwardDue(rows[i], s)], Inwards)
InwardFines(rows, s) == SumFunctionOnSet([i \in Inwards |-> InwardFine(rows[i], s)], Inwards)
BillDues(rows, s)    == SumFunctionOnSet([b \in Bills |-> BillDue(rows[b], s)], Bills)
BackDues(backs, rows, s)  == SumFunctionOnSet([r \in Returns |-> BackDue(backs[r], rows, s)], Returns)
BackFines(backs, rows, s) == SumFunctionOnSet([r \in Returns |-> BackFine(backs[r], rows, s)], Returns)
FixedDues(rows, s)  == SumFunctionOnSet([k \in Settlements |-> FixedDue(rows[k], s)], Settlements)
PaidDues(rows, s)   == SumFunctionOnSet([k \in Settlements |-> PaidDue(rows[k], s)], Settlements)
GivenFines(rows, s) == SumFunctionOnSet([k \in Settlements |-> GivenFine(rows[k], s)], Settlements)

LEMMA PartAdded ==
  ASSUME NEW S, IsFiniteSet(S), NEW R \in SUBSET S, NEW f, NEW e, DOMAIN f = R,
         \A x \in R : f[x] \in Int /\ e[x] = f[x], \A x \in S \ R : e[x] = 0
  PROVE  SumFunction(f) = SumFunctionOnSet(e, S) /\ SumFunctionOnSet(e, S) \in Int
<1>1. SumFunctionOnSet(f, R) = SumFunctionOnSet(e, S)
  BY SumOfPart
<1>2. \A x \in S : e[x] \in Int
  OBVIOUS
<1>3. SumFunctionOnSet(e, S) \in Int
  BY <1>2, SumInt
<1> QED
  BY <1>1, <1>3 DEF SumFunction

LEMMA InwardSums ==
  ASSUME NEW rows \in [Inwards -> InwardRows \cup {NoInward}], NEW s
  PROVE  LET mine == {i \in Inwards : rows[i].status = "posted" /\ rows[i].supplier = s} IN
         /\ SumFunction([i \in mine |-> rows[i].line.rupees]) = InwardDues(rows, s) /\ InwardDues(rows, s) \in Int
         /\ SumFunction([i \in mine |-> rows[i].line.fine]) = InwardFines(rows, s) /\ InwardFines(rows, s) \in Int
<1>0. IsFiniteSet(Inwards)
  BY GoodsFinite
<1> DEFINE mine == {i \in Inwards : rows[i].status = "posted" /\ rows[i].supplier = s}
           f == [i \in mine |-> rows[i].line.rupees]
           g == [i \in mine |-> rows[i].line.fine]
           e == [i \in Inwards |-> InwardDue(rows[i], s)]
           h == [i \in Inwards |-> InwardFine(rows[i], s)]
<1>1. \A i \in mine : rows[i].line.rupees \in Int /\ rows[i].line.fine \in Int
  BY InwardRow DEF PricedRows
<1>2. /\ DOMAIN f = mine /\ \A i \in mine : f[i] \in Int /\ e[i] = f[i]
      /\ DOMAIN g = mine /\ \A i \in mine : g[i] \in Int /\ h[i] = g[i]
  BY <1>1 DEF InwardDue, InwardFine
<1>3. mine \in SUBSET Inwards /\ \A i \in Inwards \ mine : e[i] = 0 /\ h[i] = 0
  BY DEF InwardDue, InwardFine
<1> HIDE DEF mine, f, g, e, h
<1>4. SumFunction(f) = SumFunctionOnSet(e, Inwards) /\ SumFunctionOnSet(e, Inwards) \in Int
  BY <1>0, <1>2, <1>3, PartAdded
<1>5. SumFunction(g) = SumFunctionOnSet(h, Inwards) /\ SumFunctionOnSet(h, Inwards) \in Int
  BY <1>0, <1>2, <1>3, PartAdded
<1> QED
  BY <1>4, <1>5 DEF mine, f, g, e, h, InwardDues, InwardFines

LEMMA BillSums ==
  ASSUME NEW rows \in [Bills -> BillRows], NEW s
  PROVE  /\ SumFunction([b \in {b \in Bills : rows[b].status = "posted" /\ rows[b].supplier = s} |-> rows[b].gst])
              = BillDues(rows, s)
         /\ BillDues(rows, s) \in Int
<1>0. IsFiniteSet(Bills)
  BY GoodsFinite
<1> DEFINE mine == {b \in Bills : rows[b].status = "posted" /\ rows[b].supplier = s}
           f == [b \in mine |-> rows[b].gst]
           e == [b \in Bills |-> BillDue(rows[b], s)]
<1>1. DOMAIN f = mine /\ \A b \in mine : f[b] \in Int /\ e[b] = f[b]
  BY DEF BillDue, BillRows
<1>2. mine \in SUBSET Bills /\ \A b \in Bills \ mine : e[b] = 0
  BY DEF BillDue
<1> HIDE DEF mine, f, e
<1>3. SumFunction(f) = SumFunctionOnSet(e, Bills) /\ SumFunctionOnSet(e, Bills) \in Int
  BY <1>0, <1>1, <1>2, PartAdded
<1> QED
  BY <1>3 DEF mine, f, e, BillDues

LEMMA BackSums ==
  ASSUME NEW backs \in [Returns -> ReturnRows], NEW rows, NEW s
  PROVE  LET mine == {r \in Returns : backs[r].status = "posted" /\ rows[backs[r].inward].supplier = s} IN
         /\ SumFunction([r \in mine |-> backs[r].rupees + backs[r].gst]) = BackDues(backs, rows, s)
         /\ SumFunction([r \in mine |-> backs[r].fine]) = BackFines(backs, rows, s)
         /\ BackDues(backs, rows, s) \in Int /\ BackFines(backs, rows, s) \in Int
<1>0. IsFiniteSet(Returns)
  BY GoodsFinite
<1> DEFINE mine == {r \in Returns : backs[r].status = "posted" /\ rows[backs[r].inward].supplier = s}
           f == [r \in mine |-> backs[r].rupees + backs[r].gst]
           g == [r \in mine |-> backs[r].fine]
           e == [r \in Returns |-> BackDue(backs[r], rows, s)]
           h == [r \in Returns |-> BackFine(backs[r], rows, s)]
<1>1. /\ DOMAIN f = mine /\ \A r \in mine : f[r] \in Int /\ e[r] = f[r]
      /\ DOMAIN g = mine /\ \A r \in mine : g[r] \in Int /\ h[r] = g[r]
  BY DEF BackDue, BackFine, ReturnRows
<1>2. mine \in SUBSET Returns /\ \A r \in Returns \ mine : e[r] = 0 /\ h[r] = 0
  BY DEF BackDue, BackFine
<1> HIDE DEF mine, f, g, e, h
<1>3. SumFunction(f) = SumFunctionOnSet(e, Returns) /\ SumFunctionOnSet(e, Returns) \in Int
  BY <1>0, <1>1, <1>2, PartAdded
<1>4. SumFunction(g) = SumFunctionOnSet(h, Returns) /\ SumFunctionOnSet(h, Returns) \in Int
  BY <1>0, <1>1, <1>2, PartAdded
<1> QED
  BY <1>3, <1>4 DEF mine, f, g, e, h, BackDues, BackFines

LEMMA SettledSums ==
  ASSUME NEW rows \in [Settlements -> SettlementRows], NEW s
  PROVE  LET mine == {k \in Settlements : rows[k].status = "posted" /\ rows[k].supplier = s} IN
         /\ SumFunction([k \in {k \in mine : rows[k].kind = "rate_fix"} |-> rows[k].amount]) = FixedDues(rows, s)
         /\ SumFunction([k \in {k \in mine : rows[k].kind = "payment"} |-> rows[k].amount]) = PaidDues(rows, s)
         /\ SumFunction([k \in mine |-> rows[k].fine]) = GivenFines(rows, s)
         /\ FixedDues(rows, s) \in Int /\ PaidDues(rows, s) \in Int /\ GivenFines(rows, s) \in Int
<1>0. IsFiniteSet(Settlements)
  BY GoodsFinite
<1> DEFINE mine == {k \in Settlements : rows[k].status = "posted" /\ rows[k].supplier = s}
           fixed == {k \in mine : rows[k].kind = "rate_fix"}
           paid == {k \in mine : rows[k].kind = "payment"}
           f == [k \in fixed |-> rows[k].amount]
           p == [k \in paid |-> rows[k].amount]
           g == [k \in mine |-> rows[k].fine]
           ef == [k \in Settlements |-> FixedDue(rows[k], s)]
           ep == [k \in Settlements |-> PaidDue(rows[k], s)]
           eg == [k \in Settlements |-> GivenFine(rows[k], s)]
<1>1. DOMAIN f = fixed /\ \A k \in fixed : f[k] \in Int /\ ef[k] = f[k]
  BY DEF FixedDue, SettlementRows
<1>2. DOMAIN p = paid /\ \A k \in paid : p[k] \in Int /\ ep[k] = p[k]
  BY DEF PaidDue, SettlementRows
<1>3. DOMAIN g = mine /\ \A k \in mine : g[k] \in Int /\ eg[k] = g[k]
  BY DEF GivenFine, SettlementRows
<1>4. /\ fixed \in SUBSET Settlements /\ paid \in SUBSET Settlements /\ mine \in SUBSET Settlements
      /\ \A k \in Settlements \ fixed : ef[k] = 0
      /\ \A k \in Settlements \ paid : ep[k] = 0
      /\ \A k \in Settlements \ mine : eg[k] = 0
  BY DEF FixedDue, PaidDue, GivenFine
<1> HIDE DEF mine, fixed, paid, f, p, g, ef, ep, eg
<1>5. SumFunction(f) = SumFunctionOnSet(ef, Settlements) /\ SumFunctionOnSet(ef, Settlements) \in Int
  BY <1>0, <1>1, <1>4, PartAdded
<1>6. SumFunction(p) = SumFunctionOnSet(ep, Settlements) /\ SumFunctionOnSet(ep, Settlements) \in Int
  BY <1>0, <1>2, <1>4, PartAdded
<1>7. SumFunction(g) = SumFunctionOnSet(eg, Settlements) /\ SumFunctionOnSet(eg, Settlements) \in Int
  BY <1>0, <1>3, <1>4, PartAdded
<1> QED
  BY <1>5, <1>6, <1>7 DEF mine, fixed, paid, f, p, g, ef, ep, eg, FixedDues, PaidDues, GivenFines

\* One document changes: the sums change by it.
LEMMA InwardChanges ==
  ASSUME NEW rows \in [Inwards -> InwardRows \cup {NoInward}], NEW others \in [Inwards -> InwardRows \cup {NoInward}],
         NEW i \in Inwards, \A x \in Inwards \ {i} : Alike(others[x], rows[x]), NEW s
  PROVE  /\ InwardDues(others, s) = InwardDues(rows, s) - InwardDue(rows[i], s) + InwardDue(others[i], s)
         /\ InwardFines(others, s) = InwardFines(rows, s) - InwardFine(rows[i], s) + InwardFine(others[i], s)
<1> DEFINE f(R) == [x \in Inwards |-> InwardDue(R[x], s)]
           g(R) == [x \in Inwards |-> InwardFine(R[x], s)]
<1>0. IsFiniteSet(Inwards)
  BY GoodsFinite
<1>1. \A x \in Inwards : /\ InwardDue(rows[x], s) \in Int /\ InwardFine(rows[x], s) \in Int
                         /\ InwardDue(others[x], s) \in Int /\ InwardFine(others[x], s) \in Int
  <2>1. \A row \in InwardRows \cup {NoInward} : InwardDue(row, s) \in Int /\ InwardFine(row, s) \in Int
    BY InwardRow DEF InwardDue, InwardFine, PricedRows
  <2> QED
    BY <2>1
<1>2. \A x \in Inwards \ {i} : /\ InwardDue(others[x], s) = InwardDue(rows[x], s)
                               /\ InwardFine(others[x], s) = InwardFine(rows[x], s)
  BY DEF InwardDue, InwardFine, Alike
<1>3. /\ \A x \in Inwards : f(rows)[x] = InwardDue(rows[x], s) /\ f(others)[x] = InwardDue(others[x], s)
      /\ \A x \in Inwards : g(rows)[x] = InwardFine(rows[x], s) /\ g(others)[x] = InwardFine(others[x], s)
  OBVIOUS
<1> DEFINE fr == f(rows)
           fo == f(others)
           gr == g(rows)
           go == g(others)
<1>4. /\ \A x \in Inwards : fr[x] \in Int /\ fo[x] \in Int
      /\ \A x \in Inwards \ {i} : fo[x] = fr[x]
      /\ \A x \in Inwards : gr[x] \in Int /\ go[x] \in Int
      /\ \A x \in Inwards \ {i} : go[x] = gr[x]
      /\ fr[i] = InwardDue(rows[i], s) /\ fo[i] = InwardDue(others[i], s)
      /\ gr[i] = InwardFine(rows[i], s) /\ go[i] = InwardFine(others[i], s)
  BY <1>1, <1>2, <1>3
<1>5. /\ InwardDues(others, s) = SumFunctionOnSet(fo, Inwards) /\ InwardDues(rows, s) = SumFunctionOnSet(fr, Inwards)
      /\ InwardFines(others, s) = SumFunctionOnSet(go, Inwards) /\ InwardFines(rows, s) = SumFunctionOnSet(gr, Inwards)
  BY DEF InwardDues, InwardFines
<1> HIDE DEF fr, fo, gr, go
<1>6. SumFunctionOnSet(fo, Inwards) = SumFunctionOnSet(fr, Inwards) - fr[i] + fo[i]
  BY <1>0, <1>4, SumChanges
<1>7. SumFunctionOnSet(go, Inwards) = SumFunctionOnSet(gr, Inwards) - gr[i] + go[i]
  BY <1>0, <1>4, SumChanges
<1> QED
  BY <1>4, <1>5, <1>6, <1>7

LEMMA InwardsAlike ==
  ASSUME NEW rows, NEW others, \A x \in Inwards : Alike(others[x], rows[x]), NEW s
  PROVE  InwardDues(others, s) = InwardDues(rows, s) /\ InwardFines(others, s) = InwardFines(rows, s)
<1>1. [x \in Inwards |-> InwardDue(others[x], s)] = [x \in Inwards |-> InwardDue(rows[x], s)]
  BY DEF InwardDue, Alike
<1>2. [x \in Inwards |-> InwardFine(others[x], s)] = [x \in Inwards |-> InwardFine(rows[x], s)]
  BY DEF InwardFine, Alike
<1> QED
  BY <1>1, <1>2 DEF InwardDues, InwardFines

LEMMA BillChanges ==
  ASSUME NEW rows \in [Bills -> BillRows], NEW others \in [Bills -> BillRows],
         NEW b \in Bills, \A x \in Bills \ {b} : others[x] = rows[x], NEW s
  PROVE  BillDues(others, s) = BillDues(rows, s) - BillDue(rows[b], s) + BillDue(others[b], s)
<1> DEFINE fr == [x \in Bills |-> BillDue(rows[x], s)]
           fo == [x \in Bills |-> BillDue(others[x], s)]
<1>0. IsFiniteSet(Bills)
  BY GoodsFinite
<1>1. /\ \A x \in Bills : fr[x] \in Int /\ fo[x] \in Int
      /\ \A x \in Bills \ {b} : fo[x] = fr[x]
      /\ fr[b] = BillDue(rows[b], s) /\ fo[b] = BillDue(others[b], s)
  BY DEF BillDue, BillRows
<1>2. BillDues(others, s) = SumFunctionOnSet(fo, Bills) /\ BillDues(rows, s) = SumFunctionOnSet(fr, Bills)
  BY DEF BillDues
<1> HIDE DEF fr, fo
<1>3. SumFunctionOnSet(fo, Bills) = SumFunctionOnSet(fr, Bills) - fr[b] + fo[b]
  BY <1>0, <1>1, SumChanges
<1> QED
  BY <1>1, <1>2, <1>3

LEMMA BackChanges ==
  ASSUME NEW backs \in [Returns -> ReturnRows], NEW others \in [Returns -> ReturnRows], NEW rows,
         NEW r \in Returns, \A x \in Returns \ {r} : others[x] = backs[x], NEW s
  PROVE  /\ BackDues(others, rows, s) = BackDues(backs, rows, s) - BackDue(backs[r], rows, s) + BackDue(others[r], rows, s)
         /\ BackFines(others, rows, s) = BackFines(backs, rows, s) - BackFine(backs[r], rows, s) + BackFine(others[r], rows, s)
<1> DEFINE fr == [x \in Returns |-> BackDue(backs[x], rows, s)]
           fo == [x \in Returns |-> BackDue(others[x], rows, s)]
           gr == [x \in Returns |-> BackFine(backs[x], rows, s)]
           go == [x \in Returns |-> BackFine(others[x], rows, s)]
<1>0. IsFiniteSet(Returns)
  BY GoodsFinite
<1>1. /\ \A x \in Returns : fr[x] \in Int /\ fo[x] \in Int
      /\ \A x \in Returns \ {r} : fo[x] = fr[x]
      /\ fr[r] = BackDue(backs[r], rows, s) /\ fo[r] = BackDue(others[r], rows, s)
  BY DEF BackDue, ReturnRows
<1>2. /\ \A x \in Returns : gr[x] \in Int /\ go[x] \in Int
      /\ \A x \in Returns \ {r} : go[x] = gr[x]
      /\ gr[r] = BackFine(backs[r], rows, s) /\ go[r] = BackFine(others[r], rows, s)
  BY DEF BackFine, ReturnRows
<1>3. /\ BackDues(others, rows, s) = SumFunctionOnSet(fo, Returns) /\ BackDues(backs, rows, s) = SumFunctionOnSet(fr, Returns)
      /\ BackFines(others, rows, s) = SumFunctionOnSet(go, Returns) /\ BackFines(backs, rows, s) = SumFunctionOnSet(gr, Returns)
  BY DEF BackDues, BackFines
<1> HIDE DEF fr, fo, gr, go
<1>4. SumFunctionOnSet(fo, Returns) = SumFunctionOnSet(fr, Returns) - fr[r] + fo[r]
  BY <1>0, <1>1, SumChanges
<1>5. SumFunctionOnSet(go, Returns) = SumFunctionOnSet(gr, Returns) - gr[r] + go[r]
  BY <1>0, <1>2, SumChanges
<1> QED
  BY <1>1, <1>2, <1>3, <1>4, <1>5

\* A return is the supplier's of its inward, whatever bill that is on.
LEMMA BacksAlike ==
  ASSUME NEW backs, NEW rows, NEW others, NEW s,
         \A r \in Returns : backs[r].status = "posted" => others[backs[r].inward].supplier = rows[backs[r].inward].supplier
  PROVE  BackDues(backs, others, s) = BackDues(backs, rows, s) /\ BackFines(backs, others, s) = BackFines(backs, rows, s)
<1>1. [r \in Returns |-> BackDue(backs[r], others, s)] = [r \in Returns |-> BackDue(backs[r], rows, s)]
  BY DEF BackDue
<1>2. [r \in Returns |-> BackFine(backs[r], others, s)] = [r \in Returns |-> BackFine(backs[r], rows, s)]
  BY DEF BackFine
<1> QED
  BY <1>1, <1>2 DEF BackDues, BackFines

LEMMA SettledChanges ==
  ASSUME NEW rows \in [Settlements -> SettlementRows], NEW others \in [Settlements -> SettlementRows],
         NEW k \in Settlements, \A x \in Settlements \ {k} : others[x] = rows[x], NEW s
  PROVE  /\ FixedDues(others, s) = FixedDues(rows, s) - FixedDue(rows[k], s) + FixedDue(others[k], s)
         /\ PaidDues(others, s) = PaidDues(rows, s) - PaidDue(rows[k], s) + PaidDue(others[k], s)
         /\ GivenFines(others, s) = GivenFines(rows, s) - GivenFine(rows[k], s) + GivenFine(others[k], s)
<1> DEFINE fr == [x \in Settlements |-> FixedDue(rows[x], s)]
           fo == [x \in Settlements |-> FixedDue(others[x], s)]
           pr == [x \in Settlements |-> PaidDue(rows[x], s)]
           po == [x \in Settlements |-> PaidDue(others[x], s)]
           gr == [x \in Settlements |-> GivenFine(rows[x], s)]
           go == [x \in Settlements |-> GivenFine(others[x], s)]
<1>0. IsFiniteSet(Settlements)
  BY GoodsFinite
<1>1. /\ \A x \in Settlements : fr[x] \in Int /\ fo[x] \in Int
      /\ \A x \in Settlements \ {k} : fo[x] = fr[x]
      /\ fr[k] = FixedDue(rows[k], s) /\ fo[k] = FixedDue(others[k], s)
  BY DEF FixedDue, SettlementRows
<1>2. /\ \A x \in Settlements : pr[x] \in Int /\ po[x] \in Int
      /\ \A x \in Settlements \ {k} : po[x] = pr[x]
      /\ pr[k] = PaidDue(rows[k], s) /\ po[k] = PaidDue(others[k], s)
  BY DEF PaidDue, SettlementRows
<1>3. /\ \A x \in Settlements : gr[x] \in Int /\ go[x] \in Int
      /\ \A x \in Settlements \ {k} : go[x] = gr[x]
      /\ gr[k] = GivenFine(rows[k], s) /\ go[k] = GivenFine(others[k], s)
  BY DEF GivenFine, SettlementRows
<1>4. /\ FixedDues(others, s) = SumFunctionOnSet(fo, Settlements) /\ FixedDues(rows, s) = SumFunctionOnSet(fr, Settlements)
      /\ PaidDues(others, s) = SumFunctionOnSet(po, Settlements) /\ PaidDues(rows, s) = SumFunctionOnSet(pr, Settlements)
      /\ GivenFines(others, s) = SumFunctionOnSet(go, Settlements) /\ GivenFines(rows, s) = SumFunctionOnSet(gr, Settlements)
  BY DEF FixedDues, PaidDues, GivenFines
<1> HIDE DEF fr, fo, pr, po, gr, go
<1>5. SumFunctionOnSet(fo, Settlements) = SumFunctionOnSet(fr, Settlements) - fr[k] + fo[k]
  BY <1>0, <1>1, SumChanges
<1>6. SumFunctionOnSet(po, Settlements) = SumFunctionOnSet(pr, Settlements) - pr[k] + po[k]
  BY <1>0, <1>2, SumChanges
<1>7. SumFunctionOnSet(go, Settlements) = SumFunctionOnSet(gr, Settlements) - gr[k] + go[k]
  BY <1>0, <1>3, SumChanges
<1> QED
  BY <1>1, <1>2, <1>3, <1>4, <1>5, <1>6, <1>7

\* The ledger, against the tables.
Rupees(inwards, bills, backs, paid, s) ==
  InwardDues(inwards, s) + BillDues(bills, s) - BackDues(backs, inwards, s) + FixedDues(paid, s) - PaidDues(paid, s)

Fine(inwards, backs, given, s) == InwardFines(inwards, s) - BackFines(backs, inwards, s) - GivenFines(given, s)

LEMMA OwedMeans ==
  ASSUME GoodsTypeOK
  PROVE  OwedByDocuments <=> \A s \in Suppliers : /\ owing[s].rupees = Rupees(inward, bill, back, settled, s)
                                                  /\ owing[s].fine = Fine(inward, back, settled, s)
<1>1. /\ inward \in [Inwards -> InwardRows \cup {NoInward}] /\ bill \in [Bills -> BillRows]
      /\ back \in [Returns -> ReturnRows] /\ settled \in [Settlements -> SettlementRows]
  BY DEF GoodsTypeOK, PurchasesTypeOK
<1> DEFINE inwards(s)  == {i \in Inwards : inward[i].status = "posted" /\ inward[i].supplier = s}
           bills(s)    == {b \in Bills : bill[b].status = "posted" /\ bill[b].supplier = s}
           returns(s)  == {r \in Returns : back[r].status = "posted" /\ inward[back[r].inward].supplier = s}
           standing(s) == {k \in Settlements : settled[k].status = "posted" /\ settled[k].supplier = s}
<1>2. ASSUME NEW s
      PROVE  /\ SumFunction([i \in inwards(s) |-> inward[i].line.rupees]) = InwardDues(inward, s)
             /\ SumFunction([i \in inwards(s) |-> inward[i].line.fine]) = InwardFines(inward, s)
  BY <1>1, InwardSums
<1>3. ASSUME NEW s PROVE SumFunction([b \in bills(s) |-> bill[b].gst]) = BillDues(bill, s)
  BY <1>1, BillSums
<1>4. ASSUME NEW s
      PROVE  /\ SumFunction([r \in returns(s) |-> back[r].rupees + back[r].gst]) = BackDues(back, inward, s)
             /\ SumFunction([r \in returns(s) |-> back[r].fine]) = BackFines(back, inward, s)
  BY <1>1, BackSums
<1>5. ASSUME NEW s
      PROVE  /\ SumFunction([k \in {k \in standing(s) : settled[k].kind = "rate_fix"} |-> settled[k].amount])
                  = FixedDues(settled, s)
             /\ SumFunction([k \in {k \in standing(s) : settled[k].kind = "payment"} |-> settled[k].amount])
                  = PaidDues(settled, s)
             /\ SumFunction([k \in standing(s) |-> settled[k].fine]) = GivenFines(settled, s)
  BY <1>1, SettledSums
<1>6. OwedByDocuments <=>
        \A s \in Suppliers :
          /\ owing[s].rupees = SumFunction([i \in inwards(s) |-> inward[i].line.rupees])
               + SumFunction([b \in bills(s) |-> bill[b].gst])
               - SumFunction([r \in returns(s) |-> back[r].rupees + back[r].gst])
               + SumFunction([k \in {k \in standing(s) : settled[k].kind = "rate_fix"} |-> settled[k].amount])
               - SumFunction([k \in {k \in standing(s) : settled[k].kind = "payment"} |-> settled[k].amount])
          /\ owing[s].fine = SumFunction([i \in inwards(s) |-> inward[i].line.fine])
               - SumFunction([r \in returns(s) |-> back[r].fine]) - SumFunction([k \in standing(s) |-> settled[k].fine])
  BY DEF OwedByDocuments, Posted
<1> HIDE DEF inwards, bills, returns, standing
<1> QED
  BY <1>2, <1>3, <1>4, <1>5, <1>6 DEF Rupees, Fine

OwedTold ==
  \A s \in Suppliers : /\ owing[s].rupees = Rupees(inward, bill, back, settled, s)
                       /\ owing[s].fine = Fine(inward, back, settled, s)

\* An inward's bill is from its supplier, and what went back had come in.
OwedInv ==
  /\ OwedTold
  /\ \A i \in Inwards : inward[i].status = "posted" /\ inward[i].bill # 0 => bill[inward[i].bill].supplier = inward[i].supplier
  /\ \A r \in Returns : back[r].status = "posted" => back[r].inward \in Inwards /\ inward[back[r].inward].status # "none"

LEMMA DuesTyped ==
  ASSUME GoodsTypeOK, NEW s
  PROVE  /\ InwardDues(inward, s) \in Int /\ InwardFines(inward, s) \in Int /\ BillDues(bill, s) \in Int
         /\ BackDues(back, inward, s) \in Int /\ BackFines(back, inward, s) \in Int
         /\ FixedDues(settled, s) \in Int /\ PaidDues(settled, s) \in Int /\ GivenFines(settled, s) \in Int
<1>1. /\ inward \in [Inwards -> InwardRows \cup {NoInward}] /\ bill \in [Bills -> BillRows]
      /\ back \in [Returns -> ReturnRows] /\ settled \in [Settlements -> SettlementRows]
  BY DEF GoodsTypeOK, PurchasesTypeOK
<1>2. InwardDues(inward, s) \in Int /\ InwardFines(inward, s) \in Int
  BY <1>1, InwardSums
<1>3. BillDues(bill, s) \in Int
  BY <1>1, BillSums
<1>4. BackDues(back, inward, s) \in Int /\ BackFines(back, inward, s) \in Int
  BY <1>1, BackSums
<1>5. FixedDues(settled, s) \in Int /\ PaidDues(settled, s) \in Int /\ GivenFines(settled, s) \in Int
  BY <1>1, SettledSums
<1> QED
  BY <1>2, <1>3, <1>4, <1>5

\* Inwards that change only in the bill they are on leave what is owed for goods alone.
LEMMA AlikeDues ==
  ASSUME OwedInv, \A i \in Inwards : Alike(inward'[i], inward[i]), NEW s
  PROVE  /\ InwardDues(inward', s) = InwardDues(inward, s) /\ InwardFines(inward', s) = InwardFines(inward, s)
         /\ BackDues(back, inward', s) = BackDues(back, inward, s) /\ BackFines(back, inward', s) = BackFines(back, inward, s)
<1>1. \A r \in Returns : back[r].status = "posted" => inward'[back[r].inward].supplier = inward[back[r].inward].supplier
  BY DEF OwedInv, Alike
<1>2. BackDues(back, inward', s) = BackDues(back, inward, s) /\ BackFines(back, inward', s) = BackFines(back, inward, s)
  BY <1>1, BacksAlike
<1>3. InwardDues(inward', s) = InwardDues(inward, s) /\ InwardFines(inward', s) = InwardFines(inward, s)
  BY InwardsAlike
<1> QED
  BY <1>2, <1>3

LEMMA OwedReturned ==
  ASSUME GoodsTypeOK, OwedInv, NEW i \in Inwards, Posted(i), NEW l, NEW m \in Measures, Returned(i, l, m),
         UNCHANGED <<inward, bill, settled>>
  PROVE  OwedInv'
<1>0. back \in [Returns -> ReturnRows] /\ back' \in [Returns -> ReturnRows] /\ owing \in [Suppliers -> Owings]
  BY ReturnedFacts DEF GoodsTypeOK, PurchasesTypeOK
<1>1. PICK r \in Returns :
        /\ back[r].status = "none" /\ back'[r].status = "posted" /\ back'[r].inward = i /\ back'[r].stock = m
        /\ \A x \in Returns \ {r} : back'[x] = back[x]
        /\ \A x \in Suppliers :
             LET mine == x = inward[i].supplier IN
             /\ owing'[x].rupees = owing[x].rupees - (IF mine THEN back'[r].rupees + back'[r].gst ELSE 0)
             /\ owing'[x].fine = owing[x].fine - (IF mine THEN back'[r].fine ELSE 0)
  BY ReturnedFacts
<1>2. ASSUME NEW x \in Suppliers
      PROVE  /\ owing'[x].rupees = Rupees(inward, bill, back', settled, x)
             /\ owing'[x].fine = Fine(inward, back', settled, x)
  <2>1. /\ BackDues(back', inward, x) = BackDues(back, inward, x) - BackDue(back[r], inward, x) + BackDue(back'[r], inward, x)
        /\ BackFines(back', inward, x) = BackFines(back, inward, x) - BackFine(back[r], inward, x) + BackFine(back'[r], inward, x)
    BY <1>0, <1>1, BackChanges
  <2>2. /\ BackDue(back[r], inward, x) = 0 /\ BackFine(back[r], inward, x) = 0
        /\ BackDue(back'[r], inward, x) = IF x = inward[i].supplier THEN back'[r].rupees + back'[r].gst ELSE 0
        /\ BackFine(back'[r], inward, x) = IF x = inward[i].supplier THEN back'[r].fine ELSE 0
    BY <1>1 DEF BackDue, BackFine
  <2>3. /\ owing'[x].rupees = owing[x].rupees - BackDue(back'[r], inward, x)
        /\ owing'[x].fine = owing[x].fine - BackFine(back'[r], inward, x)
    BY <1>1, <2>2
  <2>4. BackDue(back'[r], inward, x) \in Int /\ BackFine(back'[r], inward, x) \in Int
    BY <1>0, <2>2 DEF ReturnRows
  <2>5. owing[x].rupees = Rupees(inward, bill, back, settled, x) /\ owing[x].fine = Fine(inward, back, settled, x)
    BY DEF OwedInv, OwedTold
  <2> DEFINE due == BackDue(back'[r], inward, x)
             fine == BackFine(back'[r], inward, x)
  <2>6. /\ due \in Int /\ fine \in Int /\ owing'[x].rupees = owing[x].rupees - due /\ owing'[x].fine = owing[x].fine - fine
        /\ BackDues(back', inward, x) = BackDues(back, inward, x) - 0 + due
        /\ BackFines(back', inward, x) = BackFines(back, inward, x) - 0 + fine
    BY <2>1, <2>2, <2>3, <2>4
  <2> HIDE DEF due, fine
  <2> QED
    BY <2>5, <2>6, DuesTyped DEF Rupees, Fine
<1>3. OwedTold'
  BY <1>2 DEF OwedTold
<1>4. inward[i].status # "none"
  BY DEF Posted
<1>5. \A x \in Returns : back'[x].status = "posted" => back'[x].inward \in Inwards /\ inward'[back'[x].inward].status # "none"
  BY <1>1, <1>4 DEF OwedInv
<1>6. \A x \in Inwards : inward'[x].status = "posted" /\ inward'[x].bill # 0 => bill'[inward'[x].bill].supplier = inward'[x].supplier
  BY DEF OwedInv
<1> QED
  BY <1>3, <1>5, <1>6 DEF OwedInv

\* A settlement comes or goes: what is owed by it, in rupees and in fine metal.
SettledDue(row) ==
  IF row.status # "posted" THEN 0 ELSE IF row.kind = "payment" THEN -row.amount ELSE IF row.kind = "metal" THEN 0 ELSE row.amount

SettledFine(row) == IF row.status = "posted" THEN row.fine ELSE 0

LEMMA OwedSettled ==
  ASSUME GoodsTypeOK, OwedInv, settled' \in [Settlements -> SettlementRows],
         NEW k \in Settlements, NEW s \in Suppliers \cup {None}, NEW due \in Int, NEW fine \in Int,
         \A x \in Settlements \ {k} : settled'[x] = settled[x],
         settled[k].status = "posted" => settled[k].supplier = s, settled'[k].status = "posted" => settled'[k].supplier = s,
         due = SettledDue(settled'[k]) - SettledDue(settled[k]), fine = SettledFine(settled'[k]) - SettledFine(settled[k]),
         \A x \in Suppliers : x = s => owing'[x].rupees = owing[x].rupees + due /\ owing'[x].fine = owing[x].fine - fine,
         \A x \in Suppliers \ {s} : owing'[x].rupees = owing[x].rupees,
         \A x \in Suppliers \ {s} : owing'[x].fine = owing[x].fine,
         inward' = inward, bill' = bill, back' = back
  PROVE  OwedInv'
<1>0. settled \in [Settlements -> SettlementRows]
  BY DEF GoodsTypeOK, PurchasesTypeOK
<1>1. ASSUME NEW x \in Suppliers
      PROVE  /\ owing'[x].rupees = Rupees(inward, bill, back, settled', x)
             /\ owing'[x].fine = Fine(inward, back, settled', x)
  <2> DEFINE fr == FixedDue(settled[k], x)
             fo == FixedDue(settled'[k], x)
             pr == PaidDue(settled[k], x)
             po == PaidDue(settled'[k], x)
             gr == GivenFine(settled[k], x)
             go == GivenFine(settled'[k], x)
  <2>1. /\ FixedDues(settled', x) = FixedDues(settled, x) - fr + fo
        /\ PaidDues(settled', x) = PaidDues(settled, x) - pr + po
        /\ GivenFines(settled', x) = GivenFines(settled, x) - gr + go
    BY <1>0, SettledChanges
  <2>2. fr \in Int /\ fo \in Int /\ pr \in Int /\ po \in Int /\ gr \in Int /\ go \in Int
    BY <1>0 DEF FixedDue, PaidDue, GivenFine, SettlementRows
  <2>3. ASSUME NEW row \in SettlementRows, row.status = "posted" => row.supplier = s
        PROVE  /\ FixedDue(row, x) - PaidDue(row, x) = IF x = s THEN SettledDue(row) ELSE 0
               /\ GivenFine(row, x) = IF x = s THEN SettledFine(row) ELSE 0
               /\ SettledDue(row) \in Int /\ SettledFine(row) \in Int
    BY <2>3 DEF FixedDue, PaidDue, GivenFine, SettledDue, SettledFine, SettlementRows
  <2>4. settled[k] \in SettlementRows /\ settled'[k] \in SettlementRows
    BY <1>0
  <2>5. /\ fr - pr = (IF x = s THEN SettledDue(settled[k]) ELSE 0) /\ gr = (IF x = s THEN SettledFine(settled[k]) ELSE 0)
        /\ fo - po = (IF x = s THEN SettledDue(settled'[k]) ELSE 0) /\ go = (IF x = s THEN SettledFine(settled'[k]) ELSE 0)
        /\ SettledDue(settled[k]) \in Int /\ SettledFine(settled[k]) \in Int
        /\ SettledDue(settled'[k]) \in Int /\ SettledFine(settled'[k]) \in Int
    BY <2>3, <2>4
  <2> HIDE DEF fr, fo, pr, po, gr, go
  <2>6. /\ owing'[x].rupees = owing[x].rupees + ((fo - po) - (fr - pr))
        /\ owing'[x].fine = owing[x].fine - (go - gr)
    <3>1. owing[x].rupees \in Int /\ owing[x].fine \in Int
      BY DEF GoodsTypeOK, PurchasesTypeOK, Owings
    <3> QED
      BY <2>5, <3>1
  <2>7. owing[x].rupees = Rupees(inward, bill, back, settled, x) /\ owing[x].fine = Fine(inward, back, settled, x)
    BY DEF OwedInv, OwedTold
  <2> QED
    BY <2>1, <2>2, <2>6, <2>7, DuesTyped DEF Rupees, Fine
<1>2. OwedTold'
  BY <1>1 DEF OwedTold
<1> QED
  BY <1>2 DEF OwedInv

\* What one inward or one bill adds to a supplier, and takes off when it is cancelled.
LEMMA BillComes ==
  ASSUME NEW rows \in [Bills -> BillRows], NEW others \in [Bills -> BillRows], NEW b \in Bills,
         \A x \in Bills \ {b} : others[x] = rows[x], rows[b].status # "posted", others[b].status = "posted", NEW y
  PROVE  BillDues(others, y) = BillDues(rows, y) + (IF y = others[b].supplier THEN others[b].gst ELSE 0)
<1>1. BillDues(others, y) = BillDues(rows, y) - BillDue(rows[b], y) + BillDue(others[b], y)
  BY BillChanges
<1>2. BillDue(rows[b], y) = 0 /\ BillDue(others[b], y) = IF y = others[b].supplier THEN others[b].gst ELSE 0
  BY DEF BillDue
<1>3. BillDues(rows, y) \in Int
  BY BillSums
<1>4. others[b].gst \in Int
  BY DEF BillRows
<1> QED
  BY <1>1, <1>2, <1>3, <1>4

LEMMA BillLeaves ==
  ASSUME NEW rows \in [Bills -> BillRows], NEW others \in [Bills -> BillRows], NEW b \in Bills,
         \A x \in Bills \ {b} : others[x] = rows[x], rows[b].status = "posted", others[b].status # "posted", NEW y
  PROVE  BillDues(others, y) = BillDues(rows, y) + (IF y = rows[b].supplier THEN -rows[b].gst ELSE 0)
<1>1. BillDues(others, y) = BillDues(rows, y) - BillDue(rows[b], y) + BillDue(others[b], y)
  BY BillChanges
<1>2. BillDue(others[b], y) = 0 /\ BillDue(rows[b], y) = IF y = rows[b].supplier THEN rows[b].gst ELSE 0
  BY DEF BillDue
<1>3. BillDues(rows, y) \in Int
  BY BillSums
<1>4. rows[b].gst \in Int
  BY DEF BillRows
<1> QED
  BY <1>1, <1>2, <1>3, <1>4

LEMMA OwedBooked ==
  ASSUME GoodsTypeOK, OwedInv,
         NEW due \in [Suppliers -> Int], NEW tax \in [Suppliers -> Int], NEW fine \in [Suppliers -> Int],
         \A x \in Suppliers : InwardDues(inward', x) = InwardDues(inward, x) + due[x],
         \A x \in Suppliers : InwardFines(inward', x) = InwardFines(inward, x) + fine[x],
         \A x \in Suppliers : BillDues(bill', x) = BillDues(bill, x) + tax[x],
         \A r \in Returns : back[r].status = "posted" => inward'[back[r].inward].supplier = inward[back[r].inward].supplier,
         \A x \in Suppliers : owing'[x].rupees = owing[x].rupees + (due[x] + tax[x]),
         \A x \in Suppliers : owing'[x].fine = owing[x].fine + fine[x],
         back' = back, settled' = settled
  PROVE  OwedTold'
<1>1. ASSUME NEW x \in Suppliers
      PROVE  /\ owing'[x].rupees = Rupees(inward', bill', back, settled, x)
             /\ owing'[x].fine = Fine(inward', back, settled, x)
  <2>1. BackDues(back, inward', x) = BackDues(back, inward, x) /\ BackFines(back, inward', x) = BackFines(back, inward, x)
    BY BacksAlike
  <2>2. owing[x].rupees = Rupees(inward, bill, back, settled, x) /\ owing[x].fine = Fine(inward, back, settled, x)
    BY DEF OwedInv, OwedTold
  <2>3. due[x] \in Int /\ tax[x] \in Int /\ fine[x] \in Int
    OBVIOUS
  <2> QED
    BY <2>1, <2>2, <2>3, DuesTyped DEF Rupees, Fine
<1> QED
  BY <1>1 DEF OwedTold

\* A bill for one inward.
LEMMA BilledAlone ==
  ASSUME bill \in [Bills -> BillRows], NEW rows \in [Inwards -> InwardRows \cup {NoInward}], NEW b \in Bills,
         NEW s \in Suppliers, NEW i \in Inwards, rows[i].status # "none", NEW gst \in Nat, Billed(b, s, {i}, rows, gst)
  PROVE  /\ \A x \in Inwards : Alike(inward'[x], rows[x])
         /\ \A x \in Inwards : x # i => inward'[x] = rows[x]
         /\ inward'[i].bill = b
         /\ \A x \in Bills \ {b} : bill'[x] = bill[x]
         /\ bill'[b].status = "posted" /\ bill'[b].supplier = s /\ bill'[b].gst = gst
<1>1. PICK set \in SUBSET Inwards : set = {i}
  OBVIOUS
<1>2. (\A x \in set : rows[x].status # "none") /\ Billed(b, s, set, rows, gst)
  BY <1>1
<1>3. \A x \in Inwards : Alike(inward'[x], rows[x])
  BY <1>2, BilledFacts, Zenon
<1>4. \A x \in set : inward'[x].bill = b
  BY <1>2, BilledFacts
<1>5. \A x \in Inwards \ set : inward'[x] = rows[x]
  BY <1>2, BilledFacts
<1>6. \A x \in Bills \ {b} : bill'[x] = bill[x]
  BY <1>2, BilledFacts
<1>7. bill'[b].status = "posted"
  BY <1>2, BilledFacts, Zenon
<1>8. bill'[b].supplier = s /\ bill'[b].gst = gst
  BY DEF Billed
<1> QED
  BY <1>1, <1>3, <1>4, <1>5, <1>6, <1>7, <1>8

LEMMA createInwardOwed ==
  ASSUME GoodsInv, GoodsTypeOK', BillInv, OwedInv, NEW c \in Clerks, createInward(c)
  PROVE  OwedInv'
<1>0. /\ inward \in [Inwards -> InwardRows \cup {NoInward}] /\ inward' \in [Inwards -> InwardRows \cup {NoInward}]
      /\ bill \in [Bills -> BillRows] /\ bill' \in [Bills -> BillRows] /\ owing \in [Suppliers -> Owings]
      /\ account \in [stock : Int, gst : Int, gap : Int, paid : Int] /\ GoodsTypeOK
  BY DEF GoodsInv, GoodsTypeOK, PurchasesTypeOK
<1>1. PICK s \in Suppliers, l \in Counters, p \in PricedRows, i \in Inwards, o \in {0} \cup Orders, gst \in Nat,
            billed, direct \in BOOLEAN :
         \E ol \in OrderLines \cup {None} :
         \E rows \in [Inwards -> InwardRows \cup {NoInward}] :
           /\ inward[i].status = "none" /\ (direct => billed) /\ (p.item = "tagged" => p.pieces > 0)
           /\ p.item = "metal" => p.pieces = 0
           /\ o # 0 => order[o].status = "confirmed"
           /\ rows = [inward EXCEPT ![i] = [status |-> "posted", supplier |-> s, place |-> l, line |-> p,
                        direct |-> direct, bill |-> 0, order |-> o, orderLine |-> ol]]
           /\ lot' = [lot EXCEPT ![i] = IF p.item = "tagged"
                        THEN [NoLot EXCEPT !.status = "open", !.expected = Received(p)] ELSE NoLot]
           /\ rollUpOrder(rows, o)
           /\ \/ ~billed /\ inward' = rows /\ bill' = bill /\ gst = 0
              \/ billed /\ \E b \in Bills : bill[b].status = "none" /\ Billed(b, s, {i}, rows, gst)
           /\ recordMovements(At(p.item, l, Received(p)), At(p.item, l, Nothing), FALSE)
           /\ postVoucher(s, [InwardVoucher(p) EXCEPT !.gst = gst, !.rupees = @ + gst], p.fine, 0, InwardVoucher(p).metal)
  BY InwardFacts
<1>2. PICK ol \in OrderLines \cup {None}, rows \in [Inwards -> InwardRows \cup {NoInward}] :
           /\ rows = [inward EXCEPT ![i] = [status |-> "posted", supplier |-> s, place |-> l, line |-> p,
                        direct |-> direct, bill |-> 0, order |-> o, orderLine |-> ol]]
           /\ \/ ~billed /\ inward' = rows /\ bill' = bill /\ gst = 0
              \/ billed /\ \E b \in Bills : bill[b].status = "none" /\ Billed(b, s, {i}, rows, gst)
  BY <1>1
<1>3. inward[i].status = "none"
  BY <1>1
<1>4. /\ rows[i].status = "posted" /\ rows[i].supplier = s /\ rows[i].line = p /\ rows[i].bill = 0
      /\ \A x \in Inwards \ {i} : rows[x] = inward[x]
  BY <1>0, <1>2
<1>5. UNCHANGED <<back, settled>>
  BY DEF createInward
<1> DEFINE v == [InwardVoucher(p) EXCEPT !.gst = gst, !.rupees = @ + gst]
           value == InwardVoucher(p).metal
           fine == p.fine
           due == p.rupees
<1>6. fine \in Nat /\ due \in Nat
  BY DEF PricedRows
<1>7. v \in Vouchers /\ v.rupees = due + gst /\ value \in Nat
  <2>1. gst \in Int
    OBVIOUS
  <2> QED
    BY <2>1, InwardVoucherFacts
<1> DEFINE fineOut == 0
<1>8. postVoucher(s, v, fine, fineOut, value) /\ fineOut = 0 /\ fineOut \in Int
  BY <1>1
<1> HIDE DEF v, value, fine, fineOut
<1>9. \A x \in Suppliers :
        /\ owing'[x].rupees = IF x = s THEN owing[x].rupees + v.rupees ELSE owing[x].rupees
        /\ owing'[x].fine = IF x = s THEN owing[x].fine + fine - fineOut ELSE owing[x].fine
  <2>1. /\ v \in Vouchers /\ value \in Nat /\ fine \in Nat /\ fineOut \in Int /\ owing \in [Suppliers -> Owings]
        /\ account \in [stock : Int, gst : Int, gap : Int, paid : Int] /\ postVoucher(s, v, fine, fineOut, value)
    BY <1>0, <1>6, <1>7, <1>8
  <2> QED
    BY <2>1, VoucherFacts
<1>10. ASSUME NEW x \in Suppliers
       PROVE  /\ owing'[x].rupees = IF x = s THEN owing[x].rupees + (due + gst) ELSE owing[x].rupees
              /\ owing'[x].fine = IF x = s THEN owing[x].fine + fine ELSE owing[x].fine
  <2>1. owing[x].fine \in Int
    BY <1>0 DEF Owings
  <2> HIDE DEF due
  <2> QED
    BY <1>6, <1>7, <1>8, <1>9, <2>1
<1>11. /\ \A x \in Inwards : Alike(inward'[x], rows[x])
       /\ \A x \in Inwards \ {i} : inward'[x] = inward[x]
       /\ \/ bill' = bill /\ gst = 0 /\ inward'[i].bill = 0
          \/ \E b \in Bills : /\ bill[b].status = "none" /\ bill'[b].status = "posted" /\ bill'[b].supplier = s /\ bill'[b].gst = gst
                              /\ \A x \in Bills \ {b} : bill'[x] = bill[x]
                              /\ inward'[i].bill = b
  <2>1. CASE inward' = rows /\ bill' = bill /\ gst = 0
    BY <1>4, <2>1 DEF Alike
  <2>2. CASE \E b \in Bills : bill[b].status = "none" /\ Billed(b, s, {i}, rows, gst)
    <3>1. PICK b \in Bills : bill[b].status = "none" /\ Billed(b, s, {i}, rows, gst)
      BY <2>2
    <3>2. rows[i].status # "none" /\ Billed(b, s, {i}, rows, gst) /\ bill \in [Bills -> BillRows]
      BY <1>0, <1>4, <3>1
    <3>3. \A x \in Inwards : Alike(inward'[x], rows[x])
      BY <3>2, BilledAlone
    <3>4. \A x \in Inwards : x # i => inward'[x] = rows[x]
      BY <3>1 DEF Billed
    <3>5. inward'[i].bill = b
      BY <3>2, BilledAlone
    <3>6. \A x \in Bills \ {b} : bill'[x] = bill[x]
      BY <3>2, BilledAlone
    <3>7. bill'[b].status = "posted" /\ bill'[b].supplier = s /\ bill'[b].gst = gst
      BY <3>2, BilledAlone
    <3> QED
      BY <1>4, <3>1, <3>3, <3>4, <3>5, <3>6, <3>7
  <2> QED
    BY <1>2, <2>1, <2>2
<1>12. inward'[i].status = "posted" /\ inward'[i].supplier = s /\ inward'[i].line = p
  BY <1>4, <1>11 DEF Alike
<1>13. ASSUME NEW x \in Suppliers
       PROVE  /\ InwardDues(inward', x) = InwardDues(inward, x) + (IF x = s THEN due ELSE 0)
              /\ InwardFines(inward', x) = InwardFines(inward, x) + (IF x = s THEN fine ELSE 0)
  <2>1. \A y \in Inwards \ {i} : Alike(inward'[y], inward[y])
    BY <1>11 DEF Alike
  <2>2. /\ InwardDues(inward', x) = InwardDues(inward, x) - InwardDue(inward[i], x) + InwardDue(inward'[i], x)
        /\ InwardFines(inward', x) = InwardFines(inward, x) - InwardFine(inward[i], x) + InwardFine(inward'[i], x)
    BY <1>0, <2>1, InwardChanges
  <2>3. /\ InwardDue(inward[i], x) = 0 /\ InwardFine(inward[i], x) = 0
        /\ InwardDue(inward'[i], x) = (IF x = s THEN due ELSE 0) /\ InwardFine(inward'[i], x) = IF x = s THEN fine ELSE 0
    BY <1>3, <1>12 DEF InwardDue, InwardFine, fine
  <2> QED
    BY <1>0, <1>6, <2>2, <2>3, DuesTyped
<1>14. ASSUME NEW x \in Suppliers
       PROVE  BillDues(bill', x) = BillDues(bill, x) + (IF x = s THEN gst ELSE 0)
  <2>1. CASE bill' = bill /\ gst = 0
    BY <1>0, <2>1, DuesTyped
  <2>2. CASE \E b \in Bills : /\ bill[b].status = "none" /\ bill'[b].status = "posted" /\ bill'[b].supplier = s
                              /\ bill'[b].gst = gst /\ \A y \in Bills \ {b} : bill'[y] = bill[y]
    <3>1. PICK b \in Bills : /\ bill[b].status = "none" /\ bill'[b].status = "posted" /\ bill'[b].supplier = s
                             /\ bill'[b].gst = gst /\ \A y \in Bills \ {b} : bill'[y] = bill[y]
      BY <2>2
    <3>2. BillDues(bill', x) = BillDues(bill, x) + (IF x = bill'[b].supplier THEN bill'[b].gst ELSE 0)
      BY <1>0, <3>1, BillComes
    <3> QED
      BY <3>1, <3>2
  <2> QED
    BY <1>11, <2>1, <2>2
<1>15. \A r \in Returns : back[r].status = "posted" =>
         /\ back[r].inward \in Inwards /\ back[r].inward # i /\ inward'[back[r].inward] = inward[back[r].inward]
         /\ inward[back[r].inward].status # "none"
  BY <1>3, <1>11 DEF OwedInv
<1>16. \A r \in Returns : back[r].status = "posted" => inward'[back[r].inward].supplier = inward[back[r].inward].supplier
  BY <1>15
<1>17. fine \in Int /\ due \in Int /\ gst \in Int
  BY <1>6
<1> HIDE DEF due
<1>18. OwedTold'
  <2> DEFINE D == [x \in Suppliers |-> IF x = s THEN due ELSE 0]
             T == [x \in Suppliers |-> IF x = s THEN gst ELSE 0]
             F == [x \in Suppliers |-> IF x = s THEN fine ELSE 0]
  <2>1. /\ D \in [Suppliers -> Int] /\ T \in [Suppliers -> Int] /\ F \in [Suppliers -> Int]
        /\ \A x \in Suppliers : InwardDues(inward', x) = InwardDues(inward, x) + D[x]
        /\ \A x \in Suppliers : InwardFines(inward', x) = InwardFines(inward, x) + F[x]
        /\ \A x \in Suppliers : BillDues(bill', x) = BillDues(bill, x) + T[x]
    BY <1>13, <1>14, <1>17
  <2>2. ASSUME NEW x \in Suppliers
        PROVE  owing'[x].rupees = owing[x].rupees + (D[x] + T[x]) /\ owing'[x].fine = owing[x].fine + F[x]
    <3>1. owing[x].rupees \in Int /\ owing[x].fine \in Int
      BY <1>0 DEF Owings
    <3> QED
      BY <1>10, <1>17, <3>1
  <2>3. GoodsTypeOK /\ back' = back /\ settled' = settled
    BY <1>0, <1>5
  <2> HIDE DEF D, T, F
  <2> QED
    BY <1>16, <2>1, <2>2, <2>3, OwedBooked
<1>19. \A r \in Returns : back'[r].status = "posted" => back'[r].inward \in Inwards /\ inward'[back'[r].inward].status # "none"
  BY <1>5, <1>15
<1>20. ASSUME NEW x \in Inwards, inward'[x].status = "posted", inward'[x].bill # 0
       PROVE  bill'[inward'[x].bill].supplier = inward'[x].supplier
  <2>1. CASE x = i
    BY <1>11, <1>12, <1>20, <2>1
  <2>2. CASE x # i
    <3>1. inward'[x] = inward[x] /\ inward[x].status = "posted" /\ inward[x].bill # 0
      BY <1>11, <1>20, <2>2
    <3>2. inward[x].bill \in Bills /\ bill[inward[x].bill].status # "none"
      BY <1>0, <3>1, BillThere
    <3>3. bill'[inward[x].bill] = bill[inward[x].bill]
      BY <1>11, <3>2
    <3> QED
      BY <3>1, <3>3 DEF OwedInv
  <2> QED
    BY <2>1, <2>2
<1> QED
  BY <1>18, <1>19, <1>20 DEF OwedInv

LEMMA cancelInwardOwed ==
  ASSUME GoodsInv, GoodsTypeOK', BillInv, OwedInv, NEW c \in Clerks, cancelInward(c)
  PROVE  OwedInv'
<1>0. /\ inward \in [Inwards -> InwardRows \cup {NoInward}] /\ inward' \in [Inwards -> InwardRows \cup {NoInward}]
      /\ bill \in [Bills -> BillRows] /\ bill' \in [Bills -> BillRows] /\ owing \in [Suppliers -> Owings]
      /\ account \in [stock : Int, gst : Int, gap : Int, paid : Int] /\ GoodsTypeOK
  BY DEF GoodsInv, GoodsTypeOK, PurchasesTypeOK
<1>1. PICK i \in Inwards :
           LET w == inward[i]
               rows == [inward EXCEPT ![i].status = "cancelled"]
           IN
           /\ errand[c].doc = i /\ Posted(i) /\ (w.bill # 0 => w.direct)
           /\ w \in InwardRows /\ w.order \in {0} \cup Orders /\ w.bill \in {0} \cup Bills
           /\ rows \in [Inwards -> InwardRows \cup {NoInward}]
           /\ \A j \in Inwards \ {i} : rows[j] = inward[j]
           /\ rows[i].status = "cancelled" /\ Alike(rows[i], [w EXCEPT !.status = "cancelled"])
           /\ rows[i].order = w.order /\ rows[i].bill = w.bill /\ rows[i].direct = w.direct
           /\ rollUpOrder(rows, w.order) /\ inward' = rows
           /\ bill' = IF w.direct /\ w.bill # 0 THEN [bill EXCEPT ![w.bill].status = "cancelled"] ELSE bill
  BY CancelFacts
<1> DEFINE w == inward[i]
           s == w.supplier
           withBill == w.direct /\ w.bill # 0
           gst == IF withBill THEN bill[w.bill].gst ELSE 0
           p == w.line
           due == p.rupees
           fine == p.fine
           v == [Mirror(InwardVoucher(p)) EXCEPT !.gst = -gst, !.rupees = @ - gst]
           none == 0
<1>2. /\ inward[i].status = "posted" /\ (w.bill # 0 => w.direct) /\ w \in InwardRows /\ w.bill \in {0} \cup Bills
      /\ inward'[i].status = "cancelled" /\ inward'[i].bill = w.bill
      /\ \A j \in Inwards \ {i} : inward'[j] = inward[j]
      /\ bill' = IF withBill THEN [bill EXCEPT ![w.bill].status = "cancelled"] ELSE bill
  BY <1>1 DEF Posted
<1>3. inward'[i].supplier = inward[i].supplier
  BY <1>1 DEF Alike, InwardRows
<1>4. postVoucher(s, v, none, fine, none) /\ back' = back /\ settled' = settled
  BY <1>1 DEF cancelInward
<1>5. p \in PricedRows /\ s \in Suppliers
  BY <1>2 DEF InwardRows
<1>6. due \in Nat /\ fine \in Nat
  BY <1>5 DEF PricedRows
<1>7. gst \in Int
  <2>1. \A b \in Bills : bill[b].gst \in Nat
    BY <1>0 DEF BillRows
  <2> QED
    BY <1>2, <2>1
<1> HIDE DEF gst
<1>8. v \in Vouchers /\ v.rupees = -(due + gst)
  BY <1>5, <1>7, InwardVoucherFacts
<1>9. none = 0 /\ none \in Nat /\ fine \in Int
  BY <1>6
<1> HIDE DEF v, fine, none, s
<1>10. \A x \in Suppliers :
         /\ owing'[x].rupees = IF x = s THEN owing[x].rupees + v.rupees ELSE owing[x].rupees
         /\ owing'[x].fine = IF x = s THEN owing[x].fine + none - fine ELSE owing[x].fine
  <2>1. /\ v \in Vouchers /\ none \in Nat /\ fine \in Int /\ owing \in [Suppliers -> Owings]
        /\ account \in [stock : Int, gst : Int, gap : Int, paid : Int] /\ postVoucher(s, v, none, fine, none)
    BY <1>0, <1>4, <1>8, <1>9
  <2> QED
    BY <2>1, VoucherFacts
<1>11. ASSUME NEW x \in Suppliers
       PROVE  /\ InwardDues(inward', x) = InwardDues(inward, x) + (IF x = s THEN -due ELSE 0)
              /\ InwardFines(inward', x) = InwardFines(inward, x) + (IF x = s THEN -fine ELSE 0)
  <2>1. \A y \in Inwards \ {i} : Alike(inward'[y], inward[y])
    BY <1>2 DEF Alike
  <2>2. /\ InwardDues(inward', x) = InwardDues(inward, x) - InwardDue(inward[i], x) + InwardDue(inward'[i], x)
        /\ InwardFines(inward', x) = InwardFines(inward, x) - InwardFine(inward[i], x) + InwardFine(inward'[i], x)
    BY <1>0, <2>1, InwardChanges
  <2>3. /\ InwardDue(inward'[i], x) = 0 /\ InwardFine(inward'[i], x) = 0
        /\ InwardDue(inward[i], x) = (IF x = s THEN due ELSE 0) /\ InwardFine(inward[i], x) = IF x = s THEN fine ELSE 0
    BY <1>2 DEF InwardDue, InwardFine, fine, s
  <2> HIDE DEF due
  <2> QED
    BY <1>0, <1>6, <2>2, <2>3, DuesTyped
<1>12. ASSUME NEW x \in Suppliers
       PROVE  BillDues(bill', x) = BillDues(bill, x) + (IF x = s THEN -gst ELSE 0)
  <2>1. CASE ~withBill
    <3>1. bill' = bill /\ gst = 0
      BY <1>2, <2>1 DEF gst
    <3> QED
      BY <1>0, <3>1, DuesTyped
  <2>2. CASE withBill
    <3> DEFINE b == w.bill
    <3>1. b \in Bills /\ bill[b].status = "posted" /\ bill[b].supplier = s /\ gst = bill[b].gst
      BY <1>2, <2>2, BillParts DEF gst, s, BillInv, OwedInv
    <3>2. bill' = [bill EXCEPT ![b].status = "cancelled"]
      BY <1>2, <2>2
    <3> HIDE DEF b
    <3>3. bill'[b].status # "posted" /\ \A y \in Bills \ {b} : bill'[y] = bill[y]
      BY <1>0, <3>1, <3>2 DEF BillRows
    <3>4. BillDues(bill', x) = BillDues(bill, x) + (IF x = bill[b].supplier THEN -bill[b].gst ELSE 0)
      BY <1>0, <3>1, <3>3, BillLeaves
    <3> QED
      BY <3>1, <3>4
  <2> QED
    BY <2>1, <2>2
<1>13. \A x \in Inwards : inward'[x].supplier = inward[x].supplier /\ (inward[x].status # "none" => inward'[x].status # "none")
  BY <1>2, <1>3
<1>14. \A r \in Returns : back[r].status = "posted" => inward'[back[r].inward].supplier = inward[back[r].inward].supplier
  BY <1>13 DEF OwedInv
<1>15. OwedTold'
  <2> HIDE DEF due, w, p
  <2> DEFINE D == [x \in Suppliers |-> IF x = s THEN -due ELSE 0]
             T == [x \in Suppliers |-> IF x = s THEN -gst ELSE 0]
             F == [x \in Suppliers |-> IF x = s THEN -fine ELSE 0]
  <2>1. /\ D \in [Suppliers -> Int] /\ T \in [Suppliers -> Int] /\ F \in [Suppliers -> Int]
        /\ \A x \in Suppliers : InwardDues(inward', x) = InwardDues(inward, x) + D[x]
        /\ \A x \in Suppliers : InwardFines(inward', x) = InwardFines(inward, x) + F[x]
        /\ \A x \in Suppliers : BillDues(bill', x) = BillDues(bill, x) + T[x]
    BY <1>6, <1>7, <1>11, <1>12
  <2>2. ASSUME NEW x \in Suppliers
        PROVE  owing'[x].rupees = owing[x].rupees + (D[x] + T[x]) /\ owing'[x].fine = owing[x].fine + F[x]
    <3>1. owing[x].rupees \in Int /\ owing[x].fine \in Int
      BY <1>0 DEF Owings
    <3> QED
      BY <1>6, <1>7, <1>8, <1>9, <1>10, <3>1
  <2>3. GoodsTypeOK /\ back' = back /\ settled' = settled
    BY <1>0, <1>4
  <2> HIDE DEF D, T, F
  <2> QED
    BY <1>14, <2>1, <2>2, <2>3, OwedBooked
<1>16. \A r \in Returns : back'[r].status = "posted" => back'[r].inward \in Inwards /\ inward'[back'[r].inward].status # "none"
  BY <1>4, <1>13 DEF OwedInv
<1>17. ASSUME NEW x \in Inwards, inward'[x].status = "posted", inward'[x].bill # 0
       PROVE  bill'[inward'[x].bill].supplier = inward'[x].supplier
  <2>1. inward'[x] = inward[x]
    BY <1>2, <1>17
  <2>2. bill[inward[x].bill].supplier = inward[x].supplier /\ inward[x].bill \in Bills
    BY <1>0, <1>17, <2>1, BillThere DEF OwedInv
  <2>3. \A b \in Bills : bill'[b].supplier = bill[b].supplier
    BY <1>0, <1>2 DEF BillRows
  <2> QED
    BY <2>1, <2>2, <2>3
<1> QED
  BY <1>15, <1>16, <1>17 DEF OwedInv

LEMMA createBillOwed ==
  ASSUME GoodsInv, GoodsTypeOK', BillInv, OwedInv, NEW c \in Clerks, createBill(c)
  PROVE  OwedInv'
<1>0. /\ inward \in [Inwards -> InwardRows \cup {NoInward}] /\ bill \in [Bills -> BillRows] /\ bill' \in [Bills -> BillRows]
      /\ owing \in [Suppliers -> Owings] /\ account \in [stock : Int, gst : Int, gap : Int, paid : Int] /\ GoodsTypeOK
  BY DEF GoodsInv, GoodsTypeOK, PurchasesTypeOK
<1>1. PICK s \in Suppliers, set \in (SUBSET Inwards) \ {{}}, b \in Bills, gst \in Nat :
        /\ \A i \in set : Posted(i) /\ ~HasInward(i) /\ inward[i].supplier = s /\ inward[i].bill = 0
        /\ bill[b].status = "none" /\ Billed(b, s, set, inward, gst)
        /\ postVoucher(s, Voucher(0, gst, 0, 0, gst, 0), 0, 0, 0)
        /\ UNCHANGED <<shelfVars, order, lot, back, settled, errand>>
  BY createBillFacts
<1> DEFINE v == Voucher(0, gst, 0, 0, gst, 0)
           none == 0
<1>2. v \in Vouchers /\ v.rupees = gst /\ none \in Nat /\ none \in Int /\ none = 0
  BY DEF Voucher, Vouchers
<1>3. postVoucher(s, v, none, none, none) /\ back' = back /\ settled' = settled
  BY <1>1
<1> HIDE DEF v, none
<1>4. \A x \in Suppliers :
        /\ owing'[x].rupees = IF x = s THEN owing[x].rupees + v.rupees ELSE owing[x].rupees
        /\ owing'[x].fine = IF x = s THEN owing[x].fine + none - none ELSE owing[x].fine
  <2>1. /\ v \in Vouchers /\ none \in Nat /\ none \in Int /\ owing \in [Suppliers -> Owings]
        /\ account \in [stock : Int, gst : Int, gap : Int, paid : Int] /\ postVoucher(s, v, none, none, none)
    BY <1>0, <1>2, <1>3
  <2> QED
    BY <2>1, VoucherFacts
<1>5. /\ bill'[b].status = "posted" /\ bill'[b].supplier = s /\ bill'[b].gst = gst
      /\ \A x \in Bills \ {b} : bill'[x] = bill[x]
  BY <1>0, <1>1 DEF Billed
<1>6. \A i \in Inwards : Alike(inward'[i], inward[i])
  BY createBillAlike
<1>7. \A i \in Inwards : inward[i].status # "none" => inward'[i].supplier = inward[i].supplier /\ inward'[i].status = inward[i].status
  BY <1>6 DEF Alike
<1>8. \A r \in Returns : back[r].status = "posted" => inward'[back[r].inward].supplier = inward[back[r].inward].supplier
  BY <1>7 DEF OwedInv
<1>9. OwedTold'
  <2> DEFINE Z == [x \in Suppliers |-> 0]
             T == [x \in Suppliers |-> IF x = s THEN gst ELSE 0]
  <2>1. ASSUME NEW x \in Suppliers
        PROVE  /\ InwardDues(inward', x) = InwardDues(inward, x) + Z[x] /\ InwardFines(inward', x) = InwardFines(inward, x) + Z[x]
               /\ BillDues(bill', x) = BillDues(bill, x) + T[x]
               /\ owing'[x].rupees = owing[x].rupees + (Z[x] + T[x]) /\ owing'[x].fine = owing[x].fine + Z[x]
    <3>1. owing[x].rupees \in Int /\ owing[x].fine \in Int
      BY <1>0 DEF Owings
    <3>2. InwardDues(inward', x) = InwardDues(inward, x) /\ InwardFines(inward', x) = InwardFines(inward, x)
      BY <1>6, InwardsAlike
    <3>3. BillDues(bill', x) = BillDues(bill, x) + (IF x = bill'[b].supplier THEN bill'[b].gst ELSE 0)
      <4>1. bill[b].status # "posted"
        BY <1>1
      <4> QED
        BY <1>0, <1>5, <4>1, BillComes
    <3>4. InwardDues(inward, x) \in Int /\ InwardFines(inward, x) \in Int
      BY <1>0, DuesTyped
    <3> QED
      BY <1>2, <1>4, <1>5, <3>1, <3>2, <3>3, <3>4
  <2>2. Z \in [Suppliers -> Int] /\ T \in [Suppliers -> Int]
    OBVIOUS
  <2>3. GoodsTypeOK /\ back' = back /\ settled' = settled
    BY <1>0, <1>3
  <2> HIDE DEF Z, T
  <2> QED
    BY <1>8, <2>1, <2>2, <2>3, OwedBooked
<1>10. \A r \in Returns : back'[r].status = "posted" => back'[r].inward \in Inwards /\ inward'[back'[r].inward].status # "none"
  BY <1>3, <1>7 DEF OwedInv
<1>11. ASSUME NEW x \in Inwards, inward'[x].status = "posted", inward'[x].bill # 0
       PROVE  bill'[inward'[x].bill].supplier = inward'[x].supplier
  <2>1. inward[x].status # "none" /\ inward'[x].supplier = inward[x].supplier /\ inward'[x].status = inward[x].status
    BY <1>6, <1>7, <1>11 DEF Alike
  <2>2. CASE x \in set
    <3>1. inward'[x].bill = b
      <4>1. inward[x] \in InwardRows /\ inward'[x] = [inward[x] EXCEPT !.bill = b]
        BY <1>0, <1>1, <2>1, <2>2, InwardRow DEF Billed
      <4> QED
        BY <4>1 DEF InwardRows
    <3> QED
      BY <1>1, <1>5, <2>1, <2>2, <3>1
  <2>3. CASE x \notin set
    <3>1. inward'[x] = inward[x]
      BY <1>1, <2>3 DEF Billed
    <3>2. inward[x].bill \in Bills /\ bill[inward[x].bill].status # "none"
      BY <1>0, <1>11, <2>1, <3>1, BillThere
    <3>3. bill'[inward[x].bill] = bill[inward[x].bill]
      BY <1>1, <1>5, <3>2
    <3> QED
      BY <1>11, <3>1, <3>3 DEF OwedInv
  <2> QED
    BY <2>2, <2>3
<1> QED
  BY <1>9, <1>10, <1>11 DEF OwedInv

LEMMA cancelBillOwed ==
  ASSUME GoodsInv, BillInv, OwedInv, NEW c \in Clerks, NEW b \in Bills, cancelBill(c, b)
  PROVE  OwedInv'
<1>0. /\ inward \in [Inwards -> InwardRows \cup {NoInward}] /\ bill \in [Bills -> BillRows]
      /\ owing \in [Suppliers -> Owings] /\ account \in [stock : Int, gst : Int, gap : Int, paid : Int] /\ GoodsTypeOK
  BY DEF GoodsInv, GoodsTypeOK, PurchasesTypeOK
<1> DEFINE s == bill[b].supplier
           gst == bill[b].gst
           v == Mirror(BillVoucher(b))
           none == 0
<1>1. /\ bill[b].status = "posted" /\ bill' = [bill EXCEPT ![b].status = "cancelled"]
      /\ inward' = [i \in Inwards |-> IF Posted(i) /\ inward[i].bill = b THEN [inward[i] EXCEPT !.bill = 0] ELSE inward[i]]
      /\ postVoucher(s, v, none, none, none) /\ back' = back /\ settled' = settled
  BY DEF cancelBill
<1>2. v \in Vouchers /\ v.rupees = -gst /\ none \in Nat /\ none \in Int /\ none = 0
  BY <1>0, BillVoucherFacts
<1>3. gst \in Int
  BY <1>0 DEF BillRows
<1> HIDE DEF v, none
<1>4. \A x \in Suppliers :
        /\ owing'[x].rupees = IF x = s THEN owing[x].rupees + v.rupees ELSE owing[x].rupees
        /\ owing'[x].fine = IF x = s THEN owing[x].fine + none - none ELSE owing[x].fine
  <2>1. /\ v \in Vouchers /\ none \in Nat /\ none \in Int /\ owing \in [Suppliers -> Owings]
        /\ account \in [stock : Int, gst : Int, gap : Int, paid : Int] /\ postVoucher(s, v, none, none, none)
    BY <1>0, <1>1, <1>2
  <2> HIDE DEF s
  <2> QED
    BY <2>1, VoucherFacts
<1>5. ASSUME NEW i \in Inwards
      PROVE  /\ Alike(inward'[i], inward[i])
             /\ inward'[i].status = inward[i].status
             /\ inward'[i].bill # 0 => inward'[i] = inward[i]
  <2>1. CASE Posted(i) /\ inward[i].bill = b
    <3>1. inward[i] \in InwardRows /\ inward'[i] = [inward[i] EXCEPT !.bill = 0]
      BY <1>0, <1>1, <2>1, InwardRow DEF Posted
    <3> QED
      BY <3>1 DEF InwardRows, Alike
  <2>2. CASE ~(Posted(i) /\ inward[i].bill = b)
    BY <1>1, <2>2 DEF Alike
  <2> QED
    BY <2>1, <2>2
<1>6. \A i \in Inwards : inward[i].status # "none" => inward'[i].supplier = inward[i].supplier
  BY <1>5 DEF Alike
<1>7. \A r \in Returns : back[r].status = "posted" => inward'[back[r].inward].supplier = inward[back[r].inward].supplier
  BY <1>6 DEF OwedInv
<1>8. bill'[b].status # "posted" /\ (\A y \in Bills \ {b} : bill'[y] = bill[y]) /\ bill' \in [Bills -> BillRows]
      /\ \A y \in Bills : bill'[y].supplier = bill[y].supplier
  BY <1>0, <1>1 DEF BillRows
<1>9. OwedTold'
  <2> DEFINE Z == [x \in Suppliers |-> 0]
             T == [x \in Suppliers |-> IF x = s THEN -gst ELSE 0]
  <2>1. ASSUME NEW x \in Suppliers
        PROVE  /\ InwardDues(inward', x) = InwardDues(inward, x) + Z[x] /\ InwardFines(inward', x) = InwardFines(inward, x) + Z[x]
               /\ BillDues(bill', x) = BillDues(bill, x) + T[x]
               /\ owing'[x].rupees = owing[x].rupees + (Z[x] + T[x]) /\ owing'[x].fine = owing[x].fine + Z[x]
    <3>1. owing[x].rupees \in Int /\ owing[x].fine \in Int
      BY <1>0 DEF Owings
    <3>2. InwardDues(inward', x) = InwardDues(inward, x) /\ InwardFines(inward', x) = InwardFines(inward, x)
      BY <1>5, InwardsAlike
    <3>3. BillDues(bill', x) = BillDues(bill, x) + (IF x = bill[b].supplier THEN -bill[b].gst ELSE 0)
      <4>1. bill[b].status = "posted" /\ bill'[b].status # "posted"
        BY <1>1, <1>8
      <4>2. \A y \in Bills \ {b} : bill'[y] = bill[y]
        BY <1>8
      <4>3. bill \in [Bills -> BillRows] /\ bill' \in [Bills -> BillRows]
        BY <1>0, <1>8
      <4> QED
        BY <4>1, <4>2, <4>3, BillLeaves
    <3>4. InwardDues(inward, x) \in Int /\ InwardFines(inward, x) \in Int
      BY <1>0, DuesTyped
    <3> QED
      BY <1>2, <1>3, <1>4, <3>1, <3>2, <3>3, <3>4
  <2>2. Z \in [Suppliers -> Int] /\ T \in [Suppliers -> Int]
    BY <1>3
  <2>3. GoodsTypeOK /\ back' = back /\ settled' = settled
    BY <1>0, <1>1
  <2> HIDE DEF Z, T
  <2> QED
    BY <1>7, <2>1, <2>2, <2>3, OwedBooked
<1>10. \A r \in Returns : back'[r].status = "posted" => back'[r].inward \in Inwards /\ inward'[back'[r].inward].status # "none"
  BY <1>1, <1>5 DEF OwedInv
<1>11. ASSUME NEW x \in Inwards, inward'[x].status = "posted", inward'[x].bill # 0
       PROVE  bill'[inward'[x].bill].supplier = inward'[x].supplier
  <2>1. inward'[x] = inward[x]
    BY <1>5, <1>11
  <2>2. bill[inward[x].bill].supplier = inward[x].supplier /\ inward[x].bill \in Bills
    BY <1>0, <1>11, <2>1, BillThere DEF OwedInv
  <2> QED
    BY <1>8, <2>1, <2>2
<1> QED
  BY <1>9, <1>10, <1>11 DEF OwedInv

LEMMA paySupplierOwed ==
  ASSUME GoodsInv, GoodsTypeOK', OwedInv, NEW c \in Clerks, paySupplier(c)
  PROVE  OwedInv'
<1>0. /\ owing \in [Suppliers -> Owings] /\ account \in [stock : Int, gst : Int, gap : Int, paid : Int]
      /\ settled \in [Settlements -> SettlementRows] /\ settled' \in [Settlements -> SettlementRows]
      /\ bound \in Bounds /\ GoodsTypeOK
  BY DEF GoodsInv, GoodsTypeOK, PurchasesTypeOK
<1>1. PICK s \in bound.suppliers, amount \in Amounts, k \in Unused(settled, bound.settlements) :
        /\ settled' = [settled EXCEPT ![k] = [NoSettlement EXCEPT !.status = "posted", !.supplier = s, !.amount = amount]]
        /\ postVoucher(s, Voucher(0, 0, 0, -amount, -amount, 0), 0, 0, 0)
        /\ UNCHANGED <<shelfVars, order, inward, lot, bill, back, errand>>
  BY DEF paySupplier
<1> DEFINE v == Voucher(0, 0, 0, -amount, -amount, 0)
           none == 0
<1>2. s \in Suppliers /\ k \in Settlements /\ amount \in Int /\ settled[k].status = "none"
  BY <1>0, BoundFacts, PurchasesAssumption
<1>3. /\ v \in Vouchers /\ v.rupees = -amount /\ postVoucher(s, v, none, none, none)
      /\ none \in Nat /\ none \in Int /\ none = 0
  BY <1>1, <1>2 DEF Voucher, Vouchers
<1>4. /\ settled'[k].status = "posted" /\ settled'[k].supplier = s /\ settled'[k].kind = "payment"
      /\ settled'[k].amount = amount /\ settled'[k].fine = 0
      /\ \A x \in Settlements \ {k} : settled'[x] = settled[x]
  BY <1>0, <1>1, <1>2 DEF NoSettlement
<1> HIDE DEF v, none
<1>5. \A x \in Suppliers :
        /\ owing'[x].rupees = IF x = s THEN owing[x].rupees + v.rupees ELSE owing[x].rupees
        /\ owing'[x].fine = IF x = s THEN owing[x].fine + none - none ELSE owing[x].fine
  <2>1. /\ v \in Vouchers /\ none \in Nat /\ none \in Int /\ owing \in [Suppliers -> Owings]
        /\ account \in [stock : Int, gst : Int, gap : Int, paid : Int] /\ postVoucher(s, v, none, none, none)
    BY <1>0, <1>3
  <2> QED
    BY <2>1, VoucherFacts
<1>6. SettledDue(settled[k]) = 0 /\ SettledFine(settled[k]) = 0 /\ SettledDue(settled'[k]) = -amount /\ SettledFine(settled'[k]) = 0
  BY <1>2, <1>4 DEF SettledDue, SettledFine
<1> DEFINE due == -amount
<1>7. /\ due \in Int /\ none \in Int
      /\ due = SettledDue(settled'[k]) - SettledDue(settled[k]) /\ none = SettledFine(settled'[k]) - SettledFine(settled[k])
  BY <1>2, <1>3, <1>6
<1>8. \A x \in Suppliers : owing[x].rupees \in Int /\ owing[x].fine \in Int
  BY <1>0 DEF Owings
<1>9. \A x \in Suppliers : x = s => owing'[x].rupees = owing[x].rupees + due /\ owing'[x].fine = owing[x].fine - none
  BY <1>2, <1>3, <1>5, <1>8
<1>10. \A x \in Suppliers \ {s} : owing'[x].rupees = owing[x].rupees
  BY <1>5
<1>11. \A x \in Suppliers \ {s} : owing'[x].fine = owing[x].fine
  BY <1>5
<1>12. inward' = inward /\ bill' = bill /\ back' = back
  BY <1>1
<1>13. settled[k].status = "posted" => settled[k].supplier = s
  BY <1>2
<1>14. settled'[k].status = "posted" => settled'[k].supplier = s
  BY <1>4
<1>15. \A x \in Settlements \ {k} : settled'[x] = settled[x]
  BY <1>4
<1> HIDE DEF due
<1> QED
  BY <1>0, <1>2, <1>7, <1>9, <1>10, <1>11, <1>12, <1>13, <1>14, <1>15, OwedSettled

LEMMA createSettlementOwed ==
  ASSUME GoodsInv, GoodsTypeOK', OwedInv, NEW c \in Clerks, createSettlement(c)
  PROVE  OwedInv'
<1>0. /\ owing \in [Suppliers -> Owings] /\ account \in [stock : Int, gst : Int, gap : Int, paid : Int]
      /\ settled \in [Settlements -> SettlementRows] /\ settled' \in [Settlements -> SettlementRows]
      /\ bound \in Bounds /\ GoodsTypeOK
  BY DEF GoodsInv, GoodsTypeOK, PurchasesTypeOK
<1> DEFINE e == errand[c]
           out == IF e.kind = "metal" THEN lotMovement(e.place, e.measure.net) ELSE Nothing
           row == [status |-> "posted", supplier |-> e.supplier, kind |-> e.kind, place |-> e.place,
                   fine |-> e.measure.net, carried |-> e.carried,
                   amount |-> IF e.kind = "metal" THEN out.cost ELSE e.measure.net * FixRate]
           v == SettlementVoucher(row)
           s == e.supplier
           fineOut == e.measure.net
           none == 0
<1>1. /\ errand[c].pc = "settle" /\ postVoucher(s, v, none, fineOut, none) /\ UNCHANGED <<inward, bill, back>>
  BY DEF createSettlement
<1>2. PICK k \in Unused(settled, bound.settlements) : settled' = [settled EXCEPT ![k] = row]
  BY DEF createSettlement
<1>3. k \in Settlements /\ settled[k].status = "none"
  BY <1>0, BoundFacts
<1>4. row \in SettlementRows /\ s \in Suppliers /\ fineOut \in Nat /\ e.kind \in {"metal", "rate_fix"}
  BY <1>1, SettlementFacts
<1>5. row.status = "posted" /\ row.supplier = s /\ row.fine = fineOut /\ row.kind = e.kind /\ none = 0 /\ none \in Nat
  OBVIOUS
<1> HIDE DEF out, row
<1>6. v \in Vouchers /\ v.rupees = IF row.kind = "payment" THEN -row.amount ELSE IF row.kind = "metal" THEN 0 ELSE row.amount
  BY <1>4, SettlementVoucherFacts
<1>7. settled'[k] = row /\ \A x \in Settlements \ {k} : settled'[x] = settled[x]
  BY <1>0, <1>2, <1>3
<1> HIDE DEF v, s, fineOut, none
<1>8. fineOut \in Int
  BY <1>4
<1>9. \A x \in Suppliers :
        /\ owing'[x].rupees = IF x = s THEN owing[x].rupees + v.rupees ELSE owing[x].rupees
        /\ owing'[x].fine = IF x = s THEN owing[x].fine + none - fineOut ELSE owing[x].fine
  <2>1. /\ v \in Vouchers /\ none \in Nat /\ fineOut \in Int /\ owing \in [Suppliers -> Owings]
        /\ account \in [stock : Int, gst : Int, gap : Int, paid : Int] /\ postVoucher(s, v, none, fineOut, none)
    BY <1>0, <1>1, <1>5, <1>6, <1>8
  <2> QED
    BY <2>1, VoucherFacts
<1>10. SettledDue(settled[k]) = 0 /\ SettledFine(settled[k]) = 0 /\ SettledDue(row) = v.rupees /\ SettledFine(row) = fineOut
  BY <1>3, <1>5, <1>6 DEF SettledDue, SettledFine
<1>11. v.rupees \in Int
  BY <1>6 DEF Vouchers
<1>12. /\ v.rupees = SettledDue(settled'[k]) - SettledDue(settled[k])
       /\ fineOut = SettledFine(settled'[k]) - SettledFine(settled[k])
  BY <1>7, <1>8, <1>10, <1>11
<1> DEFINE due == v.rupees
<1>13. due \in Int /\ due = SettledDue(settled'[k]) - SettledDue(settled[k])
  BY <1>11, <1>12
<1>14. \A x \in Suppliers : owing[x].fine \in Int
  BY <1>0 DEF Owings
<1>15. \A x \in Suppliers : x = s => owing'[x].rupees = owing[x].rupees + due /\ owing'[x].fine = owing[x].fine - fineOut
  BY <1>4, <1>5, <1>8, <1>9, <1>14
<1>16. \A x \in Suppliers \ {s} : owing'[x].rupees = owing[x].rupees
  BY <1>9
<1>17. \A x \in Suppliers \ {s} : owing'[x].fine = owing[x].fine
  BY <1>9
<1>18. inward' = inward /\ bill' = bill /\ back' = back
  BY <1>1
<1>19. settled[k].status = "posted" => settled[k].supplier = s
  BY <1>3
<1>20. settled'[k].status = "posted" => settled'[k].supplier = s
  BY <1>5, <1>7
<1>21. \A x \in Settlements \ {k} : settled'[x] = settled[x]
  BY <1>7
<1> HIDE DEF due
<1> QED
  BY <1>0, <1>3, <1>4, <1>8, <1>12, <1>13, <1>15, <1>16, <1>17, <1>18, <1>19, <1>20, <1>21, OwedSettled

LEMMA cancelSettlementOwed ==
  ASSUME GoodsInv, GoodsTypeOK', OwedInv, NEW c \in Clerks, NEW k \in Settlements, cancelSettlement(c, k)
  PROVE  OwedInv'
<1>0. /\ owing \in [Suppliers -> Owings] /\ account \in [stock : Int, gst : Int, gap : Int, paid : Int]
      /\ settled \in [Settlements -> SettlementRows] /\ settled' \in [Settlements -> SettlementRows] /\ GoodsTypeOK
  BY DEF GoodsInv, GoodsTypeOK, PurchasesTypeOK
<1> DEFINE row == settled[k]
           v == Mirror(SettlementVoucher(row))
           s == row.supplier
           fineIn == row.fine
           none == 0
<1>1. /\ row.status = "posted" /\ settled' = [settled EXCEPT ![k].status = "cancelled"]
      /\ postVoucher(s, v, fineIn, none, none) /\ UNCHANGED <<inward, bill, back>>
  BY DEF cancelSettlement
<1>2. row \in SettlementRows /\ fineIn \in Nat /\ row.amount \in Int /\ none = 0 /\ none \in Int /\ none \in Nat
  BY <1>0 DEF SettlementRows
<1>3. v \in Vouchers /\ v.rupees = -(IF row.kind = "payment" THEN -row.amount ELSE IF row.kind = "metal" THEN 0 ELSE row.amount)
  BY <1>2, SettlementVoucherFacts
<1>4. /\ settled'[k].status = "cancelled" /\ settled'[k].supplier = s
      /\ \A x \in Settlements \ {k} : settled'[x] = settled[x]
  BY <1>0, <1>1 DEF SettlementRows
<1>5. SettledDue(row) = -v.rupees /\ SettledFine(row) = fineIn /\ SettledDue(settled'[k]) = 0 /\ SettledFine(settled'[k]) = 0
  BY <1>1, <1>2, <1>3, <1>4 DEF SettledDue, SettledFine
<1> HIDE DEF v, fineIn, none
<1>6. \A x \in Suppliers :
        /\ owing'[x].rupees = IF x = s THEN owing[x].rupees + v.rupees ELSE owing[x].rupees
        /\ owing'[x].fine = IF x = s THEN owing[x].fine + fineIn - none ELSE owing[x].fine
  <2>1. /\ v \in Vouchers /\ none \in Nat /\ none \in Int /\ fineIn \in Nat /\ owing \in [Suppliers -> Owings]
        /\ account \in [stock : Int, gst : Int, gap : Int, paid : Int] /\ postVoucher(s, v, fineIn, none, none)
    BY <1>0, <1>1, <1>2, <1>3
  <2> HIDE DEF s
  <2> QED
    BY <2>1, VoucherFacts
<1>7. v.rupees \in Int
  BY <1>3 DEF Vouchers
<1> DEFINE due == v.rupees
           fine == -fineIn
<1>8. s \in Suppliers \cup {None}
  BY <1>2 DEF SettlementRows
<1>9. /\ due \in Int /\ fine \in Int
      /\ due = SettledDue(settled'[k]) - SettledDue(settled[k]) /\ fine = SettledFine(settled'[k]) - SettledFine(settled[k])
  BY <1>2, <1>5, <1>7
<1>10. \A x \in Suppliers : owing[x].fine \in Int
  BY <1>0 DEF Owings
<1>11. settled'[k].supplier = s /\ settled[k].supplier = s
  BY <1>4
<1> HIDE DEF s, row
<1>12. \A x \in Suppliers : x = s => owing'[x].rupees = owing[x].rupees + due /\ owing'[x].fine = owing[x].fine - fine
  BY <1>2, <1>6, <1>8, <1>10
<1>13. \A x \in Suppliers \ {s} : owing'[x].rupees = owing[x].rupees
  BY <1>6
<1>14. \A x \in Suppliers \ {s} : owing'[x].fine = owing[x].fine
  BY <1>2, <1>6, <1>10
<1>15. inward' = inward /\ bill' = bill /\ back' = back
  BY <1>1
<1>16. \A x \in Settlements \ {k} : settled'[x] = settled[x]
  BY <1>4
<1> HIDE DEF due, fine
<1> QED
  BY <1>0, <1>8, <1>9, <1>11, <1>12, <1>13, <1>14, <1>15, <1>16, OwedSettled


LEMMA returnTaggedOwed ==
  ASSUME GoodsInv, OwedInv, NEW c \in Clerks, NEW p \in Pieces, returnTagged(c, p)
  PROVE  OwedInv'
<1> DEFINE i == piece[p].lot
           l == piece[p].place
           m == Weighed(p)
<1>0. piece \in [Pieces -> PieceRows] /\ GoodsTypeOK
  BY DEF GoodsInv, GoodsTypeOK
<1>1. i # 0 /\ Posted(i) /\ Returned(i, l, m) /\ UNCHANGED <<inward, bill, settled>>
  BY DEF returnTagged
<1>2. i \in Inwards
  BY <1>1 DEF GoodsInv, PiecesTold
<1>3. m \in Measures
  BY <1>0 DEF Weighed, Measures, PieceRows
<1> HIDE DEF i, l, m
<1> QED
  BY <1>0, <1>1, <1>2, <1>3, OwedReturned

LEMMA returnMetalOwed ==
  ASSUME GoodsInv, OwedInv, NEW c \in Clerks, NEW i \in Inwards, returnMetal(c, i)
  PROVE  OwedInv'
<1>0. inward \in [Inwards -> InwardRows \cup {NoInward}] /\ GoodsTypeOK
  BY DEF GoodsInv, GoodsTypeOK, PurchasesTypeOK
<1>1. PICK part \in Parts :
        /\ Posted(i)
        /\ Returned(i, inward[i].place,
             [pieces |-> 0, gross |-> Rounded(inward[i].line.gross * part.gross, inward[i].line.net),
              net |-> part.gross, cost |-> Rounded(inward[i].line.cost * part.gross, inward[i].line.net)])
        /\ UNCHANGED <<inward, bill, settled>>
  BY DEF returnMetal
<1> DEFINE l == inward[i].place
           m == [pieces |-> 0, gross |-> Rounded(inward[i].line.gross * part.gross, inward[i].line.net),
                 net |-> part.gross, cost |-> Rounded(inward[i].line.cost * part.gross, inward[i].line.net)]
<1>2. Returned(i, l, m)
  BY <1>1
<1>3. m \in Measures
  <2>1. inward[i].line \in PricedRows /\ part.gross \in Nat
    BY <1>0, <1>1, InwardRow, PurchasesAssumption DEF Posted
  <2>2. inward[i].line.gross * part.gross \in Int /\ inward[i].line.cost * part.gross \in Int /\ inward[i].line.net \in Nat
    BY <2>1, Products DEF PricedRows
  <2>3. /\ Rounded(inward[i].line.gross * part.gross, inward[i].line.net) \in Int
        /\ Rounded(inward[i].line.cost * part.gross, inward[i].line.net) \in Int
    BY <2>2, RoundedTyped
  <2> QED
    BY <2>1, <2>3 DEF Measures
<1> HIDE DEF l, m
<1> QED
  BY <1>0, <1>1, <1>2, <1>3, OwedReturned

LEMMA returnUntaggedOwed ==
  ASSUME GoodsInv, OwedInv, NEW c \in Clerks, returnUntagged(c)
  PROVE  OwedInv'
<1>0. errand \in [Clerks -> Errands] /\ GoodsTypeOK
  BY DEF GoodsInv, GoodsTypeOK, PurchasesTypeOK
<1> DEFINE i == errand[c].doc
           m == errand[c].measure
           l == inward[i].place
<1>1. errand[c].pc = "return" /\ Returned(i, l, m) /\ UNCHANGED <<inward, bill, settled>>
  BY DEF returnUntagged
<1>2. i \in Inwards /\ Posted(i)
  BY <1>1 DEF GoodsInv, ErrandsTold, ErrandTold, Returning, Posted
<1>3. m \in Measures
  BY <1>0 DEF Errands
<1> HIDE DEF i, m, l
<1> QED
  BY <1>0, <1>1, <1>2, <1>3, OwedReturned

\* Who changes what suppliers are owed, or the documents that say so.
LEMMA DebtsStay ==
  ASSUME [Next]_goodsVars
  PROVE  \/ UNCHANGED <<inward, bill, back, settled, owing>>
         \/ \E c \in Clerks : \/ createInward(c) \/ cancelInward(c) \/ createBill(c) \/ \E b \in Bills : cancelBill(c, b)
                              \/ \E p \in Pieces : returnTagged(c, p)
                              \/ \E i \in Inwards : returnMetal(c, i)
                              \/ returnUntagged(c) \/ paySupplier(c) \/ createSettlement(c)
                              \/ \E k \in Settlements : cancelSettlement(c, k)
<1>1. ASSUME NEW c \in Clerks, createOrder(c) \/ closeOrder(c) \/ tagPieces(c) \/ BeginSettleMetal(c) \/ GiveUp(c)
      PROVE  UNCHANGED <<inward, bill, back, settled, owing>>
  BY <1>1 DEF createOrder, closeOrder, tagPieces, BeginSettleMetal, GiveUp
<1>2. ASSUME NEW c \in Clerks, NEW i \in Inwards,
             BeginCancelInward(c, i) \/ BeginTag(c, i) \/ closeLot(c, i) \/ BeginReturnUntagged(c, i)
      PROVE  UNCHANGED <<inward, bill, back, settled, owing>>
  BY <1>2 DEF BeginCancelInward, BeginTag, closeLot, BeginReturnUntagged
<1>3. CASE UNCHANGED purchaseVars
  BY <1>3 DEF purchaseVars
<1>4. CASE UNCHANGED goodsVars
  BY <1>4 DEF goodsVars, purchaseVars
<1> QED
  BY <1>1, <1>2, <1>3, <1>4 DEF Next

LEMMA OwedKeeps ==
  ASSUME GoodsInv, GoodsInv', BillInv, OwedInv, [Next]_goodsVars
  PROVE  OwedInv'
<1>0. GoodsTypeOK'
  BY DEF GoodsInv
<1>1. CASE UNCHANGED <<inward, bill, back, settled, owing>>
  BY <1>1 DEF OwedInv, OwedTold
<1>2. ASSUME NEW c \in Clerks, createInward(c) PROVE OwedInv'
  BY <1>0, <1>2, createInwardOwed
<1>3. ASSUME NEW c \in Clerks, cancelInward(c) PROVE OwedInv'
  BY <1>0, <1>3, cancelInwardOwed
<1>4. ASSUME NEW c \in Clerks, createBill(c) PROVE OwedInv'
  BY <1>0, <1>4, createBillOwed
<1>5. ASSUME NEW c \in Clerks, NEW b \in Bills, cancelBill(c, b) PROVE OwedInv'
  BY <1>5, cancelBillOwed
<1>6. ASSUME NEW c \in Clerks, NEW p \in Pieces, returnTagged(c, p) PROVE OwedInv'
  BY <1>6, returnTaggedOwed
<1>7. ASSUME NEW c \in Clerks, NEW i \in Inwards, returnMetal(c, i) PROVE OwedInv'
  BY <1>7, returnMetalOwed
<1>8. ASSUME NEW c \in Clerks, returnUntagged(c) PROVE OwedInv'
  BY <1>8, returnUntaggedOwed
<1>9. ASSUME NEW c \in Clerks, paySupplier(c) PROVE OwedInv'
  BY <1>0, <1>9, paySupplierOwed
<1>10. ASSUME NEW c \in Clerks, createSettlement(c) PROVE OwedInv'
  BY <1>0, <1>10, createSettlementOwed
<1>11. ASSUME NEW c \in Clerks, NEW k \in Settlements, cancelSettlement(c, k) PROVE OwedInv'
  BY <1>0, <1>11, cancelSettlementOwed
<1> QED
  BY <1>1, <1>2, <1>3, <1>4, <1>5, <1>6, <1>7, <1>8, <1>9, <1>10, <1>11, DebtsStay

LEMMA OwedStarts ==
  ASSUME Init
  PROVE  OwedInv
<1>0. GoodsTypeOK
  BY GoodsStarts DEF GoodsInv
<1>1. /\ \A i \in Inwards : inward[i].status = "none"
      /\ \A b \in Bills : bill[b].status = "none"
      /\ \A r \in Returns : back[r].status = "none"
      /\ \A k \in Settlements : settled[k].status = "none"
  BY DEF Init, PurchasesInit, NoInward, NoBill, NoReturn, NoSettlement
<1>2. \A s \in Suppliers : owing[s].rupees = 0 /\ owing[s].fine = 0
  BY DEF Init, PurchasesInit
<1>3. IsFiniteSet(Inwards) /\ IsFiniteSet(Bills) /\ IsFiniteSet(Returns) /\ IsFiniteSet(Settlements)
  BY GoodsFinite
<1>4. ASSUME NEW s \in Suppliers
      PROVE  /\ InwardDues(inward, s) = 0 /\ InwardFines(inward, s) = 0
             /\ BillDues(bill, s) = 0
             /\ BackDues(back, inward, s) = 0 /\ BackFines(back, inward, s) = 0
             /\ FixedDues(settled, s) = 0 /\ PaidDues(settled, s) = 0 /\ GivenFines(settled, s) = 0
  <2>1. ASSUME NEW S, IsFiniteSet(S), NEW f, \A x \in S : f[x] = 0
        PROVE  SumFunctionOnSet(f, S) = 0
    BY <2>1, SumOfZeros
  <2>2. InwardDues(inward, s) = 0 /\ InwardFines(inward, s) = 0
    BY <1>1, <1>3, <2>1 DEF InwardDues, InwardFines, InwardDue, InwardFine
  <2>3. BillDues(bill, s) = 0
    BY <1>1, <1>3, <2>1 DEF BillDues, BillDue
  <2>4. BackDues(back, inward, s) = 0 /\ BackFines(back, inward, s) = 0
    BY <1>1, <1>3, <2>1 DEF BackDues, BackFines, BackDue, BackFine
  <2>5. FixedDues(settled, s) = 0 /\ PaidDues(settled, s) = 0 /\ GivenFines(settled, s) = 0
    BY <1>1, <1>3, <2>1 DEF FixedDues, PaidDues, GivenFines, FixedDue, PaidDue, GivenFine
  <2> QED
    BY <2>2, <2>3, <2>4, <2>5
<1>5. OwedTold
  BY <1>2, <1>4 DEF OwedTold, Rupees, Fine
<1> QED
  BY <1>1, <1>5 DEF OwedInv

\* What the shop owes a supplier, in rupees and in fine metal, is exactly what the documents that
\* stand say, whatever was posted, paid, returned and cancelled in whatever order: the balances
\* that vouchers change (postVoucher and reverseVoucher, ledger.service.ts:84-214) never drift
\* from the purchase documents.
THEOREM OwedByDocumentsEver == Spec => []OwedByDocuments
<1>1. Init => BillInv /\ OwedInv
  BY BillStarts, OwedStarts
<1>2. GoodsInv /\ GoodsInv' /\ (BillInv /\ OwedInv) /\ [Next]_goodsVars => (BillInv /\ OwedInv)'
  BY BillKeeps, OwedKeeps
<1>3. GoodsInv /\ BillInv /\ OwedInv => OwedByDocuments
  BY OwedMeans DEF GoodsInv, OwedInv, OwedTold
<1> QED
  BY <1>1, <1>2, <1>3, GoodsInvHolds, PTL DEF Spec

-------------------------------------------------------------------------------
\* What is on the road.

Carried(t, p) == transfer[t].status = "in_transit" /\ p \in transfer[t].pieces

TwoAtOnce == \E s, u \in bound.sessions : s # u

\* What an open transfer to branch b carries, added up over all there is room for.
LoadTo(rows, b) ==
  [t \in Transfers |-> IF rows[t].status = "in_transit" /\ BranchOf[rows[t].to] = b THEN rows[t].metal ELSE Nothing]

LoadTold == \A b \in DOMAIN Transit : stock[<<"metal", Transit[b]>>] = Total(LoadTo(transfer, b))

\* A piece on the road has not been sold, a piece in stock is not sold any more, and what a
\* count holds missing was in stock when it looked: with one session at a time it still is
\* off the road when the count writes it off.
RoadInv ==
  /\ \A p \in Pieces, t, u \in Transfers : Carried(t, p) /\ Carried(u, p) => t = u
  /\ \A p \in Pieces, t \in Transfers : Carried(t, p) =>
       /\ piece[p].soldAt = None
       /\ piece[p].status = "in_transit" \/ (piece[p].status = "written_off" /\ TwoAtOnce)
  /\ \A p \in Pieces : piece[p].status = "in_transit" => \E t \in Transfers : Carried(t, p)
  /\ \A p \in Pieces : InStock(p) => piece[p].soldAt = None
  /\ \A s \in Sessions, p \in Pieces : p \in asked[s].missing =>
       asked[s].pc = "post" /\ (TwoAtOnce \/ \A t \in Transfers : ~Carried(t, p))
  /\ LoadTold

\* What an action that sends and receives nothing may do to a piece.
Stays(p) == piece'[p].status = piece[p].status /\ piece'[p].soldAt = piece[p].soldAt
Leaves(p) == InStock(p) /\ piece'[p].status \in {"sold", "written_off"}
Appears(p) == piece[p].status = "none" /\ piece'[p].status = "in_stock" /\ piece'[p].soldAt = None
SaleUndone(p) == piece[p].soldAt # None /\ piece'[p].status = "in_stock" /\ piece'[p].soldAt = None
Misses(p) == /\ \E s \in Sessions : p \in asked[s].missing
             /\ piece'[p].status = "written_off" /\ piece'[p].soldAt = piece[p].soldAt

LEMMA RoadKeeps ==
  ASSUME RoadInv, transfer' = transfer, bound' = bound,
         \A p \in Pieces : Stays(p) \/ Leaves(p) \/ Appears(p) \/ SaleUndone(p) \/ Misses(p),
         \A s \in Sessions : \/ asked'[s] = asked[s]
                             \/ asked'[s].missing = {}
                             \/ asked'[s].pc = "post" /\ \A p \in asked'[s].missing : InStock(p),
         \A l \in Places \ Counters : stock'[<<"metal", l>>] = stock[<<"metal", l>>]
  PROVE  RoadInv'
<1>1. \A p \in Pieces, t \in Transfers : Carried(t, p)' <=> Carried(t, p)
  BY DEF Carried
<1>2. TwoAtOnce' <=> TwoAtOnce
  BY DEF TwoAtOnce
<1>3. ASSUME NEW p \in Pieces, NEW t \in Transfers, Carried(t, p)
      PROVE  /\ piece'[p].soldAt = None
             /\ piece'[p].status = "in_transit" \/ (piece'[p].status = "written_off" /\ TwoAtOnce)
  <2>1. /\ piece[p].soldAt = None
        /\ piece[p].status = "in_transit" \/ (piece[p].status = "written_off" /\ TwoAtOnce)
        /\ \A s \in Sessions : p \in asked[s].missing => TwoAtOnce
    BY <1>3 DEF RoadInv
  <2>2. ~InStock(p) /\ piece[p].status # "none"
    BY <2>1 DEF InStock
  <2> QED
    BY <2>1, <2>2 DEF Stays, Leaves, Appears, SaleUndone, Misses
<1>4. ASSUME NEW p \in Pieces, piece'[p].status = "in_transit"
      PROVE  \E t \in Transfers : Carried(t, p)
  <2>1. piece[p].status = "in_transit"
    BY <1>4 DEF Stays, Leaves, Appears, SaleUndone, Misses
  <2> QED
    BY <2>1 DEF RoadInv
<1>5. ASSUME NEW p \in Pieces, InStock(p)'
      PROVE  piece'[p].soldAt = None
  <2>1. \/ Appears(p) \/ SaleUndone(p)
        \/ InStock(p) /\ piece'[p].soldAt = piece[p].soldAt
    BY <1>5 DEF InStock, Stays, Leaves, Misses
  <2> QED
    BY <2>1 DEF RoadInv, Appears, SaleUndone
<1>6. ASSUME NEW s \in Sessions, NEW p \in Pieces, p \in asked'[s].missing
      PROVE  asked'[s].pc = "post" /\ (TwoAtOnce \/ \A t \in Transfers : ~Carried(t, p))
  <2>1. CASE asked'[s] = asked[s]
    BY <1>6, <2>1 DEF RoadInv
  <2>2. CASE asked'[s].pc = "post" /\ InStock(p)
    <3>1. \A t \in Transfers : Carried(t, p) => ~InStock(p)
      BY DEF RoadInv, InStock
    <3> QED
      BY <2>2, <3>1
  <2> QED
    BY <1>6, <2>1, <2>2
<1>7. LoadTold'
  <2>1. \A b \in DOMAIN Transit : Transit[b] \in Places \ Counters
    BY PlacesAssumption DEF Counters
  <2> QED
    BY <2>1 DEF RoadInv, LoadTold, LoadTo
<1>8. \A p \in Pieces, t, u \in Transfers : Carried(t, p) /\ Carried(u, p) => t = u
  BY DEF RoadInv
<1> QED
  BY <1>1, <1>2, <1>3, <1>4, <1>5, <1>6, <1>7, <1>8 DEF RoadInv

\* Goods moved at a counter, or piece by piece, leave the metal on the road alone.
LEMMA RoadUntouched ==
  ASSUME stock \in [Rows -> Measures], NEW item, NEW k, item = "tagged" \/ k \in Counters,
         NEW a \in Measures, NEW b \in Measures, recordMovements(At(item, k, a), At(item, k, b), FALSE)
  PROVE  \A l \in Places \ Counters : stock'[<<"metal", l>>] = stock[<<"metal", l>>]
<1> DEFINE into == At(item, k, a)
           out == At(item, k, b)
           allowed == FALSE
<1>1. /\ into \in [Rows -> Measures] /\ out \in [Rows -> Measures] /\ allowed \in BOOLEAN
      /\ recordMovements(into, out, allowed)
      /\ \A r \in Rows : r # <<item, k>> => into[r] = Nothing /\ out[r] = Nothing
  BY AtTyped
<1> HIDE DEF into, out, allowed
<1>2. \A r \in Rows : stock'[r] = Minus(Plus(stock[r], into[r]), out[r])
  BY <1>1, RecordFacts
<1>3. ASSUME NEW l \in Places \ Counters PROVE stock'[<<"metal", l>>] = stock[<<"metal", l>>]
  <2> DEFINE r == <<"metal", l>>
  <2>1. r \in Rows /\ r # <<item, k>>
    BY DEF Rows
  <2> HIDE DEF r
  <2>2. stock'[r] = Minus(Plus(stock[r], Nothing), Nothing) /\ stock[r] \in Measures
    BY <1>1, <1>2, <2>1
  <2>3. stock'[r] = stock[r]
    BY <2>2, MeasureFacts
  <2> QED
    BY <2>3 DEF r
<1> QED
  BY <1>3

\* What a purchase request does to pieces and to metal on the road.
OffTheRoad ==
  /\ \A p \in Pieces : Stays(p) \/ Leaves(p) \/ Appears(p)
  /\ \A l \in Places \ Counters : stock'[<<"metal", l>>] = stock[<<"metal", l>>]
  /\ bound' = bound

LEMMA GoodsStay ==
  ASSUME UNCHANGED shelfVars
  PROVE  OffTheRoad
BY DEF shelfVars, OffTheRoad, Stays

LEMMA createInwardRoad ==
  ASSUME GoodsInv, NEW c \in Clerks, createInward(c)
  PROVE  OffTheRoad
<1>0. stock \in [Rows -> Measures]
  BY DEF GoodsInv, GoodsTypeOK
<1>1. PICK s \in Suppliers, l \in Counters, p \in PricedRows, i \in Inwards, o \in {0} \cup Orders, gst \in Nat,
            billed, direct \in BOOLEAN :
         \E ol \in OrderLines \cup {None} :
         \E rows \in [Inwards -> InwardRows \cup {NoInward}] :
           /\ inward[i].status = "none" /\ (direct => billed) /\ (p.item = "tagged" => p.pieces > 0)
           /\ p.item = "metal" => p.pieces = 0
           /\ o # 0 => order[o].status = "confirmed"
           /\ rows = [inward EXCEPT ![i] = [status |-> "posted", supplier |-> s, place |-> l, line |-> p,
                        direct |-> direct, bill |-> 0, order |-> o, orderLine |-> ol]]
           /\ lot' = [lot EXCEPT ![i] = IF p.item = "tagged"
                        THEN [NoLot EXCEPT !.status = "open", !.expected = Received(p)] ELSE NoLot]
           /\ rollUpOrder(rows, o)
           /\ \/ ~billed /\ inward' = rows /\ bill' = bill /\ gst = 0
              \/ billed /\ \E b \in Bills : bill[b].status = "none" /\ Billed(b, s, {i}, rows, gst)
           /\ recordMovements(At(p.item, l, Received(p)), At(p.item, l, Nothing), FALSE)
           /\ postVoucher(s, [InwardVoucher(p) EXCEPT !.gst = gst, !.rupees = @ + gst], p.fine, 0, InwardVoucher(p).metal)
  BY InwardFacts
<1>2. piece' = piece /\ bound' = bound
  BY DEF createInward
<1> DEFINE item == p.item
           a == Received(p)
           b == Nothing
<1>3. recordMovements(At(item, l, a), At(item, l, b), FALSE) /\ (item = "tagged" \/ l \in Counters)
  BY <1>1
<1>4. a \in Measures /\ b \in Measures
  BY DEF Received, Measures, PricedRows, Nothing
<1> HIDE DEF item, a, b
<1>5. \A x \in Places \ Counters : stock'[<<"metal", x>>] = stock[<<"metal", x>>]
  BY <1>0, <1>3, <1>4, RoadUntouched
<1> QED
  BY <1>2, <1>5 DEF OffTheRoad, Stays

LEMMA cancelInwardRoad ==
  ASSUME GoodsInv, NEW c \in Clerks, cancelInward(c)
  PROVE  OffTheRoad
<1>0. stock \in [Rows -> Measures] /\ inward \in [Inwards -> InwardRows \cup {NoInward}]
  BY DEF GoodsInv, GoodsTypeOK, PurchasesTypeOK
<1> DEFINE i == errand[c].doc
           w == inward[i]
           l == w.place
           item == w.line.item
           a == Nothing
           b == Received(w.line)
<1>1. /\ errand[c].pc = "cancel" /\ recordMovements(At(item, l, a), At(item, l, b), FALSE)
      /\ piece' = piece /\ bound' = bound
  BY DEF cancelInward
<1>2. i \in Inwards /\ w.status = "posted"
  BY <1>1 DEF GoodsInv, ErrandsTold, ErrandTold, Returning
<1>3. w \in InwardRows
  BY <1>0, <1>2, InwardRow
<1>4. l \in Counters
  BY <1>2 DEF GoodsInv, InwardsTold
<1>5. a \in Measures /\ b \in Measures
  BY <1>3 DEF Received, Measures, InwardRows, PricedRows, Nothing
<1> HIDE DEF l, item, a, b
<1>6. \A x \in Places \ Counters : stock'[<<"metal", x>>] = stock[<<"metal", x>>]
  BY <1>0, <1>1, <1>4, <1>5, RoadUntouched
<1> QED
  BY <1>1, <1>6 DEF OffTheRoad, Stays

LEMMA tagPiecesRoad ==
  ASSUME GoodsInv, NEW c \in Clerks, tagPieces(c)
  PROVE  OffTheRoad
<1>0. stock \in [Rows -> Measures] /\ errand \in [Clerks -> Errands] /\ piece \in [Pieces -> PieceRows]
  BY DEF GoodsInv, GoodsTypeOK, PurchasesTypeOK
<1> DEFINE i == errand[c].doc
           m == errand[c].measure
           l == inward[i].place
           item == "tagged"
<1>1. recordMovements(At(item, l, m), At(item, l, m), FALSE) /\ item = "tagged" /\ bound' = bound
  BY DEF tagPieces
<1>2. PICK p \in Pieces :
        /\ piece[p].status = "none"
        /\ piece' = [piece EXCEPT ![p] = [NoPiece EXCEPT !.status = "in_stock", !.place = l, !.lot = i,
                                            !.gross = m.gross, !.net = m.net, !.cost = m.cost]]
  BY DEF tagPieces
<1>3. m \in Measures
  BY <1>0 DEF Errands
<1>4. Appears(p) /\ \A q \in Pieces \ {p} : Stays(q)
  BY <1>0, <1>2 DEF Appears, Stays, NoPiece
<1> HIDE DEF l, m, i, item
<1>5. \A x \in Places \ Counters : stock'[<<"metal", x>>] = stock[<<"metal", x>>]
  BY <1>0, <1>1, <1>3, RoadUntouched
<1> QED
  BY <1>1, <1>4, <1>5 DEF OffTheRoad

LEMMA closeLotRoad ==
  ASSUME GoodsInv, NEW c \in Clerks, NEW i \in Inwards, closeLot(c, i)
  PROVE  OffTheRoad
<1>0. stock \in [Rows -> Measures] /\ lot \in [Inwards -> LotRows]
  BY DEF GoodsInv, GoodsTypeOK, PurchasesTypeOK
<1> DEFINE left == Minus(lot[i].expected, lot[i].tagged)
           gone == IF leftOver(left) THEN left ELSE Nothing
           l == inward[i].place
           item == "tagged"
           a == Nothing
<1>1. recordMovements(At(item, l, a), At(item, l, gone), FALSE) /\ item = "tagged" /\ bound' = bound /\ piece' = piece
  BY DEF closeLot
<1>2. a \in Measures /\ gone \in Measures
  <2>1. left \in Measures /\ Nothing \in Measures
    BY <1>0, MeasureFacts DEF LotRows
  <2> HIDE DEF left
  <2> QED
    BY <2>1
<1> HIDE DEF gone, l, item, a
<1>3. \A x \in Places \ Counters : stock'[<<"metal", x>>] = stock[<<"metal", x>>]
  BY <1>0, <1>1, <1>2, RoadUntouched
<1> QED
  BY <1>1, <1>3 DEF OffTheRoad, Stays

\* Goods go back from a counter, or piece by piece from wherever they are.
LEMMA ReturnRoad ==
  ASSUME GoodsInv, NEW i \in Inwards, Posted(i), NEW l, NEW m \in Measures, Returned(i, l, m),
         inward[i].line.item = "tagged" \/ l \in Counters
  PROVE  \A x \in Places \ Counters : stock'[<<"metal", x>>] = stock[<<"metal", x>>]
<1>0. stock \in [Rows -> Measures]
  BY DEF GoodsInv, GoodsTypeOK
<1> DEFINE item == inward[i].line.item
           a == Nothing
<1>1. recordMovements(At(item, l, a), At(item, l, m), FALSE) /\ (item = "tagged" \/ l \in Counters)
  BY DEF Returned
<1>2. a \in Measures
  BY MeasureFacts
<1> HIDE DEF item, a
<1> QED
  BY <1>0, <1>1, <1>2, RoadUntouched

LEMMA returnTaggedRoad ==
  ASSUME GoodsInv, NEW c \in Clerks, NEW p \in Pieces, returnTagged(c, p)
  PROVE  OffTheRoad
<1> DEFINE i == piece[p].lot
           l == piece[p].place
           m == Weighed(p)
<1>0. piece \in [Pieces -> PieceRows]
  BY DEF GoodsInv, GoodsTypeOK
<1>1. /\ i # 0 /\ Posted(i) /\ Returned(i, l, m) /\ InStock(p) /\ bound' = bound
      /\ piece' = [piece EXCEPT ![p].status = "written_off"]
  BY DEF returnTagged
<1>2. i \in Inwards /\ lot[i].status # "none"
  BY <1>1 DEF GoodsInv, PiecesTold
<1>3. m \in Measures
  BY <1>0 DEF Weighed, Measures, PieceRows
<1>4. Leaves(p) /\ \A q \in Pieces \ {p} : Stays(q)
  BY <1>0, <1>1 DEF Leaves, Stays, PieceRows
<1>5. inward[i].line.item = "tagged" \/ l \in Counters
  BY <1>2 DEF GoodsInv, InwardsTold
<1> HIDE DEF i, l, m
<1>6. \A x \in Places \ Counters : stock'[<<"metal", x>>] = stock[<<"metal", x>>]
  BY <1>1, <1>2, <1>3, <1>5, ReturnRoad
<1> QED
  BY <1>1, <1>4, <1>6 DEF OffTheRoad

LEMMA returnMetalRoad ==
  ASSUME GoodsInv, NEW c \in Clerks, NEW i \in Inwards, returnMetal(c, i)
  PROVE  OffTheRoad
<1>0. inward \in [Inwards -> InwardRows \cup {NoInward}]
  BY DEF GoodsInv, GoodsTypeOK, PurchasesTypeOK
<1>1. PICK part \in Parts :
        /\ Posted(i)
        /\ Returned(i, inward[i].place,
             [pieces |-> 0, gross |-> Rounded(inward[i].line.gross * part.gross, inward[i].line.net),
              net |-> part.gross, cost |-> Rounded(inward[i].line.cost * part.gross, inward[i].line.net)])
        /\ UNCHANGED <<bound, piece>>
  BY DEF returnMetal
<1> DEFINE l == inward[i].place
           m == [pieces |-> 0, gross |-> Rounded(inward[i].line.gross * part.gross, inward[i].line.net),
                 net |-> part.gross, cost |-> Rounded(inward[i].line.cost * part.gross, inward[i].line.net)]
<1>2. Returned(i, l, m)
  BY <1>1
<1>3. m \in Measures
  <2>1. inward[i].line \in PricedRows /\ part.gross \in Nat
    BY <1>0, <1>1, InwardRow, PurchasesAssumption DEF Posted
  <2>2. inward[i].line.gross * part.gross \in Int /\ inward[i].line.cost * part.gross \in Int /\ inward[i].line.net \in Nat
    BY <2>1, Products DEF PricedRows
  <2>3. /\ Rounded(inward[i].line.gross * part.gross, inward[i].line.net) \in Int
        /\ Rounded(inward[i].line.cost * part.gross, inward[i].line.net) \in Int
    BY <2>2, RoundedTyped
  <2> QED
    BY <2>1, <2>3 DEF Measures
<1>4. inward[i].line.item = "tagged" \/ l \in Counters
  BY <1>1 DEF GoodsInv, InwardsTold, Posted
<1> HIDE DEF l, m
<1>5. \A x \in Places \ Counters : stock'[<<"metal", x>>] = stock[<<"metal", x>>]
  BY <1>1, <1>2, <1>3, <1>4, ReturnRoad
<1> QED
  BY <1>1, <1>5 DEF OffTheRoad, Stays

LEMMA returnUntaggedRoad ==
  ASSUME GoodsInv, NEW c \in Clerks, returnUntagged(c)
  PROVE  OffTheRoad
<1>0. errand \in [Clerks -> Errands]
  BY DEF GoodsInv, GoodsTypeOK, PurchasesTypeOK
<1> DEFINE i == errand[c].doc
           m == errand[c].measure
           l == inward[i].place
<1>1. errand[c].pc = "return" /\ Returned(i, l, m) /\ UNCHANGED <<bound, piece>>
  BY DEF returnUntagged
<1>2. i \in Inwards /\ Posted(i)
  BY <1>1 DEF GoodsInv, ErrandsTold, ErrandTold, Returning, Posted
<1>3. m \in Measures
  BY <1>0 DEF Errands
<1>4. inward[i].line.item = "tagged" \/ l \in Counters
  BY <1>2 DEF GoodsInv, InwardsTold, Posted
<1> HIDE DEF i, m, l
<1>5. \A x \in Places \ Counters : stock'[<<"metal", x>>] = stock[<<"metal", x>>]
  BY <1>1, <1>2, <1>3, <1>4, ReturnRoad
<1> QED
  BY <1>1, <1>5 DEF OffTheRoad, Stays

LEMMA createSettlementRoad ==
  ASSUME GoodsInv, NEW c \in Clerks, createSettlement(c)
  PROVE  OffTheRoad
<1>0. stock \in [Rows -> Measures]
  BY DEF GoodsInv, GoodsTypeOK
<1> DEFINE e == errand[c]
           l == e.place
           out == IF e.kind = "metal" THEN lotMovement(e.place, e.measure.net) ELSE Nothing
           item == "metal"
           a == Nothing
<1>1. /\ errand[c].pc = "settle" /\ UNCHANGED <<bound, piece>>
      /\ recordMovements(At(item, l, a), At(item, l, out), FALSE)
  BY DEF createSettlement
<1>2. out \in Measures /\ l \in Counters
  BY <1>1, SettlementFacts
<1>3. a \in Measures
  BY MeasureFacts
<1> HIDE DEF out, l, item, a
<1>4. \A x \in Places \ Counters : stock'[<<"metal", x>>] = stock[<<"metal", x>>]
  BY <1>0, <1>1, <1>2, <1>3, RoadUntouched
<1> QED
  BY <1>1, <1>4 DEF OffTheRoad, Stays

LEMMA cancelSettlementRoad ==
  ASSUME GoodsInv, NEW c \in Clerks, NEW k \in Settlements, cancelSettlement(c, k)
  PROVE  OffTheRoad
<1>0. stock \in [Rows -> Measures]
  BY DEF GoodsInv, GoodsTypeOK
<1> DEFINE row == settled[k]
           returned == IF row.kind = "metal"
             THEN [pieces |-> 0, gross |-> row.fine, net |-> row.fine, cost |-> row.amount] ELSE Nothing
<1>1. /\ UNCHANGED <<bound, piece>>
      /\ stock' = IF returned = Nothing THEN stock
                  ELSE [stock EXCEPT ![<<"metal", row.place>>] = Plus(@, returned)]
  BY DEF cancelSettlement
<1>2. row.kind = "metal" => row.place \in Counters
  BY DEF GoodsInv, SettlementsTold
<1>3. returned # Nothing => row.kind = "metal"
  OBVIOUS
<1> HIDE DEF row, returned
<1>4. ASSUME NEW x \in Places \ Counters PROVE stock'[<<"metal", x>>] = stock[<<"metal", x>>]
  <2>1. CASE returned = Nothing
    BY <1>1, <2>1
  <2>2. CASE returned # Nothing
    <3>1. <<"metal", x>> # <<"metal", row.place>> /\ <<"metal", x>> \in Rows
      BY <1>2, <1>3, <2>2 DEF Rows
    <3> QED
      BY <1>0, <1>1, <2>2, <3>1
  <2> QED
    BY <2>1, <2>2
<1> QED
  BY <1>1, <1>4 DEF OffTheRoad, Stays

\* Who does more with the floor than counting: a purchase request leaves it alone.
LEMMA PurchaseRoad ==
  ASSUME GoodsInv, NEW c \in Clerks,
         \/ createOrder(c) \/ closeOrder(c) \/ createInward(c) \/ (\E i \in Inwards : BeginCancelInward(c, i))
         \/ cancelInward(c) \/ createBill(c) \/ (\E b \in Bills : cancelBill(c, b))
         \/ (\E i \in Inwards : BeginTag(c, i)) \/ tagPieces(c) \/ (\E i \in Inwards : closeLot(c, i))
         \/ (\E p \in Pieces : returnTagged(c, p)) \/ (\E i \in Inwards : returnMetal(c, i))
         \/ (\E i \in Inwards : BeginReturnUntagged(c, i)) \/ returnUntagged(c) \/ paySupplier(c)
         \/ BeginSettleMetal(c) \/ createSettlement(c) \/ (\E k \in Settlements : cancelSettlement(c, k)) \/ GiveUp(c)
  PROVE  OffTheRoad
<1>1. CASE createOrder(c) \/ closeOrder(c) \/ createBill(c) \/ paySupplier(c) \/ BeginSettleMetal(c) \/ GiveUp(c)
  <2>1. UNCHANGED shelfVars
    BY <1>1 DEF createOrder, closeOrder, createBill, paySupplier, BeginSettleMetal, GiveUp
  <2> QED
    BY <2>1, GoodsStay
<1>2. ASSUME NEW i \in Inwards, BeginCancelInward(c, i) \/ BeginTag(c, i) \/ BeginReturnUntagged(c, i)
      PROVE  OffTheRoad
  <2>1. UNCHANGED shelfVars
    BY <1>2 DEF BeginCancelInward, BeginTag, BeginReturnUntagged
  <2> QED
    BY <2>1, GoodsStay
<1>3. ASSUME NEW b \in Bills, cancelBill(c, b) PROVE OffTheRoad
  <2>1. UNCHANGED shelfVars
    BY <1>3 DEF cancelBill
  <2> QED
    BY <2>1, GoodsStay
<1>4. CASE createInward(c)
  BY <1>4, createInwardRoad
<1>5. CASE cancelInward(c)
  BY <1>5, cancelInwardRoad
<1>6. CASE tagPieces(c)
  BY <1>6, tagPiecesRoad
<1>7. ASSUME NEW i \in Inwards, closeLot(c, i) PROVE OffTheRoad
  BY <1>7, closeLotRoad
<1>8. ASSUME NEW p \in Pieces, returnTagged(c, p) PROVE OffTheRoad
  BY <1>8, returnTaggedRoad
<1>9. ASSUME NEW i \in Inwards, returnMetal(c, i) PROVE OffTheRoad
  BY <1>9, returnMetalRoad
<1>10. CASE returnUntagged(c)
  BY <1>10, returnUntaggedRoad
<1>11. CASE createSettlement(c)
  BY <1>11, createSettlementRoad
<1>12. ASSUME NEW k \in Settlements, cancelSettlement(c, k) PROVE OffTheRoad
  BY <1>12, cancelSettlementRoad
<1> QED
  BY <1>1, <1>2, <1>3, <1>4, <1>5, <1>6, <1>7, <1>8, <1>9, <1>10, <1>11, <1>12

LEMMA OffTheRoadKeeps ==
  ASSUME RoadInv, OffTheRoad, UNCHANGED floorVars
  PROVE  RoadInv'
<1>1. transfer' = transfer /\ asked' = asked
  BY DEF floorVars
<1>2. /\ \A p \in Pieces : Stays(p) \/ Leaves(p) \/ Appears(p) \/ SaleUndone(p) \/ Misses(p)
      /\ \A l \in Places \ Counters : stock'[<<"metal", l>>] = stock[<<"metal", l>>]
      /\ bound' = bound
  BY DEF OffTheRoad
<1>3. \A s \in Sessions : \/ asked'[s] = asked[s]
                          \/ asked'[s].missing = {}
                          \/ asked'[s].pc = "post" /\ \A p \in asked'[s].missing : InStock(p)
  BY <1>1
<1> QED
  BY <1>1, <1>2, <1>3, RoadKeeps

\* Counting, up to what a count that is posted will be set against.
LEMMA CountingRoad ==
  ASSUME GoodsInv, RoadInv, NEW s \in Sessions,
         \/ BeginStartCount(s) \/ startCount(s) \/ Abandon(s)
         \/ \E c \in Counts : scanTags(s, c) \/ weighLot(s, c) \/ removeCountLine(s, c) \/ cancelCount(s, c)
         \/ \E c \in Counts : BeginPostCount(s, c)
  PROVE  RoadInv'
<1>0. asked \in [Sessions -> Questions]
  BY DEF GoodsInv, GoodsTypeOK, FloorTypeOK
<1>1. UNCHANGED <<shelfVars, transfer>>
  BY DEF BeginStartCount, startCount, Abandon, scanTags, weighLot, removeCountLine, cancelCount, BeginPostCount
<1>2. /\ \A p \in Pieces : Stays(p) \/ Leaves(p) \/ Appears(p) \/ SaleUndone(p) \/ Misses(p)
      /\ \A l \in Places \ Counters : stock'[<<"metal", l>>] = stock[<<"metal", l>>]
      /\ bound' = bound /\ transfer' = transfer
  BY <1>1 DEF shelfVars, Stays
<1>3. \/ asked' = asked
      \/ \E q : /\ asked' = [asked EXCEPT ![s] = q]
                /\ q.missing = {} \/ (q.pc = "post" /\ \A p \in q.missing : InStock(p))
  <2>1. CASE BeginStartCount(s)
    <3>1. PICK l \in bound.at : asked' = [asked EXCEPT ![s] = [Unasked EXCEPT !.pc = "start", !.place = l]]
      BY <2>1 DEF BeginStartCount
    <3> DEFINE q == [Unasked EXCEPT !.pc = "start", !.place = l]
    <3>2. q.missing = {}
      BY DEF Unasked
    <3>3. asked' = [asked EXCEPT ![s] = q]
      BY <3>1
    <3> HIDE DEF q
    <3> QED
      BY <3>2, <3>3
  <2>2. CASE startCount(s) \/ Abandon(s)
    <3>1. asked' = [asked EXCEPT ![s] = Unasked] /\ Unasked.missing = {}
      BY <2>2 DEF startCount, Abandon, Answered, Unasked
    <3> QED
      BY <3>1
  <2>3. CASE \E c \in Counts : scanTags(s, c) \/ weighLot(s, c) \/ removeCountLine(s, c) \/ cancelCount(s, c)
    BY <2>3 DEF scanTags, weighLot, removeCountLine, cancelCount
  <2>4. CASE \E c \in Counts : BeginPostCount(s, c)
    <3>1. PICK c \in Counts : BeginPostCount(s, c)
      BY <2>4
    <3>2. PICK writeOffMissing \in BOOLEAN :
            asked' = [asked EXCEPT ![s] =
                 [Unasked EXCEPT !.pc = "post", !.count = c, !.moveHere = elsewhere(c),
                                 !.missing = IF writeOffMissing THEN missingFrom(c) ELSE {},
                                 !.diff = IF count[c].weighed = None THEN 0
                                          ELSE count[c].weighed - stock[<<"metal", count[c].place>>].net]]
      BY <3>1 DEF BeginPostCount
    <3> DEFINE missing == IF writeOffMissing THEN missingFrom(c) ELSE {}
               diff == IF count[c].weighed = None THEN 0
                       ELSE count[c].weighed - stock[<<"metal", count[c].place>>].net
               here == elsewhere(c)
               q == [Unasked EXCEPT !.pc = "post", !.count = c, !.moveHere = here, !.missing = missing, !.diff = diff]
    <3>3. asked' = [asked EXCEPT ![s] = q]
      BY <3>2
    <3>4. \A p \in missing : InStock(p)
      BY DEF missingFrom
    <3> HIDE DEF missing, diff, here
    <3>5. q.pc = "post" /\ q.missing = missing
      BY DEF Unasked
    <3> HIDE DEF q
    <3> QED
      BY <3>3, <3>4, <3>5
  <2> QED
    BY <2>1, <2>2, <2>3, <2>4
<1>4. \A u \in Sessions : \/ asked'[u] = asked[u]
                          \/ asked'[u].missing = {}
                          \/ asked'[u].pc = "post" /\ \A p \in asked'[u].missing : InStock(p)
  BY <1>0, <1>3
<1> QED
  BY <1>2, <1>4, RoadKeeps

LEMMA adjustStockRoad ==
  ASSUME GoodsInv, RoadInv, NEW s \in Sessions, adjustStock(s)
  PROVE  RoadInv'
<1>0. piece \in [Pieces -> PieceRows]
  BY DEF GoodsInv, GoodsTypeOK
<1>1. PICK l \in Counters, set \in SUBSET Pieces :
        /\ stock' \in [Rows -> Measures] /\ MetalTold'
        /\ \A x \in Places \ {l} : stock'[<<"metal", x>>] = stock[<<"metal", x>>]
        /\ \A p \in set : InStock(p)
        /\ piece' = [p \in Pieces |-> IF p \in set THEN [piece[p] EXCEPT !.status = "written_off"] ELSE piece[p]]
        /\ UNCHANGED <<bound, floorVars>>
  BY adjustStockFacts
<1>2. transfer' = transfer /\ asked' = asked /\ bound' = bound
  BY <1>1 DEF floorVars
<1>3. \A p \in Pieces : Stays(p) \/ Leaves(p) \/ Appears(p) \/ SaleUndone(p) \/ Misses(p)
  BY <1>0, <1>1 DEF Stays, Leaves, PieceRows
<1>4. \A x \in Places \ Counters : stock'[<<"metal", x>>] = stock[<<"metal", x>>]
  BY <1>1
<1>5. \A u \in Sessions : \/ asked'[u] = asked[u]
                          \/ asked'[u].missing = {}
                          \/ asked'[u].pc = "post" /\ \A p \in asked'[u].missing : InStock(p)
  BY <1>2
<1> QED
  BY <1>2, <1>3, <1>4, <1>5, RoadKeeps

LEMMA OnePieceRoad ==
  ASSUME GoodsInv, RoadInv, NEW s \in Sessions, NEW p \in Pieces,
         correctPieceWeights(s, p) \/ sellPiece(s, p) \/ undoSale(s, p)
  PROVE  RoadInv'
<1>1. /\ \A x \in Places : stock'[<<"metal", x>>] = stock[<<"metal", x>>]
      /\ \A q \in Pieces \ {p} : piece'[q] = piece[q]
      /\ \/ InStock(p) /\ piece'[p].status = piece[p].status /\ piece'[p].soldAt = piece[p].soldAt
         \/ InStock(p) /\ piece'[p].status = "sold"
         \/ piece[p].soldAt # None /\ piece'[p].soldAt = None /\ piece'[p].status = "in_stock"
      /\ UNCHANGED <<bound, floorVars>>
  BY OnePieceFacts
<1>2. transfer' = transfer /\ asked' = asked /\ bound' = bound
  BY <1>1 DEF floorVars
<1>3. \A q \in Pieces : Stays(q) \/ Leaves(q) \/ Appears(q) \/ SaleUndone(q) \/ Misses(q)
  BY <1>1 DEF Stays, Leaves, SaleUndone
<1>4. \A x \in Places \ Counters : stock'[<<"metal", x>>] = stock[<<"metal", x>>]
  BY <1>1
<1>5. \A u \in Sessions : \/ asked'[u] = asked[u]
                          \/ asked'[u].missing = {}
                          \/ asked'[u].pc = "post" /\ \A q \in asked'[u].missing : InStock(q)
  BY <1>2
<1> QED
  BY <1>2, <1>3, <1>4, <1>5, RoadKeeps

LEMMA postCountRoad ==
  ASSUME GoodsInv, RoadInv, NEW s \in Sessions, postCount(s)
  PROVE  RoadInv'
<1>0. piece \in [Pieces -> PieceRows] /\ asked \in [Sessions -> Questions]
  BY DEF GoodsInv, GoodsTypeOK, FloorTypeOK
<1> DEFINE q == asked[s]
           here == count[q.count].place
<1>1. /\ here \in Counters
      /\ \A x \in Places \ {here} : stock'[<<"metal", x>>] = stock[<<"metal", x>>]
      /\ \A p \in Pieces :
           \/ piece'[p] = piece[p]
           \/ piece'[p] = [piece[p] EXCEPT !.place = here]
           \/ p \in q.missing /\ piece'[p] = [piece[p] EXCEPT !.status = "written_off"]
      /\ asked' = [asked EXCEPT ![s] = Unasked]
      /\ UNCHANGED <<bound, transfer>>
  BY postCountFacts
<1> HIDE DEF here
<1>2. ASSUME NEW p \in Pieces PROVE Stays(p) \/ Leaves(p) \/ Appears(p) \/ SaleUndone(p) \/ Misses(p)
  <2>1. piece[p] \in PieceRows
    BY <1>0
  <2>2. CASE piece'[p] = piece[p]
    BY <2>2 DEF Stays
  <2>3. CASE piece'[p] = [piece[p] EXCEPT !.place = here]
    BY <2>1, <2>3 DEF Stays, PieceRows
  <2>4. CASE p \in asked[s].missing /\ piece'[p] = [piece[p] EXCEPT !.status = "written_off"]
    BY <2>1, <2>4 DEF Misses, PieceRows
  <2> QED
    BY <1>1, <2>2, <2>3, <2>4
<1>3. \A x \in Places \ Counters : stock'[<<"metal", x>>] = stock[<<"metal", x>>]
  BY <1>1
<1>4. \A u \in Sessions : \/ asked'[u] = asked[u]
                          \/ asked'[u].missing = {}
                          \/ asked'[u].pc = "post" /\ \A p \in asked'[u].missing : InStock(p)
  BY <1>0, <1>1 DEF Unasked
<1>5. transfer' = transfer /\ bound' = bound
  BY <1>1
<1> QED
  BY <1>2, <1>3, <1>4, <1>5, RoadKeeps

\* The load of one branch's road, when one transfer changes.
LEMMA LoadChanges ==
  ASSUME NEW rows \in [Transfers -> TransferRows], NEW next \in [Transfers -> TransferRows], NEW t \in Transfers,
         \A x \in Transfers \ {t} : next[x] = rows[x], NEW b
  PROVE  Total(LoadTo(next, b)) = Minus(Plus(Total(LoadTo(rows, b)), LoadTo(next, b)[t]), LoadTo(rows, b)[t])
<1> DEFINE f == LoadTo(rows, b)
           e == LoadTo(next, b)
<1>1. IsFiniteSet(Transfers)
  BY GoodsFinite
<1>2. DOMAIN f = Transfers /\ DOMAIN e = Transfers
  BY DEF LoadTo
<1>3. \A x \in Transfers : f[x] \in Measures /\ e[x] \in Measures
  BY MeasureFacts DEF LoadTo, TransferRows
<1>4. \A x \in Transfers \ {t} : e[x] = f[x]
  BY DEF LoadTo
<1> HIDE DEF f, e
<1>5. Total(e) = Minus(Plus(Total(f), e[t]), f[t])
  BY <1>1, <1>2, <1>3, <1>4, TotalChanges
<1> QED
  BY <1>5 DEF f, e

LEMMA DispatchIdle ==
  ASSUME NEW s \in Sessions, dispatchTransfer(s)
  PROVE  s \in bound.sessions /\ asked[s].pc = "idle" /\ UNCHANGED <<bound, count, asked>>
<1>1. PICK from, to \in Counters, set \in SUBSET Pieces, weight \in Scales :
        LET sent == Sent(set, weight, from)
            there == landing(from, to)
            sameBranch == BranchOf[from] = BranchOf[to]
        IN
        /\ Atomic(s)
        /\ from # to /\ (set # {} \/ weight > 0)
        /\ \A p \in set : InStock(p) /\ piece[p].place = from
        /\ \E t \in Unused(transfer, bound.transfers) :
             transfer' = [transfer EXCEPT ![t] =
               [status |-> IF sameBranch THEN "received" ELSE "in_transit",
                from |-> from, to |-> to, pieces |-> set, metal |-> sent.metal]]
        /\ recordMovements(With(PiecesAt(AllAt(set, there)), At("metal", there, sent.metal)),
                           With(sent.tagged, At("metal", from, sent.metal)), FALSE)
        /\ piece' = [p \in Pieces |-> IF p \in set
             THEN [piece[p] EXCEPT !.place = there, !.status = IF sameBranch THEN "in_stock" ELSE "in_transit"]
             ELSE piece[p]]
        /\ UNCHANGED <<bound, count, asked>>
  BY Zenon DEF dispatchTransfer
<1>2. Atomic(s) /\ UNCHANGED <<bound, count, asked>>
  BY <1>1
<1> QED
  BY <1>2 DEF Atomic

LEMMA dispatchTransferRoad ==
  ASSUME GoodsInv, RoadInv, NEW s \in Sessions, dispatchTransfer(s)
  PROVE  RoadInv'
<1>0. /\ piece \in [Pieces -> PieceRows] /\ transfer \in [Transfers -> TransferRows] /\ FloorTold
      /\ asked \in [Sessions -> Questions]
  BY DEF GoodsInv, GoodsTypeOK, FloorTypeOK
<1>1. PICK from, to \in Counters, set \in SUBSET Pieces, m \in Measures, t \in Transfers :
           /\ \A p \in set : InStock(p) /\ piece[p].place = from
           /\ m.net >= 0 /\ transfer[t].status = "none"
           /\ transfer' = [transfer EXCEPT ![t] =
                [status |-> IF BranchOf[from] = BranchOf[to] THEN "received" ELSE "in_transit",
                 from |-> from, to |-> to, pieces |-> set, metal |-> m]]
           /\ piece' = [p \in Pieces |-> IF p \in set
                THEN [piece[p] EXCEPT !.place = landing(from, to),
                                      !.status = IF BranchOf[from] = BranchOf[to] THEN "in_stock" ELSE "in_transit"]
                ELSE piece[p]]
           /\ stock' \in [Rows -> Measures] /\ MetalTold'
           /\ \A x \in Places : stock'[<<"metal", x>>] =
                Minus(Plus(stock[<<"metal", x>>], IF x = landing(from, to) THEN m ELSE Nothing),
                      IF x = from THEN m ELSE Nothing)
           /\ UNCHANGED <<bound, count, asked>>
  BY dispatchTransferFacts
<1>2. s \in bound.sessions /\ asked[s].pc = "idle"
  BY DispatchIdle
<1> DEFINE same == BranchOf[from] = BranchOf[to]
           status == IF same THEN "received" ELSE "in_transit"
           there == landing(from, to)
           row == [status |-> status, from |-> from, to |-> to, pieces |-> set, metal |-> m]
<1>3. row \in TransferRows /\ row.status = status /\ row.pieces = set /\ row.to = to /\ row.metal = m
  BY DEF TransferRows, Counters
<1>4. transfer' = [transfer EXCEPT ![t] = row]
  BY <1>1
<1> HIDE DEF row
<1>5. transfer' \in [Transfers -> TransferRows] /\ transfer'[t] = row /\ \A x \in Transfers \ {t} : transfer'[x] = transfer[x]
  BY <1>0, <1>3, <1>4
<1>6. \A p \in Pieces : /\ piece'[p].soldAt = piece[p].soldAt
                        /\ p \in set => piece'[p].status = IF same THEN "in_stock" ELSE "in_transit"
                        /\ p \notin set => piece'[p] = piece[p]
  <2> DEFINE arrived == IF same THEN "in_stock" ELSE "in_transit"
  <2>1. piece' = [p \in Pieces |-> IF p \in set THEN [piece[p] EXCEPT !.place = there, !.status = arrived] ELSE piece[p]]
    BY <1>1
  <2> HIDE DEF arrived, there
  <2>2. \A p \in Pieces : /\ piece'[p].soldAt = piece[p].soldAt
                          /\ p \in set => piece'[p].status = arrived
                          /\ p \notin set => piece'[p] = piece[p]
    BY <1>0, <2>1 DEF PieceRows
  <2> QED
    BY <2>2 DEF arrived
<1>7. asked' = asked /\ bound' = bound
  BY <1>1
<1> HIDE DEF same, there
<1>8. \A p \in Pieces, x \in Transfers :
        Carried(x, p)' <=> IF x = t THEN ~same /\ p \in set ELSE Carried(x, p)
  BY <1>3, <1>5 DEF Carried
<1>9. \A p \in set, x \in Transfers : InStock(p) /\ ~Carried(x, p) /\ piece[p].soldAt = None
  BY <1>1 DEF RoadInv, InStock
<1>10. \A p \in Pieces, x, y \in Transfers : Carried(x, p)' /\ Carried(y, p)' => x = y
  BY <1>8, <1>9 DEF RoadInv
<1>11. ASSUME NEW p \in Pieces, NEW x \in Transfers, Carried(x, p)'
       PROVE  /\ piece'[p].soldAt = None
              /\ piece'[p].status = "in_transit" \/ (piece'[p].status = "written_off" /\ TwoAtOnce')
  <2>1. CASE p \in set
    <3>1. x = t /\ ~same
      BY <1>8, <1>9, <1>11, <2>1
    <3> QED
      BY <1>6, <1>9, <2>1, <3>1
  <2>2. CASE p \notin set
    <3>1. Carried(x, p) /\ piece'[p] = piece[p]
      BY <1>6, <1>8, <1>11, <2>2
    <3> QED
      BY <1>7, <3>1 DEF RoadInv, TwoAtOnce
  <2> QED
    BY <2>1, <2>2
<1>12. ASSUME NEW p \in Pieces, piece'[p].status = "in_transit"
       PROVE  \E x \in Transfers : Carried(x, p)'
  <2>1. CASE p \in set
    <3>1. ~same
      BY <1>6, <1>12, <2>1
    <3> QED
      BY <1>8, <2>1, <3>1
  <2>2. CASE p \notin set
    <3>1. PICK x \in Transfers : Carried(x, p)
      BY <1>6, <1>12, <2>2 DEF RoadInv
    <3>2. x # t
      BY <1>1, <3>1 DEF Carried
    <3> QED
      BY <1>8, <3>1, <3>2
  <2> QED
    BY <2>1, <2>2
<1>13. \A p \in Pieces : InStock(p)' => piece'[p].soldAt = None
  BY <1>6, <1>9 DEF RoadInv, InStock
<1>14. ASSUME NEW u \in Sessions, NEW p \in Pieces, p \in asked'[u].missing
       PROVE  asked'[u].pc = "post" /\ (TwoAtOnce' \/ \A x \in Transfers : ~Carried(x, p)')
  <2>1. asked[u].pc = "post" /\ (TwoAtOnce \/ \A x \in Transfers : ~Carried(x, p))
    BY <1>7, <1>14 DEF RoadInv
  <2>2. u \in bound.sessions /\ u # s
    BY <1>0, <1>2, <2>1 DEF FloorTold
  <2>3. TwoAtOnce'
    BY <1>2, <1>7, <2>2 DEF TwoAtOnce
  <2> QED
    BY <1>7, <2>1, <2>3
<1>15. LoadTold'
  <2> SUFFICES ASSUME NEW b \in DOMAIN Transit
               PROVE  stock'[<<"metal", Transit[b]>>] = Total(LoadTo(transfer', b))
    BY DEF LoadTold
  <2> DEFINE road == Transit[b]
             load == IF ~same /\ BranchOf[to] = b THEN m ELSE Nothing
             old == LoadTo(transfer, b)[t]
             new == LoadTo(transfer', b)[t]
             were == Total(LoadTo(transfer, b))
  <2>1. Total(LoadTo(transfer', b)) = Minus(Plus(were, new), old)
    BY <1>0, <1>5, LoadChanges
  <2>2. old = Nothing /\ new = load
    BY <1>1, <1>3, <1>5 DEF LoadTo
  <2>3. road \in Places /\ road \notin Counters /\ BranchOf[road] = b
    BY PlacesAssumption DEF Counters
  <2>4. road # from /\ (road = there <=> ~same /\ BranchOf[to] = b)
    <3>1. there = IF same THEN to ELSE Transit[BranchOf[to]]
      BY LandingFacts DEF same, there
    <3>2. BranchOf[to] \in DOMAIN Transit
      BY LandingFacts
    <3>3. BranchOf[Transit[BranchOf[to]]] = BranchOf[to]
      BY <3>2, PlacesAssumption
    <3> QED
      BY <2>3, <3>1, <3>3
  <2> HIDE DEF road, old, new, were
  <2>5. stock'[<<"metal", road>>] = Minus(Plus(stock[<<"metal", road>>], load), Nothing)
    BY <1>1, <2>3, <2>4 DEF there
  <2>6. stock[<<"metal", road>>] = were
    BY DEF RoadInv, LoadTold, road, were
  <2> QED
    BY <2>1, <2>2, <2>5, <2>6 DEF road
<1> QED
  BY <1>10, <1>11, <1>12, <1>13, <1>14, <1>15 DEF RoadInv

LEMMA landRoad ==
  ASSUME GoodsInv, RoadInv, NEW s \in Sessions, NEW t \in Transfers, land(s, t)
  PROVE  RoadInv'
<1>0. /\ piece \in [Pieces -> PieceRows] /\ transfer \in [Transfers -> TransferRows] /\ FloorTold
      /\ stock \in [Rows -> Measures]
  BY DEF GoodsInv, GoodsTypeOK, FloorTypeOK
<1>1. PICK status \in {"received", "cancelled"}, target \in Counters :
           /\ transfer[t].status = "in_transit" /\ transfer[t].to \in Counters
           /\ transfer' = [transfer EXCEPT ![t].status = status]
           /\ piece' = [p \in Pieces |-> IF p \in transfer[t].pieces
                THEN [piece[p] EXCEPT !.place = target, !.status = "in_stock"] ELSE piece[p]]
           /\ stock' \in [Rows -> Measures] /\ MetalTold'
           /\ \A x \in Places : stock'[<<"metal", x>>] =
                Minus(Plus(stock[<<"metal", x>>], IF x = target THEN transfer[t].metal ELSE Nothing),
                      IF x = Transit[BranchOf[transfer[t].to]] THEN transfer[t].metal ELSE Nothing)
           /\ UNCHANGED <<bound, count, asked>>
  BY landFacts
<1>2. /\ transfer' \in [Transfers -> TransferRows] /\ transfer'[t].status # "in_transit"
      /\ \A x \in Transfers \ {t} : transfer'[x] = transfer[x]
  BY <1>0, <1>1, ZenonT(30) DEF TransferRows
<1>3. \A p \in Pieces : /\ piece'[p].soldAt = piece[p].soldAt
                        /\ p \in transfer[t].pieces => piece'[p].status = "in_stock"
                        /\ p \notin transfer[t].pieces => piece'[p] = piece[p]
  BY <1>0, <1>1 DEF PieceRows
<1>4. asked' = asked /\ bound' = bound
  BY <1>1
<1>5. \A p \in Pieces, x \in Transfers : Carried(x, p)' <=> x # t /\ Carried(x, p)
  BY <1>2 DEF Carried
<1>6. \A p \in Pieces : p \in transfer[t].pieces <=> Carried(t, p)
  BY <1>1 DEF Carried
<1>7. \A p \in Pieces, x, y \in Transfers : Carried(x, p)' /\ Carried(y, p)' => x = y
  BY <1>5 DEF RoadInv
<1>8. ASSUME NEW p \in Pieces, NEW x \in Transfers, Carried(x, p)'
      PROVE  /\ piece'[p].soldAt = None
             /\ piece'[p].status = "in_transit" \/ (piece'[p].status = "written_off" /\ TwoAtOnce')
  <2>1. x # t /\ Carried(x, p)
    BY <1>5, <1>8
  <2>2. piece'[p] = piece[p]
    BY <1>3, <1>6, <2>1 DEF RoadInv
  <2> QED
    BY <1>4, <2>1, <2>2 DEF RoadInv, TwoAtOnce
<1>9. ASSUME NEW p \in Pieces, piece'[p].status = "in_transit"
      PROVE  \E x \in Transfers : Carried(x, p)'
  <2>1. piece[p].status = "in_transit" /\ ~Carried(t, p)
    BY <1>3, <1>6, <1>9
  <2>2. PICK x \in Transfers : Carried(x, p)
    BY <2>1 DEF RoadInv
  <2> QED
    BY <1>5, <2>1, <2>2
<1>10. \A p \in Pieces : InStock(p)' => piece'[p].soldAt = None
  BY <1>3, <1>6 DEF RoadInv, InStock
<1>11. \A u \in Sessions, p \in Pieces : p \in asked'[u].missing =>
         asked'[u].pc = "post" /\ (TwoAtOnce' \/ \A x \in Transfers : ~Carried(x, p)')
  BY <1>4, <1>5 DEF RoadInv, TwoAtOnce
<1>12. LoadTold'
  <2> SUFFICES ASSUME NEW b \in DOMAIN Transit
               PROVE  stock'[<<"metal", Transit[b]>>] = Total(LoadTo(transfer', b))
    BY DEF LoadTold
  <2> DEFINE road == Transit[b]
             m == transfer[t].metal
             load == IF BranchOf[transfer[t].to] = b THEN m ELSE Nothing
             old == LoadTo(transfer, b)[t]
             new == LoadTo(transfer', b)[t]
             were == Total(LoadTo(transfer, b))
  <2>1. Total(LoadTo(transfer', b)) = Minus(Plus(were, new), old)
    BY <1>0, <1>2, LoadChanges
  <2>2. old = load /\ new = Nothing
    BY <1>1, <1>2 DEF LoadTo
  <2>3. road \in Places /\ road \notin Counters /\ BranchOf[road] = b
    BY PlacesAssumption DEF Counters
  <2>4. road # target /\ (road = Transit[BranchOf[transfer[t].to]] <=> BranchOf[transfer[t].to] = b)
    <3>1. BranchOf[transfer[t].to] \in DOMAIN Transit
      BY <1>1, LandingFacts
    <3>2. BranchOf[Transit[BranchOf[transfer[t].to]]] = BranchOf[transfer[t].to]
      BY <3>1, PlacesAssumption
    <3> QED
      BY <2>3, <3>2
  <2> HIDE DEF road, old, new, were
  <2>5. stock'[<<"metal", road>>] = Minus(Plus(stock[<<"metal", road>>], Nothing), load)
    BY <1>1, <2>3, <2>4
  <2>6. stock[<<"metal", road>>] = were
    BY DEF RoadInv, LoadTold, road, were
  <2> QED
    BY <2>1, <2>2, <2>5, <2>6 DEF road
<1> QED
  BY <1>7, <1>8, <1>9, <1>10, <1>11, <1>12 DEF RoadInv

LEMMA RoadHolds ==
  ASSUME GoodsInv, RoadInv, [Next]_goodsVars
  PROVE  RoadInv'
<1>1. CASE UNCHANGED goodsVars
  <2>1. UNCHANGED shelfVars /\ UNCHANGED floorVars
    BY <1>1 DEF goodsVars
  <2> QED
    BY <2>1, GoodsStay, OffTheRoadKeeps
<1>2. ASSUME NEW c \in Clerks,
             \/ createOrder(c) \/ closeOrder(c) \/ createInward(c) \/ (\E i \in Inwards : BeginCancelInward(c, i))
             \/ cancelInward(c) \/ createBill(c) \/ (\E b \in Bills : cancelBill(c, b))
             \/ (\E i \in Inwards : BeginTag(c, i)) \/ tagPieces(c) \/ (\E i \in Inwards : closeLot(c, i))
             \/ (\E p \in Pieces : returnTagged(c, p)) \/ (\E i \in Inwards : returnMetal(c, i))
             \/ (\E i \in Inwards : BeginReturnUntagged(c, i)) \/ returnUntagged(c) \/ paySupplier(c)
             \/ BeginSettleMetal(c) \/ createSettlement(c) \/ (\E k \in Settlements : cancelSettlement(c, k)) \/ GiveUp(c),
             UNCHANGED floorVars
      PROVE  RoadInv'
  BY <1>2, PurchaseRoad, OffTheRoadKeeps
<1>3. ASSUME NEW s \in Sessions, dispatchTransfer(s) PROVE RoadInv'
  BY <1>3, dispatchTransferRoad
<1>4. ASSUME NEW s \in Sessions, NEW t \in Transfers, land(s, t) PROVE RoadInv'
  BY <1>4, landRoad
<1>5. ASSUME NEW s \in Sessions, adjustStock(s) PROVE RoadInv'
  BY <1>5, adjustStockRoad
<1>6. ASSUME NEW s \in Sessions, NEW p \in Pieces, correctPieceWeights(s, p) \/ sellPiece(s, p) \/ undoSale(s, p)
      PROVE  RoadInv'
  BY <1>6, OnePieceRoad
<1>7. ASSUME NEW s \in Sessions,
             \/ BeginStartCount(s) \/ startCount(s) \/ Abandon(s)
             \/ \E c \in Counts : scanTags(s, c) \/ weighLot(s, c) \/ removeCountLine(s, c) \/ cancelCount(s, c)
             \/ \E c \in Counts : BeginPostCount(s, c)
      PROVE  RoadInv'
  BY <1>7, CountingRoad
<1>8. ASSUME NEW s \in Sessions, postCount(s) PROVE RoadInv'
  BY <1>8, postCountRoad
<1> QED
  BY <1>1, <1>2, <1>3, <1>4, <1>5, <1>6, <1>7, <1>8 DEF Next

LEMMA RoadStarts ==
  ASSUME Init
  PROVE  RoadInv
<1>0. GoodsInv
  BY GoodsStarts
<1>1. bound \in Bounds /\ piece = [p \in Pieces |-> IF p \in DOMAIN bound.pieces THEN bound.pieces[p] ELSE NoPiece]
  BY DEF Init, ShelfInit
<1>2. /\ transfer = [t \in Transfers |-> NoTransfer]
      /\ asked = [s \in Sessions |-> Unasked]
  BY DEF Init, FloorInit
<1>3. \A p \in Pieces : piece[p].status # "in_transit" /\ (InStock(p) => piece[p].soldAt = None)
  BY <1>1, ShelfAssumption DEF NoPiece, InStock
<1>4. (\A t \in Transfers : transfer[t].status = "none") /\ \A s \in Sessions : asked[s].missing = {}
  BY <1>2 DEF NoTransfer, Unasked
<1>5. \A p \in Pieces, t \in Transfers : ~Carried(t, p)
  BY <1>4 DEF Carried
<1>6. LoadTold
  <2> SUFFICES ASSUME NEW b \in DOMAIN Transit
               PROVE  stock[<<"metal", Transit[b]>>] = Total(LoadTo(transfer, b))
    BY DEF LoadTold
  <2> DEFINE road == Transit[b]
             r == <<"metal", road>>
             at == [p \in DOMAIN bound.pieces |-> bound.pieces[p].place]
             none == [t \in {} |-> Nothing]
             load == LoadTo(transfer, b)
  <2>1. road \in Places \ Counters /\ r \in Rows
    BY PlacesAssumption DEF Counters, Rows
  <2>2. bound.metal[r] = Nothing /\ bound.metal \in [Rows -> Measures]
    BY <1>1, <2>1, ShelfAssumption
  <2>3. PiecesAt(at)[r] = Nothing /\ PiecesAt(at) \in [Rows -> Measures]
    <3>1. piece \in [Pieces -> PieceRows] /\ DOMAIN at \subseteq Pieces
      BY <1>0, <1>1, ShelfAssumption DEF GoodsInv, GoodsTypeOK
    <3> HIDE DEF at
    <3> QED
      BY <2>1, <3>1, PiecesAtTyped
  <2>4. stock = With(PiecesAt(at), bound.metal)
    BY DEF Init, ShelfInit
  <2> HIDE DEF at, r
  <2>5. stock[r] = Plus(Nothing, Nothing)
    BY <2>1, <2>2, <2>3, <2>4 DEF With
  <2>6. stock[r] = Nothing
    BY <2>5, MeasureFacts DEF Plus, Nothing
  <2>7. Total(none) = Nothing
    BY TotalOfNone
  <2>8. Total(none) = Total(load)
    <3>1. DOMAIN load = Transfers /\ \A t \in Transfers : load[t] = Nothing
      BY <1>4 DEF LoadTo
    <3>2. IsFiniteSet(Transfers)
      BY GoodsFinite
    <3> DEFINE R == {}
    <3>3. R \in SUBSET Transfers /\ DOMAIN none = R /\ R = {}
      OBVIOUS
    <3>4. \A t \in R : none[t] \in Measures /\ load[t] = none[t]
      BY <3>3
    <3>5. \A t \in Transfers \ R : load[t] = Nothing
      BY <3>1
    <3> HIDE DEF load, none, R
    <3> QED
      BY <3>1, <3>2, <3>3, <3>4, <3>5, TotalOfPart
  <2> QED
    BY <2>6, <2>7, <2>8 DEF r
<1> QED
  BY <1>3, <1>4, <1>5, <1>6 DEF RoadInv

\* One carrier at most, or none.
LEMMA OneOrNone ==
  ASSUME NEW C, IsFiniteSet(C), \A t, u \in C : t = u
  PROVE  Cardinality(C) <= 1 /\ (Cardinality(C) = 1 <=> C # {})
<1>1. CASE C = {}
  BY <1>1, FS_EmptySet
<1>2. CASE C # {}
  <2>1. PICK t : t \in C
    BY <1>2
  <2>2. C = {t}
    BY <2>1
  <2>3. Cardinality(C) = 1
    BY <2>2, FS_Singleton
  <2> QED
    BY <1>2, <2>3
<1> QED
  BY <1>1, <1>2

\* "Until then everyone can see exactly what is on the road" (transfer.service.ts:4-8):
\* through every dispatch, receipt, cancellation, sale, count and purchase, a piece in transit
\* is on one open transfer and each branch's transit location holds just the metal that open
\* transfers carry to it; only a count posted by one session while another dispatches can
\* leave a piece on a transfer that is not in transit, and then it has been written off.
THEOREM OnTheRoadEver == Spec => []OnTheRoad
<1>1. Init => RoadInv
  BY RoadStarts
<1>2. GoodsInv /\ RoadInv /\ [Next]_goodsVars => RoadInv'
  BY RoadHolds
<1>3. GoodsInv /\ RoadInv => OnTheRoad
  <2> SUFFICES ASSUME GoodsInv, RoadInv
               PROVE  OnTheRoad
    OBVIOUS
  <2> DEFINE open == {t \in Transfers : transfer[t].status = "in_transit"}
             by(p) == {t \in open : p \in transfer[t].pieces}
             to(b) == {t \in open : BranchOf[transfer[t].to] = b}
  <2>0. transfer \in [Transfers -> TransferRows] /\ IsFiniteSet(Transfers)
    BY GoodsFinite DEF GoodsInv, GoodsTypeOK, FloorTypeOK
  <2>1. ASSUME NEW p \in Pieces
        PROVE  /\ Cardinality(by(p)) <= 1
               /\ piece[p].status = "in_transit" => Cardinality(by(p)) = 1
               /\ Cardinality(by(p)) = 1 => \/ piece[p].status = "in_transit"
                                            \/ piece[p].status = "written_off" /\ \E s, u \in bound.sessions : s # u
    <3> DEFINE C == by(p)
    <3>1. \A t \in Transfers : t \in C <=> Carried(t, p)
      BY DEF Carried
    <3>2. C \subseteq Transfers
      OBVIOUS
    <3> HIDE DEF C
    <3>3. IsFiniteSet(C)
      BY <2>0, <3>2, FS_Subset
    <3>4. \A t, u \in C : t = u
      BY <3>1, <3>2 DEF RoadInv
    <3>5. Cardinality(C) <= 1 /\ (Cardinality(C) = 1 <=> C # {})
      BY <3>3, <3>4, OneOrNone
    <3>6. piece[p].status = "in_transit" => C # {}
      BY <3>1 DEF RoadInv
    <3>7. C # {} => \/ piece[p].status = "in_transit"
                    \/ piece[p].status = "written_off" /\ \E s, u \in bound.sessions : s # u
      BY <3>1, <3>2 DEF RoadInv, TwoAtOnce
    <3>8. /\ Cardinality(C) <= 1
          /\ piece[p].status = "in_transit" => Cardinality(C) = 1
          /\ Cardinality(C) = 1 => \/ piece[p].status = "in_transit"
                                   \/ piece[p].status = "written_off" /\ \E s, u \in bound.sessions : s # u
      BY <3>5, <3>6, <3>7
    <3> QED
      BY <3>8 DEF C
  <2>2. ASSUME NEW b \in DOMAIN Transit
        PROVE  stock[<<"metal", Transit[b]>>] = Total([t \in to(b) |-> transfer[t].metal])
    <3> DEFINE R == to(b)
               f == [t \in R |-> transfer[t].metal]
               e == LoadTo(transfer, b)
    <3>1. R \in SUBSET Transfers /\ DOMAIN f = R /\ DOMAIN e = Transfers
      BY DEF LoadTo
    <3>2. \A t \in R : f[t] \in Measures /\ e[t] = f[t]
      BY <2>0 DEF LoadTo, TransferRows
    <3>3. \A t \in Transfers \ R : e[t] = Nothing
      BY DEF LoadTo
    <3> HIDE DEF R, f, e
    <3>4. Total(f) = Total(e)
      BY <2>0, <3>1, <3>2, <3>3, TotalOfPart
    <3> QED
      BY <3>4 DEF RoadInv, LoadTold, R, f, e
  <2> QED
    BY <2>1, <2>2 DEF OnTheRoad
<1> QED
  BY <1>1, <1>2, <1>3, GoodsInvHolds, PTL DEF Spec

-------------------------------------------------------------------------------
\* A count that is posted.

\* What a clerk's request does, and what a session's does.
ClerkStep(c) ==
  \/ createOrder(c) \/ closeOrder(c) \/ createInward(c) \/ (\E i \in Inwards : BeginCancelInward(c, i))
  \/ cancelInward(c) \/ createBill(c) \/ (\E b \in Bills : cancelBill(c, b))
  \/ (\E i \in Inwards : BeginTag(c, i)) \/ tagPieces(c) \/ (\E i \in Inwards : closeLot(c, i))
  \/ (\E p \in Pieces : returnTagged(c, p)) \/ (\E i \in Inwards : returnMetal(c, i))
  \/ (\E i \in Inwards : BeginReturnUntagged(c, i)) \/ returnUntagged(c) \/ paySupplier(c)
  \/ BeginSettleMetal(c) \/ createSettlement(c) \/ (\E k \in Settlements : cancelSettlement(c, k)) \/ GiveUp(c)

SessionStep(s) ==
  \/ dispatchTransfer(s) \/ (\E t \in Transfers : land(s, t)) \/ adjustStock(s)
  \/ (\E p \in Pieces : correctPieceWeights(s, p) \/ sellPiece(s, p) \/ undoSale(s, p))
  \/ BeginStartCount(s) \/ startCount(s) \/ Abandon(s)
  \/ (\E c \in Counts : scanTags(s, c) \/ weighLot(s, c) \/ removeCountLine(s, c) \/ cancelCount(s, c))
  \/ (\E c \in Counts : BeginPostCount(s, c))
  \/ postCount(s)

LEMMA Steps ==
  ASSUME [Next]_goodsVars
  PROVE  \/ \E c \in Clerks : ClerkStep(c) /\ UNCHANGED floorVars
         \/ \E s \in Sessions : SessionStep(s) /\ UNCHANGED purchaseVars
         \/ UNCHANGED goodsVars
<1>1. Next \/ UNCHANGED goodsVars
  OBVIOUS
<1>2. CASE Next
  BY <1>2, Zenon DEF Next, ClerkStep, SessionStep
<1> QED
  BY <1>1, <1>2

\* Who is in the middle of a purchase was let in.
Claimed == \A c \in Clerks : errand[c].pc # "idle" => c \in bound.clerks

\* What the books say a count in hand is to change, as long as nobody else works.
OffBy(c) == IF count[c].weighed = None THEN 0 ELSE count[c].weighed - stock[<<"metal", count[c].place>>].net

SetAgainst(s) ==
  asked[s].pc = "post" => asked[s].moveHere = elsewhere(asked[s].count) /\ asked[s].diff = OffBy(asked[s].count)

CountInv ==
  /\ Claimed
  /\ Alone /\ bound.clerks = {} => \A s \in Sessions : SetAgainst(s)

LEMMA createInwardIdle ==
  ASSUME NEW c \in Clerks, createInward(c)
  PROVE  c \in bound.clerks /\ errand[c].pc = "idle" /\ bound' = bound /\ errand' = errand
<1>1. PICK s \in bound.suppliers, l \in bound.places, g \in bound.goods, direct, billed, gstin \in BOOLEAN :
      \E o \in {0} \cup {o \in Orders : order[o].status = "confirmed" /\ order[o].supplier = s},
         ol \in OrderLines \cup {None} :
        LET p == priceInward(g)
            gst == IF billed /\ gstin THEN gstOn(p.cost) ELSE 0
            v == InwardVoucher(p)
        IN
        /\ OneStep(c)
        /\ direct => billed
        /\ ol # None => o # 0
        /\ \E i \in Unused(inward, bound.inwards) :
             LET rows == [inward EXCEPT ![i] = [status |-> "posted", supplier |-> s, place |-> l, line |-> p,
                            direct |-> direct, bill |-> 0, order |-> o, orderLine |-> ol]]
             IN
             /\ lot' = [lot EXCEPT ![i] = IF p.item = "tagged"
                          THEN [NoLot EXCEPT !.status = "open", !.expected = Received(p)] ELSE NoLot]
             /\ rollUpOrder(rows, o)
             /\ \/ ~billed /\ inward' = rows /\ bill' = bill
                \/ billed /\ \E b \in Unused(bill, bound.bills) : Billed(b, s, {i}, rows, gst)
        /\ recordMovements(At(p.item, l, Received(p)), At(p.item, l, Nothing), FALSE)
        /\ postVoucher(s, [v EXCEPT !.gst = gst, !.rupees = @ + gst], p.fine, 0, v.metal)
        /\ UNCHANGED <<bound, piece, back, settled, errand>>
  BY Zenon DEF createInward
<1>2. OneStep(c) /\ UNCHANGED <<bound, piece, back, settled, errand>>
  BY <1>1
<1> QED
  BY <1>2 DEF OneStep

\* A clerk's request is let in, and touches no other clerk's.
LEMMA ClerkActs ==
  ASSUME GoodsInv, NEW c \in Clerks, ClerkStep(c)
  PROVE  /\ bound' = bound
         /\ \/ c \in bound.clerks
            \/ errand[c].pc # "idle"
         /\ \A d \in Clerks : d # c => errand'[d] = errand[d]
         /\ errand[c].pc # "idle" => errand'[c].pc = "idle"
<1>0. errand \in [Clerks -> Errands] /\ Free.pc = "idle"
  BY DEF GoodsInv, GoodsTypeOK, PurchasesTypeOK, Free
<1>1. CASE createOrder(c) \/ closeOrder(c) \/ createBill(c) \/ paySupplier(c)
  BY <1>1 DEF createOrder, closeOrder, createBill, paySupplier, OneStep, shelfVars
<1>2. CASE createInward(c)
  BY <1>2, createInwardIdle
<1>3. ASSUME NEW i \in Inwards, closeLot(c, i) \/ returnMetal(c, i)
      PROVE  c \in bound.clerks /\ errand[c].pc = "idle" /\ bound' = bound /\ errand' = errand
  BY <1>3 DEF closeLot, returnMetal, OneStep
<1>4. ASSUME NEW b \in Bills, cancelBill(c, b)
      PROVE  c \in bound.clerks /\ errand[c].pc = "idle" /\ bound' = bound /\ errand' = errand
  BY <1>4 DEF cancelBill, OneStep, shelfVars
<1>5. ASSUME NEW p \in Pieces, returnTagged(c, p)
      PROVE  c \in bound.clerks /\ errand[c].pc = "idle" /\ bound' = bound /\ errand' = errand
  BY <1>5 DEF returnTagged, OneStep
<1>6. ASSUME NEW k \in Settlements, cancelSettlement(c, k)
      PROVE  c \in bound.clerks /\ errand[c].pc = "idle" /\ bound' = bound /\ errand' = errand
  BY <1>6 DEF cancelSettlement, OneStep
<1>7. ASSUME NEW i \in Inwards, BeginCancelInward(c, i) \/ BeginTag(c, i) \/ BeginReturnUntagged(c, i)
      PROVE  c \in bound.clerks /\ errand[c].pc = "idle" /\ bound' = bound /\ \E e : errand' = [errand EXCEPT ![c] = e]
  BY <1>7, Zenon DEF BeginCancelInward, BeginTag, BeginReturnUntagged, OneStep, shelfVars
<1>8. CASE BeginSettleMetal(c)
  <2>1. c \in bound.clerks /\ errand[c].pc = "idle" /\ bound' = bound /\ \E e : errand' = [errand EXCEPT ![c] = e]
    BY <1>8, Zenon DEF BeginSettleMetal, OneStep, shelfVars
  <2> QED
    BY <1>0, <2>1
<1>9. CASE cancelInward(c) \/ tagPieces(c) \/ returnUntagged(c) \/ createSettlement(c) \/ GiveUp(c)
  <2>1. errand[c].pc # "idle" /\ bound' = bound /\ errand' = [errand EXCEPT ![c] = Free]
    BY <1>9 DEF cancelInward, tagPieces, returnUntagged, createSettlement, GiveUp, Finish, shelfVars
  <2> QED
    BY <1>0, <2>1
<1> QED
  BY <1>0, <1>1, <1>2, <1>3, <1>4, <1>5, <1>6, <1>7, <1>8, <1>9 DEF ClerkStep

\* So is a session's, and it waits for nothing it does not post or leave.
LEMMA SessionActs ==
  ASSUME GoodsInv, NEW s \in Sessions, SessionStep(s)
  PROVE  /\ bound' = bound /\ s \in bound.sessions
         /\ \A u \in Sessions : u # s => asked'[u] = asked[u]
         /\ asked[s].pc # "idle" => asked'[s].pc = "idle"
         /\ asked'[s].pc = "post" => \E c \in Counts : BeginPostCount(s, c)
<1>0. asked \in [Sessions -> Questions] /\ Unasked.pc = "idle" /\ \A u \in Sessions : asked[u].pc # "idle" => u \in bound.sessions
  BY UnaskedTyped DEF GoodsInv, GoodsTypeOK, FloorTypeOK, FloorTold
<1>1. CASE dispatchTransfer(s) \/ adjustStock(s)
  <2>1. CASE dispatchTransfer(s)
    BY <2>1, DispatchIdle
  <2>2. CASE adjustStock(s)
    <3>1. Atomic(s) /\ UNCHANGED <<bound, floorVars>>
      BY <2>2, Zenon DEF adjustStock
    <3> QED
      BY <3>1 DEF Atomic, floorVars
  <2> QED
    BY <1>1, <2>1, <2>2
<1>2. ASSUME NEW t \in Transfers, land(s, t)
      PROVE  Atomic(s) /\ bound' = bound /\ asked' = asked
  BY <1>2 DEF land
<1>3. ASSUME NEW p \in Pieces, correctPieceWeights(s, p) \/ sellPiece(s, p) \/ undoSale(s, p)
      PROVE  Atomic(s) /\ bound' = bound /\ asked' = asked
  BY <1>3 DEF correctPieceWeights, sellPiece, undoSale, floorVars
<1>4. CASE BeginStartCount(s)
  <2>1. PICK l \in bound.at :
          Atomic(s) /\ asked' = [asked EXCEPT ![s] = [Unasked EXCEPT !.pc = "start", !.place = l]]
    BY <1>4 DEF BeginStartCount
  <2>2. bound' = bound
    BY <1>4 DEF BeginStartCount, shelfVars
  <2> DEFINE q == [Unasked EXCEPT !.pc = "start", !.place = l]
  <2>3. q.pc = "start"
    BY DEF Unasked
  <2>4. asked' = [asked EXCEPT ![s] = q]
    BY <2>1
  <2> HIDE DEF q
  <2> QED
    BY <1>0, <2>1, <2>2, <2>3, <2>4 DEF Atomic
<1>5. CASE startCount(s) \/ Abandon(s) \/ postCount(s)
  <2>1. asked[s].pc # "idle" /\ bound' = bound /\ asked' = [asked EXCEPT ![s] = Unasked]
    BY <1>5 DEF startCount, Abandon, postCount, Answered, shelfVars
  <2> QED
    BY <1>0, <2>1
<1>6. ASSUME NEW c \in Counts, scanTags(s, c) \/ weighLot(s, c) \/ removeCountLine(s, c) \/ cancelCount(s, c)
      PROVE  Atomic(s) /\ bound' = bound /\ asked' = asked
  BY <1>6 DEF scanTags, weighLot, removeCountLine, cancelCount, shelfVars
<1>7. ASSUME NEW c \in Counts, BeginPostCount(s, c)
      PROVE  Atomic(s) /\ bound' = bound /\ \A u \in Sessions : u # s => asked'[u] = asked[u]
  <2>1. Atomic(s) /\ bound' = bound /\ \E q : asked' = [asked EXCEPT ![s] = q]
    BY <1>7, Zenon DEF BeginPostCount, shelfVars
  <2> QED
    BY <1>0, <2>1
<1> QED
  BY <1>0, <1>1, <1>2, <1>3, <1>4, <1>5, <1>6, <1>7 DEF Atomic, SessionStep

\* What a session reads is what it posts.
LEMMA BeginPostCountFacts ==
  ASSUME GoodsInv, NEW s \in Sessions, NEW c \in Counts, BeginPostCount(s, c)
  PROVE  /\ asked'[s].count = c /\ asked'[s].moveHere = elsewhere(c) /\ asked'[s].diff = OffBy(c)
         /\ UNCHANGED <<shelfVars, transfer, count>>
<1>0. asked \in [Sessions -> Questions]
  BY DEF GoodsInv, GoodsTypeOK, FloorTypeOK
<1>1. PICK writeOffMissing \in BOOLEAN :
            asked' = [asked EXCEPT ![s] =
                 [Unasked EXCEPT !.pc = "post", !.count = c, !.moveHere = elsewhere(c),
                                 !.missing = IF writeOffMissing THEN missingFrom(c) ELSE {},
                                 !.diff = IF count[c].weighed = None THEN 0
                                          ELSE count[c].weighed - stock[<<"metal", count[c].place>>].net]]
  BY DEF BeginPostCount
<1> DEFINE missing == IF writeOffMissing THEN missingFrom(c) ELSE {}
           diff == IF count[c].weighed = None THEN 0
                   ELSE count[c].weighed - stock[<<"metal", count[c].place>>].net
           here == elsewhere(c)
           q == [Unasked EXCEPT !.pc = "post", !.count = c, !.moveHere = here, !.missing = missing, !.diff = diff]
<1>2. asked' = [asked EXCEPT ![s] = q]
  BY <1>1
<1>3. diff = OffBy(c) /\ here = elsewhere(c)
  BY DEF OffBy
<1>4. UNCHANGED <<shelfVars, transfer, count>>
  BY DEF BeginPostCount
<1> HIDE DEF missing, diff, here
<1>5. q.count = c /\ q.moveHere = here /\ q.diff = diff
  BY DEF Unasked
<1> HIDE DEF q
<1> QED
  BY <1>0, <1>2, <1>3, <1>4, <1>5

LEMMA CountInvKeeps ==
  ASSUME GoodsInv, CountInv, [Next]_goodsVars
  PROVE  CountInv'
<1>0. \A s \in Sessions : asked[s].pc # "idle" => s \in bound.sessions
  BY DEF GoodsInv, FloorTold
<1>1. ASSUME NEW c \in Clerks, ClerkStep(c), UNCHANGED floorVars
      PROVE  CountInv'
  <2>1. /\ bound' = bound
        /\ c \in bound.clerks \/ errand[c].pc # "idle"
        /\ \A d \in Clerks : d # c => errand'[d] = errand[d]
    BY <1>1, ClerkActs
  <2>2. c \in bound.clerks
    BY <2>1 DEF CountInv, Claimed
  <2>3. Claimed'
    BY <2>1, <2>2 DEF CountInv, Claimed
  <2> QED
    BY <2>1, <2>2, <2>3 DEF CountInv
<1>2. ASSUME NEW s \in Sessions, SessionStep(s), UNCHANGED purchaseVars
      PROVE  CountInv'
  <2>1. /\ bound' = bound /\ s \in bound.sessions
        /\ \A u \in Sessions : u # s => asked'[u] = asked[u]
        /\ asked'[s].pc = "post" => \E c \in Counts : BeginPostCount(s, c)
    BY <1>2, SessionActs
  <2>2. Claimed'
    BY <1>2, <2>1 DEF CountInv, Claimed, purchaseVars
  <2>3. ASSUME Alone', bound'.clerks = {}, NEW u \in Sessions
        PROVE  SetAgainst(u)'
    <3> SUFFICES ASSUME asked'[u].pc = "post"
                 PROVE  SetAgainst(u)'
      BY DEF SetAgainst
    <3>1. u = s
      BY <1>0, <2>1, <2>3 DEF Alone
    <3>2. PICK c \in Counts : BeginPostCount(s, c)
      BY <2>1, <3>1
    <3>3. /\ asked'[s].count = c /\ asked'[s].moveHere = elsewhere(c) /\ asked'[s].diff = OffBy(c)
          /\ piece' = piece /\ stock' = stock /\ count' = count
      BY <3>2, BeginPostCountFacts DEF shelfVars
    <3> QED
      BY <3>1, <3>3 DEF SetAgainst, elsewhere, OffBy
  <2> QED
    BY <2>2, <2>3 DEF CountInv
<1>3. CASE UNCHANGED goodsVars
  BY <1>3 DEF goodsVars, shelfVars, purchaseVars, floorVars, CountInv, Claimed, Alone, SetAgainst, elsewhere, OffBy
<1> QED
  BY <1>1, <1>2, <1>3, Steps

\* Which pieces go where, and what is then in the lot counted.
LEMMA CountPosted ==
  ASSUME GoodsInv, NEW s \in Sessions, postCount(s), SetAgainst(s)
  PROVE  LET c == asked[s].count
             here == count[c].place
         IN
         /\ count[c].weighed # None => stock'[<<"metal", here>>].net = count[c].weighed
         /\ \A p \in elsewhere(c) : InStock(p) => piece'[p].place = here
<1>0. /\ piece \in [Pieces -> PieceRows] /\ stock \in [Rows -> Measures] /\ FloorTold
      /\ asked \in [Sessions -> Questions] /\ count \in [Counts -> CountRows] /\ MetalTold
  BY DEF GoodsInv, GoodsTypeOK, FloorTypeOK
<1> DEFINE q == asked[s]
           c == q.count
           here == count[q.count].place
           moved == {p \in q.moveHere : InStock(p)}
           lost == {p \in q.missing : InStock(p)}
           weight == IF q.diff < 0 THEN -q.diff ELSE q.diff
           metal == IF q.diff = 0 THEN Nothing ELSE lotMovement(here, weight)
           a == IF q.diff > 0 THEN metal ELSE Nothing
           b == IF q.diff < 0 THEN metal ELSE Nothing
           f == PiecesAt(AllAt(moved, here))
           g == PiecesAt(WhereItIs(moved))
           h == PiecesAt(AllAt(lost, here))
           into == With(f, At("metal", here, a))
           out == With(With(g, h), At("metal", here, b))
           r == <<"metal", here>>
<1>1. q.pc = "post"
  BY DEF postCount
<1>2. \/ UNCHANGED <<piece, stock>> /\ moved = {} /\ q.diff = 0
      \/ /\ recordMovements(into, out, FALSE)
         /\ piece' = [p \in Pieces |->
              IF p \in q.moveHere THEN [piece[p] EXCEPT !.place = here]
              ELSE IF p \in q.missing THEN [piece[p] EXCEPT !.status = "written_off"] ELSE piece[p]]
  BY DEF postCount
<1>3. q \in Questions /\ c \in Counts /\ here \in Counters /\ q.diff \in Int
  BY <1>0, <1>1 DEF FloorTold, Questions
<1>4. weight \in Nat
  BY <1>3
<1>5. moved \in SUBSET Pieces /\ lost \in SUBSET Pieces
  BY <1>3 DEF Questions
<1>6. q.moveHere = elsewhere(c) /\ q.diff = OffBy(c)
  BY <1>1 DEF SetAgainst
<1>7. here \in Places /\ r \in Rows
  BY <1>3 DEF Counters, Rows
<1> HIDE DEF moved, lost, weight
<1>8. metal \in Measures /\ (q.diff = 0 \/ metal.net = weight)
  <2>1. CASE q.diff = 0
    <3>1. Nothing \in Measures
      BY DEF Nothing, Measures
    <3> QED
      BY <2>1, <3>1
  <2>2. CASE q.diff # 0
    BY <1>0, <1>3, <1>4, <2>2, LotMovementTyped
  <2> QED
    BY <2>1, <2>2
<1> HIDE DEF metal
<1>9. a \in Measures /\ b \in Measures /\ a.net - b.net = q.diff
  <2>1. Nothing \in Measures /\ Nothing.net = 0
    BY DEF Nothing, Measures
  <2>2. weight = IF q.diff < 0 THEN -q.diff ELSE q.diff
    BY DEF weight
  <2>3. CASE q.diff = 0
    BY <2>1, <2>3
  <2>4. CASE q.diff > 0
    <3>1. a = metal /\ b = Nothing /\ weight = q.diff
      BY <1>3, <2>2, <2>4
    <3> QED
      BY <1>3, <1>8, <2>1, <2>4, <3>1
  <2>5. CASE q.diff < 0
    <3>1. a = Nothing /\ b = metal /\ weight = -q.diff
      BY <1>3, <2>2, <2>5
    <3> QED
      BY <1>3, <1>8, <2>1, <2>5, <3>1
  <2> QED
    BY <1>3, <2>3, <2>4, <2>5
<1>10. /\ f \in [Rows -> Measures] /\ g \in [Rows -> Measures] /\ h \in [Rows -> Measures]
       /\ \A x \in Places : f[<<"metal", x>>] = Nothing /\ g[<<"metal", x>>] = Nothing /\ h[<<"metal", x>>] = Nothing
  BY <1>0, <1>5, PiecesAtPlaces
<1> HIDE DEF a, b, f, g, h
<1>11. With(g, h) \in [Rows -> Measures] /\ \A x \in Places : With(g, h)[<<"metal", x>>] = Nothing
  <2>1. With(g, h) \in [Rows -> Measures] /\ \A z \in Rows : With(g, h)[z] = Plus(g[z], h[z])
    BY <1>10, WithTyped
  <2>2. \A x \in Places : <<"metal", x>> \in Rows
    BY DEF Rows
  <2> QED
    BY <1>10, <2>1, <2>2, MeasureFacts
<1> HIDE DEF here, q
<1>12. into \in [Rows -> Measures] /\ into[r] = a
  <2>1. /\ into \in [Rows -> Measures]
        /\ \A x \in Places : into[<<"metal", x>>] = IF x = here THEN a ELSE Nothing
    BY <1>9, <1>10, MetalOf
  <2> QED
    BY <1>7, <2>1
<1>13. out \in [Rows -> Measures] /\ out[r] = b
  <2> DEFINE k == With(g, h)
  <2>1. k \in [Rows -> Measures] /\ \A x \in Places : k[<<"metal", x>>] = Nothing
    BY <1>11
  <2> HIDE DEF k
  <2>2. /\ With(k, At("metal", here, b)) \in [Rows -> Measures]
        /\ \A x \in Places : With(k, At("metal", here, b))[<<"metal", x>>] = IF x = here THEN b ELSE Nothing
    BY <1>9, <2>1, MetalOf
  <2> QED
    BY <1>7, <2>2 DEF k
<1> HIDE DEF into, out
<1>14. stock'[r].net = stock[r].net + q.diff
  <2>1. CASE UNCHANGED <<piece, stock>> /\ q.diff = 0
    BY <1>0, <1>7, <2>1 DEF Measures
  <2>2. CASE recordMovements(into, out, FALSE)
    <3>1. stock'[r] = Minus(Plus(stock[r], into[r]), out[r])
      BY <1>7, <2>2 DEF recordMovements
    <3> HIDE DEF r
    <3>2. stock'[r].net = (stock[r].net + a.net) - b.net
      <4>1. stock'[r] = Minus(Plus(stock[r], a), b)
        BY <1>12, <1>13, <3>1
      <4> QED
        BY <4>1 DEF Plus, Minus
    <3>3. a.net \in Int /\ b.net \in Int /\ stock[r].net \in Int
      BY <1>0, <1>7, <1>9 DEF Measures
    <3> QED
      BY <1>3, <1>9, <3>2, <3>3
  <2> QED
    BY <1>2, <2>1, <2>2
<1>15. count[c].weighed # None => stock'[r].net = count[c].weighed
  <2>1. count[c].weighed \in Nat \cup {None}
    BY <1>0, <1>3 DEF CountRows
  <2>2. stock[r].net \in Int
    BY <1>0, <1>7 DEF Measures
  <2>3. count[c].weighed # None => q.diff = count[c].weighed - stock[r].net
    BY <1>6 DEF OffBy, here, q
  <2> QED
    BY <1>14, <2>1, <2>2, <2>3
<1>16. \A p \in elsewhere(c) : InStock(p) => piece'[p].place = here
  <2> SUFFICES ASSUME NEW p \in elsewhere(c), InStock(p)
               PROVE  piece'[p].place = here
    OBVIOUS
  <2>1. p \in q.moveHere /\ p \in moved /\ p \in Pieces
    BY <1>5, <1>6 DEF moved, q, elsewhere
  <2>2. piece' = [x \in Pieces |->
              IF x \in q.moveHere THEN [piece[x] EXCEPT !.place = here]
              ELSE IF x \in q.missing THEN [piece[x] EXCEPT !.status = "written_off"] ELSE piece[x]]
    BY <1>2, <2>1
  <2> QED
    BY <1>0, <2>1, <2>2 DEF PieceRows
<1> QED
  BY <1>15, <1>16 DEF here, q

\* A count gets posted only by the session that took it up.
LEMMA PostedBy ==
  ASSUME GoodsInv, [Next]_goodsVars, NEW c \in Counts, count[c].status = "open", count'[c].status = "posted"
  PROVE  \E s \in Sessions : postCount(s) /\ asked[s].count = c
<1>0. /\ count \in [Counts -> CountRows]
  BY DEF GoodsInv, GoodsTypeOK, FloorTypeOK
<1>1. ASSUME UNCHANGED count PROVE FALSE
  BY <1>1
<1>2. PICK s \in Sessions : SessionStep(s)
  BY <1>1, Steps DEF floorVars, goodsVars
<1>3. CASE dispatchTransfer(s)
  <2>1. UNCHANGED <<bound, count, asked>>
    BY <1>3, DispatchIdle
  <2> QED
    BY <1>1, <2>1
<1>4. CASE adjustStock(s) \/ BeginStartCount(s) \/ Abandon(s)
  <2>1. UNCHANGED count
    BY <1>4 DEF adjustStock, BeginStartCount, Abandon, floorVars
  <2> QED
    BY <1>1, <2>1
<1>5. CASE (\E t \in Transfers : land(s, t)) \/ \E k \in Counts : BeginPostCount(s, k)
  <2>1. UNCHANGED count
    BY <1>5 DEF land, BeginPostCount
  <2> QED
    BY <1>1, <2>1
<1>6. CASE \E p \in Pieces : correctPieceWeights(s, p) \/ sellPiece(s, p) \/ undoSale(s, p)
  <2>1. UNCHANGED count
    BY <1>6 DEF correctPieceWeights, sellPiece, undoSale, floorVars
  <2> QED
    BY <1>1, <2>1
<1>7. CASE startCount(s)
  <2>1. PICK k \in Unused(count, bound.counts) :
          count' = [count EXCEPT ![k].status = "open", ![k].place = asked[s].place]
    BY <1>7 DEF startCount
  <2>2. count'[c] = count[c] \/ count'[c].status = "open"
    BY <1>0, <2>1 DEF CountRows
  <2> QED
    BY <2>2
<1>8. ASSUME NEW k \in Counts, scanTags(s, k) \/ weighLot(s, k) \/ removeCountLine(s, k) \/ cancelCount(s, k)
      PROVE  FALSE
  <2>1. CASE cancelCount(s, k)
    BY <1>0, <2>1 DEF cancelCount, CountRows
  <2>2. CASE scanTags(s, k)
    BY <1>0, <2>2 DEF scanTags, CountRows
  <2>3. CASE weighLot(s, k)
    BY <1>0, <2>3 DEF weighLot, CountRows
  <2>4. CASE removeCountLine(s, k)
    BY <1>0, <2>4 DEF removeCountLine, CountRows
  <2> QED
    BY <1>8, <2>1, <2>2, <2>3, <2>4
<1>9. CASE postCount(s)
  <2>1. count' = [count EXCEPT ![asked[s].count].status = "posted"]
    BY <1>9 DEF postCount
  <2>2. c # asked[s].count => count'[c] = count[c]
    BY <1>0, <2>1
  <2> QED
    BY <1>9, <2>2
<1> QED
  BY <1>2, <1>3, <1>4, <1>5, <1>6, <1>7, <1>8, <1>9 DEF SessionStep

\* "Weighed lots are set to what the scale said" (count.service.ts:118-122): however many
\* counts, pieces and places there are, a count that is posted leaves just the metal it
\* weighed, and what was scanned there from elsewhere in the branch is there, when no other
\* request is served between countResult and the movements it leads to.
THEOREM CountSettlesEver == Spec => CountSettles
<1>1. Init => CountInv
  <2> SUFFICES ASSUME Init PROVE CountInv
    OBVIOUS
  <2>1. errand = [c \in Clerks |-> Free] /\ asked = [s \in Sessions |-> Unasked]
    BY DEF Init, PurchasesInit, FloorInit
  <2> QED
    BY <2>1 DEF CountInv, Claimed, SetAgainst, Free, Unasked
<1>2. GoodsInv /\ CountInv /\ [Next]_goodsVars => CountInv'
  BY CountInvKeeps
<1>3. GoodsInv /\ CountInv /\ [Next]_goodsVars =>
        [\A c \in Counts :
           LET here == count[c].place IN
           Alone /\ bound.clerks = {} /\ count[c].status = "open" /\ count'[c].status = "posted" =>
             /\ count[c].weighed # None => stock'[<<"metal", here>>].net = count[c].weighed
             /\ \A p \in Pieces :
                  count[c].line[p] = "elsewhere" /\ InStock(p) /\ BranchOf[piece[p].place] = BranchOf[here]
                    => piece'[p].place = here]_goodsVars
  <2> SUFFICES ASSUME GoodsInv, CountInv, [Next]_goodsVars, NEW c \in Counts,
                      Alone, bound.clerks = {}, count[c].status = "open", count'[c].status = "posted"
               PROVE  /\ count[c].weighed # None => stock'[<<"metal", count[c].place>>].net = count[c].weighed
                      /\ \A p \in Pieces :
                           count[c].line[p] = "elsewhere" /\ InStock(p) /\ BranchOf[piece[p].place] = BranchOf[count[c].place]
                             => piece'[p].place = count[c].place
    OBVIOUS
  <2>1. PICK s \in Sessions : postCount(s) /\ asked[s].count = c
    BY PostedBy
  <2>2. SetAgainst(s)
    BY DEF CountInv
  <2> QED
    BY <2>1, <2>2, CountPosted DEF elsewhere
<1> QED
  BY <1>1, <1>2, <1>3, GoodsInvHolds, PTL DEF Spec, CountSettles

===============================================================================

-------------------------------- MODULE OldGold --------------------------------
(***************************************************************************)
(* modules/oldgold/oldgold.service.ts: taking in customers' old gold,      *)
(* paying for it now or later from the credit it gave, cancelling an       *)
(* intake, and melting it in-house or at a refiner.                        *)
(*                                                                         *)
(* One metal and one location.  Money is in half rupees, so that crediting *)
(* whole rupees rounds.  Requests that look at rows without locking them   *)
(* (a payout and a cancellation at the credit and at the articles, a melt  *)
(* at the intakes) take two steps.  Bills are here only as what they do to *)
(* the customer's credit (2400): modules/sales is modelled in Sales.       *)
(* Identity papers, tags and hold days are left out.                       *)
(***************************************************************************)
EXTENDS Money, FiniteSets, Functions

CONSTANTS
  Desks,                 \* requests served at once
  Shops,                 \* [desks, melts, pays, intakes]: what a behaviour may look at
  Articles,              \* what a customer may bring: weights, purity, loss
  Rates,                 \* rate per gram of each purity that has one
  Valuation,             \* {"fine"}, {"purity"} or both: the shop's setting
  Sums,                  \* what is paid out or spent at once
  CashLimit,             \* cash for old gold per customer and day
  MaxIntakes, MaxBatches \* bounds: documents raised

VARIABLES
  goldShop,    \* what this behaviour looks at: the desks at work, whether they melt and pay
               \* out, and how many intakes there may be
  intake,      \* old_gold_intake with its articles
  batch,       \* melt_batch
  goldStock,   \* stock balance of the old-gold item
  bullion,     \* stock balance of what comes out of a melt
  books,       \* ledger: credit (2400), spent on bills, atRefiner (1220), fine (1210), charges (2000)
  paidInCash,  \* old_gold_payout rows of today paid in cash
  visit        \* the request each desk is in the middle of

\* An article has metal in it, of a purity found, less a loss of at most half (valueLines).
ASSUME OldGoldAssumption ==
  /\ Articles \subseteq [gross : Nat, stone : Nat, dirt : Nat, purity : 1..100, loss : 0..50]
  /\ DOMAIN Rates \subseteq 1..100 /\ DOMAIN Rates # {} /\ \A p \in DOMAIN Rates : Rates[p] \in Nat
  /\ Valuation \subseteq {"fine", "purity"}
  /\ Sums \subseteq Nat /\ CashLimit \in Nat
  /\ MaxIntakes \in Nat /\ MaxBatches \in Nat /\ IsFiniteSet(Desks)
  /\ \A s \in Shops : s.desks \subseteq Desks /\ s.intakes \in 0..MaxIntakes

goldVars == <<goldShop, intake, batch, goldStock, bullion, books, paidInCash, visit>>

Intakes == 1..MaxIntakes
Batches == 1..MaxBatches

Weights == [net : Int, fine : Int, value : Int]
NoWeight == [net |-> 0, fine |-> 0, value |-> 0]
AddUp(weights) ==
  [net |-> SumFunction([x \in DOMAIN weights |-> weights[x].net]),
   fine |-> SumFunction([x \in DOMAIN weights |-> weights[x].fine]),
   value |-> SumFunction([x \in DOMAIN weights |-> weights[x].value])]
More(a, b) == [net |-> a.net + b.net, fine |-> a.fine + b.fine, value |-> a.value + b.value]
Less(a, b) == [net |-> a.net - b.net, fine |-> a.fine - b.fine, value |-> a.value - b.value]

\* An intake has one or two articles; batch is the melt each went into.
IntakeRows == [status : {"none", "posted", "cancelled"}, worth : [1..2 -> Weights], batch : [1..2 -> Nat],
               value : Nat, paid : Nat, onBill : BOOLEAN, applied : Nat]
NoIntake == [status |-> "none", worth |-> [n \in 1..2 |-> NoWeight], batch |-> [n \in 1..2 |-> 0],
             value |-> 0, paid |-> 0, onBill |-> FALSE, applied |-> 0]

BatchRows == [status : {"none", "melted", "sent", "received", "cancelled"}, refine : BOOLEAN, in : Weights,
              out : Weights, charge : Nat]
NoBatch == [status |-> "none", refine |-> FALSE, in |-> NoWeight, out |-> NoWeight, charge |-> 0]

Visits == [pc : {"idle", "payout", "cancel", "melt"}, intake : Nat, amount : Nat, cash : BOOLEAN,
           articles : SUBSET (Intakes \X (1..2))]
NoVisit == [pc |-> "idle", intake |-> 0, amount |-> 0, cash |-> FALSE, articles |-> {}]

GoldTypeOK ==
  /\ intake \in [Intakes -> IntakeRows]
  /\ batch \in [Batches -> BatchRows]
  /\ goldStock \in Weights /\ bullion \in Weights
  /\ books \in [credit : Int, spent : Int, atRefiner : Weights, fine : Int, charges : Nat]
  /\ paidInCash \in Nat
  /\ visit \in [Desks -> Visits]

GoldInit ==
  /\ goldShop \in Shops
  /\ intake = [i \in Intakes |-> NoIntake]
  /\ batch = [b \in Batches |-> NoBatch]
  /\ goldStock = NoWeight /\ bullion = NoWeight
  /\ books = [credit |-> 0, spent |-> 0, atRefiner |-> NoWeight, fine |-> 0, charges |-> 0]
  /\ paidInCash = 0
  /\ visit = [d \in Desks |-> NoVisit]

Ready(d) == d \in goldShop.desks /\ visit[d].pc = "idle"

HasIntake(i) == \E d \in Desks : visit[d].pc \in {"payout", "cancel"} /\ visit[d].intake = i

HasArticle(a) == \E d \in Desks : visit[d].pc = "melt" /\ a \in visit[d].articles

Leave(d) == visit' = [visit EXCEPT ![d] = NoVisit]

NextRow(rows, last) == {i \in 1..last : rows[i].status = "none" /\ \A j \in 1..last : j < i => rows[j].status # "none"}

-------------------------------------------------------------------------------
\* Valuation.

\* The pure rate is the purest purity's, brought up to 100 percent.
pureRate == LET top == CHOOSE p \in DOMAIN Rates : \A q \in DOMAIN Rates : p >= q IN Rounded(Rates[top] * 100, top)

\* The rate of the nearest purity at or below the tested one.
Below(purity) == {p \in DOMAIN Rates : p <= purity}

purityRate(purity) == Rates[CHOOSE p \in Below(purity) : \A q \in Below(purity) : p >= q]

\* Fine weight after the melting loss, at the pure rate; or the net weight less that
\* loss, at the purity's rate.
valueLine(a, basis) ==
  LET net == a.gross - a.stone - a.dirt
      fineBefore == Percent(net, a.purity)
      fine == fineBefore - Percent(fineBefore, a.loss)
  IN [net |-> net, fine |-> fine,
      value |-> IF basis = "fine" THEN fine * pureRate ELSE Percent(net * (100 - a.loss) * purityRate(a.purity), 1)]

CanValue(a, basis) == a.gross - a.stone - a.dirt > 0 /\ (basis = "purity" => Below(a.purity) # {})

\* "The customer is credited whole rupees."
credited(exact) == 2 * Rounded(exact, 2)

-------------------------------------------------------------------------------
\* Intakes.

\* Metal in, value to the customer's credit; a buyback pays it out at once.  Cash only
\* up to the day's limit.
cashAllowed(amount) == CashLimit > 0 /\ paidInCash + amount <= CashLimit

createIntake(d) ==
  \E n \in 1..2, basis \in Valuation, buyback, cash \in BOOLEAN, i \in NextRow(intake, goldShop.intakes) :
  \E lines \in [1..n -> Articles] :
    LET worth == [k \in 1..2 |-> IF k <= n THEN valueLine(lines[k], basis) ELSE NoWeight]
        all == AddUp(worth)
        value == credited(all.value)
        paid == IF buyback THEN value ELSE 0
    IN
    /\ Ready(d)
    /\ \A k \in 1..n : CanValue(lines[k], basis)
    /\ buyback => goldShop.pays
    /\ cash => buyback /\ cashAllowed(value)
    /\ intake' = [intake EXCEPT ![i] = [NoIntake EXCEPT !.status = "posted", !.worth = worth, !.value = value, !.paid = paid]]
    /\ goldStock' = More(goldStock, all)
    /\ books' = [books EXCEPT !.credit = @ + value - paid, !.fine = @ + all.fine]
    /\ paidInCash' = IF cash THEN paidInCash + paid ELSE paidInCash
    /\ UNCHANGED <<goldShop, batch, bullion, visit>>

\* Taken in on a bill, which uses some of the credit at once.
TakeOnBill(d) ==
  \E a \in Articles, basis \in Valuation, i \in NextRow(intake, goldShop.intakes) :
    LET worth == valueLine(a, basis)
        value == credited(worth.value)
    IN
    /\ Ready(d)
    /\ CanValue(a, basis)
    /\ \E applied \in {0, value} :
         /\ applied <= value
         /\ intake' = [intake EXCEPT ![i] = [NoIntake EXCEPT !.status = "posted", !.worth = [@ EXCEPT ![1] = worth],
                        !.value = value, !.onBill = TRUE, !.applied = applied]]
         /\ books' = [books EXCEPT !.credit = @ + value - applied, !.spent = @ + applied, !.fine = @ + worth.fine]
    /\ goldStock' = More(goldStock, worth)
    /\ UNCHANGED <<goldShop, batch, bullion, paidInCash, visit>>

\* Another bill uses credit.
SpendCredit(d) ==
  \E amount \in Sums :
    /\ Ready(d) /\ goldShop.pays
    /\ amount <= books.credit
    /\ books' = [books EXCEPT !.credit = @ - amount, !.spent = @ + amount]
    /\ UNCHANGED <<goldShop, intake, batch, goldStock, bullion, paidInCash, visit>>

\* The intake is locked; the customer's credit and the day's cash are only read.
BeginPayout(d, i) ==
  \E cash \in BOOLEAN, amount \in Sums :
    /\ Ready(d) /\ goldShop.pays /\ ~HasIntake(i)
    /\ intake[i].status = "posted"
    /\ amount > 0 /\ amount <= intake[i].value - intake[i].paid
    /\ amount <= books.credit
    /\ cash => cashAllowed(amount)
    /\ visit' = [visit EXCEPT ![d] = [NoVisit EXCEPT !.pc = "payout", !.intake = i, !.amount = amount, !.cash = cash]]
    /\ UNCHANGED <<goldShop, intake, batch, goldStock, bullion, books, paidInCash>>

payoutIntake(d) ==
  LET v == visit[d] IN
  /\ v.pc = "payout"
  /\ intake' = [intake EXCEPT ![v.intake].paid = @ + v.amount]
  /\ books' = [books EXCEPT !.credit = @ - v.amount]
  /\ paidInCash' = IF v.cash THEN paidInCash + v.amount ELSE paidInCash
  /\ Leave(d)
  /\ UNCHANGED <<goldShop, batch, goldStock, bullion>>

\* "While the metal is not melted, nothing was paid out".
Undoable(i) == /\ intake[i].status = "posted" /\ intake[i].paid = 0
               /\ \A n \in 1..2 : intake[i].batch[n] = 0

\* On its own only while its credit is unspent; with its bill in any case.
BeginCancelIntake(d, i) ==
  /\ Ready(d) /\ ~HasIntake(i)
  /\ Undoable(i)
  /\ ~intake[i].onBill => intake[i].value <= books.credit
  /\ visit' = [visit EXCEPT ![d] = [NoVisit EXCEPT !.pc = "cancel", !.intake = i]]
  /\ UNCHANGED <<goldShop, intake, batch, goldStock, bullion, books, paidInCash>>

Brought(i) == AddUp(intake[i].worth)

\* Refused when that much old gold is not there.  A bill cancelled with it gives back
\* what it had used.
cancelIntake(d) ==
  LET i == visit[d].intake
      left == Less(goldStock, Brought(i))
  IN
  /\ visit[d].pc = "cancel"
  /\ left.net >= 0
  /\ intake' = [intake EXCEPT ![i].status = "cancelled"]
  /\ goldStock' = left
  /\ books' = [books EXCEPT !.credit = @ - intake[i].value + intake[i].applied,
                            !.spent = @ - intake[i].applied, !.fine = @ - Brought(i).fine]
  /\ Leave(d)
  /\ UNCHANGED <<goldShop, batch, bullion, paidInCash>>

-------------------------------------------------------------------------------
\* Melting and refining.

Worth(a) == intake[a[1]].worth[a[2]]

InShop(a) == Worth(a).net > 0 /\ intake[a[1]].batch[a[2]] = 0

\* The articles are locked; their intakes are read with them, unlocked.
BeginMelt(d) ==
  \E set \in SUBSET (Intakes \X (1..2)) :
    /\ Ready(d) /\ goldShop.melts /\ set # {}
    /\ NextRow(batch, MaxBatches) # {}
    /\ \A a \in set : ~HasArticle(a) /\ InShop(a) /\ intake[a[1]].status = "posted"
    /\ visit' = [visit EXCEPT ![d] = [NoVisit EXCEPT !.pc = "melt", !.articles = set]]
    /\ UNCHANGED <<goldShop, intake, batch, goldStock, bullion, books, paidInCash>>

\* What comes out: all of the fine metal or one less, at the value that went in.
Output(in, charge) == {[net |-> f, fine |-> f, value |-> in.value + charge] : f \in {g \in {in.fine, in.fine - 1} : g > 0}}

\* Old gold out; bullion in at once, or the metal is with the refiner (1220).
createMeltBatch(d) ==
  \E refine \in BOOLEAN, b \in NextRow(batch, MaxBatches) :
    LET set == visit[d].articles
        in == AddUp([a \in set |-> Worth(a)])
        left == Less(goldStock, in)
    IN
    /\ visit[d].pc = "melt"
    /\ left.net >= 0
    /\ intake' = [i \in Intakes |-> [intake[i] EXCEPT !.batch = [n \in 1..2 |-> IF <<i, n>> \in set THEN b ELSE @[n]]]]
    /\ goldStock' = left
    /\ \/ /\ refine
          /\ batch' = [batch EXCEPT ![b] = [NoBatch EXCEPT !.status = "sent", !.refine = TRUE, !.in = in]]
          /\ books' = [books EXCEPT !.atRefiner = More(@, in), !.fine = @ - in.fine]
          /\ UNCHANGED bullion
       \/ /\ ~refine
          /\ \E out \in Output(in, 0) :
               /\ batch' = [batch EXCEPT ![b] = [NoBatch EXCEPT !.status = "melted", !.in = in, !.out = out]]
               /\ books' = [books EXCEPT !.fine = @ - in.fine + out.fine]
               /\ bullion' = More(bullion, out)
    /\ Leave(d)
    /\ UNCHANGED <<goldShop, paidInCash>>

\* A batch can be received again.
AtRefiner_Any(b) == batch[b].refine /\ batch[b].status # "none"

AtRefiner(b) == batch[b].refine /\ batch[b].status = "sent"

receiveMeltBatch(d, b) ==
  \E charge \in {0, 1} : \E out \in Output(batch[b].in, charge) :
    /\ Ready(d)
    /\ AtRefiner(b)
    /\ batch' = [batch EXCEPT ![b].status = "received", ![b].out = out, ![b].charge = charge]
    /\ bullion' = More(bullion, out)
    /\ books' = [books EXCEPT !.atRefiner = Less(@, batch[b].in), !.fine = @ + out.fine, !.charges = @ + charge]
    /\ UNCHANGED <<goldShop, intake, goldStock, paidInCash, visit>>

\* "While its bullion is still in stock: the old gold is back, unmelted."  Both vouchers
\* are reversed.
cancelMeltBatch(d, b) ==
  LET row == batch[b]
      left == Less(bullion, row.out)
  IN
  /\ Ready(d)
  /\ row.status \notin {"none", "cancelled"}
  /\ left.net >= 0
  /\ batch' = [batch EXCEPT ![b].status = "cancelled"]
  /\ bullion' = left
  /\ goldStock' = More(goldStock, row.in)
  /\ books' = [books EXCEPT !.atRefiner = IF row.status = "sent" THEN Less(@, row.in) ELSE @,
                            !.fine = @ - row.out.fine + row.in.fine, !.charges = @ - row.charge]
  /\ intake' = [i \in Intakes |-> [intake[i] EXCEPT !.batch = [n \in 1..2 |-> IF @[n] = b THEN 0 ELSE @[n]]]]
  /\ UNCHANGED <<goldShop, paidInCash, visit>>

\* What there is of bullion is sold or settled with.
UseBullion(d) ==
  /\ Ready(d)
  /\ bullion.net > 0
  /\ bullion' = NoWeight
  /\ books' = [books EXCEPT !.fine = @ - bullion.fine]
  /\ UNCHANGED <<goldShop, intake, batch, goldStock, paidInCash, visit>>

\* A request that fails leaves nothing.
LeaveDesk(d) ==
  /\ visit[d].pc # "idle"
  /\ Leave(d)
  /\ UNCHANGED <<goldShop, intake, batch, goldStock, bullion, books, paidInCash>>

GoldNext ==
  \E d \in Desks :
    \/ createIntake(d)
    \/ TakeOnBill(d)
    \/ SpendCredit(d)
    \/ \E i \in Intakes : BeginPayout(d, i)
    \/ payoutIntake(d)
    \/ \E i \in Intakes : BeginCancelIntake(d, i)
    \/ cancelIntake(d)
    \/ BeginMelt(d)
    \/ createMeltBatch(d)
    \/ \E b \in Batches : receiveMeltBatch(d, b)
    \/ \E b \in Batches : cancelMeltBatch(d, b)
    \/ UseBullion(d)
    \/ LeaveDesk(d)

-------------------------------------------------------------------------------
\* What standing intakes brought less what standing batches took is in stock, what batches
\* took to refiners and nobody received or called back is with them, and articles are in
\* a batch as long as it stands.
MetalAccounted ==
  LET standing == {b \in Batches : batch[b].status \notin {"none", "cancelled"}}
      taken(b) == {a \in Intakes \X (1..2) : intake[a[1]].batch[a[2]] = b}
  IN
  /\ goldStock = Less(AddUp([i \in {i \in Intakes : intake[i].status = "posted"} |-> Brought(i)]),
                      AddUp([b \in standing |-> batch[b].in]))
  /\ books.atRefiner = AddUp([b \in {b \in Batches : batch[b].status = "sent"} |-> batch[b].in])
  /\ books.charges = SumFunction([b \in standing |-> batch[b].charge])
  /\ books.fine = goldStock.fine + bullion.fine
  /\ \A b \in Batches : AddUp([a \in taken(b) |-> Worth(a)]) = IF b \in standing THEN batch[b].in ELSE NoWeight

\* What is paid is never more than an intake's value, and nothing on a cancelled one; the
\* credit left and the credit spent on bills are what standing intakes gave and did not
\* pay out.
PaidFromCredit ==
  /\ \A i \in Intakes : intake[i].paid <= intake[i].value /\ (intake[i].status = "cancelled" => intake[i].paid = 0)
  /\ books.credit + books.spent =
       SumFunction([i \in {i \in Intakes : intake[i].status = "posted"} |-> intake[i].value - intake[i].paid])

\* No article of a cancelled intake is melted, the credit is below zero only by what
\* cancelled bills had left of it, and cash keeps to the day's limit.
OneAtATime ==
  /\ \A i \in Intakes, n \in 1..2 : intake[i].status = "cancelled" => intake[i].batch[n] = 0
  /\ books.credit >= -SumFunction([i \in {i \in Intakes : intake[i].status = "cancelled" /\ intake[i].onBill} |->
                                     intake[i].value - intake[i].applied])
  /\ paidInCash <= CashLimit

\* "Undoes an intake entered by mistake: while the metal is not melted, nothing was paid
\* out and the credit is unspent" (oldgold.service.ts:409); a melt or refining takes old
\* gold and brings bullion, "and the old gold is back, unmelted" when it is cancelled
\* (oldgold.service.ts:573).  Metal and money are accounted for whatever the desks do, also
\* where a cancellation and a melt of the same intake both went through, as neither looks
\* at the other's row once it is locked; that the two do not both happen, and that credit
\* is not paid out and spent at once, holds for one desk.
GoldAccounted == MetalAccounted /\ PaidFromCredit /\ (Cardinality(goldShop.desks) = 1 => OneAtATime)
===============================================================================

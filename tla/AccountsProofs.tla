---------------------------- MODULE AccountsProofs ----------------------------
(***************************************************************************)
(* What the money taken from a customer over time, the numbers on documents, *)
(* cached settings, the HUIDs of pieces, GST rates, old gold and the lists   *)
(* of master data keep to, for every instance: for each part, an inductive   *)
(* invariant, that it holds at the start and is kept by every step, and what *)
(* follows from it.  OfficeProofs makes theorems of them.                    *)
(***************************************************************************)
EXTENDS Schemes, Girvi, Orders, NumberSeries, Caches, Tags, GstRates, OldGold, Lists, SumTheorems, SequenceTheorems

-------------------------------------------------------------------------------
\* Saving schemes

PaidOf(rows) == {n \in DOMAIN rows : rows[n].status = "paid"}
AmountsOf(rows) == [n \in DOMAIN rows |-> rows[n].amountPaid]
WeightsOf(rows) == [n \in DOMAIN rows |-> rows[n].weight]

\* Dates go on by a month a row, each in its own month or the one after.
Dated(rows) ==
  \E base \in Int : \A n \in DOMAIN rows : rows[n].due.month \in {base + n, base + n + 1}

\* A row that is due has nothing paid on it; the account's totals are those of its rows.
AccountTold(account, rows) ==
  /\ account \in AccountRows
  /\ rows \in [1..account.dueCount -> Installments]
  /\ account.status = "none" => account.dueCount = 0
  /\ \A n \in DOMAIN rows : rows[n].status = "due" => rows[n].amountPaid = 0 /\ rows[n].weight = 0
  /\ Dated(rows)
  /\ account.paidCount = Cardinality(PaidOf(rows))
  /\ account.totalPaid = SumFunction(AmountsOf(rows)) /\ account.redeemableAmount = account.totalPaid
  /\ account.totalWeight = SumFunction(WeightsOf(rows)) /\ account.redeemableWeight = account.totalWeight

SchemesInv ==
  /\ plan \in Plans
  /\ enrolment = [a \in Accounts |-> enrolment[a]]
  /\ installment = [a \in Accounts |-> installment[a]]
  /\ \A a \in Accounts : AccountTold(enrolment[a], installment[a])

LEMMA SchemesInvTypes == SchemesInv => SchemesTypeOK
<1> SUFFICES ASSUME SchemesInv PROVE SchemesTypeOK
  OBVIOUS
<1>1. \A a \in Accounts : enrolment[a] \in AccountRows /\ installment[a] \in [1..enrolment[a].dueCount -> Installments]
  BY DEF SchemesInv, AccountTold
<1> QED
  BY <1>1 DEF SchemesInv, SchemesTypeOK

\* An account nothing was paid on yet.
LEMMA NothingPaid ==
  ASSUME NEW n \in Nat, NEW rows \in [1..n -> Installments], NEW account \in AccountRows,
         \A i \in 1..n : rows[i].status = "due" /\ rows[i].amountPaid = 0 /\ rows[i].weight = 0,
         Dated(rows),
         account.status = "none" => n = 0,
         account.dueCount = n, account.paidCount = 0, account.totalPaid = 0, account.totalWeight = 0,
         account.redeemableAmount = 0, account.redeemableWeight = 0
  PROVE  AccountTold(account, rows)
<1>1. DOMAIN rows = 1..n /\ IsFiniteSet(1..n)
  BY FS_Interval
<1>2. PaidOf(rows) = {} /\ Cardinality({}) = 0
  BY <1>1, FS_EmptySet DEF PaidOf
<1>3. /\ DOMAIN AmountsOf(rows) = 1..n /\ \A i \in 1..n : AmountsOf(rows)[i] = 0
      /\ DOMAIN WeightsOf(rows) = 1..n /\ \A i \in 1..n : WeightsOf(rows)[i] = 0
  BY <1>1 DEF AmountsOf, WeightsOf
<1>4. SumFunction(AmountsOf(rows)) = 0 /\ SumFunction(WeightsOf(rows)) = 0
  BY <1>1, <1>3, SumOfZeros DEF SumFunction
<1> QED
  BY <1>1, <1>2, <1>4 DEF AccountTold

LEMMA SchemesInitInv == SchemesInit => SchemesInv
<1> SUFFICES ASSUME SchemesInit PROVE SchemesInv
  OBVIOUS
<1>1. /\ NoAccount \in AccountRows /\ NoAccount.dueCount = 0 /\ NoAccount.paidCount = 0 /\ NoAccount.totalPaid = 0
      /\ NoAccount.totalWeight = 0 /\ NoAccount.redeemableAmount = 0 /\ NoAccount.redeemableWeight = 0
  BY DEF NoAccount, AccountRows
<1>2. <<>> \in [1..0 -> Installments] /\ Dated(<<>>)
  BY DEF Dated
<1>3. AccountTold(NoAccount, <<>>)
  <2>1. \A i \in 1..0 : <<>>[i].status = "due" /\ <<>>[i].amountPaid = 0 /\ <<>>[i].weight = 0
    OBVIOUS
  <2>2. 0 \in Nat /\ (NoAccount.status = "none" => 0 = 0)
    OBVIOUS
  <2> QED
    BY <1>1, <1>2, <2>1, <2>2, NothingPaid
<1>4. plan \in Plans
  BY DEF SchemesInit, Plans
<1> QED
  BY <1>3, <1>4 DEF SchemesInit, SchemesInv

\* A new account has its whole schedule due.
LEMMA EnrollStep ==
  ASSUME SchemesInv, enroll
  PROVE  SchemesInv'
<1>0. plan.tenure \in Nat
  BY SchemesAssumption DEF SchemesInv, Plans
<1> DEFINE T == plan.tenure
           row(start, dueDay, amount, n) == [due |-> DueDate(start, n - 1, dueDay), status |-> "due", amountDue |-> amount,
                                             amountPaid |-> 0, weight |-> 0]
           account == [NoAccount EXCEPT !.status = "active", !.dueCount = plan.tenure]
<1>1. PICK a \in Accounts : \E start \in EnrolDates, dueDay \in DueDays, amount \in SchemeAmounts :
        /\ enrolment[a].status = "none" /\ \A b \in 1..(a - 1) : enrolment[b].status # "none"
        /\ enrolment' = [enrolment EXCEPT ![a] = [NoAccount EXCEPT !.status = "active", !.dueCount = plan.tenure]]
        /\ installment' = [installment EXCEPT ![a] =
             [n \in 1..plan.tenure |-> [due |-> DueDate(start, n - 1, dueDay), status |-> "due", amountDue |-> amount,
                                        amountPaid |-> 0, weight |-> 0]]]
  BY Zenon DEF enroll
<1>2. PICK start \in EnrolDates, dueDay \in DueDays, amount \in SchemeAmounts :
        /\ enrolment[a].status = "none" /\ \A b \in 1..(a - 1) : enrolment[b].status # "none"
        /\ enrolment' = [enrolment EXCEPT ![a] = [NoAccount EXCEPT !.status = "active", !.dueCount = plan.tenure]]
        /\ installment' = [installment EXCEPT ![a] =
             [n \in 1..plan.tenure |-> [due |-> DueDate(start, n - 1, dueDay), status |-> "due", amountDue |-> amount,
                                        amountPaid |-> 0, weight |-> 0]]]
  BY <1>1, Zenon
<1>3. UNCHANGED plan
  BY DEF enroll
<1> DEFINE rows == [n \in 1..T |-> row(start, dueDay, amount, n)]
<1>4. /\ account \in AccountRows /\ account.status = "active" /\ account.dueCount = T /\ account.paidCount = 0
      /\ account.totalPaid = 0 /\ account.totalWeight = 0 /\ account.redeemableAmount = 0 /\ account.redeemableWeight = 0
  BY <1>0 DEF NoAccount, AccountRows
<1>5. ASSUME NEW n \in 1..T
      PROVE  /\ DueDate(start, n - 1, dueDay) \in [month : Nat, day : Nat]
             /\ DueDate(start, n - 1, dueDay).month \in {start.month - 1 + n, start.month - 1 + n + 1}
  <2>1. start.month \in Nat /\ dueDay \in Nat /\ n - 1 \in Nat
    BY <1>0, SchemesAssumption
  <2> QED
    BY <2>1 DEF DueDate
<1>6. rows \in [1..T -> Installments]
  BY <1>5, SchemesAssumption DEF Installments
<1>7. \A i \in 1..T : rows[i].status = "due" /\ rows[i].amountPaid = 0 /\ rows[i].weight = 0
  OBVIOUS
<1>8. Dated(rows)
  <2>1. start.month - 1 \in Int
    BY SchemesAssumption
  <2>2. ASSUME NEW n \in 1..T PROVE rows[n].due.month \in {start.month - 1 + n, start.month - 1 + n + 1}
    <3>1. rows[n].due = DueDate(start, n - 1, dueDay)
      OBVIOUS
    <3> HIDE DEF rows
    <3> QED
      BY <1>5, <3>1
  <2>3. DOMAIN rows = 1..T
    OBVIOUS
  <2> HIDE DEF rows
  <2> QED
    BY <2>1, <2>2, <2>3 DEF Dated
<1> HIDE DEF account, rows
<1>9. AccountTold(account, rows)
  BY <1>0, <1>4, <1>6, <1>7, <1>8, NothingPaid
<1>10. enrolment' = [enrolment EXCEPT ![a] = account] /\ installment' = [installment EXCEPT ![a] = rows]
  BY <1>2, Zenon DEF account, rows
<1> QED
  BY <1>3, <1>9, <1>10 DEF SchemesInv

\* One row more is paid, and the totals go up by what was paid on it.
LEMMA RowCollected ==
  ASSUME NEW account, NEW rows, AccountTold(account, rows), NEW n \in DOMAIN rows, rows[n].status # "paid",
         NEW amount \in Nat, NEW w \in Nat,
         NEW paid, paid = [rows[n] EXCEPT !.status = "paid", !.amountPaid = amount, !.weight = w],
         NEW after, after = [account EXCEPT !.paidCount = @ + 1, !.totalPaid = @ + amount, !.totalWeight = @ + w,
                                            !.redeemableAmount = @ + amount, !.redeemableWeight = @ + w]
  PROVE  AccountTold(after, [rows EXCEPT ![n] = paid])
<1> DEFINE R == 1..account.dueCount
           now == [rows EXCEPT ![n] = paid]
<1>1. account \in AccountRows /\ rows \in [R -> Installments] /\ account.dueCount \in Nat /\ IsFiniteSet(R) /\ n \in R
  <2>1. account \in AccountRows /\ rows \in [R -> Installments]
    BY DEF AccountTold
  <2>2. account.dueCount \in Nat
    BY <2>1 DEF AccountRows
  <2>3. IsFiniteSet(R)
    <3>1. 1 \in Int /\ account.dueCount \in Int
      BY <2>2
    <3> QED
      BY <3>1, FS_Interval
  <2> QED
    BY <2>1, <2>2, <2>3
<1>2. paid \in Installments /\ paid.due = rows[n].due /\ paid.status = "paid" /\ paid.amountPaid = amount /\ paid.weight = w
  <2>1. rows[n] \in Installments
    BY <1>1
  <2> QED
    BY <2>1 DEF Installments
<1>3. /\ after \in AccountRows
      /\ after.dueCount = account.dueCount /\ after.status = account.status
      /\ after.paidCount = account.paidCount + 1 /\ after.totalPaid = account.totalPaid + amount
      /\ after.totalWeight = account.totalWeight + w
      /\ after.redeemableAmount = account.redeemableAmount + amount /\ after.redeemableWeight = account.redeemableWeight + w
  <2>1. account \in AccountRows
    BY <1>1
  <2> HIDE DEF now
  <2>2. after = [status |-> account.status, paidCount |-> account.paidCount + 1, dueCount |-> account.dueCount,
                 totalPaid |-> account.totalPaid + amount, totalWeight |-> account.totalWeight + w,
                 redeemableAmount |-> account.redeemableAmount + amount, redeemableWeight |-> account.redeemableWeight + w]
    BY <2>1 DEF AccountRows
  <2>3. /\ account.status \in {"none", "active"} /\ account.dueCount \in Nat
        /\ account.paidCount + 1 \in Nat /\ account.totalPaid + amount \in Nat /\ account.totalWeight + w \in Nat
        /\ account.redeemableAmount + amount \in Nat /\ account.redeemableWeight + w \in Nat
    BY <2>1 DEF AccountRows
  <2> QED
    BY <2>2, <2>3 DEF AccountRows
<1>4. rows[n].status = "due" /\ rows[n].amountPaid = 0 /\ rows[n].weight = 0
  BY <1>1 DEF AccountTold, Installments
<1>5. /\ now \in [R -> Installments] /\ now[n] = paid /\ \A m \in R : m # n => now[m] = rows[m]
  BY <1>1, <1>2
<1> HIDE DEF now
<1>6. Cardinality(PaidOf(now)) = Cardinality(PaidOf(rows)) + 1
  <2>1. PaidOf(now) = PaidOf(rows) \cup {n} /\ n \notin PaidOf(rows) /\ PaidOf(rows) \in SUBSET R
    <3>1. DOMAIN now = R /\ DOMAIN rows = R /\ n \in R
      BY <1>1, <1>5
    <3>2. \A m \in R : now[m].status = "paid" <=> (rows[m].status = "paid" \/ m = n)
      BY <1>2, <1>5
    <3> HIDE DEF R
    <3> QED
      BY <1>4, <3>1, <3>2 DEF PaidOf
  <2>2. IsFiniteSet(PaidOf(rows))
    BY <1>1, <2>1, FS_Subset
  <2> QED
    BY <2>1, <2>2, FS_AddElement
<1>7. \A m \in R : /\ rows[m].amountPaid \in Int /\ now[m].amountPaid \in Int /\ rows[m].weight \in Int /\ now[m].weight \in Int
  <2>1. \A r \in Installments : r.amountPaid \in Int /\ r.weight \in Int
    BY DEF Installments
  <2>2. \A m \in R : rows[m] \in Installments /\ now[m] \in Installments
    BY <1>1, <1>5
  <2> QED
    BY <2>1, <2>2
<1>8. SumFunction(AmountsOf(now)) = SumFunction(AmountsOf(rows)) + amount
  <2> DEFINE f == AmountsOf(rows)
             e == AmountsOf(now)
  <2>1. /\ DOMAIN e = R /\ DOMAIN f = R
        /\ \A m \in R : e[m] = now[m].amountPaid /\ f[m] = rows[m].amountPaid
    BY <1>1, <1>5 DEF AmountsOf
  <2> HIDE DEF f, e, R
  <2>2. \A m \in R : f[m] \in Int /\ e[m] \in Int
    BY <1>7, <2>1
  <2>3. \A m \in R \ {n} : e[m] = f[m]
    BY <1>5, <2>1
  <2>4. f[n] = 0 /\ e[n] = amount
    BY <1>1, <1>2, <1>4, <1>5, <2>1
  <2>5. SumFunction(e) = SumFunction(f) + e[n]
    BY <1>1, <2>1, <2>2, <2>3, <2>4, SumGrows
  <2> QED
    BY <2>4, <2>5 DEF f, e
<1>9. SumFunction(WeightsOf(now)) = SumFunction(WeightsOf(rows)) + w
  <2> DEFINE f == WeightsOf(rows)
             e == WeightsOf(now)
  <2>1. /\ DOMAIN e = R /\ DOMAIN f = R
        /\ \A m \in R : e[m] = now[m].weight /\ f[m] = rows[m].weight
    BY <1>1, <1>5 DEF WeightsOf
  <2> HIDE DEF f, e, R
  <2>2. \A m \in R : f[m] \in Int /\ e[m] \in Int
    BY <1>7, <2>1
  <2>3. \A m \in R \ {n} : e[m] = f[m]
    BY <1>5, <2>1
  <2>4. f[n] = 0 /\ e[n] = w
    BY <1>1, <1>2, <1>4, <1>5, <2>1
  <2>5. SumFunction(e) = SumFunction(f) + e[n]
    BY <1>1, <2>1, <2>2, <2>3, <2>4, SumGrows
  <2> QED
    BY <2>4, <2>5 DEF f, e
<1>10. Dated(now)
  <2>1. \A m \in R : now[m].due = rows[m].due
    BY <1>2, <1>5
  <2>2. DOMAIN now = R /\ DOMAIN rows = R
    BY <1>1, <1>5
  <2> QED
    BY <2>1, <2>2 DEF AccountTold, Dated
<1>11. \A m \in R : now[m].status = "due" => now[m].amountPaid = 0 /\ now[m].weight = 0
  BY <1>1, <1>2, <1>5 DEF AccountTold
<1>12. AccountTold(after, now)
  BY <1>3, <1>5, <1>6, <1>8, <1>9, <1>10, <1>11 DEF AccountTold
<1> QED
  BY <1>12 DEF now

LEMMA CollectStep ==
  ASSUME SchemesInv, NEW a \in Accounts, collect(a)
  PROVE  SchemesInv'
<1> DEFINE acc == enrolment[a]
           paid(n, amount, w) == [installment[a][n] EXCEPT !.status = "paid", !.amountPaid = amount, !.weight = w]
           after(amount, w) == [acc EXCEPT !.paidCount = @ + 1, !.totalPaid = @ + amount, !.totalWeight = @ + w,
                                           !.redeemableAmount = @ + amount, !.redeemableWeight = @ + w]
<1>1. PICK n \in DOMAIN installment[a], amount \in SchemeAmounts, rate \in GramRates :
        /\ Collectable(installment[a][n])
        /\ installment' = [installment EXCEPT ![a][n] = [@ EXCEPT !.status = "paid", !.amountPaid = amount,
                                                                  !.weight = Grams(amount, rate)]]
        /\ enrolment' = [enrolment EXCEPT ![a] = [enrolment[a] EXCEPT !.paidCount = @ + 1,
                         !.totalPaid = @ + amount, !.totalWeight = @ + Grams(amount, rate),
                         !.redeemableAmount = @ + amount, !.redeemableWeight = @ + Grams(amount, rate)]]
        /\ UNCHANGED plan
  BY Zenon DEF collect
<1> DEFINE w == Grams(amount, rate)
<1>2. amount \in Nat /\ w \in Nat
  BY SchemesAssumption DEF Grams
<1>4. installment' = [installment EXCEPT ![a] = [installment[a] EXCEPT ![n] = paid(n, amount, w)]]
  BY <1>1
<1>5. enrolment' = [enrolment EXCEPT ![a] = after(amount, w)]
  BY <1>1, Zenon
<1> HIDE DEF w
<1>3. AccountTold(after(amount, w), [installment[a] EXCEPT ![n] = paid(n, amount, w)])
  <2>1. AccountTold(acc, installment[a]) /\ installment[a][n].status # "paid"
    BY <1>1 DEF SchemesInv, Collectable
  <2> HIDE DEF acc
  <2> QED
    BY <1>2, <2>1, RowCollected
<1> HIDE DEF after, paid
<1> QED
  BY <1>1, <1>3, <1>4, <1>5 DEF SchemesInv

LEMMA SchemesNextInv == SchemesInv /\ [SchemesNext]_schemeVars => SchemesInv'
<1> SUFFICES ASSUME SchemesInv, [SchemesNext]_schemeVars PROVE SchemesInv'
  OBVIOUS
<1>1. ASSUME UNCHANGED <<enrolment, installment>>, plan' \in Plans PROVE SchemesInv'
  BY <1>1 DEF SchemesInv
<1>2. CASE createPlan
  <2>1. plan' \in Plans
    BY <1>2 DEF createPlan, SchemesInv, Plans
  <2> QED
    BY <1>1, <1>2, <2>1 DEF createPlan
<1>3. CASE deletePlan
  <2>1. plan' \in Plans
    BY <1>3 DEF deletePlan, SchemesInv, Plans
  <2> QED
    BY <1>1, <1>3, <2>1 DEF deletePlan
<1>4. CASE enroll
  BY <1>4, EnrollStep
<1>5. ASSUME NEW a \in Accounts, collect(a) PROVE SchemesInv'
  BY <1>5, CollectStep
<1>6. CASE UNCHANGED schemeVars
  BY <1>1, <1>6 DEF schemeVars, SchemesInv
<1> QED
  BY <1>2, <1>3, <1>4, <1>5, <1>6 DEF SchemesNext

LEMMA SchemesInvTell == SchemesInv => SchemesTell
<1> SUFFICES ASSUME SchemesInv, NEW a \in Accounts
             PROVE  LET rows == DOMAIN installment[a]
                        paid == {n \in rows : installment[a][n].status = "paid"}
                        month(n) == installment[a][n].due.month
                    IN
                    /\ enrolment[a].paidCount = Cardinality(paid)
                    /\ enrolment[a].totalPaid = SumFunction([n \in rows |-> installment[a][n].amountPaid])
                    /\ enrolment[a].totalWeight = SumFunction([n \in rows |-> installment[a][n].weight])
                    /\ enrolment[a].redeemableAmount = enrolment[a].totalPaid /\ enrolment[a].redeemableWeight = enrolment[a].totalWeight
                    /\ \A n \in rows :
                         /\ n > 1 => month(n - 1) <= month(n)
                         /\ Cardinality({k \in rows : month(k) = month(n)}) <= 2
                         /\ (\A k \in rows : month(k) <= month(n)) => dueList(a, month(n)) \cup paid = rows
  BY DEF SchemesTell
<1> DEFINE R == 1..enrolment[a].dueCount
           rows == installment[a]
           month(n) == rows[n].due.month
<1>1. /\ AccountTold(enrolment[a], rows) /\ rows \in [R -> Installments] /\ enrolment[a] \in AccountRows
      /\ enrolment[a].dueCount \in Nat
  <2>1. AccountTold(enrolment[a], rows)
    BY DEF SchemesInv
  <2> QED
    BY <2>1 DEF AccountTold, AccountRows
<1>2. DOMAIN rows = R
  BY <1>1
<1>3. PICK base \in Int : \A n \in R : month(n) \in {base + n, base + n + 1}
  BY <1>1, <1>2 DEF AccountTold, Dated
<1>4. ASSUME NEW n \in R
      PROVE  /\ n > 1 => month(n - 1) <= month(n)
             /\ Cardinality({k \in R : month(k) = month(n)}) <= 2
             /\ (\A k \in R : month(k) <= month(n)) => dueList(a, month(n)) \cup PaidOf(rows) = R
  <2>1. n > 1 => month(n - 1) <= month(n)
    <3>1. n > 1 => n - 1 \in R
      BY <1>1
    <3> HIDE DEF month
    <3> QED
      BY <1>1, <1>3, <3>1
  <2>2. Cardinality({k \in R : month(k) = month(n)}) <= 2
    <3> DEFINE x == month(n) - base
    <3>1. {k \in R : month(k) = month(n)} \subseteq {x, x - 1}
      <4>1. x \in Int
        BY <1>3
      <4>2. ASSUME NEW k \in R, month(k) = month(n) PROVE k \in {x, x - 1}
        <5> HIDE DEF month
        <5> QED
          BY <1>1, <1>3, <4>2
      <4> QED
        BY <4>2
    <3>2. IsFiniteSet({x, x - 1}) /\ Cardinality({x, x - 1}) <= 2
      BY PairCounted
    <3> QED
      <4>1. Cardinality({k \in R : month(k) = month(n)}) <= Cardinality({x, x - 1})
        BY <3>1, <3>2, FS_Subset
      <4>2. Cardinality({k \in R : month(k) = month(n)}) \in Nat /\ Cardinality({x, x - 1}) \in Nat
        BY <3>1, <3>2, FS_Subset, FS_CardinalityType
      <4> QED
        BY <3>2, <4>1, <4>2
  <2>3. ASSUME \A k \in R : month(k) <= month(n) PROVE dueList(a, month(n)) \cup PaidOf(rows) = R
    <3>1. enrolment[a].status = "active"
      BY <1>1 DEF AccountTold, AccountRows
    <3>2. \A k \in R : rows[k].status \in {"due", "paid"}
      BY <1>1 DEF Installments
    <3> QED
      BY <1>2, <2>3, <3>1, <3>2 DEF dueList, PaidOf
  <2> QED
    BY <2>1, <2>2, <2>3
<1>5. /\ enrolment[a].paidCount = Cardinality(PaidOf(rows))
      /\ enrolment[a].totalPaid = SumFunction(AmountsOf(rows)) /\ enrolment[a].redeemableAmount = enrolment[a].totalPaid
      /\ enrolment[a].totalWeight = SumFunction(WeightsOf(rows)) /\ enrolment[a].redeemableWeight = enrolment[a].totalWeight
  BY <1>1 DEF AccountTold
<1> QED
  BY <1>2, <1>4, <1>5 DEF PaidOf, AmountsOf, WeightsOf

-------------------------------------------------------------------------------
\* Loans against gold

PrincipalsOf(rows) == [k \in DOMAIN rows |-> rows[k].principal]
InterestOf(rows) == [k \in DOMAIN rows |-> rows[k].interest]

\* A loan is what its receipts make of it: interest is never taken beyond what accrued, so
\* that money goes to the principal only where all of it is paid, and a redeemed loan owes
\* nothing.
LoanTold(row, rows) ==
  /\ row \in LoanRows /\ rows \in Seq(Receipts)
  /\ row.principal <= row.eligible
  /\ row.outstanding = row.principal - row.principalRepaid
  /\ row.principalRepaid = SumFunctionOnSet(PrincipalsOf(rows), 1..Len(rows))
  /\ row.interestPaid = SumFunctionOnSet(InterestOf(rows), 1..Len(rows)) /\ row.interestPaid <= row.accrued
  /\ \A n \in 1..Len(rows) :
       /\ rows[n].after = row.principal - SumFunctionOnSet(PrincipalsOf(rows), 1..n)
       /\ rows[n].principal > 0 => SumFunctionOnSet(InterestOf(rows), 1..n) = row.accrued
  /\ row.redeemed <=> row.status = "redeemed"
  /\ row.status = "redeemed" => row.outstanding <= 0

\* A cashier in a repayment holds the loan's row, so what was read of it still stands.
TakingTold ==
  /\ taking \in [Cashiers -> Takings]
  /\ \A c \in Cashiers : taking[c].loan = 0 => taking[c] = NotTaking
  /\ \A c \in Cashiers : taking[c].loan # 0 => taking[c].seen = loan[taking[c].loan] /\ loan[taking[c].loan].status # "none"
  /\ \A c, d \in Cashiers : taking[c].loan = taking[d].loan /\ taking[c].loan # 0 => c = d

GirviInv ==
  /\ loan = [l \in Loans |-> loan[l]]
  /\ receipts = [l \in Loans |-> receipts[l]]
  /\ \A l \in Loans : LoanTold(loan[l], receipts[l]) /\ (loan[l].status = "none" => receipts[l] = <<>>)
  /\ TakingTold

LEMMA GirviInvTypes == GirviInv => GirviTypeOK
<1> SUFFICES ASSUME GirviInv PROVE GirviTypeOK
  OBVIOUS
<1>1. \A l \in Loans : loan[l] \in LoanRows /\ receipts[l] \in Seq(Receipts)
  BY DEF GirviInv, LoanTold
<1> QED
  BY <1>1 DEF GirviInv, GirviTypeOK, TakingTold

\* A loan nothing was repaid on yet.
LEMMA NothingRepaid ==
  ASSUME NEW row \in LoanRows, row.principal <= row.eligible, row.outstanding = row.principal,
         row.principalRepaid = 0, row.interestPaid = 0, row.status # "redeemed", ~row.redeemed
  PROVE  LoanTold(row, <<>>)
<1>1. 1..0 = {} /\ Len(<<>>) = 0 /\ <<>> \in Seq(Receipts)
  OBVIOUS
<1>2. SumFunctionOnSet(PrincipalsOf(<<>>), 1..0) = 0 /\ SumFunctionOnSet(InterestOf(<<>>), 1..0) = 0
  BY <1>1, SumOfNone
<1>3. row.principal \in Nat /\ row.accrued \in Nat
  BY DEF LoanRows
<1> QED
  BY <1>1, <1>2, <1>3 DEF LoanTold

LEMMA GirviInitInv == GirviInit => GirviInv
<1> SUFFICES ASSUME GirviInit PROVE GirviInv
  OBVIOUS
<1>1. NoLoan \in LoanRows
  BY DEF NoLoan, LoanRows
<1>2. LoanTold(NoLoan, <<>>)
  <2>1. /\ NoLoan.principal <= NoLoan.eligible /\ NoLoan.outstanding = NoLoan.principal /\ NoLoan.principalRepaid = 0
        /\ NoLoan.interestPaid = 0 /\ NoLoan.status # "redeemed" /\ ~NoLoan.redeemed
    BY DEF NoLoan
  <2> QED
    BY <1>1, <2>1, NothingRepaid
<1>3. TakingTold
  BY <1>1 DEF GirviInit, TakingTold, NotTaking, Takings
<1> QED
  BY <1>2, <1>3 DEF GirviInit, GirviInv

LEMMA SanctionStep ==
  ASSUME GirviInv, sanctionLoan
  PROVE  GirviInv'
<1>1. PICK l \in Loans : \E collateral \in Collaterals, ltv \in LtvPercents, principal \in Principals :
        /\ loan[l].status = "none" /\ \A k \in 1..(l - 1) : loan[k].status # "none"
        /\ ltv > 0 /\ ltv <= 90
        /\ principal <= maxEligible(collateral, ltv)
        /\ loan' = [loan EXCEPT ![l] = [NoLoan EXCEPT !.status = "sanctioned", !.eligible = maxEligible(collateral, ltv),
                                                      !.principal = principal, !.outstanding = principal]]
        /\ UNCHANGED <<receipts, taking>>
  BY Zenon DEF sanctionLoan
<1>2. PICK collateral \in Collaterals, ltv \in LtvPercents, principal \in Principals :
        /\ loan[l].status = "none" /\ \A k \in 1..(l - 1) : loan[k].status # "none"
        /\ ltv > 0 /\ ltv <= 90
        /\ principal <= maxEligible(collateral, ltv)
        /\ loan' = [loan EXCEPT ![l] = [NoLoan EXCEPT !.status = "sanctioned", !.eligible = maxEligible(collateral, ltv),
                                                      !.principal = principal, !.outstanding = principal]]
        /\ UNCHANGED <<receipts, taking>>
  BY <1>1, Zenon
<1> DEFINE e == maxEligible(collateral, ltv)
           row == [NoLoan EXCEPT !.status = "sanctioned", !.eligible = e, !.principal = principal, !.outstanding = principal]
<1>3. e \in Nat /\ principal \in Nat /\ principal <= e
  <2>1. /\ collateral.gross - collateral.stone \in Int /\ collateral.purity \in Nat /\ collateral.rate \in Nat
        /\ ltv \in Nat /\ principal \in Nat
    BY GirviAssumption DEF CollateralRows
  <2>2. \A a, b \in Int : a * b \in Int
    OBVIOUS
  <2>3. \A a \in Int : Rounded(a, 100) \in Int
    <3>1. 100 # 0 /\ \A a \in Int : (2 * a + 100) \div (2 * 100) \in Int /\ -((100 - 2 * a) \div (2 * 100)) \in Int
      OBVIOUS
    <3> QED
      BY <3>1 DEF Rounded
  <2>4. \A a, p \in Int : Percent(a, p) \in Int
    BY <2>2, <2>3 DEF Percent
  <2>5. Appraised(collateral) \in Int
    <3> DEFINE net == collateral.gross - collateral.stone
               p == Percent(net, collateral.purity)
    <3>1. p \in Int
      <4>1. net \in Int /\ collateral.purity \in Int
        BY <2>1
      <4> HIDE DEF net
      <4> QED
        BY <2>4, <4>1
    <3>2. Appraised(collateral) = p * collateral.rate
      BY DEF Appraised
    <3> HIDE DEF p
    <3> QED
      BY <2>1, <2>2, <3>1, <3>2
  <2>6. e \in Int
    BY <2>1, <2>4, <2>5 DEF maxEligible
  <2> QED
    BY <1>2, <2>1, <2>6
<1>4. loan' = [loan EXCEPT ![l] = row] /\ UNCHANGED <<receipts, taking>>
  BY <1>2, Zenon
<1> HIDE DEF e
<1>5. /\ row \in LoanRows /\ row.principal <= row.eligible /\ row.outstanding = row.principal
      /\ row.principalRepaid = 0 /\ row.interestPaid = 0 /\ row.status = "sanctioned" /\ ~row.redeemed
  <2>1. NoLoan \in LoanRows
    BY DEF NoLoan, LoanRows
  <2>2. /\ row.principal = principal /\ row.eligible = e /\ row.outstanding = principal /\ row.status = "sanctioned"
        /\ row.principalRepaid = NoLoan.principalRepaid /\ row.interestPaid = NoLoan.interestPaid
        /\ row.redeemed = NoLoan.redeemed
    BY <2>1 DEF LoanRows
  <2>3. NoLoan.principalRepaid = 0 /\ NoLoan.interestPaid = 0 /\ ~NoLoan.redeemed
    BY DEF NoLoan
  <2>4. row \in LoanRows
    <3> DEFINE r == [NoLoan EXCEPT !.status = "sanctioned", !.eligible = e]
    <3>1. r \in LoanRows
      BY <1>3, <2>1 DEF LoanRows
    <3>2. row = [r EXCEPT !.principal = principal, !.outstanding = principal]
      BY <2>1 DEF LoanRows
    <3> HIDE DEF r, row
    <3>3. row = [status |-> r.status, eligible |-> r.eligible, principal |-> principal, accrued |-> r.accrued,
                 interestPaid |-> r.interestPaid, principalRepaid |-> r.principalRepaid, outstanding |-> principal,
                 redeemed |-> r.redeemed]
      BY <3>1, <3>2 DEF LoanRows
    <3> QED
      BY <1>3, <3>1, <3>3 DEF LoanRows
  <2> HIDE DEF row
  <2> QED
    BY <1>3, <2>2, <2>3, <2>4
<1> HIDE DEF row
<1>6. LoanTold(row, <<>>)
  BY <1>5, NothingRepaid
<1>7. receipts[l] = <<>>
  BY <1>2 DEF GirviInv
<1>8. \A k \in Loans : LoanTold(loan'[k], receipts'[k]) /\ (loan'[k].status = "none" => receipts'[k] = <<>>)
  BY <1>4, <1>5, <1>6, <1>7 DEF GirviInv
<1>9. TakingTold'
  <2>1. \A c \in Cashiers : taking[c].loan # 0 => taking[c].loan # l
    BY <1>2 DEF GirviInv, TakingTold
  <2>2. \A c \in Cashiers : taking[c].loan # 0 => taking[c].loan \in Loans
    BY DEF GirviInv, TakingTold, Takings
  <2> QED
    BY <1>4, <2>1, <2>2 DEF GirviInv, TakingTold
<1> QED
  BY <1>4, <1>8, <1>9 DEF GirviInv

\* The receipt of a repayment, and the loan after it.
InterestPart(row, amount, penalty) == toInterest(row, amount - penalty)
PrincipalPart(row, amount, penalty) == amount - penalty - InterestPart(row, amount, penalty)
LeftAfter(row, amount, penalty) == row.outstanding - PrincipalPart(row, amount, penalty)

ReceiptFor(row, amount, penalty) ==
  [amount |-> amount, interest |-> InterestPart(row, amount, penalty), principal |-> PrincipalPart(row, amount, penalty),
   penalty |-> penalty, after |-> LeftAfter(row, amount, penalty)]

RowAfter(row, amount, penalty) ==
  [row EXCEPT !.interestPaid = @ + InterestPart(row, amount, penalty), !.principalRepaid = @ + PrincipalPart(row, amount, penalty),
              !.outstanding = LeftAfter(row, amount, penalty),
              !.status = IF LeftAfter(row, amount, penalty) <= 0 THEN "redeemed" ELSE "active",
              !.redeemed = (@ \/ LeftAfter(row, amount, penalty) <= 0)]

LEMMA RepaymentTold ==
  ASSUME NEW row, NEW rows, LoanTold(row, rows), NEW amount \in Nat, NEW penalty \in Nat
  PROVE  /\ LoanTold(RowAfter(row, amount, penalty), Append(rows, ReceiptFor(row, amount, penalty)))
         /\ RowAfter(row, amount, penalty).status # "none"
<1> DEFINE interest == InterestPart(row, amount, penalty)
           principal == PrincipalPart(row, amount, penalty)
           left == LeftAfter(row, amount, penalty)
           receipt == ReceiptFor(row, amount, penalty)
           after == RowAfter(row, amount, penalty)
<1>a. /\ interest = toInterest(row, amount - penalty) /\ principal = amount - penalty - interest
      /\ left = row.outstanding - principal
  BY DEF InterestPart, PrincipalPart, LeftAfter
<1>b. receipt = [amount |-> amount, interest |-> interest, principal |-> principal, penalty |-> penalty, after |-> left]
  BY DEF ReceiptFor
<1>c. after = [row EXCEPT !.interestPaid = @ + interest, !.principalRepaid = @ + principal,
                 !.outstanding = left, !.status = IF left <= 0 THEN "redeemed" ELSE "active",
                 !.redeemed = (@ \/ left <= 0)]
  BY DEF RowAfter
<1> SUFFICES LoanTold(after, Append(rows, receipt)) /\ after.status # "none"
  OBVIOUS
<1> HIDE DEF interest, principal, left, receipt, after
<1>1. /\ row \in LoanRows /\ rows \in Seq(Receipts) /\ row.principal \in Nat /\ row.eligible \in Nat /\ row.accrued \in Nat
      /\ row.interestPaid \in Int /\ row.principalRepaid \in Nat /\ row.outstanding \in Int /\ row.redeemed \in BOOLEAN
  BY DEF LoanTold, LoanRows
<1>2. interest \in Int /\ principal \in Nat /\ left \in Int /\ interest <= row.accrued - row.interestPaid
      /\ (principal > 0 => interest = row.accrued - row.interestPaid)
  BY <1>1, <1>a, SMTT(30) DEF toInterest, AtMost, LoanTold
<1>3. after = [status |-> IF left <= 0 THEN "redeemed" ELSE "active", eligible |-> row.eligible, principal |-> row.principal,
               accrued |-> row.accrued, interestPaid |-> row.interestPaid + interest,
               principalRepaid |-> row.principalRepaid + principal, outstanding |-> left,
               redeemed |-> (row.redeemed \/ left <= 0)]
  BY <1>1, <1>c DEF LoanRows
<1>4. after \in LoanRows
  <2>1. /\ (IF left <= 0 THEN "redeemed" ELSE "active") \in {"none", "sanctioned", "active", "redeemed"}
        /\ row.interestPaid + interest \in Int /\ row.principalRepaid + principal \in Nat
        /\ (row.redeemed \/ left <= 0) \in BOOLEAN
    BY <1>1, <1>2
  <2> QED
    BY <1>1, <1>2, <1>3, <2>1 DEF LoanRows
<1>5. receipt \in Receipts
  BY <1>2, <1>b DEF Receipts
<1> DEFINE now == Append(rows, receipt)
           n == Len(rows)
<1>6. /\ now \in Seq(Receipts) /\ Len(now) = n + 1 /\ n \in Nat /\ now[n + 1] = receipt
      /\ \A i \in 1..n : now[i] = rows[i]
  BY <1>1, <1>5
<1> HIDE DEF now
<1>7. \A i \in 1..n : rows[i].principal \in Int /\ rows[i].interest \in Int
  <2>1. \A r \in Receipts : r.principal \in Int /\ r.interest \in Int
    BY DEF Receipts
  <2>2. \A i \in 1..n : rows[i] \in Receipts
    BY <1>1
  <2> QED
    BY <2>1, <2>2
<1>8. /\ \A i \in 1..n : PrincipalsOf(rows)[i] \in Int /\ PrincipalsOf(now)[i] = PrincipalsOf(rows)[i]
      /\ PrincipalsOf(now)[n + 1] = principal
  <2>1. DOMAIN rows = 1..n /\ DOMAIN now = 1..(n + 1)
    BY <1>1, <1>6
  <2>2. receipt.principal = principal
    BY <1>b
  <2>3. /\ \A i \in 1..n : PrincipalsOf(rows)[i] = rows[i].principal
        /\ \A i \in 1..(n + 1) : PrincipalsOf(now)[i] = now[i].principal
    BY <2>1 DEF PrincipalsOf
  <2> QED
    BY <1>6, <1>7, <2>2, <2>3
<1>9. /\ \A i \in 1..n : InterestOf(rows)[i] \in Int /\ InterestOf(now)[i] = InterestOf(rows)[i]
      /\ InterestOf(now)[n + 1] = interest
  <2>1. DOMAIN rows = 1..n /\ DOMAIN now = 1..(n + 1)
    BY <1>1, <1>6
  <2>2. receipt.interest = interest
    BY <1>b
  <2>3. /\ \A i \in 1..n : InterestOf(rows)[i] = rows[i].interest
        /\ \A i \in 1..(n + 1) : InterestOf(now)[i] = now[i].interest
    BY <2>1 DEF InterestOf
  <2> QED
    BY <1>6, <1>7, <2>2, <2>3
<1> DEFINE P(rs, m) == SumFunctionOnSet(PrincipalsOf(rs), 1..m)
           I(rs, m) == SumFunctionOnSet(InterestOf(rs), 1..m)
<1>10. /\ \A m \in 0..n : P(now, m) = P(rows, m) /\ P(rows, m) \in Int
       /\ P(now, n + 1) = P(rows, n) + principal
  <2>1. PrincipalsOf(now)[n + 1] \in Int
    BY <1>2, <1>8
  <2> DEFINE f == PrincipalsOf(rows)
             g == PrincipalsOf(now)
  <2>2. \A i \in 1..n : f[i] \in Int /\ g[i] = f[i]
    BY <1>8
  <2>3. g[n + 1] \in Int /\ g[n + 1] = principal
    BY <1>8, <2>1
  <2>4. /\ \A m \in 0..n : /\ SumFunctionOnSet(g, 1..m) = SumFunctionOnSet(f, 1..m)
                           /\ SumFunctionOnSet(f, 1..m) \in Int
        /\ SumFunctionOnSet(g, 1..(n + 1)) = SumFunctionOnSet(f, 1..n) + principal
    <3>1. n \in Nat
      BY <1>6
    <3> HIDE DEF f, g, n
    <3>2. /\ \A m \in 0..n : /\ SumFunctionOnSet(g, 1..m) = SumFunctionOnSet(f, 1..m)
                             /\ SumFunctionOnSet(f, 1..m) \in Int
          /\ SumFunctionOnSet(g, 1..(n + 1)) = SumFunctionOnSet(f, 1..n) + g[n + 1]
      BY <2>2, <2>3, <3>1, SumAppends, Zenon
    <3> QED
      BY <2>3, <3>2, Zenon
  <2> QED
    BY <2>4
<1>11. /\ \A m \in 0..n : I(now, m) = I(rows, m) /\ I(rows, m) \in Int
       /\ I(now, n + 1) = I(rows, n) + interest
  <2>1. InterestOf(now)[n + 1] \in Int
    BY <1>2, <1>9
  <2> DEFINE f == InterestOf(rows)
             g == InterestOf(now)
  <2>2. \A i \in 1..n : f[i] \in Int /\ g[i] = f[i]
    BY <1>9
  <2>3. g[n + 1] \in Int /\ g[n + 1] = interest
    BY <1>9, <2>1
  <2>4. /\ \A m \in 0..n : /\ SumFunctionOnSet(g, 1..m) = SumFunctionOnSet(f, 1..m)
                           /\ SumFunctionOnSet(f, 1..m) \in Int
        /\ SumFunctionOnSet(g, 1..(n + 1)) = SumFunctionOnSet(f, 1..n) + interest
    <3>1. n \in Nat
      BY <1>6
    <3> HIDE DEF f, g, n
    <3>2. /\ \A m \in 0..n : /\ SumFunctionOnSet(g, 1..m) = SumFunctionOnSet(f, 1..m)
                             /\ SumFunctionOnSet(f, 1..m) \in Int
          /\ SumFunctionOnSet(g, 1..(n + 1)) = SumFunctionOnSet(f, 1..n) + g[n + 1]
      BY <2>2, <2>3, <3>1, SumAppends, Zenon
    <3> QED
      BY <2>3, <3>2, Zenon
  <2> QED
    BY <2>4
<1>12. /\ row.principalRepaid = P(rows, n) /\ row.interestPaid = I(rows, n)
       /\ \A i \in 1..n : /\ rows[i].after = row.principal - P(rows, i)
                          /\ rows[i].principal > 0 => I(rows, i) = row.accrued
  BY DEF LoanTold
<1> HIDE DEF P, I, n
<1>13. /\ after.principal = row.principal /\ after.eligible = row.eligible /\ after.accrued = row.accrued
       /\ after.outstanding = left /\ after.principalRepaid = P(now, n + 1) /\ after.interestPaid = I(now, n + 1)
       /\ after.redeemed = (row.redeemed \/ left <= 0) /\ after.status = IF left <= 0 THEN "redeemed" ELSE "active"
  BY <1>3, <1>10, <1>11, <1>12
<1>14. receipt.after = left /\ receipt.principal = principal
  BY <1>b
<1>15. ASSUME NEW i \in 1..(n + 1)
       PROVE  /\ now[i].after = row.principal - P(now, i)
              /\ now[i].principal > 0 => I(now, i) = row.accrued
  <2>1. CASE i \in 1..n
    <3>1. i \in 0..n
      BY <1>6, <2>1
    <3> QED
      BY <1>6, <1>10, <1>11, <1>12, <2>1, <3>1
  <2>2. CASE i = n + 1
    <3>1. n \in 0..n
      BY <1>6
    <3>2. row.outstanding = row.principal - row.principalRepaid
      BY DEF LoanTold
    <3>3. now[i].after = row.principal - P(now, i)
      <4>1. now[i].after = left /\ P(now, i) = row.principalRepaid + principal
        BY <1>6, <1>10, <1>12, <1>14, <2>2
      <4>2. left = row.principal - (row.principalRepaid + principal)
        <5>1. left = row.outstanding - principal
          BY <1>a
        <5> QED
          BY <1>1, <1>2, <3>2, <5>1
      <4> QED
        BY <4>1, <4>2
    <3>4. now[i].principal > 0 => I(now, i) = row.accrued
      BY <1>1, <1>2, <1>6, <1>11, <1>12, <1>14, <2>2, <3>1
    <3> QED
      BY <3>3, <3>4
  <2> QED
    BY <1>6, <2>1, <2>2
<1>16. after.outstanding = after.principal - after.principalRepaid /\ after.interestPaid <= after.accrued
  <2>1. row.outstanding = row.principal - row.principalRepaid
    BY DEF LoanTold
  <2>2. /\ after.outstanding = left /\ after.principalRepaid = row.principalRepaid + principal
        /\ after.interestPaid = row.interestPaid + interest
        /\ after.principal = row.principal /\ after.accrued = row.accrued
    BY <1>3
  <2>3. row.outstanding - principal = row.principal - (row.principalRepaid + principal)
    BY <1>1, <1>2, <2>1
  <2>4. row.interestPaid + interest <= row.accrued
    BY <1>1, <1>2
  <2> QED
    BY <1>a, <2>2, <2>3, <2>4
<1>17. /\ after.redeemed <=> after.status = "redeemed"
       /\ after.status = "redeemed" => after.outstanding <= 0
       /\ after.status # "none"
  <2>1. row.redeemed => row.outstanding <= 0
    BY DEF LoanTold
  <2>2. row.redeemed => left <= 0
    BY <1>1, <1>2, <1>a, <2>1
  <2>3. CASE left <= 0
    <3>1. after.redeemed = TRUE
      <4>1. after.redeemed = (row.redeemed \/ left <= 0)
        BY <1>13, Zenon
      <4> QED
        BY <2>3, <4>1, Zenon
    <3>2. after.status = "redeemed" /\ after.outstanding = left
      BY <1>13, <2>3
    <3> QED
      BY <2>3, <3>1, <3>2
  <2>4. CASE ~(left <= 0)
    <3>1. ~row.redeemed /\ after.status = "active" /\ after.redeemed = (row.redeemed \/ left <= 0)
      BY <1>13, <2>2, <2>4
    <3> QED
      BY <2>4, <3>1
  <2> QED
    BY <2>3, <2>4
<1>18. after.principal <= after.eligible
  BY <1>13 DEF LoanTold
<1> QED
  BY <1>4, <1>6, <1>13, <1>15, <1>16, <1>17, <1>18 DEF LoanTold, P, I, now

LEMMA RepaymentStep ==
  ASSUME GirviInv, NEW c \in Cashiers, recordRepayment(c)
  PROVE  GirviInv'
<1> DEFINE l == taking[c].loan
<1>1. PICK amount \in Repaid, penalty \in Penalties :
       amount > 0 /\
       LET interest == toInterest(taking[c].seen, amount - penalty)
           principal == amount - penalty - interest
           left == taking[c].seen.outstanding - principal
       IN
       /\ receipts' = [receipts EXCEPT ![l] = Append(@, [amount |-> amount, interest |-> interest, principal |-> principal,
                                                         penalty |-> penalty, after |-> left])]
       /\ loan' = [loan EXCEPT ![l] = [loan[l] EXCEPT !.interestPaid = @ + interest, !.principalRepaid = @ + principal,
                     !.outstanding = left, !.status = IF left <= 0 THEN "redeemed" ELSE "active",
                     !.redeemed = (@ \/ left <= 0)]]
  BY Zenon DEF recordRepayment
<1>2. /\ taking[c] # NotTaking /\ l # 0 /\ l \in Loans /\ taking[c].seen = loan[l] /\ loan[l].status # "none"
      /\ taking' = [taking EXCEPT ![c] = NotTaking]
  BY DEF recordRepayment, GirviInv, TakingTold, Takings
<1> DEFINE receipt == ReceiptFor(loan[l], amount, penalty)
           after == RowAfter(loan[l], amount, penalty)
<1>3. receipts' = [receipts EXCEPT ![l] = Append(receipts[l], receipt)]
  BY <1>1, <1>2 DEF ReceiptFor, InterestPart, PrincipalPart, LeftAfter
<1>4. loan' = [loan EXCEPT ![l] = after]
  BY <1>1, <1>2, Zenon DEF RowAfter, InterestPart, PrincipalPart, LeftAfter
<1>5. LoanTold(after, Append(receipts[l], receipt)) /\ after.status # "none"
  <2>1. amount \in Nat /\ penalty \in Nat /\ LoanTold(loan[l], receipts[l])
    BY <1>2, GirviAssumption DEF GirviInv
  <2> QED
    BY <2>1, RepaymentTold
<1> HIDE DEF after, receipt
<1>6. \A k \in Loans : LoanTold(loan'[k], receipts'[k]) /\ (loan'[k].status = "none" => receipts'[k] = <<>>)
  BY <1>2, <1>3, <1>4, <1>5 DEF GirviInv
<1>7. TakingTold'
  <2>1. \A d \in Cashiers : d # c => taking'[d] = taking[d]
    BY <1>2 DEF GirviInv, TakingTold
  <2>2. taking'[c] = NotTaking /\ NotTaking.loan = 0 /\ NotTaking \in Takings
    <3>1. NotTaking \in Takings
      BY DEF NotTaking, Takings, NoLoan, LoanRows
    <3> QED
      BY <1>2, <3>1 DEF GirviInv, TakingTold, NotTaking
  <2>3. \A d \in Cashiers : d # c /\ taking[d].loan # 0 => taking[d].loan # l /\ taking[d].loan \in Loans
    BY <1>2 DEF GirviInv, TakingTold, Takings
  <2>4. \A k \in Loans : k # l => loan'[k] = loan[k]
    BY <1>4 DEF GirviInv
  <2>5. taking' \in [Cashiers -> Takings]
    BY <1>2, <2>2 DEF GirviInv, TakingTold
  <2> QED
    BY <2>1, <2>2, <2>3, <2>4, <2>5 DEF GirviInv, TakingTold
<1> QED
  BY <1>2, <1>3, <1>4, <1>6, <1>7 DEF GirviInv

LEMMA GirviNextInv == GirviInv /\ [GirviNext]_girviVars => GirviInv'
<1> SUFFICES ASSUME GirviInv, [GirviNext]_girviVars PROVE GirviInv'
  OBVIOUS
<1>0. ASSUME UNCHANGED <<loan, receipts>>, TakingTold' PROVE GirviInv'
  BY <1>0 DEF GirviInv
<1>1. CASE sanctionLoan
  BY <1>1, SanctionStep
<1>2. ASSUME NEW c \in Cashiers, NEW l \in Loans, BeginRepayment(c, l) PROVE GirviInv'
  <2>1. /\ taking' = [taking EXCEPT ![c] = [loan |-> l, seen |-> loan[l]]] /\ UNCHANGED <<loan, receipts>>
        /\ loan[l].status # "none" /\ \A d \in Cashiers : taking[d].loan # l
    BY <1>2 DEF BeginRepayment, LoanFree
  <2>2. loan[l] \in LoanRows /\ l # 0
    BY DEF GirviInv, LoanTold, Loans
  <2>3. taking'[c].loan = l /\ taking'[c].seen = loan[l] /\ \A d \in Cashiers : d # c => taking'[d] = taking[d]
    BY <2>1 DEF GirviInv, TakingTold
  <2>4. taking' \in [Cashiers -> Takings]
    BY <2>1, <2>2 DEF GirviInv, TakingTold, Takings
  <2>5. TakingTold'
    BY <2>1, <2>2, <2>3, <2>4 DEF GirviInv, TakingTold
  <2> QED
    BY <1>0, <2>1, <2>5
<1>3. ASSUME NEW c \in Cashiers, recordRepayment(c) PROVE GirviInv'
  BY <1>3, RepaymentStep
<1>4. ASSUME NEW c \in Cashiers, DropRepayment(c) PROVE GirviInv'
  <2>1. taking' = [taking EXCEPT ![c] = NotTaking] /\ UNCHANGED <<loan, receipts>>
    BY <1>4 DEF DropRepayment
  <2>2. NotTaking.loan = 0 /\ NotTaking \in Takings
    BY DEF NotTaking, Takings, NoLoan, LoanRows
  <2>3. taking'[c] = NotTaking /\ \A d \in Cashiers : d # c => taking'[d] = taking[d]
    BY <2>1 DEF GirviInv, TakingTold
  <2>4. taking' \in [Cashiers -> Takings]
    BY <2>1, <2>2 DEF GirviInv, TakingTold
  <2>5. TakingTold'
    BY <2>1, <2>2, <2>3, <2>4 DEF GirviInv, TakingTold
  <2> QED
    BY <1>0, <2>1, <2>5
<1>5. CASE UNCHANGED girviVars
  BY <1>0, <1>5 DEF girviVars, GirviInv, TakingTold
<1> QED
  BY <1>1, <1>2, <1>3, <1>4, <1>5 DEF GirviNext

LEMMA GirviInvTell == GirviInv => LoansTell
<1> SUFFICES ASSUME GirviInv, NEW l \in Loans
             PROVE  LET rows == DOMAIN receipts[l]
                        principal(n) == SumFunctionOnSet([k \in rows |-> receipts[l][k].principal], 1..n)
                        interest(n) == SumFunctionOnSet([k \in rows |-> receipts[l][k].interest], 1..n)
                        all == Len(receipts[l])
                    IN
                    /\ loan[l].principal <= loan[l].eligible
                    /\ loan[l].outstanding = loan[l].principal - principal(all) /\ loan[l].principalRepaid = principal(all)
                    /\ loan[l].interestPaid = interest(all) /\ interest(all) <= loan[l].accrued
                    /\ \A n \in rows :
                         /\ receipts[l][n].after = loan[l].principal - principal(n)
                         /\ receipts[l][n].principal > 0 => interest(n) = loan[l].accrued
                    /\ loan[l].redeemed <=> loan[l].status = "redeemed"
  BY DEF LoansTell
<1>1. LoanTold(loan[l], receipts[l])
  BY DEF GirviInv
<1>2. DOMAIN receipts[l] = 1..Len(receipts[l])
  BY <1>1 DEF LoanTold
<1> QED
  BY <1>1, <1>2 DEF LoanTold, PrincipalsOf, InterestOf

-------------------------------------------------------------------------------
\* Customer orders

\* A stage was come to as often as it was left, but for the one the order is at.
CameTo(rows, at) ==
  \A stage \in ALL_STAGE_KEYS :
    Cardinality({n \in 1..Len(rows) : rows[n].to = stage}) - Cardinality({n \in 1..Len(rows) : rows[n].from = stage})
      = IF stage = at THEN 1 ELSE 0

\* What an order's timeline and payments say of it: nothing before it is created, and then
\* what TimelineTells says but for the listing, with its stage one of the built-in stages
\* of its type.
RetailTold(row, rows, paid) ==
  /\ row \in RetailRows /\ rows \in Seq(StageEvents) /\ paid \in Seq(Nat)
  /\ row.status = "none" => rows = <<>> /\ paid = <<>>
  /\ row.status # "none" =>
       /\ row.type \in OrderTypes /\ \E n \in DOMAIN ORDER_PIPELINES[row.type] : ORDER_PIPELINES[row.type][n] = row.stage
       /\ Len(rows) > 0 /\ rows[1].from = "none" /\ rows[1].to = firstStage(row.type)
       /\ \A n \in 2..Len(rows) : rows[n].from = rows[n - 1].to /\ rows[n - 1].direction # "same"
       /\ \A n \in 1..Len(rows) : rows[n].direction = "backward" => rows[n].reason
       /\ rows[Len(rows)].to = row.stage
       /\ row.status = "active" <=> \A n \in 1..Len(rows) : rows[n].direction # "same" /\ ~rows[n].terminal
       /\ row.status = "cancelled" <=> rows[Len(rows)].direction = "same"
       /\ CameTo(rows, row.stage)
       /\ row.advance = SumFunction(paid) /\ row.balance = row.total - row.advance /\ row.balance >= -Tolerance

\* Requests of an order that began before a time and are not done.
Waiting(held, o, at) == {s \in Salespeople : held[s].order = o /\ held[s].at < at}

\* Rows of a timeline listed above the n-th although written after it.
Overtaking(rows, n) == {m \in 1..Len(rows) : rows[m].at < rows[n].at} \ 1..n

\* Times are taken from the clock, and of an order after it was booked; with the requests
\* that may yet do so, those that overtook a row are fewer than the salespeople.
ListTold(o, rows, held, now) ==
  /\ \A n \in 1..Len(rows) : rows[n].at \in 1..now
  /\ \A n \in 2..Len(rows) : rows[1].at < rows[n].at
  /\ \A s \in Salespeople : held[s].order = o => Len(rows) > 0 /\ held[s].at \in 1..now /\ rows[1].at < held[s].at
  /\ \A n \in 1..Len(rows) :
       Cardinality(Overtaking(rows, n)) + Cardinality(Waiting(held, o, rows[n].at)) < Cardinality(Salespeople)

Listings ==
  /\ orderClock \in Nat /\ attending \in [Salespeople -> Attendings]
  /\ \A o \in Retail : ListTold(o, timeline[o], attending, orderClock)

OrdersInv ==
  /\ pipeline \in Overrides
  /\ retail = [o \in Retail |-> retail[o]] /\ timeline = [o \in Retail |-> timeline[o]]
  /\ payments = [o \in Retail |-> payments[o]]
  /\ \A o \in Retail : RetailTold(retail[o], timeline[o], payments[o])
  /\ Listings

LEMMA OrdersInvTypes == OrdersInv => OrdersTypeOK
<1> SUFFICES ASSUME OrdersInv PROVE OrdersTypeOK
  OBVIOUS
<1>1. \A o \in Retail : retail[o] \in RetailRows /\ timeline[o] \in Seq(StageEvents) /\ payments[o] \in Seq(Nat)
  BY DEF OrdersInv, RetailTold
<1> QED
  BY <1>1 DEF OrdersInv, OrdersTypeOK, Listings

LEMMA OrdersInitInv == OrdersInit => OrdersInv
<1> SUFFICES ASSUME OrdersInit PROVE OrdersInv
  OBVIOUS
<1>1. NoRetail \in RetailRows /\ NoRetail.status = "none"
  BY DEF NoRetail, RetailRows
<1>2. RetailTold(NoRetail, <<>>, <<>>)
  BY <1>1 DEF RetailTold
<1>3. NotAttending.order = 0 /\ NotAttending \in Attendings
  BY DEF NotAttending, Attendings
<1>4. /\ orderClock = 0 /\ attending = [s \in Salespeople |-> NotAttending]
      /\ \A o \in Retail : timeline[o] = <<>>
  BY DEF OrdersInit
<1>5. ASSUME NEW o \in Retail PROVE ListTold(o, <<>>, attending, 0)
  <2>1. o # 0 /\ Len(<<>>) = 0
    BY DEF Retail
  <2> QED
    BY <1>3, <1>4, <2>1 DEF ListTold
<1>6. Listings
  BY <1>3, <1>4, <1>5 DEF Listings
<1> QED
  BY <1>2, <1>6 DEF OrdersInit, OrdersInv

\* The stages of a type are named in the pipelines.
LEMMA StagesKnown ==
  ASSUME NEW t \in OrderTypes
  PROVE  /\ 1 \in DOMAIN ORDER_PIPELINES[t] /\ DOMAIN ORDER_PIPELINES[t] \subseteq Nat \ {0}
         /\ \A n \in DOMAIN ORDER_PIPELINES[t] : ORDER_PIPELINES[t][n] \in ALL_STAGE_KEYS
<1>1. /\ t \in DOMAIN ORDER_PIPELINES
      /\ DOMAIN ORDER_PIPELINES = {"booking", "custom", "repair", "wedding", "corporate"}
  BY OrdersAssumption DEF ORDER_PIPELINES
<1>2. 1 \in DOMAIN ORDER_PIPELINES[t] /\ DOMAIN ORDER_PIPELINES[t] \subseteq Nat \ {0}
  <2>1. CASE t = "booking"
    BY <2>1 DEF ORDER_PIPELINES
  <2>2. CASE t = "custom"
    BY <2>2 DEF ORDER_PIPELINES
  <2>3. CASE t = "repair"
    BY <2>3 DEF ORDER_PIPELINES
  <2>4. CASE t = "wedding"
    BY <2>4 DEF ORDER_PIPELINES
  <2>5. CASE t = "corporate"
    BY <2>5 DEF ORDER_PIPELINES
  <2> QED
    BY <1>1, <2>1, <2>2, <2>3, <2>4, <2>5
<1>3. Range(ORDER_PIPELINES[t]) \subseteq ALL_STAGE_KEYS
  BY <1>1 DEF ALL_STAGE_KEYS
<1> QED
  BY <1>2, <1>3 DEF Range

\* "none" is no stage.
LEMMA NoneNoStage == "none" \notin ALL_STAGE_KEYS
  BY DEF ALL_STAGE_KEYS, ORDER_PIPELINES, Range

\* The row of one order changes, with its timeline and payments; the others' stay.
LEMMA OneOrder ==
  ASSUME OrdersInv, NEW o \in Retail, pipeline' = pipeline, NEW row, NEW rows, NEW paid, RetailTold(row, rows, paid),
         retail' = [retail EXCEPT ![o] = row], timeline' = [timeline EXCEPT ![o] = rows],
         payments' = [payments EXCEPT ![o] = paid], Listings'
  PROVE  OrdersInv'
  BY DEF OrdersInv

\* Requests of an order end, or begin now; what is listed stays.
LEMMA ListKept ==
  ASSUME NEW o, NEW rows \in Seq(StageEvents), NEW held, NEW now \in Nat, ListTold(o, rows, held, now),
         NEW left, NEW later \in Nat, now <= later,
         \A s \in Salespeople : left[s].order = o =>
           \/ held[s].order = o /\ left[s].at = held[s].at
           \/ Len(rows) > 0 /\ left[s].at = later /\ now < later
  PROVE  ListTold(o, rows, left, later)
<1>1. Len(rows) \in Nat /\ \A n \in 1..Len(rows) : rows[n].at \in 1..now
  BY DEF ListTold
<1>2. \A n \in 1..Len(rows) : rows[n].at \in 1..later
  BY <1>1
<1>3. ASSUME NEW s \in Salespeople, left[s].order = o
      PROVE  Len(rows) > 0 /\ left[s].at \in 1..later /\ rows[1].at < left[s].at
  <2>1. CASE held[s].order = o /\ left[s].at = held[s].at
    BY <2>1 DEF ListTold
  <2>2. CASE Len(rows) > 0 /\ left[s].at = later /\ now < later
    <3>1. rows[1].at \in 1..now
      BY <1>1, <2>2
    <3> QED
      BY <2>2, <3>1
  <2> QED
    BY <1>3, <2>1, <2>2
<1>4. ASSUME NEW n \in 1..Len(rows)
      PROVE  Cardinality(Overtaking(rows, n)) + Cardinality(Waiting(left, o, rows[n].at)) < Cardinality(Salespeople)
  <2> DEFINE A == Waiting(held, o, rows[n].at)
             B == Waiting(left, o, rows[n].at)
  <2>1. B \in SUBSET A
    <3> SUFFICES ASSUME NEW s \in Salespeople, left[s].order = o, left[s].at < rows[n].at
                 PROVE  held[s].order = o /\ held[s].at < rows[n].at
      BY DEF Waiting
    <3>1. rows[n].at \in 1..now
      BY <1>1
    <3>2. ~(left[s].at = later /\ now < later)
      BY <3>1
    <3> QED
      BY <3>2
  <2>2. A \in SUBSET Salespeople
    BY DEF Waiting
  <2>3. Cardinality(Overtaking(rows, n)) + Cardinality(A) < Cardinality(Salespeople)
    BY DEF ListTold
  <2>4. Overtaking(rows, n) \in SUBSET (1..Len(rows))
    BY DEF Overtaking
  <2> HIDE DEF A, B
  <2>5. IsFiniteSet(A) /\ IsFiniteSet(B) /\ Cardinality(B) <= Cardinality(A)
    BY <2>1, <2>2, FS_Subset, OrdersAssumption
  <2>6. Cardinality(Overtaking(rows, n)) \in Nat
    <3>1. 1 \in Int /\ Len(rows) \in Int
      BY <1>1
    <3>2. IsFiniteSet(1..Len(rows))
      BY <3>1, FS_Interval
    <3> QED
      BY <2>4, <3>2, FS_Subset, FS_CardinalityType
  <2>7. Cardinality(A) \in Nat /\ Cardinality(B) \in Nat /\ Cardinality(Salespeople) \in Nat
    BY <2>5, FS_CardinalityType, OrdersAssumption
  <2>8. Cardinality(Overtaking(rows, n)) + Cardinality(B) < Cardinality(Salespeople)
    BY <2>3, <2>5, <2>6, <2>7
  <2> QED
    BY <2>8 DEF B
<1>5. \A n \in 2..Len(rows) : rows[1].at < rows[n].at
  BY DEF ListTold
<1> QED
  BY <1>2, <1>3, <1>4, <1>5 DEF ListTold

\* A request writes its row: whom it had waited to overtake it overtakes.
LEMMA ListJoined ==
  ASSUME NEW o, NEW rows \in Seq(StageEvents), NEW held, NEW now \in Nat, ListTold(o, rows, held, now),
         NEW s \in Salespeople, held[s].order = o, NEW event \in StageEvents, event.at = held[s].at,
         NEW left, left[s].order # o, \A t \in Salespeople : t # s => left[t] = held[t]
  PROVE  ListTold(o, Append(rows, event), left, now)
<1> DEFINE all == Append(rows, event)
           k == Len(rows)
<1>1. /\ k \in Nat /\ Len(all) = k + 1 /\ all[k + 1] = event /\ \A n \in 1..k : all[n] = rows[n]
      /\ k > 0 /\ event.at \in 1..now /\ rows[1].at < event.at
  BY DEF ListTold
<1>2. /\ \A n \in 1..k : rows[n].at \in 1..now
      /\ \A n \in 2..k : rows[1].at < rows[n].at
      /\ \A t \in Salespeople : held[t].order = o => held[t].at \in 1..now /\ rows[1].at < held[t].at
  BY DEF ListTold
<1>3. \A n \in 1..k : Cardinality(Overtaking(rows, n)) + Cardinality(Waiting(held, o, rows[n].at)) < Cardinality(Salespeople)
  BY DEF ListTold
<1>4. \A n \in 1..k : Overtaking(rows, n) = {m \in 1..k : rows[m].at < rows[n].at} \ 1..n
  BY DEF Overtaking
<1>5. \A n : Overtaking(all, n) = {m \in 1..(k + 1) : all[m].at < all[n].at} \ 1..n
  BY <1>1 DEF Overtaking
<1> HIDE DEF all, k
<1>6. \A n \in 1..(k + 1) : n \in 1..k \/ n = k + 1
  BY <1>1
<1>7. 1 \in 1..k /\ all[1] = rows[1]
  BY <1>1
<1>8. \A n \in 1..(k + 1) : all[n].at \in 1..now
  BY <1>1, <1>2, <1>6
<1>9. ASSUME NEW n \in 2..(k + 1) PROVE all[1].at < all[n].at
  <2>1. n \in 2..k \/ n = k + 1
    BY <1>1
  <2>2. \A m \in 2..k : m \in 1..k
    OBVIOUS
  <2> QED
    BY <1>1, <1>2, <1>7, <2>1, <2>2
<1>10. ASSUME NEW t \in Salespeople, left[t].order = o PROVE left[t].at \in 1..now /\ all[1].at < left[t].at
  <2>1. t # s
    BY <1>10
  <2> QED
    BY <1>2, <1>7, <1>10, <2>1
<1>11. IsFiniteSet(Salespeople) /\ Cardinality(Salespeople) \in Nat /\ IsFiniteSet(1..k) /\ k + 1 \notin 1..k
  <2>1. 1 \in Int /\ k \in Int
    BY <1>1
  <2> QED
    BY <1>1, <2>1, FS_Interval, FS_CardinalityType, OrdersAssumption
<1>12. ASSUME NEW at PROVE Waiting(left, o, at) = Waiting(held, o, at) \ {s}
  BY DEF Waiting
<1>13. ASSUME NEW n \in 1..k
       PROVE  Cardinality(Overtaking(all, n)) + Cardinality(Waiting(left, o, all[n].at)) < Cardinality(Salespeople)
  <2> DEFINE A == Overtaking(rows, n)
             W == Waiting(held, o, rows[n].at)
  <2>1. all[n] = rows[n] /\ Waiting(left, o, all[n].at) = W \ {s} /\ Cardinality(A) + Cardinality(W) < Cardinality(Salespeople)
    BY <1>1, <1>3, <1>12
  <2>2. A \in SUBSET (1..k) /\ W \in SUBSET Salespeople
    BY <1>4 DEF Waiting
  <2>3. IsFiniteSet(A) /\ IsFiniteSet(W)
    BY <1>11, <2>2, FS_Subset
  <2>4. Cardinality(A) \in Nat /\ Cardinality(W) \in Nat
    BY <2>3, FS_CardinalityType
  <2>5. s \in W <=> event.at < rows[n].at
    BY DEF Waiting
  <2>6. ASSUME event.at < rows[n].at PROVE Overtaking(all, n) = A \cup {k + 1}
    <3>1. k + 1 \in 1..(k + 1) /\ k + 1 \notin 1..n /\ \A m \in 1..k : m \in 1..(k + 1)
      BY <1>1
    <3>2. \A m \in 1..k : all[m].at < all[n].at <=> rows[m].at < rows[n].at
      BY <1>1
    <3>3. all[k + 1].at < all[n].at
      BY <1>1, <2>1, <2>6
    <3>4. A = {m \in 1..k : rows[m].at < rows[n].at} \ 1..n
      BY <1>4
    <3>5. Overtaking(all, n) = {m \in 1..(k + 1) : all[m].at < all[n].at} \ 1..n
      BY <1>5
    <3>6. \A m \in 1..k : m \in Overtaking(all, n) <=> m \in A
      BY <3>1, <3>2, <3>4, <3>5, Zenon
    <3>7. k + 1 \in Overtaking(all, n)
      BY <3>1, <3>3, <3>5, Zenon
    <3>8. \A m : m \in A \/ m \in Overtaking(all, n) => m \in 1..k \/ m = k + 1
      BY <1>6, <3>4, <3>5, Zenon
    <3> HIDE DEF A
    <3> QED
      BY <3>6, <3>7, <3>8
  <2>7. ASSUME ~(event.at < rows[n].at) PROVE Overtaking(all, n) = A
    <3>1. \A m \in 1..k : m \in 1..(k + 1)
      BY <1>1
    <3>2. \A m \in 1..k : all[m].at < all[n].at <=> rows[m].at < rows[n].at
      BY <1>1
    <3>3. ~(all[k + 1].at < all[n].at)
      BY <1>1, <2>1, <2>7
    <3> QED
      BY <1>4, <1>5, <1>6, <3>1, <3>2, <3>3, Zenon
  <2> HIDE DEF A, W
  <2>8. k + 1 \notin A
    BY <1>11, <2>2
  <2>9. CASE event.at < rows[n].at
    <3>1. Cardinality(Overtaking(all, n)) = Cardinality(A) + 1
      BY <2>3, <2>6, <2>8, <2>9, FS_AddElement
    <3>2. Cardinality(W \ {s}) = Cardinality(W) - 1
      BY <2>3, <2>5, <2>9, FS_RemoveElement
    <3> QED
      BY <1>11, <2>1, <2>4, <3>1, <3>2
  <2>10. CASE ~(event.at < rows[n].at)
    <3>1. Overtaking(all, n) = A /\ W \ {s} = W
      BY <2>5, <2>7, <2>10
    <3> QED
      BY <2>1, <3>1
  <2> QED
    BY <2>9, <2>10
<1>14. Cardinality(Overtaking(all, k + 1)) + Cardinality(Waiting(left, o, all[k + 1].at)) < Cardinality(Salespeople)
  <2> DEFINE W == Waiting(left, o, all[k + 1].at)
  <2>1. Overtaking(all, k + 1) = {}
    BY <1>5
  <2>2. W \in SUBSET (Salespeople \ {s})
    BY <1>12 DEF Waiting
  <2> HIDE DEF W
  <2>3. IsFiniteSet(Salespeople \ {s}) /\ Cardinality(Salespeople \ {s}) = Cardinality(Salespeople) - 1
    BY <1>11, FS_RemoveElement
  <2>4. IsFiniteSet(W) /\ Cardinality(W) <= Cardinality(Salespeople) - 1
    BY <2>2, <2>3, FS_Subset
  <2>5. Cardinality(W) \in Nat
    BY <2>4, FS_CardinalityType
  <2>6. Cardinality(Overtaking(all, k + 1)) = 0
    BY <2>1, FS_EmptySet
  <2>7. Cardinality(Overtaking(all, k + 1)) + Cardinality(W) < Cardinality(Salespeople)
    BY <1>11, <2>4, <2>5, <2>6
  <2> QED
    BY <2>7 DEF W
<1>15. Len(all) = k + 1 /\ k + 1 > 0
  BY <1>1
<1>16. \A n \in 1..Len(all) : Cardinality(Overtaking(all, n)) + Cardinality(Waiting(left, o, all[n].at)) < Cardinality(Salespeople)
  BY <1>6, <1>13, <1>14, <1>15
<1>17. ListTold(o, all, left, now)
  BY <1>8, <1>9, <1>10, <1>15, <1>16 DEF ListTold
<1> QED
  BY <1>17 DEF all

\* Nothing of it changes.
LEMMA ListsStay ==
  ASSUME Listings, timeline' = timeline, attending' = attending, orderClock' = orderClock
  PROVE  Listings'
  BY DEF Listings

\* One request writes its row and ends.
LEMMA ListsJoined ==
  ASSUME OrdersInv, NEW s \in Salespeople, NEW o \in Retail, Attended(s, o), NEW event \in StageEvents,
         event.at = attending[s].at, timeline' = [timeline EXCEPT ![o] = Append(timeline[o], event)]
  PROVE  Listings'
<1>1. /\ attending[s].order = o /\ attending' = [attending EXCEPT ![s] = NotAttending] /\ orderClock' = orderClock
  BY DEF Attended
<1>2. /\ orderClock \in Nat /\ attending \in [Salespeople -> Attendings]
      /\ \A p \in Retail : ListTold(p, timeline[p], attending, orderClock) /\ timeline[p] \in Seq(StageEvents)
      /\ timeline = [p \in Retail |-> timeline[p]]
  BY DEF OrdersInv, Listings, RetailTold
<1>3. NotAttending \in Attendings /\ NotAttending.order = 0 /\ 0 \notin Retail
  BY DEF NotAttending, Attendings, Retail
<1>4. attending' \in [Salespeople -> Attendings] /\ attending'[s] = NotAttending
      /\ \A t \in Salespeople : t # s => attending'[t] = attending[t]
  BY <1>1, <1>2, <1>3
<1>5. timeline'[o] = Append(timeline[o], event) /\ \A p \in Retail : p # o => timeline'[p] = timeline[p]
  BY <1>2
<1>6. ListTold(o, Append(timeline[o], event), attending', orderClock)
  <2>1. attending'[s].order # o
    BY <1>3, <1>4
  <2> QED
    BY <1>1, <1>2, <1>4, <2>1, ListJoined
<1>7. ASSUME NEW p \in Retail, p # o PROVE ListTold(p, timeline[p], attending', orderClock)
  <2>1. \A t \in Salespeople : attending'[t].order = p => attending[t].order = p /\ attending'[t].at = attending[t].at
    BY <1>3, <1>4
  <2> QED
    BY <1>2, <2>1, ListKept
<1> QED
  BY <1>1, <1>2, <1>4, <1>5, <1>6, <1>7 DEF Listings

LEMMA BeginStep ==
  ASSUME OrdersInv, NEW s \in Salespeople, NEW o \in Retail, BeginOrderRequest(s, o)
  PROVE  OrdersInv'
<1> DEFINE now == orderClock + 1
           request == [order |-> o, at |-> now]
<1>1. /\ attending[s].order = 0 /\ retail[o].status # "none" /\ orderClock' = now
      /\ attending' = [attending EXCEPT ![s] = request]
      /\ UNCHANGED <<pipeline, retail, timeline, payments>>
  BY DEF BeginOrderRequest
<1>2. /\ orderClock \in Nat /\ attending \in [Salespeople -> Attendings]
      /\ \A p \in Retail : ListTold(p, timeline[p], attending, orderClock) /\ timeline[p] \in Seq(StageEvents)
      /\ Len(timeline[o]) > 0
  BY <1>1 DEF OrdersInv, Listings, RetailTold
<1>3. now \in Nat /\ orderClock < now /\ request \in Attendings /\ request.order = o /\ request.at = now
  BY <1>2 DEF Attendings
<1> HIDE DEF now, request
<1>4. attending' \in [Salespeople -> Attendings] /\ attending'[s] = request
      /\ \A t \in Salespeople : t # s => attending'[t] = attending[t]
  BY <1>1, <1>2, <1>3
<1>5. ASSUME NEW p \in Retail PROVE ListTold(p, timeline[p], attending', now)
  <2>1. \A t \in Salespeople : attending'[t].order = p =>
          \/ attending[t].order = p /\ attending'[t].at = attending[t].at
          \/ Len(timeline[p]) > 0 /\ attending'[t].at = now /\ orderClock < now
    BY <1>2, <1>3, <1>4
  <2>2. orderClock <= now
    BY <1>2, <1>3
  <2> QED
    BY <1>2, <1>3, <2>1, <2>2, ListKept
<1>6. Listings'
  BY <1>1, <1>3, <1>4, <1>5 DEF Listings
<1> QED
  BY <1>1, <1>6 DEF OrdersInv

LEMMA DropStep ==
  ASSUME OrdersInv, NEW s \in Salespeople, DropOrderRequest(s)
  PROVE  OrdersInv'
<1>1. /\ attending' = [attending EXCEPT ![s] = NotAttending]
      /\ UNCHANGED <<pipeline, retail, timeline, payments, orderClock>>
  BY DEF DropOrderRequest
<1>2. /\ orderClock \in Nat /\ attending \in [Salespeople -> Attendings]
      /\ \A p \in Retail : ListTold(p, timeline[p], attending, orderClock) /\ timeline[p] \in Seq(StageEvents)
  BY DEF OrdersInv, Listings, RetailTold
<1>3. NotAttending \in Attendings /\ NotAttending.order = 0 /\ 0 \notin Retail
  BY DEF NotAttending, Attendings, Retail
<1>4. attending' \in [Salespeople -> Attendings] /\ attending'[s] = NotAttending
      /\ \A t \in Salespeople : t # s => attending'[t] = attending[t]
  BY <1>1, <1>2, <1>3
<1>5. ASSUME NEW p \in Retail PROVE ListTold(p, timeline[p], attending', orderClock)
  <2>1. \A t \in Salespeople : attending'[t].order = p => attending[t].order = p /\ attending'[t].at = attending[t].at
    BY <1>3, <1>4
  <2>2. orderClock <= orderClock
    BY <1>2
  <2> QED
    BY <1>2, <2>1, <2>2, ListKept
<1>6. Listings'
  BY <1>1, <1>2, <1>4, <1>5 DEF Listings
<1> QED
  BY <1>1, <1>6 DEF OrdersInv

\* A new order: its first row of the timeline, and what is paid at booking.
LEMMA Booked ==
  ASSUME NEW type \in OrderTypes, NEW total \in Nat, NEW advance \in Nat, advance <= total + Tolerance, NEW at \in Nat,
         NEW row, NEW event, NEW paid,
         row = [NoRetail EXCEPT !.status = "active", !.type = type, !.stage = firstStage(type),
                  !.total = total, !.advance = advance, !.balance = total - advance],
         event = [at |-> at, from |-> "none", to |-> firstStage(type), direction |-> "forward", reason |-> FALSE,
                  terminal |-> FALSE],
         paid = IF advance > 0 THEN <<advance>> ELSE <<>>
  PROVE  RetailTold(row, <<event>>, paid)
<1>1. firstStage(type) \in ALL_STAGE_KEYS /\ 1 \in DOMAIN ORDER_PIPELINES[type] /\ ORDER_PIPELINES[type][1] = firstStage(type)
  BY StagesKnown DEF firstStage
<1>2. /\ row.status = "active" /\ row.type = type /\ row.stage = firstStage(type) /\ row.total = total
      /\ row.advance = advance /\ row.balance = total - advance
  BY DEF NoRetail
<1>3. row \in RetailRows
  <2> DEFINE r == [NoRetail EXCEPT !.status = "active", !.type = type, !.stage = firstStage(type)]
  <2>1. r \in RetailRows
    <3> DEFINE q == [NoRetail EXCEPT !.status = "active", !.type = type]
    <3>1. NoRetail \in RetailRows
      BY DEF NoRetail, RetailRows
    <3>2. q \in RetailRows
      BY <3>1 DEF RetailRows
    <3>3. r = [q EXCEPT !.stage = firstStage(type)]
      BY DEF NoRetail
    <3> HIDE DEF q, r
    <3> QED
      BY <1>1, <3>2, <3>3 DEF RetailRows
  <2>2. row = [r EXCEPT !.total = total, !.advance = advance, !.balance = total - advance]
    BY DEF NoRetail
  <2>3. total - advance \in Int
    OBVIOUS
  <2> HIDE DEF r
  <2> QED
    BY <2>1, <2>2, <2>3 DEF RetailRows
<1>4. /\ event \in StageEvents /\ event.direction = "forward" /\ event.from = "none" /\ event.to = firstStage(type)
      /\ event.terminal = FALSE
  BY <1>1 DEF StageEvents
<1>5. paid \in Seq(Nat) /\ SumFunction(paid) = advance
  <2>1. CASE advance > 0
    <3>1. paid = Append(<<>>, advance) /\ <<>> \in Seq(Int) /\ advance \in Int
      BY <2>1
    <3>2. DOMAIN <<>> = {}
      OBVIOUS
    <3>3. SumFunction(<<>>) = 0
      BY <3>2, SumOfNone DEF SumFunction
    <3>4. SumFunction(paid) = SumFunction(<<>>) + advance
      BY <3>1, SumOfAppended
    <3>5. paid \in Seq(Nat)
      BY <2>1
    <3> QED
      BY <3>3, <3>4, <3>5
  <2>2. CASE ~(advance > 0)
    <3>1. paid = <<>> /\ advance = 0
      BY <2>2
    <3>2. DOMAIN <<>> = {}
      OBVIOUS
    <3>3. SumFunction(<<>>) = 0
      BY <3>2, SumOfNone DEF SumFunction
    <3> QED
      BY <3>1, <3>3
  <2> QED
    BY <2>1, <2>2
<1>6. <<event>> \in Seq(StageEvents) /\ Len(<<event>>) = 1 /\ <<event>>[1] = event
  BY <1>4
<1> DEFINE rows == <<event>>
<1> HIDE DEF rows
<1>7. /\ \A n \in 1..1 : rows[n] = event
      /\ Len(rows) = 1 /\ rows \in Seq(StageEvents)
  BY <1>6 DEF rows
<1>8. RetailTold(row, rows, paid)
  <2>1. row.type \in OrderTypes /\ \E n \in DOMAIN ORDER_PIPELINES[row.type] : ORDER_PIPELINES[row.type][n] = row.stage
    BY <1>1, <1>2
  <2>2. row.status = "active" <=> \A n \in 1..Len(rows) : rows[n].direction # "same" /\ ~rows[n].terminal
    BY <1>2, <1>4, <1>7
  <2>3. row.advance = SumFunction(paid) /\ row.balance = row.total - row.advance /\ row.balance >= -Tolerance
    <3>1. Tolerance \in Nat
      BY OrdersAssumption
    <3> QED
      BY <1>2, <1>5, <3>1
  <2>4. row.status = "cancelled" <=> rows[Len(rows)].direction = "same"
    BY <1>2, <1>4, <1>7
  <2>5. CameTo(rows, row.stage)
    <3> SUFFICES ASSUME NEW stage \in ALL_STAGE_KEYS
                 PROVE  Cardinality({n \in 1..1 : rows[n].to = stage}) - Cardinality({n \in 1..1 : rows[n].from = stage})
                          = IF stage = row.stage THEN 1 ELSE 0
      BY <1>7 DEF CameTo
    <3>1. 1..1 = {1} /\ rows[1].to = row.stage /\ rows[1].from = "none"
      BY <1>2, <1>4, <1>7
    <3>2. {n \in 1..1 : rows[n].from = stage} = {}
      BY <3>1, NoneNoStage
    <3>3. {n \in 1..1 : rows[n].to = stage} = IF stage = row.stage THEN {1} ELSE {}
      BY <3>1
    <3>4. Cardinality({}) = 0 /\ Cardinality({1}) = 1
      BY FS_EmptySet, FS_Singleton
    <3>5. Cardinality({n \in 1..1 : rows[n].from = stage}) = 0
      BY <3>2, <3>4
    <3>6. Cardinality({n \in 1..1 : rows[n].to = stage}) = IF stage = row.stage THEN 1 ELSE 0
      BY <3>3, <3>4
    <3> QED
      BY <3>5, <3>6
  <2> QED
    BY <1>2, <1>3, <1>4, <1>5, <1>7, <2>1, <2>2, <2>3, <2>4, <2>5 DEF RetailTold
<1> QED
  BY <1>8 DEF rows

LEMMA CreateStep ==
  ASSUME OrdersInv, createRetailOrder
  PROVE  OrdersInv'
<1>1. PICK type \in OrderTypes, total \in Totals, advance \in Instalments \cup {0} :
      \E o \in {o \in Retail : retail[o].status = "none" /\ \A p \in 1..o - 1 : retail[p].status # "none"} :
        /\ total > 0 => advance <= total
        /\ advance <= total + Tolerance
        /\ orderClock < MaxBegun
        /\ orderClock' = orderClock + 1
        /\ retail' = [retail EXCEPT ![o] = [NoRetail EXCEPT !.status = "active", !.type = type, !.stage = firstStage(type),
                        !.total = total, !.advance = advance, !.balance = total - advance]]
        /\ recordStage(o, orderClock + 1, "none", firstStage(type), "forward", FALSE, FALSE)
        /\ payments' = IF advance > 0 THEN [payments EXCEPT ![o] = <<advance>>] ELSE payments
        /\ UNCHANGED <<pipeline, attending>>
  BY Zenon DEF createRetailOrder
<1>2. PICK o \in {o \in Retail : retail[o].status = "none" /\ \A p \in 1..o - 1 : retail[p].status # "none"} :
        /\ total > 0 => advance <= total
        /\ advance <= total + Tolerance
        /\ orderClock < MaxBegun
        /\ orderClock' = orderClock + 1
        /\ retail' = [retail EXCEPT ![o] = [NoRetail EXCEPT !.status = "active", !.type = type, !.stage = firstStage(type),
                        !.total = total, !.advance = advance, !.balance = total - advance]]
        /\ recordStage(o, orderClock + 1, "none", firstStage(type), "forward", FALSE, FALSE)
        /\ payments' = IF advance > 0 THEN [payments EXCEPT ![o] = <<advance>>] ELSE payments
        /\ UNCHANGED <<pipeline, attending>>
  BY <1>1, Zenon
<1> DEFINE row == [NoRetail EXCEPT !.status = "active", !.type = type, !.stage = firstStage(type),
                     !.total = total, !.advance = advance, !.balance = total - advance]
           now == orderClock + 1
           event == [at |-> now, from |-> "none", to |-> firstStage(type), direction |-> "forward", reason |-> FALSE,
                     terminal |-> FALSE]
           paid == IF advance > 0 THEN <<advance>> ELSE <<>>
<1>3. total \in Nat /\ advance \in Nat
  <2>1. 0 \in Nat /\ Totals \subseteq Nat /\ Instalments \subseteq Nat
    BY OrdersAssumption
  <2> QED
    BY <2>1, Zenon
<1>4. RetailTold(row, <<event>>, paid)
  <2>1. orderClock \in Nat
    BY DEF OrdersInv, Listings
  <2>2. orderClock + 1 \in Nat /\ advance <= total + Tolerance
    BY <1>2, <2>1
  <2> QED
    BY <1>3, <2>2, Booked, Zenon
<1>5. o \in Retail /\ timeline[o] = <<>> /\ payments[o] = <<>> /\ pipeline' = pipeline
  BY <1>2 DEF OrdersInv, RetailTold
<1>6. retail' = [retail EXCEPT ![o] = row]
  BY <1>2, Zenon
<1>7. timeline' = [timeline EXCEPT ![o] = <<event>>]
  <2>1. timeline' = [timeline EXCEPT ![o] = Append(timeline[o], event)]
    BY <1>2 DEF recordStage
  <2>2. Append(<<>>, event) = <<event>>
    OBVIOUS
  <2> QED
    BY <1>5, <2>1, <2>2, Zenon
<1>8. payments' = [payments EXCEPT ![o] = paid]
  <2>1. CASE advance > 0
    BY <1>2, <2>1
  <2>2. CASE ~(advance > 0)
    <3>1. paid = payments[o] /\ payments' = payments /\ payments = [k \in Retail |-> payments[k]]
      BY <1>2, <1>5, <2>2 DEF OrdersInv
    <3> HIDE DEF paid
    <3> QED
      BY <1>5, <3>1
  <2> QED
    BY <2>1, <2>2
<1>9. Listings'
  <2>1. event.at = now /\ orderClock \in Nat /\ now \in Nat /\ orderClock < now /\ orderClock <= now /\ orderClock' = now
    BY <1>2 DEF OrdersInv, Listings
  <2>2. /\ attending' = attending /\ attending \in [Salespeople -> Attendings]
        /\ \A p \in Retail : ListTold(p, timeline[p], attending, orderClock) /\ timeline[p] \in Seq(StageEvents)
        /\ timeline = [p \in Retail |-> timeline[p]]
    BY <1>2 DEF OrdersInv, Listings, RetailTold
  <2> HIDE DEF event, now, row, paid
  <2>3. timeline'[o] = <<event>> /\ \A p \in Retail : p # o => timeline'[p] = timeline[p]
    BY <1>5, <1>7, <2>2
  <2>4. \A s \in Salespeople : attending[s].order # o
    <3>1. Len(timeline[o]) = 0
      BY <1>5
    <3> QED
      BY <1>5, <2>2, <3>1 DEF ListTold
  <2>5. ListTold(o, <<event>>, attending, now)
    <3> DEFINE rows == <<event>>
    <3>1. Len(rows) = 1 /\ rows[1] = event
      OBVIOUS
    <3> HIDE DEF rows
    <3>2. 1..1 = {1} /\ 2..1 = {} /\ now \in 1..now
      BY <2>1
    <3>3. Overtaking(rows, 1) = {}
      BY <3>1, <3>2 DEF Overtaking
    <3>4. Waiting(attending, o, rows[1].at) = {}
      BY <2>4 DEF Waiting
    <3>5. Cardinality(Overtaking(rows, 1)) = 0 /\ Cardinality(Waiting(attending, o, rows[1].at)) = 0
      BY <3>3, <3>4, FS_EmptySet
    <3>8. Cardinality(Salespeople) \in Nat /\ Cardinality(Salespeople) # 0
      BY FS_EmptySet, FS_CardinalityType, OrdersAssumption
    <3>6. Cardinality(Overtaking(rows, 1)) + Cardinality(Waiting(attending, o, rows[1].at)) < Cardinality(Salespeople)
      BY <3>5, <3>8
    <3>7. ListTold(o, rows, attending, now)
      BY <2>1, <2>4, <3>1, <3>2, <3>6 DEF ListTold
    <3> QED
      BY <3>7 DEF rows
  <2>6. ASSUME NEW p \in Retail PROVE ListTold(p, timeline[p], attending, now)
    BY <2>1, <2>2, ListKept
  <2> QED
    BY <2>1, <2>2, <2>3, <2>5, <2>6 DEF Listings
<1> HIDE DEF row, event, paid
<1> QED
  BY <1>4, <1>5, <1>6, <1>7, <1>8, <1>9, OneOrder

\* A stage an order may move to, in the pipeline in force, is a built-in one of its type.
LEMMA MoveTo ==
  ASSUME NEW t \in OrderTypes, NEW from, NEW to, stageMoveDirection(t, from, to) \in {"forward", "backward"}
  PROVE  \E n \in DOMAIN ORDER_PIPELINES[t] : ORDER_PIPELINES[t][n] = to
<1>1. stageIndex(t, to) # 0
  BY DEF stageMoveDirection
<1> QED
  BY <1>1 DEF stageIndex

LEMMA TerminalKnown ==
  ASSUME pipeline \in Overrides, NEW t \in OrderTypes, NEW n \in DOMAIN pipelineFor(t)
  PROVE  pipelineFor(t)[n].terminal \in BOOLEAN
<1>1. CASE pipeline[t] # <<>>
  <2>1. pipeline[t] \in Seq([key : STRING, terminal : BOOLEAN])
    BY OrdersAssumption
  <2>2. pipelineFor(t) = pipeline[t]
    BY <1>1 DEF pipelineFor
  <2>3. pipeline[t][n] \in [key : STRING, terminal : BOOLEAN]
    <3> DEFINE R == [key : STRING, terminal : BOOLEAN]
               stages == pipeline[t]
    <3>1. n \in DOMAIN stages
      BY <2>2
    <3> HIDE DEF R, stages
    <3>2. stages \in Seq(R)
      BY <2>1 DEF R, stages
    <3>3. stages[n] \in R
      BY <3>1, <3>2
    <3> QED
      BY <3>3 DEF R, stages
  <2> QED
    BY <2>2, <2>3
<1>2. CASE pipeline[t] = <<>>
  <2>1. pipelineFor(t) = [m \in DOMAIN ORDER_PIPELINES[t] |->
                           [key |-> ORDER_PIPELINES[t][m], terminal |-> m = Len(ORDER_PIPELINES[t])]]
    BY <1>2 DEF pipelineFor
  <2>2. n \in DOMAIN ORDER_PIPELINES[t]
    BY <2>1
  <2>3. pipelineFor(t)[n] = [key |-> ORDER_PIPELINES[t][n], terminal |-> n = Len(ORDER_PIPELINES[t])]
    BY <2>1, <2>2
  <2> DEFINE last == n = Len(ORDER_PIPELINES[t])
             stage == ORDER_PIPELINES[t][n]
  <2>4. last \in BOOLEAN /\ pipelineFor(t)[n] = [key |-> stage, terminal |-> last]
    BY <2>3, Zenon
  <2> HIDE DEF last, stage
  <2> QED
    BY <2>4
<1> QED
  BY <1>1, <1>2

\* How many rows say something, with one row more that does.
LEMMA OneRowMore ==
  ASSUME NEW k \in Nat, NEW S \in SUBSET (1..k)
  PROVE  Cardinality(S) \in Nat /\ Cardinality(S \cup {k + 1}) = Cardinality(S) + 1
<1>1. 1 \in Int /\ k \in Int /\ k + 1 \notin 1..k
  OBVIOUS
<1>2. IsFiniteSet(S) /\ k + 1 \notin S
  BY <1>1, FS_Interval, FS_Subset
<1> QED
  BY <1>2, FS_CardinalityType, FS_AddElement

\* A row that leaves the stage the order is at brings it to the one it goes to.
LEMMA CameAgain ==
  ASSUME NEW rows \in Seq(StageEvents), NEW event \in StageEvents, CameTo(rows, event.from)
  PROVE  CameTo(Append(rows, event), event.to)
<1> DEFINE all == Append(rows, event)
           k == Len(rows)
<1>1. k \in Nat /\ Len(all) = k + 1 /\ all[k + 1] = event /\ \A n \in 1..k : all[n] = rows[n]
  OBVIOUS
<1> HIDE DEF all
<1>2. ASSUME NEW stage \in ALL_STAGE_KEYS
      PROVE  Cardinality({n \in 1..(k + 1) : all[n].to = stage}) - Cardinality({n \in 1..(k + 1) : all[n].from = stage})
               = IF stage = event.to THEN 1 ELSE 0
  <2> DEFINE To == {n \in 1..k : rows[n].to = stage}
             From == {n \in 1..k : rows[n].from = stage}
             ToAll == {n \in 1..(k + 1) : all[n].to = stage}
             FromAll == {n \in 1..(k + 1) : all[n].from = stage}
             came == event.to = stage
             left == event.from = stage
  <2>1. Cardinality(To) - Cardinality(From) = IF left THEN 1 ELSE 0
    BY DEF CameTo
  <2>2. \A n : n \in 1..(k + 1) <=> n \in 1..k \/ n = k + 1
    BY <1>1
  <2>3. ToAll = IF came THEN To \cup {k + 1} ELSE To
    BY <1>1, <2>2
  <2>4. FromAll = IF left THEN From \cup {k + 1} ELSE From
    BY <1>1, <2>2
  <2>5. To \in SUBSET (1..k) /\ From \in SUBSET (1..k) /\ came \in BOOLEAN /\ left \in BOOLEAN
    OBVIOUS
  <2> HIDE DEF To, From, ToAll, FromAll, came, left
  <2>6. Cardinality(To) \in Nat /\ Cardinality(To \cup {k + 1}) = Cardinality(To) + 1
    BY <1>1, <2>5, OneRowMore
  <2>7. Cardinality(From) \in Nat /\ Cardinality(From \cup {k + 1}) = Cardinality(From) + 1
    BY <1>1, <2>5, OneRowMore
  <2>8. Cardinality(ToAll) - Cardinality(FromAll) = IF came THEN 1 ELSE 0
    BY <2>1, <2>3, <2>4, <2>6, <2>7
  <2> QED
    BY <2>8 DEF ToAll, FromAll, came
<1>3. CameTo(all, event.to)
  BY <1>1, <1>2 DEF CameTo
<1> QED
  BY <1>3 DEF all

\* One row more of the timeline.
LEMMA Moved ==
  ASSUME NEW row, NEW rows, NEW paid, RetailTold(row, rows, paid), row.status \notin {"none", "cancelled"},
         NEW event \in StageEvents, event.from = row.stage, event.direction = "backward" => event.reason,
         NEW after \in RetailRows, after.type = row.type, after.total = row.total, after.advance = row.advance,
         after.balance = row.balance, after.stage = event.to,
         \E n \in DOMAIN ORDER_PIPELINES[row.type] : ORDER_PIPELINES[row.type][n] = event.to,
         after.status = IF event.direction = "same" THEN "cancelled" ELSE IF event.terminal THEN "completed" ELSE row.status
  PROVE  RetailTold(after, Append(rows, event), paid)
<1> DEFINE now == Append(rows, event)
           n == Len(rows)
<1>1. /\ row \in RetailRows /\ rows \in Seq(StageEvents) /\ paid \in Seq(Nat) /\ row.status \in {"active", "completed"}
      /\ row.status \in {"none", "active", "completed", "cancelled"}
  BY DEF RetailTold, RetailRows
<1>2. /\ now \in Seq(StageEvents) /\ Len(now) = n + 1 /\ n \in Nat /\ now[n + 1] = event /\ \A i \in 1..n : now[i] = rows[i]
  BY <1>1
<1>3. /\ n > 0 /\ rows[1].from = "none" /\ rows[1].to = firstStage(row.type)
      /\ \A i \in 2..n : rows[i].from = rows[i - 1].to /\ rows[i - 1].direction # "same"
      /\ \A i \in 1..n : rows[i].direction = "backward" => rows[i].reason
      /\ rows[n].to = row.stage
      /\ row.status = "active" <=> \A i \in 1..n : rows[i].direction # "same" /\ ~rows[i].terminal
      /\ row.status = "cancelled" <=> rows[n].direction = "same"
      /\ row.advance = SumFunction(paid) /\ row.balance = row.total - row.advance /\ row.balance >= -Tolerance
      /\ row.type \in OrderTypes
  BY DEF RetailTold
<1> HIDE DEF now, n
<1>4. /\ now[1].from = "none" /\ now[1].to = firstStage(after.type)
      /\ now[n + 1].to = after.stage
  BY <1>2, <1>3
<1>5. ASSUME NEW i \in 2..(n + 1) PROVE now[i].from = now[i - 1].to /\ now[i - 1].direction # "same"
  <2>1. CASE i \in 2..n
    <3>1. i \in 1..n /\ i - 1 \in 1..n
      BY <1>2, <2>1
    <3> QED
      BY <1>2, <1>3, <2>1, <3>1
  <2>2. CASE i = n + 1
    <3>1. i - 1 = n /\ n \in 1..n
      <4>1. n \in Nat /\ n > 0
        BY <1>2, <1>3
      <4> QED
        BY <2>2, <4>1
    <3>2. now[n] = rows[n]
      BY <1>2, <3>1
    <3> QED
      BY <1>1, <1>2, <1>3, <2>2, <3>1, <3>2
  <2> QED
    BY <1>2, <2>1, <2>2
<1>6. ASSUME NEW i \in 1..(n + 1) PROVE now[i].direction = "backward" => now[i].reason
  <2>1. i \in 1..n \/ i = n + 1
    BY <1>2
  <2> QED
    BY <1>2, <1>3, <2>1
<1>7. after.status = "active" <=> \A i \in 1..(n + 1) : now[i].direction # "same" /\ ~now[i].terminal
  <2>1. (\A i \in 1..(n + 1) : now[i].direction # "same" /\ ~now[i].terminal)
          <=> (\A i \in 1..n : rows[i].direction # "same" /\ ~rows[i].terminal) /\ event.direction # "same" /\ ~event.terminal
    <3>1. \A i \in 1..n : i \in 1..(n + 1)
      BY <1>2
    <3>2. n + 1 \in 1..(n + 1)
      BY <1>2
    <3>3. \A i \in 1..(n + 1) : i \in 1..n \/ i = n + 1
      BY <1>2
    <3> QED
      BY <1>2, <3>1, <3>2, <3>3, Zenon
  <2>2. after.status = "active" <=> row.status = "active" /\ event.direction # "same" /\ ~event.terminal
    OBVIOUS
  <2> QED
    BY <1>3, <2>1, <2>2, Zenon
<1>8. after.status = "cancelled" <=> now[n + 1].direction = "same"
  BY <1>1, <1>2
<1>9. after.status # "none"
  BY <1>1
<1>10. CameTo(now, after.stage)
  <2>1. CameTo(rows, row.stage)
    BY DEF RetailTold
  <2>2. Len(rows) = n /\ now = Append(rows, event)
    BY DEF now, n
  <2> QED
    BY <1>1, <2>1, <2>2, CameAgain
<1>11. RetailTold(after, now, paid)
  BY <1>1, <1>2, <1>3, <1>4, <1>5, <1>6, <1>7, <1>8, <1>9, <1>10 DEF RetailTold
<1> QED
  BY <1>11 DEF now

LEMMA MoveStep ==
  ASSUME OrdersInv, NEW s \in Salespeople, NEW o \in Retail, moveStage(s, o)
  PROVE  OrdersInv'
<1>1. /\ retail[o].status \notin {"none", "cancelled"} /\ pipeline' = pipeline /\ payments' = payments
  BY DEF moveStage, Movable, Attended
<1>2. PICK n \in DOMAIN pipelineFor(retail[o].type), reason \in BOOLEAN :
       LET row == retail[o]
           target == pipelineFor(row.type)[n]
           direction == stageMoveDirection(row.type, row.stage, target.key)
       IN
       /\ direction \in {"forward", "backward"}
       /\ direction = "backward" => reason
       /\ retail' = [retail EXCEPT ![o].stage = target.key, ![o].status = IF target.terminal THEN "completed" ELSE @]
       /\ recordStage(o, attending[s].at, row.stage, target.key, direction, reason, target.terminal)
  BY Zenon DEF moveStage
<1> DEFINE row == retail[o]
           target == pipelineFor(row.type)[n]
           direction == stageMoveDirection(row.type, row.stage, target.key)
           event == [at |-> attending[s].at, from |-> row.stage, to |-> target.key, direction |-> direction, reason |-> reason,
                     terminal |-> target.terminal]
           after == [row EXCEPT !.stage = target.key, !.status = IF target.terminal THEN "completed" ELSE @]
<1>3. /\ direction \in {"forward", "backward"} /\ (direction = "backward" => reason)
      /\ retail' = [retail EXCEPT ![o].stage = target.key, ![o].status = IF target.terminal THEN "completed" ELSE @]
      /\ timeline' = [timeline EXCEPT ![o] = Append(timeline[o], event)]
  BY <1>2 DEF recordStage
<1>4. RetailTold(row, timeline[o], payments[o]) /\ o \in DOMAIN retail
  BY DEF OrdersInv
<1>5. retail' = [retail EXCEPT ![o] = after]
  BY <1>3, <1>4
<1>6. row.type \in OrderTypes /\ target.terminal \in BOOLEAN /\ row.stage \in ALL_STAGE_KEYS
  <2>1. row.type \in OrderTypes
    BY <1>1, <1>4 DEF RetailTold
  <2>2. target.terminal \in BOOLEAN
    BY <2>1, TerminalKnown DEF OrdersInv
  <2>3. row.stage \in ALL_STAGE_KEYS
    BY <1>1, <1>4, <2>1, StagesKnown DEF RetailTold
  <2> QED
    BY <2>1, <2>2, <2>3
<1>7. target.key \in ALL_STAGE_KEYS /\ \E m \in DOMAIN ORDER_PIPELINES[row.type] : ORDER_PIPELINES[row.type][m] = target.key
  <2>1. \E m \in DOMAIN ORDER_PIPELINES[row.type] : ORDER_PIPELINES[row.type][m] = target.key
    BY <1>3, <1>6, MoveTo
  <2> QED
    BY <1>6, <2>1, StagesKnown
<1>10. attending[s].at \in Nat
  BY DEF OrdersInv, Listings, Attendings
<1>11. event \in StageEvents /\ event.at = attending[s].at
  BY <1>3, <1>6, <1>7, <1>10 DEF StageEvents
<1>8. RetailTold(after, Append(timeline[o], event), payments[o])
  <2>1. row \in RetailRows
    BY <1>4 DEF RetailTold
  <2> HIDE DEF row, target, direction
  <2>2. /\ event \in StageEvents /\ event.from = row.stage /\ event.to = target.key /\ event.direction = direction
        /\ (event.direction = "backward" => event.reason) /\ event.terminal = target.terminal
    BY <1>3, <1>11
  <2>3. /\ after \in RetailRows /\ after.type = row.type /\ after.total = row.total /\ after.advance = row.advance
        /\ after.balance = row.balance /\ after.stage = target.key
        /\ after.status = IF target.terminal THEN "completed" ELSE row.status
    BY <1>7, <2>1 DEF RetailRows
  <2>4. row.status \notin {"none", "cancelled"}
    BY <1>1 DEF row
  <2> HIDE DEF event, after
  <2>5. after.status = IF event.direction = "same" THEN "cancelled" ELSE IF event.terminal THEN "completed" ELSE row.status
    BY <1>3, <2>2, <2>3
  <2> QED
    BY <1>4, <1>7, <2>2, <2>3, <2>4, <2>5, Moved
<1>9. payments' = [payments EXCEPT ![o] = payments[o]]
  BY <1>1 DEF OrdersInv
<1>12. Attended(s, o)
  BY DEF moveStage
<1> HIDE DEF after, event
<1> QED
  <2>1. pipeline' = pipeline
    BY <1>1
  <2>2. timeline' = [timeline EXCEPT ![o] = Append(timeline[o], event)]
    BY <1>3
  <2>3. Listings'
    BY <1>11, <1>12, <2>2, ListsJoined
  <2> QED
    BY <1>5, <1>8, <1>9, <2>1, <2>2, <2>3, OneOrder, Zenon

LEMMA CancelStep ==
  ASSUME OrdersInv, NEW s \in Salespeople, NEW o \in Retail, cancelRetailOrder(s, o)
  PROVE  OrdersInv'
<1> DEFINE row == retail[o]
           event == [at |-> attending[s].at, from |-> row.stage, to |-> row.stage, direction |-> "same", reason |-> TRUE,
                     terminal |-> FALSE]
           after == [row EXCEPT !.status = "cancelled"]
<1>1. /\ row.status \notin {"none", "cancelled"} /\ pipeline' = pipeline /\ payments' = payments
      /\ retail' = [retail EXCEPT ![o].status = "cancelled"]
      /\ timeline' = [timeline EXCEPT ![o] = Append(timeline[o], event)]
  BY DEF cancelRetailOrder, recordStage, Attended
<1>2. RetailTold(row, timeline[o], payments[o]) /\ o \in DOMAIN retail
  BY DEF OrdersInv
<1>3. retail' = [retail EXCEPT ![o] = after]
  BY <1>1, <1>2
<1>4. /\ row \in RetailRows /\ row.type \in OrderTypes /\ row.stage \in ALL_STAGE_KEYS
      /\ \E m \in DOMAIN ORDER_PIPELINES[row.type] : ORDER_PIPELINES[row.type][m] = row.stage
  <2>1. /\ row \in RetailRows /\ row.type \in OrderTypes
        /\ \E m \in DOMAIN ORDER_PIPELINES[row.type] : ORDER_PIPELINES[row.type][m] = row.stage
    BY <1>1, <1>2 DEF RetailTold
  <2> QED
    BY <2>1, StagesKnown
<1>7. /\ event \in StageEvents /\ event.at = attending[s].at
      /\ event.from = row.stage /\ event.to = row.stage /\ event.direction = "same"
  <2>1. attending[s].at \in Nat
    BY DEF OrdersInv, Listings, Attendings
  <2> HIDE DEF row
  <2> QED
    BY <1>4, <2>1 DEF StageEvents
<1>5. RetailTold(after, Append(timeline[o], event), payments[o])
  <2>1. row.status \notin {"none", "cancelled"}
    BY <1>1
  <2> HIDE DEF row
  <2>2. event \in StageEvents /\ event.from = row.stage /\ event.to = row.stage /\ event.direction = "same"
    BY <1>7
  <2>3. /\ after \in RetailRows /\ after.type = row.type /\ after.total = row.total /\ after.advance = row.advance
        /\ after.balance = row.balance /\ after.stage = row.stage /\ after.status = "cancelled"
    BY <1>4 DEF RetailRows
  <2>4. after.status = IF event.direction = "same" THEN "cancelled" ELSE IF event.terminal THEN "completed" ELSE row.status
    BY <2>2, <2>3
  <2> HIDE DEF event, after
  <2> QED
    BY <1>2, <1>4, <2>1, <2>2, <2>3, <2>4, Moved
<1>6. payments' = [payments EXCEPT ![o] = payments[o]]
  BY <1>1 DEF OrdersInv
<1>8. Attended(s, o)
  BY DEF cancelRetailOrder
<1> HIDE DEF after, event
<1>9. Listings'
  BY <1>1, <1>7, <1>8, ListsJoined
<1> QED
  BY <1>1, <1>3, <1>5, <1>6, <1>9, OneOrder

LEMMA PaymentStep ==
  ASSUME OrdersInv, NEW o \in Retail, recordPayment(o)
  PROVE  OrdersInv'
<1>1. PICK amount \in Instalments :
        /\ retail[o].status # "none"
        /\ Len(payments[o]) < MaxPayments
        /\ retail[o].advance + amount <= retail[o].total + Tolerance
        /\ payments' = [payments EXCEPT ![o] = Append(@, amount)]
        /\ retail' = [retail EXCEPT ![o].advance = @ + amount, ![o].balance = balanceAfter(o, amount)]
        /\ UNCHANGED <<pipeline, timeline, orderClock, attending>>
  BY Zenon DEF recordPayment
<1> DEFINE row == retail[o]
           after == [row EXCEPT !.advance = row.advance + amount, !.balance = row.total - (row.advance + amount)]
           paid == Append(payments[o], amount)
<1>2. RetailTold(row, timeline[o], payments[o]) /\ o \in DOMAIN retail
  BY DEF OrdersInv
<1>3. retail' = [retail EXCEPT ![o] = after]
  BY <1>1, <1>2 DEF balanceAfter
<1>4. amount \in Nat /\ row \in RetailRows /\ payments[o] \in Seq(Nat)
  BY <1>2, OrdersAssumption DEF RetailTold
<1>5. paid \in Seq(Nat) /\ SumFunction(paid) = SumFunction(payments[o]) + amount
  <2>1. payments[o] \in Seq(Int) /\ amount \in Int
    BY <1>4
  <2>2. SumFunction(paid) = SumFunction(payments[o]) + amount
    BY <2>1, SumOfAppended
  <2> QED
    BY <1>4, <2>2
<1>6. RetailTold(after, timeline[o], paid)
  <2>1. row.status # "none" /\ row.advance + amount <= row.total + Tolerance /\ Tolerance \in Nat
    BY <1>1, OrdersAssumption
  <2> HIDE DEF row, paid
  <2>2. row.advance \in Nat /\ row.total \in Nat
    BY <1>4 DEF RetailRows
  <2>3. /\ row.advance + amount \in Nat /\ row.total - (row.advance + amount) \in Int 
        /\ row.total - (row.advance + amount) >= -Tolerance
    BY <1>4, <2>1, <2>2
  <2>4. /\ after \in RetailRows /\ after.type = row.type /\ after.stage = row.stage /\ after.status = row.status
        /\ after.total = row.total /\ after.advance = row.advance + amount /\ after.balance = row.total - (row.advance + amount)
    BY <1>4, <2>3 DEF RetailRows
  <2> HIDE DEF after
  <2>5. after.advance = SumFunction(paid) /\ after.balance = after.total - after.advance /\ after.balance >= -Tolerance
    BY <1>2, <1>5, <2>1, <2>3, <2>4 DEF RetailTold
  <2> QED
    BY <1>2, <1>5, <2>1, <2>4, <2>5 DEF RetailTold
<1>7. timeline' = [timeline EXCEPT ![o] = timeline[o]] /\ pipeline' = pipeline /\ payments' = [payments EXCEPT ![o] = paid]
  BY <1>1 DEF OrdersInv
<1>8. Listings'
  BY <1>1, ListsStay DEF OrdersInv
<1> HIDE DEF after, paid
<1> QED
  BY <1>3, <1>6, <1>7, <1>8, OneOrder

LEMMA AcknowledgeStep ==
  ASSUME OrdersInv, NEW o \in Retail, acknowledge(o)
  PROVE  OrdersInv'
<1> DEFINE row == retail[o]
           after == [row EXCEPT !.acknowledged = TRUE]
<1>1. /\ row.status # "none" /\ retail' = [retail EXCEPT ![o].acknowledged = TRUE] 
      /\ UNCHANGED <<pipeline, timeline, payments, orderClock, attending>>
  BY DEF acknowledge
<1>2. RetailTold(row, timeline[o], payments[o]) /\ o \in DOMAIN retail
  BY DEF OrdersInv
<1>3. retail' = [retail EXCEPT ![o] = after]
  BY <1>1, <1>2
<1>4. RetailTold(after, timeline[o], payments[o])
  <2>1. row \in RetailRows
    BY <1>2 DEF RetailTold
  <2> HIDE DEF row
  <2>2. /\ after \in RetailRows /\ after.type = row.type /\ after.stage = row.stage /\ after.status = row.status
        /\ after.total = row.total /\ after.advance = row.advance /\ after.balance = row.balance
    BY <2>1 DEF RetailRows
  <2> HIDE DEF after
  <2> QED
    BY <1>2, <2>2 DEF RetailTold
<1>5. /\ timeline' = [timeline EXCEPT ![o] = timeline[o]] /\ pipeline' = pipeline
      /\ payments' = [payments EXCEPT ![o] = payments[o]]
  BY <1>1 DEF OrdersInv
<1>6. Listings'
  BY <1>1, ListsStay DEF OrdersInv
<1> HIDE DEF after
<1> QED
  BY <1>3, <1>4, <1>5, <1>6, OneOrder

LEMMA OrdersNextInv == OrdersInv /\ [OrdersNext]_ordersVars => OrdersInv'
<1> SUFFICES ASSUME OrdersInv, [OrdersNext]_ordersVars PROVE OrdersInv'
  OBVIOUS
<1>1. CASE UNCHANGED ordersVars
  BY <1>1, ListsStay DEF ordersVars, OrdersInv
<1>2. CASE createRetailOrder
  BY <1>2, CreateStep
<1>3. ASSUME NEW o \in Retail, recordPayment(o) \/ acknowledge(o) PROVE OrdersInv'
  BY <1>3, PaymentStep, AcknowledgeStep
<1>4. ASSUME NEW s \in Salespeople, DropOrderRequest(s) PROVE OrdersInv'
  BY <1>4, DropStep
<1>5. ASSUME NEW s \in Salespeople, NEW o \in Retail, BeginOrderRequest(s, o) \/ moveStage(s, o) \/ cancelRetailOrder(s, o)
      PROVE  OrdersInv'
  BY <1>5, BeginStep, MoveStep, CancelStep
<1> QED
  BY <1>1, <1>2, <1>3, <1>4, <1>5 DEF OrdersNext

LEMMA OrdersInvTell == OrdersInv => TimelineTells
<1> SUFFICES ASSUME OrdersInv, NEW o \in Retail, retail[o].status # "none"
             PROVE  LET rows == timeline[o]
                        written == DOMAIN rows
                    IN
                    /\ \A stage \in ALL_STAGE_KEYS :
                         Cardinality({n \in written : rows[n].to = stage}) - Cardinality({n \in written : rows[n].from = stage})
                           = IF stage = retail[o].stage THEN 1 ELSE 0
                    /\ retail[o].status = IF \E n \in written : rows[n].direction = "same" THEN "cancelled"
                                          ELSE IF \E n \in written : rows[n].terminal THEN "completed" ELSE "active"
                    /\ \A n \in written : rows[n].direction = "backward" => rows[n].reason
                    /\ rows[1].from = "none" /\ rows[1].to = firstStage(retail[o].type) /\ ListedAbove(o, 1) = {}
                    /\ \A n \in 2..Len(rows) : rows[n].from = rows[n - 1].to /\ rows[n - 1].direction # "same"
                    /\ \A n \in written : Cardinality(ListedAbove(o, n) \ 1..n) < Cardinality(Salespeople)
                    /\ retail[o].advance = SumFunction(payments[o])
                    /\ retail[o].balance = retail[o].total - retail[o].advance /\ retail[o].balance >= -Tolerance
                    /\ pipeline[retail[o].type] = <<>> /\ retail[o].status = "active" => o \in UNION Range(board(retail[o].type))
  BY DEF TimelineTells
<1>1. RetailTold(retail[o], timeline[o], payments[o]) /\ ListTold(o, timeline[o], attending, orderClock)
  BY DEF OrdersInv, Listings
<1> DEFINE rows == timeline[o]
           k == Len(rows)
           status == retail[o].status
<1>2. DOMAIN rows = 1..k /\ k \in Nat /\ k > 0
  BY <1>1 DEF RetailTold
<1>4. status = IF \E n \in 1..k : rows[n].direction = "same" THEN "cancelled"
               ELSE IF \E n \in 1..k : rows[n].terminal THEN "completed" ELSE "active"
  <2>1. /\ status \in {"none", "active", "completed", "cancelled"} /\ status # "none"
        /\ \A n \in 2..k : rows[n - 1].direction # "same"
        /\ status = "active" <=> \A n \in 1..k : rows[n].direction # "same" /\ ~rows[n].terminal
        /\ status = "cancelled" <=> rows[k].direction = "same"
    BY <1>1 DEF RetailTold, RetailRows
  <2> HIDE DEF rows, k, status
  <2>2. ASSUME NEW n \in 1..k, rows[n].direction = "same" PROVE n = k
    <3>1. n + 1 \in 2..k \/ n = k
      BY <1>2
    <3>2. n + 1 \in 2..k => rows[(n + 1) - 1].direction # "same"
      BY <2>1
    <3>3. (n + 1) - 1 = n
      BY <1>2
    <3> QED
      BY <2>2, <3>1, <3>2, <3>3
  <2>3. k \in 1..k
    BY <1>2
  <2>4. (\E n \in 1..k : rows[n].direction = "same") <=> status = "cancelled"
    BY <2>1, <2>2, <2>3
  <2> QED
    BY <2>1, <2>4
<1>5. ListedAbove(o, 1) = {}
  <2>1. \A n \in 2..k : rows[1].at < rows[n].at
    BY <1>1 DEF ListTold
  <2>2. \A n \in 1..k : rows[n].at \in Int
    <3>1. \A n \in 1..k : rows[n] \in StageEvents
      BY <1>1 DEF RetailTold
    <3> QED
      BY <3>1 DEF StageEvents
  <2>3. ListedAbove(o, 1) = {m \in 1..k : rows[m].at < rows[1].at}
    BY <1>2 DEF ListedAbove
  <2> HIDE DEF rows, k
  <2>4. 1 \in 1..k /\ \A n \in 1..k : n = 1 \/ n \in 2..k
    BY <1>2
  <2>5. \A n \in 1..k : ~(rows[n].at < rows[1].at)
    BY <2>1, <2>2, <2>4
  <2> QED
    BY <2>3, <2>5
<1>6. ASSUME NEW n \in 1..k PROVE Cardinality(ListedAbove(o, n) \ 1..n) < Cardinality(Salespeople)
  <2> DEFINE A == Overtaking(rows, n)
             W == Waiting(attending, o, rows[n].at)
  <2>1. ListedAbove(o, n) \ 1..n = A
    BY <1>2 DEF ListedAbove, Overtaking
  <2>2. Cardinality(A) + Cardinality(W) < Cardinality(Salespeople)
    BY <1>1 DEF ListTold
  <2>3. A \in SUBSET (1..k) /\ W \in SUBSET Salespeople
    BY DEF Overtaking, Waiting
  <2> HIDE DEF A, W, rows, k
  <2>4. IsFiniteSet(1..k)
    <3>1. 1 \in Int /\ k \in Int
      BY <1>2
    <3> QED
      BY <3>1, FS_Interval
  <2>5. Cardinality(A) \in Nat /\ Cardinality(W) \in Nat /\ Cardinality(Salespeople) \in Nat
    BY <2>3, <2>4, FS_Subset, FS_CardinalityType, OrdersAssumption
  <2>6. Cardinality(A) < Cardinality(Salespeople)
    BY <2>2, <2>5
  <2> QED
    BY <2>1, <2>6, Zenon
<1>7. /\ CameTo(rows, retail[o].stage)
      /\ \A n \in 1..k : rows[n].direction = "backward" => rows[n].reason
      /\ rows[1].from = "none" /\ rows[1].to = firstStage(retail[o].type)
      /\ \A n \in 2..k : rows[n].from = rows[n - 1].to /\ rows[n - 1].direction # "same"
      /\ retail[o].advance = SumFunction(payments[o])
      /\ retail[o].balance = retail[o].total - retail[o].advance /\ retail[o].balance >= -Tolerance
  BY <1>1 DEF RetailTold
<1>3. ASSUME pipeline[retail[o].type] = <<>>, retail[o].status = "active" PROVE o \in UNION Range(board(retail[o].type))
  <2> DEFINE t == retail[o].type
  <2>1. PICK n \in DOMAIN ORDER_PIPELINES[t] : ORDER_PIPELINES[t][n] = retail[o].stage
    BY <1>1 DEF RetailTold
  <2>2. pipelineFor(t) = [m \in DOMAIN ORDER_PIPELINES[t] |->
                           [key |-> ORDER_PIPELINES[t][m], terminal |-> m = Len(ORDER_PIPELINES[t])]]
    BY <1>3 DEF pipelineFor
  <2>3. n \in DOMAIN pipelineFor(t) /\ pipelineFor(t)[n].key = retail[o].stage
    BY <2>1, <2>2
  <2>4. n \in DOMAIN board(t) /\ o \in board(t)[n]
    BY <1>3, <2>3 DEF board
  <2> QED
    BY <2>4 DEF Range
<1> QED
  BY <1>2, <1>3, <1>4, <1>5, <1>6, <1>7, Zenon DEF CameTo

-------------------------------------------------------------------------------
\* Number series

\* Where a document stands beside the counter of its series: numbered in another year, or
\* below what the counter gives next.
Passed(d, f, rows, y) ==
  \/ f.restarts /\ d.text.year # y
  \/ d.text.counter < rows[d.series].next /\ (f.restarts => rows[d.series].period = y)

DocumentTold(d, rows, y, e) ==
  /\ d.text.year <= y /\ d.edition <= e
  /\ d.text.branch \in {d.branch, Shared}
  /\ d.text.branch = Shared => d.series = Shared
  /\ rows[d.series].made

SeriesInv ==
  /\ SeriesTypeOK
  /\ counter[Shared].made
  /\ edition \in 0..MaxEdition
  /\ \A d \in documents : /\ DocumentTold(d, counter, year, edition)
                          /\ d.edition = edition => Passed(d, format, counter, year)

LEMMA SeriesInitInv == SeriesInit => SeriesInv
<1> SUFFICES ASSUME SeriesInit PROVE SeriesInv
  OBVIOUS
<1>1. format \in Formats
  BY DEF SeriesInit, Formats
<1>2. \A m \in BOOLEAN : [NoSeries EXCEPT !.made = m] \in CounterRows
  BY SeriesAssumption DEF NoSeries, CounterRows, NoYear
<1>3. counter \in [CountingBranches \cup {Shared} -> CounterRows] /\ counter[Shared].made
  <2>1. \A s \in CountingBranches \cup {Shared} : (s = Shared) \in BOOLEAN
    OBVIOUS
  <2>2. [NoSeries EXCEPT !.made = Shared = Shared].made
    BY DEF NoSeries
  <2> QED
    BY <1>2, <2>1, <2>2 DEF SeriesInit
<1> QED
  BY <1>1, <1>3, SeriesAssumption DEF SeriesInit, SeriesInv, SeriesTypeOK

\* What the documents are.
SeriesDocuments == [text : Texts, branch : CountingBranches, series : CountingBranches \cup {Shared}, edition : 0..MaxEdition]

LEMMA SeriesInvFacts ==
  ASSUME SeriesInv
  PROVE  /\ year \in 1..MaxYear /\ MaxYear \in Nat /\ year \in Nat /\ trading \subseteq CountingBranches
         /\ FirstBranch \in trading
         /\ format \in Formats /\ format.restarts \in BOOLEAN /\ (format.restarts => format.years)
         /\ counter \in [CountingBranches \cup {Shared} -> CounterRows]
         /\ documents \subseteq SeriesDocuments
         /\ edition \in Nat
  BY SeriesAssumption DEF SeriesInv, SeriesTypeOK, Formats, SeriesDocuments

LEMMA NewYearInv == SeriesInv /\ NewYear => SeriesInv'
<1> SUFFICES ASSUME SeriesInv, NewYear PROVE SeriesInv'
  OBVIOUS
<1>1. year' = year + 1 /\ year < MaxYear /\ UNCHANGED <<trading, format, counter, edition, documents>>
  BY DEF NewYear
<1>2. year' \in 1..MaxYear
  BY <1>1, SeriesInvFacts
<1>3. SeriesTypeOK'
  BY <1>1, <1>2 DEF SeriesInv, SeriesTypeOK
<1>4. ASSUME NEW d \in documents
      PROVE  /\ DocumentTold(d, counter, year', edition)
             /\ d.edition = edition => Passed(d, format, counter, year')
  <2>1. DocumentTold(d, counter, year, edition) /\ (d.edition = edition => Passed(d, format, counter, year))
    BY DEF SeriesInv
  <2>2. d.text.year \in Int
    BY SeriesInvFacts, SeriesAssumption DEF SeriesDocuments, Texts, NoYear
  <2>3. d.text.year < year'
    BY <1>1, <2>1, <2>2, SeriesInvFacts DEF DocumentTold
  <2> QED
    BY <1>1, <2>1, <2>2, <2>3, SeriesInvFacts DEF DocumentTold, Passed
<1> QED
  BY <1>1, <1>3, <1>4 DEF SeriesInv

LEMMA OpenBranchInv == ASSUME SeriesInv, NEW b \in CountingBranches, OpenBranch(b) PROVE SeriesInv'
  BY DEF SeriesInv, OpenBranch, SeriesTypeOK

LEMMA takeNumberInv == ASSUME SeriesInv, NEW b \in CountingBranches, takeNumber(b) PROVE SeriesInv'
<1> DEFINE s == seriesOf(b)
           n == nextCounter(s)
           text == formatSeriesNumber(b, n)
           doc == [text |-> text, branch |-> b, series |-> s, edition |-> edition]
           key == periodKey(format)
<1>1. /\ b \in trading /\ n <= MaxCounter
      /\ counter' = [counter EXCEPT ![s].next = n + 1, ![s].period = key]
      /\ documents' = documents \cup {doc}
      /\ UNCHANGED <<year, trading, format, edition>>
  BY DEF takeNumber
<1>2. s \in CountingBranches \cup {Shared} /\ counter[s].made
  BY DEF seriesOf, SeriesInv
<1>3. counter[s] \in CounterRows /\ n \in 1..MaxCounter /\ key \in {NoYear} \cup 1..MaxYear
  <2>1. counter[s] \in CounterRows
    BY <1>2, SeriesInvFacts
  <2>2. counter[s].next \in 1..MaxCounter + 1 /\ MaxCounter \in Nat
    BY <2>1, SeriesAssumption DEF CounterRows
  <2>3. n \in 1..MaxCounter + 1
    BY <2>2 DEF nextCounter
  <2>4. n \in 1..MaxCounter
    <3> HIDE DEF n
    <3> QED
      BY <1>1, <2>2, <2>3
  <2>5. key \in {NoYear} \cup 1..MaxYear
    BY SeriesInvFacts DEF periodKey
  <2> QED
    BY <2>1, <2>4, <2>5
<1>4. text \in Texts /\ text.counter = n /\ text.year <= year /\ text.branch \in {b, Shared}
      /\ (text.branch = Shared => s = Shared) /\ (format.restarts => text.year = year)
  <2>1. format.prefix \in SeriesPrefixes
    BY SeriesInvFacts DEF Formats
  <2>2. CASE format.perBranch
    BY <1>3, <2>1, <2>2, SeriesInvFacts, SeriesAssumption DEF formatSeriesNumber, Texts, NoYear
  <2>3. CASE ~format.perBranch
    BY <1>3, <2>1, <2>3, SeriesInvFacts, SeriesAssumption DEF formatSeriesNumber, Texts, NoYear, seriesOf
  <2> QED
    BY <2>2, <2>3
<1> HIDE DEF s, n, text, key
<1>5. doc \in SeriesDocuments
  BY <1>2, <1>4 DEF SeriesDocuments, SeriesInv
<1>6. counter' \in [CountingBranches \cup {Shared} -> CounterRows]
      /\ (counter'[s].made <=> counter[s].made) /\ counter'[s].next = n + 1 /\ counter'[s].period = key
      /\ \A r \in CountingBranches \cup {Shared} : r # s => counter'[r] = counter[r]
  <2> DEFINE row == [counter[s] EXCEPT !.next = n + 1, !.period = key]
  <2>1. row.next = n + 1 /\ row.period = key /\ (row.made <=> counter[s].made)
    BY <1>3 DEF CounterRows
  <2>2. n + 1 \in 1..MaxCounter + 1
    BY <1>3, SeriesAssumption
  <2>3. row \in CounterRows
    BY <1>3, <2>2 DEF CounterRows
  <2>4. counter' = [counter EXCEPT ![s] = row]
    BY <1>1, <1>2, SeriesInvFacts
  <2> HIDE DEF row
  <2> QED
    BY <1>2, <2>1, <2>3, <2>4, SeriesInvFacts
<1>7. SeriesTypeOK'
  BY <1>1, <1>5, <1>6 DEF SeriesInv, SeriesTypeOK, SeriesDocuments
<1>8. counter'[s].made /\ counter'[s].next = n + 1 /\ counter'[s].period = key
  BY <1>2, <1>6
<1>9. \A r \in CountingBranches \cup {Shared} : counter[r].made => counter'[r].made
  BY <1>6, <1>8
<1>10. ASSUME NEW d \in documents
       PROVE  /\ DocumentTold(d, counter', year, edition)
              /\ d.edition = edition => Passed(d, format, counter', year)
  <2>1. DocumentTold(d, counter, year, edition) /\ (d.edition = edition => Passed(d, format, counter, year))
    BY DEF SeriesInv
  <2>2. d \in SeriesDocuments
    BY SeriesInvFacts
  <2>3. DocumentTold(d, counter', year, edition)
    BY <1>9, <2>1, <2>2 DEF DocumentTold, SeriesDocuments
  <2>4. ASSUME d.edition = edition PROVE Passed(d, format, counter', year)
    <3>1. CASE d.series # s
      BY <1>6, <2>1, <2>2, <2>4, <3>1 DEF Passed, SeriesDocuments
    <3>2. CASE d.series = s /\ ~(format.restarts /\ d.text.year # year)
      <4>1. d.text.counter < counter[s].next /\ (format.restarts => counter[s].period = year)
        BY <2>1, <2>4, <3>2 DEF Passed
      <4>2. n = counter[s].next
        BY <4>1 DEF n, nextCounter
      <4>3. format.restarts => key = year
        BY DEF key, periodKey
      <4>4. d.text.counter \in Int /\ n \in Int
        BY <1>3, <2>2 DEF SeriesDocuments, Texts
      <4>5. d.text.counter < n + 1
        BY <4>1, <4>2, <4>4
      <4> QED
        BY <1>8, <3>2, <4>3, <4>5 DEF Passed
    <3>3. CASE format.restarts /\ d.text.year # year
      BY <3>3 DEF Passed
    <3> QED
      BY <3>1, <3>2, <3>3
  <2> QED
    BY <2>3, <2>4
<1>11. DocumentTold(doc, counter', year, edition) /\ Passed(doc, format, counter', year)
  <2>1. doc.text = text /\ doc.branch = b /\ doc.series = s /\ doc.edition = edition
    OBVIOUS
  <2>2. DocumentTold(doc, counter', year, edition)
    BY <1>4, <1>8, <2>1, SeriesInvFacts DEF DocumentTold
  <2>3. format.restarts => key = year
    BY DEF key, periodKey
  <2>4. n < n + 1
    BY <1>3
  <2> HIDE DEF doc
  <2>5. doc.text.counter < counter'[doc.series].next
    BY <1>4, <1>8, <2>1, <2>4
  <2>6. format.restarts => counter'[doc.series].period = year
    BY <1>8, <2>1, <2>3
  <2> QED
    BY <2>2, <2>5, <2>6 DEF Passed
<1> HIDE DEF doc
<1>12. counter'[Shared].made
  BY <1>9 DEF SeriesInv
<1> QED
  BY <1>1, <1>7, <1>10, <1>11, <1>12 DEF SeriesInv

\* A given last number is never below what the shared series has used.
LEMMA editSeriesInv == SeriesInv /\ editSeries => SeriesInv'
<1> SUFFICES ASSUME SeriesInv, editSeries PROVE SeriesInv'
  OBVIOUS
<1>1. PICK f \in Formats, given \in BOOLEAN, last \in LastNumbers :
        LET restarted == f.restarts # format.restarts IN
        /\ given => mayContinue(last)
        /\ edition + (IF restarted THEN 1 ELSE 0) <= MaxEdition
        /\ edition' = edition + (IF restarted THEN 1 ELSE 0)
        /\ format' = f
        /\ counter' = [s \in DOMAIN counter |->
             IF s = Shared
             THEN [counter[s] EXCEPT !.next = IF given THEN last + 1 ELSE @,
                                     !.period = IF given \/ restarted THEN periodKey(f) ELSE @]
             ELSE IF f.perBranch /\ s \in trading /\ ~counter[s].made THEN [NoSeries EXCEPT !.made = TRUE] ELSE counter[s]]
        /\ UNCHANGED <<year, trading, documents>>
  BY ZenonT(30) DEF editSeries
<1> DEFINE restarted == f.restarts # format.restarts
           next == IF given THEN last + 1 ELSE counter[Shared].next
           period == IF given \/ restarted THEN periodKey(f) ELSE counter[Shared].period
           row == [counter[Shared] EXCEPT !.next = next, !.period = period]
<1>2. counter[Shared] \in CounterRows /\ counter[Shared].made /\ DOMAIN counter = CountingBranches \cup {Shared}
  BY SeriesInvFacts DEF SeriesInv
<1>3. next \in 1..MaxCounter + 1
  <2>1. last \in 0..MaxCounter /\ MaxCounter \in Nat
    BY SeriesAssumption
  <2>2. counter[Shared].next \in 1..MaxCounter + 1
    BY <1>2 DEF CounterRows
  <2> QED
    BY <2>1, <2>2
<1>4. period \in {NoYear} \cup 1..MaxYear
  <2>1. periodKey(f) \in {NoYear} \cup 1..MaxYear
    BY SeriesInvFacts DEF periodKey
  <2>2. counter[Shared].period \in {NoYear} \cup 1..MaxYear
    BY <1>2 DEF CounterRows
  <2> QED
    BY <2>1, <2>2
<1>5. row.next = next /\ row.period = period /\ row.made /\ row \in CounterRows
  <2> HIDE DEF next, period
  <2>1. row.next = next /\ row.period = period /\ (row.made <=> counter[Shared].made)
    BY <1>2 DEF CounterRows
  <2>2. row \in CounterRows
    BY <1>2, <1>3, <1>4 DEF CounterRows
  <2> QED
    BY <1>2, <2>1, <2>2
<1>6. counter'[Shared] = row
  BY <1>1, <1>2
<1>7. ASSUME NEW s \in CountingBranches
      PROVE  counter'[s] \in CounterRows /\ (counter[s].made => counter'[s] = counter[s])
  <2>1. counter'[s] = IF f.perBranch /\ s \in trading /\ ~counter[s].made THEN [NoSeries EXCEPT !.made = TRUE] ELSE counter[s]
    BY <1>1, <1>2, SeriesAssumption
  <2>2. [NoSeries EXCEPT !.made = TRUE] \in CounterRows
    <3>1. \A m \in BOOLEAN : [NoSeries EXCEPT !.made = m] \in CounterRows
      BY SeriesAssumption DEF NoSeries, CounterRows, NoYear
    <3> QED
      BY <3>1, Zenon
  <2>3. counter[s] \in CounterRows
    BY SeriesInvFacts
  <2> QED
    BY <2>1, <2>2, <2>3
<1>8. counter' = [s \in CountingBranches \cup {Shared} |-> counter'[s]]
  BY <1>1, <1>2
<1>9. counter' \in [CountingBranches \cup {Shared} -> CounterRows]
  BY <1>5, <1>6, <1>7, <1>8
<1>10. edition' \in 0..MaxEdition /\ edition <= edition' /\ (edition' = edition => ~restarted) /\ edition' \in Nat
  <2>1. edition \in 0..MaxEdition /\ edition \in Nat /\ MaxEdition \in Nat
    BY SeriesAssumption DEF SeriesInv
  <2>2. edition' = edition + (IF restarted THEN 1 ELSE 0) /\ edition + (IF restarted THEN 1 ELSE 0) <= MaxEdition
    BY <1>1
  <2> HIDE DEF restarted
  <2>3. CASE restarted
    BY <2>1, <2>2, <2>3
  <2>4. CASE ~restarted
    BY <2>1, <2>2, <2>4
  <2> QED
    BY <2>3, <2>4
<1>11. SeriesTypeOK'
  BY <1>1, <1>9 DEF SeriesInv, SeriesTypeOK
<1>12. counter'[Shared].made
  BY <1>5, <1>6
<1> HIDE DEF row, next, period
<1>13. ASSUME NEW d \in documents
       PROVE  /\ DocumentTold(d, counter', year, edition')
              /\ d.edition = edition' => Passed(d, f, counter', year)
  <2>1. DocumentTold(d, counter, year, edition) /\ (d.edition = edition => Passed(d, format, counter, year))
    BY DEF SeriesInv
  <2>2. d \in SeriesDocuments /\ d.edition \in Nat
    BY SeriesInvFacts, SeriesAssumption DEF SeriesDocuments
  <2>3. counter'[d.series].made
    BY <1>7, <1>12, <2>1, <2>2 DEF DocumentTold, SeriesDocuments
  <2>4. DocumentTold(d, counter', year, edition')
    <3>1. d.edition <= edition'
      BY <1>10, <2>1, <2>2, SeriesInvFacts DEF DocumentTold
    <3> QED
      BY <2>1, <2>3, <3>1 DEF DocumentTold
  <2>5. ASSUME d.edition = edition' PROVE Passed(d, f, counter', year)
    <3>1. edition = edition' /\ ~restarted
      <4>1. d.edition <= edition
        BY <2>1 DEF DocumentTold
      <4> HIDE DEF restarted
      <4> QED
        BY <1>10, <2>2, <2>5, <4>1, SeriesInvFacts
    <3>2. f.restarts = format.restarts /\ Passed(d, format, counter, year)
      BY <2>1, <2>5, <3>1
    <3>3. CASE d.series # Shared
      <4>1. counter'[d.series] = counter[d.series]
        BY <1>7, <2>1, <2>2, <3>3 DEF DocumentTold, SeriesDocuments
      <4> QED
        BY <3>2, <4>1 DEF Passed
    <3>4. CASE d.series = Shared /\ ~(format.restarts /\ d.text.year # year)
      <4>1. d.text.counter < counter[Shared].next /\ (format.restarts => counter[Shared].period = year)
        BY <3>2, <3>4 DEF Passed
      <4>2. d.text.counter \in Int /\ counter[Shared].next \in Int /\ next \in Int
        BY <1>2, <1>3, <2>2 DEF SeriesDocuments, Texts, CounterRows
      <4>3. counter[Shared].next <= next
        <5>1. CASE given
          <6>1. last >= nextCounter(Shared) - 1 /\ last \in Int
            <7>1. mayContinue(last)
              BY <1>1, <5>1, Zenon
            <7> QED
              BY <7>1, SeriesAssumption DEF mayContinue
          <6>2. nextCounter(Shared) = counter[Shared].next
            BY <4>1 DEF nextCounter
          <6> QED
            BY <4>2, <5>1, <6>1, <6>2 DEF next
        <5>2. CASE ~given
          BY <4>2, <5>2 DEF next
        <5> QED
          BY <5>1, <5>2
      <4>4. f.restarts => period = year
        BY <3>1, <3>2, <4>1 DEF period, periodKey
      <4>5. d.text.counter < next
        BY <4>1, <4>2, <4>3
      <4> QED
        BY <1>5, <1>6, <3>4, <4>4, <4>5 DEF Passed
    <3>5. CASE format.restarts /\ d.text.year # year
      BY <3>2, <3>5 DEF Passed
    <3> QED
      BY <3>3, <3>4, <3>5
  <2> QED
    BY <2>4, <2>5
<1> QED
  BY <1>1, <1>10, <1>11, <1>12, <1>13 DEF SeriesInv

LEMMA SeriesNextInv == SeriesInv /\ [SeriesNext]_seriesVars => SeriesInv'
<1> SUFFICES ASSUME SeriesInv, [SeriesNext]_seriesVars PROVE SeriesInv'
  OBVIOUS
<1>1. CASE UNCHANGED seriesVars
  BY <1>1 DEF seriesVars, SeriesInv, SeriesTypeOK
<1> QED
  BY <1>1, NewYearInv, OpenBranchInv, takeNumberInv, editSeriesInv DEF SeriesNext

\* Equal numbers of one edition have one series behind them only when their counter has
\* come round, which it does in another year.
LEMMA SeriesInvOnce == SeriesInv => NumbersOnce
<1> SUFFICES ASSUME SeriesInv, NEW b \in trading, NEW d \in documents,
                    d.edition = edition, d.text = formatSeriesNumber(b, nextCounter(seriesOf(b)))
             PROVE  d.branch = b /\ d.series # seriesOf(b)
  BY DEF NumbersOnce
<1> DEFINE s == seriesOf(b)
<1>1. DocumentTold(d, counter, year, edition) /\ Passed(d, format, counter, year) /\ d \in SeriesDocuments
  BY SeriesInvFacts DEF SeriesInv
<1>2. /\ d.text.branch = IF format.perBranch THEN b ELSE Shared
      /\ d.text.year = IF format.years THEN year ELSE NoYear
      /\ d.text.counter = nextCounter(s)
  BY DEF formatSeriesNumber
<1>3. b \in CountingBranches /\ b # Shared
  BY SeriesInvFacts, SeriesAssumption
<1>4. s \in CountingBranches \cup {Shared} /\ counter[s] \in CounterRows /\ counter[s].next \in Int
  <2>1. s \in CountingBranches \cup {Shared}
    BY <1>3 DEF seriesOf
  <2> HIDE DEF s
  <2>2. counter[s] \in CounterRows
    BY <2>1, SeriesInvFacts
  <2> QED
    BY <2>1, <2>2, SeriesAssumption DEF CounterRows
<1>5. d.series # s
  <2> SUFFICES ASSUME d.series = s PROVE FALSE
    OBVIOUS
  <2>1. format.restarts => d.text.year = year
    BY <1>2, SeriesInvFacts
  <2>2. d.text.counter < counter[s].next /\ (format.restarts => counter[s].period = year)
    BY <1>1, <2>1 DEF Passed
  <2>3. nextCounter(s) = counter[s].next
    BY <2>2 DEF nextCounter
  <2> HIDE DEF s
  <2> QED
    BY <1>2, <1>4, <2>2, <2>3
<1>6. d.branch = b
  <2>1. CASE format.perBranch
    BY <1>1, <1>2, <1>3, <2>1 DEF DocumentTold
  <2>2. CASE ~format.perBranch
    <3>1. s = Shared /\ d.text.branch = Shared
      BY <1>2, <2>2 DEF seriesOf
    <3> QED
      BY <1>1, <1>5, <3>1 DEF DocumentTold
  <2> QED
    BY <2>1, <2>2
<1> QED
  BY <1>5, <1>6

-------------------------------------------------------------------------------
\* Caches of settings, modules and access

\* Rows as they stood at some moment, or stand now, not before a given one.
StoodIn(rows, since, before, now, clock) ==
  \E w \in before \cup {[rows |-> now, until |-> clock]} : w.rows = rows /\ w.until >= since

Stood(rows, since) == StoodIn(rows, since, past, settings, minute)

\* What is kept was true at most a tick before it was kept, and is of no earlier version
\* than its key.
EntriesTold ==
  \A p \in Instances, k \in Keys :
    cache[p][k] # NoEntry => /\ cache[p][k].at \in 0..minute
                            /\ k <= keyOf(cache[p][k].rows)
                            /\ Stood(cache[p][k].rows, cache[p][k].at - 1)

\* What was read and not kept yet was read in this tick or in the one before.
LoadsTold ==
  \A p \in Instances :
    loading[p] # NoLoad => /\ loading[p].at \in 0..minute
                          /\ minute <= loading[p].at + 1
                          /\ version(loading[p].rows) <= version(settings)
                          /\ Stood(loading[p].rows, loading[p].at)

CachesInv ==
  /\ CachesTypeOK /\ kind \in {"config", "modules", "access"}
  /\ change.pc = "open" => version(settings) < MaxChanges
  /\ EntriesTold /\ LoadsTold

LEMMA VersionOfLayers ==
  ASSUME NEW rows \in Layers
  PROVE  version(rows) \in Keys /\ keyOf(rows) \in Keys /\ version(rows) \in Nat
  BY CachesAssumption DEF Layers, Keys, version, keyOf

LEMMA CachesInitInv == CachesInit => CachesInv
<1> SUFFICES ASSUME CachesInit PROVE CachesInv
  OBVIOUS
<1>1. NoLayers \in Layers /\ NoEntry \in Entries /\ NoLoad \in Entries /\ NoChange \in Changes /\ NoChange.pc = "idle"
  BY CachesAssumption DEF NoLayers, Layers, Keys, NoEntry, NoLoad, Entries, NoChange, Changes
<1>2. CachesTypeOK
  BY <1>1, CachesAssumption DEF CachesInit, CachesTypeOK
<1> QED
  BY <1>1, <1>2 DEF CachesInit, CachesInv, EntriesTold, LoadsTold

LEMMA StandsNow ==
  ASSUME NEW before, NEW now, NEW clock \in Nat, NEW since \in Int, since <= clock
  PROVE  StoodIn(now, since, before, now, clock)
<1> DEFINE v == [rows |-> now, until |-> clock]
<1>1. v.rows = now /\ v.until = clock /\ v.until >= since
  OBVIOUS
<1> QED
  BY <1>1 DEF StoodIn

\* Time, or a change of the rows, takes nothing away from what has stood.
LEMMA StillStands ==
  ASSUME NEW before, NEW now, NEW clock \in Nat, NEW before1, NEW now1, NEW clock1 \in Nat, clock <= clock1,
         \/ before1 = before /\ now1 = now
         \/ before1 = before \cup {[rows |-> now, until |-> clock]},
         NEW rows, NEW since \in Int, NEW since1 \in Int, since1 <= since, StoodIn(rows, since, before, now, clock),
         now \in Layers, \A w \in before : w.until \in Nat
  PROVE  StoodIn(rows, since1, before1, now1, clock1)
<1>1. PICK w \in before \cup {[rows |-> now, until |-> clock]} : w.rows = rows /\ w.until >= since
  BY DEF StoodIn
<1>2. w.until \in Nat /\ w.until >= since1
  BY <1>1
<1>3. CASE w \in before1
  BY <1>1, <1>2, <1>3 DEF StoodIn
<1>4. CASE w = [rows |-> now, until |-> clock] /\ now1 = now
  <2> DEFINE v == [rows |-> now1, until |-> clock1]
  <2>1. v.rows = rows /\ v.until = clock1 /\ clock >= since1
    BY <1>1, <1>2, <1>4
  <2>2. clock1 >= since1
    BY <2>1
  <2> QED
    BY <2>1, <2>2 DEF StoodIn
<1> QED
  BY <1>1, <1>3, <1>4

\* Whatever happens to time and to the rows, an entry left alone keeps what is said of it,
\* and so does a load within the tick it may take.
LEMMA EntriesStay ==
  ASSUME CachesInv, minute' \in Nat, minute <= minute', kind' = kind,
         \/ past' = past /\ settings' = settings
         \/ past' = past \cup {[rows |-> settings, until |-> minute]},
         NEW p \in Instances, NEW k \in Keys, cache[p][k] # NoEntry
  PROVE  /\ cache[p][k].at \in 0..minute'
         /\ k <= keyOf(cache[p][k].rows)
         /\ StoodIn(cache[p][k].rows, cache[p][k].at - 1, past', settings', minute')
<1>1. cache[p][k].at \in 0..minute /\ k <= keyOf(cache[p][k].rows) /\ Stood(cache[p][k].rows, cache[p][k].at - 1)
  BY DEF CachesInv, EntriesTold
<1>2. minute \in Nat /\ cache[p][k].at - 1 \in Int /\ cache[p][k].at \in 0..minute'
  BY <1>1, CachesAssumption DEF CachesInv, CachesTypeOK
<1>3. settings \in Layers /\ \A w \in past : w.until \in Nat
  BY CachesAssumption DEF CachesInv, CachesTypeOK
<1> QED
  BY <1>1, <1>2, <1>3, StillStands DEF Stood

LEMMA LoadsStay ==
  ASSUME CachesInv, minute' \in Nat, minute <= minute', kind' = kind,
         \/ past' = past /\ settings' = settings
         \/ past' = past \cup {[rows |-> settings, until |-> minute]},
         NEW p \in Instances, loading[p] # NoLoad
  PROVE  StoodIn(loading[p].rows, loading[p].at, past', settings', minute')
<1>1. loading[p].at \in 0..minute /\ Stood(loading[p].rows, loading[p].at)
  BY DEF CachesInv, LoadsTold
<1>2. minute \in Nat /\ loading[p].at \in Int
  BY <1>1, CachesAssumption DEF CachesInv, CachesTypeOK
<1>3. settings \in Layers /\ \A w \in past : w.until \in Nat
  BY CachesAssumption DEF CachesInv, CachesTypeOK
<1> QED
  BY <1>1, <1>2, <1>3, StillStands DEF Stood

LEMMA CachesNextInv == CachesInv /\ [CachesNext]_cacheVars => CachesInv'
<1> SUFFICES ASSUME CachesInv, [CachesNext]_cacheVars PROVE CachesInv'
  OBVIOUS
<1>0. /\ minute \in Nat /\ settings \in Layers /\ change \in Changes /\ minute <= MaxMinutes /\ MaxMinutes \in Nat
      /\ version(settings) \in Nat
      /\ \A p \in Instances : loading[p] \in Entries /\ \A k \in Keys : cache[p][k] \in Entries
  <2>1. minute \in Nat /\ minute <= MaxMinutes /\ MaxMinutes \in Nat
    BY CachesAssumption DEF CachesInv, CachesTypeOK
  <2> QED
    BY <2>1, VersionOfLayers DEF CachesInv, CachesTypeOK
<1>1. CASE Minute
  <2>1. minute' = minute + 1 /\ minute' \in 0..MaxMinutes /\ minute' \in Nat /\ minute <= minute'
        /\ UNCHANGED <<kind, settings, past, change, cache, loading>>
    BY <1>0, <1>1 DEF Minute
  <2>2. CachesTypeOK'
    BY <2>1 DEF CachesInv, CachesTypeOK
  <2>3. EntriesTold'
    BY <2>1, EntriesStay DEF EntriesTold, Stood, keyOf
  <2>4. LoadsTold'
    <3> SUFFICES ASSUME NEW p \in Instances, loading[p] # NoLoad
                 PROVE  /\ loading[p].at \in 0..minute' /\ minute' <= loading[p].at + 1
                        /\ version(loading[p].rows) <= version(settings)
                        /\ StoodIn(loading[p].rows, loading[p].at, past', settings', minute')
      BY <2>1 DEF LoadsTold, Stood
    <3>1. loading[p].at = minute /\ version(loading[p].rows) <= version(settings)
      BY <1>1 DEF Minute, CachesInv, LoadsTold
    <3>2. StoodIn(loading[p].rows, loading[p].at, past', settings', minute')
      BY <2>1, LoadsStay
    <3> QED
      BY <1>0, <2>1, <3>1, <3>2
  <2> QED
    BY <2>1, <2>2, <2>3, <2>4 DEF CachesInv
<1>2. CASE \E p \in Instances : BeginLoad(p)
  <2>1. PICK p \in Instances : BeginLoad(p)
    BY <1>2
  <2>2. loading' = [loading EXCEPT ![p] = [rows |-> settings, at |-> minute]]
        /\ UNCHANGED <<kind, minute, settings, past, change, cache>>
    BY <2>1 DEF BeginLoad
  <2>3. minute' \in Nat /\ minute <= minute'
    BY <1>0, <2>2
  <2>4. CachesTypeOK'
    <3>1. [rows |-> settings, at |-> minute] \in Entries
      BY <1>0 DEF Entries
    <3> QED
      BY <2>2, <3>1 DEF CachesInv, CachesTypeOK
  <2>5. EntriesTold'
    BY <2>2 DEF CachesInv, EntriesTold, Stood, keyOf
  <2>6. LoadsTold'
    <3> SUFFICES ASSUME NEW q \in Instances, loading'[q] # NoLoad
                 PROVE  /\ loading'[q].at \in 0..minute /\ minute <= loading'[q].at + 1
                        /\ version(loading'[q].rows) <= version(settings)
                        /\ Stood(loading'[q].rows, loading'[q].at)
      BY <2>2 DEF LoadsTold, Stood
    <3>1. CASE q = p
      <4>1. loading'[q].at = minute /\ loading'[q].rows = settings
        BY <2>2, <3>1 DEF CachesInv, CachesTypeOK
      <4>2. Stood(settings, minute)
        BY <1>0, StandsNow DEF Stood
      <4> QED
        BY <1>0, <4>1, <4>2
    <3>2. CASE q # p
      BY <2>2, <3>2 DEF CachesInv, CachesTypeOK, LoadsTold
    <3> QED
      BY <3>1, <3>2
  <2> QED
    BY <2>2, <2>4, <2>5, <2>6 DEF CachesInv
<1>3. CASE \E p \in Instances : FinishLoad(p)
  <2>1. PICK p \in Instances : FinishLoad(p)
    BY <1>3
  <2> DEFINE load == loading[p]
             loaded == IF kind = "access" THEN settings ELSE load.rows
             key == keyOf(load.rows)
  <2>2. /\ load # NoLoad
        /\ cache' = [cache EXCEPT ![p][key] = [rows |-> loaded, at |-> minute]]
        /\ loading' = [loading EXCEPT ![p] = NoLoad]
        /\ UNCHANGED <<kind, minute, settings, past, change>>
    BY <2>1 DEF FinishLoad
  <2>3. load \in Entries /\ load.rows \in Layers /\ key \in Keys /\ loaded \in Layers
    BY <1>0, VersionOfLayers DEF Entries
  <2>4. CachesTypeOK'
    <3>1. [rows |-> loaded, at |-> minute] \in Entries
      BY <1>0, <2>3 DEF Entries
    <3>2. NoLoad \in Entries
      BY CachesAssumption DEF NoLoad, NoLayers, Entries, Layers, Keys
    <3> QED
      BY <2>2, <2>3, <3>1, <3>2 DEF CachesInv, CachesTypeOK
  <2>5. key <= keyOf(loaded) /\ Stood(loaded, minute - 1)
    <3>1. load.at \in 0..minute /\ minute <= load.at + 1 /\ version(load.rows) <= version(settings)
          /\ Stood(load.rows, load.at)
      BY <2>2 DEF CachesInv, LoadsTold
    <3>2. Stood(settings, minute - 1)
      BY <1>0, StandsNow DEF Stood
    <3>3. Stood(load.rows, minute - 1)
      <4>1. load.at \in Int /\ minute - 1 \in Int /\ minute - 1 <= load.at
        BY <1>0, <3>1
      <4>2. \A w \in past : w.until \in Nat
        BY CachesAssumption DEF CachesInv, CachesTypeOK
      <4>3. minute <= minute
        BY <1>0
      <4> HIDE DEF load
      <4> QED
        BY <1>0, <3>1, <4>1, <4>2, <4>3, StillStands DEF Stood
    <3>4. version(load.rows) \in Nat /\ version(settings) \in Nat
      BY <1>0, <2>3, VersionOfLayers
    <3> QED
      BY <3>1, <3>2, <3>3, <3>4 DEF keyOf
  <2>6. EntriesTold'
    <3> SUFFICES ASSUME NEW q \in Instances, NEW k \in Keys, cache'[q][k] # NoEntry
                 PROVE  /\ cache'[q][k].at \in 0..minute /\ k <= keyOf(cache'[q][k].rows)
                        /\ Stood(cache'[q][k].rows, cache'[q][k].at - 1)
      BY <2>2 DEF EntriesTold, Stood, keyOf
    <3>1. CASE q = p /\ k = key
      <4>1. cache'[q][k] = [rows |-> loaded, at |-> minute]
        BY <2>2, <2>3, <3>1 DEF CachesInv, CachesTypeOK
      <4>2. cache'[q][k].rows = loaded /\ cache'[q][k].at = minute /\ minute \in 0..minute
        BY <1>0, <4>1
      <4> QED
        BY <2>5, <3>1, <4>2
    <3>2. CASE q # p \/ k # key
      <4>1. cache'[q][k] = cache[q][k]
        BY <2>2, <2>3, <3>2 DEF CachesInv, CachesTypeOK
      <4> QED
        BY <4>1 DEF CachesInv, EntriesTold
    <3> QED
      BY <3>1, <3>2
  <2>7. LoadsTold'
    BY <2>2 DEF CachesInv, CachesTypeOK, LoadsTold, Stood
  <2> QED
    BY <2>2, <2>4, <2>6, <2>7 DEF CachesInv
<1>a. ASSUME NEW p \in Instances PROVE invalidated(p) \in [Instances -> [Keys -> Entries]]
      /\ \A q \in Instances, k \in Keys : invalidated(p)[q][k] # NoEntry => invalidated(p)[q][k] = cache[q][k]
  <2>1. NoEntry \in Entries
    BY CachesAssumption DEF NoEntry, NoLayers, Entries, Layers, Keys
  <2> QED
    BY <2>1 DEF CachesInv, CachesTypeOK, invalidated
\* What only drops entries, or leaves them, and changes no rows.
<1>b. ASSUME UNCHANGED <<kind, minute, settings, past, loading>>, change' \in Changes,
             change'.pc = "open" => version(settings) < MaxChanges,
             cache' \in [Instances -> [Keys -> Entries]],
             \A q \in Instances, k \in Keys : cache'[q][k] # NoEntry => cache'[q][k] = cache[q][k]
      PROVE  CachesInv'
  <2>1. CachesTypeOK'
    BY <1>b DEF CachesInv, CachesTypeOK
  <2>2. EntriesTold'
    BY <1>b DEF CachesInv, EntriesTold, Stood, keyOf
  <2>3. LoadsTold'
    BY <1>b DEF CachesInv, LoadsTold, Stood
  <2> QED
    BY <1>b, <2>1, <2>2, <2>3 DEF CachesInv
<1>c. NoChange \in Changes /\ NoChange.pc = "idle"
  BY DEF NoChange, Changes
<1>4. CASE \E p \in Instances : BeginChange(p)
  <2>1. PICK p \in Instances : BeginChange(p)
    BY <1>4
  <2>2. PICK layer \in {"shop", "branch"} :
          /\ version(settings) < MaxChanges
          /\ change' = [by |-> p, pc |-> "open", layer |-> layer]
          /\ cache' = IF kind = "modules" THEN cache ELSE invalidated(p)
          /\ UNCHANGED <<kind, minute, settings, past, loading>>
    BY <2>1 DEF BeginChange
  <2>3. change' \in Changes
    BY <2>2 DEF Changes
  <2>4. cache' \in [Instances -> [Keys -> Entries]]
        /\ \A q \in Instances, k \in Keys : cache'[q][k] # NoEntry => cache'[q][k] = cache[q][k]
    BY <1>a, <2>2 DEF CachesInv, CachesTypeOK
  <2> QED
    BY <1>b, <2>2, <2>3, <2>4
<1>5. CASE CommitChange
  <2>1. /\ change.pc = "open"
        /\ settings' = [settings EXCEPT ![change.layer] = version(settings) + 1]
        /\ past' = past \cup {[rows |-> settings, until |-> minute]}
        /\ change' = IF kind = "modules" THEN [change EXCEPT !.pc = "committed"] ELSE NoChange
        /\ UNCHANGED <<kind, minute, cache, loading>>
    BY <1>5 DEF CommitChange
  <2>2. settings' \in Layers /\ version(settings) <= version(settings')
    <3>1. version(settings) + 1 \in Keys
      BY <1>0, <2>1, CachesAssumption DEF CachesInv, Keys
    <3>2. change.layer \in {"shop", "branch"}
      BY <1>0 DEF Changes
    <3>3. CASE change.layer = "shop"
      <4>1. settings' = [shop |-> version(settings) + 1, branch |-> settings.branch]
        BY <1>0, <2>1, <3>3 DEF Layers
      <4>2. settings.branch \in Keys /\ settings'.shop = version(settings) + 1 /\ settings'.branch = settings.branch
        BY <1>0, <4>1 DEF Layers
      <4>3. settings' \in Layers
        BY <3>1, <4>1, <4>2 DEF Layers
      <4> QED
        BY <1>0, <3>1, <4>2, <4>3 DEF Layers, version, Keys
    <3>4. CASE change.layer = "branch"
      <4>1. settings' = [shop |-> settings.shop, branch |-> version(settings) + 1]
        BY <1>0, <2>1, <3>4 DEF Layers
      <4>2. settings.shop \in Keys /\ settings'.branch = version(settings) + 1 /\ settings'.shop = settings.shop
        BY <1>0, <4>1 DEF Layers
      <4>3. settings' \in Layers
        BY <3>1, <4>1, <4>2 DEF Layers
      <4> QED
        BY <1>0, <3>1, <4>2, <4>3 DEF Layers, version, Keys
    <3> QED
      BY <3>2, <3>3, <3>4
  <2>3. change' \in Changes /\ change'.pc # "open"
    BY <1>0, <1>c, <2>1 DEF Changes
  <2>4. CachesTypeOK'
    <3>1. [rows |-> settings, until |-> minute] \in [rows : Layers, until : 0..MaxMinutes]
      BY <1>0
    <3> QED
      BY <2>1, <2>2, <2>3, <3>1 DEF CachesInv, CachesTypeOK
  <2>5. minute' \in Nat /\ minute <= minute'
    BY <1>0, <2>1
  <2>6. EntriesTold'
    BY <2>1, <2>5, EntriesStay DEF EntriesTold, Stood, keyOf
  <2>7. LoadsTold'
    <3> SUFFICES ASSUME NEW p \in Instances, loading[p] # NoLoad
                 PROVE  /\ loading[p].at \in 0..minute /\ minute <= loading[p].at + 1
                        /\ version(loading[p].rows) <= version(settings')
                        /\ StoodIn(loading[p].rows, loading[p].at, past', settings', minute')
      BY <2>1 DEF LoadsTold, Stood
    <3>1. StoodIn(loading[p].rows, loading[p].at, past', settings', minute')
      BY <2>1, <2>5, LoadsStay
    <3>2. loading[p].at \in 0..minute /\ minute <= loading[p].at + 1 /\ version(loading[p].rows) <= version(settings)
      BY DEF CachesInv, LoadsTold
    <3>3. version(loading[p].rows) \in Nat /\ version(settings') \in Nat
      BY <1>0, <2>2, VersionOfLayers DEF Entries
    <3>4. version(loading[p].rows) <= version(settings')
      BY <1>0, <2>2, <3>2, <3>3
    <3> QED
      BY <3>1, <3>2, <3>4
  <2> QED
    BY <2>1, <2>3, <2>4, <2>6, <2>7 DEF CachesInv
<1>6. CASE DropEntry
  <2>1. cache' = invalidated(change.by) /\ change' = NoChange /\ UNCHANGED <<kind, minute, settings, past, loading>>
    BY <1>6 DEF DropEntry
  <2>2. cache' \in [Instances -> [Keys -> Entries]]
        /\ \A q \in Instances, k \in Keys : cache'[q][k] # NoEntry => cache'[q][k] = cache[q][k]
    <3>1. CASE change.by \in Instances
      BY <1>a, <2>1, <3>1
    <3>2. CASE change.by \notin Instances
      BY <2>1, <3>2 DEF CachesInv, CachesTypeOK, invalidated
    <3> QED
      BY <3>1, <3>2
  <2> QED
    BY <1>b, <1>c, <2>1, <2>2
<1>7. CASE RollbackChange
  <2>1. change' = NoChange /\ UNCHANGED <<kind, minute, settings, past, cache, loading>>
    BY <1>7 DEF RollbackChange
  <2>2. cache' \in [Instances -> [Keys -> Entries]]
        /\ \A q \in Instances, k \in Keys : cache'[q][k] # NoEntry => cache'[q][k] = cache[q][k]
    BY <2>1 DEF CachesInv, CachesTypeOK
  <2> QED
    BY <1>b, <1>c, <2>1, <2>2
<1>8. CASE UNCHANGED cacheVars
  BY <1>8 DEF cacheVars, CachesInv, CachesTypeOK, EntriesTold, LoadsTold, Stood, keyOf
<1> QED
  BY <1>1, <1>2, <1>3, <1>4, <1>5, <1>6, <1>7, <1>8 DEF CachesNext

\* What is fresh was kept less than TTL ticks ago, and true at most one before that.
LEMMA CachesInvFresh == CachesInv => ServedFresh
<1> SUFFICES ASSUME CachesInv, NEW p \in Instances, NEW k \in Keys, fresh(p, k)
             PROVE  /\ keyOf(cache[p][k].rows) >= k
                    /\ \A atBranch \in BOOLEAN :
                         \E w \in past \cup {[rows |-> settings, until |-> minute]} :
                           /\ w.until >= minute - TTL
                           /\ effective(cache[p][k].rows, atBranch) = effective(w.rows, atBranch)
  BY DEF ServedFresh
<1>1. minute \in Nat /\ cache[p][k].at \in Int /\ TTL \in Nat \ {0}
  BY CachesAssumption DEF CachesInv, CachesTypeOK, Entries
<1>2. cache[p][k] # NoEntry
  BY <1>1 DEF fresh, NoEntry
<1>3. cache[p][k].at \in 0..minute /\ k <= keyOf(cache[p][k].rows) /\ Stood(cache[p][k].rows, cache[p][k].at - 1)
  BY <1>2 DEF CachesInv, EntriesTold
<1>4. PICK w \in past \cup {[rows |-> settings, until |-> minute]} :
        w.rows = cache[p][k].rows /\ w.until >= cache[p][k].at - 1
  BY <1>3 DEF Stood, StoodIn
<1>5. w.until \in Nat
  BY <1>1, CachesAssumption DEF CachesInv, CachesTypeOK
<1>6. w.until >= minute - TTL
  BY <1>1, <1>3, <1>4, <1>5 DEF fresh
<1>7. keyOf(cache[p][k].rows) >= k
  <2>1. keyOf(cache[p][k].rows) \in Keys
    BY VersionOfLayers DEF CachesInv, CachesTypeOK, Entries
  <2> QED
    BY <1>3, <2>1 DEF Keys
<1> QED
  BY <1>4, <1>6, <1>7
-------------------------------------------------------------------------------
\* Pieces and their HUIDs

Untagged == [status |-> "none", huid |-> NoHuid, billed |-> FALSE, printed |-> FALSE]

\* A piece that was not tagged yet has no papers, and no piece after it was tagged.
PiecesTold ==
  \A p \in Pieces : tagged[p].status = "none" =>
    /\ tagged[p] = Untagged /\ assignments[p] = <<>> /\ labels[p] = <<>>
    /\ \A q \in Pieces : p < q => tagged[q].status = "none"

Distinct(huids) == \A i, j \in DOMAIN huids : huids[i] = huids[j] /\ huids[i] # NoHuid => i = j

\* A clerk tags HUIDs of which no two are the same, and holds the piece whose HUID is changed.
TaskTold(c) ==
  /\ clerk[c].pc = "tagging" => Distinct(clerk[c].huids)
  /\ clerk[c].pc = "assigning" =>
       /\ clerk[c].piece \in Pieces /\ tagged[clerk[c].piece].status = "in_stock"
       /\ Len(clerk[c].huids) = 1 /\ clerk[c].huids[1] \in Huids
  /\ clerk[c].pc = "counting" => \A p \in clerk[c].missing : tagged[p].status # "none"

HuidsApart == \A p, q \in Standing : tagged[p].huid = tagged[q].huid /\ tagged[p].huid # NoHuid => p = q

PaperTold(huid, log) ==
  /\ huid = IF log = <<>> THEN NoHuid ELSE log[Len(log)].huid
  /\ \A i \in DOMAIN log : log[i].superseded <=> i < Len(log)

LabelTold(printed, prints) ==
  /\ printed <=> prints # <<>>
  /\ \A i \in DOMAIN prints : prints[i] = "queue" => i = 1

TagsInv ==
  /\ TagsTypeOK /\ PiecesTold
  /\ \A c \in Clerks : TaskTold(c)
  /\ HuidsApart
  /\ \A p \in Pieces : PaperTold(tagged[p].huid, assignments[p]) /\ LabelTold(tagged[p].printed, labels[p])

LEMMA TagsInvTells == TagsInv => TagsTell
  BY DEF TagsInv, TagsTell, HuidsApart, PaperTold, LabelTold

LEMMA TagsInitInv == TagsInit => TagsInv
<1> SUFFICES ASSUME TagsInit PROVE TagsInv
  OBVIOUS
<1>1. TagsTypeOK
  BY TagsAssumption DEF TagsInit, TagsTypeOK, PieceTags, Tasks, NoTask
<1>2. PiecesTold /\ HuidsApart /\ \A c \in Clerks : TaskTold(c)
  BY DEF TagsInit, PiecesTold, Untagged, HuidsApart, Standing, TaskTold, NoTask
<1>3. \A p \in Pieces : PaperTold(tagged[p].huid, assignments[p]) /\ LabelTold(tagged[p].printed, labels[p])
  BY DEF TagsInit, PaperTold, LabelTold
<1> QED
  BY <1>1, <1>2, <1>3 DEF TagsInv

\* The k-th of some numbers is one of them, and another for another k.
LEMMA KthOf ==
  ASSUME NEW S \in SUBSET Nat, IsFiniteSet(S), NEW k \in 1..Cardinality(S)
  PROVE  \E i \in S : Cardinality({j \in S : j <= i}) = k
<1> DEFINE rank == [i \in S |-> Cardinality({j \in S : j <= i})]
<1>1. ASSUME NEW i \in S PROVE /\ IsFiniteSet({j \in S : j <= i}) /\ rank[i] \in 1..Cardinality(S)
  <2>1. IsFiniteSet({j \in S : j <= i}) /\ Cardinality({j \in S : j <= i}) <= Cardinality(S)
    BY FS_Subset
  <2>2. Cardinality({j \in S : j <= i}) \in Nat /\ Cardinality(S) \in Nat
    BY <2>1, FS_CardinalityType
  <2>3. Cardinality({j \in S : j <= i}) # 0
    <3>1. i \in {j \in S : j <= i}
      OBVIOUS
    <3> QED
      BY <3>1, <2>1, FS_EmptySet
  <2> QED
    BY <2>1, <2>2, <2>3
<1>2. ASSUME NEW i \in S, NEW j \in S, i < j PROVE rank[i] # rank[j]
  <2> DEFINE below == {x \in S : x <= i}
             upTo == {x \in S : x <= j}
  <2>1. below \subseteq upTo /\ j \in upTo /\ j \notin below
    <3>1. i \in Nat /\ j \in Nat /\ \A x \in S : x \in Nat
      OBVIOUS
    <3>2. \A x \in Nat : x <= i => x <= j
      BY <3>1, <1>2
    <3>3. ~(j <= i) /\ j <= j
      BY <3>1, <1>2
    <3> QED
      BY <3>1, <3>2, <3>3, Zenon
  <2>2. IsFiniteSet(below) /\ IsFiniteSet(upTo)
    BY <1>1
  <2> HIDE DEF below, upTo
  <2>3. Cardinality(below) = Cardinality(upTo) => below = upTo
    BY <2>1, <2>2, FS_Subset
  <2>4. Cardinality(below) # Cardinality(upTo)
    BY <2>1, <2>3
  <2> QED
    BY <2>4 DEF below, upTo
<1>3. rank \in Injection(S, 1..Cardinality(S))
  <2>1. \A i, j \in S : rank[i] = rank[j] => i = j
    BY <1>2
  <2>2. rank \in [S -> 1..Cardinality(S)]
    BY <1>1
  <2> HIDE DEF rank
  <2> QED
    BY <2>1, <2>2 DEF Injection, IsInjective
<1>4. Cardinality(S) \in Nat
  BY FS_CardinalityType
<1>5. IsFiniteSet(1..Cardinality(S)) /\ Cardinality(1..Cardinality(S)) = Cardinality(S)
  BY <1>4, FS_Interval
<1> HIDE DEF rank
<1>6. rank \in Surjection(S, 1..Cardinality(S))
  BY <1>3, <1>5, FS_Injection
<1>7. \E i \in S : rank[i] = k
  BY <1>6 DEF Surjection
<1> QED
  BY <1>7 DEF rank

\* Rows that are left out leave no HUID twice.
LEMMA UntakenDistinct ==
  ASSUME NEW huids \in Seq(Huids \cup {NoHuid})
  PROVE  /\ Untaken(huids) \in Seq(Huids \cup {NoHuid})
         /\ Distinct(Untaken(huids))
<1> DEFINE kept == {i \in DOMAIN huids : Kept(huids, i)}
           nth(n) == CHOOSE i \in kept : Cardinality({j \in kept : j <= i}) = n
<1>1. Len(huids) \in Nat /\ DOMAIN huids = 1..Len(huids) /\ \A i \in DOMAIN huids : huids[i] \in Huids \cup {NoHuid}
  OBVIOUS
<1>2. IsFiniteSet(1..Len(huids))
  BY <1>1, FS_Interval
<1>3. kept \subseteq 1..Len(huids) /\ IsFiniteSet(kept)
  BY <1>1, <1>2, FS_Subset
<1>4. Cardinality(kept) \in Nat /\ kept \in SUBSET Nat
  BY <1>3, FS_CardinalityType
<1>5. ASSUME NEW n \in 1..Cardinality(kept) PROVE nth(n) \in kept /\ Cardinality({j \in kept : j <= nth(n)}) = n
  <2> HIDE DEF kept
  <2>1. \E i \in kept : Cardinality({j \in kept : j <= i}) = n
    BY <1>3, <1>4, KthOf
  <2> QED
    BY <2>1
<1>6. Untaken(huids) = [n \in 1..Cardinality(kept) |-> huids[nth(n)]]
  BY DEF Untaken
<1>7. \A i, j \in kept : i < j /\ huids[j] # NoHuid => huids[i] # huids[j]
  BY <1>1 DEF Kept
<1>8. \A i \in kept : huids[i] \in Huids \cup {NoHuid}
  BY <1>1, <1>3
<1> HIDE DEF kept
<1>9. ASSUME NEW n \in 1..Cardinality(kept), NEW m \in 1..Cardinality(kept), n # m, huids[nth(n)] # NoHuid
      PROVE  huids[nth(n)] # huids[nth(m)]
  <2>1. nth(n) \in kept /\ nth(m) \in kept /\ nth(n) # nth(m)
    BY <1>5, <1>9
  <2> HIDE DEF nth
  <2>2. nth(n) < nth(m) \/ nth(m) < nth(n)
    <3>1. nth(n) \in Nat /\ nth(m) \in Nat
      BY <2>1, <1>4, Zenon
    <3> QED
      BY <2>1, <3>1
  <2> QED
    BY <2>1, <2>2, <1>7, <1>9
<1>10. \A n \in 1..Cardinality(kept) : huids[nth(n)] \in Huids \cup {NoHuid}
  BY <1>5, <1>8
<1> HIDE DEF nth
<1>11. Untaken(huids) \in Seq(Huids \cup {NoHuid})
  BY <1>4, <1>6, <1>10
<1>12. Distinct(Untaken(huids))
  BY <1>6, <1>9 DEF Distinct
<1> QED
  BY <1>11, <1>12

\* Pieces are tagged in the order of their numbers.
LEMMA TaggedFirst ==
  ASSUME TagsInv
  PROVE  /\ Cardinality({p \in Pieces : tagged[p].status # "none"}) \in Nat
         /\ \A p \in Pieces : p > Cardinality({q \in Pieces : tagged[q].status # "none"}) => tagged[p].status = "none"
<1> DEFINE known == {p \in Pieces : tagged[p].status # "none"}
<1>1. PICK n \in Nat : Pieces = 1..n
  BY TagsAssumption, FS_CardinalityType
<1>2. \A p \in known, q \in Pieces : q < p => q \in known
  BY <1>1 DEF TagsInv, PiecesTold
<1>3. ASSUME NEW p \in known PROVE p <= Cardinality(known)
  <2>1. 1..p \subseteq known
    <3> SUFFICES ASSUME NEW q \in 1..p PROVE q \in known
      OBVIOUS
    <3>1. q \in Pieces /\ p \in Nat
      BY <1>1
    <3> HIDE DEF known
    <3> QED
      BY <3>1, <1>2
  <2>2. IsFiniteSet(known)
    <3>1. 1 \in Int /\ n \in Int
      OBVIOUS
    <3>2. IsFiniteSet(Pieces)
      BY <1>1, <3>1, FS_Interval
    <3> QED
      BY <3>2, FS_Subset
  <2>3. Cardinality(1..p) = p
    <3>1. 1 \in Int /\ p \in Int /\ p >= 1
      BY <1>1
    <3> HIDE DEF known
    <3> QED
      BY <3>1, FS_Interval
  <2> HIDE DEF known
  <2>4. Cardinality(1..p) <= Cardinality(known)
    BY <2>1, <2>2, FS_Subset
  <2> QED
    BY <2>3, <2>4
<1>4. IsFiniteSet(known)
  BY <1>1, FS_Interval, FS_Subset
<1>5. Cardinality(known) \in Nat /\ \A p \in Pieces : p > Cardinality(known) => p \notin known
  <2> HIDE DEF known
  <2>1. Cardinality(known) \in Nat
    BY <1>4, FS_CardinalityType
  <2> QED
    BY <1>1, <1>3, <2>1
<1> QED
  BY <1>5

LEMMA TagsInvFacts ==
  ASSUME TagsInv
  PROVE  /\ tagged \in [Pieces -> PieceTags] /\ assignments \in [Pieces -> Seq(Assignments)]
         /\ labels \in [Pieces -> Seq({"queue", "reprint"})] /\ clerk \in [Clerks -> Tasks] /\ printer \in BOOLEAN
         /\ PiecesTold /\ HuidsApart /\ \A c \in Clerks : TaskTold(c)
         /\ \A p \in Pieces : PaperTold(tagged[p].huid, assignments[p]) /\ LabelTold(tagged[p].printed, labels[p])
  BY DEF TagsInv, TagsTypeOK

\* A request begun, or dropped, changes no piece.
LEMMA OnlyClerk ==
  ASSUME TagsInv, NEW c \in Clerks, NEW task \in Tasks, clerk' = [clerk EXCEPT ![c] = task],
         UNCHANGED <<tagged, assignments, labels, printer>>, TaskTold(c)'
  PROVE  TagsInv'
<1>1. TagsTypeOK'
  BY TagsInvFacts DEF TagsTypeOK
<1>2. PiecesTold' /\ HuidsApart'
  BY TagsInvFacts DEF PiecesTold, HuidsApart, Standing
<1>3. ASSUME NEW d \in Clerks PROVE TaskTold(d)'
  <2>1. CASE d = c
    BY <2>1
  <2>2. CASE d # c
    <3>1. clerk'[d] = clerk[d]
      BY <2>2, TagsInvFacts
    <3> QED
      BY <3>1, TagsInvFacts DEF TaskTold
  <2> QED
    BY <2>1, <2>2
<1>4. \A p \in Pieces : PaperTold(tagged'[p].huid, assignments'[p]) /\ LabelTold(tagged'[p].printed, labels'[p])
  BY TagsInvFacts
<1> QED
  BY <1>1, <1>2, <1>3, <1>4 DEF TagsInv

LEMMA TagsRequestSteps ==
  ASSUME TagsInv, NEW c \in Clerks,
         \/ \E h, k \in Huids \cup {NoHuid} : BeginTagging(c, <<h, k>>) \/ BeginTagging(c, <<h>>)
         \/ \E p \in Pieces, h \in Huids : BeginAssign(c, p, h)
         \/ \E missing \in SUBSET Pieces : BeginCountTagged(c, missing)
         \/ DropTask(c)
  PROVE  TagsInv'
<1> USE TagsInvFacts
<1>1. ASSUME NEW huids \in Seq(Huids \cup {NoHuid}), BeginTagging(c, huids) PROVE TagsInv'
  <2> DEFINE task == [clerk[c] EXCEPT !.pc = "tagging", !.huids = Untaken(huids)]
  <2>1. /\ UNCHANGED <<tagged, assignments, labels, printer>>
        /\ clerk' = [clerk EXCEPT ![c] = task]
    BY <1>1, Zenon DEF BeginTagging
  <2>2. Untaken(huids) \in Seq(Huids \cup {NoHuid}) /\ Distinct(Untaken(huids))
    BY UntakenDistinct
  <2>3. task \in Tasks /\ task.pc = "tagging" /\ task.huids = Untaken(huids)
    BY <2>2 DEF Tasks
  <2> HIDE DEF task
  <2>4. TaskTold(c)'
    BY <2>1, <2>2, <2>3 DEF TaskTold
  <2> QED
    BY <2>1, <2>3, <2>4, OnlyClerk
<1>2. ASSUME NEW p \in Pieces, NEW h \in Huids, BeginAssign(c, p, h) PROVE TagsInv'
  <2> DEFINE task == [clerk[c] EXCEPT !.pc = "assigning", !.huids = <<h>>, !.piece = p]
  <2>1. /\ UNCHANGED <<tagged, assignments, labels, printer>> /\ tagged[p].status = "in_stock"
        /\ clerk' = [clerk EXCEPT ![c] = task]
    BY <1>2, Zenon DEF BeginAssign
  <2>a. <<h>> \in Seq(Huids \cup {NoHuid}) /\ Len(<<h>>) = 1 /\ <<h>>[1] = h
    OBVIOUS
  <2>2. task \in Tasks /\ task.pc = "assigning" /\ task.huids = <<h>> /\ task.piece = p
    BY <2>a DEF Tasks
  <2> HIDE DEF task
  <2>3. TaskTold(c)'
    <3>1. clerk'[c] = task /\ tagged'[p].status = "in_stock"
      BY <2>1
    <3>2. clerk'[c].pc = "assigning" /\ clerk'[c].piece = p /\ Len(clerk'[c].huids) = 1 /\ clerk'[c].huids[1] = h
      BY <3>1, <2>2, <2>a
    <3> QED
      BY <3>1, <3>2 DEF TaskTold
  <2> QED
    BY <2>1, <2>2, <2>3, OnlyClerk
<1>3. ASSUME NEW missing \in SUBSET Pieces, BeginCountTagged(c, missing) PROVE TagsInv'
  <2> DEFINE task == [clerk[c] EXCEPT !.pc = "counting", !.missing = missing]
  <2>1. /\ UNCHANGED <<tagged, assignments, labels, printer>> /\ \A p \in missing : tagged[p].status = "in_stock"
        /\ clerk' = [clerk EXCEPT ![c] = task]
    BY <1>3, Zenon DEF BeginCountTagged
  <2>2. task \in Tasks /\ task.pc = "counting" /\ task.missing = missing
    BY DEF Tasks
  <2> HIDE DEF task
  <2>3. TaskTold(c)'
    BY <2>1, <2>2 DEF TaskTold
  <2> QED
    BY <2>1, <2>2, <2>3, OnlyClerk
<1>4. ASSUME DropTask(c) PROVE TagsInv'
  <2>1. /\ UNCHANGED <<tagged, assignments, labels, printer>> /\ clerk' = [clerk EXCEPT ![c] = NoTask]
    BY <1>4 DEF DropTask, Finished
  <2>2. NoTask \in Tasks /\ NoTask.pc = "idle"
    BY DEF NoTask, Tasks
  <2>3. TaskTold(c)'
    BY <2>1, <2>2 DEF TaskTold
  <2> QED
    BY <2>1, <2>2, <2>3, OnlyClerk
<1>5. \A h, k \in Huids \cup {NoHuid} : <<h, k>> \in Seq(Huids \cup {NoHuid}) /\ <<h>> \in Seq(Huids \cup {NoHuid})
  OBVIOUS
<1> QED
  BY <1>1, <1>2, <1>3, <1>4, <1>5

\* What a clerk has in hand stays as told when pieces change that the clerk does not hold.
LEMMA TaskStays ==
  ASSUME TagsInv, NEW c \in Clerks, clerk'[c] = clerk[c],
         \A p \in Pieces : /\ tagged[p].status # "none" => tagged'[p].status # "none"
                           /\ clerk[c].pc = "assigning" /\ clerk[c].piece = p => tagged'[p].status = tagged[p].status
  PROVE  TaskTold(c)'
<1>1. clerk[c] \in Tasks /\ TaskTold(c)
  BY TagsInvFacts
<1>2. clerk[c].missing \subseteq Pieces
  BY <1>1 DEF Tasks
<1> QED
  BY <1>1, <1>2 DEF TaskTold

\* A piece changes its status, and nothing else of it but whether it is billed.
LEMMA StatusChanges ==
  ASSUME TagsInv, tagged' \in [Pieces -> PieceTags], UNCHANGED <<assignments, labels>>,
         clerk' \in [Clerks -> Tasks], printer' \in BOOLEAN,
         \A p \in Pieces : /\ tagged'[p].huid = tagged[p].huid /\ tagged'[p].printed = tagged[p].printed
                           /\ tagged[p].status = "none" => tagged'[p] = tagged[p]
                           /\ tagged[p].status # "none" => tagged'[p].status # "none",
         \A p \in Pieces : tagged'[p].status \in {"in_stock", "sold"} =>
            \/ p \in Standing
            \/ tagged[p].huid = NoHuid
            \/ ~Taken(tagged[p].huid) /\ \A q \in Pieces : q # p => tagged'[q] = tagged[q],
         \A c \in Clerks : TaskTold(c)'
  PROVE  TagsInv'
<1> USE TagsInvFacts
<1>1. TagsTypeOK'
  BY DEF TagsTypeOK
<1>2. PiecesTold'
  BY DEF PiecesTold
<1>3. HuidsApart'
  <2>1. ASSUME NEW p \in Standing', NEW q \in Standing', p # q, tagged[p].huid = tagged[q].huid, p \notin Standing
        PROVE  tagged[p].huid = NoHuid
    <3>1. p \in Pieces /\ tagged'[p].status \in {"in_stock", "sold"} /\ q \in Pieces /\ tagged'[q].status \in {"in_stock", "sold"}
      BY DEF Standing
    <3>2. SUFFICES ASSUME tagged[p].huid # NoHuid PROVE FALSE
      OBVIOUS
    <3>3. ~Taken(tagged[p].huid) /\ tagged'[q] = tagged[q]
      BY <2>1, <3>1, <3>2
    <3>4. q \in Standing
      BY <3>1, <3>3 DEF Standing
    <3> QED
      BY <2>1, <3>3, <3>4 DEF Taken
  <2>2. \A p, q \in Standing' : tagged'[p].huid = tagged[p].huid /\ tagged'[q].huid = tagged[q].huid
    BY DEF Standing
  <2>3. ASSUME NEW p \in Standing', NEW q \in Standing', tagged'[p].huid = tagged'[q].huid, tagged'[p].huid # NoHuid
        PROVE  p = q
    <3>1. tagged[p].huid = tagged[q].huid /\ tagged[p].huid # NoHuid
      BY <2>2, <2>3
    <3>2. p # q => p \in Standing /\ q \in Standing
      BY <2>1, <3>1
    <3> QED
      BY <3>1, <3>2 DEF HuidsApart
  <2> QED
    BY <2>3 DEF HuidsApart
<1>4. \A p \in Pieces : PaperTold(tagged'[p].huid, assignments'[p]) /\ LabelTold(tagged'[p].printed, labels'[p])
  OBVIOUS
<1> QED
  BY <1>1, <1>2, <1>3, <1>4 DEF TagsInv

LEMMA TagsMoveSteps ==
  ASSUME TagsInv, NEW p \in Pieces, sellTagged(p) \/ bringBack(p) \/ writeOffTagged(p)
  PROVE  TagsInv'
<1> USE TagsInvFacts
<1>1. PICK status \in {"in_stock", "sold", "written_off"}, billed \in BOOLEAN :
        /\ tagged' = [tagged EXCEPT ![p] = [tagged[p] EXCEPT !.status = status, !.billed = billed]]
        /\ tagged[p].status # "none"
        /\ status = "in_stock" /\ tagged[p].status = "written_off" /\ tagged[p].huid # NoHuid => ~Taken(tagged[p].huid)
        /\ status = "sold" => tagged[p].status = "in_stock"
  <2>1. CASE sellTagged(p)
    <3>1. tagged' = [tagged EXCEPT ![p] = [tagged[p] EXCEPT !.status = "sold", !.billed = TRUE]] /\ tagged[p].status = "in_stock"
      BY <2>1, Zenon DEF sellTagged
    <3> QED
      BY <3>1
  <2>2. CASE bringBack(p)
    <3>1. /\ tagged' = [tagged EXCEPT ![p] = [tagged[p] EXCEPT !.status = "in_stock", !.billed = FALSE]]
          /\ tagged[p].billed /\ (tagged[p].status = "written_off" /\ tagged[p].huid # NoHuid => ~Taken(tagged[p].huid))
      BY <2>2, Zenon DEF bringBack
    <3>2. tagged[p].status # "none"
      BY <3>1 DEF PiecesTold, Untagged
    <3> QED
      BY <3>1, <3>2
  <2>3. CASE writeOffTagged(p)
    <3>1. tagged' = [tagged EXCEPT ![p] = [tagged[p] EXCEPT !.status = "written_off"]] /\ tagged[p].status = "in_stock"
      BY <2>3, Zenon DEF writeOffTagged
    <3>2. tagged[p].billed \in BOOLEAN /\ [tagged[p] EXCEPT !.status = "written_off"] = [tagged[p] EXCEPT !.status = "written_off", !.billed = tagged[p].billed]
      BY DEF PieceTags
    <3> QED
      BY <3>1, <3>2, Zenon
  <2> QED
    BY <2>1, <2>2, <2>3
<1>2. Unheld(p) /\ UNCHANGED <<assignments, labels, clerk, printer>>
  BY DEF sellTagged, bringBack, writeOffTagged
<1>3. /\ tagged' \in [Pieces -> PieceTags] /\ tagged'[p].status = status
      /\ tagged'[p].huid = tagged[p].huid /\ tagged'[p].printed = tagged[p].printed
      /\ \A q \in Pieces : q # p => tagged'[q] = tagged[q]
  BY <1>1 DEF PieceTags
<1>4. \A c \in Clerks : TaskTold(c)'
  BY <1>1, <1>2, <1>3, TaskStays DEF Unheld
<1>5. tagged'[p].status \in {"in_stock", "sold"} => p \in Standing \/ tagged[p].huid = NoHuid \/ ~Taken(tagged[p].huid)
  <2>1. tagged[p].status \in {"none", "in_stock", "sold", "written_off"}
    BY DEF PieceTags
  <2> QED
    BY <2>1, <1>1, <1>3 DEF Standing
<1>6. \A q \in Pieces : tagged'[q].status \in {"in_stock", "sold"} =>
        \/ q \in Standing
        \/ tagged[q].huid = NoHuid
        \/ ~Taken(tagged[q].huid) /\ \A o \in Pieces : o # q => tagged'[o] = tagged[o]
  BY <1>3, <1>5 DEF Standing
<1>7. \A q \in Pieces : /\ tagged'[q].huid = tagged[q].huid /\ tagged'[q].printed = tagged[q].printed
                        /\ tagged[q].status = "none" => tagged'[q] = tagged[q]
                        /\ tagged[q].status # "none" => tagged'[q].status # "none"
  BY <1>1, <1>3
<1> QED
  BY <1>2, <1>3, <1>4, <1>6, <1>7, StatusChanges

LEMMA TagsCountSteps ==
  ASSUME TagsInv, NEW c \in Clerks, postCountTagged(c)
  PROVE  TagsInv'
<1> USE TagsInvFacts
<1> DEFINE missing == clerk[c].missing
<1>1. /\ UNCHANGED <<assignments, labels, printer>> /\ clerk' = [clerk EXCEPT ![c] = NoTask]
      /\ clerk[c].pc = "counting" /\ \A p \in missing : Unheld(p)
      /\ \/ tagged' = [p \in Pieces |-> IF p \in missing THEN [tagged[p] EXCEPT !.status = "written_off"] ELSE tagged[p]]
         \/ UNCHANGED tagged
  BY Zenon DEF postCountTagged, Finished
<1>2. NoTask \in Tasks /\ NoTask.pc = "idle" /\ clerk' \in [Clerks -> Tasks] /\ clerk'[c].pc = "idle"
  BY <1>1 DEF NoTask, Tasks
<1>3. missing \subseteq Pieces /\ \A p \in missing : tagged[p].status # "none"
  BY <1>1 DEF TaskTold, Tasks
<1>4. /\ tagged' \in [Pieces -> PieceTags]
      /\ \A p \in Pieces : /\ tagged'[p].huid = tagged[p].huid /\ tagged'[p].printed = tagged[p].printed
                           /\ p \in missing => tagged'[p].status \in {tagged[p].status, "written_off"}
                           /\ p \notin missing => tagged'[p] = tagged[p]
  <2> DEFINE off(p) == [tagged[p] EXCEPT !.status = "written_off"]
  <2>1. \A p \in Pieces : /\ off(p) \in PieceTags /\ off(p).status = "written_off"
                          /\ off(p).huid = tagged[p].huid /\ off(p).printed = tagged[p].printed
    BY DEF PieceTags
  <2>2. tagged' = [p \in Pieces |-> IF p \in missing THEN off(p) ELSE tagged[p]] \/ UNCHANGED tagged
    BY <1>1
  <2> HIDE DEF off, missing
  <2>3. CASE UNCHANGED tagged
    BY <2>3
  <2>4. CASE tagged' = [p \in Pieces |-> IF p \in missing THEN off(p) ELSE tagged[p]]
    BY <2>1, <2>4
  <2> QED
    BY <2>2, <2>3, <2>4
<1>5. \A p \in Pieces : /\ tagged[p].status = "none" => tagged'[p] = tagged[p]
                        /\ tagged[p].status # "none" => tagged'[p].status # "none"
                        /\ tagged'[p].status \in {"in_stock", "sold"} => p \in Standing
  BY <1>3, <1>4 DEF Standing
<1>6. ASSUME NEW d \in Clerks PROVE TaskTold(d)'
  <2>1. CASE d = c
    BY <2>1, <1>2 DEF TaskTold
  <2>2. CASE d # c
    <3>1. clerk'[d] = clerk[d]
      BY <2>2, <1>1
    <3>2. \A p \in Pieces : clerk[d].pc = "assigning" /\ clerk[d].piece = p => tagged'[p].status = tagged[p].status
      BY <1>1, <1>4 DEF Unheld
    <3> HIDE DEF missing
    <3> QED
      BY <3>1, <3>2, <1>5, TaskStays
  <2> QED
    BY <2>1, <2>2
<1> HIDE DEF missing
<1> QED
  BY <1>1, <1>2, <1>4, <1>5, <1>6, StatusChanges

\* A new HUID is the one that is not superseded.
LEMMA PaperFollows ==
  ASSUME NEW log \in Seq(Assignments), NEW huid \in Huids
  PROVE  /\ Append(Superseded(log), [huid |-> huid, superseded |-> FALSE]) \in Seq(Assignments)
         /\ PaperTold(huid, Append(Superseded(log), [huid |-> huid, superseded |-> FALSE]))
<1> DEFINE next == [huid |-> huid, superseded |-> FALSE]
           old == Superseded(log)
<1>1. Len(log) \in Nat /\ DOMAIN log = 1..Len(log) /\ \A i \in DOMAIN log : log[i] \in Assignments
  OBVIOUS
<1>2. old \in Seq(Assignments) /\ Len(old) = Len(log) /\ \A i \in DOMAIN log : old[i].superseded
  <2> DEFINE mark(i) == [log[i] EXCEPT !.superseded = TRUE]
  <2>1. old = [i \in 1..Len(log) |-> mark(i)]
    BY <1>1 DEF Superseded
  <2>2. \A i \in 1..Len(log) : mark(i) \in Assignments /\ mark(i).superseded
    BY <1>1 DEF Assignments
  <2> HIDE DEF old, mark
  <2> QED
    BY <1>1, <2>1, <2>2
<1>3. next \in Assignments /\ next.huid = huid /\ ~next.superseded
  BY DEF Assignments
<1> HIDE DEF old, next
<1>4. Append(old, next) \in Seq(Assignments) /\ Len(Append(old, next)) = Len(log) + 1 /\ Append(old, next)[Len(log) + 1] = next
  BY <1>1, <1>2, <1>3
<1>5. \A i \in 1..Len(log) : Append(old, next)[i] = old[i]
  BY <1>1, <1>2, <1>3
<1>6. PaperTold(huid, Append(old, next))
  <2>1. Append(old, next) # <<>> /\ DOMAIN Append(old, next) = 1..Len(log) + 1
    BY <1>1, <1>4
  <2>2. huid = IF Append(old, next) = <<>> THEN NoHuid ELSE Append(old, next)[Len(Append(old, next))].huid
    BY <2>1, <1>3, <1>4
  <2>3. ASSUME NEW i \in 1..Len(log) + 1 PROVE Append(old, next)[i].superseded <=> i < Len(Append(old, next))
    <3>1. CASE i = Len(log) + 1
      BY <3>1, <1>1, <1>3, <1>4
    <3>2. CASE i # Len(log) + 1
      <4>1. i \in 1..Len(log)
        BY <3>2, <1>1
      <4> QED
        BY <4>1, <1>1, <1>2, <1>4, <1>5
    <3> QED
      BY <3>1, <3>2
  <2> QED
    BY <2>1, <2>2, <2>3 DEF PaperTold
<1> QED
  BY <1>4, <1>6 DEF old, next

LEMMA TagsAssignSteps ==
  ASSUME TagsInv, NEW c \in Clerks, assignHuid(c)
  PROVE  TagsInv'
<1> USE TagsInvFacts
<1> DEFINE p == clerk[c].piece
           huid == clerk[c].huids[1]
           log == Append(Superseded(assignments[p]), [huid |-> huid, superseded |-> FALSE])
<1>1. /\ UNCHANGED <<labels, printer>> /\ clerk' = [clerk EXCEPT ![c] = NoTask]
      /\ clerk[c].pc = "assigning" /\ ~Taken(huid)
      /\ tagged' = [tagged EXCEPT ![p] = [tagged[p] EXCEPT !.huid = huid]]
      /\ assignments' = [assignments EXCEPT ![p] = log]
  BY Zenon DEF assignHuid, Finished
<1>2. NoTask \in Tasks /\ NoTask.pc = "idle" /\ clerk' \in [Clerks -> Tasks] /\ clerk'[c].pc = "idle"
  BY <1>1 DEF NoTask, Tasks
<1>3. p \in Pieces /\ tagged[p].status = "in_stock" /\ huid \in Huids
  BY <1>1 DEF TaskTold
<1>4. log \in Seq(Assignments) /\ PaperTold(huid, log)
  BY <1>3, PaperFollows
<1> HIDE DEF log, huid, p
<1>5. /\ tagged' \in [Pieces -> PieceTags] /\ tagged'[p].status = "in_stock" /\ tagged'[p].huid = huid
      /\ tagged'[p].printed = tagged[p].printed
      /\ \A q \in Pieces : q # p => tagged'[q] = tagged[q]
  BY <1>1, <1>3 DEF PieceTags
<1>6. assignments' \in [Pieces -> Seq(Assignments)] /\ assignments'[p] = log /\ \A q \in Pieces : q # p => assignments'[q] = assignments[q]
  BY <1>1, <1>3, <1>4
<1>7. TagsTypeOK'
  BY <1>1, <1>2, <1>5, <1>6 DEF TagsTypeOK
<1>8. PiecesTold'
  BY <1>1, <1>3, <1>5, <1>6 DEF PiecesTold
<1>9. HuidsApart'
  <2>1. Standing' = Standing
    BY <1>3, <1>5 DEF Standing
  <2>2. \A q \in Standing : q # p => tagged'[q].huid = tagged[q].huid /\ tagged[q].huid # huid
    BY <1>1, <1>5 DEF Standing, Taken
  <2>3. ASSUME NEW q \in Standing, NEW r \in Standing, tagged'[q].huid = tagged'[r].huid, tagged'[q].huid # NoHuid
        PROVE  q = r
    <3>1. CASE q = p \/ r = p
      BY <3>1, <2>2, <2>3, <1>5
    <3>2. CASE q # p /\ r # p
      BY <3>2, <2>2, <2>3 DEF HuidsApart
    <3> QED
      BY <3>1, <3>2
  <2> QED
    BY <2>1, <2>3 DEF HuidsApart
<1>10. ASSUME NEW d \in Clerks PROVE TaskTold(d)'
  <2>1. CASE d = c
    BY <2>1, <1>2 DEF TaskTold
  <2>2. CASE d # c
    <3>1. clerk'[d] = clerk[d]
      BY <2>2, <1>1
    <3>2. \A q \in Pieces : tagged'[q].status = tagged[q].status
      BY <1>3, <1>5
    <3> QED
      BY <3>1, <3>2, TaskStays
  <2> QED
    BY <2>1, <2>2
<1>11. \A q \in Pieces : PaperTold(tagged'[q].huid, assignments'[q]) /\ LabelTold(tagged'[q].printed, labels'[q])
  BY <1>1, <1>4, <1>5, <1>6
<1> QED
  BY <1>7, <1>8, <1>9, <1>10, <1>11 DEF TagsInv

\* Two labels off the queue: the first and no other.
LEMMA LabelFollows ==
  ASSUME NEW prints \in Seq({"queue", "reprint"}), NEW reprint \in BOOLEAN, NEW printed,
         LabelTold(printed, prints), printed \in BOOLEAN, reprint \/ ~printed
  PROVE  /\ Append(prints, IF reprint THEN "reprint" ELSE "queue") \in Seq({"queue", "reprint"})
         /\ LabelTold(TRUE, Append(prints, IF reprint THEN "reprint" ELSE "queue"))
<1> DEFINE tag == IF reprint THEN "reprint" ELSE "queue"
           next == Append(prints, tag)
<1>1. Len(prints) \in Nat /\ DOMAIN prints = 1..Len(prints) /\ (prints = <<>> <=> Len(prints) = 0)
  OBVIOUS
<1>2. tag \in {"queue", "reprint"} /\ (tag = "queue" => prints = <<>>)
  BY DEF LabelTold
<1> HIDE DEF tag
<1>3. next \in Seq({"queue", "reprint"}) /\ DOMAIN next = 1..Len(prints) + 1 /\ next # <<>> /\ next[Len(prints) + 1] = tag
  BY <1>1, <1>2
<1>4. \A i \in 1..Len(prints) : next[i] = prints[i]
  BY <1>1, <1>2
<1> HIDE DEF next
<1>5. \A i \in DOMAIN next : next[i] = "queue" => i = 1
  BY <1>1, <1>2, <1>3, <1>4 DEF LabelTold
<1>6. LabelTold(TRUE, next)
  BY <1>3, <1>5 DEF LabelTold
<1> QED
  BY <1>3, <1>6 DEF next, tag

LEMMA TagsPrintSteps ==
  ASSUME TagsInv, NEW pieces \in SUBSET Pieces, NEW reprint \in BOOLEAN, printTags(pieces, reprint)
  PROVE  TagsInv'
<1> USE TagsInvFacts
<1> DEFINE claimed(p) == [tagged[p] EXCEPT !.printed = TRUE]
           more(p) == Append(labels[p], IF reprint THEN "reprint" ELSE "queue")
<1>1. /\ UNCHANGED <<assignments, clerk, printer>>
      /\ \A p \in pieces : tagged[p].status # "none" /\ Unheld(p)
      /\ reprint \/ \A p \in pieces : ~tagged[p].printed
      /\ tagged' = [p \in Pieces |-> IF p \in pieces THEN claimed(p) ELSE tagged[p]]
      /\ labels' = [p \in Pieces |-> IF p \in pieces THEN more(p) ELSE labels[p]]
  BY Zenon DEF printTags
<1>2. \A p \in Pieces : /\ claimed(p) \in PieceTags /\ claimed(p).status = tagged[p].status /\ claimed(p).huid = tagged[p].huid
                        /\ claimed(p).printed = TRUE /\ tagged[p].printed \in BOOLEAN
  BY DEF PieceTags
<1>3. \A p \in pieces : more(p) \in Seq({"queue", "reprint"}) /\ LabelTold(TRUE, more(p))
  <2> SUFFICES ASSUME NEW p \in pieces PROVE more(p) \in Seq({"queue", "reprint"}) /\ LabelTold(TRUE, more(p))
    OBVIOUS
  <2>1. labels[p] \in Seq({"queue", "reprint"}) /\ LabelTold(tagged[p].printed, labels[p]) /\ tagged[p].printed \in BOOLEAN
    BY <1>2
  <2>2. reprint \/ ~tagged[p].printed
    BY <1>1
  <2> QED
    BY <2>1, <2>2, LabelFollows
<1> HIDE DEF claimed, more
<1>4. /\ tagged' \in [Pieces -> PieceTags] /\ labels' \in [Pieces -> Seq({"queue", "reprint"})]
      /\ \A p \in Pieces : /\ tagged'[p].status = tagged[p].status /\ tagged'[p].huid = tagged[p].huid
                           /\ tagged[p].status = "none" => tagged'[p] = tagged[p] /\ labels'[p] = labels[p]
                           /\ LabelTold(tagged'[p].printed, labels'[p])
  BY <1>1, <1>2, <1>3
<1>5. TagsTypeOK' /\ PiecesTold' /\ HuidsApart'
  BY <1>1, <1>4 DEF TagsTypeOK, PiecesTold, HuidsApart, Standing
<1>6. \A c \in Clerks : TaskTold(c)'
  BY <1>1, <1>4, TaskStays
<1> QED
  BY <1>1, <1>4, <1>5, <1>6 DEF TagsInv

LEMMA TagsTaggingSteps ==
  ASSUME TagsInv, NEW c \in Clerks, tagPieces(c)
  PROVE  TagsInv'
<1> USE TagsInvFacts
<1> DEFINE huids == clerk[c].huids
           first == Cardinality({p \in Pieces : tagged[p].status # "none"})
           new == {p \in Pieces : p \in first + 1 .. first + Len(huids)}
           HuidOf(p) == huids[p - first]
           made(p) == [tagged[p] EXCEPT !.status = "in_stock", !.huid = HuidOf(p)]
           paper(p) == <<[huid |-> HuidOf(p), superseded |-> FALSE]>>
<1>1. /\ UNCHANGED <<labels, printer>> /\ clerk' = [clerk EXCEPT ![c] = NoTask]
      /\ clerk[c].pc = "tagging"
      /\ \A i \in DOMAIN huids : huids[i] # NoHuid => ~Taken(huids[i])
      /\ tagged' = [p \in Pieces |-> IF p \in new THEN made(p) ELSE tagged[p]]
      /\ assignments' = [p \in Pieces |-> IF p \in new /\ HuidOf(p) # NoHuid THEN paper(p) ELSE assignments[p]]
  BY DEF tagPieces, Finished
<1>2. NoTask \in Tasks /\ NoTask.pc = "idle" /\ clerk' \in [Clerks -> Tasks] /\ clerk'[c].pc = "idle"
  <2>1. NoTask \in Tasks /\ NoTask.pc = "idle"
    BY DEF NoTask, Tasks
  <2> QED
    BY <2>1, <1>1
<1>3. huids \in Seq(Huids \cup {NoHuid}) /\ Distinct(huids)
  BY <1>1 DEF TaskTold, Tasks
<1>4. first \in Nat /\ \A p \in Pieces : p > first => tagged[p].status = "none"
  BY TaggedFirst
<1>5. PICK n \in Nat : Pieces = 1..n
  BY TagsAssumption, FS_CardinalityType
<1>6. Len(huids) \in Nat /\ DOMAIN huids = 1..Len(huids) /\ \A i \in DOMAIN huids : huids[i] \in Huids \cup {NoHuid}
  BY <1>3
<1> HIDE DEF huids, first
<1>7. ASSUME NEW p \in new
      PROVE  /\ p \in Pieces /\ tagged[p] = Untagged /\ assignments[p] = <<>> /\ labels[p] = <<>>
             /\ p - first \in DOMAIN huids /\ HuidOf(p) \in Huids \cup {NoHuid}
             /\ HuidOf(p) # NoHuid => ~Taken(HuidOf(p))
  <2>1. p \in Pieces /\ p - first \in 1..Len(huids) /\ p > first
    BY <1>4, <1>5, <1>6
  <2> QED
    BY <2>1, <1>1, <1>4, <1>6 DEF PiecesTold
<1>8. \A p, q \in new : HuidOf(p) = HuidOf(q) /\ HuidOf(p) # NoHuid => p = q
  <2> SUFFICES ASSUME NEW p \in new, NEW q \in new, HuidOf(p) = HuidOf(q), HuidOf(p) # NoHuid PROVE p = q
    OBVIOUS
  <2>1. p - first = q - first
    BY <1>3, <1>7 DEF Distinct
  <2> QED
    BY <2>1, <1>4, <1>5
<1>9. \A p \in Pieces, q \in new : p < q => p \in new \/ tagged[p].status # "none"
  <2> SUFFICES ASSUME NEW p \in Pieces, NEW q \in new, p < q, tagged[p].status = "none" PROVE p \in new
    OBVIOUS
  <2>1. p > first
    <3>1. {x \in Pieces : tagged[x].status # "none"} \subseteq 1..(p - 1)
      <4> SUFFICES ASSUME NEW x \in Pieces, tagged[x].status # "none" PROVE x < p
        BY <1>5
      <4>1. ~(p < x) /\ p # x
        BY DEF PiecesTold
      <4> QED
        BY <4>1, <1>5
    <3>2. IsFiniteSet(1..(p - 1)) /\ Cardinality(1..(p - 1)) = p - 1
      <4>1. p \in Nat /\ p >= 1 /\ 1 \in Int /\ p - 1 \in Int
        BY <1>5
      <4> DEFINE last == p - 1
      <4>2. last \in Int /\ last = p - 1
        BY <4>1
      <4> HIDE DEF last
      <4>3. IsFiniteSet(1..last) /\ Cardinality(1..last) = IF 1 > last THEN 0 ELSE last - 1 + 1
        BY <4>1, <4>2, FS_Interval
      <4> QED
        BY <4>1, <4>2, <4>3
    <3>3. first <= p - 1
      BY <3>1, <3>2, FS_Subset DEF first
    <3> QED
      BY <3>3, <1>4, <1>5
  <2> QED
    BY <2>1, <1>4, <1>5, <1>6
<1>10. \A p \in new : /\ made(p) \in PieceTags /\ made(p).status = "in_stock" /\ made(p).huid = HuidOf(p)
                      /\ made(p).printed = tagged[p].printed
  BY <1>7, ZenonT(30) DEF PieceTags, Untagged
<1>11. \A p \in new : HuidOf(p) # NoHuid => paper(p) \in Seq(Assignments) /\ PaperTold(HuidOf(p), paper(p))
  <2> SUFFICES ASSUME NEW p \in new, HuidOf(p) # NoHuid PROVE paper(p) \in Seq(Assignments) /\ PaperTold(HuidOf(p), paper(p))
    OBVIOUS
  <2>1. HuidOf(p) \in Huids
    BY <1>7
  <2> HIDE DEF HuidOf
  <2>2. [huid |-> HuidOf(p), superseded |-> FALSE] \in Assignments
    BY <2>1 DEF Assignments
  <2>3. Len(paper(p)) = 1 /\ paper(p)[1].huid = HuidOf(p) /\ paper(p)[1].superseded = FALSE /\ DOMAIN paper(p) = {1} /\ paper(p) # <<>>
    OBVIOUS
  <2> QED
    BY <2>2, <2>3 DEF PaperTold
<1> HIDE DEF new, HuidOf, made, paper
<1>12. /\ tagged' \in [Pieces -> PieceTags] /\ assignments' \in [Pieces -> Seq(Assignments)]
       /\ \A p \in new : tagged'[p] = made(p)
       /\ \A p \in Pieces : p \notin new => tagged'[p] = tagged[p] /\ assignments'[p] = assignments[p]
       /\ \A p \in new : assignments'[p] = IF HuidOf(p) # NoHuid THEN paper(p) ELSE <<>>
  BY <1>1, <1>7, <1>10, <1>11
<1>13. TagsTypeOK'
  BY <1>1, <1>2, <1>12 DEF TagsTypeOK
<1>14. PiecesTold'
  BY <1>1, <1>7, <1>9, <1>10, <1>12 DEF PiecesTold
<1>15. HuidsApart'
  <2>1. \A p \in Standing' : p \in Pieces /\ (p \in new \/ p \in Standing)
    BY <1>12 DEF Standing
  <2>2. ASSUME NEW p \in Standing', NEW q \in Standing', tagged'[p].huid = tagged'[q].huid, tagged'[p].huid # NoHuid, p \in new
        PROVE  p = q
    <3>1. tagged'[p].huid = HuidOf(p) /\ ~Taken(HuidOf(p))
      BY <2>2, <1>7, <1>10, <1>12
    <3>2. q \in new
      BY <2>1, <2>2, <3>1, <1>12 DEF Taken
    <3>3. tagged'[q].huid = HuidOf(q)
      BY <3>2, <1>10, <1>12
    <3> QED
      BY <2>2, <3>1, <3>2, <3>3, <1>8
  <2>3. ASSUME NEW p \in Standing', NEW q \in Standing', tagged'[p].huid = tagged'[q].huid, tagged'[p].huid # NoHuid
        PROVE  p = q
    <3>1. CASE p \in new \/ q \in new
      BY <3>1, <2>2, <2>3
    <3>2. CASE p \notin new /\ q \notin new
      BY <3>2, <2>1, <2>3, <1>12 DEF HuidsApart
    <3> QED
      BY <3>1, <3>2
  <2> QED
    BY <2>3 DEF HuidsApart
<1>16. ASSUME NEW d \in Clerks PROVE TaskTold(d)'
  <2>1. CASE d = c
    BY <2>1, <1>2 DEF TaskTold
  <2>2. CASE d # c
    <3>1. clerk'[d] = clerk[d]
      BY <2>2, <1>1
    <3>2. \A p \in Pieces : tagged[p].status # "none" => p \notin new
      BY <1>7 DEF Untagged
    <3>3. clerk[d].pc = "assigning" => tagged[clerk[d].piece].status # "none"
      BY DEF TaskTold
    <3> QED
      BY <3>1, <3>2, <3>3, <1>12, TaskStays
  <2> QED
    BY <2>1, <2>2
<1>17. ASSUME NEW p \in Pieces PROVE PaperTold(tagged'[p].huid, assignments'[p]) /\ LabelTold(tagged'[p].printed, labels'[p])
  <2>1. CASE p \in new
    <3>1. tagged'[p].printed = tagged[p].printed /\ labels'[p] = labels[p]
      BY <2>1, <1>1, <1>10, <1>12
    <3>2. PaperTold(NoHuid, <<>>)
      BY DEF PaperTold
    <3> QED
      BY <2>1, <3>1, <3>2, <1>10, <1>11, <1>12
  <2>2. CASE p \notin new
    BY <2>2, <1>1, <1>12
  <2> QED
    BY <2>1, <2>2
<1> QED
  BY <1>13, <1>14, <1>15, <1>16, <1>17 DEF TagsInv

LEMMA TagsNextInv == TagsInv /\ [TagsNext]_tagVars => TagsInv'
<1> SUFFICES ASSUME TagsInv, [TagsNext]_tagVars PROVE TagsInv'
  OBVIOUS
<1>1. CASE UNCHANGED tagVars
  BY <1>1 DEF tagVars, TagsInv, TagsTypeOK, PiecesTold, TaskTold, HuidsApart, Standing, PaperTold, LabelTold
<1>2. ASSUME NEW c \in Clerks,
             \/ \E h, k \in Huids \cup {NoHuid} : BeginTagging(c, <<h, k>>) \/ BeginTagging(c, <<h>>)
             \/ tagPieces(c)
             \/ \E p \in Pieces, h \in Huids : BeginAssign(c, p, h)
             \/ assignHuid(c)
             \/ \E missing \in SUBSET Pieces : BeginCountTagged(c, missing)
             \/ postCountTagged(c)
             \/ DropTask(c)
      PROVE  TagsInv'
  BY <1>2, TagsRequestSteps, TagsTaggingSteps, TagsAssignSteps, TagsCountSteps
<1>3. ASSUME NEW p \in Pieces, sellTagged(p) \/ bringBack(p) \/ writeOffTagged(p)
      PROVE  TagsInv'
  BY <1>3, TagsMoveSteps
<1>4. ASSUME NEW pieces \in SUBSET Pieces, NEW reprint \in BOOLEAN, printTags(pieces, reprint)
      PROVE  TagsInv'
  BY <1>4, TagsPrintSteps
<1> QED
  BY <1>1, <1>2, <1>3, <1>4 DEF TagsNext

-------------------------------------------------------------------------------
\* GST versions

LiveV(rates, v) == rates[v].status = "live"

Ended(rates, v) == LiveV(rates, v) /\ rates[v].to # Open

\* No two versions start on one day; a version that ended did so the day before another starts.
RatesTold(rates) ==
  /\ \A v, w \in GstVersions : LiveV(rates, v) /\ LiveV(rates, w) /\ rates[v].from = rates[w].from => v = w
  /\ \A v \in GstVersions : Ended(rates, v) =>
       rates[v].from <= rates[v].to /\ \E w \in GstVersions : LiveV(rates, w) /\ rates[w].from = rates[v].to + 1

\* The row an editor holds the end of.
Holds(ask, v) == (ask.pc = "closing" /\ ask.row = v) \/ (ask.pc = "deleting" /\ v \in ask.reopens)

EndsBefore(rates, w, v) == Ended(rates, w) /\ rates[w].to = rates[v].from - 1

\* An editor who closes a version has it as it was; one who deletes a version has all that
\* ended the day before it started.
AskTold(ask, rates) ==
  /\ ask.pc = "closing" => ask.row \in GstVersions /\ LiveV(rates, ask.row) /\ rates[ask.row].to = Open /\ rates[ask.row].from < ask.from
  /\ ask.pc = "deleting" =>
       /\ ask.row \in GstVersions /\ rates[ask.row].status # "none"
       /\ \A w \in ask.reopens : EndsBefore(rates, w, ask.row) /\ LiveV(rates, ask.row)
       /\ LiveV(rates, ask.row) => \A w \in GstVersions : EndsBefore(rates, w, ask.row) => w \in ask.reopens

AsksTold ==
  /\ \A e \in Editors : AskTold(saving[e], gstRate) /\ (saving[e].pc # "idle" => e \in editors)
  /\ \A e, f \in Editors, v \in GstVersions : Holds(saving[e], v) /\ Holds(saving[f], v) => e = f

\* The version a day is charged with.
OnIs(rates, d, v) ==
  /\ v \in GstVersions /\ LiveV(rates, v) /\ rates[v].from <= d /\ (rates[v].to = Open \/ rates[v].to >= d)
  /\ \A w \in GstVersions : LiveV(rates, w) /\ rates[w].from <= d /\ (rates[w].to = Open \/ rates[w].to >= d) => rates[w].from <= rates[v].from

OpenOf(rates) == {v \in GstVersions : rates[v].status = "live" /\ rates[v].to = Open}

\* What one editor has in hand.
AloneTold(ask, rates, now) ==
  /\ ask.pc # "waiting"
  /\ ask.pc = "closing" => OpenOf(rates) = {ask.row} /\ ask.from >= now
  /\ ask.pc = "insert" => OpenOf(rates) = {}
  /\ ask.pc = "deleting" => rates[ask.row].from > now

\* With one editor versions do not start within one that ended, a version that starts after
\* one that is open does so after one that was deleted, and days past keep their version.
HistoryTold ==
  /\ \A v, w \in GstVersions : Ended(gstRate, v) /\ LiveV(gstRate, w) /\ gstRate[v].from < gstRate[w].from => gstRate[v].to < gstRate[w].from
  /\ \A v, w \in GstVersions : LiveV(gstRate, v) /\ gstRate[v].to = Open /\ LiveV(gstRate, w) /\ gstRate[v].from < gstRate[w].from =>
       \E x \in GstVersions : gstRate[x].status = "deleted" /\ gstRate[x].from \in gstRate[v].from..gstRate[w].from
  /\ \A d \in 1..date - 1 : charged[d] # 0 => OnIs(gstRate, d, charged[d])
  /\ \A e \in Editors : AloneTold(saving[e], gstRate, date)

GstInv ==
  /\ GstTypeOK /\ editors \subseteq Editors /\ editors # {}
  /\ RatesTold(gstRate) /\ AsksTold
  /\ Cardinality(editors) = 1 => HistoryTold

LEMMA GstInvFacts ==
  ASSUME GstInv
  PROVE  /\ gstRate \in [GstVersions -> VersionRows] /\ date \in Dates /\ charged \in [Dates -> {0} \cup GstVersions]
         /\ saving \in [Editors -> Savings] /\ editors \subseteq Editors /\ editors # {}
         /\ RatesTold(gstRate) /\ AsksTold
         /\ \A v \in GstVersions : /\ gstRate[v].status \in {"none", "live", "deleted"}
                                   /\ gstRate[v].from \in Dates /\ gstRate[v].to \in {Open} \cup Dates
         /\ Dates \subseteq Nat \ {0} /\ GstVersions \subseteq Nat \ {0}
  BY GstAssumption DEF GstInv, GstTypeOK, VersionRows, Dates, GstVersions

LEMMA GstInitInv == GstInit => GstInv
<1> SUFFICES ASSUME GstInit PROVE GstInv
  OBVIOUS
<1> USE GstAssumption DEF GstInit
<1>1. GstTypeOK
  BY DEF GstTypeOK, VersionRows, NoVersion, Savings, NotSaving, Dates, GstVersions, Open
<1>2. \A v \in GstVersions : gstRate[v].to = Open /\ (gstRate[v].status # "none" => v = 1)
  BY DEF NoVersion
<1>3. RatesTold(gstRate)
  BY <1>2 DEF RatesTold, LiveV, Ended
<1>4. \A e \in Editors : saving[e].pc = "idle"
  BY DEF NotSaving
<1>5. AsksTold
  BY <1>4 DEF AsksTold, AskTold, Holds
<1>6. HistoryTold
  <2>1. \A v, w \in GstVersions : LiveV(gstRate, v) /\ LiveV(gstRate, w) => v = w
    BY <1>2 DEF LiveV
  <2>2. \A d \in 1..date - 1 : charged[d] = 0
    BY DEF Dates
  <2>3. \A v \in GstVersions : ~Ended(gstRate, v) /\ gstRate[v].from \in Nat
    BY <1>1, <1>2 DEF Ended, GstTypeOK, VersionRows, Dates
  <2> QED
    BY <1>4, <2>1, <2>2, <2>3 DEF HistoryTold, AloneTold
<1> QED
  BY <1>1, <1>3, <1>5, <1>6 DEF GstInv

\* Of some versions one starts last.
LEMMA LastToStart ==
  ASSUME NEW rates \in [GstVersions -> VersionRows], NEW S \in SUBSET GstVersions, S # {}
  PROVE  \E v \in S : \A w \in S : rates[w].from <= rates[v].from
<1> DEFINE Before == {n \in Nat : \E v \in S : rates[v].from + n = LastDate}
<1>1. \A v \in S : rates[v].from \in Nat /\ rates[v].from <= LastDate
  BY GstAssumption DEF VersionRows, Dates
<1>2. Before # {} /\ Before \subseteq Nat
  <2>1. PICK v \in S : TRUE
    OBVIOUS
  <2>2. LastDate - rates[v].from \in Before
    BY <1>1, GstAssumption
  <2> QED
    BY <2>2
<1> HIDE DEF Before
<1>3. PICK n \in Before : \A m \in Before : <<m, n>> \notin OpToRel(<, Nat)
  BY <1>2, NatLessThanWellFounded, WFMin
<1>4. PICK v \in S : rates[v].from + n = LastDate
  BY DEF Before
<1>5. ASSUME NEW w \in S PROVE rates[w].from <= rates[v].from
  <2>1. LastDate - rates[w].from \in Before
    BY <1>1, GstAssumption DEF Before
  <2>2. ~(LastDate - rates[w].from < n)
    BY <2>1, <1>2, <1>3 DEF OpToRel
  <2> QED
    BY <2>2, <1>1, <1>2, <1>4, GstAssumption
<1> QED
  BY <1>5

\* There is one, when any version started by then.
LEMMA SomeIsOn ==
  ASSUME GstInv, NEW d \in Dates, NEW v0 \in GstVersions, LiveV(gstRate, v0), gstRate[v0].from <= d
  PROVE  \E v \in GstVersions : OnIs(gstRate, d, v)
<1> USE GstInvFacts
<1> DEFINE begun == {v \in GstVersions : LiveV(gstRate, v) /\ gstRate[v].from <= d}
<1>1. PICK v \in begun : \A w \in begun : gstRate[w].from <= gstRate[v].from
  <2>1. begun \in SUBSET GstVersions /\ begun # {}
    OBVIOUS
  <2> HIDE DEF begun
  <2> QED
    BY <2>1, LastToStart
<1>2. gstRate[v].to = Open \/ gstRate[v].to >= d
  <2> SUFFICES ASSUME gstRate[v].to # Open, gstRate[v].to < d PROVE FALSE
    OBVIOUS
  <2>1. gstRate[v].from <= gstRate[v].to /\ \E w \in GstVersions : LiveV(gstRate, w) /\ gstRate[w].from = gstRate[v].to + 1
    BY DEF RatesTold, Ended
  <2>2. PICK w \in GstVersions : LiveV(gstRate, w) /\ gstRate[w].from = gstRate[v].to + 1
    BY <2>1
  <2>3. w \in begun /\ gstRate[w].from > gstRate[v].from
    BY <2>1, <2>2
  <2> QED
    BY <2>3, <1>1
<1> QED
  BY <1>1, <1>2 DEF OnIs

LEMMA OnIsIt ==
  ASSUME GstInv, NEW d \in Dates, NEW v, OnIs(gstRate, d, v)
  PROVE  gstOn(d) = v /\ gstOn(d) # 0
<1> USE GstInvFacts
<1> DEFINE inForce == {w \in GstVersions : gstRate[w].status = "live" /\ gstRate[w].from <= d
                                        /\ (gstRate[w].to = Open \/ gstRate[w].to >= d)}
           on == CHOOSE w \in inForce : \A x \in inForce : gstRate[x].from <= gstRate[w].from
<1>1. v \in inForce /\ \A x \in inForce : gstRate[x].from <= gstRate[v].from
  BY DEF OnIs, LiveV
<1>2. on \in inForce /\ \A x \in inForce : gstRate[x].from <= gstRate[on].from
  <2> HIDE DEF inForce
  <2> QED
    BY <1>1, Zenon
<1>3. on = v
  <2> HIDE DEF on
  <2>1. gstRate[on].from <= gstRate[v].from /\ gstRate[v].from <= gstRate[on].from
    BY <1>1, <1>2
  <2>2. gstRate[on].from = gstRate[v].from /\ on \in GstVersions /\ v \in GstVersions
    BY <2>1, <1>1, <1>2
  <2> QED
    BY <2>2, <1>1, <1>2 DEF RatesTold, LiveV
<1>4. gstOn(d) = on
  <2>1. inForce # {}
    BY <1>1
  <2> QED
    BY <2>1 DEF gstOn
<1> QED
  BY <1>1, <1>3, <1>4

LEMMA GstInvStands == GstInv => GstStands
<1> SUFFICES ASSUME GstInv PROVE GstStands
  OBVIOUS
<1> USE GstInvFacts
<1>1. ASSUME NEW d \in Dates, NEW v \in GstVersions, gstRate[v].status = "live", gstRate[v].from <= d PROVE gstOn(d) # 0
  <2>1. PICK w \in GstVersions : OnIs(gstRate, d, w)
    BY <1>1, SomeIsOn DEF LiveV
  <2> QED
    BY <2>1, OnIsIt
<1>2. ASSUME Cardinality(editors) = 1, NEW d \in 1..date - 1, charged[d] # 0 PROVE gstOn(d) = charged[d]
  <2>1. d \in Dates
    BY GstAssumption DEF Dates
  <2>2. OnIs(gstRate, d, charged[d])
    BY <1>2 DEF GstInv, HistoryTold
  <2> QED
    BY <2>1, <2>2, OnIsIt
<1>3. ASSUME Cardinality(editors) = 1, NEW v \in OpenRows, NEW w \in OpenRows, gstRate[v].from < gstRate[w].from
      PROVE  \E x \in GstVersions : gstRate[x].status = "deleted" /\ gstRate[x].from \in gstRate[v].from..gstRate[w].from
  BY <1>3 DEF GstInv, HistoryTold, OpenRows, LiveV
<1> QED
  BY <1>1, <1>2, <1>3 DEF GstStands

\* The last version to start is open.
LEMMA LastIsOpen ==
  ASSUME GstInv, NEW v \in GstVersions, LiveV(gstRate, v)
  PROVE  \E u \in OpenOf(gstRate) : gstRate[v].from <= gstRate[u].from
<1> USE GstInvFacts
<1> DEFINE live == {w \in GstVersions : LiveV(gstRate, w)}
<1>1. PICK u \in live : \A w \in live : gstRate[w].from <= gstRate[u].from
  <2>1. live \in SUBSET GstVersions /\ live # {}
    OBVIOUS
  <2> HIDE DEF live
  <2> QED
    BY <2>1, LastToStart
<1>2. gstRate[u].to = Open
  <2> SUFFICES ASSUME gstRate[u].to # Open PROVE FALSE
    OBVIOUS
  <2>1. gstRate[u].from <= gstRate[u].to /\ \E w \in GstVersions : LiveV(gstRate, w) /\ gstRate[w].from = gstRate[u].to + 1
    BY DEF RatesTold, Ended
  <2>2. PICK w \in live : gstRate[w].from = gstRate[u].to + 1
    BY <2>1
  <2> QED
    BY <2>1, <2>2, <1>1
<1> QED
  BY <1>1, <1>2 DEF OpenOf, LiveV

LEMMA OneEditor ==
  ASSUME GstInv, Cardinality(editors) = 1, NEW e \in Editors, e \in editors
  PROVE  /\ \A f \in Editors : f # e => saving[f].pc = "idle"
         /\ \A v \in GstVersions : ~RowHeld(v, e)
         /\ HistoryTold
<1>1. \E x : editors = {x}
  BY GstAssumption, GstInvFacts, FS_Subset, FS_Singleton
<1>2. \A f \in Editors : f # e => saving[f].pc = "idle"
  BY <1>1, GstInvFacts DEF AsksTold
<1> QED
  BY <1>2 DEF RowHeld, GstInv

\* An editor goes on to the next thing and no version changes.
LEMMA OnlySaving ==
  ASSUME GstInv, NEW e \in Editors, NEW ask \in Savings, saving' = [saving EXCEPT ![e] = ask],
         UNCHANGED <<editors, gstRate, date, charged>>,
         AskTold(ask, gstRate), ask.pc # "idle" => e \in editors,
         \A v \in GstVersions : Holds(ask, v) => ~RowHeld(v, e),
         Cardinality(editors) = 1 => AloneTold(ask, gstRate, date)
  PROVE  GstInv'
<1> USE GstInvFacts
<1>1. saving' \in [Editors -> Savings] /\ saving'[e] = ask /\ \A f \in Editors : f # e => saving'[f] = saving[f]
  OBVIOUS
<1>2. GstTypeOK'
  BY <1>1 DEF GstTypeOK
<1>3. \A f \in Editors : AskTold(saving'[f], gstRate) /\ (saving'[f].pc # "idle" => f \in editors)
  BY <1>1 DEF AsksTold
<1>4. \A f, g \in Editors, v \in GstVersions : Holds(saving'[f], v) /\ Holds(saving'[g], v) => f = g
  <2> SUFFICES ASSUME NEW f \in Editors, NEW g \in Editors, NEW v \in GstVersions, Holds(saving'[f], v), Holds(saving'[g], v), f # g
               PROVE  FALSE
    OBVIOUS
  <2>1. \A h \in Editors \ {e} : Holds(saving[h], v) => RowHeld(v, e)
    BY DEF RowHeld, Holds
  <2> QED
    BY <1>1, <2>1 DEF AsksTold
<1>5. AsksTold'
  BY <1>3, <1>4 DEF AsksTold
<1>6. Cardinality(editors') = 1 => HistoryTold'
  <2> SUFFICES ASSUME Cardinality(editors) = 1 PROVE HistoryTold'
    OBVIOUS
  <2>1. HistoryTold
    BY DEF GstInv
  <2>2. \A f \in Editors : AloneTold(saving'[f], gstRate, date)
    BY <1>1, <2>1 DEF HistoryTold
  <2> QED
    BY <2>1, <2>2 DEF HistoryTold
<1> QED
  BY <1>2, <1>5, <1>6 DEF GstInv

LEMMA NotSavingTold ==
  /\ NotSaving \in Savings /\ NotSaving.pc = "idle"
  /\ \A rates, now : AskTold(NotSaving, rates) /\ AloneTold(NotSaving, rates, now) /\ \A v : ~Holds(NotSaving, v)
<1>1. NotSaving \in Savings /\ NotSaving.pc = "idle"
  BY GstAssumption DEF NotSaving, Savings, Dates
<1> QED
  BY <1>1 DEF AskTold, AloneTold, Holds

LEMMA GstBeginSteps ==
  ASSUME GstInv, NEW e \in Editors, BeginCreateGst(e) \/ StopWaiting(e)
  PROVE  GstInv'
<1> USE GstInvFacts
<1>1. OpenRows = OpenOf(gstRate)
  BY DEF OpenRows, OpenOf
<1>2. UNCHANGED <<editors, gstRate, date, charged>> /\ e \in editors
  BY DEF BeginCreateGst, StopWaiting, Saving, AsksTold
<1>3. PICK ask \in Savings :
        /\ saving' = [saving EXCEPT ![e] = ask]
        /\ \/ ask.pc = "insert" /\ (OpenOf(gstRate) = {} \/ saving[e].pc = "waiting")
           \/ ask.pc = "waiting" /\ \E v \in GstVersions : RowHeld(v, e)
           \/ /\ ask.pc = "closing" /\ ask.row \in OpenOf(gstRate) /\ ~RowHeld(ask.row, e) /\ mayStart(ask.row, ask.from)
              /\ OpenOf(gstRate) = {ask.row} \/ saving[e].pc = "waiting"
           \/ ask = NotSaving
  <2>1. CASE BeginCreateGst(e)
    <3>1. PICK from \in Dates :
            \/ /\ OpenRows = {}
               /\ saving' = [saving EXCEPT ![e] = [NotSaving EXCEPT !.pc = "insert", !.from = from]]
            \/ \E v \in OpenRows :
                 /\ OpenRows = {v}
                 /\ RowHeld(v, e) \/ mayStart(v, from)
                 /\ saving' = [saving EXCEPT ![e] = [NotSaving EXCEPT !.pc = IF RowHeld(v, e) THEN "waiting" ELSE "closing",
                                                                      !.row = v, !.from = from]]
      BY <2>1 DEF BeginCreateGst
    <3>2. CASE /\ OpenRows = {}
               /\ saving' = [saving EXCEPT ![e] = [NotSaving EXCEPT !.pc = "insert", !.from = from]]
      <4> DEFINE next == [NotSaving EXCEPT !.pc = "insert", !.from = from]
      <4>1. next \in Savings /\ next.pc = "insert"
        BY DEF NotSaving, Savings
      <4> HIDE DEF next
      <4> QED
        BY <3>2, <4>1, <1>1 DEF next
    <3>3. ASSUME NEW v \in OpenRows, OpenRows = {v}, RowHeld(v, e) \/ mayStart(v, from),
                 saving' = [saving EXCEPT ![e] = [NotSaving EXCEPT !.pc = IF RowHeld(v, e) THEN "waiting" ELSE "closing",
                                                                      !.row = v, !.from = from]]
          PROVE  \E ask \in Savings :
                   /\ saving' = [saving EXCEPT ![e] = ask]
                   /\ \/ ask.pc = "waiting" /\ \E x \in GstVersions : RowHeld(x, e)
                      \/ /\ ask.pc = "closing" /\ ask.row \in OpenOf(gstRate) /\ ~RowHeld(ask.row, e) /\ mayStart(ask.row, ask.from)
                         /\ OpenOf(gstRate) = {ask.row}
      <4> DEFINE next == [NotSaving EXCEPT !.pc = IF RowHeld(v, e) THEN "waiting" ELSE "closing", !.row = v, !.from = from]
      <4>1. v \in GstVersions
        BY DEF OpenRows
      <4>2. next \in Savings /\ next.pc = (IF RowHeld(v, e) THEN "waiting" ELSE "closing") /\ next.row = v /\ next.from = from
        BY <4>1 DEF NotSaving, Savings
      <4>3. saving' = [saving EXCEPT ![e] = next]
        BY <3>3
      <4> HIDE DEF next
      <4> QED
        BY <3>3, <4>1, <4>2, <4>3, <1>1
    <3> QED
      BY <3>1, <3>2, <3>3
  <2>2. CASE StopWaiting(e)
    <3> DEFINE old == saving[e]
    <3>1. /\ old.pc = "waiting" /\ ~RowHeld(old.row, e)
          /\ saving' = [saving EXCEPT ![e] =
               IF old.row \notin OpenRows THEN [old EXCEPT !.pc = "insert"]
               ELSE IF mayStart(old.row, old.from) THEN [old EXCEPT !.pc = "closing"] ELSE NotSaving]
      BY <2>2 DEF StopWaiting
    <3>2. /\ [old EXCEPT !.pc = "insert"] \in Savings /\ [old EXCEPT !.pc = "insert"].pc = "insert"
          /\ [old EXCEPT !.pc = "closing"] \in Savings /\ [old EXCEPT !.pc = "closing"].pc = "closing"
          /\ [old EXCEPT !.pc = "closing"].row = old.row /\ [old EXCEPT !.pc = "closing"].from = old.from
      BY DEF Savings
    <3> HIDE DEF old
    <3>3. NotSaving \in Savings
      BY NotSavingTold
    <3>4. CASE old.row \notin OpenRows
      BY <3>1, <3>2, <3>4 DEF old
    <3>5. CASE old.row \in OpenRows /\ mayStart(old.row, old.from)
      BY <3>1, <3>2, <3>5, <1>1 DEF old
    <3>6. CASE old.row \in OpenRows /\ ~mayStart(old.row, old.from)
      BY <3>1, <3>3, <3>6
    <3> QED
      BY <3>4, <3>5, <3>6
  <2> QED
    BY <2>1, <2>2
<1>4. AskTold(ask, gstRate) /\ \A v \in GstVersions : Holds(ask, v) => ~RowHeld(v, e)
  BY <1>3, NotSavingTold DEF AskTold, Holds, OpenOf, LiveV, mayStart
<1>5. Cardinality(editors) = 1 => AloneTold(ask, gstRate, date)
  <2> SUFFICES ASSUME Cardinality(editors) = 1 PROVE AloneTold(ask, gstRate, date)
    OBVIOUS
  <2>1. saving[e].pc # "waiting" /\ \A v \in GstVersions : ~RowHeld(v, e)
    BY <1>2, OneEditor DEF HistoryTold, AloneTold
  <2> QED
    BY <1>3, <2>1, NotSavingTold DEF AloneTold, mayStart
<1> QED
  BY <1>2, <1>3, <1>4, <1>5, OnlySaving

\* What changes of the versions keeps the types and the other editors.
LEMMA VersionsChange ==
  ASSUME GstInv, NEW e \in Editors, saving' = [saving EXCEPT ![e] = NotSaving],
         UNCHANGED <<editors, date, charged>>, gstRate' \in [GstVersions -> VersionRows], RatesTold(gstRate'),
         \A f \in Editors \ {e} : AskTold(saving[f], gstRate'),
         Cardinality(editors) = 1 => HistoryTold'
  PROVE  GstInv'
<1> USE GstInvFacts
<1>1. NotSaving \in Savings /\ NotSaving.pc = "idle" /\ AskTold(NotSaving, gstRate') /\ \A v : ~Holds(NotSaving, v)
  BY NotSavingTold
<1>2. saving' \in [Editors -> Savings] /\ saving'[e] = NotSaving /\ \A f \in Editors : f # e => saving'[f] = saving[f]
  BY <1>1
<1>3. GstTypeOK'
  BY <1>2 DEF GstTypeOK
<1>4. \A f \in Editors : AskTold(saving'[f], gstRate') /\ (saving'[f].pc # "idle" => f \in editors)
  BY <1>1, <1>2 DEF AsksTold
<1>5. \A f, g \in Editors, v \in GstVersions : Holds(saving'[f], v) /\ Holds(saving'[g], v) => f = g
  BY <1>1, <1>2 DEF AsksTold
<1> QED
  BY <1>3, <1>4, <1>5 DEF GstInv, AsksTold

LEMMA GstCreateSteps ==
  ASSUME GstInv, NEW e \in Editors, createGst(e)
  PROVE  GstInv'
<1> USE GstInvFacts
<1> DEFINE ask == saving[e]
<1>1. /\ ask.pc \in {"closing", "insert"} /\ saving' = [saving EXCEPT ![e] = NotSaving]
      /\ UNCHANGED <<editors, date, charged>>
  BY DEF createGst
<1>2. ask \in Savings /\ AskTold(ask, gstRate) /\ e \in editors
  BY <1>1 DEF AsksTold
<1>3. CASE UNCHANGED gstRate
  BY <1>1, <1>3, NotSavingTold, OnlySaving
<1>4. CASE ~UNCHANGED gstRate
  <2> DEFINE closes == ask.pc = "closing"
             u == ask.row
             ended == [gstRate[u] EXCEPT !.to = ask.from - 1]
             added == [status |-> "live", from |-> ask.from, to |-> Open]
  <2>1. PICK new \in Slot :
          /\ \A v \in GstVersions : LiveV(gstRate, v) => gstRate[v].from # ask.from
          /\ gstRate' = [v \in GstVersions |-> IF v = new THEN added ELSE IF closes /\ v = u THEN ended ELSE gstRate[v]]
    BY <1>4 DEF createGst, LiveV
  <2>2. new \in GstVersions /\ gstRate[new].status = "none"
    BY DEF Slot
  <2>3. closes => u \in GstVersions /\ LiveV(gstRate, u) /\ gstRate[u].to = Open /\ gstRate[u].from < ask.from /\ u # new
    BY <1>2, <2>2 DEF AskTold, LiveV
  <2>4. ask.from \in Dates /\ ask.from \in Nat \ {0} /\ date \in Nat
    BY <1>2 DEF Savings
  <2>5. closes => /\ ended \in VersionRows /\ ended.status = gstRate[u].status /\ ended.from = gstRate[u].from
                  /\ ended.to = ask.from - 1 /\ ended.to # Open /\ ended.to \in Nat
    BY <2>3, <2>4, GstAssumption, SMTT(30) DEF VersionRows, Dates, Open
  <2>6. added \in VersionRows /\ added.status = "live" /\ added.from = ask.from /\ added.to = Open
    BY <2>4 DEF VersionRows
  <2> HIDE DEF ended, added
  <2>7. /\ gstRate' \in [GstVersions -> VersionRows]
        /\ gstRate'[new] = added /\ (closes => gstRate'[u] = ended)
        /\ \A v \in GstVersions : v # new /\ ~(closes /\ v = u) => gstRate'[v] = gstRate[v]
    BY <2>1, <2>2, <2>3, <2>5, <2>6
  <2>8. /\ LiveV(gstRate', new) /\ gstRate'[new].from = ask.from /\ gstRate'[new].to = Open /\ ~LiveV(gstRate, new)
        /\ closes => gstRate'[u].to = ask.from - 1 /\ gstRate'[u].to # Open /\ Ended(gstRate', u)
        /\ \A v \in GstVersions : v # new => /\ gstRate'[v].status = gstRate[v].status /\ gstRate'[v].from = gstRate[v].from
                                             /\ LiveV(gstRate', v) <=> LiveV(gstRate, v)
        /\ \A v \in GstVersions : v # new /\ ~(closes /\ v = u) => (Ended(gstRate', v) <=> Ended(gstRate, v)) /\ gstRate'[v].to = gstRate[v].to
    BY <2>2, <2>3, <2>5, <2>6, <2>7 DEF LiveV, Ended
  <2> HIDE DEF ask, u, closes
  <2>9. RatesTold(gstRate')
    <3>1. \A v, w \in GstVersions : LiveV(gstRate', v) /\ LiveV(gstRate', w) /\ gstRate'[v].from = gstRate'[w].from => v = w
      BY <2>1, <2>8 DEF RatesTold
    <3>2. ASSUME NEW v \in GstVersions, Ended(gstRate', v)
          PROVE  gstRate'[v].from <= gstRate'[v].to /\ \E w \in GstVersions : LiveV(gstRate', w) /\ gstRate'[w].from = gstRate'[v].to + 1
      <4>1. v # new
        BY <2>8, <3>2 DEF Ended
      <4>2. CASE closes /\ v = u
        BY <4>1, <4>2, <2>2, <2>3, <2>4, <2>8
      <4>3. CASE ~(closes /\ v = u)
        BY <4>1, <4>3, <2>8, <3>2 DEF RatesTold
      <4> QED
        BY <4>2, <4>3
    <3> QED
      BY <3>1, <3>2 DEF RatesTold
  <2>10. ASSUME NEW f \in Editors \ {e} PROVE AskTold(saving[f], gstRate')
    <3> DEFINE other == saving[f]
    <3>1. AskTold(other, gstRate) /\ \A v \in GstVersions : Holds(other, v) => ~(closes /\ v = u)
      BY <2>3 DEF AsksTold, Holds, closes, u, ask
    <3> HIDE DEF other
    <3>2. ASSUME other.pc = "closing"
          PROVE  /\ other.row \in GstVersions /\ LiveV(gstRate', other.row)
                 /\ gstRate'[other.row].to = Open /\ gstRate'[other.row].from < other.from
      BY <3>1, <3>2, <2>8 DEF AskTold, Holds
    <3>3. ASSUME other.pc = "deleting"
          PROVE  /\ other.row \in GstVersions /\ gstRate'[other.row].status # "none"
                 /\ \A w \in other.reopens : EndsBefore(gstRate', w, other.row) /\ LiveV(gstRate', other.row)
                 /\ LiveV(gstRate', other.row) => \A w \in GstVersions : EndsBefore(gstRate', w, other.row) => w \in other.reopens
      <4>1. other.row \in GstVersions /\ gstRate[other.row].status # "none" /\ other.row # new
        BY <3>1, <3>3, <2>2 DEF AskTold
      <4>2. other.reopens \subseteq GstVersions
        BY DEF Savings, other
      <4>3. \A w \in other.reopens : EndsBefore(gstRate', w, other.row) /\ LiveV(gstRate', other.row)
        <5> SUFFICES ASSUME NEW w \in other.reopens PROVE EndsBefore(gstRate', w, other.row) /\ LiveV(gstRate', other.row)
          OBVIOUS
        <5>1. EndsBefore(gstRate, w, other.row) /\ LiveV(gstRate, other.row) /\ w \in GstVersions /\ ~(closes /\ w = u)
          BY <3>1, <3>3, <4>2 DEF AskTold, Holds
        <5>2. w # new
          BY <5>1, <2>8 DEF EndsBefore, Ended
        <5> QED
          BY <5>1, <5>2, <4>1, <2>8 DEF EndsBefore
      <4>4. ASSUME LiveV(gstRate', other.row), NEW w \in GstVersions, EndsBefore(gstRate', w, other.row) PROVE w \in other.reopens
        <5>1. w # new /\ LiveV(gstRate, other.row) /\ gstRate'[other.row].from = gstRate[other.row].from
          BY <4>1, <4>4, <2>8 DEF EndsBefore, Ended
        <5>2. ~(closes /\ w = u)
          BY <5>1, <4>1, <4>4, <2>1, <2>4, <2>8, SMTT(30) DEF EndsBefore
        <5> QED
          BY <5>1, <5>2, <3>1, <3>3, <4>4, <2>8 DEF AskTold, EndsBefore
      <4> QED
        BY <4>1, <4>3, <4>4, <2>8
    <3> QED
      BY <3>2, <3>3 DEF AskTold, other
  <2>11. ASSUME Cardinality(editors) = 1 PROVE HistoryTold'
    <3>1. HistoryTold /\ \A f \in Editors : f # e => saving[f].pc = "idle"
      BY <1>2, <2>11, OneEditor
    <3>2. /\ closes => OpenOf(gstRate) = {u} /\ ask.from >= date
          /\ ~closes => OpenOf(gstRate) = {}
      BY <1>1, <3>1 DEF HistoryTold, AloneTold, closes, u, ask
    <3>3. \A v \in GstVersions : LiveV(gstRate, v) => closes /\ gstRate[v].from <= gstRate[u].from
      BY <3>2, LastIsOpen
    <3>4. \A v \in GstVersions : LiveV(gstRate, v) => gstRate[v].from < ask.from
      BY <3>3, <2>3, <2>4
    <3>5. ASSUME NEW v \in GstVersions, NEW w \in GstVersions, Ended(gstRate', v), LiveV(gstRate', w), gstRate'[v].from < gstRate'[w].from
          PROVE  gstRate'[v].to < gstRate'[w].from
      <4>1. v # new
        BY <3>5, <2>8 DEF Ended
      <4>2. CASE w = new /\ closes /\ v = u
        BY <4>1, <4>2, <2>4, <2>8
      <4>3. CASE w = new /\ ~(closes /\ v = u)
        <5>1. Ended(gstRate, v) /\ gstRate'[v].to = gstRate[v].to
          BY <4>1, <4>3, <3>5, <2>8
        <5>2. PICK x \in GstVersions : LiveV(gstRate, x) /\ gstRate[x].from = gstRate[v].to + 1
          BY <5>1 DEF RatesTold
        <5>3. gstRate[x].from < ask.from /\ gstRate[x].from \in Nat /\ gstRate[v].to \in Nat
          BY <5>2, <3>4 DEF Open
        <5> QED
          BY <4>3, <5>1, <5>2, <5>3, <2>4, <2>8
      <4>4. CASE w # new
        <5>1. LiveV(gstRate, w) /\ gstRate'[w].from = gstRate[w].from /\ gstRate'[v].from = gstRate[v].from
          BY <4>1, <4>4, <3>5, <2>8
        <5>2. ~(closes /\ v = u)
          BY <5>1, <3>3, <3>5, <2>3
        <5> QED
          BY <5>1, <5>2, <4>1, <3>1, <3>5, <2>8 DEF HistoryTold
      <4> QED
        BY <4>2, <4>3, <4>4
    <3>6. ASSUME NEW v \in GstVersions, NEW w \in GstVersions, LiveV(gstRate', v), gstRate'[v].to = Open, LiveV(gstRate', w),
                 gstRate'[v].from < gstRate'[w].from
          PROVE  FALSE
      <4>1. v = new
        BY <3>2, <3>6, <2>8 DEF OpenOf, LiveV
      <4>2. w # new
        BY <4>1, <3>6, <2>4, <2>8
      <4>3. LiveV(gstRate, w) /\ gstRate'[w].from = gstRate[w].from /\ gstRate[w].from \in Nat
        BY <4>2, <3>6, <2>8
      <4> QED
        BY <4>1, <4>3, <3>4, <3>6, <2>4, <2>8
    <3>7. ASSUME NEW d \in 1..date - 1, charged[d] # 0 PROVE OnIs(gstRate', d, charged[d])
      <4> DEFINE c == charged[d]
      <4>1. OnIs(gstRate, d, c) /\ d \in Nat /\ d < date
        BY <3>1, <3>7, <2>4 DEF HistoryTold
      <4> HIDE DEF c
      <4>2. c \in GstVersions /\ LiveV(gstRate, c) /\ gstRate[c].from <= d /\ (gstRate[c].to = Open \/ gstRate[c].to >= d)
        BY <4>1 DEF OnIs
      <4>3. c # new /\ closes /\ ask.from > d
        BY <4>1, <4>2, <3>2, <3>3, <2>4, <2>8
      <4>4. LiveV(gstRate', c) /\ gstRate'[c].from <= d /\ (gstRate'[c].to = Open \/ gstRate'[c].to >= d) /\ gstRate'[c].from = gstRate[c].from
        BY <4>1, <4>2, <4>3, <2>4, <2>8
      <4>5. ASSUME NEW w \in GstVersions, LiveV(gstRate', w), gstRate'[w].from <= d, gstRate'[w].to = Open \/ gstRate'[w].to >= d
            PROVE  gstRate'[w].from <= gstRate'[c].from
        <5>1. w # new
          BY <4>1, <4>3, <4>5, <2>4, <2>8
        <5>2. LiveV(gstRate, w) /\ gstRate[w].from <= d /\ gstRate'[w].from = gstRate[w].from
          BY <5>1, <4>5, <2>8
        <5>3. gstRate[w].to = Open \/ gstRate[w].to >= d
          BY <5>1, <4>5, <2>3, <2>8
        <5> QED
          BY <5>2, <5>3, <4>1, <4>4 DEF OnIs
      <4> QED
        BY <4>2, <4>4, <4>5 DEF OnIs, c
    <3>8. \A f \in Editors : AloneTold(saving'[f], gstRate', date)
      BY <1>1, <3>1, NotSavingTold DEF AloneTold
    <3> QED
      BY <1>1, <3>5, <3>6, <3>7, <3>8 DEF HistoryTold
  <2> QED
    BY <1>1, <2>7, <2>9, <2>10, <2>11, VersionsChange
<1> QED
  BY <1>3, <1>4

LEMMA GstDeleteSteps ==
  ASSUME GstInv, NEW e \in Editors, deleteGst(e)
  PROVE  GstInv'
<1> USE GstInvFacts
<1> DEFINE ask == saving[e]
           x == ask.row
           R == ask.reopens
<1>1. /\ ask.pc = "deleting" /\ ~RowHeld(x, e) /\ saving' = [saving EXCEPT ![e] = NotSaving]
      /\ gstRate' = [v \in GstVersions |-> IF v = x THEN [gstRate[v] EXCEPT !.status = "deleted"]
                                          ELSE IF v \in R THEN [gstRate[v] EXCEPT !.to = Open] ELSE gstRate[v]]
      /\ UNCHANGED <<editors, date, charged>>
  BY DEF deleteGst
<1>2. e \in editors /\ R \in SUBSET GstVersions /\ x \in GstVersions /\ gstRate[x].status # "none"
      /\ (\A w \in R : EndsBefore(gstRate, w, x) /\ LiveV(gstRate, x))
      /\ (LiveV(gstRate, x) => \A w \in GstVersions : EndsBefore(gstRate, w, x) => w \in R)
  BY <1>1 DEF AsksTold, AskTold, Savings
<1>3. \A f \in Editors \ {e}, v \in GstVersions : Holds(saving[f], v) => v # x /\ v \notin R
  BY <1>1 DEF AsksTold, Holds, RowHeld
<1>4. ASSUME Cardinality(editors) = 1
      PROVE  HistoryTold /\ (\A f \in Editors : f # e => saving[f].pc = "idle") /\ gstRate[x].from > date
  <2>1. HistoryTold /\ \A f \in Editors : f # e => saving[f].pc = "idle"
    BY <1>2, <1>4, OneEditor
  <2> QED
    BY <1>1, <2>1 DEF HistoryTold, AloneTold
<1> HIDE DEF ask, x, R
<1>5. CASE ~LiveV(gstRate, x)
  <2>1. R = {} /\ gstRate[x].status = "deleted"
    BY <1>2, <1>5 DEF LiveV
  <2>2. [gstRate[x] EXCEPT !.status = "deleted"] = gstRate[x]
    BY <1>2, <2>1 DEF VersionRows
  <2>3. gstRate' = gstRate
    BY <1>1, <1>2, <2>1, <2>2
  <2> QED
    BY <1>1, <2>3, NotSavingTold, OnlySaving
<1>6. CASE LiveV(gstRate, x)
  <2>1. x \notin R
    BY <1>2 DEF EndsBefore, RatesTold
  <2>2. \A v \in GstVersions :
          /\ [gstRate[v] EXCEPT !.status = "deleted"] \in VersionRows
          /\ [gstRate[v] EXCEPT !.status = "deleted"].status = "deleted"
          /\ [gstRate[v] EXCEPT !.status = "deleted"].from = gstRate[v].from
          /\ [gstRate[v] EXCEPT !.to = Open] \in VersionRows
          /\ [gstRate[v] EXCEPT !.to = Open].status = gstRate[v].status
          /\ [gstRate[v] EXCEPT !.to = Open].from = gstRate[v].from
          /\ [gstRate[v] EXCEPT !.to = Open].to = Open
    BY DEF VersionRows
  <2>3. gstRate' \in [GstVersions -> VersionRows]
    BY <1>1, <1>2, <2>2
  <2>4. /\ gstRate'[x].status = "deleted" /\ ~LiveV(gstRate', x)
        /\ \A v \in GstVersions : gstRate'[v].from = gstRate[v].from
        /\ \A v \in GstVersions : v # x => gstRate'[v].status = gstRate[v].status /\ (LiveV(gstRate', v) <=> LiveV(gstRate, v))
        /\ \A v \in R : gstRate'[v].to = Open
        /\ \A v \in GstVersions : v # x /\ v \notin R => gstRate'[v].to = gstRate[v].to /\ (Ended(gstRate', v) <=> Ended(gstRate, v))
        /\ \A v \in GstVersions : Ended(gstRate', v) => v # x /\ v \notin R
    BY <1>1, <1>2, <2>1, <2>2 DEF LiveV, Ended
  <2>5. RatesTold(gstRate')
    <3>1. \A v, w \in GstVersions : LiveV(gstRate', v) /\ LiveV(gstRate', w) /\ gstRate'[v].from = gstRate'[w].from => v = w
      BY <2>4 DEF RatesTold
    <3>2. ASSUME NEW v \in GstVersions, Ended(gstRate', v)
          PROVE  gstRate'[v].from <= gstRate'[v].to /\ \E w \in GstVersions : LiveV(gstRate', w) /\ gstRate'[w].from = gstRate'[v].to + 1
      <4>1. v # x /\ v \notin R /\ Ended(gstRate, v) /\ gstRate'[v].to = gstRate[v].to
        BY <2>4, <3>2
      <4>2. PICK w \in GstVersions : LiveV(gstRate, w) /\ gstRate[w].from = gstRate[v].to + 1
        BY <4>1 DEF RatesTold
      <4>3. gstRate[v].to \in Nat
        BY DEF Open
      <4>4. w # x
        BY <1>2, <1>6, <4>1, <4>2, <4>3 DEF EndsBefore
      <4> QED
        BY <4>1, <4>2, <4>4, <2>4 DEF RatesTold
    <3> QED
      BY <3>1, <3>2 DEF RatesTold
  <2>6. ASSUME NEW f \in Editors \ {e} PROVE AskTold(saving[f], gstRate')
    <3> DEFINE other == saving[f]
    <3>1. AskTold(other, gstRate) /\ other.reopens \subseteq GstVersions
      BY DEF AsksTold, Savings
    <3>2. \A v \in GstVersions : Holds(other, v) => v # x /\ v \notin R
      BY <1>3
    <3> HIDE DEF other
    <3>3. ASSUME other.pc = "closing"
          PROVE  /\ other.row \in GstVersions /\ LiveV(gstRate', other.row)
                 /\ gstRate'[other.row].to = Open /\ gstRate'[other.row].from < other.from
      BY <3>1, <3>2, <3>3, <2>4 DEF AskTold, Holds
    <3>4. ASSUME other.pc = "deleting"
          PROVE  /\ other.row \in GstVersions /\ gstRate'[other.row].status # "none"
                 /\ \A w \in other.reopens : EndsBefore(gstRate', w, other.row) /\ LiveV(gstRate', other.row)
                 /\ LiveV(gstRate', other.row) => \A w \in GstVersions : EndsBefore(gstRate', w, other.row) => w \in other.reopens
      <4>1. other.row \in GstVersions /\ gstRate'[other.row].status # "none"
        BY <3>1, <3>4, <2>4 DEF AskTold
      <4>2. ASSUME NEW w \in other.reopens PROVE EndsBefore(gstRate', w, other.row) /\ LiveV(gstRate', other.row)
        <5>1. EndsBefore(gstRate, w, other.row) /\ LiveV(gstRate, other.row) /\ w \in GstVersions
          BY <3>1, <3>4 DEF AskTold
        <5>2. w # x /\ w \notin R
          BY <3>2, <3>4, <5>1 DEF Holds
        <5>3. other.row # x
          BY <1>2, <1>6, <5>1, <5>2
        <5> QED
          BY <4>1, <5>1, <5>2, <5>3, <2>4 DEF EndsBefore
      <4>3. ASSUME LiveV(gstRate', other.row), NEW w \in GstVersions, EndsBefore(gstRate', w, other.row) PROVE w \in other.reopens
        <5>1. w # x /\ w \notin R /\ LiveV(gstRate, other.row)
          BY <4>1, <4>3, <2>4 DEF EndsBefore
        <5>2. EndsBefore(gstRate, w, other.row)
          BY <4>1, <4>3, <5>1, <2>4 DEF EndsBefore
        <5> QED
          BY <5>1, <5>2, <3>1, <3>4 DEF AskTold
      <4> QED
        BY <4>1, <4>2, <4>3
    <3> QED
      BY <3>3, <3>4 DEF AskTold, other
  <2>7. ASSUME Cardinality(editors) = 1 PROVE HistoryTold'
    <3> USE <2>7, <1>4
    <3>1. ASSUME NEW v \in GstVersions, NEW w \in GstVersions, Ended(gstRate', v), LiveV(gstRate', w), gstRate'[v].from < gstRate'[w].from
          PROVE  gstRate'[v].to < gstRate'[w].from
      <4>1. Ended(gstRate, v) /\ LiveV(gstRate, w) /\ gstRate'[v].to = gstRate[v].to
        BY <3>1, <2>4
      <4> QED
        BY <4>1, <3>1, <2>4 DEF HistoryTold
    <3>2. ASSUME NEW v \in GstVersions, NEW w \in GstVersions, LiveV(gstRate', v), gstRate'[v].to = Open, LiveV(gstRate', w),
                 gstRate'[v].from < gstRate'[w].from
          PROVE  \E y \in GstVersions : gstRate'[y].status = "deleted" /\ gstRate'[y].from \in gstRate'[v].from..gstRate'[w].from
      <4>1. LiveV(gstRate, v) /\ LiveV(gstRate, w) /\ gstRate[v].from < gstRate[w].from /\ v # x
        BY <3>2, <2>4
      <4>2. CASE v \notin R
        <5>1. PICK y \in GstVersions : gstRate[y].status = "deleted" /\ gstRate[y].from \in gstRate[v].from..gstRate[w].from
          BY <4>1, <4>2, <3>2, <2>4 DEF HistoryTold
        <5>2. gstRate'[y].status = "deleted"
          BY <5>1, <2>4
        <5> QED
          BY <5>1, <5>2, <2>4
      <4>3. CASE v \in R
        <5>1. Ended(gstRate, v) /\ gstRate[v].to = gstRate[x].from - 1
          BY <1>2, <4>3 DEF EndsBefore
        <5>2. gstRate[v].from <= gstRate[v].to /\ gstRate[v].to < gstRate[w].from
          BY <4>1, <5>1 DEF HistoryTold, RatesTold
        <5>3. gstRate[v].to \in Nat
          BY DEF Open
        <5>4. gstRate[x].from \in gstRate[v].from..gstRate[w].from
          BY <1>2, <5>1, <5>2, <5>3
        <5> QED
          BY <1>2, <5>4, <2>4
      <4> QED
        BY <4>2, <4>3
    <3>3. ASSUME NEW d \in 1..date - 1, charged[d] # 0 PROVE OnIs(gstRate', d, charged[d])
      <4> DEFINE c == charged[d]
      <4>1. OnIs(gstRate, d, c) /\ d \in Nat /\ d < date
        BY <3>3 DEF HistoryTold
      <4> HIDE DEF c
      <4>2. c \in GstVersions /\ LiveV(gstRate, c) /\ gstRate[c].from <= d /\ (gstRate[c].to = Open \/ gstRate[c].to >= d)
        BY <4>1 DEF OnIs
      <4>3. gstRate[x].from > d /\ \A v \in R : gstRate[v].to >= d
        BY <1>2, <4>1 DEF EndsBefore
      <4>4. c # x
        BY <4>1, <4>2, <4>3, <1>2
      <4>5. LiveV(gstRate', c) /\ gstRate'[c].from <= d /\ (gstRate'[c].to = Open \/ gstRate'[c].to >= d)
        BY <4>2, <4>4, <2>4
      <4>6. ASSUME NEW w \in GstVersions, LiveV(gstRate', w), gstRate'[w].from <= d, gstRate'[w].to = Open \/ gstRate'[w].to >= d
            PROVE  gstRate'[w].from <= gstRate'[c].from
        <5>1. LiveV(gstRate, w) /\ gstRate[w].from <= d /\ w # x
          BY <4>6, <2>4
        <5>2. gstRate[w].to = Open \/ gstRate[w].to >= d
          BY <5>1, <4>3, <4>6, <2>4
        <5> QED
          BY <5>1, <5>2, <4>1, <4>2, <2>4 DEF OnIs
      <4> QED
        BY <4>2, <4>5, <4>6 DEF OnIs, c
    <3>4. \A f \in Editors : AloneTold(saving'[f], gstRate', date)
      BY <1>1, NotSavingTold DEF AloneTold
    <3> QED
      BY <1>1, <3>1, <3>2, <3>3, <3>4 DEF HistoryTold
  <2> QED
    BY <1>1, <2>3, <2>5, <2>6, <2>7, VersionsChange
<1> QED
  BY <1>5, <1>6

LEMMA GstBeginDeleteSteps ==
  ASSUME GstInv, NEW e \in Editors, NEW v \in GstVersions, BeginDeleteGst(e, v)
  PROVE  GstInv'
<1> USE GstInvFacts
<1> DEFINE before == {w \in GstVersions : gstRate[w].status = "live" /\ gstRate[w].to = gstRate[v].from - 1 /\ gstRate[w].to # Open}
           ask == [NotSaving EXCEPT !.pc = "deleting", !.row = v, !.reopens = before]
<1>1. /\ e \in editors /\ LiveV(gstRate, v) /\ gstRate[v].from > date /\ \A w \in before : ~RowHeld(w, e)
      /\ saving' = [saving EXCEPT ![e] = ask] /\ UNCHANGED <<editors, gstRate, date, charged>>
  BY DEF BeginDeleteGst, Saving, LiveV
<1>2. \A w \in GstVersions : w \in before <=> EndsBefore(gstRate, w, v)
  BY DEF EndsBefore, Ended, LiveV
<1>3. before \subseteq GstVersions
  OBVIOUS
<1> HIDE DEF before
<1>4. ask \in Savings /\ ask.pc = "deleting" /\ ask.row = v /\ ask.reopens = before
  <2>1. NotSaving \in Savings /\ before \in SUBSET GstVersions
    BY <1>3, NotSavingTold
  <2> QED
    BY <2>1 DEF Savings
<1> HIDE DEF ask
<1>5. AskTold(ask, gstRate)
  BY <1>1, <1>2, <1>3, <1>4 DEF AskTold, LiveV
<1>6. \A w \in GstVersions : Holds(ask, w) => ~RowHeld(w, e)
  BY <1>1, <1>4 DEF Holds
<1>7. AloneTold(ask, gstRate, date)
  BY <1>1, <1>4 DEF AloneTold
<1> QED
  BY <1>1, <1>4, <1>5, <1>6, <1>7, OnlySaving

LEMMA OnFound ==
  ASSUME GstInv, NEW d \in Dates
  PROVE  gstOn(d) = 0 \/ OnIs(gstRate, d, gstOn(d))
<1>1. CASE \E v \in GstVersions : LiveV(gstRate, v) /\ gstRate[v].from <= d
  <2>1. PICK v \in GstVersions : OnIs(gstRate, d, v)
    BY <1>1, SomeIsOn
  <2> QED
    BY <2>1, OnIsIt
<1>2. CASE ~\E v \in GstVersions : LiveV(gstRate, v) /\ gstRate[v].from <= d
  <2>1. {v \in GstVersions : gstRate[v].status = "live" /\ gstRate[v].from <= d
                           /\ (gstRate[v].to = Open \/ gstRate[v].to >= d)} = {}
    BY <1>2 DEF LiveV
  <2> QED
    BY <2>1 DEF gstOn
<1> QED
  BY <1>1, <1>2

LEMMA MidnightSteps ==
  ASSUME GstInv, Midnight
  PROVE  GstInv'
<1> USE GstInvFacts
<1> DEFINE on == gstOn(date)
<1>1. /\ date < LastDate /\ date' = date + 1 /\ UNCHANGED <<editors, gstRate, saving>>
      /\ charged' = [charged EXCEPT ![date] = on] /\ \A e \in Editors : saving[e].pc = "idle"
  BY DEF Midnight
<1>2. on = 0 \/ OnIs(gstRate, date, on)
  BY OnFound
<1> HIDE DEF on
<1>3. GstTypeOK'
  BY <1>1, <1>2, GstAssumption DEF GstTypeOK, Dates, OnIs
<1>4. AsksTold' /\ RatesTold(gstRate')
  BY <1>1 DEF AsksTold
<1>5. ASSUME Cardinality(editors) = 1 PROVE HistoryTold'
  <2>1. HistoryTold
    BY <1>5 DEF GstInv
  <2>2. ASSUME NEW d \in 1..date' - 1, charged'[d] # 0 PROVE OnIs(gstRate, d, charged'[d])
    <3>1. d \in Dates /\ (d = date \/ d \in 1..date - 1)
      BY <1>1, GstAssumption DEF Dates
    <3> QED
      BY <1>1, <1>2, <2>1, <2>2, <3>1 DEF HistoryTold
  <2>3. \A e \in Editors : AloneTold(saving'[e], gstRate', date')
    BY <1>1 DEF AloneTold
  <2> QED
    BY <1>1, <2>1, <2>2, <2>3 DEF HistoryTold
<1> QED
  BY <1>1, <1>3, <1>4, <1>5 DEF GstInv

LEMMA GstNextInv == GstInv /\ [GstNext]_gstVars => GstInv'
<1> SUFFICES ASSUME GstInv, [GstNext]_gstVars PROVE GstInv'
  OBVIOUS
<1>1. CASE Midnight
  BY <1>1, MidnightSteps
<1>2. ASSUME NEW e \in Editors, BeginCreateGst(e) \/ StopWaiting(e) PROVE GstInv'
  BY <1>2, GstBeginSteps
<1>3. ASSUME NEW e \in Editors, createGst(e) PROVE GstInv'
  BY <1>3, GstCreateSteps
<1>4. ASSUME NEW e \in Editors, NEW v \in GstVersions, BeginDeleteGst(e, v) PROVE GstInv'
  BY <1>4, GstBeginDeleteSteps
<1>5. ASSUME NEW e \in Editors, deleteGst(e) PROVE GstInv'
  BY <1>5, GstDeleteSteps
<1>6. CASE UNCHANGED gstVars
  <2>1. UNCHANGED <<editors, gstRate, date, charged, saving>>
    BY <1>6 DEF gstVars
  <2>2. GstTypeOK' /\ AsksTold' /\ RatesTold(gstRate') /\ (Cardinality(editors') = 1 => HistoryTold')
    <3>1. HistoryTold => HistoryTold'
      BY <2>1 DEF HistoryTold
    <3> QED
      BY <2>1, <3>1, GstInvFacts DEF GstTypeOK, AsksTold, GstInv
  <2> QED
    BY <2>1, <2>2, GstInvFacts DEF GstInv
<1> QED
  BY <1>1, <1>2, <1>3, <1>4, <1>5, <1>6 DEF GstNext

-------------------------------------------------------------------------------
\* Old gold

LEMMA WeightFacts ==
  /\ NoWeight \in Weights
  /\ \A a, b \in Weights : More(a, b) \in Weights /\ Less(a, b) \in Weights
BY DEF Weights, NoWeight, More, Less

\* The parts of what is added up.
NetOf(f) == [x \in DOMAIN f |-> f[x].net]
FineOf(f) == [x \in DOMAIN f |-> f[x].fine]
ValueOf(f) == [x \in DOMAIN f |-> f[x].value]

LEMMA AddUpParts ==
  ASSUME NEW S, NEW f, DOMAIN f = S
  PROVE  /\ AddUp(f) = [net |-> SumFunctionOnSet(NetOf(f), S), fine |-> SumFunctionOnSet(FineOf(f), S),
                        value |-> SumFunctionOnSet(ValueOf(f), S)]
         /\ \A x \in S : NetOf(f)[x] = f[x].net /\ FineOf(f)[x] = f[x].fine /\ ValueOf(f)[x] = f[x].value
BY DEF AddUp, SumFunction, NetOf, FineOf, ValueOf

LEMMA PartsTyped ==
  ASSUME NEW S, NEW f, DOMAIN f = S, \A x \in S : f[x] \in Weights
  PROVE  \A x \in S : NetOf(f)[x] \in Int /\ FineOf(f)[x] \in Int /\ ValueOf(f)[x] \in Int
<1>1. \A x \in S : f[x].net \in Int /\ f[x].fine \in Int /\ f[x].value \in Int
  BY DEF Weights
<1> QED
  BY <1>1 DEF NetOf, FineOf, ValueOf

LEMMA AddUpTyped ==
  ASSUME NEW S, IsFiniteSet(S), NEW f, DOMAIN f = S, \A x \in S : f[x] \in Weights
  PROVE  AddUp(f) \in Weights
<1>1. \A x \in S : NetOf(f)[x] \in Int /\ FineOf(f)[x] \in Int /\ ValueOf(f)[x] \in Int
  BY PartsTyped
<1>2. /\ SumFunctionOnSet(NetOf(f), S) \in Int /\ SumFunctionOnSet(FineOf(f), S) \in Int
      /\ SumFunctionOnSet(ValueOf(f), S) \in Int
  BY <1>1, SumInt
<1> QED
  BY <1>2, AddUpParts DEF Weights

\* One of those added up changes.
LEMMA AddUpChanges ==
  ASSUME NEW S, IsFiniteSet(S), NEW a \in S, NEW f, NEW e, DOMAIN f = S, DOMAIN e = S,
         \A x \in S : f[x] \in Weights /\ e[x] \in Weights, \A x \in S \ {a} : e[x] = f[x]
  PROVE  AddUp(e) = More(Less(AddUp(f), f[a]), e[a])
<1>1. /\ \A x \in S : NetOf(f)[x] \in Int /\ FineOf(f)[x] \in Int /\ ValueOf(f)[x] \in Int
      /\ \A x \in S : NetOf(e)[x] \in Int /\ FineOf(e)[x] \in Int /\ ValueOf(e)[x] \in Int
  BY PartsTyped
<1>2. /\ AddUp(f) = [net |-> SumFunctionOnSet(NetOf(f), S), fine |-> SumFunctionOnSet(FineOf(f), S),
                     value |-> SumFunctionOnSet(ValueOf(f), S)]
      /\ \A x \in S : NetOf(f)[x] = f[x].net /\ FineOf(f)[x] = f[x].fine /\ ValueOf(f)[x] = f[x].value
  BY AddUpParts
<1>3. /\ AddUp(e) = [net |-> SumFunctionOnSet(NetOf(e), S), fine |-> SumFunctionOnSet(FineOf(e), S),
                     value |-> SumFunctionOnSet(ValueOf(e), S)]
      /\ \A x \in S : NetOf(e)[x] = e[x].net /\ FineOf(e)[x] = e[x].fine /\ ValueOf(e)[x] = e[x].value
  BY AddUpParts
<1>4. \A x \in S \ {a} : NetOf(e)[x] = NetOf(f)[x] /\ FineOf(e)[x] = FineOf(f)[x] /\ ValueOf(e)[x] = ValueOf(f)[x]
  BY <1>2, <1>3
<1>5. SumFunctionOnSet(NetOf(e), S) = SumFunctionOnSet(NetOf(f), S) - NetOf(f)[a] + NetOf(e)[a]
  BY <1>1, <1>4, SumChanges
<1>6. SumFunctionOnSet(FineOf(e), S) = SumFunctionOnSet(FineOf(f), S) - FineOf(f)[a] + FineOf(e)[a]
  BY <1>1, <1>4, SumChanges
<1>7. SumFunctionOnSet(ValueOf(e), S) = SumFunctionOnSet(ValueOf(f), S) - ValueOf(f)[a] + ValueOf(e)[a]
  BY <1>1, <1>4, SumChanges
<1> QED
  BY <1>2, <1>3, <1>5, <1>6, <1>7 DEF More, Less

\* Those left out might as well be nothing.
LEMMA AddUpOfPart ==
  ASSUME NEW S, IsFiniteSet(S), NEW R \in SUBSET S, NEW f, NEW e, DOMAIN f = R, DOMAIN e = S,
         \A x \in R : f[x] \in Weights /\ e[x] = f[x], \A x \in S \ R : e[x] = NoWeight
  PROVE  AddUp(f) = AddUp(e)
<1>1. \A x \in R : NetOf(f)[x] \in Int /\ FineOf(f)[x] \in Int /\ ValueOf(f)[x] \in Int
  BY PartsTyped
<1>2. /\ AddUp(f) = [net |-> SumFunctionOnSet(NetOf(f), R), fine |-> SumFunctionOnSet(FineOf(f), R),
                     value |-> SumFunctionOnSet(ValueOf(f), R)]
      /\ \A x \in R : NetOf(f)[x] = f[x].net /\ FineOf(f)[x] = f[x].fine /\ ValueOf(f)[x] = f[x].value
  BY AddUpParts
<1>3. /\ AddUp(e) = [net |-> SumFunctionOnSet(NetOf(e), S), fine |-> SumFunctionOnSet(FineOf(e), S),
                     value |-> SumFunctionOnSet(ValueOf(e), S)]
      /\ \A x \in S : NetOf(e)[x] = e[x].net /\ FineOf(e)[x] = e[x].fine /\ ValueOf(e)[x] = e[x].value
  BY AddUpParts
<1>4. \A x \in R : NetOf(e)[x] = NetOf(f)[x] /\ FineOf(e)[x] = FineOf(f)[x] /\ ValueOf(e)[x] = ValueOf(f)[x]
  BY <1>2, <1>3
<1>5. \A x \in S \ R : NetOf(e)[x] = 0 /\ FineOf(e)[x] = 0 /\ ValueOf(e)[x] = 0
  BY <1>3 DEF NoWeight
<1>6. SumFunctionOnSet(NetOf(f), R) = SumFunctionOnSet(NetOf(e), S)
  BY <1>1, <1>4, <1>5, SumOfPart
<1>7. SumFunctionOnSet(FineOf(f), R) = SumFunctionOnSet(FineOf(e), S)
  BY <1>1, <1>4, <1>5, SumOfPart
<1>8. SumFunctionOnSet(ValueOf(f), R) = SumFunctionOnSet(ValueOf(e), S)
  BY <1>1, <1>4, <1>5, SumOfPart
<1> QED
  BY <1>2, <1>3, <1>6, <1>7, <1>8

LEMMA AddUpOfNothing ==
  ASSUME NEW S, IsFiniteSet(S), NEW f, DOMAIN f = S, \A x \in S : f[x] = NoWeight
  PROVE  AddUp(f) = NoWeight
<1>1. \A x \in S : NetOf(f)[x] = 0 /\ FineOf(f)[x] = 0 /\ ValueOf(f)[x] = 0
  BY DEF NetOf, FineOf, ValueOf, NoWeight
<1>2. /\ SumFunctionOnSet(NetOf(f), S) = 0 /\ SumFunctionOnSet(FineOf(f), S) = 0 /\ SumFunctionOnSet(ValueOf(f), S) = 0
  BY <1>1, SumOfZeros
<1> QED
  BY <1>2, AddUpParts DEF NoWeight

-------------------------------------------------------------------------------
\* Valuation: an article with metal in it is worth something from nothing up.

LEMMA RoundedUp ==
  ASSUME NEW b \in Nat
  PROVE  \A a \in Nat : Rounded(a, b) \in Nat
<1>1. CASE b = 0
  BY <1>1 DEF Rounded
<1>2. CASE b > 0
  <2> DEFINE d == 2 * b
  <2>1. d \in Nat /\ d > 0
    BY <1>2
  <2>2. \A a \in Nat : Rounded(a, b) = (2 * a + b) \div d
    BY <1>2 DEF Rounded
  <2> HIDE DEF d
  <2>3. \A x \in Nat : x \div d \in Nat
    BY <2>1
  <2>4. \A a \in Nat : 2 * a + b \in Nat
    OBVIOUS
  <2> QED
    BY <2>2, <2>3, <2>4
<1> QED
  BY <1>1, <1>2

LEMMA ProductsOfNat == \A a, b \in Nat : a * b \in Nat
OBVIOUS

\* A loss of at most half is no more than there is.
LEMMA LossBounded ==
  ASSUME NEW f \in Nat, NEW l \in 0..50
  PROVE  Percent(f, l) \in Nat /\ Percent(f, l) <= f
<1> DEFINE m == f * l
<1>1. m \in Nat /\ m <= 50 * f
  <2> DEFINE T == {n \in Nat : n * l <= 50 * n /\ n * l \in Nat}
  <2>1. 0 \in T
    OBVIOUS
  <2>2. ASSUME NEW n \in Nat, n \in T PROVE n + 1 \in T
    <3>1. (n + 1) * l = n * l + l
      OBVIOUS
    <3>2. n * l \in Nat /\ n * l <= 50 * n /\ l \in Nat /\ l <= 50
      BY <2>2
    <3>3. n * l + l <= 50 * (n + 1) /\ n * l + l \in Nat
      BY <3>2
    <3> QED
      BY <3>1, <3>3
  <2> HIDE DEF T
  <2>3. Nat \subseteq T
    BY <2>1, <2>2, NaturalsBySteps
  <2> QED
    BY <2>3 DEF T
<1> HIDE DEF m
<1>2. Percent(f, l) = (2 * m + 100) \div 200
  <2>1. Rounded(m, 100) = (2 * m + 100) \div (2 * 100)
    BY <1>1 DEF Rounded
  <2> QED
    BY <2>1 DEF Percent, m
<1> QED
  BY <1>1, <1>2

\* Among purities there is a purest.
LEMMA PurestExists ==
  ASSUME NEW S \in SUBSET (1..100), S # {}
  PROVE  \E p \in S : \A q \in S : p >= q
<1> DEFINE T == {n \in Nat : \A R \in SUBSET (1..n) : R # {} => \E p \in R : \A q \in R : p >= q}
<1>1. 0 \in T
  <2>1. 1..0 = {}
    OBVIOUS
  <2>2. \A R \in SUBSET (1..0) : R = {}
    BY <2>1
  <2> QED
    BY <2>2
<1>2. ASSUME NEW n \in Nat, n \in T PROVE n + 1 \in T
  <2> SUFFICES ASSUME NEW R \in SUBSET (1..(n + 1)), R # {} PROVE \E p \in R : \A q \in R : p >= q
    OBVIOUS
  <2>1. CASE n + 1 \in R
    BY <2>1
  <2>2. CASE n + 1 \notin R
    <3>1. R \in SUBSET (1..n)
      BY <2>2
    <3> QED
      BY <1>2, <3>1
  <2> QED
    BY <2>1, <2>2
<1> HIDE DEF T
<1>3. Nat \subseteq T
  BY <1>1, <1>2, NaturalsBySteps
<1>4. 100 \in T
  BY <1>3
<1> QED
  BY <1>4 DEF T

LEMMA RatesTyped ==
  /\ pureRate \in Nat
  /\ \A purity \in Nat : Below(purity) # {} => purityRate(purity) \in Nat
<1>1. /\ DOMAIN Rates \in SUBSET (1..100) /\ DOMAIN Rates # {} /\ \A p \in DOMAIN Rates : Rates[p] \in Nat
  BY OldGoldAssumption
<1>2. pureRate \in Nat
  <2> DEFINE top == CHOOSE p \in DOMAIN Rates : \A q \in DOMAIN Rates : p >= q
  <2>1. top \in DOMAIN Rates
    BY <1>1, PurestExists
  <2>2. pureRate = Rounded(Rates[top] * 100, top)
    BY DEF pureRate
  <2> HIDE DEF top
  <2>3. top \in Nat /\ Rates[top] * 100 \in Nat
    BY <1>1, <2>1
  <2> QED
    BY <2>2, <2>3, RoundedUp
<1>3. ASSUME NEW purity \in Nat, Below(purity) # {} PROVE purityRate(purity) \in Nat
  <2> DEFINE near == CHOOSE p \in Below(purity) : \A q \in Below(purity) : p >= q
  <2>1. Below(purity) \in SUBSET (1..100) /\ Below(purity) \subseteq DOMAIN Rates
    BY <1>1 DEF Below
  <2>2. near \in Below(purity)
    BY <1>3, <2>1, PurestExists
  <2>3. purityRate(purity) = Rates[near]
    BY DEF purityRate
  <2> HIDE DEF near
  <2> QED
    BY <1>1, <2>1, <2>2, <2>3
<1> QED
  BY <1>2, <1>3

LEMMA ValueLineTyped ==
  ASSUME NEW a \in Articles, NEW basis \in Valuation, CanValue(a, basis)
  PROVE  valueLine(a, basis) \in Weights /\ valueLine(a, basis).value \in Nat
<1> DEFINE net == a.gross - a.stone - a.dirt
           before == Percent(net, a.purity)
           fine == before - Percent(before, a.loss)
           byPurity == Percent(net * (100 - a.loss) * purityRate(a.purity), 1)
           value == IF basis = "fine" THEN fine * pureRate ELSE byPurity
<1>1. /\ a.gross \in Nat /\ a.stone \in Nat /\ a.dirt \in Nat /\ a.purity \in 1..100 /\ a.loss \in 0..50
  BY OldGoldAssumption
<1>2. net \in Nat
  BY <1>1 DEF CanValue
<1>9. valueLine(a, basis) = [net |-> net, fine |-> fine, value |-> value]
  BY DEF valueLine
<1> HIDE DEF net
<1>3. before \in Nat
  <2>1. net * a.purity \in Nat
    BY <1>1, <1>2, ProductsOfNat
  <2> QED
    BY <2>1, RoundedUp DEF Percent
<1> HIDE DEF before
<1>4. fine \in Nat
  <2>1. Percent(before, a.loss) \in Nat /\ Percent(before, a.loss) <= before
    BY <1>1, <1>3, LossBounded
  <2> QED
    BY <1>3, <2>1
<1> HIDE DEF fine
<1>5. basis # "fine" => byPurity \in Nat
  <2> SUFFICES ASSUME basis # "fine" PROVE byPurity \in Nat
    OBVIOUS
  <2>1. basis = "purity" /\ Below(a.purity) # {} /\ a.purity \in Nat /\ 100 - a.loss \in Nat
    BY <1>1, OldGoldAssumption DEF CanValue
  <2>2. purityRate(a.purity) \in Nat
    BY <2>1, RatesTyped
  <2>3. net * (100 - a.loss) \in Nat
    BY <1>2, <2>1, ProductsOfNat
  <2> DEFINE m == net * (100 - a.loss)
             k == m * purityRate(a.purity)
  <2> HIDE DEF m
  <2>4. k \in Nat
    BY <2>2, <2>3, ProductsOfNat DEF m
  <2> HIDE DEF k
  <2>5. byPurity = Rounded(k * 1, 100)
    BY DEF Percent, k, m
  <2> QED
    BY <2>4, <2>5, RoundedUp
<1>6. fine * pureRate \in Nat
  BY <1>4, RatesTyped, ProductsOfNat
<1> HIDE DEF byPurity
<1>7. value \in Nat
  BY <1>5, <1>6
<1> HIDE DEF value
<1> QED
  BY <1>2, <1>4, <1>7, <1>9 DEF Weights

-------------------------------------------------------------------------------
\* What stands, as one line for each row there may be.

Pairs == Intakes \X (1..2)
Stands(row) == row.status \notin {"none", "cancelled"}

\* What standing intakes brought, what standing batches took and cost, what is with
\* refiners, what of an intake is not paid out, what cancelled bills had left of theirs,
\* and what each article of a batch brought to it.
BroughtBy(rows) == [i \in Intakes |-> IF rows[i].status = "posted" THEN AddUp(rows[i].worth) ELSE NoWeight]
TookBy(rows) == [b \in Batches |-> IF Stands(rows[b]) THEN rows[b].in ELSE NoWeight]
SentBy(rows) == [b \in Batches |-> IF rows[b].status = "sent" THEN rows[b].in ELSE NoWeight]
ChargedBy(rows) == [b \in Batches |-> IF Stands(rows[b]) THEN rows[b].charge ELSE 0]
UnpaidOf(rows) == [i \in Intakes |-> IF rows[i].status = "posted" THEN rows[i].value - rows[i].paid ELSE 0]
DroppedOf(rows) ==
  [i \in Intakes |-> IF rows[i].status = "cancelled" /\ rows[i].onBill THEN rows[i].value - rows[i].applied ELSE 0]
PutInto(rows, b) == [a \in Pairs |-> IF rows[a[1]].batch[a[2]] = b THEN rows[a[1]].worth[a[2]] ELSE NoWeight]

\* No more is paid out of an intake than it is worth, nothing out of a cancelled one; only a
\* bill uses its credit at once; an article's batch stands, and a row not used has none.
IntakesTold ==
  \A i \in Intakes :
    /\ intake[i].paid <= intake[i].value /\ intake[i].applied <= intake[i].value
    /\ intake[i].applied > 0 => intake[i].onBill
    /\ intake[i].status = "cancelled" => intake[i].paid = 0
    /\ intake[i].status = "none" => intake[i].batch = [n \in 1..2 |-> 0]
    /\ \A n \in 1..2 : intake[i].batch[n] # 0 => intake[i].batch[n] \in Batches /\ Stands(batch[intake[i].batch[n]])

\* What is not back from a refiner costs nothing yet.
BatchesTold == \A b \in Batches : batch[b].status = "sent" => batch[b].charge = 0

\* An intake is paid out or cancelled at one desk at a time, an article is melted at one.
VisitsTold ==
  \A d \in Desks :
    /\ visit[d].pc # "idle" => d \in goldShop.desks
    /\ visit[d].pc \in {"payout", "cancel"} =>
         /\ visit[d].intake \in Intakes /\ intake[visit[d].intake].status = "posted"
         /\ \A e \in Desks : visit[e].pc \in {"payout", "cancel"} /\ visit[e].intake = visit[d].intake => e = d
    /\ visit[d].pc = "payout" => visit[d].amount <= intake[visit[d].intake].value - intake[visit[d].intake].paid
    /\ visit[d].pc = "cancel" => intake[visit[d].intake].paid = 0
    /\ visit[d].pc = "melt" => \A a \in visit[d].articles :
         /\ intake[a[1]].status # "none" /\ intake[a[1]].batch[a[2]] = 0
         /\ \A e \in Desks : visit[e].pc = "melt" /\ a \in visit[e].articles => e = d

MetalTells ==
  /\ goldStock = Less(AddUp(BroughtBy(intake)), AddUp(TookBy(batch)))
  /\ books.atRefiner = AddUp(SentBy(batch))
  /\ books.charges = SumFunctionOnSet(ChargedBy(batch), Batches)
  /\ books.fine = goldStock.fine + bullion.fine
  /\ \A b \in Batches : AddUp(PutInto(intake, b)) = IF Stands(batch[b]) THEN batch[b].in ELSE NoWeight

CreditTells == books.credit + books.spent = SumFunctionOnSet(UnpaidOf(intake), Intakes)

\* With one desk, what was looked at before a row was locked still holds.
OneDesk == \A d, e \in goldShop.desks : d = e

AloneRows ==
  /\ \A i \in Intakes : intake[i].status = "cancelled" => \A n \in 1..2 : intake[i].batch[n] = 0
  /\ books.credit >= -SumFunctionOnSet(DroppedOf(intake), Intakes)
  /\ paidInCash <= CashLimit

AloneVisits ==
  \A d \in Desks :
    /\ visit[d].pc = "payout" =>
         /\ visit[d].amount <= books.credit
         /\ visit[d].cash => paidInCash + visit[d].amount <= CashLimit
    /\ visit[d].pc = "cancel" =>
         /\ \A n \in 1..2 : intake[visit[d].intake].batch[n] = 0
         /\ ~intake[visit[d].intake].onBill => intake[visit[d].intake].value <= books.credit
    /\ visit[d].pc = "melt" => \A a \in visit[d].articles : intake[a[1]].status = "posted"

OneDeskTold == OneDesk => AloneRows /\ AloneVisits

OldGoldInv ==
  /\ goldShop \in Shops
  /\ GoldTypeOK
  /\ IntakesTold /\ BatchesTold /\ VisitsTold
  /\ MetalTells /\ CreditTells /\ OneDeskTold

LEMMA GoldFinite ==
  IsFiniteSet(Intakes) /\ IsFiniteSet(Batches) /\ IsFiniteSet(Pairs) /\ IsFiniteSet(1..2)
  /\ 0 \notin Batches /\ Batches \subseteq Nat /\ Intakes \subseteq Nat
<1>1. 1 \in Int /\ 2 \in Int /\ MaxIntakes \in Int /\ MaxBatches \in Int
  BY OldGoldAssumption
<1>2. \A n \in Int : IsFiniteSet(1..n)
  BY FS_Interval
<1>3. IsFiniteSet(Intakes) /\ IsFiniteSet(Batches) /\ IsFiniteSet(1..2)
  BY <1>1, <1>2 DEF Intakes, Batches
<1>4. IsFiniteSet(Pairs)
  BY <1>3, FS_Product DEF Pairs
<1> QED
  BY <1>1, <1>3, <1>4 DEF Intakes, Batches

LEMMA GoldRows ==
  ASSUME GoldTypeOK
  PROVE  /\ \A i \in Intakes : /\ intake[i].worth \in [1..2 -> Weights] /\ intake[i].batch \in [1..2 -> Nat]
                               /\ intake[i].value \in Nat /\ intake[i].paid \in Nat /\ intake[i].applied \in Nat
                               /\ intake[i].onBill \in BOOLEAN /\ intake[i].status \in {"none", "posted", "cancelled"}
         /\ \A b \in Batches : batch[b].in \in Weights /\ batch[b].out \in Weights /\ batch[b].charge \in Nat
         /\ \A d \in Desks : visit[d] \in Visits
         /\ books.credit \in Int /\ books.spent \in Int /\ books.fine \in Int /\ books.charges \in Nat
         /\ books.atRefiner \in Weights
<1> USE DEF GoldTypeOK
<1>1. \A i \in Intakes : intake[i] \in IntakeRows
  OBVIOUS
<1>2. \A b \in Batches : batch[b] \in BatchRows
  OBVIOUS
<1> QED
  BY <1>1, <1>2 DEF IntakeRows, BatchRows

\* With one desk nobody else is in the middle of anything.
LEMMA AllIdle ==
  ASSUME VisitsTold, OneDesk, NEW d \in goldShop.desks
  PROVE  \A e \in Desks : e # d => visit[e].pc = "idle"
BY DEF VisitsTold, OneDesk

LEMMA OnlyVisits ==
  ASSUME OldGoldInv, UNCHANGED <<goldShop, intake, batch, goldStock, bullion, books, paidInCash>>,
         visit' \in [Desks -> Visits], VisitsTold', AloneVisits' \/ ~OneDesk
  PROVE  OldGoldInv'
<1>1. goldShop' \in Shops /\ GoldTypeOK'
  BY DEF OldGoldInv, GoldTypeOK
<1>2. IntakesTold' /\ BatchesTold'
  BY DEF OldGoldInv, IntakesTold, BatchesTold
<1>3. MetalTells' /\ CreditTells'
  BY DEF OldGoldInv, MetalTells, CreditTells
<1>4. OneDeskTold'
  BY DEF OldGoldInv, OneDeskTold, AloneRows, OneDesk
<1> QED
  BY <1>1, <1>2, <1>3, <1>4 DEF OldGoldInv

\* A desk begins on something.
LEMMA BeginsVisit ==
  ASSUME OldGoldInv, NEW d \in Desks, NEW row \in Visits, visit' = [visit EXCEPT ![d] = row]
  PROVE  /\ visit' \in [Desks -> Visits] /\ visit'[d] = row
         /\ \A e \in Desks : e # d => visit'[e] = visit[e]
BY DEF OldGoldInv, GoldTypeOK

LEMMA BeginPayoutInv == ASSUME OldGoldInv, NEW d \in Desks, NEW i \in Intakes, BeginPayout(d, i) PROVE OldGoldInv'
<1>1. PICK cash \in BOOLEAN, amount \in Sums :
    /\ Ready(d) /\ goldShop.pays /\ ~HasIntake(i)
    /\ intake[i].status = "posted"
    /\ amount > 0 /\ amount <= intake[i].value - intake[i].paid
    /\ amount <= books.credit
    /\ cash => cashAllowed(amount)
    /\ visit' = [visit EXCEPT ![d] = [NoVisit EXCEPT !.pc = "payout", !.intake = i, !.amount = amount, !.cash = cash]]
    /\ UNCHANGED <<goldShop, intake, batch, goldStock, bullion, books, paidInCash>>
  BY Zenon DEF BeginPayout
<1> DEFINE row == [NoVisit EXCEPT !.pc = "payout", !.intake = i, !.amount = amount, !.cash = cash]
<1>2. visit' = [visit EXCEPT ![d] = row]
  BY <1>1
<1>3. row \in Visits
  <2>1. amount \in Nat /\ i \in Nat
    BY OldGoldAssumption, GoldFinite
  <2> QED
    BY <2>1 DEF Visits, NoVisit
<1>4. row.pc = "payout" /\ row.intake = i /\ row.amount = amount /\ row.cash = cash
  BY DEF NoVisit
<1> HIDE DEF row
<1>5. /\ visit' \in [Desks -> Visits] /\ visit'[d] = row
      /\ \A e \in Desks : e # d => visit'[e] = visit[e]
  BY <1>2, <1>3, BeginsVisit
<1>6. VisitsTold'
  BY <1>1, <1>4, <1>5 DEF OldGoldInv, VisitsTold, Ready, HasIntake
<1>7. AloneVisits' \/ ~OneDesk
  <2> SUFFICES ASSUME OneDesk PROVE AloneVisits'
    OBVIOUS
  <2>1. \A e \in Desks : e # d => visit[e].pc = "idle"
    BY <1>1, AllIdle DEF OldGoldInv, Ready
  <2> QED
    BY <1>1, <1>4, <1>5, <2>1 DEF AloneVisits, cashAllowed
<1> QED
  BY <1>1, <1>5, <1>6, <1>7, OnlyVisits

LEMMA BeginCancelIntakeInv ==
  ASSUME OldGoldInv, NEW d \in Desks, NEW i \in Intakes, BeginCancelIntake(d, i)
  PROVE  OldGoldInv'
<1>1. /\ Ready(d) /\ ~HasIntake(i)
      /\ Undoable(i)
      /\ ~intake[i].onBill => intake[i].value <= books.credit
      /\ visit' = [visit EXCEPT ![d] = [NoVisit EXCEPT !.pc = "cancel", !.intake = i]]
      /\ UNCHANGED <<goldShop, intake, batch, goldStock, bullion, books, paidInCash>>
  BY Zenon DEF BeginCancelIntake
<1> DEFINE row == [NoVisit EXCEPT !.pc = "cancel", !.intake = i]
<1>2. visit' = [visit EXCEPT ![d] = row]
  BY <1>1
<1>3. row \in Visits
  BY GoldFinite DEF Visits, NoVisit
<1>4. row.pc = "cancel" /\ row.intake = i
  BY DEF NoVisit
<1> HIDE DEF row
<1>5. /\ visit' \in [Desks -> Visits] /\ visit'[d] = row
      /\ \A e \in Desks : e # d => visit'[e] = visit[e]
  BY <1>2, <1>3, BeginsVisit
<1>6. VisitsTold'
  BY <1>1, <1>4, <1>5 DEF OldGoldInv, VisitsTold, Ready, HasIntake, Undoable
<1>7. AloneVisits' \/ ~OneDesk
  <2> SUFFICES ASSUME OneDesk PROVE AloneVisits'
    OBVIOUS
  <2>1. \A e \in Desks : e # d => visit[e].pc = "idle"
    BY <1>1, AllIdle DEF OldGoldInv, Ready
  <2> QED
    BY <1>1, <1>4, <1>5, <2>1 DEF AloneVisits, Undoable
<1> QED
  BY <1>1, <1>5, <1>6, <1>7, OnlyVisits

LEMMA BeginMeltInv == ASSUME OldGoldInv, NEW d \in Desks, BeginMelt(d) PROVE OldGoldInv'
<1>1. PICK set \in SUBSET (Intakes \X (1..2)) :
    /\ Ready(d) /\ goldShop.melts /\ set # {}
    /\ NextRow(batch, MaxBatches) # {}
    /\ \A a \in set : ~HasArticle(a) /\ InShop(a) /\ intake[a[1]].status = "posted"
    /\ visit' = [visit EXCEPT ![d] = [NoVisit EXCEPT !.pc = "melt", !.articles = set]]
    /\ UNCHANGED <<goldShop, intake, batch, goldStock, bullion, books, paidInCash>>
  BY Zenon DEF BeginMelt
<1> DEFINE row == [NoVisit EXCEPT !.pc = "melt", !.articles = set]
<1>2. visit' = [visit EXCEPT ![d] = row]
  BY <1>1
<1>3. row \in Visits
  BY DEF Visits, NoVisit
<1>4. row.pc = "melt" /\ row.articles = set
  BY DEF NoVisit
<1> HIDE DEF row
<1>5. /\ visit' \in [Desks -> Visits] /\ visit'[d] = row
      /\ \A e \in Desks : e # d => visit'[e] = visit[e]
  BY <1>2, <1>3, BeginsVisit
<1>6. VisitsTold'
  BY <1>1, <1>4, <1>5 DEF OldGoldInv, VisitsTold, Ready, HasArticle, InShop
<1>7. AloneVisits' \/ ~OneDesk
  <2> SUFFICES ASSUME OneDesk PROVE AloneVisits'
    OBVIOUS
  <2>1. \A e \in Desks : e # d => visit[e].pc = "idle"
    BY <1>1, AllIdle DEF OldGoldInv, Ready
  <2> QED
    BY <1>1, <1>4, <1>5, <2>1 DEF AloneVisits
<1> QED
  BY <1>1, <1>5, <1>6, <1>7, OnlyVisits

LEMMA LeaveDeskInv == ASSUME OldGoldInv, NEW d \in Desks, LeaveDesk(d) PROVE OldGoldInv'
<1>1. /\ visit[d].pc # "idle"
      /\ visit' = [visit EXCEPT ![d] = NoVisit]
      /\ UNCHANGED <<goldShop, intake, batch, goldStock, bullion, books, paidInCash>>
  BY Zenon DEF LeaveDesk, Leave
<1>2. NoVisit \in Visits /\ NoVisit.pc = "idle"
  BY DEF Visits, NoVisit
<1>3. /\ visit' \in [Desks -> Visits] /\ visit'[d] = NoVisit
      /\ \A e \in Desks : e # d => visit'[e] = visit[e]
  BY <1>1, <1>2, BeginsVisit
<1>4. VisitsTold'
  BY <1>1, <1>2, <1>3 DEF OldGoldInv, VisitsTold
<1>5. AloneVisits' \/ ~OneDesk
  BY <1>1, <1>2, <1>3 DEF OldGoldInv, OneDeskTold, AloneVisits
<1> QED
  BY <1>1, <1>3, <1>4, <1>5, OnlyVisits

-------------------------------------------------------------------------------
\* A row changes, and what the rows add up to with it.

LEMMA WeightSums ==
  ASSUME NEW a \in Weights, NEW b \in Weights, NEW c \in Weights
  PROVE  /\ More(Less(a, NoWeight), c) = More(a, c) /\ More(Less(a, c), NoWeight) = Less(a, c)
         /\ More(Less(a, b), c) = Less(More(a, c), b) /\ More(Less(a, b), c) = Less(a, Less(b, c))
         /\ Less(Less(a, b), c) = Less(Less(a, c), b) /\ Less(Less(a, b), c) = Less(a, More(b, c))
         /\ More(Less(a, b), b) = a /\ More(Less(a, NoWeight), NoWeight) = a
<1> DEFINE an == a.net
           af == a.fine
           av == a.value
           bn == b.net
           bf == b.fine
           bv == b.value
           cn == c.net
           cf == c.fine
           cv == c.value
<1>1. /\ an \in Int /\ af \in Int /\ av \in Int /\ bn \in Int /\ bf \in Int /\ bv \in Int
      /\ cn \in Int /\ cf \in Int /\ cv \in Int
  BY DEF Weights
<1>2. a = [net |-> an, fine |-> af, value |-> av] /\ b = [net |-> bn, fine |-> bf, value |-> bv]
      /\ c = [net |-> cn, fine |-> cf, value |-> cv]
  BY DEF Weights
<1> HIDE DEF an, af, av, bn, bf, bv, cn, cf, cv
<1>3. /\ More(Less(a, NoWeight), c) = More(a, c) /\ More(Less(a, c), NoWeight) = Less(a, c)
      /\ More(Less(a, b), b) = a /\ More(Less(a, NoWeight), NoWeight) = a
  BY <1>1, <1>2 DEF More, Less, NoWeight
<1>4. More(Less(a, b), c) = Less(More(a, c), b) /\ More(Less(a, b), c) = Less(a, Less(b, c))
  BY <1>1, <1>2 DEF More, Less
<1>5. Less(Less(a, b), c) = Less(Less(a, c), b) /\ Less(Less(a, b), c) = Less(a, More(b, c))
  BY <1>1, <1>2 DEF More, Less
<1> QED
  BY <1>3, <1>4, <1>5

\* Nothing more and nothing less.
LEMMA NothingTaken ==
  ASSUME NEW a \in Weights
  PROVE  Less(a, NoWeight) = a /\ More(a, NoWeight) = a
<1>1. PICK n \in Int, f \in Int, v \in Int : a = [net |-> n, fine |-> f, value |-> v]
  BY DEF Weights
<1>2. Less(a, NoWeight) = [net |-> n - 0, fine |-> f - 0, value |-> v - 0]
  BY <1>1 DEF Less, NoWeight
<1>3. More(a, NoWeight) = [net |-> n + 0, fine |-> f + 0, value |-> v + 0]
  BY <1>1 DEF More, NoWeight
<1> QED
  BY <1>1, <1>2, <1>3

LEMMA GivenBack ==
  ASSUME NEW a \in Weights, NEW b \in Weights
  PROVE  Less(a, Less(NoWeight, b)) = More(a, b)
<1>1. \A n, m \in Int : n - (0 - m) = n + m
  OBVIOUS
<1>2. a.net \in Int /\ a.fine \in Int /\ a.value \in Int /\ b.net \in Int /\ b.fine \in Int /\ b.value \in Int
  BY DEF Weights
<1>3. /\ a.net - (0 - b.net) = a.net + b.net /\ a.fine - (0 - b.fine) = a.fine + b.fine
      /\ a.value - (0 - b.value) = a.value + b.value
  BY <1>1, <1>2
<1>4. Less(a, Less(NoWeight, b)) = [net |-> a.net - (0 - b.net), fine |-> a.fine - (0 - b.fine),
                                    value |-> a.value - (0 - b.value)]
  BY DEF Less, NoWeight
<1> QED
  BY <1>3, <1>4 DEF More

LEMMA LinesTyped ==
  ASSUME NEW rows \in [Intakes -> IntakeRows]
  PROVE  /\ DOMAIN BroughtBy(rows) = Intakes /\ \A i \in Intakes : BroughtBy(rows)[i] \in Weights
         /\ \A i \in Intakes : AddUp(rows[i].worth) \in Weights
         /\ \A i \in Intakes : UnpaidOf(rows)[i] \in Int /\ DroppedOf(rows)[i] \in Int
         /\ \A b : DOMAIN PutInto(rows, b) = Pairs /\ \A a \in Pairs : PutInto(rows, b)[a] \in Weights
         /\ AddUp(BroughtBy(rows)) \in Weights
<1>1. \A i \in Intakes : /\ rows[i].worth \in [1..2 -> Weights] /\ rows[i].value \in Nat /\ rows[i].paid \in Nat
                         /\ rows[i].applied \in Nat
  <2>1. \A i \in Intakes : rows[i] \in IntakeRows
    OBVIOUS
  <2> QED
    BY <2>1 DEF IntakeRows
<1>2. ASSUME NEW i \in Intakes PROVE AddUp(rows[i].worth) \in Weights
  <2> DEFINE w == rows[i].worth
  <2>1. DOMAIN w = 1..2 /\ \A n \in 1..2 : w[n] \in Weights
    BY <1>1
  <2> HIDE DEF w
  <2>2. AddUp(w) \in Weights
    BY <2>1, GoldFinite, AddUpTyped
  <2> QED
    BY <2>2 DEF w
<1>3. DOMAIN BroughtBy(rows) = Intakes /\ \A i \in Intakes : BroughtBy(rows)[i] \in Weights
  BY <1>2, WeightFacts DEF BroughtBy
<1>4. \A i \in Intakes : UnpaidOf(rows)[i] \in Int /\ DroppedOf(rows)[i] \in Int
  BY <1>1 DEF UnpaidOf, DroppedOf
<1>5. ASSUME NEW b
      PROVE  DOMAIN PutInto(rows, b) = Pairs /\ \A a \in Pairs : PutInto(rows, b)[a] \in Weights
  <2>1. \A a \in Pairs : a[1] \in Intakes /\ a[2] \in 1..2
    BY DEF Pairs
  <2>2. \A a \in Pairs : rows[a[1]].worth[a[2]] \in Weights
    BY <1>1, <2>1
  <2> QED
    BY <2>2, WeightFacts DEF PutInto
<1>6. AddUp(BroughtBy(rows)) \in Weights
  BY <1>3, GoldFinite, AddUpTyped
<1> QED
  BY <1>2, <1>3, <1>4, <1>5, <1>6

LEMMA IntakeChanges ==
  ASSUME NEW was \in [Intakes -> IntakeRows], NEW is \in [Intakes -> IntakeRows], NEW i \in Intakes,
         \A j \in Intakes : j # i => is[j] = was[j]
  PROVE  /\ AddUp(BroughtBy(is)) = More(Less(AddUp(BroughtBy(was)), BroughtBy(was)[i]), BroughtBy(is)[i])
         /\ SumFunctionOnSet(UnpaidOf(is), Intakes) =
              SumFunctionOnSet(UnpaidOf(was), Intakes) - UnpaidOf(was)[i] + UnpaidOf(is)[i]
         /\ SumFunctionOnSet(DroppedOf(is), Intakes) =
              SumFunctionOnSet(DroppedOf(was), Intakes) - DroppedOf(was)[i] + DroppedOf(is)[i]
         /\ SumFunctionOnSet(UnpaidOf(was), Intakes) \in Int /\ SumFunctionOnSet(DroppedOf(was), Intakes) \in Int
<1>1. /\ DOMAIN BroughtBy(was) = Intakes /\ \A j \in Intakes : BroughtBy(was)[j] \in Weights
      /\ \A j \in Intakes : UnpaidOf(was)[j] \in Int /\ DroppedOf(was)[j] \in Int
  BY LinesTyped
<1>2. /\ DOMAIN BroughtBy(is) = Intakes /\ \A j \in Intakes : BroughtBy(is)[j] \in Weights
      /\ \A j \in Intakes : UnpaidOf(is)[j] \in Int /\ DroppedOf(is)[j] \in Int
  BY LinesTyped
<1>3. \A j \in Intakes \ {i} : /\ BroughtBy(is)[j] = BroughtBy(was)[j] /\ UnpaidOf(is)[j] = UnpaidOf(was)[j]
                               /\ DroppedOf(is)[j] = DroppedOf(was)[j]
  BY DEF BroughtBy, UnpaidOf, DroppedOf
<1>4. IsFiniteSet(Intakes)
  BY GoldFinite
<1>5. AddUp(BroughtBy(is)) = More(Less(AddUp(BroughtBy(was)), BroughtBy(was)[i]), BroughtBy(is)[i])
  BY <1>1, <1>2, <1>3, <1>4, AddUpChanges
<1>6. /\ \A j \in Intakes : UnpaidOf(was)[j] \in Int /\ UnpaidOf(is)[j] \in Int
      /\ \A j \in Intakes \ {i} : UnpaidOf(is)[j] = UnpaidOf(was)[j]
  BY <1>1, <1>2, <1>3
<1>7. SumFunctionOnSet(UnpaidOf(is), Intakes) =
        SumFunctionOnSet(UnpaidOf(was), Intakes) - UnpaidOf(was)[i] + UnpaidOf(is)[i]
  BY <1>4, <1>6, SumChanges
<1>8. /\ \A j \in Intakes : DroppedOf(was)[j] \in Int /\ DroppedOf(is)[j] \in Int
      /\ \A j \in Intakes \ {i} : DroppedOf(is)[j] = DroppedOf(was)[j]
  BY <1>1, <1>2, <1>3
<1>9. SumFunctionOnSet(DroppedOf(is), Intakes) =
        SumFunctionOnSet(DroppedOf(was), Intakes) - DroppedOf(was)[i] + DroppedOf(is)[i]
  BY <1>4, <1>8, SumChanges
<1>10. SumFunctionOnSet(UnpaidOf(was), Intakes) \in Int /\ SumFunctionOnSet(DroppedOf(was), Intakes) \in Int
  BY <1>1, <1>4, SumInt
<1> QED
  BY <1>5, <1>7, <1>9, <1>10

LEMMA BatchLinesTyped ==
  ASSUME NEW rows \in [Batches -> BatchRows]
  PROVE  /\ DOMAIN TookBy(rows) = Batches /\ \A b \in Batches : TookBy(rows)[b] \in Weights
         /\ DOMAIN SentBy(rows) = Batches /\ \A b \in Batches : SentBy(rows)[b] \in Weights
         /\ \A b \in Batches : ChargedBy(rows)[b] \in Nat
         /\ AddUp(TookBy(rows)) \in Weights /\ AddUp(SentBy(rows)) \in Weights
<1>1. \A b \in Batches : rows[b].in \in Weights /\ rows[b].charge \in Nat
  <2>1. \A b \in Batches : rows[b] \in BatchRows
    OBVIOUS
  <2> QED
    BY <2>1 DEF BatchRows
<1>2. /\ DOMAIN TookBy(rows) = Batches /\ \A b \in Batches : TookBy(rows)[b] \in Weights
      /\ DOMAIN SentBy(rows) = Batches /\ \A b \in Batches : SentBy(rows)[b] \in Weights
      /\ \A b \in Batches : ChargedBy(rows)[b] \in Nat
  BY <1>1, WeightFacts DEF TookBy, SentBy, ChargedBy
<1>3. AddUp(TookBy(rows)) \in Weights /\ AddUp(SentBy(rows)) \in Weights
  BY <1>2, GoldFinite, AddUpTyped
<1> QED
  BY <1>2, <1>3

LEMMA BatchChanges ==
  ASSUME NEW was \in [Batches -> BatchRows], NEW is \in [Batches -> BatchRows], NEW b \in Batches,
         \A c \in Batches : c # b => is[c] = was[c]
  PROVE  /\ AddUp(TookBy(is)) = More(Less(AddUp(TookBy(was)), TookBy(was)[b]), TookBy(is)[b])
         /\ AddUp(SentBy(is)) = More(Less(AddUp(SentBy(was)), SentBy(was)[b]), SentBy(is)[b])
         /\ SumFunctionOnSet(ChargedBy(is), Batches) =
              SumFunctionOnSet(ChargedBy(was), Batches) - ChargedBy(was)[b] + ChargedBy(is)[b]
         /\ SumFunctionOnSet(ChargedBy(was), Batches) \in Nat
         /\ ChargedBy(was)[b] <= SumFunctionOnSet(ChargedBy(was), Batches)
<1>1. /\ DOMAIN TookBy(was) = Batches /\ \A c \in Batches : TookBy(was)[c] \in Weights
      /\ DOMAIN SentBy(was) = Batches /\ \A c \in Batches : SentBy(was)[c] \in Weights
      /\ \A c \in Batches : ChargedBy(was)[c] \in Nat
  BY BatchLinesTyped
<1>2. /\ DOMAIN TookBy(is) = Batches /\ \A c \in Batches : TookBy(is)[c] \in Weights
      /\ DOMAIN SentBy(is) = Batches /\ \A c \in Batches : SentBy(is)[c] \in Weights
      /\ \A c \in Batches : ChargedBy(is)[c] \in Nat
  BY BatchLinesTyped
<1>3. \A c \in Batches \ {b} : /\ TookBy(is)[c] = TookBy(was)[c] /\ SentBy(is)[c] = SentBy(was)[c]
                               /\ ChargedBy(is)[c] = ChargedBy(was)[c]
  BY DEF TookBy, SentBy, ChargedBy
<1>4. IsFiniteSet(Batches)
  BY GoldFinite
<1>5. AddUp(TookBy(is)) = More(Less(AddUp(TookBy(was)), TookBy(was)[b]), TookBy(is)[b])
  BY <1>1, <1>2, <1>3, <1>4, AddUpChanges
<1>6. AddUp(SentBy(is)) = More(Less(AddUp(SentBy(was)), SentBy(was)[b]), SentBy(is)[b])
  BY <1>1, <1>2, <1>3, <1>4, AddUpChanges
<1>7. /\ \A c \in Batches : ChargedBy(was)[c] \in Int /\ ChargedBy(is)[c] \in Int
      /\ \A c \in Batches \ {b} : ChargedBy(is)[c] = ChargedBy(was)[c]
  BY <1>1, <1>2, <1>3
<1>8. SumFunctionOnSet(ChargedBy(is), Batches) =
        SumFunctionOnSet(ChargedBy(was), Batches) - ChargedBy(was)[b] + ChargedBy(is)[b]
  BY <1>4, <1>7, SumChanges
<1>9. /\ SumFunctionOnSet(ChargedBy(was), Batches) \in Nat
      /\ ChargedBy(was)[b] <= SumFunctionOnSet(ChargedBy(was), Batches)
  BY <1>1, <1>4, SumNat
<1> QED
  BY <1>5, <1>6, <1>8, <1>9

\* Where a batch has the articles it had, it has of them what it had.
LEMMA ArticlesStay ==
  ASSUME NEW was, NEW is, NEW b,
         \A a \in Pairs : is[a[1]].batch[a[2]] = b <=> was[a[1]].batch[a[2]] = b,
         \A a \in Pairs : was[a[1]].batch[a[2]] = b => is[a[1]].worth[a[2]] = was[a[1]].worth[a[2]]
  PROVE  PutInto(is, b) = PutInto(was, b)
BY DEF PutInto

\* Rows that change nothing but their articles' batches.
LEMMA OnlyArticles ==
  ASSUME NEW was, NEW is,
         \A i \in Intakes : /\ is[i].status = was[i].status /\ is[i].worth = was[i].worth /\ is[i].value = was[i].value
                            /\ is[i].paid = was[i].paid /\ is[i].onBill = was[i].onBill /\ is[i].applied = was[i].applied
  PROVE  BroughtBy(is) = BroughtBy(was) /\ UnpaidOf(is) = UnpaidOf(was) /\ DroppedOf(is) = DroppedOf(was)
BY DEF BroughtBy, UnpaidOf, DroppedOf

\* Nothing that cancelled bills had left is below zero.
LEMMA DroppedNat ==
  ASSUME OldGoldInv
  PROVE  SumFunctionOnSet(DroppedOf(intake), Intakes) \in Nat
<1>1. \A i \in Intakes : intake[i].value \in Nat /\ intake[i].applied \in Nat /\ intake[i].applied <= intake[i].value
  BY GoldRows DEF OldGoldInv, IntakesTold
<1>2. \A i \in Intakes : DroppedOf(intake)[i] \in Nat
  BY <1>1 DEF DroppedOf
<1> QED
  BY <1>2, GoldFinite, SumNat

-------------------------------------------------------------------------------
\* Steps.

\* With one desk, at work on something that ends with the step or does not begin.
LEMMA AloneWhenIdle ==
  ASSUME OldGoldInv, OneDesk, NEW d \in goldShop.desks,
         visit'[d].pc = "idle", \A e \in Desks : e # d => visit'[e] = visit[e]
  PROVE  AloneVisits'
<1>1. \A e \in Desks : e # d => visit[e].pc = "idle"
  BY AllIdle DEF OldGoldInv
<1>2. \A e \in Desks : visit'[e].pc = "idle"
  BY <1>1
<1> QED
  BY <1>2 DEF AloneVisits

LEMMA LeavesVisit ==
  ASSUME OldGoldInv, NEW d \in Desks, visit[d].pc # "idle", Leave(d)
  PROVE  /\ visit' \in [Desks -> Visits] /\ visit'[d] = NoVisit /\ visit'[d].pc = "idle" /\ d \in goldShop.desks
         /\ \A e \in Desks : e # d => visit'[e] = visit[e]
<1>1. NoVisit \in Visits /\ NoVisit.pc = "idle"
  BY DEF Visits, NoVisit
<1>2. visit' = [visit EXCEPT ![d] = NoVisit] /\ d \in goldShop.desks
  BY DEF Leave, OldGoldInv, VisitsTold
<1> QED
  BY <1>1, <1>2, BeginsVisit

\* What others are in the middle of stays as it is when its rows do.
LEMMA VisitsStay ==
  ASSUME OldGoldInv, goldShop' = goldShop,
         \A e \in Desks : visit'[e] = visit[e] \/ visit'[e] = NoVisit,
         \A e \in Desks : visit'[e].pc \in {"payout", "cancel"} =>
           /\ intake'[visit[e].intake].status = "posted"
           /\ intake'[visit[e].intake].value = intake[visit[e].intake].value
           /\ intake'[visit[e].intake].paid = intake[visit[e].intake].paid,
         \A e \in Desks : visit'[e].pc = "melt" =>
           \A a \in visit[e].articles : intake'[a[1]].status # "none" /\ intake'[a[1]].batch[a[2]] = 0
  PROVE  VisitsTold'
<1>1. NoVisit.pc = "idle"
  BY DEF NoVisit
<1>2. \A e \in Desks : visit'[e].pc # "idle" => visit'[e] = visit[e]
  BY <1>1
<1>3. VisitsTold
  BY DEF OldGoldInv
<1> SUFFICES ASSUME NEW d \in Desks
             PROVE  /\ visit'[d].pc # "idle" => d \in goldShop'.desks
                    /\ visit'[d].pc \in {"payout", "cancel"} =>
                         /\ visit'[d].intake \in Intakes /\ intake'[visit'[d].intake].status = "posted"
                         /\ \A e \in Desks : visit'[e].pc \in {"payout", "cancel"} /\ visit'[e].intake = visit'[d].intake => e = d
                    /\ visit'[d].pc = "payout" =>
                         visit'[d].amount <= intake'[visit'[d].intake].value - intake'[visit'[d].intake].paid
                    /\ visit'[d].pc = "cancel" => intake'[visit'[d].intake].paid = 0
                    /\ visit'[d].pc = "melt" => \A a \in visit'[d].articles :
                         /\ intake'[a[1]].status # "none" /\ intake'[a[1]].batch[a[2]] = 0
                         /\ \A e \in Desks : visit'[e].pc = "melt" /\ a \in visit'[e].articles => e = d
  BY DEF VisitsTold
<1> USE <1>2, <1>3 DEF VisitsTold
<1>4. visit'[d].pc # "idle" => d \in goldShop'.desks
  OBVIOUS
<1>5. visit'[d].pc \in {"payout", "cancel"} =>
        /\ visit'[d].intake \in Intakes /\ intake'[visit'[d].intake].status = "posted"
        /\ \A e \in Desks : visit'[e].pc \in {"payout", "cancel"} /\ visit'[e].intake = visit'[d].intake => e = d
  OBVIOUS
<1>6. /\ visit'[d].pc = "payout" => visit'[d].amount <= intake'[visit'[d].intake].value - intake'[visit'[d].intake].paid
      /\ visit'[d].pc = "cancel" => intake'[visit'[d].intake].paid = 0
  OBVIOUS
<1>7. visit'[d].pc = "melt" => \A a \in visit'[d].articles :
        /\ intake'[a[1]].status # "none" /\ intake'[a[1]].batch[a[2]] = 0
        /\ \A e \in Desks : visit'[e].pc = "melt" /\ a \in visit'[e].articles => e = d
  OBVIOUS
<1> QED
  BY <1>4, <1>5, <1>6, <1>7

LEMMA UseBullionInv == ASSUME OldGoldInv, NEW d \in Desks, UseBullion(d) PROVE OldGoldInv'
<1>1. /\ Ready(d) /\ bullion' = NoWeight
      /\ books' = [books EXCEPT !.fine = @ - bullion.fine]
      /\ UNCHANGED <<goldShop, intake, batch, goldStock, paidInCash, visit>>
  BY Zenon DEF UseBullion
<1>2. books.fine \in Int /\ bullion.fine \in Int /\ goldStock.fine \in Int /\ NoWeight \in Weights
  BY GoldRows, WeightFacts DEF OldGoldInv, GoldTypeOK, Weights
<1>3. goldShop' \in Shops /\ GoldTypeOK'
  BY <1>1, <1>2 DEF OldGoldInv, GoldTypeOK
<1>4. IntakesTold' /\ BatchesTold' /\ VisitsTold'
  BY <1>1 DEF OldGoldInv, IntakesTold, BatchesTold, VisitsTold
<1>5. MetalTells'
  <2>1. MetalTells
    BY DEF OldGoldInv
  <2>2. /\ books'.atRefiner = books.atRefiner /\ books'.charges = books.charges
        /\ books'.fine = books.fine - bullion.fine /\ bullion'.fine = 0
    BY <1>1 DEF OldGoldInv, GoldTypeOK, NoWeight
  <2>3. books'.fine = goldStock'.fine + bullion'.fine
    BY <1>1, <1>2, <2>1, <2>2 DEF MetalTells
  <2> QED
    BY <1>1, <2>1, <2>2, <2>3 DEF MetalTells
<1>6. CreditTells'
  BY <1>1 DEF OldGoldInv, CreditTells, GoldTypeOK
<1>7. OneDeskTold'
  BY <1>1 DEF OldGoldInv, OneDeskTold, AloneRows, AloneVisits, OneDesk, GoldTypeOK
<1> QED
  BY <1>3, <1>4, <1>5, <1>6, <1>7 DEF OldGoldInv

LEMMA SpendCreditInv == ASSUME OldGoldInv, NEW d \in Desks, SpendCredit(d) PROVE OldGoldInv'
<1>1. PICK amount \in Sums :
    /\ Ready(d) /\ goldShop.pays
    /\ amount <= books.credit
    /\ books' = [books EXCEPT !.credit = @ - amount, !.spent = @ + amount]
    /\ UNCHANGED <<goldShop, intake, batch, goldStock, bullion, paidInCash, visit>>
  BY Zenon DEF SpendCredit
<1>2. books.credit \in Int /\ books.spent \in Int /\ amount \in Nat
  BY GoldRows, OldGoldAssumption DEF OldGoldInv
<1>3. /\ books'.credit = books.credit - amount /\ books'.spent = books.spent + amount
      /\ books'.fine = books.fine /\ books'.atRefiner = books.atRefiner /\ books'.charges = books.charges
  BY <1>1 DEF OldGoldInv, GoldTypeOK
<1>4. goldShop' \in Shops /\ GoldTypeOK'
  <2>1. books.credit - amount \in Int /\ books.spent + amount \in Int
    BY <1>2
  <2>2. books' \in [credit : Int, spent : Int, atRefiner : Weights, fine : Int, charges : Nat]
    BY <1>1, <2>1 DEF OldGoldInv, GoldTypeOK
  <2> QED
    BY <1>1, <2>2 DEF OldGoldInv, GoldTypeOK
<1>5. IntakesTold' /\ BatchesTold' /\ VisitsTold'
  BY <1>1 DEF OldGoldInv, IntakesTold, BatchesTold, VisitsTold
<1>6. MetalTells'
  BY <1>1, <1>3 DEF OldGoldInv, MetalTells
<1>7. CreditTells'
  <2>1. books'.credit + books'.spent = books.credit + books.spent
    BY <1>2, <1>3
  <2> QED
    BY <1>1, <2>1 DEF OldGoldInv, CreditTells
<1>8. OneDeskTold'
  <2> SUFFICES ASSUME OneDesk PROVE AloneRows' /\ AloneVisits'
    BY <1>1 DEF OneDeskTold, OneDesk
  <2>1. AloneVisits'
    <3>1. d \in goldShop.desks /\ visit'[d].pc = "idle" /\ \A e \in Desks : e # d => visit'[e] = visit[e]
      BY <1>1 DEF Ready
    <3> QED
      BY <3>1, AloneWhenIdle
  <2>2. books'.credit >= -SumFunctionOnSet(DroppedOf(intake), Intakes)
    BY <1>1, <1>2, <1>3, DroppedNat
  <2> QED
    BY <1>1, <2>1, <2>2 DEF OldGoldInv, OneDeskTold, AloneRows
<1> QED
  BY <1>4, <1>5, <1>6, <1>7, <1>8 DEF OldGoldInv

LEMMA payoutIntakeInv == ASSUME OldGoldInv, NEW d \in Desks, payoutIntake(d) PROVE OldGoldInv'
<1>1. /\ visit[d].pc = "payout"
      /\ intake' = [intake EXCEPT ![visit[d].intake].paid = @ + visit[d].amount]
      /\ books' = [books EXCEPT !.credit = @ - visit[d].amount]
      /\ paidInCash' = IF visit[d].cash THEN paidInCash + visit[d].amount ELSE paidInCash
      /\ Leave(d)
      /\ UNCHANGED <<goldShop, batch, goldStock, bullion>>
  BY Zenon DEF payoutIntake
<1>2. PICK i \in Intakes : i = visit[d].intake
  BY <1>1 DEF OldGoldInv, VisitsTold
<1>3. PICK amount \in Nat : amount = visit[d].amount
  BY GoldRows DEF OldGoldInv, Visits
<1>4. /\ intake[i].status = "posted" /\ amount <= intake[i].value - intake[i].paid
      /\ \A e \in Desks : visit[e].pc \in {"payout", "cancel"} /\ visit[e].intake = i => e = d
  BY <1>1, <1>2, <1>3 DEF OldGoldInv, VisitsTold
<1>5. /\ intake[i].value \in Nat /\ intake[i].paid \in Nat
      /\ books.credit \in Int /\ books.spent \in Int /\ paidInCash \in Nat /\ visit[d].cash \in BOOLEAN
  BY GoldRows DEF OldGoldInv, GoldTypeOK, Visits
<1>6. /\ intake'[i].paid = intake[i].paid + amount /\ intake'[i].status = "posted"
      /\ intake'[i].value = intake[i].value /\ intake'[i].worth = intake[i].worth
      /\ intake'[i].batch = intake[i].batch /\ intake'[i].onBill = intake[i].onBill
      /\ intake'[i].applied = intake[i].applied
      /\ \A j \in Intakes : j # i => intake'[j] = intake[j]
  BY <1>1, <1>2, <1>3, <1>4 DEF OldGoldInv, GoldTypeOK, IntakeRows
<1>7. intake' \in [Intakes -> IntakeRows]
  <2>1. [intake[i] EXCEPT !.paid = @ + amount] \in IntakeRows
    BY DEF OldGoldInv, GoldTypeOK, IntakeRows
  <2>2. intake' = [intake EXCEPT ![i] = [intake[i] EXCEPT !.paid = @ + amount]]
    BY <1>1, <1>2, <1>3
  <2> QED
    BY <2>1, <2>2 DEF OldGoldInv, GoldTypeOK
<1>8. /\ books'.credit = books.credit - amount /\ books'.spent = books.spent
      /\ books'.fine = books.fine /\ books'.atRefiner = books.atRefiner /\ books'.charges = books.charges
  BY <1>1, <1>3 DEF OldGoldInv, GoldTypeOK
<1>9. /\ visit' \in [Desks -> Visits] /\ visit'[d] = NoVisit /\ visit'[d].pc = "idle" /\ d \in goldShop.desks
      /\ \A e \in Desks : e # d => visit'[e] = visit[e]
  BY <1>1, LeavesVisit
<1>10. goldShop' \in Shops /\ GoldTypeOK'
  <2>1. paidInCash' \in Nat /\ books' \in [credit : Int, spent : Int, atRefiner : Weights, fine : Int, charges : Nat]
    BY <1>1, <1>3, <1>5 DEF OldGoldInv, GoldTypeOK
  <2> QED
    BY <1>1, <1>7, <1>9, <2>1 DEF OldGoldInv, GoldTypeOK
<1>11. IntakesTold'
  <2>1. ASSUME NEW j \in Intakes
        PROVE  /\ intake'[j].paid <= intake'[j].value /\ intake'[j].applied <= intake'[j].value
               /\ intake'[j].applied > 0 => intake'[j].onBill
               /\ intake'[j].status = "cancelled" => intake'[j].paid = 0
               /\ intake'[j].status = "none" => intake'[j].batch = [n \in 1..2 |-> 0]
               /\ \A n \in 1..2 : intake'[j].batch[n] # 0 =>
                    intake'[j].batch[n] \in Batches /\ Stands(batch[intake'[j].batch[n]])
    BY <1>4, <1>5, <1>6 DEF OldGoldInv, IntakesTold
  <2> QED
    BY <1>1, <2>1 DEF IntakesTold
<1>12. BatchesTold'
  BY <1>1 DEF OldGoldInv, BatchesTold
<1>13. VisitsTold'
  <2>1. \A e \in Desks : visit'[e] = visit[e] \/ visit'[e] = NoVisit
    BY <1>9
  <2>2. \A e \in Desks : visit'[e].pc \in {"payout", "cancel"} =>
           /\ intake'[visit[e].intake].status = "posted"
           /\ intake'[visit[e].intake].value = intake[visit[e].intake].value
           /\ intake'[visit[e].intake].paid = intake[visit[e].intake].paid
    BY <1>4, <1>6, <1>9 DEF OldGoldInv, VisitsTold
  <2>3. \A j \in Intakes : intake'[j].status = intake[j].status /\ intake'[j].batch = intake[j].batch
    BY <1>4, <1>6
  <2>4. \A e \in Desks : \A a \in visit[e].articles : a[1] \in Intakes
    BY GoldRows DEF OldGoldInv, Visits
  <2>5. \A e \in Desks : visit'[e].pc = "melt" =>
          \A a \in visit[e].articles : intake'[a[1]].status # "none" /\ intake'[a[1]].batch[a[2]] = 0
    BY <1>9, <2>3, <2>4 DEF OldGoldInv, VisitsTold
  <2> QED
    BY <1>1, <2>1, <2>2, <2>5, VisitsStay
<1>14. /\ BroughtBy(intake') = BroughtBy(intake) /\ DroppedOf(intake') = DroppedOf(intake)
       /\ \A b \in Batches : PutInto(intake', b) = PutInto(intake, b)
  <2>1. \A j \in Intakes : /\ intake'[j].status = intake[j].status /\ intake'[j].worth = intake[j].worth
                           /\ intake'[j].value = intake[j].value /\ intake'[j].batch = intake[j].batch
                           /\ intake'[j].onBill = intake[j].onBill /\ intake'[j].applied = intake[j].applied
    BY <1>4, <1>6
  <2>2. BroughtBy(intake') = BroughtBy(intake) /\ DroppedOf(intake') = DroppedOf(intake)
    BY <2>1 DEF BroughtBy, DroppedOf
  <2>3. \A a \in Pairs : a[1] \in Intakes
    BY DEF Pairs
  <2>4. \A b \in Batches : PutInto(intake', b) = PutInto(intake, b)
    BY <2>1, <2>3 DEF PutInto
  <2> QED
    BY <2>2, <2>4
<1>15. MetalTells'
  BY <1>1, <1>8, <1>14 DEF OldGoldInv, MetalTells
<1>16. CreditTells'
  <2>1. /\ SumFunctionOnSet(UnpaidOf(intake'), Intakes) =
             SumFunctionOnSet(UnpaidOf(intake), Intakes) - UnpaidOf(intake)[i] + UnpaidOf(intake')[i]
        /\ SumFunctionOnSet(UnpaidOf(intake), Intakes) \in Int
    BY <1>6, <1>7, IntakeChanges DEF OldGoldInv, GoldTypeOK
  <2>2. UnpaidOf(intake)[i] = intake[i].value - intake[i].paid
    BY <1>4 DEF UnpaidOf
  <2>3. UnpaidOf(intake')[i] = intake[i].value - (intake[i].paid + amount)
    BY <1>6 DEF UnpaidOf
  <2>4. books.credit + books.spent = SumFunctionOnSet(UnpaidOf(intake), Intakes)
    BY DEF OldGoldInv, CreditTells
  <2>5. books'.credit + books'.spent = SumFunctionOnSet(UnpaidOf(intake'), Intakes)
    BY <1>5, <1>8, <2>1, <2>2, <2>3, <2>4
  <2> QED
    BY <2>5 DEF CreditTells
<1>17. OneDeskTold'
  <2> SUFFICES ASSUME OneDesk PROVE AloneRows' /\ AloneVisits'
    BY <1>1 DEF OneDeskTold, OneDesk
  <2>1. AloneVisits'
    BY <1>9, AloneWhenIdle
  <2>2. AloneRows /\ amount <= books.credit /\ (visit[d].cash => paidInCash + amount <= CashLimit)
    BY <1>1, <1>3 DEF OldGoldInv, OneDeskTold, AloneVisits
  <2>3. books'.credit >= -SumFunctionOnSet(DroppedOf(intake'), Intakes)
    BY <1>5, <1>8, <1>14, <2>2, DroppedNat
  <2>4. paidInCash' <= CashLimit
    BY <1>1, <1>3, <2>2 DEF AloneRows
  <2>5. \A j \in Intakes : intake'[j].status = "cancelled" => \A n \in 1..2 : intake'[j].batch[n] = 0
    BY <1>4, <1>6, <2>2 DEF AloneRows
  <2> QED
    BY <2>1, <2>3, <2>4, <2>5 DEF AloneRows
<1> QED
  BY <1>10, <1>11, <1>12, <1>13, <1>15, <1>16, <1>17 DEF OldGoldInv

LEMMA NextIntake ==
  ASSUME OldGoldInv, NEW i \in NextRow(intake, goldShop.intakes)
  PROVE  i \in Intakes /\ intake[i].status = "none"
<1>1. goldShop.intakes \in 0..MaxIntakes /\ MaxIntakes \in Nat
  BY OldGoldAssumption DEF OldGoldInv
<1>2. i \in 1..goldShop.intakes /\ intake[i].status = "none"
  BY DEF NextRow
<1> QED
  BY <1>1, <1>2 DEF Intakes

LEMMA NextBatch ==
  ASSUME NEW b \in NextRow(batch, MaxBatches)
  PROVE  b \in Batches /\ batch[b].status = "none"
BY DEF NextRow, Batches

\* What the lines of an intake are worth together.
LEMMA WorthTyped ==
  ASSUME NEW worth \in [1..2 -> Weights]
  PROVE  /\ AddUp(worth) \in Weights
         /\ (\A n \in 1..2 : worth[n].value \in Nat) => AddUp(worth).value \in Nat
<1>1. DOMAIN worth = 1..2 /\ \A n \in 1..2 : worth[n] \in Weights
  OBVIOUS
<1>2. AddUp(worth) \in Weights
  BY <1>1, GoldFinite, AddUpTyped
<1>3. ASSUME \A n \in 1..2 : worth[n].value \in Nat PROVE AddUp(worth).value \in Nat
  <2>1. /\ AddUp(worth).value = SumFunctionOnSet(ValueOf(worth), 1..2)
        /\ \A n \in 1..2 : ValueOf(worth)[n] = worth[n].value
    BY <1>1, AddUpParts
  <2>2. \A n \in 1..2 : ValueOf(worth)[n] \in Nat
    BY <1>3, <2>1
  <2>3. SumFunctionOnSet(ValueOf(worth), 1..2) \in Nat
    BY <2>2, GoldFinite, SumNat
  <2> QED
    BY <2>1, <2>3
<1> QED
  BY <1>2, <1>3

LEMMA CreditedTyped == \A exact \in Nat : credited(exact) \in Nat
<1>1. \A exact \in Nat : Rounded(exact, 2) \in Nat
  BY RoundedUp
<1> QED
  BY <1>1 DEF credited

\* An intake is entered, on a bill or not.
LEMMA NewIntakeInv ==
  ASSUME OldGoldInv, NEW d \in Desks, Ready(d), NEW i \in Intakes, intake[i].status = "none",
         NEW row \in IntakeRows, row.status = "posted", row.batch = [n \in 1..2 |-> 0],
         row.paid + row.applied <= row.value, row.applied > 0 => row.onBill,
         intake' \in [Intakes -> IntakeRows], intake'[i] = row,
         \A j \in Intakes : j # i => intake'[j] = intake[j],
         goldStock' = More(goldStock, AddUp(row.worth)),
         books' \in [credit : Int, spent : Int, atRefiner : Weights, fine : Int, charges : Nat],
         books'.credit = ((books.credit + row.value) - row.paid) - row.applied,
         books'.spent = books.spent + row.applied,
         books'.fine = books.fine + AddUp(row.worth).fine,
         books'.atRefiner = books.atRefiner, books'.charges = books.charges,
         paidInCash' \in Nat, paidInCash' = paidInCash \/ paidInCash' <= CashLimit,
         UNCHANGED <<goldShop, batch, bullion, visit>>
  PROVE  OldGoldInv'
<1> DEFINE w == AddUp(row.worth)
<1>1. /\ row.worth \in [1..2 -> Weights] /\ row.value \in Nat /\ row.paid \in Nat /\ row.applied \in Nat
      /\ row.onBill \in BOOLEAN
  BY DEF IntakeRows
<1>2. w \in Weights
  BY <1>1, WorthTyped
<1>3. /\ intake \in [Intakes -> IntakeRows] /\ intake' \in [Intakes -> IntakeRows] /\ intake'[i] = row
      /\ \A j \in Intakes : j # i => intake'[j] = intake[j]
  BY DEF OldGoldInv, GoldTypeOK
<1>4. goldStock \in Weights /\ goldStock' \in Weights
  BY <1>2, WeightFacts DEF OldGoldInv, GoldTypeOK
<1>5. goldShop' \in Shops /\ GoldTypeOK'
  BY <1>3, <1>4 DEF OldGoldInv, GoldTypeOK
<1>6. IntakesTold'
  <2>1. ASSUME NEW j \in Intakes
        PROVE  /\ intake'[j].paid <= intake'[j].value /\ intake'[j].applied <= intake'[j].value
               /\ intake'[j].applied > 0 => intake'[j].onBill
               /\ intake'[j].status = "cancelled" => intake'[j].paid = 0
               /\ intake'[j].status = "none" => intake'[j].batch = [n \in 1..2 |-> 0]
               /\ \A n \in 1..2 : intake'[j].batch[n] # 0 =>
                    intake'[j].batch[n] \in Batches /\ Stands(batch[intake'[j].batch[n]])
    BY <1>1, <1>3 DEF OldGoldInv, IntakesTold
  <2> QED
    BY <2>1 DEF IntakesTold
<1>7. BatchesTold'
  BY DEF OldGoldInv, BatchesTold
<1>8. VisitsTold'
  <2>1. \A e \in Desks : visit[e].pc \in {"payout", "cancel"} => visit[e].intake \in Intakes /\ visit[e].intake # i
    BY DEF OldGoldInv, VisitsTold
  <2>2. \A e \in Desks : visit'[e].pc \in {"payout", "cancel"} =>
           /\ intake'[visit[e].intake].status = "posted"
           /\ intake'[visit[e].intake].value = intake[visit[e].intake].value
           /\ intake'[visit[e].intake].paid = intake[visit[e].intake].paid
    BY <1>3, <2>1 DEF OldGoldInv, VisitsTold
  <2>3. \A e \in Desks : \A a \in visit[e].articles : a[1] \in Intakes
    BY GoldRows DEF OldGoldInv, Visits
  <2>4. \A e \in Desks : visit'[e].pc = "melt" =>
          \A a \in visit[e].articles : intake'[a[1]].status # "none" /\ intake'[a[1]].batch[a[2]] = 0
    BY <1>3, <2>3 DEF OldGoldInv, VisitsTold
  <2>5. \A e \in Desks : visit'[e] = visit[e] \/ visit'[e] = NoVisit
    OBVIOUS
  <2> QED
    BY <2>2, <2>4, <2>5, VisitsStay
<1>9. /\ AddUp(BroughtBy(intake')) = More(Less(AddUp(BroughtBy(intake)), BroughtBy(intake)[i]), BroughtBy(intake')[i])
      /\ SumFunctionOnSet(UnpaidOf(intake'), Intakes) =
           SumFunctionOnSet(UnpaidOf(intake), Intakes) - UnpaidOf(intake)[i] + UnpaidOf(intake')[i]
      /\ SumFunctionOnSet(DroppedOf(intake'), Intakes) =
           SumFunctionOnSet(DroppedOf(intake), Intakes) - DroppedOf(intake)[i] + DroppedOf(intake')[i]
      /\ SumFunctionOnSet(UnpaidOf(intake), Intakes) \in Int /\ SumFunctionOnSet(DroppedOf(intake), Intakes) \in Int
  <2>1. /\ intake \in [Intakes -> IntakeRows] /\ intake' \in [Intakes -> IntakeRows]
        /\ \A j \in Intakes : j # i => intake'[j] = intake[j]
    BY <1>3
  <2>2. AddUp(BroughtBy(intake')) = More(Less(AddUp(BroughtBy(intake)), BroughtBy(intake)[i]), BroughtBy(intake')[i])
    BY <2>1, IntakeChanges
  <2>3. /\ SumFunctionOnSet(UnpaidOf(intake'), Intakes) =
             SumFunctionOnSet(UnpaidOf(intake), Intakes) - UnpaidOf(intake)[i] + UnpaidOf(intake')[i]
        /\ SumFunctionOnSet(UnpaidOf(intake), Intakes) \in Int
    BY <2>1, IntakeChanges
  <2>4. /\ SumFunctionOnSet(DroppedOf(intake'), Intakes) =
             SumFunctionOnSet(DroppedOf(intake), Intakes) - DroppedOf(intake)[i] + DroppedOf(intake')[i]
        /\ SumFunctionOnSet(DroppedOf(intake), Intakes) \in Int
    BY <2>1, IntakeChanges
  <2> QED
    BY <2>2, <2>3, <2>4
<1>10. /\ BroughtBy(intake)[i] = NoWeight /\ BroughtBy(intake')[i] = w
       /\ UnpaidOf(intake)[i] = 0 /\ UnpaidOf(intake')[i] = row.value - row.paid
       /\ DroppedOf(intake)[i] = 0 /\ DroppedOf(intake')[i] = 0
  BY <1>3 DEF BroughtBy, UnpaidOf, DroppedOf
<1>11. ASSUME NEW b \in Batches PROVE PutInto(intake', b) = PutInto(intake, b)
  <2>1. intake[i].batch = [n \in 1..2 |-> 0] /\ b # 0
    BY GoldFinite DEF OldGoldInv, IntakesTold
  <2>2. \A j \in Intakes, n \in 1..2 : /\ intake'[j].batch[n] = b <=> intake[j].batch[n] = b
                                       /\ intake[j].batch[n] = b => intake'[j].worth[n] = intake[j].worth[n]
    BY <1>3, <2>1
  <2>3. \A a \in Pairs : a[1] \in Intakes /\ a[2] \in 1..2
    BY DEF Pairs
  <2>4. /\ \A a \in Pairs : intake'[a[1]].batch[a[2]] = b <=> intake[a[1]].batch[a[2]] = b
        /\ \A a \in Pairs : intake[a[1]].batch[a[2]] = b => intake'[a[1]].worth[a[2]] = intake[a[1]].worth[a[2]]
    BY <2>2, <2>3
  <2> QED
    BY <2>4 DEF PutInto
<1>12. MetalTells'
  <2>1. MetalTells
    BY DEF OldGoldInv
  <2> DEFINE A == AddUp(BroughtBy(intake))
             T == AddUp(TookBy(batch))
  <2>2. A \in Weights /\ T \in Weights
    BY <1>3, LinesTyped, BatchLinesTyped DEF OldGoldInv, GoldTypeOK
  <2>3. goldStock = Less(A, T) /\ AddUp(BroughtBy(intake')) = More(Less(A, NoWeight), w)
    BY <1>9, <1>10, <2>1 DEF MetalTells
  <2>4. goldStock' = More(goldStock, w)
    OBVIOUS
  <2> HIDE DEF A, w
  <2>5. AddUp(BroughtBy(intake')) = More(A, w)
    BY <1>2, <2>2, <2>3, WeightSums
  <2> HIDE DEF T
  <2>6. goldStock' = Less(AddUp(BroughtBy(intake')), T)
    BY <1>2, <2>2, <2>3, <2>4, <2>5, WeightSums
  <2>7. goldStock'.fine = goldStock.fine + w.fine
    BY <2>4 DEF More
  <2>8. books'.fine = goldStock'.fine + bullion.fine
    <3>1. goldStock.fine \in Int /\ w.fine \in Int /\ bullion.fine \in Int
      BY <1>2, <1>4 DEF OldGoldInv, GoldTypeOK, Weights
    <3>2. books'.fine = books.fine + w.fine /\ books.fine = goldStock.fine + bullion.fine
      BY <2>1 DEF MetalTells, w
    <3> QED
      BY <2>7, <3>1, <3>2
  <2> QED
    BY <1>11, <2>1, <2>6, <2>8 DEF MetalTells, T
<1>13. CreditTells'
  <2>1. books.credit \in Int /\ books.spent \in Int
    BY GoldRows DEF OldGoldInv
  <2>2. books.credit + books.spent = SumFunctionOnSet(UnpaidOf(intake), Intakes)
    BY DEF OldGoldInv, CreditTells
  <2>3. books'.credit + books'.spent = SumFunctionOnSet(UnpaidOf(intake'), Intakes)
    BY <1>1, <1>9, <1>10, <2>1, <2>2
  <2> QED
    BY <2>3 DEF CreditTells
<1>14. OneDeskTold'
  <2> SUFFICES ASSUME OneDesk PROVE AloneRows' /\ AloneVisits'
    BY DEF OneDeskTold, OneDesk
  <2>1. AloneVisits'
    <3>1. d \in goldShop.desks /\ visit'[d].pc = "idle" /\ \A e \in Desks : e # d => visit'[e] = visit[e]
      BY DEF Ready
    <3> QED
      BY <3>1, AloneWhenIdle
  <2>2. AloneRows
    BY DEF OldGoldInv, OneDeskTold
  <2>3. books'.credit >= -SumFunctionOnSet(DroppedOf(intake'), Intakes)
    <3>2. books.credit \in Int /\ SumFunctionOnSet(DroppedOf(intake'), Intakes) = SumFunctionOnSet(DroppedOf(intake), Intakes)
      BY <1>9, <1>10, GoldRows DEF OldGoldInv
    <3>3. books'.credit >= books.credit
      BY <1>1, <3>2
    <3> QED
      BY <2>2, <3>2, <3>3, <1>9 DEF AloneRows, OldGoldInv, GoldTypeOK
  <2>4. paidInCash' <= CashLimit
    BY <2>2 DEF AloneRows
  <2>5. \A j \in Intakes : intake'[j].status = "cancelled" => \A n \in 1..2 : intake'[j].batch[n] = 0
    BY <1>3, <2>2 DEF AloneRows
  <2> QED
    BY <2>1, <2>3, <2>4, <2>5 DEF AloneRows
<1> QED
  BY <1>5, <1>6, <1>7, <1>8, <1>12, <1>13, <1>14 DEF OldGoldInv

LEMMA createIntakeInv == ASSUME OldGoldInv, NEW d \in Desks, createIntake(d) PROVE OldGoldInv'
<1>1. PICK n \in 1..2, basis \in Valuation, buyback \in BOOLEAN, cash \in BOOLEAN, i \in NextRow(intake, goldShop.intakes) :
        \E lines \in [1..n -> Articles] :
          LET worth == [k \in 1..2 |-> IF k <= n THEN valueLine(lines[k], basis) ELSE NoWeight]
              all == AddUp(worth)
              value == credited(all.value)
              paid == IF buyback THEN value ELSE 0
          IN
          /\ Ready(d)
          /\ \A k \in 1..n : CanValue(lines[k], basis)
          /\ buyback => goldShop.pays
          /\ cash => buyback /\ cashAllowed(value)
          /\ intake' = [intake EXCEPT ![i] = [NoIntake EXCEPT !.status = "posted", !.worth = worth, !.value = value, !.paid = paid]]
          /\ goldStock' = More(goldStock, all)
          /\ books' = [books EXCEPT !.credit = @ + value - paid, !.fine = @ + all.fine]
          /\ paidInCash' = IF cash THEN paidInCash + paid ELSE paidInCash
          /\ UNCHANGED <<goldShop, batch, bullion, visit>>
  BY Zenon DEF createIntake
<1>2. PICK lines \in [1..n -> Articles] :
          LET worth == [k \in 1..2 |-> IF k <= n THEN valueLine(lines[k], basis) ELSE NoWeight]
              all == AddUp(worth)
              value == credited(all.value)
              paid == IF buyback THEN value ELSE 0
          IN
          /\ Ready(d)
          /\ \A k \in 1..n : CanValue(lines[k], basis)
          /\ buyback => goldShop.pays
          /\ cash => buyback /\ cashAllowed(value)
          /\ intake' = [intake EXCEPT ![i] = [NoIntake EXCEPT !.status = "posted", !.worth = worth, !.value = value, !.paid = paid]]
          /\ goldStock' = More(goldStock, all)
          /\ books' = [books EXCEPT !.credit = @ + value - paid, !.fine = @ + all.fine]
          /\ paidInCash' = IF cash THEN paidInCash + paid ELSE paidInCash
          /\ UNCHANGED <<goldShop, batch, bullion, visit>>
  BY <1>1, Zenon
<1> DEFINE worth == [k \in 1..2 |-> IF k <= n THEN valueLine(lines[k], basis) ELSE NoWeight]
           all == AddUp(worth)
           value == credited(all.value)
           paid == IF buyback THEN value ELSE 0
           row == [NoIntake EXCEPT !.status = "posted", !.worth = worth, !.value = value, !.paid = paid]
<1>3. /\ Ready(d)
      /\ \A k \in 1..n : CanValue(lines[k], basis)
      /\ cash => buyback /\ cashAllowed(value)
      /\ intake' = [intake EXCEPT ![i] = row]
      /\ goldStock' = More(goldStock, all)
      /\ books' = [books EXCEPT !.credit = @ + value - paid, !.fine = @ + all.fine]
      /\ paidInCash' = IF cash THEN paidInCash + paid ELSE paidInCash
      /\ UNCHANGED <<goldShop, batch, bullion, visit>>
  BY <1>2
<1>4. worth \in [1..2 -> Weights] /\ \A k \in 1..2 : worth[k].value \in Nat
  <2>1. ASSUME NEW k \in 1..2 PROVE worth[k] \in Weights /\ worth[k].value \in Nat
    <3>1. CASE k <= n
      <4>1. k \in 1..n /\ lines[k] \in Articles /\ CanValue(lines[k], basis)
        BY <1>3, <3>1
      <4>2. valueLine(lines[k], basis) \in Weights /\ valueLine(lines[k], basis).value \in Nat
        BY <4>1, ValueLineTyped
      <4> QED
        BY <3>1, <4>2
    <3>2. CASE ~(k <= n)
      BY <3>2, WeightFacts DEF NoWeight
    <3> QED
      BY <3>1, <3>2
  <2> QED
    BY <2>1
<1> HIDE DEF worth
<1>5. all \in Weights /\ all.value \in Nat /\ all.fine \in Int
  <2>1. all \in Weights /\ all.value \in Nat
    BY <1>4, WorthTyped
  <2> QED
    BY <2>1 DEF Weights
<1>6. AddUp(worth) = all
  OBVIOUS
<1> HIDE DEF all
<1>7. value \in Nat
  BY <1>5, CreditedTyped
<1> HIDE DEF value
<1>8. paid \in Nat /\ paid <= value
  BY <1>7
<1>9. cash => paid = value
  BY <1>3
<1> HIDE DEF paid
<1>10. /\ row.status = "posted" /\ row.worth = worth /\ row.value = value /\ row.paid = paid /\ row.onBill = FALSE
       /\ row.applied = 0 /\ row.batch = [k \in 1..2 |-> 0]
  BY DEF NoIntake
<1>11. row \in IntakeRows
  BY <1>4, <1>7, <1>8 DEF IntakeRows, NoIntake
<1> HIDE DEF row
<1>12. i \in Intakes /\ intake[i].status = "none"
  BY NextIntake
<1>13. /\ intake' \in [Intakes -> IntakeRows] /\ intake'[i] = row
       /\ \A j \in Intakes : j # i => intake'[j] = intake[j]
  BY <1>3, <1>11, <1>12 DEF OldGoldInv, GoldTypeOK
<1>14. books.credit \in Int /\ books.fine \in Int /\ paidInCash \in Nat
  BY GoldRows DEF OldGoldInv, GoldTypeOK
<1>15. /\ books'.credit = ((books.credit + row.value) - row.paid) - row.applied
       /\ books'.spent = books.spent + row.applied /\ books'.fine = books.fine + all.fine
       /\ books'.atRefiner = books.atRefiner /\ books'.charges = books.charges
  <2>1. /\ books'.credit = books.credit + value - paid /\ books'.spent = books.spent
        /\ books'.fine = books.fine + all.fine
        /\ books'.atRefiner = books.atRefiner /\ books'.charges = books.charges
    BY <1>3 DEF OldGoldInv, GoldTypeOK
  <2>2. books.spent \in Int
    BY GoldRows DEF OldGoldInv
  <2> QED
    BY <1>7, <1>8, <1>10, <1>14, <2>1, <2>2
<1>16. books' \in [credit : Int, spent : Int, atRefiner : Weights, fine : Int, charges : Nat]
  <2>1. books.credit + value - paid \in Int /\ books.fine + all.fine \in Int
    BY <1>5, <1>7, <1>8, <1>14
  <2> QED
    BY <1>3, <2>1 DEF OldGoldInv, GoldTypeOK
<1>17. paidInCash' \in Nat /\ (paidInCash' = paidInCash \/ paidInCash' <= CashLimit)
  BY <1>3, <1>8, <1>9, <1>14 DEF cashAllowed
<1>18. row.paid + row.applied <= row.value /\ ~(row.applied > 0)
  BY <1>7, <1>8, <1>10
<1>19. goldStock' = More(goldStock, AddUp(row.worth)) /\ AddUp(row.worth).fine = all.fine
  BY <1>3, <1>6, <1>10
<1>20. /\ books'.fine = books.fine + AddUp(row.worth).fine
       /\ UNCHANGED <<goldShop, batch, bullion, visit>> /\ Ready(d)
  BY <1>3, <1>15, <1>19
<1> QED
  BY <1>10, <1>11, <1>12, <1>13, <1>15, <1>16, <1>17, <1>18, <1>19, <1>20, NewIntakeInv

\* One article alone.
LEMMA AddUpOfOne ==
  ASSUME NEW worth \in Weights
  PROVE  AddUp([NoIntake.worth EXCEPT ![1] = worth]) = worth
<1> DEFINE f == [k \in 1..2 |-> NoWeight]
           e == [k \in 1..2 |-> IF k = 1 THEN worth ELSE NoWeight]
<1>1. [NoIntake.worth EXCEPT ![1] = worth] = e
  BY DEF NoIntake
<1>2. /\ DOMAIN f = 1..2 /\ DOMAIN e = 1..2 /\ \A k \in 1..2 : f[k] = NoWeight /\ f[k] \in Weights /\ e[k] \in Weights
      /\ \A k \in (1..2) \ {1} : e[k] = f[k]
      /\ f[1] = NoWeight /\ e[1] = worth /\ 1 \in 1..2
  BY WeightFacts
<1> HIDE DEF f, e
<1>3. AddUp(f) = NoWeight
  BY <1>2, GoldFinite, AddUpOfNothing
<1>4. AddUp(e) = More(Less(AddUp(f), f[1]), e[1])
  BY <1>2, GoldFinite, AddUpChanges
<1>5. AddUp(e) = More(Less(NoWeight, NoWeight), worth)
  BY <1>2, <1>3, <1>4
<1>6. More(Less(NoWeight, NoWeight), worth) = worth
  BY DEF More, Less, NoWeight, Weights
<1> QED
  BY <1>1, <1>5, <1>6

LEMMA TakeOnBillInv == ASSUME OldGoldInv, NEW d \in Desks, TakeOnBill(d) PROVE OldGoldInv'
<1>1. PICK a \in Articles, basis \in Valuation, i \in NextRow(intake, goldShop.intakes) :
        LET worth == valueLine(a, basis)
            value == credited(worth.value)
        IN
        /\ Ready(d)
        /\ CanValue(a, basis)
        /\ \E applied \in {0, value} :
             /\ applied <= value
             /\ intake' = [intake EXCEPT ![i] = [NoIntake EXCEPT !.status = "posted", !.worth = [@ EXCEPT ![1] = worth],
                            !.value = value, !.onBill = TRUE, !.applied = applied]]
             /\ books' = [books EXCEPT !.credit = @ + value - applied, !.spent = @ + applied, !.fine = @ + worth.fine]
        /\ goldStock' = More(goldStock, worth)
        /\ UNCHANGED <<goldShop, batch, bullion, paidInCash, visit>>
  BY Zenon DEF TakeOnBill
<1> DEFINE worth == valueLine(a, basis)
           value == credited(worth.value)
           lines == [NoIntake.worth EXCEPT ![1] = worth]
           rowOf(applied) == [NoIntake EXCEPT !.status = "posted", !.worth = [@ EXCEPT ![1] = worth],
                            !.value = value, !.onBill = TRUE, !.applied = applied]
<1>2. PICK applied \in {0, value} :
        /\ Ready(d)
        /\ CanValue(a, basis)
        /\ applied <= value
        /\ intake' = [intake EXCEPT ![i] = rowOf(applied)]
        /\ books' = [books EXCEPT !.credit = @ + value - applied, !.spent = @ + applied, !.fine = @ + worth.fine]
        /\ goldStock' = More(goldStock, worth)
        /\ UNCHANGED <<goldShop, batch, bullion, paidInCash, visit>>
  BY <1>1
<1>3. worth \in Weights /\ worth.value \in Nat /\ worth.fine \in Int
  <2>1. worth \in Weights /\ worth.value \in Nat
    BY <1>2, ValueLineTyped
  <2> QED
    BY <2>1 DEF Weights
<1> HIDE DEF worth
<1>4. AddUp(lines) = worth /\ lines \in [1..2 -> Weights]
  <2>1. lines \in [1..2 -> Weights]
    BY <1>3, WeightFacts DEF NoIntake
  <2> QED
    BY <1>3, <2>1, AddUpOfOne
<1>5. value \in Nat
  BY <1>3, CreditedTyped
<1> HIDE DEF value
<1>6. applied \in Nat
  BY <1>5
<1> DEFINE row == rowOf(applied)
<1>7. /\ row.status = "posted" /\ row.worth = lines /\ row.value = value /\ row.paid = 0 /\ row.onBill = TRUE
      /\ row.applied = applied /\ row.batch = [k \in 1..2 |-> 0]
  BY DEF NoIntake
<1>8. row \in IntakeRows
  BY <1>4, <1>5, <1>6 DEF IntakeRows, NoIntake
<1>9. intake' = [intake EXCEPT ![i] = row]
  BY <1>2
<1> HIDE DEF row, rowOf, lines
<1>10. i \in Intakes /\ intake[i].status = "none"
  BY NextIntake
<1>11. /\ intake' \in [Intakes -> IntakeRows] /\ intake'[i] = row
       /\ \A j \in Intakes : j # i => intake'[j] = intake[j]
  BY <1>8, <1>9, <1>10 DEF OldGoldInv, GoldTypeOK
<1>12. books.credit \in Int /\ books.fine \in Int /\ books.spent \in Int /\ paidInCash \in Nat
  BY GoldRows DEF OldGoldInv, GoldTypeOK
<1>13. /\ books'.credit = ((books.credit + row.value) - row.paid) - row.applied
       /\ books'.spent = books.spent + row.applied /\ books'.fine = books.fine + worth.fine
       /\ books'.atRefiner = books.atRefiner /\ books'.charges = books.charges
  <2>1. /\ books'.credit = books.credit + value - applied /\ books'.spent = books.spent + applied
        /\ books'.fine = books.fine + worth.fine
        /\ books'.atRefiner = books.atRefiner /\ books'.charges = books.charges
    BY <1>2 DEF OldGoldInv, GoldTypeOK
  <2> QED
    BY <1>5, <1>6, <1>7, <1>12, <2>1
<1>14. books' \in [credit : Int, spent : Int, atRefiner : Weights, fine : Int, charges : Nat]
  <2>1. books.credit + value - applied \in Int /\ books.spent + applied \in Int /\ books.fine + worth.fine \in Int
    BY <1>3, <1>5, <1>6, <1>12
  <2> QED
    BY <1>2, <2>1 DEF OldGoldInv, GoldTypeOK
<1>15. paidInCash' \in Nat /\ paidInCash' = paidInCash
  BY <1>2, <1>12
<1>16. row.paid + row.applied <= row.value /\ row.onBill
  BY <1>2, <1>5, <1>6, <1>7
<1>17. goldStock' = More(goldStock, AddUp(row.worth)) /\ AddUp(row.worth).fine = worth.fine
  BY <1>2, <1>4, <1>7
<1>18. /\ books'.fine = books.fine + AddUp(row.worth).fine
       /\ UNCHANGED <<goldShop, batch, bullion, visit>> /\ Ready(d)
  BY <1>2, <1>13, <1>17
<1> QED
  BY <1>7, <1>8, <1>10, <1>11, <1>13, <1>14, <1>15, <1>16, <1>17, <1>18, NewIntakeInv

LEMMA cancelIntakeInv == ASSUME OldGoldInv, NEW d \in Desks, cancelIntake(d) PROVE OldGoldInv'
<1>1. /\ visit[d].pc = "cancel"
      /\ intake' = [intake EXCEPT ![visit[d].intake].status = "cancelled"]
      /\ goldStock' = Less(goldStock, Brought(visit[d].intake))
      /\ books' = [books EXCEPT !.credit = @ - intake[visit[d].intake].value + intake[visit[d].intake].applied,
                                !.spent = @ - intake[visit[d].intake].applied,
                                !.fine = @ - Brought(visit[d].intake).fine]
      /\ Leave(d)
      /\ UNCHANGED <<goldShop, batch, bullion, paidInCash>>
  BY DEF cancelIntake
<1>2. PICK i \in Intakes : i = visit[d].intake
  BY <1>1 DEF OldGoldInv, VisitsTold
<1> DEFINE w == AddUp(intake[i].worth)
<1>3. /\ intake' = [intake EXCEPT ![i].status = "cancelled"]
      /\ goldStock' = Less(goldStock, w)
      /\ books' = [books EXCEPT !.credit = @ - intake[i].value + intake[i].applied,
                                !.spent = @ - intake[i].applied, !.fine = @ - w.fine]
  BY <1>1, <1>2 DEF Brought
<1>4. /\ intake[i].status = "posted" /\ intake[i].paid = 0
      /\ \A e \in Desks : visit[e].pc \in {"payout", "cancel"} /\ visit[e].intake = i => e = d
  BY <1>1, <1>2 DEF OldGoldInv, VisitsTold
<1>5. /\ intake[i].value \in Nat /\ intake[i].applied \in Nat /\ intake[i].applied <= intake[i].value
      /\ intake[i].onBill \in BOOLEAN /\ (intake[i].applied > 0 => intake[i].onBill)
      /\ books.credit \in Int /\ books.spent \in Int /\ books.fine \in Int /\ intake \in [Intakes -> IntakeRows]
  BY GoldRows DEF OldGoldInv, GoldTypeOK, IntakesTold
<1>6. w \in Weights /\ w.fine \in Int
  <2>1. w \in Weights
    BY <1>5, LinesTyped
  <2> QED
    BY <2>1 DEF Weights
<1> HIDE DEF w
<1>7. /\ intake'[i].status = "cancelled" /\ intake'[i].paid = intake[i].paid
      /\ intake'[i].value = intake[i].value /\ intake'[i].worth = intake[i].worth
      /\ intake'[i].batch = intake[i].batch /\ intake'[i].onBill = intake[i].onBill
      /\ intake'[i].applied = intake[i].applied
      /\ \A j \in Intakes : j # i => intake'[j] = intake[j]
  BY <1>3, <1>5 DEF IntakeRows
<1>8. intake' \in [Intakes -> IntakeRows]
  <2>1. [intake[i] EXCEPT !.status = "cancelled"] \in IntakeRows
    BY <1>5 DEF IntakeRows
  <2> QED
    BY <1>3, <1>5, <2>1
<1>9. /\ books'.credit = (books.credit - intake[i].value) + intake[i].applied
      /\ books'.spent = books.spent - intake[i].applied
      /\ books'.fine = books.fine - w.fine /\ books'.atRefiner = books.atRefiner /\ books'.charges = books.charges
  BY <1>3 DEF OldGoldInv, GoldTypeOK
<1>10. books' \in [credit : Int, spent : Int, atRefiner : Weights, fine : Int, charges : Nat]
  <2>1. /\ books.credit - intake[i].value + intake[i].applied \in Int /\ books.spent - intake[i].applied \in Int
        /\ books.fine - w.fine \in Int
    BY <1>5, <1>6
  <2> QED
    BY <1>3, <2>1 DEF OldGoldInv, GoldTypeOK
<1>11. /\ visit' \in [Desks -> Visits] /\ visit'[d] = NoVisit /\ visit'[d].pc = "idle" /\ d \in goldShop.desks
       /\ \A e \in Desks : e # d => visit'[e] = visit[e]
  BY <1>1, LeavesVisit
<1>12. goldShop' \in Shops /\ GoldTypeOK'
  <2>1. goldStock' \in Weights
    BY <1>3, <1>6, WeightFacts DEF OldGoldInv, GoldTypeOK
  <2> QED
    BY <1>1, <1>8, <1>10, <1>11, <2>1 DEF OldGoldInv, GoldTypeOK
<1>13. IntakesTold'
  <2>1. ASSUME NEW j \in Intakes
        PROVE  /\ intake'[j].paid <= intake'[j].value /\ intake'[j].applied <= intake'[j].value
               /\ intake'[j].applied > 0 => intake'[j].onBill
               /\ intake'[j].status = "cancelled" => intake'[j].paid = 0
               /\ intake'[j].status = "none" => intake'[j].batch = [n \in 1..2 |-> 0]
               /\ \A n \in 1..2 : intake'[j].batch[n] # 0 =>
                    intake'[j].batch[n] \in Batches /\ Stands(batch[intake'[j].batch[n]])
    BY <1>4, <1>5, <1>7 DEF OldGoldInv, IntakesTold
  <2> QED
    BY <1>1, <2>1 DEF IntakesTold
<1>14. BatchesTold'
  BY <1>1 DEF OldGoldInv, BatchesTold
<1>15. VisitsTold'
  <2>1. \A e \in Desks : visit'[e] = visit[e] \/ visit'[e] = NoVisit
    BY <1>11
  <2>2. \A e \in Desks : visit'[e].pc \in {"payout", "cancel"} =>
           /\ intake'[visit[e].intake].status = "posted"
           /\ intake'[visit[e].intake].value = intake[visit[e].intake].value
           /\ intake'[visit[e].intake].paid = intake[visit[e].intake].paid
    BY <1>4, <1>7, <1>11 DEF OldGoldInv, VisitsTold
  <2>3. \A j \in Intakes : intake[j].status # "none" => intake'[j].status # "none"
    BY <1>7
  <2>4. \A j \in Intakes : intake'[j].batch = intake[j].batch
    BY <1>7
  <2>5. \A e \in Desks : \A a \in visit[e].articles : a[1] \in Intakes
    BY GoldRows DEF OldGoldInv, Visits
  <2>6. \A e \in Desks : visit'[e].pc = "melt" =>
          \A a \in visit[e].articles : intake'[a[1]].status # "none" /\ intake'[a[1]].batch[a[2]] = 0
    BY <1>11, <2>3, <2>4, <2>5 DEF OldGoldInv, VisitsTold
  <2> QED
    BY <1>1, <2>1, <2>2, <2>6, VisitsStay
<1>16. /\ AddUp(BroughtBy(intake')) = More(Less(AddUp(BroughtBy(intake)), BroughtBy(intake)[i]), BroughtBy(intake')[i])
       /\ SumFunctionOnSet(UnpaidOf(intake'), Intakes) =
            SumFunctionOnSet(UnpaidOf(intake), Intakes) - UnpaidOf(intake)[i] + UnpaidOf(intake')[i]
       /\ SumFunctionOnSet(DroppedOf(intake'), Intakes) =
            SumFunctionOnSet(DroppedOf(intake), Intakes) - DroppedOf(intake)[i] + DroppedOf(intake')[i]
       /\ SumFunctionOnSet(UnpaidOf(intake), Intakes) \in Int /\ SumFunctionOnSet(DroppedOf(intake), Intakes) \in Int
  BY <1>5, <1>7, <1>8, IntakeChanges
<1>17. /\ BroughtBy(intake)[i] = w /\ BroughtBy(intake')[i] = NoWeight
       /\ UnpaidOf(intake)[i] = intake[i].value /\ UnpaidOf(intake')[i] = 0
       /\ DroppedOf(intake)[i] = 0
       /\ DroppedOf(intake')[i] = IF intake[i].onBill THEN intake[i].value - intake[i].applied ELSE 0
  BY <1>4, <1>5, <1>7 DEF BroughtBy, UnpaidOf, DroppedOf, w
<1>18. ASSUME NEW b \in Batches PROVE PutInto(intake', b) = PutInto(intake, b)
  <2>1. \A j \in Intakes : intake'[j].batch = intake[j].batch /\ intake'[j].worth = intake[j].worth
    BY <1>7
  <2>2. \A a \in Pairs : a[1] \in Intakes
    BY DEF Pairs
  <2> QED
    BY <2>1, <2>2 DEF PutInto
<1>19. MetalTells'
  <2>1. MetalTells
    BY DEF OldGoldInv
  <2> DEFINE A == AddUp(BroughtBy(intake))
             T == AddUp(TookBy(batch))
  <2>2. A \in Weights /\ T \in Weights
    BY <1>5, LinesTyped, BatchLinesTyped DEF OldGoldInv, GoldTypeOK
  <2>3. goldStock = Less(A, T) /\ AddUp(BroughtBy(intake')) = More(Less(A, w), NoWeight)
    BY <1>16, <1>17, <2>1 DEF MetalTells
  <2> HIDE DEF A, T
  <2>4. AddUp(BroughtBy(intake')) = Less(A, w)
    BY <1>6, <2>2, <2>3, WeightSums
  <2>5. goldStock' = Less(AddUp(BroughtBy(intake')), T)
    BY <1>3, <1>6, <2>2, <2>3, <2>4, WeightSums
  <2>6. goldStock'.fine = goldStock.fine - w.fine
    BY <1>3 DEF Less
  <2>7. books'.fine = goldStock'.fine + bullion.fine
    <3>1. goldStock.fine \in Int /\ bullion.fine \in Int
      BY DEF OldGoldInv, GoldTypeOK, Weights
    <3>2. books'.fine = books.fine - w.fine /\ books.fine = goldStock.fine + bullion.fine
      BY <1>9, <2>1 DEF MetalTells
    <3> QED
      BY <1>6, <2>6, <3>1, <3>2
  <2> QED
    BY <1>1, <1>9, <1>18, <2>1, <2>5, <2>7 DEF MetalTells, T
<1>20. CreditTells'
  <2>1. books.credit + books.spent = SumFunctionOnSet(UnpaidOf(intake), Intakes)
    BY DEF OldGoldInv, CreditTells
  <2>2. books'.credit + books'.spent = SumFunctionOnSet(UnpaidOf(intake'), Intakes)
    BY <1>5, <1>9, <1>16, <1>17, <2>1
  <2> QED
    BY <2>2 DEF CreditTells
<1>21. OneDeskTold'
  <2> SUFFICES ASSUME OneDesk PROVE AloneRows' /\ AloneVisits'
    BY <1>1 DEF OneDeskTold, OneDesk
  <2>1. AloneVisits'
    BY <1>11, AloneWhenIdle
  <2>2. /\ AloneRows /\ \A n \in 1..2 : intake[i].batch[n] = 0
        /\ ~intake[i].onBill => intake[i].value <= books.credit
    BY <1>1, <1>2 DEF OldGoldInv, OneDeskTold, AloneVisits
  <2>3. books'.credit >= -SumFunctionOnSet(DroppedOf(intake'), Intakes)
    <3>1. CASE intake[i].onBill
      BY <1>5, <1>9, <1>16, <1>17, <2>2, <3>1 DEF AloneRows
    <3>2. CASE ~intake[i].onBill
      <4>1. SumFunctionOnSet(DroppedOf(intake'), Intakes) = SumFunctionOnSet(DroppedOf(intake), Intakes)
        BY <1>16, <1>17, <3>2
      <4>2. SumFunctionOnSet(DroppedOf(intake), Intakes) >= 0
        BY DroppedNat
      <4>3. books'.credit >= 0
        BY <1>5, <1>9, <2>2, <3>2
      <4>4. books'.credit \in Int
        BY <1>5, <1>9
      <4> QED
        BY <1>16, <4>1, <4>2, <4>3, <4>4
    <3> QED
      BY <3>1, <3>2
  <2>4. \A j \in Intakes : intake'[j].status = "cancelled" => \A n \in 1..2 : intake'[j].batch[n] = 0
    BY <1>7, <2>2 DEF AloneRows
  <2> QED
    BY <1>1, <2>1, <2>2, <2>3, <2>4 DEF AloneRows
<1> QED
  BY <1>12, <1>13, <1>14, <1>15, <1>19, <1>20, <1>21 DEF OldGoldInv

\* What comes out is bullion.
LEMMA OutputTyped ==
  ASSUME NEW in \in Weights, NEW charge \in Nat, NEW out \in Output(in, charge)
  PROVE  out \in Weights
<1>1. PICK f \in {g \in {in.fine, in.fine - 1} : g > 0} : out = [net |-> f, fine |-> f, value |-> in.value + charge]
  BY DEF Output
<1>2. in.fine \in Int /\ in.value \in Int
  BY DEF Weights
<1>3. f \in Int /\ in.value + charge \in Int
  BY <1>2
<1> QED
  BY <1>1, <1>3 DEF Weights

LEMMA receiveMeltBatchInv ==
  ASSUME OldGoldInv, NEW d \in Desks, NEW b \in Batches, receiveMeltBatch(d, b)
  PROVE  OldGoldInv'
<1>1. PICK charge \in {0, 1} : \E out \in Output(batch[b].in, charge) :
    /\ Ready(d)
    /\ AtRefiner(b)
    /\ batch' = [batch EXCEPT ![b].status = "received", ![b].out = out, ![b].charge = charge]
    /\ bullion' = More(bullion, out)
    /\ books' = [books EXCEPT !.atRefiner = Less(@, batch[b].in), !.fine = @ + out.fine, !.charges = @ + charge]
    /\ UNCHANGED <<goldShop, intake, goldStock, paidInCash, visit>>
  BY Zenon DEF receiveMeltBatch
<1>2. PICK out \in Output(batch[b].in, charge) :
    /\ Ready(d)
    /\ AtRefiner(b)
    /\ batch' = [batch EXCEPT ![b].status = "received", ![b].out = out, ![b].charge = charge]
    /\ bullion' = More(bullion, out)
    /\ books' = [books EXCEPT !.atRefiner = Less(@, batch[b].in), !.fine = @ + out.fine, !.charges = @ + charge]
    /\ UNCHANGED <<goldShop, intake, goldStock, paidInCash, visit>>
  BY <1>1, Zenon
<1>3. /\ batch \in [Batches -> BatchRows] /\ batch[b].in \in Weights /\ batch[b].charge \in Nat
      /\ books.fine \in Int /\ books.charges \in Nat /\ books.atRefiner \in Weights
      /\ bullion \in Weights /\ goldStock.fine \in Int /\ bullion.fine \in Int
  BY GoldRows DEF OldGoldInv, GoldTypeOK, Weights
<1>4. out \in Weights /\ out.fine \in Int
  <2>1. out \in Weights
    BY <1>3, OutputTyped
  <2> QED
    BY <2>1 DEF Weights
<1>5. batch[b].status = "sent" /\ batch[b].charge = 0
  BY <1>2 DEF AtRefiner, OldGoldInv, BatchesTold
<1>6. /\ batch'[b].status = "received" /\ batch'[b].charge = charge /\ batch'[b].in = batch[b].in
      /\ \A c \in Batches : c # b => batch'[c] = batch[c]
  BY <1>2, <1>3 DEF BatchRows
<1>7. batch' \in [Batches -> BatchRows]
  <2>1. [batch[b] EXCEPT !.status = "received", !.out = out, !.charge = charge] \in BatchRows
    <3> DEFINE row == batch[b]
    <3>1. row \in BatchRows /\ charge \in Nat /\ out \in Weights
      BY <1>3, <1>4
    <3> HIDE DEF row
    <3>2. [row EXCEPT !.status = "received", !.out = out, !.charge = charge] \in BatchRows
      BY <3>1 DEF BatchRows
    <3> QED
      BY <3>2 DEF row
  <2>2. batch' = [batch EXCEPT ![b] = [batch[b] EXCEPT !.status = "received", !.out = out, !.charge = charge]]
    BY <1>2, <1>3
  <2> QED
    BY <1>3, <2>1, <2>2
<1>8. /\ books'.credit = books.credit /\ books'.spent = books.spent /\ books'.fine = books.fine + out.fine
      /\ books'.atRefiner = Less(books.atRefiner, batch[b].in) /\ books'.charges = books.charges + charge
  BY <1>2 DEF OldGoldInv, GoldTypeOK
<1>9. books' \in [credit : Int, spent : Int, atRefiner : Weights, fine : Int, charges : Nat]
  <2>1. Less(books.atRefiner, batch[b].in) \in Weights /\ books.fine + out.fine \in Int /\ books.charges + charge \in Nat
    BY <1>3, <1>4, WeightFacts
  <2> QED
    BY <1>2, <2>1 DEF OldGoldInv, GoldTypeOK
<1>10. goldShop' \in Shops /\ GoldTypeOK'
  <2>1. bullion' \in Weights
    BY <1>2, <1>3, <1>4, WeightFacts
  <2> QED
    BY <1>2, <1>7, <1>9, <2>1 DEF OldGoldInv, GoldTypeOK
<1>11. IntakesTold'
  <2>1. \A c \in Batches : Stands(batch[c]) => Stands(batch'[c])
    BY <1>6 DEF Stands
  <2> QED
    BY <1>2, <2>1 DEF OldGoldInv, IntakesTold
<1>12. BatchesTold' /\ VisitsTold'
  BY <1>2, <1>6, ZenonT(30) DEF OldGoldInv, BatchesTold, VisitsTold
<1>13. /\ AddUp(TookBy(batch')) = More(Less(AddUp(TookBy(batch)), TookBy(batch)[b]), TookBy(batch')[b])
       /\ AddUp(SentBy(batch')) = More(Less(AddUp(SentBy(batch)), SentBy(batch)[b]), SentBy(batch')[b])
       /\ SumFunctionOnSet(ChargedBy(batch'), Batches) =
            SumFunctionOnSet(ChargedBy(batch), Batches) - ChargedBy(batch)[b] + ChargedBy(batch')[b]
       /\ SumFunctionOnSet(ChargedBy(batch), Batches) \in Nat
  BY <1>3, <1>6, <1>7, BatchChanges
<1>14. /\ TookBy(batch)[b] = batch[b].in /\ TookBy(batch')[b] = batch[b].in
       /\ SentBy(batch)[b] = batch[b].in /\ SentBy(batch')[b] = NoWeight
       /\ ChargedBy(batch)[b] = 0 /\ ChargedBy(batch')[b] = charge
  BY <1>5, <1>6 DEF TookBy, SentBy, ChargedBy, Stands
<1>15. MetalTells'
  <2>1. MetalTells
    BY DEF OldGoldInv
  <2>2. AddUp(TookBy(batch)) \in Weights /\ AddUp(SentBy(batch)) \in Weights
    BY <1>3, BatchLinesTyped
  <2>3. AddUp(TookBy(batch')) = AddUp(TookBy(batch))
    BY <1>3, <1>13, <1>14, <2>2, WeightSums
  <2>4. AddUp(SentBy(batch')) = Less(AddUp(SentBy(batch)), batch[b].in)
    BY <1>3, <1>13, <1>14, <2>2, WeightSums
  <2>5. bullion'.fine = bullion.fine + out.fine
    BY <1>2 DEF More
  <2>6. books'.fine = goldStock'.fine + bullion'.fine
    BY <1>2, <1>3, <1>4, <1>8, <2>1, <2>5 DEF MetalTells
  <2>7. books'.charges = SumFunctionOnSet(ChargedBy(batch'), Batches)
    BY <1>8, <1>13, <1>14, <2>1 DEF MetalTells
  <2>8. \A c \in Batches : /\ Stands(batch'[c]) <=> Stands(batch[c])
                           /\ batch'[c].in = batch[c].in
    BY <1>5, <1>6 DEF Stands
  <2>9. \A c \in Batches : AddUp(PutInto(intake', c)) = IF Stands(batch'[c]) THEN batch'[c].in ELSE NoWeight
    BY <1>2, <2>1, <2>8 DEF MetalTells
  <2>10. goldStock' = Less(AddUp(BroughtBy(intake')), AddUp(TookBy(batch')))
    BY <1>2, <2>1, <2>3 DEF MetalTells
  <2>11. books'.atRefiner = AddUp(SentBy(batch'))
    BY <1>8, <2>1, <2>4 DEF MetalTells
  <2> QED
    BY <2>6, <2>7, <2>9, <2>10, <2>11 DEF MetalTells
<1>16. CreditTells'
  BY <1>2, <1>8 DEF OldGoldInv, CreditTells
<1>17. OneDeskTold'
  BY <1>2, <1>8 DEF OldGoldInv, OneDeskTold, AloneRows, AloneVisits, OneDesk
<1> QED
  BY <1>10, <1>11, <1>12, <1>15, <1>16, <1>17 DEF OldGoldInv

\* Articles go into a batch or come out of one: what intakes are otherwise stays.
PutAway(put) == [i \in Intakes |-> [intake[i] EXCEPT !.batch = [n \in 1..2 |-> put[<<i, n>>]]]]

ArticlesPut(rows, put) ==
  /\ rows \in [Intakes -> IntakeRows]
  /\ \A i \in Intakes, n \in 1..2 : rows[i].batch[n] = put[<<i, n>>]
  /\ \A i \in Intakes : /\ rows[i].status = intake[i].status /\ rows[i].worth = intake[i].worth
                        /\ rows[i].value = intake[i].value /\ rows[i].paid = intake[i].paid
                        /\ rows[i].onBill = intake[i].onBill /\ rows[i].applied = intake[i].applied

LEMMA ArticlesMove ==
  ASSUME OldGoldInv, NEW put \in [Pairs -> Nat]
  PROVE  ArticlesPut(PutAway(put), put)
<1>1. \A i \in Intakes : intake[i] \in IntakeRows
  BY DEF OldGoldInv, GoldTypeOK
<1>2. \A i \in Intakes, n \in 1..2 : <<i, n>> \in Pairs
  BY DEF Pairs
<1>3. \A i \in Intakes : [n \in 1..2 |-> put[<<i, n>>]] \in [1..2 -> Nat]
  BY <1>2
<1>4. ASSUME NEW i \in Intakes
      PROVE  /\ PutAway(put)[i] \in IntakeRows
             /\ \A n \in 1..2 : PutAway(put)[i].batch[n] = put[<<i, n>>]
             /\ PutAway(put)[i].status = intake[i].status /\ PutAway(put)[i].worth = intake[i].worth
             /\ PutAway(put)[i].value = intake[i].value /\ PutAway(put)[i].paid = intake[i].paid
             /\ PutAway(put)[i].onBill = intake[i].onBill /\ PutAway(put)[i].applied = intake[i].applied
  <2> DEFINE w == [n \in 1..2 |-> put[<<i, n>>]]
  <2>1. PutAway(put)[i] = [intake[i] EXCEPT !.batch = w] /\ w \in [1..2 -> Nat] /\ intake[i] \in IntakeRows
    BY <1>1, <1>3 DEF PutAway
  <2>2. \A n \in 1..2 : w[n] = put[<<i, n>>]
    OBVIOUS
  <2> HIDE DEF w
  <2>3. /\ PutAway(put)[i] \in IntakeRows /\ PutAway(put)[i].batch = w
        /\ PutAway(put)[i].status = intake[i].status /\ PutAway(put)[i].worth = intake[i].worth
        /\ PutAway(put)[i].value = intake[i].value /\ PutAway(put)[i].paid = intake[i].paid
        /\ PutAway(put)[i].onBill = intake[i].onBill /\ PutAway(put)[i].applied = intake[i].applied
    BY <2>1 DEF IntakeRows
  <2> QED
    BY <2>2, <2>3
<1>5. PutAway(put) \in [Intakes -> IntakeRows]
  <2>1. PutAway(put) = [i \in Intakes |-> PutAway(put)[i]]
    BY DEF PutAway
  <2> QED
    BY <1>4, <2>1
<1> QED
  BY <1>4, <1>5 DEF ArticlesPut

\* The articles of one batch alone, which stands as long as it has any.
ForBatch(put, b, row) ==
  /\ \A a \in Pairs : put[a] # intake[a[1]].batch[a[2]] =>
       (put[a] = b /\ intake[a[1]].batch[a[2]] = 0) \/ (put[a] = 0 /\ intake[a[1]].batch[a[2]] = b)
  /\ \A a \in Pairs : put[a] = b => Stands(row)
  /\ \A a \in Pairs : intake[a[1]].status = "none" => put[a] = 0
  /\ AddUp([a \in Pairs |-> IF put[a] = b THEN intake[a[1]].worth[a[2]] ELSE NoWeight]) =
       IF Stands(row) THEN row.in ELSE NoWeight
  /\ OneDesk => \A a \in Pairs : put[a] = b => intake[a[1]].status # "cancelled"

\* Stock, bullion and books follow the batch.
BatchBooked(b) ==
  /\ goldStock' = Less(goldStock, Less(TookBy(batch')[b], TookBy(batch)[b])) /\ bullion' \in Weights
  /\ books' \in [credit : Int, spent : Int, atRefiner : Weights, fine : Int, charges : Nat]
  /\ books'.credit = books.credit /\ books'.spent = books.spent
  /\ books'.atRefiner = More(Less(books.atRefiner, SentBy(batch)[b]), SentBy(batch')[b])
  /\ books'.charges = books.charges - ChargedBy(batch)[b] + ChargedBy(batch')[b]
  /\ books'.fine = goldStock'.fine + bullion'.fine

\* Then the metal is accounted for, and what is told of intakes and the credit stays.
LEMMA BatchStep ==
  ASSUME OldGoldInv, NEW d \in Desks, d \in goldShop.desks, NEW b \in Batches, NEW put \in [Pairs -> Nat],
         ArticlesPut(intake', put), ForBatch(put, b, batch'[b]), BatchBooked(b),
         batch' \in [Batches -> BatchRows], \A c \in Batches : c # b => batch'[c] = batch[c],
         batch'[b].status = "sent" => batch'[b].charge = 0,
         \A e \in Desks : visit'[e].pc = "melt" => \A a \in visit[e].articles : put[a] = 0,
         visit' \in [Desks -> Visits], visit'[d].pc = "idle", visit'[d] = visit[d] \/ visit'[d] = NoVisit,
         \A e \in Desks : e # d => visit'[e] = visit[e],
         UNCHANGED <<goldShop, paidInCash>>
  PROVE  OldGoldInv'
<1>1. intake' \in [Intakes -> IntakeRows] /\ \A i \in Intakes, n \in 1..2 : intake'[i].batch[n] = put[<<i, n>>]
  BY DEF ArticlesPut
<1>2. \A i \in Intakes : /\ intake'[i].status = intake[i].status /\ intake'[i].worth = intake[i].worth
                         /\ intake'[i].value = intake[i].value /\ intake'[i].paid = intake[i].paid
                         /\ intake'[i].onBill = intake[i].onBill /\ intake'[i].applied = intake[i].applied
  BY DEF ArticlesPut
<1>3. /\ \A a \in Pairs : a[1] \in Intakes /\ a[2] \in 1..2 /\ a = <<a[1], a[2]>>
      /\ \A i \in Intakes, n \in 1..2 : <<i, n>> \in Pairs /\ <<i, n>>[1] = i /\ <<i, n>>[2] = n
  BY DEF Pairs
<1>4. ASSUME NEW a \in Pairs PROVE intake'[a[1]].batch[a[2]] = put[a]
  <2>1. PICK i \in Intakes, n \in 1..2 : a = <<i, n>>
    BY DEF Pairs
  <2>2. a[1] = i /\ a[2] = n
    BY <2>1
  <2>3. intake'[i].batch[n] = put[<<i, n>>]
    BY <1>1
  <2> QED
    BY <2>1, <2>2, <2>3
<1>5. BroughtBy(intake') = BroughtBy(intake) /\ UnpaidOf(intake') = UnpaidOf(intake) /\ DroppedOf(intake') = DroppedOf(intake)
  BY <1>2, OnlyArticles
<1>6. /\ batch \in [Batches -> BatchRows] /\ goldStock \in Weights /\ intake \in [Intakes -> IntakeRows]
  BY DEF OldGoldInv, GoldTypeOK
<1>7. /\ \A c \in Batches : TookBy(batch)[c] \in Weights /\ TookBy(batch')[c] \in Weights
      /\ AddUp(TookBy(batch)) \in Weights /\ AddUp(BroughtBy(intake)) \in Weights
  <2>1. (\A c \in Batches : TookBy(batch)[c] \in Weights) /\ AddUp(TookBy(batch)) \in Weights
    BY <1>6, BatchLinesTyped
  <2>2. \A c \in Batches : TookBy(batch')[c] \in Weights
    BY BatchLinesTyped
  <2>3. AddUp(BroughtBy(intake)) \in Weights
    BY <1>6, LinesTyped
  <2> QED
    BY <2>1, <2>2, <2>3
<1>8. goldShop' \in Shops /\ GoldTypeOK'
  <2>1. goldStock' \in Weights
    BY <1>6, <1>7, WeightFacts DEF BatchBooked
  <2>2. paidInCash' \in Nat /\ goldShop' \in Shops
    BY DEF OldGoldInv, GoldTypeOK
  <2> QED
    BY <1>1, <2>1, <2>2 DEF GoldTypeOK, BatchBooked
<1>9. IntakesTold'
  <2>1. ASSUME NEW i \in Intakes, NEW n \in 1..2, intake'[i].batch[n] # 0
        PROVE  intake'[i].batch[n] \in Batches /\ Stands(batch'[intake'[i].batch[n]])
    <3> DEFINE a == <<i, n>>
    <3>1. a \in Pairs /\ put[a] # 0 /\ put[a] = intake'[i].batch[n] /\ a[1] = i /\ a[2] = n
      BY <1>1, <1>3, <2>1, ZenonT(30)
    <3> HIDE DEF a
    <3>2. CASE put[a] = b
      BY <3>1, <3>2 DEF ForBatch
    <3>3. CASE put[a] # b
      <4>1. put[a] = intake[i].batch[n]
        BY <3>1, <3>3 DEF ForBatch
      <4>2. intake[i].batch[n] \in Batches /\ Stands(batch[intake[i].batch[n]])
        BY <3>1, <4>1 DEF OldGoldInv, IntakesTold
      <4> QED
        BY <3>1, <3>3, <4>1, <4>2
    <3> QED
      BY <3>2, <3>3
  <2>2. ASSUME NEW i \in Intakes, intake'[i].status = "none" PROVE intake'[i].batch = [n \in 1..2 |-> 0]
    <3>1. ASSUME NEW n \in 1..2 PROVE put[<<i, n>>] = 0
      <4> DEFINE a == <<i, n>>
      <4>1. a \in Pairs /\ a[1] = i /\ intake[i].status = "none"
        BY <1>2, <1>3, <2>2
      <4> HIDE DEF a
      <4>2. put[a] = 0
        BY <4>1 DEF ForBatch
      <4> QED
        BY <4>2 DEF a
    <3>2. intake'[i].batch \in [1..2 -> Nat] /\ \A n \in 1..2 : intake'[i].batch[n] = 0
      BY <1>1, <3>1 DEF IntakeRows
    <3> QED
      BY <3>2
  <2>3. \A i \in Intakes : /\ intake'[i].paid <= intake'[i].value /\ intake'[i].applied <= intake'[i].value
                           /\ intake'[i].applied > 0 => intake'[i].onBill
                           /\ intake'[i].status = "cancelled" => intake'[i].paid = 0
    BY <1>2 DEF OldGoldInv, IntakesTold
  <2> QED
    BY <2>1, <2>2, <2>3 DEF IntakesTold
<1>10. BatchesTold'
  BY DEF OldGoldInv, BatchesTold
<1>11. VisitsTold'
  <2>1. \A e \in Desks : visit'[e] = visit[e] \/ visit'[e] = NoVisit
    OBVIOUS
  <2>2. \A e \in Desks : visit'[e].pc \in {"payout", "cancel"} =>
           /\ intake'[visit[e].intake].status = "posted"
           /\ intake'[visit[e].intake].value = intake[visit[e].intake].value
           /\ intake'[visit[e].intake].paid = intake[visit[e].intake].paid
    <3>1. \A e \in Desks : visit[e].pc \in {"payout", "cancel"} =>
             visit[e].intake \in Intakes /\ intake[visit[e].intake].status = "posted"
      BY DEF OldGoldInv, VisitsTold
    <3>2. \A e \in Desks : visit'[e].pc # "idle" => visit'[e] = visit[e]
      OBVIOUS
    <3> QED
      BY <1>2, <3>1, <3>2
  <2>3. \A e \in Desks : \A a \in visit[e].articles : a \in Pairs
    BY GoldRows DEF OldGoldInv, Visits, Pairs
  <2>4. \A e \in Desks : visit'[e].pc = "melt" =>
          \A a \in visit[e].articles : intake'[a[1]].status # "none" /\ intake'[a[1]].batch[a[2]] = 0
    <3>1. \A e \in Desks : visit'[e].pc = "melt" => visit[e].pc = "melt"
      OBVIOUS
    <3>2. \A e \in Desks : visit[e].pc = "melt" => \A a \in visit[e].articles : intake[a[1]].status # "none"
      BY DEF OldGoldInv, VisitsTold
    <3> QED
      BY <1>2, <1>3, <1>4, <2>3, <3>1, <3>2
  <2> QED
    BY <2>1, <2>2, <2>4, VisitsStay
<1>12. /\ AddUp(TookBy(batch')) = More(Less(AddUp(TookBy(batch)), TookBy(batch)[b]), TookBy(batch')[b])
       /\ AddUp(SentBy(batch')) = More(Less(AddUp(SentBy(batch)), SentBy(batch)[b]), SentBy(batch')[b])
       /\ SumFunctionOnSet(ChargedBy(batch'), Batches) =
            SumFunctionOnSet(ChargedBy(batch), Batches) - ChargedBy(batch)[b] + ChargedBy(batch')[b]
  BY <1>6, BatchChanges
<1>13. MetalTells'
  <2>1. MetalTells
    BY DEF OldGoldInv
  <2>2. goldStock' = Less(AddUp(BroughtBy(intake')), AddUp(TookBy(batch')))
    <3> DEFINE A == AddUp(BroughtBy(intake))
               T == AddUp(TookBy(batch))
               p == TookBy(batch)[b]
               q == TookBy(batch')[b]
    <3>1. /\ goldStock = Less(A, T) /\ AddUp(TookBy(batch')) = More(Less(T, p), q)
          /\ goldStock' = Less(goldStock, Less(q, p)) /\ AddUp(BroughtBy(intake')) = A
      BY <1>5, <1>12, <2>1 DEF MetalTells, BatchBooked
    <3>2. A \in Weights /\ T \in Weights /\ p \in Weights /\ q \in Weights
      BY <1>7
    <3> HIDE DEF A, T, p, q
    <3>3. Less(Less(A, T), Less(q, p)) = Less(A, More(Less(T, p), q))
      <4>1. /\ A.net \in Int /\ A.fine \in Int /\ A.value \in Int /\ T.net \in Int /\ T.fine \in Int /\ T.value \in Int
            /\ p.net \in Int /\ p.fine \in Int /\ p.value \in Int /\ q.net \in Int /\ q.fine \in Int /\ q.value \in Int
        BY <3>2 DEF Weights
      <4> QED
        BY <4>1 DEF Less, More
    <3> QED
      BY <3>1, <3>3
  <2>3. books'.atRefiner = AddUp(SentBy(batch'))
    BY <1>12, <2>1 DEF MetalTells, BatchBooked
  <2>4. books'.charges = SumFunctionOnSet(ChargedBy(batch'), Batches)
    BY <1>12, <2>1 DEF MetalTells, BatchBooked
  <2>5. ASSUME NEW c \in Batches
        PROVE  AddUp(PutInto(intake', c)) = IF Stands(batch'[c]) THEN batch'[c].in ELSE NoWeight
    <3>1. CASE c = b
      <4>1. PutInto(intake', b) = [a \in Pairs |-> IF put[a] = b THEN intake[a[1]].worth[a[2]] ELSE NoWeight]
        BY <1>2, <1>3, <1>4 DEF PutInto
      <4> QED
        BY <3>1, <4>1 DEF ForBatch
    <3>2. CASE c # b
      <4>1. c # 0
        BY GoldFinite
      <4>2. \A a \in Pairs : put[a] = c <=> intake[a[1]].batch[a[2]] = c
        BY <3>2, <4>1 DEF ForBatch
      <4>3. PutInto(intake', c) = PutInto(intake, c)
        BY <1>2, <1>3, <1>4, <4>2 DEF PutInto
      <4> QED
        BY <2>1, <3>2, <4>3 DEF MetalTells
    <3> QED
      BY <3>1, <3>2
  <2> QED
    BY <2>2, <2>3, <2>4, <2>5 DEF MetalTells, BatchBooked
<1>14. CreditTells'
  BY <1>5 DEF OldGoldInv, CreditTells, BatchBooked
<1>15. OneDeskTold'
  <2> SUFFICES ASSUME OneDesk PROVE AloneRows' /\ AloneVisits'
    BY DEF OneDeskTold, OneDesk
  <2>1. AloneVisits'
    BY AloneWhenIdle
  <2>2. AloneRows
    BY DEF OldGoldInv, OneDeskTold
  <2>3. ASSUME NEW i \in Intakes, NEW n \in 1..2, intake'[i].status = "cancelled" PROVE intake'[i].batch[n] = 0
    <3> DEFINE a == <<i, n>>
    <3>1. a \in Pairs /\ a[1] = i /\ a[2] = n /\ put[a] = intake'[i].batch[n]
      BY <1>1, <1>3
    <3> HIDE DEF a
    <3>2. intake[i].status = "cancelled" /\ intake[i].batch[n] = 0
      BY <1>2, <2>2, <2>3 DEF AloneRows
    <3>3. put[a] # b
      BY <3>1, <3>2 DEF ForBatch
    <3> QED
      BY <3>1, <3>2, <3>3 DEF ForBatch
  <2> QED
    BY <1>5, <2>1, <2>2, <2>3 DEF AloneRows, BatchBooked
<1> QED
  BY <1>8, <1>9, <1>10, <1>11, <1>13, <1>14, <1>15 DEF OldGoldInv

LEMMA cancelMeltBatchInv ==
  ASSUME OldGoldInv, NEW d \in Desks, NEW b \in Batches, cancelMeltBatch(d, b)
  PROVE  OldGoldInv'
<1>1. /\ Ready(d) /\ batch[b].status \notin {"none", "cancelled"}
      /\ batch' = [batch EXCEPT ![b].status = "cancelled"]
      /\ bullion' = Less(bullion, batch[b].out)
      /\ goldStock' = More(goldStock, batch[b].in)
      /\ books' = [books EXCEPT
           !.atRefiner = IF batch[b].status = "sent" THEN Less(@, batch[b].in) ELSE @,
           !.fine = @ - batch[b].out.fine + batch[b].in.fine, !.charges = @ - batch[b].charge]
      /\ UNCHANGED <<goldShop, paidInCash, visit>>
  BY DEF cancelMeltBatch
<1>2. intake' = [i \in Intakes |-> [intake[i] EXCEPT !.batch = [n \in 1..2 |-> IF @[n] = b THEN 0 ELSE @[n]]]]
  BY DEF cancelMeltBatch
<1> DEFINE put == [a \in Pairs |-> IF intake[a[1]].batch[a[2]] = b THEN 0 ELSE intake[a[1]].batch[a[2]]]
<1>3. /\ batch \in [Batches -> BatchRows] /\ batch[b].in \in Weights /\ batch[b].out \in Weights /\ batch[b].charge \in Nat
      /\ \A i \in Intakes : intake[i].batch \in [1..2 -> Nat]
  BY GoldRows DEF OldGoldInv, GoldTypeOK
<1>4. /\ books.fine \in Int /\ books.charges \in Nat /\ books.atRefiner \in Weights
      /\ goldStock \in Weights /\ bullion \in Weights /\ goldStock.fine \in Int /\ bullion.fine \in Int
      /\ batch[b].in.fine \in Int /\ batch[b].out.fine \in Int
  BY <1>3, GoldRows DEF OldGoldInv, GoldTypeOK, Weights
<1>5. /\ \A a \in Pairs : a[1] \in Intakes /\ a[2] \in 1..2
      /\ \A i \in Intakes, n \in 1..2 : <<i, n>> \in Pairs /\ <<i, n>>[1] = i /\ <<i, n>>[2] = n
  BY DEF Pairs
<1>6. /\ put \in [Pairs -> Nat]
      /\ \A a \in Pairs : put[a] = IF intake[a[1]].batch[a[2]] = b THEN 0 ELSE intake[a[1]].batch[a[2]]
  BY <1>3, <1>5
<1>7. intake' = PutAway(put)
  <2>1. \A i \in Intakes, n \in 1..2 : (IF intake[i].batch[n] = b THEN 0 ELSE intake[i].batch[n]) = put[<<i, n>>]
    BY <1>5
  <2>2. \A i \in Intakes :
          [n \in 1..2 |-> IF intake[i].batch[n] = b THEN 0 ELSE intake[i].batch[n]] = [n \in 1..2 |-> put[<<i, n>>]]
    BY <2>1
  <2> HIDE DEF put
  <2>3. \A i \in Intakes :
          [intake[i] EXCEPT !.batch = [n \in 1..2 |-> IF @[n] = b THEN 0 ELSE @[n]]]
            = [intake[i] EXCEPT !.batch = [n \in 1..2 |-> put[<<i, n>>]]]
    BY <2>2
  <2> QED
    BY <1>2, <2>3 DEF PutAway
<1> HIDE DEF put
<1>8. ArticlesPut(intake', put)
  <2>1. ArticlesPut(PutAway(put), put)
    BY <1>6, ArticlesMove
  <2> QED
    BY <1>7, <2>1
<1>9. /\ batch' \in [Batches -> BatchRows] /\ batch'[b].status = "cancelled"
      /\ \A c \in Batches : c # b => batch'[c] = batch[c]
  <2>1. [batch[b] EXCEPT !.status = "cancelled"] \in BatchRows
    BY <1>3 DEF BatchRows
  <2> QED
    BY <1>1, <1>3, <2>1 DEF BatchRows
<1>10. ForBatch(put, b, batch'[b])
  <2>1. b # 0 /\ \A a \in Pairs : put[a] # b
    BY <1>6, GoldFinite
  <2>2. \A a \in Pairs : put[a] # intake[a[1]].batch[a[2]] => put[a] = 0 /\ intake[a[1]].batch[a[2]] = b
    BY <1>6
  <2>3. ASSUME NEW a \in Pairs, intake[a[1]].status = "none" PROVE put[a] = 0
    <3>1. intake[a[1]].batch = [n \in 1..2 |-> 0] /\ a[2] \in 1..2
      BY <1>5, <2>3 DEF OldGoldInv, IntakesTold
    <3>2. intake[a[1]].batch[a[2]] = 0
      BY <3>1
    <3> QED
      BY <1>6, <3>2
  <2>4. AddUp([a \in Pairs |-> IF put[a] = b THEN intake[a[1]].worth[a[2]] ELSE NoWeight]) = NoWeight
    <3> DEFINE f == [a \in Pairs |-> IF put[a] = b THEN intake[a[1]].worth[a[2]] ELSE NoWeight]
    <3>1. DOMAIN f = Pairs /\ \A a \in Pairs : f[a] = NoWeight
      BY <2>1
    <3> HIDE DEF f
    <3>2. AddUp(f) = NoWeight
      BY <3>1, GoldFinite, AddUpOfNothing
    <3> QED
      BY <3>2 DEF f
  <2>5. ~Stands(batch'[b])
    BY <1>9 DEF Stands
  <2> QED
    BY <2>1, <2>2, <2>3, <2>4, <2>5 DEF ForBatch
<1>11. /\ TookBy(batch)[b] = batch[b].in /\ TookBy(batch')[b] = NoWeight
       /\ SentBy(batch)[b] = (IF batch[b].status = "sent" THEN batch[b].in ELSE NoWeight) /\ SentBy(batch')[b] = NoWeight
       /\ ChargedBy(batch)[b] = batch[b].charge /\ ChargedBy(batch')[b] = 0
  BY <1>1, <1>9 DEF TookBy, SentBy, ChargedBy, Stands
<1>12. books.charges - batch[b].charge \in Nat
  <2>1. /\ SumFunctionOnSet(ChargedBy(batch), Batches) \in Nat
        /\ ChargedBy(batch)[b] <= SumFunctionOnSet(ChargedBy(batch), Batches)
    BY <1>3, <1>9, BatchChanges
  <2>2. books.charges = SumFunctionOnSet(ChargedBy(batch), Batches)
    BY DEF OldGoldInv, MetalTells
  <2> QED
    BY <1>3, <1>4, <1>11, <2>1, <2>2
<1>13. /\ books'.credit = books.credit /\ books'.spent = books.spent
       /\ books'.atRefiner = (IF batch[b].status = "sent" THEN Less(books.atRefiner, batch[b].in) ELSE books.atRefiner)
       /\ books'.fine = books.fine - batch[b].out.fine + batch[b].in.fine
       /\ books'.charges = books.charges - batch[b].charge
  BY <1>1 DEF OldGoldInv, GoldTypeOK
<1>14. BatchBooked(b)
  <2>1. goldStock' = Less(goldStock, Less(NoWeight, batch[b].in)) /\ goldStock'.fine = goldStock.fine + batch[b].in.fine
    <3>1. Less(goldStock, Less(NoWeight, batch[b].in)) = More(goldStock, batch[b].in)
      BY <1>3, <1>4, GivenBack
    <3>2. More(goldStock, batch[b].in).fine = goldStock.fine + batch[b].in.fine
      BY DEF More
    <3> QED
      BY <1>1, <3>1, <3>2
  <2>2. bullion' \in Weights /\ bullion'.fine = bullion.fine - batch[b].out.fine
    BY <1>1, <1>3, <1>4, WeightFacts DEF Less
  <2>3. books'.atRefiner \in Weights
    BY <1>3, <1>4, <1>13, WeightFacts
  <2>4. books' \in [credit : Int, spent : Int, atRefiner : Weights, fine : Int, charges : Nat]
    <3>1. /\ (IF batch[b].status = "sent" THEN Less(books.atRefiner, batch[b].in) ELSE books.atRefiner) \in Weights
          /\ books.fine - batch[b].out.fine + batch[b].in.fine \in Int
      BY <1>3, <1>4, WeightFacts
    <3> QED
      BY <1>1, <1>12, <3>1 DEF OldGoldInv, GoldTypeOK
  <2>5. books'.atRefiner = More(Less(books.atRefiner, SentBy(batch)[b]), SentBy(batch')[b])
    <3>1. Less(books.atRefiner, NoWeight) = books.atRefiner /\ More(books.atRefiner, NoWeight) = books.atRefiner
      BY <1>4, NothingTaken
    <3>2. Less(books.atRefiner, batch[b].in) \in Weights
      BY <1>3, <1>4, WeightFacts
    <3>3. More(Less(books.atRefiner, batch[b].in), NoWeight) = Less(books.atRefiner, batch[b].in)
      BY <3>2, NothingTaken
    <3> QED
      BY <1>11, <1>13, <3>1, <3>3
  <2>6. books'.charges = books.charges - ChargedBy(batch)[b] + ChargedBy(batch')[b]
    BY <1>3, <1>4, <1>11, <1>13
  <2>7. books'.fine = goldStock'.fine + bullion'.fine
    <3>1. books.fine = goldStock.fine + bullion.fine
      BY DEF OldGoldInv, MetalTells
    <3> QED
      BY <1>4, <1>13, <2>1, <2>2, <3>1
  <2> QED
    BY <1>11, <1>13, <2>1, <2>2, <2>4, <2>5, <2>6, <2>7 DEF BatchBooked
<1>15. /\ d \in goldShop.desks /\ visit' \in [Desks -> Visits] /\ visit'[d].pc = "idle" /\ visit'[d] = visit[d]
       /\ \A e \in Desks : e # d => visit'[e] = visit[e]
  BY <1>1 DEF Ready, OldGoldInv, GoldTypeOK
<1>16. \A e \in Desks : visit'[e].pc = "melt" => \A a \in visit[e].articles : put[a] = 0
  <2>1. \A e \in Desks : \A a \in visit[e].articles : a \in Pairs
    BY GoldRows DEF OldGoldInv, Visits, Pairs
  <2>2. \A e \in Desks : visit[e].pc = "melt" => \A a \in visit[e].articles : intake[a[1]].batch[a[2]] = 0
    BY DEF OldGoldInv, VisitsTold
  <2> QED
    BY <1>1, <1>6, <2>1, <2>2
<1>17. batch'[b].status # "sent" /\ UNCHANGED <<goldShop, paidInCash>>
  BY <1>1, <1>9
<1> QED
  BY <1>6, <1>8, <1>9, <1>10, <1>14, <1>15, <1>16, <1>17, BatchStep

\* The articles a desk has locked go into a new batch.
LEMMA NewBatchInv ==
  ASSUME OldGoldInv, NEW d \in Desks, visit[d].pc = "melt", NEW b \in Batches, batch[b].status = "none",
         intake' = [i \in Intakes |-> [intake[i] EXCEPT !.batch =
                      [n \in 1..2 |-> IF <<i, n>> \in visit[d].articles THEN b ELSE @[n]]]],
         NEW row \in BatchRows, batch' = [batch EXCEPT ![b] = row], row.status \in {"sent", "melted"}, row.charge = 0,
         row.in = AddUp([a \in visit[d].articles |-> Worth(a)]),
         goldStock' = Less(goldStock, row.in), bullion' \in Weights,
         books' \in [credit : Int, spent : Int, atRefiner : Weights, fine : Int, charges : Nat],
         books'.credit = books.credit, books'.spent = books.spent, books'.charges = books.charges,
         books'.atRefiner = IF row.status = "sent" THEN More(books.atRefiner, row.in) ELSE books.atRefiner,
         books'.fine = goldStock'.fine + bullion'.fine,
         Leave(d), UNCHANGED <<goldShop, paidInCash>>
  PROVE  OldGoldInv'
<1> DEFINE set == visit[d].articles
           put == [a \in Pairs |-> IF a \in set THEN b ELSE intake[a[1]].batch[a[2]]]
<1>1. /\ batch \in [Batches -> BatchRows] /\ \A i \in Intakes : intake[i].batch \in [1..2 -> Nat]
      /\ \A i \in Intakes : intake[i].worth \in [1..2 -> Weights]
      /\ goldStock \in Weights /\ books.atRefiner \in Weights /\ books.charges \in Nat
  BY GoldRows DEF OldGoldInv, GoldTypeOK
<1>2. row.in \in Weights
  BY DEF BatchRows
<1>3. /\ \A a \in Pairs : a[1] \in Intakes /\ a[2] \in 1..2
      /\ \A i \in Intakes, n \in 1..2 : <<i, n>> \in Pairs /\ <<i, n>>[1] = i /\ <<i, n>>[2] = n
      /\ b \in Nat /\ b # 0
  BY GoldFinite DEF Pairs
<1>4. put \in [Pairs -> Nat] /\ \A a \in Pairs : put[a] = IF a \in set THEN b ELSE intake[a[1]].batch[a[2]]
  BY <1>1, <1>3
<1>5. intake' = PutAway(put)
  <2>1. \A i \in Intakes, n \in 1..2 : (IF <<i, n>> \in set THEN b ELSE intake[i].batch[n]) = put[<<i, n>>]
    BY <1>3
  <2>2. \A i \in Intakes :
          [n \in 1..2 |-> IF <<i, n>> \in set THEN b ELSE intake[i].batch[n]] = [n \in 1..2 |-> put[<<i, n>>]]
    BY <2>1
  <2> HIDE DEF put
  <2>3. \A i \in Intakes :
          [intake[i] EXCEPT !.batch = [n \in 1..2 |-> IF <<i, n>> \in set THEN b ELSE @[n]]]
            = [intake[i] EXCEPT !.batch = [n \in 1..2 |-> put[<<i, n>>]]]
    BY <2>2
  <2> QED
    BY <2>3 DEF PutAway
<1>6. ArticlesPut(intake', put)
  <2>1. ArticlesPut(PutAway(put), put)
    BY <1>4, ArticlesMove
  <2> HIDE DEF put
  <2> QED
    BY <1>5, <2>1, Zenon
<1> HIDE DEF put
<1>7. batch' \in [Batches -> BatchRows] /\ batch'[b] = row /\ \A c \in Batches : c # b => batch'[c] = batch[c]
  BY <1>1
<1>8. /\ set \subseteq Pairs
      /\ \A a \in set : /\ intake[a[1]].status # "none" /\ intake[a[1]].batch[a[2]] = 0
                        /\ \A e \in Desks : visit[e].pc = "melt" /\ a \in visit[e].articles => e = d
  BY GoldRows DEF OldGoldInv, VisitsTold, Visits, Pairs
<1>9. \A a \in Pairs : intake[a[1]].batch[a[2]] # b
  <2>1. ~Stands(batch[b])
    BY DEF Stands
  <2>2. \A i \in Intakes, n \in 1..2 : intake[i].batch[n] # 0 => Stands(batch[intake[i].batch[n]])
    BY DEF OldGoldInv, IntakesTold
  <2> QED
    BY <1>3, <2>1, <2>2
<1>10. Stands(row)
  BY DEF Stands
<1>11. ForBatch(put, b, batch'[b])
  <2>1. \A a \in Pairs : put[a] # intake[a[1]].batch[a[2]] => put[a] = b /\ intake[a[1]].batch[a[2]] = 0
    BY <1>4, <1>8
  <2>2. ASSUME NEW a \in Pairs, intake[a[1]].status = "none" PROVE put[a] = 0
    <3>1. intake[a[1]].batch = [n \in 1..2 |-> 0] /\ a[2] \in 1..2 /\ a \notin set
      BY <1>3, <1>8, <2>2 DEF OldGoldInv, IntakesTold
    <3>2. intake[a[1]].batch[a[2]] = 0
      BY <3>1
    <3> QED
      BY <1>4, <3>1, <3>2
  <2>3. \A a \in Pairs : put[a] = b <=> a \in set
    BY <1>4, <1>9
  <2>4. AddUp([a \in Pairs |-> IF put[a] = b THEN intake[a[1]].worth[a[2]] ELSE NoWeight]) = row.in
    <3> DEFINE e == [a \in Pairs |-> IF put[a] = b THEN intake[a[1]].worth[a[2]] ELSE NoWeight]
               f == [a \in set |-> Worth(a)]
    <3>1. DOMAIN f = set /\ DOMAIN e = Pairs /\ set \in SUBSET Pairs
      BY <1>8
    <3>2. \A a \in set : f[a] \in Weights /\ e[a] = f[a]
      BY <1>1, <1>3, <1>8, <2>3, SMTT(30) DEF Worth
    <3>3. \A a \in Pairs \ set : e[a] = NoWeight
      BY <2>3
    <3>4. row.in = AddUp(f)
      OBVIOUS
    <3> HIDE DEF e, f, set
    <3>5. AddUp(f) = AddUp(e)
      BY <3>1, <3>2, <3>3, GoldFinite, AddUpOfPart
    <3> QED
      BY <3>4, <3>5 DEF e
  <2>5. ASSUME OneDesk PROVE \A a \in Pairs : put[a] = b => intake[a[1]].status # "cancelled"
    <3>1. \A a \in set : intake[a[1]].status = "posted"
      BY <2>5 DEF OldGoldInv, OneDeskTold, AloneVisits
    <3> QED
      BY <2>3, <3>1
  <2> QED
    BY <1>7, <1>10, <2>1, <2>2, <2>4, <2>5 DEF ForBatch
<1>12. /\ TookBy(batch)[b] = NoWeight /\ TookBy(batch')[b] = row.in
       /\ SentBy(batch)[b] = NoWeight /\ SentBy(batch')[b] = (IF row.status = "sent" THEN row.in ELSE NoWeight)
       /\ ChargedBy(batch)[b] = 0 /\ ChargedBy(batch')[b] = 0
  BY <1>7, <1>10 DEF TookBy, SentBy, ChargedBy, Stands
<1>13. BatchBooked(b)
  <2>1. goldStock' = Less(goldStock, Less(row.in, NoWeight))
    <3>1. Less(row.in, NoWeight) = row.in
      BY <1>2 DEF Weights, Less, NoWeight
    <3> QED
      BY <3>1
  <2>2. books'.atRefiner = More(Less(books.atRefiner, SentBy(batch)[b]), SentBy(batch')[b])
    <3>1. Less(books.atRefiner, NoWeight) = books.atRefiner /\ More(books.atRefiner, NoWeight) = books.atRefiner
      BY <1>1, NothingTaken
    <3> QED
      BY <1>12, <3>1
  <2>3. books'.charges = books.charges - ChargedBy(batch)[b] + ChargedBy(batch')[b]
    BY <1>1, <1>12
  <2> QED
    BY <1>12, <2>1, <2>2, <2>3 DEF BatchBooked
<1>14. /\ visit' \in [Desks -> Visits] /\ visit'[d] = NoVisit /\ visit'[d].pc = "idle" /\ d \in goldShop.desks
       /\ \A e \in Desks : e # d => visit'[e] = visit[e]
  BY LeavesVisit
<1>15. \A e \in Desks : visit'[e].pc = "melt" => \A a \in visit[e].articles : put[a] = 0
  <2>1. \A e \in Desks : \A a \in visit[e].articles : a \in Pairs
    BY GoldRows DEF OldGoldInv, Visits, Pairs
  <2>2. \A e \in Desks : visit'[e].pc = "melt" => e # d /\ visit[e].pc = "melt"
    BY <1>14
  <2>3. \A e \in Desks : visit[e].pc = "melt" => \A a \in visit[e].articles : intake[a[1]].batch[a[2]] = 0
    BY DEF OldGoldInv, VisitsTold
  <2> QED
    BY <1>4, <1>8, <2>1, <2>2, <2>3
<1>16. batch'[b].status = "sent" => batch'[b].charge = 0
  BY <1>7
<1> QED
  BY <1>4, <1>6, <1>7, <1>11, <1>13, <1>14, <1>15, <1>16, BatchStep

LEMMA createMeltBatchInv == ASSUME OldGoldInv, NEW d \in Desks, createMeltBatch(d) PROVE OldGoldInv'
<1>1. PICK refine \in BOOLEAN, b \in NextRow(batch, MaxBatches) :
        LET set == visit[d].articles
            in == AddUp([a \in set |-> Worth(a)])
            left == Less(goldStock, in)
        IN
        /\ visit[d].pc = "melt"
        /\ left.net >= 0
        /\ intake' = [i \in Intakes |-> [intake[i] EXCEPT !.batch = [n \in 1..2 |-> IF <<i, n>> \in set THEN b ELSE @[n]]]]
        /\ goldStock' = left
        /\ \/ /\ refine
              /\ batch' = [batch EXCEPT ![b] = [NoBatch EXCEPT !.status = "sent", !.refine = TRUE, !.in = in]]
              /\ books' = [books EXCEPT !.atRefiner = More(@, in), !.fine = @ - in.fine]
              /\ UNCHANGED bullion
           \/ /\ ~refine
              /\ \E out \in Output(in, 0) :
                   /\ batch' = [batch EXCEPT ![b] = [NoBatch EXCEPT !.status = "melted", !.in = in, !.out = out]]
                   /\ books' = [books EXCEPT !.fine = @ - in.fine + out.fine]
                   /\ bullion' = More(bullion, out)
        /\ Leave(d)
        /\ UNCHANGED <<goldShop, paidInCash>>
  BY Zenon DEF createMeltBatch
<1> DEFINE in == AddUp([a \in visit[d].articles |-> Worth(a)])
<1>2. /\ visit[d].pc = "melt"
      /\ intake' = [i \in Intakes |-> [intake[i] EXCEPT !.batch =
                      [n \in 1..2 |-> IF <<i, n>> \in visit[d].articles THEN b ELSE @[n]]]]
      /\ goldStock' = Less(goldStock, in)
      /\ Leave(d) /\ UNCHANGED <<goldShop, paidInCash>>
  BY <1>1
<1>3. b \in Batches /\ batch[b].status = "none"
  BY NextBatch
<1>4. in \in Weights
  <2> DEFINE set == visit[d].articles
             f == [a \in set |-> Worth(a)]
  <2>1. set \subseteq Pairs
    BY GoldRows DEF OldGoldInv, Visits, Pairs
  <2>2. \A i \in Intakes : intake[i].worth \in [1..2 -> Weights]
    BY GoldRows DEF OldGoldInv
  <2>3. DOMAIN f = set /\ \A a \in set : f[a] \in Weights
    BY <2>1, <2>2 DEF Pairs, Worth
  <2>4. IsFiniteSet(set)
    BY <2>1, GoldFinite, FS_Subset
  <2>5. in = AddUp(f)
    OBVIOUS
  <2> HIDE DEF f, set
  <2> QED
    BY <2>3, <2>4, <2>5, AddUpTyped
<1>5. /\ books.fine \in Int /\ books.atRefiner \in Weights /\ goldStock.fine \in Int /\ bullion.fine \in Int
      /\ in.fine \in Int /\ bullion \in Weights /\ books.fine = goldStock.fine + bullion.fine
  BY <1>4, GoldRows DEF OldGoldInv, GoldTypeOK, Weights, MetalTells
<1>6. goldStock'.fine = goldStock.fine - in.fine
  BY <1>2 DEF Less
<1>7. CASE refine
  <2> DEFINE row == [NoBatch EXCEPT !.status = "sent", !.refine = TRUE, !.in = in]
  <2>1. /\ batch' = [batch EXCEPT ![b] = row]
        /\ books' = [books EXCEPT !.atRefiner = More(@, in), !.fine = @ - in.fine]
        /\ bullion' = bullion
    BY <1>1, <1>7
  <2> HIDE DEF in
  <2>2. row \in BatchRows /\ row.status = "sent" /\ row.charge = 0 /\ row.in = in
    BY <1>4, WeightFacts DEF BatchRows, NoBatch
  <2> HIDE DEF row
  <2>3. /\ books'.credit = books.credit /\ books'.spent = books.spent /\ books'.charges = books.charges
        /\ books'.atRefiner = More(books.atRefiner, in) /\ books'.fine = books.fine - in.fine
    BY <2>1 DEF OldGoldInv, GoldTypeOK
  <2>4. books' \in [credit : Int, spent : Int, atRefiner : Weights, fine : Int, charges : Nat]
    <3>1. More(books.atRefiner, in) \in Weights /\ books.fine - in.fine \in Int
      BY <1>4, <1>5, WeightFacts
    <3> QED
      BY <2>1, <3>1 DEF OldGoldInv, GoldTypeOK
  <2>5. books'.fine = goldStock'.fine + bullion'.fine
    BY <1>5, <1>6, <2>1, <2>3
  <2>6. /\ bullion' \in Weights /\ goldStock' = Less(goldStock, row.in)
        /\ row.in = AddUp([a \in visit[d].articles |-> Worth(a)])
        /\ books'.atRefiner = (IF row.status = "sent" THEN More(books.atRefiner, row.in) ELSE books.atRefiner)
    BY <1>2, <1>5, <2>1, <2>2, <2>3 DEF in
  <2> QED
    BY <1>2, <1>3, <2>1, <2>2, <2>3, <2>4, <2>5, <2>6, NewBatchInv
<1>8. CASE ~refine
  <2>1. PICK out \in Output(in, 0) :
          /\ batch' = [batch EXCEPT ![b] = [NoBatch EXCEPT !.status = "melted", !.in = in, !.out = out]]
          /\ books' = [books EXCEPT !.fine = @ - in.fine + out.fine]
          /\ bullion' = More(bullion, out)
    BY <1>1, <1>8
  <2> DEFINE row == [NoBatch EXCEPT !.status = "melted", !.in = in, !.out = out]
  <2> HIDE DEF in
  <2>2. out \in Weights /\ out.fine \in Int
    <3>1. out \in Weights
      BY <1>4, OutputTyped
    <3> QED
      BY <3>1 DEF Weights
  <2>3. batch' = [batch EXCEPT ![b] = row]
    BY <2>1
  <2>4. row \in BatchRows /\ row.status = "melted" /\ row.charge = 0 /\ row.in = in
    BY <1>4, <2>2, WeightFacts DEF BatchRows, NoBatch
  <2> HIDE DEF row
  <2>5. /\ books'.credit = books.credit /\ books'.spent = books.spent /\ books'.charges = books.charges
        /\ books'.atRefiner = books.atRefiner /\ books'.fine = books.fine - in.fine + out.fine
    BY <2>1 DEF OldGoldInv, GoldTypeOK
  <2>6. books' \in [credit : Int, spent : Int, atRefiner : Weights, fine : Int, charges : Nat]
    <3>1. books.fine - in.fine + out.fine \in Int
      BY <1>5, <2>2
    <3> QED
      BY <2>1, <3>1 DEF OldGoldInv, GoldTypeOK
  <2>7. bullion' \in Weights /\ bullion'.fine = bullion.fine + out.fine
    BY <1>5, <2>1, <2>2, WeightFacts DEF More
  <2>8. books'.fine = goldStock'.fine + bullion'.fine
    BY <1>5, <1>6, <2>2, <2>5, <2>7
  <2>9. /\ goldStock' = Less(goldStock, row.in) /\ row.in = AddUp([a \in visit[d].articles |-> Worth(a)])
        /\ books'.atRefiner = (IF row.status = "sent" THEN More(books.atRefiner, row.in) ELSE books.atRefiner)
    BY <1>2, <2>4, <2>5 DEF in
  <2> QED
    BY <1>2, <1>3, <2>3, <2>4, <2>5, <2>6, <2>7, <2>8, <2>9, NewBatchInv
<1> QED
  BY <1>7, <1>8

LEMMA OldGoldInitInv == GoldInit => OldGoldInv
<1> SUFFICES ASSUME GoldInit PROVE OldGoldInv
  OBVIOUS
<1> USE DEF GoldInit
<1>1. goldShop \in Shops /\ CashLimit \in Nat
  BY OldGoldAssumption
<1>2. /\ \A i \in Intakes : intake[i] = NoIntake
      /\ \A b \in Batches : batch[b] = NoBatch
      /\ \A d \in Desks : visit[d] = NoVisit
  OBVIOUS
<1>3. /\ NoIntake.status = "none" /\ NoIntake.paid = 0 /\ NoIntake.value = 0 /\ NoIntake.applied = 0
      /\ NoIntake.batch = [n \in 1..2 |-> 0] /\ NoIntake.worth = [n \in 1..2 |-> NoWeight]
      /\ NoIntake \in IntakeRows
      /\ NoBatch.status = "none" /\ NoBatch \in BatchRows
      /\ NoVisit.pc = "idle" /\ NoVisit \in Visits
  <2>1. NoWeight \in Weights
    BY WeightFacts
  <2>2. NoIntake \in IntakeRows
    BY <2>1 DEF NoIntake, IntakeRows
  <2>3. NoBatch \in BatchRows
    BY <2>1 DEF NoBatch, BatchRows
  <2>4. NoVisit \in Visits
    BY DEF NoVisit, Visits
  <2> QED
    BY <2>2, <2>3, <2>4 DEF NoIntake, NoBatch, NoVisit
<1>4. GoldTypeOK
  <2>1. intake \in [Intakes -> IntakeRows] /\ batch \in [Batches -> BatchRows] /\ visit \in [Desks -> Visits]
    BY <1>3
  <2>2. books \in [credit : Int, spent : Int, atRefiner : Weights, fine : Int, charges : Nat]
    BY WeightFacts
  <2> QED
    BY <2>1, <2>2, WeightFacts DEF GoldTypeOK
<1>5. IntakesTold /\ BatchesTold /\ VisitsTold
  <2>1. IntakesTold
    <3>1. \A i \in Intakes, n \in 1..2 : intake[i].batch[n] = 0
      BY <1>2, <1>3
    <3> QED
      BY <1>2, <1>3, <3>1 DEF IntakesTold
  <2>2. BatchesTold /\ VisitsTold
    BY <1>2, <1>3 DEF BatchesTold, VisitsTold
  <2> QED
    BY <2>1, <2>2
<1>6. \A b \in Batches : ~Stands(batch[b]) /\ batch[b].status # "sent"
  BY <1>2, <1>3 DEF Stands
<1>7. MetalTells
  <2>1. AddUp(BroughtBy(intake)) = NoWeight
    <3>1. DOMAIN BroughtBy(intake) = Intakes /\ \A i \in Intakes : BroughtBy(intake)[i] = NoWeight
      BY <1>2, <1>3 DEF BroughtBy
    <3> QED
      BY <3>1, GoldFinite, AddUpOfNothing
  <2>2. AddUp(TookBy(batch)) = NoWeight
    <3>1. DOMAIN TookBy(batch) = Batches /\ \A b \in Batches : TookBy(batch)[b] = NoWeight
      BY <1>6 DEF TookBy
    <3> QED
      BY <3>1, GoldFinite, AddUpOfNothing
  <2>3. AddUp(SentBy(batch)) = NoWeight
    <3>1. DOMAIN SentBy(batch) = Batches /\ \A b \in Batches : SentBy(batch)[b] = NoWeight
      BY <1>6 DEF SentBy
    <3> QED
      BY <3>1, GoldFinite, AddUpOfNothing
  <2>4. SumFunctionOnSet(ChargedBy(batch), Batches) = 0
    <3>1. \A b \in Batches : ChargedBy(batch)[b] = 0
      BY <1>6 DEF ChargedBy
    <3> QED
      BY <3>1, GoldFinite, SumOfZeros
  <2>5. ASSUME NEW b \in Batches PROVE AddUp(PutInto(intake, b)) = NoWeight
    <3>1. \A a \in Pairs : intake[a[1]].worth[a[2]] = NoWeight
      BY <1>2, <1>3 DEF Pairs
    <3>2. DOMAIN PutInto(intake, b) = Pairs /\ \A a \in Pairs : PutInto(intake, b)[a] = NoWeight
      BY <3>1 DEF PutInto
    <3> QED
      BY <3>2, GoldFinite, AddUpOfNothing
  <2>6. Less(NoWeight, NoWeight) = NoWeight
    BY WeightFacts, NothingTaken
  <2>7. /\ goldStock = NoWeight /\ bullion = NoWeight /\ books.atRefiner = NoWeight /\ books.charges = 0 /\ books.fine = 0
        /\ NoWeight.fine = 0
    BY DEF NoWeight
  <2> QED
    BY <1>6, <2>1, <2>2, <2>3, <2>4, <2>5, <2>6, <2>7 DEF MetalTells
<1>8. CreditTells
  <2>1. \A i \in Intakes : UnpaidOf(intake)[i] = 0
    BY <1>2, <1>3 DEF UnpaidOf
  <2>2. SumFunctionOnSet(UnpaidOf(intake), Intakes) = 0
    BY <2>1, GoldFinite, SumOfZeros
  <2> QED
    BY <2>2 DEF CreditTells
<1>9. OneDeskTold
  <2>1. \A i \in Intakes : DroppedOf(intake)[i] = 0
    BY <1>2, <1>3 DEF DroppedOf
  <2>2. SumFunctionOnSet(DroppedOf(intake), Intakes) = 0
    BY <2>1, GoldFinite, SumOfZeros
  <2>3. AloneRows
    BY <1>1, <1>2, <1>3, <2>2 DEF AloneRows
  <2>4. AloneVisits
    BY <1>2, <1>3 DEF AloneVisits
  <2> QED
    BY <2>3, <2>4 DEF OneDeskTold
<1> QED
  BY <1>1, <1>4, <1>5, <1>7, <1>8, <1>9 DEF OldGoldInv

LEMMA OldGoldNextInv == OldGoldInv /\ [GoldNext]_goldVars => OldGoldInv'
<1> SUFFICES ASSUME OldGoldInv, [GoldNext]_goldVars PROVE OldGoldInv'
  OBVIOUS
<1>1. CASE UNCHANGED goldVars
  <2>1. UNCHANGED <<goldShop, intake, batch, goldStock, bullion, books, paidInCash, visit>>
    BY <1>1 DEF goldVars
  <2>2. goldShop' \in Shops /\ GoldTypeOK'
    BY <2>1 DEF OldGoldInv, GoldTypeOK
  <2>3. IntakesTold' /\ BatchesTold' /\ VisitsTold'
    BY <2>1 DEF OldGoldInv, IntakesTold, BatchesTold, VisitsTold
  <2>4. MetalTells' /\ CreditTells'
    BY <2>1 DEF OldGoldInv, MetalTells, CreditTells
  <2>5. OneDeskTold'
    BY <2>1 DEF OldGoldInv, OneDeskTold, AloneRows, AloneVisits, OneDesk
  <2> QED
    BY <2>2, <2>3, <2>4, <2>5 DEF OldGoldInv
<1>2. CASE GoldNext
  <2>1. PICK d \in Desks :
          \/ createIntake(d)
          \/ TakeOnBill(d)
          \/ SpendCredit(d)
          \/ \E i \in Intakes : BeginPayout(d, i)
          \/ payoutIntake(d)
          \/ \E i \in Intakes : BeginCancelIntake(d, i)
          \/ cancelIntake(d)
          \/ BeginMelt(d)
          \/ createMeltBatch(d)
          \/ \E b \in Batches : receiveMeltBatch(d, b)
          \/ \E b \in Batches : cancelMeltBatch(d, b)
          \/ UseBullion(d)
          \/ LeaveDesk(d)
    BY <1>2, Zenon DEF GoldNext
  <2>2. CASE createIntake(d)
    BY <2>2, createIntakeInv
  <2>3. CASE TakeOnBill(d)
    BY <2>3, TakeOnBillInv
  <2>4. CASE SpendCredit(d)
    BY <2>4, SpendCreditInv
  <2>5. CASE \E i \in Intakes : BeginPayout(d, i)
    BY <2>5, BeginPayoutInv
  <2>6. CASE payoutIntake(d)
    BY <2>6, payoutIntakeInv
  <2>7. CASE \E i \in Intakes : BeginCancelIntake(d, i)
    BY <2>7, BeginCancelIntakeInv
  <2>8. CASE cancelIntake(d)
    BY <2>8, cancelIntakeInv
  <2>9. CASE BeginMelt(d)
    BY <2>9, BeginMeltInv
  <2>10. CASE createMeltBatch(d)
    BY <2>10, createMeltBatchInv
  <2>11. CASE \E b \in Batches : receiveMeltBatch(d, b)
    BY <2>11, receiveMeltBatchInv
  <2>12. CASE \E b \in Batches : cancelMeltBatch(d, b)
    BY <2>12, cancelMeltBatchInv
  <2>13. CASE UseBullion(d)
    BY <2>13, UseBullionInv
  <2>14. CASE LeaveDesk(d)
    BY <2>14, LeaveDeskInv
  <2> QED
    BY <2>1, <2>2, <2>3, <2>4, <2>5, <2>6, <2>7, <2>8, <2>9, <2>10, <2>11, <2>12, <2>13, <2>14, Zenon
<1> QED
  BY <1>1, <1>2

\* What is added up over the rows that count is what was kept of all rows.
LEMMA MetalFromTold == ASSUME OldGoldInv PROVE MetalAccounted
<1> DEFINE standing == {b \in Batches : batch[b].status \notin {"none", "cancelled"}}
           posted == {i \in Intakes : intake[i].status = "posted"}
           sent == {b \in Batches : batch[b].status = "sent"}
           taken(b) == {a \in Intakes \X (1..2) : intake[a[1]].batch[a[2]] = b}
<1>0. IsFiniteSet(Intakes) /\ IsFiniteSet(Batches)
  BY GoldFinite
<1>1. /\ \A i \in Intakes : intake[i].worth \in [1..2 -> Weights]
      /\ \A b \in Batches : batch[b].in \in Weights /\ batch[b].charge \in Nat
      /\ intake \in [Intakes -> IntakeRows]
  BY GoldRows DEF OldGoldInv, GoldTypeOK
<1>2. standing \in SUBSET Batches /\ posted \in SUBSET Intakes /\ sent \in SUBSET Batches
  OBVIOUS
<1>3. /\ \A b \in Batches : b \in standing <=> Stands(batch[b])
      /\ \A b \in Batches : b \in sent <=> batch[b].status = "sent"
      /\ \A i \in Intakes : i \in posted <=> intake[i].status = "posted"
  BY DEF Stands
<1> HIDE DEF standing, posted, sent
<1>4. AddUp([i \in posted |-> Brought(i)]) = AddUp(BroughtBy(intake))
  <2> DEFINE f == [i \in posted |-> Brought(i)]
             e == BroughtBy(intake)
  <2>1. /\ DOMAIN f = posted /\ DOMAIN e = Intakes
        /\ \A i \in posted : f[i] = AddUp(intake[i].worth) /\ e[i] = AddUp(intake[i].worth)
        /\ \A i \in Intakes \ posted : e[i] = NoWeight
    BY <1>2, <1>3 DEF Brought, BroughtBy
  <2>2. \A i \in Intakes : AddUp(intake[i].worth) \in Weights
    BY <1>1, LinesTyped
  <2> HIDE DEF f, e
  <2>3. \A i \in posted : f[i] \in Weights /\ e[i] = f[i]
    BY <1>2, <2>1, <2>2
  <2>4. AddUp(f) = AddUp(e)
    BY <1>2, <2>1, <2>3, <1>0, AddUpOfPart
  <2> QED
    BY <2>4 DEF f, e
<1>5. AddUp([b \in standing |-> batch[b].in]) = AddUp(TookBy(batch))
  <2> DEFINE f == [b \in standing |-> batch[b].in]
             e == TookBy(batch)
  <2>1. /\ DOMAIN f = standing /\ DOMAIN e = Batches
        /\ \A b \in standing : f[b] \in Weights /\ e[b] = f[b]
        /\ \A b \in Batches \ standing : e[b] = NoWeight
    BY <1>1, <1>2, <1>3 DEF TookBy
  <2> HIDE DEF f, e
  <2>2. AddUp(f) = AddUp(e)
    BY <1>2, <2>1, <1>0, AddUpOfPart
  <2> QED
    BY <2>2 DEF f, e
<1>6. AddUp([b \in sent |-> batch[b].in]) = AddUp(SentBy(batch))
  <2> DEFINE f == [b \in sent |-> batch[b].in]
             e == SentBy(batch)
  <2>1. /\ DOMAIN f = sent /\ DOMAIN e = Batches
        /\ \A b \in sent : f[b] \in Weights /\ e[b] = f[b]
        /\ \A b \in Batches \ sent : e[b] = NoWeight
    BY <1>1, <1>2, <1>3 DEF SentBy
  <2> HIDE DEF f, e
  <2>2. AddUp(f) = AddUp(e)
    BY <1>2, <2>1, <1>0, AddUpOfPart
  <2> QED
    BY <2>2 DEF f, e
<1>7. SumFunction([b \in standing |-> batch[b].charge]) = SumFunctionOnSet(ChargedBy(batch), Batches)
  <2> DEFINE f == [b \in standing |-> batch[b].charge]
             e == ChargedBy(batch)
  <2>1. /\ \A b \in standing : f[b] \in Int /\ e[b] = f[b]
        /\ \A b \in Batches \ standing : e[b] = 0
        /\ SumFunction(f) = SumFunctionOnSet(f, standing)
    BY <1>1, <1>2, <1>3 DEF ChargedBy, SumFunction
  <2> HIDE DEF f, e
  <2>2. SumFunctionOnSet(f, standing) = SumFunctionOnSet(e, Batches)
    BY <1>2, <2>1, <1>0, SumOfPart
  <2> QED
    BY <2>1, <2>2 DEF f, e
<1>8. ASSUME NEW b \in Batches
      PROVE  AddUp([a \in taken(b) |-> Worth(a)]) = AddUp(PutInto(intake, b))
  <2> DEFINE set == taken(b)
             f == [a \in set |-> Worth(a)]
             e == PutInto(intake, b)
  <2>1. set \in SUBSET Pairs /\ \A a \in Pairs : a \in set <=> intake[a[1]].batch[a[2]] = b
    BY DEF Pairs
  <2>2. \A a \in Pairs : intake[a[1]].worth[a[2]] \in Weights
    BY <1>1 DEF Pairs
  <2> HIDE DEF set
  <2>3. /\ DOMAIN f = set /\ DOMAIN e = Pairs
        /\ \A a \in set : f[a] \in Weights /\ e[a] = f[a]
        /\ \A a \in Pairs \ set : e[a] = NoWeight
    BY <2>1, <2>2 DEF PutInto, Worth
  <2> HIDE DEF f, e
  <2>4. AddUp(f) = AddUp(e)
    BY <2>1, <2>3, GoldFinite, AddUpOfPart
  <2> QED
    BY <2>4 DEF f, e, set
<1>9. /\ goldStock = Less(AddUp([i \in posted |-> Brought(i)]), AddUp([b \in standing |-> batch[b].in]))
      /\ books.atRefiner = AddUp([b \in sent |-> batch[b].in])
      /\ books.charges = SumFunction([b \in standing |-> batch[b].charge])
      /\ books.fine = goldStock.fine + bullion.fine
  BY <1>4, <1>5, <1>6, <1>7 DEF OldGoldInv, MetalTells
<1>10. \A b \in Batches : AddUp([a \in taken(b) |-> Worth(a)]) = IF b \in standing THEN batch[b].in ELSE NoWeight
  BY <1>3, <1>8 DEF OldGoldInv, MetalTells
<1> QED
  BY <1>9, <1>10 DEF MetalAccounted, standing, posted, sent

LEMMA CreditFromTold == ASSUME OldGoldInv PROVE PaidFromCredit
<1> DEFINE posted == {i \in Intakes : intake[i].status = "posted"}
           f == [i \in posted |-> intake[i].value - intake[i].paid]
           e == UnpaidOf(intake)
<1>0. IsFiniteSet(Intakes)
  BY GoldFinite
<1>1. \A i \in Intakes : intake[i].value \in Nat /\ intake[i].paid \in Nat
  BY GoldRows DEF OldGoldInv
<1>2. /\ posted \in SUBSET Intakes /\ SumFunction(f) = SumFunctionOnSet(f, posted)
      /\ \A i \in posted : f[i] \in Int /\ e[i] = f[i]
      /\ \A i \in Intakes \ posted : e[i] = 0
  BY <1>1 DEF UnpaidOf, SumFunction
<1>3. SumFunction([i \in {i \in Intakes : intake[i].status = "posted"} |-> intake[i].value - intake[i].paid])
        = SumFunction(f)
  OBVIOUS
<1> HIDE DEF posted, f, e
<1>4. SumFunctionOnSet(f, posted) = SumFunctionOnSet(e, Intakes)
  BY <1>2, <1>0, SumOfPart
<1>5. books.credit + books.spent = SumFunctionOnSet(e, Intakes)
  BY DEF OldGoldInv, CreditTells, e
<1>6. \A i \in Intakes : intake[i].paid <= intake[i].value /\ (intake[i].status = "cancelled" => intake[i].paid = 0)
  BY DEF OldGoldInv, IntakesTold
<1> QED
  BY <1>2, <1>3, <1>4, <1>5, <1>6 DEF PaidFromCredit

LEMMA AloneFromTold == ASSUME OldGoldInv, Cardinality(goldShop.desks) = 1 PROVE OneAtATime
<1>0. IsFiniteSet(Intakes)
  BY GoldFinite
<1>1. OneDesk
  <2>1. goldShop.desks \subseteq Desks /\ IsFiniteSet(Desks)
    BY OldGoldAssumption DEF OldGoldInv
  <2>2. IsFiniteSet(goldShop.desks)
    BY <2>1, FS_Subset
  <2>3. \E x : goldShop.desks = {x}
    BY <2>2, FS_Singleton
  <2> QED
    BY <2>3 DEF OneDesk
<1>2. AloneRows
  BY <1>1 DEF OldGoldInv, OneDeskTold
<1> DEFINE dropped == {i \in Intakes : intake[i].status = "cancelled" /\ intake[i].onBill}
           f == [i \in dropped |-> intake[i].value - intake[i].applied]
           e == DroppedOf(intake)
<1>3. \A i \in Intakes : intake[i].value \in Nat /\ intake[i].applied \in Nat
  BY GoldRows DEF OldGoldInv
<1>4. /\ dropped \in SUBSET Intakes /\ SumFunction(f) = SumFunctionOnSet(f, dropped)
      /\ \A i \in dropped : f[i] \in Int /\ e[i] = f[i]
      /\ \A i \in Intakes \ dropped : e[i] = 0
  BY <1>3 DEF DroppedOf, SumFunction
<1>5. SumFunction([i \in {i \in Intakes : intake[i].status = "cancelled" /\ intake[i].onBill} |->
                     intake[i].value - intake[i].applied]) = SumFunction(f)
  OBVIOUS
<1> HIDE DEF dropped, f, e
<1>6. SumFunctionOnSet(f, dropped) = SumFunctionOnSet(e, Intakes)
  BY <1>4, <1>0, SumOfPart
<1>7. books.credit >= -SumFunctionOnSet(e, Intakes)
  BY <1>2 DEF AloneRows, e
<1>8. books.credit >= -SumFunction(f)
  BY <1>4, <1>6, <1>7
<1> QED
  BY <1>2, <1>5, <1>8 DEF AloneRows, OneAtATime

LEMMA OldGoldInvAccounts == OldGoldInv => GoldAccounted
BY MetalFromTold, CreditFromTold, AloneFromTold DEF GoldAccounted

-------------------------------------------------------------------------------
\* Lists of master data

\* What a screen was given, row by row: nobody else's row twice, only from before the cursor,
\* and of the rows still as they were the ones before it all.  By offset and undisturbed
\* it was given the first rows of the list.
Apart(seq, but) == \A i, j \in DOMAIN seq : seq[i] = seq[j] /\ seq[i] \notin but => i = j
Has(seq, e) == \E i \in DOMAIN seq : seq[i] = e
NamesApart == \A e, f \in Listed : entry[e].name = entry[f].name => e = f
FirstOf(seq, n, whole) == Len(seq) = n /\ n <= Len(whole) /\ \A i \in 1..n : seq[i] = whole[i]

ByCursorTold ==
  walk.by = "cursor" =>
    /\ Apart(walk.given, touched)
    /\ walk.pc = "open" =>
         /\ \A i \in DOMAIN walk.given : walk.given[i] \notin touched => ~pastCursor(walk.given[i], walk.cursor)
         /\ \A e \in stood : Has(walk.given, e) \/ pastCursor(e, walk.cursor)
    /\ walk.pc = "done" => \A e \in stood : Has(walk.given, e)

ByOffsetTold ==
  walk.by = "offset" /\ changes = 0 /\ NamesApart =>
    /\ walk.pc = "open" => FirstOf(walk.given, walk.offset, InTurn(Listed))
    /\ walk.pc = "done" => walk.given = InTurn(Listed)

ListsInv ==
  /\ ListsTypeOK
  /\ walk.pc = "open" => walk.limit \in PageSizes
  /\ walk.pc = "closed" => walk.given = <<>> /\ walk.cursor = NoCursor /\ walk.offset = 0 /\ walk.by = "cursor"
                           /\ changes = 0 /\ touched = {}
  /\ stood \subseteq Listed /\ stood \cap touched = {}
  /\ \A i \in DOMAIN walk.given : entry[walk.given[i]].status # "none"
  /\ ByCursorTold /\ ByOffsetTold

-------------------------------------------------------------------------------
\* Rows in order.

LEMMA ListRows ==
  ASSUME ListsTypeOK
  PROVE  /\ \A e \in EntryIds : e \in Nat /\ e # 0 /\ entry[e].name \in Nat /\ entry[e].name # 0
                                /\ entry[e].name \in Names /\ entry[e].status \in {"none", "live", "deleted"}
                                /\ entry[e].matches \in BOOLEAN
         /\ Listed \subseteq EntryIds
BY ListsAssumption DEF ListsTypeOK, EntryRows, Listed

LEMMA OrderedRows ==
  ASSUME ListsTypeOK
  PROVE  /\ \A e \in EntryIds : ~InOrder(e, e)
         /\ \A e, f, g \in EntryIds : InOrder(e, f) /\ InOrder(f, g) => InOrder(e, g)
         /\ \A e, f \in EntryIds : e = f \/ InOrder(e, f) \/ InOrder(f, e)
BY ListRows DEF InOrder

\* A set of rows that is not empty has a last one.
LEMMA LastRow ==
  ASSUME ListsTypeOK
  PROVE  \A S \in SUBSET EntryIds : S # {} => \E m \in S : \A e \in S : e = m \/ InOrder(e, m)
<1> DEFINE T == {n \in Nat : \A S \in SUBSET EntryIds :
                   Cardinality(S) = n /\ S # {} => \E m \in S : \A e \in S : e = m \/ InOrder(e, m)}
<1>1. \A S \in SUBSET EntryIds : IsFiniteSet(S) /\ Cardinality(S) \in Nat
  BY ListsAssumption, FS_Subset, FS_CardinalityType
<1>2. 0 \in T
  BY <1>1, FS_EmptySet
<1>3. ASSUME NEW n \in Nat, n \in T PROVE n + 1 \in T
  <2> SUFFICES ASSUME NEW S \in SUBSET EntryIds, Cardinality(S) = n + 1
               PROVE  \E m \in S : \A e \in S : e = m \/ InOrder(e, m)
    OBVIOUS
  <2>1. PICK x \in S : TRUE
    BY <1>1, FS_EmptySet
  <2>2. S \ {x} \in SUBSET EntryIds /\ Cardinality(S \ {x}) = n
    <3>1. IsFiniteSet(S)
      BY <1>1
    <3>2. Cardinality(S \ {x}) = Cardinality(S) - 1
      BY <2>1, <3>1, FS_RemoveElement
    <3> QED
      BY <3>2
  <2>3. CASE S \ {x} = {}
    BY <2>1, <2>3
  <2>4. CASE S \ {x} # {}
    <3>1. PICK m \in S \ {x} : \A e \in S \ {x} : e = m \/ InOrder(e, m)
      BY <1>3, <2>2, <2>4
    <3>2. CASE InOrder(x, m)
      BY <3>1, <3>2
    <3>3. CASE ~InOrder(x, m)
      <4>1. InOrder(m, x)
        BY <2>1, <3>1, <3>3, OrderedRows
      <4>2. \A e \in S \ {x} : InOrder(e, x)
        BY <2>1, <3>1, <4>1, OrderedRows
      <4> QED
        BY <2>1, <4>2
    <3> QED
      BY <3>2, <3>3
  <2> QED
    BY <2>3, <2>4
<1> HIDE DEF T
<1>4. Nat \subseteq T
  BY <1>2, <1>3, NaturalsBySteps
<1>5. ASSUME NEW S \in SUBSET EntryIds, S # {} PROVE \E m \in S : \A e \in S : e = m \/ InOrder(e, m)
  <2>1. Cardinality(S) \in T
    BY <1>1, <1>4
  <2> QED
    BY <1>5, <2>1 DEF T
<1> QED
  BY <1>5

InRow(seq, S) ==
  /\ seq \in [1..Cardinality(S) -> S]
  /\ \A i, j \in 1..Cardinality(S) : i < j => InOrder(seq[i], seq[j])

\* Any set of rows can be put in order.
LEMMA RowsOrdered ==
  ASSUME ListsTypeOK
  PROVE  \A S \in SUBSET EntryIds : \E seq : InRow(seq, S)
<1> DEFINE T == {n \in Nat : \A S \in SUBSET EntryIds : Cardinality(S) = n => \E seq : InRow(seq, S)}
<1>1. \A S \in SUBSET EntryIds : IsFiniteSet(S) /\ Cardinality(S) \in Nat
  BY ListsAssumption, FS_Subset, FS_CardinalityType
<1>2. 0 \in T
  <2> SUFFICES ASSUME NEW S \in SUBSET EntryIds, Cardinality(S) = 0 PROVE \E seq : InRow(seq, S)
    OBVIOUS
  <2> DEFINE none == [i \in 1..0 |-> 0]
  <2>1. none \in [1..0 -> S] /\ 1..0 = {}
    OBVIOUS
  <2>2. InRow(none, S)
    BY <2>1 DEF InRow
  <2> QED
    BY <2>2
<1>3. ASSUME NEW n \in Nat, n \in T PROVE n + 1 \in T
  <2> SUFFICES ASSUME NEW S \in SUBSET EntryIds, Cardinality(S) = n + 1 PROVE \E seq : InRow(seq, S)
    OBVIOUS
  <2>1. S # {}
    BY FS_EmptySet
  <2>2. PICK m \in S : \A e \in S : e = m \/ InOrder(e, m)
    BY <2>1, LastRow
  <2>3. S \ {m} \in SUBSET EntryIds /\ Cardinality(S \ {m}) = n
    <3>1. IsFiniteSet(S)
      BY <1>1
    <3>2. Cardinality(S \ {m}) = Cardinality(S) - 1
      BY <2>2, <3>1, FS_RemoveElement
    <3> QED
      BY <3>2
  <2>4. PICK before : InRow(before, S \ {m})
    BY <1>3, <2>3
  <2> DEFINE all == [i \in 1..(n + 1) |-> IF i = n + 1 THEN m ELSE before[i]]
  <2>5. before \in [1..n -> S \ {m}] /\ \A i, j \in 1..n : i < j => InOrder(before[i], before[j])
    BY <2>3, <2>4 DEF InRow
  <2>6. \A i \in 1..n : before[i] \in S \ {m}
    BY <2>5
  <2>7. \A i \in 1..(n + 1) : i = n + 1 \/ i \in 1..n
    OBVIOUS
  <2>8. all \in [1..(n + 1) -> S] /\ \A i \in 1..(n + 1) : all[i] = IF i = n + 1 THEN m ELSE before[i]
    BY <2>6, <2>7
  <2> HIDE DEF all
  <2>9. ASSUME NEW i \in 1..(n + 1), NEW j \in 1..(n + 1), i < j PROVE InOrder(all[i], all[j])
    <3>1. i \in 1..n /\ all[i] = before[i]
      BY <2>8, <2>9
    <3>2. CASE j = n + 1
      BY <2>2, <2>6, <2>8, <3>1, <3>2
    <3>3. CASE j # n + 1
      BY <2>5, <2>7, <2>8, <2>9, <3>1, <3>3
    <3> QED
      BY <3>2, <3>3
  <2>10. InRow(all, S)
    BY <2>8, <2>9 DEF InRow
  <2> QED
    BY <2>10
<1> HIDE DEF T
<1>4. Nat \subseteq T
  BY <1>2, <1>3, NaturalsBySteps
<1>5. ASSUME NEW S \in SUBSET EntryIds PROVE \E seq : InRow(seq, S)
  <2>1. Cardinality(S) \in T
    BY <1>1, <1>4
  <2> QED
    BY <2>1 DEF T
<1> QED
  BY <1>5

\* Rows in order are all of them, each once.
LEMMA RowsInTurn ==
  ASSUME ListsTypeOK, NEW S \in SUBSET EntryIds
  PROVE  /\ InRow(InTurn(S), S)
         /\ \A i, j \in 1..Cardinality(S) : InTurn(S)[i] = InTurn(S)[j] => i = j
         /\ \A e \in S : \E i \in 1..Cardinality(S) : InTurn(S)[i] = e
         /\ InTurn(S) \in Seq(EntryIds) /\ Len(InTurn(S)) = Cardinality(S) /\ Cardinality(S) \in Nat
         /\ DOMAIN InTurn(S) = 1..Cardinality(S)
<1> DEFINE n == Cardinality(S)
<1>1. IsFiniteSet(S) /\ n \in Nat
  BY ListsAssumption, FS_Subset, FS_CardinalityType
<1>2. PICK seq : InRow(seq, S)
  BY RowsOrdered
<1> HIDE DEF n
<1>3. \A q : InRow(q, S) => \A i, j \in 1..n : i # j => q[i] # q[j]
  <2> SUFFICES ASSUME NEW q, InRow(q, S), NEW i \in 1..n, NEW j \in 1..n, i # j PROVE q[i] # q[j]
    OBVIOUS
  <2>1. q[i] \in EntryIds /\ q[j] \in EntryIds
    BY DEF InRow, n
  <2>2. InOrder(q[i], q[j]) \/ InOrder(q[j], q[i])
    <3>1. i < j \/ j < i
      BY <1>1
    <3> QED
      BY <3>1 DEF InRow, n
  <2> QED
    BY <2>1, <2>2, OrderedRows
<1>4. SetToSeqs(S) = {f \in [1..n -> S] : \A i, j \in 1..n : i # j => f[i] # f[j]}
  BY DEF SetToSeqs, n
<1>5. seq \in SetToSeqs(S) /\ \A i, j \in DOMAIN seq : i < j => InOrder(seq[i], seq[j])
  BY <1>2, <1>3, <1>4 DEF InRow, n
<1> DEFINE turn == InTurn(S)
<1>6. turn \in SetToSeqs(S) /\ \A i, j \in DOMAIN turn : i < j => InOrder(turn[i], turn[j])
  BY <1>5 DEF InTurn
<1> HIDE DEF turn
<1>7. turn \in [1..n -> S] /\ \A i, j \in 1..n : i # j => turn[i] # turn[j]
  BY <1>4, <1>6
<1>8. InRow(turn, S)
  BY <1>6, <1>7 DEF InRow, n
<1>9. \A e \in S : \E i \in 1..n : turn[i] = e
  <2>1. turn \in Injection(1..n, S)
    BY <1>7 DEF Injection, IsInjective
  <2>2. Cardinality(1..n) = n
    BY <1>1, FS_Interval
  <2>3. turn \in Surjection(1..n, S)
    BY <1>1, <2>1, <2>2, FS_Injection DEF n
  <2> QED
    BY <2>3 DEF Surjection
<1>10. turn \in Seq(EntryIds) /\ Len(turn) = n /\ DOMAIN turn = 1..n
  BY <1>1, <1>7
<1> QED
  BY <1>1, <1>7, <1>8, <1>9, <1>10 DEF turn, n

\* There is one way to put them in order.
LEMMA OneTurn ==
  ASSUME ListsTypeOK, NEW S \in SUBSET EntryIds, NEW seq, InRow(seq, S)
  PROVE  seq = InTurn(S)
<1> DEFINE n == Cardinality(S)
           turn == InTurn(S)
           T == {k \in Nat : \A i \in 1..n : i <= k => seq[i] = turn[i]}
<1>1. /\ n \in Nat /\ turn \in [1..n -> S] /\ seq \in [1..n -> S]
      /\ \A i, j \in 1..n : i < j => InOrder(seq[i], seq[j])
      /\ \A i, j \in 1..n : i < j => InOrder(turn[i], turn[j])
      /\ \A e \in S : \E i \in 1..n : turn[i] = e
  BY RowsInTurn DEF InRow
<1>2. \A e \in S : \E i \in 1..n : seq[i] = e
  <2>1. \A i, j \in 1..n : seq[i] = seq[j] => i = j
    <3> SUFFICES ASSUME NEW i \in 1..n, NEW j \in 1..n, i # j PROVE seq[i] # seq[j]
      OBVIOUS
    <3>1. seq[i] \in EntryIds /\ seq[j] \in EntryIds /\ (i < j \/ j < i)
      BY <1>1
    <3> HIDE DEF n, turn
    <3>2. InOrder(seq[i], seq[j]) \/ InOrder(seq[j], seq[i])
      BY <1>1, <3>1
    <3> QED
      BY <3>1, <3>2, OrderedRows
  <2>2. seq \in Injection(1..n, S)
    BY <1>1, <2>1 DEF Injection, IsInjective
  <2>3. Cardinality(1..n) = n
    <3>1. n \in Nat
      BY <1>1
    <3> HIDE DEF n
    <3> QED
      BY <3>1, FS_Interval
  <2>5. IsFiniteSet(S)
    BY ListsAssumption, FS_Subset
  <2>4. seq \in Surjection(1..n, S)
    BY <2>2, <2>3, <2>5, FS_Injection
  <2> QED
    BY <2>4 DEF Surjection
<1> HIDE DEF n, turn
<1>3. 0 \in T
  OBVIOUS
<1>4. ASSUME NEW k \in Nat, k \in T PROVE k + 1 \in T
  <2> SUFFICES ASSUME k + 1 \in 1..n, seq[k + 1] # turn[k + 1] PROVE FALSE
    BY <1>4
  <2> DEFINE a == seq[k + 1]
             b == turn[k + 1]
  <2>1. a \in S /\ b \in S /\ a \in EntryIds /\ b \in EntryIds /\ a # b
    BY <1>1
  <2>2. PICK i \in 1..n : turn[i] = a
    BY <1>1, <2>1
  <2>3. PICK j \in 1..n : seq[j] = b
    BY <1>2, <2>1
  <2>4. \A l \in 1..n : l <= k => seq[l] = turn[l]
    BY <1>4
  <2>5. i > k + 1
    <3>1. i # k + 1
      BY <2>1, <2>2
    <3>2. ASSUME i <= k PROVE FALSE
      <4>1. seq[i] = a /\ i < k + 1
        BY <2>2, <2>4, <3>2
      <4>2. InOrder(a, a)
        BY <1>1, <4>1
      <4> QED
        BY <2>1, <4>2, OrderedRows
    <3> QED
      BY <1>1, <3>1, <3>2
  <2>6. j > k + 1
    <3>1. j # k + 1
      BY <2>1, <2>3
    <3>2. ASSUME j <= k PROVE FALSE
      <4>1. turn[j] = b /\ j < k + 1
        BY <2>3, <2>4, <3>2
      <4>2. InOrder(b, b)
        BY <1>1, <4>1
      <4> QED
        BY <2>1, <4>2, OrderedRows
    <3> QED
      BY <1>1, <3>1, <3>2
  <2>7. InOrder(b, a) /\ InOrder(a, b)
    BY <1>1, <2>2, <2>3, <2>5, <2>6
  <2> HIDE DEF a, b
  <2> QED
    BY <2>1, <2>7, OrderedRows
<1> HIDE DEF T
<1>5. Nat \subseteq T
  BY <1>3, <1>4, NaturalsBySteps
<1>6. \A i \in 1..n : seq[i] = turn[i]
  <2>1. n \in T
    BY <1>1, <1>5
  <2> QED
    BY <1>1, <2>1 DEF T
<1> QED
  BY <1>1, <1>6 DEF turn

-------------------------------------------------------------------------------
\* Pages.

LEMMA WalkTyped ==
  ASSUME ListsTypeOK
  PROVE  /\ walk.pc \in {"closed", "open", "done"} /\ walk.by \in {"cursor", "offset"}
         /\ walk.limit \in Nat /\ walk.limit \in PageSizes \cup {0} /\ walk.cursor \in Cursors \cup {NoCursor}
         /\ walk.cursor.name \in Nat /\ walk.cursor.id \in Nat
         /\ walk.offset \in Nat /\ walk.given \in Seq(EntryIds)
<1> DEFINE Walks == [pc : {"closed", "open", "done"}, by : {"cursor", "offset"}, limit : PageSizes \cup {0},
                     cursor : Cursors \cup {NoCursor}, offset : Nat, given : Seq(EntryIds)]
<1>1. walk \in Walks
  BY DEF ListsTypeOK
<1>2. /\ walk.pc \in {"closed", "open", "done"} /\ walk.by \in {"cursor", "offset"}
      /\ walk.limit \in PageSizes \cup {0} /\ walk.cursor \in Cursors \cup {NoCursor}
      /\ walk.offset \in Nat /\ walk.given \in Seq(EntryIds)
  BY <1>1
<1> HIDE DEF Walks
<1>3. walk.limit \in Nat
  <2>1. walk.limit \in PageSizes \/ walk.limit = 0
    BY <1>2, Zenon
  <2>2. \A n \in PageSizes : n \in Nat
    BY ListsAssumption
  <2> QED
    BY <2>1, <2>2
<1>4. \A c \in Cursors \cup {NoCursor} : c.name \in Nat /\ c.id \in Nat
  <2>1. Names \subseteq Nat /\ EntryIds \subseteq Nat
    BY ListsAssumption
  <2>2. \A c \in Cursors : c.name \in Names /\ c.id \in EntryIds
    BY DEF Cursors
  <2>3. NoCursor.name = 0 /\ NoCursor.id = 0
    BY DEF NoCursor
  <2> SUFFICES ASSUME NEW c \in Cursors \cup {NoCursor} PROVE c.name \in Nat /\ c.id \in Nat
    OBVIOUS
  <2>4. CASE c \in Cursors
    BY <2>1, <2>2, <2>4
  <2>5. CASE c = NoCursor
    BY <2>3, <2>5
  <2> QED
    BY <2>4, <2>5, Zenon
<1> QED
  BY <1>2, <1>3, <1>4

\* As many rows as a page has from where it starts, or those there are.
Upto(seq, from) == IF from + walk.limit < Len(seq) THEN from + walk.limit ELSE Len(seq)

LEMMA PageRows ==
  ASSUME ListsTypeOK, NEW seq \in Seq(EntryIds), NEW from \in Nat
  PROVE  /\ Page(seq, from) \in Seq(EntryIds) /\ Upto(seq, from) \in Nat
         /\ Len(Page(seq, from)) = IF from < Upto(seq, from) THEN Upto(seq, from) - from ELSE 0
         /\ \A i \in 1..(Upto(seq, from) - from) : Page(seq, from)[i] = seq[from + i]
<1> DEFINE m == Upto(seq, from)
<1>1. Len(seq) \in Nat /\ \A i \in 1..Len(seq) : seq[i] \in EntryIds
  OBVIOUS
<1>2. m \in Nat /\ m <= Len(seq)
  BY <1>1, WalkTyped DEF Upto
<1>3. Page(seq, from) = SubSeq(seq, from + 1, m)
  BY DEF Page, Upto
<1> HIDE DEF m
<1>4. from + 1 \in Int /\ m \in Int /\ \A i \in from + 1..m : seq[i] \in EntryIds
  BY <1>1, <1>2
<1>5. /\ SubSeq(seq, from + 1, m) \in Seq(EntryIds)
      /\ Len(SubSeq(seq, from + 1, m)) = IF from + 1 <= m THEN m - (from + 1) + 1 ELSE 0
      /\ \A i \in 1..m - (from + 1) + 1 : SubSeq(seq, from + 1, m)[i] = seq[(from + 1) + i - 1]
  BY <1>4, SubSeqProperties
<1>6. (from + 1 <= m <=> from < m) /\ m - (from + 1) + 1 = m - from
  BY <1>2
<1>7. \A i \in 1..(m - from) : (from + 1) + i - 1 = from + i
  BY <1>2
<1> QED
  BY <1>2, <1>3, <1>5, <1>6, <1>7 DEF m

\* What a screen has after a page: what it had and then the page.
LEMMA PageAdded ==
  ASSUME NEW had \in Seq(EntryIds), NEW page \in Seq(EntryIds)
  PROVE  /\ had \o page \in Seq(EntryIds) /\ Len(had \o page) = Len(had) + Len(page)
         /\ DOMAIN (had \o page) = 1..(Len(had) + Len(page))
         /\ DOMAIN had = 1..Len(had) /\ Len(had) \in Nat /\ Len(page) \in Nat
         /\ \A i \in 1..Len(had) : (had \o page)[i] = had[i]
         /\ \A i \in 1..Len(page) : (had \o page)[Len(had) + i] = page[i]
         /\ \A i \in DOMAIN (had \o page) : i \in 1..Len(had) \/ \E j \in 1..Len(page) : i = Len(had) + j
<1> DEFINE has == had \o page
<1>1. Len(had) \in Nat /\ Len(page) \in Nat /\ DOMAIN had = 1..Len(had)
  OBVIOUS
<1>2. /\ has \in Seq(EntryIds) /\ Len(has) = Len(had) + Len(page)
      /\ \A i \in 1..Len(had) + Len(page) : has[i] = IF i <= Len(had) THEN had[i] ELSE page[i - Len(had)]
  BY ConcatProperties DEF has
<1> HIDE DEF has
<1>3. DOMAIN has = 1..(Len(had) + Len(page))
  BY <1>2
<1>4. \A i \in 1..Len(had) : has[i] = had[i]
  BY <1>1, <1>2
<1>5. ASSUME NEW i \in 1..Len(page) PROVE has[Len(had) + i] = page[i]
  <2>1. Len(had) + i \in 1..Len(had) + Len(page) /\ ~(Len(had) + i <= Len(had)) /\ Len(had) + i - Len(had) = i
    BY <1>1
  <2> QED
    BY <1>2, <2>1
<1>6. ASSUME NEW i \in DOMAIN has, i \notin 1..Len(had) PROVE \E j \in 1..Len(page) : i = Len(had) + j
  <2>1. i \in Int /\ i <= Len(had) + Len(page) /\ i > Len(had)
    BY <1>1, <1>3, <1>6
  <2>2. i - Len(had) \in 1..Len(page) /\ i = Len(had) + (i - Len(had))
    BY <1>1, <2>1
  <2> QED
    BY <2>2
<1> QED
  BY <1>1, <1>2, <1>3, <1>4, <1>5, <1>6 DEF has

LEMMA ListsInitInv == ListsInit => ListsInv
<1> SUFFICES ASSUME ListsInit PROVE ListsInv
  OBVIOUS
<1>1. ListsTypeOK
  <2>1. entry \in [EntryIds -> EntryRows]
    BY DEF ListsInit
  <2>2. walk = [pc |-> "closed", by |-> "cursor", limit |-> 0, cursor |-> NoCursor, offset |-> 0, given |-> <<>>]
    BY DEF ListsInit
  <2>3. <<>> \in Seq(EntryIds)
    BY EmptySeq
  <2>4. walk \in [pc : {"closed", "open", "done"}, by : {"cursor", "offset"}, limit : PageSizes \cup {0},
                  cursor : Cursors \cup {NoCursor}, offset : Nat, given : Seq(EntryIds)]
    BY <2>2, <2>3
  <2> QED
    BY <2>1, <2>4, ListsAssumption DEF ListsInit, ListsTypeOK
<1>2. walk.pc = "closed" /\ walk.by = "cursor" /\ walk.cursor = NoCursor /\ walk.offset = 0 /\ walk.given = <<>>
      /\ stood = {} /\ touched = {} /\ changes = 0
  BY DEF ListsInit
<1>3. \A i \in DOMAIN walk.given : FALSE
  BY <1>2
<1> QED
  BY <1>1, <1>2, <1>3 DEF ListsInv, ByCursorTold, ByOffsetTold, Apart

LEMMA openListInv == ASSUME ListsInv, openList PROVE ListsInv'
<1>1. PICK by \in {"cursor", "offset"}, limit \in PageSizes :
        /\ walk.pc = "closed"
        /\ walk' = [walk EXCEPT !.pc = "open", !.by = by, !.limit = limit]
        /\ stood' = Listed
        /\ UNCHANGED <<entry, touched, changes>>
  BY Zenon DEF openList
<1>2. /\ walk.given = <<>> /\ walk.cursor = NoCursor /\ walk.offset = 0 /\ changes = 0 /\ touched = {}
      /\ entry \in [EntryIds -> EntryRows] /\ Listed \subseteq EntryIds
      /\ walk \in [pc : {"closed", "open", "done"}, by : {"cursor", "offset"}, limit : PageSizes \cup {0},
                   cursor : Cursors \cup {NoCursor}, offset : Nat, given : Seq(EntryIds)]
  BY <1>1, ListRows DEF ListsInv, ListsTypeOK
<1>3. /\ walk'.pc = "open" /\ walk'.by = by /\ walk'.limit = limit /\ walk'.given = <<>> /\ walk'.cursor = NoCursor
      /\ walk'.offset = 0
      /\ walk' \in [pc : {"closed", "open", "done"}, by : {"cursor", "offset"}, limit : PageSizes \cup {0},
                    cursor : Cursors \cup {NoCursor}, offset : Nat, given : Seq(EntryIds)]
  BY <1>1, <1>2
<1>4. Listed' = Listed
  BY <1>1 DEF Listed
<1>5. ListsTypeOK'
  BY <1>1, <1>2, <1>3 DEF ListsInv, ListsTypeOK
<1>6. \A i \in DOMAIN walk'.given : FALSE
  BY <1>3
<1>7. ByCursorTold'
  <2>1. \A e \in Listed : pastCursor(e, NoCursor)'
    BY <1>1, <1>2, ListRows DEF ListsInv, pastCursor, NoCursor
  <2> QED
    BY <1>1, <1>3, <1>6, <2>1 DEF ByCursorTold, Apart
<1>8. ByOffsetTold'
  <2>0. InTurn(Listed)' = InTurn(Listed)
    BY <1>1, <1>4 DEF InTurn, InOrder
  <2>1. InTurn(Listed)' \in Seq(EntryIds)
    BY <1>2, <2>0, RowsInTurn DEF ListsInv
  <2>2. FirstOf(<<>>, 0, InTurn(Listed)')
    BY <2>1 DEF FirstOf
  <2> QED
    BY <1>3, <2>2 DEF ByOffsetTold
<1> QED
  BY <1>1, <1>2, <1>3, <1>4, <1>5, <1>6, <1>7, <1>8 DEF ListsInv

\* The next page after a cursor: the rows after it in their order, as many as a page has.
LEMMA FirstPage ==
  ASSUME ListsTypeOK, walk.limit \in PageSizes, NEW S \in SUBSET EntryIds,
         NEW rest, rest = InTurn(S), NEW page, page = Page(rest, 0),
         NEW k, k = IF walk.limit < Len(rest) THEN walk.limit ELSE Len(rest)
  PROVE  /\ page \in Seq(EntryIds) /\ k \in Nat /\ Len(page) = k /\ Len(rest) \in Nat
         /\ walk.limit < Len(rest) => k = walk.limit /\ k \in 1..k
         /\ ~(walk.limit < Len(rest)) => k = Len(rest)
         /\ \A i \in 1..k : page[i] = rest[i] /\ page[i] \in S
         /\ \A i, j \in 1..k : page[i] = page[j] => i = j
         /\ \A i, j \in 1..k : i < j => InOrder(page[i], page[j])
         /\ \A e \in S : \/ \E i \in 1..k : page[i] = e
                         \/ walk.limit < Len(rest) /\ InOrder(page[k], e)
<1>1. /\ rest \in Seq(EntryIds) /\ Len(rest) = Cardinality(S) /\ Len(rest) \in Nat
      /\ \A i \in 1..Len(rest) : rest[i] \in S
      /\ \A i, j \in 1..Len(rest) : i < j => InOrder(rest[i], rest[j])
      /\ \A i, j \in 1..Len(rest) : rest[i] = rest[j] => i = j
      /\ \A e \in S : \E i \in 1..Len(rest) : rest[i] = e
  BY RowsInTurn DEF InRow
<1>2. walk.limit \in Nat /\ walk.limit # 0
  BY WalkTyped, ListsAssumption
<1>3. k = Upto(rest, 0) /\ k \in Nat /\ k <= Len(rest)
  BY <1>1, <1>2 DEF Upto
<1>4. page \in Seq(EntryIds) /\ Len(page) = (IF 0 < Upto(rest, 0) THEN Upto(rest, 0) - 0 ELSE 0)
      /\ \A i \in 1..(Upto(rest, 0) - 0) : page[i] = rest[0 + i]
  <2>1. 0 \in Nat
    OBVIOUS
  <2>2. rest \in Seq(EntryIds)
    BY <1>1
  <2>3. /\ Page(rest, 0) \in Seq(EntryIds)
        /\ Len(Page(rest, 0)) = IF 0 < Upto(rest, 0) THEN Upto(rest, 0) - 0 ELSE 0
        /\ \A i \in 1..(Upto(rest, 0) - 0) : Page(rest, 0)[i] = rest[0 + i]
    BY ONLY ListsTypeOK, <2>1, <2>2, PageRows
  <2> QED
    BY <2>3
<1>5. Len(page) = k /\ \A i \in 1..k : page[i] = rest[i]
  <2>1. k - 0 = k /\ (IF 0 < k THEN k - 0 ELSE 0) = k /\ \A i \in 1..k : 0 + i = i
    BY <1>3
  <2> QED
    BY <1>3, <1>4, <2>1
<1>6. \A i \in 1..k : i \in 1..Len(rest)
  BY <1>1, <1>3
<1>7. ASSUME NEW e \in S, ~\E i \in 1..k : page[i] = e PROVE walk.limit < Len(rest) /\ InOrder(page[k], e)
  <2>1. PICK m \in 1..Len(rest) : rest[m] = e
    BY <1>1
  <2>2. m > k
    BY <1>3, <1>5, <1>7, <2>1
  <2>3. walk.limit < Len(rest) /\ k \in 1..k
    BY <1>1, <1>2, <1>3, <2>2
  <2>4. InOrder(rest[k], rest[m])
    BY <1>1, <1>6, <2>2, <2>3
  <2> QED
    BY <1>5, <2>1, <2>3, <2>4
<1>8. walk.limit < Len(rest) => k = walk.limit /\ k \in 1..k
  BY <1>1, <1>2
<1> QED
  BY <1>1, <1>3, <1>4, <1>5, <1>6, <1>7, <1>8

\* After a row a cursor follows, only rows that follow the cursor.
LEMMA PastCursors ==
  ASSUME ListsTypeOK, NEW last \in EntryIds
  PROVE  /\ \A e \in EntryIds : pastCursor(e, [name |-> entry[last].name, id |-> last]) <=> InOrder(last, e)
         /\ \A e \in EntryIds : pastCursor(last, walk.cursor) /\ InOrder(last, e) => pastCursor(e, walk.cursor)
<1>1. walk.cursor.name \in Nat /\ walk.cursor.id \in Nat
  BY WalkTyped
<1>2. ASSUME NEW e \in EntryIds PROVE pastCursor(e, [name |-> entry[last].name, id |-> last]) <=> InOrder(last, e)
  BY ListRows DEF pastCursor, InOrder
<1>3. ASSUME NEW e \in EntryIds, pastCursor(last, walk.cursor), InOrder(last, e) PROVE pastCursor(e, walk.cursor)
  <2>1. /\ e \in Nat /\ last \in Nat /\ entry[e].name \in Nat /\ entry[last].name \in Nat
    BY ListRows
  <2> QED
    BY <1>1, <1>3, <2>1 DEF pastCursor, InOrder
<1> QED
  BY <1>2, <1>3

LEMMA nextByCursorInv == ASSUME ListsInv, nextByCursor PROVE ListsInv'
<1> DEFINE R == {e \in Listed : pastCursor(e, walk.cursor)}
           rest == InTurn(R)
           page == Page(rest, 0)
           k == IF walk.limit < Len(rest) THEN walk.limit ELSE Len(rest)
           last == page[k]
           more == walk.limit < Len(rest)
           had == walk.given
           has == walk.given \o page
           Walks == [pc : {"closed", "open", "done"}, by : {"cursor", "offset"}, limit : PageSizes \cup {0},
                     cursor : Cursors \cup {NoCursor}, offset : Nat, given : Seq(EntryIds)]
<1>1. ListsTypeOK /\ walk.pc = "open" /\ walk.by = "cursor" /\ walk.limit \in PageSizes
      /\ stood \subseteq Listed /\ stood \cap touched = {} /\ ByCursorTold
      /\ UNCHANGED <<entry, stood, touched, changes>> /\ walk \in Walks
  BY DEF nextByCursor, ListsInv, ListsTypeOK
<1>2. R \in SUBSET EntryIds
  BY <1>1, ListRows
<1>3. walk' = [walk EXCEPT !.given = has,
                !.pc = IF Len(rest) > walk.limit THEN "open" ELSE "done",
                !.cursor = IF Len(rest) > walk.limit THEN [name |-> entry[page[Len(page)]].name, id |-> page[Len(page)]] ELSE @]
  BY DEF nextByCursor
<1> HIDE DEF R, rest, page, k, last, more, had, has, Walks
<1>4. /\ page \in Seq(EntryIds) /\ k \in Nat /\ Len(page) = k /\ Len(rest) \in Nat
      /\ more => k = walk.limit /\ k \in 1..k
      /\ ~more => k = Len(rest)
      /\ \A i \in 1..k : page[i] = rest[i] /\ page[i] \in R
      /\ \A i, j \in 1..k : page[i] = page[j] => i = j
      /\ \A i, j \in 1..k : i < j => InOrder(page[i], page[j])
      /\ \A e \in R : (\E i \in 1..k : page[i] = e) \/ (more /\ InOrder(page[k], e))
  <2>1. rest = InTurn(R) /\ page = Page(rest, 0)
    BY DEF rest, page
  <2>2. k = IF walk.limit < Len(rest) THEN walk.limit ELSE Len(rest)
    BY DEF k
  <2>3. more <=> walk.limit < Len(rest)
    BY DEF more
  <2>4. ListsTypeOK /\ walk.limit \in PageSizes
    BY <1>1
  <2>5. /\ page \in Seq(EntryIds) /\ k \in Nat /\ Len(page) = k /\ Len(rest) \in Nat
        /\ walk.limit < Len(rest) => k = walk.limit /\ k \in 1..k
        /\ ~(walk.limit < Len(rest)) => k = Len(rest)
        /\ \A i \in 1..k : page[i] = rest[i] /\ page[i] \in R
        /\ \A i, j \in 1..k : page[i] = page[j] => i = j
        /\ \A i, j \in 1..k : i < j => InOrder(page[i], page[j])
        /\ \A e \in R : \/ \E i \in 1..k : page[i] = e
                        \/ walk.limit < Len(rest) /\ InOrder(page[k], e)
    BY ONLY <1>2, <2>1, <2>2, <2>4, FirstPage, SMTT(30)
  <2> QED
    BY <2>3, <2>5
<1>5. \A i \in 1..k : page[i] \in EntryIds /\ page[i] \in Listed /\ pastCursor(page[i], walk.cursor)
  BY <1>2, <1>4 DEF R
<1>6. had \in Seq(EntryIds) /\ had = walk.given /\ has = had \o page
  BY <1>1, WalkTyped DEF had, has
<1>7. /\ has \in Seq(EntryIds) /\ DOMAIN has = 1..(Len(had) + k)
      /\ DOMAIN had = 1..Len(had) /\ Len(had) \in Nat
      /\ \A i \in 1..Len(had) : has[i] = had[i]
      /\ \A i \in 1..k : has[Len(had) + i] = page[i]
      /\ \A i \in DOMAIN has : i \in 1..Len(had) \/ \E j \in 1..k : i = Len(had) + j
  <2>1. page \in Seq(EntryIds) /\ Len(page) = k
    BY <1>4
  <2>2. /\ has \in Seq(EntryIds) /\ DOMAIN has = 1..(Len(had) + Len(page))
        /\ DOMAIN had = 1..Len(had) /\ Len(had) \in Nat
        /\ \A i \in 1..Len(had) : has[i] = had[i]
        /\ \A i \in 1..Len(page) : has[Len(had) + i] = page[i]
        /\ \A i \in DOMAIN has : i \in 1..Len(had) \/ \E j \in 1..Len(page) : i = Len(had) + j
    <3>1. had \in Seq(EntryIds) /\ page \in Seq(EntryIds) /\ has = had \o page
      BY <1>6, <2>1
    <3> QED
      BY <3>1, PageAdded
  <2> QED
    BY <2>1, <2>2
<1>8. \A i \in 1..Len(had) : i \in DOMAIN has
  BY <1>4, <1>7
<1>9. \A j \in 1..k : Len(had) + j \in DOMAIN has
  BY <1>4, <1>7
<1>10. Len(rest) > walk.limit <=> more
  BY <1>4, WalkTyped, <1>1 DEF more
<1>11. more => last \in EntryIds /\ last = page[Len(page)] /\ pastCursor(last, walk.cursor)
  BY <1>4, <1>5 DEF last
<1> DEFINE ahead == [name |-> entry[last].name, id |-> last]
<1>12. /\ walk'.given = has /\ walk'.by = "cursor" /\ walk'.limit = walk.limit
       /\ walk'.pc = IF more THEN "open" ELSE "done"
       /\ more => walk'.cursor = ahead
       /\ walk' \in Walks
  <2>1. CASE more
    <3>1. walk' = [walk EXCEPT !.given = has, !.pc = "open", !.cursor = ahead]
      BY <1>3, <1>10, <1>11, <2>1
    <3>2. ahead \in Cursors
      BY <1>1, <1>11, <2>1, ListRows DEF Cursors
    <3> HIDE DEF ahead
    <3> QED
      BY <1>1, <1>7, <2>1, <3>1, <3>2 DEF Walks
  <2>2. CASE ~more
    <3>1. walk' = [walk EXCEPT !.given = has, !.pc = "done", !.cursor = walk.cursor]
      BY <1>3, <1>10, <2>2
    <3>2. walk.cursor \in Cursors \cup {NoCursor}
      BY <1>1, WalkTyped
    <3> QED
      BY <1>1, <1>7, <2>2, <3>1, <3>2 DEF Walks
  <2> QED
    BY <2>1, <2>2
<1>13. ListsTypeOK'
  BY <1>1, <1>12 DEF ListsTypeOK, Walks
<1>14. Listed' = Listed /\ \A e, c : pastCursor(e, c)' = pastCursor(e, c)'
  BY <1>1 DEF Listed
<1>15. Apart(has, touched)
  <2>1. ASSUME NEW i \in 1..Len(had), NEW j \in 1..k, had[i] = page[j], had[i] \notin touched PROVE FALSE
    <3>1. ~pastCursor(had[i], walk.cursor)
      BY <1>1, <1>6, <1>7, <2>1 DEF ByCursorTold
    <3> QED
      BY <1>5, <2>1, <3>1
  <2>2. \A i, j \in 1..Len(had) : had[i] = had[j] /\ had[i] \notin touched => i = j
    BY <1>1, <1>6, <1>7 DEF ByCursorTold, Apart
  <2>3. SUFFICES ASSUME NEW i \in DOMAIN has, NEW j \in DOMAIN has, has[i] = has[j], has[i] \notin touched PROVE i = j
    BY DEF Apart
  <2>4. CASE i \in 1..Len(had) /\ j \in 1..Len(had)
    BY <1>7, <2>2, <2>3, <2>4
  <2>5. CASE i \in 1..Len(had) /\ j \notin 1..Len(had)
    BY <1>7, <2>1, <2>3, <2>5
  <2>6. CASE i \notin 1..Len(had) /\ j \in 1..Len(had)
    BY <1>7, <2>1, <2>3, <2>6
  <2>7. CASE i \notin 1..Len(had) /\ j \notin 1..Len(had)
    <3>1. PICK l \in 1..k : i = Len(had) + l
      BY <1>7, <2>7
    <3>2. PICK m \in 1..k : j = Len(had) + m
      BY <1>7, <2>7
    <3>3. page[l] = page[m]
      BY <1>7, <2>3, <3>1, <3>2
    <3> QED
      BY <1>4, <3>1, <3>2, <3>3
  <2> QED
    BY <2>4, <2>5, <2>6, <2>7
<1>16. \A e : Has(had, e) => Has(has, e)
  BY <1>7, <1>8 DEF Has
<1>17. \A j \in 1..k : Has(has, page[j])
  BY <1>7, <1>9 DEF Has
<1>18. ByCursorTold'
  <2>1. CASE more
    <3>1. \A e \in EntryIds : pastCursor(e, ahead) <=> InOrder(last, e)
      BY <1>1, <1>11, <2>1, PastCursors
    <3>2. \A e \in EntryIds : InOrder(last, e) => pastCursor(e, walk.cursor)
      BY <1>1, <1>11, <2>1, PastCursors
    <3> HIDE DEF ahead
    <3>3. ASSUME NEW i \in DOMAIN has, has[i] \notin touched PROVE ~pastCursor(has[i], ahead)
      <4>1. CASE i \in 1..Len(had)
        <5>1. has[i] = had[i] /\ had[i] \in EntryIds /\ ~pastCursor(had[i], walk.cursor)
          BY <1>1, <1>6, <1>7, <3>3, <4>1 DEF ByCursorTold
        <5> QED
          BY <3>1, <3>2, <5>1
      <4>2. CASE i \notin 1..Len(had)
        <5>1. PICK j \in 1..k : i = Len(had) + j
          BY <1>7, <4>2
        <5>2. has[i] = page[j] /\ page[j] \in EntryIds
          BY <1>5, <1>7, <5>1
        <5>3. page[j] = last \/ InOrder(page[j], last)
          <6>1. j = k \/ j < k
            BY <1>4
          <6> QED
            BY <1>4, <2>1, <6>1 DEF last
        <5>4. ~InOrder(last, page[j])
          BY <1>1, <1>11, <2>1, <5>2, <5>3, OrderedRows
        <5> QED
          BY <3>1, <5>2, <5>4
      <4> QED
        BY <4>1, <4>2
    <3>4. ASSUME NEW e \in stood PROVE Has(has, e) \/ pastCursor(e, ahead)
      <4>1. e \in Listed /\ e \in EntryIds
        BY <1>1, ListRows
      <4>2. CASE Has(had, e)
        BY <1>16, <4>2
      <4>3. CASE ~Has(had, e)
        <5>1. e \in R
          BY <1>1, <1>6, <4>1, <4>3 DEF ByCursorTold, R
        <5>2. (\E i \in 1..k : page[i] = e) \/ InOrder(last, e)
          BY <1>4, <5>1 DEF last
        <5> QED
          BY <1>17, <3>1, <4>1, <5>2
      <4> QED
        BY <4>2, <4>3
    <3> QED
      BY <1>1, <1>12, <1>15, <2>1, <3>3, <3>4 DEF ByCursorTold, pastCursor
  <2>2. CASE ~more
    <3>1. ASSUME NEW e \in stood PROVE Has(has, e)
      <4>1. e \in Listed
        BY <1>1
      <4>2. Has(had, e) \/ e \in R
        BY <1>1, <1>6, <4>1 DEF ByCursorTold, R
      <4>3. CASE e \in R
        BY <1>4, <1>17, <2>2, <4>3
      <4> QED
        BY <1>16, <4>2, <4>3
    <3> QED
      BY <1>1, <1>12, <1>15, <2>2, <3>1 DEF ByCursorTold
  <2> QED
    BY <2>1, <2>2
<1>19. ASSUME NEW i \in DOMAIN has PROVE entry[has[i]].status # "none"
  <2>1. CASE i \in 1..Len(had)
    BY <1>6, <1>7, <2>1 DEF ListsInv
  <2>2. CASE i \notin 1..Len(had)
    BY <1>5, <1>7, <2>2 DEF Listed
  <2> QED
    BY <2>1, <2>2
<1>20. ByOffsetTold'
  BY <1>12 DEF ByOffsetTold
<1>21. walk'.pc # "closed"
  BY <1>12
<1> QED
  BY <1>1, <1>12, <1>13, <1>14, <1>18, <1>19, <1>20, <1>21 DEF ListsInv

\* Rows by name alone are in their order when no two have the same name.
LEMMA ByNameInRow ==
  ASSUME ListsTypeOK, NamesApart, NEW seq \in SetToSeqs(Listed),
         \A i \in 1..Len(seq) - 1 : entry[seq[i]].name <= entry[seq[i + 1]].name
  PROVE  seq = InTurn(Listed)
<1> DEFINE n == Cardinality(Listed)
           name(i) == entry[seq[i]].name
           T == {k \in Nat : \A i, j \in 1..n : i <= j /\ j <= i + k => name(i) <= name(j)}
<1>1. Listed \subseteq EntryIds /\ IsFiniteSet(Listed)
  BY ListsAssumption, ListRows, FS_Subset
<1>2. n \in Nat
  BY <1>1, FS_CardinalityType
<1>3. seq \in [1..n -> Listed] /\ \A i, j \in 1..n : i # j => seq[i] # seq[j]
  BY DEF SetToSeqs
<1> HIDE DEF n
<1>4. Len(seq) = n
  BY <1>2, <1>3
<1>5. \A i \in 1..n : seq[i] \in Listed /\ seq[i] \in EntryIds /\ name(i) \in Nat
  BY <1>1, <1>3, ListRows
<1>6. \A i \in 1..n - 1 : name(i) <= name(i + 1)
  BY <1>4
<1> HIDE DEF name
<1>7. 0 \in T
  BY <1>2, <1>5
<1>8. ASSUME NEW k \in Nat, k \in T PROVE k + 1 \in T
  <2> SUFFICES ASSUME NEW i \in 1..n, NEW j \in 1..n, i <= j, j <= i + (k + 1) PROVE name(i) <= name(j)
    OBVIOUS
  <2>1. CASE j <= i + k
    BY <1>8, <2>1
  <2>2. CASE ~(j <= i + k)
    <3>1. j - 1 \in 1..n /\ i <= j - 1 /\ j - 1 <= i + k /\ j - 1 \in 1..n - 1 /\ (j - 1) + 1 = j
      BY <1>2, <2>2
    <3>2. name(i) <= name(j - 1) /\ name(j - 1) <= name(j)
      BY <1>6, <1>8, <3>1
    <3> QED
      BY <1>5, <3>1, <3>2
  <2> QED
    BY <2>1, <2>2
<1> HIDE DEF T
<1>9. Nat \subseteq T
  BY <1>7, <1>8, NaturalsBySteps
<1>10. ASSUME NEW i \in 1..n, NEW j \in 1..n, i < j PROVE InOrder(seq[i], seq[j])
  <2>1. name(i) <= name(j)
    <3>1. n \in T /\ j <= i + n /\ i <= j
      BY <1>2, <1>9, <1>10
    <3> QED
      BY <3>1 DEF T
  <2>2. seq[i] # seq[j] /\ seq[i] \in Listed /\ seq[j] \in Listed
    BY <1>3, <1>5, <1>10
  <2>3. name(i) # name(j)
    BY <2>2 DEF NamesApart, name
  <2>4. name(i) < name(j)
    BY <1>5, <2>1, <2>3
  <2> QED
    BY <2>4 DEF InOrder, name
<1>11. InRow(seq, Listed)
  BY <1>3, <1>10 DEF InRow, n
<1> QED
  BY <1>1, <1>11, OneTurn

LEMMA nextByOffsetInv == ASSUME ListsInv, nextByOffset PROVE ListsInv'
<1>1. PICK seq \in SetToSeqs(Listed) :
        /\ walk.pc = "open" /\ walk.by = "offset"
        /\ \A i \in 1..Len(seq) - 1 : entry[seq[i]].name <= entry[seq[i + 1]].name
        /\ walk' = [walk EXCEPT !.given = @ \o Page(seq, walk.offset), !.offset = @ + walk.limit,
                      !.pc = IF walk.offset + walk.limit < Len(seq) THEN "open" ELSE "done"]
        /\ UNCHANGED <<entry, stood, touched, changes>>
  BY Zenon DEF nextByOffset
<1> DEFINE n == Len(seq)
           from == walk.offset
           page == Page(seq, from)
           m == Upto(seq, from)
           had == walk.given
           has == walk.given \o page
           more == walk.offset + walk.limit < Len(seq)
           Walks == [pc : {"closed", "open", "done"}, by : {"cursor", "offset"}, limit : PageSizes \cup {0},
                     cursor : Cursors \cup {NoCursor}, offset : Nat, given : Seq(EntryIds)]
<1>2. /\ ListsTypeOK /\ walk.limit \in PageSizes /\ walk.limit \in Nat /\ from \in Nat /\ had \in Seq(EntryIds)
      /\ stood \subseteq Listed /\ stood \cap touched = {} /\ walk \in Walks
      /\ \A i \in DOMAIN had : entry[had[i]].status # "none"
  BY <1>1, WalkTyped DEF ListsInv, ListsTypeOK
<1>3. seq \in Seq(EntryIds) /\ n \in Nat /\ \A i \in 1..n : seq[i] \in Listed
  <2>1. Listed \subseteq EntryIds /\ IsFiniteSet(Listed)
    BY <1>2, ListsAssumption, ListRows, FS_Subset
  <2>2. Cardinality(Listed) \in Nat
    BY <2>1, FS_CardinalityType
  <2>3. seq \in [1..Cardinality(Listed) -> Listed]
    BY DEF SetToSeqs
  <2> QED
    BY <2>1, <2>2, <2>3
<1>4. walk' = [walk EXCEPT !.given = has, !.offset = from + walk.limit, !.pc = IF more THEN "open" ELSE "done"]
  BY <1>1
<1> HIDE DEF n, from, page, m, had, has, more, Walks
<1>5. /\ page \in Seq(EntryIds) /\ m \in Nat /\ Len(page) = IF from < m THEN m - from ELSE 0
      /\ \A i \in 1..(m - from) : page[i] = seq[from + i]
  BY <1>2, <1>3, PageRows DEF page, m
<1>6. m = (IF more THEN from + walk.limit ELSE n) /\ (more <=> from + walk.limit < n)
  BY DEF m, Upto, more, from, n
<1>7. has = had \o page
  BY DEF has, had
<1>8. /\ has \in Seq(EntryIds) /\ Len(has) = Len(had) + Len(page) /\ DOMAIN has = 1..(Len(had) + Len(page))
      /\ DOMAIN had = 1..Len(had) /\ Len(had) \in Nat /\ Len(page) \in Nat
      /\ \A i \in 1..Len(had) : has[i] = had[i]
      /\ \A i \in 1..Len(page) : has[Len(had) + i] = page[i]
      /\ \A i \in DOMAIN has : i \in 1..Len(had) \/ \E j \in 1..Len(page) : i = Len(had) + j
  BY <1>2, <1>5, <1>7, PageAdded
<1>9. from + walk.limit \in Nat
  BY <1>2
<1>10. /\ walk' \in Walks /\ walk'.given = has /\ walk'.by = "offset" /\ walk'.limit = walk.limit
       /\ walk'.offset = from + walk.limit /\ walk'.pc = IF more THEN "open" ELSE "done"
  <2>1. CASE more
    BY <1>1, <1>2, <1>4, <1>8, <1>9, <2>1 DEF Walks
  <2>2. CASE ~more
    BY <1>1, <1>2, <1>4, <1>8, <1>9, <2>2 DEF Walks
  <2> QED
    BY <2>1, <2>2
<1>11. ListsTypeOK'
  BY <1>1, <1>2, <1>10 DEF ListsTypeOK, Walks
<1>12. Listed' = Listed
  BY <1>1 DEF Listed
<1>13. \A i \in 1..Len(page) : page[i] \in Listed
  <2>1. ASSUME NEW i \in 1..Len(page) PROVE page[i] \in Listed
    <3>1. i \in 1..(m - from) /\ from + i \in 1..n
      BY <1>2, <1>3, <1>5, <1>6
    <3> QED
      BY <1>3, <1>5, <3>1
  <2> QED
    BY <2>1
<1>14. ASSUME NEW i \in DOMAIN has PROVE entry[has[i]].status # "none"
  <2>1. CASE i \in 1..Len(had)
    BY <1>2, <1>8, <2>1
  <2>2. CASE i \notin 1..Len(had)
    <3>1. PICK j \in 1..Len(page) : i = Len(had) + j
      BY <1>8, <2>2
    <3>2. has[i] \in Listed
      BY <1>8, <1>13, <3>1
    <3> QED
      BY <3>2 DEF Listed
  <2> QED
    BY <2>1, <2>2
<1>15. ByCursorTold'
  BY <1>10 DEF ByCursorTold
<1>16. ByOffsetTold'
  <2>1. InTurn(Listed)' = InTurn(Listed) /\ (NamesApart' => NamesApart)
    BY <1>1, <1>12 DEF InTurn, InOrder, NamesApart
  <2>2. SUFFICES ASSUME changes = 0, NamesApart
                 PROVE  /\ more => FirstOf(has, from + walk.limit, InTurn(Listed))
                        /\ ~more => has = InTurn(Listed)
    <3>1. walk'.offset = from + walk.limit /\ walk'.given = has /\ (walk'.pc = "open" => more) /\ (walk'.pc = "done" => ~more)
      BY <1>10
    <3>2. changes' = changes
      BY <1>1
    <3> QED
      BY <2>1, <3>1, <3>2 DEF ByOffsetTold
  <2>3. seq = InTurn(Listed)
    BY <1>1, <1>2, <2>2, ByNameInRow
  <2>4. FirstOf(had, from, seq)
    BY <1>1, <2>2, <2>3 DEF ListsInv, ByOffsetTold, had, from
  <2>5. Len(had) = from /\ from <= n /\ \A i \in 1..from : had[i] = seq[i]
    BY <2>4 DEF FirstOf, n
  <2>6. Len(page) = m - from /\ Len(has) = m /\ m <= n
    BY <1>2, <1>3, <1>5, <1>6, <1>8, <2>5, SMTT(30)
  <2>7. ASSUME NEW i \in 1..m PROVE has[i] = seq[i]
    <3>1. CASE i \in 1..from
      BY <1>8, <2>5, <3>1
    <3>2. CASE i \notin 1..from
      <4>1. i - from \in 1..(m - from) /\ from + (i - from) = i
        BY <1>2, <1>5, <3>2
      <4>2. has[Len(had) + (i - from)] = page[i - from]
        BY <1>8, <2>6, <4>1
      <4> QED
        BY <1>5, <2>5, <4>1, <4>2
    <3> QED
      BY <3>1, <3>2
  <2>8. CASE more
    <3>1. FirstOf(has, from + walk.limit, seq)
      BY <1>6, <2>6, <2>7, <2>8 DEF FirstOf, n
    <3> QED
      BY <2>3, <2>8, <3>1
  <2>9. CASE ~more
    <3>1. Len(has) = Len(seq) /\ \A i \in 1..Len(has) : has[i] = seq[i]
      BY <1>6, <2>6, <2>7, <2>9 DEF n
    <3>2. has = seq
      BY <1>3, <1>8, <3>1, SeqEqual
    <3> QED
      BY <2>3, <2>9, <3>2
  <2> QED
    BY <2>8, <2>9
<1>17. walk'.pc # "closed"
  BY <1>10
<1> QED
  BY <1>1, <1>2, <1>10, <1>11, <1>12, <1>14, <1>15, <1>16, <1>17 DEF ListsInv

-------------------------------------------------------------------------------
\* Meanwhile.

\* One row is changed while a screen is open: it has its name still, or is touched from now on,
\* or was not there to be given.
LEMMA RowChanged ==
  ASSUME ListsInv, NEW e \in EntryIds, walk.pc = "open", changes < MaxListed, changes' = changes + 1,
         stood' = stood \ {e}, walk' = walk, entry' \in [EntryIds -> EntryRows],
         \A f \in EntryIds \ {e} : entry'[f] = entry[f],
         entry'[e].status # "none", touched' = touched \/ touched' = touched \cup {e},
         e \in touched' \/ entry'[e].name = entry[e].name \/ entry[e].status = "none"
  PROVE  ListsInv'
<1>1. /\ ListsTypeOK /\ walk.limit \in PageSizes /\ stood \subseteq Listed /\ stood \cap touched = {}
      /\ \A i \in DOMAIN walk.given : entry[walk.given[i]].status # "none"
      /\ ByCursorTold
  BY DEF ListsInv
<1>2. changes' \in 0..MaxListed /\ changes' # 0
  BY <1>1, ListsAssumption DEF ListsTypeOK
<1>3. ListsTypeOK'
  BY <1>1, <1>2 DEF ListsTypeOK
<1>4. \A i \in DOMAIN walk.given : walk.given[i] \in EntryIds
  <2>1. walk.given \in Seq(EntryIds)
    BY <1>1, WalkTyped
  <2> QED
    BY <2>1
<1>5. stood' \subseteq Listed' /\ stood' \cap touched' = {}
  BY <1>1, ListRows DEF Listed
<1>6. \A i \in DOMAIN walk.given : entry'[walk.given[i]].status # "none"
  BY <1>1, <1>4
<1>7. touched \subseteq touched'
  OBVIOUS
<1>8. ASSUME NEW f \in EntryIds, f # e \/ entry'[e].name = entry[e].name
      PROVE  pastCursor(f, walk.cursor)' <=> pastCursor(f, walk.cursor)
  <2>1. entry'[f].name = entry[f].name
    BY <1>8
  <2> QED
    BY <2>1 DEF pastCursor
<1>9. ByCursorTold'
  <2> SUFFICES ASSUME walk.by = "cursor"
               PROVE  /\ Apart(walk.given, touched')
                      /\ \A i \in DOMAIN walk.given : walk.given[i] \notin touched' => ~pastCursor(walk.given[i], walk.cursor)'
                      /\ \A f \in stood' : Has(walk.given, f) \/ pastCursor(f, walk.cursor)'
    BY DEF ByCursorTold, Apart, Has
  <2>1. /\ Apart(walk.given, touched)
        /\ \A i \in DOMAIN walk.given : walk.given[i] \notin touched => ~pastCursor(walk.given[i], walk.cursor)
        /\ \A f \in stood : Has(walk.given, f) \/ pastCursor(f, walk.cursor)
    BY <1>1 DEF ByCursorTold
  <2>2. Apart(walk.given, touched')
    BY <1>7, <2>1 DEF Apart
  <2>3. ASSUME NEW i \in DOMAIN walk.given, walk.given[i] \notin touched'
        PROVE  ~pastCursor(walk.given[i], walk.cursor)'
    <3>1. walk.given[i] \notin touched /\ walk.given[i] \in EntryIds /\ entry[walk.given[i]].status # "none"
      BY <1>1, <1>4, <1>7, <2>3
    <3>2. walk.given[i] # e \/ entry'[e].name = entry[e].name
      BY <2>3, <3>1
    <3> DEFINE f == walk.given[i]
    <3>3. f \in EntryIds /\ (f # e \/ entry'[e].name = entry[e].name) /\ ~pastCursor(f, walk.cursor)
      BY <2>1, <3>1, <3>2
    <3>4. entry'[f].name = entry[f].name
      BY <3>3
    <3>5. walk' = walk
      OBVIOUS
    <3> QED
      BY <3>3, <3>4, <3>5 DEF pastCursor
  <2>4. ASSUME NEW f \in stood' PROVE Has(walk.given, f) \/ pastCursor(f, walk.cursor)'
    <3>1. f \in stood /\ f # e /\ f \in EntryIds
      BY <1>1, ListRows
    <3> QED
      BY <1>8, <2>1, <3>1
  <2> QED
    BY <2>2, <2>3, <2>4
<1>10. ByOffsetTold'
  BY <1>2 DEF ByOffsetTold
<1> QED
  BY <1>1, <1>3, <1>5, <1>6, <1>9, <1>10 DEF ListsInv

LEMMA addEntryInv == ASSUME ListsInv, NEW e \in EntryIds, addEntry(e) PROVE ListsInv'
<1>1. PICK name \in Names :
        /\ entry[e].status = "none" /\ \A f \in EntryIds : f < e => entry[f].status # "none"
        /\ entry' = [entry EXCEPT ![e] = [status |-> "live", name |-> name, matches |-> TRUE]]
        /\ Changing(e)
        /\ UNCHANGED touched
  BY Zenon DEF addEntry
<1>2. entry \in [EntryIds -> EntryRows]
  BY DEF ListsInv, ListsTypeOK
<1>3. [status |-> "live", name |-> name, matches |-> TRUE] \in EntryRows
  BY DEF EntryRows
<1>4. entry' \in [EntryIds -> EntryRows] /\ \A f \in EntryIds \ {e} : entry'[f] = entry[f]
  BY <1>1, <1>2, <1>3
<1>5. entry'[e].status # "none"
  BY <1>1, <1>2
<1>6. walk.pc = "open" /\ changes < MaxListed /\ changes' = changes + 1 /\ stood' = stood \ {e} /\ walk' = walk
  BY <1>1 DEF Changing
<1> QED
  BY <1>1, <1>4, <1>5, <1>6, RowChanged

LEMMA updateEntryInv == ASSUME ListsInv, NEW e \in EntryIds, updateEntry(e) PROVE ListsInv'
<1>1. PICK name \in Names, matches \in BOOLEAN :
        /\ entry[e].status = "live"
        /\ entry' = [entry EXCEPT ![e].name = name, ![e].matches = matches]
        /\ Changing(e)
        /\ touched' = touched \cup {e}
  BY Zenon DEF updateEntry
<1>2. entry \in [EntryIds -> EntryRows]
  BY DEF ListsInv, ListsTypeOK
<1>3. entry' \in [EntryIds -> EntryRows] /\ \A f \in EntryIds \ {e} : entry'[f] = entry[f]
  BY <1>1, <1>2 DEF EntryRows
<1>4. entry'[e].status # "none"
  BY <1>1, <1>2 DEF EntryRows
<1>5. walk.pc = "open" /\ changes < MaxListed /\ changes' = changes + 1 /\ stood' = stood \ {e} /\ walk' = walk
  BY <1>1 DEF Changing
<1> QED
  BY <1>1, <1>3, <1>4, <1>5, RowChanged

LEMMA removeEntryInv == ASSUME ListsInv, NEW e \in EntryIds, removeEntry(e) PROVE ListsInv'
<1>1. /\ entry[e].status = "live"
      /\ entry' = [entry EXCEPT ![e].status = "deleted"]
      /\ Changing(e)
      /\ UNCHANGED touched
  BY DEF removeEntry
<1>2. entry \in [EntryIds -> EntryRows]
  BY DEF ListsInv, ListsTypeOK
<1>3. entry' \in [EntryIds -> EntryRows] /\ \A f \in EntryIds \ {e} : entry'[f] = entry[f]
  BY <1>1, <1>2 DEF EntryRows
<1>4. entry'[e].status # "none" /\ entry'[e].name = entry[e].name
  BY <1>1, <1>2 DEF EntryRows
<1>5. walk.pc = "open" /\ changes < MaxListed /\ changes' = changes + 1 /\ stood' = stood \ {e} /\ walk' = walk
  BY <1>1 DEF Changing
<1> QED
  BY <1>1, <1>3, <1>4, <1>5, RowChanged

LEMMA ListsNextInv == ASSUME ListsInv, [ListsNext]_listVars PROVE ListsInv'
<1>1. CASE openList
  BY <1>1, openListInv
<1>2. CASE nextByCursor
  BY <1>2, nextByCursorInv
<1>3. CASE nextByOffset
  BY <1>3, nextByOffsetInv
<1>4. CASE \E e \in EntryIds : addEntry(e) \/ updateEntry(e) \/ removeEntry(e)
  BY <1>4, addEntryInv, updateEntryInv, removeEntryInv
<1>5. CASE UNCHANGED listVars
  <2>1. UNCHANGED <<entry, walk, stood, touched, changes>>
    BY <1>5 DEF listVars
  <2>2. UNCHANGED <<Listed, InTurn(Listed), NamesApart>>
    BY <2>1 DEF Listed, InTurn, InOrder, NamesApart
  <2>3. ListsTypeOK'
    BY <2>1 DEF ListsInv, ListsTypeOK
  <2>4. ByCursorTold'
    BY <2>1 DEF ListsInv, ByCursorTold, Apart, Has, pastCursor
  <2>5. ByOffsetTold'
    BY <2>1, <2>2 DEF ListsInv, ByOffsetTold, FirstOf
  <2> QED
    BY <2>1, <2>2, <2>3, <2>4, <2>5 DEF ListsInv
<1> QED
  BY <1>1, <1>2, <1>3, <1>4, <1>5 DEF ListsNext

\* A row is given as many times as it stands in what the screen was given.
LEMMA GivenTimes ==
  ASSUME ListsTypeOK, NEW e, \A i, j \in DOMAIN walk.given : walk.given[i] = e /\ walk.given[j] = e => i = j
  PROVE  /\ Given(e) <= 1
         /\ Has(walk.given, e) => Given(e) = 1
<1> DEFINE I == {i \in DOMAIN walk.given : walk.given[i] = e}
<1>1. CASE Has(walk.given, e)
  <2>1. PICK i \in DOMAIN walk.given : walk.given[i] = e
    BY <1>1 DEF Has
  <2>2. I = {i}
    BY <2>1
  <2>3. Cardinality(I) = 1
    BY <2>2, FS_Singleton
  <2> QED
    BY <2>3 DEF Given
<1>2. CASE ~Has(walk.given, e)
  <2>1. I = {}
    BY <1>2 DEF Has
  <2>2. Cardinality(I) = 0
    BY <2>1, FS_EmptySet
  <2> QED
    BY <1>2, <2>2 DEF Given
<1> QED
  BY <1>1, <1>2

LEMMA ListsInvWhole == ListsInv => ListsWhole
<1> SUFFICES ASSUME ListsInv PROVE ListsWhole
  OBVIOUS
<1>1. ListsTypeOK /\ stood \cap touched = {} /\ stood \subseteq Listed
  BY DEF ListsInv
<1>2. ASSUME walk.by = "cursor"
      PROVE  /\ \A e \in EntryIds \ touched : Given(e) <= 1
             /\ walk.pc = "done" => \A e \in stood : Given(e) = 1
  <2>1. Apart(walk.given, touched) /\ (walk.pc = "done" => \A e \in stood : Has(walk.given, e))
    BY <1>2 DEF ListsInv, ByCursorTold
  <2>2. ASSUME NEW e, e \notin touched
        PROVE  \A i, j \in DOMAIN walk.given : walk.given[i] = e /\ walk.given[j] = e => i = j
    BY <2>1, <2>2 DEF Apart
  <2>3. \A e : e \notin touched => Given(e) <= 1 /\ (Has(walk.given, e) => Given(e) = 1)
    BY <1>1, <2>2, GivenTimes
  <2> QED
    BY <1>1, <2>1, <2>3
<1>3. ASSUME walk.by = "offset", walk.pc = "done", changes = 0,
             \A e, f \in Listed : entry[e].name = entry[f].name => e = f
      PROVE  walk.given = InTurn(Listed)
  BY <1>3 DEF ListsInv, ByOffsetTold, NamesApart
<1> QED
  BY <1>2, <1>3 DEF ListsWhole
===============================================================================

-------------------------------- MODULE Schemes ---------------------------------
(***************************************************************************)
(* modules/schemes as api/routes.commercial.ts works it: monthly saving    *)
(* plans, the accounts of customers enrolled in them, and the schedule of  *)
(* installments that is written at enrolment and collected row by row.     *)
(*                                                                         *)
(* A collector updates the installment's row unless it is paid, so of two  *)
(* one waits and finds nothing: each request is one step.  No code matures *)
(* or redeems an account, so it stays active.  Amounts are whole rupees,   *)
(* weights whole grams; a date is a month and a day of a common year.      *)
(***************************************************************************)
EXTENDS Integers, FiniteSets, Functions

CONSTANTS
  Tenures,        \* months a plan may run
  EnrolDates,     \* [month, day] an account may be opened on
  DueDays,        \* the day of the month installments fall due
  SchemeAmounts,  \* what an installment comes to, and what may be paid on it
  GramRates,      \* the day's rate, or 0 where none is given
  MaxAccounts     \* bound: enrolments

ASSUME SchemesAssumption ==
  /\ MaxAccounts \in Nat /\ Tenures \subseteq Nat /\ DueDays \subseteq Nat
  /\ EnrolDates \subseteq [month : Nat, day : Nat] /\ SchemeAmounts \subseteq Nat /\ GramRates \subseteq Nat

VARIABLES
  plan,           \* scheme_plan: its months, and whether it was deleted
  enrolment,      \* scheme_account
  installment     \* scheme_installment rows of each account

schemeVars == <<plan, enrolment, installment>>

Accounts == 1..MaxAccounts

Plans == [tenure : {0} \cup Tenures, deleted : BOOLEAN]

AccountRows == [status : {"none", "active"}, paidCount : Nat, dueCount : Nat, totalPaid : Nat, totalWeight : Nat,
                redeemableAmount : Nat, redeemableWeight : Nat]
NoAccount == [status |-> "none", paidCount |-> 0, dueCount |-> 0, totalPaid |-> 0, totalWeight |-> 0,
              redeemableAmount |-> 0, redeemableWeight |-> 0]

Installments == [due : [month : Nat, day : Nat], status : {"due", "paid"}, amountDue : Nat, amountPaid : Nat, weight : Nat]

SchemesTypeOK ==
  /\ plan \in Plans
  /\ enrolment \in [Accounts -> AccountRows]
  /\ \A a \in Accounts :
       DOMAIN installment[a] = 1..enrolment[a].dueCount
         /\ \A n \in DOMAIN installment[a] : installment[a][n] \in Installments

SchemesInit ==
  /\ plan = [tenure |-> 0, deleted |-> FALSE]
  /\ enrolment = [a \in Accounts |-> NoAccount]
  /\ installment = [a \in Accounts |-> <<>>]

createPlan ==
  /\ plan.tenure = 0
  /\ \E t \in Tenures : plan' = [plan EXCEPT !.tenure = t]
  /\ UNCHANGED <<enrolment, installment>>

\* Soft-deleted; the accounts opened under it go on.
deletePlan ==
  /\ plan.tenure # 0 /\ ~plan.deleted
  /\ plan' = [plan EXCEPT !.deleted = TRUE]
  /\ UNCHANGED <<enrolment, installment>>

DaysOf(month) == <<31, 28, 31, 30, 31, 30, 31, 31, 30, 31, 30, 31>>[((month - 1) % 12) + 1]

\* Date.setMonth, then setDate: a start too late for the month runs over into the next
\* before the due day is set.
DueDate(start, i, dueDay) ==
  LET month == start.month + i IN
  [month |-> IF start.day > DaysOf(month) THEN month + 1 ELSE month, day |-> dueDay]

enroll ==
  /\ plan.tenure # 0 /\ ~plan.deleted
  /\ \E a \in Accounts : \E start \in EnrolDates, dueDay \in DueDays, amount \in SchemeAmounts :
       /\ enrolment[a].status = "none" /\ \A b \in 1..(a - 1) : enrolment[b].status # "none"
       /\ enrolment' = [enrolment EXCEPT ![a] = [NoAccount EXCEPT !.status = "active", !.dueCount = plan.tenure]]
       /\ installment' = [installment EXCEPT ![a] =
            [n \in 1..plan.tenure |-> [due |-> DueDate(start, n - 1, dueDay), status |-> "due", amountDue |-> amount,
                                       amountPaid |-> 0, weight |-> 0]]]
  /\ UNCHANGED plan

\* "where id = $1 and status <> 'paid'".
Collectable(row) == row.status # "paid"

Grams(amount, rate) == IF rate > 0 THEN amount \div rate ELSE 0

\* Neither what is due, nor the order of the rows, nor the account's status is asked for.
collect(a) ==
  \E n \in DOMAIN installment[a], amount \in SchemeAmounts, rate \in GramRates :
    /\ Collectable(installment[a][n])
    /\ installment' = [installment EXCEPT ![a][n] = [@ EXCEPT !.status = "paid", !.amountPaid = amount,
                                                              !.weight = Grams(amount, rate)]]
    /\ enrolment' = [enrolment EXCEPT ![a] = [enrolment[a] EXCEPT !.paidCount = @ + 1,
                     !.totalPaid = @ + amount, !.totalWeight = @ + Grams(amount, rate),
                     !.redeemableAmount = @ + amount, !.redeemableWeight = @ + Grams(amount, rate)]]
    /\ UNCHANGED plan

\* GET /api/schemes/due of one account by the end of a month.
dueList(a, month) ==
  {n \in DOMAIN installment[a] :
     installment[a][n].status = "due" /\ installment[a][n].due.month <= month /\ enrolment[a].status = "active"}

SchemesNext ==
  \/ createPlan
  \/ deletePlan
  \/ enroll
  \/ \E a \in Accounts : collect(a)

-------------------------------------------------------------------------------
\* "Running totals, kept in step with the installment rows" (schemes.schema.ts:76), through
\* any order of collecting, whoever collects; what is paid and what the list of dues shows
\* together are the whole schedule once its last date is past, and no date of it is before
\* the one above it or has more than two rows.
SchemesTell ==
  \A a \in Accounts :
    LET rows == DOMAIN installment[a]
        paid == {n \in rows : installment[a][n].status = "paid"}
        month(n) == installment[a][n].due.month
    IN
    /\ enrolment[a].paidCount = Cardinality(paid)
    /\ enrolment[a].totalPaid = SumFunction([n \in rows |-> installment[a][n].amountPaid])
    /\ enrolment[a].totalWeight = SumFunction([n \in rows |-> installment[a][n].weight])
    /\ enrolment[a].redeemableAmount = enrolment[a].totalPaid /\ enrolment[a].redeemableWeight = enrolment[a].totalWeight
    /\ \A n \in rows :
         /\ n > 1 => month(n - 1) <= month(n)
         /\ Cardinality({k \in rows : month(k) = month(n)}) <= 2
         /\ (\A k \in rows : month(k) <= month(n)) => dueList(a, month(n)) \cup paid = rows
===============================================================================

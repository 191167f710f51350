--------------------------------- MODULE Girvi ----------------------------------
(***************************************************************************)
(* modules/girvi as api/routes.commercial.ts works it: loans against       *)
(* jewellery, sanctioned up to a share of what the collateral is worth and *)
(* repaid in receipts, interest before principal.                          *)
(*                                                                         *)
(* A repayment locks the loan's row, splits the money by what it read and  *)
(* writes the receipt and the loan.  No code accrues interest, defaults a  *)
(* loan or auctions what was pledged.  Amounts are whole rupees, so the    *)
(* hundredth at which a loan counts as redeemed is nothing left.           *)
(***************************************************************************)
EXTENDS Money, Sequences, Functions

CONSTANTS
  Cashiers,     \* those who take repayments
  Collaterals,  \* articles pledged: [gross, stone, purity, rate]
  LtvPercents,  \* the share lent; the table allows up to 90
  Principals,   \* what may be asked for
  Repaid,       \* what may be paid at once
  Penalties,    \* what of it may be penalty
  MaxLoans, MaxReceipts   \* bounds: loans, receipts of one

\* girvi_collateral: the checks of the table on an article.
CollateralRows ==
  {c \in [gross : Nat, stone : Nat, purity : Nat, rate : Nat] : c.gross > 0 /\ c.gross - c.stone <= c.gross}

ASSUME GirviAssumption ==
  /\ Collaterals \subseteq CollateralRows
  /\ LtvPercents \subseteq Nat /\ Principals \subseteq Nat /\ Repaid \subseteq Nat /\ Penalties \subseteq Nat
  /\ MaxLoans \in Nat /\ MaxReceipts \in Nat

VARIABLES
  loan,         \* girvi_loan
  receipts,     \* girvi_repayment rows of each loan
  taking        \* the repayment each cashier is in

girviVars == <<loan, receipts, taking>>

Loans == 1..MaxLoans

LoanRows == [status : {"none", "sanctioned", "active", "redeemed"}, eligible : Nat, principal : Nat, accrued : Nat,
             interestPaid : Int, principalRepaid : Nat, outstanding : Int, redeemed : BOOLEAN]
NoLoan == [status |-> "none", eligible |-> 0, principal |-> 0, accrued |-> 0, interestPaid |-> 0, principalRepaid |-> 0,
           outstanding |-> 0, redeemed |-> FALSE]

Receipts == [amount : Nat, interest : Int, principal : Nat, penalty : Nat, after : Int]

Takings == [loan : {0} \cup Loans, seen : LoanRows]
NotTaking == [loan |-> 0, seen |-> NoLoan]

GirviTypeOK ==
  /\ loan \in [Loans -> LoanRows]
  /\ \A l \in Loans : receipts[l] \in Seq(Receipts)
  /\ taking \in [Cashiers -> Takings]

GirviInit ==
  /\ loan = [l \in Loans |-> NoLoan]
  /\ receipts = [l \in Loans |-> <<>>]
  /\ taking = [c \in Cashiers |-> NotTaking]

\* What the articles are worth: their fine weight at the buying rate.
Appraised(collateral) == Percent(collateral.gross - collateral.stone, collateral.purity) * collateral.rate

maxEligible(collateral, ltv) == Percent(Appraised(collateral), ltv)

sanctionLoan ==
  \E l \in Loans : \E collateral \in Collaterals, ltv \in LtvPercents, principal \in Principals :
    /\ loan[l].status = "none" /\ \A k \in 1..(l - 1) : loan[k].status # "none"
    /\ ltv > 0 /\ ltv <= 90
    /\ principal <= maxEligible(collateral, ltv)
    /\ loan' = [loan EXCEPT ![l] = [NoLoan EXCEPT !.status = "sanctioned", !.eligible = maxEligible(collateral, ltv),
                                                  !.principal = principal, !.outstanding = principal]]
    /\ UNCHANGED <<receipts, taking>>

LoanFree_Unlocked(l) == TRUE

\* "select ... for update".
LoanFree(l) == \A c \in Cashiers : taking[c].loan # l

\* Whatever the loan's status: a redeemed loan is taken too.
BeginRepayment(c, l) ==
  /\ taking[c] = NotTaking /\ loan[l].status # "none" /\ LoanFree(l)
  /\ Len(receipts[l]) < MaxReceipts
  /\ taking' = [taking EXCEPT ![c] = [loan |-> l, seen |-> loan[l]]]
  /\ UNCHANGED <<loan, receipts>>

\* Interest first, then whatever is left reduces the principal.
toInterest(row, afterPenalty) == AtMost(afterPenalty, row.accrued - row.interestPaid)

\* The receipt, and the loan with it; the penalty may be more than was paid.
recordRepayment(c) ==
  /\ taking[c] # NotTaking
  /\ LET l == taking[c].loan
         seen == taking[c].seen
     IN
     \E amount \in Repaid, penalty \in Penalties :
       amount > 0 /\
       LET interest == toInterest(seen, amount - penalty)
           principal == amount - penalty - interest
           left == seen.outstanding - principal
       IN
       /\ receipts' = [receipts EXCEPT ![l] = Append(@, [amount |-> amount, interest |-> interest, principal |-> principal,
                                                         penalty |-> penalty, after |-> left])]
       /\ loan' = [loan EXCEPT ![l] = [loan[l] EXCEPT !.interestPaid = @ + interest, !.principalRepaid = @ + principal,
                     !.outstanding = left, !.status = IF left <= 0 THEN "redeemed" ELSE "active",
                     !.redeemed = (@ \/ left <= 0)]]
  /\ taking' = [taking EXCEPT ![c] = NotTaking]

\* A repayment that fails frees the row and leaves nothing.
DropRepayment(c) ==
  /\ taking[c] # NotTaking
  /\ taking' = [taking EXCEPT ![c] = NotTaking]
  /\ UNCHANGED <<loan, receipts>>

GirviNext ==
  \/ sanctionLoan
  \/ \E c \in Cashiers, l \in Loans : BeginRepayment(c, l)
  \/ \E c \in Cashiers :
       \/ recordRepayment(c)
       \/ DropRepayment(c)

-------------------------------------------------------------------------------
\* The shop lends no more than the collateral allows; the loan owes its principal less what
\* its receipts put to principal, through repayments of several cashiers and of a loan that
\* is already closed; "interest is cleared before principal", also what a penalty put off,
\* and none is taken twice; "the balance after the payment is stored so a receipt reprints
\* exactly" (routes.commercial.ts:292), and a loan once redeemed does not come back.
LoansTell ==
  \A l \in Loans :
    LET rows == DOMAIN receipts[l]
        principal(n) == SumFunctionOnSet([k \in rows |-> receipts[l][k].principal], 1..n)
        interest(n) == SumFunctionOnSet([k \in rows |-> receipts[l][k].interest], 1..n)
        all == Len(receipts[l])
    IN
    /\ loan[l].principal <= loan[l].eligible
    /\ loan[l].outstanding = loan[l].principal - principal(all) /\ loan[l].principalRepaid = principal(all)
    /\ loan[l].interestPaid = interest(all) /\ interest(all) <= loan[l].accrued
    /\ \A n \in rows :
         /\ receipts[l][n].after = loan[l].principal - principal(n)
         /\ receipts[l][n].principal > 0 => interest(n) = loan[l].accrued
    /\ loan[l].redeemed <=> loan[l].status = "redeemed"
===============================================================================

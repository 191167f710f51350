--------------------------------- MODULE Sales ---------------------------------
(***************************************************************************)
(* modules/sales/sales.service.ts: bills, returns, receipts and approval   *)
(* memos at the counter, with what they do to the pieces, to what a        *)
(* customer owes (account 1100) and to the credit a customer holds (2400). *)
(*                                                                         *)
(* Every request runs in one READ COMMITTED transaction of a session.      *)
(* Locks are kept to the end, so what a request reads and writes under its *)
(* locks happens at one point.  A request whose outcome rests on something *)
(* it read WITHOUT a lock takes two or three steps, and other sessions may *)
(* commit in between: the memo a piece is out on (read by the statement    *)
(* that goes on to wait for the piece), the customer's credit, the cash    *)
(* taken today, and whether a memo has other lines out.                    *)
(*                                                                         *)
(* One shop on one business day.  Money is in small whole numbers and a    *)
(* piece has one price: rates, GST, discounts and rounding are the pricing *)
(* engine's.  Bills, receipts and memos are numbered in order of saving.   *)
(***************************************************************************)
EXTENDS Integers, FiniteSets, Functions

CONSTANTS
  Sessions,     \* requests served at once
  Pieces,       \* tagged pieces
  Price,        \* what each sells for
  Customers,    \* named customers
  WalkIn,       \* the walk-in customer
  Amounts,      \* what can be paid or deducted at once
  GoldValues,   \* what old gold handed over with a bill is worth; 0 is none
  Limit,        \* the rupees two lakh of s.269ST, and of PAN
  MaxBills, MaxReceipts, MaxMemos,   \* bounds: documents raised
  None

ASSUME PriceAssumption    == IsFiniteSet(Pieces) /\ Price \in [Pieces -> Nat \ {0}]
ASSUME CustomerAssumption == WalkIn \notin Customers
ASSUME MoneyAssumption    == Amounts \subseteq Nat /\ GoldValues \subseteq Nat /\ Limit \in Nat \ {0}
ASSUME BoundAssumption    == MaxBills \in Nat /\ MaxReceipts \in Nat /\ MaxMemos \in Nat
ASSUME NoneAssumption     == None \notin Customers \cup {WalkIn} \cup Nat

VARIABLES
  piece,      \* stock_piece.status
  bill,       \* sales_invoice with its lines, tenders and returns
  receipt,    \* customer_receipt
  memo,       \* approval_memo with its lines
  owed,       \* ledger balance of 1100 per customer
  credit,     \* ledger balance of 2400 per customer
  work        \* the request each session is serving

vars == <<piece, bill, receipt, memo, owed, credit, work>>

Buyers   == Customers \cup {WalkIn}
Bills    == 1..MaxBills
Receipts == 1..MaxReceipts
Memos    == 1..MaxMemos

Worth(set) == SumFunctionOnSet(Price, set)

\* back: pieces that came back; given: what the returns took back, in all;
\* charged: what was left on account when the bill was saved.
BillRows == [status : {"none", "posted", "cancelled"}, customer : Buyers, pieces : SUBSET Pieces,
             back : SUBSET Pieces, total : Nat, cash : Nat, credit : Nat, gold : Nat, applied : Nat,
             charged : Nat, balance : Nat, given : Nat]

ReceiptRows == [status : {"none", "posted", "cancelled"}, customer : Buyers, cash : BOOLEAN,
                amount : Nat, to : [Bills -> Nat], advance : Nat]

\* A line is returned (back), on a bill (billed) or neither; the race of two
\* sessions can make it both.
MemoRows == [status : {"none", "open", "closed"}, customer : Buyers, pieces : SUBSET Pieces,
             back : SUBSET Pieces, billed : [Pieces -> Bills \cup {None}]]

Requests == [pc : {"idle", "lines", "ready"}, kind : {"checkout", "receipt", "cancelReceipt", "bringBack"},
             customer : Buyers, doc : Nat, pieces : SUBSET Pieces,
             memoOf : [Pieces -> Memos \cup {None}], closes : SUBSET Memos,
             cash : Nat, bank : Nat, credit : Nat, gold : Nat]

NoBill == [status |-> "none", customer |-> WalkIn, pieces |-> {}, back |-> {}, total |-> 0, cash |-> 0,
           credit |-> 0, gold |-> 0, applied |-> 0, charged |-> 0, balance |-> 0, given |-> 0]

NoReceipt == [status |-> "none", customer |-> WalkIn, cash |-> FALSE, amount |-> 0,
              to |-> [i \in Bills |-> 0], advance |-> 0]

NoMemo == [status |-> "none", customer |-> WalkIn, pieces |-> {}, back |-> {},
           billed |-> [p \in Pieces |-> None]]

Idle == [pc |-> "idle", kind |-> "checkout", customer |-> WalkIn, doc |-> 0, pieces |-> {},
         memoOf |-> [p \in Pieces |-> None], closes |-> {}, cash |-> 0, bank |-> 0, credit |-> 0, gold |-> 0]

TypeOK ==
  /\ piece \in [Pieces -> {"in_stock", "on_memo", "sold"}]
  /\ bill \in [Bills -> BillRows]
  /\ receipt \in [Receipts -> ReceiptRows]
  /\ memo \in [Memos -> MemoRows]
  /\ owed \in [Buyers -> Int] /\ credit \in [Buyers -> Int]
  /\ work \in [Sessions -> Requests]

Init ==
  /\ piece = [p \in Pieces |-> "in_stock"]
  /\ bill = [i \in Bills |-> NoBill]
  /\ receipt = [r \in Receipts |-> NoReceipt]
  /\ memo = [m \in Memos |-> NoMemo]
  /\ owed = [c \in Buyers |-> 0] /\ credit = [c \in Buyers |-> 0]
  /\ work = [s \in Sessions |-> Idle]

-------------------------------------------------------------------------------
\* What the documents say, as committed.

Unused(doc, ids) == {i \in ids : doc[i].status = "none" /\ \A j \in ids : j < i => doc[j].status # "none"}

Posted(c) == {i \in Bills : bill[i].status = "posted" /\ bill[i].customer = c}

Paying(c) == {r \in Receipts : receipt[r].status = "posted" /\ receipt[r].customer = c}

\* Bills that still have a piece: it has not come back.
Having(p) == {i \in Bills : bill[i].status = "posted" /\ p \in bill[i].pieces \ bill[i].back}

\* Memo lines still out.
Out(m) == {p \in memo[m].pieces \ memo[m].back : memo[m].billed[p] = None}

cashTakenToday(c) ==
  SumFunctionOnSet([i \in Bills |-> bill[i].cash], Posted(c))
  + SumFunctionOnSet([r \in Receipts |-> receipt[r].amount], {r \in Paying(c) : receipt[r].cash})

\* What is left to pay on these bills.
unpaid(set) == SumFunctionOnSet([i \in Bills |-> bill[i].balance], set)

\* Locks that outlive a step.
HoldsPiece(s, p) == work[s].pc = "ready" /\ p \in work[s].pieces

HoldsMemo(s, m) ==
  work[s].pc = "ready" /\ (m \in work[s].closes \/ (work[s].kind = "bringBack" /\ work[s].doc = m))

Free(set) == \A s \in Sessions, p \in set : ~HoldsPiece(s, p)

FreeMemos(set) == \A s \in Sessions, m \in set : ~HoldsMemo(s, m)

Done(s) == work' = [work EXCEPT ![s] = Idle]

-------------------------------------------------------------------------------
\* Checkout.

\* Wrong variants (X_... of X) show that a property would notice.  A memo line
\* that counts whoever the memo is for:
MemoFor_Anyone(p, c) == {m \in Memos : memo[m].status = "open" /\ p \in Out(m)}

\* The open memo on which c has the piece.
MemoFor(p, c) == {m \in Memos : memo[m].status = "open" /\ memo[m].customer = c /\ p \in Out(m)}

\* resolveLines' statement starts: it sees the memo lines as they are now, and then
\* waits for the pieces.
ResolveLines(s) ==
  \E c \in Buyers, set \in (SUBSET Pieces) \ {{}} :
  \E of \in [Pieces -> Memos \cup {None}] :
    /\ work[s].pc = "idle"
    /\ \A p \in Pieces :
         IF p \in set /\ MemoFor(p, c) # {} THEN of[p] \in MemoFor(p, c) ELSE of[p] = None
    /\ work' = [work EXCEPT ![s] = [Idle EXCEPT !.pc = "lines", !.customer = c, !.pieces = set, !.memoOf = of]]
    /\ UNCHANGED <<piece, bill, receipt, memo, owed, credit>>

\* In stock, or on memo for this customer by the memo line read earlier.
Sellable(p, m) == piece[p] = "in_stock" \/ (piece[p] = "on_memo" /\ m # None)

\* Each bill or receipt on its own.
cashAllowed_PerDocument(c, cash) == cash > 0 => cash < Limit

\* checkCashLimit
cashAllowed(c, cash) ==
  cash > 0 => cash < Limit /\ (c # WalkIn => cashTakenToday(c) + cash < Limit)

\* Old gold is used up to what the other tenders leave to pay.
appliedGold(left, gold) == IF gold < left THEN gold ELSE left

\* Memos on which nothing is out but the lines in set (closeMemoIfDone).
closedBy(lines) == {m \in Memos : lines[m] # {} /\ Out(m) \subseteq lines[m]}

\* The pieces are locked and checked, the tenders are checked against the credit and
\* the cash read now, and the memo lines are settled.  Nothing shows before Save.
TakePayment(s) ==
  \E cash, bank, spent \in Amounts, gold \in GoldValues :
    LET c == work[s].customer
        set == work[s].pieces
        of == [p \in Pieces |-> IF piece[p] = "on_memo" THEN work[s].memoOf[p] ELSE None]
        left == Worth(set) - (cash + bank + spent)
        closes == closedBy([m \in Memos |-> {p \in set : of[p] = m}])
    IN
    /\ work[s].pc = "lines"
    /\ Free(set) /\ FreeMemos(closes)
    /\ \A p \in set : Sellable(p, work[s].memoOf[p])
    /\ left >= 0
    /\ spent <= credit[c] \/ spent = 0
    /\ cashAllowed(c, cash)
    /\ c = WalkIn => Worth(set) < Limit /\ spent = 0 /\ gold = left
    /\ work' = [work EXCEPT ![s] =
         [work[s] EXCEPT !.pc = "ready", !.memoOf = of, !.closes = closes,
                   !.cash = cash, !.bank = bank, !.credit = spent, !.gold = gold]]
    /\ UNCHANGED <<piece, bill, receipt, memo, owed, credit>>

\* Memos closed, unless another session did meanwhile.
Close(m, s) == IF m \in work[s].closes THEN "closed" ELSE memo[m].status

\* Checkout commits.  Old gold's intake is credited, what is used of it debited.
SaveBill(s) ==
  LET w == work[s]
      total == Worth(w.pieces)
      applied == appliedGold(total - (w.cash + w.bank + w.credit), w.gold)
      balance == total - (w.cash + w.bank + w.credit + applied)
  IN
  /\ w.pc = "ready" /\ w.kind = "checkout"
  /\ \E i \in Unused(bill, Bills) :
       /\ bill' = [bill EXCEPT ![i] =
            [status |-> "posted", customer |-> w.customer, pieces |-> w.pieces, back |-> {},
             total |-> total, cash |-> w.cash, credit |-> w.credit, gold |-> w.gold,
             applied |-> applied, charged |-> balance, balance |-> balance, given |-> 0]]
       /\ memo' = [m \in Memos |-> [memo[m] EXCEPT
            !.status = Close(m, s),
            !.billed = [p \in Pieces |-> IF w.memoOf[p] = m THEN i ELSE memo[m].billed[p]]]]
  /\ piece' = [p \in Pieces |-> IF p \in w.pieces THEN "sold" ELSE piece[p]]
  /\ owed' = [owed EXCEPT ![w.customer] = @ + balance]
  /\ credit' = [credit EXCEPT ![w.customer] = @ + w.gold - applied - w.credit]
  /\ Done(s)
  /\ UNCHANGED receipt

-------------------------------------------------------------------------------
\* Undoing a bill.

Receipted_Never(i) == {}

Receipted(i) == {r \in Receipts : receipt[r].status = "posted" /\ receipt[r].to[i] > 0}

\* The memos it took lines from; those it closed open again.
Reopened(i) == {m \in Memos : \E p \in Pieces : memo[m].billed[p] = i}

putBack_Shelf(i, p) == "in_stock"

\* Onto the shelf, or back on the memo it came off.
putBack(i, p) == IF \E m \in Memos : memo[m].billed[p] = i THEN "on_memo" ELSE "in_stock"

\* Not once goods came back or a receipt paid it.  Goods, books and old gold reverse,
\* the gold whatever became of its credit.
cancelInvoice(s, i) ==
  LET c == bill[i].customer IN
  /\ work[s].pc = "idle"
  /\ bill[i].status = "posted" /\ bill[i].back = {}
  /\ Receipted(i) = {}
  /\ bill' = [bill EXCEPT ![i] = [bill[i] EXCEPT !.status = "cancelled"]]
  /\ owed' = [owed EXCEPT ![c] = @ - bill[i].charged]
  /\ credit' = [credit EXCEPT ![c] = @ + bill[i].credit + bill[i].applied - bill[i].gold]
  /\ piece' = [p \in Pieces |-> IF p \in bill[i].pieces THEN putBack(i, p) ELSE piece[p]]
  /\ memo' = [m \in Memos |-> [memo[m] EXCEPT
       !.status = IF m \in Reopened(i) THEN "open" ELSE @,
       !.billed = [p \in Pieces |-> IF @[p] = i THEN None ELSE @[p]]]]
  /\ UNCHANGED <<receipt, work>>

\* What comes back for the pieces in set, those in twice listed two times.  The
\* return that completes the bill takes back what is left of its total.
returnValue(i, set, twice) ==
  IF bill[i].pieces = bill[i].back \cup set THEN bill[i].total - bill[i].given
                                            ELSE Worth(set) + Worth(twice)

\* The due is cleared against the bill in full, whatever is still owed on it.
adjustedBy_All(i, due) == due

\* What is still owed on the bill is cleared first.
adjustedBy(i, due) == IF bill[i].balance < due THEN bill[i].balance ELSE due

\* The rest is refunded, or kept as a credit note (never by a walk-in).
createSalesReturn(s, i) ==
  \E set \in (SUBSET bill[i].pieces) \ {{}}, deduction \in Amounts, note \in BOOLEAN :
  \E twice \in SUBSET set :
    LET c == bill[i].customer
        value == returnValue(i, set, twice)
        adjusted == adjustedBy(i, value - deduction)
    IN
    /\ work[s].pc = "idle"
    /\ bill[i].status = "posted"
    /\ set \cap bill[i].back = {}
    /\ deduction <= value
    /\ note => c # WalkIn
    /\ bill' = [bill EXCEPT ![i] =
         [bill[i] EXCEPT !.back = @ \cup set, !.given = @ + value, !.balance = @ - adjusted]]
    /\ owed' = [owed EXCEPT ![c] = @ - adjusted]
    /\ credit' = [credit EXCEPT ![c] = @ + (IF note THEN value - deduction - adjusted ELSE 0)]
    /\ piece' = [p \in Pieces |-> IF p \in set THEN "in_stock" ELSE piece[p]]
    /\ UNCHANGED <<receipt, memo, work>>

-------------------------------------------------------------------------------
\* Receipts.

\* The cash limit is looked at before the customer's bills are locked.
BeginReceipt(s) ==
  \E c \in Customers, amount \in Amounts \ {0}, cash \in BOOLEAN :
    /\ work[s].pc = "idle"
    /\ cash => cashAllowed(c, amount)
    /\ work' = [work EXCEPT ![s] =
         [Idle EXCEPT !.pc = "ready", !.kind = "receipt", !.customer = c,
                      !.cash = IF cash THEN amount ELSE 0, !.bank = IF cash THEN 0 ELSE amount]]
    /\ UNCHANGED <<piece, bill, receipt, memo, owed, credit>>

\* How much of an amount reaches bill i: the customer's open bills, oldest first.
allocation(c, amount, i) ==
  LET left == amount - unpaid({j \in Posted(c) : j < i})
  IN IF i \notin Posted(c) \/ left <= 0 THEN 0
     ELSE IF bill[i].balance < left THEN bill[i].balance ELSE left

\* What no bill takes is the customer's advance.
SaveReceipt(s) ==
  LET w == work[s]
      amount == w.cash + w.bank
      to == [i \in Bills |-> allocation(w.customer, amount, i)]
      cleared == SumFunction(to)
  IN
  /\ w.pc = "ready" /\ w.kind = "receipt"
  /\ \E r \in Unused(receipt, Receipts) :
       receipt' = [receipt EXCEPT ![r] =
         [status |-> "posted", customer |-> w.customer, cash |-> w.cash > 0, amount |-> amount,
          to |-> to, advance |-> amount - cleared]]
  /\ bill' = [i \in Bills |-> [bill[i] EXCEPT !.balance = @ - to[i]]]
  /\ owed' = [owed EXCEPT ![w.customer] = @ - cleared]
  /\ credit' = [credit EXCEPT ![w.customer] = @ + amount - cleared]
  /\ Done(s)
  /\ UNCHANGED <<piece, memo>>

advanceLeft_Assumed(r) == TRUE

\* The customer still has the advance it brought.
advanceLeft(r) == receipt[r].advance > 0 => receipt[r].advance <= credit[receipt[r].customer]

\* The receipt is locked, the advance looked at.
BeginCancelReceipt(s, r) ==
  /\ work[s].pc = "idle"
  /\ receipt[r].status = "posted"
  /\ \A t \in Sessions : ~(work[t].kind = "cancelReceipt" /\ work[t].doc = r)
  /\ advanceLeft(r)
  /\ work' = [work EXCEPT ![s] = [Idle EXCEPT !.pc = "ready", !.kind = "cancelReceipt", !.doc = r]]
  /\ UNCHANGED <<piece, bill, receipt, memo, owed, credit>>

\* What it cleared is owed again, on whatever became of those bills.
SaveCancelReceipt(s) ==
  LET r == work[s].doc
      was == receipt[r]
  IN
  /\ work[s].pc = "ready" /\ work[s].kind = "cancelReceipt"
  /\ receipt' = [receipt EXCEPT ![r] = [receipt[r] EXCEPT !.status = "cancelled"]]
  /\ bill' = [i \in Bills |-> [bill[i] EXCEPT !.balance = @ + was.to[i]]]
  /\ owed' = [owed EXCEPT ![was.customer] = @ + was.amount - was.advance]
  /\ credit' = [credit EXCEPT ![was.customer] = @ - was.advance]
  /\ Done(s)
  /\ UNCHANGED <<piece, memo>>

-------------------------------------------------------------------------------
\* Approval memos.

createMemo(s) ==
  \E c \in Customers, set \in (SUBSET Pieces) \ {{}} :
    /\ work[s].pc = "idle"
    /\ Free(set)
    /\ \A p \in set : piece[p] = "in_stock"
    /\ \E m \in Unused(memo, Memos) :
         memo' = [memo EXCEPT ![m] = [NoMemo EXCEPT !.status = "open", !.customer = c, !.pieces = set]]
    /\ piece' = [p \in Pieces |-> IF p \in set THEN "on_memo" ELSE piece[p]]
    /\ UNCHANGED <<bill, receipt, owed, credit, work>>

\* The memo, its lines and the pieces are locked, and whether anything else is out
\* is looked at.
BeginBringBack(s, m) ==
  \E set \in (SUBSET Out(m)) \ {{}} :
    /\ work[s].pc = "idle"
    /\ FreeMemos({m}) /\ memo[m].status = "open"
    /\ Free(set)
    /\ work' = [work EXCEPT ![s] =
         [Idle EXCEPT !.pc = "ready", !.kind = "bringBack", !.doc = m, !.pieces = set,
                      !.closes = IF Out(m) = set THEN {m} ELSE {}]]
    /\ UNCHANGED <<piece, bill, receipt, memo, owed, credit>>

SaveBringBack(s) ==
  LET m == work[s].doc IN
  /\ work[s].pc = "ready" /\ work[s].kind = "bringBack"
  /\ memo' = [memo EXCEPT ![m] = [memo[m] EXCEPT !.back = @ \cup work[s].pieces, !.status = Close(m, s)]]
  /\ piece' = [p \in Pieces |-> IF p \in work[s].pieces THEN "in_stock" ELSE piece[p]]
  /\ Done(s)
  /\ UNCHANGED <<bill, receipt, owed, credit>>

\* A refusal, a failure, or a deadlock the database breaks: nothing was committed.
Rollback(s) ==
  /\ work[s].pc # "idle"
  /\ Done(s)
  /\ UNCHANGED <<piece, bill, receipt, memo, owed, credit>>

Next ==
  \E s \in Sessions :
    \/ ResolveLines(s) \/ TakePayment(s) \/ SaveBill(s)
    \/ \E i \in Bills : cancelInvoice(s, i) \/ createSalesReturn(s, i)
    \/ BeginReceipt(s) \/ SaveReceipt(s)
    \/ \E r \in Receipts : BeginCancelReceipt(s, r)
    \/ SaveCancelReceipt(s)
    \/ createMemo(s)
    \/ \E m \in Memos : BeginBringBack(s, m)
    \/ SaveBringBack(s)
    \/ Rollback(s)

Spec == Init /\ [][Next]_vars

-------------------------------------------------------------------------------
\* "They stay ours until billed or brought back" (sales.schema.ts:169): a piece is
\* sold exactly when one posted bill has it and on memo exactly when one line is out
\* for it, and never on two of either, through sales, returns, cancellations and memos.
PieceAccounted ==
  \A p \in Pieces :
    LET lines == {m \in Memos : p \in Out(m)} IN
    /\ Cardinality(Having(p)) = (IF piece[p] = "sold" THEN 1 ELSE 0)
    /\ Cardinality(lines) = (IF piece[p] = "on_memo" THEN 1 ELSE 0)

\* A memo is open exactly while something is out on it, also after a bill that closed
\* it is cancelled (lines 509-516 and 772-777).
MemoAccounted == \A m \in Memos : memo[m].status = "open" <=> Out(m) # {}

\* What the books say a customer owes is what the customer's bills say is unpaid,
\* whatever receipts, returns and cancellations did to either (lines 443-463, 588,
\* 615-618, 677-724).
OwedAgrees == \A c \in Buyers : owed[c] = unpaid(Posted(c))

\* Credit is never spent twice: it goes below zero by no more than the old gold given
\* back on cancelled bills that had left a credit (lines 350-357 and 709-716).
CreditCovered ==
  \A c \in Buyers :
    credit[c] + SumFunctionOnSet([i \in Bills |-> bill[i].gold - bill[i].applied],
                                 {i \in Bills : bill[i].status = "cancelled" /\ bill[i].customer = c}) >= 0

\* "Section 269ST forbids two lakh or more in cash from one person in a day, however
\* it is split" (lines 70-73), over bills and receipts.
CashWithinLimit == \A c \in Customers : cashTakenToday(c) < Limit

\* "The value comes back in proportion" (lines 534-538): all the returns of a bill
\* together give back no more than the bill's total.
RefundWithinBill == \A i \in Bills : bill[i].given <= bill[i].total

\* "Only that customer can be billed them" (tests/trade.test.ts:264): no customer
\* holds a bill for a piece that is out on another one's memo.
BilledToHolder ==
  \A p \in Pieces, m \in Memos :
    p \in Out(m) => \A i \in Having(p) : bill[i].customer = memo[m].customer

\* The custody the documents, not the pieces' own status, describe.
CameFrom(p, i) == IF \E m \in Memos : memo[m].billed[p] = i THEN "approval" ELSE "shop"

DocumentedPlace ==
  [p \in Pieces |->
     IF Having(p) # {}
       THEN LET i == CHOOSE j \in Having(p) : TRUE
            IN [at |-> "sold", with |-> bill[i].customer, from |-> CameFrom(p, i)]
     ELSE IF \E m \in Memos : p \in Out(m)
       THEN LET n == CHOOSE m \in Memos : p \in Out(m)
            IN [at |-> "approval", with |-> memo[n].customer, from |-> "shop"]
     ELSE [at |-> "shop", with |-> None, from |-> "shop"]]

Custody == INSTANCE PieceCustody WITH Nobody <- None, place <- DocumentedPlace

\* Pieces off a memo "go back to it" (line 509): going by its documents a piece only ever moves
\* as PieceCustody allows, it is billed only to the customer who has it on approval,
\* and undoing a sale puts it back where the sale took it from.
CustodySpec == Custody!Spec
===============================================================================

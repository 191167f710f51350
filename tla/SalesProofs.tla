------------------------------- MODULE SalesProofs -------------------------------
(***************************************************************************)
(* What sales keep to, for any number of tills, pieces, customers and      *)
(* documents: the books agree with the documents; with one till, credit    *)
(* and cash stay within their limits; and pieces change hands as           *)
(* PieceCustody says.                                                      *)
(***************************************************************************)
EXTENDS Sales, SumTheorems

\* What each bill, receipt and request adds to a sum, so that a sum is always over all of them.
Share(row, c) == IF row.status = "posted" /\ row.customer = c THEN row.balance ELSE 0

Owing(rows, c) == [i \in Bills |-> Share(rows[i], c)]

PaidOn(row, i) == IF row.status = "posted" THEN row.to[i] ELSE 0

Cleared(rows, i) == [r \in Receipts |-> PaidOn(rows[r], i)]

\* What a request under way holds.
WorkTold(w) ==
  /\ w.pc = "idle" => w = Idle
  /\ w.pc = "lines" => w.kind = "checkout" /\ w.pieces # {}
  /\ w.pc = "ready" /\ w.kind = "checkout" => w.cash + w.bank + w.credit <= Worth(w.pieces)
  /\ w.kind = "receipt" => w.customer \in Customers
  /\ w.kind = "cancelReceipt" => w.pc = "ready" /\ w.doc \in Receipts
  /\ w.kind = "bringBack" => w.pc = "ready" /\ w.doc \in Memos

\* A receipt is cancelled by one request at a time, and stands till then.
Cancelling(requests, receipts, s) ==
  requests[s].kind = "cancelReceipt" =>
    /\ receipts[requests[s].doc].status = "posted"
    /\ \A t \in Sessions : requests[t].kind = "cancelReceipt" /\ requests[t].doc = requests[s].doc => t = s

\* A receipt paid bills of its customer that stand, and the rest of it is the advance.
ReceiptTold(row, bills) ==
  /\ row.amount = row.advance + SumFunction(row.to)
  /\ row.status = "posted" => \A i \in Bills : row.to[i] > 0 => bills[i].status = "posted" /\ bills[i].customer = row.customer

\* A bill nothing came back from is short of what was charged by what receipts cleared.
ChargedTold(bills, receipts) ==
  \A i \in Bills : bills[i].status = "posted" /\ bills[i].back = {} =>
    bills[i].charged = bills[i].balance + SumFunction(Cleared(receipts, i))

BooksInv ==
  /\ TypeOK
  /\ \A s \in Sessions : WorkTold(work[s])
  /\ \A s \in Sessions : Cancelling(work, receipt, s)
  /\ \A r \in Receipts : ReceiptTold(receipt[r], bill)
  /\ ChargedTold(bill, receipt)
  /\ \A i \in Bills : bill[i].applied <= bill[i].gold
  /\ \A c \in Buyers : owed[c] = SumFunction(Owing(bill, c))

LEMMA SalesFinite ==
  /\ IsFiniteSet(Bills) /\ IsFiniteSet(Receipts)
  /\ \A set \in SUBSET Pieces : Worth(set) \in Nat
  /\ Customers \subseteq Buyers /\ WalkIn \in Buyers /\ None \notin Buyers /\ None \notin Bills /\ None \notin Memos
  /\ Bills \subseteq Nat /\ Receipts \subseteq Nat /\ Memos \subseteq Nat
<1>1. 1 \in Int /\ MaxBills \in Int /\ MaxReceipts \in Int
  BY BoundAssumption
<1>2. IsFiniteSet(Bills) /\ IsFiniteSet(Receipts)
  BY <1>1, FS_Interval, Zenon DEF Bills, Receipts
<1>3. ASSUME NEW set \in SUBSET Pieces PROVE Worth(set) \in Nat
  <2>1. IsFiniteSet(set)
    BY PriceAssumption, FS_Subset
  <2>2. \A p \in set : Price[p] \in Nat
    BY PriceAssumption
  <2> QED
    BY <2>1, <2>2, SumNat DEF Worth
<1>4. Bills \subseteq Nat /\ Receipts \subseteq Nat /\ Memos \subseteq Nat
  BY BoundAssumption DEF Bills, Receipts, Memos
<1>5. None \notin Buyers /\ None \notin Nat /\ Customers \subseteq Buyers /\ WalkIn \in Buyers
  BY NoneAssumption DEF Buyers
<1> QED
  BY <1>2, <1>3, <1>4, <1>5

\* What the rows are, field by field.
LEMMA TypeFacts ==
  ASSUME TypeOK
  PROVE  /\ bill \in [Bills -> BillRows] /\ receipt \in [Receipts -> ReceiptRows] /\ memo \in [Memos -> MemoRows]
         /\ owed \in [Buyers -> Int] /\ credit \in [Buyers -> Int] /\ work \in [Sessions -> Requests]
         /\ piece \in [Pieces -> {"in_stock", "on_memo", "sold"}]
  BY DEF TypeOK

LEMMA BillFields ==
  ASSUME NEW row \in BillRows
  PROVE  /\ row.customer \in Buyers /\ row.pieces \in SUBSET Pieces /\ row.back \in SUBSET Pieces
         /\ row.total \in Nat /\ row.cash \in Nat /\ row.credit \in Nat /\ row.gold \in Nat /\ row.applied \in Nat
         /\ row.charged \in Nat /\ row.balance \in Nat /\ row.given \in Nat
         /\ row.status \in {"none", "posted", "cancelled"}
  BY DEF BillRows

LEMMA ReceiptFields ==
  ASSUME NEW row \in ReceiptRows
  PROVE  /\ row.customer \in Buyers /\ row.cash \in BOOLEAN /\ row.amount \in Nat /\ row.advance \in Nat
         /\ row.to \in [Bills -> Nat] /\ row.status \in {"none", "posted", "cancelled"}
  BY DEF ReceiptRows

LEMMA RequestFields ==
  ASSUME NEW w \in Requests
  PROVE  /\ w.customer \in Buyers /\ w.doc \in Nat /\ w.pieces \in SUBSET Pieces
         /\ w.memoOf \in [Pieces -> Memos \cup {None}] /\ w.closes \in SUBSET Memos
         /\ w.cash \in Nat /\ w.bank \in Nat /\ w.credit \in Nat /\ w.gold \in Nat
         /\ w.pc \in {"idle", "lines", "ready"} /\ w.kind \in {"checkout", "receipt", "cancelReceipt", "bringBack"}
  BY DEF Requests

LEMMA IdleTold == Idle \in Requests /\ WorkTold(Idle) /\ Idle.kind = "checkout" /\ Idle.pc = "idle"
<1>1. WalkIn \in Buyers
  BY SalesFinite
<1> QED
  BY <1>1 DEF Idle, Requests, WorkTold

LEMMA BooksInitInv == Init => BooksInv
<1> SUFFICES ASSUME Init PROVE BooksInv
  OBVIOUS
<1> USE DEF Init
<1>1. NoBill \in BillRows /\ NoReceipt \in ReceiptRows /\ NoMemo \in MemoRows
  BY SalesFinite DEF NoBill, BillRows, NoReceipt, ReceiptRows, NoMemo, MemoRows
<1>2. TypeOK
  BY <1>1, IdleTold DEF TypeOK
<1>3. \A s \in Sessions : WorkTold(work[s]) /\ Cancelling(work, receipt, s)
  BY IdleTold DEF Cancelling
<1>4. \A r \in Receipts : ReceiptTold(receipt[r], bill)
  <2>1. SumFunction([i \in Bills |-> 0]) = 0
    BY SalesFinite, SumOfZeros DEF SumFunction
  <2> QED
    BY <2>1 DEF NoReceipt, ReceiptTold
<1>5. ChargedTold(bill, receipt) /\ \A i \in Bills : bill[i].applied <= bill[i].gold
  BY DEF NoBill, ChargedTold
<1>6. ASSUME NEW c \in Buyers PROVE owed[c] = SumFunction(Owing(bill, c))
  <2>1. \A i \in Bills : Owing(bill, c)[i] = 0
    BY DEF Owing, Share, NoBill
  <2>2. DOMAIN Owing(bill, c) = Bills
    BY DEF Owing
  <2> QED
    BY <2>1, <2>2, SalesFinite, SumOfZeros DEF SumFunction
<1> QED
  BY <1>2, <1>3, <1>4, <1>5, <1>6 DEF BooksInv

\* A request that goes on, or ends, without touching a bill, a receipt or what is owed.
LEMMA RequestStep ==
  ASSUME BooksInv, UNCHANGED <<bill, receipt, owed, credit>>,
         piece' \in [Pieces -> {"in_stock", "on_memo", "sold"}], memo' \in [Memos -> MemoRows],
         NEW s \in Sessions, NEW w \in Requests, work' = [work EXCEPT ![s] = w], WorkTold(w),
         w.kind = "cancelReceipt" =>
           /\ receipt[w.doc].status = "posted"
           /\ \A t \in Sessions : ~(work[t].kind = "cancelReceipt" /\ work[t].doc = w.doc)
  PROVE  BooksInv'
<1>1. work \in [Sessions -> Requests] /\ TypeOK'
  BY TypeFacts DEF BooksInv, TypeOK
<1>2. \A t \in Sessions : work'[t] = IF t = s THEN w ELSE work[t]
  BY <1>1
<1>3. \A t \in Sessions : WorkTold(work'[t])
  BY <1>2 DEF BooksInv
<1>4. \A t \in Sessions : Cancelling(work', receipt', t)
  BY <1>2 DEF BooksInv, Cancelling
<1> QED
  BY <1>1, <1>3, <1>4 DEF BooksInv

LEMMA ResolveLinesBooks == ASSUME BooksInv, NEW s \in Sessions, ResolveLines(s) PROVE BooksInv'
<1>1. PICK c \in Buyers, set \in (SUBSET Pieces) \ {{}}, of \in [Pieces -> Memos \cup {None}] :
         /\ work' = [work EXCEPT ![s] = [Idle EXCEPT !.pc = "lines", !.customer = c, !.pieces = set, !.memoOf = of]]
         /\ UNCHANGED <<piece, bill, receipt, memo, owed, credit>>
  BY DEF ResolveLines
<1> DEFINE w == [Idle EXCEPT !.pc = "lines", !.customer = c, !.pieces = set, !.memoOf = of]
<1>2. w \in Requests /\ WorkTold(w) /\ w.kind = "checkout"
  BY IdleTold DEF Idle, Requests, WorkTold
<1>3. work' = [work EXCEPT ![s] = w]
  BY <1>1
<1>4. piece' \in [Pieces -> {"in_stock", "on_memo", "sold"}] /\ memo' \in [Memos -> MemoRows]
  BY <1>1, TypeFacts DEF BooksInv
<1> HIDE DEF w
<1> QED
  BY <1>1, <1>2, <1>3, <1>4, RequestStep

LEMMA TakePaymentBooks == ASSUME BooksInv, NEW s \in Sessions, TakePayment(s) PROVE BooksInv'
<1>1. PICK cash \in Amounts, bank \in Amounts, spent \in Amounts, gold \in GoldValues, of \in [Pieces -> Memos \cup {None}], closes \in SUBSET Memos :
         /\ work[s].pc = "lines"
         /\ Worth(work[s].pieces) - (cash + bank + spent) >= 0
         /\ work' = [work EXCEPT ![s] =
              [work[s] EXCEPT !.pc = "ready", !.memoOf = of, !.closes = closes,
                              !.cash = cash, !.bank = bank, !.credit = spent, !.gold = gold]]
         /\ UNCHANGED <<piece, bill, receipt, memo, owed, credit>>
  <2>1. work[s] \in Requests
    BY TypeFacts DEF BooksInv
  <2>2. [p \in Pieces |-> IF piece[p] = "on_memo" THEN work[s].memoOf[p] ELSE None] \in [Pieces -> Memos \cup {None}]
    BY <2>1, RequestFields
  <2>3. \A lines : closedBy(lines) \in SUBSET Memos
    BY DEF closedBy
  <2> QED
    BY <2>2, <2>3, ZenonT(30) DEF TakePayment
<1> DEFINE w == [work[s] EXCEPT !.pc = "ready", !.memoOf = of, !.closes = closes,
                                !.cash = cash, !.bank = bank, !.credit = spent, !.gold = gold]
<1>2. work[s] \in Requests /\ work[s].kind = "checkout" /\ WorkTold(work[s])
  BY <1>1, TypeFacts DEF BooksInv, WorkTold
<1>3. Worth(work[s].pieces) \in Nat /\ cash \in Nat /\ bank \in Nat /\ spent \in Nat /\ gold \in Nat
  BY <1>2, RequestFields, SalesFinite, MoneyAssumption
<1>4. cash + bank + spent <= Worth(work[s].pieces)
  BY <1>1, <1>3
<1>5. w \in Requests /\ w.kind = "checkout" /\ w.pc = "ready" /\ w.pieces = work[s].pieces
      /\ w.cash = cash /\ w.bank = bank /\ w.credit = spent
  BY <1>2, <1>3 DEF Requests
<1>6. WorkTold(w)
  BY <1>4, <1>5 DEF WorkTold
<1>7. work' = [work EXCEPT ![s] = w]
  BY <1>1
<1>8. piece' \in [Pieces -> {"in_stock", "on_memo", "sold"}] /\ memo' \in [Memos -> MemoRows]
  BY <1>1, TypeFacts DEF BooksInv
<1> HIDE DEF w
<1> QED
  BY <1>1, <1>5, <1>6, <1>7, <1>8, RequestStep

LEMMA BeginReceiptBooks == ASSUME BooksInv, NEW s \in Sessions, BeginReceipt(s) PROVE BooksInv'
<1>1. PICK c \in Customers, amount \in Amounts \ {0}, cash \in BOOLEAN :
         /\ work' = [work EXCEPT ![s] =
              [Idle EXCEPT !.pc = "ready", !.kind = "receipt", !.customer = c,
                           !.cash = IF cash THEN amount ELSE 0, !.bank = IF cash THEN 0 ELSE amount]]
         /\ UNCHANGED <<piece, bill, receipt, memo, owed, credit>>
  BY DEF BeginReceipt
<1> DEFINE w == [Idle EXCEPT !.pc = "ready", !.kind = "receipt", !.customer = c,
                             !.cash = IF cash THEN amount ELSE 0, !.bank = IF cash THEN 0 ELSE amount]
<1>2. c \in Buyers /\ amount \in Nat
  BY SalesFinite, MoneyAssumption
<1>3. w \in Requests /\ w.kind = "receipt" /\ w.pc = "ready" /\ w.customer = c
  BY <1>2, IdleTold DEF Idle, Requests
<1>4. WorkTold(w)
  BY <1>3 DEF WorkTold
<1>5. work' = [work EXCEPT ![s] = w]
  BY <1>1
<1>6. piece' \in [Pieces -> {"in_stock", "on_memo", "sold"}] /\ memo' \in [Memos -> MemoRows]
  BY <1>1, TypeFacts DEF BooksInv
<1> HIDE DEF w
<1> QED
  BY <1>1, <1>3, <1>4, <1>5, <1>6, RequestStep

LEMMA BeginCancelReceiptBooks ==
  ASSUME BooksInv, NEW s \in Sessions, NEW r \in Receipts, BeginCancelReceipt(s, r) PROVE BooksInv'
<1> DEFINE w == [Idle EXCEPT !.pc = "ready", !.kind = "cancelReceipt", !.doc = r]
<1>1. /\ receipt[r].status = "posted" /\ \A t \in Sessions : ~(work[t].kind = "cancelReceipt" /\ work[t].doc = r)
      /\ work' = [work EXCEPT ![s] = w] /\ UNCHANGED <<piece, bill, receipt, memo, owed, credit>>
  BY DEF BeginCancelReceipt
<1>2. w \in Requests /\ w.kind = "cancelReceipt" /\ w.pc = "ready" /\ w.doc = r
  BY IdleTold, SalesFinite DEF Idle, Requests
<1>3. WorkTold(w)
  BY <1>2 DEF WorkTold
<1>4. piece' \in [Pieces -> {"in_stock", "on_memo", "sold"}] /\ memo' \in [Memos -> MemoRows]
  BY <1>1, TypeFacts DEF BooksInv
<1> HIDE DEF w
<1> QED
  BY <1>1, <1>2, <1>3, <1>4, RequestStep

LEMMA BeginBringBackBooks ==
  ASSUME BooksInv, NEW s \in Sessions, NEW m \in Memos, BeginBringBack(s, m) PROVE BooksInv'
<1>1. PICK set \in (SUBSET Out(m)) \ {{}} :
         /\ work' = [work EXCEPT ![s] =
              [Idle EXCEPT !.pc = "ready", !.kind = "bringBack", !.doc = m, !.pieces = set,
                           !.closes = IF Out(m) = set THEN {m} ELSE {}]]
         /\ UNCHANGED <<piece, bill, receipt, memo, owed, credit>>
  BY DEF BeginBringBack
<1> DEFINE w == [Idle EXCEPT !.pc = "ready", !.kind = "bringBack", !.doc = m, !.pieces = set,
                             !.closes = IF Out(m) = set THEN {m} ELSE {}]
<1>2. set \in SUBSET Pieces
  BY TypeFacts DEF BooksInv, Out, MemoRows
<1>3. w \in Requests /\ w.kind = "bringBack" /\ w.pc = "ready" /\ w.doc = m
  BY <1>2, IdleTold, SalesFinite DEF Idle, Requests
<1>4. WorkTold(w)
  BY <1>3 DEF WorkTold
<1>5. work' = [work EXCEPT ![s] = w]
  BY <1>1
<1>6. piece' \in [Pieces -> {"in_stock", "on_memo", "sold"}] /\ memo' \in [Memos -> MemoRows]
  BY <1>1, TypeFacts DEF BooksInv
<1> HIDE DEF w
<1> QED
  BY <1>1, <1>3, <1>4, <1>5, <1>6, RequestStep

LEMMA MemoFields ==
  ASSUME NEW row \in MemoRows
  PROVE  /\ row.customer \in Buyers /\ row.pieces \in SUBSET Pieces /\ row.back \in SUBSET Pieces
         /\ row.billed \in [Pieces -> Bills \cup {None}] /\ row.status \in {"none", "open", "closed"}
  BY DEF MemoRows

LEMMA SaveBringBackBooks == ASSUME BooksInv, NEW s \in Sessions, SaveBringBack(s) PROVE BooksInv'
<1> DEFINE m == work[s].doc
           row == [memo[m] EXCEPT !.back = memo[m].back \cup work[s].pieces, !.status = Close(m, s)]
<1>1. /\ memo' = [memo EXCEPT ![m] = row]
      /\ piece' = [p \in Pieces |-> IF p \in work[s].pieces THEN "in_stock" ELSE piece[p]]
      /\ work' = [work EXCEPT ![s] = Idle]
      /\ UNCHANGED <<bill, receipt, owed, credit>>
  BY DEF SaveBringBack, Done
<1>2. m \in Memos /\ work[s] \in Requests
  BY TypeFacts DEF BooksInv, WorkTold, SaveBringBack
<1>3. memo[m] \in MemoRows /\ Close(m, s) \in {"none", "open", "closed"} /\ work[s].pieces \in SUBSET Pieces
  BY <1>2, TypeFacts, MemoFields, RequestFields DEF BooksInv, Close
<1>4. row \in MemoRows
  BY <1>3 DEF MemoRows
<1> HIDE DEF row, m
<1>5. memo' \in [Memos -> MemoRows]
  BY <1>1, <1>4, TypeFacts DEF BooksInv
<1>6. piece' \in [Pieces -> {"in_stock", "on_memo", "sold"}]
  BY <1>1, TypeFacts DEF BooksInv
<1> QED
  BY <1>1, <1>5, <1>6, IdleTold, RequestStep

LEMMA RollbackBooks == ASSUME BooksInv, NEW s \in Sessions, Rollback(s) PROVE BooksInv'
<1>1. work' = [work EXCEPT ![s] = Idle] /\ UNCHANGED <<piece, bill, receipt, memo, owed, credit>>
  BY DEF Rollback, Done
<1>2. piece' \in [Pieces -> {"in_stock", "on_memo", "sold"}] /\ memo' \in [Memos -> MemoRows]
  BY <1>1, TypeFacts DEF BooksInv
<1> QED
  BY <1>1, <1>2, IdleTold, RequestStep

LEMMA createMemoBooks == ASSUME BooksInv, NEW s \in Sessions, createMemo(s) PROVE BooksInv'
<1>1. PICK c \in Customers, set \in (SUBSET Pieces) \ {{}} :
         /\ \E m \in Unused(memo, Memos) :
              memo' = [memo EXCEPT ![m] = [NoMemo EXCEPT !.status = "open", !.customer = c, !.pieces = set]]
         /\ piece' = [p \in Pieces |-> IF p \in set THEN "on_memo" ELSE piece[p]]
         /\ UNCHANGED <<bill, receipt, owed, credit, work>>
  BY DEF createMemo
<1> DEFINE row == [NoMemo EXCEPT !.status = "open", !.customer = c, !.pieces = set]
<1>2. PICK m \in Memos : memo' = [memo EXCEPT ![m] = row]
  BY <1>1 DEF Unused
<1>3. row \in MemoRows
  BY SalesFinite DEF NoMemo, MemoRows
<1> HIDE DEF row
<1>4. TypeOK'
  BY <1>1, <1>2, <1>3, TypeFacts DEF BooksInv, TypeOK
<1> QED
  BY <1>1, <1>4 DEF BooksInv

\* A request that ended, whatever it did to the documents.
LEMMA DoneTold ==
  ASSUME BooksInv, NEW s \in Sessions, work' = [work EXCEPT ![s] = Idle]
  PROVE  /\ work' \in [Sessions -> Requests]
         /\ \A t \in Sessions : WorkTold(work'[t]) /\ Cancelling(work', receipt, t)
<1>1. work \in [Sessions -> Requests] /\ \A t \in Sessions : work'[t] = IF t = s THEN Idle ELSE work[t]
  BY TypeFacts DEF BooksInv
<1> QED
  BY <1>1, IdleTold DEF BooksInv, Cancelling

LEMMA NothingCleared ==
  ASSUME NEW i \in Bills, NEW rows, \A r \in Receipts : rows[r].status = "posted" => rows[r].to[i] = 0
  PROVE  SumFunction(Cleared(rows, i)) = 0
<1>1. DOMAIN Cleared(rows, i) = Receipts /\ \A r \in Receipts : Cleared(rows, i)[r] = 0
  BY DEF Cleared, PaidOn
<1> QED
  BY <1>1, SalesFinite, SumOfZeros DEF SumFunction

\* A bill changed is a sum changed by as much.
LEMMA OwingChanges ==
  ASSUME NEW rows \in [Bills -> BillRows], NEW i \in Bills, NEW row \in BillRows, NEW rows1, rows1 = [rows EXCEPT ![i] = row],
         NEW c \in Buyers
  PROVE  /\ SumFunction(Owing(rows1, c)) = SumFunction(Owing(rows, c)) - Share(rows[i], c) + Share(row, c)
         /\ SumFunction(Owing(rows, c)) \in Int
<1> DEFINE f == Owing(rows, c)
           e == Owing(rows1, c)
<1>1. \A j \in Bills : rows[j].balance \in Nat
  BY BillFields
<1>2. row.balance \in Nat
  BY BillFields
<1>3. \A j \in Bills : rows1[j] = IF j = i THEN row ELSE rows[j]
  OBVIOUS
<1>4. \A j \in Bills : f[j] = Share(rows[j], c) /\ f[j] \in Int
  BY <1>1 DEF Owing, Share
<1>5. \A j \in Bills : e[j] = Share(rows1[j], c) /\ e[j] \in Int
  BY <1>1, <1>2, <1>3 DEF Owing, Share
<1>6. \A j \in Bills \ {i} : e[j] = f[j]
  BY <1>3, <1>4, <1>5
<1>7. DOMAIN f = Bills /\ DOMAIN e = Bills /\ rows1[i] = row
  BY DEF Owing
<1> HIDE DEF f, e
<1>8. IsFiniteSet(Bills) /\ \A j \in Bills : f[j] \in Int /\ e[j] \in Int
  BY <1>4, <1>5, SalesFinite
<1>9. SumFunctionOnSet(e, Bills) = SumFunctionOnSet(f, Bills) - f[i] + e[i] /\ SumFunctionOnSet(f, Bills) \in Int
  BY <1>6, <1>8, SumChanges, SumInt
<1>10. SumFunction(e) = SumFunction(f) - f[i] + e[i] /\ SumFunction(f) \in Int
  BY <1>7, <1>9 DEF SumFunction
<1>11. f[i] = Share(rows[i], c) /\ e[i] = Share(row, c)
  BY <1>4, <1>5, <1>7
<1> QED
  BY <1>10, <1>11, Zenon DEF f, e

\* One bill changes, and what its customer owes with it.
LEMMA BillStep ==
  ASSUME BooksInv, NEW i \in Bills, NEW row \in BillRows, bill' = [bill EXCEPT ![i] = row], receipt' = receipt,
         row.applied <= row.gold,
         row.status = "posted" /\ row.back = {} => row.charged = row.balance + SumFunction(Cleared(receipt, i)),
         \A r \in Receipts : receipt[r].status = "posted" /\ receipt[r].to[i] > 0 =>
           row.status = "posted" /\ row.customer = receipt[r].customer,
         \A c \in Buyers :
           owed'[c] = owed[c] - Share(bill[i], c) + Share(row, c),
         owed' \in [Buyers -> Int], credit' \in [Buyers -> Int],
         piece' \in [Pieces -> {"in_stock", "on_memo", "sold"}], memo' \in [Memos -> MemoRows],
         work' \in [Sessions -> Requests], \A t \in Sessions : WorkTold(work'[t]) /\ Cancelling(work', receipt, t)
  PROVE  BooksInv'
<1>1. bill \in [Bills -> BillRows] /\ receipt \in [Receipts -> ReceiptRows] /\ owed \in [Buyers -> Int]
  BY TypeFacts DEF BooksInv
<1>2. TypeOK'
  BY <1>1 DEF TypeOK
<1>3. \A j \in Bills : bill'[j] = IF j = i THEN row ELSE bill[j]
  BY <1>1
<1>4. \A r \in Receipts : ReceiptTold(receipt'[r], bill')
  BY <1>1, <1>3 DEF BooksInv, ReceiptTold
<1>5. ChargedTold(bill', receipt')
  BY <1>3 DEF BooksInv, ChargedTold
<1>6. \A j \in Bills : bill'[j].applied <= bill'[j].gold
  BY <1>3 DEF BooksInv
<1>7. ASSUME NEW c \in Buyers PROVE owed'[c] = SumFunction(Owing(bill', c))
  <2> DEFINE rows1 == bill'
  <2>1. rows1 = [bill EXCEPT ![i] = row]
    OBVIOUS
  <2> HIDE DEF rows1
  <2>2. SumFunction(Owing(rows1, c)) = SumFunction(Owing(bill, c)) - Share(bill[i], c) + Share(row, c)
    BY <1>1, <2>1, OwingChanges, Zenon
  <2>3. owed[c] = SumFunction(Owing(bill, c))
    BY DEF BooksInv
  <2>4. owed'[c] = SumFunction(Owing(rows1, c))
    BY <2>2, <2>3
  <2> QED
    BY <2>4 DEF rows1
<1> QED
  BY <1>2, <1>4, <1>5, <1>6, <1>7 DEF BooksInv

\* The bill a checkout saves.
AppliedNow(w) == appliedGold(Worth(w.pieces) - (w.cash + w.bank + w.credit), w.gold)

BalanceNow(w) == Worth(w.pieces) - (w.cash + w.bank + w.credit + AppliedNow(w))

RowNow(w) ==
  [status |-> "posted", customer |-> w.customer, pieces |-> w.pieces, back |-> {}, total |-> Worth(w.pieces),
   cash |-> w.cash, credit |-> w.credit, gold |-> w.gold, applied |-> AppliedNow(w),
   charged |-> BalanceNow(w), balance |-> BalanceNow(w), given |-> 0]

LEMMA RowSaved ==
  ASSUME NEW w \in Requests, w.cash + w.bank + w.credit <= Worth(w.pieces)
  PROVE  /\ RowNow(w) \in BillRows /\ AppliedNow(w) \in Nat /\ AppliedNow(w) <= w.gold /\ BalanceNow(w) \in Nat
         /\ RowNow(w).status = "posted" /\ RowNow(w).customer = w.customer /\ RowNow(w).back = {}
         /\ RowNow(w).pieces = w.pieces /\ RowNow(w).cash = w.cash /\ RowNow(w).credit = w.credit
         /\ RowNow(w).gold = w.gold /\ RowNow(w).applied = AppliedNow(w)
         /\ RowNow(w).charged = BalanceNow(w) /\ RowNow(w).balance = BalanceNow(w)
<1>1. /\ Worth(w.pieces) \in Nat /\ w.cash \in Nat /\ w.bank \in Nat /\ w.credit \in Nat /\ w.gold \in Nat
      /\ w.customer \in Buyers /\ w.pieces \in SUBSET Pieces
  BY RequestFields, SalesFinite
<1> DEFINE total == Worth(w.pieces)
           left == total - (w.cash + w.bank + w.credit)
<1>2. left \in Nat
  BY <1>1
<1>3. AppliedNow(w) \in Nat /\ AppliedNow(w) <= w.gold /\ AppliedNow(w) <= left
  BY <1>1, <1>2 DEF AppliedNow, appliedGold
<1>4. BalanceNow(w) \in Nat
  BY <1>1, <1>3 DEF BalanceNow
<1>5. RowNow(w) \in BillRows
  BY <1>1, <1>3, <1>4 DEF RowNow, BillRows
<1> QED
  BY <1>3, <1>4, <1>5 DEF RowNow

LEMMA SaveBillSteps ==
  ASSUME BooksInv, NEW s \in Sessions, SaveBill(s)
  PROVE  /\ work[s] \in Requests /\ work[s].cash + work[s].bank + work[s].credit <= Worth(work[s].pieces)
         /\ \E i \in Bills :
              /\ bill[i].status = "none" /\ bill' = [bill EXCEPT ![i] = RowNow(work[s])]
              /\ memo' = [m \in Memos |-> [memo[m] EXCEPT
                   !.status = Close(m, s),
                   !.billed = [p \in Pieces |-> IF work[s].memoOf[p] = m THEN i ELSE memo[m].billed[p]]]]
         /\ piece' = [p \in Pieces |-> IF p \in work[s].pieces THEN "sold" ELSE piece[p]]
         /\ owed' = [owed EXCEPT ![work[s].customer] = owed[work[s].customer] + BalanceNow(work[s])]
         /\ credit' = [credit EXCEPT ![work[s].customer] =
                         credit[work[s].customer] + work[s].gold - AppliedNow(work[s]) - work[s].credit]
         /\ work' = [work EXCEPT ![s] = Idle] /\ receipt' = receipt
<1>1. work[s] \in Requests /\ WorkTold(work[s])
  BY TypeFacts DEF BooksInv
<1>2. work[s].cash + work[s].bank + work[s].credit <= Worth(work[s].pieces)
  BY <1>1 DEF WorkTold, SaveBill
<1>3. \E i \in Unused(bill, Bills) :
         /\ bill' = [bill EXCEPT ![i] = RowNow(work[s])]
         /\ memo' = [m \in Memos |-> [memo[m] EXCEPT
              !.status = Close(m, s),
              !.billed = [p \in Pieces |-> IF work[s].memoOf[p] = m THEN i ELSE memo[m].billed[p]]]]
  BY DEF SaveBill, RowNow, AppliedNow, BalanceNow
<1> QED
  BY <1>1, <1>2, <1>3 DEF SaveBill, Done, Unused, AppliedNow, BalanceNow

LEMMA SaveBillBooks == ASSUME BooksInv, NEW s \in Sessions, SaveBill(s) PROVE BooksInv'
<1> DEFINE w == work[s]
           row == RowNow(w)
           c0 == w.customer
<1>1. PICK i \in Bills :
         /\ bill[i].status = "none" /\ bill' = [bill EXCEPT ![i] = row]
         /\ memo' = [m \in Memos |-> [memo[m] EXCEPT
              !.status = Close(m, s),
              !.billed = [p \in Pieces |-> IF w.memoOf[p] = m THEN i ELSE memo[m].billed[p]]]]
  BY SaveBillSteps
<1>2. /\ piece' = [p \in Pieces |-> IF p \in w.pieces THEN "sold" ELSE piece[p]]
      /\ owed' = [owed EXCEPT ![c0] = owed[c0] + BalanceNow(w)]
      /\ credit' = [credit EXCEPT ![c0] = credit[c0] + w.gold - AppliedNow(w) - w.credit]
      /\ work' = [work EXCEPT ![s] = Idle] /\ receipt' = receipt
      /\ w \in Requests /\ w.cash + w.bank + w.credit <= Worth(w.pieces)
  BY SaveBillSteps
<1>3. /\ row \in BillRows /\ AppliedNow(w) \in Nat /\ AppliedNow(w) <= w.gold /\ BalanceNow(w) \in Nat
      /\ row.status = "posted" /\ row.customer = c0 /\ row.back = {} /\ row.gold = w.gold
      /\ row.applied = AppliedNow(w) /\ row.charged = BalanceNow(w) /\ row.balance = BalanceNow(w)
  BY <1>2, RowSaved
<1>4. c0 \in Buyers /\ w.gold \in Nat /\ w.credit \in Nat /\ w.memoOf \in [Pieces -> Memos \cup {None}]
  BY <1>2, RequestFields
<1>5. owed \in [Buyers -> Int] /\ credit \in [Buyers -> Int] /\ memo \in [Memos -> MemoRows] /\ receipt \in [Receipts -> ReceiptRows]
      /\ piece \in [Pieces -> {"in_stock", "on_memo", "sold"}]
  BY TypeFacts DEF BooksInv
<1>6. ASSUME NEW m \in Memos
      PROVE  [memo[m] EXCEPT !.status = Close(m, s),
                             !.billed = [p \in Pieces |-> IF w.memoOf[p] = m THEN i ELSE memo[m].billed[p]]] \in MemoRows
  <2>1. memo[m] \in MemoRows /\ Close(m, s) \in {"none", "open", "closed"} /\ memo[m].billed \in [Pieces -> Bills \cup {None}]
    BY <1>5, MemoFields DEF Close
  <2>2. [p \in Pieces |-> IF w.memoOf[p] = m THEN i ELSE memo[m].billed[p]] \in [Pieces -> Bills \cup {None}]
    BY <2>1
  <2> QED
    BY <2>1, <2>2 DEF MemoRows
<1>7. \A r \in Receipts : receipt[r].status = "posted" => receipt[r].to[i] = 0
  <2>1. \A r \in Receipts : receipt[r].to[i] \in Nat
    BY <1>5, ReceiptFields
  <2>2. \A r \in Receipts : ReceiptTold(receipt[r], bill)
    BY DEF BooksInv
  <2>3. \A r \in Receipts : receipt[r].status = "posted" => ~(receipt[r].to[i] > 0)
    BY <1>1, <2>2 DEF ReceiptTold
  <2> QED
    BY <2>1, <2>3
<1> HIDE DEF row, c0, w
<1>8. SumFunction(Cleared(receipt, i)) = 0
  BY <1>7, NothingCleared
<1>9. /\ owed' \in [Buyers -> Int] /\ credit' \in [Buyers -> Int] /\ piece' \in [Pieces -> {"in_stock", "on_memo", "sold"}]
      /\ memo' \in [Memos -> MemoRows]
  <2>1. owed[c0] + BalanceNow(w) \in Int /\ credit[c0] + w.gold - AppliedNow(w) - w.credit \in Int
    BY <1>3, <1>4, <1>5
  <2>2. owed' \in [Buyers -> Int] /\ credit' \in [Buyers -> Int]
    BY <1>2, <1>5, <2>1
  <2>3. piece' \in [Pieces -> {"in_stock", "on_memo", "sold"}]
    BY <1>2, <1>5
  <2>4. memo' \in [Memos -> MemoRows]
    BY <1>1, <1>6
  <2> QED
    BY <2>2, <2>3, <2>4
<1>10. ASSUME NEW c \in Buyers
       PROVE  owed'[c] = owed[c] - Share(bill[i], c) + Share(row, c)
  <2>1. owed'[c] = owed[c] + (IF c0 = c THEN BalanceNow(w) ELSE 0) /\ owed[c] \in Int
    BY <1>2, <1>3, <1>4, <1>5
  <2>2. bill[i].status # "posted"
    BY <1>1
  <2> QED
    BY <1>3, <2>1, <2>2 DEF Share
<1>11. /\ work' \in [Sessions -> Requests]
       /\ \A t \in Sessions : WorkTold(work'[t]) /\ Cancelling(work', receipt, t)
  BY <1>2, DoneTold
<1>12. row.applied <= row.gold /\ row.charged = row.balance + SumFunction(Cleared(receipt, i))
  BY <1>3, <1>8
<1>13. \A r \in Receipts : receipt[r].status = "posted" => ~(receipt[r].to[i] > 0)
  BY <1>7
<1> QED
  BY <1>1, <1>2, <1>3, <1>9, <1>10, <1>11, <1>12, <1>13, BillStep

LEMMA BooksWork ==
  ASSUME BooksInv, work' = work
  PROVE  work' \in [Sessions -> Requests] /\ \A t \in Sessions : WorkTold(work'[t]) /\ Cancelling(work', receipt, t)
  BY TypeFacts DEF BooksInv, Cancelling

LEMMA cancelInvoiceBooks ==
  ASSUME BooksInv, NEW s \in Sessions, NEW i \in Bills, cancelInvoice(s, i) PROVE BooksInv'
<1> DEFINE row == [bill[i] EXCEPT !.status = "cancelled"]
           c0 == bill[i].customer
           back == credit[c0] + bill[i].credit + bill[i].applied - bill[i].gold
<1>1. /\ bill[i].status = "posted" /\ bill[i].back = {} /\ Receipted(i) = {}
      /\ bill' = [bill EXCEPT ![i] = row] /\ owed' = [owed EXCEPT ![c0] = owed[c0] - bill[i].charged]
      /\ credit' = [credit EXCEPT ![c0] = back]
      /\ piece' = [p \in Pieces |-> IF p \in bill[i].pieces THEN putBack(i, p) ELSE piece[p]]
      /\ memo' = [m \in Memos |-> [memo[m] EXCEPT
           !.status = IF m \in Reopened(i) THEN "open" ELSE memo[m].status,
           !.billed = [p \in Pieces |-> IF memo[m].billed[p] = i THEN None ELSE memo[m].billed[p]]]]
      /\ receipt' = receipt /\ work' = work
  BY DEF cancelInvoice
<1>2. bill[i] \in BillRows /\ memo \in [Memos -> MemoRows] /\ receipt \in [Receipts -> ReceiptRows]
      /\ piece \in [Pieces -> {"in_stock", "on_memo", "sold"}] /\ owed \in [Buyers -> Int] /\ credit \in [Buyers -> Int]
  BY TypeFacts DEF BooksInv
<1>3. /\ c0 \in Buyers /\ bill[i].credit \in Nat /\ bill[i].applied \in Nat /\ bill[i].gold \in Nat
      /\ bill[i].charged \in Nat /\ bill[i].balance \in Nat
  BY <1>2, BillFields
<1>4. row \in BillRows /\ row.status = "cancelled" /\ row.applied = bill[i].applied /\ row.gold = bill[i].gold
  BY <1>2 DEF BillRows
<1>5. \A r \in Receipts : receipt[r].status = "posted" => ~(receipt[r].to[i] > 0) /\ receipt[r].to[i] = 0
  <2>1. \A r \in Receipts : receipt[r].to[i] \in Nat
    BY <1>2, ReceiptFields
  <2>2. \A r \in Receipts : ~(receipt[r].status = "posted" /\ receipt[r].to[i] > 0)
    <3>1. Receipted(i) = {}
      BY <1>1
    <3> QED
      BY <3>1 DEF Receipted
  <2> QED
    BY <2>1, <2>2
<1>6. bill[i].charged = bill[i].balance
  <2>1. SumFunction(Cleared(receipt, i)) = 0
    BY <1>5, NothingCleared
  <2>2. bill[i].charged = bill[i].balance + SumFunction(Cleared(receipt, i))
    BY <1>1 DEF BooksInv, ChargedTold
  <2> QED
    BY <1>3, <2>1, <2>2
<1>7. owed' \in [Buyers -> Int] /\ credit' \in [Buyers -> Int]
  <2>1. owed[c0] - bill[i].charged \in Int /\ back \in Int
    BY <1>2, <1>3
  <2> HIDE DEF back
  <2> QED
    BY <1>1, <1>2, <2>1
<1>8. piece' \in [Pieces -> {"in_stock", "on_memo", "sold"}]
  BY <1>1, <1>2 DEF putBack
<1>9. memo' \in [Memos -> MemoRows]
  <2>1. ASSUME NEW m \in Memos
        PROVE  [memo[m] EXCEPT !.status = IF m \in Reopened(i) THEN "open" ELSE memo[m].status,
                  !.billed = [p \in Pieces |-> IF memo[m].billed[p] = i THEN None ELSE memo[m].billed[p]]] \in MemoRows
    <3>1. memo[m] \in MemoRows /\ memo[m].status \in {"none", "open", "closed"} /\ memo[m].billed \in [Pieces -> Bills \cup {None}]
      BY <1>2, MemoFields
    <3>2. [p \in Pieces |-> IF memo[m].billed[p] = i THEN None ELSE memo[m].billed[p]] \in [Pieces -> Bills \cup {None}]
      BY <3>1
    <3> QED
      BY <3>1, <3>2 DEF MemoRows
  <2> QED
    BY <1>1, <2>1
<1>10. ASSUME NEW c \in Buyers PROVE owed'[c] = owed[c] - Share(bill[i], c) + Share(row, c)
  <2>1. Share(row, c) = 0 /\ Share(bill[i], c) = IF c0 = c THEN bill[i].charged ELSE 0
    BY <1>1, <1>4, <1>6 DEF Share
  <2>2. owed'[c] = (IF c0 = c THEN owed[c] - bill[i].charged ELSE owed[c]) /\ owed[c] \in Int
    BY <1>1, <1>2
  <2> QED
    BY <1>3, <2>1, <2>2
<1>11. bill[i].applied <= bill[i].gold
  BY DEF BooksInv
<1>12. work' \in [Sessions -> Requests] /\ \A t \in Sessions : WorkTold(work'[t]) /\ Cancelling(work', receipt, t)
  BY <1>1, BooksWork
<1>13. row.applied <= row.gold /\ row.status # "posted"
  BY <1>4, <1>11
<1> HIDE DEF row, c0, back
<1> QED
  BY <1>1, <1>4, <1>5, <1>7, <1>8, <1>9, <1>10, <1>12, <1>13, BillStep

\* The return a request makes: some pieces come back, so much is cleared on the bill and
\* so much more kept as the customer's credit.
LEMMA ReturnSteps ==
  ASSUME BooksInv, NEW s \in Sessions, NEW i \in Bills, createSalesReturn(s, i)
  PROVE  /\ bill[i].status = "posted" /\ work[s].pc = "idle"
         /\ \E set \in SUBSET bill[i].pieces, row \in BillRows, adjusted \in Nat, more \in Nat :
              /\ set # {} /\ set \cap bill[i].back = {}
              /\ row.status = "posted" /\ row.customer = bill[i].customer /\ row.applied = bill[i].applied
              /\ row.gold = bill[i].gold /\ row.cash = bill[i].cash /\ row.pieces = bill[i].pieces
              /\ row.back = bill[i].back \cup set /\ row.balance = bill[i].balance - adjusted
              /\ bill' = [bill EXCEPT ![i] = row]
              /\ owed' = [owed EXCEPT ![bill[i].customer] = owed[bill[i].customer] - adjusted]
              /\ credit' = [credit EXCEPT ![bill[i].customer] = credit[bill[i].customer] + more]
              /\ piece' = [p \in Pieces |-> IF p \in set THEN "in_stock" ELSE piece[p]]
              /\ UNCHANGED <<receipt, memo, work>>
<1> DEFINE c0 == bill[i].customer
<1>0. PICK set \in (SUBSET bill[i].pieces) \ {{}}, deduction \in Amounts, note \in BOOLEAN :
       \E twice \in SUBSET set :
         LET c == bill[i].customer
             value == returnValue(i, set, twice)
             adjusted == adjustedBy(i, value - deduction)
         IN
         /\ work[s].pc = "idle"
         /\ bill[i].status = "posted"
         /\ set \cap bill[i].back = {}
         /\ deduction <= value
         /\ note => c # WalkIn
         /\ bill' = [bill EXCEPT ![i] =
              [bill[i] EXCEPT !.back = @ \cup set, !.given = @ + value, !.balance = @ - adjusted]]
         /\ owed' = [owed EXCEPT ![c] = @ - adjusted]
         /\ credit' = [credit EXCEPT ![c] = @ + (IF note THEN value - deduction - adjusted ELSE 0)]
         /\ piece' = [p \in Pieces |-> IF p \in set THEN "in_stock" ELSE piece[p]]
         /\ UNCHANGED <<receipt, memo, work>>
  BY Zenon DEF createSalesReturn
<1>1. PICK twice \in SUBSET set :
         /\ work[s].pc = "idle" /\ set \cap bill[i].back = {}
         /\ bill[i].status = "posted" /\ deduction <= returnValue(i, set, twice)
         /\ bill' = [bill EXCEPT ![i] =
              [bill[i] EXCEPT !.back = bill[i].back \cup set, !.given = bill[i].given + returnValue(i, set, twice),
                              !.balance = bill[i].balance - adjustedBy(i, returnValue(i, set, twice) - deduction)]]
         /\ owed' = [owed EXCEPT ![c0] = owed[c0] - adjustedBy(i, returnValue(i, set, twice) - deduction)]
         /\ credit' = [credit EXCEPT ![c0] = credit[c0] + (IF note THEN returnValue(i, set, twice) - deduction
                                                            - adjustedBy(i, returnValue(i, set, twice) - deduction) ELSE 0)]
         /\ piece' = [p \in Pieces |-> IF p \in set THEN "in_stock" ELSE piece[p]]
         /\ UNCHANGED <<receipt, memo, work>>
  BY <1>0, Zenon
<1>2. bill[i] \in BillRows /\ memo \in [Memos -> MemoRows] /\ receipt \in [Receipts -> ReceiptRows]
      /\ piece \in [Pieces -> {"in_stock", "on_memo", "sold"}] /\ owed \in [Buyers -> Int] /\ credit \in [Buyers -> Int]
  BY TypeFacts DEF BooksInv
<1>3. /\ c0 \in Buyers /\ bill[i].total \in Nat /\ bill[i].given \in Nat /\ bill[i].balance \in Nat
      /\ bill[i].pieces \in SUBSET Pieces /\ bill[i].back \in SUBSET Pieces /\ deduction \in Nat
  BY <1>2, BillFields, MoneyAssumption
<1> DEFINE value == returnValue(i, set, twice)
           adjusted == adjustedBy(i, value - deduction)
           row == [bill[i] EXCEPT !.back = bill[i].back \cup set, !.given = bill[i].given + value,
                                  !.balance = bill[i].balance - adjusted]
           more == IF note THEN value - deduction - adjusted ELSE 0
<1>4. value \in Nat
  <2>1. set \in SUBSET Pieces /\ twice \in SUBSET Pieces
    BY <1>3
  <2>2. Worth(set) \in Nat /\ Worth(twice) \in Nat
    BY <2>1, SalesFinite
  <2>3. value \in Int
    BY <1>3, <2>2 DEF returnValue
  <2> QED
    BY <1>1, <1>3, <2>3
<1> HIDE DEF value
<1>5. value - deduction \in Nat
  BY <1>1, <1>3, <1>4 DEF value
<1>6. adjusted \in Nat /\ adjusted <= bill[i].balance /\ adjusted <= value - deduction
  BY <1>3, <1>5 DEF adjustedBy
<1> HIDE DEF adjusted
<1>7. /\ bill[i].given + value \in Nat /\ bill[i].balance - adjusted \in Nat /\ bill[i].back \cup set \in SUBSET Pieces
      /\ more \in Nat /\ adjusted \in Nat
  BY <1>3, <1>4, <1>5, <1>6
<1>8. /\ row \in BillRows /\ row.status = "posted" /\ row.customer = c0 /\ row.applied = bill[i].applied
      /\ row.gold = bill[i].gold /\ row.cash = bill[i].cash /\ row.pieces = bill[i].pieces
      /\ row.balance = bill[i].balance - adjusted /\ row.back = bill[i].back \cup set
  BY <1>1, <1>2, <1>7 DEF BillRows
<1>9. /\ bill' = [bill EXCEPT ![i] = row] /\ owed' = [owed EXCEPT ![c0] = owed[c0] - adjusted]
      /\ credit' = [credit EXCEPT ![c0] = credit[c0] + more]
  BY <1>1 DEF value, adjusted
<1> HIDE DEF row, more
<1>10. set \in SUBSET bill[i].pieces /\ row \in BillRows /\ adjusted \in Nat /\ more \in Nat
  BY <1>7, <1>8
<1>11. /\ set # {} /\ set \cap bill[i].back = {}
       /\ row.status = "posted" /\ row.customer = bill[i].customer /\ row.applied = bill[i].applied
       /\ row.gold = bill[i].gold /\ row.cash = bill[i].cash /\ row.pieces = bill[i].pieces
       /\ row.back = bill[i].back \cup set /\ row.balance = bill[i].balance - adjusted
       /\ bill' = [bill EXCEPT ![i] = row]
       /\ owed' = [owed EXCEPT ![bill[i].customer] = owed[bill[i].customer] - adjusted]
       /\ credit' = [credit EXCEPT ![bill[i].customer] = credit[bill[i].customer] + more]
       /\ piece' = [p \in Pieces |-> IF p \in set THEN "in_stock" ELSE piece[p]]
       /\ UNCHANGED <<receipt, memo, work>>
  BY <1>1, <1>8, <1>9
<1>12. bill[i].status = "posted" /\ work[s].pc = "idle"
  BY <1>1
<1> QED
  BY <1>10, <1>11, <1>12, Zenon

LEMMA createSalesReturnBooks ==
  ASSUME BooksInv, NEW s \in Sessions, NEW i \in Bills, createSalesReturn(s, i) PROVE BooksInv'
<1> DEFINE c0 == bill[i].customer
<1>1. PICK set \in SUBSET bill[i].pieces, row \in BillRows, adjusted \in Nat, more \in Nat :
         /\ set # {} /\ set \cap bill[i].back = {}
         /\ row.status = "posted" /\ row.customer = bill[i].customer /\ row.applied = bill[i].applied
         /\ row.gold = bill[i].gold /\ row.cash = bill[i].cash /\ row.pieces = bill[i].pieces
         /\ row.back = bill[i].back \cup set /\ row.balance = bill[i].balance - adjusted
         /\ bill' = [bill EXCEPT ![i] = row]
         /\ owed' = [owed EXCEPT ![bill[i].customer] = owed[bill[i].customer] - adjusted]
         /\ credit' = [credit EXCEPT ![bill[i].customer] = credit[bill[i].customer] + more]
         /\ piece' = [p \in Pieces |-> IF p \in set THEN "in_stock" ELSE piece[p]]
         /\ UNCHANGED <<receipt, memo, work>>
  BY ReturnSteps, Zenon
<1>2. bill[i] \in BillRows /\ memo \in [Memos -> MemoRows]
      /\ piece \in [Pieces -> {"in_stock", "on_memo", "sold"}] /\ owed \in [Buyers -> Int] /\ credit \in [Buyers -> Int]
  BY TypeFacts DEF BooksInv
<1>3. c0 \in Buyers /\ bill[i].balance \in Nat /\ bill[i].status = "posted"
  BY <1>2, BillFields, ReturnSteps
<1>10. owed' \in [Buyers -> Int] /\ credit' \in [Buyers -> Int]
  <2>1. owed[c0] - adjusted \in Int /\ credit[c0] + more \in Int
    BY <1>2, <1>3
  <2> QED
    BY <1>1, <1>2, <2>1
<1>11. piece' \in [Pieces -> {"in_stock", "on_memo", "sold"}] /\ memo' \in [Memos -> MemoRows]
  BY <1>1, <1>2
<1>12. ASSUME NEW c \in Buyers PROVE owed'[c] = owed[c] - Share(bill[i], c) + Share(row, c)
  <2>1. /\ Share(row, c) = IF c0 = c THEN bill[i].balance - adjusted ELSE 0
        /\ Share(bill[i], c) = IF c0 = c THEN bill[i].balance ELSE 0
    BY <1>1, <1>3 DEF Share
  <2>2. owed'[c] = (IF c0 = c THEN owed[c] - adjusted ELSE owed[c]) /\ owed[c] \in Int
    BY <1>1, <1>2
  <2> QED
    BY <1>3, <2>1, <2>2
<1>13. bill[i].applied <= bill[i].gold /\ \A r \in Receipts : ReceiptTold(receipt[r], bill)
  BY DEF BooksInv
<1>14. \A r \in Receipts : receipt[r].status = "posted" /\ receipt[r].to[i] > 0 =>
           row.status = "posted" /\ row.customer = receipt[r].customer
  BY <1>1, <1>3, <1>13 DEF ReceiptTold
<1>15. work' \in [Sessions -> Requests] /\ \A t \in Sessions : WorkTold(work'[t]) /\ Cancelling(work', receipt, t)
  BY <1>1, BooksWork
<1>16. row.applied <= row.gold /\ receipt' = receipt
  BY <1>1, <1>13
<1>17. row.back # {}
  BY <1>1
<1> QED
  BY <1>1, <1>10, <1>11, <1>12, <1>14, <1>15, <1>16, <1>17, BillStep, ZenonT(30)

\* A receipt changed is a sum changed by as much.
LEMMA ClearedChanges ==
  ASSUME NEW rows \in [Receipts -> ReceiptRows], NEW r \in Receipts, NEW row \in ReceiptRows,
         NEW rows1, rows1 = [rows EXCEPT ![r] = row], NEW i \in Bills
  PROVE  /\ SumFunction(Cleared(rows1, i)) = SumFunction(Cleared(rows, i)) - PaidOn(rows[r], i) + PaidOn(row, i)
         /\ SumFunction(Cleared(rows, i)) \in Int
<1> DEFINE f == Cleared(rows, i)
           e == Cleared(rows1, i)
<1>1. (\A q \in Receipts : rows[q].to[i] \in Nat) /\ row.to[i] \in Nat
  BY ReceiptFields
<1>2. \A q \in Receipts : rows1[q] = IF q = r THEN row ELSE rows[q]
  OBVIOUS
<1>3. \A q \in Receipts : f[q] = PaidOn(rows[q], i) /\ f[q] \in Int
  BY <1>1 DEF Cleared, PaidOn
<1>4. \A q \in Receipts : e[q] = PaidOn(rows1[q], i) /\ e[q] \in Int
  BY <1>1, <1>2 DEF Cleared, PaidOn
<1>5. \A q \in Receipts \ {r} : e[q] = f[q]
  BY <1>2, <1>3, <1>4
<1>6. DOMAIN f = Receipts /\ DOMAIN e = Receipts /\ rows1[r] = row
  BY DEF Cleared
<1> HIDE DEF f, e
<1>7. IsFiniteSet(Receipts) /\ \A q \in Receipts : f[q] \in Int /\ e[q] \in Int
  BY <1>3, <1>4, SalesFinite
<1>8. SumFunctionOnSet(e, Receipts) = SumFunctionOnSet(f, Receipts) - f[r] + e[r] /\ SumFunctionOnSet(f, Receipts) \in Int
  BY <1>5, <1>7, SumChanges, SumInt
<1>9. SumFunction(e) = SumFunction(f) - f[r] + e[r] /\ SumFunction(f) \in Int
  BY <1>6, <1>8 DEF SumFunction
<1>10. f[r] = PaidOn(rows[r], i) /\ e[r] = PaidOn(row, i)
  BY <1>3, <1>4, <1>6
<1> QED
  BY <1>9, <1>10, Zenon DEF f, e

LEMMA ClearedStep ==
  ASSUME receipt \in [Receipts -> ReceiptRows], NEW r \in Receipts, NEW row \in ReceiptRows,
         receipt' = [receipt EXCEPT ![r] = row], NEW i \in Bills
  PROVE  /\ SumFunction(Cleared(receipt', i)) = SumFunction(Cleared(receipt, i)) - PaidOn(receipt[r], i) + PaidOn(row, i)
         /\ SumFunction(Cleared(receipt, i)) \in Int
<1> DEFINE rows1 == receipt'
<1>1. rows1 = [receipt EXCEPT ![r] = row]
  OBVIOUS
<1> HIDE DEF rows1
<1>2. /\ SumFunction(Cleared(rows1, i)) = SumFunction(Cleared(receipt, i)) - PaidOn(receipt[r], i) + PaidOn(row, i)
      /\ SumFunction(Cleared(receipt, i)) \in Int
  BY <1>1, ClearedChanges, Zenon
<1> QED
  BY <1>2 DEF rows1

\* Balances of one customer's bills taken down row by row.
Taken(c, c0, to) == IF c = c0 THEN SumFunction(to) ELSE 0

LEMMA OwingCleared ==
  ASSUME NEW rows \in [Bills -> BillRows], NEW rows1 \in [Bills -> BillRows], NEW to \in [Bills -> Nat], NEW c0 \in Buyers,
         \A i \in Bills : /\ rows1[i].status = rows[i].status /\ rows1[i].customer = rows[i].customer
                          /\ rows[i].balance = rows1[i].balance + to[i]
                          /\ to[i] > 0 => rows[i].status = "posted" /\ rows[i].customer = c0,
         NEW c \in Buyers
  PROVE  /\ SumFunction(Owing(rows, c)) = SumFunction(Owing(rows1, c)) + Taken(c, c0, to)
         /\ SumFunction(Owing(rows1, c)) \in Int /\ SumFunction(to) \in Int
<1> DEFINE g == Owing(rows, c)
           f == Owing(rows1, c)
           e == [i \in Bills |-> IF c = c0 THEN to[i] ELSE 0]
<1>1. \A i \in Bills : rows[i].balance \in Nat /\ rows1[i].balance \in Nat /\ to[i] \in Nat
  BY BillFields
<1>2. ASSUME NEW i \in Bills PROVE f[i] \in Int /\ e[i] \in Int /\ g[i] = f[i] + e[i]
  <2>1. g[i] = Share(rows[i], c) /\ f[i] = Share(rows1[i], c) /\ e[i] = IF c = c0 THEN to[i] ELSE 0
    BY DEF Owing
  <2>2. CASE to[i] > 0
    BY <1>1, <2>1, <2>2 DEF Share
  <2>3. CASE to[i] = 0
    BY <1>1, <2>1, <2>3 DEF Share
  <2> QED
    BY <1>1, <2>2, <2>3
<1>3. DOMAIN g = Bills /\ DOMAIN f = Bills /\ DOMAIN to = Bills
  BY DEF Owing
<1>4. SumFunctionOnSet(e, Bills) = (IF c = c0 THEN SumFunctionOnSet(to, Bills) ELSE 0)
  <2>1. CASE c = c0
    <3>1. \A i \in Bills : to[i] \in Int /\ e[i] = to[i]
      BY <1>1, <2>1
    <3> QED
      BY <2>1, <3>1, SalesFinite, SumOfSame
  <2>2. CASE c # c0
    <3>1. \A i \in Bills : e[i] = 0
      BY <2>2
    <3> QED
      BY <2>2, <3>1, SalesFinite, SumOfZeros
  <2> QED
    BY <2>1, <2>2
<1> HIDE DEF f, g, e
<1>5. SumFunctionOnSet(g, Bills) = SumFunctionOnSet(f, Bills) + SumFunctionOnSet(e, Bills)
  <2>1. IsFiniteSet(Bills)
    BY SalesFinite
  <2>2. \A i \in Bills : f[i] \in Int /\ e[i] \in Int /\ g[i] = f[i] + e[i]
    BY <1>2
  <2> QED
    BY <2>1, <2>2, SumOfSums
<1>6. SumFunctionOnSet(f, Bills) \in Int /\ SumFunctionOnSet(to, Bills) \in Int
  <2>1. \A i \in Bills : f[i] \in Int /\ to[i] \in Int
    BY <1>1, <1>2
  <2> QED
    BY <2>1, SalesFinite, SumInt
<1>7. SumFunction(g) = SumFunctionOnSet(g, Bills) /\ SumFunction(f) = SumFunctionOnSet(f, Bills)
      /\ SumFunction(to) = SumFunctionOnSet(to, Bills)
  BY <1>3 DEF SumFunction
<1>8. SumFunction(g) = SumFunction(f) + (IF c = c0 THEN SumFunction(to) ELSE 0) /\ SumFunction(f) \in Int /\ SumFunction(to) \in Int
  BY <1>4, <1>5, <1>6, <1>7
<1> QED
  BY <1>8 DEF f, g, Taken

\* The customer's open bills, oldest first, take no more than there is of an amount.
Allocation(c, amount) == [i \in Bills |-> allocation(c, amount, i)]

LEMMA Allocated ==
  ASSUME bill \in [Bills -> BillRows], NEW c, NEW amount \in Nat
  PROVE  /\ Allocation(c, amount) \in [Bills -> Nat]
         /\ \A i \in Bills : /\ Allocation(c, amount)[i] <= bill[i].balance
                             /\ Allocation(c, amount)[i] > 0 => bill[i].status = "posted" /\ bill[i].customer = c
         /\ SumFunction(Allocation(c, amount)) \in Nat /\ SumFunction(Allocation(c, amount)) <= amount
<1> DEFINE to == Allocation(c, amount)
           due == Owing(bill, c)
           B(n) == SumFunctionOnSet(due, 1..n)
           T(n) == SumFunctionOnSet(to, 1..n)
<1>0. MaxBills \in Nat /\ Bills = 1..MaxBills
  BY BoundAssumption DEF Bills
<1>1. \A i \in Bills : due[i] \in Nat /\ due[i] = IF i \in Posted(c) THEN bill[i].balance ELSE 0
  <2>1. \A i \in Bills : bill[i].balance \in Nat
    BY BillFields
  <2> QED
    BY <2>1 DEF Owing, Share, Posted
<1>2. \A n \in Nat : n <= MaxBills => IsFiniteSet(1..n) /\ B(n) \in Nat
  <2> SUFFICES ASSUME NEW n \in Nat, n <= MaxBills PROVE IsFiniteSet(1..n) /\ B(n) \in Nat
    OBVIOUS
  <2>1. 1 \in Int /\ n \in Int
    OBVIOUS
  <2>2. IsFiniteSet(1..n)
    BY <2>1, FS_Interval, Zenon
  <2>3. \A i \in 1..n : due[i] \in Nat
    BY <1>0, <1>1
  <2> HIDE DEF due
  <2> QED
    BY <2>2, <2>3, SumNat
<1>3. \A i \in Bills : unpaid({j \in Posted(c) : j < i}) = B(i - 1)
  <2> SUFFICES ASSUME NEW i \in Bills PROVE unpaid({j \in Posted(c) : j < i}) = B(i - 1)
    OBVIOUS
  <2> DEFINE S == 1..(i - 1)
             R == {j \in Posted(c) : j < i}
             f == [j \in Bills |-> bill[j].balance]
  <2>1. IsFiniteSet(S)
    <3>1. i - 1 \in Nat /\ i - 1 <= MaxBills
      BY <1>0
    <3> QED
      BY <1>2, <3>1
  <2>2. R \in SUBSET S /\ S \subseteq Bills
    BY <1>0 DEF Posted
  <2>3. \A x \in R : f[x] \in Int /\ due[x] = f[x]
    <3>1. \A x \in Bills : f[x] = bill[x].balance /\ bill[x].balance \in Nat
      BY BillFields
    <3> QED
      BY <1>1, <2>2, <3>1
  <2>4. \A x \in S \ R : due[x] = 0
    <3>1. ASSUME NEW x \in S, x \notin R PROVE x \in Bills /\ x \notin Posted(c)
      BY <1>0, <3>1
    <3> QED
      BY <1>1, <3>1
  <2>5. unpaid(R) = SumFunctionOnSet(f, R)
    BY DEF unpaid
  <2> HIDE DEF S, R, f, due
  <2>6. SumFunctionOnSet(f, R) = SumFunctionOnSet(due, S)
    BY <2>1, <2>2, <2>3, <2>4, SumOfPart
  <2> QED
    BY <2>5, <2>6 DEF S, R
<1>4. \A i \in Bills : to[i] = IF i \notin Posted(c) \/ amount - B(i - 1) <= 0 THEN 0
                               ELSE IF bill[i].balance < amount - B(i - 1) THEN bill[i].balance ELSE amount - B(i - 1)
  <2>1. \A i \in Bills : to[i] = allocation(c, amount, i)
    BY DEF Allocation
  <2>2. \A i \in Bills : allocation(c, amount, i) = IF i \notin Posted(c) \/ amount - unpaid({j \in Posted(c) : j < i}) <= 0 THEN 0
                               ELSE IF bill[i].balance < amount - unpaid({j \in Posted(c) : j < i})
                                    THEN bill[i].balance ELSE amount - unpaid({j \in Posted(c) : j < i})
    BY DEF allocation
  <2> HIDE DEF due, to, B
  <2> QED
    BY <1>3, <2>1, <2>2
<1>5. ASSUME NEW i \in Bills
      PROVE  /\ to[i] \in Nat /\ to[i] <= bill[i].balance
             /\ to[i] > 0 => bill[i].status = "posted" /\ bill[i].customer = c
             /\ to[i] = IF amount - B(i - 1) <= 0 THEN 0 ELSE IF due[i] < amount - B(i - 1) THEN due[i] ELSE amount - B(i - 1)
  <2>1. B(i - 1) \in Nat
    <3>1. i - 1 \in Nat /\ i - 1 <= MaxBills
      BY <1>0
    <3> QED
      BY <1>2, <3>1
  <2>2. bill[i].balance \in Nat /\ (i \in Posted(c) => bill[i].status = "posted" /\ bill[i].customer = c)
    BY BillFields DEF Posted
  <2>3. due[i] = IF i \in Posted(c) THEN bill[i].balance ELSE 0
    BY <1>1
  <2>4. to[i] = IF i \notin Posted(c) \/ amount - B(i - 1) <= 0 THEN 0
                ELSE IF bill[i].balance < amount - B(i - 1) THEN bill[i].balance ELSE amount - B(i - 1)
    BY <1>4
  <2> HIDE DEF to, due, B
  <2>5. CASE i \notin Posted(c)
    BY <2>1, <2>2, <2>3, <2>4, <2>5
  <2>6. CASE i \in Posted(c)
    BY <2>1, <2>2, <2>3, <2>4, <2>6
  <2> QED
    BY <2>5, <2>6
<1>6. to \in [Bills -> Nat]
  <2>1. to = [i \in Bills |-> to[i]]
    BY DEF Allocation
  <2> HIDE DEF to
  <2> QED
    BY <1>5, <2>1
<1> DEFINE Good == {n \in Nat : n <= MaxBills => T(n) = IF amount < B(n) THEN amount ELSE B(n)}
<1>7. 0 \in Good
  <2>1. 1..0 = {}
    OBVIOUS
  <2>2. T(0) = 0 /\ B(0) = 0
    BY <2>1, SumOfNone
  <2> HIDE DEF T, B
  <2> QED
    BY <2>2
<1>8. ASSUME NEW n \in Nat, n \in Good PROVE n + 1 \in Good
  <2> SUFFICES ASSUME n + 1 <= MaxBills PROVE T(n + 1) = IF amount < B(n + 1) THEN amount ELSE B(n + 1)
    OBVIOUS
  <2>1. n + 1 \in Bills /\ (n + 1) - 1 = n /\ \A i \in 1..n : i \in Bills
    BY <1>0
  <2>2. (\A i \in 1..n : to[i] \in Int /\ due[i] \in Int) /\ to[n + 1] \in Int /\ due[n + 1] \in Int
    BY <1>1, <1>5, <2>1
  <2> HIDE DEF to, due
  <2>3. T(n + 1) = T(n) + to[n + 1] /\ B(n + 1) = B(n) + due[n + 1]
    BY <2>2, SumAppends
  <2>4. T(n) = (IF amount < B(n) THEN amount ELSE B(n)) /\ B(n) \in Nat /\ due[n + 1] \in Nat
    <3>1. n <= MaxBills
      BY <1>0
    <3>2. T(n) = (IF amount < B(n) THEN amount ELSE B(n))
      BY <1>8, <3>1
    <3>3. B(n) \in Nat
      BY <1>2, <3>1
    <3> QED
      BY <1>1, <2>1, <3>2, <3>3
  <2>5. to[n + 1] = IF amount - B(n) <= 0 THEN 0 ELSE IF due[n + 1] < amount - B(n) THEN due[n + 1] ELSE amount - B(n)
    BY <1>5, <2>1
  <2> HIDE DEF T, B
  <2> QED
    BY <2>3, <2>4, <2>5
<1> HIDE DEF Good
<1>9. MaxBills \in Good
  BY <1>0, <1>7, <1>8, NaturalsBySteps
<1>10. T(MaxBills) \in Nat /\ T(MaxBills) <= amount
  <2>1. B(MaxBills) \in Nat /\ T(MaxBills) = IF amount < B(MaxBills) THEN amount ELSE B(MaxBills)
    BY <1>0, <1>2, <1>9 DEF Good
  <2> HIDE DEF T, B
  <2> QED
    BY <2>1
<1>11. SumFunction(to) = T(MaxBills)
  <2>1. DOMAIN to = Bills
    BY DEF Allocation
  <2> HIDE DEF to
  <2> QED
    BY <1>0, <2>1 DEF SumFunction
<1> QED
  BY <1>5, <1>6, <1>10, <1>11

\* What a receipt takes off the bills, or its cancellation puts back on them: sums and shares
\* on both sides stay together.  to is what is taken off, or put back where back holds.
Signed(back, n) == IF back THEN n ELSE -n

LEMMA OwingMoved ==
  ASSUME NEW rows \in [Bills -> BillRows], NEW rows1 \in [Bills -> BillRows], NEW to \in [Bills -> Nat], NEW c0 \in Buyers,
         NEW back \in BOOLEAN,
         \A i \in Bills : /\ rows1[i].status = rows[i].status /\ rows1[i].customer = rows[i].customer
                          /\ rows1[i].balance = rows[i].balance + Signed(back, to[i]) /\ rows[i].balance \in Nat
                          /\ to[i] > 0 => rows[i].status = "posted" /\ rows[i].customer = c0,
         NEW c \in Buyers
  PROVE  SumFunction(Owing(rows1, c)) = SumFunction(Owing(rows, c)) + Signed(back, Taken(c, c0, to))
<1>1. \A i \in Bills : to[i] \in Nat
  OBVIOUS
<1>2. CASE back
  <2>1. \A i \in Bills : /\ rows[i].status = rows1[i].status /\ rows[i].customer = rows1[i].customer
                         /\ rows1[i].balance = rows[i].balance + to[i]
                         /\ to[i] > 0 => rows1[i].status = "posted" /\ rows1[i].customer = c0
    BY <1>2 DEF Signed
  <2>2. SumFunction(Owing(rows1, c)) = SumFunction(Owing(rows, c)) + Taken(c, c0, to)
    BY <2>1, OwingCleared
  <2> QED
    BY <1>2, <2>2 DEF Signed
<1>3. CASE ~back
  <2>1. \A i \in Bills : /\ rows1[i].status = rows[i].status /\ rows1[i].customer = rows[i].customer
                         /\ rows[i].balance = rows1[i].balance + to[i]
                         /\ to[i] > 0 => rows[i].status = "posted" /\ rows[i].customer = c0
    BY <1>1, <1>3 DEF Signed
  <2>2. /\ SumFunction(Owing(rows, c)) = SumFunction(Owing(rows1, c)) + Taken(c, c0, to)
        /\ SumFunction(Owing(rows1, c)) \in Int /\ SumFunction(to) \in Int
    BY <2>1, OwingCleared
  <2>3. Taken(c, c0, to) \in Int
    BY <2>2 DEF Taken
  <2> QED
    BY <1>3, <2>2, <2>3 DEF Signed
<1> QED
  BY <1>2, <1>3

ReceiptMoves(r, row, to, back) ==
  /\ receipt' = [receipt EXCEPT ![r] = row] /\ ReceiptTold(row, bill)
  /\ bill' = [i \in Bills |-> [bill[i] EXCEPT !.balance = bill[i].balance + Signed(back, to[i])]]
  /\ \A i \in Bills : /\ ~back => to[i] <= bill[i].balance
                      /\ to[i] > 0 => bill[i].status = "posted" /\ bill[i].customer = row.customer
                      /\ PaidOn(receipt[r], i) = PaidOn(row, i) + Signed(back, to[i])
  /\ owed' = [owed EXCEPT ![row.customer] = owed[row.customer] + Signed(back, SumFunction(to))]
  /\ credit' \in [Buyers -> Int] /\ UNCHANGED <<piece, memo>>
  /\ work' \in [Sessions -> Requests]
  /\ \A t \in Sessions : WorkTold(work'[t]) /\ Cancelling(work', receipt', t)

LEMMA ReceiptStep ==
  ASSUME BooksInv, NEW r \in Receipts, NEW row \in ReceiptRows, NEW to \in [Bills -> Nat], NEW back \in BOOLEAN,
         ReceiptMoves(r, row, to, back)
  PROVE  BooksInv'
<1>0. /\ receipt' = [receipt EXCEPT ![r] = row] /\ ReceiptTold(row, bill)
      /\ bill' = [i \in Bills |-> [bill[i] EXCEPT !.balance = bill[i].balance + Signed(back, to[i])]]
      /\ \A i \in Bills : /\ ~back => to[i] <= bill[i].balance
                          /\ to[i] > 0 => bill[i].status = "posted" /\ bill[i].customer = row.customer
                          /\ PaidOn(receipt[r], i) = PaidOn(row, i) + Signed(back, to[i])
      /\ owed' = [owed EXCEPT ![row.customer] = owed[row.customer] + Signed(back, SumFunction(to))]
      /\ credit' \in [Buyers -> Int] /\ UNCHANGED <<piece, memo>>
      /\ work' \in [Sessions -> Requests]
      /\ \A t \in Sessions : WorkTold(work'[t]) /\ Cancelling(work', receipt', t)
  BY DEF ReceiptMoves
<1>1. /\ bill \in [Bills -> BillRows] /\ receipt \in [Receipts -> ReceiptRows] /\ owed \in [Buyers -> Int]
      /\ piece \in [Pieces -> {"in_stock", "on_memo", "sold"}] /\ memo \in [Memos -> MemoRows]
  BY TypeFacts DEF BooksInv
<1>2. ASSUME NEW i \in Bills
      PROVE  /\ bill'[i] \in BillRows /\ bill[i].balance \in Nat /\ bill'[i].balance \in Nat
             /\ bill'[i].balance = bill[i].balance + Signed(back, to[i])
             /\ bill'[i].status = bill[i].status /\ bill'[i].customer = bill[i].customer /\ bill'[i].back = bill[i].back
             /\ bill'[i].charged = bill[i].charged /\ bill'[i].applied = bill[i].applied /\ bill'[i].gold = bill[i].gold
  <2> DEFINE left == bill[i].balance + Signed(back, to[i])
  <2>1. bill[i] \in BillRows /\ bill[i].balance \in Nat /\ to[i] \in Nat
    BY <1>1, BillFields
  <2>2. left \in Nat
    BY <1>0, <2>1 DEF Signed
  <2>3. bill'[i] = [bill[i] EXCEPT !.balance = left]
    BY <1>0
  <2> HIDE DEF left
  <2>4. /\ bill'[i] \in BillRows /\ bill'[i].balance = left
        /\ bill'[i].status = bill[i].status /\ bill'[i].customer = bill[i].customer /\ bill'[i].back = bill[i].back
        /\ bill'[i].charged = bill[i].charged /\ bill'[i].applied = bill[i].applied /\ bill'[i].gold = bill[i].gold
    BY <2>1, <2>2, <2>3 DEF BillRows
  <2> QED
    BY <2>1, <2>2, <2>4 DEF left
<1>3. bill' \in [Bills -> BillRows]
  <2>1. bill' = [i \in Bills |-> bill'[i]]
    BY <1>0
  <2> QED
    BY <1>2, <2>1
<1>4. row.customer \in Buyers
  BY ReceiptFields
<1>5. SumFunction(to) \in Int
  <2>1. DOMAIN to = Bills /\ \A i \in Bills : to[i] \in Int
    OBVIOUS
  <2>2. IsFiniteSet(Bills)
    BY SalesFinite
  <2>3. SumFunctionOnSet(to, Bills) \in Int
    BY <2>1, <2>2, SumInt
  <2> QED
    BY <2>1, <2>3 DEF SumFunction
<1>6. owed' \in [Buyers -> Int]
  <2>1. owed[row.customer] + Signed(back, SumFunction(to)) \in Int
    BY <1>1, <1>4, <1>5 DEF Signed
  <2> QED
    BY <1>0, <1>1, <2>1
<1>14. receipt' \in [Receipts -> ReceiptRows]
  BY <1>0, <1>1
<1>7. TypeOK'
  BY <1>0, <1>1, <1>3, <1>6, <1>14 DEF TypeOK
<1>8. ASSUME NEW q \in Receipts PROVE ReceiptTold(receipt'[q], bill')
  <2>1. receipt'[q] = IF q = r THEN row ELSE receipt[q]
    BY <1>0, <1>1
  <2>2. ReceiptTold(receipt[q], bill)
    BY DEF BooksInv
  <2>3. ReceiptTold(receipt'[q], bill)
    BY <1>0, <2>1, <2>2
  <2> QED
    BY <1>2, <2>3 DEF ReceiptTold
<1>9. ChargedTold(bill', receipt')
  <2> SUFFICES ASSUME NEW i \in Bills, bill'[i].status = "posted", bill'[i].back = {}
               PROVE  bill'[i].charged = bill'[i].balance + SumFunction(Cleared(receipt', i))
    BY DEF ChargedTold
  <2>1. /\ SumFunction(Cleared(receipt', i)) = SumFunction(Cleared(receipt, i)) - PaidOn(receipt[r], i) + PaidOn(row, i)
        /\ SumFunction(Cleared(receipt, i)) \in Int
    BY <1>0, <1>1, ClearedStep
  <2>2. bill[i].charged = bill[i].balance + SumFunction(Cleared(receipt, i))
    BY <1>2 DEF BooksInv, ChargedTold
  <2>3. PaidOn(row, i) \in Int /\ Signed(back, to[i]) \in Int
    BY <1>0, ReceiptFields DEF PaidOn, Signed
  <2>4. PaidOn(receipt[r], i) = PaidOn(row, i) + Signed(back, to[i])
    BY <1>0
  <2>5. /\ bill[i].balance \in Nat /\ bill'[i].balance = bill[i].balance + Signed(back, to[i])
        /\ bill'[i].charged = bill[i].charged
    BY <1>2
  <2> QED
    BY <2>1, <2>2, <2>3, <2>4, <2>5
<1>10. ASSUME NEW c \in Buyers PROVE owed'[c] = SumFunction(Owing(bill', c))
  <2> DEFINE rows1 == bill'
             c0 == row.customer
  <2>1. \A i \in Bills : /\ rows1[i].status = bill[i].status /\ rows1[i].customer = bill[i].customer
                         /\ rows1[i].balance = bill[i].balance + Signed(back, to[i]) /\ bill[i].balance \in Nat
                         /\ to[i] > 0 => bill[i].status = "posted" /\ bill[i].customer = c0
    BY <1>0, <1>2
  <2>2. rows1 \in [Bills -> BillRows] /\ bill \in [Bills -> BillRows] /\ c0 \in Buyers
    BY <1>1, <1>3, <1>4
  <2>3. owed[c] = SumFunction(Owing(bill, c)) /\ owed[c] \in Int
    BY <1>1 DEF BooksInv
  <2>4. owed'[c] = owed[c] + Signed(back, Taken(c, c0, to))
    BY <1>0, <1>1, <1>4, <2>3 DEF Signed, Taken
  <2> HIDE DEF rows1, c0
  <2>5. SumFunction(Owing(rows1, c)) = SumFunction(Owing(bill, c)) + Signed(back, Taken(c, c0, to))
    BY <2>1, <2>2, OwingMoved
  <2>6. owed'[c] = SumFunction(Owing(rows1, c))
    BY <2>3, <2>4, <2>5
  <2> QED
    BY <2>6 DEF rows1
<1>11. \A i \in Bills : bill'[i].applied <= bill'[i].gold
  BY <1>2 DEF BooksInv
<1> QED
  BY <1>0, <1>7, <1>8, <1>9, <1>10, <1>11 DEF BooksInv

LEMMA SaveReceiptBooks == ASSUME BooksInv, NEW s \in Sessions, SaveReceipt(s) PROVE BooksInv'
<1> DEFINE w == work[s]
           c0 == w.customer
           amount == w.cash + w.bank
           to == Allocation(c0, amount)
           cleared == SumFunction(to)
           row == [status |-> "posted", customer |-> c0, cash |-> w.cash > 0, amount |-> amount,
                   to |-> to, advance |-> amount - cleared]
<1>1. /\ \E r \in Unused(receipt, Receipts) : receipt' = [receipt EXCEPT ![r] = row]
      /\ bill' = [i \in Bills |-> [bill[i] EXCEPT !.balance = bill[i].balance - to[i]]]
      /\ owed' = [owed EXCEPT ![c0] = owed[c0] - cleared]
      /\ credit' = [credit EXCEPT ![c0] = credit[c0] + amount - cleared]
      /\ work' = [work EXCEPT ![s] = Idle] /\ UNCHANGED <<piece, memo>>
  BY DEF SaveReceipt, Done, Allocation
<1>2. /\ bill \in [Bills -> BillRows] /\ receipt \in [Receipts -> ReceiptRows] /\ w \in Requests
      /\ owed \in [Buyers -> Int] /\ credit \in [Buyers -> Int]
  BY TypeFacts DEF BooksInv
<1>3. c0 \in Buyers /\ w.cash \in Nat /\ amount \in Nat
  BY <1>2, RequestFields
<1> HIDE DEF c0, amount
<1>4. /\ to \in [Bills -> Nat] /\ cleared \in Nat /\ cleared <= amount
      /\ \A i \in Bills : /\ to[i] <= bill[i].balance
                          /\ to[i] > 0 => bill[i].status = "posted" /\ bill[i].customer = c0
  BY <1>2, <1>3, Allocated
<1> HIDE DEF to
<1>5. row \in ReceiptRows /\ row.status = "posted" /\ row.customer = c0 /\ row.to = to
      /\ row.amount = amount /\ row.advance = amount - cleared
  BY <1>3, <1>4 DEF ReceiptRows
<1>6. ReceiptTold(row, bill)
  <2>1. row.amount = row.advance + SumFunction(row.to)
    BY <1>3, <1>4, <1>5
  <2> QED
    BY <1>4, <1>5, <2>1 DEF ReceiptTold
<1> HIDE DEF row
<1>7. PICK r \in Receipts : receipt[r].status = "none" /\ receipt' = [receipt EXCEPT ![r] = row]
  BY <1>1 DEF Unused
<1> DEFINE back == FALSE
<1>15. back \in BOOLEAN
  OBVIOUS
<1>8. \A i \in Bills : PaidOn(receipt[r], i) = PaidOn(row, i) + Signed(back, to[i])
  <2>1. \A i \in Bills : to[i] \in Nat
    BY <1>4
  <2> QED
    BY <1>5, <1>7, <2>1 DEF PaidOn, Signed
<1>9. bill' = [i \in Bills |-> [bill[i] EXCEPT !.balance = bill[i].balance + Signed(back, to[i])]]
  <2>1. \A i \in Bills : bill[i].balance \in Nat /\ to[i] \in Nat
    BY <1>2, <1>4, BillFields
  <2>2. \A i \in Bills : bill[i].balance - to[i] = bill[i].balance + Signed(back, to[i])
    BY <2>1 DEF Signed
  <2> HIDE DEF back
  <2> QED
    BY <1>1, <2>2
<1>10. owed' = [owed EXCEPT ![row.customer] = owed[row.customer] + Signed(back, SumFunction(to))]
  <2>1. owed[c0] - cleared = owed[c0] + Signed(back, SumFunction(to))
    BY <1>2, <1>3, <1>4 DEF Signed
  <2> QED
    BY <1>1, <1>5, <2>1
<1>11. credit' \in [Buyers -> Int]
  <2>1. credit[c0] + amount - cleared \in Int
    BY <1>2, <1>3, <1>4
  <2> QED
    BY <1>1, <1>2, <2>1
<1>12. work' \in [Sessions -> Requests] /\ \A t \in Sessions : WorkTold(work'[t]) /\ Cancelling(work', receipt, t)
  BY <1>1, DoneTold
<1>13. \A t \in Sessions : Cancelling(work', receipt', t)
  BY <1>2, <1>7, <1>12 DEF Cancelling
<1>14. \A i \in Bills : /\ ~back => to[i] <= bill[i].balance
                        /\ to[i] > 0 => bill[i].status = "posted" /\ bill[i].customer = row.customer
  BY <1>4, <1>5
<1> HIDE DEF back
<1>16. ReceiptMoves(r, row, to, back)
  BY <1>1, <1>6, <1>7, <1>8, <1>9, <1>10, <1>11, <1>12, <1>13, <1>14 DEF ReceiptMoves
<1> QED
  BY <1>4, <1>5, <1>15, <1>16, ReceiptStep

LEMMA SaveCancelReceiptBooks == ASSUME BooksInv, NEW s \in Sessions, SaveCancelReceipt(s) PROVE BooksInv'
<1> DEFINE r == work[s].doc
           was == receipt[r]
           c0 == was.customer
           to == was.to
           row == [receipt[r] EXCEPT !.status = "cancelled"]
<1>1. /\ work[s].kind = "cancelReceipt"
      /\ receipt' = [receipt EXCEPT ![r] = row]
      /\ bill' = [i \in Bills |-> [bill[i] EXCEPT !.balance = bill[i].balance + to[i]]]
      /\ owed' = [owed EXCEPT ![c0] = owed[c0] + was.amount - was.advance]
      /\ credit' = [credit EXCEPT ![c0] = credit[c0] - was.advance]
      /\ work' = [work EXCEPT ![s] = Idle] /\ UNCHANGED <<piece, memo>>
  BY DEF SaveCancelReceipt, Done
<1>2. r \in Receipts /\ was.status = "posted"
      /\ \A t \in Sessions : work[t].kind = "cancelReceipt" /\ work[t].doc = r => t = s
  BY <1>1 DEF BooksInv, WorkTold, Cancelling
<1>3. /\ bill \in [Bills -> BillRows] /\ receipt \in [Receipts -> ReceiptRows] /\ work \in [Sessions -> Requests]
      /\ owed \in [Buyers -> Int] /\ credit \in [Buyers -> Int] /\ ReceiptTold(was, bill)
  BY <1>2, TypeFacts DEF BooksInv
<1>4. was \in ReceiptRows
  BY <1>2, <1>3
<1>5. c0 \in Buyers /\ was.amount \in Nat /\ was.advance \in Nat /\ to \in [Bills -> Nat]
  BY <1>4, ReceiptFields
<1>6. row \in ReceiptRows /\ row.status = "cancelled" /\ row.customer = c0 /\ row.to = to
      /\ row.amount = was.amount /\ row.advance = was.advance
  BY <1>4 DEF ReceiptRows
<1>7. was.amount = was.advance + SumFunction(to)
      /\ \A i \in Bills : to[i] > 0 => bill[i].status = "posted" /\ bill[i].customer = c0
  BY <1>2, <1>3 DEF ReceiptTold
<1>8. ReceiptTold(row, bill)
  BY <1>6, <1>7 DEF ReceiptTold
<1>9. SumFunction(to) \in Int
  <2>1. DOMAIN to = Bills /\ \A i \in Bills : to[i] \in Int
    BY <1>5
  <2>2. IsFiniteSet(Bills)
    BY SalesFinite
  <2> HIDE DEF to
  <2>3. SumFunctionOnSet(to, Bills) \in Int
    BY <2>1, <2>2, SumInt
  <2> QED
    BY <2>1, <2>3 DEF SumFunction
<1> HIDE DEF row, to, c0, was
<1>11. \A t \in Sessions : work'[t] = IF t = s THEN Idle ELSE work[t]
  BY <1>1, <1>3
<1>12. work' \in [Sessions -> Requests] /\ \A t \in Sessions : WorkTold(work'[t]) /\ Cancelling(work', receipt, t)
  BY <1>1, DoneTold
<1>13. \A t \in Sessions : Cancelling(work', receipt', t)
  BY <1>1, <1>2, <1>3, <1>11, <1>12, IdleTold DEF Cancelling
<1> DEFINE back == TRUE
<1>20. back \in BOOLEAN
  OBVIOUS
<1>14. \A i \in Bills : PaidOn(receipt[r], i) = PaidOn(row, i) + Signed(back, to[i])
  <2> SUFFICES ASSUME NEW i \in Bills PROVE PaidOn(receipt[r], i) = PaidOn(row, i) + Signed(back, to[i])
    OBVIOUS
  <2>1. PaidOn(receipt[r], i) = to[i] /\ PaidOn(row, i) = 0
    BY <1>2, <1>6 DEF PaidOn, was, to
  <2>2. to[i] \in Nat
    BY <1>5
  <2> QED
    BY <2>1, <2>2 DEF Signed
<1>15. bill' = [i \in Bills |-> [bill[i] EXCEPT !.balance = bill[i].balance + Signed(back, to[i])]]
  BY <1>1 DEF Signed
<1>16. owed[c0] + was.amount - was.advance = owed[c0] + SumFunction(to)
  BY <1>3, <1>5, <1>7, <1>9
<1>17. owed' = [owed EXCEPT ![row.customer] = owed[row.customer] + Signed(back, SumFunction(to))]
  BY <1>1, <1>6, <1>16 DEF Signed
<1>18. credit' \in [Buyers -> Int]
  <2>1. credit[c0] - was.advance \in Int
    BY <1>3, <1>5
  <2> QED
    BY <1>1, <1>3, <2>1
<1>19. \A i \in Bills : /\ ~back => to[i] <= bill[i].balance
                        /\ to[i] > 0 => bill[i].status = "posted" /\ bill[i].customer = row.customer
  BY <1>6, <1>7
<1> HIDE DEF r, back
<1>21. ReceiptMoves(r, row, to, back)
  BY <1>1, <1>8, <1>12, <1>13, <1>14, <1>15, <1>17, <1>18, <1>19 DEF ReceiptMoves
<1>22. r \in Receipts
  BY <1>2
<1> QED
  BY <1>5, <1>6, <1>20, <1>21, <1>22, ReceiptStep

LEMMA BooksNextInv == BooksInv /\ [Next]_vars => BooksInv'
<1> SUFFICES ASSUME BooksInv, [Next]_vars PROVE BooksInv'
  OBVIOUS
<1>1. CASE UNCHANGED vars
  BY <1>1 DEF vars, BooksInv, TypeOK, Cancelling
<1>2. CASE Next
  <2>1. PICK s \in Sessions :
          \/ ResolveLines(s) \/ TakePayment(s) \/ SaveBill(s)
          \/ \E i \in Bills : cancelInvoice(s, i) \/ createSalesReturn(s, i)
          \/ BeginReceipt(s) \/ SaveReceipt(s)
          \/ \E r \in Receipts : BeginCancelReceipt(s, r)
          \/ SaveCancelReceipt(s)
          \/ createMemo(s)
          \/ \E m \in Memos : BeginBringBack(s, m)
          \/ SaveBringBack(s)
          \/ Rollback(s)
    BY <1>2 DEF Next
  <2> QED
    BY <2>1, ResolveLinesBooks, TakePaymentBooks, SaveBillBooks, cancelInvoiceBooks, createSalesReturnBooks, BeginReceiptBooks,
       SaveReceiptBooks, BeginCancelReceiptBooks, SaveCancelReceiptBooks, createMemoBooks, BeginBringBackBooks,
       SaveBringBackBooks, RollbackBooks
<1> QED
  BY <1>1, <1>2

\* What is owed, summed over a customer's posted bills alone.
LEMMA PostedOwing ==
  ASSUME bill \in [Bills -> BillRows], NEW c \in Buyers
  PROVE  unpaid(Posted(c)) = SumFunction(Owing(bill, c))
<1> DEFINE f == [i \in Bills |-> bill[i].balance]
           e == Owing(bill, c)
           R == Posted(c)
<1>1. IsFiniteSet(Bills) /\ R \in SUBSET Bills
  BY SalesFinite DEF Posted
<1>2. \A i \in R : f[i] \in Int /\ e[i] = f[i]
  BY BillFields DEF Posted, Owing, Share
<1>3. \A i \in Bills \ R : e[i] = 0
  BY DEF Posted, Owing, Share
<1>4. unpaid(R) = SumFunctionOnSet(f, R) /\ DOMAIN e = Bills
  BY DEF unpaid, Owing
<1> HIDE DEF f, e, R
<1>5. SumFunctionOnSet(f, R) = SumFunctionOnSet(e, Bills)
  BY <1>1, <1>2, <1>3, SumOfPart
<1>6. unpaid(R) = SumFunction(e)
  BY <1>4, <1>5 DEF SumFunction
<1> QED
  BY <1>6 DEF e, R

LEMMA BooksEver == Spec => []BooksInv
<1> QED
  BY BooksInitInv, BooksNextInv, PTL DEF Spec

\* Whatever the tills do and however many there are, every row stays a row: no balance,
\* allocation, advance or return total ever goes below zero.
THEOREM TypeCorrect == Spec => []TypeOK
<1>1. BooksInv => TypeOK
  BY DEF BooksInv
<1> QED
  BY <1>1, BooksEver, PTL

\* The ledger's balance of what a customer owes is always the sum of the customer's open
\* bills, through checkouts, returns, receipts and their cancellations, with any number of tills.
THEOREM OwedAgreesEver == Spec => []OwedAgrees
<1>1. BooksInv => OwedAgrees
  BY PostedOwing, TypeFacts DEF BooksInv, OwedAgrees
<1> QED
  BY <1>1, BooksEver, PTL

-------------------------------------------------------------------------------
\* One till: nobody commits between a check and the save that rests on it.
OneAtATime == \A s, t \in Sessions : s = t

CashOf(row, c) == IF row.status = "posted" /\ row.customer = c THEN row.cash ELSE 0

Cashed(rows, c) == [i \in Bills |-> CashOf(rows[i], c)]

CashPaid(row, c) == IF row.status = "posted" /\ row.customer = c /\ row.cash THEN row.amount ELSE 0

CashIn(rows, c) == [r \in Receipts |-> CashPaid(rows[r], c)]

GoldOf(row, c) == IF row.status = "cancelled" /\ row.customer = c THEN row.gold - row.applied ELSE 0

\* Old gold that had left a credit, on bills since cancelled.
GoldBack(rows, c) == [i \in Bills |-> GoldOf(rows[i], c)]

TakenToday(bills, receipts, c) == SumFunction(Cashed(bills, c)) + SumFunction(CashIn(receipts, c))

\* What a request is about to take or spend still fits.
StillFits(w, bills, receipts, credits) ==
  w.pc = "ready" =>
    /\ w.kind \in {"checkout", "receipt"} /\ w.cash > 0 /\ w.customer \in Customers =>
         TakenToday(bills, receipts, w.customer) + w.cash < Limit
    /\ w.kind = "receipt" => w.cash = 0 \/ w.bank = 0
    /\ w.kind = "checkout" => w.credit <= credits[w.customer] \/ w.credit = 0
    /\ w.kind = "cancelReceipt" => receipts[w.doc].advance <= credits[receipts[w.doc].customer] \/ receipts[w.doc].advance = 0

TillInv ==
  /\ \A c \in Customers : TakenToday(bill, receipt, c) < Limit
  /\ \A c \in Buyers : credit[c] + SumFunction(GoldBack(bill, c)) >= 0
  /\ \A s \in Sessions : StillFits(work[s], bill, receipt, credit)

\* One row of a sum changed.
LEMMA RowChanges ==
  ASSUME NEW S, IsFiniteSet(S), NEW a \in S, NEW f, NEW e, DOMAIN f = S, DOMAIN e = S,
         \A x \in S : f[x] \in Int /\ e[x] \in Int, \A x \in S \ {a} : e[x] = f[x]
  PROVE  SumFunction(e) = SumFunction(f) - f[a] + e[a] /\ SumFunction(f) \in Int
<1>1. SumFunctionOnSet(e, S) = SumFunctionOnSet(f, S) - f[a] + e[a] /\ SumFunctionOnSet(f, S) \in Int
  BY SumChanges, SumInt
<1> QED
  BY <1>1 DEF SumFunction

LEMMA TillSums ==
  ASSUME BooksInv, NEW c
  PROVE  /\ SumFunction(Cashed(bill, c)) \in Nat /\ SumFunction(CashIn(receipt, c)) \in Nat
         /\ SumFunction(GoldBack(bill, c)) \in Nat
         /\ \A i \in Bills : CashOf(bill[i], c) \in Nat /\ GoldOf(bill[i], c) \in Nat
         /\ \A r \in Receipts : CashPaid(receipt[r], c) \in Nat
<1>1. bill \in [Bills -> BillRows] /\ receipt \in [Receipts -> ReceiptRows] /\ \A i \in Bills : bill[i].applied <= bill[i].gold
  BY TypeFacts DEF BooksInv
<1>2. \A i \in Bills : bill[i].cash \in Nat /\ bill[i].gold \in Nat /\ bill[i].applied \in Nat
  BY <1>1, BillFields
<1>3. \A r \in Receipts : receipt[r].amount \in Nat
  BY <1>1, ReceiptFields
<1>4. \A i \in Bills : CashOf(bill[i], c) \in Nat /\ GoldOf(bill[i], c) \in Nat
  BY <1>1, <1>2 DEF CashOf, GoldOf
<1>5. \A r \in Receipts : CashPaid(receipt[r], c) \in Nat
  BY <1>3 DEF CashPaid
<1> DEFINE f == Cashed(bill, c)
           e == CashIn(receipt, c)
           g == GoldBack(bill, c)
<1>6. /\ DOMAIN f = Bills /\ DOMAIN e = Receipts /\ DOMAIN g = Bills
      /\ \A i \in Bills : f[i] \in Nat
      /\ \A i \in Bills : g[i] \in Nat
      /\ \A r \in Receipts : e[r] \in Nat
  BY <1>4, <1>5 DEF Cashed, CashIn, GoldBack
<1>7. IsFiniteSet(Bills) /\ IsFiniteSet(Receipts)
  BY SalesFinite
<1> HIDE DEF f, e, g
<1>8. SumFunctionOnSet(f, Bills) \in Nat /\ SumFunctionOnSet(g, Bills) \in Nat /\ SumFunctionOnSet(e, Receipts) \in Nat
  BY <1>6, <1>7, SumNat
<1>9. SumFunction(f) \in Nat /\ SumFunction(g) \in Nat /\ SumFunction(e) \in Nat
  BY <1>6, <1>8 DEF SumFunction
<1> QED
  BY <1>4, <1>5, <1>9 DEF f, e, g

\* A bill changed.
LEMMA TillBill ==
  ASSUME BooksInv, NEW i \in Bills, NEW row \in BillRows, bill' = [bill EXCEPT ![i] = row], NEW c
  PROVE  /\ SumFunction(Cashed(bill', c)) = SumFunction(Cashed(bill, c)) - CashOf(bill[i], c) + CashOf(row, c)
         /\ SumFunction(GoldBack(bill', c)) = SumFunction(GoldBack(bill, c)) - GoldOf(bill[i], c) + GoldOf(row, c)
<1> DEFINE f == Cashed(bill, c)
           e == Cashed(bill', c)
           g == GoldBack(bill, c)
           h == GoldBack(bill', c)
<1>1. bill \in [Bills -> BillRows]
  BY TypeFacts DEF BooksInv
<1>2. \A j \in Bills : bill[j].cash \in Nat /\ bill[j].gold \in Nat /\ bill[j].applied \in Nat
  BY <1>1, BillFields
<1>3. row.cash \in Nat /\ row.gold \in Nat /\ row.applied \in Nat
  BY BillFields
<1>4. \A j \in Bills : bill'[j] = IF j = i THEN row ELSE bill[j]
  BY <1>1
<1>5. \A j \in Bills : CashOf(bill[j], c) \in Int /\ GoldOf(bill[j], c) \in Int
  BY <1>2 DEF CashOf, GoldOf
<1>6. CashOf(row, c) \in Int /\ GoldOf(row, c) \in Int
  BY <1>3 DEF CashOf, GoldOf
<1>7. \A j \in Bills : f[j] = CashOf(bill[j], c) /\ e[j] = CashOf(bill'[j], c) /\ g[j] = GoldOf(bill[j], c) /\ h[j] = GoldOf(bill'[j], c)
  BY DEF Cashed, GoldBack
<1>8. DOMAIN f = Bills /\ DOMAIN e = Bills /\ DOMAIN g = Bills /\ DOMAIN h = Bills /\ IsFiniteSet(Bills)
  BY SalesFinite DEF Cashed, GoldBack
<1> HIDE DEF f, e, g, h
<1>9. \A j \in Bills : f[j] \in Int /\ e[j] \in Int
  BY <1>4, <1>5, <1>6, <1>7
<1>10. \A j \in Bills : g[j] \in Int /\ h[j] \in Int
  BY <1>4, <1>5, <1>6, <1>7
<1>11. \A j \in Bills \ {i} : e[j] = f[j]
  BY <1>4, <1>7
<1>12. \A j \in Bills \ {i} : h[j] = g[j]
  BY <1>4, <1>7
<1>13. SumFunction(e) = SumFunction(f) - f[i] + e[i]
  BY <1>8, <1>9, <1>11, RowChanges
<1>14. SumFunction(h) = SumFunction(g) - g[i] + h[i]
  BY <1>8, <1>10, <1>12, RowChanges
<1>15. f[i] = CashOf(bill[i], c) /\ e[i] = CashOf(row, c) /\ g[i] = GoldOf(bill[i], c) /\ h[i] = GoldOf(row, c)
  BY <1>4, <1>7
<1>16. SumFunction(e) = SumFunction(f) - CashOf(bill[i], c) + CashOf(row, c)
       /\ SumFunction(h) = SumFunction(g) - GoldOf(bill[i], c) + GoldOf(row, c)
  BY <1>13, <1>14, <1>15
<1> QED
  BY <1>16 DEF f, e, g, h

\* A receipt changed.
LEMMA TillReceipt ==
  ASSUME BooksInv, NEW r \in Receipts, NEW row \in ReceiptRows, receipt' = [receipt EXCEPT ![r] = row], NEW c
  PROVE  SumFunction(CashIn(receipt', c)) = SumFunction(CashIn(receipt, c)) - CashPaid(receipt[r], c) + CashPaid(row, c)
<1> DEFINE f == CashIn(receipt, c)
           e == CashIn(receipt', c)
<1>1. receipt \in [Receipts -> ReceiptRows]
  BY TypeFacts DEF BooksInv
<1>2. (\A q \in Receipts : receipt[q].amount \in Nat) /\ row.amount \in Nat
  BY <1>1, ReceiptFields
<1>3. \A q \in Receipts : receipt'[q] = IF q = r THEN row ELSE receipt[q]
  BY <1>1
<1>4. (\A q \in Receipts : CashPaid(receipt[q], c) \in Int) /\ CashPaid(row, c) \in Int
  BY <1>2 DEF CashPaid
<1>5. \A q \in Receipts : f[q] = CashPaid(receipt[q], c) /\ e[q] = CashPaid(receipt'[q], c)
  BY DEF CashIn
<1>6. DOMAIN f = Receipts /\ DOMAIN e = Receipts /\ IsFiniteSet(Receipts)
  BY SalesFinite DEF CashIn
<1> HIDE DEF f, e
<1>7. \A q \in Receipts : f[q] \in Int /\ e[q] \in Int
  BY <1>3, <1>4, <1>5
<1>8. \A q \in Receipts \ {r} : e[q] = f[q]
  BY <1>3, <1>5
<1>9. SumFunction(e) = SumFunction(f) - f[r] + e[r]
  BY <1>6, <1>7, <1>8, RowChanges
<1>10. f[r] = CashPaid(receipt[r], c) /\ e[r] = CashPaid(row, c)
  BY <1>3, <1>5
<1>11. SumFunction(e) = SumFunction(f) - CashPaid(receipt[r], c) + CashPaid(row, c)
  BY <1>9, <1>10
<1> QED
  BY <1>11 DEF f, e

\* What checkCashLimit adds up.
LEMMA TakenNow ==
  ASSUME BooksInv, NEW c
  PROVE  cashTakenToday(c) = TakenToday(bill, receipt, c)
<1> DEFINE f == [i \in Bills |-> bill[i].cash]
           e == Cashed(bill, c)
           g == [r \in Receipts |-> receipt[r].amount]
           h == CashIn(receipt, c)
           R == Posted(c)
           Q == {r \in Paying(c) : receipt[r].cash}
<1>1. bill \in [Bills -> BillRows] /\ receipt \in [Receipts -> ReceiptRows]
  BY TypeFacts DEF BooksInv
<1>2. IsFiniteSet(Bills) /\ IsFiniteSet(Receipts) /\ R \in SUBSET Bills /\ Q \in SUBSET Receipts
  BY SalesFinite DEF Posted, Paying
<1>3. \A i \in R : f[i] \in Int /\ e[i] = f[i]
  <2>1. \A i \in Bills : bill[i].cash \in Nat
    BY <1>1, BillFields
  <2> QED
    BY <2>1 DEF Posted, Cashed, CashOf
<1>4. \A i \in Bills \ R : e[i] = 0
  BY DEF Posted, Cashed, CashOf
<1>5. \A r \in Q : g[r] \in Int /\ h[r] = g[r]
  <2>1. \A r \in Receipts : receipt[r].amount \in Nat
    BY <1>1, ReceiptFields
  <2> QED
    BY <2>1 DEF Paying, CashIn, CashPaid
<1>6. \A r \in Receipts \ Q : h[r] = 0
  BY DEF Paying, CashIn, CashPaid
<1>7. cashTakenToday(c) = SumFunctionOnSet(f, R) + SumFunctionOnSet(g, Q) /\ DOMAIN e = Bills /\ DOMAIN h = Receipts
  BY DEF cashTakenToday, Cashed, CashIn
<1> HIDE DEF f, e, g, h, R, Q
<1>8. SumFunctionOnSet(f, R) = SumFunctionOnSet(e, Bills) /\ SumFunctionOnSet(g, Q) = SumFunctionOnSet(h, Receipts)
  BY <1>2, <1>3, <1>4, <1>5, <1>6, SumOfPart
<1>9. cashTakenToday(c) = SumFunction(e) + SumFunction(h)
  BY <1>7, <1>8 DEF SumFunction
<1> QED
  BY <1>9 DEF e, h, TakenToday

\* With one till, nothing is under way after a step that saves.
LEMMA NothingPending ==
  ASSUME OneAtATime, BooksInv, NEW s \in Sessions,
         work' = [work EXCEPT ![s] = Idle] \/ (work' = work /\ work[s].pc = "idle")
  PROVE  \A t \in Sessions : StillFits(work'[t], bill', receipt', credit')
<1>1. work \in [Sessions -> Requests]
  BY TypeFacts DEF BooksInv
<1>2. ASSUME NEW t \in Sessions PROVE work'[t].pc = "idle"
  <2>1. t = s
    BY DEF OneAtATime
  <2> QED
    BY <1>1, <2>1, IdleTold
<1> QED
  BY <1>2 DEF StillFits

\* A request that goes on: what it is about to take has just been looked at.
LEMMA TillRequest ==
  ASSUME OneAtATime, BooksInv, TillInv, UNCHANGED <<bill, receipt, credit>>,
         NEW s \in Sessions, NEW w, work' = [work EXCEPT ![s] = w], StillFits(w, bill, receipt, credit)
  PROVE  TillInv'
<1>1. work \in [Sessions -> Requests]
  BY TypeFacts DEF BooksInv
<1>2. ASSUME NEW t \in Sessions PROVE StillFits(work'[t], bill', receipt', credit')
  <2>1. work'[t] = w
    BY <1>1 DEF OneAtATime
  <2> QED
    BY <2>1
<1> QED
  BY <1>2 DEF TillInv

LEMMA TillInitInv == Init => TillInv
<1> SUFFICES ASSUME Init PROVE TillInv
  OBVIOUS
<1> USE DEF Init
<1>1. BooksInv /\ IsFiniteSet(Bills) /\ IsFiniteSet(Receipts)
  BY BooksInitInv, SalesFinite
<1>2. ASSUME NEW c \in Buyers
      PROVE  SumFunction(Cashed(bill, c)) = 0 /\ SumFunction(CashIn(receipt, c)) = 0 /\ SumFunction(GoldBack(bill, c)) = 0
  <2> DEFINE f == Cashed(bill, c)
             e == CashIn(receipt, c)
             g == GoldBack(bill, c)
  <2>1. /\ DOMAIN f = Bills /\ DOMAIN e = Receipts /\ DOMAIN g = Bills
        /\ \A i \in Bills : f[i] = 0
        /\ \A i \in Bills : g[i] = 0
        /\ \A r \in Receipts : e[r] = 0
    BY DEF Cashed, CashOf, CashIn, CashPaid, GoldBack, GoldOf, NoBill, NoReceipt
  <2> HIDE DEF f, e, g
  <2>2. SumFunctionOnSet(f, Bills) = 0 /\ SumFunctionOnSet(e, Receipts) = 0 /\ SumFunctionOnSet(g, Bills) = 0
    BY <1>1, <2>1, SumOfZeros
  <2>3. SumFunction(f) = 0 /\ SumFunction(e) = 0 /\ SumFunction(g) = 0
    BY <2>1, <2>2 DEF SumFunction
  <2> QED
    BY <2>3 DEF f, e, g
<1>3. \A c \in Customers : TakenToday(bill, receipt, c) < Limit
  <2> SUFFICES ASSUME NEW c \in Customers PROVE TakenToday(bill, receipt, c) < Limit
    OBVIOUS
  <2>1. Limit \in Nat /\ 0 < Limit
    BY MoneyAssumption
  <2>2. c \in Buyers
    BY SalesFinite
  <2>3. TakenToday(bill, receipt, c) = 0
    <3>1. SumFunction(Cashed(bill, c)) = 0 /\ SumFunction(CashIn(receipt, c)) = 0
      BY <1>2, <2>2
    <3>2. 0 + 0 = 0
      OBVIOUS
    <3> QED
      BY <3>1, <3>2, Zenon DEF TakenToday
  <2> QED
    BY <2>1, <2>3
<1>4. \A c \in Buyers : credit[c] + SumFunction(GoldBack(bill, c)) >= 0
  <2>1. \A c \in Buyers : credit[c] = 0 /\ SumFunction(GoldBack(bill, c)) = 0
    BY <1>2
  <2> QED
    BY <2>1
<1>5. \A s \in Sessions : StillFits(work[s], bill, receipt, credit)
  BY IdleTold DEF StillFits
<1> QED
  BY <1>3, <1>4, <1>5 DEF TillInv

LEMMA ResolveLinesTill == ASSUME OneAtATime, BooksInv, TillInv, NEW s \in Sessions, ResolveLines(s) PROVE TillInv'
<1>1. PICK c \in Buyers, set \in (SUBSET Pieces) \ {{}}, of \in [Pieces -> Memos \cup {None}] :
         /\ work' = [work EXCEPT ![s] = [Idle EXCEPT !.pc = "lines", !.customer = c, !.pieces = set, !.memoOf = of]]
         /\ UNCHANGED <<piece, bill, receipt, memo, owed, credit>>
  BY DEF ResolveLines
<1> DEFINE w == [Idle EXCEPT !.pc = "lines", !.customer = c, !.pieces = set, !.memoOf = of]
<1>2. StillFits(w, bill, receipt, credit)
  BY DEF Idle, StillFits
<1>3. work' = [work EXCEPT ![s] = w]
  BY <1>1
<1> HIDE DEF w
<1> QED
  BY <1>1, <1>2, <1>3, TillRequest

LEMMA TakePaymentTill == ASSUME OneAtATime, BooksInv, TillInv, NEW s \in Sessions, TakePayment(s) PROVE TillInv'
<1> DEFINE of == [p \in Pieces |-> IF piece[p] = "on_memo" THEN work[s].memoOf[p] ELSE None]
           closes == closedBy([m \in Memos |-> {p \in work[s].pieces : of[p] = m}])
<1>1. PICK cash \in Amounts, bank \in Amounts, spent \in Amounts, gold \in GoldValues :
         /\ work[s].pc = "lines"
         /\ spent <= credit[work[s].customer] \/ spent = 0
         /\ cashAllowed(work[s].customer, cash)
         /\ work' = [work EXCEPT ![s] =
              [work[s] EXCEPT !.pc = "ready", !.memoOf = of, !.closes = closes,
                              !.cash = cash, !.bank = bank, !.credit = spent, !.gold = gold]]
         /\ UNCHANGED <<piece, bill, receipt, memo, owed, credit>>
  BY ZenonT(30) DEF TakePayment
<1> DEFINE w == [work[s] EXCEPT !.pc = "ready", !.memoOf = of, !.closes = closes,
                                !.cash = cash, !.bank = bank, !.credit = spent, !.gold = gold]
<1>2. work[s] \in Requests /\ work[s].kind = "checkout"
  BY <1>1, TypeFacts DEF BooksInv, WorkTold
<1>3. w.kind = "checkout" /\ w.customer = work[s].customer /\ w.cash = cash /\ w.credit = spent
  BY <1>2 DEF Requests
<1>4. work' = [work EXCEPT ![s] = w]
  BY <1>1
<1> HIDE DEF w
<1>5. w.customer \in Customers /\ w.cash > 0 => TakenToday(bill, receipt, w.customer) + w.cash < Limit
  <2>1. w.customer \in Customers => w.customer # WalkIn
    BY CustomerAssumption
  <2>2. cashTakenToday(w.customer) = TakenToday(bill, receipt, w.customer)
    BY TakenNow
  <2> QED
    BY <1>1, <1>3, <2>1, <2>2 DEF cashAllowed
<1>6. StillFits(w, bill, receipt, credit)
  BY <1>1, <1>3, <1>5 DEF StillFits
<1> QED
  BY <1>1, <1>4, <1>6, TillRequest

LEMMA BeginReceiptTill == ASSUME OneAtATime, BooksInv, TillInv, NEW s \in Sessions, BeginReceipt(s) PROVE TillInv'
<1>1. PICK c \in Customers, amount \in Amounts \ {0}, cash \in BOOLEAN :
         /\ cash => cashAllowed(c, amount)
         /\ work' = [work EXCEPT ![s] =
              [Idle EXCEPT !.pc = "ready", !.kind = "receipt", !.customer = c,
                           !.cash = IF cash THEN amount ELSE 0, !.bank = IF cash THEN 0 ELSE amount]]
         /\ UNCHANGED <<piece, bill, receipt, memo, owed, credit>>
  BY DEF BeginReceipt
<1> DEFINE w == [Idle EXCEPT !.pc = "ready", !.kind = "receipt", !.customer = c,
                             !.cash = IF cash THEN amount ELSE 0, !.bank = IF cash THEN 0 ELSE amount]
<1>2. w.kind = "receipt" /\ w.customer = c /\ w.cash = (IF cash THEN amount ELSE 0) /\ w.bank = (IF cash THEN 0 ELSE amount)
  BY DEF Idle
<1>3. work' = [work EXCEPT ![s] = w]
  BY <1>1
<1> HIDE DEF w
<1>4. w.cash > 0 => TakenToday(bill, receipt, w.customer) + w.cash < Limit
  <2>1. c # WalkIn /\ cashTakenToday(c) = TakenToday(bill, receipt, c)
    BY CustomerAssumption, TakenNow
  <2>2. CASE cash
    BY <1>1, <1>2, <2>1, <2>2 DEF cashAllowed
  <2>3. CASE ~cash
    BY <1>2, <2>3
  <2> QED
    BY <2>2, <2>3
<1>5. StillFits(w, bill, receipt, credit)
  BY <1>2, <1>4 DEF StillFits
<1> QED
  BY <1>1, <1>3, <1>5, TillRequest

LEMMA BeginCancelReceiptTill ==
  ASSUME OneAtATime, BooksInv, TillInv, NEW s \in Sessions, NEW r \in Receipts, BeginCancelReceipt(s, r) PROVE TillInv'
<1> DEFINE w == [Idle EXCEPT !.pc = "ready", !.kind = "cancelReceipt", !.doc = r]
<1>1. advanceLeft(r) /\ work' = [work EXCEPT ![s] = w] /\ UNCHANGED <<piece, bill, receipt, memo, owed, credit>>
  BY DEF BeginCancelReceipt
<1>2. w.kind = "cancelReceipt" /\ w.doc = r
  BY DEF Idle
<1>3. receipt[r].advance \in Nat
  <2>1. receipt[r] \in ReceiptRows
    BY TypeFacts DEF BooksInv
  <2> QED
    BY <2>1, ReceiptFields
<1> HIDE DEF w
<1>4. receipt[r].advance <= credit[receipt[r].customer] \/ receipt[r].advance = 0
  BY <1>1, <1>3 DEF advanceLeft
<1>5. StillFits(w, bill, receipt, credit)
  BY <1>2, <1>4 DEF StillFits
<1> QED
  BY <1>1, <1>5, TillRequest

LEMMA BeginBringBackTill ==
  ASSUME OneAtATime, BooksInv, TillInv, NEW s \in Sessions, NEW m \in Memos, BeginBringBack(s, m) PROVE TillInv'
<1>1. PICK set \in (SUBSET Out(m)) \ {{}} :
         /\ work' = [work EXCEPT ![s] =
              [Idle EXCEPT !.pc = "ready", !.kind = "bringBack", !.doc = m, !.pieces = set,
                           !.closes = IF Out(m) = set THEN {m} ELSE {}]]
         /\ UNCHANGED <<piece, bill, receipt, memo, owed, credit>>
  BY DEF BeginBringBack
<1> DEFINE w == [Idle EXCEPT !.pc = "ready", !.kind = "bringBack", !.doc = m, !.pieces = set,
                             !.closes = IF Out(m) = set THEN {m} ELSE {}]
<1>2. w.kind = "bringBack"
  BY DEF Idle
<1>3. work' = [work EXCEPT ![s] = w]
  BY <1>1
<1> HIDE DEF w
<1>4. StillFits(w, bill, receipt, credit)
  BY <1>2 DEF StillFits
<1> QED
  BY <1>1, <1>3, <1>4, TillRequest

LEMMA RestTill ==
  ASSUME OneAtATime, BooksInv, TillInv, NEW s \in Sessions, SaveBringBack(s) \/ Rollback(s) \/ createMemo(s)
  PROVE  TillInv'
<1>1. UNCHANGED <<bill, receipt, credit>>
  BY DEF SaveBringBack, Rollback, createMemo
<1>2. work' = [work EXCEPT ![s] = Idle] \/ (work' = work /\ work[s].pc = "idle")
  BY DEF SaveBringBack, Rollback, createMemo, Done
<1>3. \A t \in Sessions : StillFits(work'[t], bill', receipt', credit')
  BY <1>2, NothingPending
<1> QED
  BY <1>1, <1>3 DEF TillInv

\* Balances alone changed.
LEMMA BalanceOnly ==
  ASSUME bill \in [Bills -> BillRows], NEW left, bill' = [i \in Bills |-> [bill[i] EXCEPT !.balance = left[i]]]
  PROVE  \A c : Cashed(bill', c) = Cashed(bill, c) /\ GoldBack(bill', c) = GoldBack(bill, c)
<1>1. ASSUME NEW i \in Bills
      PROVE  /\ bill'[i].status = bill[i].status /\ bill'[i].customer = bill[i].customer /\ bill'[i].cash = bill[i].cash
             /\ bill'[i].gold = bill[i].gold /\ bill'[i].applied = bill[i].applied
  <2>1. bill[i] \in BillRows /\ bill'[i] = [bill[i] EXCEPT !.balance = left[i]]
    OBVIOUS
  <2> QED
    BY <2>1 DEF BillRows
<1> QED
  BY <1>1 DEF Cashed, CashOf, GoldBack, GoldOf

LEMMA SaveBillTill == ASSUME OneAtATime, BooksInv, TillInv, NEW s \in Sessions, SaveBill(s) PROVE TillInv'
<1> DEFINE w == work[s]
           row == RowNow(w)
           c0 == w.customer
<1>1. PICK i \in Bills :
         /\ bill[i].status = "none" /\ bill' = [bill EXCEPT ![i] = row]
         /\ memo' = [m \in Memos |-> [memo[m] EXCEPT
              !.status = Close(m, s),
              !.billed = [p \in Pieces |-> IF w.memoOf[p] = m THEN i ELSE memo[m].billed[p]]]]
  BY SaveBillSteps
<1>2. /\ credit' = [credit EXCEPT ![c0] = credit[c0] + w.gold - AppliedNow(w) - w.credit]
      /\ work' = [work EXCEPT ![s] = Idle] /\ receipt' = receipt
      /\ w \in Requests /\ w.cash + w.bank + w.credit <= Worth(w.pieces)
  BY SaveBillSteps
<1>3. /\ row \in BillRows /\ AppliedNow(w) \in Nat /\ AppliedNow(w) <= w.gold
      /\ row.status = "posted" /\ row.customer = c0 /\ row.cash = w.cash
  BY <1>2, RowSaved
<1>4. c0 \in Buyers /\ w.gold \in Nat /\ w.credit \in Nat /\ w.cash \in Nat
  BY <1>2, RequestFields
<1>5. w.pc = "ready" /\ w.kind = "checkout" /\ StillFits(w, bill, receipt, credit)
  BY DEF SaveBill, TillInv
<1>6. credit \in [Buyers -> Int]
  BY TypeFacts DEF BooksInv
<1> HIDE DEF w, row, c0
<1>7. \A t \in Sessions : StillFits(work'[t], bill', receipt', credit')
  BY <1>2, NothingPending
<1>8. ASSUME NEW c
      PROVE  /\ SumFunction(Cashed(bill', c)) = SumFunction(Cashed(bill, c)) + CashOf(row, c)
             /\ SumFunction(GoldBack(bill', c)) = SumFunction(GoldBack(bill, c))
  <2>1. CashOf(bill[i], c) = 0 /\ GoldOf(bill[i], c) = 0 /\ GoldOf(row, c) = 0
    BY <1>1, <1>3 DEF CashOf, GoldOf
  <2>2. CashOf(row, c) \in Int
    BY <1>3, <1>4 DEF CashOf
  <2>3. /\ SumFunction(Cashed(bill', c)) = SumFunction(Cashed(bill, c)) - CashOf(bill[i], c) + CashOf(row, c)
        /\ SumFunction(GoldBack(bill', c)) = SumFunction(GoldBack(bill, c)) - GoldOf(bill[i], c) + GoldOf(row, c)
    BY <1>1, <1>3, TillBill
  <2>4. SumFunction(Cashed(bill, c)) \in Nat /\ SumFunction(GoldBack(bill, c)) \in Nat
    BY TillSums
  <2> QED
    BY <2>1, <2>2, <2>3, <2>4
<1>9. ASSUME NEW c \in Customers PROVE TakenToday(bill', receipt', c) < Limit
  <2>1. SumFunction(Cashed(bill, c)) \in Nat /\ SumFunction(CashIn(receipt, c)) \in Nat /\ Limit \in Nat
    BY TillSums, MoneyAssumption
  <2>2. TakenToday(bill, receipt, c) < Limit
    BY DEF TillInv
  <2>3. TakenToday(bill', receipt', c) = TakenToday(bill, receipt, c) + CashOf(row, c)
        /\ TakenToday(bill, receipt, c) \in Nat
    <3>1. CashOf(row, c) \in Int
      BY <1>3, <1>4 DEF CashOf
    <3>2. SumFunction(Cashed(bill', c)) = SumFunction(Cashed(bill, c)) + CashOf(row, c)
      BY <1>8
    <3> QED
      BY <1>2, <2>1, <3>1, <3>2 DEF TakenToday
  <2>4. CASE c = c0 /\ w.cash > 0
    <3>1. TakenToday(bill, receipt, c) + w.cash < Limit
      BY <1>5, <2>4 DEF StillFits, c0
    <3>2. CashOf(row, c) = w.cash
      BY <1>3, <2>4 DEF CashOf
    <3> QED
      BY <2>3, <3>1, <3>2
  <2>5. CASE ~(c = c0 /\ w.cash > 0)
    <3>1. CashOf(row, c) = 0
      BY <1>3, <1>4, <2>5 DEF CashOf
    <3> QED
      BY <2>2, <2>3, <3>1
  <2> QED
    BY <2>4, <2>5
<1>10. ASSUME NEW c \in Buyers PROVE credit'[c] + SumFunction(GoldBack(bill', c)) >= 0
  <2>1. credit[c] + SumFunction(GoldBack(bill, c)) >= 0 /\ SumFunction(GoldBack(bill, c)) \in Nat /\ credit[c] \in Int
    BY <1>6, TillSums DEF TillInv
  <2>2. SumFunction(GoldBack(bill', c)) = SumFunction(GoldBack(bill, c))
    BY <1>8
  <2>3. w.credit <= credit[c0] \/ w.credit = 0
    BY <1>5 DEF StillFits, c0
  <2>4. credit'[c] = IF c = c0 THEN credit[c0] + w.gold - AppliedNow(w) - w.credit ELSE credit[c]
    BY <1>2, <1>6
  <2>5. CASE c = c0
    BY <1>3, <1>4, <2>1, <2>2, <2>3, <2>4, <2>5
  <2>6. CASE c # c0
    BY <2>1, <2>2, <2>4, <2>6
  <2> QED
    BY <2>5, <2>6
<1> QED
  BY <1>7, <1>9, <1>10 DEF TillInv

LEMMA cancelInvoiceTill ==
  ASSUME OneAtATime, BooksInv, TillInv, NEW s \in Sessions, NEW i \in Bills, cancelInvoice(s, i) PROVE TillInv'
<1> DEFINE row == [bill[i] EXCEPT !.status = "cancelled"]
           c0 == bill[i].customer
           spent == bill[i].credit
           left == bill[i].gold - bill[i].applied
<1>1. /\ bill[i].status = "posted" /\ work[s].pc = "idle" /\ bill' = [bill EXCEPT ![i] = row]
      /\ credit' = [credit EXCEPT ![c0] = credit[c0] + bill[i].credit + bill[i].applied - bill[i].gold]
      /\ receipt' = receipt /\ work' = work
  BY DEF cancelInvoice
<1>2. bill[i] \in BillRows /\ credit \in [Buyers -> Int] /\ bill[i].applied <= bill[i].gold
  BY TypeFacts DEF BooksInv
<1>3. c0 \in Buyers /\ spent \in Nat /\ bill[i].gold \in Nat /\ bill[i].applied \in Nat /\ left \in Nat
  BY <1>2, BillFields
<1>4. /\ row \in BillRows /\ row.status = "cancelled" /\ row.customer = c0
      /\ row.applied = bill[i].applied /\ row.gold = bill[i].gold
  BY <1>2 DEF BillRows
<1> HIDE DEF row
<1>5. \A t \in Sessions : StillFits(work'[t], bill', receipt', credit')
  BY <1>1, NothingPending
<1>6. ASSUME NEW c
      PROVE  /\ SumFunction(Cashed(bill', c)) = SumFunction(Cashed(bill, c)) - CashOf(bill[i], c)
             /\ SumFunction(GoldBack(bill', c)) = SumFunction(GoldBack(bill, c)) + GoldOf(row, c)
  <2>1. CashOf(row, c) = 0 /\ GoldOf(bill[i], c) = 0
    BY <1>1, <1>4 DEF CashOf, GoldOf
  <2>2. /\ SumFunction(Cashed(bill', c)) = SumFunction(Cashed(bill, c)) - CashOf(bill[i], c) + CashOf(row, c)
        /\ SumFunction(GoldBack(bill', c)) = SumFunction(GoldBack(bill, c)) - GoldOf(bill[i], c) + GoldOf(row, c)
    BY <1>1, <1>4, TillBill
  <2>3. SumFunction(Cashed(bill, c)) \in Nat /\ SumFunction(GoldBack(bill, c)) \in Nat /\ CashOf(bill[i], c) \in Nat
    BY TillSums
  <2> QED
    BY <2>1, <2>2, <2>3
<1>7. ASSUME NEW c \in Customers PROVE TakenToday(bill', receipt', c) < Limit
  <2>1. /\ SumFunction(Cashed(bill, c)) \in Nat /\ SumFunction(CashIn(receipt, c)) \in Nat /\ CashOf(bill[i], c) \in Nat
        /\ Limit \in Nat
    BY TillSums, MoneyAssumption
  <2>2. SumFunction(Cashed(bill, c)) + SumFunction(CashIn(receipt, c)) < Limit
    BY DEF TillInv, TakenToday
  <2>3. TakenToday(bill', receipt', c) = SumFunction(Cashed(bill', c)) + SumFunction(CashIn(receipt, c))
    BY <1>1 DEF TakenToday
  <2>4. SumFunction(Cashed(bill', c)) = SumFunction(Cashed(bill, c)) - CashOf(bill[i], c)
    BY <1>6
  <2> QED
    BY <2>1, <2>2, <2>3, <2>4
<1>8. ASSUME NEW c \in Buyers PROVE credit'[c] + SumFunction(GoldBack(bill', c)) >= 0
  <2>1. credit[c] + SumFunction(GoldBack(bill, c)) >= 0 /\ SumFunction(GoldBack(bill, c)) \in Nat /\ credit[c] \in Int
    BY <1>2, TillSums DEF TillInv
  <2>2. SumFunction(GoldBack(bill', c)) = SumFunction(GoldBack(bill, c)) + GoldOf(row, c)
    BY <1>6
  <2>3. GoldOf(row, c) = IF c = c0 THEN left ELSE 0
    BY <1>4 DEF GoldOf
  <2>4. credit'[c] = IF c = c0 THEN credit[c0] + bill[i].credit + bill[i].applied - bill[i].gold ELSE credit[c]
    BY <1>1, <1>2
  <2>5. CASE c = c0
    BY <1>3, <2>1, <2>2, <2>3, <2>4, <2>5
  <2>6. CASE c # c0
    BY <2>1, <2>2, <2>3, <2>4, <2>6
  <2> QED
    BY <2>5, <2>6
<1> QED
  BY <1>5, <1>7, <1>8 DEF TillInv

LEMMA createSalesReturnTill ==
  ASSUME OneAtATime, BooksInv, TillInv, NEW s \in Sessions, NEW i \in Bills, createSalesReturn(s, i) PROVE TillInv'
<1> DEFINE c0 == bill[i].customer
<1>1. PICK set \in SUBSET bill[i].pieces, row \in BillRows, adjusted \in Nat, more \in Nat :
         /\ set # {} /\ set \cap bill[i].back = {}
         /\ row.status = "posted" /\ row.customer = bill[i].customer /\ row.applied = bill[i].applied
         /\ row.gold = bill[i].gold /\ row.cash = bill[i].cash /\ row.pieces = bill[i].pieces
         /\ row.back = bill[i].back \cup set /\ row.balance = bill[i].balance - adjusted
         /\ bill' = [bill EXCEPT ![i] = row]
         /\ owed' = [owed EXCEPT ![bill[i].customer] = owed[bill[i].customer] - adjusted]
         /\ credit' = [credit EXCEPT ![bill[i].customer] = credit[bill[i].customer] + more]
         /\ piece' = [p \in Pieces |-> IF p \in set THEN "in_stock" ELSE piece[p]]
         /\ UNCHANGED <<receipt, memo, work>>
  BY ReturnSteps, Zenon
<1>2. bill[i].status = "posted" /\ work[s].pc = "idle" /\ credit \in [Buyers -> Int]
  BY ReturnSteps, TypeFacts DEF BooksInv
<1>3. \A t \in Sessions : StillFits(work'[t], bill', receipt', credit')
  BY <1>1, <1>2, NothingPending
<1>4. ASSUME NEW c
      PROVE  /\ SumFunction(Cashed(bill', c)) = SumFunction(Cashed(bill, c))
             /\ SumFunction(GoldBack(bill', c)) = SumFunction(GoldBack(bill, c))
  <2>1. CashOf(row, c) = CashOf(bill[i], c) /\ GoldOf(bill[i], c) = 0 /\ GoldOf(row, c) = 0
    BY <1>1, <1>2 DEF CashOf, GoldOf
  <2>2. /\ SumFunction(Cashed(bill', c)) = SumFunction(Cashed(bill, c)) - CashOf(bill[i], c) + CashOf(row, c)
        /\ SumFunction(GoldBack(bill', c)) = SumFunction(GoldBack(bill, c)) - GoldOf(bill[i], c) + GoldOf(row, c)
    BY <1>1, TillBill
  <2>3. SumFunction(Cashed(bill, c)) \in Nat /\ SumFunction(GoldBack(bill, c)) \in Nat /\ CashOf(bill[i], c) \in Nat
    BY TillSums
  <2> QED
    BY <2>1, <2>2, <2>3
<1>5. ASSUME NEW c \in Customers PROVE TakenToday(bill', receipt', c) < Limit
  BY <1>1, <1>4 DEF TillInv, TakenToday
<1>6. ASSUME NEW c \in Buyers PROVE credit'[c] + SumFunction(GoldBack(bill', c)) >= 0
  <2>1. credit[c] + SumFunction(GoldBack(bill, c)) >= 0 /\ SumFunction(GoldBack(bill, c)) \in Nat /\ credit[c] \in Int
    BY <1>2, TillSums DEF TillInv
  <2>2. SumFunction(GoldBack(bill', c)) = SumFunction(GoldBack(bill, c))
    BY <1>4
  <2>3. credit'[c] = IF c = c0 THEN credit[c] + more ELSE credit[c]
    BY <1>1, <1>2
  <2> QED
    BY <2>1, <2>2, <2>3
<1> QED
  BY <1>3, <1>5, <1>6 DEF TillInv

LEMMA SaveReceiptTill == ASSUME OneAtATime, BooksInv, TillInv, NEW s \in Sessions, SaveReceipt(s) PROVE TillInv'
<1> DEFINE w == work[s]
           c0 == w.customer
           amount == w.cash + w.bank
           to == Allocation(c0, amount)
           cleared == SumFunction(to)
           row == [status |-> "posted", customer |-> c0, cash |-> w.cash > 0, amount |-> amount,
                   to |-> to, advance |-> amount - cleared]
<1>1. /\ \E r \in Unused(receipt, Receipts) : receipt' = [receipt EXCEPT ![r] = row]
      /\ bill' = [i \in Bills |-> [bill[i] EXCEPT !.balance = bill[i].balance - to[i]]]
      /\ credit' = [credit EXCEPT ![c0] = credit[c0] + amount - cleared]
      /\ work' = [work EXCEPT ![s] = Idle]
  BY DEF SaveReceipt, Done, Allocation
<1>2. /\ bill \in [Bills -> BillRows] /\ w \in Requests /\ credit \in [Buyers -> Int] /\ WorkTold(w)
      /\ w.pc = "ready" /\ w.kind = "receipt" /\ StillFits(w, bill, receipt, credit)
  BY TypeFacts DEF BooksInv, SaveReceipt, TillInv
<1>3. c0 \in Buyers /\ c0 \in Customers /\ w.cash \in Nat /\ w.bank \in Nat /\ amount \in Nat
  BY <1>2, RequestFields DEF WorkTold
<1>4. w.cash > 0 => amount = w.cash /\ TakenToday(bill, receipt, c0) + w.cash < Limit
  BY <1>2, <1>3 DEF StillFits
<1> HIDE DEF c0, amount
<1>5. to \in [Bills -> Nat] /\ cleared \in Nat /\ cleared <= amount
  BY <1>2, <1>3, Allocated
<1> HIDE DEF to
<1>6. /\ row \in ReceiptRows /\ row.status = "posted" /\ row.customer = c0 /\ row.cash = (w.cash > 0)
      /\ row.amount = amount
  BY <1>3, <1>5 DEF ReceiptRows
<1> HIDE DEF row, w
<1>7. PICK r \in Receipts : receipt[r].status = "none" /\ receipt' = [receipt EXCEPT ![r] = row]
  BY <1>1 DEF Unused
<1>8. \A t \in Sessions : StillFits(work'[t], bill', receipt', credit')
  BY <1>1, NothingPending
<1>9. \A c : Cashed(bill', c) = Cashed(bill, c) /\ GoldBack(bill', c) = GoldBack(bill, c)
  <2> DEFINE left == [i \in Bills |-> bill[i].balance - to[i]]
  <2>1. bill' = [i \in Bills |-> [bill[i] EXCEPT !.balance = left[i]]]
    BY <1>1
  <2> HIDE DEF left
  <2> QED
    BY <1>2, <2>1, BalanceOnly
<1>10. ASSUME NEW c \in Customers PROVE TakenToday(bill', receipt', c) < Limit
  <2>1. SumFunction(Cashed(bill, c)) \in Nat /\ SumFunction(CashIn(receipt, c)) \in Nat /\ Limit \in Nat
    BY TillSums, MoneyAssumption
  <2>2. SumFunction(Cashed(bill, c)) + SumFunction(CashIn(receipt, c)) < Limit
    BY DEF TillInv, TakenToday
  <2>3. SumFunction(CashIn(receipt', c)) = SumFunction(CashIn(receipt, c)) - CashPaid(receipt[r], c) + CashPaid(row, c)
    BY <1>6, <1>7, TillReceipt
  <2>4. CashPaid(receipt[r], c) = 0 /\ CashPaid(row, c) = IF c = c0 /\ w.cash > 0 THEN w.cash ELSE 0
    BY <1>4, <1>6, <1>7 DEF CashPaid
  <2>5. TakenToday(bill', receipt', c) = SumFunction(Cashed(bill, c)) + SumFunction(CashIn(receipt', c))
    BY <1>9 DEF TakenToday
  <2>6. CASE c = c0 /\ w.cash > 0
    <3>1. SumFunction(Cashed(bill, c)) + SumFunction(CashIn(receipt, c)) + w.cash < Limit
      BY <1>4, <2>6 DEF TakenToday
    <3> QED
      BY <1>3, <2>1, <2>3, <2>4, <2>5, <2>6, <3>1
  <2>7. CASE ~(c = c0 /\ w.cash > 0)
    BY <2>1, <2>2, <2>3, <2>4, <2>5, <2>7
  <2> QED
    BY <2>6, <2>7
<1>11. ASSUME NEW c \in Buyers PROVE credit'[c] + SumFunction(GoldBack(bill', c)) >= 0
  <2>1. credit[c] + SumFunction(GoldBack(bill, c)) >= 0 /\ SumFunction(GoldBack(bill, c)) \in Nat /\ credit[c] \in Int
    BY <1>2, TillSums DEF TillInv
  <2>2. SumFunction(GoldBack(bill', c)) = SumFunction(GoldBack(bill, c))
    BY <1>9
  <2>3. credit'[c] = IF c = c0 THEN credit[c] + amount - cleared ELSE credit[c]
    BY <1>1, <1>2
  <2> QED
    BY <1>3, <1>5, <2>1, <2>2, <2>3
<1> QED
  BY <1>8, <1>10, <1>11 DEF TillInv

LEMMA SaveCancelReceiptTill ==
  ASSUME OneAtATime, BooksInv, TillInv, NEW s \in Sessions, SaveCancelReceipt(s) PROVE TillInv'
<1> DEFINE r == work[s].doc
           was == receipt[r]
           c0 == was.customer
           row == [receipt[r] EXCEPT !.status = "cancelled"]
<1>1. /\ work[s].kind = "cancelReceipt" /\ work[s].pc = "ready"
      /\ receipt' = [receipt EXCEPT ![r] = row]
      /\ bill' = [i \in Bills |-> [bill[i] EXCEPT !.balance = bill[i].balance + was.to[i]]]
      /\ credit' = [credit EXCEPT ![c0] = credit[c0] - was.advance]
      /\ work' = [work EXCEPT ![s] = Idle]
  BY DEF SaveCancelReceipt, Done
<1>2. r \in Receipts /\ was.status = "posted" /\ StillFits(work[s], bill, receipt, credit)
  BY <1>1 DEF BooksInv, WorkTold, Cancelling, TillInv
<1>3. bill \in [Bills -> BillRows] /\ was \in ReceiptRows /\ credit \in [Buyers -> Int]
  BY <1>2, TypeFacts DEF BooksInv
<1>4. c0 \in Buyers /\ was.advance \in Nat
  BY <1>3, ReceiptFields
<1>5. was.advance <= credit[c0] \/ was.advance = 0
  BY <1>1, <1>2 DEF StillFits
<1>6. row \in ReceiptRows /\ row.status = "cancelled"
  BY <1>3 DEF ReceiptRows
<1>7. \A c : Cashed(bill', c) = Cashed(bill, c) /\ GoldBack(bill', c) = GoldBack(bill, c)
  <2> DEFINE to == [i \in Bills |-> bill[i].balance + was.to[i]]
  <2>1. bill' = [i \in Bills |-> [bill[i] EXCEPT !.balance = to[i]]]
    BY <1>1
  <2> HIDE DEF to
  <2> QED
    BY <1>3, <2>1, BalanceOnly
<1> HIDE DEF row, was, c0, r
<1>8. \A t \in Sessions : StillFits(work'[t], bill', receipt', credit')
  BY <1>1, NothingPending
<1>9. ASSUME NEW c \in Customers PROVE TakenToday(bill', receipt', c) < Limit
  <2>1. /\ SumFunction(Cashed(bill, c)) \in Nat /\ SumFunction(CashIn(receipt, c)) \in Nat /\ Limit \in Nat
        /\ CashPaid(receipt[r], c) \in Nat
    BY <1>2, TillSums, MoneyAssumption
  <2>2. SumFunction(Cashed(bill, c)) + SumFunction(CashIn(receipt, c)) < Limit
    BY DEF TillInv, TakenToday
  <2>3. SumFunction(CashIn(receipt', c)) = SumFunction(CashIn(receipt, c)) - CashPaid(receipt[r], c) + CashPaid(row, c)
    BY <1>1, <1>2, <1>6, TillReceipt
  <2>4. CashPaid(row, c) = 0
    BY <1>6 DEF CashPaid
  <2>5. TakenToday(bill', receipt', c) = SumFunction(Cashed(bill, c)) + SumFunction(CashIn(receipt', c))
    BY <1>7 DEF TakenToday
  <2> QED
    BY <2>1, <2>2, <2>3, <2>4, <2>5
<1>10. ASSUME NEW c \in Buyers PROVE credit'[c] + SumFunction(GoldBack(bill', c)) >= 0
  <2>1. credit[c] + SumFunction(GoldBack(bill, c)) >= 0 /\ SumFunction(GoldBack(bill, c)) \in Nat /\ credit[c] \in Int
    BY <1>3, TillSums DEF TillInv
  <2>2. SumFunction(GoldBack(bill', c)) = SumFunction(GoldBack(bill, c))
    BY <1>7
  <2>3. credit'[c] = IF c = c0 THEN credit[c] - was.advance ELSE credit[c]
    BY <1>1, <1>3
  <2>4. c = c0 => was.advance <= credit[c] \/ was.advance = 0
    BY <1>5
  <2> QED
    BY <1>4, <2>1, <2>2, <2>3, <2>4
<1> QED
  BY <1>8, <1>9, <1>10 DEF TillInv

LEMMA TillNextInv == OneAtATime /\ BooksInv /\ TillInv /\ [Next]_vars => TillInv'
<1> SUFFICES ASSUME OneAtATime, BooksInv, TillInv, [Next]_vars PROVE TillInv'
  OBVIOUS
<1>1. CASE UNCHANGED vars
  BY <1>1 DEF vars, TillInv
<1>2. CASE Next
  <2>1. PICK s \in Sessions :
          \/ ResolveLines(s) \/ TakePayment(s) \/ SaveBill(s)
          \/ \E i \in Bills : cancelInvoice(s, i) \/ createSalesReturn(s, i)
          \/ BeginReceipt(s) \/ SaveReceipt(s)
          \/ \E r \in Receipts : BeginCancelReceipt(s, r)
          \/ SaveCancelReceipt(s)
          \/ createMemo(s)
          \/ \E m \in Memos : BeginBringBack(s, m)
          \/ SaveBringBack(s)
          \/ Rollback(s)
    BY <1>2 DEF Next
  <2> QED
    BY <2>1, ResolveLinesTill, TakePaymentTill, SaveBillTill, cancelInvoiceTill, createSalesReturnTill, BeginReceiptTill,
       SaveReceiptTill, BeginCancelReceiptTill, SaveCancelReceiptTill, BeginBringBackTill, RestTill
<1> QED
  BY <1>1, <1>2

\* What CreditCovered adds up.
LEMMA GoldBackSum ==
  ASSUME BooksInv, NEW c
  PROVE  SumFunctionOnSet([i \in Bills |-> bill[i].gold - bill[i].applied],
                          {i \in Bills : bill[i].status = "cancelled" /\ bill[i].customer = c}) = SumFunction(GoldBack(bill, c))
<1> DEFINE f == [i \in Bills |-> bill[i].gold - bill[i].applied]
           e == GoldBack(bill, c)
           R == {i \in Bills : bill[i].status = "cancelled" /\ bill[i].customer = c}
<1>1. \A i \in Bills : bill[i].gold - bill[i].applied \in Int
  <2>1. \A i \in Bills : bill[i].gold \in Nat /\ bill[i].applied \in Nat
    BY TypeFacts, BillFields DEF BooksInv
  <2> QED
    BY <2>1
<1>2. IsFiniteSet(Bills) /\ R \in SUBSET Bills /\ DOMAIN e = Bills
  BY SalesFinite DEF GoldBack
<1>3. \A i \in R : f[i] \in Int /\ e[i] = f[i]
  BY <1>1 DEF GoldBack, GoldOf
<1>4. \A i \in Bills \ R : e[i] = 0
  BY DEF GoldBack, GoldOf
<1> HIDE DEF f, e, R
<1>5. SumFunctionOnSet(f, R) = SumFunctionOnSet(e, Bills)
  BY <1>2, <1>3, <1>4, SumOfPart
<1>6. SumFunctionOnSet(f, R) = SumFunction(e)
  BY <1>2, <1>5 DEF SumFunction
<1> QED
  BY <1>6 DEF f, e, R

LEMMA TillEver == OneAtATime => (Spec => []BooksInv /\ []TillInv)
<1> SUFFICES ASSUME OneAtATime PROVE Spec => []BooksInv /\ []TillInv
  OBVIOUS
<1>1. BooksInv /\ TillInv /\ [Next]_vars => TillInv'
  BY TillNextInv
<1> QED
  BY <1>1, TillInitInv, BooksEver, PTL DEF Spec

\* At one till, cash from one named customer stays below the limit of section 269ST on the
\* day, over bills and receipts.  Two tills can each find the other's cash not yet saved.
THEOREM CashWithinLimitEver == OneAtATime => (Spec => []CashWithinLimit)
<1>1. BooksInv /\ TillInv => CashWithinLimit
  BY TakenNow DEF TillInv, CashWithinLimit
<1> QED
  BY <1>1, TillEver, PTL

\* At one till, credit is never spent twice: a customer's credit is below zero by no more
\* than the old gold given back on cancelled bills that had left a credit.
THEOREM CreditCoveredEver == OneAtATime => (Spec => []CreditCovered)
<1>1. BooksInv /\ TillInv => CreditCovered
  BY GoldBackSum DEF TillInv, CreditCovered
<1> QED
  BY <1>1, TillEver, PTL

-------------------------------------------------------------------------------
\* Who has a piece.  The memo a checkout read stays the one the piece is out on: nobody else
\* is at work, or there is no other memo.
Undisturbed == OneAtATime \/ MaxMemos <= 1

Has(row, p) == row.status = "posted" /\ p \in row.pieces /\ p \notin row.back

OutFor(row, p) == p \in row.pieces /\ p \notin row.back /\ row.billed[p] = None

\* A piece is where one document has it.
PieceTold(p, status, bills, memos) ==
  /\ \A i \in Bills : Has(bills[i], p) => status = "sold" /\ \A j \in Bills : Has(bills[j], p) => i = j
  /\ status = "sold" => \E i \in Bills : Has(bills[i], p)
  /\ \A m \in Memos : OutFor(memos[m], p) => status = "on_memo" /\ \A n \in Memos : OutFor(memos[n], p) => m = n
  /\ status = "on_memo" => \E m \in Memos : OutFor(memos[m], p)

\* A line is on a bill for its piece, which stands and is the memo's customer's.
LineTold(p, row, bills) ==
  row.billed[p] # None =>
    /\ p \in row.pieces /\ p \notin row.back /\ row.billed[p] \in Bills
    /\ bills[row.billed[p]].status = "posted" /\ p \in bills[row.billed[p]].pieces
    /\ bills[row.billed[p]].customer = row.customer

OneLine(p, memos) ==
  \A m, n \in Memos : memos[m].billed[p] # None /\ memos[m].billed[p] = memos[n].billed[p] => m = n

HandsTold(pieces, bills, memos) ==
  /\ \A p \in Pieces : PieceTold(p, pieces[p], bills, memos) /\ OneLine(p, memos)
  /\ \A p \in Pieces, m \in Memos : LineTold(p, memos[m], bills)
  /\ \A m \in Memos : memos[m].status = "none" => memos[m] = NoMemo

\* What a request is about to move is where it read it to be.
TakingTold(w, pieces, memos) ==
  /\ w.pc # "idle" /\ w.kind = "checkout" => \A p \in Pieces : w.memoOf[p] # None =>
       /\ p \in w.pieces /\ memos[w.memoOf[p]].status # "none" /\ memos[w.memoOf[p]].customer = w.customer
       /\ pieces[p] = "on_memo" => OutFor(memos[w.memoOf[p]], p)
  /\ w.pc = "ready" /\ w.kind = "checkout" => \A p \in w.pieces :
       /\ pieces[p] \in {"in_stock", "on_memo"}
       /\ w.memoOf[p] # None <=> pieces[p] = "on_memo"
  /\ w.pc = "ready" /\ w.kind = "bringBack" => \A p \in w.pieces : OutFor(memos[w.doc], p)

\* Two requests do not hold one piece.
Apart(requests) ==
  \A s, t \in Sessions : s # t /\ requests[s].pc = "ready" /\ requests[t].pc = "ready" =>
    requests[s].pieces \cap requests[t].pieces = {}

CustodyInv ==
  /\ HandsTold(piece, bill, memo)
  /\ \A s \in Sessions : TakingTold(work[s], piece, memo)
  /\ Apart(work)

LEMMA CustodyInitInv == Init => CustodyInv
<1> SUFFICES ASSUME Init PROVE CustodyInv
  OBVIOUS
<1> USE DEF Init
<1>1. HandsTold(piece, bill, memo)
  <2>1. \A p \in Pieces : PieceTold(p, piece[p], bill, memo)
    BY DEF PieceTold, Has, OutFor, NoBill, NoMemo
  <2>2. \A p \in Pieces : OneLine(p, memo) /\ \A m \in Memos : LineTold(p, memo[m], bill)
    BY DEF OneLine, LineTold, NoMemo
  <2> QED
    BY <2>1, <2>2 DEF HandsTold
<1>2. \A s \in Sessions : work[s].pc = "idle"
  BY IdleTold
<1>3. (\A s \in Sessions : TakingTold(work[s], piece, memo)) /\ Apart(work)
  BY <1>2 DEF TakingTold, Apart
<1> QED
  BY <1>1, <1>3 DEF CustodyInv

\* The documents stay as they are but for what is owed on them.
LEMMA HandsKept ==
  ASSUME HandsTold(piece, bill, memo), piece' = piece, memo' = memo,
         \A i \in Bills : /\ bill'[i].status = bill[i].status /\ bill'[i].customer = bill[i].customer
                          /\ bill'[i].pieces = bill[i].pieces /\ bill'[i].back = bill[i].back
  PROVE  HandsTold(piece', bill', memo')
<1>1. \A i \in Bills : \A p \in Pieces : Has(bill'[i], p) <=> Has(bill[i], p)
  BY DEF Has
<1>2. \A p \in Pieces : PieceTold(p, piece'[p], bill', memo')
  BY <1>1 DEF HandsTold, PieceTold
<1>3. \A p \in Pieces, m \in Memos : LineTold(p, memo'[m], bill')
  BY DEF HandsTold, LineTold
<1> QED
  BY <1>2, <1>3 DEF HandsTold

\* What a request under way holds is not sold.
LEMMA HeldHere ==
  ASSUME BooksInv, CustodyInv, NEW t \in Sessions, work[t].pc = "ready", work[t].kind \in {"checkout", "bringBack"},
         NEW p \in work[t].pieces
  PROVE  p \in Pieces /\ piece[p] # "sold" /\ \A i \in Bills : ~Has(bill[i], p)
<1>1. work[t] \in Requests /\ TakingTold(work[t], piece, memo) /\ (work[t].kind = "bringBack" => work[t].doc \in Memos)
  BY TypeFacts DEF BooksInv, CustodyInv, WorkTold
<1>2. p \in Pieces
  BY <1>1, RequestFields
<1>3. PieceTold(p, piece[p], bill, memo)
  BY <1>2 DEF CustodyInv, HandsTold
<1>4. piece[p] # "sold"
  BY <1>1, <1>3 DEF TakingTold, PieceTold
<1> QED
  BY <1>2, <1>3, <1>4 DEF PieceTold

\* What other requests read or hold is as they left it.
LEMMA OthersTold ==
  ASSUME Undisturbed, BooksInv, CustodyInv, NEW s \in Sessions, NEW t \in Sessions, t # s,
         \A m \in Memos : memo[m].status # "none" => memo'[m].status # "none" /\ memo'[m].customer = memo[m].customer,
         work[t].pc = "ready" /\ work[t].kind \in {"checkout", "bringBack"} => \A p \in work[t].pieces :
            piece'[p] = piece[p] /\ \A m \in Memos : OutFor(memo[m], p) => OutFor(memo'[m], p),
         \A p \in Pieces : PieceTold(p, piece'[p], bill', memo')
  PROVE  TakingTold(work[t], piece', memo')
<1>1. /\ work[t] \in Requests /\ TakingTold(work[t], piece, memo) /\ (work[t].kind = "bringBack" => work[t].doc \in Memos)
      /\ work[t].memoOf \in [Pieces -> Memos \cup {None}]
  BY TypeFacts, RequestFields DEF BooksInv, CustodyInv, WorkTold
<1>2. \A m, n \in Memos : m = n
  BY BoundAssumption DEF Undisturbed, OneAtATime, Memos
<1>3. ASSUME work[t].pc # "idle", work[t].kind = "checkout", NEW p \in Pieces, work[t].memoOf[p] # None
      PROVE  /\ p \in work[t].pieces /\ memo'[work[t].memoOf[p]].status # "none"
             /\ memo'[work[t].memoOf[p]].customer = work[t].customer
             /\ piece'[p] = "on_memo" => OutFor(memo'[work[t].memoOf[p]], p)
  <2>1. work[t].memoOf[p] \in Memos
    BY <1>1, <1>3
  <2>2. /\ p \in work[t].pieces /\ memo[work[t].memoOf[p]].status # "none"
        /\ memo[work[t].memoOf[p]].customer = work[t].customer
    BY <1>1, <1>3 DEF TakingTold
  <2>3. ASSUME piece'[p] = "on_memo" PROVE OutFor(memo'[work[t].memoOf[p]], p)
    <3>1. \E m \in Memos : OutFor(memo'[m], p)
      BY <2>3 DEF PieceTold
    <3> QED
      BY <1>2, <2>1, <3>1
  <2> QED
    BY <2>1, <2>2, <2>3
<1>4. ASSUME work[t].pc = "ready", work[t].kind = "checkout", NEW p \in work[t].pieces
      PROVE  piece'[p] \in {"in_stock", "on_memo"} /\ (work[t].memoOf[p] # None <=> piece'[p] = "on_memo")
  BY <1>1, <1>4 DEF TakingTold
<1>5. ASSUME work[t].pc = "ready", work[t].kind = "bringBack", NEW p \in work[t].pieces
      PROVE  OutFor(memo'[work[t].doc], p)
  BY <1>1, <1>5 DEF TakingTold
<1> QED
  BY <1>3, <1>4, <1>5 DEF TakingTold

\* A request that goes on, or ends, while every piece stays where it is.
LEMMA CustodyRequest ==
  ASSUME Undisturbed, BooksInv, CustodyInv, HandsTold(piece', bill', memo'), piece' = piece, memo' = memo,
         NEW s \in Sessions, NEW w, work' = [work EXCEPT ![s] = w], TakingTold(w, piece, memo),
         w.pc = "ready" => \A t \in Sessions \ {s} : work[t].pc = "ready" => w.pieces \cap work[t].pieces = {}
  PROVE  CustodyInv'
<1>1. work \in [Sessions -> Requests]
  BY TypeFacts DEF BooksInv
<1>2. \A t \in Sessions : work'[t] = IF t = s THEN w ELSE work[t]
  BY <1>1
<1>3. \A t \in Sessions : TakingTold(work'[t], piece', memo')
  BY <1>2 DEF CustodyInv
<1>4. Apart(work')
  BY <1>2 DEF CustodyInv, Apart
<1> QED
  BY <1>3, <1>4 DEF CustodyInv

LEMMA HandsSame ==
  ASSUME CustodyInv, UNCHANGED <<piece, bill, memo>>
  PROVE  HandsTold(piece', bill', memo')
BY HandsKept DEF CustodyInv

LEMMA ResolveLinesCustody ==
  ASSUME Undisturbed, BooksInv, CustodyInv, NEW s \in Sessions, ResolveLines(s) PROVE CustodyInv'
<1>1. PICK c \in Buyers, set \in (SUBSET Pieces) \ {{}}, of \in [Pieces -> Memos \cup {None}] :
         /\ \A p \in Pieces :
              IF p \in set /\ MemoFor(p, c) # {} THEN of[p] \in MemoFor(p, c) ELSE of[p] = None
         /\ work' = [work EXCEPT ![s] = [Idle EXCEPT !.pc = "lines", !.customer = c, !.pieces = set, !.memoOf = of]]
         /\ UNCHANGED <<piece, bill, receipt, memo, owed, credit>>
  BY ZenonT(30) DEF ResolveLines
<1> DEFINE w == [Idle EXCEPT !.pc = "lines", !.customer = c, !.pieces = set, !.memoOf = of]
<1>2. w.pc = "lines" /\ w.customer = c /\ w.pieces = set /\ w.memoOf = of
  BY DEF Idle
<1>3. work' = [work EXCEPT ![s] = w]
  BY <1>1
<1> HIDE DEF w
<1>4. ASSUME NEW p \in Pieces, of[p] # None
      PROVE  p \in set /\ memo[of[p]].status # "none" /\ memo[of[p]].customer = c /\ OutFor(memo[of[p]], p)
  <2>1. p \in set /\ of[p] \in MemoFor(p, c)
    BY <1>1, <1>4
  <2> QED
    BY <2>1 DEF MemoFor, Out, OutFor
<1>5. TakingTold(w, piece, memo)
  BY <1>2, <1>4 DEF TakingTold
<1>6. HandsTold(piece', bill', memo')
  BY <1>1, HandsSame
<1> QED
  BY <1>1, <1>2, <1>3, <1>5, <1>6, CustodyRequest

LEMMA TakePaymentCustody ==
  ASSUME Undisturbed, BooksInv, CustodyInv, NEW s \in Sessions, TakePayment(s) PROVE CustodyInv'
<1> DEFINE of == [p \in Pieces |-> IF piece[p] = "on_memo" THEN work[s].memoOf[p] ELSE None]
           closes == closedBy([m \in Memos |-> {p \in work[s].pieces : of[p] = m}])
<1>1. PICK cash \in Amounts, bank \in Amounts, spent \in Amounts, gold \in GoldValues :
         /\ work[s].pc = "lines" /\ Free(work[s].pieces)
         /\ \A p \in work[s].pieces : Sellable(p, work[s].memoOf[p])
         /\ work' = [work EXCEPT ![s] =
              [work[s] EXCEPT !.pc = "ready", !.memoOf = of, !.closes = closes,
                              !.cash = cash, !.bank = bank, !.credit = spent, !.gold = gold]]
         /\ UNCHANGED <<piece, bill, receipt, memo, owed, credit>>
  BY ZenonT(30) DEF TakePayment
<1> DEFINE w == [work[s] EXCEPT !.pc = "ready", !.memoOf = of, !.closes = closes,
                                !.cash = cash, !.bank = bank, !.credit = spent, !.gold = gold]
<1>2. work[s] \in Requests /\ work[s].kind = "checkout" /\ TakingTold(work[s], piece, memo)
  BY <1>1, TypeFacts DEF BooksInv, WorkTold, CustodyInv
<1>3. work[s].pieces \in SUBSET Pieces /\ work[s].memoOf \in [Pieces -> Memos \cup {None}]
  BY <1>2, RequestFields
<1>4. /\ w.pc = "ready" /\ w.kind = "checkout" /\ w.customer = work[s].customer /\ w.pieces = work[s].pieces
      /\ w.memoOf = of
  BY <1>2 DEF Requests
<1>5. work' = [work EXCEPT ![s] = w]
  BY <1>1
<1>6. \A p \in Pieces : of[p] = IF piece[p] = "on_memo" THEN work[s].memoOf[p] ELSE None
  OBVIOUS
<1> HIDE DEF w, of
<1>7. ASSUME NEW p \in Pieces, of[p] # None
      PROVE  /\ p \in work[s].pieces /\ memo[of[p]].status # "none" /\ memo[of[p]].customer = work[s].customer
             /\ OutFor(memo[of[p]], p)
  <2>1. piece[p] = "on_memo" /\ of[p] = work[s].memoOf[p]
    BY <1>6, <1>7
  <2> QED
    BY <1>1, <1>2, <1>7, <2>1 DEF TakingTold
<1>8. ASSUME NEW p \in work[s].pieces
      PROVE  piece[p] \in {"in_stock", "on_memo"} /\ (of[p] # None <=> piece[p] = "on_memo")
  BY <1>1, <1>3, <1>6 DEF Sellable
<1>9. TakingTold(w, piece, memo)
  BY <1>4, <1>7, <1>8 DEF TakingTold
<1>10. \A t \in Sessions \ {s} : work[t].pc = "ready" => w.pieces \cap work[t].pieces = {}
  BY <1>1, <1>4 DEF Free, HoldsPiece
<1>11. HandsTold(piece', bill', memo')
  BY <1>1, HandsSame
<1> QED
  BY <1>1, <1>5, <1>9, <1>10, <1>11, CustodyRequest

LEMMA BeginReceiptCustody ==
  ASSUME Undisturbed, BooksInv, CustodyInv, NEW s \in Sessions, BeginReceipt(s) PROVE CustodyInv'
<1>1. PICK c \in Customers, amount \in Amounts \ {0}, cash \in BOOLEAN :
         /\ work' = [work EXCEPT ![s] =
              [Idle EXCEPT !.pc = "ready", !.kind = "receipt", !.customer = c,
                           !.cash = IF cash THEN amount ELSE 0, !.bank = IF cash THEN 0 ELSE amount]]
         /\ UNCHANGED <<piece, bill, receipt, memo, owed, credit>>
  BY DEF BeginReceipt
<1> DEFINE w == [Idle EXCEPT !.pc = "ready", !.kind = "receipt", !.customer = c,
                             !.cash = IF cash THEN amount ELSE 0, !.bank = IF cash THEN 0 ELSE amount]
<1>2. w.kind = "receipt" /\ w.pieces = {}
  BY DEF Idle
<1>3. work' = [work EXCEPT ![s] = w]
  BY <1>1
<1> HIDE DEF w
<1>4. TakingTold(w, piece, memo)
  BY <1>2 DEF TakingTold
<1>5. HandsTold(piece', bill', memo')
  BY <1>1, HandsSame
<1>6. \A t \in Sessions \ {s} : w.pieces \cap work[t].pieces = {}
  BY <1>2
<1> QED
  BY <1>1, <1>3, <1>4, <1>5, <1>6, CustodyRequest

LEMMA BeginCancelReceiptCustody ==
  ASSUME Undisturbed, BooksInv, CustodyInv, NEW s \in Sessions, NEW r \in Receipts, BeginCancelReceipt(s, r) PROVE CustodyInv'
<1> DEFINE w == [Idle EXCEPT !.pc = "ready", !.kind = "cancelReceipt", !.doc = r]
<1>1. work' = [work EXCEPT ![s] = w] /\ UNCHANGED <<piece, bill, receipt, memo, owed, credit>>
  BY DEF BeginCancelReceipt
<1>2. w.kind = "cancelReceipt" /\ w.pieces = {}
  BY DEF Idle
<1> HIDE DEF w
<1>3. TakingTold(w, piece, memo)
  BY <1>2 DEF TakingTold
<1>4. HandsTold(piece', bill', memo')
  BY <1>1, HandsSame
<1>5. \A t \in Sessions \ {s} : w.pieces \cap work[t].pieces = {}
  BY <1>2
<1> QED
  BY <1>1, <1>3, <1>4, <1>5, CustodyRequest

LEMMA BeginBringBackCustody ==
  ASSUME Undisturbed, BooksInv, CustodyInv, NEW s \in Sessions, NEW m \in Memos, BeginBringBack(s, m) PROVE CustodyInv'
<1>1. PICK set \in (SUBSET Out(m)) \ {{}} :
         /\ Free(set)
         /\ work' = [work EXCEPT ![s] =
              [Idle EXCEPT !.pc = "ready", !.kind = "bringBack", !.doc = m, !.pieces = set,
                           !.closes = IF Out(m) = set THEN {m} ELSE {}]]
         /\ UNCHANGED <<piece, bill, receipt, memo, owed, credit>>
  BY DEF BeginBringBack
<1> DEFINE w == [Idle EXCEPT !.pc = "ready", !.kind = "bringBack", !.doc = m, !.pieces = set,
                             !.closes = IF Out(m) = set THEN {m} ELSE {}]
<1>2. w.kind = "bringBack" /\ w.pieces = set /\ w.doc = m
  BY DEF Idle
<1>3. work' = [work EXCEPT ![s] = w]
  BY <1>1
<1> HIDE DEF w
<1>4. \A p \in set : OutFor(memo[m], p)
  BY DEF Out, OutFor
<1>5. TakingTold(w, piece, memo)
  BY <1>2, <1>4 DEF TakingTold
<1>6. HandsTold(piece', bill', memo')
  BY <1>1, HandsSame
<1>7. \A t \in Sessions \ {s} : work[t].pc = "ready" => w.pieces \cap work[t].pieces = {}
  BY <1>1, <1>2 DEF Free, HoldsPiece
<1> QED
  BY <1>1, <1>3, <1>5, <1>6, <1>7, CustodyRequest

\* A request that ends without moving a piece.
LEMMA DoneCustody ==
  ASSUME Undisturbed, BooksInv, CustodyInv, NEW s \in Sessions, work' = [work EXCEPT ![s] = Idle],
         HandsTold(piece', bill', memo'), piece' = piece, memo' = memo
  PROVE  CustodyInv'
<1>1. TakingTold(Idle, piece, memo) /\ Idle.pc # "ready"
  BY IdleTold DEF TakingTold
<1> QED
  BY <1>1, CustodyRequest

LEMMA RollbackCustody ==
  ASSUME Undisturbed, BooksInv, CustodyInv, NEW s \in Sessions, Rollback(s) PROVE CustodyInv'
BY HandsSame, DoneCustody DEF Rollback, Done

\* Balances alone changed.
LEMMA HandsOfRest ==
  ASSUME BooksInv, NEW left, bill' = [i \in Bills |-> [bill[i] EXCEPT !.balance = left[i]]], NEW i \in Bills
  PROVE  /\ bill'[i].status = bill[i].status /\ bill'[i].customer = bill[i].customer
         /\ bill'[i].pieces = bill[i].pieces /\ bill'[i].back = bill[i].back
<1>1. bill[i] \in BillRows /\ bill'[i] = [bill[i] EXCEPT !.balance = left[i]]
  BY TypeFacts DEF BooksInv
<1> QED
  BY <1>1 DEF BillRows

LEMMA ReceiptRests ==
  ASSUME BooksInv, NEW s \in Sessions, SaveReceipt(s) \/ SaveCancelReceipt(s)
  PROVE  /\ work' = [work EXCEPT ![s] = Idle] /\ piece' = piece /\ memo' = memo
         /\ \A i \in Bills : /\ bill'[i].status = bill[i].status /\ bill'[i].customer = bill[i].customer
                             /\ bill'[i].pieces = bill[i].pieces /\ bill'[i].back = bill[i].back
<1>1. work' = [work EXCEPT ![s] = Idle] /\ piece' = piece /\ memo' = memo
  BY DEF SaveReceipt, SaveCancelReceipt, Done
<1>2. \E left : bill' = [i \in Bills |-> [bill[i] EXCEPT !.balance = left[i]]]
  <2>1. CASE SaveReceipt(s)
    <3> DEFINE to == [i \in Bills |-> allocation(work[s].customer, work[s].cash + work[s].bank, i)]
               left == [i \in Bills |-> bill[i].balance - to[i]]
    <3>1. bill' = [i \in Bills |-> [bill[i] EXCEPT !.balance = bill[i].balance - to[i]]]
      BY <2>1 DEF SaveReceipt
    <3> HIDE DEF to
    <3>2. bill' = [i \in Bills |-> [bill[i] EXCEPT !.balance = left[i]]]
      BY <3>1
    <3> HIDE DEF left
    <3> QED
      BY <3>2
  <2>2. CASE SaveCancelReceipt(s)
    <3> DEFINE left == [i \in Bills |-> bill[i].balance + receipt[work[s].doc].to[i]]
    <3>1. bill' = [i \in Bills |-> [bill[i] EXCEPT !.balance = left[i]]]
      BY <2>2 DEF SaveCancelReceipt
    <3> HIDE DEF left
    <3> QED
      BY <3>1
  <2> QED
    BY <2>1, <2>2
<1>3. \A i \in Bills : /\ bill'[i].status = bill[i].status /\ bill'[i].customer = bill[i].customer
                       /\ bill'[i].pieces = bill[i].pieces /\ bill'[i].back = bill[i].back
  <2>1. PICK left : bill' = [i \in Bills |-> [bill[i] EXCEPT !.balance = left[i]]]
    BY <1>2
  <2> QED
    BY <2>1, HandsOfRest
<1> QED
  BY <1>1, <1>3

LEMMA ReceiptCustody ==
  ASSUME Undisturbed, BooksInv, CustodyInv, NEW s \in Sessions, SaveReceipt(s) \/ SaveCancelReceipt(s) PROVE CustodyInv'
<1>1. HandsTold(piece', bill', memo')
  BY ReceiptRests, HandsKept DEF CustodyInv
<1> QED
  BY <1>1, ReceiptRests, DoneCustody

\* What a checkout does to the hands the pieces are in.
LEMMA SaveBillHands ==
  ASSUME BooksInv, CustodyInv, NEW s \in Sessions, SaveBill(s)
  PROVE  /\ work[s].pc = "ready" /\ work[s].kind = "checkout" /\ work[s].pieces \in SUBSET Pieces
         /\ work' = [work EXCEPT ![s] = Idle]
         /\ piece' = [p \in Pieces |-> IF p \in work[s].pieces THEN "sold" ELSE piece[p]]
         /\ \E i \in Bills :
              /\ bill[i].status = "none" /\ \A j \in Bills \ {i} : bill'[j] = bill[j]
              /\ bill'[i].status = "posted" /\ bill'[i].customer = work[s].customer
              /\ bill'[i].pieces = work[s].pieces /\ bill'[i].back = {}
              /\ \A m \in Memos :
                   /\ memo'[m].status = Close(m, s) /\ memo'[m].customer = memo[m].customer
                   /\ memo'[m].pieces = memo[m].pieces /\ memo'[m].back = memo[m].back
                   /\ \A p \in Pieces : memo'[m].billed[p] = IF work[s].memoOf[p] = m THEN i ELSE memo[m].billed[p]
              /\ \A m \in Memos : (\A p \in Pieces : work[s].memoOf[p] # m) /\ memo[m] = NoMemo /\ Close(m, s) = "none" =>
                   memo'[m] = NoMemo
<1>1. PICK i \in Bills :
         /\ bill[i].status = "none" /\ bill' = [bill EXCEPT ![i] = RowNow(work[s])]
         /\ memo' = [m \in Memos |-> [memo[m] EXCEPT
              !.status = Close(m, s),
              !.billed = [p \in Pieces |-> IF work[s].memoOf[p] = m THEN i ELSE memo[m].billed[p]]]]
  BY SaveBillSteps
<1>2. /\ work[s] \in Requests /\ work[s].cash + work[s].bank + work[s].credit <= Worth(work[s].pieces)
      /\ piece' = [p \in Pieces |-> IF p \in work[s].pieces THEN "sold" ELSE piece[p]]
      /\ work' = [work EXCEPT ![s] = Idle]
  BY SaveBillSteps
<1>3. RowNow(work[s]).status = "posted" /\ RowNow(work[s]).customer = work[s].customer
      /\ RowNow(work[s]).back = {} /\ RowNow(work[s]).pieces = work[s].pieces
  BY <1>2, RowSaved
<1>4. (\A j \in Bills \ {i} : bill'[j] = bill[j]) /\ bill'[i] = RowNow(work[s])
  BY <1>1, TypeFacts DEF BooksInv
<1>5. \A m \in Memos : memo'[m] = [memo[m] EXCEPT
              !.status = Close(m, s),
              !.billed = [p \in Pieces |-> IF work[s].memoOf[p] = m THEN i ELSE memo[m].billed[p]]]
  BY <1>1
<1>6. ASSUME NEW m \in Memos
      PROVE  /\ memo'[m].status = Close(m, s) /\ memo'[m].customer = memo[m].customer
             /\ memo'[m].pieces = memo[m].pieces /\ memo'[m].back = memo[m].back
             /\ \A p \in Pieces : memo'[m].billed[p] = IF work[s].memoOf[p] = m THEN i ELSE memo[m].billed[p]
  <2> DEFINE of == work[s].memoOf
             status == Close(m, s)
  <2>1. memo'[m] = [memo[m] EXCEPT !.status = status, !.billed = [p \in Pieces |-> IF of[p] = m THEN i ELSE memo[m].billed[p]]]
    BY <1>5
  <2> HIDE DEF of, status
  <2>2. /\ memo'[m].status = status /\ memo'[m].customer = memo[m].customer
        /\ memo'[m].pieces = memo[m].pieces /\ memo'[m].back = memo[m].back
        /\ \A p \in Pieces : memo'[m].billed[p] = IF of[p] = m THEN i ELSE memo[m].billed[p]
    <3> DEFINE lines == [p \in Pieces |-> IF of[p] = m THEN i ELSE memo[m].billed[p]]
    <3>1. memo[m] \in MemoRows /\ memo'[m] = [memo[m] EXCEPT !.status = status, !.billed = lines]
      BY <2>1, TypeFacts DEF BooksInv
    <3>2. \A p \in Pieces : lines[p] = IF of[p] = m THEN i ELSE memo[m].billed[p]
      OBVIOUS
    <3> HIDE DEF lines
    <3>3. /\ memo'[m].status = status /\ memo'[m].customer = memo[m].customer
          /\ memo'[m].pieces = memo[m].pieces /\ memo'[m].back = memo[m].back /\ memo'[m].billed = lines
      BY <3>1 DEF MemoRows
    <3> QED
      BY <3>2, <3>3
  <2> QED
    BY <2>2 DEF of, status
<1>7. ASSUME NEW m \in Memos, \A p \in Pieces : work[s].memoOf[p] # m, memo[m] = NoMemo, Close(m, s) = "none"
      PROVE  memo'[m] = NoMemo
  <2>1. [p \in Pieces |-> IF work[s].memoOf[p] = m THEN i ELSE memo[m].billed[p]] = NoMemo.billed
    BY <1>7 DEF NoMemo
  <2>2. memo'[m] = [NoMemo EXCEPT !.status = "none", !.billed = NoMemo.billed]
    BY <1>5, <1>7, <2>1
  <2> QED
    BY <2>2 DEF NoMemo
<1>8. work[s].pieces \in SUBSET Pieces /\ work[s].pc = "ready" /\ work[s].kind = "checkout"
  BY <1>2, RequestFields DEF SaveBill
<1>9. bill'[i].status = "posted" /\ bill'[i].customer = work[s].customer
      /\ bill'[i].pieces = work[s].pieces /\ bill'[i].back = {}
  BY <1>3, <1>4
<1> QED
  BY <1>1, <1>2, <1>4, <1>6, <1>7, <1>8, <1>9

LEMMA SaveBillCustody ==
  ASSUME Undisturbed, BooksInv, CustodyInv, NEW s \in Sessions, SaveBill(s) PROVE CustodyInv'
<1> DEFINE w == work[s]
           set == w.pieces
           of == w.memoOf
<1>1. /\ w.pc = "ready" /\ w.kind = "checkout" /\ set \in SUBSET Pieces
      /\ work' = [work EXCEPT ![s] = Idle]
      /\ piece' = [p \in Pieces |-> IF p \in set THEN "sold" ELSE piece[p]]
  BY SaveBillHands
<1>2. PICK i \in Bills :
         /\ bill[i].status = "none" /\ \A j \in Bills \ {i} : bill'[j] = bill[j]
         /\ bill'[i].status = "posted" /\ bill'[i].customer = work[s].customer
         /\ bill'[i].pieces = work[s].pieces /\ bill'[i].back = {}
         /\ \A m \in Memos :
              /\ memo'[m].status = Close(m, s) /\ memo'[m].customer = memo[m].customer
              /\ memo'[m].pieces = memo[m].pieces /\ memo'[m].back = memo[m].back
              /\ \A p \in Pieces : memo'[m].billed[p] = IF work[s].memoOf[p] = m THEN i ELSE memo[m].billed[p]
         /\ \A m \in Memos : (\A p \in Pieces : work[s].memoOf[p] # m) /\ memo[m] = NoMemo /\ Close(m, s) = "none" =>
              memo'[m] = NoMemo
  BY SaveBillHands
<1>3. /\ HandsTold(piece, bill, memo) /\ TakingTold(w, piece, memo) /\ Apart(work) /\ work \in [Sessions -> Requests]
      /\ of \in [Pieces -> Memos \cup {None}]
  BY TypeFacts, RequestFields DEF CustodyInv, BooksInv
<1>4. \A p \in Pieces : of[p] # None => p \in set /\ of[p] \in Memos /\ memo[of[p]].status # "none" /\ memo[of[p]].customer = w.customer
  BY <1>1, <1>3 DEF TakingTold
<1>5. \A p \in set : /\ piece[p] \in {"in_stock", "on_memo"} /\ (of[p] # None <=> piece[p] = "on_memo")
                     /\ (piece[p] = "on_memo" => OutFor(memo[of[p]], p))
  BY <1>1, <1>3 DEF TakingTold
<1>6. None \notin Bills /\ None \notin Memos
  BY SalesFinite
<1>7. \A p \in Pieces, m \in Memos : memo[m].billed[p] # i
  BY <1>2, <1>3, <1>6 DEF HandsTold, LineTold
<1> HIDE DEF w, set, of
<1>8. \A j \in Bills, p \in Pieces : Has(bill'[j], p) <=> IF j = i THEN p \in set ELSE Has(bill[j], p)
  BY <1>2 DEF Has, w, set
<1>9. \A m \in Memos, p \in Pieces : memo'[m].billed[p] = IF of[p] = m THEN i ELSE memo[m].billed[p]
  BY <1>2 DEF w, of
<1>10. \A m \in Memos, p \in Pieces : OutFor(memo'[m], p) <=> OutFor(memo[m], p) /\ of[p] # m
  BY <1>2, <1>6, <1>9 DEF OutFor
<1>11. \A p \in Pieces : piece'[p] = IF p \in set THEN "sold" ELSE piece[p]
  BY <1>1
<1>12. ASSUME NEW p \in Pieces PROVE PieceTold(p, piece'[p], bill', memo')
  <2>1. PieceTold(p, piece[p], bill, memo)
    BY <1>3 DEF HandsTold
  <2>2. ~Has(bill[i], p)
    BY <1>2 DEF Has
  <2>3. CASE p \in set
    <3>1. piece'[p] = "sold" /\ \A j \in Bills : Has(bill'[j], p) <=> j = i
      BY <1>5, <1>8, <1>11, <2>1, <2>3 DEF PieceTold
    <3>2. \A m \in Memos : ~OutFor(memo'[m], p)
      BY <1>4, <1>5, <1>10, <2>1, <2>3 DEF PieceTold
    <3> QED
      BY <3>1, <3>2 DEF PieceTold
  <2>4. CASE p \notin set
    <3>1. piece'[p] = piece[p] /\ \A j \in Bills : Has(bill'[j], p) <=> Has(bill[j], p)
      BY <1>8, <1>11, <2>2, <2>4
    <3>2. \A m \in Memos : OutFor(memo'[m], p) <=> OutFor(memo[m], p)
      BY <1>4, <1>6, <1>10, <2>4
    <3> QED
      BY <2>1, <3>1, <3>2 DEF PieceTold
  <2> QED
    BY <2>3, <2>4
<1>13. ASSUME NEW p \in Pieces PROVE OneLine(p, memo')
  <2>1. OneLine(p, memo)
    BY <1>3 DEF HandsTold
  <2> QED
    BY <1>7, <1>9, <2>1 DEF OneLine
<1>14. ASSUME NEW p \in Pieces, NEW m \in Memos PROVE LineTold(p, memo'[m], bill')
  <2>1. LineTold(p, memo[m], bill) /\ memo[m].billed[p] # i
    BY <1>3, <1>7 DEF HandsTold
  <2>2. memo'[m].pieces = memo[m].pieces /\ memo'[m].back = memo[m].back /\ memo'[m].customer = memo[m].customer
    BY <1>2
  <2>3. CASE of[p] = m
    <3>1. memo'[m].billed[p] = i /\ p \in set /\ memo[m].customer = w.customer
      BY <1>4, <1>6, <1>9, <2>3
    <3>2. OutFor(memo[m], p)
      BY <1>4, <1>5, <1>6, <2>3
    <3>3. bill'[i].status = "posted" /\ p \in bill'[i].pieces /\ bill'[i].customer = w.customer
      BY <1>2, <3>1 DEF w, set
    <3> QED
      BY <2>2, <3>1, <3>2, <3>3 DEF LineTold, OutFor
  <2>4. CASE of[p] # m
    <3>1. memo'[m].billed[p] = memo[m].billed[p]
      BY <1>9, <2>4
    <3> QED
      BY <1>2, <2>1, <2>2, <3>1 DEF LineTold
  <2> QED
    BY <2>3, <2>4
<1>15. ASSUME NEW m \in Memos, memo[m].status # "none"
       PROVE  memo'[m].status # "none" /\ memo'[m].customer = memo[m].customer
  BY <1>2, <1>15 DEF Close
<1>16. ASSUME NEW m \in Memos, memo'[m].status = "none" PROVE memo'[m] = NoMemo
  <2>1. memo[m].status = "none" /\ Close(m, s) = "none"
    BY <1>2, <1>16 DEF Close
  <2>2. memo[m] = NoMemo
    BY <1>3, <2>1 DEF HandsTold
  <2>3. \A p \in Pieces : of[p] # m
    BY <1>4, <1>6, <2>1
  <2> QED
    BY <1>2, <2>1, <2>2, <2>3 DEF w, of
<1>17. HandsTold(piece', bill', memo')
  BY <1>12, <1>13, <1>14, <1>16 DEF HandsTold
<1>18. ASSUME NEW t \in Sessions PROVE TakingTold(work'[t], piece', memo')
  <2>1. CASE t = s
    BY <1>1, <1>3, <2>1, IdleTold DEF TakingTold
  <2>2. CASE t # s
    <3>1. work'[t] = work[t]
      BY <1>1, <1>3, <2>2
    <3>2. work[t].pc = "ready" => work[t].pieces \cap set = {}
      BY <1>1, <1>3, <2>2 DEF Apart, w, set
    <3>3. work[t].pieces \in SUBSET Pieces
      BY <1>3, RequestFields
    <3>4. work[t].pc = "ready" => \A p \in work[t].pieces :
             piece'[p] = piece[p] /\ \A m \in Memos : OutFor(memo[m], p) => OutFor(memo'[m], p)
      BY <1>4, <1>6, <1>10, <1>11, <3>2, <3>3
    <3>5. TakingTold(work[t], piece', memo')
      BY <1>12, <1>15, <2>2, <3>4, OthersTold
    <3> QED
      BY <3>1, <3>5
  <2> QED
    BY <2>1, <2>2
<1>19. Apart(work')
  BY <1>1, <1>3, IdleTold DEF Apart
<1> QED
  BY <1>17, <1>18, <1>19 DEF CustodyInv

\* What undoing a bill does to the hands the pieces are in.
LEMMA CancelHands ==
  ASSUME BooksInv, CustodyInv, NEW s \in Sessions, NEW i \in Bills, cancelInvoice(s, i)
  PROVE  /\ bill[i].status = "posted" /\ bill[i].back = {} /\ bill[i].pieces \in SUBSET Pieces
         /\ (\A j \in Bills \ {i} : bill'[j] = bill[j]) /\ bill'[i].status = "cancelled" /\ work' = work
         /\ piece' = [p \in Pieces |-> IF p \in bill[i].pieces THEN putBack(i, p) ELSE piece[p]]
         /\ \A m \in Memos :
              /\ memo'[m].status = (IF m \in Reopened(i) THEN "open" ELSE memo[m].status)
              /\ memo'[m].customer = memo[m].customer
              /\ memo'[m].pieces = memo[m].pieces /\ memo'[m].back = memo[m].back
              /\ \A p \in Pieces : memo'[m].billed[p] = IF memo[m].billed[p] = i THEN None ELSE memo[m].billed[p]
              /\ memo[m] = NoMemo => memo'[m] = NoMemo
<1>1. /\ bill[i].status = "posted" /\ bill[i].back = {} /\ bill' = [bill EXCEPT ![i] = [bill[i] EXCEPT !.status = "cancelled"]]
      /\ piece' = [p \in Pieces |-> IF p \in bill[i].pieces THEN putBack(i, p) ELSE piece[p]]
      /\ memo' = [m \in Memos |-> [memo[m] EXCEPT
           !.status = IF m \in Reopened(i) THEN "open" ELSE memo[m].status,
           !.billed = [p \in Pieces |-> IF memo[m].billed[p] = i THEN None ELSE memo[m].billed[p]]]]
      /\ work' = work
  BY DEF cancelInvoice
<1>2. bill \in [Bills -> BillRows] /\ bill[i] \in BillRows /\ memo \in [Memos -> MemoRows]
  BY TypeFacts DEF BooksInv
<1>3. bill'[i].status = "cancelled" /\ bill[i].pieces \in SUBSET Pieces /\ \A j \in Bills \ {i} : bill'[j] = bill[j]
  BY <1>1, <1>2 DEF BillRows
<1>4. ASSUME NEW m \in Memos
      PROVE  /\ memo'[m].status = (IF m \in Reopened(i) THEN "open" ELSE memo[m].status)
             /\ memo'[m].customer = memo[m].customer
             /\ memo'[m].pieces = memo[m].pieces /\ memo'[m].back = memo[m].back
             /\ \A p \in Pieces : memo'[m].billed[p] = IF memo[m].billed[p] = i THEN None ELSE memo[m].billed[p]
             /\ memo[m] = NoMemo => memo'[m] = NoMemo
  <2> DEFINE lines == [p \in Pieces |-> IF memo[m].billed[p] = i THEN None ELSE memo[m].billed[p]]
             status == IF m \in Reopened(i) THEN "open" ELSE memo[m].status
  <2>1. memo[m] \in MemoRows /\ memo'[m] = [memo[m] EXCEPT !.status = status, !.billed = lines]
    BY <1>1, <1>2
  <2>2. ASSUME memo[m] = NoMemo PROVE status = "none" /\ lines = NoMemo.billed
    <3>1. \A p \in Pieces : memo[m].billed[p] = None
      BY <2>2 DEF NoMemo
    <3>2. m \notin Reopened(i)
      BY <3>1, SalesFinite DEF Reopened
    <3>3. lines = NoMemo.billed
      BY <3>1 DEF NoMemo
    <3> QED
      BY <2>2, <3>2, <3>3 DEF NoMemo
  <2>3. \A p \in Pieces : lines[p] = IF memo[m].billed[p] = i THEN None ELSE memo[m].billed[p]
    OBVIOUS
  <2> HIDE DEF lines, status
  <2>4. /\ memo'[m].status = status /\ memo'[m].customer = memo[m].customer
        /\ memo'[m].pieces = memo[m].pieces /\ memo'[m].back = memo[m].back /\ memo'[m].billed = lines
    BY <2>1 DEF MemoRows
  <2>5. memo[m] = NoMemo => memo'[m] = NoMemo
    <3> SUFFICES ASSUME memo[m] = NoMemo PROVE memo'[m] = NoMemo
      OBVIOUS
    <3>1. memo'[m] = [NoMemo EXCEPT !.status = "none", !.billed = NoMemo.billed]
      BY <2>1, <2>2
    <3> QED
      BY <3>1 DEF NoMemo
  <2> QED
    BY <2>3, <2>4, <2>5 DEF status
<1> QED
  BY <1>1, <1>3, <1>4

LEMMA cancelInvoiceCustody ==
  ASSUME Undisturbed, BooksInv, CustodyInv, NEW s \in Sessions, NEW i \in Bills, cancelInvoice(s, i) PROVE CustodyInv'
<1> DEFINE set == bill[i].pieces
<1>1. /\ bill[i].status = "posted" /\ bill[i].back = {} /\ set \in SUBSET Pieces
      /\ (\A j \in Bills \ {i} : bill'[j] = bill[j]) /\ bill'[i].status = "cancelled" /\ work' = work
      /\ piece' = [p \in Pieces |-> IF p \in set THEN putBack(i, p) ELSE piece[p]]
  BY CancelHands
<1>2. \A m \in Memos :
              /\ memo'[m].status = (IF m \in Reopened(i) THEN "open" ELSE memo[m].status)
              /\ memo'[m].customer = memo[m].customer
              /\ memo'[m].pieces = memo[m].pieces /\ memo'[m].back = memo[m].back
              /\ \A p \in Pieces : memo'[m].billed[p] = IF memo[m].billed[p] = i THEN None ELSE memo[m].billed[p]
              /\ memo[m] = NoMemo => memo'[m] = NoMemo
  BY CancelHands
<1>3. HandsTold(piece, bill, memo) /\ Apart(work) /\ None \notin Bills
  BY SalesFinite DEF CustodyInv
<1> HIDE DEF set
<1>4. \A p \in Pieces : p \in set <=> Has(bill[i], p)
  BY <1>1 DEF Has, set
<1>5. \A j \in Bills, p \in Pieces : Has(bill'[j], p) <=> Has(bill[j], p) /\ j # i
  BY <1>1 DEF Has
<1>6. \A m \in Memos, p \in Pieces : memo[m].billed[p] = i => p \in set /\ p \in memo[m].pieces /\ p \notin memo[m].back
  BY <1>3 DEF HandsTold, LineTold, set
<1>7. \A m \in Memos, p \in Pieces : OutFor(memo'[m], p) <=> OutFor(memo[m], p) \/ memo[m].billed[p] = i
  BY <1>2, <1>3, <1>6 DEF OutFor
<1>8. \A p \in Pieces : piece'[p] = IF p \in set THEN putBack(i, p) ELSE piece[p]
  BY <1>1
<1>9. ASSUME NEW p \in Pieces PROVE PieceTold(p, piece'[p], bill', memo')
  <2>1. PieceTold(p, piece[p], bill, memo) /\ OneLine(p, memo)
    BY <1>3 DEF HandsTold
  <2>2. CASE p \in set
    <3>1. piece[p] = "sold" /\ \A j \in Bills : ~Has(bill'[j], p)
      BY <1>4, <1>5, <2>1, <2>2 DEF PieceTold
    <3>2. \A m \in Memos : OutFor(memo'[m], p) <=> memo[m].billed[p] = i
      BY <1>7, <2>1, <3>1 DEF PieceTold
    <3>3. piece'[p] = IF \E m \in Memos : memo[m].billed[p] = i THEN "on_memo" ELSE "in_stock"
      BY <1>8, <2>2 DEF putBack
    <3>4. \A m, n \in Memos : memo[m].billed[p] = i /\ memo[n].billed[p] = i => m = n
      BY <1>3, <2>1 DEF OneLine
    <3> QED
      BY <3>1, <3>2, <3>3, <3>4 DEF PieceTold
  <2>3. CASE p \notin set
    <3>1. piece'[p] = piece[p] /\ \A j \in Bills : Has(bill'[j], p) <=> Has(bill[j], p)
      BY <1>4, <1>5, <1>8, <2>3
    <3>2. \A m \in Memos : OutFor(memo'[m], p) <=> OutFor(memo[m], p)
      BY <1>6, <1>7, <2>3
    <3> QED
      BY <2>1, <3>1, <3>2 DEF PieceTold
  <2> QED
    BY <2>2, <2>3
<1>10. ASSUME NEW p \in Pieces PROVE OneLine(p, memo')
  <2>1. OneLine(p, memo)
    BY <1>3 DEF HandsTold
  <2> QED
    BY <1>2, <2>1 DEF OneLine
<1>11. ASSUME NEW p \in Pieces, NEW m \in Memos PROVE LineTold(p, memo'[m], bill')
  <2>1. LineTold(p, memo[m], bill)
    BY <1>3 DEF HandsTold
  <2>2. memo'[m].billed[p] # None => memo'[m].billed[p] = memo[m].billed[p] /\ memo[m].billed[p] # i
    BY <1>2
  <2> QED
    BY <1>1, <1>2, <2>1, <2>2 DEF LineTold
<1>12. ASSUME NEW m \in Memos, memo[m].status # "none"
       PROVE  memo'[m].status # "none" /\ memo'[m].customer = memo[m].customer
  BY <1>2, <1>12
<1>13. ASSUME NEW m \in Memos, memo'[m].status = "none" PROVE memo'[m] = NoMemo
  <2>1. memo[m] = NoMemo
    BY <1>3, <1>12, <1>13 DEF HandsTold
  <2> QED
    BY <1>2, <2>1
<1>14. HandsTold(piece', bill', memo')
  BY <1>9, <1>10, <1>11, <1>13 DEF HandsTold
<1>15. ASSUME NEW t \in Sessions PROVE TakingTold(work'[t], piece', memo')
  <2>1. CASE t = s
    BY <1>1, <2>1 DEF TakingTold, cancelInvoice
  <2>2. CASE t # s
    <3>1. work[t].pc = "ready" /\ work[t].kind \in {"checkout", "bringBack"} => \A p \in work[t].pieces :
             piece'[p] = piece[p] /\ \A m \in Memos : OutFor(memo[m], p) => OutFor(memo'[m], p)
      <4> SUFFICES ASSUME work[t].pc = "ready", work[t].kind \in {"checkout", "bringBack"}, NEW p \in work[t].pieces
                   PROVE  piece'[p] = piece[p] /\ \A m \in Memos : OutFor(memo[m], p) => OutFor(memo'[m], p)
        OBVIOUS
      <4>1. p \in Pieces /\ ~Has(bill[i], p)
        BY HeldHere
      <4> QED
        BY <1>4, <1>7, <1>8, <4>1
    <3>2. TakingTold(work[t], piece', memo')
      BY <1>9, <1>12, <2>2, <3>1, OthersTold
    <3> QED
      BY <1>1, <3>2
  <2> QED
    BY <2>1, <2>2
<1> QED
  BY <1>1, <1>3, <1>14, <1>15 DEF CustodyInv

LEMMA createSalesReturnCustody ==
  ASSUME Undisturbed, BooksInv, CustodyInv, NEW s \in Sessions, NEW i \in Bills, createSalesReturn(s, i) PROVE CustodyInv'
<1>1. PICK set \in SUBSET bill[i].pieces, row \in BillRows, adjusted \in Nat, more \in Nat :
         /\ set # {} /\ set \cap bill[i].back = {}
         /\ row.status = "posted" /\ row.customer = bill[i].customer /\ row.applied = bill[i].applied
         /\ row.gold = bill[i].gold /\ row.cash = bill[i].cash /\ row.pieces = bill[i].pieces
         /\ row.back = bill[i].back \cup set /\ row.balance = bill[i].balance - adjusted
         /\ bill' = [bill EXCEPT ![i] = row]
         /\ owed' = [owed EXCEPT ![bill[i].customer] = owed[bill[i].customer] - adjusted]
         /\ credit' = [credit EXCEPT ![bill[i].customer] = credit[bill[i].customer] + more]
         /\ piece' = [p \in Pieces |-> IF p \in set THEN "in_stock" ELSE piece[p]]
         /\ UNCHANGED <<receipt, memo, work>>
  BY ReturnSteps, Zenon
<1>2. bill[i].status = "posted" /\ work[s].pc = "idle" /\ bill \in [Bills -> BillRows]
  BY ReturnSteps, TypeFacts DEF BooksInv
<1>3. HandsTold(piece, bill, memo) /\ Apart(work)
  BY DEF CustodyInv
<1>4. \A j \in Bills : bill'[j] = IF j = i THEN row ELSE bill[j]
  BY <1>1, <1>2
<1>5. \A p \in set : Has(bill[i], p)
  BY <1>1, <1>2 DEF Has
<1>6. \A j \in Bills, p \in Pieces : Has(bill'[j], p) <=> Has(bill[j], p) /\ ~(j = i /\ p \in set)
  BY <1>1, <1>2, <1>4 DEF Has
<1>7. \A p \in Pieces : piece'[p] = IF p \in set THEN "in_stock" ELSE piece[p]
  BY <1>1
<1>8. memo' = memo /\ work' = work
  BY <1>1
<1>9. ASSUME NEW p \in Pieces PROVE PieceTold(p, piece'[p], bill', memo')
  <2>1. PieceTold(p, piece[p], bill, memo)
    BY <1>3 DEF HandsTold
  <2>2. CASE p \in set
    <3>1. piece[p] = "sold" /\ \A j \in Bills : ~Has(bill'[j], p)
      BY <1>5, <1>6, <2>1, <2>2 DEF PieceTold
    <3>2. \A m \in Memos : ~OutFor(memo'[m], p)
      BY <1>8, <2>1, <3>1 DEF PieceTold
    <3>3. piece'[p] = "in_stock"
      BY <1>7, <2>2
    <3> QED
      BY <3>1, <3>2, <3>3 DEF PieceTold
  <2>3. CASE p \notin set
    <3>1. piece'[p] = piece[p] /\ \A j \in Bills : Has(bill'[j], p) <=> Has(bill[j], p)
      BY <1>6, <1>7, <2>3
    <3> QED
      BY <1>8, <2>1, <3>1 DEF PieceTold
  <2> QED
    BY <2>2, <2>3
<1>10. \A j \in Bills : bill'[j].status = bill[j].status /\ bill'[j].customer = bill[j].customer /\ bill'[j].pieces = bill[j].pieces
  BY <1>1, <1>2, <1>4
<1>11. \A p \in Pieces, m \in Memos : LineTold(p, memo'[m], bill')
  BY <1>3, <1>8, <1>10 DEF HandsTold, LineTold
<1>12. HandsTold(piece', bill', memo')
  BY <1>3, <1>8, <1>9, <1>11 DEF HandsTold
<1>13. ASSUME NEW t \in Sessions PROVE TakingTold(work'[t], piece', memo')
  <2>1. CASE t = s
    BY <1>2, <1>8, <2>1 DEF TakingTold
  <2>2. CASE t # s
    <3>1. work[t].pc = "ready" /\ work[t].kind \in {"checkout", "bringBack"} => \A p \in work[t].pieces :
             piece'[p] = piece[p] /\ \A m \in Memos : OutFor(memo[m], p) => OutFor(memo'[m], p)
      <4> SUFFICES ASSUME work[t].pc = "ready", work[t].kind \in {"checkout", "bringBack"}, NEW p \in work[t].pieces
                   PROVE  piece'[p] = piece[p] /\ \A m \in Memos : OutFor(memo[m], p) => OutFor(memo'[m], p)
        OBVIOUS
      <4>1. p \in Pieces /\ ~Has(bill[i], p)
        BY HeldHere
      <4> QED
        BY <1>5, <1>7, <1>8, <4>1
    <3>2. \A m \in Memos : memo[m].status # "none" => memo'[m].status # "none" /\ memo'[m].customer = memo[m].customer
      BY <1>8
    <3>3. TakingTold(work[t], piece', memo')
      BY <1>9, <2>2, <3>1, <3>2, OthersTold
    <3> QED
      BY <1>8, <3>3
  <2> QED
    BY <2>1, <2>2
<1> QED
  BY <1>3, <1>8, <1>12, <1>13 DEF CustodyInv

\* Pieces go out on a fresh memo.
LEMMA createMemoCustody ==
  ASSUME Undisturbed, BooksInv, CustodyInv, NEW s \in Sessions, createMemo(s) PROVE CustodyInv'
<1>1. PICK c \in Customers, set \in (SUBSET Pieces) \ {{}} :
         /\ work[s].pc = "idle" /\ Free(set) /\ \A p \in set : piece[p] = "in_stock"
         /\ \E m \in Unused(memo, Memos) :
              memo' = [memo EXCEPT ![m] = [NoMemo EXCEPT !.status = "open", !.customer = c, !.pieces = set]]
         /\ piece' = [p \in Pieces |-> IF p \in set THEN "on_memo" ELSE piece[p]]
         /\ UNCHANGED <<bill, receipt, owed, credit, work>>
  BY Zenon DEF createMemo
<1>2. PICK m \in Unused(memo, Memos) :
         memo' = [memo EXCEPT ![m] = [NoMemo EXCEPT !.status = "open", !.customer = c, !.pieces = set]]
  BY <1>1
<1> DEFINE row == [NoMemo EXCEPT !.status = "open", !.customer = c, !.pieces = set]
<1>3. /\ row.status = "open" /\ row.customer = c /\ row.pieces = set /\ row.back = {}
      /\ \A p \in Pieces : row.billed[p] = None
  BY DEF NoMemo
<1>4. HandsTold(piece, bill, memo) /\ Apart(work) /\ memo \in [Memos -> MemoRows]
  BY TypeFacts DEF CustodyInv, BooksInv
<1>5. m \in Memos /\ memo[m].status = "none"
  BY <1>2 DEF Unused
<1>6. memo[m] = NoMemo /\ \A p \in Pieces : ~OutFor(memo[m], p)
  BY <1>4, <1>5 DEF HandsTold, OutFor, NoMemo
<1>7. \A n \in Memos : memo'[n] = IF n = m THEN row ELSE memo[n]
  BY <1>2, <1>4, <1>5
<1> HIDE DEF row
<1>8. \A p \in Pieces : piece'[p] = IF p \in set THEN "on_memo" ELSE piece[p]
  BY <1>1
<1>9. \A n \in Memos, p \in Pieces : OutFor(memo'[n], p) <=> OutFor(memo[n], p) \/ (n = m /\ p \in set)
  BY <1>3, <1>6, <1>7 DEF OutFor
<1>10. bill' = bill /\ work' = work
  BY <1>1
<1>11. \A p \in Pieces, n \in Memos : memo'[n].billed[p] # None => n # m /\ memo'[n] = memo[n]
  BY <1>3, <1>7
<1>12. ASSUME NEW p \in Pieces PROVE PieceTold(p, piece'[p], bill', memo')
  <2>1. PieceTold(p, piece[p], bill, memo)
    BY <1>4 DEF HandsTold
  <2>2. CASE p \in set
    <3>1. piece[p] = "in_stock" /\ piece'[p] = "on_memo"
      BY <1>1, <1>8, <2>2
    <3>2. (\A j \in Bills : ~Has(bill'[j], p)) /\ \A n \in Memos : OutFor(memo'[n], p) <=> n = m
      BY <1>5, <1>9, <1>10, <2>1, <2>2, <3>1 DEF PieceTold
    <3> QED
      BY <1>5, <3>1, <3>2 DEF PieceTold
  <2>3. CASE p \notin set
    <3>1. piece'[p] = piece[p] /\ \A n \in Memos : OutFor(memo'[n], p) <=> OutFor(memo[n], p)
      BY <1>8, <1>9, <2>3
    <3> QED
      BY <1>10, <2>1, <3>1 DEF PieceTold
  <2> QED
    BY <2>2, <2>3
<1>13. ASSUME NEW p \in Pieces PROVE OneLine(p, memo') /\ \A n \in Memos : LineTold(p, memo'[n], bill')
  <2>1. OneLine(p, memo) /\ \A n \in Memos : LineTold(p, memo[n], bill)
    BY <1>4 DEF HandsTold
  <2>2. OneLine(p, memo')
    BY <1>11, <2>1 DEF OneLine
  <2>3. \A n \in Memos : LineTold(p, memo'[n], bill')
    BY <1>10, <1>11, <2>1 DEF LineTold
  <2> QED
    BY <2>2, <2>3
<1>14. \A n \in Memos : memo'[n].status = "none" => memo'[n] = NoMemo
  BY <1>3, <1>4, <1>7 DEF HandsTold
<1>15. HandsTold(piece', bill', memo')
  BY <1>12, <1>13, <1>14 DEF HandsTold
<1>16. \A n \in Memos : memo[n].status # "none" => memo'[n].status # "none" /\ memo'[n].customer = memo[n].customer
  BY <1>5, <1>7
<1>17. ASSUME NEW t \in Sessions PROVE TakingTold(work'[t], piece', memo')
  <2>1. CASE t = s
    BY <1>1, <1>10, <2>1 DEF TakingTold
  <2>2. CASE t # s
    <3>1. work[t].pieces \in SUBSET Pieces
      BY TypeFacts, RequestFields DEF BooksInv
    <3>2. work[t].pc = "ready" => work[t].pieces \cap set = {}
      BY <1>1 DEF Free, HoldsPiece
    <3>3. work[t].pc = "ready" => \A p \in work[t].pieces :
             piece'[p] = piece[p] /\ \A n \in Memos : OutFor(memo[n], p) => OutFor(memo'[n], p)
      BY <1>8, <1>9, <3>1, <3>2
    <3>4. TakingTold(work[t], piece', memo')
      BY <1>12, <1>16, <2>2, <3>3, OthersTold
    <3> QED
      BY <1>10, <3>4
  <2> QED
    BY <2>1, <2>2
<1> QED
  BY <1>4, <1>10, <1>15, <1>17 DEF CustodyInv

LEMMA SaveBringBackCustody ==
  ASSUME Undisturbed, BooksInv, CustodyInv, NEW s \in Sessions, SaveBringBack(s) PROVE CustodyInv'
<1> DEFINE m == work[s].doc
           set == work[s].pieces
           row == [memo[m] EXCEPT !.back = memo[m].back \cup set, !.status = Close(m, s)]
<1>1. /\ work[s].pc = "ready" /\ work[s].kind = "bringBack"
      /\ memo' = [memo EXCEPT ![m] = row]
      /\ piece' = [p \in Pieces |-> IF p \in set THEN "in_stock" ELSE piece[p]]
      /\ work' = [work EXCEPT ![s] = Idle]
      /\ UNCHANGED <<bill, receipt, owed, credit>>
  BY DEF SaveBringBack, Done
<1>2. work[s] \in Requests /\ m \in Memos /\ memo \in [Memos -> MemoRows] /\ work \in [Sessions -> Requests]
  BY <1>1, TypeFacts DEF BooksInv, WorkTold
<1>3. /\ HandsTold(piece, bill, memo) /\ Apart(work) /\ None \notin Bills
      /\ \A p \in set : OutFor(memo[m], p)
  BY <1>1, SalesFinite DEF CustodyInv, TakingTold
<1>4. set \in SUBSET Pieces
  BY <1>2, RequestFields
<1>5. memo[m] \in MemoRows
  BY <1>2
<1>6. /\ row.status = Close(m, s) /\ row.customer = memo[m].customer /\ row.pieces = memo[m].pieces
      /\ row.back = memo[m].back \cup set /\ row.billed = memo[m].billed
  BY <1>5 DEF MemoRows
<1>7. \A n \in Memos : memo'[n] = IF n = m THEN row ELSE memo[n]
  BY <1>1, <1>2
<1> HIDE DEF m, set, row
<1>8. \A p \in Pieces : piece'[p] = IF p \in set THEN "in_stock" ELSE piece[p]
  BY <1>1
<1>9. \A n \in Memos, p \in Pieces : OutFor(memo'[n], p) <=> OutFor(memo[n], p) /\ ~(n = m /\ p \in set)
  BY <1>6, <1>7 DEF OutFor
<1>10. \A n \in Memos : memo'[n].customer = memo[n].customer /\ memo'[n].pieces = memo[n].pieces
                        /\ memo'[n].billed = memo[n].billed
  BY <1>6, <1>7
<1>11. bill' = bill
  BY <1>1
<1>12. ASSUME NEW p \in Pieces PROVE PieceTold(p, piece'[p], bill', memo')
  <2>1. PieceTold(p, piece[p], bill, memo)
    BY <1>3 DEF HandsTold
  <2>2. CASE p \in set
    <3>1. piece[p] = "on_memo" /\ piece'[p] = "in_stock" /\ \A n \in Memos : OutFor(memo[n], p) => n = m
      BY <1>2, <1>3, <1>8, <2>1, <2>2 DEF PieceTold
    <3>2. (\A j \in Bills : ~Has(bill'[j], p)) /\ \A n \in Memos : ~OutFor(memo'[n], p)
      BY <1>9, <1>11, <2>1, <2>2, <3>1 DEF PieceTold
    <3> QED
      BY <3>1, <3>2 DEF PieceTold
  <2>3. CASE p \notin set
    <3>1. piece'[p] = piece[p] /\ \A n \in Memos : OutFor(memo'[n], p) <=> OutFor(memo[n], p)
      BY <1>8, <1>9, <2>3
    <3> QED
      BY <1>11, <2>1, <3>1 DEF PieceTold
  <2> QED
    BY <2>2, <2>3
<1>13. ASSUME NEW p \in Pieces PROVE OneLine(p, memo') /\ \A n \in Memos : LineTold(p, memo'[n], bill')
  <2>1. OneLine(p, memo) /\ \A n \in Memos : LineTold(p, memo[n], bill)
    BY <1>3 DEF HandsTold
  <2>2. OneLine(p, memo')
    BY <1>10, <2>1 DEF OneLine
  <2>3. ASSUME NEW n \in Memos PROVE LineTold(p, memo'[n], bill')
    <3>1. LineTold(p, memo[n], bill)
      BY <2>1
    <3>2. CASE n = m
      <4>1. memo[m].billed[p] # None => p \notin set
        BY <1>3 DEF OutFor
      <4> QED
        BY <1>6, <1>7, <1>10, <1>11, <3>1, <3>2, <4>1 DEF LineTold
    <3>3. CASE n # m
      BY <1>7, <1>11, <3>1, <3>3
    <3> QED
      BY <3>2, <3>3
  <2> QED
    BY <2>2, <2>3
<1>14. ASSUME NEW n \in Memos, memo[n].status # "none" PROVE memo'[n].status # "none" /\ memo'[n].customer = memo[n].customer
  BY <1>6, <1>7, <1>14 DEF Close
<1>15. ASSUME NEW n \in Memos, memo'[n].status = "none" PROVE memo'[n] = NoMemo
  <2>1. memo[n] = NoMemo
    BY <1>3, <1>14, <1>15 DEF HandsTold
  <2>2. CASE n # m
    BY <1>7, <2>1, <2>2
  <2>3. CASE n = m
    <3>1. set = {}
      BY <1>3, <2>1, <2>3 DEF OutFor, NoMemo
    <3>2. Close(m, s) = "none" /\ memo[m].back \cup set = {}
      BY <1>6, <1>7, <1>15, <2>1, <2>3, <3>1 DEF NoMemo
    <3>3. row = [NoMemo EXCEPT !.back = {}, !.status = "none"]
      BY <2>1, <2>3, <3>2 DEF row
    <3>4. row = NoMemo
      BY <3>3 DEF NoMemo
    <3> QED
      BY <1>7, <2>3, <3>4
  <2> QED
    BY <2>2, <2>3
<1>16. HandsTold(piece', bill', memo')
  BY <1>12, <1>13, <1>15 DEF HandsTold
<1>17. ASSUME NEW t \in Sessions PROVE TakingTold(work'[t], piece', memo')
  <2>1. CASE t = s
    BY <1>1, <1>2, <2>1, IdleTold DEF TakingTold
  <2>2. CASE t # s
    <3>1. work'[t] = work[t] /\ work[t].pieces \in SUBSET Pieces
      BY <1>1, <1>2, <2>2, RequestFields
    <3>2. work[t].pc = "ready" => work[t].pieces \cap set = {}
      BY <1>1, <1>3, <2>2 DEF Apart, set
    <3>3. work[t].pc = "ready" => \A p \in work[t].pieces :
             piece'[p] = piece[p] /\ \A n \in Memos : OutFor(memo[n], p) => OutFor(memo'[n], p)
      BY <1>8, <1>9, <3>1, <3>2
    <3>4. TakingTold(work[t], piece', memo')
      BY <1>12, <1>14, <2>2, <3>3, OthersTold
    <3> QED
      BY <3>1, <3>4
  <2> QED
    BY <2>1, <2>2
<1>18. Apart(work')
  BY <1>1, <1>2, <1>3, IdleTold DEF Apart
<1> QED
  BY <1>16, <1>17, <1>18 DEF CustodyInv

LEMMA CustodyNextInv == Undisturbed /\ BooksInv /\ CustodyInv /\ [Next]_vars => CustodyInv'
<1> SUFFICES ASSUME Undisturbed, BooksInv, CustodyInv, [Next]_vars PROVE CustodyInv'
  OBVIOUS
<1>1. CASE UNCHANGED vars
  BY <1>1 DEF vars, CustodyInv
<1>2. CASE Next
  <2>1. PICK s \in Sessions :
          \/ ResolveLines(s) \/ TakePayment(s) \/ SaveBill(s)
          \/ \E i \in Bills : cancelInvoice(s, i) \/ createSalesReturn(s, i)
          \/ BeginReceipt(s) \/ SaveReceipt(s)
          \/ \E r \in Receipts : BeginCancelReceipt(s, r)
          \/ SaveCancelReceipt(s)
          \/ createMemo(s)
          \/ \E m \in Memos : BeginBringBack(s, m)
          \/ SaveBringBack(s)
          \/ Rollback(s)
    BY <1>2 DEF Next
  <2> QED
    BY <2>1, ResolveLinesCustody, TakePaymentCustody, SaveBillCustody, cancelInvoiceCustody, createSalesReturnCustody,
       BeginReceiptCustody, ReceiptCustody, BeginCancelReceiptCustody, createMemoCustody, BeginBringBackCustody,
       SaveBringBackCustody, RollbackCustody
<1> QED
  BY <1>1, <1>2

LEMMA CustodyEver == Undisturbed => (Spec => []BooksInv /\ []CustodyInv)
<1> SUFFICES ASSUME Undisturbed PROVE Spec => []BooksInv /\ []CustodyInv
  OBVIOUS
<1>1. BooksInv /\ CustodyInv /\ [Next]_vars => CustodyInv'
  BY CustodyNextInv
<1> QED
  BY <1>1, CustodyInitInv, BooksEver, PTL DEF Spec

\* What bills and memo lines say, in the words of PieceAccounted.
LEMMA CustodyRows ==
  ASSUME BooksInv, CustodyInv, NEW p \in Pieces
  PROVE  /\ Having(p) = {i \in Bills : Has(bill[i], p)}
         /\ \A m \in Memos : p \in Out(m) <=> OutFor(memo[m], p)
BY DEF Having, Has, Out, OutFor

LEMMA OneOrNone ==
  ASSUME NEW set, NEW yes \in BOOLEAN, yes => set # {}, set # {} => yes, \A x, y \in set : x = y
  PROVE  Cardinality(set) = (IF yes THEN 1 ELSE 0)
<1>1. CASE yes
  <2>1. PICK x \in set : TRUE
    BY <1>1
  <2>2. set = {x}
    BY <2>1
  <2> QED
    BY <1>1, <2>2, FS_Singleton
<1>2. CASE ~yes
  <2>1. set = {}
    BY <1>2
  <2> QED
    BY <1>2, <2>1, FS_EmptySet
<1> QED
  BY <1>1, <1>2

\* A piece is sold exactly when one posted bill has it, on memo exactly when one line is out
\* for it, through sales, returns, cancellations and memos.  With two tills and two memos a
\* checkout can settle the line it read of a memo the piece has left.
THEOREM PieceAccountedEver == Undisturbed => (Spec => []PieceAccounted)
<1>1. ASSUME BooksInv, CustodyInv, NEW p \in Pieces
      PROVE  /\ Cardinality(Having(p)) = (IF piece[p] = "sold" THEN 1 ELSE 0)
             /\ Cardinality({m \in Memos : p \in Out(m)}) = (IF piece[p] = "on_memo" THEN 1 ELSE 0)
  <2> DEFINE bills == {i \in Bills : Has(bill[i], p)}
             memos == {m \in Memos : p \in Out(m)}
             sold == piece[p] = "sold"
             away == piece[p] = "on_memo"
  <2>1. PieceTold(p, piece[p], bill, memo) /\ Having(p) = bills /\ \A m \in Memos : p \in Out(m) <=> OutFor(memo[m], p)
    BY <1>1, CustodyRows DEF CustodyInv, HandsTold
  <2>2. (sold => bills # {}) /\ (bills # {} => sold) /\ \A x, y \in bills : x = y
    BY <2>1 DEF PieceTold
  <2>3. (away => memos # {}) /\ (memos # {} => away) /\ \A x, y \in memos : x = y
    BY <2>1 DEF PieceTold
  <2>4. sold \in BOOLEAN /\ away \in BOOLEAN
    OBVIOUS
  <2> HIDE DEF bills, memos, sold, away
  <2>5. Cardinality(bills) = (IF sold THEN 1 ELSE 0)
    BY <2>2, <2>4, OneOrNone
  <2>6. Cardinality(memos) = (IF away THEN 1 ELSE 0)
    BY <2>3, <2>4, OneOrNone
  <2> QED
    BY <2>1, <2>5, <2>6 DEF memos, sold, away
<1> SUFFICES ASSUME Undisturbed PROVE Spec => []PieceAccounted
  OBVIOUS
<1>2. BooksInv /\ CustodyInv => PieceAccounted
  BY <1>1 DEF PieceAccounted
<1>3. Spec => []BooksInv /\ []CustodyInv
  BY CustodyEver
<1> QED
  BY <1>2, <1>3, PTL

-------------------------------------------------------------------------------
\* The documents implement PieceCustody: where they say a piece is.
Billed(p, i, memos) == \E m \in Memos : memos[m].billed[p] = i

Seen(p, at, bills, memos) ==
  /\ \A i \in Bills : Has(bills[i], p) =>
       at = Custody!Sold(bills[i].customer, IF Billed(p, i, memos) THEN "approval" ELSE "shop")
  /\ \A m \in Memos : OutFor(memos[m], p) => at = Custody!Approval(memos[m].customer)
  /\ (\A i \in Bills : ~Has(bills[i], p)) /\ (\A m \in Memos : ~OutFor(memos[m], p)) => at = Custody!Shop

PlacesSeen == \A p \in Pieces : Seen(p, DocumentedPlace[p], bill, memo)

LEMMA PlaceSeen == BooksInv /\ CustodyInv => PlacesSeen
<1> SUFFICES ASSUME BooksInv, CustodyInv, NEW p \in Pieces PROVE Seen(p, DocumentedPlace[p], bill, memo)
  BY DEF PlacesSeen
<1> DEFINE set == {i \in Bills : Has(bill[i], p)}
           from(i) == IF Billed(p, i, memo) THEN "approval" ELSE "shop"
<1>1. Having(p) = set /\ \A m \in Memos : p \in Out(m) <=> OutFor(memo[m], p)
  BY CustodyRows
<1>2. PieceTold(p, piece[p], bill, memo)
  BY DEF CustodyInv, HandsTold
<1>3. \A i \in set, j \in set : i = j
  BY <1>2 DEF PieceTold
<1>4. \A m, n \in Memos : p \in Out(m) /\ p \in Out(n) => m = n
  BY <1>1, <1>2 DEF PieceTold
<1>5. ASSUME NEW i \in Bills, Has(bill[i], p) PROVE DocumentedPlace[p] = Custody!Sold(bill[i].customer, from(i))
  <2>1. i \in set /\ Having(p) # {} /\ (CHOOSE j \in Having(p) : TRUE) = i
    BY <1>1, <1>3, <1>5
  <2>2. DocumentedPlace[p] = [at |-> "sold", with |-> bill[i].customer, from |-> CameFrom(p, i)]
    BY <2>1, Zenon DEF DocumentedPlace
  <2> QED
    BY <2>2 DEF CameFrom, Billed, Custody!Sold
<1>6. ASSUME NEW m \in Memos, OutFor(memo[m], p) PROVE DocumentedPlace[p] = Custody!Approval(memo[m].customer)
  <2>1. Having(p) = {}
    BY <1>1, <1>2, <1>6 DEF PieceTold
  <2>2. p \in Out(m) /\ (CHOOSE n \in Memos : p \in Out(n)) = m
    BY <1>1, <1>4, <1>6
  <2>3. DocumentedPlace[p] = [at |-> "approval", with |-> memo[m].customer, from |-> "shop"]
    BY <2>1, <2>2, Zenon DEF DocumentedPlace
  <2> QED
    BY <2>3 DEF Custody!Approval
<1>7. ASSUME \A i \in Bills : ~Has(bill[i], p), \A m \in Memos : ~OutFor(memo[m], p) PROVE DocumentedPlace[p] = Custody!Shop
  <2>1. Having(p) = {} /\ ~\E m \in Memos : p \in Out(m)
    BY <1>1, <1>7
  <2> QED
    BY <2>1, Zenon DEF DocumentedPlace, Custody!Shop
<1> QED
  BY <1>5, <1>6, <1>7 DEF Seen

LEMMA PlaceSeenNext == BooksInv' /\ CustodyInv' => \A p \in Pieces : Seen(p, DocumentedPlace'[p], bill', memo')
<1>1. BooksInv' /\ CustodyInv' => PlacesSeen'
  BY PlaceSeen, PTL
<1> QED
  BY <1>1 DEF PlacesSeen

\* A piece whose documents stay.
LEMMA PlaceKept ==
  ASSUME NEW p, NEW was, NEW is, Seen(p, was, bill, memo), Seen(p, is, bill', memo'),
         \A i \in Bills : /\ Has(bill'[i], p) <=> Has(bill[i], p)
                          /\ Has(bill[i], p) => /\ bill'[i].customer = bill[i].customer
                                                /\ Billed(p, i, memo') <=> Billed(p, i, memo),
         \A m \in Memos : /\ OutFor(memo'[m], p) <=> OutFor(memo[m], p)
                          /\ OutFor(memo[m], p) => memo'[m].customer = memo[m].customer
  PROVE  is = was
<1>1. CASE \E i \in Bills : Has(bill[i], p)
  <2>1. PICK i \in Bills : Has(bill[i], p)
    BY <1>1
  <2> DEFINE from  == IF Billed(p, i, memo) THEN "approval" ELSE "shop"
             now   == IF Billed(p, i, memo') THEN "approval" ELSE "shop"
             holder == bill[i].customer
             still  == bill'[i].customer
  <2>2. from = now /\ holder = still
    BY <2>1
  <2>3. was = Custody!Sold(holder, from) /\ is = Custody!Sold(still, now)
    BY <2>1 DEF Seen
  <2> HIDE DEF from, now, holder, still
  <2> QED
    BY <2>2, <2>3
<1>2. CASE \E m \in Memos : OutFor(memo[m], p)
  <2>1. PICK m \in Memos : OutFor(memo[m], p)
    BY <1>2
  <2> DEFINE holder == memo[m].customer
             still  == memo'[m].customer
  <2>2. holder = still
    BY <2>1
  <2>3. was = Custody!Approval(holder) /\ is = Custody!Approval(still)
    BY <2>1 DEF Seen
  <2> HIDE DEF holder, still
  <2> QED
    BY <2>2, <2>3
<1>3. CASE (\A i \in Bills : ~Has(bill[i], p)) /\ \A m \in Memos : ~OutFor(memo[m], p)
  BY <1>3, Zenon DEF Seen
<1> QED
  BY <1>1, <1>2, <1>3

\* Balances alone change, or a request goes on: nothing moves.
LEMMA PlacesSame ==
  ASSUME BooksInv, CustodyInv, BooksInv', CustodyInv', memo' = memo,
         \A i \in Bills : /\ bill'[i].status = bill[i].status /\ bill'[i].customer = bill[i].customer
                          /\ bill'[i].pieces = bill[i].pieces /\ bill'[i].back = bill[i].back
  PROVE  DocumentedPlace' = DocumentedPlace
<1>1. ASSUME NEW p \in Pieces PROVE DocumentedPlace'[p] = DocumentedPlace[p]
  <2> DEFINE was == DocumentedPlace[p]
             is == DocumentedPlace'[p]
  <2>1. Seen(p, was, bill, memo) /\ Seen(p, is, bill', memo')
    BY PlaceSeen, PlaceSeenNext DEF PlacesSeen
  <2>2. \A i \in Bills : Has(bill'[i], p) <=> Has(bill[i], p)
    BY DEF Has
  <2> HIDE DEF was, is
  <2>3. is = was
    BY <2>1, <2>2, PlaceKept
  <2> QED
    BY <2>3 DEF was, is
<1> QED
  BY <1>1 DEF DocumentedPlace

\* Pieces sold are off the shelf, or out with the buyer.
LEMMA SaveBillPlaces ==
  ASSUME BooksInv, CustodyInv, BooksInv', CustodyInv', NEW s \in Sessions, SaveBill(s) PROVE Custody!Next
<1> DEFINE w == work[s]
           set == w.pieces
           of == w.memoOf
           c == w.customer
<1>1. w.pc = "ready" /\ w.kind = "checkout" /\ set \in SUBSET Pieces
  BY SaveBillHands
<1>2. PICK i \in Bills :
         /\ bill[i].status = "none" /\ \A j \in Bills \ {i} : bill'[j] = bill[j]
         /\ bill'[i].status = "posted" /\ bill'[i].customer = work[s].customer
         /\ bill'[i].pieces = work[s].pieces /\ bill'[i].back = {}
         /\ \A m \in Memos :
              /\ memo'[m].status = Close(m, s) /\ memo'[m].customer = memo[m].customer
              /\ memo'[m].pieces = memo[m].pieces /\ memo'[m].back = memo[m].back
              /\ \A p \in Pieces : memo'[m].billed[p] = IF work[s].memoOf[p] = m THEN i ELSE memo[m].billed[p]
         /\ \A m \in Memos : (\A p \in Pieces : work[s].memoOf[p] # m) /\ memo[m] = NoMemo /\ Close(m, s) = "none" =>
              memo'[m] = NoMemo
  BY SaveBillHands
<1>3. /\ HandsTold(piece, bill, memo) /\ TakingTold(w, piece, memo) /\ of \in [Pieces -> Memos \cup {None}]
      /\ c \in Buyers /\ None \notin Bills /\ None \notin Memos
  BY TypeFacts, RequestFields, SalesFinite DEF CustodyInv, BooksInv
<1>4. \A p \in Pieces : of[p] # None => p \in set /\ of[p] \in Memos /\ memo[of[p]].customer = c
  BY <1>1, <1>3 DEF TakingTold
<1>5. \A p \in set : /\ piece[p] \in {"in_stock", "on_memo"} /\ (of[p] # None <=> piece[p] = "on_memo")
                     /\ (piece[p] = "on_memo" => OutFor(memo[of[p]], p))
  BY <1>1, <1>3 DEF TakingTold
<1>6. \A p \in Pieces, m \in Memos : memo[m].billed[p] # i
  BY <1>2, <1>3 DEF HandsTold, LineTold
<1> HIDE DEF w, set, of, c
<1>7. \A j \in Bills, p \in Pieces : Has(bill'[j], p) <=> IF j = i THEN p \in set ELSE Has(bill[j], p)
  BY <1>2 DEF Has, w, set
<1>8. \A m \in Memos, p \in Pieces : memo'[m].billed[p] = IF of[p] = m THEN i ELSE memo[m].billed[p]
  BY <1>2 DEF w, of
<1>9. \A m \in Memos, p \in Pieces : OutFor(memo'[m], p) <=> OutFor(memo[m], p) /\ of[p] # m
  BY <1>2, <1>3, <1>8 DEF OutFor
<1>10. bill'[i].customer = c
  BY <1>2 DEF c, w
<1>11. ASSUME NEW p \in set
       PROVE  /\ DocumentedPlace[p] \in {Custody!Shop, Custody!Approval(c)}
              /\ DocumentedPlace'[p] = Custody!Sold(c, DocumentedPlace[p].at)
  <2> DEFINE was == DocumentedPlace[p]
             is == DocumentedPlace'[p]
             from == IF Billed(p, i, memo') THEN "approval" ELSE "shop"
  <2>1. p \in Pieces
    BY <1>1
  <2>2. Seen(p, was, bill, memo) /\ Seen(p, is, bill', memo') /\ PieceTold(p, piece[p], bill, memo)
    BY <1>3, <2>1, PlaceSeen, PlaceSeenNext DEF PlacesSeen, HandsTold
  <2>3. is = Custody!Sold(c, from)
    <3>1. Has(bill'[i], p)
      BY <1>7, <2>1
    <3>2. is = Custody!Sold(bill'[i].customer, from)
      BY <2>2, <3>1 DEF Seen
    <3> HIDE DEF from, is
    <3> QED
      BY <1>10, <3>2
  <2>4. Billed(p, i, memo') <=> piece[p] = "on_memo"
    BY <1>3, <1>4, <1>5, <1>6, <1>8, <2>1 DEF Billed
  <2>5. CASE piece[p] = "on_memo"
    <3>1. of[p] \in Memos /\ OutFor(memo[of[p]], p) /\ memo[of[p]].customer = c
      BY <1>4, <1>5, <2>1, <2>5
    <3>2. was = Custody!Approval(c)
      BY <2>2, <3>1 DEF Seen
    <3>3. from = "approval" /\ Custody!Approval(c).at = "approval"
      BY <2>4, <2>5 DEF Custody!Approval
    <3> HIDE DEF from, was, is
    <3> QED
      BY <2>3, <3>2, <3>3 DEF was, is
  <2>6. CASE piece[p] = "in_stock"
    <3>1. (\A j \in Bills : ~Has(bill[j], p)) /\ \A m \in Memos : ~OutFor(memo[m], p)
      BY <2>2, <2>6 DEF PieceTold
    <3>2. was = Custody!Shop
      BY <2>2, <3>1 DEF Seen
    <3>3. from = "shop" /\ Custody!Shop.at = "shop"
      BY <2>4, <2>6 DEF Custody!Shop
    <3> HIDE DEF from, was, is
    <3> QED
      BY <2>3, <3>2, <3>3 DEF was, is
  <2> QED
    BY <1>5, <2>5, <2>6
<1>12. ASSUME NEW p \in Pieces, p \notin set PROVE DocumentedPlace'[p] = DocumentedPlace[p]
  <2> DEFINE was == DocumentedPlace[p]
             is == DocumentedPlace'[p]
  <2>1. Seen(p, was, bill, memo) /\ Seen(p, is, bill', memo')
    BY <1>12, PlaceSeen, PlaceSeenNext DEF PlacesSeen
  <2> HIDE DEF was, is
  <2>2. \A m \in Memos : /\ memo'[m].billed[p] = memo[m].billed[p] /\ memo'[m].customer = memo[m].customer
                         /\ OutFor(memo'[m], p) <=> OutFor(memo[m], p)
    BY <1>2, <1>3, <1>4, <1>8, <1>9, <1>12
  <2>3. ~Has(bill[i], p)
    BY <1>2 DEF Has
  <2>4. \A j \in Bills : /\ Has(bill'[j], p) <=> Has(bill[j], p)
                         /\ Has(bill[j], p) => bill'[j].customer = bill[j].customer
                         /\ Billed(p, j, memo') <=> Billed(p, j, memo)
    BY <1>2, <1>7, <1>12, <2>2, <2>3 DEF Billed
  <2>5. is = was
    BY <2>1, <2>2, <2>4, PlaceKept
  <2> QED
    BY <2>5 DEF was, is
<1>13. DocumentedPlace' = [p \in Pieces |-> IF p \in set THEN Custody!Sold(c, DocumentedPlace[p].at) ELSE DocumentedPlace[p]]
  BY <1>11, <1>12 DEF DocumentedPlace
<1>14. Custody!Sell(set, c)
  BY <1>11, <1>13 DEF Custody!Sell, Custody!Move
<1> QED
  BY <1>1, <1>3, <1>14, Zenon DEF Custody!Next

\* Pieces of a bill undone go back where the bill took them from.
LEMMA cancelInvoicePlaces ==
  ASSUME BooksInv, CustodyInv, BooksInv', CustodyInv', NEW s \in Sessions, NEW i \in Bills, cancelInvoice(s, i)
  PROVE  Custody!Next
<1> DEFINE set == bill[i].pieces
           c == bill[i].customer
<1>1. /\ bill[i].status = "posted" /\ bill[i].back = {} /\ set \in SUBSET Pieces
      /\ (\A j \in Bills \ {i} : bill'[j] = bill[j]) /\ bill'[i].status = "cancelled"
      /\ \A m \in Memos :
           /\ memo'[m].customer = memo[m].customer
           /\ memo'[m].pieces = memo[m].pieces /\ memo'[m].back = memo[m].back
           /\ \A p \in Pieces : memo'[m].billed[p] = IF memo[m].billed[p] = i THEN None ELSE memo[m].billed[p]
  BY CancelHands
<1>2. HandsTold(piece, bill, memo) /\ None \notin Bills /\ c \in Buyers
  BY TypeFacts, BillFields, SalesFinite DEF CustodyInv, BooksInv
<1>3. \A m \in Memos, p \in Pieces : memo[m].billed[p] = i =>
        p \in set /\ p \in memo[m].pieces /\ p \notin memo[m].back /\ memo[m].customer = c
  BY <1>2 DEF HandsTold, LineTold
<1> HIDE DEF set, c
<1>4. \A p \in Pieces : p \in set <=> Has(bill[i], p)
  BY <1>1 DEF Has, set
<1>5. \A j \in Bills, p \in Pieces : Has(bill'[j], p) <=> Has(bill[j], p) /\ j # i
  BY <1>1 DEF Has
<1>6. \A m \in Memos, p \in Pieces : OutFor(memo'[m], p) <=> OutFor(memo[m], p) \/ memo[m].billed[p] = i
  BY <1>1, <1>2, <1>3 DEF OutFor
<1>7. ASSUME NEW p \in set
      PROVE  /\ DocumentedPlace[p].at = "sold" /\ DocumentedPlace[p].with = c
             /\ DocumentedPlace'[p] = IF DocumentedPlace[p].from = "approval" THEN Custody!Approval(c) ELSE Custody!Shop
  <2> DEFINE was == DocumentedPlace[p]
             is == DocumentedPlace'[p]
             from == IF Billed(p, i, memo) THEN "approval" ELSE "shop"
  <2>1. p \in Pieces /\ Has(bill[i], p)
    BY <1>1, <1>4
  <2>2. Seen(p, was, bill, memo) /\ Seen(p, is, bill', memo') /\ PieceTold(p, piece[p], bill, memo)
    BY <1>2, <2>1, PlaceSeen, PlaceSeenNext DEF PlacesSeen, HandsTold
  <2>3. was = Custody!Sold(c, from)
    BY <2>1, <2>2 DEF Seen, c
  <2>4. was.at = "sold" /\ was.with = c /\ was.from = from
    BY <2>3 DEF Custody!Sold
  <2>5. (\A j \in Bills : ~Has(bill'[j], p)) /\ \A m \in Memos : ~OutFor(memo[m], p)
    BY <1>5, <2>1, <2>2 DEF PieceTold
  <2>6. CASE Billed(p, i, memo)
    <3>1. PICK m \in Memos : memo[m].billed[p] = i
      BY <2>6 DEF Billed
    <3>2. OutFor(memo'[m], p) /\ memo'[m].customer = c
      BY <1>1, <1>3, <1>6, <2>1, <3>1
    <3>3. is = Custody!Approval(c)
      <4>1. is = Custody!Approval(memo'[m].customer)
        BY <2>2, <3>2 DEF Seen
      <4> HIDE DEF is
      <4> QED
        BY <3>2, <4>1
    <3>4. from = "approval"
      BY <2>6
    <3> HIDE DEF from, was, is
    <3> QED
      BY <2>4, <3>3, <3>4 DEF was, is
  <2>7. CASE ~Billed(p, i, memo)
    <3>1. \A m \in Memos : ~OutFor(memo'[m], p)
      BY <1>6, <2>1, <2>5, <2>7 DEF Billed
    <3>2. is = Custody!Shop
      BY <2>2, <2>5, <3>1 DEF Seen
    <3>3. from = "shop"
      BY <2>7
    <3> HIDE DEF from, was, is
    <3> QED
      BY <2>4, <3>2, <3>3 DEF was, is
  <2> QED
    BY <2>6, <2>7
<1>8. ASSUME NEW p \in Pieces, p \notin set PROVE DocumentedPlace'[p] = DocumentedPlace[p]
  <2> DEFINE was == DocumentedPlace[p]
             is == DocumentedPlace'[p]
  <2>1. Seen(p, was, bill, memo) /\ Seen(p, is, bill', memo')
    BY <1>8, PlaceSeen, PlaceSeenNext DEF PlacesSeen
  <2> HIDE DEF was, is
  <2>2. \A m \in Memos : /\ memo'[m].billed[p] = memo[m].billed[p] /\ memo'[m].customer = memo[m].customer
                         /\ OutFor(memo'[m], p) <=> OutFor(memo[m], p)
    BY <1>1, <1>3, <1>6, <1>8
  <2>3. ~Has(bill[i], p)
    BY <1>4, <1>8
  <2>4. \A j \in Bills : /\ Has(bill'[j], p) <=> Has(bill[j], p)
                         /\ Has(bill[j], p) => bill'[j].customer = bill[j].customer
                         /\ Billed(p, j, memo') <=> Billed(p, j, memo)
    BY <1>1, <1>5, <1>8, <2>2, <2>3 DEF Billed
  <2>5. is = was
    BY <2>1, <2>2, <2>4, PlaceKept
  <2> QED
    BY <2>5 DEF was, is
<1>9. DocumentedPlace' = [p \in Pieces |-> IF p \in set
        THEN (IF DocumentedPlace[p].from = "approval" THEN Custody!Approval(c) ELSE Custody!Shop) ELSE DocumentedPlace[p]]
  BY <1>7, <1>8 DEF DocumentedPlace
<1>10. Custody!UndoSale(set, c)
  BY <1>7, <1>9 DEF Custody!UndoSale, Custody!Move
<1> QED
  BY <1>1, <1>2, <1>10, Zenon DEF Custody!Next

\* Goods that come back from a customer are in the shop.
LEMMA createSalesReturnPlaces ==
  ASSUME BooksInv, CustodyInv, BooksInv', CustodyInv', NEW s \in Sessions, NEW i \in Bills, createSalesReturn(s, i)
  PROVE  Custody!Next
<1>1. PICK set \in SUBSET bill[i].pieces, row \in BillRows, adjusted \in Nat, more \in Nat :
         /\ set # {} /\ set \cap bill[i].back = {}
         /\ row.status = "posted" /\ row.customer = bill[i].customer /\ row.applied = bill[i].applied
         /\ row.gold = bill[i].gold /\ row.cash = bill[i].cash /\ row.pieces = bill[i].pieces
         /\ row.back = bill[i].back \cup set /\ row.balance = bill[i].balance - adjusted
         /\ bill' = [bill EXCEPT ![i] = row]
         /\ owed' = [owed EXCEPT ![bill[i].customer] = owed[bill[i].customer] - adjusted]
         /\ credit' = [credit EXCEPT ![bill[i].customer] = credit[bill[i].customer] + more]
         /\ piece' = [p \in Pieces |-> IF p \in set THEN "in_stock" ELSE piece[p]]
         /\ UNCHANGED <<receipt, memo, work>>
  BY ReturnSteps, Zenon
<1> DEFINE c == bill[i].customer
<1>2. bill[i].status = "posted" /\ bill \in [Bills -> BillRows] /\ bill[i].pieces \in SUBSET Pieces /\ c \in Buyers
  BY ReturnSteps, TypeFacts, BillFields DEF BooksInv
<1>3. HandsTold(piece, bill, memo)
  BY DEF CustodyInv
<1>4. \A j \in Bills : bill'[j] = IF j = i THEN row ELSE bill[j]
  BY <1>1, <1>2
<1>5. \A p \in set : Has(bill[i], p)
  BY <1>1, <1>2 DEF Has
<1>6. \A j \in Bills, p \in Pieces : Has(bill'[j], p) <=> Has(bill[j], p) /\ ~(j = i /\ p \in set)
  BY <1>1, <1>2, <1>4 DEF Has
<1>7. memo' = memo /\ set \in SUBSET Pieces /\ \A j \in Bills : bill'[j].customer = bill[j].customer
  BY <1>1, <1>2, <1>4
<1> HIDE DEF c
<1>8. ASSUME NEW p \in set
      PROVE  DocumentedPlace[p].at = "sold" /\ DocumentedPlace[p].with = c /\ DocumentedPlace'[p] = Custody!Shop
  <2> DEFINE was == DocumentedPlace[p]
             is == DocumentedPlace'[p]
             from == IF Billed(p, i, memo) THEN "approval" ELSE "shop"
  <2>1. p \in Pieces /\ Has(bill[i], p)
    BY <1>5, <1>7
  <2>2. Seen(p, was, bill, memo) /\ Seen(p, is, bill', memo') /\ PieceTold(p, piece[p], bill, memo)
    BY <1>3, <2>1, PlaceSeen, PlaceSeenNext DEF PlacesSeen, HandsTold
  <2>3. was = Custody!Sold(c, from)
    BY <2>1, <2>2 DEF Seen, c
  <2>4. was.at = "sold" /\ was.with = c
    BY <2>3 DEF Custody!Sold
  <2>5. (\A j \in Bills : ~Has(bill'[j], p)) /\ \A m \in Memos : ~OutFor(memo'[m], p)
    BY <1>6, <1>7, <2>1, <2>2 DEF PieceTold
  <2>6. is = Custody!Shop
    BY <2>2, <2>5 DEF Seen
  <2> HIDE DEF was, is
  <2> QED
    BY <2>4, <2>6 DEF was, is
<1>9. ASSUME NEW p \in Pieces, p \notin set PROVE DocumentedPlace'[p] = DocumentedPlace[p]
  <2> DEFINE was == DocumentedPlace[p]
             is == DocumentedPlace'[p]
  <2>1. Seen(p, was, bill, memo) /\ Seen(p, is, bill', memo')
    BY <1>9, PlaceSeen, PlaceSeenNext DEF PlacesSeen
  <2> HIDE DEF was, is
  <2>2. is = was
    BY <1>6, <1>7, <1>9, <2>1, PlaceKept
  <2> QED
    BY <2>2 DEF was, is
<1>10. DocumentedPlace' = [p \in Pieces |-> IF p \in set THEN Custody!Shop ELSE DocumentedPlace[p]]
  BY <1>8, <1>9 DEF DocumentedPlace
<1>11. Custody!ReturnGoods(set, c)
  BY <1>8, <1>10 DEF Custody!ReturnGoods, Custody!Move
<1> QED
  BY <1>2, <1>7, <1>11, Zenon DEF Custody!Next

\* Pieces from the shop go out with a customer.
LEMMA createMemoPlaces ==
  ASSUME BooksInv, CustodyInv, BooksInv', CustodyInv', NEW s \in Sessions, createMemo(s) PROVE Custody!Next
<1>1. PICK c \in Customers, set \in (SUBSET Pieces) \ {{}} :
         /\ work[s].pc = "idle" /\ Free(set) /\ \A p \in set : piece[p] = "in_stock"
         /\ \E m \in Unused(memo, Memos) :
              memo' = [memo EXCEPT ![m] = [NoMemo EXCEPT !.status = "open", !.customer = c, !.pieces = set]]
         /\ piece' = [p \in Pieces |-> IF p \in set THEN "on_memo" ELSE piece[p]]
         /\ UNCHANGED <<bill, receipt, owed, credit, work>>
  BY Zenon DEF createMemo
<1>2. PICK m \in Unused(memo, Memos) :
         memo' = [memo EXCEPT ![m] = [NoMemo EXCEPT !.status = "open", !.customer = c, !.pieces = set]]
  BY <1>1
<1> DEFINE row == [NoMemo EXCEPT !.status = "open", !.customer = c, !.pieces = set]
<1>3. row.customer = c /\ row.pieces = set /\ row.back = {} /\ \A p \in Pieces : row.billed[p] = None
  BY DEF NoMemo
<1>4. HandsTold(piece, bill, memo) /\ memo \in [Memos -> MemoRows] /\ c \in Buyers /\ None \notin Bills
  BY TypeFacts, SalesFinite DEF CustodyInv, BooksInv
<1>5. m \in Memos /\ memo[m].status = "none"
  BY <1>2 DEF Unused
<1>6. memo[m] = NoMemo /\ \A p \in Pieces : ~OutFor(memo[m], p) /\ memo[m].billed[p] = None
  BY <1>4, <1>5 DEF HandsTold, OutFor, NoMemo
<1>7. \A n \in Memos : memo'[n] = IF n = m THEN row ELSE memo[n]
  BY <1>2, <1>4, <1>5
<1> HIDE DEF row
<1>8. bill' = bill /\ set \in SUBSET Pieces
  BY <1>1
<1>9. \A n \in Memos, p \in Pieces : /\ OutFor(memo'[n], p) <=> OutFor(memo[n], p) \/ (n = m /\ p \in set)
                                     /\ OutFor(memo[n], p) => memo'[n].customer = memo[n].customer
                                     /\ memo'[n].billed[p] = memo[n].billed[p]
  BY <1>3, <1>6, <1>7 DEF OutFor
<1>10. ASSUME NEW p \in set PROVE DocumentedPlace[p] = Custody!Shop /\ DocumentedPlace'[p] = Custody!Approval(c)
  <2> DEFINE was == DocumentedPlace[p]
             is == DocumentedPlace'[p]
  <2>1. p \in Pieces /\ piece[p] = "in_stock"
    BY <1>1, <1>8
  <2>2. Seen(p, was, bill, memo) /\ Seen(p, is, bill', memo') /\ PieceTold(p, piece[p], bill, memo)
    BY <1>4, <2>1, PlaceSeen, PlaceSeenNext DEF PlacesSeen, HandsTold
  <2>3. (\A j \in Bills : ~Has(bill[j], p)) /\ \A n \in Memos : ~OutFor(memo[n], p)
    BY <2>1, <2>2 DEF PieceTold
  <2>4. was = Custody!Shop
    BY <2>2, <2>3 DEF Seen
  <2>5. OutFor(memo'[m], p) /\ memo'[m].customer = c
    BY <1>3, <1>5, <1>7, <1>9, <2>1
  <2>6. is = Custody!Approval(memo'[m].customer)
    BY <1>5, <2>2, <2>5 DEF Seen
  <2> HIDE DEF was, is
  <2> QED
    BY <2>4, <2>5, <2>6 DEF was, is
<1>11. ASSUME NEW p \in Pieces, p \notin set PROVE DocumentedPlace'[p] = DocumentedPlace[p]
  <2> DEFINE was == DocumentedPlace[p]
             is == DocumentedPlace'[p]
  <2>1. Seen(p, was, bill, memo) /\ Seen(p, is, bill', memo')
    BY <1>11, PlaceSeen, PlaceSeenNext DEF PlacesSeen
  <2> HIDE DEF was, is
  <2>2. \A i \in Bills : Billed(p, i, memo') <=> Billed(p, i, memo)
    BY <1>9, <1>11 DEF Billed
  <2>3. is = was
    BY <1>8, <1>9, <1>11, <2>1, <2>2, PlaceKept
  <2> QED
    BY <2>3 DEF was, is
<1>12. DocumentedPlace' = [p \in Pieces |-> IF p \in set THEN Custody!Approval(c) ELSE DocumentedPlace[p]]
  BY <1>10, <1>11 DEF DocumentedPlace
<1>13. Custody!SendOut(set, c)
  BY <1>10, <1>12 DEF Custody!SendOut, Custody!Move
<1> QED
  BY <1>4, <1>8, <1>13, Zenon DEF Custody!Next

\* Pieces brought back from approval are in the shop.
LEMMA SaveBringBackPlaces ==
  ASSUME BooksInv, CustodyInv, BooksInv', CustodyInv', NEW s \in Sessions, SaveBringBack(s) PROVE Custody!Next
<1> DEFINE m == work[s].doc
           set == work[s].pieces
           row == [memo[m] EXCEPT !.back = memo[m].back \cup set, !.status = Close(m, s)]
<1>1. work[s].pc = "ready" /\ work[s].kind = "bringBack" /\ memo' = [memo EXCEPT ![m] = row] /\ bill' = bill
  BY DEF SaveBringBack
<1>2. work[s] \in Requests /\ m \in Memos /\ memo \in [Memos -> MemoRows]
  BY <1>1, TypeFacts DEF BooksInv, WorkTold
<1>3. HandsTold(piece, bill, memo) /\ \A p \in set : OutFor(memo[m], p)
  BY <1>1 DEF CustodyInv, TakingTold
<1>4. set \in SUBSET Pieces /\ WalkIn \in Buyers
  BY <1>2, RequestFields DEF Buyers
<1>5. memo[m] \in MemoRows
  BY <1>2
<1>6. /\ row.customer = memo[m].customer /\ row.pieces = memo[m].pieces
      /\ row.back = memo[m].back \cup set /\ row.billed = memo[m].billed
  BY <1>5 DEF MemoRows
<1>7. \A n \in Memos : memo'[n] = IF n = m THEN row ELSE memo[n]
  BY <1>1, <1>2
<1> HIDE DEF m, set, row
<1>8. \A n \in Memos, p \in Pieces : OutFor(memo'[n], p) <=> OutFor(memo[n], p) /\ ~(n = m /\ p \in set)
  BY <1>6, <1>7 DEF OutFor
<1>9. \A n \in Memos : memo'[n].customer = memo[n].customer /\ memo'[n].billed = memo[n].billed
  BY <1>6, <1>7
<1>10. ASSUME NEW p \in set PROVE DocumentedPlace[p].at = "approval" /\ DocumentedPlace'[p] = Custody!Shop
  <2> DEFINE was == DocumentedPlace[p]
             is == DocumentedPlace'[p]
  <2>1. p \in Pieces /\ OutFor(memo[m], p)
    BY <1>3, <1>4
  <2>2. Seen(p, was, bill, memo) /\ Seen(p, is, bill', memo') /\ PieceTold(p, piece[p], bill, memo)
    BY <1>3, <2>1, PlaceSeen, PlaceSeenNext DEF PlacesSeen, HandsTold
  <2>3. was = Custody!Approval(memo[m].customer)
    BY <1>2, <2>1, <2>2 DEF Seen
  <2>4. was.at = "approval"
    BY <2>3 DEF Custody!Approval
  <2>5. (\A j \in Bills : ~Has(bill'[j], p)) /\ \A n \in Memos : ~OutFor(memo'[n], p)
    BY <1>1, <1>2, <1>8, <2>1, <2>2 DEF PieceTold
  <2>6. is = Custody!Shop
    BY <2>2, <2>5 DEF Seen
  <2> HIDE DEF was, is
  <2> QED
    BY <2>4, <2>6 DEF was, is
<1>11. ASSUME NEW p \in Pieces, p \notin set PROVE DocumentedPlace'[p] = DocumentedPlace[p]
  <2> DEFINE was == DocumentedPlace[p]
             is == DocumentedPlace'[p]
  <2>1. Seen(p, was, bill, memo) /\ Seen(p, is, bill', memo')
    BY <1>11, PlaceSeen, PlaceSeenNext DEF PlacesSeen
  <2> HIDE DEF was, is
  <2>2. \A i \in Bills : Billed(p, i, memo') <=> Billed(p, i, memo)
    BY <1>9 DEF Billed
  <2>3. is = was
    BY <1>1, <1>8, <1>9, <1>11, <2>1, <2>2, PlaceKept
  <2> QED
    BY <2>3 DEF was, is
<1>12. DocumentedPlace' = [p \in Pieces |-> IF p \in set THEN Custody!Shop ELSE DocumentedPlace[p]]
  BY <1>10, <1>11 DEF DocumentedPlace
<1>13. Custody!BringBack(set)
  BY <1>10, <1>12 DEF Custody!BringBack, Custody!Move
<1> QED
  BY <1>4, <1>13, Zenon DEF Custody!Next

LEMMA ReceiptPlaces ==
  ASSUME BooksInv, CustodyInv, BooksInv', CustodyInv', NEW s \in Sessions, SaveReceipt(s) \/ SaveCancelReceipt(s)
  PROVE  DocumentedPlace' = DocumentedPlace
BY ReceiptRests, PlacesSame

LEMMA RestPlaces ==
  ASSUME BooksInv, CustodyInv, BooksInv', CustodyInv', UNCHANGED <<bill, memo>>
  PROVE  DocumentedPlace' = DocumentedPlace
BY PlacesSame

LEMMA PlacesNext == BooksInv /\ CustodyInv /\ BooksInv' /\ CustodyInv' /\ [Next]_vars => [Custody!Next]_DocumentedPlace
<1> SUFFICES ASSUME BooksInv, CustodyInv, BooksInv', CustodyInv', [Next]_vars
             PROVE  Custody!Next \/ DocumentedPlace' = DocumentedPlace
  OBVIOUS
<1>1. CASE UNCHANGED vars
  BY <1>1, RestPlaces DEF vars
<1>2. CASE Next
  <2>1. PICK s \in Sessions :
          \/ ResolveLines(s) \/ TakePayment(s) \/ SaveBill(s)
          \/ \E i \in Bills : cancelInvoice(s, i) \/ createSalesReturn(s, i)
          \/ BeginReceipt(s) \/ SaveReceipt(s)
          \/ \E r \in Receipts : BeginCancelReceipt(s, r)
          \/ SaveCancelReceipt(s)
          \/ createMemo(s)
          \/ \E m \in Memos : BeginBringBack(s, m)
          \/ SaveBringBack(s)
          \/ Rollback(s)
    BY <1>2 DEF Next
  <2>2. CASE \/ ResolveLines(s) \/ TakePayment(s) \/ BeginReceipt(s) \/ Rollback(s)
             \/ (\E r \in Receipts : BeginCancelReceipt(s, r)) \/ \E m \in Memos : BeginBringBack(s, m)
    <3>1. UNCHANGED <<bill, memo>>
      BY <2>2 DEF ResolveLines, TakePayment, BeginReceipt, Rollback, BeginCancelReceipt, BeginBringBack
    <3> QED
      BY <3>1, RestPlaces
  <2> QED
    BY <2>1, <2>2, SaveBillPlaces, cancelInvoicePlaces, createSalesReturnPlaces, ReceiptPlaces, createMemoPlaces,
       SaveBringBackPlaces
<1> QED
  BY <1>1, <1>2

LEMMA PlacesInit == Init => Custody!Init
<1> SUFFICES ASSUME Init PROVE DocumentedPlace = [p \in Pieces |-> Custody!Shop]
  BY DEF Custody!Init
<1>1. BooksInv /\ CustodyInv
  BY BooksInitInv, CustodyInitInv
<1>2. ASSUME NEW p \in Pieces PROVE DocumentedPlace[p] = Custody!Shop
  <2>1. Seen(p, DocumentedPlace[p], bill, memo)
    BY <1>1, PlaceSeen DEF PlacesSeen
  <2>2. (\A i \in Bills : ~Has(bill[i], p)) /\ \A m \in Memos : ~OutFor(memo[m], p)
    BY DEF Init, Has, OutFor, NoBill, NoMemo
  <2> QED
    BY <2>1, <2>2 DEF Seen
<1> QED
  BY <1>2 DEF DocumentedPlace

\* Going by bills and memo lines alone, every piece moves as PieceCustody allows: it is billed
\* only to the customer who has it on approval, and undoing a sale puts it back where the sale
\* took it from.  Each commit maps to one step of PieceCustody, every other step to none.
THEOREM CustodyImplemented == Undisturbed => (Spec => CustodySpec)
<1> SUFFICES ASSUME Undisturbed PROVE Spec => CustodySpec
  OBVIOUS
<1>1. Spec => []BooksInv /\ []CustodyInv
  BY CustodyEver
<1>2. BooksInv /\ CustodyInv /\ BooksInv' /\ CustodyInv' /\ [Next]_vars => [Custody!Next]_DocumentedPlace
  BY PlacesNext
<1> QED
  BY <1>1, <1>2, PlacesInit, PTL DEF Spec, CustodySpec, Custody!Spec
===============================================================================

---------------------------- MODULE StockMovements ----------------------------
(***************************************************************************)
(* modules/inventory/stock.service.ts: movements are appended to a         *)
(* journal, and one upsert per batch adds each row's net change to         *)
(* stock_balance.                                                          *)
(*                                                                         *)
(* Sessions run READ COMMITTED transactions at once: post a document,      *)
(* cancel one, or rebuild every balance from the journal.  A balance row   *)
(* is one item + purity + location; here a number, its place in the order  *)
(* the service sorts rows by.  An upsert locks its rows one after another  *)
(* in that order and reads each row's latest committed value as it locks   *)
(* it; rows stay locked, and changes unseen, until the transaction ends.   *)
(* A document posts one batch of movements, or two (a bill on which the    *)
(* customer hands over old gold), and cancelling it reverses them in the   *)
(* opposite order.  Weight stands for every measure a row keeps.           *)
(***************************************************************************)
EXTENDS Integers

CONSTANTS
  Sessions,       \* database sessions
  Nobody,         \* no session
  Rows,           \* balance rows, numbered in the service's sort order
  Docs,           \* documents that move stock
  NoDoc,          \* what a rebuild works on
  First, Second   \* net change per document and row of its first and second batch

ASSUME RowsAssumption     == Rows \subseteq Nat
ASSUME SessionsAssumption == Nobody \notin Sessions
ASSUME DocsAssumption     == NoDoc \notin Docs
ASSUME ChangesAssumption  == /\ First \in [Docs -> [Rows -> Int]]
                             /\ Second \in [Docs -> [Rows -> Int]]

VARIABLES
  stored,     \* rows present in stock_balance (committed)
  balance,    \* their committed weight; 0 where there is no row
  journal,    \* committed movements, summed per row
  status,     \* none, posted or cancelled, per document
  reversed,   \* committed reversals, per document
  held,       \* the session that has a row locked
  header,     \* the session that has a document's own row locked
  work        \* what each session is doing

vars == <<stored, balance, journal, status, reversed, held, header, work>>

NoChange == [r \in Rows |-> 0]

\* pc idle | move (locking rows) | ready (everything written, not committed);
\* batch counts the batches still to write, left the rows its upsert still has to
\* lock, value its rows' new weights and wrote the movements inserted, per row.
Idle == [pc |-> "idle", kind |-> "post", doc |-> NoDoc, batch |-> 0, left |-> {},
         value |-> NoChange, wrote |-> NoChange]

Touched(change) == {r \in Rows : change[r] # 0}

Negated(change) == [r \in Rows |-> -change[r]]

\* What the batch before the last, and the last one, of a session's job change.
Batch(kind, d, n) ==
  IF kind = "post" THEN IF n = 2 THEN First[d] ELSE Second[d]
                   ELSE Negated(IF n = 2 THEN Second[d] ELSE First[d])

\* A document begun: the first batch's movements inserted, its rows still to lock.
Begun(kind, d) ==
  LET change == Batch(kind, d, 2)
  IN [pc |-> "move", kind |-> kind, doc |-> d, batch |-> 2, left |-> Touched(change),
      value |-> NoChange, wrote |-> change]

Change(s) == Batch(work[s].kind, work[s].doc, work[s].batch)

Mine(s) == {r \in Rows : held[r] = s}

Jobs == [pc : {"idle", "move", "ready"}, kind : {"post", "cancel", "rebuild"},
         doc : Docs \cup {NoDoc}, batch : 0..2, left : SUBSET Rows,
         value : [Rows -> Int], wrote : [Rows -> Int]]

TypeOK ==
  /\ stored \subseteq Rows
  /\ balance \in [Rows -> Int] /\ journal \in [Rows -> Int]
  /\ status \in [Docs -> {"none", "posted", "cancelled"}]
  /\ reversed \in [Docs -> Nat]
  /\ held \in [Rows -> Sessions \cup {Nobody}]
  /\ header \in [Docs -> Sessions \cup {Nobody}]
  /\ work \in [Sessions -> Jobs]

-------------------------------------------------------------------------------
Init ==
  /\ stored = {}
  /\ balance = NoChange /\ journal = NoChange
  /\ status = [d \in Docs |-> "none"]
  /\ reversed = [d \in Docs |-> 0]
  /\ held = [r \in Rows |-> Nobody]
  /\ header = [d \in Docs |-> Nobody]
  /\ work = [s \in Sessions |-> Idle]

\* The document's row is new, so no other session can be at it.
StartPost(s, d) ==
  /\ work[s].pc = "idle"
  /\ status[d] = "none" /\ header[d] = Nobody
  /\ header' = [header EXCEPT ![d] = s]
  /\ work' = [work EXCEPT ![s] = Begun("post", d)]
  /\ UNCHANGED <<stored, balance, journal, status, reversed, held>>

\* Wrong variants (X_... of X) show that a property would notice.  A cancellation
\* that reads the document without `for update`:
StartCancel_Unlocked(s, d) ==
  /\ work[s].pc = "idle"
  /\ status[d] = "posted" /\ reversed[d] = 0
  /\ work' = [work EXCEPT ![s] = Begun("cancel", d)]
  /\ UNCHANGED <<stored, balance, journal, status, reversed, held, header>>

\* `select ... for update` of the document, which must still be posted; then the
\* movements nothing reverses yet get their mirror images.
StartCancel(s, d) ==
  /\ work[s].pc = "idle"
  /\ header[d] = Nobody
  /\ status[d] = "posted" /\ reversed[d] = 0
  /\ header' = [header EXCEPT ![d] = s]
  /\ work' = [work EXCEPT ![s] = Begun("cancel", d)]
  /\ UNCHANGED <<stored, balance, journal, status, reversed, held>>

\* Balances read without their lock and written back.
LockRow_ReadModifyWrite(s, r) ==
  /\ work[s].pc = "move" /\ work[s].kind # "rebuild"
  /\ r \in work[s].left /\ \A q \in work[s].left : r <= q
  /\ held' = [held EXCEPT ![r] = s]
  /\ work' = [work EXCEPT ![s].left = @ \ {r}, ![s].value[r] = balance[r] + Change(s)[r]]
  /\ UNCHANGED <<stored, balance, journal, status, reversed, header>>

\* Rows taken in the order the document lists them.
LockRow_Unsorted(s, r) ==
  /\ work[s].pc = "move" /\ work[s].kind # "rebuild"
  /\ r \in work[s].left
  /\ held[r] \in {Nobody, s}
  /\ held' = [held EXCEPT ![r] = s]
  /\ work' = [work EXCEPT ![s].left = @ \ {r},
                          ![s].value[r] = (IF held[r] = s THEN @ ELSE balance[r]) + Change(s)[r]]
  /\ UNCHANGED <<stored, balance, journal, status, reversed, header>>

\* The upsert locks its next row in sort order, waiting for whoever has it, and
\* adds the change to what is there then (or to its own earlier batch's result).
LockRow(s, r) ==
  /\ work[s].pc = "move" /\ work[s].kind # "rebuild"
  /\ r \in work[s].left /\ \A q \in work[s].left : r <= q
  /\ held[r] \in {Nobody, s}
  /\ held' = [held EXCEPT ![r] = s]
  /\ work' = [work EXCEPT ![s].left = @ \ {r},
                          ![s].value[r] = (IF held[r] = s THEN @ ELSE balance[r]) + Change(s)[r]]
  /\ UNCHANGED <<stored, balance, journal, status, reversed, header>>

\* A reversal that forgets to be strict where it takes goods out again.
Short_PostsOnly(s) ==
  work[s].kind = "post" /\ \E r \in Rows : Change(s)[r] < 0 /\ work[s].value[r] < 0

\* A row the batch takes from must not end below zero, unless the shop's settings
\* allow it; they are taken not to.  (Calls that skip the check put goods back into a
\* row, or take out of transit what a transfer put there: lines 62 and 197.)
Short(s) ==
  \E r \in Rows : Change(s)[r] < 0 /\ work[s].value[r] < 0

\* Batches counted past the last one.
NextBatch_Again(s) ==
  /\ work[s].pc = "move" /\ work[s].kind # "rebuild" /\ work[s].left = {}
  /\ work' = [work EXCEPT ![s].batch = @ - 1]
  /\ UNCHANGED <<stored, balance, journal, status, reversed, held, header>>

\* A batch is written: the second one's movements are inserted, or all is done.
NextBatch(s) ==
  LET change == Batch(work[s].kind, work[s].doc, 1) IN
  /\ work[s].pc = "move" /\ work[s].kind # "rebuild"
  /\ work[s].left = {}
  /\ ~Short(s)
  /\ work' = IF work[s].batch = 2
               THEN [work EXCEPT ![s].batch = 1, ![s].left = Touched(change),
                                 ![s].wrote = [r \in Rows |-> @[r] + change[r]]]
               ELSE [work EXCEPT ![s].pc = "ready"]
  /\ UNCHANGED <<stored, balance, journal, status, reversed, held, header>>

\* Balances, movements and the document's status become visible together.
Commit(s) ==
  LET d == work[s].doc
      mine == Mine(s) IN
  /\ work[s].pc = "ready" /\ work[s].kind # "rebuild"
  /\ balance' = [r \in Rows |-> IF r \in mine THEN work[s].value[r] ELSE balance[r]]
  /\ stored' = stored \cup mine
  /\ journal' = [r \in Rows |-> journal[r] + work[s].wrote[r]]
  /\ status' = [status EXCEPT ![d] = IF work[s].kind = "post" THEN "posted" ELSE "cancelled"]
  /\ reversed' = [reversed EXCEPT ![d] = IF work[s].kind = "post" THEN @ ELSE @ + 1]
  /\ held' = [r \in Rows |-> IF r \in mine THEN Nobody ELSE held[r]]
  /\ header' = [header EXCEPT ![d] = Nobody]
  /\ work' = [work EXCEPT ![s] = Idle]

\* Not enough stock, a later statement's failure, a lost connection, or the
\* database breaking a deadlock: nothing of the transaction remains.
Rollback(s) ==
  /\ work[s].pc # "idle"
  /\ held' = [r \in Rows |-> IF held[r] = s THEN Nobody ELSE held[r]]
  /\ header' = [d \in Docs |-> IF header[d] = s THEN Nobody ELSE header[d]]
  /\ work' = [work EXCEPT ![s] = Idle]
  /\ UNCHANGED <<stored, balance, journal, status, reversed>>

\* delete from stock_balance: the rows the statement sees, in no set order.
StartRebuild(s) ==
  /\ work[s].pc = "idle"
  /\ work' = [work EXCEPT ![s] = [Idle EXCEPT !.pc = "move", !.kind = "rebuild", !.left = stored]]
  /\ UNCHANGED <<stored, balance, journal, status, reversed, held, header>>

DeleteRow(s, r) ==
  /\ work[s].pc = "move" /\ work[s].kind = "rebuild"
  /\ r \in work[s].left
  /\ held[r] = Nobody
  /\ held' = [held EXCEPT ![r] = s]
  /\ work' = [work EXCEPT ![s].left = @ \ {r}]
  /\ UNCHANGED <<stored, balance, journal, status, reversed, header>>

\* The insert-select sums the journal as committed now.  A row another session
\* brought in after the delete looked is still there, so it violates the unique
\* key and only Rollback is left.
Refill(s) ==
  /\ work[s].pc = "move" /\ work[s].kind = "rebuild"
  /\ work[s].left = {}
  /\ stored \subseteq Mine(s)
  /\ work' = [work EXCEPT ![s].pc = "ready", ![s].value = journal]
  /\ UNCHANGED <<stored, balance, journal, status, reversed, held, header>>

CommitRebuild(s) ==
  LET mine == Mine(s) IN
  /\ work[s].pc = "ready" /\ work[s].kind = "rebuild"
  /\ balance' = [r \in Rows |-> IF r \in mine THEN work[s].value[r] ELSE balance[r]]
  /\ held' = [r \in Rows |-> IF r \in mine THEN Nobody ELSE held[r]]
  /\ work' = [work EXCEPT ![s] = Idle]
  /\ UNCHANGED <<stored, journal, status, reversed, header>>

Next ==
  \E s \in Sessions :
    \/ \E d \in Docs : StartPost(s, d) \/ StartCancel(s, d)
    \/ \E r \in Rows : LockRow(s, r) \/ DeleteRow(s, r)
    \/ NextBatch(s)
    \/ Commit(s)
    \/ Rollback(s)
    \/ StartRebuild(s)
    \/ Refill(s)
    \/ CommitRebuild(s)

Spec == Init /\ [][Next]_vars

-------------------------------------------------------------------------------
\* "Nothing writes a balance directly. You append movements; the balances follow":
\* the committed balances are what the committed movements add up to, whatever
\* posts, cancellations and rebuilds ran at once (stock.service.ts, lines 4-8).
BalanceIsJournal == balance = journal

\* A cancelled document's movements are undone once and only once, however many
\* sessions try to cancel it.
CancelledOnce ==
  \A d \in Docs : reversed[d] = (IF status[d] = "cancelled" THEN 1 ELSE 0)

\* "Two counters selling the last bangle cannot both succeed": no interleaving
\* takes a committed balance below zero (lines 10-13 and 148-164).
NeverBelowZero == \A r \in Rows : balance[r] >= 0

\* s cannot go on until t ends.
WaitsFor(s, t) ==
  /\ s # t /\ work[s].pc = "move" /\ work[s].kind # "rebuild"
  /\ \E r \in work[s].left : held[r] = t /\ \A q \in work[s].left : r <= q

\* "Applied in a fixed order so two documents touching the same rows never
\* deadlock" (lines 96-97): no documents wait for each other in a ring.
NoDeadlock ==
  \A ring \in (SUBSET Sessions) \ {{}} : \E s \in ring : \A t \in ring : ~WaitsFor(s, t)
===============================================================================

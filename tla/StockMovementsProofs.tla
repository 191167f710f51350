------------------------- MODULE StockMovementsProofs -------------------------
(***************************************************************************)
(* What StockMovements guarantees for any number of sessions, rows and     *)
(* documents: its types, that balances are what the journal adds up to,    *)
(* that a document is reversed once at most, that no balance falls below   *)
(* zero, and, where a document moves its rows in one batch, that sessions  *)
(* never all wait for each other.                                          *)
(***************************************************************************)
EXTENDS StockMovements, WellFoundedInduction, TLAPS

Posting(s) == work[s].pc # "idle" /\ work[s].kind # "rebuild"

\* A session that posts or cancels has its document to itself, as it found it.
Owns(s) ==
  Posting(s) =>
    /\ work[s].doc \in Docs
    /\ work[s].batch \in {1, 2}
    /\ work[s].pc = "ready" => work[s].left = {}
    /\ header[work[s].doc] = s
    /\ status[work[s].doc] = (IF work[s].kind = "post" THEN "none" ELSE "posted")

\* What the batch being written has yet to change.
Still(s, r) == IF r \in work[s].left THEN Change(s)[r] ELSE 0

\* A locked row's new weight is its committed one and the movements inserted, less
\* what is still to come; movements on rows not locked are all still to come.
Counted(s) ==
  Posting(s) =>
    \A r \in Rows :
      /\ held[r] = s => work[s].value[r] + Still(s, r) = balance[r] + work[s].wrote[r]
      /\ held[r] # s => work[s].wrote[r] = Still(s, r)

\* A new weight below zero is one the batch being written still has to answer for.
InHand(s) ==
  Posting(s) =>
    \A r \in Rows :
      held[r] = s /\ work[s].value[r] < 0 =>
        work[s].pc = "move" /\ r \notin work[s].left /\ Change(s)[r] < 0

\* Nothing reached the rows of a rebuild since it summed the journal.
Refilled(s) ==
  work[s].pc = "ready" /\ work[s].kind = "rebuild" =>
    \A r \in Rows : held[r] = s => work[s].value[r] = balance[r]

\* A session between transactions holds nothing.
Released(s) == work[s].pc = "idle" => \A r \in Rows : held[r] # s

SessionInv(s) == Owns(s) /\ Counted(s) /\ InHand(s) /\ Refilled(s) /\ Released(s)

Committed == BalanceIsJournal /\ NeverBelowZero /\ CancelledOnce

IInv == TypeOK /\ Committed /\ \A s \in Sessions : SessionInv(s)

-------------------------------------------------------------------------------
\* Every batch of a document changes rows by whole amounts.
LEMMA BatchTyped ==
  ASSUME NEW kind, NEW d \in Docs, NEW n
  PROVE  Batch(kind, d, n) \in [Rows -> Int]
BY ChangesAssumption DEF Batch, Negated

LEMMA ChangeTyped ==
  ASSUME TypeOK, NEW s \in Sessions, Owns(s), Posting(s)
  PROVE  Change(s) \in [Rows -> Int]
BY BatchTyped DEF Change, Owns

\* A session that another one's step leaves alone keeps its invariant: its job, its
\* rows and its document are as they were.
LEMMA OtherSession ==
  ASSUME NEW u \in Sessions, SessionInv(u), work'[u] = work[u],
         \A r \in Rows : held'[r] = u <=> held[r] = u,
         \A r \in Rows : held[r] = u => balance'[r] = balance[r],
         \A d \in Docs : header[d] = u => header'[d] = u /\ status'[d] = status[d]
  PROVE  SessionInv(u)'
<1>1. Posting(u)' = Posting(u)
  BY DEF Posting
<1>2. Change(u)' = Change(u)
  BY DEF Change
<1>3. Owns(u)'
  BY <1>1 DEF SessionInv, Owns
<1>4. Counted(u)'
  BY <1>1, <1>2 DEF SessionInv, Counted, Still
<1>5. InHand(u)'
  BY <1>1, <1>2 DEF SessionInv, InHand
<1>6. Refilled(u)' /\ Released(u)'
  BY DEF SessionInv, Refilled, Released
<1> QED
  BY <1>3, <1>4, <1>5, <1>6 DEF SessionInv

\* Before a commit the books stand as they did.
LEMMA QuietStep ==
  ASSUME Committed, UNCHANGED <<balance, journal, status, reversed>>
  PROVE  Committed'
BY DEF Committed, BalanceIsJournal, NeverBelowZero, CancelledOnce

\* A step of s that commits nothing, and leaves the others' locks alone, needs to be
\* looked at for s only.
LEMMA OwnStep ==
  ASSUME IInv, TypeOK', NEW s \in Sessions, SessionInv(s)',
         UNCHANGED <<balance, journal, status, reversed>>,
         \A u \in Sessions : u # s => work'[u] = work[u],
         \A r \in Rows : held'[r] # held[r] => {held[r], held'[r]} \subseteq {Nobody, s},
         \A d \in Docs : header'[d] # header[d] => header[d] \in {Nobody, s}
  PROVE  IInv'
<1>1. Committed'
  BY QuietStep DEF IInv
<1>2. ASSUME NEW u \in Sessions, u # s
      PROVE  SessionInv(u)'
  <2>1. \A r \in Rows : held'[r] = u <=> held[r] = u
    BY <1>2, SessionsAssumption
  <2>2. \A d \in Docs : header[d] = u => header'[d] = u /\ status'[d] = status[d]
    BY <1>2, SessionsAssumption
  <2> QED
    BY <1>2, <2>1, <2>2, OtherSession DEF IInv
<1> QED
  BY <1>1, <1>2 DEF IInv

-------------------------------------------------------------------------------
LEMMA InitIInv == Init => IInv
<1> SUFFICES ASSUME Init PROVE IInv
  OBVIOUS
<1>1. TypeOK
  BY DEF Init, TypeOK, Jobs, Idle, NoChange
<1>2. Committed
  BY DEF Init, Committed, BalanceIsJournal, NeverBelowZero, CancelledOnce, NoChange
<1>3. ASSUME NEW s \in Sessions PROVE SessionInv(s)
  BY SessionsAssumption DEF Init, Idle, SessionInv, Owns, Counted, InHand, Refilled, Released, Posting
<1> QED
  BY <1>1, <1>2, <1>3 DEF IInv

\* Beginning a document, either way: it becomes the session's own, with the first
\* batch inserted and all its rows still to lock.
LEMMA StartStep ==
  ASSUME IInv, NEW s \in Sessions, NEW d \in Docs, NEW kind \in {"post", "cancel"},
         work[s].pc = "idle", header[d] = Nobody,
         status[d] = (IF kind = "post" THEN "none" ELSE "posted"),
         header' = [header EXCEPT ![d] = s],
         work' = [work EXCEPT ![s] = Begun(kind, d)],
         UNCHANGED <<stored, balance, journal, status, reversed, held>>
  PROVE  IInv'
<1> DEFINE change == Batch(kind, d, 2)
<1>1. change \in [Rows -> Int]
  BY BatchTyped
<1>2. /\ work'[s].pc = "move" /\ work'[s].kind = kind /\ work'[s].doc = d
      /\ work'[s].batch = 2 /\ work'[s].left = Touched(change) /\ work'[s].wrote = change
      /\ \A u \in Sessions : u # s => work'[u] = work[u]
  BY DEF IInv, TypeOK, Begun
<1>3. TypeOK'
  <2>1. Begun(kind, d) \in Jobs
    <3>1. Touched(change) \in SUBSET Rows /\ NoChange \in [Rows -> Int]
      BY DEF Touched, NoChange
    <3>2. Begun(kind, d) = [pc |-> "move", kind |-> kind, doc |-> d, batch |-> 2,
                            left |-> Touched(change), value |-> NoChange, wrote |-> change]
      BY DEF Begun
    <3> HIDE DEF change
    <3> QED
      BY <1>1, <3>1, <3>2 DEF Jobs
  <2>2. work' \in [Sessions -> Jobs]
    BY <2>1 DEF IInv, TypeOK
  <2>3. header' \in [Docs -> Sessions \cup {Nobody}]
    BY DEF IInv, TypeOK
  <2> QED
    BY <2>2, <2>3 DEF IInv, TypeOK
<1>4. header'[d] = s
  BY DEF IInv, TypeOK
<1>5. \A r \in Rows : held[r] # s
  BY DEF IInv, SessionInv, Released
<1>6. Change(s)' = change
  BY <1>2 DEF Change, Batch
<1>7. SessionInv(s)'
  <2>1. Owns(s)'
    BY <1>2, <1>4 DEF Owns
  <2>2. Counted(s)'
    BY <1>1, <1>2, <1>5, <1>6 DEF Counted, Still, Touched
  <2>3. InHand(s)' /\ Refilled(s)' /\ Released(s)'
    BY <1>2, <1>5 DEF InHand, Refilled, Released
  <2> QED
    BY <2>1, <2>2, <2>3 DEF SessionInv
<1>8. \A e \in Docs : header'[e] # header[e] => header[e] \in {Nobody, s}
  BY DEF IInv, TypeOK
<1> QED
  BY <1>2, <1>3, <1>7, <1>8, OwnStep

LEMMA StartPostStep ==
  ASSUME IInv, NEW s \in Sessions, NEW d \in Docs, StartPost(s, d)
  PROVE  IInv'
BY StartStep DEF StartPost

LEMMA StartCancelStep ==
  ASSUME IInv, NEW s \in Sessions, NEW d \in Docs, StartCancel(s, d)
  PROVE  IInv'
BY StartStep DEF StartCancel

\* The upsert locks a row: what the batch changes there moves from what is still to
\* come into the row's new weight.
LEMMA LockRowStep ==
  ASSUME IInv, NEW s \in Sessions, NEW r \in Rows, LockRow(s, r)
  PROVE  IInv'
<1> DEFINE old == IF held[r] = s THEN work[s].value[r] ELSE balance[r]
           new == old + Change(s)[r]
<1>1. Posting(s) /\ SessionInv(s) /\ TypeOK /\ work[s] \in Jobs
  BY DEF LockRow, Posting, IInv, TypeOK
<1>2. Change(s) \in [Rows -> Int]
  BY <1>1, ChangeTyped DEF SessionInv
<1>3. old \in Int /\ new \in Int
  BY <1>1, <1>2 DEF TypeOK, Jobs
<1>4. /\ work'[s] = [work[s] EXCEPT !.left = @ \ {r}, !.value = [@ EXCEPT ![r] = new]]
      /\ work' = [work EXCEPT ![s] = work'[s]]
  BY <1>1 DEF LockRow, TypeOK, Jobs
<1> HIDE DEF new
<1>5. /\ work'[s].pc = work[s].pc /\ work'[s].kind = work[s].kind /\ work'[s].doc = work[s].doc
      /\ work'[s].batch = work[s].batch /\ work'[s].wrote = work[s].wrote
      /\ work'[s].left = work[s].left \ {r}
      /\ work'[s].value = [work[s].value EXCEPT ![r] = new]
      /\ \A u \in Sessions : u # s => work'[u] = work[u]
  BY <1>1, <1>4 DEF TypeOK, Jobs
<1>6. held' = [held EXCEPT ![r] = s] /\ held[r] \in {Nobody, s} /\ r \in work[s].left
      /\ work[s].pc = "move" /\ UNCHANGED <<stored, balance, journal, status, reversed, header>>
  BY DEF LockRow
<1>7. TypeOK'
  <2>1. work'[s] \in Jobs
    <3>1. work[s].left \ {r} \in SUBSET Rows /\ [work[s].value EXCEPT ![r] = new] \in [Rows -> Int]
      BY <1>1, <1>3 DEF Jobs
    <3>2. [work[s] EXCEPT !.left = work[s].left \ {r}, !.value = [work[s].value EXCEPT ![r] = new]] \in Jobs
      BY <1>1, <3>1 DEF Jobs
    <3> QED
      BY <1>4, <3>2
  <2>2. work' \in [Sessions -> Jobs]
    BY <1>1, <1>4, <2>1 DEF TypeOK
  <2>3. held' \in [Rows -> Sessions \cup {Nobody}]
    BY <1>1, <1>6 DEF TypeOK
  <2> QED
    BY <1>1, <1>6, <2>2, <2>3 DEF TypeOK
<1>8. Change(s)' = Change(s)
  BY <1>5 DEF Change
<1>9. Owns(s)'
  BY <1>1, <1>5, <1>6 DEF SessionInv, Owns, Posting
<1>10. Counted(s)'
  <2> SUFFICES ASSUME NEW q \in Rows
               PROVE  /\ held'[q] = s => work'[s].value[q] + Still(s, q)' = balance[q] + work[s].wrote[q]
                      /\ held'[q] # s => work[s].wrote[q] = Still(s, q)'
    BY <1>5, <1>6 DEF Counted
  <2>0. /\ held[q] = s => work[s].value[q] + Still(s, q) = balance[q] + work[s].wrote[q]
        /\ held[q] # s => work[s].wrote[q] = Still(s, q)
    BY <1>1 DEF SessionInv, Counted
  <2>1. CASE q = r
    <3>1. held'[q] = s /\ work'[s].value[q] = new /\ Still(s, q)' = 0 /\ Still(s, q) = Change(s)[q]
      BY <1>1, <1>5, <1>6, <2>1 DEF TypeOK, Jobs, Still
    <3> QED
      BY <2>0, <2>1, <3>1, <1>1, <1>2, <1>3 DEF new, TypeOK, Jobs
  <2>2. CASE q # r
    <3>1. held'[q] = held[q] /\ work'[s].value[q] = work[s].value[q]
      BY <1>1, <1>5, <1>6, <2>2 DEF TypeOK, Jobs
    <3>2. Still(s, q)' = Still(s, q)
      BY <1>5, <1>8, <2>2 DEF Still
    <3> QED
      BY <2>0, <3>1, <3>2
  <2> QED
    BY <2>1, <2>2
<1>11. InHand(s)'
  <2> SUFFICES ASSUME NEW q \in Rows, held'[q] = s, work'[s].value[q] < 0
               PROVE  q \notin work'[s].left /\ Change(s)[q] < 0
    BY <1>5, <1>6, <1>8 DEF InHand
  <2>1. CASE q = r
    <3>1. old >= 0
      BY <1>1, <1>6, <1>3 DEF SessionInv, InHand, IInv, Committed, NeverBelowZero, TypeOK, Jobs
    <3>2. new < 0
      BY <2>1, <1>1, <1>5 DEF TypeOK, Jobs
    <3> QED
      BY <2>1, <3>1, <3>2, <1>2, <1>3, <1>5 DEF new
  <2>2. CASE q # r
    <3>1. held[q] = s /\ work[s].value[q] < 0
      BY <1>1, <1>5, <1>6, <2>2 DEF TypeOK, Jobs
    <3> QED
      BY <1>1, <1>5, <3>1 DEF SessionInv, InHand
  <2> QED
    BY <2>1, <2>2
<1>12. SessionInv(s)'
  BY <1>5, <1>6, <1>9, <1>10, <1>11 DEF SessionInv, Refilled, Released
<1>13. \A q \in Rows : held'[q] # held[q] => {held[q], held'[q]} \subseteq {Nobody, s}
  BY <1>1, <1>6 DEF TypeOK
<1> QED
  BY <1>5, <1>6, <1>7, <1>12, <1>13, OwnStep

LEMMA JobTyped ==
  ASSUME NEW job \in Jobs, NEW batch \in 0..2, NEW left \in SUBSET Rows, NEW wrote \in [Rows -> Int]
  PROVE  [job EXCEPT !.batch = batch, !.left = left, !.wrote = wrote] \in Jobs
BY DEF Jobs

\* A batch is done: no row it took from is below zero.  The second one's changes are
\* all still to come, or the transaction is ready to commit.
LEMMA NextBatchStep ==
  ASSUME IInv, NEW s \in Sessions, NextBatch(s)
  PROVE  IInv'
<1> DEFINE change == Batch(work[s].kind, work[s].doc, 1)
           inserted == [r \in Rows |-> work[s].wrote[r] + change[r]]
<1>1. Posting(s) /\ SessionInv(s) /\ TypeOK /\ work[s] \in Jobs
  BY DEF NextBatch, Posting, IInv, TypeOK
<1>2. /\ work[s].pc = "move" /\ work[s].left = {} /\ ~Short(s)
      /\ UNCHANGED <<stored, balance, journal, status, reversed, held, header>>
  BY DEF NextBatch
<1>3. Change(s) \in [Rows -> Int] /\ change \in [Rows -> Int]
  BY <1>1, ChangeTyped, BatchTyped DEF SessionInv, Owns
<1>4. inserted \in [Rows -> Int]
  BY <1>1, <1>3 DEF Jobs
<1>5. \A r \in Rows : held[r] = s => work[s].value[r] >= 0
  BY <1>1, <1>2, <1>3 DEF SessionInv, InHand, Short, Jobs
<1>6. \A r \in Rows : /\ held[r] = s => work[s].value[r] = balance[r] + work[s].wrote[r]
                      /\ held[r] # s => work[s].wrote[r] = 0
  BY <1>1, <1>2 DEF SessionInv, Counted, Still, TypeOK, Jobs
<1>7. CASE work[s].batch = 2
  <2>1. /\ work'[s] = [work[s] EXCEPT !.batch = 1, !.left = Touched(change), !.wrote = inserted]
        /\ work' = [work EXCEPT ![s] = work'[s]]
    BY <1>1, <1>7 DEF NextBatch, TypeOK, Jobs
  <2> HIDE DEF change, inserted
  <2>2. /\ work'[s].pc = "move" /\ work'[s].kind = work[s].kind /\ work'[s].doc = work[s].doc
        /\ work'[s].batch = 1 /\ work'[s].left = Touched(change) /\ work'[s].wrote = inserted
        /\ work'[s].value = work[s].value
        /\ \A u \in Sessions : u # s => work'[u] = work[u]
    BY <1>1, <1>2, <2>1 DEF TypeOK, Jobs
  <2>3. TypeOK'
    <3>1. Touched(change) \in SUBSET Rows
      BY DEF Touched
    <3>2. work'[s] \in Jobs
      <4>1. [work[s] EXCEPT !.batch = 1, !.left = Touched(change), !.wrote = inserted] \in Jobs
        <5>1. 1 \in 0..2
          OBVIOUS
        <5> QED
          BY <1>1, <1>4, <3>1, <5>1, JobTyped
      <4> QED
        BY <2>1, <4>1
    <3>3. work' \in [Sessions -> Jobs]
      BY <1>1, <2>1, <3>2 DEF TypeOK
    <3> QED
      BY <1>1, <1>2, <3>3 DEF TypeOK
  <2>4. Change(s)' = change
    BY <2>2 DEF Change, change
  <2>5. Owns(s)'
    BY <1>1, <1>2, <2>2 DEF SessionInv, Owns, Posting
  <2>6. Counted(s)'
    <3> SUFFICES ASSUME NEW r \in Rows
                 PROVE  /\ held[r] = s => work[s].value[r] + Still(s, r)' = balance[r] + inserted[r]
                        /\ held[r] # s => inserted[r] = Still(s, r)'
      BY <1>2, <2>2 DEF Counted
    <3>1. Still(s, r)' = change[r]
      BY <1>3, <2>2, <2>4 DEF Still, Touched
    <3>2. inserted[r] = work[s].wrote[r] + change[r]
      BY DEF inserted
    <3>3. change[r] \in Int /\ work[s].value[r] \in Int /\ work[s].wrote[r] \in Int /\ balance[r] \in Int
      BY <1>1, <1>3 DEF TypeOK, Jobs
    <3>4. /\ held[r] = s => work[s].value[r] = balance[r] + work[s].wrote[r]
          /\ held[r] # s => work[s].wrote[r] = 0
      BY <1>6
    <3> QED
      BY <3>1, <3>2, <3>3, <3>4
  <2>7. InHand(s)' /\ Refilled(s)' /\ Released(s)'
    <3>1. \A r \in Rows : held[r] = s => ~(work[s].value[r] < 0)
      BY <1>1, <1>5 DEF Jobs
    <3> QED
      BY <1>2, <2>2, <3>1 DEF InHand, Refilled, Released
  <2>8. SessionInv(s)'
    BY <2>5, <2>6, <2>7 DEF SessionInv
  <2> QED
    BY <1>2, <2>2, <2>3, <2>8, OwnStep
<1>8. CASE work[s].batch # 2
  <2>1. /\ work'[s] = [work[s] EXCEPT !.pc = "ready"]
        /\ work' = [work EXCEPT ![s] = work'[s]]
    BY <1>1, <1>8 DEF NextBatch, TypeOK, Jobs
  <2>2. /\ work'[s].pc = "ready" /\ work'[s].kind = work[s].kind /\ work'[s].doc = work[s].doc
        /\ work'[s].batch = work[s].batch /\ work'[s].left = {} /\ work'[s].wrote = work[s].wrote
        /\ work'[s].value = work[s].value
        /\ \A u \in Sessions : u # s => work'[u] = work[u]
    BY <1>1, <1>2, <2>1 DEF TypeOK, Jobs
  <2>3. TypeOK'
    <3>1. work'[s] \in Jobs
      BY <1>1, <2>1 DEF Jobs
    <3>2. work' \in [Sessions -> Jobs]
      BY <1>1, <2>1, <3>1 DEF TypeOK
    <3> QED
      BY <1>1, <1>2, <3>2 DEF TypeOK
  <2>4. Owns(s)'
    BY <1>1, <1>2, <2>2 DEF SessionInv, Owns, Posting
  <2>5. Counted(s)'
    <3>1. \A r \in Rows : Still(s, r)' = 0
      BY <2>2 DEF Still
    <3>2. \A r \in Rows : work[s].value[r] \in Int
      BY <1>1 DEF Jobs
    <3> SUFFICES ASSUME NEW r \in Rows
                 PROVE  /\ held[r] = s => work[s].value[r] + Still(s, r)' = balance[r] + work[s].wrote[r]
                        /\ held[r] # s => work[s].wrote[r] = Still(s, r)'
      BY <1>2, <2>2 DEF Counted
    <3>3. /\ held[r] = s => work[s].value[r] = balance[r] + work[s].wrote[r]
          /\ held[r] # s => work[s].wrote[r] = 0
      BY <1>6
    <3> QED
      BY <3>1, <3>2, <3>3
  <2>6. InHand(s)' /\ Refilled(s)' /\ Released(s)'
    <3>1. \A r \in Rows : held[r] = s => ~(work[s].value[r] < 0)
      BY <1>1, <1>5 DEF Jobs
    <3>2. work'[s].kind # "rebuild"
      BY <1>1, <2>2 DEF Posting
    <3> QED
      BY <1>2, <2>2, <3>1, <3>2 DEF InHand, Refilled, Released
  <2>7. SessionInv(s)'
    BY <2>4, <2>5, <2>6 DEF SessionInv
  <2> QED
    BY <1>2, <2>2, <2>3, <2>7, OwnStep
<1> QED
  BY <1>7, <1>8

\* A session that is done holds nothing, and nothing is asked of it.
LEMMA IdleAgain ==
  ASSUME NEW s \in Sessions, work'[s] = Idle, \A r \in Rows : held'[r] # s
  PROVE  SessionInv(s)'
BY DEF Idle, SessionInv, Owns, Counted, InHand, Refilled, Released, Posting

LEMMA IdleTyped == Idle \in Jobs
<1>1. NoChange \in [Rows -> Int]
  BY DEF NoChange
<1> QED
  BY <1>1 DEF Idle, Jobs

LEMMA RollbackStep ==
  ASSUME IInv, NEW s \in Sessions, Rollback(s)
  PROVE  IInv'
<1>1. TypeOK /\ work' = [work EXCEPT ![s] = Idle]
  BY DEF Rollback, IInv
<1>2. TypeOK'
  BY <1>1, IdleTyped DEF Rollback, TypeOK
<1>3. work'[s] = Idle /\ \A u \in Sessions : u # s => work'[u] = work[u]
  BY <1>1 DEF TypeOK
<1>4. \A r \in Rows : held'[r] # s
  BY SessionsAssumption DEF Rollback
<1>5. SessionInv(s)'
  BY <1>3, <1>4, IdleAgain
<1>6. /\ \A r \in Rows : held'[r] # held[r] => {held[r], held'[r]} \subseteq {Nobody, s}
      /\ \A d \in Docs : header'[d] # header[d] => header[d] \in {Nobody, s}
  BY DEF Rollback
<1> QED
  BY <1>2, <1>3, <1>5, <1>6, OwnStep DEF Rollback

\* A step that ends s's transaction with the books and documents it worked on: the
\* others' rows and documents were not s's to change.
LEMMA OthersAfterCommit ==
  ASSUME IInv, NEW s \in Sessions, work' = [work EXCEPT ![s] = Idle],
         \A r \in Rows : held'[r] = IF r \in Mine(s) THEN Nobody ELSE held[r],
         \A r \in Rows : r \notin Mine(s) => balance'[r] = balance[r],
         \A d \in Docs : header[d] # s => header'[d] = header[d] /\ status'[d] = status[d]
  PROVE  \A u \in Sessions : SessionInv(u)'
<1>1. work'[s] = Idle /\ \A u \in Sessions : u # s => work'[u] = work[u]
  BY DEF IInv, TypeOK
<1>2. SessionInv(s)'
  <2>1. \A r \in Rows : held'[r] # s
    BY SessionsAssumption DEF Mine
  <2> QED
    BY <1>1, <2>1, IdleAgain
<1>3. ASSUME NEW u \in Sessions, u # s
      PROVE  SessionInv(u)'
  <2>1. /\ \A r \in Rows : held'[r] = u <=> held[r] = u
        /\ \A r \in Rows : held[r] = u => balance'[r] = balance[r]
    BY <1>3, SessionsAssumption DEF Mine
  <2>2. \A d \in Docs : header[d] = u => header'[d] = u /\ status'[d] = status[d]
    BY <1>3
  <2> QED
    BY <1>1, <1>3, <2>1, <2>2, OtherSession DEF IInv
<1> QED
  BY <1>2, <1>3

\* What a commit makes visible: rows with their new weights, the movements behind
\* them, and the document posted or cancelled.
LEMMA CommitStep ==
  ASSUME IInv, NEW s \in Sessions, Commit(s)
  PROVE  IInv'
<1> DEFINE d == work[s].doc
<1>1. Posting(s) /\ SessionInv(s) /\ TypeOK /\ Committed /\ work[s] \in Jobs
  BY DEF Commit, Posting, IInv, TypeOK
<1>2. /\ d \in Docs /\ work[s].left = {} /\ work[s].pc = "ready" /\ header[d] = s
      /\ status[d] = (IF work[s].kind = "post" THEN "none" ELSE "posted")
  BY <1>1 DEF Commit, SessionInv, Owns
<1>3. /\ balance' = [r \in Rows |-> IF r \in Mine(s) THEN work[s].value[r] ELSE balance[r]]
      /\ journal' = [r \in Rows |-> journal[r] + work[s].wrote[r]]
      /\ status' = [status EXCEPT ![d] = IF work[s].kind = "post" THEN "posted" ELSE "cancelled"]
      /\ reversed' = [reversed EXCEPT ![d] = IF work[s].kind = "post" THEN @ ELSE @ + 1]
      /\ held' = [r \in Rows |-> IF r \in Mine(s) THEN Nobody ELSE held[r]]
      /\ header' = [header EXCEPT ![d] = Nobody]
      /\ work' = [work EXCEPT ![s] = Idle]
      /\ stored' = stored \cup Mine(s)
  BY DEF Commit
<1>4. ASSUME NEW r \in Rows
      PROVE  /\ work[s].value[r] \in Int /\ work[s].wrote[r] \in Int
             /\ balance[r] \in Int /\ journal[r] \in Int
             /\ r \in Mine(s) => work[s].value[r] = balance[r] + work[s].wrote[r]
             /\ r \notin Mine(s) => work[s].wrote[r] = 0
  <2>1. /\ work[s].value[r] \in Int /\ work[s].wrote[r] \in Int
        /\ balance[r] \in Int /\ journal[r] \in Int
    BY <1>1 DEF TypeOK, Jobs
  <2>2. Still(s, r) = 0
    BY <1>2 DEF Still
  <2>3. /\ held[r] = s => work[s].value[r] + Still(s, r) = balance[r] + work[s].wrote[r]
        /\ held[r] # s => work[s].wrote[r] = Still(s, r)
    BY <1>1 DEF SessionInv, Counted
  <2> QED
    BY <2>1, <2>2, <2>3 DEF Mine
<1>5. TypeOK'
  <2>1. stored' \subseteq Rows /\ held' \in [Rows -> Sessions \cup {Nobody}]
    BY <1>1, <1>3 DEF TypeOK, Mine
  <2>2. balance' \in [Rows -> Int] /\ journal' \in [Rows -> Int]
    BY <1>1, <1>3, <1>4
  <2>3. /\ status' \in [Docs -> {"none", "posted", "cancelled"}]
        /\ header' \in [Docs -> Sessions \cup {Nobody}]
    BY <1>1, <1>3 DEF TypeOK
  <2>4. reversed' \in [Docs -> Nat]
    BY <1>1, <1>2, <1>3 DEF TypeOK
  <2>5. work' \in [Sessions -> Jobs]
    BY <1>1, <1>3, IdleTyped DEF TypeOK
  <2> QED
    BY <2>1, <2>2, <2>3, <2>4, <2>5 DEF TypeOK
<1>6. Committed'
  <2>1. BalanceIsJournal'
    <3>1. ASSUME NEW r \in Rows PROVE balance'[r] = journal'[r]
      BY <1>1, <1>3, <1>4 DEF Committed, BalanceIsJournal
    <3> QED
      BY <1>3, <3>1 DEF BalanceIsJournal
  <2>2. NeverBelowZero'
    <3> SUFFICES ASSUME NEW r \in Rows PROVE balance'[r] >= 0
      BY DEF NeverBelowZero
    <3>1. CASE r \in Mine(s)
      <4>1. ~(work[s].value[r] < 0)
        BY <1>1, <1>2, <3>1 DEF SessionInv, InHand, Mine
      <4> QED
        BY <1>3, <1>4, <3>1, <4>1
    <3>2. CASE r \notin Mine(s)
      BY <1>1, <1>3, <3>2 DEF Committed, NeverBelowZero
    <3> QED
      BY <3>1, <3>2
  <2>3. CancelledOnce'
    <3> SUFFICES ASSUME NEW e \in Docs
                 PROVE  reversed'[e] = (IF status'[e] = "cancelled" THEN 1 ELSE 0)
      BY DEF CancelledOnce
    <3>1. reversed[e] = (IF status[e] = "cancelled" THEN 1 ELSE 0)
      BY <1>1 DEF Committed, CancelledOnce
    <3>2. CASE e = d
      BY <1>1, <1>2, <1>3, <3>1, <3>2 DEF TypeOK
    <3>3. CASE e # d
      BY <1>1, <1>3, <3>1, <3>3 DEF TypeOK
    <3> QED
      BY <3>2, <3>3
  <2> QED
    BY <2>1, <2>2, <2>3 DEF Committed
<1>7. \A u \in Sessions : SessionInv(u)'
  <2>1. \A e \in Docs : header[e] # s => header'[e] = header[e] /\ status'[e] = status[e]
    BY <1>1, <1>2, <1>3 DEF TypeOK
  <2> QED
    BY <1>3, <2>1, OthersAfterCommit
<1> QED
  BY <1>5, <1>6, <1>7 DEF IInv

-------------------------------------------------------------------------------
\* Rebuilding.

\* A step of a rebuild short of its commit.
LEMMA RebuildStep ==
  ASSUME IInv, NEW s \in Sessions, NEW job \in Jobs,
         work' = [work EXCEPT ![s] = job], job.kind = "rebuild", job.pc # "idle",
         held' \in [Rows -> Sessions \cup {Nobody}],
         job.pc = "ready" => \A r \in Rows : held'[r] = s => job.value[r] = balance[r],
         \A r \in Rows : held'[r] # held[r] => {held[r], held'[r]} \subseteq {Nobody, s},
         UNCHANGED <<stored, balance, journal, status, reversed, header>>
  PROVE  IInv'
<1>1. work'[s] = job /\ \A u \in Sessions : u # s => work'[u] = work[u]
  BY DEF IInv, TypeOK
<1>2. TypeOK'
  BY DEF IInv, TypeOK
<1>3. SessionInv(s)'
  BY <1>1 DEF SessionInv, Owns, Counted, InHand, Refilled, Released, Posting
<1> QED
  BY <1>1, <1>2, <1>3, OwnStep

LEMMA StartRebuildStep ==
  ASSUME IInv, NEW s \in Sessions, StartRebuild(s)
  PROVE  IInv'
<1> DEFINE job == [Idle EXCEPT !.pc = "move", !.kind = "rebuild", !.left = stored]
<1>1. job \in Jobs /\ job.kind = "rebuild" /\ job.pc = "move"
  <2>1. stored \in SUBSET Rows
    BY DEF IInv, TypeOK
  <2> QED
    BY <2>1, IdleTyped DEF Jobs
<1>2. held \in [Rows -> Sessions \cup {Nobody}]
  BY DEF IInv, TypeOK
<1>3. work' = [work EXCEPT ![s] = job] /\ UNCHANGED <<stored, balance, journal, status, reversed, held, header>>
  BY DEF StartRebuild
<1> HIDE DEF job
<1> QED
  BY <1>1, <1>2, <1>3, RebuildStep

LEMMA DeleteRowStep ==
  ASSUME IInv, NEW s \in Sessions, NEW r \in Rows, DeleteRow(s, r)
  PROVE  IInv'
<1> DEFINE job == [work[s] EXCEPT !.left = @ \ {r}]
<1>1. TypeOK /\ work[s] \in Jobs
  BY DEF IInv, TypeOK
<1>2. job \in Jobs /\ job.kind = "rebuild" /\ job.pc = "move"
  BY <1>1 DEF DeleteRow, Jobs
<1>3. work' = [work EXCEPT ![s] = job]
  BY DEF DeleteRow
<1>4. /\ held' \in [Rows -> Sessions \cup {Nobody}]
      /\ \A q \in Rows : held'[q] # held[q] => {held[q], held'[q]} \subseteq {Nobody, s}
  BY <1>1 DEF DeleteRow, TypeOK
<1> HIDE DEF job
<1> QED
  BY <1>2, <1>3, <1>4, RebuildStep DEF DeleteRow

LEMMA RefillStep ==
  ASSUME IInv, NEW s \in Sessions, Refill(s)
  PROVE  IInv'
<1> DEFINE job == [work[s] EXCEPT !.pc = "ready", !.value = journal]
<1>1. TypeOK /\ work[s] \in Jobs /\ balance = journal
  BY DEF IInv, TypeOK, Committed, BalanceIsJournal
<1>2. job \in Jobs /\ job.kind = "rebuild" /\ job.pc = "ready" /\ job.value = journal
  BY <1>1 DEF Refill, Jobs, TypeOK
<1>3. work' = [work EXCEPT ![s] = job]
  BY <1>1 DEF Refill, TypeOK, Jobs
<1> HIDE DEF job
<1> QED
  BY <1>1, <1>2, <1>3, RebuildStep DEF Refill, TypeOK

\* The rows a rebuild writes are as they were: nobody could change them meanwhile.
LEMMA CommitRebuildStep ==
  ASSUME IInv, NEW s \in Sessions, CommitRebuild(s)
  PROVE  IInv'
<1>1. TypeOK /\ Committed /\ SessionInv(s)
  BY DEF IInv
<1>2. /\ balance' = [r \in Rows |-> IF r \in Mine(s) THEN work[s].value[r] ELSE balance[r]]
      /\ held' = [r \in Rows |-> IF r \in Mine(s) THEN Nobody ELSE held[r]]
      /\ work' = [work EXCEPT ![s] = Idle]
      /\ UNCHANGED <<stored, journal, status, reversed, header>>
  BY DEF CommitRebuild
<1>3. balance' = balance
  <2>1. \A r \in Mine(s) : work[s].value[r] = balance[r]
    BY <1>1 DEF CommitRebuild, SessionInv, Refilled, Mine
  <2> QED
    BY <1>1, <1>2, <2>1 DEF TypeOK
<1>4. TypeOK'
  BY <1>1, <1>2, <1>3, IdleTyped DEF TypeOK
<1>5. Committed'
  BY <1>1, <1>2, <1>3, QuietStep
<1>6. \A u \in Sessions : SessionInv(u)'
  BY <1>2, <1>3, OthersAfterCommit
<1> QED
  BY <1>4, <1>5, <1>6 DEF IInv

-------------------------------------------------------------------------------
LEMMA NextIInv == IInv /\ [Next]_vars => IInv'
<1> SUFFICES ASSUME IInv, [Next]_vars PROVE IInv'
  OBVIOUS
<1>1. CASE UNCHANGED vars
  <2>1. TypeOK' /\ Committed'
    BY <1>1, QuietStep DEF IInv, TypeOK, vars
  <2>2. ASSUME NEW u \in Sessions PROVE SessionInv(u)'
    BY <1>1, OtherSession DEF IInv, vars
  <2> QED
    BY <2>1, <2>2 DEF IInv
<1>2. ASSUME NEW s \in Sessions, NEW d \in Docs, StartPost(s, d) \/ StartCancel(s, d)
      PROVE  IInv'
  BY <1>2, StartPostStep, StartCancelStep
<1>3. ASSUME NEW s \in Sessions, NEW r \in Rows, LockRow(s, r) \/ DeleteRow(s, r)
      PROVE  IInv'
  BY <1>3, LockRowStep, DeleteRowStep
<1>4. ASSUME NEW s \in Sessions, NextBatch(s) \/ Commit(s) \/ Rollback(s)
      PROVE  IInv'
  BY <1>4, NextBatchStep, CommitStep, RollbackStep
<1>5. ASSUME NEW s \in Sessions, StartRebuild(s) \/ Refill(s) \/ CommitRebuild(s)
      PROVE  IInv'
  BY <1>5, StartRebuildStep, RefillStep, CommitRebuildStep
<1> QED
  BY <1>1, <1>2, <1>3, <1>4, <1>5 DEF Next

LEMMA Inductive == Spec => []IInv
<1>1. Init => IInv
  BY InitIInv
<1>2. IInv /\ [Next]_vars => IInv'
  BY NextIInv
<1> QED
  BY <1>1, <1>2, PTL DEF Spec

\* Rows, documents and jobs keep their types (stock.service.ts and its callers).
THEOREM TypeCorrect == Spec => []TypeOK
<1>1. IInv => TypeOK
  BY DEF IInv
<1> QED
  BY <1>1, Inductive, PTL

\* "Nothing writes a balance directly": whatever posts, cancels, rebuilds and fails at
\* once, committed balances are the sum of committed movements (lines 4-8).
THEOREM BalanceIsJournalEver == Spec => []BalanceIsJournal
<1>1. IInv => BalanceIsJournal
  BY DEF IInv, Committed
<1> QED
  BY <1>1, Inductive, PTL

\* A document's movements are reversed when it is cancelled, and never twice (the
\* document is locked before its status is looked at, lines 166-198).
THEOREM CancelledOnceEver == Spec => []CancelledOnce
<1>1. IInv => CancelledOnce
  BY DEF IInv, Committed
<1> QED
  BY <1>1, Inductive, PTL

\* Two counters cannot both sell the last piece of a row (lines 10-13, 148-164).
THEOREM NeverBelowZeroEver == Spec => []NeverBelowZero
<1>1. IInv => NeverBelowZero
  BY DEF IInv, Committed
<1> QED
  BY <1>1, Inductive, PTL

-------------------------------------------------------------------------------
\* Documents that move their rows in one batch, over finitely many rows.  (A bill with old
\* gold has two batches and is reversed in the opposite order: it can deadlock.)
OneBatch == \A d \in Docs : Touched(First[d]) = {} \/ Touched(Second[d]) = {}
FewRows  == \E n \in Nat : Rows \subseteq 0..n

\* A document has locked only rows of its batch, below the ones it has yet to lock.
Ascending(s) ==
  Posting(s) =>
    /\ \A q \in Rows : held[q] = s => \A r \in work[s].left : q < r
    /\ work[s].batch = 2 => work[s].left \cup Mine(s) \subseteq Touched(Batch(work[s].kind, work[s].doc, 2))

LEMMA StartAscending ==
  ASSUME IInv, NEW s \in Sessions, NEW d \in Docs, StartPost(s, d) \/ StartCancel(s, d)
  PROVE  Ascending(s)'
<1>1. PICK kind \in {"post", "cancel"} : work' = [work EXCEPT ![s] = Begun(kind, d)] /\ held' = held
  BY DEF StartPost, StartCancel
<1>2. work'[s] = Begun(kind, d) /\ \A r \in Rows : held'[r] # s
  BY <1>1 DEF IInv, TypeOK, SessionInv, Released, StartPost, StartCancel
<1>3. /\ work'[s].kind = kind /\ work'[s].doc = d
      /\ work'[s].left = Touched(Batch(kind, d, 2))
  BY <1>2 DEF Begun
<1>4. Mine(s)' = {}
  BY <1>2 DEF Mine
<1> QED
  BY <1>2, <1>3, <1>4 DEF Ascending

LEMMA OthersAscending ==
  ASSUME NEW s, Ascending(s), work'[s] = work[s], \A r \in Rows : held'[r] = s => held[r] = s
  PROVE  Ascending(s)'
<1>1. Mine(s)' \subseteq Mine(s)
  BY DEF Mine
<1> QED
  BY <1>1 DEF Ascending, Posting

\* Between batches a single-batch document has nothing locked, or nothing left to lock.
LEMMA NextBatchAscending ==
  ASSUME OneBatch, IInv, NEW s \in Sessions, Ascending(s), NextBatch(s)
  PROVE  Ascending(s)'
<1> DEFINE kind == work[s].kind
           d == work[s].doc
           change == Batch(kind, d, 1)
           inserted == [r \in Rows |-> work[s].wrote[r] + change[r]]
<1>1. /\ Posting(s) /\ held' = held /\ work[s] \in Jobs /\ work \in [Sessions -> Jobs] /\ work[s].left = {}
      /\ d \in Docs /\ work[s].batch \in {1, 2}
  BY DEF NextBatch, Posting, IInv, SessionInv, Owns, TypeOK
<1>2. CASE work[s].batch = 2
  <2>1. work'[s] = [work[s] EXCEPT !.batch = 1, !.left = Touched(change), !.wrote = inserted]
    BY <1>1, <1>2 DEF NextBatch, Jobs
  <2> HIDE DEF change, inserted
  <2>2. work'[s].batch = 1 /\ work'[s].left = Touched(change)
    BY <1>1, <2>1 DEF Jobs
  <2>3. Touched(Batch(kind, d, 2)) = {} \/ Touched(change) = {}
    <3> DEFINE f == First[d]
               g == Second[d]
    <3>1. f \in [Rows -> Int] /\ g \in [Rows -> Int] /\ (Touched(f) = {} \/ Touched(g) = {})
      BY <1>1, ChangesAssumption DEF OneBatch
    <3>2. /\ Batch(kind, d, 2) = IF kind = "post" THEN f ELSE Negated(g)
          /\ change = IF kind = "post" THEN g ELSE Negated(f)
      BY DEF Batch, change
    <3> HIDE DEF f, g
    <3>3. (Touched(f) = {} => Touched(Negated(f)) = {}) /\ (Touched(g) = {} => Touched(Negated(g)) = {})
      BY <3>1 DEF Touched, Negated
    <3>4. CASE kind = "post"
      BY <3>1, <3>2, <3>4
    <3>5. CASE kind # "post"
      BY <3>1, <3>2, <3>3, <3>5
    <3> QED
      BY <3>4, <3>5
  <2>4. Mine(s) \subseteq Touched(Batch(kind, d, 2))
    BY <1>1, <1>2 DEF Ascending
  <2>5. \A q \in Rows : held[q] = s => Touched(change) = {}
    BY <2>3, <2>4 DEF Mine
  <2> QED
    BY <1>1, <2>2, <2>5 DEF Ascending
<1>3. CASE work[s].batch = 1
  <2>1. work'[s] = [work[s] EXCEPT !.pc = "ready"]
    BY <1>1, <1>3 DEF NextBatch
  <2>2. work'[s].left = {} /\ work'[s].batch = 1
    BY <1>1, <1>3, <2>1 DEF Jobs
  <2> QED
    BY <2>2 DEF Ascending
<1> QED
  BY <1>1, <1>2, <1>3

LEMMA LockRowAscending ==
  ASSUME IInv, NEW s \in Sessions, NEW r \in Rows, Ascending(s), LockRow(s, r)
  PROVE  Ascending(s)'
<1> DEFINE value == [work[s].value EXCEPT ![r] = (IF held[r] = s THEN work[s].value[r] ELSE balance[r]) + Change(s)[r]]
<1>1. /\ Posting(s) /\ work[s] \in Jobs /\ work \in [Sessions -> Jobs] /\ held \in [Rows -> Sessions \cup {Nobody}]
      /\ work[s].left \in SUBSET Rows /\ work[s].batch \in {1, 2}
  BY DEF LockRow, Posting, IInv, SessionInv, Owns, TypeOK, Jobs
<1>2. /\ r \in work[s].left /\ \A q \in work[s].left : r <= q
      /\ held' = [held EXCEPT ![r] = s]
  BY DEF LockRow
<1>3. work'[s] = [work[s] EXCEPT !.left = work[s].left \ {r}, !.value = value]
  BY <1>1 DEF LockRow, Jobs
<1> HIDE DEF value
<1>4. /\ work'[s].left = work[s].left \ {r} /\ work'[s].batch = work[s].batch
      /\ work'[s].kind = work[s].kind /\ work'[s].doc = work[s].doc
  BY <1>1, <1>3 DEF Jobs
<1>5. work[s].batch = 2 => Mine(s)' \cup work'[s].left \subseteq Touched(Batch(work[s].kind, work[s].doc, 2))
  BY <1>1, <1>2, <1>4 DEF Ascending, Mine
<1>6. ASSUME NEW q \in Rows, held'[q] = s, NEW p \in work'[s].left PROVE q < p
  <2>1. p \in work[s].left /\ p # r /\ r <= p /\ p \in Nat /\ r \in Nat
    BY <1>1, <1>2, <1>4, RowsAssumption
  <2>2. CASE q = r
    BY <2>1, <2>2
  <2>3. CASE q # r
    BY <1>1, <1>2, <1>6, <2>1, <2>3 DEF Ascending
  <2> QED
    BY <2>2, <2>3
<1> QED
  BY <1>4, <1>5, <1>6 DEF Ascending

LEMMA AscendingNext ==
  ASSUME OneBatch, IInv, \A s \in Sessions : Ascending(s), [Next]_vars
  PROVE  \A s \in Sessions : Ascending(s)'
<1> SUFFICES ASSUME NEW t \in Sessions PROVE Ascending(t)'
  OBVIOUS
<1>1. CASE UNCHANGED vars
  BY <1>1, OthersAscending DEF vars
<1>2. ASSUME NEW s \in Sessions, NEW d \in Docs, StartPost(s, d) \/ StartCancel(s, d) PROVE Ascending(t)'
  <2>1. CASE t = s
    BY <1>2, <2>1, StartAscending
  <2>2. CASE t # s
    BY <1>2, <2>2, OthersAscending DEF StartPost, StartCancel, IInv, TypeOK
  <2> QED
    BY <2>1, <2>2
<1>3. ASSUME NEW s \in Sessions, NEW r \in Rows, LockRow(s, r) PROVE Ascending(t)'
  <2>1. CASE t = s
    BY <1>3, <2>1, LockRowAscending
  <2>2. CASE t # s
    BY <1>3, <2>2, OthersAscending DEF LockRow, IInv, TypeOK
  <2> QED
    BY <2>1, <2>2
<1>4. ASSUME NEW s \in Sessions, NextBatch(s) PROVE Ascending(t)'
  <2>1. CASE t = s
    BY <1>4, <2>1, NextBatchAscending
  <2>2. (work'[t] = work[t] /\ held' = held) \/ t = s
    BY <1>4 DEF NextBatch, IInv, TypeOK
  <2> QED
    BY <2>1, <2>2, OthersAscending
<1>5. ASSUME NEW s \in Sessions, Commit(s) \/ Rollback(s) \/ CommitRebuild(s) PROVE Ascending(t)'
  <2>1. work' = [work EXCEPT ![s] = Idle] /\ \A r \in Rows : held'[r] \in {held[r], Nobody}
    BY <1>5 DEF Commit, Rollback, CommitRebuild
  <2>2. CASE t = s
    <3>1. work'[t].pc = "idle"
      BY <2>1, <2>2 DEF Idle, IInv, TypeOK
    <3> QED
      BY <3>1 DEF Ascending, Posting
  <2>3. CASE t # s
    BY <2>1, <2>3, OthersAscending, SessionsAssumption DEF IInv, TypeOK
  <2> QED
    BY <2>2, <2>3
<1>6. ASSUME NEW s \in Sessions, StartRebuild(s) \/ Refill(s) \/ \E r \in Rows : DeleteRow(s, r) PROVE Ascending(t)'
  <2>1. work[s] \in Jobs /\ work \in [Sessions -> Jobs] /\ held \in [Rows -> Sessions \cup {Nobody}]
    BY DEF IInv, TypeOK
  <2>2. work'[s].kind = "rebuild"
    <3>1. CASE StartRebuild(s)
      BY <2>1, <3>1 DEF StartRebuild, Idle
    <3>2. CASE Refill(s)
      BY <2>1, <3>2 DEF Refill, Jobs
    <3>3. ASSUME NEW r \in Rows, DeleteRow(s, r) PROVE work'[s].kind = "rebuild"
      BY <2>1, <3>3 DEF DeleteRow, Jobs
    <3> QED
      BY <1>6, <3>1, <3>2, <3>3
  <2>3. (\A u \in Sessions \ {s} : work'[u] = work[u]) /\ \A r \in Rows : held'[r] \in {held[r], s}
    BY <1>6, <2>1 DEF StartRebuild, Refill, DeleteRow
  <2>4. CASE t = s
    BY <2>2, <2>4 DEF Ascending, Posting
  <2>5. CASE t # s
    BY <2>3, <2>5, OthersAscending
  <2> QED
    BY <2>4, <2>5
<1> QED
  BY <1>1, <1>2, <1>3, <1>4, <1>5, <1>6 DEF Next

\* In a ring of sessions each would wait for a row above all it has: the one that waits for
\* the highest row waits for nobody in the ring.
LEMMA NoRing ==
  ASSUME FewRows, IInv, \A s \in Sessions : Ascending(s)
  PROVE  NoDeadlock
<1> SUFFICES ASSUME NEW ring \in (SUBSET Sessions) \ {{}}, \A s \in ring : \E t \in ring : WaitsFor(s, t) PROVE FALSE
  BY DEF NoDeadlock
<1>1. PICK n \in Nat : Rows \subseteq 0..n
  BY DEF FewRows
<1> DEFINE Wants(s, r) == /\ r \in work[s].left /\ work[s].pc = "move" /\ work[s].kind # "rebuild"
                          /\ \E t \in ring : held[r] = t
           below == {k \in Nat : \E s \in ring, r \in Rows : Wants(s, r) /\ k = n - r}
<1>2. ASSUME NEW s \in ring PROVE \E r \in Rows : Wants(s, r)
  <2>1. PICK t \in ring : WaitsFor(s, t)
    OBVIOUS
  <2>2. work[s].left \in SUBSET Rows
    BY DEF IInv, TypeOK, Jobs
  <2> QED
    BY <2>1, <2>2 DEF WaitsFor
<1>3. ASSUME NEW s \in ring, NEW r \in Rows, Wants(s, r) PROVE n - r \in below
  <2>1. n - r \in Nat
    BY <1>1
  <2> QED
    BY <1>3, <2>1
<1>4. below \subseteq Nat /\ below # {}
  <2>1. below \subseteq Nat
    OBVIOUS
  <2>2. PICK s \in ring : TRUE
    OBVIOUS
  <2>3. PICK r \in Rows : Wants(s, r)
    BY <1>2
  <2>4. n - r \in below
    BY <1>3, <2>3
  <2> QED
    BY <2>1, <2>4
<1> HIDE DEF below
<1>5. PICK k \in below : \A j \in below : ~(<<j, k>> \in OpToRel(<, Nat))
  BY <1>4, NatLessThanWellFounded, WFMin
<1>6. PICK s \in ring, r \in Rows : Wants(s, r) /\ k = n - r
  BY DEF below
<1>7. PICK t \in ring : held[r] = t
  BY <1>6
<1>8. PICK q \in Rows : Wants(t, q)
  BY <1>2
<1>9. r < q
  BY <1>7, <1>8 DEF Ascending, Posting
<1>10. n - q \in below
  BY <1>3, <1>8
<1>11. n - q < n - r /\ n - q \in Nat /\ n - r \in Nat
  BY <1>1, <1>4, <1>6, <1>9, <1>10
<1> QED
  BY <1>5, <1>6, <1>10, <1>11 DEF OpToRel

\* "Applied in a fixed order so two documents touching the same rows never deadlock" (lines
\* 96-97): so it is for any number of sessions, documents and rows, as long as a document
\* moves its rows in one batch, with rebuilds in between.
THEOREM NoDeadlockEver == OneBatch /\ FewRows => (Spec => []NoDeadlock)
<1> SUFFICES ASSUME OneBatch, FewRows PROVE Spec => []NoDeadlock
  OBVIOUS
<1> DEFINE Ordered == \A s \in Sessions : Ascending(s)
<1>1. Init => Ordered
  BY DEF Init, Idle, Ascending, Posting
<1>2. IInv /\ Ordered /\ [Next]_vars => Ordered'
  BY AscendingNext
<1>3. IInv /\ Ordered => NoDeadlock
  BY NoRing
<1> HIDE DEF Ordered
<1> QED
  BY <1>1, <1>2, <1>3, Inductive, PTL DEF Spec
===============================================================================

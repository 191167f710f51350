------------------------------- MODULE Numbering -------------------------------
(***************************************************************************)
(* modules/numbering/numbering.service.ts: handing out document numbers    *)
(* inside the caller's transaction.                                        *)
(*                                                                         *)
(* One document type; its rows of numbering_series are one shared series   *)
(* and one per branch that has its own.  Several tills raise documents at  *)
(* once, each in a READ COMMITTED transaction of its own: a till blocks on *)
(* the row lock of its series, takes its numbers, saves its documents and  *)
(* commits, or fails somewhere after taking the numbers and rolls back.    *)
(* Documents keep their numbers in a unique column, so a transaction that  *)
(* was handed a number already saved can only be rolled back.              *)
(*                                                                         *)
(* A date is a month count (12 * year + month, January = 0): nothing finer *)
(* decides a period.                                                       *)
(***************************************************************************)
EXTENDS Naturals

CONSTANTS
  Tills,          \* sessions that raise documents
  NoTill,         \* nobody holds the lock
  Branches,       \* the business's branches
  OwnSeries,      \* the branches with a series of their own
  Shared,         \* the series with branch_id null
  Dates,          \* the months in which documents are raised
  AnyDate,        \* may a document carry a date other than today's?
  Reset,          \* reset_period of the series
  NoPeriod,       \* periodKey's null
  MaxCount,       \* bound: numbers taken in one call
  MaxNumber       \* bound: no document with a higher number is saved

ResetPeriods == {"never", "yearly", "financial_yearly", "monthly"}

ASSUME TillsAssumption  == NoTill \notin Tills
ASSUME SeriesAssumption == OwnSeries \subseteq Branches /\ Shared \notin Branches
ASSUME DatesAssumption  == Dates \subseteq Nat \ 0..11
ASSUME ResetAssumption  == Reset \in ResetPeriods /\ AnyDate \in BOOLEAN
ASSUME PeriodAssumption == NoPeriod \notin Nat
ASSUME CountAssumption  == MaxCount \in Nat \ {0} /\ MaxNumber \in Nat

VARIABLES
  today,     \* the shop's current month
  row,       \* numbering_series as committed: made, next_number, current_period
  lock,      \* which till holds the row lock (or the uncommitted insert) of a series
  till,      \* each till: where its call stands, and what it was asked for
  issued     \* numbers on committed documents, per series and period

vars == <<today, row, lock, till, issued>>

Series == OwnSeries \cup {Shared}

\* A branch's own series is preferred; the shared one is the fallback.
seriesFor(b) == IF b \in OwnSeries THEN b ELSE Shared

\* April to March, named by the calendar year it starts in.
financialYear(date) ==
  LET year == date \div 12 IN IF date % 12 >= 3 THEN year ELSE year - 1

periodKey(reset, date) ==
  IF reset = "never" THEN NoPeriod
  ELSE IF reset = "yearly" THEN date \div 12
  ELSE IF reset = "monthly" THEN date
  ELSE financialYear(date)

Periods == {periodKey(Reset, d) : d \in Dates}

\* Wrong variants, here and below (each named X_...), stand in for X to show that a
\* property would notice: a counter from 0, and one that forgets to restart.
nextCounter_FromZero(series, date) == series.next - 1

nextCounter_NoRestart(series, date) == series.next

\* The counter the next document takes: 1 again once the period rolled over.
nextCounter(series, date) ==
  LET period == periodKey(Reset, date)
  IN IF period # NoPeriod /\ series.period # period THEN 1 ELSE series.next

\* A till's call: its step, the document asked for, and the first number handed out.
Idle == [pc |-> "idle", series |-> Shared, date |-> 0, count |-> 1, first |-> 1]

Numbers(t) == till[t].first .. (till[t].first + till[t].count - 1)

PeriodOfTill(t) == periodKey(Reset, till[t].date)

Fresh(t) == Numbers(t) \cap issued[till[t].series][PeriodOfTill(t)] = {}

Rows == [made : BOOLEAN, next : Nat \ {0}, period : Periods \cup {NoPeriod}]

Calls == [pc : {"idle", "find", "create", "hold"}, series : Series,
          date : Dates \cup {0}, count : 1..MaxCount, first : Nat \ {0}]

TypeOK ==
  /\ today \in Dates
  /\ row \in [Series -> Rows]
  /\ lock \in [Series -> Tills \cup {NoTill}]
  /\ till \in [Tills -> Calls]
  /\ \A t \in Tills : till[t].pc # "idle" => till[t].date \in Dates
  /\ issued \in [Series -> [Periods -> SUBSET (Nat \ {0})]]

-------------------------------------------------------------------------------
\* Series of a branch are set up with it; the shared one may be missing for a
\* document type added after the business was set up.
Init ==
  /\ today \in Dates
  /\ \A d \in Dates : today <= d
  /\ \E seeded \in BOOLEAN :
       row = [s \in Series |-> [made |-> s # Shared \/ seeded, next |-> 1, period |-> NoPeriod]]
  /\ lock = [s \in Series |-> NoTill]
  /\ till = [t \in Tills |-> Idle]
  /\ issued = [s \in Series |-> [p \in Periods |-> {}]]

\* A document is begun: its date is settled before any number is asked for.
Begin(t) ==
  /\ till[t].pc = "idle"
  /\ \E b \in Branches, c \in 1..MaxCount :
     \E d \in (IF AnyDate THEN Dates ELSE {today}) :
       till' = [till EXCEPT ![t] =
                  [pc |-> "find", series |-> seriesFor(b), date |-> d, count |-> c, first |-> 1]]
  /\ UNCHANGED <<today, row, lock, issued>>

\* The numbers are reckoned from the row as this till has it; its own update of the
\* row is not visible to others before it commits.
Take(t, s) ==
  /\ lock' = [lock EXCEPT ![s] = t]
  /\ till' = [till EXCEPT ![t].pc = "hold", ![t].first = nextCounter(row[s], till[t].date)]

\* Without `for update`.
Find_Unlocked(t) ==
  /\ till[t].pc = "find"
  /\ row[till[t].series].made
  /\ Take(t, till[t].series)
  /\ UNCHANGED <<today, row, issued>>

\* select ... for update: waits until no other transaction holds the row.
Find(t) ==
  LET s == till[t].series IN
  /\ till[t].pc = "find"
  /\ row[s].made
  /\ lock[s] = NoTill
  /\ Take(t, s)
  /\ UNCHANGED <<today, row, issued>>

\* No committed row: the standard series is to be made on first use.
FindNothing(t) ==
  /\ till[t].pc = "find"
  /\ ~row[till[t].series].made
  /\ till' = [till EXCEPT ![t].pc = "create"]
  /\ UNCHANGED <<today, row, lock, issued>>

\* insert ... on conflict do nothing waits for another till's uncommitted insert.
\* If that one committed, this insert does nothing and the second find queues for
\* the row; otherwise the new row is this till's, locked until it ends.
Create(t) ==
  LET s == till[t].series IN
  /\ till[t].pc = "create"
  /\ lock[s] = NoTill
  /\ IF row[s].made
       THEN till' = [till EXCEPT ![t].pc = "find"] /\ lock' = lock
       ELSE Take(t, s)
  /\ UNCHANGED <<today, row, issued>>

\* A bulk import that moves the counter by one.
Commit_BumpsOne(t) ==
  LET s == till[t].series
      p == PeriodOfTill(t) IN
  /\ till[t].pc = "hold" /\ Fresh(t) /\ Numbers(t) \subseteq 1..MaxNumber
  /\ issued' = [issued EXCEPT ![s][p] = @ \cup Numbers(t)]
  /\ row' = [row EXCEPT ![s] = [made |-> TRUE, next |-> till[t].first + 1, period |-> p]]
  /\ lock' = [lock EXCEPT ![s] = NoTill]
  /\ till' = [till EXCEPT ![t] = Idle]
  /\ UNCHANGED today

\* The counter update becomes visible with the documents that carry the numbers.
Commit(t) ==
  LET s == till[t].series
      p == PeriodOfTill(t) IN
  /\ till[t].pc = "hold"
  /\ Fresh(t)
  /\ Numbers(t) \subseteq 1..MaxNumber
  /\ issued' = [issued EXCEPT ![s][p] = @ \cup Numbers(t)]
  /\ row' = [row EXCEPT ![s] =
               [made |-> TRUE, next |-> till[t].first + till[t].count, period |-> p]]
  /\ lock' = [lock EXCEPT ![s] = NoTill]
  /\ till' = [till EXCEPT ![t] = Idle]
  /\ UNCHANGED today

\* A counter bumped outside the transaction, as a database sequence is.
Rollback_KeepsCounter(t) ==
  LET s == till[t].series IN
  /\ till[t].pc = "hold" /\ Numbers(t) \subseteq 1..MaxNumber
  /\ row' = [row EXCEPT ![s] = [made |-> TRUE, next |-> till[t].first + till[t].count,
                               period |-> PeriodOfTill(t)]]
  /\ lock' = [lock EXCEPT ![s] = NoTill]
  /\ till' = [till EXCEPT ![t] = Idle]
  /\ UNCHANGED <<today, issued>>

\* A failed transaction left open on its connection.
Rollback_LeftOpen(t) ==
  /\ till[t].pc = "hold"
  /\ till' = [till EXCEPT ![t] = Idle]
  /\ UNCHANGED <<today, row, lock, issued>>

\* The rest of the transaction failed, the server died, or a document's unique
\* number column refused the number: row, series and documents are as before.
Rollback(t) ==
  /\ till[t].pc = "hold"
  /\ lock' = [lock EXCEPT ![till[t].series] = NoTill]
  /\ till' = [till EXCEPT ![t] = Idle]
  /\ UNCHANGED <<today, row, issued>>

\* Time passes, also while tills wait for a lock with their date already settled.
NextMonth ==
  /\ \E d \in Dates : d > today /\ today' = d
  /\ UNCHANGED <<row, lock, till, issued>>

Next ==
  \/ \E t \in Tills :
       \/ Begin(t)
       \/ Find(t)
       \/ FindNothing(t)
       \/ Create(t)
       \/ Commit(t)
       \/ Rollback(t)
  \/ NextMonth

\* A transaction always ends, a statement that can run is run, and the database
\* queues the waiters of a row lock, so a lock that keeps coming free is had.
Fairness ==
  \A t \in Tills :
    /\ WF_vars(FindNothing(t) \/ Commit(t) \/ Rollback(t))
    /\ SF_vars(Find(t) \/ Create(t))

Spec == Init /\ [][Next]_vars

FairSpec == Spec /\ Fairness

-------------------------------------------------------------------------------
\* Within a series and a period the saved documents carry 1, 2, 3, ... with no
\* hole, whatever rolled back in between (numbering.service.ts, lines 8-10).
NoHoles ==
  \A s \in Series, p \in Periods :
    \A n \in issued[s][p] : \A m \in 1..n : m \in issued[s][p]

\* "Two tills billing at the same instant ... never the same one" (lines 4-6): a
\* till that took its numbers holds none that a saved document already has.
HandedOutFresh == \A t \in Tills : till[t].pc = "hold" => Fresh(t)

\* It holds whenever the document belongs to the period its series is in, or to one
\* that no document was saved in: only a date back in an earlier period breaks it.
FreshInPeriod ==
  \A t \in Tills : till[t].pc = "hold" =>
    LET s == till[t].series
        p == PeriodOfTill(t)
    IN  row[s].period = p \/ issued[s][p] = {} => Fresh(t)

\* The counter of the period a series is in is one past the last number saved.
CounterAgrees ==
  \A s \in Series : row[s].period \in Periods =>
    issued[s][row[s].period] = 1..(row[s].next - 1)

\* A till that asked for a number is never left waiting: its transaction ends.
Served == \A t \in Tills : till[t].pc = "find" ~> till[t].pc = "idle"

Gapless == INSTANCE GaplessNumbers

\* Committed documents are numbered as the abstract specification says.
GaplessSpec == Gapless!Spec
===============================================================================

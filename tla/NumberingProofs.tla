---------------------------- MODULE NumberingProofs ----------------------------
(***************************************************************************)
(* What Numbering guarantees for any number of tills, branches, dates and  *)
(* imports: its types, that saved documents leave no hole, that it         *)
(* implements GaplessNumbers, and that no till is handed a saved number    *)
(* unless its document is dated back in a period its series has left.      *)
(***************************************************************************)
EXTENDS Numbering, TLAPS

\* A till past its find holds its series, and its first number is the counter
\* the committed row still shows.
Held ==
  \A t \in Tills : till[t].pc = "hold" =>
    /\ lock[till[t].series] = t
    /\ till[t].first = nextCounter(row[till[t].series], till[t].date)

IInv == TypeOK /\ Held /\ CounterAgrees /\ NoHoles

-------------------------------------------------------------------------------
\* periodKey of a date in use is one of the periods (numbering.service.ts, 34-45).
LEMMA PeriodInPeriods ==
  \A d \in Dates : periodKey(Reset, d) \in Periods
BY DEF Periods

\* A series that never restarts has the null period only, and one that restarts
\* never has it.
LEMMA NullPeriod ==
  NoPeriod \in Periods => Periods = {NoPeriod}
<1>1. ASSUME NEW d \in Dates, periodKey(Reset, d) = NoPeriod
      PROVE  Reset = "never"
  <2>1. d \in Nat /\ d \div 12 \in Nat /\ d \div 12 >= 1
    BY DatesAssumption
  <2>2. financialYear(d) \in Nat
    BY <2>1 DEF financialYear
  <2> QED
    BY <1>1, <2>1, <2>2, ResetAssumption, PeriodAssumption DEF periodKey, ResetPeriods
<1>2. Reset = "never" => \A d \in Dates : periodKey(Reset, d) = NoPeriod
  BY DEF periodKey
<1> QED
  BY <1>1, <1>2 DEF Periods

\* The counter handed out is a positive number, and where the row is in the
\* date's period it is the row's own counter.
LEMMA NextCounterTyped ==
  ASSUME NEW s \in Series, NEW d \in Dates, TypeOK
  PROVE  /\ nextCounter(row[s], d) \in Nat \ {0}
         /\ row[s].period = periodKey(Reset, d) => nextCounter(row[s], d) = row[s].next
BY DEF nextCounter, TypeOK, Calls, Rows

-------------------------------------------------------------------------------
LEMMA InitIInv == Init => IInv
<1> SUFFICES ASSUME Init PROVE IInv
  OBVIOUS
<1>1. TypeOK
  BY CountAssumption DEF Init, TypeOK, Calls, Rows, Idle, Series
<1>2. Held /\ NoHoles
  BY DEF Init, Held, NoHoles, Idle
<1>3. CounterAgrees
  BY DEF Init, CounterAgrees
<1> QED
  BY <1>1, <1>2, <1>3 DEF IInv

\* What a till does before it commits, or instead of committing, changes neither
\* the counters nor the documents.
LEMMA QuietStep ==
  ASSUME IInv, TypeOK', Held', UNCHANGED <<row, issued>>
  PROVE  IInv'
BY DEF IInv, CounterAgrees, NoHoles

\* Taking the lock and the first number keeps the types and what is held.
LEMMA TakeStep ==
  ASSUME IInv, NEW t \in Tills, till[t].pc \in {"find", "create"},
         lock[till[t].series] = NoTill, Take(t, till[t].series),
         UNCHANGED <<today, row, issued>>
  PROVE  TypeOK' /\ Held'
<1> DEFINE s == till[t].series
<1>1. s \in Series /\ till[t].date \in Dates
  BY DEF IInv, TypeOK, Calls, Rows
<1>2. nextCounter(row[s], till[t].date) \in Nat \ {0}
  BY <1>1, NextCounterTyped DEF IInv
<1>3. TypeOK'
  <2> DEFINE first == nextCounter(row[s], till[t].date)
  <2>1. till' = [till EXCEPT ![t] = [till[t] EXCEPT !.pc = "hold", !.first = first]]
    BY DEF IInv, TypeOK, Calls, Rows, Take
  <2>2. first \in Nat \ {0}
    BY <1>2
  <2> HIDE DEF first
  <2>3. till' \in [Tills -> Calls]
    <3>1. till \in [Tills -> Calls]
      BY DEF IInv, TypeOK
    <3>2. till[t] \in Calls
      BY <3>1
    <3>3. [till[t] EXCEPT !.pc = "hold", !.first = first] \in Calls
      BY <3>2, <2>2 DEF Calls
    <3> QED
      BY <3>1, <3>3, <2>1
  <2>4. \A u \in Tills : till'[u].pc # "idle" => till'[u].date \in Dates
    BY <1>1, <2>1 DEF IInv, TypeOK, Calls, Rows
  <2>5. lock' \in [Series -> Tills \cup {NoTill}]
    BY DEF IInv, TypeOK, Calls, Rows, Take
  <2> QED
    BY <2>3, <2>4, <2>5 DEF IInv, TypeOK, Calls, Rows
<1>4. ASSUME NEW u \in Tills, till'[u].pc = "hold"
      PROVE  /\ lock'[till'[u].series] = u
             /\ till'[u].first = nextCounter(row'[till'[u].series], till'[u].date)
  <2>1. CASE u = t
    BY <2>1, <1>1 DEF IInv, TypeOK, Calls, Rows, Take
  <2>2. CASE u # t
    <3>1. till'[u] = till[u]
      BY <2>2 DEF IInv, TypeOK, Calls, Rows, Take
    <3>2. lock[till[u].series] = u /\ till[u].first = nextCounter(row[till[u].series], till[u].date)
      BY <3>1, <1>4 DEF IInv, Held
    <3>3. till[u].series # s /\ till[u].series \in Series
      BY <3>2, TillsAssumption DEF IInv, TypeOK, Calls, Rows
    <3> QED
      BY <3>1, <3>2, <3>3 DEF IInv, TypeOK, Calls, Rows, Take
  <2> QED
    BY <2>1, <2>2
<1> QED
  BY <1>3, <1>4 DEF Held

\* Saving the numbers closes up on those saved before: they were 1..(first - 1).
LEMMA CommitBlock ==
  ASSUME IInv, NEW t \in Tills, till[t].pc = "hold", Fresh(t)
  PROVE  issued[till[t].series][PeriodOfTill(t)] = 1..(till[t].first - 1)
<1> DEFINE s == till[t].series
           p == PeriodOfTill(t)
<1>1. s \in Series /\ till[t].date \in Dates /\ p \in Periods
  BY PeriodInPeriods DEF IInv, TypeOK, Calls, Rows, PeriodOfTill
<1>2. till[t].first = nextCounter(row[s], till[t].date)
  BY DEF IInv, Held
<1>3. CASE row[s].period = p
  BY <1>1, <1>2, <1>3, NextCounterTyped DEF IInv, CounterAgrees, PeriodOfTill
<1>4. CASE row[s].period # p
  <2>1. p # NoPeriod
    <3>1. p = NoPeriod => row[s].period = p
      BY <1>1, NullPeriod DEF IInv, TypeOK, Calls, Rows
    <3> QED
      BY <3>1, <1>4
  <2>2. till[t].first = 1
    BY <1>2, <1>4, <2>1 DEF nextCounter, PeriodOfTill
  <2>3. 1 \in Numbers(t)
    BY <2>2, CountAssumption DEF Numbers, IInv, TypeOK, Calls, Rows
  <2>4. 1 \notin issued[s][p]
    BY <2>3 DEF Fresh
  <2>5. issued[s][p] \subseteq Nat \ {0}
    BY <1>1 DEF IInv, TypeOK, Calls, Rows
  <2>6. ASSUME NEW n \in issued[s][p] PROVE FALSE
    <3>1. n \in Nat /\ n >= 1 /\ 1 \in 1..n
      BY <2>5
    <3> QED
      BY <3>1, <1>1, <2>4 DEF IInv, NoHoles
  <2> QED
    BY <2>2, <2>6
<1> QED
  BY <1>3, <1>4

LEMMA CommitStep ==
  ASSUME IInv, NEW t \in Tills, Commit(t)
  PROVE  IInv'
<1> DEFINE s == till[t].series
           p == PeriodOfTill(t)
           last == till[t].first + till[t].count - 1
<1>1. s \in Series /\ till[t].date \in Dates /\ p \in Periods
  BY PeriodInPeriods DEF IInv, TypeOK, Calls, Rows, PeriodOfTill, Commit
<1>2. till[t].first \in Nat \ {0} /\ till[t].count \in Nat \ {0} /\ last \in Nat
  BY CountAssumption DEF IInv, TypeOK, Calls, Rows
<1>3. issued[s][p] = 1..(till[t].first - 1)
  BY CommitBlock DEF Commit
<1>4. issued' = [issued EXCEPT ![s][p] = 1..last]
  <2>1. issued[s][p] \cup Numbers(t) = 1..last
    BY <1>2, <1>3 DEF Numbers
  <2> QED
    BY <2>1 DEF Commit
<1>5. row' = [row EXCEPT ![s] = [made |-> TRUE, next |-> last + 1, period |-> p]]
  <2>1. last + 1 = till[t].first + till[t].count
    BY <1>2
  <2> QED
    BY <2>1 DEF Commit
<1>6. TypeOK'
  <2>1. row' \in [Series -> Rows]
    <3>1. [made |-> TRUE, next |-> last + 1, period |-> p] \in Rows
      BY <1>1, <1>2 DEF Rows
    <3> QED
      BY <3>1, <1>5 DEF IInv, TypeOK
  <2>2. issued' \in [Series -> [Periods -> SUBSET (Nat \ {0})]]
    <3>1. issued \in [Series -> [Periods -> SUBSET (Nat \ {0})]]
      BY DEF IInv, TypeOK, Calls, Rows
    <3>2. 1..last \subseteq Nat \ {0}
      BY <1>2
    <3> HIDE DEF last
    <3> QED
      BY <1>1, <1>4, <3>1, <3>2
  <2>3. till' \in [Tills -> Calls]
    <3>1. Idle \in Calls
      BY CountAssumption DEF Idle, Calls, Series
    <3> QED
      BY <3>1 DEF IInv, TypeOK, Commit
  <2>4. lock' \in [Series -> Tills \cup {NoTill}]
    BY DEF IInv, TypeOK, Calls, Rows, Commit
  <2>5. \A u \in Tills : till'[u].pc # "idle" => till'[u].date \in Dates
    BY DEF IInv, TypeOK, Calls, Rows, Commit, Idle
  <2> QED
    BY <2>1, <2>2, <2>3, <2>4, <2>5 DEF IInv, TypeOK, Calls, Rows, Commit
<1>7. Held'
  <2> SUFFICES ASSUME NEW u \in Tills, till'[u].pc = "hold"
               PROVE  /\ lock'[till'[u].series] = u
                      /\ till'[u].first = nextCounter(row'[till'[u].series], till'[u].date)
    BY DEF Held
  <2>1. u # t /\ till'[u] = till[u]
    BY DEF IInv, TypeOK, Calls, Rows, Commit, Idle
  <2>2. lock[s] = t
    BY DEF IInv, Held, Commit
  <2>3. lock[till[u].series] = u /\ till[u].first = nextCounter(row[till[u].series], till[u].date)
    BY <2>1 DEF IInv, Held
  <2>4. till[u].series # s /\ till[u].series \in Series
    BY <2>1, <2>2, <2>3 DEF IInv, TypeOK, Calls, Rows
  <2> QED
    BY <1>5, <2>1, <2>3, <2>4 DEF IInv, TypeOK, Calls, Rows, Commit
<1>8. CounterAgrees'
  <2> SUFFICES ASSUME NEW r \in Series, row'[r].period \in Periods
               PROVE  issued'[r][row'[r].period] = 1..(row'[r].next - 1)
    BY DEF CounterAgrees
  <2>1. CASE r = s
    BY <1>1, <1>2, <1>4, <1>5, <2>1 DEF IInv, TypeOK, Calls, Rows
  <2>2. CASE r # s
    BY <1>1, <1>4, <1>5, <2>2 DEF IInv, TypeOK, Calls, Rows, CounterAgrees
  <2> QED
    BY <2>1, <2>2
<1>9. NoHoles'
  <2> SUFFICES ASSUME NEW r \in Series, NEW q \in Periods, NEW n \in issued'[r][q], NEW m \in 1..n
               PROVE  m \in issued'[r][q]
    BY DEF NoHoles
  <2>1. CASE r = s /\ q = p
    BY <1>1, <1>2, <1>4, <2>1 DEF IInv, TypeOK, Calls, Rows
  <2>2. CASE ~(r = s /\ q = p)
    BY <1>1, <1>4, <2>2 DEF IInv, TypeOK, Calls, Rows, NoHoles
  <2> QED
    BY <2>1, <2>2
<1> QED
  BY <1>6, <1>7, <1>8, <1>9 DEF IInv

-------------------------------------------------------------------------------
LEMMA NextIInv == IInv /\ [Next]_vars => IInv'
<1> SUFFICES ASSUME IInv, [Next]_vars PROVE IInv'
  OBVIOUS
<1>1. ASSUME NEW t \in Tills, Begin(t) PROVE IInv'
  <2>1. PICK b \in Branches, c \in 1..MaxCount, d \in Dates :
          till' = [till EXCEPT ![t] =
            [pc |-> "find", series |-> seriesFor(b), date |-> d, count |-> c, first |-> 1]]
    <3>1. (IF AnyDate THEN Dates ELSE {today}) \subseteq Dates
      BY DEF IInv, TypeOK, Calls, Rows
    <3> QED
      BY <1>1, <3>1 DEF Begin
  <2>2. seriesFor(b) \in Series
    BY DEF seriesFor, Series
  <2>3. TypeOK'
    BY <1>1, <2>1, <2>2, CountAssumption DEF IInv, TypeOK, Calls, Rows, Begin
  <2>4. Held'
    BY <1>1, <2>1 DEF IInv, TypeOK, Calls, Rows, Held, Begin
  <2> QED
    BY <1>1, <2>3, <2>4, QuietStep DEF Begin
<1>2. ASSUME NEW t \in Tills, Find(t) PROVE IInv'
  BY <1>2, TakeStep, QuietStep DEF Find
<1>3. ASSUME NEW t \in Tills, FindNothing(t) PROVE IInv'
  <2>1. TypeOK'
    BY <1>3 DEF IInv, TypeOK, Calls, Rows, FindNothing
  <2>2. Held'
    BY <1>3 DEF IInv, TypeOK, Calls, Rows, Held, FindNothing
  <2> QED
    BY <1>3, <2>1, <2>2, QuietStep DEF FindNothing
<1>4. ASSUME NEW t \in Tills, Create(t) PROVE IInv'
  <2>1. CASE row[till[t].series].made
    <3>1. till' = [till EXCEPT ![t].pc = "find"] /\ UNCHANGED <<today, row, lock, issued>>
      BY <1>4, <2>1 DEF Create
    <3>2. till[t].pc = "create"
      BY <1>4 DEF Create
    <3>3. TypeOK'
      BY <3>1, <3>2 DEF IInv, TypeOK, Calls, Rows
    <3>4. Held'
      BY <3>1 DEF IInv, TypeOK, Calls, Rows, Held
    <3> QED
      BY <3>1, <3>3, <3>4, QuietStep
  <2>2. CASE ~row[till[t].series].made
    BY <1>4, <2>2, TakeStep, QuietStep DEF Create
  <2> QED
    BY <2>1, <2>2
<1>5. ASSUME NEW t \in Tills, Commit(t) PROVE IInv'
  BY <1>5, CommitStep
<1>6. ASSUME NEW t \in Tills, Rollback(t) PROVE IInv'
  <2>1. TypeOK'
    BY <1>6, CountAssumption DEF IInv, TypeOK, Calls, Rows, Rollback, Idle, Series
  <2>2. Held'
    <3> SUFFICES ASSUME NEW u \in Tills, till'[u].pc = "hold"
                 PROVE  /\ lock'[till'[u].series] = u
                        /\ till'[u].first = nextCounter(row'[till'[u].series], till'[u].date)
      BY DEF Held
    <3>1. u # t /\ till'[u] = till[u]
      BY <1>6 DEF IInv, TypeOK, Calls, Rows, Rollback, Idle
    <3>2. lock[till[t].series] = t
      BY <1>6 DEF IInv, Held, Rollback
    <3> QED
      BY <1>6, <3>1, <3>2 DEF IInv, TypeOK, Calls, Rows, Held, Rollback
  <2> QED
    BY <1>6, <2>1, <2>2, QuietStep DEF Rollback
<1>7. ASSUME NextMonth PROVE IInv'
  <2>1. TypeOK' /\ Held'
    BY <1>7 DEF IInv, TypeOK, Calls, Rows, Held, NextMonth
  <2> QED
    BY <1>7, <2>1, QuietStep DEF NextMonth
<1>8. ASSUME UNCHANGED vars PROVE IInv'
  BY <1>8 DEF IInv, TypeOK, Calls, Rows, Held, CounterAgrees, NoHoles, Fresh, vars
<1> QED
  BY <1>1, <1>2, <1>3, <1>4, <1>5, <1>6, <1>7, <1>8 DEF Next

LEMMA Inductive == Spec => []IInv
<1>1. Init => IInv
  BY InitIInv
<1>2. IInv /\ [Next]_vars => IInv'
  BY NextIInv
<1> QED
  BY <1>1, <1>2, PTL DEF Spec

\* Rows, locks and calls keep their types: in particular every number handed out
\* is a positive one, whatever the dates.
THEOREM TypeCorrect == Spec => []TypeOK
<1>1. IInv => TypeOK
  BY DEF IInv
<1> QED
  BY <1>1, Inductive, PTL

\* The counter of the period a series is in is one past the last saved number, so a
\* rolled back till left no trace in it.
THEOREM CounterAgreesEver == Spec => []CounterAgrees
<1>1. IInv => CounterAgrees
  BY DEF IInv
<1> QED
  BY <1>1, Inductive, PTL

\* The saved documents of a series and period carry 1, 2, 3, ... without a hole,
\* though any till may roll back after it took its numbers (lines 8-10).
THEOREM NoHolesEver == Spec => []NoHoles
<1>1. IInv => NoHoles
  BY DEF IInv
<1> QED
  BY <1>1, Inductive, PTL

\* No till is handed a number that a saved document has, unless its date lies back
\* in a period the series has left (lines 4-6).
THEOREM FreshInPeriodEver == Spec => []FreshInPeriod
<1>1. ASSUME IInv PROVE FreshInPeriod
  <2> SUFFICES ASSUME NEW t \in Tills, till[t].pc = "hold",
                      \/ row[till[t].series].period = PeriodOfTill(t)
                      \/ issued[till[t].series][PeriodOfTill(t)] = {}
               PROVE  Fresh(t)
    BY DEF FreshInPeriod
  <2> DEFINE s == till[t].series
             p == PeriodOfTill(t)
  <2>1. s \in Series /\ till[t].date \in Dates /\ p \in Periods
    BY <1>1, PeriodInPeriods DEF IInv, TypeOK, Calls, Rows, PeriodOfTill
  <2>2. CASE issued[s][p] = {}
    BY <2>2 DEF Fresh
  <2>3. CASE row[s].period = p
    <3>1. till[t].first = row[s].next
      BY <1>1, <2>1, <2>3, NextCounterTyped DEF IInv, Held, PeriodOfTill
    <3>2. issued[s][p] = 1..(till[t].first - 1) /\ till[t].first \in Nat
      BY <1>1, <2>1, <2>3, <3>1 DEF IInv, TypeOK, Calls, Rows, CounterAgrees
    <3> QED
      BY <3>2 DEF Fresh, Numbers
  <2> QED
    BY <2>2, <2>3
<1> QED
  BY <1>1, Inductive, PTL

\* Every step of Numbering leaves the saved documents as they are or adds the next
\* consecutive numbers of one series and period: it implements GaplessNumbers.
THEOREM ImplementsGapless == Spec => GaplessSpec
<1>1. Init => Gapless!Init
  BY DEF Init, Gapless!Init
<1>2. IInv /\ [Next]_vars => [Gapless!Next]_issued
  <2> SUFFICES ASSUME IInv, [Next]_vars PROVE [Gapless!Next]_issued
    OBVIOUS
  <2>1. ASSUME NEW t \in Tills, Commit(t) PROVE Gapless!Next
    <3> DEFINE s == till[t].series
               p == PeriodOfTill(t)
               taken == till[t].first - 1
    <3>1. s \in Series /\ p \in Periods
      BY <2>1, PeriodInPeriods DEF IInv, TypeOK, Calls, Rows, PeriodOfTill, Commit
    <3>2. taken \in Nat /\ till[t].count \in 1..MaxCount
      BY DEF IInv, TypeOK, Calls, Rows
    <3>3. issued[s][p] = 1..taken
      BY <2>1, CommitBlock DEF Commit
    <3>4. taken \in 0..MaxNumber
      <4>1. till[t].first \in Numbers(t)
        BY <3>2, CountAssumption DEF Numbers, IInv, TypeOK, Calls, Rows
      <4> QED
        BY <4>1, <2>1, <3>2, CountAssumption DEF Commit
    <3>5. issued[s][p] \cup Numbers(t) = 1..(taken + till[t].count)
      BY <3>2, <3>3, CountAssumption DEF Numbers, IInv, TypeOK, Calls, Rows
    <3>6. issued' = [issued EXCEPT ![s][p] = 1..(taken + till[t].count)]
      BY <2>1, <3>5 DEF Commit
    <3>7. Gapless!Issue(s, p)
      BY <3>2, <3>3, <3>4, <3>6 DEF Gapless!Issue
    <3> QED
      BY <3>1, <3>7 DEF Gapless!Next
  <2>2. ASSUME NEW t \in Tills, Begin(t) \/ Find(t) \/ FindNothing(t) \/ Create(t) \/ Rollback(t)
        PROVE  UNCHANGED issued
    BY <2>2 DEF Begin, Find, FindNothing, Create, Rollback
  <2>3. NextMonth \/ UNCHANGED vars => UNCHANGED issued
    BY DEF NextMonth, vars
  <2> QED
    BY <2>1, <2>2, <2>3 DEF Next
<1> QED
  BY <1>1, <1>2, Inductive, PTL DEF Spec, GaplessSpec, Gapless!Spec
===============================================================================

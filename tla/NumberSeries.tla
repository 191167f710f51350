------------------------------ MODULE NumberSeries ------------------------------
(***************************************************************************)
(* Bill Numbers (api/routes.master-setup.ts): how one type of document is  *)
(* numbered, and what changing that does to the counters.                  *)
(*                                                                         *)
(* One shared series and one for each branch that had to count on its own  *)
(* once.  Changing a series holds the shared row and taking a number holds *)
(* the one it takes from (Numbering has that in detail), so both are one   *)
(* step here.  Documents are dated today.  A branch keeps its code.  The   *)
(* number of digits is left out: it never makes two numbers one.           *)
(***************************************************************************)
EXTENDS Integers, FiniteSets

CONSTANTS
  CountingBranches,   \* branches of the shop, the first of which trades from the start
  FirstBranch,
  SeriesPrefixes,     \* what a number may begin with
  LastNumbers,        \* numbers to continue from old software with
  MaxYear,            \* bound: financial years 1..MaxYear
  MaxCounter,         \* bound: numbers of one period
  MaxDocuments,       \* bound: documents
  MaxEdition          \* bound: changes between restarting and not

VARIABLES
  year,        \* the financial year
  trading,     \* branches that are active
  format,      \* what the shared row says, and is copied to the others
  counter,     \* next_number and current_period of each series
  edition,     \* how often restarting was switched on or off
  documents    \* the documents numbered, each with what numbered it

seriesVars == <<year, trading, format, counter, edition, documents>>

Shared == "shared"
NoYear == 0

\* A branch has an id, which no series is called by, and one trades from the start.
ASSUME SeriesAssumption ==
  /\ Shared \notin CountingBranches /\ FirstBranch \in CountingBranches
  /\ MaxYear \in Nat \ {0} /\ MaxCounter \in Nat /\ MaxEdition \in Nat
  /\ LastNumbers \subseteq 0..MaxCounter

Formats == {f \in [prefix : SeriesPrefixes, perBranch : BOOLEAN, years : BOOLEAN, restarts : BOOLEAN] : f.restarts => f.years}

CounterRows == [made : BOOLEAN, next : 1..MaxCounter + 1, period : {NoYear} \cup 1..MaxYear]
NoSeries == [made |-> FALSE, next |-> 1, period |-> NoYear]

Texts == [prefix : SeriesPrefixes, branch : CountingBranches \cup {Shared}, year : {NoYear} \cup 1..MaxYear, counter : 1..MaxCounter]

SeriesTypeOK ==
  /\ year \in 1..MaxYear
  /\ FirstBranch \in trading /\ trading \subseteq CountingBranches
  /\ format \in Formats
  /\ counter \in [CountingBranches \cup {Shared} -> CounterRows]
  /\ documents \subseteq [text : Texts, branch : CountingBranches, series : CountingBranches \cup {Shared}, edition : 0..MaxEdition]

\* DEFAULT_SERIES: documents restart every April and show it, codes and tags neither.
SeriesInit ==
  /\ year = 1
  /\ trading = {FirstBranch}
  /\ \E yearly \in BOOLEAN, p \in SeriesPrefixes :
       format = [prefix |-> p, perBranch |-> FALSE, years |-> yearly, restarts |-> yearly]
  /\ counter = [s \in CountingBranches \cup {Shared} |-> [NoSeries EXCEPT !.made = s = Shared]]
  /\ edition = 0
  /\ documents = {}

periodKey(f) == IF f.restarts THEN year ELSE NoYear

\* 1 again once the year has turned.
nextCounter(s) == IF format.restarts /\ counter[s].period # year THEN 1 ELSE counter[s].next

\* A branch's own series while branches count on their own and it has one; the shared one
\* otherwise.
seriesOf(b) == IF format.perBranch /\ counter[b].made THEN b ELSE Shared

\* The branch that raises the document is printed, whichever series it counts in.
formatSeriesNumber(b, n) ==
  [prefix |-> format.prefix, branch |-> IF format.perBranch THEN b ELSE Shared,
   year |-> IF format.years THEN year ELSE NoYear, counter |-> n]

-------------------------------------------------------------------------------
NewYear ==
  /\ year < MaxYear
  /\ year' = year + 1
  /\ UNCHANGED <<trading, format, counter, edition, documents>>

\* A branch opened later has no series of its own until the series is changed again.
OpenBranch(b) ==
  /\ b \notin trading
  /\ trading' = trading \cup {b}
  /\ UNCHANGED <<year, format, counter, edition, documents>>

\* A number that is on a document already fails the document, and the counter goes back.
takeNumber(b) ==
  LET s == seriesOf(b)
      n == nextCounter(s)
      text == formatSeriesNumber(b, n)
  IN
  /\ b \in trading /\ n <= MaxCounter /\ Cardinality(documents) < MaxDocuments
  /\ \A d \in documents : d.text # text
  /\ counter' = [counter EXCEPT ![s].next = n + 1, ![s].period = periodKey(format)]
  /\ documents' = documents \cup {[text |-> text, branch |-> b, series |-> s, edition |-> edition]}
  /\ UNCHANGED <<year, trading, format, edition>>

\* The last number may go back.
mayContinue_Any(last) == TRUE

\* The last number can only move forward.
mayContinue(last) == last >= nextCounter(Shared) - 1

\* Format and restart change for every series; the counter, and the period it belongs to,
\* for the shared one.  Active branches without a series get one when branches are to
\* count on their own.
editSeries ==
  \E f \in Formats, given \in BOOLEAN, last \in LastNumbers :
    LET restarted == f.restarts # format.restarts IN
    /\ ~given => last = CHOOSE l \in LastNumbers : TRUE
    /\ given => mayContinue(last)
    /\ given \/ f # format \/ (f.perBranch /\ \E b \in trading : ~counter[b].made)
    /\ edition + (IF restarted THEN 1 ELSE 0) <= MaxEdition
    /\ edition' = edition + (IF restarted THEN 1 ELSE 0)
    /\ format' = f
    /\ counter' = [s \in DOMAIN counter |->
         IF s = Shared
         THEN [counter[s] EXCEPT !.next = IF given THEN last + 1 ELSE @,
                                 !.period = IF given \/ restarted THEN periodKey(f) ELSE @]
         ELSE IF f.perBranch /\ s \in trading /\ ~counter[s].made THEN [NoSeries EXCEPT !.made = TRUE] ELSE counter[s]]
    /\ UNCHANGED <<year, trading, documents>>

SeriesNext ==
  \/ NewYear
  \/ \E b \in CountingBranches :
       \/ OpenBranch(b)
       \/ takeNumber(b)
  \/ editSeries

-------------------------------------------------------------------------------
\* "Two branches can never produce the same number" and going back "would reissue numbers"
\* (routes.master-setup.ts:93): while restarting is neither switched on nor off, no
\* branch's next number is on a document already, through whatever changes of prefix, year
\* and branches; only a branch that took numbers from the shared series before it had its
\* own can meet one of its own numbers again.
NumbersOnce ==
  \A b \in trading, d \in documents :
    d.edition = edition /\ d.text = formatSeriesNumber(b, nextCounter(seriesOf(b))) => d.branch = b /\ d.series # seriesOf(b)
===============================================================================

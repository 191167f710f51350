---------------------------- MODULE GaplessNumbers ----------------------------
(***************************************************************************)
(* What document numbering promises, without saying how: within a series   *)
(* and a period the saved documents carry the numbers 1, 2, 3, ... and a   *)
(* document, or a bulk import, takes the next consecutive ones.  Nothing   *)
(* here knows of transactions, row locks or rollbacks.                     *)
(***************************************************************************)
EXTENDS Naturals

CONSTANTS
  Series,     \* the counters, one row of numbering_series each
  Periods,    \* what a counter may restart for
  MaxCount,   \* the most numbers one document or import takes
  MaxNumber   \* bound: no higher number is saved

VARIABLE
  issued      \* the numbers on saved documents, per series and period

Init == issued = [s \in Series |-> [p \in Periods |-> {}]]

\* The documents saved so far are 1..taken, and up to MaxCount more follow on.
Issue(s, p) ==
  \E taken \in 0..MaxNumber, c \in 1..MaxCount :
    /\ issued[s][p] = 1..taken
    /\ issued' = [issued EXCEPT ![s][p] = 1..(taken + c)]

Next == \E s \in Series, p \in Periods : Issue(s, p)

Spec == Init /\ [][Next]_issued
===============================================================================

------------------------------ MODULE MCNumbering ------------------------------
(* Two tills, one branch on the shared series and one with its own, either side *)
(* of the financial-year boundary.                                              *)
EXTENDS Numbering

CONSTANTS t1, t2, zb, an

MCTills    == {t1, t2}
MCBranches == {zb, an}
MCOwn      == {an}

\* March and April 2026.
MCYearEnd  == {12 * 2026 + 2, 12 * 2026 + 3}
===============================================================================

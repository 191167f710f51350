--------------------------------- MODULE Money ---------------------------------
(* core/util/decimal.ts: amounts and weights are decimals of a fixed scale; here they  *)
(* are whole numbers of the smallest unit, with the code's rounding.                   *)
EXTENDS Integers

\* Division rounded, a half away from nought; dividing by zero gives nothing (each caller
\* has its own way out of it).
Rounded(a, b) ==
  IF b = 0 THEN 0 ELSE IF a >= 0 THEN (2 * a + b) \div (2 * b) ELSE -((b - 2 * a) \div (2 * b))

Percent(a, p) == Rounded(a * p, 100)

AtMost(a, b) == IF a < b THEN a ELSE b

AtLeast(a, b) == IF a > b THEN a ELSE b
===============================================================================

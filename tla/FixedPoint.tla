----------------------------- MODULE FixedPoint -----------------------------
(***************************************************************************)
(* The fixed-point arithmetic every Novaire contract prices with: a product *)
(* taken in a wider integer and divided once, rounded down when value is    *)
(* paid out and rounded up when value is reserved or charged.               *)
(*                                                                         *)
(* WAD is the fixed-point unit (10^18 in the contracts); rates are assets   *)
(* per SY share scaled by WAD.                                             *)
(***************************************************************************)
EXTENDS Integers

\* a * b / c rounded down.  The 256-bit intermediate cannot overflow, so the
\* only failing input is a zero divisor, which every caller guards.
MulDivFloor(a, b, c) == (a * b) \div c

\* a * b / c rounded up, computed as the contracts compute it.
MulDivCeil(a, b, c) == (a * b + c - 1) \div c

Smaller(a, b) == IF a < b THEN a ELSE b
Larger(a, b)  == IF a < b THEN b ELSE a

=============================================================================

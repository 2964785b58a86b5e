---------------------------------- MODULE Web ----------------------------------
(***************************************************************************)
(* What the modules of the web application share.                           *)
(***************************************************************************)
EXTENDS Integers, FiniteSets, Sequences

CONSTANT None     \* a state that is null

Min2(a, b) == IF a <= b THEN a ELSE b
=============================================================================

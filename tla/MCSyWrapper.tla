----------------------------- MODULE MCSyWrapper -----------------------------
(***************************************************************************)
(* Model values for the SY wrapper runs.                                   *)
(***************************************************************************)
EXTENDS SyWrapper, TLC

Symmetry == Permutations(SyHolders)
=============================================================================

----------------------------- MODULE MCGovernance -----------------------------
(***************************************************************************)
(* Model values for the governance runs.                                   *)
(***************************************************************************)
EXTENDS Governance, TLC

Symmetry == Permutations(Accounts) \cup Permutations(Wasms)
=============================================================================

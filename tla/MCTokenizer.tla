----------------------------- MODULE MCTokenizer -----------------------------
(***************************************************************************)
(* Small markets for TLC.  WAD is 2, so that a rate of 3 is one and a half  *)
(* assets per share and every division of the contracts rounds somewhere.   *)
(***************************************************************************)
EXTENDS Tokenizer, TLC

Symmetry == Permutations(Holders)

=============================================================================

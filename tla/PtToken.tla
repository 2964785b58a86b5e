------------------------------- MODULE PtToken -------------------------------
(***************************************************************************)
(* The principal token's ledger: balances and supply.  Only the tokenizer   *)
(* mints; every holder may burn.  The operations are action operators that  *)
(* Sep41 (the token's own entry points, with allowances) and Tokenizer (the *)
(* market that mints and burns it) compose into their steps.               *)
(***************************************************************************)
EXTENDS Ledgers

CONSTANTS
  Holders,      \* the accounts that may hold PT
  MaxSupply     \* bound on a token supply (stands for the overflow check)

ASSUME PtTokenAssumption ==
  /\ IsFiniteSet(Holders)
  /\ MaxSupply \in Nat

VARIABLES
  ptBalance,    \* [Holders -> Nat]
  ptSupply      \* TotalSupply

ptVars == <<ptBalance, ptSupply>>

PtInit ==
  /\ ptBalance = [h \in Holders |-> 0]
  /\ ptSupply = 0

\* mint: grows one balance and the supply together.
PtMint(to, amount) ==
  /\ amount > 0
  /\ ptSupply + amount <= MaxSupply
  /\ ptBalance' = [ptBalance EXCEPT ![to] = @ + amount]
  /\ ptSupply' = ptSupply + amount

\* move_balance.
PtMove(from, to, amount) ==
  /\ amount > 0
  /\ ptBalance[from] >= amount
  /\ ptBalance' = Moved(ptBalance, from, to, amount)
  /\ UNCHANGED ptSupply

\* burn_balance: open to every holder, not only to the tokenizer.
PtBurn(from, amount) ==
  /\ amount > 0
  /\ ptBalance[from] >= amount
  /\ ptBalance' = [ptBalance EXCEPT ![from] = @ - amount]
  /\ ptSupply' = ptSupply - amount

PtTypeOK ==
  /\ ptBalance \in [Holders -> Nat]
  /\ ptSupply \in Int

\* The sum of a ledger's balances.
Total(balance) == SumOver(balance, Holders)

=============================================================================

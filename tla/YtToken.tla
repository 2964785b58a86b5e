------------------------------- MODULE YtToken -------------------------------
(***************************************************************************)
(* The yield token's ledger and its yield engine.  Each holder has a        *)
(* checkpoint, the SY rate its yield was last settled at, and an accrued    *)
(* balance of SY shares not yet claimed.  Every balance change settles the  *)
(* holders it touches first, at a rate handed in by the caller: the live    *)
(* rate the tokenizer has on record before maturity, the frozen rate after. *)
(*                                                                         *)
(* The operations are action operators composed by module Tokenizer.        *)
(***************************************************************************)
EXTENDS PtToken, FixedPoint

CONSTANTS
  WAD,          \* the fixed-point unit
  MaxI128,      \* the largest value the contract's integers hold
  NoRate        \* "this rate or checkpoint was never stored"

ASSUME YtTokenAssumption ==
  /\ WAD \in Nat \ {0}
  /\ MaxI128 \in Nat
  /\ NoRate \notin Nat

VARIABLES
  ytBalance,    \* [Holders -> Nat]
  ytSupply,     \* TotalSupply
  checkpoint,   \* [Holders -> Nat \cup {NoRate}]
  accrued       \* [Holders -> Nat], SY shares banked and not yet claimed

ytVars == <<ytBalance, ytSupply, checkpoint, accrued>>

YtInit ==
  /\ ytBalance = [h \in Holders |-> 0]
  /\ ytSupply = 0
  /\ checkpoint = [h \in Holders |-> NoRate]
  /\ accrued = [h \in Holders |-> 0]

YtTypeOK ==
  /\ ytBalance \in [Holders -> Nat]
  /\ ytSupply \in Int
  /\ checkpoint \in [Holders -> Nat \cup {NoRate}]
  /\ accrued \in [Holders -> Nat]

(***************************************************************************)
(* The yield engine.                                                       *)
(***************************************************************************)

\* SY shares earned by a balance held while the rate rose from c to r: the
\* asset yield on the basis of the checkpoint, then converted to shares at
\* the new rate, rounding down both times.
OwedShares(balance, c, r) ==
  MulDivFloor(MulDivFloor(balance, r - c, c), WAD, r)

\* The products of owed_shares are checked 128-bit multiplications, and a
\* checkpoint of zero is a checked division by zero: both trap.
OwedFits(balance, c, r) ==
  /\ c > 0
  /\ balance * (r - c) <= MaxI128
  /\ MulDivFloor(balance, r - c, c) * WAD <= MaxI128

\* There is yield to work out only for a settled holder, a rate above its
\* checkpoint (a dip pays nothing and lowers nothing) and a balance.
Earns(h, r) == checkpoint[h] # NoRate /\ checkpoint[h] < r /\ ytBalance[h] > 0

Pending(h, r) ==
  IF Earns(h, r) THEN OwedShares(ytBalance[h], checkpoint[h], r) ELSE 0

CanSettle(h, r) == Earns(h, r) => OwedFits(ytBalance[h], checkpoint[h], r)

\* Variant: banking does not advance the checkpoint.
CheckpointStays(S, r) ==
  [h \in Holders |-> IF h \in S /\ checkpoint[h] = NoRate THEN r ELSE checkpoint[h]]

\* settle_into_ledger for every holder of S: a first settlement only records
\* the rate; later ones bank what is pending and raise the checkpoint.
SettledCheckpoint(S, r) ==
  [h \in Holders |-> IF h \in S /\ (checkpoint[h] = NoRate \/ checkpoint[h] < r)
                     THEN r ELSE checkpoint[h]]

SettledAccrued(S, r) ==
  [h \in Holders |-> IF h \in S THEN accrued[h] + Pending(h, r) ELSE accrued[h]]

SettleAll(S, r) ==
  /\ \A h \in S : CanSettle(h, r)
  /\ checkpoint' = SettledCheckpoint(S, r)
  /\ accrued' = SettledAccrued(S, r)

(***************************************************************************)
(* Operations.                                                             *)
(***************************************************************************)

\* mint, called by the tokenizer's split.
YtMint(to, amount, r) ==
  /\ amount > 0
  /\ ytSupply + amount <= MaxSupply
  /\ SettleAll({to}, r)
  /\ ytBalance' = [ytBalance EXCEPT ![to] = @ + amount]
  /\ ytSupply' = ytSupply + amount

\* Variant: only the sender settles before the balance moves.
YtMoveSettlesSender(from, to, amount, r) ==
  /\ amount > 0
  /\ ytBalance[from] >= amount
  /\ SettleAll({from}, r)
  /\ ytBalance' = Moved(ytBalance, from, to, amount)
  /\ UNCHANGED ytSupply

\* transfer and transfer_from: both sides settle before the balance moves.
YtMove(from, to, amount, r) ==
  /\ amount > 0
  /\ ytBalance[from] >= amount
  /\ SettleAll({from, to}, r)
  /\ ytBalance' = Moved(ytBalance, from, to, amount)
  /\ UNCHANGED ytSupply

\* burn, burn_from and the tokenizer's burn_settled.
YtBurn(from, amount, r) ==
  /\ amount > 0
  /\ ytBalance[from] >= amount
  /\ SettleAll({from}, r)
  /\ ytBalance' = [ytBalance EXCEPT ![from] = @ - amount]
  /\ ytSupply' = ytSupply - amount

\* Variant: the claim empties the ledger whatever was paid.
YtSettleAndClear(h, r, paid) ==
  /\ CanSettle(h, r)
  /\ paid <= SettledAccrued({h}, r)[h]
  /\ checkpoint' = SettledCheckpoint({h}, r)
  /\ accrued' = [accrued EXCEPT ![h] = 0]
  /\ UNCHANGED <<ytBalance, ytSupply>>

\* settle followed by consume, the two halves of a claim: the holder is
\* settled and exactly the amount paid leaves its ledger.
YtSettleAndConsume(h, r, paid) ==
  /\ CanSettle(h, r)
  /\ paid <= SettledAccrued({h}, r)[h]
  /\ checkpoint' = SettledCheckpoint({h}, r)
  /\ accrued' = [SettledAccrued({h}, r) EXCEPT ![h] = @ - paid]
  /\ UNCHANGED <<ytBalance, ytSupply>>

=============================================================================

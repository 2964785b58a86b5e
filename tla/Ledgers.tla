------------------------------- MODULE Ledgers -------------------------------
(***************************************************************************)
(* What the ledgers of the contracts have in common: how an amount moves    *)
(* from one entry to another, and the total a supply is compared with.  The *)
(* contracts never add balances up: they keep a supply beside them.  The     *)
(* services do add rows up, with the same sums.                             *)
(***************************************************************************)
EXTENDS Integers, FiniteSets, FiniteSetsExt

\* The sender is debited and stored before the receiver is read, so a move to
\* oneself changes nothing.
Moved(ledger, from, to, amount) ==
  [[ledger EXCEPT ![from] = @ - amount] EXCEPT ![to] = @ + amount]

\* The sum of f[x] over the elements x of S.
SumOver(f, S) == MapThenSumSet(LAMBDA x : f[x], S)

\* The sum of all that f gives.
SumOfAll(f) == SumOver(f, DOMAIN f)

=============================================================================

-------------------------------- MODULE Sep41 --------------------------------
(***************************************************************************)
(* The SEP-41 surface of the principal token: its entry points, with the    *)
(* allowances that delegate transfers and burns.  Allowances live in        *)
(* temporary storage and stop counting once their expiration ledger has     *)
(* passed.  The yield token and the SY wrapper carry the same allowance     *)
(* code.                                                                   *)
(*                                                                         *)
(* Every entry point is one atomic Soroban invocation: a call that panics   *)
(* leaves no trace, so it is simply not a step.                            *)
(***************************************************************************)
EXTENDS PtToken

CONSTANTS
  Minter,       \* the tokenizer, the only account that may mint
  MaxLedger,    \* bound on the ledger sequence number
  Amounts       \* the amounts callers pass in

ASSUME Sep41Assumption ==
  /\ Minter \notin Holders
  /\ MaxLedger \in Nat
  /\ Amounts \subseteq Nat

VARIABLES
  allowance,    \* [owner, spender] -> [amount, expires]
  ledger,       \* the current ledger sequence number
  invoker        \* history: the account that authorised the last call

sep41Vars == <<ptBalance, ptSupply, allowance, ledger, invoker>>

NoAllowance == [amount |-> 0, expires |-> 0]

Sep41Init ==
  /\ PtInit
  /\ allowance = [p \in Holders \X Holders |-> NoAllowance]
  /\ ledger = 0
  /\ invoker = Minter

(***************************************************************************)
(* Allowances.                                                             *)
(***************************************************************************)

\* read_allowance: an expired entry reads as an empty one.
ReadAllowance(owner, spender) ==
  IF allowance[<<owner, spender>>].expires >= ledger
  THEN allowance[<<owner, spender>>]
  ELSE NoAllowance

\* Variant: the allowance is checked but not reduced.
SpendNothing(owner, spender, amount) ==
  /\ ReadAllowance(owner, spender).amount >= amount
  /\ UNCHANGED allowance

\* spend_allowance writes back what read_allowance returned, less the amount.
SpendAllowance(owner, spender, amount) ==
  LET live == ReadAllowance(owner, spender) IN
  /\ live.amount >= amount
  /\ allowance' = [allowance EXCEPT ![<<owner, spender>>] =
                     [live EXCEPT !.amount = @ - amount]]

(***************************************************************************)
(* Entry points.                                                           *)
(***************************************************************************)
Mint(to, amount) ==
  /\ PtMint(to, amount)
  /\ invoker' = Minter
  /\ UNCHANGED <<allowance, ledger>>

Approve(owner, spender, amount, expires) ==
  /\ amount > 0 => expires >= ledger
  /\ allowance' = [allowance EXCEPT ![<<owner, spender>>] =
                     [amount |-> amount, expires |-> expires]]
  /\ invoker' = owner
  /\ UNCHANGED <<ptBalance, ptSupply, ledger>>

Transfer(from, to, amount) ==
  /\ PtMove(from, to, amount)
  /\ invoker' = from
  /\ UNCHANGED <<allowance, ledger>>

TransferFrom(spender, from, to, amount) ==
  /\ SpendAllowance(from, spender, amount)
  /\ PtMove(from, to, amount)
  /\ invoker' = spender
  /\ UNCHANGED ledger

Burn(from, amount) ==
  /\ PtBurn(from, amount)
  /\ invoker' = from
  /\ UNCHANGED <<allowance, ledger>>

BurnFrom(spender, from, amount) ==
  /\ SpendAllowance(from, spender, amount)
  /\ PtBurn(from, amount)
  /\ invoker' = spender
  /\ UNCHANGED ledger

\* The network closes a ledger.
CloseLedger ==
  /\ ledger < MaxLedger
  /\ ledger' = ledger + 1
  /\ UNCHANGED <<ptBalance, ptSupply, allowance, invoker>>

Sep41Next ==
  \/ CloseLedger
  \/ \E h, g \in Holders, n \in Amounts :
       \/ Mint(h, n)
       \/ Burn(h, n)
       \/ Transfer(h, g, n)
       \/ BurnFrom(h, g, n)
       \/ \E to \in Holders : TransferFrom(h, g, to, n)
       \/ \E e \in 0 .. MaxLedger : Approve(h, g, n, e)

Sep41Spec == Sep41Init /\ [][Sep41Next]_sep41Vars

-----------------------------------------------------------------------------
(***************************************************************************)
(* Properties.                                                             *)
(***************************************************************************)
\* Every variable has its type, and the recorded supply, which the tokenizer divides the
\* escrow by when it prices a redemption, is the sum of the balances through every mix of
\* mints, self transfers, delegated transfers and burns.
Sep41TypeOK ==
  /\ PtTypeOK
  /\ ptSupply = Total(ptBalance)
  /\ allowance \in [Holders \X Holders -> [amount : Nat, expires : 0 .. MaxLedger]]
  /\ ledger \in 0 .. MaxLedger
  /\ invoker \in Holders \cup {Minter}

\* A holder's balance falls only by the holder's own call or through an
\* unexpired allowance that shrinks by the very amount that left
\* (transfer_from and burn_from against spend_allowance).
DebitsAreAuthorised ==
  [][\A h \in Holders :
       ptBalance'[h] < ptBalance[h] =>
         \/ invoker' = h
         \/ /\ invoker' \in Holders
            /\ allowance[<<h, invoker'>>].expires >= ledger
            /\ allowance'[<<h, invoker'>>].amount
                 = allowance[<<h, invoker'>>].amount - (ptBalance[h] - ptBalance'[h])]_sep41Vars

=============================================================================

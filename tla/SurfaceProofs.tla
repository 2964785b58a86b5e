---------------------------- MODULE SurfaceProofs ----------------------------
(***************************************************************************)
(* Theorems about the two surfaces every contract shows the outside: the     *)
(* SEP-41 ledger with its allowances, and governance.  For any accounts,      *)
(* amounts, ledgers, codes, timelock and set of renounce-gated entry points:  *)
(* the supply is the sum of the balances, nobody is debited without consent,  *)
(* and neither the admin nor the code changes unannounced.                    *)
(***************************************************************************)
EXTENDS Sep41, Governance, ArithmeticProofs

USE Sep41Assumption

-----------------------------------------------------------------------------
(***************************************************************************)
(* The SEP-41 ledger.                                                      *)
(***************************************************************************)
\* The types the argument needs: balances and allowances are natural numbers. The supply,
\* a sum over the holders, plays no part in it.
LedgerTypes ==
  /\ ptBalance \in [Holders -> Nat]
  /\ allowance \in [Holders \X Holders -> [amount : Nat, expires : 0 .. MaxLedger]]
  /\ ledger \in 0 .. MaxLedger

\* A step that breaks no promise to h: its balance stays, or h itself called, or a live
\* allowance paid for the debit.
Consented(h) ==
  ptBalance'[h] < ptBalance[h] =>
    \/ invoker' = h
    \/ /\ invoker' \in Holders
       /\ allowance[<<h, invoker'>>].expires >= ledger
       /\ allowance'[<<h, invoker'>>].amount
            = allowance[<<h, invoker'>>].amount - (ptBalance[h] - ptBalance'[h])

\* What a mint does to a balance.
LEMMA MintFacts ==
  ASSUME LedgerTypes, NEW to \in Holders, NEW n \in Nat, PtMint(to, n)
  PROVE  /\ ptBalance' \in [Holders -> Nat]
         /\ \A h \in Holders : ptBalance'[h] >= ptBalance[h]
  BY DEF LedgerTypes, PtMint

\* What a transfer does: only the sender is debited, by the amount or, to itself, not at all.
LEMMA MoveFacts ==
  ASSUME LedgerTypes, NEW from \in Holders, NEW to \in Holders, NEW n \in Nat,
         PtMove(from, to, n)
  PROVE  /\ ptBalance' \in [Holders -> Nat]
         /\ \A h \in Holders : ptBalance'[h] < ptBalance[h] =>
              h = from /\ ptBalance'[h] = ptBalance[h] - n
<1>1. CASE from = to
  BY <1>1 DEF LedgerTypes, PtMove, Moved
<1>2. CASE from # to
  BY <1>2 DEF LedgerTypes, PtMove, Moved
<1> QED BY <1>1, <1>2

\* What a burn does: only the one who holds the tokens is debited.
LEMMA BurnFacts ==
  ASSUME LedgerTypes, NEW from \in Holders, NEW n \in Nat, PtBurn(from, n)
  PROVE  /\ ptBalance' \in [Holders -> Nat]
         /\ \A h \in Holders : ptBalance'[h] < ptBalance[h] =>
              h = from /\ ptBalance'[h] = ptBalance[h] - n
  BY DEF LedgerTypes, PtBurn

\* What spending an allowance does: an expired one pays for nothing but zero, since it
\* reads as empty, and what is left is never negative.
LEMMA SpendFacts ==
  ASSUME LedgerTypes, NEW owner \in Holders, NEW spender \in Holders, NEW n \in Nat,
         SpendAllowance(owner, spender, n)
  PROVE  /\ allowance' \in [Holders \X Holders -> [amount : Nat, expires : 0 .. MaxLedger]]
         /\ n > 0 => allowance[<<owner, spender>>].expires >= ledger
         /\ n > 0 => allowance'[<<owner, spender>>].amount = allowance[<<owner, spender>>].amount - n
<1> DEFINE live == ReadAllowance(owner, spender)
<1>1. <<owner, spender>> \in Holders \X Holders
  OBVIOUS
<1>2. allowance[<<owner, spender>>] \in [amount : Nat, expires : 0 .. MaxLedger]
  BY <1>1 DEF LedgerTypes
<1>3. (NoAllowance \in [amount : Nat, expires : 0 .. MaxLedger]) /\ (NoAllowance.amount = 0)
  BY DEF NoAllowance
<1>4. live \in [amount : Nat, expires : 0 .. MaxLedger]
  BY <1>2, <1>3 DEF ReadAllowance
<1>5. /\ live.amount >= n
      /\ allowance' = [allowance EXCEPT ![<<owner, spender>>] = [live EXCEPT !.amount = @ - n]]
  BY DEF SpendAllowance
<1>6. n > 0 => live = allowance[<<owner, spender>>] /\ allowance[<<owner, spender>>].expires >= ledger
  <2>1. CASE allowance[<<owner, spender>>].expires >= ledger
    BY <2>1 DEF ReadAllowance
  <2>2. CASE ~(allowance[<<owner, spender>>].expires >= ledger)
    <3>1. live = NoAllowance
      BY <2>2 DEF ReadAllowance
    <3> QED BY <1>3, <1>5, <3>1
  <2> QED BY <2>1, <2>2
<1> HIDE DEF live
<1>7. [live EXCEPT !.amount = @ - n] \in [amount : Nat, expires : 0 .. MaxLedger]
  BY <1>4, <1>5
<1>8. allowance' \in [Holders \X Holders -> [amount : Nat, expires : 0 .. MaxLedger]]
  BY <1>1, <1>5, <1>7 DEF LedgerTypes
<1>9. allowance'[<<owner, spender>>] = [live EXCEPT !.amount = @ - n]
  BY <1>1, <1>5 DEF LedgerTypes
<1>10. allowance'[<<owner, spender>>].amount = live.amount - n
  BY <1>4, <1>9
<1> QED BY <1>6, <1>8, <1>10

\* One step of any entry point keeps the types and breaks no promise.
LEMMA StepConsented ==
  ASSUME LedgerTypes, [Sep41Next]_sep41Vars
  PROVE  LedgerTypes' /\ \A h \in Holders : Consented(h)
<1> SUFFICES ASSUME Sep41Next
             PROVE  LedgerTypes' /\ \A h \in Holders : Consented(h)
  BY DEF sep41Vars, LedgerTypes, Consented
<1>1. CASE CloseLedger
  BY <1>1 DEF CloseLedger, LedgerTypes, Consented
<1>2. ASSUME NEW h \in Holders, NEW n \in Amounts, Mint(h, n)
      PROVE  LedgerTypes' /\ \A k \in Holders : Consented(k)
  <2>1. PtMint(h, n) /\ UNCHANGED <<allowance, ledger>> /\ n \in Nat
    BY <1>2 DEF Mint
  <2>2. /\ ptBalance' \in [Holders -> Nat]
        /\ \A k \in Holders : ptBalance'[k] >= ptBalance[k]
    BY <2>1, MintFacts
  <2> QED BY <2>1, <2>2 DEF LedgerTypes, Consented
<1>3. ASSUME NEW h \in Holders, NEW n \in Amounts, Burn(h, n)
      PROVE  LedgerTypes' /\ \A k \in Holders : Consented(k)
  <2>1. PtBurn(h, n) /\ invoker' = h /\ UNCHANGED <<allowance, ledger>> /\ n \in Nat
    BY <1>3 DEF Burn
  <2>2. /\ ptBalance' \in [Holders -> Nat]
        /\ \A k \in Holders : ptBalance'[k] < ptBalance[k] => k = h
    BY <2>1, BurnFacts
  <2> QED BY <2>1, <2>2 DEF LedgerTypes, Consented
<1>4. ASSUME NEW h \in Holders, NEW g \in Holders, NEW n \in Amounts, Transfer(h, g, n)
      PROVE  LedgerTypes' /\ \A k \in Holders : Consented(k)
  <2>1. PtMove(h, g, n) /\ invoker' = h /\ UNCHANGED <<allowance, ledger>> /\ n \in Nat
    BY <1>4 DEF Transfer
  <2>2. /\ ptBalance' \in [Holders -> Nat]
        /\ \A k \in Holders : ptBalance'[k] < ptBalance[k] => k = h
    BY <2>1, MoveFacts
  <2> QED BY <2>1, <2>2 DEF LedgerTypes, Consented
<1>5. ASSUME NEW h \in Holders, NEW g \in Holders, NEW n \in Amounts, BurnFrom(h, g, n)
      PROVE  LedgerTypes' /\ \A k \in Holders : Consented(k)
  <2>1. /\ SpendAllowance(g, h, n) /\ PtBurn(g, n) /\ invoker' = h /\ ledger' = ledger
        /\ n \in Nat /\ n > 0
    BY <1>5 DEF BurnFrom, PtBurn
  <2>2. /\ ptBalance' \in [Holders -> Nat]
        /\ \A k \in Holders : ptBalance'[k] < ptBalance[k] =>
             k = g /\ ptBalance'[k] = ptBalance[k] - n
    BY <2>1, BurnFacts
  <2>3. /\ allowance' \in [Holders \X Holders -> [amount : Nat, expires : 0 .. MaxLedger]]
        /\ allowance[<<g, h>>].expires >= ledger
        /\ allowance'[<<g, h>>].amount = allowance[<<g, h>>].amount - n
    BY <2>1, SpendFacts
  <2> QED BY <2>1, <2>2, <2>3 DEF LedgerTypes, Consented
<1>6. ASSUME NEW h \in Holders, NEW g \in Holders, NEW to \in Holders, NEW n \in Amounts,
             TransferFrom(h, g, to, n)
      PROVE  LedgerTypes' /\ \A k \in Holders : Consented(k)
  <2>1. /\ SpendAllowance(g, h, n) /\ PtMove(g, to, n) /\ invoker' = h /\ ledger' = ledger
        /\ n \in Nat /\ n > 0
    BY <1>6 DEF TransferFrom, PtMove
  <2>2. /\ ptBalance' \in [Holders -> Nat]
        /\ \A k \in Holders : ptBalance'[k] < ptBalance[k] =>
             k = g /\ ptBalance'[k] = ptBalance[k] - n
    BY <2>1, MoveFacts
  <2>3. /\ allowance' \in [Holders \X Holders -> [amount : Nat, expires : 0 .. MaxLedger]]
        /\ allowance[<<g, h>>].expires >= ledger
        /\ allowance'[<<g, h>>].amount = allowance[<<g, h>>].amount - n
    BY <2>1, SpendFacts
  <2>4. LedgerTypes'
    BY <2>1, <2>2, <2>3 DEF LedgerTypes
  <2>5. ASSUME NEW k \in Holders, ptBalance'[k] < ptBalance[k]
        PROVE  ptBalance[k] - ptBalance'[k] = n /\ k = g
    <3>1. ptBalance[k] \in Nat
      BY DEF LedgerTypes
    <3> QED BY <2>1, <2>2, <2>5, <3>1
  <2> QED BY <2>1, <2>3, <2>4, <2>5 DEF Consented
<1>7. ASSUME NEW h \in Holders, NEW g \in Holders, NEW n \in Amounts, NEW e \in 0 .. MaxLedger,
             Approve(h, g, n, e)
      PROVE  LedgerTypes' /\ \A k \in Holders : Consented(k)
  <2>1. <<h, g>> \in Holders \X Holders /\ n \in Nat
    OBVIOUS
  <2>2. allowance' \in [Holders \X Holders -> [amount : Nat, expires : 0 .. MaxLedger]]
    BY <1>7, <2>1 DEF Approve, LedgerTypes
  <2> QED BY <1>7, <2>2 DEF Approve, LedgerTypes, Consented
<1> QED BY <1>1, <1>2, <1>3, <1>4, <1>5, <1>6, <1>7 DEF Sep41Next

\* A holder's balance falls only by the holder's own call or through an unexpired allowance
\* that shrinks by the very amount that left.
THEOREM Authorised == Sep41Spec => DebitsAreAuthorised
<1>1. Sep41Init => LedgerTypes
  BY DEF Sep41Init, PtInit, LedgerTypes, NoAllowance
<1>2. LedgerTypes /\ [Sep41Next]_sep41Vars => LedgerTypes'
  BY StepConsented
<1>3. LedgerTypes /\ [Sep41Next]_sep41Vars =>
        [\A h \in Holders :
           ptBalance'[h] < ptBalance[h] =>
             \/ invoker' = h
             \/ /\ invoker' \in Holders
                /\ allowance[<<h, invoker'>>].expires >= ledger
                /\ allowance'[<<h, invoker'>>].amount
                     = allowance[<<h, invoker'>>].amount - (ptBalance[h] - ptBalance'[h])]_sep41Vars
  BY StepConsented DEF Consented
<1> QED BY <1>1, <1>2, <1>3, PTL DEF Sep41Spec, DebitsAreAuthorised

\* What an operation on the ledger does to the supply, it does to the sum of the balances.
LEMMA BooksAgree ==
  ASSUME ptBalance \in [Holders -> Nat], ptSupply = Total(ptBalance),
         NEW x \in Holders, NEW y \in Holders, NEW n \in Nat,
         PtMint(x, n) \/ PtMove(x, y, n) \/ PtBurn(x, n)
  PROVE  ptSupply' = Total(ptBalance')
<1> USE DEF Total
<1>1. IsFiniteSet(Holders) /\ ptBalance \in [Holders -> Int] /\ n \in Int
  BY PtTokenAssumption
<1>2. CASE PtMint(x, n)
  BY <1>1, <1>2, TotalAfterCredit DEF PtMint
<1>3. CASE PtMove(x, y, n)
  BY <1>1, <1>3, TotalAfterMove DEF PtMove
<1>4. CASE PtBurn(x, n)
  <2>1. SumOver([ptBalance EXCEPT ![x] = @ - n], Holders) = SumOver(ptBalance, Holders) - n
    BY <1>1, TotalAfterDebit
  <2> QED BY <1>4, <2>1 DEF PtBurn
<1> QED BY <1>2, <1>3, <1>4

\* Every entry point keeps the types, and the supply the sum of the balances.
LEMMA StepOfBooks ==
  ASSUME Sep41TypeOK, [Sep41Next]_sep41Vars
  PROVE  Sep41TypeOK'
<1>1. LedgerTypes
  BY DEF Sep41TypeOK, PtTypeOK, LedgerTypes
<1>2. LedgerTypes'
  BY <1>1, StepConsented
<1>3. CASE UNCHANGED <<ptBalance, ptSupply>>
  <2>1. invoker' \in Holders \cup {Minter}
    BY <1>3 DEF Sep41TypeOK, Sep41Next, sep41Vars, CloseLedger, Mint, Burn, Transfer, BurnFrom,
                TransferFrom, Approve
  <2> QED BY <1>2, <1>3, <2>1 DEF Sep41TypeOK, LedgerTypes, PtTypeOK
<1>4. ASSUME NEW x \in Holders, NEW y \in Holders, NEW n \in Amounts,
             PtMint(x, n) \/ PtMove(x, y, n) \/ PtBurn(x, n),
             invoker' \in Holders \cup {Minter}
      PROVE  Sep41TypeOK'
  <2>1. ptBalance \in [Holders -> Nat] /\ ptSupply = Total(ptBalance) /\ n \in Nat
    BY DEF Sep41TypeOK, PtTypeOK
  <2>2. ptSupply' = Total(ptBalance')
    BY <1>4, <2>1, BooksAgree
  <2>3. ptBalance' \in [Holders -> Nat]
    BY <1>2 DEF LedgerTypes
  <2>4. Total(ptBalance') \in Int
    BY <2>3, PtTokenAssumption, SumType DEF Total
  <2> QED BY <1>2, <1>4, <2>2, <2>3, <2>4 DEF Sep41TypeOK, PtTypeOK, LedgerTypes
<1>5. ASSUME NEW h \in Holders, NEW n \in Amounts, Mint(h, n) \/ Burn(h, n)
      PROVE  Sep41TypeOK'
  BY <1>4, <1>5 DEF Mint, Burn
<1>6. ASSUME NEW h \in Holders, NEW g \in Holders, NEW n \in Amounts,
             Transfer(h, g, n) \/ BurnFrom(h, g, n)
      PROVE  Sep41TypeOK'
  BY <1>4, <1>6 DEF Transfer, BurnFrom
<1>7. ASSUME NEW h \in Holders, NEW g \in Holders, NEW to \in Holders, NEW n \in Amounts,
             TransferFrom(h, g, to, n)
      PROVE  Sep41TypeOK'
  BY <1>4, <1>7 DEF TransferFrom
<1>8. ASSUME NEW h \in Holders, NEW g \in Holders, NEW n \in Amounts, NEW e \in 0 .. MaxLedger,
             Approve(h, g, n, e)
      PROVE  Sep41TypeOK'
  BY <1>3, <1>8 DEF Approve
<1>9. CASE CloseLedger \/ UNCHANGED sep41Vars
  BY <1>3, <1>9 DEF CloseLedger, sep41Vars
<1> QED BY <1>5, <1>6, <1>7, <1>8, <1>9 DEF Sep41Next

\* A new ledger is empty, and so is its supply.
LEMMA BooksOpen == Sep41Init => Sep41TypeOK
<1> SUFFICES ASSUME Sep41Init PROVE Sep41TypeOK
  OBVIOUS
<1>1. ptBalance \in [Holders -> Nat] /\ ptSupply = 0 /\ \A h \in Holders : ptBalance[h] = 0
  BY DEF Sep41Init, PtInit
<1>2. Total(ptBalance) = 0
  BY <1>1, PtTokenAssumption, TotalOfZeros DEF Total
<1> QED BY <1>1, <1>2 DEF Sep41Init, Sep41TypeOK, PtTypeOK, NoAllowance

\* The supply the tokenizer divides the escrow by is the sum of the balances, whatever mix
\* of mints, transfers to oneself, delegated transfers and burns came before.
THEOREM SupplyIsTheSum == Sep41Spec => []Sep41TypeOK
<1>1. Sep41TypeOK /\ [Sep41Next]_sep41Vars => Sep41TypeOK'
  BY StepOfBooks
<1> QED BY <1>1, BooksOpen, PTL DEF Sep41Spec

-----------------------------------------------------------------------------
(***************************************************************************)
(* Governance.                                                             *)
(***************************************************************************)

\* Every reachable state of a contract's governance is well typed.
THEOREM TypeCorrect == Spec => []TypeOK
<1>1. Init => TypeOK
  <2> SUFFICES ASSUME Init PROVE TypeOK
    OBVIOUS
  <2>1. paused \in BOOLEAN /\ renounced \in BOOLEAN
    BY DEF Init
  <2>2. stray \in Nat /\ now \in Nat /\ announced \in Nat
    BY DEF Init
  <2> QED BY <2>1, <2>2 DEF Init, TypeOK
<1>2. TypeOK /\ [Next]_vars => TypeOK'
  <2> SUFFICES ASSUME TypeOK, [Next]_vars PROVE TypeOK'
    OBVIOUS
  <2> USE DEF TypeOK, keys, upgrade
  <2>1. CASE Unpause \/ CancelUpgrade \/ RenounceAdmin
    BY <2>1 DEF Unpause, CancelUpgrade, RenounceAdmin
  <2>2. CASE ExecuteUpgrade
    BY <2>2 DEF ExecuteUpgrade
  <2>3. CASE Sweep \/ ReceiveStray \/ Tick
    BY <2>3 DEF Sweep, ReceiveStray, Tick
  <2>7. CASE AcceptAdmin
    BY <2>7 DEF AcceptAdmin
  <2>4. ASSUME NEW a \in Accounts, ProposeAdmin(a) \/ SetGuardian(a) \/ Pause(a)
        PROVE  TypeOK'
    BY <2>4 DEF ProposeAdmin, SetGuardian, Pause
  <2>5. ASSUME NEW w \in Wasms, ProposeUpgrade(w) PROVE TypeOK'
    BY <2>5, GovernanceAssumption DEF ProposeUpgrade
  <2>6. CASE UNCHANGED vars
    BY <2>6 DEF vars
  <2> QED BY <2>1, <2>2, <2>3, <2>4, <2>5, <2>6, <2>7 DEF Next
<1> QED BY <1>1, <1>2, PTL DEF Spec

-----------------------------------------------------------------------------
\* Once renounced, no upgrade is pending and none can be proposed again.
NothingPending == renounced => pendingUpgrade = None

\* Where propose_upgrade is renounce-gated (tokenizer, AMM), a renounced
\* contract keeps its code for good: renounce_admin drops the proposal that
\* execute_upgrade would not have refused, and no new one can be made.
THEOREM RenouncedCodeIsFinal ==
  ASSUME "propose_upgrade" \in RenounceGated
  PROVE  Spec => UpgradesEnd
<1>1. Init => NothingPending
  BY DEF Init, NothingPending
<1>2. NothingPending /\ [Next]_vars
        => NothingPending' /\ [renounced => wasm' = wasm]_vars
  <2> SUFFICES ASSUME NothingPending, [Next]_vars
               PROVE  NothingPending' /\ (renounced => wasm' = wasm)
    OBVIOUS
  <2> USE DEF NothingPending, keys, upgrade
  <2>1. CASE AcceptAdmin \/ Unpause \/ CancelUpgrade \/ RenounceAdmin \/ Sweep \/ ReceiveStray
               \/ Tick
    BY <2>1 DEF AcceptAdmin, Unpause, CancelUpgrade, RenounceAdmin, Sweep, ReceiveStray, Tick
  <2>2. CASE ExecuteUpgrade
    BY <2>2 DEF ExecuteUpgrade
  <2>3. ASSUME NEW a \in Accounts, ProposeAdmin(a) \/ SetGuardian(a) \/ Pause(a)
        PROVE  NothingPending' /\ (renounced => wasm' = wasm)
    BY <2>3 DEF ProposeAdmin, SetGuardian, Pause
  <2>4. ASSUME NEW w \in Wasms, ProposeUpgrade(w)
        PROVE  NothingPending' /\ (renounced => wasm' = wasm)
    BY <2>4 DEF ProposeUpgrade, NotRenounced
  <2>5. CASE UNCHANGED vars
    BY <2>5 DEF vars
  <2> QED BY <2>1, <2>2, <2>3, <2>4, <2>5 DEF Next
<1> QED BY <1>1, <1>2, PTL DEF Spec, UpgradesEnd

-----------------------------------------------------------------------------
\* The deadline of a pending upgrade is its own proposal time plus the timelock.
DeadlineIsFresh == pendingUpgrade # None => pendingUpgrade[2] = announced + Timelock

\* No code runs before holders had the whole timelock to leave, counted from
\* the proposal of that very code.
THEOREM AdvertisedUpgrades == Spec => UpgradeIsAdvertised
<1>1. Init => DeadlineIsFresh
  BY DEF Init, DeadlineIsFresh
<1>2. TypeOK /\ DeadlineIsFresh /\ [Next]_vars => DeadlineIsFresh'
  <2> SUFFICES ASSUME TypeOK, DeadlineIsFresh, [Next]_vars PROVE DeadlineIsFresh'
    OBVIOUS
  <2> USE DEF DeadlineIsFresh, keys, upgrade
  <2>1. CASE AcceptAdmin \/ Unpause \/ CancelUpgrade \/ ExecuteUpgrade \/ RenounceAdmin
               \/ Sweep \/ ReceiveStray \/ Tick
    BY <2>1 DEF AcceptAdmin, Unpause, CancelUpgrade, ExecuteUpgrade, RenounceAdmin, Sweep,
                ReceiveStray, Tick
  <2>2. ASSUME NEW a \in Accounts, ProposeAdmin(a) \/ SetGuardian(a) \/ Pause(a)
        PROVE  DeadlineIsFresh'
    BY <2>2 DEF ProposeAdmin, SetGuardian, Pause
  <2>3. ASSUME NEW w \in Wasms, ProposeUpgrade(w) PROVE DeadlineIsFresh'
    BY <2>3 DEF ProposeUpgrade
  <2>4. CASE UNCHANGED vars
    BY <2>4 DEF vars
  <2> QED BY <2>1, <2>2, <2>3, <2>4 DEF Next
<1>3. TypeOK /\ DeadlineIsFresh
        => [ExecuteUpgrade => pendingUpgrade[1] = wasm' /\ now - announced >= Timelock]_vars
  BY GovernanceAssumption DEF ExecuteUpgrade, DeadlineIsFresh, TypeOK
<1> QED BY <1>1, <1>2, <1>3, TypeCorrect, PTL DEF Spec, UpgradeIsAdvertised

-----------------------------------------------------------------------------
\* The contract changes hands only by a call of the account that receives it,
\* whatever nominations, renouncings and upgrades came before.
THEOREM HandoverIsConsented == Spec => AdminConsents
<1>1. [Next]_vars => [admin' # admin => caller' = admin']_vars
  <2> SUFFICES ASSUME [Next]_vars, admin' # admin PROVE caller' = admin'
    OBVIOUS
  <2> USE DEF keys
  <2>1. CASE AcceptAdmin
    BY <2>1 DEF AcceptAdmin
  <2>2. CASE Unpause \/ CancelUpgrade \/ ExecuteUpgrade \/ RenounceAdmin \/ Sweep
               \/ ReceiveStray \/ Tick
    BY <2>2 DEF Unpause, CancelUpgrade, ExecuteUpgrade, RenounceAdmin, Sweep, ReceiveStray, Tick
  <2>3. ASSUME NEW a \in Accounts, ProposeAdmin(a) \/ SetGuardian(a) \/ Pause(a)
        PROVE  FALSE
    BY <2>3 DEF ProposeAdmin, SetGuardian, Pause
  <2>4. ASSUME NEW w \in Wasms, ProposeUpgrade(w) PROVE FALSE
    BY <2>4 DEF ProposeUpgrade
  <2>5. CASE UNCHANGED vars
    BY <2>5 DEF vars
  <2> QED BY <2>1, <2>2, <2>3, <2>4, <2>5 DEF Next
<1> QED BY <1>1, PTL DEF Spec, AdminConsents

=============================================================================

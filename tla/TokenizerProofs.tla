--------------------------- MODULE TokenizerProofs ---------------------------
(***************************************************************************)
(* Theorems about the market for any number of holders, any rates, amounts  *)
(* and unit.  Nothing is assumed of how the SY rate moves.                 *)
(***************************************************************************)
EXTENDS Tokenizer, ArithmeticProofs

\* Rounding of an escrow reservation, for a supply of either sign.
LEMMA ReservationBound ==
  ASSUME NEW a \in Int, NEW c \in Nat \ {0}
  PROVE  MulDivCeil(a, WAD, c) \in Int /\ MulDivCeil(a, WAD, c) * c >= a * WAD
<1> DEFINE n == a * WAD
<1>1. n \in Int
  BY YtTokenAssumption
<1>2. (n + c - 1) \div c \in Int /\ ((n + c - 1) \div c) * c >= n
  <2> HIDE DEF n
  <2> QED BY <1>1
<1> QED BY <1>2 DEF MulDivCeil

\* The yield engine never owes a negative amount.
LEMMA PendingType ==
  ASSUME YtTypeOK, NEW h \in Holders, NEW r \in Nat
  PROVE  CanSettle(h, r) => Pending(h, r) \in Nat
<1> SUFFICES ASSUME CanSettle(h, r), Earns(h, r)
             PROVE  OwedShares(ytBalance[h], checkpoint[h], r) \in Nat
  BY DEF Pending
<1>1. /\ checkpoint[h] \in Nat \ {0} /\ r - checkpoint[h] \in Nat
      /\ r \in Nat \ {0} /\ ytBalance[h] \in Nat
  BY DEF CanSettle, Earns, OwedFits, YtTypeOK
<1>2. MulDivFloor(ytBalance[h], r - checkpoint[h], checkpoint[h]) \in Nat
  BY <1>1, FloorBound
<1>3. MulDivFloor(MulDivFloor(ytBalance[h], r - checkpoint[h], checkpoint[h]), WAD, r) \in Nat
  BY <1>1, <1>2, FloorBound, YtTokenAssumption
<1> QED BY <1>3 DEF OwedShares

\* Settling keeps checkpoints and accruals typed.
LEMMA SettleType ==
  ASSUME YtTypeOK, NEW S \in SUBSET Holders, NEW r \in Nat,
         \A h \in S : CanSettle(h, r)
  PROVE  /\ SettledCheckpoint(S, r) \in [Holders -> Nat \cup {NoRate}]
         /\ SettledAccrued(S, r) \in [Holders -> Nat]
<1>1. SettledCheckpoint(S, r) \in [Holders -> Nat \cup {NoRate}]
  BY DEF SettledCheckpoint, YtTypeOK
<1>2. SettledAccrued(S, r) \in [Holders -> Nat]
  <2>1. ASSUME NEW h \in S PROVE accrued[h] + Pending(h, r) \in Nat
    BY <2>1, PendingType DEF YtTypeOK
  <2> QED BY <2>1 DEF SettledAccrued, YtTypeOK
<1> QED BY <1>1, <1>2

-----------------------------------------------------------------------------
(***************************************************************************)
(* Type correctness, one lemma per group of operations.                    *)
(***************************************************************************)
LEMMA RatesType ==
  ASSUME Typed
  PROVE  /\ EffectiveRate \in Nat
         /\ RecordRate => /\ lastObserved' \in Nat \cup {NoRate}
                          /\ maturityRate' \in Nat \cup {NoRate}
BY TokenizerAssumption DEF Typed, EffectiveRate, RecordRate

\* The operations on PT keep the types of its ledger.
LEMMA PtOpsType ==
  ASSUME PtTypeOK, NEW h \in Holders, NEW g \in Holders, NEW n \in Nat,
         PtMint(h, n) \/ PtMove(h, g, n) \/ PtBurn(h, n)
  PROVE  PtTypeOK'
BY DEF PtTypeOK, PtMint, PtMove, PtBurn, Moved

\* The operations on YT keep the types of its ledger.
LEMMA YtOpsType ==
  ASSUME YtTypeOK, NEW h \in Holders, NEW g \in Holders, NEW n \in Nat, NEW r \in Nat,
         YtMint(h, n, r) \/ YtMove(h, g, n, r) \/ YtBurn(h, n, r)
           \/ YtSettleAndConsume(h, r, n)
  PROVE  YtTypeOK'
<1> DEFINE Good(S) == /\ SettledCheckpoint(S, r) \in [Holders -> Nat \cup {NoRate}]
                     /\ SettledAccrued(S, r) \in [Holders -> Nat]
<1>1. ASSUME NEW S \in {{h}, {h, g}}, SettleAll(S, r)
      PROVE  checkpoint' \in [Holders -> Nat \cup {NoRate}] /\ accrued' \in [Holders -> Nat]
  <2>1. S \in SUBSET Holders
    OBVIOUS
  <2>2. Good(S)
    BY <1>1, <2>1, SettleType DEF SettleAll
  <2> QED BY <1>1, <2>2 DEF SettleAll
<1>2. CASE YtMint(h, n, r)
  <2>1. checkpoint' \in [Holders -> Nat \cup {NoRate}] /\ accrued' \in [Holders -> Nat]
    BY <1>2, <1>1 DEF YtMint
  <2>2. ytBalance' \in [Holders -> Nat] /\ ytSupply' \in Int
    BY <1>2 DEF YtMint, YtTypeOK
  <2> QED BY <2>1, <2>2 DEF YtTypeOK
<1>3. CASE YtMove(h, g, n, r)
  <2>1. checkpoint' \in [Holders -> Nat \cup {NoRate}] /\ accrued' \in [Holders -> Nat]
    BY <1>3, <1>1 DEF YtMove
  <2>2. ytBalance' \in [Holders -> Nat] /\ ytSupply' \in Int
    BY <1>3 DEF YtMove, YtTypeOK, Moved
  <2> QED BY <2>1, <2>2 DEF YtTypeOK
<1>4. CASE YtBurn(h, n, r)
  <2>1. checkpoint' \in [Holders -> Nat \cup {NoRate}] /\ accrued' \in [Holders -> Nat]
    BY <1>4, <1>1 DEF YtBurn
  <2>2. ytBalance' \in [Holders -> Nat] /\ ytSupply' \in Int
    BY <1>4 DEF YtBurn, YtTypeOK
  <2> QED BY <2>1, <2>2 DEF YtTypeOK
<1>5. CASE YtSettleAndConsume(h, r, n)
  <2>1. Good({h})
    <3>1. {h} \in SUBSET Holders /\ \A k \in {h} : CanSettle(k, r)
      BY <1>5 DEF YtSettleAndConsume
    <3> QED BY <3>1, SettleType
  <2>2. SettledAccrued({h}, r)[h] - n \in Nat
    BY <1>5, <2>1 DEF YtSettleAndConsume
  <2>3. accrued' \in [Holders -> Nat] /\ checkpoint' \in [Holders -> Nat \cup {NoRate}]
    BY <1>5, <2>1, <2>2 DEF YtSettleAndConsume
  <2> QED BY <1>5, <2>3 DEF YtTypeOK, YtSettleAndConsume
<1> QED BY <1>2, <1>3, <1>4, <1>5

\* Moving shares into and out of escrow keeps their types.
LEMMA SyOpsType ==
  ASSUME Typed, NEW h \in Holders, NEW n \in Nat, Pull(h, n) \/ Push(h, n)
  PROVE  sy' \in [Holders -> Nat] /\ escrow' \in Nat
BY DEF Typed, Pull, Push

\* Payouts are natural numbers.
LEMMA PayoutsType ==
  ASSUME Typed, NEW n \in Nat, NEW r \in Nat \ {0}
  PROVE  /\ ptSupply > 0 => PrincipalOut(n, r) \in Nat
         /\ Surplus(r) \in Nat
<1>1. ASSUME ptSupply > 0 PROVE PrincipalOut(n, r) \in Nat
  <2>1. ptSupply \in Nat \ {0} /\ escrow \in Nat /\ WAD \in Nat
    BY <1>1, YtTokenAssumption DEF Typed, PtTypeOK
  <2>2. MulDivFloor(n, WAD, r) \in Nat /\ MulDivFloor(escrow, n, ptSupply) \in Nat
    BY <2>1, FloorBound
  <2> QED BY <2>2 DEF PrincipalOut, Smaller
<1>2. Surplus(r) \in Nat
  <2>1. Reservation(r) \in Int
    BY ReservationBound DEF Reservation, Typed, PtTypeOK
  <2> QED BY <2>1 DEF Surplus, Larger, Typed
<1> QED BY <1>1, <1>2

\* Every step keeps every type.
LEMMA TypeStep == ASSUME Typed, [Next]_vars PROVE Typed'
<1> USE DEF envVars, rateVars
<1>1. EffectiveRate \in Nat /\ syRate \in Nat
  BY RatesType, TokenizerAssumption DEF Typed
<1>2. ASSUME NEW h \in Holders, NEW n \in Amounts, Split(h, n) PROVE Typed'
  <2> DEFINE face == MulDivFloor(n, syRate, WAD)
  <2>1. n \in Nat /\ face \in Nat
    BY <1>1, TokenizerAssumption, YtTokenAssumption, FloorBound
  <2> HIDE DEF face
  <2>2. PtTypeOK'
    BY <1>2, <2>1, PtOpsType DEF Split, Typed, face
  <2>3. YtTypeOK'
    BY <1>1, <1>2, <2>1, YtOpsType DEF Split, Typed, face
  <2>4. sy' \in [Holders -> Nat] /\ escrow' \in Nat
    BY <1>2, <2>1, SyOpsType DEF Split
  <2> QED BY <1>2, <2>2, <2>3, <2>4, RatesType DEF Split, Typed
<1>3. ASSUME NEW h \in Holders, NEW n \in Amounts, Recombine(h, n) PROVE Typed'
  <2>1. n \in Nat /\ PrincipalOut(n, syRate) \in Nat
    BY <1>1, <1>3, PayoutsType, TokenizerAssumption DEF Recombine
  <2>2. PtTypeOK'
    BY <1>3, <2>1, PtOpsType DEF Recombine, Typed
  <2>3. YtTypeOK'
    BY <1>1, <1>3, <2>1, YtOpsType DEF Recombine, Typed
  <2>4. sy' \in [Holders -> Nat] /\ escrow' \in Nat
    BY <1>3, <2>1, SyOpsType DEF Recombine
  <2> QED BY <1>3, <2>2, <2>3, <2>4, RatesType DEF Recombine, Typed
<1>4. ASSUME NEW h \in Holders, NEW n \in Amounts, RedeemAtMaturity(h, n) PROVE Typed'
  <2>1. n \in Nat /\ PrincipalOut(n, EffectiveRate) \in Nat
    BY <1>1, <1>4, PayoutsType, TokenizerAssumption DEF RedeemAtMaturity
  <2>2. PtTypeOK'
    BY <1>4, <2>1, PtOpsType DEF RedeemAtMaturity, Typed
  <2>3. YtTypeOK'
    BY <1>4 DEF RedeemAtMaturity, Typed, YtTypeOK, ytVars
  <2>4. sy' \in [Holders -> Nat] /\ escrow' \in Nat
    BY <1>4, <2>1, SyOpsType DEF RedeemAtMaturity
  <2> QED BY <1>4, <2>2, <2>3, <2>4, RatesType DEF RedeemAtMaturity, Typed
<1>5. ASSUME NEW h \in Holders, ClaimYield(h) PROVE Typed'
  <2> DEFINE owed == SettledAccrued({h}, EffectiveRate)[h]
             pay  == Smaller(owed, Surplus(EffectiveRate))
  <2>1. owed \in Nat
    <3>1. {h} \in SUBSET Holders /\ \A k \in {h} : CanSettle(k, EffectiveRate)
      BY <1>5 DEF ClaimYield, YtSettleAndConsume
    <3>2. SettledAccrued({h}, EffectiveRate) \in [Holders -> Nat]
      BY <1>1, <3>1, SettleType DEF Typed
    <3> QED BY <3>2
  <2>2. pay \in Nat
    BY <1>1, <1>5, <2>1, PayoutsType DEF ClaimYield, Smaller
  <2> HIDE DEF pay
  <2>3. YtTypeOK'
    BY <1>1, <1>5, <2>2, YtOpsType DEF ClaimYield, Typed, pay
  <2>4. sy' \in [Holders -> Nat] /\ escrow' \in Nat
    BY <1>5, <2>2, SyOpsType DEF ClaimYield, pay
  <2> QED BY <1>5, <2>3, <2>4, RatesType DEF ClaimYield, Typed, PtTypeOK, ptVars
<1>6. ASSUME ObserveRate \/ Pause \/ Unpause \/ Mature PROVE Typed'
  BY <1>6, RatesType
     DEF ObserveRate, Pause, Unpause, Mature, Typed, PtTypeOK, YtTypeOK, ptVars, ytVars
<1>7. ASSUME NEW r \in Rates, RateMoves(r) PROVE Typed'
  BY <1>7 DEF RateMoves, Typed, PtTypeOK, YtTypeOK, ptVars, ytVars
<1>8. ASSUME NEW h \in Holders, NEW g \in Holders, NEW n \in Amounts,
             PtTransfer(h, g, n) \/ PtBurnDirect(h, n)
      PROVE  Typed'
  <2>1. n \in Nat
    BY TokenizerAssumption
  <2>2. PtTypeOK'
    BY <1>8, <2>1, PtOpsType DEF PtTransfer, PtBurnDirect, Typed
  <2> QED BY <1>8, <2>2 DEF PtTransfer, PtBurnDirect, Typed, YtTypeOK, ytVars
<1>9. ASSUME NEW h \in Holders, NEW g \in Holders, NEW n \in Amounts,
             YtTransfer(h, g, n) \/ YtBurnDirect(h, n)
      PROVE  Typed'
  <2>1. n \in Nat
    BY TokenizerAssumption
  <2>2. YtTypeOK'
    BY <1>1, <1>9, <2>1, YtOpsType DEF YtTransfer, YtBurnDirect, Typed
  <2> QED BY <1>9, <2>2, RatesType DEF YtTransfer, YtBurnDirect, Typed, PtTypeOK, ptVars
<1>10. ASSUME NEW h \in Holders, NEW g \in Holders, NEW n \in Amounts,
              SyTransfer(h, g, n) \/ SyDonate(h, n)
       PROVE  Typed'
  <2>1. n \in Nat
    BY TokenizerAssumption
  <2>2. sy' \in [Holders -> Nat] /\ escrow' \in Nat
    BY <1>10, <2>1, SyOpsType DEF SyTransfer, SyDonate, Typed, Moved
  <2> QED BY <1>10, <2>2
       DEF SyTransfer, SyDonate, Typed, PtTypeOK, YtTypeOK, ptVars, ytVars
<1>11. CASE UNCHANGED vars
  BY <1>11 DEF vars, Typed, PtTypeOK, YtTypeOK, ptVars, ytVars
<1> QED BY <1>2, <1>3, <1>4, <1>5, <1>6, <1>7, <1>8, <1>9, <1>10, <1>11 DEF Next

\* A new market is well typed.
LEMMA TypesOpen == Init => Typed
<1> SUFFICES ASSUME Init PROVE Typed
  OBVIOUS
<1>1. PtTypeOK
  BY DEF Init, PtInit, PtTypeOK
<1>2. YtTypeOK
  BY DEF Init, YtInit, YtTypeOK
<1> QED BY <1>1, <1>2, TokenizerAssumption DEF Init, Typed

\* Balances, ledgers and escrow are never negative, whatever rates are observed and
\* whatever calls succeed.
LEMMA Types == Spec => []Typed
<1>1. Typed /\ [Next]_vars => Typed'
  BY TypeStep
<1> QED BY <1>1, TypesOpen, PTL DEF Spec

\* What an operation does to a supply, it does to the sum of the balances.
LEMMA PtBooks ==
  ASSUME TypeOK, NEW x \in Holders, NEW y \in Holders, NEW n \in Nat,
         PtMint(x, n) \/ PtMove(x, y, n) \/ PtBurn(x, n)
  PROVE  ptSupply' = Total(ptBalance')
<1> USE DEF Total
<1>1. /\ IsFiniteSet(Holders) /\ ptBalance \in [Holders -> Int] /\ n \in Int
      /\ ptSupply = SumOver(ptBalance, Holders)
  BY PtTokenAssumption DEF TypeOK, Typed, PtTypeOK
<1>2. CASE PtMint(x, n)
  BY <1>1, <1>2, TotalAfterCredit DEF PtMint
<1>3. CASE PtMove(x, y, n)
  BY <1>1, <1>3, TotalAfterMove DEF PtMove
<1>4. CASE PtBurn(x, n)
  <2>1. SumOver([ptBalance EXCEPT ![x] = @ - n], Holders) = SumOver(ptBalance, Holders) - n
    BY <1>1, TotalAfterDebit
  <2> QED BY <1>1, <1>4, <2>1 DEF PtBurn
<1> QED BY <1>2, <1>3, <1>4

\* The same for the yield token, at whatever rate its holders are settled.
LEMMA YtBooks ==
  ASSUME TypeOK, NEW x \in Holders, NEW y \in Holders, NEW n \in Nat, NEW r,
         YtMint(x, n, r) \/ YtMove(x, y, n, r) \/ YtBurn(x, n, r)
  PROVE  ytSupply' = Total(ytBalance')
<1> USE DEF Total
<1>1. /\ IsFiniteSet(Holders) /\ ytBalance \in [Holders -> Int] /\ n \in Int
      /\ ytSupply = SumOver(ytBalance, Holders)
  BY PtTokenAssumption DEF TypeOK, Typed, YtTypeOK
<1>2. CASE YtMint(x, n, r)
  BY <1>1, <1>2, TotalAfterCredit DEF YtMint
<1>3. CASE YtMove(x, y, n, r)
  BY <1>1, <1>3, TotalAfterMove DEF YtMove
<1>4. CASE YtBurn(x, n, r)
  <2>1. SumOver([ytBalance EXCEPT ![x] = @ - n], Holders) = SumOver(ytBalance, Holders) - n
    BY <1>1, TotalAfterDebit
  <2> QED BY <1>1, <1>4, <2>1 DEF YtBurn
<1> QED BY <1>2, <1>3, <1>4

\* Every step keeps both supplies the sums of their balances.
LEMMA BooksStep ==
  ASSUME TypeOK, [Next]_vars
  PROVE  ptSupply' = Total(ptBalance') /\ ytSupply' = Total(ytBalance')
<1>1. ASSUME UNCHANGED ptVars PROVE ptSupply' = Total(ptBalance')
  BY <1>1 DEF ptVars, TypeOK, Total
<1>2. ASSUME UNCHANGED <<ytBalance, ytSupply>> PROVE ytSupply' = Total(ytBalance')
  BY <1>2 DEF TypeOK, Total
<1>3. ASSUME NEW h \in Holders, NEW n \in Amounts, Split(h, n) \/ Recombine(h, n)
      PROVE  ptSupply' = Total(ptBalance') /\ ytSupply' = Total(ytBalance')
  <2> DEFINE face == MulDivFloor(n, syRate, WAD)
  <2>1. n \in Nat /\ face \in Nat
    BY TokenizerAssumption, YtTokenAssumption, FloorBound DEF TypeOK, Typed
  <2> HIDE DEF face
  <2>2. CASE Split(h, n)
    BY <2>1, <2>2, PtBooks, YtBooks DEF Split, face
  <2>3. CASE Recombine(h, n)
    BY <2>1, <2>3, PtBooks, YtBooks DEF Recombine
  <2> QED BY <1>3, <2>2, <2>3
<1>4. ASSUME NEW h \in Holders, NEW g \in Holders, NEW n \in Amounts,
             RedeemAtMaturity(h, n) \/ PtBurnDirect(h, n) \/ PtTransfer(h, g, n)
      PROVE  ptSupply' = Total(ptBalance') /\ ytSupply' = Total(ytBalance')
  BY <1>2, <1>4, PtBooks, TokenizerAssumption
     DEF RedeemAtMaturity, PtBurnDirect, PtTransfer, ytVars
<1>5. ASSUME NEW h \in Holders, NEW g \in Holders, NEW n \in Amounts,
             YtBurnDirect(h, n) \/ YtTransfer(h, g, n)
      PROVE  ptSupply' = Total(ptBalance') /\ ytSupply' = Total(ytBalance')
  BY <1>1, <1>5, YtBooks, TokenizerAssumption DEF YtBurnDirect, YtTransfer
<1>6. ASSUME NEW h \in Holders, ClaimYield(h)
      PROVE  ptSupply' = Total(ptBalance') /\ ytSupply' = Total(ytBalance')
  BY <1>1, <1>2, <1>6 DEF ClaimYield, YtSettleAndConsume
<1>7. ASSUME NEW h \in Holders, NEW g \in Holders, NEW n \in Amounts,
             SyTransfer(h, g, n) \/ SyDonate(h, n)
      PROVE  ptSupply' = Total(ptBalance') /\ ytSupply' = Total(ytBalance')
  BY <1>1, <1>2, <1>7 DEF SyTransfer, SyDonate, ytVars
<1>8. ASSUME NEW r \in Rates, RateMoves(r)
      PROVE  ptSupply' = Total(ptBalance') /\ ytSupply' = Total(ytBalance')
  BY <1>1, <1>2, <1>8 DEF RateMoves, ytVars
<1>9. CASE ObserveRate \/ Pause \/ Unpause \/ Mature \/ UNCHANGED vars
  BY <1>1, <1>2, <1>9 DEF ObserveRate, Pause, Unpause, Mature, vars, ytVars
<1> QED BY <1>3, <1>4, <1>5, <1>6, <1>7, <1>8, <1>9 DEF Next

\* Every reachable state is well typed, and both supplies are the sums of their balances.
THEOREM TypeCorrect == Spec => []TypeOK
<1>1. Init => TypeOK
  <2> SUFFICES ASSUME Init PROVE TypeOK
    OBVIOUS
  <2>1. /\ ptSupply = 0 /\ ytSupply = 0
        /\ \A h \in Holders : ptBalance[h] = 0 /\ ytBalance[h] = 0
    BY DEF Init, PtInit, YtInit
  <2>2. Total(ptBalance) = 0 /\ Total(ytBalance) = 0
    BY <2>1, PtTokenAssumption, TotalOfZeros DEF Total
  <2> QED BY <2>1, <2>2, TypesOpen DEF TypeOK
<1>2. TypeOK /\ [Next]_vars => TypeOK'
  <2> SUFFICES ASSUME TypeOK, [Next]_vars PROVE TypeOK'
    OBVIOUS
  <2>1. Typed'
    BY TypeStep DEF TypeOK
  <2> QED BY <2>1, BooksStep DEF TypeOK
<1> QED BY <1>1, <1>2, PTL DEF Spec

-----------------------------------------------------------------------------
(***************************************************************************)
(* The freeze.                                                             *)
(***************************************************************************)

\* Every step leaves both stored rates alone or records through RecordRate,
\* and only Mature moves the market past maturity.
LEMMA RateSteps ==
  ASSUME [Next]_vars
  PROVE  /\ UNCHANGED rateVars \/ (RecordRate /\ matured' = matured)
         /\ matured => matured'
<1> DEFINE Result == /\ UNCHANGED rateVars \/ (RecordRate /\ matured' = matured)
                     /\ matured => matured'
<1> USE DEF envVars
<1>1. ASSUME NEW h \in Holders, NEW n \in Amounts,
             Split(h, n) \/ Recombine(h, n) \/ RedeemAtMaturity(h, n) \/ YtBurnDirect(h, n)
      PROVE  Result
  BY <1>1 DEF Split, Recombine, RedeemAtMaturity, YtBurnDirect
<1>2. ASSUME NEW h \in Holders, NEW n \in Amounts, PtBurnDirect(h, n) \/ SyDonate(h, n)
      PROVE  Result
  BY <1>2 DEF PtBurnDirect, SyDonate
<1>9. ASSUME NEW h \in Holders, NEW g \in Holders, NEW n \in Amounts,
             PtTransfer(h, g, n) \/ SyTransfer(h, g, n) \/ YtTransfer(h, g, n)
      PROVE  Result
  BY <1>9 DEF PtTransfer, SyTransfer, YtTransfer
<1>3. ASSUME NEW r \in Rates, RateMoves(r) PROVE Result
  BY <1>3 DEF RateMoves
<1>4. ASSUME Pause \/ Unpause \/ Mature PROVE Result
  BY <1>4 DEF Pause, Unpause, Mature
<1>5. ASSUME UNCHANGED vars PROVE Result
  BY <1>5 DEF vars
<1>6. ASSUME ObserveRate PROVE Result
  BY <1>6 DEF ObserveRate
<1>7. ASSUME NEW h \in Holders, ClaimYield(h) PROVE Result
  BY <1>7 DEF ClaimYield
<1>8. Result
  <2> HIDE DEF Result
  <2> QED BY <1>1, <1>2, <1>3, <1>4, <1>5, <1>6, <1>7, <1>9 DEF Next
<1> QED BY <1>8

\* The frozen rate is the last pre-maturity observation.
THEOREM FreezeCorrect == Spec => []FrozenIsLastObservation
<1>1. Init => FrozenIsLastObservation
  BY DEF Init, FrozenIsLastObservation
<1>2. Typed /\ FrozenIsLastObservation /\ [Next]_vars => FrozenIsLastObservation'
  BY RateSteps DEF FrozenIsLastObservation, RecordRate, EffectiveRate, rateVars, Typed
<1> QED BY <1>1, <1>2, Types, PTL DEF Spec

\* Whatever calls follow the freeze, and in whatever order, its rate stays.
THEOREM FreezeFinality == Spec => FreezeIsFinal
<1>1. FrozenIsLastObservation /\ [Next]_vars
        => [maturityRate # NoRate => maturityRate' = maturityRate]_vars
  BY RateSteps DEF FrozenIsLastObservation, RecordRate, EffectiveRate, rateVars
<1> QED BY <1>1, FreezeCorrect, PTL DEF Spec, FreezeIsFinal

-----------------------------------------------------------------------------
(***************************************************************************)
(* The tokenizer implements the senior vault.                              *)
(***************************************************************************)

\* Recording a rate is what the vault allows of the rate on record, and after
\* it the rate on record is the one the call was priced at.
LEMMA RecordIsRateStep ==
  ASSUME Typed, Typed', FrozenIsLastObservation, RecordRate
  PROVE  Vault!RateStep /\ RateOnRecord' = EffectiveRate /\ (~matured => maturityRate' = NoRate)
<1>1. EffectiveRate \in Nat
  BY RatesType
<1>2. RateOnRecord' = EffectiveRate
  BY <1>1, YtTokenAssumption
     DEF RateOnRecord, RecordRate, EffectiveRate, FrozenIsLastObservation, Typed
<1>3. Vault!RateStep
  BY <1>1, <1>2, YtTokenAssumption
     DEF Vault!RateStep, RateOnRecord, RecordRate, EffectiveRate, FrozenIsLastObservation, Typed
<1> QED BY <1>1, <1>2, <1>3, YtTokenAssumption DEF RecordRate, FrozenIsLastObservation, Typed

\* A principal payout is within both caps, multiplied out.
LEMMA PrincipalOutCaps ==
  ASSUME Typed, NEW n \in Nat, NEW r \in Nat \ {0}, ptSupply > 0
  PROVE  /\ PrincipalOut(n, r) * r <= n * WAD
         /\ PrincipalOut(n, r) * ptSupply <= escrow * n
<1> DEFINE full == MulDivFloor(n, WAD, r)
           fair == MulDivFloor(escrow, n, ptSupply)
<1>1. /\ full \in Nat /\ full * r <= n * WAD
      /\ fair \in Nat /\ fair * ptSupply <= escrow * n
  <2>1. WAD \in Nat /\ escrow \in Nat /\ ptSupply \in Nat \ {0}
    BY YtTokenAssumption DEF Typed, PtTypeOK
  <2> QED BY <2>1, FloorBound
<1>2. PrincipalOut(n, r) = IF full < fair THEN full ELSE fair
  BY DEF PrincipalOut, Smaller
<1> HIDE DEF full, fair
<1>3. CASE full < fair
  <2>1. full * ptSupply <= fair * ptSupply
    BY <1>1, <1>3 DEF Typed, PtTypeOK
  <2> QED BY <1>1, <1>2, <1>3, <2>1, YtTokenAssumption DEF Typed, PtTypeOK
<1>4. CASE ~(full < fair)
  <2>1. fair * r <= full * r
    BY <1>1, <1>4
  <2> QED BY <1>1, <1>2, <1>4, <2>1, YtTokenAssumption DEF Typed, PtTypeOK
<1> QED BY <1>3, <1>4

\* A redemption of n principal for s shares is a step of the vault.
LEMMA ExitIsRedeem ==
  ASSUME Typed, Typed', FrozenIsLastObservation, RecordRate,
         NEW h \in Holders, NEW n \in Nat, EffectiveRate > 0, ptSupply > 0,
         PtBurn(h, n), Push(h, PrincipalOut(n, EffectiveRate))
  PROVE  /\ Vault!Redeem
         /\ escrow' * ptSupply >= escrow * ptSupply'
<1> DEFINE out == PrincipalOut(n, EffectiveRate)
           r   == EffectiveRate
<1>1. r \in Nat \ {0} /\ RateOnRecord' = r /\ Vault!RateStep
  BY RatesType, RecordIsRateStep
<1>2. out \in Nat
  BY <1>1, PayoutsType
<1>3. out * r <= n * WAD /\ out * ptSupply <= escrow * n
  BY <1>1, PrincipalOutCaps
<1>4. ptSupply' = ptSupply - n /\ escrow' = escrow - out /\ n > 0
  BY DEF PtBurn, Push
<1> HIDE DEF out, r
<1>5. escrow \in Nat /\ ptSupply \in Int /\ WAD \in Nat
  BY YtTokenAssumption DEF Typed, PtTypeOK
<1>6. (escrow - out) * ptSupply >= escrow * (ptSupply - n)
  <2>1. (escrow - out) * ptSupply = escrow * ptSupply - out * ptSupply
    BY <1>2, <1>5
  <2>2. escrow * (ptSupply - n) = escrow * ptSupply - escrow * n
    BY <1>5
  <2> QED BY <1>2, <1>3, <1>5, <2>1, <2>2
<1>7. escrow - escrow' = out /\ ptSupply - ptSupply' = n
  BY <1>2, <1>4, <1>5
<1>8. r # NoRate
  BY <1>1, YtTokenAssumption
<1>9. ptSupply' < ptSupply /\ escrow' <= escrow
  BY <1>2, <1>4, <1>5
<1> QED BY <1>1, <1>3, <1>4, <1>6, <1>7, <1>8, <1>9 DEF Vault!Redeem

\* A split issues face against the shares it brings.
LEMMA SplitIsIssue ==
  ASSUME Typed, Typed', FrozenIsLastObservation,
         NEW h \in Holders, NEW n \in Nat, Split(h, n)
  PROVE  Vault!Issue
<1> DEFINE face == MulDivFloor(n, syRate, WAD)
<1>1. syRate \in Nat /\ WAD \in Nat \ {0} /\ escrow \in Nat /\ ptSupply \in Int
  BY TokenizerAssumption, YtTokenAssumption DEF Typed, PtTypeOK
<1>2. face \in Nat /\ face * WAD <= n * syRate
  BY <1>1, FloorBound
<1>3. /\ RecordRate /\ ~matured /\ n > 0 /\ face > 0
      /\ escrow' = escrow + n /\ ptSupply' = ptSupply + face
  BY DEF Split, Pull, PtMint
<1>4. Vault!RateStep /\ RateOnRecord' = syRate /\ maturityRate' = NoRate
  BY <1>3, RecordIsRateStep DEF EffectiveRate
<1> HIDE DEF face
<1>5. escrow' - escrow = n /\ ptSupply' - ptSupply = face
  BY <1>1, <1>2, <1>3
<1> QED BY <1>1, <1>2, <1>3, <1>4, <1>5, YtTokenAssumption DEF Vault!Issue, Vault!Covered

\* A claim pays out of the surplus, or only observes the rate.
LEMMA ClaimIsPayYield ==
  ASSUME Typed, Typed', FrozenIsLastObservation, NEW h \in Holders, ClaimYield(h)
  PROVE  Vault!PayYield \/ Vault!Observe
<1> DEFINE r    == EffectiveRate
           res  == Reservation(r)
           owed == SettledAccrued({h}, r)[h]
           pay  == Smaller(owed, Surplus(r))
<1>1. r \in Nat \ {0} /\ RateOnRecord' = r /\ Vault!RateStep /\ r # NoRate
  BY RatesType, RecordIsRateStep, YtTokenAssumption DEF ClaimYield
<1>2. escrow' = escrow - pay /\ ptSupply' = ptSupply
  BY DEF ClaimYield, Push, ptVars
<1>3. res \in Int /\ res * r >= ptSupply * WAD
  BY <1>1, ReservationBound DEF Reservation, Typed, PtTypeOK
<1>4. Surplus(r) = IF 0 < escrow - res THEN escrow - res ELSE 0
  BY DEF Surplus, Larger
<1>5. owed \in Nat
  <2>1. {h} \in SUBSET Holders /\ \A k \in {h} : CanSettle(k, r)
    BY DEF ClaimYield, YtSettleAndConsume
  <2>2. SettledAccrued({h}, r) \in [Holders -> Nat]
    BY <1>1, <2>1, SettleType DEF Typed
  <2> QED BY <2>2
<1> HIDE DEF r, res, owed
<1>6. pay \in Nat /\ (pay = 0 \/ (0 < pay /\ pay <= escrow - res))
  BY <1>3, <1>4, <1>5 DEF Smaller, Typed
<1> HIDE DEF pay
<1>7. CASE pay = 0
  BY <1>1, <1>2, <1>7 DEF Vault!Observe, Typed
<1>8. CASE 0 < pay /\ pay <= escrow - res
  <2>1. escrow' \in Int /\ escrow' >= res /\ escrow' < escrow
    BY <1>2, <1>3, <1>6, <1>8 DEF Typed
  <2>2. escrow' * r >= res * r
    BY <1>1, <1>3, <2>1, TimesMonotone
  <2>3. escrow' * r >= ptSupply' * WAD
    BY <1>1, <1>2, <1>3, <2>1, <2>2, YtTokenAssumption DEF Typed, PtTypeOK
  <2> QED BY <1>1, <1>2, <2>1, <2>3 DEF Vault!PayYield, Vault!Covered
<1> QED BY <1>6, <1>7, <1>8

\* Every step of the market is a step of the vault or leaves it alone, and no
\* step that reduces the principal takes more than its share of the escrow.
LEMMA StepRefines ==
  ASSUME Typed, Typed', FrozenIsLastObservation, [Next]_vars
  PROVE  /\ [Vault!VaultNext]_(Vault!vaultVars)
         /\ ptSupply' < ptSupply => escrow' * ptSupply >= escrow * ptSupply'
<1> DEFINE Fair   == ptSupply' < ptSupply => escrow' * ptSupply >= escrow * ptSupply'
           Result == [Vault!VaultNext]_(Vault!vaultVars) /\ Fair
<1> USE DEF envVars, rateVars
<1>1. ASSUME NEW h \in Holders, NEW n \in Amounts, Split(h, n) PROVE Result
  <2>1. Vault!Issue
    BY <1>1, SplitIsIssue, TokenizerAssumption
  <2>2. Fair
    BY <2>1 DEF Vault!Issue, Typed, PtTypeOK
  <2> QED BY <2>1, <2>2 DEF Vault!VaultNext
<1>2. ASSUME NEW h \in Holders, NEW n \in Amounts, Recombine(h, n) PROVE Result
  <2>1. /\ n \in Nat /\ EffectiveRate = syRate /\ EffectiveRate > 0 /\ ptSupply > 0
        /\ RecordRate /\ PtBurn(h, n) /\ Push(h, PrincipalOut(n, EffectiveRate))
    BY <1>2, TokenizerAssumption DEF Recombine, EffectiveRate
  <2> QED BY <2>1, ExitIsRedeem DEF Vault!VaultNext
<1>3. ASSUME NEW h \in Holders, NEW n \in Amounts, RedeemAtMaturity(h, n) PROVE Result
  <2>1. /\ n \in Nat /\ EffectiveRate > 0 /\ ptSupply > 0
        /\ RecordRate /\ PtBurn(h, n) /\ Push(h, PrincipalOut(n, EffectiveRate))
    BY <1>3, TokenizerAssumption DEF RedeemAtMaturity
  <2> QED BY <2>1, ExitIsRedeem DEF Vault!VaultNext
<1>4. ASSUME NEW h \in Holders, ClaimYield(h) PROVE Result
  <2>1. ptSupply' = ptSupply
    BY <1>4 DEF ClaimYield, ptVars
  <2>2. Vault!PayYield \/ Vault!Observe
    BY <1>4, ClaimIsPayYield
  <2>3. Fair
    BY <2>1 DEF Typed, PtTypeOK
  <2> QED BY <2>2, <2>3 DEF Vault!VaultNext
<1>5. ASSUME NEW h \in Holders, NEW g \in Holders, NEW n \in Amounts,
             YtBurnDirect(h, n) \/ YtTransfer(h, g, n)
      PROVE  Result
  <2>1. RecordRate /\ UNCHANGED <<escrow, ptSupply>>
    BY <1>5 DEF YtBurnDirect, YtTransfer, ptVars
  <2>2. Vault!Observe
    BY <2>1, RecordIsRateStep DEF Vault!Observe
  <2>3. Fair
    BY <2>1 DEF Typed, PtTypeOK
  <2> QED BY <2>2, <2>3 DEF Vault!VaultNext
<1>7. ASSUME NEW h \in Holders, NEW n \in Amounts, PtBurnDirect(h, n) PROVE Result
  <2>1. /\ UNCHANGED <<lastObserved, maturityRate, escrow>>
        /\ ptSupply' = ptSupply - n /\ n \in Nat /\ n > 0
        /\ ptSupply \in Int /\ escrow \in Nat
    BY <1>7, TokenizerAssumption DEF PtBurnDirect, PtBurn, Typed, PtTypeOK
  <2>2. Vault!Forfeit
    BY <2>1 DEF Vault!Forfeit, RateOnRecord
  <2>3. escrow * ptSupply >= escrow * ptSupply'
    <3>1. ptSupply' \in Int /\ ptSupply' <= ptSupply
      BY <2>1
    <3>2. ptSupply' * escrow <= ptSupply * escrow
      BY <2>1, <3>1, TimesMonotone
    <3> QED BY <2>1, <3>1, <3>2
  <2> QED BY <2>1, <2>2, <2>3 DEF Vault!VaultNext
<1>8. ASSUME NEW h \in Holders, NEW n \in Amounts, SyDonate(h, n) PROVE Result
  <2>1. /\ UNCHANGED <<lastObserved, maturityRate, ptSupply>>
        /\ escrow' = escrow + n /\ n \in Nat /\ ptSupply \in Int /\ escrow \in Nat
    BY <1>8, TokenizerAssumption DEF SyDonate, Pull, ptVars, Typed, PtTypeOK
  <2>2. Vault!Forfeit
    BY <2>1 DEF Vault!Forfeit, RateOnRecord
  <2> QED BY <2>1, <2>2 DEF Vault!VaultNext
<1>9. ASSUME UNCHANGED <<lastObserved, maturityRate, ptSupply, escrow>> PROVE Result
  BY <1>9 DEF Vault!vaultVars, RateOnRecord, Typed, PtTypeOK
<1>10. ASSUME NEW h \in Holders, NEW g \in Holders, NEW n \in Amounts,
              PtTransfer(h, g, n) \/ SyTransfer(h, g, n)
       PROVE  Result
  BY <1>9, <1>10 DEF PtTransfer, PtMove, SyTransfer, ptVars
<1>11. ASSUME NEW r \in Rates, RateMoves(r) PROVE Result
  BY <1>9, <1>11 DEF RateMoves, ptVars
<1>12. ASSUME Pause \/ Unpause \/ Mature PROVE Result
  BY <1>9, <1>12 DEF Pause, Unpause, Mature, ptVars
<1>13. ASSUME UNCHANGED vars PROVE Result
  BY <1>9, <1>13 DEF vars, ptVars
<1>14. ASSUME ObserveRate PROVE Result
  <2>1. RecordRate /\ UNCHANGED <<escrow, ptSupply>>
    BY <1>14 DEF ObserveRate, ptVars
  <2>2. Vault!Observe
    BY <2>1, RecordIsRateStep DEF Vault!Observe
  <2>3. Fair
    BY <2>1 DEF Typed, PtTypeOK
  <2> QED BY <2>2, <2>3 DEF Vault!VaultNext
<1>15. Result
  <2> HIDE DEF Result
  <2> QED BY <1>1, <1>2, <1>3, <1>4, <1>5, <1>7, <1>8, <1>10, <1>11, <1>12, <1>13, <1>14 DEF Next
<1> QED BY <1>15

\* The market implements the senior vault: principal is issued only against
\* shares worth it, redeemed for at most its face and its share, yield is paid
\* only out of the surplus, and a sealed rate is final.
THEOREM TokenizerIsSeniorVault == Spec => ImplementsVault
<1>1. Init => Vault!VaultInit
  BY DEF Init, PtInit, Vault!VaultInit, RateOnRecord
<1>2. Typed /\ Typed' /\ FrozenIsLastObservation /\ [Next]_vars
        => [Vault!VaultNext]_(Vault!vaultVars)
  BY StepRefines
<1> QED BY <1>1, <1>2, Types, FreezeCorrect, PTL
        DEF Spec, ImplementsVault, Vault!VaultSpec

\* Whoever leaves, by recombining, redeeming or burning, never takes a larger
\* share of the escrow than those who stay keep, solvent or not.
THEOREM FairExits == Spec => ExitsAreFair
<1>1. Typed /\ Typed' /\ FrozenIsLastObservation /\ [Next]_vars
        => [ptSupply' < ptSupply => escrow' * ptSupply >= escrow * ptSupply']_vars
  BY StepRefines
<1> QED BY <1>1, Types, FreezeCorrect, PTL DEF Spec, ExitsAreFair

\* Every step of the vault keeps a covered principal covered at the rate on
\* record after the step.
LEMMA VaultKeepsCoverage ==
  ASSUME Typed, Typed', [Vault!VaultNext]_(Vault!vaultVars), RateOnRecord' # NoRate,
         escrow * RateOnRecord' >= ptSupply * WAD
  PROVE  escrow' * RateOnRecord' >= ptSupply' * WAD
<1> DEFINE r == RateOnRecord'
<1>1. /\ r \in Nat /\ WAD \in Nat /\ escrow \in Nat /\ escrow' \in Nat
      /\ ptSupply \in Int /\ ptSupply' \in Int
  BY YtTokenAssumption DEF Typed, PtTypeOK, RateOnRecord
<1>2. /\ (escrow' - escrow) * r = escrow' * r - escrow * r
      /\ (escrow - escrow') * r = escrow * r - escrow' * r
      /\ (ptSupply' - ptSupply) * WAD = ptSupply' * WAD - ptSupply * WAD
      /\ (ptSupply - ptSupply') * WAD = ptSupply * WAD - ptSupply' * WAD
      /\ escrow * r \in Int /\ escrow' * r \in Int
      /\ ptSupply * WAD \in Int /\ ptSupply' * WAD \in Int
  <2> HIDE DEF r
  <2> QED BY <1>1
<1>3. escrow * r >= ptSupply * WAD
  OBVIOUS
<1>4. CASE Vault!Issue
  <2>1. (escrow' - escrow) * r >= (ptSupply' - ptSupply) * WAD
    BY <1>4 DEF Vault!Issue, Vault!Covered
  <2> HIDE DEF r
  <2> QED BY <1>2, <1>3, <2>1 DEF r
<1>5. CASE Vault!Redeem
  <2>1. (escrow - escrow') * r <= (ptSupply - ptSupply') * WAD
    BY <1>5 DEF Vault!Redeem
  <2> QED BY <1>2, <1>3, <2>1
<1>6. CASE Vault!PayYield
  BY <1>6 DEF Vault!PayYield, Vault!Covered
<1>7. CASE Vault!Forfeit
  <2>0. escrow \in Int /\ escrow' \in Int /\ r \in Nat /\ escrow <= escrow'
    BY <1>1, <1>7 DEF Vault!Forfeit
  <2>1. escrow * r <= escrow' * r
    <3> HIDE DEF r
    <3> QED BY <2>0, TimesMonotone
  <2>2. ptSupply' * WAD <= ptSupply * WAD
    BY <1>1, <1>7, TimesMonotone DEF Vault!Forfeit
  <2> QED BY <1>2, <1>3, <2>1, <2>2
<1>8. CASE Vault!Observe \/ UNCHANGED Vault!vaultVars
  BY <1>3, <1>8 DEF Vault!Observe, Vault!vaultVars
<1> QED BY <1>4, <1>5, <1>6, <1>7, <1>8 DEF Vault!VaultNext

\* No step of the market turns a covered escrow into an uncovered one at the
\* rate on record.
THEOREM CoverageKept == Spec => CoverageIsKept
<1>1. Typed /\ Typed' /\ FrozenIsLastObservation /\ [Next]_vars
        => [(RateOnRecord' # NoRate /\ escrow * RateOnRecord' >= ptSupply * WAD)
              => escrow' * RateOnRecord' >= ptSupply' * WAD]_vars
  BY StepRefines, VaultKeepsCoverage
<1> QED BY <1>1, Types, FreezeCorrect, PTL DEF Spec, CoverageIsKept

-----------------------------------------------------------------------------
\* A market without an observation is untouched by every step that leaves it
\* without one: nobody holds anything to move, burn, redeem or claim.
LEMMA UnusedStep ==
  ASSUME Typed, FallbackOnlyWhenUnused, [Next]_vars
  PROVE  FallbackOnlyWhenUnused'
<1> SUFFICES ASSUME lastObserved' = NoRate
             PROVE  FallbackOnlyWhenUnused'
  BY DEF FallbackOnlyWhenUnused
<1> USE DEF envVars, rateVars
<1>1. lastObserved = NoRate
  <2>1. ASSUME RecordRate PROVE lastObserved = NoRate
    BY <2>1, TokenizerAssumption, YtTokenAssumption DEF RecordRate, Typed
  <2>2. Next => RecordRate \/ UNCHANGED lastObserved
    BY DEF Next, ObserveRate, Pause, Unpause, Mature, RateMoves, ClaimYield, Split, Recombine,
           RedeemAtMaturity, PtBurnDirect, YtBurnDirect, SyDonate, PtTransfer, YtTransfer,
           SyTransfer
  <2> QED BY <2>1, <2>2 DEF vars
<1>2. /\ ptSupply = 0
      /\ \A h \in Holders : ptBalance[h] = 0 /\ ytBalance[h] = 0 /\ accrued[h] = 0
  BY <1>1 DEF FallbackOnlyWhenUnused
<1>3. ASSUME UNCHANGED <<ptSupply, ptBalance, ytBalance, accrued>>
      PROVE  FallbackOnlyWhenUnused'
  BY <1>2, <1>3 DEF FallbackOnlyWhenUnused
<1>4. ASSUME NEW h \in Holders, NEW n \in Amounts, Split(h, n) PROVE FALSE
  BY <1>1, <1>4, TokenizerAssumption, YtTokenAssumption DEF Split, RecordRate, Typed
<1>5. ASSUME NEW h \in Holders, NEW n \in Amounts, PtBurn(h, n) PROVE FALSE
  BY <1>2, <1>5, TokenizerAssumption DEF PtBurn
<1>6. ASSUME NEW h \in Holders, NEW g \in Holders, NEW n \in Amounts, PtMove(h, g, n)
      PROVE  FALSE
  BY <1>2, <1>6, TokenizerAssumption DEF PtMove
<1>7. ASSUME NEW h \in Holders, NEW g \in Holders, NEW n \in Amounts,
             YtTransfer(h, g, n) \/ YtBurnDirect(h, n)
      PROVE  FALSE
  BY <1>2, <1>7, TokenizerAssumption DEF YtTransfer, YtBurnDirect, YtMove, YtBurn
<1>8. ASSUME NEW h \in Holders, ClaimYield(h) PROVE FallbackOnlyWhenUnused'
  <2> DEFINE r == EffectiveRate
             S == SettledAccrued({h}, r)
  <2>1. ~Earns(h, r)
    BY <1>2 DEF Earns
  <2>2. S = accrued
    BY <1>2, <2>1 DEF SettledAccrued, Pending, Typed, YtTypeOK
  <2>3. Smaller(S[h], Surplus(r)) = 0
    <3>1. Surplus(r) \in Nat
      BY <1>8, RatesType, PayoutsType, TokenizerAssumption DEF ClaimYield
    <3> QED BY <1>2, <2>2, <3>1 DEF Smaller
  <2>4. accrued' = [accrued EXCEPT ![h] = @ - 0]
    BY <1>8, <2>2, <2>3 DEF ClaimYield, YtSettleAndConsume
  <2>5. accrued' = accrued
    BY <1>2, <2>4 DEF Typed, YtTypeOK
  <2> QED BY <1>3, <1>8, <2>5 DEF ClaimYield, YtSettleAndConsume, ptVars
<1>9. ASSUME NEW h \in Holders, NEW g \in Holders, NEW n \in Amounts,
             SyDonate(h, n) \/ SyTransfer(h, g, n)
      PROVE  FallbackOnlyWhenUnused'
  BY <1>3, <1>9 DEF SyDonate, SyTransfer, ptVars, ytVars
<1>10. ASSUME NEW r \in Rates, RateMoves(r) PROVE FallbackOnlyWhenUnused'
  BY <1>3, <1>10 DEF RateMoves, ptVars, ytVars
<1>11. ASSUME ObserveRate \/ Pause \/ Unpause \/ Mature PROVE FallbackOnlyWhenUnused'
  BY <1>3, <1>11 DEF ObserveRate, Pause, Unpause, Mature, ptVars, ytVars
<1>12. ASSUME UNCHANGED vars PROVE FallbackOnlyWhenUnused'
  BY <1>3, <1>12 DEF vars, ptVars, ytVars
<1>13. ASSUME NEW h \in Holders, NEW g \in Holders, NEW n \in Amounts,
              Recombine(h, n) \/ RedeemAtMaturity(h, n) \/ PtBurnDirect(h, n)
                \/ PtTransfer(h, g, n)
       PROVE  FALSE
  BY <1>5, <1>6, <1>13 DEF Recombine, RedeemAtMaturity, PtBurnDirect, PtTransfer
<1> HIDE DEF FallbackOnlyWhenUnused
<1> QED BY <1>4, <1>7, <1>8, <1>9, <1>10, <1>11, <1>12, <1>13 DEF Next

\* The freeze prices from a live read only on a market nobody holds a token of.
THEOREM UnusedFallback == Spec => []FallbackOnlyWhenUnused
<1>1. Init => FallbackOnlyWhenUnused
  BY DEF Init, PtInit, YtInit, FallbackOnlyWhenUnused
<1>2. Typed /\ FallbackOnlyWhenUnused /\ [Next]_vars => FallbackOnlyWhenUnused'
  BY UnusedStep
<1> QED BY <1>1, <1>2, Types, PTL DEF Spec

-----------------------------------------------------------------------------
(***************************************************************************)
(* The yield ledger of one holder.                                         *)
(***************************************************************************)

\* Settling keeps what a holder is owed at the rate it settles at, and leaves
\* nothing of it pending.
LEMMA SettlingKeepsOwed ==
  ASSUME Typed, NEW S \in SUBSET Holders, NEW r \in Nat, NEW h \in Holders,
         \A k \in S : CanSettle(k, r),
         checkpoint' = SettledCheckpoint(S, r),
         h \notin S => ytBalance'[h] = ytBalance[h]
  PROVE  /\ SettledAccrued(S, r)[h] + Pending(h, r)' = YieldOwed(h, r)
         /\ SettledAccrued(S, r)[h] >= accrued[h]
<1>1. CASE h \in S
  <2>1. Pending(h, r) \in Nat /\ accrued[h] \in Nat
    BY <1>1, PendingType DEF Typed, YtTypeOK
  <2>2. SettledAccrued(S, r)[h] = accrued[h] + Pending(h, r)
    BY <1>1 DEF SettledAccrued
  <2>3. checkpoint'[h] # NoRate /\ ~(checkpoint'[h] < r)
    BY <1>1, YtTokenAssumption DEF SettledCheckpoint, Typed, YtTypeOK
  <2>4. Pending(h, r)' = 0
    BY <2>3 DEF Pending, Earns
  <2> QED BY <2>1, <2>2, <2>4 DEF YieldOwed
<1>2. CASE h \notin S
  <2>1. SettledAccrued(S, r)[h] = accrued[h] /\ checkpoint'[h] = checkpoint[h]
    BY <1>2 DEF SettledAccrued, SettledCheckpoint
  <2>2. Pending(h, r)' = Pending(h, r)
    BY <1>2, <2>1 DEF Pending, Earns, OwedShares
  <2> QED BY <2>1, <2>2 DEF YieldOwed, Typed, YtTypeOK
<1> QED BY <1>1, <1>2

\* At the rate r it is priced at, a step keeps what h is owed, or pays h part
\* of it and leaves the rest banked.
YieldStep(h, r) ==
  \/ /\ accrued'[h] >= accrued[h]
     /\ accrued'[h] + Pending(h, r)' = YieldOwed(h, r)
  \/ \E pay \in Nat :
       /\ YieldOwed(h, r) \in Nat
       /\ accrued'[h] = YieldOwed(h, r) - pay
       /\ Pending(h, r)' = 0
       /\ sy'[h] = sy[h] + pay

\* Every step is one, for every holder.
LEMMA StepOfYield ==
  ASSUME Typed, [Next]_vars, NEW h \in Holders, NEW r \in Nat, r = EffectiveRate
  PROVE  YieldStep(h, r)
<1>1. ASSUME NEW S \in SUBSET Holders, SettleAll(S, r),
             h \notin S => ytBalance'[h] = ytBalance[h]
      PROVE  YieldStep(h, r)
  BY <1>1, SettlingKeepsOwed DEF SettleAll, YieldStep
<1>2. ASSUME UNCHANGED ytVars PROVE YieldStep(h, r)
  BY <1>2 DEF YieldStep, ytVars, YieldOwed, Pending, Earns, OwedShares, Typed, YtTypeOK
<1>3. ASSUME NEW g \in Holders, NEW n \in Amounts, Split(g, n) PROVE YieldStep(h, r)
  <2>1. r = syRate
    BY <1>3 DEF Split, EffectiveRate
  <2>2. SettleAll({g}, r) /\ (h \notin {g} => ytBalance'[h] = ytBalance[h])
    BY <1>3, <2>1 DEF Split, YtMint, Typed, YtTypeOK
  <2> QED BY <1>1, <2>2
<1>4. ASSUME NEW g \in Holders, NEW n \in Amounts, Recombine(g, n) PROVE YieldStep(h, r)
  <2>1. r = syRate
    BY <1>4 DEF Recombine, EffectiveRate
  <2>2. SettleAll({g}, r) /\ (h \notin {g} => ytBalance'[h] = ytBalance[h])
    BY <1>4, <2>1 DEF Recombine, YtBurn, Typed, YtTypeOK
  <2> QED BY <1>1, <2>2
<1>5. ASSUME NEW g \in Holders, NEW n \in Amounts, YtBurnDirect(g, n) PROVE YieldStep(h, r)
  <2>1. SettleAll({g}, r) /\ (h \notin {g} => ytBalance'[h] = ytBalance[h])
    BY <1>5 DEF YtBurnDirect, YtBurn, Typed, YtTypeOK
  <2> QED BY <1>1, <2>1
<1>6. ASSUME NEW f \in Holders, NEW g \in Holders, NEW n \in Amounts, YtTransfer(f, g, n)
      PROVE  YieldStep(h, r)
  <2>1. SettleAll({f, g}, r) /\ (h \notin {f, g} => ytBalance'[h] = ytBalance[h])
    BY <1>6 DEF YtTransfer, YtMove, Typed, YtTypeOK, Moved
  <2> QED BY <1>1, <2>1
<1>7. ASSUME NEW g \in Holders, ClaimYield(g) PROVE YieldStep(h, r)
  <2> DEFINE owed == SettledAccrued({g}, r)
             pay  == Smaller(owed[g], Surplus(r))
  <2>1. /\ \A k \in {g} : CanSettle(k, r)
        /\ checkpoint' = SettledCheckpoint({g}, r)
        /\ UNCHANGED ytBalance
        /\ accrued' = [owed EXCEPT ![g] = @ - pay]
        /\ sy' = [sy EXCEPT ![g] = @ + pay]
    BY <1>7 DEF ClaimYield, YtSettleAndConsume, Push
  <2>2. owed \in [Holders -> Nat]
    BY <2>1, SettleType DEF Typed
  <2>3. Surplus(r) \in Nat
    BY <1>7, PayoutsType DEF ClaimYield
  <2>4. pay \in Nat
    BY <2>2, <2>3 DEF Smaller
  <2>5. owed[h] + Pending(h, r)' = YieldOwed(h, r) /\ owed[h] >= accrued[h]
    BY <2>1, SettlingKeepsOwed
  <2>6. CASE h = g
    <3>1. checkpoint'[h] # NoRate /\ ~(checkpoint'[h] < r)
      BY <2>1, <2>6, YtTokenAssumption DEF SettledCheckpoint, Typed, YtTypeOK
    <3>2. Pending(h, r)' = 0
      BY <3>1 DEF Pending, Earns
    <3>3. owed[h] = YieldOwed(h, r) /\ YieldOwed(h, r) \in Nat
      BY <2>2, <2>6 DEF SettledAccrued, YieldOwed
    <3> HIDE DEF pay, owed
    <3>4. accrued'[h] = YieldOwed(h, r) - pay /\ sy'[h] = sy[h] + pay
      BY <2>1, <2>2, <2>6, <3>3 DEF Typed
    <3> QED BY <2>4, <3>2, <3>3, <3>4 DEF YieldStep
  <2>7. CASE h # g
    <3> HIDE DEF pay, owed
    <3>1. accrued'[h] = owed[h]
      BY <2>1, <2>2, <2>7
    <3> QED BY <2>5, <3>1 DEF YieldStep
  <2> QED BY <2>6, <2>7
<1>8. ASSUME NEW f \in Holders, NEW g \in Holders, NEW n \in Amounts,
             \/ RedeemAtMaturity(g, n) \/ PtBurnDirect(g, n) \/ SyDonate(g, n)
             \/ PtTransfer(f, g, n) \/ SyTransfer(f, g, n)
      PROVE  YieldStep(h, r)
  BY <1>2, <1>8 DEF RedeemAtMaturity, PtBurnDirect, SyDonate, PtTransfer, SyTransfer
<1>9. ASSUME NEW q \in Rates, RateMoves(q) PROVE YieldStep(h, r)
  BY <1>2, <1>9 DEF RateMoves
<1>10. ASSUME ObserveRate \/ Pause \/ Unpause \/ Mature PROVE YieldStep(h, r)
  BY <1>2, <1>10 DEF ObserveRate, Pause, Unpause, Mature
<1>11. ASSUME UNCHANGED vars PROVE YieldStep(h, r)
  BY <1>2, <1>11 DEF vars
<1> QED BY <1>3, <1>4, <1>5, <1>6, <1>7, <1>8, <1>9, <1>10, <1>11 DEF Next

\* What a claim cannot pay stays banked, share for share, and nothing else ever
\* takes banked yield from a holder.
THEOREM BankedYield == Spec => BankedYieldIsPaidInFull
<1>1. Typed /\ Typed' /\ [Next]_vars
        => [\A h \in Holders :
              accrued'[h] < accrued[h]
                => sy'[h] - sy[h] = YieldOwed(h, EffectiveRate) - accrued'[h]]_vars
  <2> SUFFICES ASSUME Typed, Typed', [Next]_vars, NEW h \in Holders,
                      accrued'[h] < accrued[h]
               PROVE  sy'[h] - sy[h] = YieldOwed(h, EffectiveRate) - accrued'[h]
    OBVIOUS
  <2>1. EffectiveRate \in Nat
    BY RatesType
  <2>2. PICK r \in Nat : r = EffectiveRate
    BY <2>1
  <2>3. YieldStep(h, r)
    BY <2>2, StepOfYield
  <2>4. /\ sy[h] \in Nat /\ sy'[h] \in Nat /\ accrued[h] \in Nat /\ accrued'[h] \in Nat
    BY DEF Typed, YtTypeOK
  <2>5. PICK pay \in Nat : /\ YieldOwed(h, r) \in Nat
                           /\ accrued'[h] = YieldOwed(h, r) - pay
                           /\ sy'[h] = sy[h] + pay
    BY <2>3, <2>4 DEF YieldStep
  <2> QED BY <2>2, <2>4, <2>5
<1> QED BY <1>1, Types, PTL DEF Spec, BankedYieldIsPaidInFull

\* After the freeze every step is priced at the frozen rate, so the settlements
\* of transfers, burns and other holders' claims move yield from pending to
\* banked and create or destroy none.
THEOREM FrozenYield == Spec => FrozenYieldIsFixed
<1>1. Typed /\ Typed' /\ FrozenIsLastObservation /\ [Next]_vars
        => [maturityRate # NoRate =>
              \A h \in Holders :
                LET owed == YieldOwed(h, maturityRate) IN
                owed # owed' => owed - owed' = sy'[h] - sy[h] /\ owed' < owed]_vars
  <2> DEFINE owed(h) == YieldOwed(h, maturityRate)
  <2> SUFFICES ASSUME Typed, Typed', FrozenIsLastObservation, [Next]_vars,
                      maturityRate # NoRate, NEW h \in Holders
               PROVE  owed(h) # owed(h)'
                        => owed(h) - owed(h)' = sy'[h] - sy[h] /\ owed(h)' < owed(h)
    OBVIOUS
  <2>1. EffectiveRate = maturityRate /\ maturityRate \in Nat
    BY DEF FrozenIsLastObservation, EffectiveRate, Typed
  <2>2. maturityRate' = maturityRate
    BY <2>1, RateSteps DEF rateVars, RecordRate, FrozenIsLastObservation
  <2>3. PICK r \in Nat : r = maturityRate
    BY <2>1
  <2>4. YieldStep(h, r)
    BY <2>1, <2>3, StepOfYield
  <2>5. YieldOwed(h, maturityRate) = YieldOwed(h, r)
    BY <2>3
  <2>6. YieldOwed(h, maturityRate)' = accrued'[h] + Pending(h, r)'
    BY <2>2, <2>3 DEF YieldOwed, Pending, Earns
  <2>7. /\ sy[h] \in Nat /\ sy'[h] \in Nat /\ accrued[h] \in Nat /\ accrued'[h] \in Nat
    BY DEF Typed, YtTypeOK
  <2> QED BY <2>4, <2>5, <2>6, <2>7 DEF YieldStep
<1> QED BY <1>1, Types, FreezeCorrect, PTL DEF Spec, FrozenYieldIsFixed

=============================================================================

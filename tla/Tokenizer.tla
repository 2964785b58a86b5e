------------------------------ MODULE Tokenizer ------------------------------
(***************************************************************************)
(* A fixed-term market: the tokenizer holds SY in escrow against principal  *)
(* tokens (PT) and yield tokens (YT).  This module composes the tokenizer   *)
(* with its two tokens and with the SY token it custodies.                  *)
(*                                                                         *)
(* The SY rate is the environment: RateMoves changes it at any time, up or  *)
(* down, before and after maturity.  What the tokenizer does is remember    *)
(* the rates its operations observe and freeze the last one at maturity.    *)
(*                                                                         *)
(* A call is atomic.  Calls that return an error or trap change nothing and *)
(* are not steps.                                                          *)
(***************************************************************************)
EXTENDS YtToken

CONSTANTS
  Rates,        \* the SY rates the environment produces
  Amounts,      \* the amounts callers pass in
  SyGrant,      \* the SY shares every holder starts with
  RatesMayFall  \* FALSE restricts the environment to rates that never fall

ASSUME TokenizerAssumption ==
  /\ Rates \subseteq Nat
  /\ Amounts \subseteq Nat
  /\ SyGrant \in Nat
  /\ RatesMayFall \in BOOLEAN

VARIABLES
  syRate,       \* exchange_rate() of the SY contract
  sy,           \* [Holders -> Nat], SY balances outside the escrow
  escrow,       \* the tokenizer's own SY balance
  matured,      \* ledger timestamp >= config.maturity
  lastObserved, \* LastObservedRate
  maturityRate, \* MaturityRate
  paused        \* Paused: blocks split only

rateVars   == <<lastObserved, maturityRate>>
envVars    == <<syRate, matured>>
vars       == <<ptVars, ytVars, rateVars, envVars, sy, escrow, paused>>

Init ==
  /\ PtInit
  /\ YtInit
  /\ syRate \in Rates \ {0}
  /\ sy = [h \in Holders |-> SyGrant]
  /\ escrow = 0
  /\ matured = FALSE
  /\ lastObserved = NoRate
  /\ maturityRate = NoRate
  /\ paused = FALSE

(***************************************************************************)
(* Rates.                                                                  *)
(***************************************************************************)

\* Variant: valuation always reads the live rate.
LiveRate == syRate

\* The rate a call values the escrow at (effective_rate): live before
\* maturity; afterwards the frozen rate, else the last observation, else, on a
\* market nobody ever used, the live rate.
EffectiveRate ==
  IF ~matured THEN syRate
  ELSE IF maturityRate # NoRate THEN maturityRate
  ELSE IF lastObserved # NoRate THEN lastObserved
  ELSE syRate

\* Variant: calls before maturity leave no observation.
FreezeOnly ==
  /\ UNCHANGED lastObserved
  /\ maturityRate' = IF matured THEN EffectiveRate ELSE maturityRate

\* Its side effect: record the observation before maturity, freeze after.
RecordRate ==
  /\ lastObserved' = IF matured THEN lastObserved ELSE syRate
  /\ maturityRate' = IF matured THEN EffectiveRate ELSE maturityRate

(***************************************************************************)
(* Payouts.                                                                *)
(***************************************************************************)

\* Variant: no pro-rata cap.
FaceOut(amount, r) == MulDivFloor(amount, WAD, r)

\* Principal due for `amount` PT in SY shares, capped at the holder's
\* pro-rata share of the escrow.
PrincipalOut(amount, r) ==
  Smaller(MulDivFloor(amount, WAD, r), MulDivFloor(escrow, amount, ptSupply))

\* Variant: the reservation rounds down.
ReservationFloor(r) == MulDivFloor(ptSupply, WAD, r)

\* SY that must stay in escrow to redeem all outstanding PT at face.
Reservation(r) == MulDivCeil(ptSupply, WAD, r)

\* Variant: yield is paid from the whole escrow.
WholeEscrow(r) == escrow

\* What is left for yield.
Surplus(r) == Larger(0, escrow - Reservation(r))

\* Variant: the payer's balance is not checked.
PullUnchecked(h, amount) ==
  /\ sy' = [sy EXCEPT ![h] = @ - amount]
  /\ escrow' = escrow + amount

\* SY leaves or enters the escrow.
Pull(h, amount) ==
  /\ sy[h] >= amount
  /\ sy' = [sy EXCEPT ![h] = @ - amount]
  /\ escrow' = escrow + amount

Push(h, amount) ==
  /\ escrow >= amount
  /\ sy' = [sy EXCEPT ![h] = @ + amount]
  /\ escrow' = escrow - amount

(***************************************************************************)
(* Entry points of the tokenizer.                                          *)
(***************************************************************************)
Split(h, amount) ==
  LET face == MulDivFloor(amount, syRate, WAD) IN
  /\ ~paused
  /\ ~matured
  /\ amount > 0
  /\ face > 0
  /\ RecordRate
  /\ Pull(h, amount)
  /\ PtMint(h, face)
  /\ YtMint(h, face, syRate)
  /\ UNCHANGED <<envVars, paused>>

Recombine(h, amount) ==
  /\ ~matured
  /\ amount > 0
  /\ syRate > 0
  /\ ptSupply > 0
  /\ PrincipalOut(amount, syRate) > 0
  /\ RecordRate
  /\ PtBurn(h, amount)
  /\ YtBurn(h, amount, syRate)
  /\ Push(h, PrincipalOut(amount, syRate))
  /\ UNCHANGED <<envVars, paused>>

RedeemAtMaturity(h, amount) ==
  /\ matured
  /\ amount > 0
  /\ EffectiveRate > 0
  /\ ptSupply > 0
  /\ PrincipalOut(amount, EffectiveRate) > 0
  /\ RecordRate
  /\ PtBurn(h, amount)
  /\ Push(h, PrincipalOut(amount, EffectiveRate))
  /\ UNCHANGED <<ytVars, envVars, paused>>

\* Pays what the holder is owed out of the surplus over the PT reservation;
\* what the surplus cannot cover stays banked.
ClaimYield(h) ==
  LET owed == SettledAccrued({h}, EffectiveRate)[h]
      pay  == Smaller(owed, Surplus(EffectiveRate))
  IN
  /\ EffectiveRate > 0
  /\ RecordRate
  /\ YtSettleAndConsume(h, EffectiveRate, pay)
  /\ Push(h, pay)
  /\ UNCHANGED <<ptVars, envVars, paused>>

\* observe_rate, open to anyone; after maturity it is freeze_maturity_rate.
ObserveRate ==
  /\ RecordRate
  /\ UNCHANGED <<ptVars, ytVars, envVars, sy, escrow, paused>>

Pause ==
  /\ paused' = TRUE
  /\ UNCHANGED <<ptVars, ytVars, rateVars, envVars, sy, escrow>>

Unpause ==
  /\ paused' = FALSE
  /\ UNCHANGED <<ptVars, ytVars, rateVars, envVars, sy, escrow>>

(***************************************************************************)
(* Entry points of the tokens.                                             *)
(***************************************************************************)
PtTransfer(from, to, amount) ==
  /\ PtMove(from, to, amount)
  /\ UNCHANGED <<ytVars, rateVars, envVars, sy, escrow, paused>>

PtBurnDirect(h, amount) ==
  /\ PtBurn(h, amount)
  /\ UNCHANGED <<ytVars, rateVars, envVars, sy, escrow, paused>>

\* A YT transfer or burn takes its rate from the tokenizer (committing_rate),
\* which records it as an observation or freezes it.
YtTransfer(from, to, amount) ==
  /\ RecordRate
  /\ YtMove(from, to, amount, EffectiveRate)
  /\ UNCHANGED <<ptVars, envVars, sy, escrow, paused>>

YtBurnDirect(h, amount) ==
  /\ RecordRate
  /\ YtBurn(h, amount, EffectiveRate)
  /\ UNCHANGED <<ptVars, envVars, sy, escrow, paused>>

\* SY moves between holders, or is sent to the tokenizer unasked.
SyTransfer(from, to, amount) ==
  /\ amount > 0
  /\ sy[from] >= amount
  /\ sy' = Moved(sy, from, to, amount)
  /\ UNCHANGED <<ptVars, ytVars, rateVars, envVars, escrow, paused>>

SyDonate(h, amount) ==
  /\ amount > 0
  /\ Pull(h, amount)
  /\ UNCHANGED <<ptVars, ytVars, rateVars, envVars, paused>>

(***************************************************************************)
(* The environment.                                                        *)
(***************************************************************************)
RateMoves(r) ==
  /\ r # syRate
  /\ RatesMayFall \/ r > syRate
  /\ syRate' = r
  /\ UNCHANGED <<ptVars, ytVars, rateVars, matured, sy, escrow, paused>>

Mature ==
  /\ ~matured
  /\ matured' = TRUE
  /\ UNCHANGED <<ptVars, ytVars, rateVars, syRate, sy, escrow, paused>>

Next ==
  \/ ObserveRate \/ Pause \/ Unpause \/ Mature
  \/ \E r \in Rates : RateMoves(r)
  \/ \E h \in Holders :
       \/ ClaimYield(h)
       \/ \E n \in Amounts :
            \/ Split(h, n)
            \/ Recombine(h, n)
            \/ RedeemAtMaturity(h, n)
            \/ PtBurnDirect(h, n)
            \/ YtBurnDirect(h, n)
            \/ SyDonate(h, n)
            \/ \E g \in Holders :
                 \/ PtTransfer(h, g, n)
                 \/ YtTransfer(h, g, n)
                 \/ SyTransfer(h, g, n)

Spec == Init /\ [][Next]_vars

-----------------------------------------------------------------------------
(***************************************************************************)
(* Properties.                                                             *)
(***************************************************************************)
Typed ==
  /\ PtTypeOK
  /\ YtTypeOK
  /\ syRate \in Rates
  /\ sy \in [Holders -> Nat]
  /\ escrow \in Nat
  /\ matured \in BOOLEAN
  /\ lastObserved \in Nat \cup {NoRate}
  /\ maturityRate \in Nat \cup {NoRate}
  /\ paused \in BOOLEAN

\* Every variable has its type, and the supplies, which redemption divides the escrow by
\* and the reservation is made for, are the sums of the balances: through splits, exits,
\* transfers to oneself, and burns that go around the tokenizer.
TypeOK ==
  /\ Typed
  /\ ptSupply = Total(ptBalance)
  /\ ytSupply = Total(ytBalance)

\* The rate on record: what redemption is or will be priced at.
RateOnRecord == IF maturityRate # NoRate THEN maturityRate ELSE lastObserved

\* The freeze takes the last pre-maturity observation, never a later live
\* read, however late and by whatever call it happens (effective_rate).
FrozenIsLastObservation ==
  maturityRate # NoRate =>
    /\ matured
    /\ lastObserved # NoRate => maturityRate = lastObserved

\* The live-read fallback of the freeze is reachable only on a market that
\* has nothing to misprice (comment on effective_rate).
FallbackOnlyWhenUnused ==
  lastObserved = NoRate =>
    /\ ptSupply = 0
    /\ \A h \in Holders : ptBalance[h] = 0 /\ ytBalance[h] = 0 /\ accrued[h] = 0

\* Once frozen, the maturity rate never changes again.
FreezeIsFinal == [][maturityRate # NoRate => maturityRate' = maturityRate]_vars

\* No operation turns a covered escrow into an uncovered one at the rate that
\* operation used: split, exits, claims, burns and donations alike.
CoverageIsKept ==
  [][(RateOnRecord' # NoRate /\ escrow * RateOnRecord' >= ptSupply * WAD)
       => escrow' * RateOnRecord' >= ptSupply' * WAD]_vars

\* In a shortfall too, whoever exits never takes a larger share of the escrow
\* than those who stay (the pro-rata cap of recombine and redeem).
ExitsAreFair ==
  [][ptSupply' < ptSupply => escrow' * ptSupply >= escrow * ptSupply']_vars

\* The yield a holder is owed at a rate: what is banked, and what is pending.
YieldOwed(h, r) == accrued[h] + Pending(h, r)

\* Yield a holder has banked leaves its ledger only into that holder's own SY
\* balance, and what the payment does not cover of all it was owed by then stays
\* banked, share for share: never lost, never paid to another (claim_yield).
BankedYieldIsPaidInFull ==
  [][\A h \in Holders :
       accrued'[h] < accrued[h]
         => sy'[h] - sy[h] = YieldOwed(h, EffectiveRate) - accrued'[h]]_vars

\* Once the rate is frozen, every holder's yield is determined: no order of
\* transfers, burns, redemptions and other holders' claims changes it, and it
\* falls only by what the holder is paid.
FrozenYieldIsFixed ==
  [][maturityRate # NoRate =>
       \A h \in Holders :
         LET owed == YieldOwed(h, maturityRate) IN
         owed # owed' => owed - owed' = sy'[h] - sy[h] /\ owed' < owed]_vars

\* The yield all holders are owed at a rate.
TotalOwed(r) == Total([h \in Holders |-> YieldOwed(h, r)])

\* A transfer of YT neither creates nor destroys yield: whatever the rate goes on
\* to be, holders together are owed as much after it as before.  Rounding is all
\* that may differ: owed_shares rounds down by less than two shares (at rates from
\* WAD up), two terms of it before the transfer and four after.
TransferConservesYield ==
  [][ytBalance' # ytBalance /\ ytSupply' = ytSupply
       => \A r \in Rates : r >= EffectiveRate => TotalOwed(r)' - TotalOwed(r) \in -7 .. 3]_vars

\* As long as the rate never falls, the surplus over the PT reservation
\* covers the yield of all holders together, so every claim is paid in full
\* whatever the order.
YieldIsBacked ==
  RateOnRecord # NoRate /\ EffectiveRate > 0
    => TotalOwed(EffectiveRate) <= Surplus(EffectiveRate)

\* What the tokenizer promises about principal, as an abstract specification.
Vault == INSTANCE SeniorVault WITH
  Unit <- WAD, None <- NoRate, shares <- escrow, principal <- ptSupply,
  rate <- RateOnRecord, sealed <- maturityRate # NoRate

ImplementsVault == Vault!VaultSpec

=============================================================================

------------------------------ MODULE SyWrapper ------------------------------
(***************************************************************************)
(* The SY wrapper: shares over a supply position in one Blend pool.  The    *)
(* exchange rate is derived on every read from what the position is worth,  *)
(* never stored; in wind-down it is derived from the underlying recovered.  *)
(*                                                                         *)
(* The pool is external.  It is modelled from what the wrapper and the      *)
(* adapter assume of it: a supply credits bTokens rounded down, a withdraw  *)
(* burns bTokens rounded up, either may fail, a withdraw may release less   *)
(* than asked, the bToken rate moves and the reserve may be re-indexed.     *)
(*                                                                         *)
(* A call is atomic.  Calls that return an error or trap are not steps.     *)
(***************************************************************************)
EXTENDS FixedPoint, Ledgers

CONSTANTS
  SyHolders,
  WAD,           \* unit of the exchange rate
  Scalar,        \* BLEND_SCALAR_12, unit of the bToken rate
  BRates,        \* the bToken rates the pool goes through
  Deposits,      \* the amounts of underlying sent to the wrapper
  SupplyCap,     \* the reserve's supply cap, 0 for none
  MaxAmount,     \* bound on shares and idle underlying (for the overflow checks)
  PartialFills,  \* whether a withdraw may release less than asked
  PoolMayFail    \* whether a withdraw may fail

ASSUME SyWrapperAssumption ==
  /\ IsFiniteSet(SyHolders)
  /\ WAD \in Nat \ {0}
  /\ Scalar \in Nat \ {0}
  /\ BRates \subseteq Nat \ {0}
  /\ Deposits \subseteq Nat
  /\ SupplyCap \in Nat
  /\ MaxAmount \in Nat
  /\ PartialFills \in BOOLEAN
  /\ PoolMayFail \in BOOLEAN

VARIABLES
  shares,        \* Balance, [SyHolders -> Nat]
  principal,     \* Principal, [SyHolders -> Nat]
  totalShares,   \* TotalSupply
  idle,          \* underlying held by the wrapper itself
  entriesPaused, \* Paused
  emergency,     \* EmergencyMode
  sealed,        \* Renounced
  readable,      \* the pool keeps the underlying at config.reserve_index
  bTokens,       \* external: the wrapper's position in the pool
  bRate          \* external: the pool's b_rate

ledgerVars == <<shares, principal, totalShares>>
modeVars   == <<entriesPaused, emergency, sealed>>
poolVars   == <<bTokens, bRate>>
syVars     == <<ledgerVars, modeVars, poolVars, idle, readable>>

SyInit ==
  /\ shares = [h \in SyHolders |-> 0]
  /\ principal = [h \in SyHolders |-> 0]
  /\ totalShares = 0
  /\ idle = 0
  /\ entriesPaused = FALSE
  /\ emergency = FALSE
  /\ sealed = FALSE
  /\ readable = TRUE
  /\ bTokens = 0
  /\ bRate = Scalar

(***************************************************************************)
(* The pool and the rate.                                                  *)
(***************************************************************************)

AssetsFromBTokens(b) == MulDivFloor(b, bRate, Scalar)
BTokensFromAssets(assets) == MulDivFloor(assets, Scalar, bRate)

\* blend_assets_under_management
Aum == AssetsFromBTokens(bTokens)

\* What a withdraw of `request` may do: everything asked for, or, if the pool
\* is short of liquidity, some of it.  bTokens burn rounded up.
Releases(request) ==
  {paid \in (IF PartialFills THEN 1 ELSE request) .. request :
     MulDivCeil(paid, Scalar, bRate) <= bTokens}

Release(paid) == bTokens' = bTokens - MulDivCeil(paid, Scalar, bRate)

\* Variant: wind-down keeps valuing the position in the pool.
AssetsInPool == Aum

\* Variant: underlying the wrapper happens to hold counts before wind-down too.
AssetsWithIdle == IF emergency THEN idle ELSE Aum + idle

\* What backs the shares, and the derived_exchange_rate over it.
Assets == IF emergency THEN idle ELSE Aum
RateOver(assets) == IF totalShares = 0 THEN WAD ELSE MulDivFloor(assets, WAD, totalShares)
ExchangeRate == RateOver(Assets)

(***************************************************************************)
(* Deposits, redemptions and transfers.                                    *)
(***************************************************************************)

\* Variant: shares are minted for the amount sent, not the amount credited.
MintedForSent(amount, credited) == MulDivFloor(amount, WAD, ExchangeRate)

\* Shares for what the position actually grew by, at the rate before it grew.
Minted(amount, credited) == MulDivFloor(credited, WAD, ExchangeRate)

\* Wind-down sets Paused too, but Paused can be cleared again.
DepositsOpen == ~entriesPaused /\ ~emergency

Deposit(h, amount) ==
  LET bought   == BTokensFromAssets(amount)
      credited == AssetsFromBTokens(bTokens + bought) - Aum
      minted   == Minted(amount, credited)
  IN
  /\ DepositsOpen
  /\ amount > 0
  /\ readable
  /\ SupplyCap > 0 => Aum + amount <= SupplyCap
  /\ ExchangeRate > 0
  /\ minted > 0
  /\ totalShares + minted <= MaxAmount
  /\ bTokens' = bTokens + bought
  /\ shares' = [shares EXCEPT ![h] = @ + minted]
  /\ principal' = [principal EXCEPT ![h] = @ + amount]
  /\ totalShares' = totalShares + minted
  /\ UNCHANGED <<modeVars, idle, readable, bRate>>

\* Variant: the shares burnt leave their principal behind.
LeavePrincipal(h, burnt) == principal[h]

\* The principal left with a holder when part of its shares goes, rounded up.
KeptPrincipal(h, gone) == principal[h] - MulDivFloor(principal[h], gone, shares[h])

\* Variant: the supply is not reduced with the balance.
BurnKeepsSupply(h, burnt) ==
  /\ shares' = [shares EXCEPT ![h] = @ - burnt]
  /\ principal' = [principal EXCEPT ![h] = KeptPrincipal(h, burnt)]
  /\ UNCHANGED totalShares

BurnShares(h, burnt) ==
  /\ shares' = [shares EXCEPT ![h] = @ - burnt]
  /\ principal' = [principal EXCEPT ![h] = KeptPrincipal(h, burnt)]
  /\ totalShares' = totalShares - burnt

\* Shares burnt for a payout: all of them when the pool released everything,
\* else what the payout is worth, rounded up, at most the holder's balance.
Burnt(h, n, paid, request) ==
  IF paid >= request THEN n ELSE Smaller(MulDivCeil(paid, WAD, ExchangeRate), shares[h])

Redeem(h, n) ==
  LET request == MulDivFloor(n, ExchangeRate, WAD) IN
  /\ ~emergency
  /\ n > 0
  /\ n <= shares[h]
  /\ readable
  /\ request > 0
  /\ \E paid \in Releases(request) :
       /\ Release(paid)
       /\ BurnShares(h, Burnt(h, n, paid, request))
  /\ UNCHANGED <<modeVars, idle, readable, bRate>>

\* Wind-down pays a pro-rata slice of what was recovered.
Slice(n) == MulDivFloor(idle, n, totalShares)

\* Variant: wind-down exits wait for the pause to end.
RedeemWindDownUnlessPaused(h, n) ==
  /\ emergency
  /\ ~entriesPaused
  /\ n > 0
  /\ n <= shares[h]
  /\ BurnShares(h, n)
  /\ idle >= Slice(n)
  /\ idle' = idle - Slice(n)
  /\ UNCHANGED <<modeVars, poolVars, readable>>

RedeemWindDown(h, n) ==
  /\ emergency
  /\ n > 0
  /\ n <= shares[h]
  /\ BurnShares(h, n)
  /\ idle >= Slice(n)
  /\ idle' = idle - Slice(n)
  /\ UNCHANGED <<modeVars, poolVars, readable>>

\* Principal follows the shares pro rata.  The sender is stored before the
\* receiver is read, so a transfer to oneself changes nothing.
TransferShares(from, to, n) ==
  /\ n > 0
  /\ n <= shares[from]
  /\ shares' = Moved(shares, from, to, n)
  /\ principal' = Moved(principal, from, to, principal[from] - KeptPrincipal(from, n))
  /\ UNCHANGED <<totalShares, modeVars, poolVars, idle, readable>>

(***************************************************************************)
(* Administration.                                                         *)
(***************************************************************************)

\* Once, and irreversibly, the whole position is asked back.  A withdraw that
\* fails is tolerated, and wind-down begins all the same.
EmergencyWithdrawAll ==
  /\ ~sealed
  /\ ~emergency
  /\ readable
  /\ \/ /\ Aum > 0
        /\ \E paid \in Releases(Aum) :
             /\ Release(paid)
             /\ idle' = idle + paid
     \/ /\ Aum = 0 \/ PoolMayFail
        /\ UNCHANGED <<bTokens, idle>>
  /\ emergency' = TRUE
  /\ entriesPaused' = TRUE
  /\ UNCHANGED <<ledgerVars, sealed, bRate, readable>>

SetPaused(b) ==
  /\ entriesPaused' = b
  /\ UNCHANGED <<ledgerVars, emergency, sealed, poolVars, idle, readable>>

RenounceWrapper ==
  /\ sealed' = TRUE
  /\ UNCHANGED <<ledgerVars, entriesPaused, emergency, poolVars, idle, readable>>

\* The new index is derived from the pool, never taken from the caller.
MigrateReserveIndex ==
  /\ readable' = TRUE
  /\ UNCHANGED <<ledgerVars, modeVars, poolVars, idle>>

(***************************************************************************)
(* The environment.                                                        *)
(***************************************************************************)
BRateMoves(r) ==
  /\ r # bRate
  /\ bRate' = r
  /\ UNCHANGED <<ledgerVars, modeVars, bTokens, idle, readable>>

Reindex ==
  /\ readable' \in BOOLEAN
  /\ UNCHANGED <<ledgerVars, modeVars, poolVars, idle>>

\* Underlying sent to the wrapper unasked.
Donate(n) ==
  /\ n > 0
  /\ idle + n <= MaxAmount
  /\ idle' = idle + n
  /\ UNCHANGED <<ledgerVars, modeVars, poolVars, readable>>

SyNext ==
  \/ EmergencyWithdrawAll \/ RenounceWrapper \/ MigrateReserveIndex \/ Reindex
  \/ \E b \in BOOLEAN : SetPaused(b)
  \/ \E r \in BRates : BRateMoves(r)
  \/ \E n \in Deposits : Donate(n)
  \/ \E h \in SyHolders :
       \/ \E n \in Deposits : Deposit(h, n)
       \/ \E n \in 1 .. shares[h] :
            \/ Redeem(h, n)
            \/ RedeemWindDown(h, n)
            \/ \E g \in SyHolders : TransferShares(h, g, n)

SySpec == SyInit /\ [][SyNext]_syVars

-----------------------------------------------------------------------------
(***************************************************************************)
(* Properties.                                                             *)
(***************************************************************************)
SumOf(f) == SumOver(f, SyHolders)

\* Every variable has its type, and the supply every rate divides by is the sum of the
\* balances, through partial redemptions, wind-down exits and self transfers.
SyTypeOK ==
  /\ shares \in [SyHolders -> Nat]
  /\ principal \in [SyHolders -> Nat]
  /\ totalShares = SumOf(shares)
  /\ idle \in Nat
  /\ entriesPaused \in BOOLEAN
  /\ emergency \in BOOLEAN
  /\ sealed \in BOOLEAN
  /\ readable \in BOOLEAN
  /\ bTokens \in Nat
  /\ bRate \in Nat \ {0}

\* A holder without shares carries no principal: whoever left or sent
\* everything away cannot drag a stale cost basis into a later accrued_yield.
PrincipalFollowsShares == \A h \in SyHolders : shares[h] = 0 => principal[h] = 0

\* What is behind every remaining share shrinks by at most `dust` underlying in all.
BackingKept(dust) == (Assets' + dust) * totalShares >= Assets * totalShares'

\* SY-03 at the precision of the rate, GOV-08 exactly, and SY-04 up to what the pool's
\* rounding of bTokens can cost: a deposit never lowers the rate of those already in, a
\* wind-down exit never shorts who stays, and a redemption, paid in full or in part,
\* costs them at most one bToken.
ShortedByOneBTokenOnly ==
  [][/\ totalShares > 0 /\ totalShares' > totalShares => ExchangeRate' >= ExchangeRate
     /\ totalShares' < totalShares
          => BackingKept(IF emergency THEN 0 ELSE MulDivCeil(1, bRate, Scalar))]_syVars

\* In wind-down nobody's exit depends on the pool, a pause, a migration or a renounce: a
\* redemption of all of anybody's shares goes through.
WindDownExitsOpen ==
  emergency => \A h \in SyHolders : shares[h] > 0 => ENABLED RedeemWindDown(h, shares[h])

\* When the pool pays the whole position back, wind-down prices nobody down: the
\* rate over what was recovered, with any underlying already held, is at least the
\* rate over the position.  An earlier donation, a pause, a migration or a rate
\* move before it does not matter.
FullRecoveryKeepsRate ==
  [][~emergency /\ emergency' /\ totalShares > 0 /\ idle' - idle = Aum
       => ExchangeRate' >= ExchangeRate]_syVars

\* GOV-08: "emergency_withdraw_all recovers the Blend position into idle
\* custody without repricing holders".
WindDownKeepsRate ==
  [][~emergency /\ emergency' /\ totalShares > 0 => ExchangeRate' >= ExchangeRate]_syVars

\* "Irreversible", and "redemption then pays each holder their exact pro-rata slice"
\* (GOV-08): once the position is wound down no order of calls, an unpause included, issues
\* a share or lowers the rate of those who are still in.
WindDownNeverFalls ==
  [][emergency =>
       /\ emergency'
       /\ totalShares' <= totalShares
       /\ totalShares' > 0 => ExchangeRate' >= ExchangeRate]_syVars

\* What the wrapper promises its holders, as an abstract specification: shares are issued
\* for what they bring in, exits cost those who stay at most one unit of the position, gifts
\* reprice nothing before wind-down, and wind-down is final.
Fund == INSTANCE ShareFund WITH
  Unit <- WAD, Scale <- Scalar, supply <- totalShares, backing <- Assets,
  price <- bRate, closed <- emergency

ImplementsFund == Fund!FundSpec

=============================================================================

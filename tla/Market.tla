-------------------------------- MODULE Market --------------------------------
(***************************************************************************)
(* The market with its price record: every swap ends with an observation of  *)
(* the implied rate it leaves, which is blended into a time-weighted average *)
(* that the services and the web application publish as the fixed yield.     *)
(*                                                                         *)
(* The rate the curve implies after a trade is as much a black box as what    *)
(* it pays: any of LnRates.  Time is that of the ledgers; several calls       *)
(* share one.                                                              *)
(***************************************************************************)
EXTENDS Amm

CONSTANTS
  Window,      \* config.twap_window
  Maturity,    \* config.maturity
  LnRates,     \* the implied rates, in WAD, the curve can be left at
  MaxTime      \* bound on the time

ASSUME MarketAssumption ==
  /\ Window \in Nat \ {0}
  /\ Maturity \in Nat \ {0}
  /\ LnRates \subseteq Nat
  /\ MaxTime \in Nat
  /\ None \notin Nat

VARIABLES
  now,               \* ledger timestamp
  lastLnRate,        \* State.last_ln_implied_rate
  twapLnRate,        \* State.twap_ln_implied_rate
  lastObservation,   \* State.last_observation
  warmupUntil,       \* State.warmup_until
  observed,          \* history: the rates a deposit or a trade has left
  observedAt,        \* history: when the last of these was
  decided            \* history: when and how one observation last made the average

rateVars    == <<lastLnRate, twapLnRate, lastObservation, warmupUntil>>
historyVars == <<observed, observedAt, decided>>
marketVars  == <<vars, now, rateVars, historyVars>>

\* initialize refuses a maturity that is not in the future.
MarketInit ==
  /\ Init
  /\ now \in 0 .. Maturity - 1
  /\ lastLnRate = 0 /\ twapLnRate = 0
  /\ lastObservation = now /\ warmupUntil = now + Window
  /\ observed = {} /\ observedAt = None /\ decided = None

(***************************************************************************)
(* The average.                                                            *)
(***************************************************************************)

\* Variant: the new rate is added without its weight.
BlendUnweighted(old, new, elapsed) ==
  LET weight == MulDivFloor(elapsed, WAD, Window)
  IN MulDivFloor(old, WAD - weight, WAD) + new

\* The new rate counts for the part of the window it took to come, the old average for
\* the rest; both parts round down.
Blend(old, new, elapsed) ==
  LET weight == MulDivFloor(elapsed, WAD, Window)
  IN MulDivFloor(old, WAD - weight, WAD) + MulDivFloor(new, weight, WAD)

\* Variant: the average is replaced and trusted at once.
SnapTrusted(rate) ==
  /\ twapLnRate' = rate
  /\ decided' = [at |-> now, by |-> "snap"]
  /\ UNCHANGED warmupUntil

\* After a full window without a trade there is nothing to blend with.
Snap(rate) ==
  /\ twapLnRate' = rate
  /\ warmupUntil' = now + Window
  /\ decided' = [at |-> now, by |-> "snap"]

\* sync_twap: of the trades of one ledger only the first counts.
SyncTwap(rate) ==
  LET elapsed == now - lastObservation IN
  \/ elapsed = 0 /\ UNCHANGED <<twapLnRate, warmupUntil, lastObservation, decided>>
  \/ elapsed >= Window /\ Snap(rate) /\ lastObservation' = now
  \/ /\ elapsed \in 1 .. Window - 1
     /\ twapLnRate' = Blend(twapLnRate, rate, elapsed)
     /\ lastObservation' = now
     /\ UNCHANGED <<warmupUntil, decided>>

\* The trade or the deposit leaves the curve at a rate.
Leaves(rate) ==
  /\ lastLnRate' = rate
  /\ observed' = observed \cup {rate}
  /\ observedAt' = now
  /\ UNCHANGED now

\* Every swap, at the rate the trade has left, whichever route it took.
Trade ==
  /\ \E n \in Amounts, r \in Rates : Swap(n, r)
  /\ \E rate \in LnRates : Leaves(rate) /\ SyncTwap(rate)

\* The first deposit sets the average to the rate it opens at; the warm-up goes on from
\* when the market was initialised.
Open ==
  /\ \E h \in Holders, pt \in Amounts, sy \in Amounts : Seed(h, pt, sy)
  /\ \E rate \in LnRates :
       /\ Leaves(rate)
       /\ twapLnRate' = rate
  /\ lastObservation' = now
  /\ decided' = [at |-> now, by |-> "deposit"]
  /\ UNCHANGED warmupUntil

\* Liquidity moves along the curve at the same rate; nothing else touches the record.
Otherwise ==
  /\ \/ WithdrawProtocolFees \/ SweepYt \/ RenounceAdmin
     \/ \E b \in BOOLEAN : SetPaused(b)
     \/ \E share \in 0 .. MaxFeeShare, t \in Treasuries : SetProtocolFee(share, t)
     \/ \E n \in Amounts : Donate(n, 0, 0) \/ Donate(0, n, 0) \/ Donate(0, 0, n)
     \/ \E h \in Holders :
          \/ \E pt \in Amounts, sy \in Amounts : Join(h, pt, sy)
          \/ \E n \in 1 .. totalLp : RemoveLiquidity(h, n)
  /\ UNCHANGED <<now, rateVars, historyVars>>

\* Time passes, and the market is mature from Maturity on.
Tick ==
  /\ now < MaxTime
  /\ now' = now + 1
  /\ IF now' >= Maturity THEN Mature ELSE UNCHANGED vars
  /\ UNCHANGED <<rateVars, historyVars>>

MarketNext == Trade \/ Open \/ Otherwise \/ Tick

MarketSpec == MarketInit /\ [][MarketNext]_marketVars

\* twap_warming_up
WarmingUp == now < warmupUntil

-----------------------------------------------------------------------------
(***************************************************************************)
(* Properties.                                                             *)
(***************************************************************************)

\* How far rounding can ever take the average below the rates it averages, however many
\* blends it takes: what a window of one-second blends rounds off.
Drift == 2 * (Window + 1)

\* The average stays among the rates that were observed: never above the highest, and below
\* the lowest by no more than the rounding of the blends, which does not add up.
AverageOfObserved ==
  totalLp > 0 =>
    /\ \E rate \in observed : twapLnRate <= rate
    /\ \E rate \in observed : rate <= twapLnRate + Drift

\* However many trades a ledger holds, in whatever order, the average takes in one rate.
OneRatePerLedger == [][observedAt = now => twapLnRate' = twapLnRate]_marketVars

\* AMM-07: "consumers must not trust the value until a full window passes" after an idle gap
\* let one trade make the average.
TrustedAfterSnap ==
  decided # None /\ decided.by = "snap" /\ ~WarmingUp => now >= decided.at + Window

\* "twap_warming_up() surfaces whether the window has enough history yet".
TrustedMeansAWindow == decided # None /\ ~WarmingUp => now >= decided.at + Window
=============================================================================

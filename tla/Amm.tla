--------------------------------- MODULE Amm ---------------------------------
(***************************************************************************)
(* The PT/SY market.  The curve prices from accounted reserves (total_pt,   *)
(* total_sy), never from what the contract happens to hold, so accounting   *)
(* and custody have to be kept in step by hand on every path: four swaps,   *)
(* two of which go through the tokenizer, LP shares, and a protocol fee     *)
(* carved out of the SY reserve.                                           *)
(*                                                                         *)
(* The curve is a black box: a trade moves any amount that its guards and   *)
(* the bound "PT never prices above par" admit.  What the caller was quoted *)
(* or tolerates is left out; the price record is added by Market.  Wallets    *)
(* are external: a call whose caller cannot pay is not a step.               *)
(***************************************************************************)
EXTENDS FixedPoint, FiniteSets, FiniteSetsExt

CONSTANTS
  Holders,
  Treasuries,         \* the accounts fees may be routed to
  None,               \* "no treasury configured"
  Amounts,            \* the token amounts of calls
  Rates,              \* the SY rates the SY contract reports
  WAD,
  BPS_DENOMINATOR,
  FeeBps,             \* config.fee_bps
  MaxFeeShare,        \* MAX_PROTOCOL_FEE_SHARE_BPS
  MINIMUM_LIQUIDITY,
  MaxReserve,         \* MAX_RESERVE_UNITS
  MaxCustody,         \* bound on the PT and the SY the contract holds
  MaxYt,              \* bound on the YT it holds
  MaxLp               \* bound on the LP shares

ASSUME AmmAssumption ==
  /\ IsFiniteSet(Holders)
  /\ None \notin Treasuries
  /\ Amounts \subseteq Nat
  /\ Rates \subseteq Nat \ {0}
  /\ WAD \in Nat \ {0}
  /\ FeeBps \in Nat
  /\ MaxFeeShare \in Nat
  /\ BPS_DENOMINATOR \in Nat /\ FeeBps < BPS_DENOMINATOR
  /\ MINIMUM_LIQUIDITY \in Nat \ {0}
  /\ MaxReserve \in Nat
  /\ MaxCustody \in Nat
  /\ MaxYt \in Nat
  /\ MaxLp \in Nat

VARIABLES
  totalPt,     \* State.total_pt, face units of PT behind the curve
  totalSy,     \* State.total_sy, shares of SY behind the curve
  totalLp,     \* State.total_lp
  lp,          \* LpBalance, [Holders -> Nat]
  accrued,     \* ProtocolFeesAccrued
  feeShare,    \* ProtocolFeeShareBps
  treasury,    \* Treasury
  paused,      \* Paused
  renounced,   \* Renounced
  matured,     \* ledger timestamp >= config.maturity
  custodyPt,   \* PT, SY and YT balances of the contract
  custodySy,
  custodyYt

reserveVars == <<totalPt, totalSy, totalLp, lp>>
feeVars     == <<accrued, feeShare, treasury>>
gateVars    == <<paused, renounced, matured>>
custodyVars == <<custodyPt, custodySy, custodyYt>>
vars        == <<reserveVars, feeVars, gateVars, custodyVars>>

Init ==
  /\ totalPt = 0 /\ totalSy = 0 /\ totalLp = 0
  /\ lp = [h \in Holders |-> 0]
  /\ accrued = 0 /\ feeShare = 0 /\ treasury = None
  /\ paused = FALSE /\ renounced = FALSE /\ matured = FALSE
  /\ custodyPt = 0 /\ custodySy = 0 /\ custodyYt = 0

(***************************************************************************)
(* Custody, prices and fees.                                               *)
(***************************************************************************)

\* The net transfers of a call.  Each of them moves what the contract has, and
\* nobody can send it more than exists.
PoolMoves(pt, sy, yt) ==
  /\ custodyPt + pt \in 0 .. MaxCustody
  /\ custodySy + sy \in 0 .. MaxCustody
  /\ custodyYt + yt \in 0 .. MaxYt
  /\ custodyPt' = custodyPt + pt
  /\ custodySy' = custodySy + sy
  /\ custodyYt' = custodyYt + yt

\* A reserve the curve can price: worth at least one unit of the underlying.
Priceable(sy, r) == MulDivFloor(sy, r, WAD) > 0

\* load_live_market_or_panic
Tradeable(r) ==
  /\ ~paused
  /\ ~matured
  /\ totalLp > 0 /\ totalPt > 0 /\ totalSy > 0
  /\ Priceable(totalSy, r)

\* What the curve may pay for `pt` sold to it, in SY: some of what the face is
\* worth at par, and never the whole reserve.
CurvePays(pt, r) ==
  {sy \in 1 .. MulDivFloor(pt, WAD, r) : sy < totalSy /\ Priceable(totalSy - sy, r)}

\* What it may charge for `pt` bought from it: at most par plus the fee.
CurveCharges(pt, r) ==
  {sy \in 1 .. MulDivCeil(pt + MulDivCeil(pt, FeeBps, BPS_DENOMINATOR), WAD, r) :
     totalSy + sy <= MaxReserve /\ Priceable(totalSy + sy, r)}

\* The fee contained in a payout and in a charge.
FeeFromPayout(sy) == MulDivFloor(sy, FeeBps, BPS_DENOMINATOR - FeeBps)
FeeFromCharge(sy) == MulDivFloor(sy, FeeBps, BPS_DENOMINATOR + FeeBps)

\* The reserve after a plain swap: the treasury's share of the fee leaves it,
\* unless that would leave nothing.
AccrueProtocolFee(sy, fee) ==
  LET cut   == MulDivFloor(fee, feeShare, BPS_DENOMINATOR)
      taken == IF cut < sy THEN cut ELSE 0
  IN
  /\ totalSy' = sy - taken
  /\ accrued' = accrued + taken

(***************************************************************************)
(* Swaps.                                                                  *)
(***************************************************************************)

\* Variant: the PT reserve is read back from the balance.
SwapPtForSyReconciled(ptIn, r) ==
  /\ Tradeable(r)
  /\ ptIn > 0 /\ totalPt + ptIn <= MaxReserve
  /\ \E syOut \in CurvePays(ptIn, r) :
       /\ totalPt' = custodyPt + ptIn
       /\ AccrueProtocolFee(totalSy - syOut, FeeFromPayout(syOut))
       /\ PoolMoves(ptIn, -syOut, 0)
  /\ UNCHANGED <<totalLp, lp, feeShare, treasury, gateVars>>

SwapPtForSy(ptIn, r) ==
  /\ Tradeable(r)
  /\ ptIn > 0 /\ totalPt + ptIn <= MaxReserve
  /\ \E syOut \in CurvePays(ptIn, r) :
       /\ totalPt' = totalPt + ptIn
       /\ AccrueProtocolFee(totalSy - syOut, FeeFromPayout(syOut))
       /\ PoolMoves(ptIn, -syOut, 0)
  /\ UNCHANGED <<totalLp, lp, feeShare, treasury, gateVars>>

\* The caller names a budget; the solver finds the PT it affords, and only the
\* cost of that is charged.
SwapSyForPt(ptOut, r) ==
  /\ Tradeable(r)
  /\ ptOut > 0 /\ ptOut < totalPt
  /\ \E required \in CurveCharges(ptOut, r) :
       /\ totalPt' = totalPt - ptOut
       /\ AccrueProtocolFee(totalSy + required, FeeFromCharge(required))
       /\ PoolMoves(-ptOut, required, 0)
  /\ UNCHANGED <<totalLp, lp, feeShare, treasury, gateVars>>

\* A flash split: the pool splits enough shares to mint the YT, sells the PT half
\* to its own curve, and the buyer pays the difference.  What the split mints
\* beyond the YT sold stays: its PT in the reserve, its YT in custody.
SwapSyForYt(ytOut, r) ==
  LET toSplit == MulDivCeil(ytOut, WAD, r)
      minted  == MulDivFloor(toSplit, r, WAD)
  IN
  /\ Tradeable(r)
  /\ ytOut > 0 /\ totalPt + minted <= MaxReserve
  /\ \E funded \in CurvePays(ytOut, r) :
       /\ funded < toSplit
       /\ totalPt' = totalPt + ytOut + (minted - ytOut)
       /\ totalSy' = totalSy - funded
       /\ PoolMoves(minted, (toSplit - funded) - toSplit, minted - ytOut)
  /\ UNCHANGED <<totalLp, lp, feeVars, gateVars>>

\* What the tokenizer may return for a recombine: the face value, or less when
\* its escrow is short.
Recombined(face, r) == 1 .. MulDivFloor(face, WAD, r)

\* Variant: the seller is paid the quoted amount whatever the recombine brings.
SwapYtForSyUnchecked(ytIn, r) ==
  LET value == MulDivFloor(ytIn, WAD, r) IN
  /\ Tradeable(r)
  /\ ytIn > 0 /\ ytIn < totalPt
  /\ \E cost \in CurveCharges(ytIn, r), received \in Recombined(ytIn, r) :
       /\ cost < value
       /\ totalPt' = totalPt - ytIn
       /\ totalSy' = totalSy + cost
       /\ PoolMoves(-ytIn, received - (value - cost), 0)
  /\ UNCHANGED <<totalLp, lp, feeVars, gateVars>>

\* A flash recombine: the seller's YT and as much PT from the pool go back to the
\* tokenizer, the curve is paid for the PT and the seller gets the rest.
SwapYtForSy(ytIn, r) ==
  LET value == MulDivFloor(ytIn, WAD, r) IN
  /\ Tradeable(r)
  /\ ytIn > 0 /\ ytIn < totalPt
  /\ \E cost \in CurveCharges(ytIn, r), received \in Recombined(ytIn, r) :
       /\ cost < value
       /\ received >= value
       /\ totalPt' = totalPt - ytIn
       /\ totalSy' = totalSy + cost + (received - value)
       /\ PoolMoves(-ytIn, received - (value - cost), 0)
  /\ UNCHANGED <<totalLp, lp, feeVars, gateVars>>

Swap(n, r) == SwapPtForSy(n, r) \/ SwapSyForPt(n, r) \/ SwapSyForYt(n, r) \/ SwapYtForSy(n, r)

(***************************************************************************)
(* Liquidity.                                                              *)
(***************************************************************************)

\* The first deposit mints the integer square root of the product, of which the
\* minimum belongs to nobody, ever.
Seed(h, ptIn, syIn) ==
  /\ ~paused /\ ~matured
  /\ ptIn \in 1 .. MaxReserve /\ syIn \in 1 .. MaxReserve
  /\ totalLp = 0
  /\ \E gross \in 1 .. ptIn * syIn :
       /\ gross * gross <= ptIn * syIn /\ ptIn * syIn < (gross + 1) * (gross + 1)
       /\ gross > MINIMUM_LIQUIDITY
       /\ totalLp' = gross
       /\ lp' = [lp EXCEPT ![h] = @ + gross - MINIMUM_LIQUIDITY]
  /\ totalPt' = ptIn
  /\ totalSy' = syIn
  /\ PoolMoves(ptIn, syIn, 0)
  /\ UNCHANGED <<feeVars, gateVars>>

\* Variant: what a deposit uses is rounded down.
UsedFloor(total, minted) == MulDivFloor(total, minted, totalLp)

\* What a deposit that mints `minted` uses of one side, rounded up.
Used(total, minted) == MulDivCeil(total, minted, totalLp)

\* Later deposits mint for the smaller of the two sides, rounded down.
Join(h, ptIn, syIn) ==
  LET minted == Smaller(MulDivFloor(ptIn, totalLp, totalPt), MulDivFloor(syIn, totalLp, totalSy))
      ptUsed == Used(totalPt, minted)
      syUsed == Used(totalSy, minted)
  IN
  /\ ~paused /\ ~matured
  /\ ptIn \in 1 .. MaxReserve /\ syIn \in 1 .. MaxReserve
  /\ totalLp > 0 /\ totalPt > 0 /\ totalSy > 0
  /\ minted > 0
  /\ totalLp + minted <= MaxLp
  /\ totalPt + ptUsed <= MaxReserve
  /\ totalSy + syUsed <= MaxReserve
  /\ totalPt' = totalPt + ptUsed
  /\ totalSy' = totalSy + syUsed
  /\ totalLp' = totalLp + minted
  /\ lp' = [lp EXCEPT ![h] = @ + minted]
  /\ PoolMoves(ptUsed, syUsed, 0)
  /\ UNCHANGED <<feeVars, gateVars>>

AddLiquidity(h, ptIn, syIn) == Seed(h, ptIn, syIn) \/ Join(h, ptIn, syIn)

\* One side of what `lpIn` shares are worth, rounded down.
Slice(total, lpIn) == MulDivFloor(lpIn, total, totalLp)

\* Variant: the holder's balance is not checked.
RemoveUnchecked(h, lpIn) ==
  LET ptOut == Slice(totalPt, lpIn)
      syOut == Slice(totalSy, lpIn)
  IN
  /\ lpIn \in 1 .. MaxReserve
  /\ totalLp > 0 /\ totalPt > 0 /\ totalSy > 0
  /\ lpIn < totalLp
  /\ ptOut > 0 /\ syOut > 0
  /\ totalPt' = totalPt - ptOut
  /\ totalSy' = totalSy - syOut
  /\ totalLp' = totalLp - lpIn
  /\ lp' = [lp EXCEPT ![h] = @ - lpIn]
  /\ PoolMoves(-ptOut, -syOut, 0)
  /\ UNCHANGED <<feeVars, gateVars>>

\* Variant: leaving waits for the market to be unpaused and live.
RemoveWhileLive(h, lpIn) == ~paused /\ ~matured /\ lpIn <= lp[h] /\ RemoveUnchecked(h, lpIn)

\* Neither a pause nor maturity stops an LP from leaving.  A side that rounds to
\* nothing does: both tokens refuse to transfer nothing.
RemoveLiquidity(h, lpIn) ==
  LET ptOut == Slice(totalPt, lpIn)
      syOut == Slice(totalSy, lpIn)
  IN
  /\ lpIn \in 1 .. MaxReserve
  /\ totalLp > 0 /\ totalPt > 0 /\ totalSy > 0
  /\ lpIn <= lp[h]
  /\ lpIn < totalLp
  /\ ptOut > 0 /\ syOut > 0
  /\ totalPt' = totalPt - ptOut
  /\ totalSy' = totalSy - syOut
  /\ totalLp' = totalLp - lpIn
  /\ lp' = [lp EXCEPT ![h] = @ - lpIn]
  /\ PoolMoves(-ptOut, -syOut, 0)
  /\ UNCHANGED <<feeVars, gateVars>>

(***************************************************************************)
(* Administration.                                                         *)
(***************************************************************************)

\* The share of the fee and the treasury are set together, at any time.
SetProtocolFee(share, t) ==
  /\ ~renounced
  /\ share <= MaxFeeShare
  /\ feeShare' = share
  /\ treasury' = t
  /\ UNCHANGED <<accrued, reserveVars, gateVars, custodyVars>>

WithdrawProtocolFees ==
  /\ treasury # None
  /\ accrued > 0
  /\ accrued' = 0
  /\ PoolMoves(0, -accrued, 0)
  /\ UNCHANGED <<feeShare, treasury, reserveVars, gateVars>>

\* PT and SY are refused; YT is not, the dust of flash splits included.
SweepYt ==
  /\ ~renounced
  /\ custodyYt > 0
  /\ PoolMoves(0, 0, -custodyYt)
  /\ UNCHANGED <<reserveVars, feeVars, gateVars>>

SetPaused(b) ==
  /\ paused' = b
  /\ UNCHANGED <<renounced, matured, reserveVars, feeVars, custodyVars>>

RenounceAdmin ==
  /\ renounced' = TRUE
  /\ UNCHANGED <<paused, matured, reserveVars, feeVars, custodyVars>>

(***************************************************************************)
(* The environment.                                                        *)
(***************************************************************************)
Mature ==
  /\ matured' = TRUE
  /\ UNCHANGED <<paused, renounced, reserveVars, feeVars, custodyVars>>

\* Tokens sent to the contract outside its entry points.
Donate(pt, sy, yt) ==
  /\ PoolMoves(pt, sy, yt)
  /\ UNCHANGED <<reserveVars, feeVars, gateVars>>

Next ==
  \/ WithdrawProtocolFees \/ SweepYt \/ RenounceAdmin \/ Mature
  \/ \E b \in BOOLEAN : SetPaused(b)
  \/ \E share \in 0 .. MaxFeeShare, t \in Treasuries : SetProtocolFee(share, t)
  \/ \E n \in Amounts : Donate(n, 0, 0) \/ Donate(0, n, 0) \/ Donate(0, 0, n)
  \/ \E n \in Amounts, r \in Rates : Swap(n, r)
  \/ \E h \in Holders :
       \/ \E pt \in Amounts, sy \in Amounts : AddLiquidity(h, pt, sy)
       \/ \E n \in 1 .. totalLp : RemoveLiquidity(h, n)

Spec == Init /\ [][Next]_vars

-----------------------------------------------------------------------------
(***************************************************************************)
(* Properties.                                                             *)
(***************************************************************************)
TypeOK ==
  /\ totalPt \in Nat /\ totalSy \in Nat /\ totalLp \in Nat
  /\ lp \in [Holders -> Nat]
  /\ accrued \in Nat
  /\ feeShare \in 0 .. MaxFeeShare
  /\ treasury \in Treasuries \cup {None}
  /\ paused \in BOOLEAN /\ renounced \in BOOLEAN /\ matured \in BOOLEAN
  /\ custodyPt \in Nat /\ custodySy \in Nat /\ custodyYt \in Nat

\* What the contract holds beyond what it has accounted for.
UntrackedPt == custodyPt - totalPt
UntrackedSy == custodySy - (totalSy + accrued)

\* The contract holds every token its curve and its fee ledger count on, through
\* swaps, flash routes, fees and exits (untracked_balance: "Always >= 0 in a
\* healthy market", here with the accrued fees set aside as well).
CustodyCoversReserves == UntrackedPt >= 0 /\ UntrackedSy >= 0

\* Tokens sent to the contract unasked stay out of the curve and out of every
\* payout: the untracked balance moves only when nothing accounted for does
\* (credit_flash_dust: "Donated tokens sit in the contract untouched").
DonationsStayPut ==
  [][<<UntrackedPt, UntrackedSy>>' # <<UntrackedPt, UntrackedSy>>
       => UNCHANGED <<reserveVars, feeVars>>]_vars

\* A seeded market never loses a side: no order of exits, trades and fee cuts
\* empties a reserve, after which every entry point would refuse to run.
StaysSeeded == totalLp > 0 => totalPt > 0 /\ totalSy > 0

\* Joining and leaving never costs the others: the reserves behind one LP share
\* do not fall, on either side.
LiquidityNeverDilutes ==
  [][totalLp > 0 /\ totalLp' # totalLp =>
       /\ totalPt' * totalLp >= totalPt * totalLp'
       /\ totalSy' * totalLp >= totalSy * totalLp']_vars

\* An LP can take out its whole position at any time, whatever was paused,
\* donated, swept or withdrawn, provided both sides are worth a unit.
ExitsOpen ==
  \A h \in Holders :
    /\ totalLp > 0
    /\ lp[h] \in 1 .. MaxReserve
    /\ Slice(totalPt, lp[h]) > 0 /\ Slice(totalSy, lp[h]) > 0
    => ENABLED RemoveLiquidity(h, lp[h])

=============================================================================

------------------------------ MODULE AmmProofs ------------------------------
(***************************************************************************)
(* Theorems about the market for any curve within the model's black box,    *)
(* any number of LPs, any rates, fees and bounds.                          *)
(***************************************************************************)
EXTENDS Market, ArithmeticProofs

USE AmmAssumption, MarketAssumption

\* A market nobody has seeded accounts for nothing.
EmptyUntilSeeded == totalLp = 0 => totalPt = 0 /\ totalSy = 0

\* Custody alone is not inductive: the shares of an exit leave something behind
\* only of a reserve that is not empty, and a first deposit overwrites reserves
\* that must be nothing.
IInv == TypeOK /\ CustodyCoversReserves /\ StaysSeeded /\ EmptyUntilSeeded

\* Multiplying a strict inequality.
LEMMA TimesStrict ==
  ASSUME NEW a \in Nat, NEW b \in Nat, NEW c \in Nat \ {0}, a < b
  PROVE  a * c < b * c
<1>1. (a + 1) * c <= b * c
  BY TimesMonotone
<1>2. (a + 1) * c = a * c + c
  OBVIOUS
<1>3. a * c \in Nat /\ b * c \in Nat
  OBVIOUS
<1> QED
  BY <1>1, <1>2, <1>3

\* Less than all the shares never take all of a reserve.
LEMMA SliceBelow ==
  ASSUME NEW n \in Nat, NEW total \in Nat \ {0}, NEW all \in Nat, n < all
  PROVE  MulDivFloor(n, total, all) \in Nat /\ MulDivFloor(n, total, all) < total
<1> DEFINE q == MulDivFloor(n, total, all)
<1>1. q \in Nat /\ q * all <= n * total
  BY FloorBound
<1>2. n * total < all * total
  BY TimesStrict
<1>3. CASE q >= total
  <2>1. total * all <= q * all
    BY <1>1, <1>3, TimesMonotone
  <2>2. total * all = all * total /\ q * all \in Nat /\ n * total \in Nat /\ all * total \in Nat
    BY <1>1
  <2> QED
    BY <1>1, <1>2, <2>1, <2>2
<1> QED
  BY <1>1, <1>3

\* The initial state.
LEMMA InitInv == Init => IInv
<1> SUFFICES ASSUME Init PROVE IInv
  OBVIOUS
<1>1. /\ totalPt \in Nat /\ totalSy \in Nat /\ totalLp \in Nat /\ accrued \in Nat
      /\ feeShare \in 0 .. MaxFeeShare
      /\ custodyPt \in Nat /\ custodySy \in Nat /\ custodyYt \in Nat
  BY DEF Init
<1>2. lp \in [Holders -> Nat]
  BY DEF Init
<1>3. treasury \in Treasuries \cup {None}
  BY DEF Init
<1>4. paused \in BOOLEAN /\ renounced \in BOOLEAN /\ matured \in BOOLEAN
  BY Zenon DEF Init
<1>5. CustodyCoversReserves
  BY DEF Init, CustodyCoversReserves, UntrackedPt, UntrackedSy
<1>6. StaysSeeded
  BY DEF Init, StaysSeeded
<1>7. EmptyUntilSeeded
  BY DEF Init, EmptyUntilSeeded
<1> QED
  BY <1>1, <1>2, <1>3, <1>4, <1>5, <1>6, <1>7, Zenon DEF IInv, TypeOK

\* What the transfers of a call leave.
LEMMA PoolMovesType ==
  ASSUME TypeOK, NEW pt \in Int, NEW sy \in Int, NEW yt \in Int, PoolMoves(pt, sy, yt)
  PROVE  /\ custodyPt' \in Nat /\ custodySy' \in Nat /\ custodyYt' \in Nat
         /\ custodyPt' = custodyPt + pt /\ custodySy' = custodySy + sy
  BY DEF PoolMoves, TypeOK

\* The fee cut leaves something of the reserve and books exactly what it took.
LEMMA AccrueFacts ==
  ASSUME TypeOK, NEW sy \in Nat \ {0}, NEW fee \in Nat, AccrueProtocolFee(sy, fee)
  PROVE  \E taken \in Nat : taken < sy /\ totalSy' = sy - taken /\ accrued' = accrued + taken
<1> DEFINE cut == MulDivFloor(fee, feeShare, BPS_DENOMINATOR)
<1>1. cut \in Nat
  <2>1. feeShare \in Nat
    BY DEF TypeOK
  <2>2. BPS_DENOMINATOR \in Nat \ {0}
    OBVIOUS
  <2> QED
    BY <2>1, <2>2, FloorBound
<1> HIDE DEF cut
<1>2. totalSy' = sy - (IF cut < sy THEN cut ELSE 0) /\ accrued' = accrued + (IF cut < sy THEN cut ELSE 0)
  BY DEF AccrueProtocolFee, cut
<1> QED
  BY <1>1, <1>2

-----------------------------------------------------------------------------
(***************************************************************************)
(* What every trade, and every change of liquidity, does to the accounts:   *)
(* types are kept, both reserves stay positive, and custody moves exactly   *)
(* as the accounts do.                                                     *)
(***************************************************************************)
Accounts == /\ totalPt' \in Nat \ {0} /\ totalSy' \in Nat \ {0} /\ accrued' \in Nat
            /\ custodyPt' \in Nat /\ custodySy' \in Nat /\ custodyYt' \in Nat
            /\ custodyPt' - totalPt' = custodyPt - totalPt
            /\ custodySy' - (totalSy' + accrued') = custodySy - (totalSy + accrued)

\* Accounts and custody moving together.
LEMMA Together ==
  ASSUME TypeOK, NEW pt \in Int, NEW sy \in Int, NEW yt \in Int, PoolMoves(pt, sy, yt),
         NEW taken \in Nat, totalPt' = totalPt + pt,
         totalSy' = (totalSy + sy) - taken, accrued' = accrued + taken,
         totalPt + pt > 0, totalSy + sy > taken
  PROVE  Accounts
<1>1. /\ custodyPt' \in Nat /\ custodySy' \in Nat /\ custodyYt' \in Nat
      /\ custodyPt' = custodyPt + pt /\ custodySy' = custodySy + sy
  BY PoolMovesType
<1>2. totalPt \in Nat /\ totalSy \in Nat /\ accrued \in Nat /\ custodyPt \in Nat /\ custodySy \in Nat
  BY DEF TypeOK
<1>3. totalPt' \in Nat \ {0} /\ totalSy' \in Nat \ {0} /\ accrued' \in Nat
  BY <1>2
<1>4. custodyPt' - totalPt' = custodyPt - totalPt
  BY <1>1, <1>2
<1>5. custodySy' - (totalSy' + accrued') = custodySy - (totalSy + accrued)
  BY <1>1, <1>2
<1> QED
  BY <1>1, <1>3, <1>4, <1>5 DEF Accounts

\* Selling PT keeps accounts and custody in step.
LEMMA SwapPtForSyAccounts ==
  ASSUME TypeOK, NEW n \in Nat, NEW r \in Rates, SwapPtForSy(n, r)
  PROVE  Accounts
<1>1. PICK out \in CurvePays(n, r) :
        /\ totalPt' = totalPt + n
        /\ AccrueProtocolFee(totalSy - out, FeeFromPayout(out))
        /\ PoolMoves(n, -out, 0)
  BY DEF SwapPtForSy
<1>2. n > 0 /\ totalPt \in Nat /\ totalSy \in Nat
  BY DEF SwapPtForSy, TypeOK
<1>3. out \in Nat /\ out < totalSy
  BY <1>1, FloorBound DEF CurvePays
<1>4. FeeFromPayout(out) \in Nat
  <2>1. BPS_DENOMINATOR - FeeBps \in Nat \ {0}
    OBVIOUS
  <2> QED
    BY <1>3, <2>1, FloorBound DEF FeeFromPayout
<1>5. totalSy - out \in Nat \ {0} /\ totalSy - out = totalSy + (-out) /\ -out \in Int
  BY <1>2, <1>3
<1>6. PICK taken \in Nat : /\ taken < totalSy - out
                           /\ totalSy' = totalSy - out - taken
                           /\ accrued' = accrued + taken
  BY <1>1, <1>4, <1>5, AccrueFacts
<1>7. totalSy' = (totalSy + (-out)) - taken /\ totalSy + (-out) > taken /\ totalPt + n > 0
  BY <1>2, <1>3, <1>5, <1>6
<1> QED
  BY <1>1, <1>5, <1>6, <1>7, Together

\* What the curve may charge is an amount, and not nothing.
LEMMA ChargesType ==
  ASSUME TypeOK, NEW n \in Nat, NEW r \in Rates, NEW sy \in CurveCharges(n, r)
  PROVE  sy \in Nat \ {0}
<1>1. MulDivCeil(n, FeeBps, BPS_DENOMINATOR) \in Nat
  <2>1. BPS_DENOMINATOR \in Nat \ {0} /\ FeeBps \in Nat
    OBVIOUS
  <2> QED
    BY <2>1, CeilBound
<1>2. MulDivCeil(n + MulDivCeil(n, FeeBps, BPS_DENOMINATOR), WAD, r) \in Nat
  <2>1. n + MulDivCeil(n, FeeBps, BPS_DENOMINATOR) \in Nat /\ WAD \in Nat /\ r \in Nat \ {0}
    BY <1>1
  <2> QED
    BY <2>1, CeilBound
<1> QED
  BY <1>2 DEF CurveCharges

\* Buying PT does.
LEMMA SwapSyForPtAccounts ==
  ASSUME TypeOK, NEW n \in Nat, NEW r \in Rates, SwapSyForPt(n, r)
  PROVE  Accounts
<1>1. PICK required \in CurveCharges(n, r) :
        /\ totalPt' = totalPt - n
        /\ AccrueProtocolFee(totalSy + required, FeeFromCharge(required))
        /\ PoolMoves(-n, required, 0)
  BY DEF SwapSyForPt
<1>2. n > 0 /\ n < totalPt /\ totalPt \in Nat /\ totalSy \in Nat
  BY DEF SwapSyForPt, TypeOK
<1>3. required \in Nat \ {0}
  BY <1>1, ChargesType
<1>4. FeeFromCharge(required) \in Nat
  <2>1. BPS_DENOMINATOR + FeeBps \in Nat \ {0}
    OBVIOUS
  <2> QED
    BY <1>3, <2>1, FloorBound DEF FeeFromCharge
<1>5. totalSy + required \in Nat \ {0}
  BY <1>2, <1>3
<1>6. PICK taken \in Nat : /\ taken < totalSy + required
                           /\ totalSy' = (totalSy + required) - taken
                           /\ accrued' = accrued + taken
  <2> DEFINE sy == totalSy + required
             fee == FeeFromCharge(required)
  <2>1. sy \in Nat \ {0} /\ fee \in Nat /\ AccrueProtocolFee(sy, fee)
    BY <1>1, <1>4, <1>5
  <2> HIDE DEF sy, fee
  <2>2. \E taken \in Nat : taken < sy /\ totalSy' = sy - taken /\ accrued' = accrued + taken
    BY <2>1, AccrueFacts
  <2> QED
    BY <2>2 DEF sy
<1>7. totalPt' = totalPt + (-n) /\ totalPt + (-n) > 0 /\ -n \in Int /\ totalSy + required > taken
  BY <1>1, <1>2, <1>3, <1>6
<1> QED
  BY <1>1, <1>3, <1>6, <1>7, Together

\* A flash split does: what it mints beyond the YT stays on both sides.
LEMMA SwapSyForYtAccounts ==
  ASSUME TypeOK, NEW n \in Nat, NEW r \in Rates, SwapSyForYt(n, r)
  PROVE  Accounts
<1> DEFINE toSplit == MulDivCeil(n, WAD, r)
           minted == MulDivFloor(toSplit, r, WAD)
<1>1. toSplit \in Nat
  BY CeilBound
<1>2. minted \in Nat
  BY <1>1, FloorBound
<1> HIDE DEF toSplit, minted
<1>3. PICK funded \in CurvePays(n, r) :
        /\ totalPt' = totalPt + n + (minted - n)
        /\ totalSy' = totalSy - funded
        /\ PoolMoves(minted, (toSplit - funded) - toSplit, minted - n)
  BY DEF SwapSyForYt, toSplit, minted
<1>4. totalPt \in Nat /\ totalPt > 0 /\ totalSy \in Nat /\ accrued' = accrued
  BY DEF SwapSyForYt, Tradeable, TypeOK, feeVars
<1>5. funded \in Nat /\ funded < totalSy
  BY FloorBound DEF CurvePays
<1> DEFINE sy == (toSplit - funded) - toSplit
<1>6. sy \in Int /\ minted - n \in Int /\ totalSy - funded = totalSy + sy /\ n + (minted - n) = minted
  BY <1>1, <1>2, <1>4, <1>5
<1>7. totalPt' = totalPt + minted /\ totalPt + minted > 0
  BY <1>2, <1>3, <1>4
<1>8. totalSy' = (totalSy + sy) - 0 /\ totalSy + sy > 0 /\ accrued' = accrued + 0
  BY <1>1, <1>3, <1>4, <1>5 DEF TypeOK
<1>9. PoolMoves(minted, sy, minted - n)
  BY <1>3
<1> HIDE DEF sy
<1> QED
  BY <1>2, <1>6, <1>7, <1>8, <1>9, Together

\* A flash recombine does: what it brings beyond the quote is booked.
LEMMA SwapYtForSyAccounts ==
  ASSUME TypeOK, NEW n \in Nat, NEW r \in Rates, SwapYtForSy(n, r)
  PROVE  Accounts
<1> DEFINE value == MulDivFloor(n, WAD, r)
<1>1. value \in Nat
  BY FloorBound
<1> HIDE DEF value
<1>2. PICK cost \in CurveCharges(n, r), received \in Recombined(n, r) :
        /\ received >= value
        /\ totalPt' = totalPt - n
        /\ totalSy' = totalSy + cost + (received - value)
        /\ PoolMoves(-n, received - (value - cost), 0)
  BY DEF SwapYtForSy, value
<1>3. n > 0 /\ n < totalPt /\ totalPt \in Nat /\ totalSy \in Nat /\ accrued' = accrued
  BY DEF SwapYtForSy, TypeOK, feeVars
<1>4. cost \in Nat \ {0} /\ received \in Nat
  BY <1>1, ChargesType DEF Recombined, value
<1> DEFINE sy == received - (value - cost)
<1>5. sy \in Int /\ -n \in Int /\ cost + (received - value) = sy
  BY <1>1, <1>4
<1>6. totalPt' = totalPt + (-n) /\ totalPt + (-n) > 0
  BY <1>2, <1>3
<1>7. totalSy' = (totalSy + sy) - 0 /\ totalSy + sy > 0 /\ accrued' = accrued + 0
  BY <1>1, <1>2, <1>3, <1>4 DEF TypeOK
<1>8. PoolMoves(-n, sy, 0)
  BY <1>2
<1> HIDE DEF sy
<1> QED
  BY <1>5, <1>6, <1>7, <1>8, Together

-----------------------------------------------------------------------------
(***************************************************************************)
(* Liquidity: the same accounts, and the shares they are held by.           *)
(***************************************************************************)
Shares == totalLp' \in Nat \ {0} /\ lp' \in [Holders -> Nat]

\* The first deposit does, reserves that it overwrites being nothing.
LEMMA SeedAccounts ==
  ASSUME IInv, NEW h \in Holders, NEW pt \in Nat, NEW sy \in Nat, Seed(h, pt, sy)
  PROVE  Accounts /\ Shares
<1>1. PICK gross \in 1 .. pt * sy :
        /\ gross > MINIMUM_LIQUIDITY
        /\ totalLp' = gross
        /\ lp' = [lp EXCEPT ![h] = @ + gross - MINIMUM_LIQUIDITY]
  BY DEF Seed
<1>2. pt > 0 /\ sy > 0 /\ totalPt' = pt /\ totalSy' = sy /\ accrued' = accrued /\ PoolMoves(pt, sy, 0)
  BY DEF Seed, feeVars
<1>3. totalPt = 0 /\ totalSy = 0 /\ accrued \in Nat /\ lp \in [Holders -> Nat] /\ TypeOK
  BY DEF Seed, IInv, EmptyUntilSeeded, TypeOK
<1>4. Accounts
  <2>1. totalPt' = totalPt + pt /\ totalSy' = (totalSy + sy) - 0 /\ accrued' = accrued + 0
    BY <1>2, <1>3
  <2>2. totalPt + pt > 0 /\ totalSy + sy > 0
    BY <1>2, <1>3
  <2> QED
    BY <1>2, <1>3, <2>1, <2>2, Together
<1>5. gross \in Nat \ {0} /\ lp[h] + gross - MINIMUM_LIQUIDITY \in Nat
  <2>1. gross \in Nat \ {0} /\ lp[h] \in Nat
    BY <1>1, <1>3
  <2> QED
    BY <1>1, <2>1
<1>6. Shares
  BY <1>1, <1>3, <1>5 DEF Shares
<1> QED
  BY <1>4, <1>6

\* A later deposit does, and brings at least what its shares are of each side.
LEMMA JoinAccounts ==
  ASSUME TypeOK, NEW h \in Holders, NEW pt \in Nat, NEW sy \in Nat, Join(h, pt, sy)
  PROVE  /\ Accounts /\ Shares
         /\ totalPt' * totalLp >= totalPt * totalLp'
         /\ totalSy' * totalLp >= totalSy * totalLp'
<1> DEFINE minted == Smaller(MulDivFloor(pt, totalLp, totalPt), MulDivFloor(sy, totalLp, totalSy))
           ptUsed == Used(totalPt, minted)
           syUsed == Used(totalSy, minted)
<1>1. /\ totalPt \in Nat \ {0} /\ totalSy \in Nat \ {0} /\ totalLp \in Nat \ {0}
      /\ lp \in [Holders -> Nat]
  BY DEF Join, TypeOK
<1>2. minted \in Nat \ {0}
  <2>1. MulDivFloor(pt, totalLp, totalPt) \in Nat /\ MulDivFloor(sy, totalLp, totalSy) \in Nat
    BY <1>1, FloorBound
  <2>2. minted > 0
    BY DEF Join
  <2> QED
    BY <2>1, <2>2 DEF Smaller
<1>3. /\ totalPt' = totalPt + ptUsed /\ totalSy' = totalSy + syUsed
      /\ totalLp' = totalLp + minted
      /\ lp' = [lp EXCEPT ![h] = @ + minted]
      /\ PoolMoves(ptUsed, syUsed, 0)
      /\ accrued' = accrued
  BY DEF Join, feeVars
<1> HIDE DEF minted
<1>4. /\ ptUsed \in Nat /\ ptUsed * totalLp >= totalPt * minted
      /\ syUsed \in Nat /\ syUsed * totalLp >= totalSy * minted
  BY <1>1, <1>2, CeilBound DEF Used
<1> HIDE DEF ptUsed, syUsed
<1>5. Accounts
  <2>1. totalSy' = (totalSy + syUsed) - 0 /\ accrued' = accrued + 0
    BY <1>1, <1>3, <1>4 DEF TypeOK
  <2>2. totalPt + ptUsed > 0 /\ totalSy + syUsed > 0
    BY <1>1, <1>4
  <2> QED
    BY <1>3, <1>4, <2>1, <2>2, Together
<1>6. Shares
  BY <1>1, <1>2, <1>3 DEF Shares
<1>7. totalPt' * totalLp >= totalPt * totalLp'
  <2>1. (totalPt + ptUsed) * totalLp = totalPt * totalLp + ptUsed * totalLp
    BY <1>1, <1>4
  <2>2. totalPt * (totalLp + minted) = totalPt * totalLp + totalPt * minted
    BY <1>1, <1>2
  <2>3. /\ totalPt * totalLp \in Nat /\ ptUsed * totalLp \in Nat /\ totalPt * minted \in Nat
    BY <1>1, <1>2, <1>4
  <2> QED
    BY <1>3, <1>4, <2>1, <2>2, <2>3
<1>8. totalSy' * totalLp >= totalSy * totalLp'
  <2>1. (totalSy + syUsed) * totalLp = totalSy * totalLp + syUsed * totalLp
    BY <1>1, <1>4
  <2>2. totalSy * (totalLp + minted) = totalSy * totalLp + totalSy * minted
    BY <1>1, <1>2
  <2>3. /\ totalSy * totalLp \in Nat /\ syUsed * totalLp \in Nat /\ totalSy * minted \in Nat
    BY <1>1, <1>2, <1>4
  <2> QED
    BY <1>3, <1>4, <2>1, <2>2, <2>3
<1> QED
  BY <1>5, <1>6, <1>7, <1>8

\* An exit does, and takes at most what its shares are of each side.
LEMMA RemoveAccounts ==
  ASSUME TypeOK, NEW h \in Holders, NEW n \in Nat, RemoveLiquidity(h, n)
  PROVE  /\ Accounts /\ Shares
         /\ totalPt' * totalLp >= totalPt * totalLp'
         /\ totalSy' * totalLp >= totalSy * totalLp'
<1> DEFINE ptOut == Slice(totalPt, n)
           syOut == Slice(totalSy, n)
<1>1. /\ totalPt \in Nat \ {0} /\ totalSy \in Nat \ {0} /\ totalLp \in Nat \ {0}
      /\ lp \in [Holders -> Nat] /\ n <= lp[h] /\ n < totalLp
  BY DEF RemoveLiquidity, TypeOK
<1>2. /\ totalPt' = totalPt - ptOut /\ totalSy' = totalSy - syOut
      /\ totalLp' = totalLp - n
      /\ lp' = [lp EXCEPT ![h] = @ - n]
      /\ PoolMoves(-ptOut, -syOut, 0)
      /\ accrued' = accrued
  BY DEF RemoveLiquidity, feeVars
<1>3. /\ ptOut \in Nat /\ ptOut < totalPt /\ syOut \in Nat /\ syOut < totalSy
  BY <1>1, SliceBelow DEF Slice
<1>4. ptOut * totalLp <= n * totalPt /\ syOut * totalLp <= n * totalSy
  BY <1>1, FloorBound DEF Slice
<1> HIDE DEF ptOut, syOut
<1>5. Accounts
  <2>1. /\ totalPt' = totalPt + (-ptOut) /\ totalPt + (-ptOut) > 0 /\ -ptOut \in Int
        /\ totalSy + (-syOut) > 0 /\ -syOut \in Int
    BY <1>1, <1>2, <1>3
  <2>2. totalSy' = (totalSy + (-syOut)) - 0 /\ accrued' = accrued + 0
    BY <1>1, <1>2, <1>3 DEF TypeOK
  <2> QED
    BY <1>2, <2>1, <2>2, Together
<1>6. Shares
  <2>1. lp[h] - n \in Nat /\ totalLp - n \in Nat \ {0}
    BY <1>1
  <2> QED
    BY <1>1, <1>2, <2>1 DEF Shares
<1>7. totalPt' * totalLp >= totalPt * totalLp'
  <2>1. (totalPt - ptOut) * totalLp = totalPt * totalLp - ptOut * totalLp
    BY <1>1, <1>3
  <2>2. totalPt * (totalLp - n) = totalPt * totalLp - n * totalPt
    BY <1>1
  <2>3. totalPt * totalLp \in Nat /\ ptOut * totalLp \in Nat /\ n * totalPt \in Nat
    BY <1>1, <1>3
  <2> QED
    BY <1>2, <1>4, <2>1, <2>2, <2>3
<1>8. totalSy' * totalLp >= totalSy * totalLp'
  <2>1. (totalSy - syOut) * totalLp = totalSy * totalLp - syOut * totalLp
    BY <1>1, <1>3
  <2>2. totalSy * (totalLp - n) = totalSy * totalLp - n * totalSy
    BY <1>1
  <2>3. totalSy * totalLp \in Nat /\ syOut * totalLp \in Nat /\ n * totalSy \in Nat
    BY <1>1, <1>3
  <2> QED
    BY <1>2, <1>4, <2>1, <2>2, <2>3
<1> QED
  BY <1>5, <1>6, <1>7, <1>8

-----------------------------------------------------------------------------
(***************************************************************************)
(* Steps.                                                                  *)
(***************************************************************************)
Swaps == \E n \in Amounts, r \in Rates : Swap(n, r)

Provide == \E h \in Holders :
             \/ \E pt \in Amounts, sy \in Amounts : AddLiquidity(h, pt, sy)
             \/ \E n \in 1 .. totalLp : RemoveLiquidity(h, n)

Administer == \/ RenounceAdmin \/ Mature
              \/ \E b \in BOOLEAN : SetPaused(b)
              \/ \E share \in 0 .. MaxFeeShare, t \in Treasuries : SetProtocolFee(share, t)

Receive == \/ SweepYt
           \/ \E n \in Amounts : Donate(n, 0, 0) \/ Donate(0, n, 0) \/ Donate(0, 0, n)

\* A trade happens in a seeded market, and leaves the LP shares alone.
LEMMA TradeKeeps ==
  ASSUME IInv, Swaps
  PROVE  /\ Accounts /\ totalLp > 0
         /\ UNCHANGED <<totalLp, lp, feeShare, treasury, gateVars>>
<1>1. PICK n \in Amounts, r \in Rates :
        SwapPtForSy(n, r) \/ SwapSyForPt(n, r) \/ SwapSyForYt(n, r) \/ SwapYtForSy(n, r)
  BY DEF Swaps, Swap
<1>2. n \in Nat /\ TypeOK
  BY DEF IInv
<1>3. Accounts
  BY <1>1, <1>2, SwapPtForSyAccounts, SwapSyForPtAccounts, SwapSyForYtAccounts, SwapYtForSyAccounts
<1>4. totalLp > 0 /\ UNCHANGED <<totalLp, lp, feeShare, treasury, gateVars>>
  BY <1>1 DEF SwapPtForSy, SwapSyForPt, SwapSyForYt, SwapYtForSy, Tradeable, feeVars
<1> QED
  BY <1>3, <1>4

\* Joining and leaving touch neither fees nor gates, and dilute nobody.
LEMMA ProvideKeeps ==
  ASSUME IInv, Provide
  PROVE  /\ Accounts /\ Shares /\ UNCHANGED <<feeVars, gateVars>>
         /\ totalLp > 0 => /\ totalPt' * totalLp >= totalPt * totalLp'
                          /\ totalSy' * totalLp >= totalSy * totalLp'
<1>1. TypeOK
  BY DEF IInv
<1>2. ASSUME NEW h \in Holders, NEW pt \in Amounts, NEW sy \in Amounts, Seed(h, pt, sy)
      PROVE  Accounts /\ Shares /\ UNCHANGED <<feeVars, gateVars>> /\ ~(totalLp > 0)
  <2>1. UNCHANGED <<feeVars, gateVars>> /\ ~(totalLp > 0)
    BY <1>2 DEF Seed
  <2> QED
    BY <1>2, <2>1, SeedAccounts
<1>3. ASSUME NEW h \in Holders, NEW pt \in Amounts, NEW sy \in Amounts, Join(h, pt, sy)
      PROVE  /\ Accounts /\ Shares /\ UNCHANGED <<feeVars, gateVars>>
             /\ totalPt' * totalLp >= totalPt * totalLp'
             /\ totalSy' * totalLp >= totalSy * totalLp'
  <2>1. UNCHANGED <<feeVars, gateVars>>
    BY <1>3 DEF Join
  <2> QED
    BY <1>1, <1>3, <2>1, JoinAccounts
<1>4. ASSUME NEW h \in Holders, NEW n \in 1 .. totalLp, RemoveLiquidity(h, n)
      PROVE  /\ Accounts /\ Shares /\ UNCHANGED <<feeVars, gateVars>>
             /\ totalPt' * totalLp >= totalPt * totalLp'
             /\ totalSy' * totalLp >= totalSy * totalLp'
  <2>1. UNCHANGED <<feeVars, gateVars>>
    BY <1>4 DEF RemoveLiquidity
  <2>2. n \in Nat
    BY <1>1 DEF TypeOK
  <2> QED
    BY <1>1, <1>4, <2>1, <2>2, RemoveAccounts
<1> QED
  BY <1>2, <1>3, <1>4 DEF Provide, AddLiquidity

\* Administration moves no tokens and no accounts.
LEMMA AdministerKeeps ==
  ASSUME IInv, Administer
  PROVE  /\ UNCHANGED <<reserveVars, accrued, custodyVars>>
         /\ feeShare' \in 0 .. MaxFeeShare /\ treasury' \in Treasuries \cup {None}
         /\ paused' \in BOOLEAN /\ renounced' \in BOOLEAN /\ matured' \in BOOLEAN
<1>1. /\ feeShare \in 0 .. MaxFeeShare /\ treasury \in Treasuries \cup {None}
      /\ paused \in BOOLEAN /\ renounced \in BOOLEAN /\ matured \in BOOLEAN
  BY DEF IInv, TypeOK
<1>2. CASE RenounceAdmin
  BY <1>1, <1>2, Zenon DEF RenounceAdmin, feeVars
<1>3. CASE Mature
  BY <1>1, <1>3, Zenon DEF Mature, feeVars
<1>4. CASE \E b \in BOOLEAN : SetPaused(b)
  BY <1>1, <1>4, Zenon DEF SetPaused, feeVars
<1>5. CASE \E share \in 0 .. MaxFeeShare, t \in Treasuries : SetProtocolFee(share, t)
  BY <1>1, <1>5, Zenon DEF SetProtocolFee, gateVars
<1> QED
  BY <1>2, <1>3, <1>4, <1>5 DEF Administer

\* Donations and sweeps of YT move no accounts, and no PT or SY out.
LEMMA ReceiveKeeps ==
  ASSUME IInv, Receive
  PROVE  /\ UNCHANGED <<reserveVars, feeVars, gateVars>>
         /\ custodyPt' \in Nat /\ custodySy' \in Nat /\ custodyYt' \in Nat
         /\ custodyPt' >= custodyPt /\ custodySy' >= custodySy
<1>1. custodyPt \in Nat /\ custodySy \in Nat /\ custodyYt \in Nat /\ TypeOK
  BY DEF IInv, TypeOK
<1>2. CASE SweepYt
  <2>1. PoolMoves(0, 0, -custodyYt) /\ -custodyYt \in Int
    BY <1>1, <1>2 DEF SweepYt
  <2> QED
    BY <1>1, <1>2, <2>1, PoolMovesType DEF SweepYt
<1>3. ASSUME NEW n \in Amounts, Donate(n, 0, 0) \/ Donate(0, n, 0) \/ Donate(0, 0, n)
      PROVE  /\ UNCHANGED <<reserveVars, feeVars, gateVars>>
             /\ custodyPt' \in Nat /\ custodySy' \in Nat /\ custodyYt' \in Nat
             /\ custodyPt' >= custodyPt /\ custodySy' >= custodySy
  <2>1. n \in Nat
    OBVIOUS
  <2>2. UNCHANGED <<reserveVars, feeVars, gateVars>>
    BY <1>3 DEF Donate
  <2> QED
    BY <1>1, <1>3, <2>1, <2>2, PoolMovesType DEF Donate
<1> QED
  BY <1>2, <1>3 DEF Receive

\* Withdrawing pays out the fees set aside and leaves the reserves alone.
LEMMA WithdrawKeeps ==
  ASSUME IInv, WithdrawProtocolFees
  PROVE  /\ UNCHANGED <<reserveVars, feeShare, treasury, gateVars>>
         /\ accrued' = 0
         /\ custodyPt' \in Nat /\ custodySy' \in Nat /\ custodyYt' \in Nat
         /\ custodyPt' = custodyPt /\ custodySy' = custodySy - accrued
<1>1. /\ PoolMoves(0, -accrued, 0) /\ -accrued \in Int /\ TypeOK
  BY DEF IInv, TypeOK, WithdrawProtocolFees
<1>2. /\ custodyPt' \in Nat /\ custodySy' \in Nat /\ custodyYt' \in Nat
      /\ custodyPt' = custodyPt + 0 /\ custodySy' = custodySy + (-accrued)
  BY <1>1, PoolMovesType
<1>3. custodyPt' = custodyPt /\ custodySy' = custodySy - accrued
  BY <1>1, <1>2 DEF TypeOK
<1>4. UNCHANGED <<reserveVars, feeShare, treasury, gateVars>> /\ accrued' = 0
  BY DEF WithdrawProtocolFees
<1> QED
  BY <1>2, <1>3, <1>4

\* Every way the market can move.
LEMMA NextCases ==
  ASSUME [Next]_vars
  PROVE  Swaps \/ Provide \/ Administer \/ Receive \/ WithdrawProtocolFees \/ UNCHANGED vars
  BY DEF Next, Swaps, Provide, Administer, Receive

\* What the contract holds beyond its accounts moves only when nothing accounted
\* for does.
LEMMA Untracked ==
  ASSUME IInv, [Next]_vars
  PROVE  \/ UntrackedPt' = UntrackedPt /\ UntrackedSy' = UntrackedSy
         \/ UNCHANGED <<reserveVars, feeVars>> /\ UntrackedPt' >= UntrackedPt /\ UntrackedSy' >= UntrackedSy
<1>1. /\ totalPt \in Nat /\ totalSy \in Nat /\ accrued \in Nat
      /\ custodyPt \in Nat /\ custodySy \in Nat
  BY DEF IInv, TypeOK
<1>2. CASE Swaps \/ Provide
  BY <1>2, TradeKeeps, ProvideKeeps DEF Accounts, UntrackedPt, UntrackedSy
<1>3. CASE Administer
  BY <1>3, AdministerKeeps DEF reserveVars, custodyVars, UntrackedPt, UntrackedSy
<1>4. CASE Receive
  <2>1. /\ UNCHANGED <<reserveVars, feeVars>>
        /\ totalPt' = totalPt /\ totalSy' = totalSy /\ accrued' = accrued
        /\ custodyPt' \in Nat /\ custodySy' \in Nat
        /\ custodyPt' >= custodyPt /\ custodySy' >= custodySy
    BY <1>4, ReceiveKeeps DEF reserveVars, feeVars
  <2>2. PICK cp \in Nat, cs \in Nat : custodyPt' = cp /\ custodySy' = cs
    BY <2>1
  <2>3. cp >= custodyPt /\ cs >= custodySy
    BY <2>1, <2>2
  <2>4. UntrackedPt' = cp - totalPt /\ UntrackedSy' = cs - (totalSy + accrued)
    BY <2>1, <2>2 DEF UntrackedPt, UntrackedSy
  <2>5. UntrackedPt' >= UntrackedPt /\ UntrackedSy' >= UntrackedSy
    BY <1>1, <2>3, <2>4 DEF UntrackedPt, UntrackedSy
  <2> QED
    BY <2>1, <2>5
<1>5. CASE WithdrawProtocolFees
  <2>1. /\ totalPt' = totalPt /\ totalSy' = totalSy /\ accrued' = 0
        /\ custodyPt' = custodyPt /\ custodySy' = custodySy - accrued
    BY <1>5, WithdrawKeeps DEF reserveVars
  <2> QED
    BY <1>1, <2>1 DEF UntrackedPt, UntrackedSy
<1>6. CASE UNCHANGED vars
  BY <1>6 DEF vars, reserveVars, feeVars, custodyVars, UntrackedPt, UntrackedSy
<1> QED
  BY <1>2, <1>3, <1>4, <1>5, <1>6, NextCases

\* The invariant is inductive.
LEMMA StepInv == IInv /\ [Next]_vars => IInv'
<1> SUFFICES ASSUME IInv, [Next]_vars PROVE IInv'
  OBVIOUS
<1>1. /\ totalPt \in Nat /\ totalSy \in Nat /\ totalLp \in Nat /\ lp \in [Holders -> Nat]
      /\ accrued \in Nat /\ feeShare \in 0 .. MaxFeeShare /\ treasury \in Treasuries \cup {None}
      /\ paused \in BOOLEAN /\ renounced \in BOOLEAN /\ matured \in BOOLEAN
      /\ custodyPt \in Nat /\ custodySy \in Nat /\ custodyYt \in Nat
  BY DEF IInv, TypeOK
<1>2. StaysSeeded /\ EmptyUntilSeeded
  BY DEF IInv
<1>3. TypeOK'
  <2>1. CASE Swaps
    BY <1>1, <2>1, TradeKeeps, Zenon DEF Accounts, TypeOK, gateVars
  <2>2. CASE Provide
    BY <1>1, <2>2, ProvideKeeps, Zenon DEF Accounts, Shares, TypeOK, feeVars, gateVars
  <2>3. CASE Administer
    BY <1>1, <2>3, AdministerKeeps, Zenon DEF TypeOK, reserveVars, custodyVars
  <2>4. CASE Receive
    BY <1>1, <2>4, ReceiveKeeps, Zenon DEF TypeOK, reserveVars, feeVars, gateVars
  <2>5. CASE WithdrawProtocolFees
    <3>1. accrued' \in Nat
      BY <2>5, WithdrawKeeps
    <3> QED
      BY <1>1, <2>5, <3>1, WithdrawKeeps, Zenon DEF TypeOK, reserveVars, gateVars
  <2>6. CASE UNCHANGED vars
    BY <1>1, <2>6, Zenon DEF TypeOK, vars, reserveVars, feeVars, gateVars, custodyVars
  <2> QED
    BY <2>1, <2>2, <2>3, <2>4, <2>5, <2>6, NextCases
<1>4. StaysSeeded' /\ EmptyUntilSeeded'
  <2>1. CASE Swaps
    <3>1. totalPt' \in Nat \ {0} /\ totalSy' \in Nat \ {0} /\ totalLp' = totalLp /\ totalLp > 0
      BY <2>1, TradeKeeps DEF Accounts
    <3> QED
      BY <1>1, <3>1 DEF StaysSeeded, EmptyUntilSeeded
  <2>2. CASE Provide
    <3>1. totalPt' \in Nat \ {0} /\ totalSy' \in Nat \ {0} /\ totalLp' \in Nat \ {0}
      BY <2>2, ProvideKeeps DEF Accounts, Shares
    <3> QED
      BY <3>1 DEF StaysSeeded, EmptyUntilSeeded
  <2>3. CASE Administer \/ Receive \/ WithdrawProtocolFees \/ UNCHANGED vars
    <3>1. totalPt' = totalPt /\ totalSy' = totalSy /\ totalLp' = totalLp
      BY <2>3, AdministerKeeps, ReceiveKeeps, WithdrawKeeps DEF vars, reserveVars
    <3> QED
      BY <1>2, <3>1 DEF StaysSeeded, EmptyUntilSeeded
  <2> QED
    BY <2>1, <2>2, <2>3, NextCases
<1>5. CustodyCoversReserves'
  <2>1. UntrackedPt \in Int /\ UntrackedSy \in Int /\ UntrackedPt >= 0 /\ UntrackedSy >= 0
    BY <1>1 DEF IInv, CustodyCoversReserves, UntrackedPt, UntrackedSy
  <2>2. UntrackedPt' \in Int /\ UntrackedSy' \in Int
    <3>1. PICK cp \in Nat, cs \in Nat, p \in Nat, s \in Nat, a \in Nat :
            /\ custodyPt' = cp /\ custodySy' = cs
            /\ totalPt' = p /\ totalSy' = s /\ accrued' = a
      BY <1>3 DEF TypeOK
    <3> QED
      BY <3>1 DEF UntrackedPt, UntrackedSy
  <2> QED
    BY <2>1, <2>2, Untracked DEF CustodyCoversReserves
<1> QED
  BY <1>3, <1>4, <1>5 DEF IInv

\* It holds of every state.
LEMMA Invariance == Spec => []IInv
  BY InitInv, StepInv, PTL DEF Spec

-----------------------------------------------------------------------------
(***************************************************************************)
(* Theorems.                                                               *)
(***************************************************************************)

\* The market's state keeps its types: no reserve, share or custody balance
\* ever goes below zero.
THEOREM TypeCorrect == Spec => []TypeOK
<1>1. IInv => TypeOK
  BY DEF IInv
<1> QED
  BY <1>1, Invariance, PTL

\* The contract always holds what its curve and its fee ledger count on.
THEOREM CustodyCovers == Spec => []CustodyCoversReserves
<1>1. IInv => CustodyCoversReserves
  BY DEF IInv
<1> QED
  BY <1>1, Invariance, PTL

\* A seeded market never loses a side, whatever the fee share.
THEOREM NeverUnseeded == Spec => []StaysSeeded
<1>1. IInv => StaysSeeded
  BY DEF IInv
<1> QED
  BY <1>1, Invariance, PTL

\* No operation pays a donation out or prices with it.
THEOREM DonationsAreInert == Spec => DonationsStayPut
<1>1. IInv /\ [Next]_vars
        => [<<UntrackedPt, UntrackedSy>>' # <<UntrackedPt, UntrackedSy>>
              => UNCHANGED <<reserveVars, feeVars>>]_vars
  BY Untracked
<1> QED
  BY <1>1, Invariance, PTL DEF Spec, DonationsStayPut

\* Neither joining nor leaving dilutes the other LPs, on either side.
THEOREM NoDilution == Spec => LiquidityNeverDilutes
<1>1. IInv /\ [Next]_vars
        => [totalLp > 0 /\ totalLp' # totalLp =>
              /\ totalPt' * totalLp >= totalPt * totalLp'
              /\ totalSy' * totalLp >= totalSy * totalLp']_vars
  <2> SUFFICES ASSUME IInv, [Next]_vars, totalLp > 0, totalLp' # totalLp
               PROVE  /\ totalPt' * totalLp >= totalPt * totalLp'
                      /\ totalSy' * totalLp >= totalSy * totalLp'
    OBVIOUS
  <2>1. CASE Provide
    BY <2>1, ProvideKeeps
  <2>2. CASE ~Provide
    BY <2>2, NextCases, TradeKeeps, AdministerKeeps, ReceiveKeeps, WithdrawKeeps DEF vars, reserveVars
  <2> QED
    BY <2>1, <2>2
<1> QED
  BY <1>1, Invariance, PTL DEF Spec, LiquidityNeverDilutes

-----------------------------------------------------------------------------
(***************************************************************************)
(* Exits.                                                                  *)
(***************************************************************************)

\* The shares of a seeded market are those of its LPs and the minimum that is nobody's.
LpAddsUp ==
  totalLp = SumOver(lp, Holders) + (IF totalLp = 0 THEN 0 ELSE MINIMUM_LIQUIDITY)

\* A deposit and an exit move the total as they move one LP's shares.
LEMMA ProvideAddsUp ==
  ASSUME IInv, LpAddsUp, Provide
  PROVE  LpAddsUp'
<1> DEFINE sum == SumOver(lp, Holders)
<1>1. /\ lp \in [Holders -> Nat] /\ lp \in [Holders -> Int] /\ IsFiniteSet(Holders)
      /\ totalLp \in Nat /\ TypeOK
  BY DEF IInv, TypeOK
<1>2. sum \in Nat
  BY <1>1, SumType
<1>3. totalLp' \in Nat \ {0}
  BY ProvideKeeps DEF Shares
<1>4. ASSUME NEW h \in Holders, NEW n \in Int, lp' = [lp EXCEPT ![h] = @ + n]
      PROVE  SumOver(lp', Holders) = sum + n
  <2>1. SumOver([lp EXCEPT ![h] = @ + n], Holders) = SumOver(lp, Holders) + n
    BY <1>1, TotalAfterCredit
  <2> QED BY <1>4, <2>1
<1> HIDE DEF sum
<1>5. ASSUME NEW h \in Holders, NEW pt \in Amounts, NEW sy \in Amounts, Seed(h, pt, sy)
      PROVE  LpAddsUp'
  <2>1. PICK gross \in 1 .. pt * sy : totalLp' = gross /\ lp' = [lp EXCEPT ![h] = @ + gross - MINIMUM_LIQUIDITY]
    BY <1>5 DEF Seed
  <2>2. totalLp = 0 /\ gross \in Int
    BY <1>5, <2>1 DEF Seed
  <2> DEFINE n == gross - MINIMUM_LIQUIDITY
  <2>3. n \in Int /\ lp' = [lp EXCEPT ![h] = @ + n]
    BY <1>1, <2>1, <2>2
  <2> HIDE DEF n
  <2>4. SumOver(lp', Holders) = sum + n
    BY <1>4, <2>3
  <2>5. sum = 0
    BY <1>2, <2>2 DEF LpAddsUp, sum
  <2> QED BY <1>3, <2>1, <2>2, <2>4, <2>5 DEF LpAddsUp, n
<1>6. ASSUME NEW h \in Holders, NEW pt \in Amounts, NEW sy \in Amounts, Join(h, pt, sy)
      PROVE  LpAddsUp'
  <2> DEFINE n == Smaller(MulDivFloor(pt, totalLp, totalPt), MulDivFloor(sy, totalLp, totalSy))
  <2>1. totalLp > 0 /\ totalLp' = totalLp + n /\ lp' = [lp EXCEPT ![h] = @ + n]
    BY <1>6 DEF Join
  <2>2. n \in Int
    <3>1. totalPt \in Nat \ {0} /\ totalSy \in Nat \ {0} /\ pt \in Nat /\ sy \in Nat
      BY <1>1, <1>6 DEF Join, TypeOK
    <3>2. MulDivFloor(pt, totalLp, totalPt) \in Nat /\ MulDivFloor(sy, totalLp, totalSy) \in Nat
      BY <1>1, <3>1, FloorBound
    <3> QED BY <3>2 DEF Smaller
  <2> HIDE DEF n
  <2>3. SumOver(lp', Holders) = sum + n
    BY <1>4, <2>1, <2>2
  <2> QED BY <1>1, <1>2, <1>3, <2>1, <2>2, <2>3 DEF LpAddsUp, sum
<1>7. ASSUME NEW h \in Holders, NEW n \in 1 .. totalLp, RemoveLiquidity(h, n)
      PROVE  LpAddsUp'
  <2>1. totalLp > 0 /\ totalLp' = totalLp - n /\ lp' = [lp EXCEPT ![h] = @ - n]
    BY <1>7 DEF RemoveLiquidity
  <2>2. n \in Int /\ lp[h] \in Int
    BY <1>1
  <2> DEFINE m == 0 - n
  <2>3. m \in Int /\ lp[h] - n = lp[h] + m
    BY <2>2
  <2> HIDE DEF m
  <2>4. SumOver(lp', Holders) = sum + m
    BY <1>4, <2>1, <2>3
  <2> QED BY <1>1, <1>2, <1>3, <2>1, <2>2, <2>4 DEF LpAddsUp, sum, m
<1> QED BY <1>5, <1>6, <1>7 DEF Provide, AddLiquidity

\* Nothing but joining and leaving touches the shares.
LEMMA StepAddsUp == IInv /\ LpAddsUp /\ [Next]_vars => LpAddsUp'
<1> SUFFICES ASSUME IInv, LpAddsUp, [Next]_vars PROVE LpAddsUp'
  OBVIOUS
<1>1. CASE Provide
  BY <1>1, ProvideAddsUp
<1>2. CASE ~Provide
  <2>1. totalLp' = totalLp /\ lp' = lp
    BY <1>2, NextCases, TradeKeeps, AdministerKeeps, ReceiveKeeps, WithdrawKeeps DEF vars, reserveVars
  <2> QED BY <2>1 DEF LpAddsUp
<1> QED BY <1>1, <1>2

\* The shares always add up.
LEMMA AddsUpAlways == Spec => []LpAddsUp
<1>1. Init => LpAddsUp
  <2> SUFFICES ASSUME Init PROVE LpAddsUp
    OBVIOUS
  <2>1. IsFiniteSet(Holders) /\ \A h \in Holders : lp[h] = 0
    BY DEF Init
  <2>2. SumOver(lp, Holders) = 0
    BY <2>1, TotalOfZeros
  <2> QED BY <2>2 DEF Init, LpAddsUp
<1> QED BY <1>1, StepAddsUp, Invariance, PTL DEF Spec

\* Whatever part of its position an LP takes out: the market is left with shares and with
\* something on both sides, and has custody of what it pays. What is left of the conditions
\* of remove_liquidity is that both sides of the part round to a unit, and the cap on the
\* call's argument.
ExitsAreCovered ==
  \A h \in Holders : \A n \in 1 .. lp[h] :
    /\ n < totalLp
    /\ Slice(totalPt, n) < totalPt /\ Slice(totalPt, n) <= custodyPt
    /\ Slice(totalSy, n) < totalSy /\ Slice(totalSy, n) <= custodySy - accrued

\* No order of trades, deposits, exits, fee cuts, withdrawals, sweeps and donations leaves
\* an LP's exit uncovered: the minimum nobody owns keeps every position below the total, and
\* custody covers the reserves beside the fees set aside.
THEOREM CoveredExits == Spec => []ExitsAreCovered
<1>1. IInv /\ LpAddsUp => ExitsAreCovered
  <2> SUFFICES ASSUME IInv, LpAddsUp, NEW h \in Holders, NEW n \in 1 .. lp[h]
               PROVE  /\ n < totalLp
                      /\ Slice(totalPt, n) < totalPt /\ Slice(totalPt, n) <= custodyPt
                      /\ Slice(totalSy, n) < totalSy /\ Slice(totalSy, n) <= custodySy - accrued
    BY DEF ExitsAreCovered
  <2>1. /\ lp \in [Holders -> Nat] /\ IsFiniteSet(Holders) /\ lp[h] \in Nat
        /\ totalPt \in Nat /\ totalSy \in Nat /\ totalLp \in Nat /\ accrued \in Nat
        /\ custodyPt \in Nat /\ custodySy \in Nat
    BY DEF IInv, TypeOK
  <2>2. n \in Nat /\ n > 0 /\ n <= lp[h]
    BY <2>1
  <2>3. lp[h] <= SumOver(lp, Holders) /\ SumOver(lp, Holders) \in Nat
    BY <2>1, SumBound, SumType
  <2>4. n < totalLp
    BY <2>1, <2>2, <2>3 DEF LpAddsUp
  <2>5. totalPt > 0 /\ totalSy > 0
    BY <2>1, <2>2, <2>4 DEF IInv, StaysSeeded
  <2>6. /\ Slice(totalPt, n) \in Nat /\ Slice(totalPt, n) < totalPt
        /\ Slice(totalSy, n) \in Nat /\ Slice(totalSy, n) < totalSy
    BY <2>1, <2>2, <2>4, <2>5, SliceBelow DEF Slice
  <2>7. totalPt <= custodyPt /\ totalSy + accrued <= custodySy
    BY <2>1 DEF IInv, CustodyCoversReserves, UntrackedPt, UntrackedSy
  <2> QED BY <2>1, <2>4, <2>6, <2>7
<1> QED BY <1>1, Invariance, AddsUpAlways, PTL

-----------------------------------------------------------------------------
(***************************************************************************)
(* The price record beside the market.                                     *)
(***************************************************************************)

\* Keeping the record changes nothing of what the market does: a step of the two is one
\* of the market, or none.
LEMMA MarketStep == [MarketNext]_marketVars => [Next]_vars
<1> SUFFICES ASSUME [MarketNext]_marketVars PROVE [Next]_vars
  OBVIOUS
<1>1. CASE Trade
  BY <1>1 DEF Trade, Next
<1>2. CASE Open
  BY <1>2 DEF Open, AddLiquidity, Next
<1>3. CASE Otherwise
  BY <1>3 DEF Otherwise, AddLiquidity, Next
<1>4. CASE Tick
  BY <1>4 DEF Tick, Next
<1>5. CASE UNCHANGED marketVars
  BY <1>5 DEF marketVars
<1> QED
  BY <1>1, <1>2, <1>3, <1>4, <1>5 DEF MarketNext

\* Every behaviour of the market with its price record is one of the market, so that every
\* theorem above holds of it.
THEOREM RecordIsInert == MarketSpec => Spec
<1>1. MarketInit => Init
  BY DEF MarketInit
<1> QED
  BY <1>1, MarketStep, PTL DEF MarketSpec, Spec

\* The market is seeded once: its shares never go back to none.
LEMMA StaysOpen ==
  ASSUME IInv, [Next]_vars, totalLp > 0
  PROVE  totalLp' > 0
<1>1. CASE Provide
  BY <1>1, ProvideKeeps DEF Shares
<1>2. CASE ~Provide
  <2>1. totalLp' = totalLp
    BY <1>2, NextCases, TradeKeeps, AdministerKeeps, ReceiveKeeps, WithdrawKeeps DEF vars, reserveVars
  <2> QED BY <2>1
<1> QED
  BY <1>1, <1>2

\* What does not trade or seed leaves an unseeded market unseeded.
LEMMA StaysUnopened ==
  ASSUME IInv, Otherwise, ~(totalLp > 0)
  PROVE  totalLp' = totalLp
<1>1. CASE WithdrawProtocolFees \/ SweepYt \/ RenounceAdmin \/ (\E b \in BOOLEAN : SetPaused(b))
  BY <1>1, Zenon DEF WithdrawProtocolFees, SweepYt, RenounceAdmin, SetPaused, reserveVars
<1>2. CASE \E share \in 0 .. MaxFeeShare, t \in Treasuries : SetProtocolFee(share, t)
  BY <1>2, Zenon DEF SetProtocolFee, reserveVars
<1>3. CASE \E n \in Amounts : Donate(n, 0, 0) \/ Donate(0, n, 0) \/ Donate(0, 0, n)
  BY <1>3, Zenon DEF Donate, reserveVars
<1>4. ASSUME NEW h \in Holders, NEW pt \in Amounts, NEW sy \in Amounts, Join(h, pt, sy)
      PROVE  FALSE
  BY <1>4 DEF Join
<1>5. ASSUME NEW h \in Holders, NEW n \in 1 .. totalLp, RemoveLiquidity(h, n)
      PROVE  FALSE
  BY <1>5 DEF RemoveLiquidity
<1> QED
  BY <1>1, <1>2, <1>3, <1>4, <1>5 DEF Otherwise

(***************************************************************************)
(* The arithmetic of a blend.                                              *)
(***************************************************************************)

\* A blend after less than a window gives the new rate a weight below one.
LEMMA WeightBelowOne ==
  ASSUME NEW elapsed \in 1 .. Window - 1
  PROVE  /\ MulDivFloor(elapsed, WAD, Window) \in Nat
         /\ MulDivFloor(elapsed, WAD, Window) <= WAD
<1> DEFINE w == MulDivFloor(elapsed, WAD, Window)
<1>1. elapsed \in Nat /\ w \in Nat /\ w * Window <= elapsed * WAD
  BY FloorBound
<1>2. elapsed * WAD <= Window * WAD
  BY <1>1, TimesMonotone
<1> HIDE DEF w
<1>3. w * Window <= WAD * Window
  <2>1. Window * WAD = WAD * Window /\ w * Window \in Nat /\ elapsed * WAD \in Nat /\ WAD * Window \in Nat
    BY <1>1
  <2> QED BY <1>1, <1>2, <2>1
<1>4. w <= WAD
  BY <1>1, <1>3, TimesCancels
<1> QED
  BY <1>1, <1>4 DEF w

\* A blend is never above both rates it blends.
LEMMA BlendBelow ==
  ASSUME NEW old \in Nat, NEW new \in Nat, NEW elapsed \in 1 .. Window - 1,
         NEW top \in Nat, old <= top, new <= top
  PROVE  Blend(old, new, elapsed) \in Nat /\ Blend(old, new, elapsed) <= top
<1> DEFINE w == MulDivFloor(elapsed, WAD, Window)
           kept == MulDivFloor(old, WAD - w, WAD)
           taken == MulDivFloor(new, w, WAD)
<1>1. w \in Nat /\ WAD - w \in Nat
  BY WeightBelowOne
<1> HIDE DEF w
<1>2. kept \in Nat /\ kept * WAD <= old * (WAD - w)
  BY <1>1, FloorBound
<1>3. taken \in Nat /\ taken * WAD <= new * w
  BY <1>1, FloorBound
<1> HIDE DEF kept, taken
<1>4. old * (WAD - w) <= top * (WAD - w) /\ new * w <= top * w
  BY <1>1, TimesMonotone
<1>5. (kept + taken) * WAD <= top * WAD
  <2>1. top * (WAD - w) = top * WAD - top * w
    BY <1>1
  <2>2. (kept + taken) * WAD = kept * WAD + taken * WAD
    BY <1>2, <1>3
  <2>3. /\ top * WAD \in Nat /\ top * w \in Nat /\ old * (WAD - w) \in Nat /\ new * w \in Nat
        /\ kept * WAD \in Nat /\ taken * WAD \in Nat
    BY <1>1, <1>2, <1>3
  <2> QED BY <1>2, <1>3, <1>4, <2>1, <2>2, <2>3
<1>6. kept + taken <= top
  BY <1>2, <1>3, <1>5, TimesCancels
<1>7. Blend(old, new, elapsed) = kept + taken
  BY DEF Blend, kept, taken, w
<1> QED
  BY <1>2, <1>3, <1>6, <1>7

\* In a window that is short beside the unit of the rates, the weight of even one second is
\* worth more of the drift than a blend rounds off.
LEMMA DriftPays ==
  ASSUME Window * (Window + 1) <= WAD, NEW elapsed \in 1 .. Window - 1
  PROVE  2 * WAD <= Drift * MulDivFloor(elapsed, WAD, Window)
<1> DEFINE w == MulDivFloor(elapsed, WAD, Window)
           p == w * Window
<1>1. elapsed \in Nat /\ w \in Nat /\ elapsed * WAD < w * Window + Window
  BY FloorBound, FloorTight
<1> HIDE DEF w
<1>2. WAD <= elapsed * WAD
  <2>1. 1 * WAD <= elapsed * WAD
    BY <1>1, TimesMonotone
  <2> QED BY <2>1
<1>3. p \in Nat /\ elapsed * WAD \in Nat
  BY <1>1
<1>4. WAD < p + Window
  BY <1>1, <1>2, <1>3
<1>5. Window <= w
  <2>1. Window * (Window + 1) = Window * Window + Window /\ Window * Window \in Nat
    OBVIOUS
  <2>2. Window * Window <= w * Window
    BY <1>1, <1>3, <1>4, <2>1
  <2> QED BY <1>1, <2>2, TimesCancels
<1>6. Drift * w = 2 * p + 2 * w
  BY <1>1 DEF Drift
<1> HIDE DEF p
<1>7. 2 * WAD <= 2 * p + 2 * w
  BY <1>1, <1>3, <1>4, <1>5
<1> QED
  BY <1>6, <1>7 DEF w

\* An average that is below `low` by no more than the drift, blended with a rate that is not
\* below it at all, stays so: what the blends round off does not add up.
LEMMA BlendAbove ==
  ASSUME Window * (Window + 1) <= WAD,
         NEW old \in Nat, NEW new \in Nat, NEW elapsed \in 1 .. Window - 1,
         NEW low \in Nat, low <= old + Drift, low <= new
  PROVE  low <= Blend(old, new, elapsed) + Drift
<1> DEFINE w == MulDivFloor(elapsed, WAD, Window)
           kept == MulDivFloor(old, WAD - w, WAD)
           taken == MulDivFloor(new, w, WAD)
<1>1. w \in Nat /\ WAD - w \in Nat /\ 2 * WAD <= Drift * w
  BY WeightBelowOne, DriftPays
<1> HIDE DEF w
<1>2. kept \in Nat /\ old * (WAD - w) < kept * WAD + WAD
  BY <1>1, FloorBound, FloorTight
<1>3. taken \in Nat /\ new * w < taken * WAD + WAD
  BY <1>1, FloorBound, FloorTight
<1> HIDE DEF kept, taken
<1>4. Drift \in Nat /\ low - Drift \in Int /\ low - Drift <= old
  BY DEF Drift
<1>5. (low - Drift) * (WAD - w) <= old * (WAD - w) /\ low * w <= new * w
  BY <1>1, <1>4, TimesMonotone
<1>6. low * WAD <= (kept + taken + Drift) * WAD
  <2>1. (low - Drift) * (WAD - w) = low * WAD - low * w - Drift * WAD + Drift * w
    BY <1>1, <1>4
  <2>2. (kept + taken + Drift) * WAD = kept * WAD + taken * WAD + Drift * WAD
    BY <1>2, <1>3, <1>4
  <2> DEFINE lu == low * WAD
             lw == low * w
             du == Drift * WAD
             dw == Drift * w
             ow == old * (WAD - w)
             nw == new * w
             ku == kept * WAD
             tu == taken * WAD
  <2>3. /\ lu \in Nat /\ lw \in Nat /\ du \in Nat /\ dw \in Nat
        /\ ow \in Nat /\ nw \in Nat /\ ku \in Nat /\ tu \in Nat
    BY <1>1, <1>2, <1>3, <1>4
  <2>4. lu - lw - du + dw <= ow /\ lw <= nw
    BY <1>5, <2>1
  <2>5. ow < ku + WAD /\ nw < tu + WAD /\ 2 * WAD <= dw
    BY <1>1, <1>2, <1>3
  <2> HIDE DEF lu, lw, du, dw, ow, nw, ku, tu
  <2>6. lu <= ku + tu + du
    BY <2>3, <2>4, <2>5
  <2> QED BY <2>2, <2>6 DEF lu, ku, tu, du
<1>7. low <= kept + taken + Drift
  BY <1>2, <1>3, <1>4, <1>6, TimesCancels
<1>8. Blend(old, new, elapsed) = kept + taken
  BY DEF Blend, kept, taken, w
<1> QED
  BY <1>7, <1>8

(***************************************************************************)
(* The invariant of the record.                                            *)
(***************************************************************************)
RecordTypes ==
  /\ now \in Nat /\ lastObservation \in Nat /\ lastObservation <= now
  /\ twapLnRate \in Nat /\ warmupUntil \in Nat
  /\ observed \in SUBSET Nat

\* The rates are observed from the first deposit on, and what was observed in the present
\* ledger, by a deposit or a trade, has stamped the record.
Stamped ==
  /\ ~(totalLp > 0) => observedAt = None
  /\ observedAt # None =>
       /\ observedAt \in Nat /\ observedAt <= now
       /\ observedAt = now => lastObservation = now

\* The warm-up counts from the trade that made the average alone.
WarmsFromSnap ==
  decided # None =>
    /\ decided.at \in Nat
    /\ decided.by = "snap" => warmupUntil = decided.at + Window

RecordInv == RecordTypes /\ Stamped /\ WarmsFromSnap

\* What a trade does to the record, case by case of sync_twap.
LEMMA TradeRecords ==
  ASSUME RecordTypes, Trade
  PROVE  \E rate \in Nat :
           /\ observed' = observed \cup {rate} /\ observedAt' = now /\ now' = now
           /\ lastObservation' = now
           /\ \/ /\ lastObservation = now
                 /\ UNCHANGED <<twapLnRate, warmupUntil, decided>>
              \/ /\ twapLnRate' = rate /\ warmupUntil' = now + Window
                 /\ decided' = [at |-> now, by |-> "snap"]
              \/ /\ \E elapsed \in 1 .. Window - 1 : twapLnRate' = Blend(twapLnRate, rate, elapsed)
                 /\ UNCHANGED <<warmupUntil, decided>>
<1>1. PICK rate \in LnRates : Leaves(rate) /\ SyncTwap(rate)
  BY DEF Trade
<1>2. rate \in Nat
  OBVIOUS
<1>3. observed' = observed \cup {rate} /\ observedAt' = now /\ now' = now
  BY <1>1 DEF Leaves
<1> DEFINE elapsed == now - lastObservation
<1>4. CASE /\ elapsed = 0 /\ UNCHANGED <<twapLnRate, warmupUntil, lastObservation, decided>>
  <2>1. lastObservation = now
    BY <1>4 DEF RecordTypes
  <2> QED BY <1>2, <1>3, <1>4, <2>1
<1>5. CASE elapsed >= Window /\ Snap(rate) /\ lastObservation' = now
  BY <1>2, <1>3, <1>5 DEF Snap
<1>6. CASE /\ elapsed \in 1 .. Window - 1
           /\ twapLnRate' = Blend(twapLnRate, rate, elapsed)
           /\ lastObservation' = now
           /\ UNCHANGED <<warmupUntil, decided>>
  <2> HIDE DEF elapsed
  <2> QED BY <1>2, <1>3, <1>6
<1> QED
  BY <1>1, <1>4, <1>5, <1>6 DEF SyncTwap

\* What the first deposit does to it.
LEMMA OpenRecords ==
  ASSUME Open
  PROVE  /\ ~(totalLp > 0)
         /\ \E rate \in Nat : observed' = observed \cup {rate} /\ twapLnRate' = rate
         /\ observedAt' = now /\ now' = now /\ lastObservation' = now
         /\ decided' = [at |-> now, by |-> "deposit"] /\ warmupUntil' = warmupUntil
<1>1. ~(totalLp > 0)
  BY DEF Open, Seed
<1>2. PICK rate \in LnRates : Leaves(rate) /\ twapLnRate' = rate
  BY DEF Open
<1>3. rate \in Nat
  OBVIOUS
<1> QED
  BY <1>1, <1>2, <1>3 DEF Open, Leaves

\* The invariant of the record is inductive beside that of the market.
LEMMA RecordStep == IInv /\ RecordInv /\ [MarketNext]_marketVars => RecordInv'
<1> SUFFICES ASSUME IInv, RecordInv, [MarketNext]_marketVars PROVE RecordInv'
  OBVIOUS
<1>1. /\ now \in Nat /\ lastObservation \in Nat /\ lastObservation <= now
      /\ twapLnRate \in Nat /\ warmupUntil \in Nat /\ observed \in SUBSET Nat
      /\ RecordTypes /\ Stamped /\ WarmsFromSnap
  BY DEF RecordInv, RecordTypes
<1>2. totalLp > 0 => totalLp' > 0
  BY StaysOpen, MarketStep
<1>3. CASE Trade
  <2>1. totalLp > 0
    BY <1>3, TradeKeeps DEF Trade, Swaps
  <2>2. PICK rate \in Nat :
           /\ observed' = observed \cup {rate} /\ observedAt' = now /\ now' = now
           /\ lastObservation' = now
           /\ \/ /\ lastObservation = now
                 /\ UNCHANGED <<twapLnRate, warmupUntil, decided>>
              \/ /\ twapLnRate' = rate /\ warmupUntil' = now + Window
                 /\ decided' = [at |-> now, by |-> "snap"]
              \/ /\ \E elapsed \in 1 .. Window - 1 : twapLnRate' = Blend(twapLnRate, rate, elapsed)
                 /\ UNCHANGED <<warmupUntil, decided>>
    BY <1>1, <1>3, TradeRecords
  <2>3. twapLnRate' \in Nat
    <3>1. ASSUME NEW elapsed \in 1 .. Window - 1, twapLnRate' = Blend(twapLnRate, rate, elapsed)
          PROVE  twapLnRate' \in Nat
      <4>1. twapLnRate + rate \in Nat /\ twapLnRate <= twapLnRate + rate /\ rate <= twapLnRate + rate
        BY <1>1
      <4> QED BY <1>1, <3>1, <4>1, BlendBelow
    <3> QED BY <1>1, <2>2, <3>1
  <2>4. RecordTypes'
    BY <1>1, <2>2, <2>3 DEF RecordTypes
  <2>5. Stamped'
    BY <1>1, <1>2, <2>1, <2>2 DEF Stamped
  <2>6. WarmsFromSnap'
    BY <1>1, <2>2 DEF WarmsFromSnap
  <2> QED BY <2>4, <2>5, <2>6 DEF RecordInv
<1>4. CASE Open
  <2>1. /\ \E rate \in Nat : observed' = observed \cup {rate} /\ twapLnRate' = rate
        /\ observedAt' = now /\ now' = now /\ lastObservation' = now
        /\ decided' = [at |-> now, by |-> "deposit"] /\ warmupUntil' = warmupUntil
    BY <1>4, OpenRecords
  <2>2. totalLp' > 0
    <3>1. Provide
      BY <1>4 DEF Open, Provide, AddLiquidity
    <3> QED BY <3>1, ProvideKeeps DEF Shares
  <2>3. RecordTypes'
    BY <1>1, <2>1 DEF RecordTypes
  <2>4. Stamped'
    BY <1>1, <2>1, <2>2 DEF Stamped
  <2>5. WarmsFromSnap'
    BY <1>1, <2>1 DEF WarmsFromSnap
  <2> QED BY <2>3, <2>4, <2>5 DEF RecordInv
<1>5. CASE Otherwise \/ UNCHANGED marketVars
  <2>1. UNCHANGED <<now, rateVars, historyVars>>
    BY <1>5 DEF Otherwise, marketVars
  <2>2. totalLp' > 0 => totalLp > 0
    BY <1>5, StaysUnopened DEF marketVars, vars, reserveVars
  <2> QED BY <1>1, <1>2, <2>1, <2>2 DEF RecordInv, RecordTypes, Stamped, WarmsFromSnap, rateVars, historyVars
<1>6. CASE Tick
  <2>1. now' = now + 1 /\ UNCHANGED <<rateVars, historyVars>> /\ totalLp' = totalLp
    BY <1>6 DEF Tick, Mature, vars, reserveVars
  <2> QED BY <1>1, <2>1 DEF RecordInv, RecordTypes, Stamped, WarmsFromSnap, rateVars, historyVars
<1> QED
  BY <1>3, <1>4, <1>5, <1>6 DEF MarketNext

\* Both invariants hold of every state of the market with its record.
LEMMA RecordInvariance == MarketSpec => [](IInv /\ RecordInv)
<1>1. MarketInit => RecordInv
  BY DEF MarketInit, RecordInv, RecordTypes, Stamped, WarmsFromSnap
<1> QED
  BY <1>1, RecordStep, RecordIsInert, Invariance, PTL DEF MarketSpec

\* After an idle gap let one trade make the average, the market says it is warm only a full
\* window later, whatever trades and deposits come between.
THEOREM WarmAfterSnap == MarketSpec => []TrustedAfterSnap
<1>1. RecordInv => TrustedAfterSnap
  BY DEF RecordInv, RecordTypes, WarmsFromSnap, TrustedAfterSnap, WarmingUp
<1> QED
  BY <1>1, RecordInvariance, PTL

\* Nothing that shares a ledger with an observation moves the average.
THEOREM OneObservationPerLedger == MarketSpec => OneRatePerLedger
<1>1. IInv /\ RecordInv /\ [MarketNext]_marketVars
        => [observedAt = now => twapLnRate' = twapLnRate]_marketVars
  <2> SUFFICES ASSUME IInv, RecordInv, [MarketNext]_marketVars, observedAt = now
               PROVE  twapLnRate' = twapLnRate
    OBVIOUS
  <2>1. now \in Nat /\ RecordTypes /\ Stamped /\ observedAt # None /\ lastObservation = now
    BY DEF RecordInv, RecordTypes, Stamped
  <2>2. CASE Trade
    <3>1. PICK rate \in LnRates : SyncTwap(rate)
      BY <2>2 DEF Trade
    <3>2. now - lastObservation = 0
      BY <2>1
    <3> QED BY <3>1, <3>2 DEF SyncTwap
  <2>3. CASE Open
    BY <2>1, <2>3, OpenRecords DEF Stamped
  <2>4. CASE Otherwise \/ Tick \/ UNCHANGED marketVars
    BY <2>4 DEF Otherwise, Tick, marketVars, rateVars
  <2> QED BY <2>2, <2>3, <2>4 DEF MarketNext
<1> QED
  BY <1>1, RecordInvariance, PTL DEF MarketSpec, OneRatePerLedger

\* Trades, deposits and the passing of time keep the average among the observed rates.
LEMMA AverageStep ==
  ASSUME Window * (Window + 1) <= WAD
  PROVE  IInv /\ RecordInv /\ AverageOfObserved /\ [MarketNext]_marketVars => AverageOfObserved'
<1> SUFFICES ASSUME IInv, RecordInv, AverageOfObserved, [MarketNext]_marketVars, totalLp' > 0
             PROVE  /\ \E rate \in observed' : twapLnRate' <= rate
                    /\ \E rate \in observed' : rate <= twapLnRate' + Drift
  BY DEF AverageOfObserved
<1>1. /\ RecordTypes /\ twapLnRate \in Nat /\ observed \in SUBSET Nat /\ Drift \in Nat
  BY DEF RecordInv, RecordTypes, Drift
<1>2. CASE Trade
  <2>1. totalLp > 0
    BY <1>2, TradeKeeps DEF Trade, Swaps
  <2>2. PICK high \in observed, low \in observed : twapLnRate <= high /\ low <= twapLnRate + Drift
    BY <2>1 DEF AverageOfObserved
  <2>3. PICK rate \in Nat :
           /\ observed' = observed \cup {rate}
           /\ \/ twapLnRate' = twapLnRate
              \/ twapLnRate' = rate
              \/ \E elapsed \in 1 .. Window - 1 : twapLnRate' = Blend(twapLnRate, rate, elapsed)
    BY <1>1, <1>2, TradeRecords
  <2>4. high \in Nat /\ low \in Nat /\ {high, low, rate} \subseteq observed'
    BY <1>1, <2>2, <2>3
  <2>5. CASE twapLnRate' = twapLnRate
    BY <2>2, <2>4, <2>5
  <2>6. CASE twapLnRate' = rate
    BY <1>1, <2>4, <2>6
  <2>7. ASSUME NEW elapsed \in 1 .. Window - 1, twapLnRate' = Blend(twapLnRate, rate, elapsed)
        PROVE  /\ \E r \in observed' : twapLnRate' <= r
               /\ \E r \in observed' : r <= twapLnRate' + Drift
    <3>1. \E r \in {high, rate} : twapLnRate' <= r
      <4>1. CASE high <= rate
        BY <1>1, <2>2, <2>4, <2>7, <4>1, BlendBelow
      <4>2. CASE rate <= high
        BY <1>1, <2>2, <2>4, <2>7, <4>2, BlendBelow
      <4> QED BY <2>4, <4>1, <4>2
    <3>2. \E r \in {low, rate} : r <= twapLnRate' + Drift
      <4>1. CASE low <= rate
        BY <1>1, <2>2, <2>4, <2>7, <4>1, BlendAbove
      <4>2. CASE rate <= low
        <5>1. rate <= twapLnRate + Drift
          BY <1>1, <2>2, <2>4, <4>2
        <5> QED BY <1>1, <2>4, <2>7, <5>1, BlendAbove
      <4> QED BY <2>4, <4>1, <4>2
    <3> QED BY <2>4, <3>1, <3>2
  <2> QED BY <2>3, <2>5, <2>6, <2>7
<1>3. CASE Open
  <2>1. PICK rate \in Nat : observed' = observed \cup {rate} /\ twapLnRate' = rate
    BY <1>3, OpenRecords
  <2>2. rate \in observed' /\ rate <= rate + Drift
    BY <1>1, <2>1
  <2> QED BY <2>1, <2>2
<1>4. CASE Otherwise \/ Tick \/ UNCHANGED marketVars
  <2>1. twapLnRate' = twapLnRate /\ observed' = observed
    BY <1>4 DEF Otherwise, Tick, marketVars, rateVars, historyVars
  <2>2. totalLp > 0
    BY <1>4, StaysUnopened DEF Tick, Mature, marketVars, vars, reserveVars
  <2> QED BY <2>1, <2>2 DEF AverageOfObserved
<1> QED
  BY <1>2, <1>3, <1>4 DEF MarketNext

\* However many trades the average has blended, over whatever times and rates, it is never
\* above the highest rate observed and never below the lowest by more than the rounding of
\* one window. The window has to be short beside the fixed-point unit: with 10^18 it may be
\* anything up to thirty years of seconds.
THEOREM AverageIsBounded ==
  ASSUME Window * (Window + 1) <= WAD
  PROVE  MarketSpec => []AverageOfObserved
<1>1. MarketInit => AverageOfObserved
  BY DEF MarketInit, Init, AverageOfObserved
<1>2. IInv /\ RecordInv /\ AverageOfObserved /\ [MarketNext]_marketVars => AverageOfObserved'
  BY AverageStep
<1> QED
  BY <1>1, <1>2, RecordInvariance, PTL DEF MarketSpec

=============================================================================

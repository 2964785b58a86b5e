---------------------------- MODULE WrapperProofs ----------------------------
(***************************************************************************)
(* Theorems about the SY wrapper, for any holders, rates of the pool,        *)
(* deposits, cap and fixed-point units: the supply every rate divides by is  *)
(* the sum of the balances, principal follows the shares, who stays loses    *)
(* at most one bToken to a redemption and nothing to a deposit or a          *)
(* wind-down exit, and the wind-down of a solvent position prices nobody     *)
(* down.  The last section puts the wrapper's surfaces together.             *)
(***************************************************************************)
EXTENDS MCWrapper, SurfaceProofs

-----------------------------------------------------------------------------
(***************************************************************************)
(* Values.                                                                 *)
(***************************************************************************)

\* What the position is worth, what backs the shares, and the rate are natural numbers.
LEMMA ValuesType ==
  ASSUME SyTypeOK
  PROVE  /\ totalShares \in Nat
         /\ \A h \in SyHolders : shares[h] <= totalShares
         /\ Aum \in Nat /\ Assets \in Nat /\ ExchangeRate \in Nat
<1>1. totalShares \in Nat
  BY SyWrapperAssumption, SumType DEF SyTypeOK, SumOf
<1>2. \A h \in SyHolders : shares[h] <= totalShares
  BY SyWrapperAssumption, SumBound DEF SyTypeOK, SumOf
<1>3. Aum \in Nat
  BY SyWrapperAssumption, FloorBound DEF SyTypeOK, Aum, AssetsFromBTokens
<1>4. Assets \in Nat
  BY <1>3 DEF SyTypeOK, Assets
<1>5. RateOver(Assets) \in Nat
  <2> DEFINE a == Assets
  <2>1. a \in Nat
    BY <1>4
  <2> HIDE DEF a
  <2>2. totalShares # 0 => MulDivFloor(a, WAD, totalShares) \in Nat
    BY <1>1, <2>1, SyWrapperAssumption, FloorBound
  <2> QED BY <2>2, SyWrapperAssumption DEF RateOver, a
<1> QED BY <1>1, <1>2, <1>3, <1>4, <1>5 DEF ExchangeRate

\* The part of a holder's principal that goes with part of its shares is at most all of
\* it, and all of it when all the shares go.
LEMMA KeptFacts ==
  ASSUME SyTypeOK, NEW h \in SyHolders, NEW n \in 0 .. shares[h], shares[h] > 0
  PROVE  /\ KeptPrincipal(h, n) \in Nat
         /\ KeptPrincipal(h, n) <= principal[h]
         /\ n = shares[h] => KeptPrincipal(h, n) = 0
<1> DEFINE p == principal[h]
           s == shares[h]
           gone == MulDivFloor(p, n, s)
<1>1. p \in Nat /\ s \in Nat \ {0} /\ n \in Nat /\ n <= s
  BY DEF SyTypeOK
<1>2. KeptPrincipal(h, n) = p - gone
  BY DEF KeptPrincipal
<1> HIDE DEF p, s
<1>3. gone \in Nat /\ gone * s <= p * n
  BY <1>1, FloorBound
<1>4. n * p <= s * p
  BY <1>1, TimesMonotone
<1>5. gone <= p
  <2> HIDE DEF gone
  <2>1. p * n = n * p /\ p * s = s * p /\ p * n \in Int /\ p * s \in Int /\ gone * s \in Int
    BY <1>1, <1>3
  <2>2. gone * s <= p * s
    BY <1>3, <1>4, <2>1
  <2> QED BY <1>1, <1>3, <2>2, TimesCancels
<1>6. n = s => p <= gone
  BY <1>1, FloorLargest
<1> HIDE DEF gone
<1> QED BY <1>1, <1>2, <1>3, <1>5, <1>6 DEF s, p

\* Shares burnt, with their part of the principal, leave the types and the books.
LEMMA BurnSharesFacts ==
  ASSUME SyTypeOK, PrincipalFollowsShares, NEW h \in SyHolders, NEW n \in 0 .. shares[h],
         shares[h] > 0, BurnShares(h, n)
  PROVE  /\ shares' \in [SyHolders -> Nat] /\ principal' \in [SyHolders -> Nat]
         /\ totalShares' = SumOf(shares') /\ totalShares' \in Nat
         /\ totalShares' = totalShares - n
         /\ PrincipalFollowsShares'
<1>1. n \in Nat /\ n <= shares[h] /\ shares \in [SyHolders -> Nat] /\ principal \in [SyHolders -> Nat]
  BY DEF SyTypeOK
<1>2. shares' = [shares EXCEPT ![h] = @ - n] /\ totalShares' = totalShares - n
  BY DEF BurnShares
<1>3. shares' \in [SyHolders -> Nat]
  BY <1>1, <1>2
<1>4. principal' = [principal EXCEPT ![h] = KeptPrincipal(h, n)]
  BY DEF BurnShares
<1>5. /\ KeptPrincipal(h, n) \in Nat
      /\ n = shares[h] => KeptPrincipal(h, n) = 0
  BY KeptFacts
<1>6. principal' \in [SyHolders -> Nat]
  BY <1>1, <1>4, <1>5
<1>7. totalShares' = SumOf(shares')
  <2>1. SumOver([shares EXCEPT ![h] = @ - n], SyHolders) = SumOver(shares, SyHolders) - n
    <3>1. shares \in [SyHolders -> Int] /\ n \in Int
      BY <1>1
    <3> QED BY <3>1, SyWrapperAssumption, TotalAfterDebit
  <2>2. totalShares = SumOver(shares, SyHolders)
    BY DEF SyTypeOK, SumOf
  <2>3. SumOver(shares', SyHolders) = totalShares - n
    BY <1>2, <2>1, <2>2
  <2> QED BY <1>2, <2>3 DEF SumOf
<1>8. totalShares' \in Nat
  BY <1>3, <1>7, SyWrapperAssumption, SumType DEF SumOf
<1>9. \A k \in SyHolders : shares'[k] = 0 => principal'[k] = 0
  <2> SUFFICES ASSUME NEW k \in SyHolders, shares'[k] = 0 PROVE principal'[k] = 0
    OBVIOUS
  <2>1. CASE k = h
    BY <1>1, <1>2, <1>4, <1>5, <2>1
  <2>2. CASE k # h
    BY <1>1, <1>2, <1>4, <2>2 DEF PrincipalFollowsShares
  <2> QED BY <2>1, <2>2
<1> QED BY <1>2, <1>3, <1>6, <1>7, <1>8, <1>9 DEF PrincipalFollowsShares

\* What the pool gives back in a release is covered by the bTokens the wrapper has.
LEMMA ReleaseFacts ==
  ASSUME SyTypeOK, NEW request \in Nat \ {0}, NEW paid \in Releases(request), Release(paid)
  PROVE  /\ paid \in 1 .. request
         /\ bTokens' \in Nat
         /\ bTokens' = bTokens - MulDivCeil(paid, Scalar, bRate)
<1>1. paid \in 1 .. request /\ MulDivCeil(paid, Scalar, bRate) <= bTokens
  BY SyWrapperAssumption DEF Releases
<1>2. MulDivCeil(paid, Scalar, bRate) \in Nat
  BY <1>1, SyWrapperAssumption, CeilBound DEF SyTypeOK
<1>3. bTokens \in Nat
  BY DEF SyTypeOK
<1> QED BY <1>1, <1>2, <1>3 DEF Release

\* What a deposit adds: bTokens, underlying and shares, all at the rate before it.
LEMMA DepositFacts ==
  ASSUME SyTypeOK, NEW h \in SyHolders, NEW amount \in Deposits, Deposit(h, amount)
  PROVE  \E bought \in Nat, credited \in Nat, minted \in Nat \ {0} :
           /\ minted = MulDivFloor(credited, WAD, ExchangeRate)
           /\ bTokens' = bTokens + bought
           /\ AssetsFromBTokens(bTokens') = Aum + credited
           /\ shares' = [shares EXCEPT ![h] = @ + minted]
           /\ totalShares' = totalShares + minted
<1> DEFINE bought   == BTokensFromAssets(amount)
           credited == AssetsFromBTokens(bTokens + bought) - Aum
           minted   == Minted(amount, credited)
<1>1. amount \in Nat /\ bRate \in Nat \ {0} /\ bTokens \in Nat
  BY SyWrapperAssumption DEF SyTypeOK
<1>2. bought \in Nat
  BY <1>1, SyWrapperAssumption, FloorBound DEF BTokensFromAssets
<1>3. credited \in Nat /\ AssetsFromBTokens(bTokens + bought) = Aum + credited
  <2>1. Aum \in Nat
    BY ValuesType
  <2>2. bTokens + bought \in Nat /\ bTokens <= bTokens + bought
    BY <1>1, <1>2
  <2>3. /\ AssetsFromBTokens(bTokens + bought) \in Nat
        /\ Aum <= AssetsFromBTokens(bTokens + bought)
    BY <1>1, <2>2, SyWrapperAssumption, FloorBound, FloorMonotone DEF AssetsFromBTokens, Aum
  <2> DEFINE after == AssetsFromBTokens(bTokens + bought)
  <2> HIDE DEF after
  <2> QED BY <2>1, <2>3 DEF after
<1>4. /\ ExchangeRate > 0 /\ minted > 0
      /\ bTokens' = bTokens + bought
      /\ shares' = [shares EXCEPT ![h] = @ + minted]
      /\ totalShares' = totalShares + minted
  BY DEF Deposit
<1> HIDE DEF bought, credited
<1>5. minted = MulDivFloor(credited, WAD, ExchangeRate)
  BY DEF Minted
<1>6. ExchangeRate \in Nat \ {0}
  BY <1>4, ValuesType
<1> DEFINE r == ExchangeRate
<1> HIDE DEF r
<1>7. MulDivFloor(credited, WAD, r) \in Nat
  BY <1>3, <1>6, SyWrapperAssumption, FloorBound DEF r
<1>8. minted \in Nat \ {0}
  BY <1>4, <1>5, <1>7 DEF r
<1>9. AssetsFromBTokens(bTokens') = Aum + credited
  BY <1>3, <1>4
<1> HIDE DEF minted
<1> QED BY <1>2, <1>3, <1>4, <1>5, <1>8, <1>9

\* The rate over the shares is never more than what backs them.
LEMMA RateCovered ==
  ASSUME SyTypeOK, totalShares > 0
  PROVE  ExchangeRate * totalShares <= Assets * WAD
<1> DEFINE a == Assets
<1>1. a \in Nat /\ totalShares \in Nat \ {0} /\ WAD \in Nat
  BY ValuesType, SyWrapperAssumption
<1> HIDE DEF a
<1>2. MulDivFloor(a, WAD, totalShares) * totalShares <= a * WAD
  BY <1>1, FloorBound
<1>3. ExchangeRate = MulDivFloor(a, WAD, totalShares)
  BY DEF ExchangeRate, RateOver, a
<1> QED BY <1>2, <1>3 DEF a

\* Whatever the pool pays, the shares burnt for it are worth at least as much at the rate,
\* and are never more than the holder has.
LEMMA RedeemFacts ==
  ASSUME SyTypeOK, NEW h \in SyHolders, NEW n \in 1 .. shares[h], Redeem(h, n)
  PROVE  \E paid \in Nat \ {0}, burnt \in 0 .. shares[h] :
           /\ BurnShares(h, burnt)
           /\ bTokens' \in Nat
           /\ bTokens' = bTokens - MulDivCeil(paid, Scalar, bRate)
           /\ paid * WAD <= burnt * ExchangeRate
<1> DEFINE r == ExchangeRate
           request == MulDivFloor(n, r, WAD)
<1>1. n \in Nat \ {0} /\ shares[h] \in Nat /\ n <= shares[h] /\ r \in Nat /\ WAD \in Nat \ {0}
  BY ValuesType, SyWrapperAssumption DEF SyTypeOK
<1>2. PICK paid \in Releases(request) : Release(paid) /\ BurnShares(h, Burnt(h, n, paid, request))
  BY DEF Redeem
<1>3. request > 0
  BY DEF Redeem
<1> DEFINE burnt == Burnt(h, n, paid, request)
<1> HIDE DEF r
<1>4. request \in Nat \ {0} /\ request * WAD <= n * r
  BY <1>1, <1>3, FloorBound
<1>5. r > 0
  <2> SUFFICES ASSUME r = 0 PROVE FALSE
    BY <1>1
  <2>1. n * r = 0
    BY <1>1
  <2> HIDE DEF request
  <2>2. request * WAD > 0
    <3>1. 1 * WAD <= request * WAD
      BY <1>1, <1>4, TimesMonotone
    <3>2. request * WAD \in Int
      BY <1>1, <1>4
    <3> QED BY <1>1, <3>1, <3>2
  <2>3. request * WAD \in Int
    BY <1>1, <1>4
  <2> QED BY <1>4, <2>1, <2>2, <2>3
<1> HIDE DEF request
<1>6. /\ paid \in 1 .. request /\ bTokens' \in Nat
      /\ bTokens' = bTokens - MulDivCeil(paid, Scalar, bRate)
  BY <1>2, <1>4, ReleaseFacts
<1>7. paid * WAD <= n * r
  <2>1. paid * WAD <= request * WAD
    BY <1>1, <1>4, <1>6, TimesMonotone
  <2>2. paid * WAD \in Int /\ request * WAD \in Int /\ n * r \in Int
    BY <1>1, <1>4, <1>6
  <2> QED BY <1>4, <2>1, <2>2
<1>8. CASE paid >= request
  <2>1. burnt = n
    BY <1>8 DEF Burnt
  <2> QED BY <1>1, <1>2, <1>6, <1>7, <2>1 DEF r
<1>9. CASE paid < request
  <2> DEFINE worth == MulDivCeil(paid, WAD, r)
  <2>1. burnt = Smaller(worth, shares[h])
    <3>1. ~(paid >= request)
      BY <1>4, <1>6, <1>9
    <3> QED BY <3>1 DEF Burnt, r
  <2>2. worth \in Nat /\ worth * r >= paid * WAD
    <3>1. paid \in Nat /\ WAD \in Nat /\ r \in Nat \ {0}
      BY <1>1, <1>4, <1>5, <1>6
    <3> QED BY <3>1, CeilBound
  <2> HIDE DEF worth
  <2>3. burnt \in 0 .. shares[h] /\ (burnt = worth \/ burnt = shares[h])
    BY <1>1, <2>1, <2>2 DEF Smaller
  <2>4. n * r <= shares[h] * r
    BY <1>1, TimesMonotone
  <2>5. paid * WAD <= shares[h] * r
    <3>1. paid * WAD \in Int /\ n * r \in Int /\ shares[h] * r \in Int
      BY <1>1, <1>6
    <3> QED BY <1>7, <2>4, <3>1
  <2>6. paid * WAD <= burnt * r
    <3>1. CASE burnt = worth
      <4>1. paid * WAD \in Int /\ worth * r \in Int
        BY <1>1, <1>6, <2>2
      <4> QED BY <2>2, <3>1, <4>1
    <3>2. CASE burnt = shares[h]
      BY <2>5, <3>2
    <3> QED BY <2>3, <3>1, <3>2
  <2> QED BY <1>2, <1>6, <2>3, <2>6 DEF r
<1> QED BY <1>4, <1>6, <1>8, <1>9

\* What a wind-down exit pays is at most what was recovered, and what stays is at least
\* the part of those who stay.
LEMMA SliceFacts ==
  ASSUME SyTypeOK, NEW n \in Nat, n <= totalShares, totalShares > 0
  PROVE  Slice(n) \in 0 .. idle /\ (idle - Slice(n)) * totalShares >= idle * (totalShares - n)
<1> DEFINE q == Slice(n)
<1>1. totalShares \in Nat \ {0} /\ idle \in Nat
  BY ValuesType DEF SyTypeOK
<1>2. q \in Nat /\ q * totalShares <= idle * n
  BY <1>1, FloorBound DEF Slice
<1> HIDE DEF q
<1>3. /\ (idle - q) * totalShares = idle * totalShares - q * totalShares
      /\ idle * (totalShares - n) = idle * totalShares - idle * n
      /\ q * totalShares \in Int /\ idle * n \in Int /\ idle * totalShares \in Int
  BY <1>1, <1>2
<1>4. n * idle <= totalShares * idle
  BY <1>1, TimesMonotone
<1>5. n * idle = idle * n /\ totalShares * idle = idle * totalShares
  BY <1>1
<1>6. q * totalShares <= idle * totalShares
  BY <1>2, <1>3, <1>4, <1>5
<1>7. q <= idle
  BY <1>1, <1>2, <1>6, TimesCancels
<1>8. (idle - q) * totalShares >= idle * (totalShares - n)
  BY <1>2, <1>3
<1> QED BY <1>1, <1>2, <1>7, <1>8 DEF q

-----------------------------------------------------------------------------
(***************************************************************************)
(* What a call leaves behind the shares of those who stay.                 *)
(***************************************************************************)

\* A withdraw costs the position what was paid and at most one bToken more.
LEMMA PositionKept ==
  ASSUME SyTypeOK, NEW paid \in Nat, bTokens' \in Nat,
         bTokens' = bTokens - MulDivCeil(paid, Scalar, bRate)
  PROVE  Aum <= AssetsFromBTokens(bTokens') + paid + MulDivCeil(1, bRate, Scalar)
<1> DEFINE b == MulDivCeil(paid, Scalar, bRate)
           dust == MulDivCeil(1, bRate, Scalar)
           before == MulDivFloor(bTokens, bRate, Scalar)
           after == MulDivFloor(bTokens', bRate, Scalar)
<1>1. bRate \in Nat \ {0} /\ Scalar \in Nat \ {0} /\ bTokens \in Nat /\ bTokens' \in Nat
  BY SyWrapperAssumption DEF SyTypeOK
<1>2. b \in Nat /\ b * bRate <= paid * Scalar + (bRate - 1)
  BY <1>1, CeilBound, CeilTight
<1>3. dust \in Nat /\ dust * Scalar >= 1 * bRate
  BY <1>1, CeilBound
<1>4. before \in Nat /\ before * Scalar <= bTokens * bRate
  BY <1>1, FloorBound
<1>5. after \in Nat /\ bTokens' * bRate < after * Scalar + Scalar
  BY <1>1, FloorBound, FloorTight
<1>6. bTokens = bTokens' + b
  BY <1>1, <1>2
<1> HIDE DEF b, dust, before, after
<1>7. bTokens * bRate = bTokens' * bRate + b * bRate
  BY <1>1, <1>2, <1>6
<1>8. (after + paid + dust) * Scalar = after * Scalar + paid * Scalar + dust * Scalar
  BY <1>1, <1>3, <1>5
<1>9. /\ before * Scalar \in Int /\ bTokens * bRate \in Int /\ bTokens' * bRate \in Int
      /\ b * bRate \in Int /\ paid * Scalar \in Int /\ dust * Scalar \in Int
      /\ after * Scalar \in Int
  BY <1>1, <1>2, <1>3, <1>4, <1>5
<1>10. before * Scalar < (after + paid + dust) * Scalar + Scalar
  BY <1>1, <1>2, <1>3, <1>4, <1>5, <1>7, <1>8, <1>9
<1>11. before <= after + paid + dust
  BY <1>1, <1>3, <1>4, <1>5, <1>10, TimesCancelsRest
<1> QED BY <1>11 DEF before, after, dust, Aum, AssetsFromBTokens

\* The arithmetic of a redemption: shares worth the payout at a rate rounded down carry at
\* least the payout in backing.
LEMMA PaidForInShares ==
  ASSUME NEW T \in Nat \ {0}, NEW A \in Nat, NEW kept \in Nat, NEW dust \in Nat, NEW r \in Nat,
         NEW paid \in Nat, NEW burnt \in Nat, NEW W \in Nat \ {0},
         paid * W <= burnt * r, r * T <= A * W, A <= kept + paid + dust
  PROVE  (kept + dust) * T >= A * (T - burnt)
<1>1. (paid * T) * W <= (burnt * A) * W
  <2>1. (paid * W) * T <= (burnt * r) * T
    <3>1. paid * W \in Int /\ burnt * r \in Int
      OBVIOUS
    <3> DEFINE x == paid * W
               y == burnt * r
    <3>2. x \in Int /\ y \in Int /\ x <= y
      BY <3>1
    <3> HIDE DEF x, y
    <3>3. x * T <= y * T
      BY <3>2, TimesMonotone
    <3> QED BY <3>3 DEF x, y
  <2>2. (r * T) * burnt <= (A * W) * burnt
    <3>1. r * T \in Int /\ A * W \in Int
      OBVIOUS
    <3> DEFINE x == r * T
               y == A * W
    <3>2. x \in Int /\ y \in Int /\ x <= y
      BY <3>1
    <3> HIDE DEF x, y
    <3>3. x * burnt <= y * burnt
      BY <3>2, TimesMonotone
    <3> QED BY <3>3 DEF x, y
  <2>3. /\ (paid * W) * T = (paid * T) * W
        /\ (burnt * r) * T = (r * T) * burnt
        /\ (A * W) * burnt = (burnt * A) * W
    OBVIOUS
  <2>4. (paid * T) * W \in Int /\ (r * T) * burnt \in Int /\ (burnt * A) * W \in Int
    OBVIOUS
  <2> DEFINE x == (paid * T) * W
             y == (r * T) * burnt
             z == (burnt * A) * W
  <2>5. x \in Int /\ y \in Int /\ z \in Int /\ x <= y /\ y <= z
    BY <2>1, <2>2, <2>3, <2>4
  <2> HIDE DEF x, y, z
  <2>6. x <= z
    BY <2>5
  <2> QED BY <2>6 DEF x, z
<1>2. paid * T <= burnt * A
  <2> DEFINE x == paid * T
             y == burnt * A
  <2>1. x \in Int /\ y \in Int /\ x * W <= y * W
    BY <1>1
  <2> HIDE DEF x, y
  <2>2. x <= y
    BY <2>1, TimesCancels
  <2> QED BY <2>2 DEF x, y
<1>3. A * T <= (kept + paid + dust) * T
  BY TimesMonotone
<1>4. /\ (kept + paid + dust) * T = (kept + dust) * T + paid * T
      /\ A * (T - burnt) = A * T - burnt * A
  OBVIOUS
<1>5. (kept + dust) * T \in Int /\ paid * T \in Int /\ A * T \in Int /\ burnt * A \in Int
  OBVIOUS
<1> DEFINE x == (kept + dust) * T
           y == paid * T
           z == A * T
           u == burnt * A
<1>6. x \in Int /\ y \in Int /\ z \in Int /\ u \in Int /\ y <= u /\ z <= x + y
  BY <1>2, <1>3, <1>4, <1>5
<1>7. A * (T - burnt) = z - u
  BY <1>4
<1> HIDE DEF x, y, z, u
<1>8. x >= z - u
  BY <1>6
<1> QED BY <1>7, <1>8 DEF x

\* The arithmetic of a deposit: shares minted at a rate, rounded down, keep that rate.
LEMMA MintKeepsRate ==
  ASSUME NEW T \in Nat \ {0}, NEW A \in Nat, NEW credited \in Nat, NEW minted \in Nat,
         NEW r \in Nat, NEW W \in Nat,
         r * T <= A * W, minted * r <= credited * W
  PROVE  r <= MulDivFloor(A + credited, W, T + minted)
<1>1. r * (T + minted) = r * T + minted * r /\ (A + credited) * W = A * W + credited * W
  OBVIOUS
<1>2. r * T \in Int /\ minted * r \in Int /\ A * W \in Int /\ credited * W \in Int
  OBVIOUS
<1> DEFINE x == r * T
           y == A * W
           u == minted * r
           v == credited * W
<1>3. x \in Int /\ y \in Int /\ u \in Int /\ v \in Int /\ x <= y /\ u <= v
  BY <1>2
<1> HIDE DEF x, y, u, v
<1>4. x + u <= y + v
  BY <1>3
<1>5. r * (T + minted) <= (A + credited) * W
  BY <1>1, <1>4 DEF x, y, u, v
<1>6. A + credited \in Nat /\ T + minted \in Nat \ {0} /\ r \in Int
  OBVIOUS
<1> QED BY <1>5, <1>6, FloorLargest

-----------------------------------------------------------------------------
(***************************************************************************)
(* The steps.                                                              *)
(***************************************************************************)

\* What every step keeps: the types with the books, and principal with the shares.
Kept == SyTypeOK /\ PrincipalFollowsShares

\* What a step owes to those who stay.
NobodyShorted ==
  /\ totalShares > 0 /\ totalShares' > totalShares => ExchangeRate' >= ExchangeRate
  /\ totalShares' < totalShares
       => BackingKept(IF emergency THEN 0 ELSE MulDivCeil(1, bRate, Scalar))

\* A new wrapper has no shares and no principal.
LEMMA SyInitKept == SyInit => Kept
<1> SUFFICES ASSUME SyInit PROVE Kept
  OBVIOUS
<1>1. \A h \in SyHolders : shares[h] = 0
  BY DEF SyInit
<1>2. SumOf(shares) = 0
  BY <1>1, SyWrapperAssumption, TotalOfZeros DEF SumOf
<1>3. /\ entriesPaused \in BOOLEAN /\ emergency \in BOOLEAN
      /\ sealed \in BOOLEAN /\ readable \in BOOLEAN
  BY DEF SyInit
<1> QED BY <1>1, <1>2, <1>3, SyWrapperAssumption
     DEF SyInit, Kept, SyTypeOK, PrincipalFollowsShares

\* A deposit keeps the invariant, and the rate of those who were in.
LEMMA DepositStep ==
  ASSUME Kept, NEW h \in SyHolders, NEW amount \in Deposits, Deposit(h, amount)
  PROVE  Kept' /\ NobodyShorted
<1>1. SyTypeOK /\ PrincipalFollowsShares
  BY DEF Kept
<1>2. PICK bought \in Nat, credited \in Nat, minted \in Nat \ {0} :
        /\ minted = MulDivFloor(credited, WAD, ExchangeRate)
        /\ bTokens' = bTokens + bought
        /\ AssetsFromBTokens(bTokens') = Aum + credited
        /\ shares' = [shares EXCEPT ![h] = @ + minted]
        /\ totalShares' = totalShares + minted
  BY <1>1, DepositFacts
<1>3. /\ amount \in Nat /\ bRate' = bRate /\ ~emergency /\ ~emergency'
      /\ principal' = [principal EXCEPT ![h] = @ + amount]
      /\ UNCHANGED <<modeVars, idle, readable, bRate>>
      /\ ExchangeRate > 0
  BY SyWrapperAssumption DEF Deposit, DepositsOpen, modeVars
<1>4. shares \in [SyHolders -> Nat] /\ principal \in [SyHolders -> Nat]
  BY <1>1 DEF SyTypeOK
<1>5. shares' \in [SyHolders -> Nat] /\ principal' \in [SyHolders -> Nat]
  BY <1>2, <1>3, <1>4
<1>6. totalShares' = SumOf(shares')
  <2>1. SumOver([shares EXCEPT ![h] = @ + minted], SyHolders) = SumOver(shares, SyHolders) + minted
    <3>1. shares \in [SyHolders -> Int] /\ minted \in Int
      BY <1>4
    <3> QED BY <3>1, SyWrapperAssumption, TotalAfterCredit
  <2>2. totalShares = SumOver(shares, SyHolders)
    BY <1>1 DEF SyTypeOK, SumOf
  <2>3. SumOver(shares', SyHolders) = totalShares + minted
    BY <1>2, <2>1, <2>2
  <2> QED BY <1>2, <2>3 DEF SumOf
<1>7. bTokens' \in Nat
  BY <1>1, <1>2 DEF SyTypeOK
<1>8. SyTypeOK'
  BY <1>1, <1>3, <1>5, <1>6, <1>7 DEF SyTypeOK, modeVars
<1>9. \A k \in SyHolders : shares'[k] = 0 => principal'[k] = 0
  <2> SUFFICES ASSUME NEW k \in SyHolders, shares'[k] = 0 PROVE principal'[k] = 0
    OBVIOUS
  <2>1. k # h
    BY <1>2, <1>4
  <2> QED BY <1>1, <1>2, <1>3, <1>4, <2>1 DEF PrincipalFollowsShares
<1>10. ASSUME totalShares > 0 PROVE ExchangeRate' >= ExchangeRate
  <2> DEFINE r == ExchangeRate
             a == Aum
  <2>1. /\ totalShares \in Nat \ {0} /\ a \in Nat /\ r \in Nat \ {0} /\ WAD \in Nat
    BY <1>1, <1>3, <1>10, ValuesType, SyWrapperAssumption
  <2>2. r * totalShares <= a * WAD
    BY <1>1, <1>3, <1>10, RateCovered DEF Assets
  <2>3. Aum' = AssetsFromBTokens(bTokens')
    BY <1>3 DEF Aum, AssetsFromBTokens
  <2>4. Assets' = a + credited
    BY <1>2, <1>3, <2>3 DEF Assets
  <2> HIDE DEF r, a
  <2>5. minted * r <= credited * WAD
    <3>1. minted = MulDivFloor(credited, WAD, r)
      BY <1>2 DEF r
    <3> QED BY <2>1, <3>1, FloorBound
  <2>6. r <= MulDivFloor(a + credited, WAD, totalShares + minted)
    BY <2>1, <2>2, <2>5, MintKeepsRate
  <2>7. totalShares' = totalShares + minted /\ totalShares' # 0
    BY <1>2, <2>1
  <2>8. ExchangeRate' = MulDivFloor(a + credited, WAD, totalShares + minted)
    BY <2>4, <2>7 DEF ExchangeRate, RateOver
  <2>9. MulDivFloor(a + credited, WAD, totalShares + minted) \in Nat
    <3>1. a + credited \in Nat /\ totalShares + minted \in Nat \ {0}
      BY <2>1
    <3> QED BY <2>1, <3>1, FloorBound
  <2> DEFINE after == MulDivFloor(a + credited, WAD, totalShares + minted)
  <2>10. after \in Nat /\ r <= after /\ ExchangeRate' = after
    BY <2>6, <2>8, <2>9
  <2> HIDE DEF after
  <2> QED BY <2>1, <2>10 DEF r
<1>11. ~(totalShares' < totalShares)
  <2>1. totalShares \in Nat
    BY <1>1, ValuesType
  <2> QED BY <1>2, <2>1
<1> QED BY <1>8, <1>9, <1>10, <1>11 DEF Kept, PrincipalFollowsShares, NobodyShorted

\* An exit from the pool does, up to one bToken.
LEMMA RedeemStep ==
  ASSUME Kept, NEW h \in SyHolders, NEW n \in 1 .. shares[h], Redeem(h, n)
  PROVE  Kept' /\ NobodyShorted
<1>1. SyTypeOK /\ PrincipalFollowsShares
  BY DEF Kept
<1>2. PICK paid \in Nat, burnt \in 0 .. shares[h] :
        /\ BurnShares(h, burnt)
        /\ bTokens' \in Nat
        /\ bTokens' = bTokens - MulDivCeil(paid, Scalar, bRate)
        /\ paid * WAD <= burnt * ExchangeRate
  BY <1>1, RedeemFacts
<1>3. ~emergency /\ UNCHANGED <<modeVars, idle, readable, bRate>>
  BY DEF Redeem
<1>4. shares[h] > 0 /\ burnt \in Nat /\ shares[h] \in Nat
  BY <1>1 DEF SyTypeOK
<1>5. /\ shares' \in [SyHolders -> Nat] /\ principal' \in [SyHolders -> Nat]
      /\ totalShares' = SumOf(shares')
      /\ totalShares' = totalShares - burnt
      /\ PrincipalFollowsShares'
  BY <1>1, <1>2, <1>4, BurnSharesFacts
<1>6. SyTypeOK'
  BY <1>1, <1>2, <1>3, <1>5 DEF SyTypeOK, modeVars
<1>7. (Assets' + MulDivCeil(1, bRate, Scalar)) * totalShares >= Assets * totalShares'
  <2> DEFINE r == ExchangeRate
             a == Aum
             kept == AssetsFromBTokens(bTokens')
             dust == MulDivCeil(1, bRate, Scalar)
  <2>1. /\ totalShares \in Nat \ {0} /\ a \in Nat /\ r \in Nat /\ WAD \in Nat \ {0}
    <3>1. totalShares \in Nat /\ shares[h] <= totalShares
      BY <1>1, ValuesType
    <3> QED BY <1>1, <1>4, <3>1, ValuesType, SyWrapperAssumption
  <2>2. r * totalShares <= a * WAD
    BY <1>1, <1>3, <2>1, RateCovered DEF Assets
  <2>3. kept \in Nat /\ dust \in Nat
    BY <1>1, <1>2, SyWrapperAssumption, FloorBound, CeilBound DEF SyTypeOK, AssetsFromBTokens
  <2>4. a <= kept + paid + dust
    BY <1>1, <1>2, PositionKept
  <2>5. Assets = a /\ Assets' = kept
    BY <1>3 DEF Assets, Aum, AssetsFromBTokens, modeVars
  <2>6. paid * WAD <= burnt * r
    BY <1>2
  <2> HIDE DEF r, a, kept, dust
  <2>7. (kept + dust) * totalShares >= a * (totalShares - burnt)
    BY <1>4, <2>1, <2>2, <2>3, <2>4, <2>6, PaidForInShares
  <2> QED BY <1>5, <2>5, <2>7 DEF dust
<1>8. ~(totalShares' > totalShares)
  <2>1. totalShares \in Nat
    BY <1>1, ValuesType
  <2> QED BY <1>4, <1>5, <2>1
<1> QED BY <1>3, <1>5, <1>6, <1>7, <1>8 DEF Kept, NobodyShorted, BackingKept

\* An exit in wind-down does, paying a slice of what was recovered.
LEMMA RedeemWindDownStep ==
  ASSUME Kept, NEW h \in SyHolders, NEW n \in 1 .. shares[h], RedeemWindDown(h, n)
  PROVE  Kept' /\ NobodyShorted
<1>1. SyTypeOK /\ PrincipalFollowsShares
  BY DEF Kept
<1>2. /\ BurnShares(h, n) /\ emergency /\ idle' = idle - Slice(n)
      /\ UNCHANGED <<modeVars, poolVars, readable>>
  BY DEF RedeemWindDown
<1>3. shares[h] > 0 /\ n \in Nat \ {0} /\ n \in 0 .. shares[h] /\ shares[h] \in Nat
  BY <1>1 DEF SyTypeOK
<1>4. /\ shares' \in [SyHolders -> Nat] /\ principal' \in [SyHolders -> Nat]
      /\ totalShares' = SumOf(shares')
      /\ totalShares' = totalShares - n
      /\ PrincipalFollowsShares'
  BY <1>1, <1>2, <1>3, BurnSharesFacts
<1>5. n <= totalShares /\ totalShares > 0 /\ totalShares \in Nat
  <2>1. totalShares \in Nat /\ shares[h] <= totalShares
    BY <1>1, ValuesType
  <2> QED BY <1>3, <2>1
<1>6. Slice(n) \in 0 .. idle /\ (idle - Slice(n)) * totalShares >= idle * (totalShares - n)
  BY <1>1, <1>3, <1>5, SliceFacts
<1>7. idle \in Nat /\ idle' \in Nat
  BY <1>1, <1>2, <1>6 DEF SyTypeOK
<1>8. SyTypeOK'
  BY <1>1, <1>2, <1>4, <1>7 DEF SyTypeOK, modeVars, poolVars
<1>9. (Assets' + 0) * totalShares >= Assets * totalShares'
  <2>1. Assets = idle /\ Assets' = idle'
    BY <1>2 DEF Assets, modeVars
  <2>2. Assets' + 0 = idle - Slice(n)
    BY <1>2, <1>7, <2>1
  <2> QED BY <1>4, <1>6, <2>1, <2>2
<1>10. ~(totalShares' > totalShares)
  BY <1>3, <1>4, <1>5
<1> QED BY <1>2, <1>4, <1>8, <1>9, <1>10 DEF Kept, NobodyShorted, BackingKept

\* A transfer does: principal goes with the shares.
LEMMA TransferStep ==
  ASSUME Kept, NEW h \in SyHolders, NEW g \in SyHolders, NEW n \in 1 .. shares[h],
         TransferShares(h, g, n)
  PROVE  Kept' /\ NobodyShorted
<1>1. SyTypeOK /\ PrincipalFollowsShares
  BY DEF Kept
<1> DEFINE with == principal[h] - KeptPrincipal(h, n)
<1>2. /\ shares' = Moved(shares, h, g, n)
      /\ principal' = Moved(principal, h, g, with)
      /\ UNCHANGED <<totalShares, modeVars, poolVars, idle, readable>>
  BY DEF TransferShares
<1>3. /\ shares \in [SyHolders -> Nat] /\ principal \in [SyHolders -> Nat]
      /\ n \in Nat \ {0} /\ n <= shares[h] /\ n \in 0 .. shares[h] /\ shares[h] > 0
  BY <1>1 DEF SyTypeOK
<1>4. /\ KeptPrincipal(h, n) \in Nat
      /\ KeptPrincipal(h, n) <= principal[h]
      /\ n = shares[h] => KeptPrincipal(h, n) = 0
  BY <1>1, <1>3, KeptFacts
<1>5. with \in Nat /\ with <= principal[h] /\ (n = shares[h] => with = principal[h])
  BY <1>3, <1>4
<1> HIDE DEF with
<1>6. /\ shares' \in [SyHolders -> Nat]
      /\ \A k \in SyHolders :
           shares'[k] = shares[k] - (IF k = h THEN n ELSE 0) + (IF k = g THEN n ELSE 0)
  BY <1>2, <1>3, MovedFacts
<1>7. /\ principal' \in [SyHolders -> Nat]
      /\ \A k \in SyHolders :
           principal'[k] = principal[k] - (IF k = h THEN with ELSE 0) + (IF k = g THEN with ELSE 0)
  BY <1>2, <1>3, <1>5, MovedFacts
<1>8. totalShares' = SumOf(shares')
  <2>1. shares \in [SyHolders -> Int] /\ n \in Int
    BY <1>3
  <2>2. SumOver(Moved(shares, h, g, n), SyHolders) = SumOver(shares, SyHolders)
    BY <2>1, SyWrapperAssumption, TotalAfterMove
  <2>3. totalShares = SumOver(shares, SyHolders)
    BY <1>1 DEF SyTypeOK, SumOf
  <2> QED BY <1>2, <2>2, <2>3 DEF SumOf
<1>9. SyTypeOK'
  BY <1>1, <1>2, <1>6, <1>7, <1>8 DEF SyTypeOK, modeVars, poolVars
<1>10. \A k \in SyHolders : shares'[k] = 0 => principal'[k] = 0
  <2> SUFFICES ASSUME NEW k \in SyHolders, shares'[k] = 0 PROVE principal'[k] = 0
    OBVIOUS
  <2>1. shares[k] \in Nat /\ principal[k] \in Nat
    BY <1>3
  <2>2. k # g
    <3> SUFFICES ASSUME k = g PROVE FALSE
      OBVIOUS
    <3>1. shares'[k] = shares[k] - (IF k = h THEN n ELSE 0) + n
      BY <1>6
    <3>2. CASE k = h
      BY <1>3, <2>1, <3>1, <3>2
    <3>3. CASE k # h
      BY <1>3, <2>1, <3>1, <3>3
    <3> QED BY <3>2, <3>3
  <2>3. CASE k = h
    <3>1. shares'[k] = shares[h] - n + 0 /\ principal'[k] = principal[h] - with + 0
      BY <1>6, <1>7, <2>2, <2>3
    <3>2. n = shares[h]
      BY <1>3, <2>1, <2>3, <3>1
    <3> QED BY <1>5, <2>1, <2>3, <3>1, <3>2
  <2>4. CASE k # h
    <3>1. shares'[k] = shares[k] - 0 + 0 /\ principal'[k] = principal[k] - 0 + 0
      BY <1>6, <1>7, <2>2, <2>4
    <3>2. shares[k] = 0
      BY <2>1, <3>1
    <3> QED BY <1>1, <2>1, <3>1, <3>2 DEF PrincipalFollowsShares
  <2> QED BY <2>3, <2>4
<1>11. totalShares \in Nat
  BY <1>1, ValuesType
<1> QED BY <1>2, <1>9, <1>10, <1>11 DEF Kept, PrincipalFollowsShares, NobodyShorted

\* Winding down does: it only moves what is behind the shares.
LEMMA WindDownStep ==
  ASSUME Kept, EmergencyWithdrawAll
  PROVE  Kept' /\ NobodyShorted
<1>1. SyTypeOK /\ PrincipalFollowsShares /\ totalShares \in Nat
  BY ValuesType DEF Kept
<1>2. bTokens' \in Nat /\ idle' \in Nat
  <2>1. ASSUME Aum > 0, NEW paid \in Releases(Aum), Release(paid), idle' = idle + paid
        PROVE  bTokens' \in Nat /\ idle' \in Nat
    <3>1. Aum \in Nat \ {0}
      BY <1>1, <2>1, ValuesType
    <3>2. paid \in 1 .. Aum /\ bTokens' \in Nat
      BY <1>1, <2>1, <3>1, ReleaseFacts
    <3> QED BY <1>1, <2>1, <3>1, <3>2 DEF SyTypeOK
  <2>2. CASE UNCHANGED <<bTokens, idle>>
    BY <1>1, <2>2 DEF SyTypeOK
  <2> QED BY <2>1, <2>2 DEF EmergencyWithdrawAll
<1>3. /\ emergency' = TRUE /\ entriesPaused' = TRUE
      /\ UNCHANGED <<shares, principal, totalShares, sealed, bRate, readable>>
  BY DEF EmergencyWithdrawAll, ledgerVars
<1>4. SyTypeOK'
  BY <1>1, <1>2, <1>3 DEF SyTypeOK, SumOf
<1> QED BY <1>1, <1>3, <1>4 DEF Kept, PrincipalFollowsShares, NobodyShorted

\* A step of anybody's keeps the books, and nobody is shorted by it.
LEMMA SyStep ==
  ASSUME Kept, [SyNext]_syVars
  PROVE  Kept' /\ NobodyShorted
<1>1. SyTypeOK /\ PrincipalFollowsShares /\ totalShares \in Nat
  BY ValuesType DEF Kept
<1>2. CASE EmergencyWithdrawAll
  BY <1>2, WindDownStep
<1>3. ASSUME UNCHANGED ledgerVars, bTokens' = bTokens, idle' \in Nat, bRate' \in Nat \ {0},
             entriesPaused' \in BOOLEAN, emergency' \in BOOLEAN, sealed' \in BOOLEAN,
             readable' \in BOOLEAN
      PROVE  Kept' /\ NobodyShorted
  <2>1. SyTypeOK'
    BY <1>1, <1>3 DEF SyTypeOK, ledgerVars, SumOf
  <2> QED BY <1>1, <1>3, <2>1 DEF Kept, PrincipalFollowsShares, NobodyShorted, ledgerVars
<1>4. CASE RenounceWrapper \/ MigrateReserveIndex \/ Reindex \/ UNCHANGED syVars
  BY <1>1, <1>3, <1>4
     DEF RenounceWrapper, MigrateReserveIndex, Reindex, syVars, modeVars, poolVars, SyTypeOK
<1>5. ASSUME NEW b \in BOOLEAN, SetPaused(b) PROVE Kept' /\ NobodyShorted
  BY <1>1, <1>3, <1>5 DEF SetPaused, poolVars, SyTypeOK
<1>6. ASSUME NEW r \in BRates, BRateMoves(r) PROVE Kept' /\ NobodyShorted
  BY <1>1, <1>3, <1>6, SyWrapperAssumption DEF BRateMoves, modeVars, SyTypeOK
<1>7. ASSUME NEW n \in Deposits, Donate(n) PROVE Kept' /\ NobodyShorted
  BY <1>1, <1>3, <1>7, SyWrapperAssumption DEF Donate, modeVars, poolVars, SyTypeOK
<1>8. ASSUME NEW h \in SyHolders, NEW n \in Deposits, Deposit(h, n) PROVE Kept' /\ NobodyShorted
  BY <1>8, DepositStep
<1>9. ASSUME NEW h \in SyHolders, NEW n \in 1 .. shares[h],
             \/ Redeem(h, n)
             \/ RedeemWindDown(h, n)
             \/ \E g \in SyHolders : TransferShares(h, g, n)
      PROVE  Kept' /\ NobodyShorted
  BY <1>9, RedeemStep, RedeemWindDownStep, TransferStep
<1> QED BY <1>2, <1>4, <1>5, <1>6, <1>7, <1>8, <1>9 DEF SyNext

-----------------------------------------------------------------------------
(***************************************************************************)
(* Theorems.                                                               *)
(***************************************************************************)

\* Every reachable state keeps the books: balances and principal are natural numbers, the
\* supply is the sum of the balances, and a holder without shares has no principal.
THEOREM SyInvariance == SySpec => [](SyTypeOK /\ PrincipalFollowsShares)
<1>1. SyInit => Kept
  BY SyInitKept
<1>2. Kept /\ [SyNext]_syVars => Kept'
  BY SyStep
<1>3. Kept => SyTypeOK /\ PrincipalFollowsShares
  BY DEF Kept
<1> QED BY <1>1, <1>2, <1>3, PTL DEF SySpec

\* Whoever left or sent everything away carries no cost basis into a later accrued_yield.
THEOREM NoStalePrincipal == SySpec => []PrincipalFollowsShares
BY SyInvariance, PTL

\* A deposit never lowers the rate of those already in, a wind-down exit never shorts who
\* stays, and a redemption costs them at most one bToken, whatever the pool releases.
THEOREM StayersAreKept == SySpec => ShortedByOneBTokenOnly
<1>1. Kept /\ [SyNext]_syVars
        => [/\ totalShares > 0 /\ totalShares' > totalShares => ExchangeRate' >= ExchangeRate
            /\ totalShares' < totalShares
                 => BackingKept(IF emergency THEN 0 ELSE MulDivCeil(1, bRate, Scalar))]_syVars
  BY SyStep DEF NobodyShorted
<1>2. SyTypeOK /\ PrincipalFollowsShares => Kept
  BY DEF Kept
<1> QED BY <1>1, <1>2, SyInvariance, PTL DEF SySpec, ShortedByOneBTokenOnly

\* A wind-down that recovers the whole position prices nobody down, whatever was donated,
\* paused, migrated or repriced before it.
THEOREM SolventWindDown == SySpec => FullRecoveryKeepsRate
<1>1. SyTypeOK /\ [SyNext]_syVars
        => [~emergency /\ emergency' /\ totalShares > 0 /\ idle' - idle = Aum
              => ExchangeRate' >= ExchangeRate]_syVars
  <2> SUFFICES ASSUME SyTypeOK, SyNext, ~emergency, emergency', totalShares > 0,
                      idle' - idle = Aum
               PROVE  ExchangeRate' >= ExchangeRate
    BY DEF syVars, modeVars
  <2>1. totalShares' = totalShares /\ idle' \in Int
    <3>1. EmergencyWithdrawAll
      BY DEF SyNext, RenounceWrapper, MigrateReserveIndex, Reindex, SetPaused, BRateMoves, Donate,
             Deposit, Redeem, RedeemWindDown, TransferShares, modeVars
    <3>2. totalShares' = totalShares
      BY <3>1 DEF EmergencyWithdrawAll, ledgerVars
    <3>3. idle' \in Int
      <4>1. ASSUME NEW paid \in Releases(Aum) PROVE paid \in Int
        BY ValuesType, SyWrapperAssumption DEF Releases
      <4> QED BY <3>1, <4>1 DEF EmergencyWithdrawAll, SyTypeOK
    <3> QED BY <3>2, <3>3
  <2> DEFINE a == Aum
             i == idle'
  <2>2. a \in Nat /\ totalShares \in Nat \ {0} /\ WAD \in Nat
    BY ValuesType, SyWrapperAssumption
  <2>3. i \in Nat /\ a <= i
    <3>1. idle \in Nat /\ i \in Int /\ i - idle = a
      BY <2>1 DEF SyTypeOK
    <3> HIDE DEF a, i
    <3> QED BY <2>2, <3>1
  <2>4. ExchangeRate = MulDivFloor(a, WAD, totalShares)
    BY <2>2 DEF ExchangeRate, RateOver, Assets
  <2>5. ExchangeRate' = MulDivFloor(i, WAD, totalShares)
    BY <2>1, <2>2 DEF ExchangeRate, RateOver, Assets
  <2> HIDE DEF a, i
  <2>6. MulDivFloor(a, WAD, totalShares) <= MulDivFloor(i, WAD, totalShares)
    BY <2>2, <2>3, FloorMonotone
  <2>7. MulDivFloor(a, WAD, totalShares) \in Nat /\ MulDivFloor(i, WAD, totalShares) \in Nat
    BY <2>2, <2>3, FloorBound
  <2> QED BY <2>4, <2>5, <2>6, <2>7
<1> QED BY <1>1, SyInvariance, PTL DEF SySpec, FullRecoveryKeepsRate

\* In wind-down every exit is funded: whatever part of its shares a holder redeems, what
\* was recovered covers its slice.  No other condition of redeem's wind-down path reads
\* anything but the caller's own shares.
ExitsAreFunded ==
  \A h \in SyHolders : \A n \in 1 .. shares[h] : totalShares > 0 /\ idle >= Slice(n)

\* No order of exits, donations and transfers leaves a later exit unfunded.
THEOREM FundedExits == SySpec => []ExitsAreFunded
<1>1. SyTypeOK => ExitsAreFunded
  <2> SUFFICES ASSUME SyTypeOK, NEW h \in SyHolders, NEW n \in 1 .. shares[h]
               PROVE  totalShares > 0 /\ idle >= Slice(n)
    BY DEF ExitsAreFunded
  <2>1. /\ n \in Nat \ {0} /\ n <= shares[h] /\ shares[h] \in Nat /\ idle \in Nat
        /\ totalShares \in Nat /\ shares[h] <= totalShares
    BY ValuesType DEF SyTypeOK
  <2>2. n <= totalShares /\ totalShares > 0
    BY <2>1
  <2>3. Slice(n) \in 0 .. idle
    BY <2>1, <2>2, SliceFacts
  <2> QED BY <2>1, <2>2, <2>3
<1> QED BY <1>1, SyInvariance, PTL

-----------------------------------------------------------------------------
(***************************************************************************)
(* The abstract fund.                                                      *)
(***************************************************************************)

\* The fund's rate and its dust are those of the wrapper.
LEMMA FundValues ==
  /\ Fund!Rate = ExchangeRate
  /\ Fund!Dust = IF emergency THEN 0 ELSE MulDivCeil(1, bRate, Scalar)
BY DEF Fund!Rate, Fund!Dust, Fund!MulDivFloor, Fund!MulDivCeil, MulDivFloor, MulDivCeil,
       ExchangeRate, RateOver

\* A deposit issues shares for what it brings in.
LEMMA DepositIssues ==
  ASSUME Kept, NEW h \in SyHolders, NEW amount \in Deposits, Deposit(h, amount)
  PROVE  Fund!Issue
<1>1. PICK bought \in Nat, credited \in Nat, minted \in Nat \ {0} :
        /\ minted = MulDivFloor(credited, WAD, ExchangeRate)
        /\ AssetsFromBTokens(bTokens') = Aum + credited
        /\ totalShares' = totalShares + minted
  BY DepositFacts DEF Kept
<1>2. /\ ~emergency /\ emergency' = emergency /\ bRate' = bRate /\ ExchangeRate > 0
  BY DEF Deposit, DepositsOpen, modeVars
<1>3. totalShares \in Nat /\ Aum \in Nat /\ ExchangeRate \in Nat \ {0}
  BY <1>2, ValuesType DEF Kept
<1>4. Assets = Aum /\ Assets' = Aum + credited
  BY <1>1, <1>2 DEF Assets, Aum, AssetsFromBTokens
<1> DEFINE r == ExchangeRate
           a == Aum
<1>5. minted * r <= credited * WAD
  <2>1. r \in Nat \ {0} /\ minted = MulDivFloor(credited, WAD, r)
    BY <1>1, <1>3
  <2> HIDE DEF r
  <2> QED BY <2>1, SyWrapperAssumption, FloorBound
<1>6. totalShares' - totalShares = minted /\ totalShares' > totalShares
  BY <1>1, <1>3
<1>7. Assets' - Assets = credited
  BY <1>3, <1>4
<1>8. (totalShares' - totalShares) * Fund!Rate <= (Assets' - Assets) * WAD
  BY <1>5, <1>6, <1>7, FundValues
<1> QED BY <1>2, <1>6, <1>8 DEF Fund!Issue

\* An exit, from the pool or from what wind-down recovered, burns shares and costs those
\* who stay at most the dust.
LEMMA ExitLeaves ==
  ASSUME Kept, NEW h \in SyHolders, NEW n \in 1 .. shares[h], Redeem(h, n) \/ RedeemWindDown(h, n)
  PROVE  Fund!Leave
<1>1. UNCHANGED <<bRate, emergency>>
  BY DEF Redeem, RedeemWindDown, modeVars, poolVars
<1>2. NobodyShorted
  BY RedeemStep, RedeemWindDownStep
<1>3. SyTypeOK /\ totalShares \in Nat /\ n \in Nat \ {0} /\ n \in 0 .. shares[h] /\ shares[h] \in Nat
  BY ValuesType DEF Kept, SyTypeOK
<1>4. totalShares' < totalShares
  <2>1. CASE Redeem(h, n)
    <3>1. PICK paid \in Nat \ {0}, burnt \in 0 .. shares[h] :
            BurnShares(h, burnt) /\ paid * WAD <= burnt * ExchangeRate
      BY <1>3, <2>1, RedeemFacts
    <3>2. burnt # 0
      <4> SUFFICES ASSUME burnt = 0 PROVE FALSE
        OBVIOUS
      <4>1. 0 * ExchangeRate = 0
        BY <1>3, ValuesType
      <4>2. 1 * WAD <= paid * WAD /\ paid * WAD \in Int /\ WAD \in Nat \ {0}
        BY SyWrapperAssumption, TimesMonotone
      <4> QED BY <3>1, <4>1, <4>2
    <3> QED BY <1>3, <3>1, <3>2 DEF BurnShares
  <2>2. CASE RedeemWindDown(h, n)
    BY <1>3, <2>2 DEF RedeemWindDown, BurnShares
  <2> QED BY <2>1, <2>2
<1>5. (Assets' + Fund!Dust) * totalShares >= Assets * totalShares'
  BY <1>2, <1>4, FundValues DEF NobodyShorted, BackingKept
<1> QED BY <1>1, <1>4, <1>5 DEF Fund!Leave

\* The rate of the bTokens moves the backing its own way, and not at all after wind-down.
LEMMA RateMoveRevalues ==
  ASSUME Kept, NEW r \in BRates, BRateMoves(r)
  PROVE  Fund!Revalue
<1>1. /\ bRate' = r /\ UNCHANGED <<totalShares, emergency, bTokens, idle>>
  BY DEF BRateMoves, ledgerVars, modeVars
<1>2. /\ bRate \in Nat \ {0} /\ bRate' \in Nat \ {0} /\ bTokens \in Nat /\ Scalar \in Nat \ {0}
      /\ emergency \in BOOLEAN /\ idle \in Nat
  BY <1>1, SyWrapperAssumption DEF Kept, SyTypeOK
<1>3. CASE emergency
  <2>1. Assets' = Assets /\ Assets \in Int
    BY <1>1, <1>2, <1>3 DEF Assets
  <2> QED BY <1>1, <2>1 DEF Fund!Revalue
<1>4. CASE ~emergency
  <2> DEFINE p == bRate'
             before == MulDivFloor(bRate, bTokens, Scalar)
             after == MulDivFloor(p, bTokens, Scalar)
  <2>1. Assets = before /\ Assets' = after
    <3>1. Assets = MulDivFloor(bTokens, bRate, Scalar) /\ Assets' = MulDivFloor(bTokens, p, Scalar)
      BY <1>1, <1>4 DEF Assets, Aum, AssetsFromBTokens
    <3>2. bTokens * bRate = bRate * bTokens /\ bTokens * p = p * bTokens
      BY <1>2
    <3> HIDE DEF p
    <3> QED BY <3>1, <3>2 DEF MulDivFloor
  <2>2. p \in Nat \ {0}
    BY <1>2
  <2> HIDE DEF p
  <2>3. p >= bRate => after >= before
    <3>1. ASSUME bRate <= p PROVE before <= after
      BY <1>2, <2>2, <3>1, FloorMonotone
    <3>2. before \in Nat /\ after \in Nat
      BY <1>2, <2>2, FloorBound
    <3> HIDE DEF before, after
    <3> QED BY <1>2, <2>2, <3>1, <3>2
  <2>4. p <= bRate => after <= before
    BY <1>2, <2>2, FloorMonotone
  <2> HIDE DEF before, after
  <2> QED BY <1>1, <1>4, <2>1, <2>3, <2>4 DEF Fund!Revalue, p
<1> QED BY <1>2, <1>3, <1>4

\* Underlying sent to the wrapper is a gift after wind-down, and nothing to the shares
\* before it.
LEMMA DonationGives ==
  ASSUME Kept, NEW n \in Deposits, Donate(n)
  PROVE  Fund!Gift \/ UNCHANGED Fund!fundVars
<1>1. /\ idle' = idle + n /\ UNCHANGED <<totalShares, bRate, bTokens, emergency>>
  BY DEF Donate, ledgerVars, modeVars, poolVars
<1>2. n \in Nat /\ idle \in Nat /\ emergency \in BOOLEAN
  BY SyWrapperAssumption DEF Kept, SyTypeOK
<1>3. CASE emergency
  <2>1. Assets' >= Assets
    BY <1>1, <1>2, <1>3 DEF Assets
  <2> QED BY <1>1, <1>3, <2>1 DEF Fund!Gift
<1>4. CASE ~emergency
  <2>1. Assets' = Assets
    BY <1>1, <1>4 DEF Assets, Aum, AssetsFromBTokens
  <2> QED BY <1>1, <2>1 DEF Fund!fundVars
<1> QED BY <1>2, <1>3, <1>4

\* Every step of the wrapper is one of the fund, or none.
LEMMA FundStep == Kept /\ [SyNext]_syVars => [Fund!FundNext]_(Fund!fundVars)
<1> SUFFICES ASSUME Kept, [SyNext]_syVars PROVE Fund!FundNext \/ UNCHANGED Fund!fundVars
  OBVIOUS
<1>1. CASE EmergencyWithdrawAll
  <2>1. ~emergency /\ emergency' = TRUE /\ UNCHANGED <<totalShares, bRate>>
    BY <1>1 DEF EmergencyWithdrawAll, ledgerVars
  <2>2. Assets' \in Nat
    <3>1. idle' \in Nat
      BY <1>1, WindDownStep DEF Kept, SyTypeOK
    <3> QED BY <2>1, <3>1 DEF Assets
  <2> QED BY <2>1, <2>2 DEF Fund!Close, Fund!FundNext
<1>2. CASE RenounceWrapper \/ MigrateReserveIndex \/ Reindex \/ UNCHANGED syVars
  BY <1>2 DEF RenounceWrapper, MigrateReserveIndex, Reindex, syVars, ledgerVars, modeVars, poolVars,
              Fund!fundVars, Assets, Aum, AssetsFromBTokens
<1>3. ASSUME NEW b \in BOOLEAN, SetPaused(b) PROVE UNCHANGED Fund!fundVars
  BY <1>3 DEF SetPaused, ledgerVars, poolVars, Fund!fundVars, Assets, Aum, AssetsFromBTokens
<1>4. ASSUME NEW h \in SyHolders, NEW g \in SyHolders, NEW n \in 1 .. shares[h], TransferShares(h, g, n)
      PROVE  UNCHANGED Fund!fundVars
  BY <1>4 DEF TransferShares, modeVars, poolVars, Fund!fundVars, Assets, Aum, AssetsFromBTokens
<1>5. ASSUME NEW r \in BRates, BRateMoves(r) PROVE Fund!FundNext
  BY <1>5, RateMoveRevalues DEF Fund!FundNext
<1>6. ASSUME NEW n \in Deposits, Donate(n) PROVE Fund!FundNext \/ UNCHANGED Fund!fundVars
  BY <1>6, DonationGives DEF Fund!FundNext
<1>7. ASSUME NEW h \in SyHolders, NEW n \in Deposits, Deposit(h, n) PROVE Fund!FundNext
  BY <1>7, DepositIssues DEF Fund!FundNext
<1>8. ASSUME NEW h \in SyHolders, NEW n \in 1 .. shares[h], Redeem(h, n) \/ RedeemWindDown(h, n)
      PROVE  Fund!FundNext
  BY <1>8, ExitLeaves DEF Fund!FundNext
<1> QED BY <1>1, <1>2, <1>3, <1>4, <1>5, <1>6, <1>7, <1>8 DEF SyNext

\* The wrapper implements the fund.
THEOREM WrapperIsShareFund == SySpec => ImplementsFund
<1>1. SyInit => Fund!FundInit
  <2> SUFFICES ASSUME SyInit PROVE Fund!FundInit
    OBVIOUS
  <2>1. totalShares = 0 /\ bRate = Scalar /\ emergency = FALSE
    BY DEF SyInit
  <2>2. Assets = 0
    <3>1. Assets = MulDivFloor(0, bRate, Scalar) /\ bRate \in Nat \ {0} /\ Scalar \in Nat \ {0}
      BY SyWrapperAssumption DEF SyInit, Assets, Aum, AssetsFromBTokens
    <3> QED BY <3>1 DEF MulDivFloor
  <2> QED BY <2>1, <2>2 DEF Fund!FundInit
<1>2. SyTypeOK /\ PrincipalFollowsShares => Kept
  BY DEF Kept
<1> QED BY <1>1, <1>2, FundStep, SyInvariance, PTL DEF SySpec, ImplementsFund, Fund!FundSpec

\* The rate over fewer shares with no less behind each does not fall.
LEMMA RateKept ==
  ASSUME NEW a \in Nat, NEW T \in Nat \ {0}, NEW b \in Nat, NEW U \in Nat \ {0}, NEW W \in Nat,
         b * T >= a * U
  PROVE  MulDivFloor(a, W, T) <= MulDivFloor(b, W, U)
<1> DEFINE q == MulDivFloor(a, W, T)
<1>1. q \in Nat /\ q * T <= a * W
  BY FloorBound
<1> HIDE DEF q
<1>2. (q * U) * T <= (b * W) * T
  <2> DEFINE x == q * T
             y == a * W
             u == a * U
             v == b * T
  <2>1. x \in Int /\ y \in Int /\ u \in Int /\ v \in Int /\ x <= y /\ u <= v
    BY <1>1
  <2> HIDE DEF x, y, u, v
  <2>2. x * U <= y * U /\ u * W <= v * W
    BY <2>1, TimesMonotone
  <2>3. x * U = (q * U) * T /\ y * U = u * W /\ v * W = (b * W) * T
    BY <1>1 DEF x, y, u, v
  <2>4. x * U \in Int /\ y * U \in Int /\ v * W \in Int
    BY <2>1
  <2> DEFINE i == x * U
             j == y * U
             k == v * W
  <2>5. i \in Int /\ j \in Int /\ k \in Int /\ i <= j /\ j <= k
    BY <2>2, <2>3, <2>4
  <2> HIDE DEF i, j, k
  <2>6. i <= k
    BY <2>5
  <2> QED BY <2>3, <2>6 DEF i, k
<1>3. q * U <= b * W
  <2> DEFINE x == q * U
             y == b * W
  <2>1. x \in Int /\ y \in Int /\ x * T <= y * T
    BY <1>1, <1>2
  <2> HIDE DEF x, y
  <2>2. x <= y
    BY <2>1, TimesCancels
  <2> QED BY <2>2 DEF x, y
<1>4. q <= MulDivFloor(b, W, U)
  BY <1>1, <1>3, FloorLargest
<1> QED BY <1>4 DEF q

\* After wind-down nothing is issued and the rate never falls, from what the fund promises
\* alone: whatever is paused, unpaused, donated, repriced or redeemed.
THEOREM WindDownIsFinal == SySpec => WindDownNeverFalls
<1>1. Kept /\ Kept' /\ [SyNext]_syVars
        => [emergency =>
              /\ emergency'
              /\ totalShares' <= totalShares
              /\ totalShares' > 0 => ExchangeRate' >= ExchangeRate]_syVars
  <2> SUFFICES ASSUME Kept, Kept', [SyNext]_syVars, emergency
               PROVE  /\ emergency'
                      /\ totalShares' <= totalShares
                      /\ totalShares' > 0 => ExchangeRate' >= ExchangeRate
    OBVIOUS
  <2> DEFINE a == Assets
             b == Assets'
             T == totalShares
             U == totalShares'
  <2>1. T \in Nat /\ a \in Nat /\ U \in Nat /\ b \in Nat /\ WAD \in Nat \ {0}
    <3>1. T \in Nat /\ a \in Nat
      BY ValuesType DEF Kept
    <3>2. U \in Nat /\ idle' \in Nat
      BY SyWrapperAssumption, SumType DEF Kept, SyTypeOK, SumOf
    <3>3. Fund!FundNext \/ UNCHANGED Fund!fundVars
      BY FundStep
    <3>4. emergency'
      BY <3>3 DEF Fund!FundNext, Fund!Issue, Fund!Leave, Fund!Revalue, Fund!Gift, Fund!Close, Fund!fundVars
    <3> QED BY <3>1, <3>2, <3>4, SyWrapperAssumption DEF Assets
  <2>2. emergency' /\ U <= T /\ b * T >= a * U
    <3>1. CASE Fund!Leave
      <4>1. emergency' = emergency /\ U < T /\ (b + 0) * T >= a * U
        BY <3>1, FundValues DEF Fund!Leave
      <4> HIDE DEF a, b, T, U
      <4>2. b + 0 = b
        BY <2>1
      <4> QED BY <2>1, <4>1, <4>2
    <3>2. CASE Fund!Revalue \/ Fund!Gift \/ UNCHANGED Fund!fundVars
      <4>1. emergency' = emergency /\ U = T /\ (b = a \/ b >= a)
        BY <3>2, Zenon DEF Fund!Revalue, Fund!Gift, Fund!fundVars
      <4> HIDE DEF a, b, T, U
      <4>2. a * T <= b * T
        BY <2>1, <4>1, TimesMonotone
      <4>3. a * T \in Int /\ b * T \in Int
        BY <2>1
      <4> QED BY <2>1, <4>1, <4>2, <4>3
    <3>3. CASE Fund!Issue \/ Fund!Close
      BY <3>3 DEF Fund!Issue, Fund!Close
    <3> QED BY FundStep, <3>1, <3>2, <3>3 DEF Fund!FundNext
  <2>3. ASSUME U > 0 PROVE ExchangeRate' >= ExchangeRate
    <3>1. T # 0 /\ U # 0
      BY <2>1, <2>2, <2>3
    <3>2. ExchangeRate = MulDivFloor(a, WAD, T) /\ ExchangeRate' = MulDivFloor(b, WAD, U)
      BY <3>1 DEF ExchangeRate, RateOver
    <3> HIDE DEF a, b, T, U
    <3>3. MulDivFloor(a, WAD, T) <= MulDivFloor(b, WAD, U)
      BY <2>1, <2>2, <3>1, RateKept
    <3>4. MulDivFloor(a, WAD, T) \in Nat /\ MulDivFloor(b, WAD, U) \in Nat
      BY <2>1, <3>1, FloorBound
    <3> QED BY <3>2, <3>3, <3>4
  <2> QED BY <2>2, <2>3
<1>2. SyTypeOK /\ PrincipalFollowsShares => Kept
  BY DEF Kept
<1> QED BY <1>1, <1>2, SyInvariance, PTL DEF SySpec, WindDownNeverFalls

-----------------------------------------------------------------------------
(***************************************************************************)
(* The wrapper's surfaces together.                                        *)
(***************************************************************************)

\* No surface disturbs another: each sees only steps of its own.
THEOREM SurfacesCompose == WrapperSpec => SySpec /\ Spec /\ Sep41Spec
<1>1. WrapperInit => SyInit /\ Init /\ Sep41Init
  BY DEF WrapperInit
<1>2. [WrapperNext]_wrapperVars => [SyNext]_syVars /\ [Next]_vars /\ [Sep41Next]_sep41Vars
  BY DEF WrapperNext, wrapperVars
<1> QED BY <1>1, <1>2, PTL DEF WrapperSpec, SySpec, Spec, Sep41Spec

\* In the composition every variable has its type, and both supplies are the sums of
\* their balances.
THEOREM CompositionTypes == WrapperSpec => []TypesHold
<1>1. SyTypeOK /\ TypeOK /\ Sep41TypeOK => TypesHold
  BY DEF TypesHold
<1> QED BY <1>1, SurfacesCompose, SyInvariance, TypeCorrect, SupplyIsTheSum, PTL

=============================================================================

---------------------------- MODULE BackingProofs ----------------------------
(***************************************************************************)
(* The theorems about yield, as long as the SY rate never falls: the surplus *)
(* over the reservation for principal covers what all holders are owed,      *)
(* whatever was split, recombined, transferred, burnt and claimed before,    *)
(* and a transfer of YT conserves it.                                       *)
(*                                                                         *)
(* That the surplus covers the yield at the present rate is not inductive:   *)
(* it must cover the yield of every rate to come.  The invariant says it     *)
(* without rounding, in a unit fine enough for the division by the rate on   *)
(* record to be exact: D of these units are a share of SY, and k are what a   *)
(* unit of principal takes at that rate.  Each holder has a claim, the yield  *)
(* it has banked and for its YT the shares that were worth them at its own    *)
(* checkpoint; PT without a YT beside it is reserved for at the rate on       *)
(* record.  As the rate rises a claim turns, share for share, from what is    *)
(* reserved for principal into yield.                                       *)
(***************************************************************************)
EXTENDS TokenizerProofs

\* What a claim p covers, D units to a share: the banked yield A, and a balance of y YT
\* at its checkpoint c, which is at most the rate on record R.
Covers(p, D, A, y, c, R) ==
  /\ A * D <= p
  /\ c # NoRate => c \in Nat \ {0} /\ c <= R
  /\ y > 0 => c # NoRate /\ (y * WAD) * D <= (p - A * D) * c

\* An escrow e holds the claims and the principal no YT is beside, U of it.
Ledgered(D, k, claim, e, U, A, y, c, R) ==
  /\ k * R = WAD * D
  /\ Total(claim) + U * k <= e * D
  /\ \A h \in Holders : Covers(claim[h], D, A[h], y[h], c[h], R)

\* PT that is outstanding without YT.  Before maturity an excess of YT, left by burns of
\* PT, is not counted on; afterwards it is what redemptions have already been paid for.
Unpaired == IF matured THEN ptSupply - ytSupply ELSE Larger(0, ptSupply - ytSupply)

\* Nobody ever held anything.
Untouched ==
  /\ ptSupply = 0 /\ ytSupply = 0
  /\ \A h \in Holders : ytBalance[h] = 0 /\ accrued[h] = 0 /\ checkpoint[h] = NoRate

Backed ==
  IF RateOnRecord = NoRate THEN Untouched
  ELSE \E D, k \in Nat \ {0} : \E claim \in [Holders -> Nat] :
         Ledgered(D, k, claim, escrow, Unpaired, accrued, ytBalance, checkpoint, RateOnRecord)

\* Rates are positive, and the one on record is not above the live one before maturity.
RatesRise ==
  /\ syRate \in Nat \ {0}
  /\ RateOnRecord \in (Nat \ {0}) \cup {NoRate}
  /\ RateOnRecord # NoRate /\ ~matured => RateOnRecord <= syRate

Solvent == TypeOK /\ FrozenIsLastObservation /\ RatesRise /\ Backed

-----------------------------------------------------------------------------
(***************************************************************************)
(* Settling.                                                               *)
(***************************************************************************)

\* Yield, in shares, and the shares a balance is worth at the new rate are together at
\* most what the balance was worth at the old one.
LEMMA YieldWithin ==
  ASSUME NEW y \in Nat, NEW c \in Nat \ {0}, NEW r \in Nat \ {0}, c < r,
         NEW D \in Nat, NEW s \in Nat, (y * WAD) * D <= s * c
  PROVE  /\ OwedShares(y, c, r) \in Nat
         /\ OwedShares(y, c, r) * (D * r) + (y * WAD) * D <= s * r
<1> DEFINE m == MulDivFloor(y, r - c, c)
           o == OwedShares(y, c, r)
           Z == y * WAD
           d == r - c
<1>1. d \in Nat /\ r = c + d /\ WAD \in Nat
  BY YtTokenAssumption
<1> HIDE DEF d
<1>2. m \in Nat /\ m * c <= y * d
  BY <1>1, FloorBound DEF d
<1> HIDE DEF m
<1>3. o \in Nat /\ o * r <= m * WAD
  BY <1>1, <1>2, FloorBound DEF OwedShares, m
<1> HIDE DEF o
<1>4. Z \in Nat
  BY <1>1
<1>5. (o * r) * c <= Z * d
  <2> DEFINE u == o * r
             v == m * WAD
             w == m * c
             x == y * d
  <2>1. u \in Nat /\ v \in Nat /\ w \in Nat /\ x \in Nat /\ u <= v /\ w <= x
    BY <1>1, <1>2, <1>3
  <2>2. v * c = w * WAD /\ x * WAD = Z * d
    BY <1>1, <1>2
  <2> HIDE DEF u, v, w, x, Z
  <2>3. u * c <= v * c /\ w * WAD <= x * WAD
    BY <1>1, <2>1, TimesMonotone
  <2>4. u * c \in Int /\ v * c \in Int /\ w * WAD \in Int /\ x * WAD \in Int
    BY <1>1, <2>1
  <2>5. u * c <= x * WAD
    BY <2>2, <2>3, <2>4
  <2> QED BY <2>2, <2>5 DEF u
<1> HIDE DEF Z
<1>6. ((o * r) * D + Z * D) * c <= (s * r) * c
  <2> DEFINE u == (o * r) * c
             v == Z * d
             w == Z * D
             x == s * c
  <2>1. u \in Nat /\ v \in Nat /\ w \in Nat /\ x \in Nat /\ u <= v /\ w <= x
    BY <1>1, <1>3, <1>4, <1>5 DEF Z
  <2>2. /\ ((o * r) * D + Z * D) * c = u * D + w * c
        /\ v * D = w * d
        /\ w * c + w * d = w * r
        /\ x * r = (s * r) * c
    BY <1>1, <1>3, <1>4
  <2> HIDE DEF u, v, w, x
  <2>3. u * D <= v * D /\ w * r <= x * r
    BY <2>1, TimesMonotone
  <2>4. u * D \in Int /\ v * D \in Int /\ w * c \in Int /\ w * d \in Int /\ w * r \in Int
        /\ x * r \in Int
    BY <1>1, <2>1
  <2>5. u * D + w * c <= x * r
    BY <2>2, <2>3, <2>4
  <2> QED BY <2>2, <2>5
<1>7. (o * r) * D + Z * D <= s * r
  <2> DEFINE u == (o * r) * D + Z * D
             v == s * r
  <2>1. u \in Int /\ v \in Int /\ u * c <= v * c
    BY <1>3, <1>4, <1>6
  <2> HIDE DEF u, v
  <2>2. u <= v
    BY <2>1, TimesCancels
  <2> QED BY <2>2 DEF u, v
<1>8. (o * r) * D = o * (D * r)
  BY <1>3
<1> QED BY <1>3, <1>7, <1>8 DEF o, Z

\* The same for a holder: its claim, at a unit r times finer, covers the yield it has and
\* has earned, and leaves what its balance is worth at r.
LEMMA ClaimSettles ==
  ASSUME TypeOK, NEW h \in Holders, NEW r \in Nat \ {0}, NEW R \in Nat \ {0}, R <= r,
         NEW D \in Nat \ {0}, NEW p \in Nat,
         Covers(p, D, accrued[h], ytBalance[h], checkpoint[h], R)
  PROVE  /\ Pending(h, r) \in Nat
         /\ (accrued[h] + Pending(h, r)) * (D * r) + ytBalance[h] * (WAD * D) <= p * r
<1> DEFINE A == accrued[h]
           y == ytBalance[h]
           c == checkpoint[h]
           s == p - A * D
           pend == Pending(h, r)
<1>1. A \in Nat /\ y \in Nat /\ WAD \in Nat
  BY YtTokenAssumption DEF TypeOK, Typed, YtTypeOK
<1>2. /\ A * D <= p
      /\ c # NoRate => c \in Nat \ {0} /\ c <= R
      /\ y > 0 => c # NoRate /\ (y * WAD) * D <= (p - A * D) * c
  BY DEF Covers
<1>3. pend = IF c # NoRate /\ c < r /\ y > 0 THEN OwedShares(y, c, r) ELSE 0
  BY DEF Pending, Earns
<1>4. s \in Nat /\ p = A * D + s
  <2> DEFINE u == A * D
  <2>1. u \in Nat /\ u <= p
    BY <1>1, <1>2
  <2> HIDE DEF u
  <2>2. p - u \in Nat /\ p = u + (p - u)
    BY <2>1
  <2> QED BY <2>2 DEF u
<1> HIDE DEF A, y, c, pend
<1>5. pend \in Nat /\ pend * (D * r) + (y * WAD) * D <= s * r
  <2>1. CASE c # NoRate /\ c < r /\ y > 0
    <3>1. c \in Nat \ {0} /\ (y * WAD) * D <= s * c
      BY <1>2, <2>1
    <3> HIDE DEF s
    <3> QED BY <1>1, <1>3, <1>4, <2>1, <3>1, YieldWithin
  <2>2. CASE y = 0
    <3>1. s * r \in Nat /\ (y * WAD) * D = 0 /\ 0 * (D * r) = 0
      BY <1>1, <1>4, <2>2
    <3>2. pend = 0
      BY <1>3, <2>2
    <3> HIDE DEF s
    <3> QED BY <3>1, <3>2
  <2>3. CASE y > 0 /\ ~(c # NoRate /\ c < r)
    <3>1. c = r /\ (y * WAD) * D <= s * r
      BY <1>2, <2>3
    <3>2. pend = 0 /\ 0 * (D * r) = 0 /\ (y * WAD) * D \in Int
      BY <1>1, <1>3, <2>3
    <3> HIDE DEF s
    <3> QED BY <3>1, <3>2
  <2> QED BY <1>1, <2>1, <2>2, <2>3
<1> HIDE DEF s
<1>6. /\ (A + pend) * (D * r) = (A * D) * r + pend * (D * r)
      /\ y * (WAD * D) = (y * WAD) * D
      /\ p * r = (A * D) * r + s * r
  BY <1>1, <1>4, <1>5
<1>7. /\ (A * D) * r \in Int /\ pend * (D * r) \in Int /\ (y * WAD) * D \in Int /\ s * r \in Int
  BY <1>1, <1>4, <1>5
<1>8. (A + pend) * (D * r) + y * (WAD * D) <= p * r
  BY <1>5, <1>6, <1>7
<1> QED BY <1>5, <1>8 DEF A, y, pend

\* Settling some of the holders at the rate r a call is priced at, in a unit r times finer
\* still: nothing is lost, and the claims of the settled holders are exact.
SettledAt(D, k, mid, S, r) ==
  /\ Ledgered(D, k, mid, escrow, Unpaired, SettledAccrued(S, r), ytBalance,
              SettledCheckpoint(S, r), r)
  /\ SettledAccrued(S, r) \in [Holders -> Nat]
  /\ \A h \in S : /\ mid[h] = SettledAccrued(S, r)[h] * D + ytBalance[h] * k
                  /\ SettledCheckpoint(S, r)[h] = r

\* Nothing to settle: a market nobody ever used.
LEMMA SettledFromUntouched ==
  ASSUME TypeOK, Untouched, NEW r \in Nat \ {0}, NEW S \in SUBSET Holders
  PROVE  \E D, k \in Nat \ {0} : \E mid \in [Holders -> Nat] : SettledAt(D, k, mid, S, r)
<1> DEFINE mid == [h \in Holders |-> 0]
           A == SettledAccrued(S, r)
           c == SettledCheckpoint(S, r)
<1>1. WAD \in Nat \ {0} /\ escrow \in Nat /\ checkpoint \in [Holders -> Nat \cup {NoRate}]
  BY YtTokenAssumption DEF TypeOK, Typed, YtTypeOK
<1>2. \A h \in Holders : /\ ytBalance[h] = 0 /\ accrued[h] = 0 /\ checkpoint[h] = NoRate
                         /\ Pending(h, r) = 0
  BY DEF Untouched, Pending, Earns
<1>3. \A h \in Holders : A[h] = 0 /\ c[h] \in {NoRate, r} /\ (h \in S => c[h] = r)
  BY <1>2 DEF SettledAccrued, SettledCheckpoint
<1>4. A \in [Holders -> Nat]
  BY <1>2 DEF SettledAccrued
<1>5. Total(mid) = 0
  BY PtTokenAssumption, TotalOfZeros DEF Total
<1>6. Unpaired = 0
  BY DEF Untouched, Unpaired, Larger
<1> HIDE DEF A, c
<1>7. \A h \in Holders : Covers(mid[h], r, A[h], ytBalance[h], c[h], r)
  <2> SUFFICES ASSUME NEW h \in Holders PROVE Covers(0, r, A[h], ytBalance[h], c[h], r)
    OBVIOUS
  <2> QED BY <1>2, <1>3 DEF Covers
<1>8. Total(mid) + Unpaired * WAD <= escrow * r
  <2>1. escrow * r \in Nat /\ 0 * WAD = 0
    BY <1>1
  <2> HIDE DEF mid
  <2> QED BY <1>5, <1>6, <2>1
<1>9. SettledAt(r, WAD, mid, S, r)
  <2>1. \A h \in S : mid[h] = A[h] * r + ytBalance[h] * WAD /\ c[h] = r
    <3> SUFFICES ASSUME NEW h \in S PROVE 0 = A[h] * r + ytBalance[h] * WAD
      BY <1>3
    <3>1. A[h] = 0 /\ ytBalance[h] = 0
      BY <1>2, <1>3
    <3> QED BY <1>1, <3>1
  <2> HIDE DEF mid
  <2> QED BY <1>4, <1>7, <1>8, <2>1 DEF SettledAt, Ledgered, A, c
<1>10. mid \in [Holders -> Nat]
  OBVIOUS
<1> HIDE DEF mid
<1> QED BY <1>1, <1>9, <1>10

\* What a holder not settled is owed stays covered, in the finer unit and at the higher rate.
LEMMA CoversFiner ==
  ASSUME NEW p \in Nat, NEW D \in Nat, NEW A \in Nat, NEW y \in Nat, NEW c, NEW R \in Nat,
         NEW r \in Nat, R <= r, Covers(p, D, A, y, c, R)
  PROVE  Covers(p * r, D * r, A, y, c, r)
<1>1. /\ A * D <= p
      /\ c # NoRate => c \in Nat \ {0} /\ c <= r
      /\ y > 0 => c # NoRate /\ (y * WAD) * D <= (p - A * D) * c
  BY DEF Covers
<1>2. A * (D * r) <= p * r
  <2> DEFINE u == A * D
  <2>1. u \in Int /\ u <= p
    BY <1>1
  <2>2. A * (D * r) = u * r
    OBVIOUS
  <2> HIDE DEF u
  <2> QED BY <2>1, <2>2, TimesMonotone
<1>3. ASSUME y > 0 PROVE (y * WAD) * (D * r) <= (p * r - A * (D * r)) * c
  <2> DEFINE u == (y * WAD) * D
             v == (p - A * D) * c
  <2>1. WAD \in Nat /\ c \in Nat /\ A * D \in Nat
    BY <1>1, <1>3, YtTokenAssumption
  <2>2. u \in Int /\ v \in Int /\ u <= v
    BY <1>1, <1>3, <2>1
  <2>3. (y * WAD) * (D * r) = u * r
    BY <2>1
  <2>4. (p * r - A * (D * r)) * c = v * r
    <3> DEFINE w == A * D
    <3>1. w \in Int /\ A * (D * r) = w * r
      BY <2>1
    <3> HIDE DEF w
    <3>2. (p * r - w * r) * c = ((p - w) * c) * r
      BY <2>1, <3>1
    <3> QED BY <3>1, <3>2 DEF w
  <2> HIDE DEF u, v
  <2> QED BY <2>2, <2>3, <2>4, TimesMonotone
<1> QED BY <1>1, <1>2, <1>3 DEF Covers

\* Settling at the rate a call is priced at.
LEMMA SettledFromClaims ==
  ASSUME TypeOK, NEW r \in Nat \ {0}, NEW S \in SUBSET Holders, NEW R \in Nat \ {0}, R <= r,
         matured => r = R,
         NEW D \in Nat \ {0}, NEW k \in Nat \ {0}, NEW claim \in [Holders -> Nat],
         Ledgered(D, k, claim, escrow, Unpaired, accrued, ytBalance, checkpoint, R)
  PROVE  \E E, l \in Nat \ {0} : \E mid \in [Holders -> Nat] : SettledAt(E, l, mid, S, r)
<1> DEFINE A == SettledAccrued(S, r)
           c == SettledCheckpoint(S, r)
           E == D * r
           l == WAD * D
           mid == [h \in Holders |-> IF h \in S THEN A[h] * E + ytBalance[h] * l ELSE claim[h] * r]
           fine == [h \in Holders |-> claim[h] * r]
<1>1. /\ WAD \in Nat \ {0} /\ escrow \in Nat /\ checkpoint \in [Holders -> Nat \cup {NoRate}]
      /\ ytBalance \in [Holders -> Nat] /\ accrued \in [Holders -> Nat]
      /\ ptSupply \in Int /\ ytSupply \in Int
  BY YtTokenAssumption DEF TypeOK, Typed, YtTypeOK, PtTypeOK
<1>2. /\ k * R = WAD * D
      /\ Total(claim) + Unpaired * k <= escrow * D
      /\ \A h \in Holders : Covers(claim[h], D, accrued[h], ytBalance[h], checkpoint[h], R)
  BY DEF Ledgered
<1>3. \A h \in Holders :
        /\ Pending(h, r) \in Nat
        /\ (accrued[h] + Pending(h, r)) * (D * r) + ytBalance[h] * (WAD * D) <= claim[h] * r
  BY <1>2, ClaimSettles
<1>4. A \in [Holders -> Nat] /\ \A h \in Holders : A[h] = accrued[h] + (IF h \in S THEN Pending(h, r) ELSE 0)
  BY <1>1, <1>3 DEF SettledAccrued
<1>5. \A h \in Holders : /\ h \in S => c[h] = r
                         /\ h \notin S => c[h] = checkpoint[h]
  <2> SUFFICES ASSUME NEW h \in S, ~(checkpoint[h] = NoRate \/ checkpoint[h] < r)
               PROVE  checkpoint[h] = r
    BY <1>1 DEF SettledCheckpoint
  <2> QED BY <1>2 DEF Covers
<1>6. E \in Nat \ {0} /\ l \in Nat \ {0} /\ l * r = WAD * E
  <2>1. E > 0 /\ l > 0
    <3>1. 1 * r <= D * r /\ 1 * D <= WAD * D
      BY <1>1, TimesMonotone
    <3>2. D * r \in Int /\ WAD * D \in Int
      BY <1>1
    <3> QED BY <3>1, <3>2
  <2> QED BY <1>1, <2>1
<1> HIDE DEF A, c, E, l
<1>7. mid \in [Holders -> Nat] /\ fine \in [Holders -> Nat]
  <2>1. \A h \in Holders : A[h] * E + ytBalance[h] * l \in Nat /\ claim[h] * r \in Nat
    <3> SUFFICES ASSUME NEW h \in Holders
                 PROVE  A[h] * E + ytBalance[h] * l \in Nat /\ claim[h] * r \in Nat
      OBVIOUS
    <3>1. A[h] \in Nat /\ ytBalance[h] \in Nat /\ claim[h] \in Nat
      BY <1>1, <1>4
    <3> QED BY <1>6, <3>1
  <2> QED BY <2>1
<1>8. \A h \in Holders : mid[h] <= fine[h]
  <2> SUFFICES ASSUME NEW h \in S PROVE A[h] * E + ytBalance[h] * l <= claim[h] * r
    BY <1>7
  <2>1. A[h] = accrued[h] + Pending(h, r)
    BY <1>4
  <2> QED BY <1>3, <2>1 DEF E, l
<1>9. Total(mid) \in Int /\ Total(claim) \in Nat /\ Total(mid) <= Total(claim) * r
  <2>1. Total(mid) <= Total(fine)
    BY <1>7, <1>8, PtTokenAssumption, SumBelow DEF Total
  <2>2. Total(fine) = Total(claim) * r
    BY PtTokenAssumption, SumScale DEF Total
  <2>3. Total(mid) \in Int
    BY <1>7, PtTokenAssumption, SumType DEF Total
  <2>4. Total(claim) \in Nat
    BY PtTokenAssumption, SumType DEF Total
  <2> QED BY <2>1, <2>2, <2>3, <2>4
<1>10. Unpaired \in Int /\ (matured \/ Unpaired >= 0)
  BY <1>1 DEF Unpaired, Larger
<1>11. Total(mid) + Unpaired * l <= escrow * E
  <2> DEFINE t == Total(claim)
             U == Unpaired
             e == escrow
             z == e * D - t
  <2>1. /\ t \in Nat /\ U \in Int /\ e \in Nat /\ z \in Int /\ U * k <= z
        /\ matured \/ U >= 0
    BY <1>1, <1>2, <1>9, <1>10
  <2>2. e * E = t * r + z * r
    BY <2>1 DEF E
  <2> HIDE DEF z, U, e, t
  <2>3. U * l = (U * k) * R
    BY <1>1, <1>2, <2>1 DEF l
  <2>4. (U * k) * R <= z * R
    <3> DEFINE u == U * k
    <3>1. u \in Int /\ u <= z
      BY <2>1
    <3> HIDE DEF u
    <3>2. u * R <= z * R
      BY <2>1, <3>1, TimesMonotone
    <3> QED BY <3>2 DEF u
  <2>5. z * R <= z * r
    <3>1. CASE matured
      <4>1. r = R
        BY <3>1
      <4>2. z * R \in Int
        BY <2>1
      <4> QED BY <4>1, <4>2
    <3>2. CASE U >= 0
      <4>1. U \in Nat /\ U * k \in Nat
        BY <2>1, <3>2
      <4>2. z \in Nat
        <5> DEFINE u == U * k
        <5> HIDE DEF u
        <5>1. u \in Nat /\ u <= z
          BY <2>1, <4>1 DEF u
        <5> QED BY <2>1, <5>1
      <4>3. R * z <= r * z
        BY <4>2, TimesMonotone
      <4> QED BY <4>2, <4>3
    <3> QED BY <2>1, <3>1, <3>2
  <2>6. (U * k) * R \in Int /\ z * R \in Int /\ z * r \in Int /\ t * r \in Int
    BY <2>1
  <2>7. Total(mid) + U * l <= t * r + z * r
    <3> DEFINE u == (U * k) * R
               v == z * R
               w == z * r
               x == t * r
               m == Total(mid)
    <3>1. u \in Int /\ v \in Int /\ w \in Int /\ x \in Int /\ m \in Int
          /\ u <= v /\ v <= w /\ m <= x
      BY <1>9, <2>4, <2>5, <2>6 DEF t
    <3>2. U * l = u
      BY <2>3
    <3> HIDE DEF u, v, w, x, m
    <3>3. m + u <= x + w
      BY <3>1
    <3> QED BY <3>2, <3>3 DEF m, x, w
  <2> QED BY <2>2, <2>7 DEF U, e
<1>12. \A h \in Holders : Covers(mid[h], E, A[h], ytBalance[h], c[h], r)
  <2> SUFFICES ASSUME NEW h \in Holders PROVE Covers(mid[h], E, A[h], ytBalance[h], c[h], r)
    OBVIOUS
  <2>1. ytBalance[h] \in Nat /\ claim[h] \in Nat /\ A[h] \in Nat /\ accrued[h] \in Nat
    BY <1>1, <1>4
  <2>2. CASE h \notin S
    <3>1. mid[h] = claim[h] * r /\ A[h] = accrued[h] /\ c[h] = checkpoint[h]
      BY <1>1, <1>4, <1>5, <2>2
    <3>2. Covers(claim[h] * r, D * r, accrued[h], ytBalance[h], checkpoint[h], r)
      BY <1>2, <2>1, CoversFiner
    <3> QED BY <3>1, <3>2 DEF E
  <2>3. CASE h \in S
    <3> DEFINE u == A[h] * E
               v == ytBalance[h] * l
    <3>1. mid[h] = u + v /\ c[h] = r /\ u \in Nat /\ v \in Nat
      BY <1>5, <1>6, <2>1, <2>3
    <3>2. (ytBalance[h] * WAD) * E = v * r
      BY <1>1, <1>6, <2>1
    <3>3. u <= mid[h] /\ mid[h] - u = v
      <4> HIDE DEF u, v, mid
      <4> QED BY <3>1
    <3>4. v * r \in Int /\ r # NoRate
      BY <3>1, YtTokenAssumption
    <3> HIDE DEF v, mid
    <3> QED BY <3>1, <3>2, <3>3, <3>4 DEF Covers
  <2> QED BY <2>2, <2>3
<1>13. \A h \in S : mid[h] = A[h] * E + ytBalance[h] * l /\ c[h] = r
  BY <1>5
<1>14. mid \in [Holders -> Nat]
  BY <1>7
<1> HIDE DEF mid
<1>15. SettledAt(E, l, mid, S, r)
  BY <1>4, <1>6, <1>11, <1>12, <1>13 DEF SettledAt, Ledgered, A, c
<1> QED BY <1>6, <1>14, <1>15

\* In every solvent state the claims settle at the rate a call is priced at.
LEMMA Settled ==
  ASSUME Solvent, NEW r, r = EffectiveRate, NEW S \in SUBSET Holders
  PROVE  /\ r \in Nat \ {0}
         /\ \E D, k \in Nat \ {0} : \E mid \in [Holders -> Nat] : SettledAt(D, k, mid, S, r)
<1>1. TypeOK /\ FrozenIsLastObservation /\ RatesRise /\ Backed
  BY DEF Solvent
<1>2. matured \in BOOLEAN /\ NoRate \notin Nat
  BY <1>1, YtTokenAssumption DEF TypeOK, Typed
<1>3. CASE RateOnRecord = NoRate
  <2>1. r = syRate
    BY <1>1, <1>2, <1>3 DEF EffectiveRate, RateOnRecord
  <2>2. Untouched /\ r \in Nat \ {0}
    BY <1>1, <1>3, <2>1 DEF Backed, RatesRise
  <2> QED BY <1>1, <2>2, SettledFromUntouched
<1>4. CASE RateOnRecord # NoRate
  <2> DEFINE R == RateOnRecord
  <2>1. R \in Nat \ {0} /\ r \in Nat \ {0} /\ R <= r /\ (matured => r = R)
    <3>1. R \in Nat \ {0}
      BY <1>1, <1>4 DEF RatesRise
    <3>2. CASE matured
      <4>1. r = R
        BY <1>4, <3>2 DEF EffectiveRate, RateOnRecord
      <4> QED BY <3>1, <4>1
    <3>3. CASE ~matured
      <4>1. r = syRate
        BY <3>3 DEF EffectiveRate
      <4> QED BY <1>1, <1>4, <3>1, <3>3, <4>1 DEF RatesRise
    <3> QED BY <1>2, <3>2, <3>3
  <2>2. PICK D \in Nat \ {0}, k \in Nat \ {0}, claim \in [Holders -> Nat] :
          Ledgered(D, k, claim, escrow, Unpaired, accrued, ytBalance, checkpoint, R)
    BY <1>1, <1>4 DEF Backed
  <2> HIDE DEF R
  <2> QED BY <1>1, <2>1, <2>2, SettledFromClaims
<1> QED BY <1>3, <1>4

-----------------------------------------------------------------------------
(***************************************************************************)
(* After the settlement, what an operation moves.                          *)
(***************************************************************************)

\* Of settled claims, what is owed moves from A to B, the YT from y to z, the escrow from e
\* to f and the principal without a YT from U to V; only holders in S are touched, and the
\* escrow moves by no less than the rest.
Reckons(S, r, D, k, mid, A, B, y, z, c, e, f, U, V) ==
  /\ Ledgered(D, k, mid, e, U, A, y, c, r)
  /\ S \in SUBSET Holders
  /\ r \in Nat \ {0} /\ D \in Nat \ {0} /\ k \in Nat \ {0}
  /\ mid \in [Holders -> Nat]
  /\ A \in [Holders -> Nat] /\ B \in [Holders -> Nat]
  /\ y \in [Holders -> Nat] /\ z \in [Holders -> Nat]
  /\ e \in Nat /\ f \in Nat /\ U \in Int /\ V \in Int
  /\ \A h \in S : mid[h] = A[h] * D + y[h] * k /\ c[h] = r
  /\ \A h \in Holders : h \notin S => B[h] = A[h] /\ z[h] = y[h]
  /\ (Total(B) - Total(A)) * D + (Total(z) - Total(y)) * k + (V - U) * k <= (f - e) * D

\* The claims then move by as much as what they are for, and the ledger stands.
LEMMA Reckoned ==
  ASSUME NEW S, NEW r, NEW D, NEW k, NEW mid, NEW A, NEW B, NEW y, NEW z, NEW c,
         NEW e, NEW f, NEW U, NEW V, Reckons(S, r, D, k, mid, A, B, y, z, c, e, f, U, V)
  PROVE  \E claim \in [Holders -> Nat] : Ledgered(D, k, claim, f, V, B, z, c, r)
<1>0. /\ Ledgered(D, k, mid, e, U, A, y, c, r)
      /\ S \in SUBSET Holders
      /\ r \in Nat \ {0} /\ D \in Nat \ {0} /\ k \in Nat \ {0}
      /\ mid \in [Holders -> Nat]
      /\ A \in [Holders -> Nat] /\ B \in [Holders -> Nat]
      /\ y \in [Holders -> Nat] /\ z \in [Holders -> Nat]
      /\ e \in Nat /\ f \in Nat /\ U \in Int /\ V \in Int
      /\ \A h \in S : mid[h] = A[h] * D + y[h] * k /\ c[h] = r
      /\ \A h \in Holders : h \notin S => B[h] = A[h] /\ z[h] = y[h]
      /\ (Total(B) - Total(A)) * D + (Total(z) - Total(y)) * k + (V - U) * k <= (f - e) * D
  BY DEF Reckons
<1> USE <1>0
<1> DEFINE dA == [h \in Holders |-> B[h] - A[h]]
           dy == [h \in Holders |-> z[h] - y[h]]
           dAD == [h \in Holders |-> dA[h] * D]
           dyk == [h \in Holders |-> dy[h] * k]
           d == [h \in Holders |-> dAD[h] + dyk[h]]
           claim == [h \in Holders |-> mid[h] + d[h]]
<1>1. IsFiniteSet(Holders) /\ WAD \in Nat \ {0}
  BY PtTokenAssumption, YtTokenAssumption
<1>2. \A h \in Holders : /\ dA[h] \in Int /\ B[h] = A[h] + dA[h]
                         /\ dy[h] \in Int /\ z[h] = y[h] + dy[h]
  OBVIOUS
<1>3. \A h \in Holders : dAD[h] = dA[h] * D /\ dyk[h] = dy[h] * k /\ d[h] = dAD[h] + dyk[h]
                         /\ claim[h] = mid[h] + d[h]
  OBVIOUS
<1>4. \A h \in Holders : h \in S => claim[h] = B[h] * D + z[h] * k
  <2> SUFFICES ASSUME NEW h \in S PROVE claim[h] = B[h] * D + z[h] * k
    OBVIOUS
  <2> DEFINE a == A[h]
             b == B[h]
             u == y[h]
             v == z[h]
  <2>1. a \in Int /\ b \in Int /\ u \in Int /\ v \in Int
    OBVIOUS
  <2>2. claim[h] = (a * D + u * k) + ((b - a) * D + (v - u) * k)
    OBVIOUS
  <2> HIDE DEF a, b, u, v, claim
  <2>3. claim[h] = b * D + v * k
    BY <2>1, <2>2
  <2> QED BY <2>3 DEF b, v
<1>5. \A h \in Holders : h \notin S => claim[h] = mid[h]
  <2> SUFFICES ASSUME NEW h \in Holders, h \notin S PROVE claim[h] = mid[h]
    OBVIOUS
  <2>1. dA[h] = 0 /\ dy[h] = 0 /\ mid[h] \in Nat
    OBVIOUS
  <2> HIDE DEF dA, dy, dAD, dyk, d, claim
  <2>2. dAD[h] = 0 /\ dyk[h] = 0
    BY <1>3, <2>1
  <2> QED BY <1>3, <2>1, <2>2
<1>6. claim \in [Holders -> Nat]
  <2> SUFFICES ASSUME NEW h \in Holders PROVE claim[h] \in Nat
    OBVIOUS
  <2>1. CASE h \in S
    <3>1. B[h] \in Nat /\ z[h] \in Nat
      OBVIOUS
    <3> HIDE DEF claim
    <3> QED BY <1>4, <2>1, <3>1
  <2>2. CASE h \notin S
    BY <1>5, <2>2
  <2> QED BY <2>1, <2>2
<1> HIDE DEF dA, dy, dAD, dyk, d, claim
<1>7. Total(claim) = Total(mid) + ((Total(B) - Total(A)) * D + (Total(z) - Total(y)) * k)
  <2> USE DEF Total
  <2>1. Total(claim) = Total(mid) + Total(d) /\ Total(d) = Total(dAD) + Total(dyk)
    <3>1. \A h \in Holders : mid[h] \in Int /\ dAD[h] \in Int /\ dyk[h] \in Int /\ d[h] \in Int
      BY <1>2, <1>3
    <3> QED BY <1>1, <1>3, <3>1, SumPlus
  <2>2. Total(dAD) = Total(dA) * D /\ Total(dyk) = Total(dy) * k
    BY <1>1, <1>2, <1>3, SumScale
  <2>3. Total(B) = Total(A) + Total(dA) /\ Total(z) = Total(y) + Total(dy)
    BY <1>1, <1>2, SumPlus
  <2>4. Total(A) \in Int /\ Total(dA) \in Int /\ Total(y) \in Int /\ Total(dy) \in Int
    BY <1>1, <1>2, SumType
  <2> USE DEF Total
  <2> DEFINE tA == SumOver(A, Holders)
             ta == SumOver(dA, Holders)
             ty == SumOver(y, Holders)
             tz == SumOver(dy, Holders)
  <2>5. (tA + ta) - tA = ta /\ (ty + tz) - ty = tz
    <3>1. tA \in Int /\ ta \in Int /\ ty \in Int /\ tz \in Int
      BY <2>4
    <3> HIDE DEF tA, ta, ty, tz
    <3> QED BY <3>1
  <2> QED BY <2>1, <2>2, <2>3, <2>5
<1>8. Total(claim) + V * k <= f * D
  <2> DEFINE m == Total(mid)
             x == (Total(B) - Total(A)) * D + (Total(z) - Total(y)) * k
             u == U * k
             v == V * k
             g == e * D
             w == f * D
  <2>1. m \in Int /\ x \in Int
    <3>1. /\ Total(mid) \in Int /\ Total(A) \in Int /\ Total(B) \in Int
          /\ Total(y) \in Int /\ Total(z) \in Int
      BY <1>1, SumType DEF Total
    <3> QED BY <3>1
  <2>2. m + u <= g
    BY DEF Ledgered
  <2>3. x + (v - u) <= w - g
    <3>1. (V - U) * k = v - u /\ (f - e) * D = w - g
      OBVIOUS
    <3> QED BY <3>1
  <2>4. u \in Int /\ v \in Int /\ g \in Int /\ w \in Int
    OBVIOUS
  <2> HIDE DEF m, x, u, v, g, w
  <2>5. m + x + v <= w
    BY <2>1, <2>2, <2>3, <2>4
  <2> QED BY <1>7, <2>5 DEF m, x, v, w
<1>9. \A h \in Holders : Covers(claim[h], D, B[h], z[h], c[h], r)
  <2> SUFFICES ASSUME NEW h \in Holders PROVE Covers(claim[h], D, B[h], z[h], c[h], r)
    OBVIOUS
  <2>1. CASE h \notin S
    BY <1>5, <2>1 DEF Ledgered
  <2>2. CASE h \in S
    <3> DEFINE b == B[h]
               q == z[h]
               u == b * D
               v == q * k
    <3>1. claim[h] = u + v /\ c[h] = r /\ u \in Nat /\ v \in Nat /\ q \in Nat /\ r # NoRate
      BY <1>4, <2>2, YtTokenAssumption
    <3>2. k * r = WAD * D
      BY DEF Ledgered
    <3>3. (q * WAD) * D = v * r
      <4> HIDE DEF q
      <4>1. (q * WAD) * D = q * (WAD * D) /\ (q * k) * r = q * (k * r)
        BY <1>1, <3>1
      <4> QED BY <3>2, <4>1
    <3>4. v * r \in Int
      BY <3>1
    <3> HIDE DEF u, v, q
    <3>5. u <= claim[h] /\ claim[h] - u = v
      BY <3>1
    <3> QED BY <3>1, <3>3, <3>4, <3>5 DEF Covers, q, u
  <2> QED BY <2>1, <2>2
<1>10. k * r = WAD * D
  BY DEF Ledgered
<1> QED BY <1>6, <1>8, <1>9, <1>10 DEF Ledgered

\* Principal m that is worth no more than the shares e at a rate takes no more of the
\* ledger's units than they are.
LEMMA Worth ==
  ASSUME NEW r \in Nat \ {0}, NEW D \in Nat, NEW k \in Nat, k * r = WAD * D,
         NEW m \in Int, NEW e \in Int, m * WAD <= e * r
  PROVE  m * k <= e * D
<1>1. WAD \in Nat
  BY YtTokenAssumption
<1>2. (m * WAD) * D <= (e * r) * D
  <2> DEFINE u == m * WAD
             v == e * r
  <2>1. u \in Int /\ v \in Int /\ u <= v
    BY <1>1
  <2> HIDE DEF u, v
  <2>2. u * D <= v * D
    BY <2>1, TimesMonotone
  <2> QED BY <2>2 DEF u, v
<1>3. (m * WAD) * D = (m * k) * r /\ (e * r) * D = (e * D) * r
  <2>1. (m * WAD) * D = m * (WAD * D) /\ (m * k) * r = m * (k * r) /\ (e * r) * D = (e * D) * r
    BY <1>1
  <2> QED BY <2>1
<1> DEFINE u == m * k
           v == e * D
<1>4. u \in Int /\ v \in Int /\ u * r <= v * r
  BY <1>2, <1>3
<1> HIDE DEF u, v
<1>5. u <= v
  BY <1>4, TimesCancels
<1> QED BY <1>5 DEF u, v

\* A call that records its rate leaves the ledger standing if what it moves adds up: yield
\* paid, YT made or burnt and principal left without a YT, against the escrow.
LEMMA Posted ==
  ASSUME Solvent, TypeOK', FrozenIsLastObservation', RecordRate, UNCHANGED <<syRate, matured>>,
         NEW r, r = EffectiveRate, NEW S \in SUBSET Holders,
         checkpoint' = SettledCheckpoint(S, r),
         \A h \in Holders : h \notin S => accrued'[h] = accrued[h] /\ ytBalance'[h] = ytBalance[h],
         ((ytSupply' - ytSupply) + (Unpaired' - Unpaired)) * WAD
           <= ((escrow' - escrow) - (Total(accrued') - Total(SettledAccrued(S, r)))) * r
  PROVE  Solvent'
<1>1. TypeOK /\ FrozenIsLastObservation /\ RatesRise
  BY DEF Solvent
<1>2. r \in Nat \ {0} /\ \E D, k \in Nat \ {0} : \E mid \in [Holders -> Nat] : SettledAt(D, k, mid, S, r)
  BY Settled
<1>3. PICK D \in Nat \ {0}, k \in Nat \ {0}, mid \in [Holders -> Nat] : SettledAt(D, k, mid, S, r)
  BY <1>2
<1> DEFINE A == SettledAccrued(S, r)
           c == SettledCheckpoint(S, r)
           e == escrow
           U == Unpaired
           f == escrow'
           V == Unpaired'
           B == accrued'
           y == ytBalance
           z == ytBalance'
<1>4. /\ Ledgered(D, k, mid, e, U, A, y, c, r)
      /\ A \in [Holders -> Nat]
      /\ \A h \in S : mid[h] = A[h] * D + y[h] * k /\ c[h] = r
  BY <1>3 DEF SettledAt
<1>5. /\ e \in Nat /\ f \in Nat /\ B \in [Holders -> Nat]
      /\ y \in [Holders -> Nat] /\ z \in [Holders -> Nat]
      /\ U \in Int /\ V \in Int
  <2>1. /\ ptSupply \in Int /\ ytSupply \in Int /\ ptSupply' \in Int /\ ytSupply' \in Int
    BY <1>1 DEF TypeOK, Typed, PtTypeOK, YtTypeOK
  <2> QED BY <1>1, <2>1 DEF TypeOK, Typed, YtTypeOK, Unpaired, Larger
<1>6. \A h \in Holders : h \notin S => B[h] = A[h] /\ z[h] = y[h]
  BY DEF SettledAccrued
<1>7. Total(z) = ytSupply' /\ Total(y) = ytSupply
  BY <1>1 DEF TypeOK
<1>8. k * r = WAD * D
  BY <1>4 DEF Ledgered
<1>9. (Total(B) - Total(A)) * D + (Total(z) - Total(y)) * k + (V - U) * k <= (f - e) * D
  <2> DEFINE tA == Total(A)
             tB == Total(B)
             ty == Total(y)
             tz == Total(z)
  <2>1. /\ tA \in Int /\ tB \in Int /\ ty \in Int /\ tz \in Int
        /\ e \in Int /\ f \in Int /\ U \in Int /\ V \in Int
    <3> HIDE DEF A, B, y, z, e, f, U, V
    <3> QED BY <1>4, <1>5, PtTokenAssumption, SumType DEF Total
  <2>2. ((tz - ty) + (V - U)) * WAD <= ((f - e) - (tB - tA)) * r
    BY <1>7
  <2> HIDE DEF A, B, y, z, e, f, U, V, tA, tB, ty, tz
  <2> DEFINE m == (tz - ty) + (V - U)
             g == (f - e) - (tB - tA)
  <2>3. m \in Int /\ g \in Int /\ m * WAD <= g * r
    BY <2>1, <2>2
  <2> HIDE DEF m, g
  <2>4. m * k <= g * D
    BY <1>2, <1>8, <2>3, Worth
  <2>5. (tB - tA) * D + (tz - ty) * k + (V - U) * k <= (f - e) * D
    <3>1. m * k = (tz - ty) * k + (V - U) * k /\ g * D = (f - e) * D - (tB - tA) * D
      BY <2>1 DEF m, g
    <3>2. /\ (tB - tA) * D \in Int /\ (tz - ty) * k \in Int /\ (V - U) * k \in Int
          /\ (f - e) * D \in Int
      BY <2>1
    <3> QED BY <2>4, <3>1, <3>2
  <2> QED BY <2>5 DEF tA, tB, ty, tz
<1>10. checkpoint' = c
  OBVIOUS
<1> HIDE DEF A, c, e, U, f, V, B, y, z
<1>11. PICK claim \in [Holders -> Nat] : Ledgered(D, k, claim, f, V, B, z, c, r)
  <2>1. Reckons(S, r, D, k, mid, A, B, y, z, c, e, f, U, V)
    BY <1>2, <1>4, <1>5, <1>6, <1>9 DEF Reckons
  <2> QED BY <2>1, Reckoned
<1>12. RateOnRecord' = r
  <2>1. Typed /\ Typed'
    BY <1>1 DEF TypeOK
  <2> QED BY <1>1, <2>1, RecordIsRateStep
<1>13. RatesRise'
  <2>1. ~matured => r = syRate
    BY DEF EffectiveRate
  <2> QED BY <1>1, <1>2, <1>12, <2>1 DEF RatesRise
<1>14. r # NoRate
  BY <1>2, YtTokenAssumption
<1>15. Ledgered(D, k, claim, escrow', Unpaired', accrued', ytBalance', checkpoint', RateOnRecord')
  BY <1>10, <1>11, <1>12 DEF f, V, B, z
<1>16. Backed'
  BY <1>12, <1>14, <1>15 DEF Backed
<1> QED BY <1>13, <1>16 DEF Solvent

\* A step that records nothing leaves the ledger standing if it takes nothing from the
\* escrow, touches no YT, and leaves no more principal without one.
LEMMA Unposted ==
  ASSUME Solvent, TypeOK', FrozenIsLastObservation', RatesRise', UNCHANGED rateVars,
         UNCHANGED ytVars, escrow' >= escrow, Unpaired' <= Unpaired,
         ptSupply = 0 => ptSupply' = 0
  PROVE  Solvent'
<1>1. TypeOK /\ Backed
  BY DEF Solvent
<1>2. RateOnRecord' = RateOnRecord
  BY DEF RateOnRecord, rateVars
<1>3. CASE RateOnRecord = NoRate
  <2>1. Untouched'
    BY <1>1, <1>3 DEF Backed, Untouched, ytVars
  <2> QED BY <1>2, <1>3, <2>1 DEF Solvent, Backed
<1>4. CASE RateOnRecord # NoRate
  <2>1. PICK D \in Nat \ {0}, k \in Nat \ {0}, claim \in [Holders -> Nat] :
          Ledgered(D, k, claim, escrow, Unpaired, accrued, ytBalance, checkpoint, RateOnRecord)
    BY <1>1, <1>4 DEF Backed
  <2>2. Total(claim) + Unpaired' * k <= escrow' * D
    <3> DEFINE t == Total(claim)
               e == escrow
               f == escrow'
               U == Unpaired
               V == Unpaired'
    <3>1. /\ t \in Int /\ e \in Nat /\ f \in Nat /\ U \in Int /\ V \in Int
      <4>1. t \in Int
        BY PtTokenAssumption, SumType DEF Total
      <4>2. /\ ptSupply \in Int /\ ytSupply \in Int /\ ptSupply' \in Int /\ ytSupply' \in Int
        BY <1>1 DEF TypeOK, Typed, PtTypeOK, YtTypeOK
      <4> QED BY <1>1, <4>1, <4>2 DEF TypeOK, Typed, Unpaired, Larger
    <3>2. t + U * k <= e * D /\ e <= f /\ V <= U
      BY <2>1, <3>1 DEF Ledgered
    <3> HIDE DEF t, e, f, U, V
    <3>3. V * k <= U * k /\ e * D <= f * D
      BY <3>1, <3>2, TimesMonotone
    <3>4. V * k \in Int /\ U * k \in Int /\ e * D \in Int /\ f * D \in Int
      BY <3>1
    <3>5. t + V * k <= f * D
      BY <3>1, <3>2, <3>3, <3>4
    <3> QED BY <3>5 DEF t, V, f
  <2>3. Ledgered(D, k, claim, escrow', Unpaired', accrued', ytBalance', checkpoint', RateOnRecord')
    BY <1>2, <2>1, <2>2 DEF Ledgered, ytVars
  <2>4. Backed'
    BY <1>2, <1>4, <2>3 DEF Backed
  <2> QED BY <2>4 DEF Solvent
<1> QED BY <1>3, <1>4

-----------------------------------------------------------------------------
(***************************************************************************)
(* The operations, one lemma each for those that record a rate.            *)
(***************************************************************************)

\* A call that settles holders and pays out none of their yield: what is minted less what
\* is burnt is worth no more than what enters the escrow.
LEMMA Accounted ==
  ASSUME Solvent, TypeOK', FrozenIsLastObservation', RecordRate, UNCHANGED <<syRate, matured>>,
         NEW r, r = EffectiveRate, NEW S \in SUBSET Holders,
         checkpoint' = SettledCheckpoint(S, r), accrued' = SettledAccrued(S, r),
         \A h \in Holders : h \notin S => ytBalance'[h] = ytBalance[h],
         ((ytSupply' - ytSupply) + (Unpaired' - Unpaired)) * WAD <= (escrow' - escrow) * r
  PROVE  Solvent'
<1>1. \A h \in Holders : h \notin S => accrued'[h] = accrued[h] /\ ytBalance'[h] = ytBalance[h]
  BY DEF SettledAccrued
<1>2. Total(accrued') \in Int /\ escrow' - escrow \in Int
  <2>1. \A h \in Holders : accrued'[h] \in Int
    BY DEF TypeOK, Typed, YtTypeOK
  <2>2. Total(accrued') \in Int
    BY <2>1, PtTokenAssumption, SumType DEF Total
  <2> QED BY <2>2 DEF Solvent, TypeOK, Typed
<1>3. (escrow' - escrow) - (Total(accrued') - Total(SettledAccrued(S, r))) = escrow' - escrow
  <2> DEFINE t == Total(accrued')
             e == escrow' - escrow
  <2>1. t \in Int /\ e \in Int /\ Total(SettledAccrued(S, r)) = t
    BY <1>2
  <2> HIDE DEF t, e
  <2>2. e - (t - t) = e
    BY <2>1
  <2> QED BY <2>1, <2>2 DEF t, e
<1> QED BY <1>1, <1>3, Posted

\* The supplies are integers, and PT without YT is counted like this, before and after.
LEMMA UnpairedFacts ==
  ASSUME Solvent, TypeOK'
  PROVE  /\ ptSupply \in Int /\ ytSupply \in Int /\ escrow \in Nat /\ matured \in BOOLEAN
         /\ ptSupply' \in Int /\ ytSupply' \in Int /\ escrow' \in Nat /\ matured' \in BOOLEAN
         /\ Unpaired = IF matured \/ ptSupply > ytSupply THEN ptSupply - ytSupply ELSE 0
         /\ Unpaired' = IF matured' \/ ptSupply' > ytSupply' THEN ptSupply' - ytSupply' ELSE 0
<1>1. TypeOK
  BY DEF Solvent
<1> QED BY <1>1 DEF TypeOK, Typed, PtTypeOK, YtTypeOK, Unpaired, Larger

\* Split: as much YT as PT, worth no more than the shares it is minted for.
LEMMA SplitSolvent ==
  ASSUME Solvent, TypeOK', FrozenIsLastObservation', NEW h \in Holders, NEW n \in Nat, Split(h, n)
  PROVE  Solvent'
<1> DEFINE r == syRate
           face == MulDivFloor(n, r, WAD)
<1>1. /\ RecordRate /\ UNCHANGED <<syRate, matured>> /\ ~matured /\ r = EffectiveRate
      /\ checkpoint' = SettledCheckpoint({h}, r) /\ accrued' = SettledAccrued({h}, r)
      /\ ytBalance' = [ytBalance EXCEPT ![h] = @ + face]
      /\ ptSupply' = ptSupply + face /\ ytSupply' = ytSupply + face /\ escrow' = escrow + n
  BY DEF Split, Pull, PtMint, YtMint, SettleAll, envVars, EffectiveRate
<1>2. r \in Nat /\ WAD \in Nat \ {0}
  BY TokenizerAssumption, YtTokenAssumption DEF Solvent, TypeOK, Typed
<1>3. face \in Nat /\ face * WAD <= n * r
  BY <1>2, FloorBound
<1>4. \A x \in Holders : x \notin {h} => ytBalance'[x] = ytBalance[x]
  BY <1>1 DEF Solvent, TypeOK, Typed, YtTypeOK
<1> HIDE DEF r, face
<1>5. ytSupply' - ytSupply = face /\ Unpaired' - Unpaired = 0 /\ escrow' - escrow = n
  BY <1>1, <1>3, UnpairedFacts
<1>6. ((ytSupply' - ytSupply) + (Unpaired' - Unpaired)) * WAD <= (escrow' - escrow) * r
  BY <1>3, <1>5
<1> QED BY <1>1, <1>4, <1>6, Accounted

\* Recombine: as much YT as PT is burnt, worth no less than the shares it is burnt for.
LEMMA RecombineSolvent ==
  ASSUME Solvent, TypeOK', FrozenIsLastObservation', NEW h \in Holders, NEW n \in Nat,
         Recombine(h, n)
  PROVE  Solvent'
<1> DEFINE r == syRate
           out == PrincipalOut(n, r)
<1>1. /\ RecordRate /\ UNCHANGED <<syRate, matured>> /\ ~matured /\ r = EffectiveRate
      /\ checkpoint' = SettledCheckpoint({h}, r) /\ accrued' = SettledAccrued({h}, r)
      /\ ytBalance' = [ytBalance EXCEPT ![h] = @ - n]
      /\ ptSupply' = ptSupply - n /\ ytSupply' = ytSupply - n /\ escrow' = escrow - out
      /\ r > 0 /\ ptSupply > 0
  BY DEF Recombine, Push, PtBurn, YtBurn, SettleAll, envVars, EffectiveRate
<1>2. r \in Nat \ {0} /\ WAD \in Nat \ {0} /\ Typed
  BY <1>1, TokenizerAssumption, YtTokenAssumption DEF Solvent, TypeOK, Typed
<1>3. out \in Nat /\ out * r <= n * WAD
  BY <1>1, <1>2, PayoutsType, PrincipalOutCaps
<1>4. \A x \in Holders : x \notin {h} => ytBalance'[x] = ytBalance[x]
  BY <1>1 DEF Solvent, TypeOK, Typed, YtTypeOK
<1> HIDE DEF r, out
<1>5. ytSupply' - ytSupply = -n /\ Unpaired' - Unpaired = 0 /\ escrow' - escrow = -out
  BY <1>1, <1>3, UnpairedFacts
<1>6. ((ytSupply' - ytSupply) + (Unpaired' - Unpaired)) * WAD <= (escrow' - escrow) * r
  <2>1. (-n + 0) * WAD = -(n * WAD) /\ (-out) * r = -(out * r)
    BY <1>2, <1>3
  <2>2. n * WAD \in Int /\ out * r \in Int
    BY <1>2, <1>3
  <2> QED BY <1>3, <1>5, <2>1, <2>2
<1> QED BY <1>1, <1>4, <1>6, Accounted

\* Redemption: principal is burnt without its YT, worth no less than the shares paid.
LEMMA RedeemSolvent ==
  ASSUME Solvent, TypeOK', FrozenIsLastObservation', NEW h \in Holders, NEW n \in Nat,
         RedeemAtMaturity(h, n)
  PROVE  Solvent'
<1> DEFINE r == EffectiveRate
           out == PrincipalOut(n, r)
<1>1. /\ RecordRate /\ UNCHANGED <<syRate, matured>> /\ matured
      /\ UNCHANGED <<checkpoint, accrued, ytBalance, ytSupply>>
      /\ ptSupply' = ptSupply - n /\ escrow' = escrow - out
      /\ r > 0 /\ ptSupply > 0
  BY DEF RedeemAtMaturity, Push, PtBurn, ytVars, envVars
<1>2. r \in Nat \ {0} /\ WAD \in Nat \ {0} /\ Typed
  BY <1>1, RatesType, YtTokenAssumption DEF Solvent, TypeOK
<1>3. out \in Nat /\ out * r <= n * WAD
  BY <1>1, <1>2, PayoutsType, PrincipalOutCaps
<1>4. checkpoint' = SettledCheckpoint({}, r) /\ accrued' = SettledAccrued({}, r)
  BY <1>1 DEF SettledCheckpoint, SettledAccrued, Solvent, TypeOK, Typed, YtTypeOK
<1> HIDE DEF out
<1>5. ytSupply' - ytSupply = 0 /\ Unpaired' - Unpaired = -n /\ escrow' - escrow = -out
  BY <1>1, <1>3, UnpairedFacts
<1>6. ((ytSupply' - ytSupply) + (Unpaired' - Unpaired)) * WAD <= (escrow' - escrow) * r
  <2> HIDE DEF r
  <2>1. (0 + -n) * WAD = -(n * WAD) /\ (-out) * r = -(out * r)
    BY <1>2, <1>3
  <2>2. n * WAD \in Int /\ out * r \in Int
    BY <1>2, <1>3
  <2> QED BY <1>3, <1>5, <2>1, <2>2
<1>7. \A x \in Holders : x \notin {} => ytBalance'[x] = ytBalance[x]
  BY <1>1
<1>8. PICK q : q = r
  OBVIOUS
<1> QED BY <1>1, <1>4, <1>6, <1>7, <1>8, Accounted

\* Claim: what leaves the escrow leaves the ledger of banked yield.
LEMMA ClaimSolvent ==
  ASSUME Solvent, TypeOK', FrozenIsLastObservation', NEW h \in Holders, ClaimYield(h)
  PROVE  Solvent'
<1> DEFINE r == EffectiveRate
           S == SettledAccrued({h}, r)
           pay == Smaller(S[h], Surplus(r))
<1>1. /\ RecordRate /\ UNCHANGED <<syRate, matured>> /\ r > 0
      /\ \A x \in {h} : CanSettle(x, r)
      /\ checkpoint' = SettledCheckpoint({h}, r) /\ accrued' = [S EXCEPT ![h] = @ - pay]
      /\ UNCHANGED <<ytBalance, ytSupply, ptSupply>> /\ escrow' = escrow - pay
  BY DEF ClaimYield, YtSettleAndConsume, Push, ptVars, envVars
<1>2. r \in Nat \ {0} /\ Typed
  BY <1>1, RatesType DEF Solvent, TypeOK
<1>3. S \in [Holders -> Nat]
  BY <1>1, <1>2, SettleType DEF Typed
<1>4. pay \in Nat
  BY <1>2, <1>3, PayoutsType DEF Smaller
<1>5. \A x \in Holders : x \notin {h} => accrued'[x] = accrued[x] /\ ytBalance'[x] = ytBalance[x]
  <2> SUFFICES ASSUME NEW x \in Holders, x # h PROVE accrued'[x] = accrued[x]
    BY <1>1
  <2>1. S[x] = accrued[x]
    BY DEF SettledAccrued
  <2> HIDE DEF pay, S
  <2> QED BY <1>1, <1>3, <2>1
<1> HIDE DEF pay, S
<1>6. Total(accrued') = Total(S) - pay /\ Total(S) \in Int
  <2>1. S \in [Holders -> Int] /\ pay \in Int /\ IsFiniteSet(Holders)
    BY <1>3, <1>4, PtTokenAssumption
  <2>2. SumOver([S EXCEPT ![h] = @ - pay], Holders) = SumOver(S, Holders) - pay
    BY <2>1, TotalAfterDebit
  <2>3. SumOver(S, Holders) \in Int
    BY <2>1, SumType
  <2> QED BY <1>1, <2>2, <2>3 DEF Total
<1>7. ytSupply' - ytSupply = 0 /\ Unpaired' - Unpaired = 0 /\ escrow' - escrow = -pay
  BY <1>1, <1>4, UnpairedFacts
<1>8. ((ytSupply' - ytSupply) + (Unpaired' - Unpaired)) * WAD
        <= ((escrow' - escrow) - (Total(accrued') - Total(S))) * r
  <2> HIDE DEF r
  <2>1. (escrow' - escrow) - (Total(accrued') - Total(S)) = 0
    BY <1>4, <1>6, <1>7
  <2>2. 0 * r = 0 /\ (0 + 0) * WAD = 0
    BY <1>2, YtTokenAssumption
  <2> QED BY <1>7, <2>1, <2>2
<1> QED BY <1>1, <1>5, <1>8, Posted DEF S

\* Transfers and burns of YT and observations: nothing enters or leaves the escrow, and a
\* burnt YT leaves at most its principal unpaired.
LEMMA YtOpsSolvent ==
  ASSUME Solvent, TypeOK', FrozenIsLastObservation',
         \/ ObserveRate
         \/ \E h, g \in Holders : \E n \in Nat : YtTransfer(h, g, n) \/ YtBurnDirect(h, n)
  PROVE  Solvent'
<1> DEFINE r == EffectiveRate
<1>1. RecordRate /\ UNCHANGED <<syRate, matured, ptSupply, escrow>>
  BY DEF YtTransfer, YtBurnDirect, ObserveRate, ptVars, envVars
<1>2. r \in Nat /\ WAD \in Nat \ {0} /\ YtTypeOK
  BY RatesType, YtTokenAssumption DEF Solvent, TypeOK, Typed
<1> DEFINE Settles(S) ==
             /\ checkpoint' = SettledCheckpoint(S, r) /\ accrued' = SettledAccrued(S, r)
             /\ \A x \in Holders : x \notin S => ytBalance'[x] = ytBalance[x]
<1>3. ASSUME ObserveRate PROVE Settles({}) /\ ytSupply' = ytSupply
  <2>1. checkpoint' = SettledCheckpoint({}, r) /\ accrued' = SettledAccrued({}, r)
    BY <1>2, <1>3 DEF ObserveRate, ytVars, SettledCheckpoint, SettledAccrued, YtTypeOK
  <2> QED BY <1>3, <2>1 DEF ObserveRate, ytVars
<1>4. ASSUME NEW h \in Holders, NEW g \in Holders, NEW n \in Nat,
             YtTransfer(h, g, n) \/ YtBurnDirect(h, n)
      PROVE  \E S \in SUBSET Holders : Settles(S)
  <2>1. ASSUME YtTransfer(h, g, n) PROVE Settles({h, g})
    BY <1>2, <2>1 DEF YtTransfer, YtMove, SettleAll, Moved, YtTypeOK
  <2>2. ASSUME YtBurnDirect(h, n) PROVE Settles({h})
    BY <1>2, <2>2 DEF YtBurnDirect, YtBurn, SettleAll, YtTypeOK
  <2>3. {h, g} \in SUBSET Holders /\ {h} \in SUBSET Holders
    OBVIOUS
  <2> HIDE DEF Settles
  <2> QED BY <1>4, <2>1, <2>2, <2>3
<1>6. \E n \in Nat : ytSupply' = ytSupply - n
  <2>1. CASE ObserveRate
    <3>1. ytSupply' = ytSupply - 0
      BY <1>3, <2>1, UnpairedFacts
    <3> QED BY <3>1
  <2>2. ASSUME NEW h \in Holders, NEW g \in Holders, NEW n \in Nat, YtTransfer(h, g, n)
        PROVE  \E m \in Nat : ytSupply' = ytSupply - m
    <3>1. ytSupply' = ytSupply - 0
      BY <2>2, UnpairedFacts DEF YtTransfer, YtMove
    <3> QED BY <3>1
  <2>3. ASSUME NEW h \in Holders, NEW g \in Holders, NEW n \in Nat, YtBurnDirect(h, n)
        PROVE  \E m \in Nat : ytSupply' = ytSupply - m
    BY <2>3 DEF YtBurnDirect, YtBurn
  <2> QED BY <2>1, <2>2, <2>3
<1>5. PICK S \in SUBSET Holders : Settles(S)
  <2>1. {} \in SUBSET Holders
    OBVIOUS
  <2> HIDE DEF Settles
  <2> QED BY <1>3, <1>4, <2>1
<1> HIDE DEF r
<1>7. (ytSupply' - ytSupply) + (Unpaired' - Unpaired) <= 0
  BY <1>1, <1>6, UnpairedFacts
<1>8. ((ytSupply' - ytSupply) + (Unpaired' - Unpaired)) * WAD <= (escrow' - escrow) * r
  <2> DEFINE m == (ytSupply' - ytSupply) + (Unpaired' - Unpaired)
  <2>1. m \in Int /\ m <= 0 /\ escrow' - escrow = 0
    BY <1>1, <1>7, UnpairedFacts
  <2> HIDE DEF m
  <2>2. m * WAD <= 0 * WAD
    BY <1>2, <2>1, TimesMonotone
  <2>3. 0 * WAD = 0 /\ 0 * r = 0
    BY <1>2
  <2> QED BY <2>1, <2>2, <2>3 DEF m
<1> QED BY <1>1, <1>5, <1>8, Accounted DEF r

\* Rates rise, principal is burnt without anything in return, the market matures, and SY and
\* PT change hands: no claim is touched.
LEMMA QuietSolvent ==
  ASSUME Solvent, TypeOK', FrozenIsLastObservation', RatesMayFall = FALSE,
         \/ Pause \/ Unpause \/ Mature \/ UNCHANGED vars
         \/ \E r \in Rates : RateMoves(r)
         \/ \E h, g \in Holders : \E n \in Nat :
              PtTransfer(h, g, n) \/ PtBurnDirect(h, n) \/ SyTransfer(h, g, n) \/ SyDonate(h, n)
  PROVE  Solvent'
<1> DEFINE Quiet == /\ UNCHANGED rateVars /\ UNCHANGED ytVars /\ escrow' >= escrow
                    /\ Unpaired' <= Unpaired /\ (ptSupply = 0 => ptSupply' = 0)
                    /\ RatesRise'
<1>1. RatesRise /\ Typed /\ ptSupply = Total(ptBalance)
  BY DEF Solvent, TypeOK
<1>2. ASSUME UNCHANGED <<rateVars, ytVars, envVars, ptSupply>>, escrow' >= escrow PROVE Quiet
  BY <1>1, <1>2, UnpairedFacts DEF rateVars, ytVars, envVars, RatesRise, RateOnRecord
<1>3. ASSUME Pause \/ Unpause \/ UNCHANGED vars PROVE Quiet
  <2>1. UNCHANGED <<rateVars, ytVars, envVars, ptSupply, escrow>>
    BY <1>3 DEF Pause, Unpause, vars, ptVars
  <2> QED BY <1>2, <2>1, UnpairedFacts
<1>4. ASSUME NEW h \in Holders, NEW g \in Holders, NEW n \in Nat,
             PtTransfer(h, g, n) \/ SyTransfer(h, g, n) \/ SyDonate(h, n)
      PROVE  Quiet
  <2>1. UNCHANGED <<rateVars, ytVars, envVars, ptSupply>> /\ escrow' \in {escrow, escrow + n}
    BY <1>4 DEF PtTransfer, PtMove, SyTransfer, SyDonate, Pull, ptVars
  <2> QED BY <1>2, <2>1, UnpairedFacts
<1>5. ASSUME NEW h \in Holders, NEW n \in Nat, PtBurnDirect(h, n) PROVE Quiet
  <2>1. /\ UNCHANGED <<rateVars, ytVars, envVars, escrow>> /\ ptSupply' = ptSupply - n
        /\ 0 < n /\ n <= ptBalance[h]
    BY <1>5 DEF PtBurnDirect, PtBurn
  <2>2. ptBalance[h] <= ptSupply
    BY <1>1, PtTokenAssumption, SumBound DEF Typed, PtTypeOK, Total
  <2>3. ptSupply # 0
    BY <1>1, <2>1, <2>2 DEF Typed, PtTypeOK
  <2>4. Unpaired' <= Unpaired /\ escrow' >= escrow
    BY <2>1, UnpairedFacts DEF ytVars, envVars
  <2>5. RatesRise'
    BY <1>1, <2>1 DEF rateVars, envVars, RatesRise, RateOnRecord
  <2> QED BY <2>1, <2>3, <2>4, <2>5
<1>6. ASSUME NEW r \in Rates, RateMoves(r) PROVE Quiet
  <2>1. UNCHANGED <<ptVars, ytVars, rateVars, matured, escrow>> /\ syRate' = r /\ r > syRate
    BY <1>6 DEF RateMoves
  <2>2. RatesRise'
    BY <1>1, <2>1, TokenizerAssumption, YtTokenAssumption
       DEF RatesRise, RateOnRecord, rateVars, Typed
  <2> QED BY <2>1, <2>2, UnpairedFacts DEF ptVars, ytVars
<1>7. ASSUME Mature PROVE Quiet
  <2>1. UNCHANGED <<ptVars, ytVars, rateVars, syRate, escrow>> /\ matured' = TRUE
    BY <1>7 DEF Mature
  <2>2. RatesRise'
    BY <1>1, <2>1 DEF RatesRise, RateOnRecord, rateVars
  <2> QED BY <2>1, <2>2, UnpairedFacts DEF ptVars, ytVars
<1>8. Quiet
  <2> HIDE DEF Quiet
  <2> QED BY <1>3, <1>4, <1>5, <1>6, <1>7
<1> QED BY <1>8, Unposted

\* Every step keeps the market solvent, as long as rates do not fall.
LEMMA SolventStep ==
  ASSUME Solvent, RatesMayFall = FALSE, [Next]_vars
  PROVE  Solvent'
<1>1. TypeOK'
  <2>1. TypeOK /\ Typed
    BY DEF Solvent, TypeOK
  <2> QED BY <2>1, TypeStep, BooksStep DEF TypeOK
<1>2. FrozenIsLastObservation'
  BY RateSteps
     DEF Solvent, TypeOK, FrozenIsLastObservation, RecordRate, EffectiveRate, rateVars, Typed
<1>3. \A n \in Amounts : n \in Nat
  BY TokenizerAssumption
<1>4. ASSUME NEW h \in Holders, NEW n \in Amounts,
             Split(h, n) \/ Recombine(h, n) \/ RedeemAtMaturity(h, n)
      PROVE  Solvent'
  BY <1>1, <1>2, <1>3, <1>4, SplitSolvent, RecombineSolvent, RedeemSolvent
<1>5. ASSUME NEW h \in Holders, ClaimYield(h) PROVE Solvent'
  BY <1>1, <1>2, <1>5, ClaimSolvent
<1>6. ASSUME NEW h \in Holders, NEW g \in Holders, NEW n \in Amounts,
             YtTransfer(h, g, n) \/ YtBurnDirect(h, n)
      PROVE  Solvent'
  BY <1>1, <1>2, <1>3, <1>6, YtOpsSolvent
<1>7. CASE ObserveRate
  BY <1>1, <1>2, <1>7, YtOpsSolvent
<1>8. ASSUME NEW h \in Holders, NEW g \in Holders, NEW n \in Amounts,
             PtTransfer(h, g, n) \/ PtBurnDirect(h, n) \/ SyTransfer(h, g, n) \/ SyDonate(h, n)
      PROVE  Solvent'
  BY <1>1, <1>2, <1>3, <1>8, QuietSolvent
<1>9. CASE Pause \/ Unpause \/ Mature \/ UNCHANGED vars \/ \E r \in Rates : RateMoves(r)
  BY <1>1, <1>2, <1>9, QuietSolvent
<1> HIDE DEF Solvent
<1> QED BY <1>4, <1>5, <1>6, <1>7, <1>8, <1>9 DEF Next

\* What the claims cover at the rate yield is paid at fits beside the reservation.
LEMMA BackedNow ==
  ASSUME Solvent
  PROVE  YieldIsBacked
<1> SUFFICES ASSUME RateOnRecord # NoRate, EffectiveRate > 0
             PROVE  TotalOwed(EffectiveRate) <= Surplus(EffectiveRate)
  BY DEF YieldIsBacked
<1> DEFINE S == Holders
<1>1. PICK r : r = EffectiveRate
  OBVIOUS
<1>2. r \in Nat \ {0} /\ \E D, k \in Nat \ {0} : \E mid \in [Holders -> Nat] : SettledAt(D, k, mid, Holders, r)
  BY <1>1, Settled
<1>3. PICK D \in Nat \ {0}, k \in Nat \ {0}, mid \in [Holders -> Nat] : SettledAt(D, k, mid, Holders, r)
  BY <1>2
<1> DEFINE owed == [h \in Holders |-> YieldOwed(h, r)]
           face == [h \in Holders |-> ytBalance[h] * k]
           due == [h \in Holders |-> owed[h] * D]
<1>4. /\ k * r = WAD * D /\ Total(mid) + Unpaired * k <= escrow * D
      /\ \A h \in Holders : owed[h] \in Nat /\ mid[h] = owed[h] * D + ytBalance[h] * k
  <2>1. SettledAccrued(Holders, r) = owed
    BY DEF SettledAccrued, YieldOwed
  <2> HIDE DEF owed
  <2> QED BY <1>3, <2>1 DEF SettledAt, Ledgered
<1>5. /\ WAD \in Nat \ {0} /\ IsFiniteSet(Holders) /\ ytBalance \in [Holders -> Nat]
      /\ ytSupply = Total(ytBalance) /\ ptSupply \in Int /\ ytSupply \in Int
      /\ escrow \in Nat /\ ptSupply = Total(ptBalance) /\ ptBalance \in [Holders -> Nat]
  BY YtTokenAssumption, PtTokenAssumption DEF Solvent, TypeOK, Typed, YtTypeOK, PtTypeOK
<1>6. Unpaired \in Int /\ ptSupply - ytSupply <= Unpaired
  BY <1>5 DEF Unpaired, Larger
<1>7. \A h \in Holders : face[h] = ytBalance[h] * k /\ due[h] = owed[h] * D
  OBVIOUS
<1> HIDE DEF owed, face, due
<1>8. /\ Total(due) = Total(owed) * D /\ Total(face) = ytSupply * k
      /\ Total(mid) = Total(due) + Total(face) /\ Total(owed) \in Nat /\ ptSupply \in Nat
  <2> USE DEF Total
  <2>1. Total(due) = Total(owed) * D
    BY <1>4, <1>5, <1>7, SumScale
  <2>2. Total(face) = Total(ytBalance) * k
    BY <1>5, <1>7, SumScale
  <2>3. Total(mid) = Total(due) + Total(face)
    <3>1. \A h \in Holders : due[h] \in Int /\ face[h] \in Int /\ mid[h] = due[h] + face[h]
      BY <1>4, <1>5, <1>7
    <3> QED BY <1>5, <3>1, SumPlus
  <2>4. Total(owed) \in Nat
    BY <1>4, <1>5, SumType
  <2>5. Total(ptBalance) \in Nat
    BY <1>5, SumType
  <2> QED BY <1>5, <2>1, <2>2, <2>3, <2>4, <2>5
<1> DEFINE t == Total(owed)
           p == ptSupply
           y == ytSupply
           u == Unpaired
           e == escrow
<1>9. t \in Nat /\ p \in Nat /\ y \in Int /\ u \in Int /\ e \in Nat /\ p - y <= u
      /\ (t * D + y * k) + u * k <= e * D
  BY <1>4, <1>5, <1>6, <1>8
<1> HIDE DEF t, p, y, u, e
<1>10. p * k <= (e - t) * D
  <2>1. (p - y) * k <= u * k
    BY <1>9, TimesMonotone
  <2>2. (p - y) * k = p * k - y * k /\ (e - t) * D = e * D - t * D
    BY <1>9
  <2>3. p * k \in Int /\ y * k \in Int /\ u * k \in Int /\ t * D \in Int /\ e * D \in Int
    BY <1>9
  <2> QED BY <1>9, <2>1, <2>2, <2>3
<1>11. p * WAD <= (e - t) * r
  <2> DEFINE x == e - t
             v == p * k
             w == x * D
  <2>1. v \in Int /\ w \in Int /\ v <= w /\ x \in Int
    BY <1>9, <1>10
  <2>2. v * r = (p * WAD) * D /\ w * r = (x * r) * D
    <3> HIDE DEF x
    <3>1. (p * k) * r = p * (k * r) /\ (p * WAD) * D = p * (WAD * D)
      BY <1>2, <1>5, <1>9
    <3>2. (x * D) * r = (x * r) * D
      BY <1>2, <2>1
    <3> QED BY <1>4, <3>1, <3>2
  <2> HIDE DEF v, w
  <2>3. v * r <= w * r
    BY <1>2, <2>1, TimesMonotone
  <2> DEFINE a == p * WAD
             b == x * r
  <2>4. a \in Int /\ b \in Int /\ a * D <= b * D
    BY <1>2, <1>5, <1>9, <2>1, <2>2, <2>3
  <2> HIDE DEF a, b, x
  <2>5. a <= b
    BY <2>4, TimesCancels
  <2> QED BY <2>5 DEF a, b, x
<1>12. Reservation(r) <= e - t
  BY <1>2, <1>5, <1>9, <1>11, CeilLeast DEF Reservation, p
<1>13. Reservation(r) \in Int
  BY <1>2, <1>5, ReservationBound DEF Reservation
<1>14. Total(owed) <= Surplus(r)
  BY <1>9, <1>12, <1>13 DEF Surplus, Larger, t, e
<1> QED BY <1>1, <1>14 DEF TotalOwed, owed

\* A market that was just opened holds nothing and owes nothing.
LEMMA SolventStart == Init => Solvent
<1> SUFFICES ASSUME Init PROVE Solvent
  OBVIOUS
<1>1. /\ ptSupply = 0 /\ ytSupply = 0
      /\ \A h \in Holders : ptBalance[h] = 0 /\ ytBalance[h] = 0
                           /\ accrued[h] = 0 /\ checkpoint[h] = NoRate
  BY DEF Init, PtInit, YtInit
<1>2. Total(ptBalance) = 0 /\ Total(ytBalance) = 0
  BY <1>1, PtTokenAssumption, TotalOfZeros DEF Total
<1>3. TypeOK
  BY <1>1, <1>2, TypesOpen DEF TypeOK
<1>4. RateOnRecord = NoRate /\ maturityRate = NoRate /\ syRate \in Nat \ {0}
  BY TokenizerAssumption DEF Init, RateOnRecord
<1> QED BY <1>1, <1>3, <1>4 DEF Solvent, FrozenIsLastObservation, RatesRise, Backed, Untouched

\* As long as the SY rate never falls, every holder can be paid in full, in any order: after
\* any splits, recombinations, redemptions, transfers, burns, donations and claims the
\* surplus over the reservation for principal is at least the yield all holders are owed.
THEOREM YieldBacked ==
  ASSUME RatesMayFall = FALSE
  PROVE  Spec => []YieldIsBacked
<1>1. Solvent /\ [Next]_vars => Solvent'
  BY SolventStep
<1>2. Solvent => YieldIsBacked
  BY BackedNow
<1> QED BY <1>1, <1>2, SolventStart, PTL DEF Spec

-----------------------------------------------------------------------------
(***************************************************************************)
(* Conservation.  A payment of the yield engine rounds down twice, by less  *)
(* than two shares together at rates from par up.  A transfer of YT puts     *)
(* four such payments in the place of two; were nothing rounded, the four    *)
(* would come to the same, since each side is settled at the rate of the     *)
(* transfer before the balance moves.                                      *)
(***************************************************************************)

\* Rounding leaves out less than two shares of what a balance earned from c to r, at a rate
\* from par up.  In units of which D are a share, kc and kr are what a unit of balance is
\* worth at c and at r.
LEMMA OwedWithin ==
  ASSUME NEW b \in Nat, NEW c \in Nat \ {0}, NEW r \in Nat \ {0}, c <= r, WAD <= r,
         NEW D \in Nat \ {0}, NEW kc \in Nat, NEW kr \in Nat,
         kc * c = WAD * D, kr * r = WAD * D
  PROVE  /\ OwedShares(b, c, r) \in Nat
         /\ OwedShares(b, c, r) * D <= b * kc - b * kr
         /\ b * kc - b * kr < OwedShares(b, c, r) * D + 2 * D
<1> DEFINE m == MulDivFloor(b, r - c, c)
           o == OwedShares(b, c, r)
           d == r - c
           w == m * WAD
           g == b * kc - b * kr
<1>1. d \in Nat /\ r = c + d /\ WAD \in Nat \ {0}
  BY YtTokenAssumption
<1> HIDE DEF d
<1>2. m \in Nat /\ m * c <= b * d /\ b * d < m * c + c
  BY <1>1, FloorBound, FloorTight DEF d
<1> HIDE DEF m
<1>3. w \in Nat
  BY <1>1, <1>2
<1>4. o \in Nat /\ o * r <= w /\ w < o * r + r
  BY <1>1, <1>2, FloorBound, FloorTight DEF OwedShares, m
<1> HIDE DEF o
<1>5. g \in Int /\ (g * r) * c = ((b * d) * WAD) * D
  <2>1. (g * r) * c = ((b * (kc * c)) * r) - ((b * (kr * r)) * c)
    BY <1>1
  <2>2. (g * r) * c = ((b * (WAD * D)) * r) - ((b * (WAD * D)) * c)
    BY <2>1
  <2>3. ((b * (WAD * D)) * r) - ((b * (WAD * D)) * c) = (b * (WAD * D)) * d
    <3> DEFINE z == b * (WAD * D)
    <3>1. z \in Int
      BY <1>1
    <3> HIDE DEF z
    <3>2. z * r - z * c = z * d
      BY <1>1, <3>1
    <3> QED BY <3>2 DEF z
  <2>4. (b * (WAD * D)) * d = ((b * d) * WAD) * D
    BY <1>1
  <2>5. g \in Int
    OBVIOUS
  <2> HIDE DEF g
  <2> QED BY <2>2, <2>3, <2>4, <2>5
<1> HIDE DEF g
<1> DEFINE x == (b * d) * WAD
<1>6. x \in Nat /\ w * c <= x /\ x < w * c + WAD * c
  <2> DEFINE u == m * c
             v == b * d
  <2>1. u \in Nat /\ v \in Nat /\ u <= v /\ v < u + c
    BY <1>1, <1>2
  <2>2. w * c = u * WAD
    BY <1>1, <1>2
  <2> HIDE DEF u, v, w
  <2>3. u * WAD <= v * WAD /\ v * WAD \in Nat
    BY <1>1, <2>1, TimesMonotone
  <2>4. v * WAD < u * WAD + WAD * c
    <3>1. (v + 1) * WAD <= (u + c) * WAD
      BY <1>1, <2>1, TimesMonotone
    <3>2. (v + 1) * WAD = v * WAD + WAD /\ (u + c) * WAD = u * WAD + WAD * c
      BY <1>1, <2>1
    <3>3. v * WAD \in Int /\ u * WAD \in Int /\ WAD * c \in Int
      BY <1>1, <2>1
    <3> QED BY <1>1, <3>1, <3>2, <3>3
  <2> QED BY <2>2, <2>3, <2>4 DEF v
<1> HIDE DEF w
<1>7. (o * r) * c <= x /\ x < ((o + 2) * r) * c
  <2> DEFINE p == o * r
  <2>1. p \in Nat /\ p <= w /\ w + 1 <= p + r
    BY <1>3, <1>4
  <2>2. ((o + 2) * r) * c = p * c + (r * c + r * c)
    BY <1>4
  <2> HIDE DEF p, x
  <2>3. p * c <= w * c /\ (w + 1) * c <= (p + r) * c /\ WAD * c <= r * c
    BY <1>1, <1>3, <2>1, TimesMonotone
  <2>4. (w + 1) * c = w * c + c /\ (p + r) * c = p * c + r * c
    BY <1>3, <2>1
  <2>5. w * c \in Int /\ p * c \in Int /\ r * c \in Int /\ WAD * c \in Int
    BY <1>1, <1>3, <2>1
  <2> QED BY <1>6, <2>2, <2>3, <2>4, <2>5 DEF p
<1> HIDE DEF x
<1>8. o * D <= g
  <2>1. ((o * r) * c) * D <= x * D
    <3> DEFINE p == (o * r) * c
    <3>1. p \in Int /\ p <= x
      BY <1>4, <1>7
    <3> HIDE DEF p
    <3>2. p * D <= x * D
      BY <1>6, <3>1, TimesMonotone
    <3> QED BY <3>2 DEF p
  <2>2. ((o * r) * c) * D = ((o * D) * r) * c
    BY <1>4
  <2> DEFINE p == o * D
             q == p * r
             h == g * r
  <2>3. p \in Int /\ q \in Int /\ h \in Int /\ q * c <= h * c
    BY <1>4, <1>5, <2>1, <2>2 DEF x
  <2> HIDE DEF q, h
  <2>4. q <= h
    BY <2>3, TimesCancels
  <2> HIDE DEF p
  <2>5. p <= g
    BY <1>5, <2>3, <2>4, TimesCancels DEF q, h
  <2> QED BY <2>5 DEF p
<1>9. g < o * D + 2 * D
  <2> SUFFICES ASSUME o * D + 2 * D <= g PROVE FALSE
    BY <1>4, <1>5
  <2> DEFINE p == o * D + 2 * D
             q == p * r
             h == g * r
  <2>1. p \in Int
    BY <1>4
  <2>2. q * c = (((o + 2) * r) * c) * D
    BY <1>4
  <2> HIDE DEF p
  <2>3. q <= h /\ q \in Int /\ h \in Int
    BY <1>5, <2>1, TimesMonotone DEF p
  <2>4. h * c = x * D
    BY <1>5 DEF x
  <2> HIDE DEF q, h
  <2>5. q * c <= h * c
    BY <2>3, TimesMonotone
  <2> DEFINE z == ((o + 2) * r) * c
  <2>6. z \in Int /\ z * D <= x * D
    BY <1>4, <2>2, <2>4, <2>5
  <2> HIDE DEF z
  <2>7. z <= x
    BY <1>6, <2>6, TimesCancels
  <2> QED BY <1>6, <1>7, <2>6, <2>7 DEF z
<1> QED BY <1>4, <1>8, <1>9 DEF o, g


\* Four payments that together replace two: what they pay in shares differs from it by the
\* rounding alone.
LEMMA RoundingOf ==
  ASSUME NEW D \in Nat \ {0},
         NEW s1 \in Nat, NEW s2 \in Nat, NEW p1 \in Nat, NEW p2 \in Nat, NEW q1 \in Nat, NEW q2 \in Nat,
         NEW fs1 \in Int, NEW fs2 \in Int, NEW fp1 \in Int, NEW fp2 \in Int, NEW fq1 \in Int, NEW fq2 \in Int,
         fs1 + fs2 = fp1 + fp2 + fq1 + fq2,
         s1 * D <= fs1, fs1 < s1 * D + 2 * D, s2 * D <= fs2, fs2 < s2 * D + 2 * D,
         p1 * D <= fp1, fp1 < p1 * D + 2 * D, p2 * D <= fp2, fp2 < p2 * D + 2 * D,
         q1 * D <= fq1, fq1 < q1 * D + 2 * D, q2 * D <= fq2, fq2 < q2 * D + 2 * D
  PROVE  (p1 + p2 + q1 + q2) - (s1 + s2) \in -7 .. 3
<1> DEFINE y == (p1 + p2 + q1 + q2) - (s1 + s2)
<1>1. y \in Int /\ y * D = (p1 * D + p2 * D + q1 * D + q2 * D) - (s1 * D + s2 * D)
  OBVIOUS
<1>2. /\ s1 * D \in Int /\ s2 * D \in Int /\ p1 * D \in Int /\ p2 * D \in Int
      /\ q1 * D \in Int /\ q2 * D \in Int
  OBVIOUS
<1> HIDE DEF y
<1>3. y * D < 3 * D + D /\ (-8) * D < y * D
  BY <1>1, <1>2
<1>4. y <= 3
  BY <1>1, <1>3, TimesCancelsRest
<1>5. (-7) * D < y * D + D
  BY <1>1, <1>3
<1>6. -7 <= y
  BY <1>1, <1>5, TimesCancelsRest
<1> QED BY <1>1, <1>4, <1>6 DEF y

\* Two holders earn, one hands n to the other at e, and both go on to r.
LEMMA HandoverConserves ==
  ASSUME NEW b1 \in Nat, NEW b2 \in Nat, NEW n \in Nat, n <= b1,
         NEW c1 \in Nat \ {0}, NEW c2 \in Nat \ {0}, NEW e \in Nat \ {0}, NEW r \in Nat \ {0},
         c1 <= e, c2 <= e, e <= r, WAD <= e
  PROVE  (OwedShares(b1, c1, e) + OwedShares(b2, c2, e)
            + OwedShares(b1 - n, e, r) + OwedShares(b2 + n, e, r))
           - (OwedShares(b1, c1, r) + OwedShares(b2, c2, r)) \in -7 .. 3
<1> DEFINE D == (c1 * c2) * (e * r)
           k1 == WAD * (c2 * (e * r))
           k2 == WAD * (c1 * (e * r))
           ke == WAD * ((c1 * c2) * r)
           kr == WAD * ((c1 * c2) * e)
<1>1. WAD \in Nat \ {0} /\ c1 <= r /\ c2 <= r /\ WAD <= r
  BY YtTokenAssumption
<1>2. D \in Nat \ {0}
  <2>1. ASSUME NEW i \in Nat \ {0}, NEW j \in Nat \ {0} PROVE i * j \in Nat \ {0}
    BY <2>1
  <2>2. c1 * c2 \in Nat \ {0} /\ e * r \in Nat \ {0}
    BY <2>1
  <2> QED BY <2>1, <2>2
<1>3. k1 \in Nat /\ k2 \in Nat /\ ke \in Nat /\ kr \in Nat
  BY <1>1
<1>4. k1 * c1 = WAD * D /\ k2 * c2 = WAD * D /\ ke * e = WAD * D /\ kr * r = WAD * D
  BY <1>1
<1> HIDE DEF D, k1, k2, ke, kr
<1>5. b1 - n \in Nat /\ b2 + n \in Nat
  OBVIOUS
<1> DEFINE Fair(o, f) == o \in Nat /\ o * D <= f /\ f < o * D + 2 * D
<1>6. /\ Fair(OwedShares(b1, c1, r), b1 * k1 - b1 * kr)
      /\ Fair(OwedShares(b2, c2, r), b2 * k2 - b2 * kr)
      /\ Fair(OwedShares(b1, c1, e), b1 * k1 - b1 * ke)
      /\ Fair(OwedShares(b2, c2, e), b2 * k2 - b2 * ke)
  BY <1>1, <1>2, <1>3, <1>4, OwedWithin
<1>7. /\ Fair(OwedShares(b1 - n, e, r), (b1 - n) * ke - (b1 - n) * kr)
      /\ Fair(OwedShares(b2 + n, e, r), (b2 + n) * ke - (b2 + n) * kr)
  BY <1>1, <1>2, <1>3, <1>4, <1>5, OwedWithin
<1>8. (b1 * k1 - b1 * kr) + (b2 * k2 - b2 * kr)
        = (b1 * k1 - b1 * ke) + (b2 * k2 - b2 * ke)
            + ((b1 - n) * ke - (b1 - n) * kr) + ((b2 + n) * ke - (b2 + n) * kr)
  <2>1. /\ (b1 - n) * ke = b1 * ke - n * ke /\ (b1 - n) * kr = b1 * kr - n * kr
        /\ (b2 + n) * ke = b2 * ke + n * ke /\ (b2 + n) * kr = b2 * kr + n * kr
    BY <1>3
  <2>2. /\ b1 * k1 \in Int /\ b1 * ke \in Int /\ b1 * kr \in Int /\ n * ke \in Int /\ n * kr \in Int
        /\ b2 * k2 \in Int /\ b2 * ke \in Int /\ b2 * kr \in Int
    BY <1>3
  <2> QED BY <2>1, <2>2
<1>9. /\ b1 * k1 - b1 * kr \in Int /\ b2 * k2 - b2 * kr \in Int
      /\ b1 * k1 - b1 * ke \in Int /\ b2 * k2 - b2 * ke \in Int
      /\ (b1 - n) * ke - (b1 - n) * kr \in Int /\ (b2 + n) * ke - (b2 + n) * kr \in Int
  BY <1>3, <1>5
<1> DEFINE s1 == OwedShares(b1, c1, r)
           s2 == OwedShares(b2, c2, r)
           p1 == OwedShares(b1, c1, e)
           p2 == OwedShares(b2, c2, e)
           q1 == OwedShares(b1 - n, e, r)
           q2 == OwedShares(b2 + n, e, r)
           fs1 == b1 * k1 - b1 * kr
           fs2 == b2 * k2 - b2 * kr
           fp1 == b1 * k1 - b1 * ke
           fp2 == b2 * k2 - b2 * ke
           fq1 == (b1 - n) * ke - (b1 - n) * kr
           fq2 == (b2 + n) * ke - (b2 + n) * kr
<1>10. /\ Fair(s1, fs1) /\ Fair(s2, fs2) /\ Fair(p1, fp1) /\ Fair(p2, fp2)
       /\ Fair(q1, fq1) /\ Fair(q2, fq2)
       /\ fs1 + fs2 = fp1 + fp2 + fq1 + fq2
       /\ fs1 \in Int /\ fs2 \in Int /\ fp1 \in Int /\ fp2 \in Int /\ fq1 \in Int /\ fq2 \in Int
  BY <1>6, <1>7, <1>8, <1>9
<1> HIDE DEF s1, s2, p1, p2, q1, q2, fs1, fs2, fp1, fp2, fq1, fq2
<1>11. (p1 + p2 + q1 + q2) - (s1 + s2) \in -7 .. 3
  BY <1>2, <1>10, RoundingOf
<1> QED BY <1>11 DEF s1, s2, p1, p2, q1, q2


\* What a holder is owed at any rate from e up, as one payment of the yield engine.
LEMMA PendingAs ==
  ASSUME NEW h \in Holders, ytBalance[h] \in Nat, NEW e \in Nat \ {0},
         checkpoint[h] \in (Nat \ {0}) \cup {NoRate}, checkpoint[h] # NoRate => checkpoint[h] <= e,
         ytBalance[h] > 0 => checkpoint[h] # NoRate
  PROVE  \E c \in Nat \ {0} : c <= e /\
           \A r \in Nat : r >= e => Pending(h, r) = OwedShares(ytBalance[h], c, r)
<1>1. ASSUME NEW c \in Nat \ {0}, NEW r \in Nat \ {0} PROVE OwedShares(0, c, r) = 0
  <2>1. MulDivFloor(0, r - c, c) = 0
    BY DEF MulDivFloor
  <2>2. MulDivFloor(0, WAD, r) = 0
    BY YtTokenAssumption DEF MulDivFloor
  <2> QED BY <2>1, <2>2 DEF OwedShares
<1>2. ASSUME NEW b \in Nat, NEW r \in Nat \ {0} PROVE OwedShares(b, r, r) = 0
  <2>1. MulDivFloor(b, r - r, r) = 0
    BY DEF MulDivFloor
  <2>2. MulDivFloor(0, WAD, r) = 0
    BY YtTokenAssumption DEF MulDivFloor
  <2> QED BY <2>1, <2>2 DEF OwedShares
<1>3. CASE ytBalance[h] = 0
  BY <1>1, <1>3 DEF Pending, Earns
<1>4. CASE ytBalance[h] > 0
  <2> DEFINE c == checkpoint[h]
  <2>1. c \in Nat \ {0} /\ c <= e /\ c # NoRate
    BY <1>4
  <2>2. ASSUME NEW r \in Nat, r >= e PROVE Pending(h, r) = OwedShares(ytBalance[h], c, r)
    <3>1. r \in Nat \ {0} /\ (c < r \/ c = r)
      BY <2>1, <2>2
    <3>2. CASE c < r
      BY <1>4, <2>1, <3>2 DEF Pending, Earns
    <3>3. CASE c = r
      BY <1>2, <3>1, <3>3 DEF Pending, Earns
    <3> QED BY <3>1, <3>2, <3>3
  <2> HIDE DEF c
  <2> QED BY <2>1, <2>2
<1> QED BY <1>3, <1>4

\* Rates on record are at par or above.
AtPar ==
  /\ lastObserved # NoRate => lastObserved >= WAD
  /\ maturityRate # NoRate => maturityRate >= WAD

\* No holder is settled above the rate a call uses, which is at par or above.
LEMMA CheckpointsBelow ==
  ASSUME Solvent, AtPar, \A q \in Rates : q >= WAD, NEW h \in Holders
  PROVE  /\ EffectiveRate \in Nat \ {0} /\ WAD <= EffectiveRate
         /\ checkpoint[h] \in (Nat \ {0}) \cup {NoRate}
         /\ checkpoint[h] # NoRate => checkpoint[h] <= EffectiveRate
         /\ ytBalance[h] > 0 => checkpoint[h] # NoRate
<1>1. /\ Typed /\ FrozenIsLastObservation /\ RatesRise /\ Backed /\ WAD \in Nat \ {0}
      /\ NoRate \notin Nat
  BY YtTokenAssumption DEF Solvent, TypeOK
<1>2. EffectiveRate \in Nat \ {0} /\ WAD <= EffectiveRate
  <2>1. /\ syRate \in Nat /\ syRate >= WAD /\ lastObserved \in Nat \cup {NoRate}
        /\ maturityRate \in Nat \cup {NoRate}
    BY <1>1, TokenizerAssumption DEF Typed
  <2>2. EffectiveRate \in Nat /\ WAD <= EffectiveRate
    BY <1>1, <2>1 DEF EffectiveRate, AtPar
  <2> QED BY <1>1, <2>2
<1>3. CASE RateOnRecord = NoRate
  <2>1. checkpoint[h] = NoRate /\ ytBalance[h] = 0
    BY <1>1, <1>3 DEF Backed, Untouched
  <2> QED BY <1>2, <2>1
<1>4. CASE RateOnRecord # NoRate
  <2>1. RateOnRecord \in Nat \ {0} /\ RateOnRecord <= EffectiveRate
    BY <1>1, <1>2, <1>4 DEF RatesRise, RateOnRecord, EffectiveRate, FrozenIsLastObservation
  <2>2. PICK D \in Nat \ {0}, p \in Nat : Covers(p, D, accrued[h], ytBalance[h], checkpoint[h], RateOnRecord)
    BY <1>1, <1>4 DEF Backed, Ledgered
  <2>3. /\ checkpoint[h] # NoRate => checkpoint[h] \in Nat \ {0} /\ checkpoint[h] <= RateOnRecord
        /\ ytBalance[h] > 0 => checkpoint[h] # NoRate
    BY <2>2 DEF Covers
  <2> QED BY <1>2, <2>1, <2>3
<1> QED BY <1>3, <1>4


\* A transfer settles both sides at the rate e and moves n; then nobody else is owed anything
\* else, and the two are owed, up to rounding, what they were.
LEMMA TransferKeeps ==
  ASSUME Solvent, AtPar, \A q \in Rates : q >= WAD,
         NEW from \in Holders, NEW to \in Holders, NEW n \in Nat, YtTransfer(from, to, n),
         from # to, NEW r \in Nat, r >= EffectiveRate
  PROVE  TotalOwed(r)' - TotalOwed(r) \in -7 .. 3
<1> DEFINE F == [h \in Holders |-> YieldOwed(h, r)]
           G == [h \in Holders |-> YieldOwed(h, r)']
           M == [F EXCEPT ![from] = G[from]]
<1>1. PICK e : e = EffectiveRate
  OBVIOUS
<1>2. /\ Typed /\ WAD \in Nat \ {0} /\ NoRate \notin Nat /\ IsFiniteSet(Holders)
      /\ ytBalance \in [Holders -> Nat] /\ accrued \in [Holders -> Nat]
      /\ checkpoint \in [Holders -> Nat \cup {NoRate}]
  BY YtTokenAssumption, PtTokenAssumption DEF Solvent, TypeOK, Typed, YtTypeOK
<1>3. /\ e \in Nat \ {0} /\ WAD <= e /\ e <= r /\ r \in Nat \ {0}
      /\ \A h \in Holders : /\ checkpoint[h] \in (Nat \ {0}) \cup {NoRate}
                            /\ checkpoint[h] # NoRate => checkpoint[h] <= e
                            /\ ytBalance[h] > 0 => checkpoint[h] # NoRate
  BY <1>1, <1>2, CheckpointsBelow
<1>4. /\ n > 0 /\ ytBalance[from] >= n /\ ytBalance' = Moved(ytBalance, from, to, n)
      /\ checkpoint' = SettledCheckpoint({from, to}, e)
      /\ accrued' = SettledAccrued({from, to}, e)
  BY <1>1 DEF YtTransfer, YtMove, SettleAll
<1>5. /\ ytBalance'[from] = ytBalance[from] - n /\ ytBalance'[to] = ytBalance[to] + n
      /\ \A h \in Holders \ {from, to} : ytBalance'[h] = ytBalance[h]
      /\ ytBalance' \in [Holders -> Nat]
  BY <1>2, <1>4, MovedFacts
<1>6. /\ \A h \in {from, to} : accrued'[h] = accrued[h] + Pending(h, e) /\ checkpoint'[h] = e
      /\ \A h \in Holders \ {from, to} : accrued'[h] = accrued[h] /\ checkpoint'[h] = checkpoint[h]
  <2>1. \A h \in {from, to} : accrued'[h] = accrued[h] + Pending(h, e)
    BY <1>4 DEF SettledAccrued
  <2>2. \A h \in {from, to} : checkpoint'[h] = e
    BY <1>2, <1>3, <1>4 DEF SettledCheckpoint
  <2>3. \A h \in Holders \ {from, to} : accrued'[h] = accrued[h] /\ checkpoint'[h] = checkpoint[h]
    BY <1>4 DEF SettledAccrued, SettledCheckpoint
  <2> QED BY <2>1, <2>2, <2>3
<1>7. \A h \in Holders \ {from, to} : G[h] = F[h]
  BY <1>5, <1>6 DEF YieldOwed, Pending, Earns
<1>8. PICK c1 \in Nat \ {0} : c1 <= e /\
        \A q \in Nat : q >= e => Pending(from, q) = OwedShares(ytBalance[from], c1, q)
  BY <1>2, <1>3, PendingAs
<1>9. PICK c2 \in Nat \ {0} : c2 <= e /\
        \A q \in Nat : q >= e => Pending(to, q) = OwedShares(ytBalance[to], c2, q)
  BY <1>2, <1>3, PendingAs
<1>10. ASSUME NEW h \in {from, to}
       PROVE  G[h] = accrued[h] + Pending(h, e) + OwedShares(ytBalance'[h], e, r)
  <2>1. Pending(h, r)' = OwedShares(ytBalance'[h], e, r)
    <3>1. MulDivFloor(ytBalance'[h], r - e, e) \in Nat /\ ytBalance'[h] \in Nat
      <4>1. r - e \in Nat /\ h \in Holders /\ ytBalance'[h] \in Nat
        BY <1>3, <1>5
      <4> QED BY <1>3, <4>1, FloorBound
    <3>2. CASE ytBalance'[h] = 0 \/ e = r
      <4>1. ytBalance'[h] * (r - e) = 0
        BY <1>3, <3>1, <3>2
      <4>2. MulDivFloor(ytBalance'[h], r - e, e) = 0
        BY <1>3, <4>1 DEF MulDivFloor
      <4>3. MulDivFloor(0, WAD, r) = 0
        BY <1>2, <1>3 DEF MulDivFloor
      <4>4. ~Earns(h, r)'
        BY <1>3, <1>6, <3>2 DEF Earns
      <4> QED BY <4>2, <4>3, <4>4 DEF OwedShares, Pending
    <3>3. CASE ytBalance'[h] > 0 /\ e < r
      <4>1. Earns(h, r)'
        BY <1>2, <1>3, <1>6, <3>3 DEF Earns
      <4> QED BY <1>6, <4>1 DEF Pending
    <3> QED BY <1>3, <3>1, <3>2, <3>3
  <2>2. G[h] = accrued'[h] + Pending(h, r)'
    BY DEF YieldOwed
  <2> QED BY <1>6, <2>1, <2>2
<1> DEFINE b1 == ytBalance[from]
           b2 == ytBalance[to]
           s1 == OwedShares(b1, c1, r)
           s2 == OwedShares(b2, c2, r)
           p1 == OwedShares(b1, c1, e)
           p2 == OwedShares(b2, c2, e)
           q1 == OwedShares(b1 - n, e, r)
           q2 == OwedShares(b2 + n, e, r)
<1>11. (p1 + p2 + q1 + q2) - (s1 + s2) \in -7 .. 3
  <2>1. b1 \in Nat /\ b2 \in Nat /\ n <= b1
    BY <1>2, <1>4
  <2> HIDE DEF b1, b2
  <2> QED BY <1>3, <1>8, <1>9, <2>1, HandoverConserves
<1>12. /\ F[from] = accrued[from] + s1 /\ F[to] = accrued[to] + s2
       /\ G[from] = accrued[from] + p1 + q1 /\ G[to] = accrued[to] + p2 + q2
  <2>1. Pending(from, r) = s1 /\ Pending(from, e) = p1 /\ Pending(to, r) = s2 /\ Pending(to, e) = p2
    BY <1>3, <1>8, <1>9
  <2>2. F[from] = accrued[from] + s1 /\ F[to] = accrued[to] + s2
    BY <2>1 DEF YieldOwed
  <2>3. G[from] = accrued[from] + p1 + q1 /\ G[to] = accrued[to] + p2 + q2
    BY <1>5, <1>10, <2>1
  <2> QED BY <2>2, <2>3
<1>13. /\ s1 \in Nat /\ s2 \in Nat /\ p1 \in Nat /\ p2 \in Nat /\ q1 \in Nat /\ q2 \in Nat
  <2>1. ASSUME NEW b \in Nat, NEW c \in Nat \ {0}, NEW q \in Nat \ {0}, c <= q
        PROVE  OwedShares(b, c, q) \in Nat
    <3>1. q - c \in Nat
      BY <2>1
    <3>2. MulDivFloor(b, q - c, c) \in Nat
      BY <3>1, FloorBound
    <3> QED BY <1>2, <3>2, FloorBound DEF OwedShares
  <2>2. b1 \in Nat /\ b2 \in Nat /\ b1 - n \in Nat /\ b2 + n \in Nat /\ c1 <= r /\ c2 <= r
    BY <1>2, <1>3, <1>4, <1>8, <1>9
  <2> HIDE DEF b1, b2
  <2> QED BY <1>3, <1>8, <1>9, <2>1, <2>2
<1>14. ASSUME NEW h \in Holders PROVE F[h] \in Int /\ G[h] \in Int
  <2>1. \A g \in Holders : accrued[g] \in Nat
    BY <1>2
  <2>2. CASE h \in {from, to}
    <3> HIDE DEF F, G, s1, s2, p1, p2, q1, q2
    <3> QED BY <1>12, <1>13, <2>1, <2>2
  <2>3. CASE h \notin {from, to}
    <3>1. Pending(h, r) \in Nat
      <4>1. PICK c \in Nat \ {0} : c <= e /\ \A q \in Nat : q >= e => Pending(h, q) = OwedShares(ytBalance[h], c, q)
        BY <1>2, <1>3, PendingAs
      <4>2. r - c \in Nat /\ ytBalance[h] \in Nat
        BY <1>2, <1>3, <4>1
      <4>3. MulDivFloor(ytBalance[h], r - c, c) \in Nat
        BY <4>1, <4>2, FloorBound
      <4>4. OwedShares(ytBalance[h], c, r) \in Nat
        BY <1>2, <1>3, <4>3, FloorBound DEF OwedShares
      <4> QED BY <1>3, <4>1, <4>4
    <3>2. F[h] \in Int
      BY <2>1, <3>1 DEF YieldOwed
    <3> QED BY <1>7, <2>3, <3>2
  <2> QED BY <2>2, <2>3
<1>15. /\ M[from] = G[from] /\ M[to] = F[to]
       /\ \A h \in Holders \ {from} : M[h] = F[h]
       /\ \A h \in Holders : M[h] \in Int
  <2>1. F \in [Holders -> Int]
    BY <1>14
  <2> HIDE DEF F, G
  <2> QED BY <1>14, <2>1
<1>16. TotalOwed(r) = Total(F) /\ TotalOwed(r)' = Total(G)
  BY DEF TotalOwed, Total
<1> HIDE DEF F, G, M
<1>17. Total(M) = Total(F) + (G[from] - F[from])
  BY <1>2, <1>14, <1>15, SumUpdate DEF Total
<1>18. Total(G) = Total(M) + (G[to] - F[to])
  <2>1. \A h \in Holders : h # to => G[h] = M[h]
    BY <1>7, <1>15
  <2>2. \A h \in Holders : M[h] \in Int /\ G[h] \in Int
    BY <1>14, <1>15
  <2>3. Total(G) = Total(M) + (G[to] - M[to])
    BY <1>2, <2>1, <2>2, SumUpdate DEF Total
  <2> QED BY <1>15, <2>3
<1>19. Total(F) \in Int
  BY <1>2, <1>14, SumType DEF Total
<1> HIDE DEF s1, s2, p1, p2, q1, q2
<1>20. accrued[from] \in Int /\ accrued[to] \in Int
  BY <1>2
<1>21. Total(G) - Total(F) = (p1 + p2 + q1 + q2) - (s1 + s2)
  BY <1>12, <1>13, <1>17, <1>18, <1>19, <1>20
<1> QED BY <1>11, <1>16, <1>21


\* Of the operations that change a balance of YT only a transfer leaves the supply alone.
LEMMA OnlyTransfersMove ==
  ASSUME Typed, [Next]_vars, ytBalance' # ytBalance, ytSupply' = ytSupply
  PROVE  \E from, to \in Holders : \E n \in Amounts : YtTransfer(from, to, n)
<1>1. ASSUME NEW h \in Holders, NEW n \in Amounts PROVE ~Split(h, n)
  <2> DEFINE face == MulDivFloor(n, syRate, WAD)
  <2>1. face \in Nat /\ ytSupply \in Int
    BY TokenizerAssumption, YtTokenAssumption, FloorBound DEF Typed, YtTypeOK
  <2>2. Split(h, n) => face > 0 /\ ytSupply' = ytSupply + face
    BY DEF Split, YtMint
  <2> HIDE DEF face
  <2> QED BY <2>1, <2>2
<1>2. ASSUME NEW h \in Holders, NEW n \in Amounts PROVE ~Recombine(h, n) /\ ~YtBurnDirect(h, n)
  BY TokenizerAssumption DEF Recombine, YtBurnDirect, YtBurn, Typed, YtTypeOK
<1>3. ASSUME NEW h \in Holders, NEW n \in Amounts, NEW g \in Holders
      PROVE  /\ ~RedeemAtMaturity(h, n) /\ ~PtBurnDirect(h, n) /\ ~SyDonate(h, n)
             /\ ~PtTransfer(h, g, n) /\ ~SyTransfer(h, g, n)
  BY DEF RedeemAtMaturity, PtBurnDirect, SyDonate, PtTransfer, SyTransfer, ytVars
<1>4. ASSUME NEW h \in Holders PROVE ~ClaimYield(h)
  BY DEF ClaimYield, YtSettleAndConsume
<1>5. /\ ~ObserveRate /\ ~Pause /\ ~Unpause /\ ~Mature /\ ytBalance' # ytBalance
      /\ \A q \in Rates : ~RateMoves(q)
  BY DEF ObserveRate, Pause, Unpause, Mature, RateMoves, ytVars
<1>6. Next
  BY DEF vars, ytVars
<1> QED BY <1>1, <1>2, <1>3, <1>4, <1>5, <1>6 DEF Next

\* A call records a rate at par or above.
LEMMA AtParStep ==
  ASSUME Typed, AtPar, \A q \in Rates : q >= WAD, [Next]_vars
  PROVE  AtPar'
<1>1. syRate >= WAD
  BY DEF Typed
<1> QED BY <1>1, RateSteps DEF AtPar, RecordRate, EffectiveRate, rateVars

\* As long as the rate does not fall, and starts at par or above, transfers of YT conserve yield:
\* at every rate the market can go on to, all holders together are owed, up to the rounding of six
\* divisions, what they were owed before.
THEOREM YieldConserved ==
  ASSUME RatesMayFall = FALSE, \A q \in Rates : q >= WAD
  PROVE  Spec => TransferConservesYield
<1> DEFINE Inv == Solvent /\ AtPar
           Kept == ytBalance' # ytBalance /\ ytSupply' = ytSupply
                     => \A r \in Rates : r >= EffectiveRate => TotalOwed(r)' - TotalOwed(r) \in -7 .. 3
<1>1. Init => Inv
  BY SolventStart DEF Init, AtPar
<1>2. Inv /\ [Next]_vars => Inv'
  BY SolventStep, AtParStep DEF Solvent, TypeOK
<1>3. Inv /\ [Next]_vars => Kept
  <2> SUFFICES ASSUME Solvent, AtPar, [Next]_vars, ytBalance' # ytBalance, ytSupply' = ytSupply,
                      NEW r \in Rates, r >= EffectiveRate
               PROVE  TotalOwed(r)' - TotalOwed(r) \in -7 .. 3
    OBVIOUS
  <2>1. PICK from \in Holders, to \in Holders, n \in Amounts : YtTransfer(from, to, n)
    BY OnlyTransfersMove DEF Solvent, TypeOK
  <2>2. n \in Nat /\ r \in Nat
    BY TokenizerAssumption
  <2>3. from # to
    <3> SUFFICES ASSUME from = to PROVE FALSE
      OBVIOUS
    <3>1. ytBalance \in [Holders -> Nat] /\ ytBalance' = Moved(ytBalance, from, from, n) /\ n <= ytBalance[from]
      BY <2>1, <2>2 DEF YtTransfer, YtMove, Solvent, TypeOK, Typed, YtTypeOK
    <3>2. ytBalance' = ytBalance
      BY <2>2, <3>1 DEF Moved
    <3> QED BY <3>2
  <2> QED BY <2>1, <2>2, <2>3, TransferKeeps
<1> QED BY <1>1, <1>2, <1>3, PTL DEF Spec, TransferConservesYield

=============================================================================

-------------------------- MODULE ArithmeticProofs --------------------------
(***************************************************************************)
(* What the rounding helpers guarantee for every operand, and how the total *)
(* of a ledger follows its entries.  The lemmas are cited by the proofs     *)
(* about the contracts.                                                    *)
(***************************************************************************)
EXTENDS FixedPoint, Ledgers, FiniteSetTheorems, TLAPS

\* Rounding down never pays more than the exact quotient.
LEMMA FloorBound ==
  ASSUME NEW a \in Nat, NEW b \in Nat, NEW c \in Nat \ {0}
  PROVE  /\ MulDivFloor(a, b, c) \in Nat
         /\ MulDivFloor(a, b, c) * c <= a * b
<1> DEFINE n == a * b
<1>1. n \in Nat
  BY SMT
<1>2. n \div c \in Nat /\ (n \div c) * c <= n
  <2> HIDE DEF n
  <2> QED BY <1>1, SMT
<1> QED BY <1>2 DEF MulDivFloor

\* Rounding up never reserves less than the exact quotient.
LEMMA CeilBound ==
  ASSUME NEW a \in Nat, NEW b \in Nat, NEW c \in Nat \ {0}
  PROVE  /\ MulDivCeil(a, b, c) \in Nat
         /\ MulDivCeil(a, b, c) * c >= a * b
<1> DEFINE n == a * b
<1>1. n \in Nat
  BY SMT
<1>2. (n + c - 1) \div c \in Nat /\ ((n + c - 1) \div c) * c >= n
  <2> HIDE DEF n
  <2> QED BY <1>1, SMT
<1> QED BY <1>2 DEF MulDivCeil

\* Multiplying by a natural number keeps an inequality.
LEMMA TimesMonotone ==
  ASSUME NEW a \in Int, NEW b \in Int, NEW c \in Nat, a <= b
  PROVE  a * c <= b * c
<1>1. (b - a) * c >= 0
  <2> DEFINE d == b - a
  <2>1. d \in Nat
    OBVIOUS
  <2> HIDE DEF d
  <2>2. d * c \in Nat
    BY <2>1
  <2> QED BY <2>2 DEF d
<1>2. (b - a) * c = b * c - a * c
  OBVIOUS
<1>3. a * c \in Int /\ b * c \in Int
  OBVIOUS
<1> QED BY <1>1, <1>2, <1>3

\* A positive factor cancels.
LEMMA TimesCancels ==
  ASSUME NEW a \in Int, NEW b \in Int, NEW c \in Nat \ {0}, a * c <= b * c
  PROVE  a <= b
<1> SUFFICES ASSUME b + 1 <= a PROVE FALSE
  OBVIOUS
<1>1. (b + 1) * c <= a * c
  BY TimesMonotone
<1>2. (b + 1) * c = b * c + c
  OBVIOUS
<1>3. a * c \in Int /\ b * c \in Int
  OBVIOUS
<1> QED BY <1>1, <1>2, <1>3

\* A factor below another, strictly, with more left over than is divided away.
LEMMA TimesCancelsRest ==
  ASSUME NEW a \in Int, NEW b \in Int, NEW c \in Nat \ {0}, a * c < b * c + c
  PROVE  a <= b
<1> SUFFICES ASSUME b + 1 <= a PROVE FALSE
  OBVIOUS
<1>1. (b + 1) * c <= a * c
  BY TimesMonotone
<1>2. (b + 1) * c = b * c + c
  OBVIOUS
<1>3. a * c \in Int /\ b * c \in Int
  OBVIOUS
<1> QED BY <1>1, <1>2, <1>3

\* Rounding down pays the largest number that is not more than the exact quotient.
LEMMA FloorLargest ==
  ASSUME NEW a \in Nat, NEW b \in Nat, NEW c \in Nat \ {0}, NEW x \in Int, x * c <= a * b
  PROVE  x <= MulDivFloor(a, b, c)
<1> DEFINE n == a * b
           q == n \div c
<1>1. n \in Nat
  BY SMT
<1>2. q \in Nat /\ n < q * c + c
  <2> HIDE DEF n
  <2> QED BY <1>1, SMT
<1>3. x * c < q * c + c
  <2>1. x * c \in Int /\ q * c \in Int /\ x * c <= n
    BY <1>2
  <2> HIDE DEF n, q
  <2> QED BY <1>1, <1>2, <2>1
<1>4. x <= q
  <2> HIDE DEF n, q
  <2> QED BY <1>2, <1>3, TimesCancelsRest
<1> QED BY <1>4 DEF MulDivFloor

\* What rounding down leaves out is less than a unit.
LEMMA FloorTight ==
  ASSUME NEW a \in Nat, NEW b \in Nat, NEW c \in Nat \ {0}
  PROVE  a * b < MulDivFloor(a, b, c) * c + c
<1> DEFINE n == a * b
<1>1. n \in Nat
  BY SMT
<1>2. n < (n \div c) * c + c
  <2> HIDE DEF n
  <2> QED BY <1>1, SMT
<1> QED BY <1>2 DEF MulDivFloor

\* Rounding up overcharges by less than a unit.
LEMMA CeilTight ==
  ASSUME NEW a \in Nat, NEW b \in Nat, NEW c \in Nat \ {0}
  PROVE  MulDivCeil(a, b, c) * c <= a * b + (c - 1)
<1> DEFINE n == a * b
<1>1. n \in Nat
  BY SMT
<1>2. ((n + c - 1) \div c) * c <= n + (c - 1)
  <2> HIDE DEF n
  <2> QED BY <1>1, SMT
<1> QED BY <1>2 DEF MulDivCeil

\* Rounding up charges the smallest number that is not less than the exact quotient.
LEMMA CeilLeast ==
  ASSUME NEW a \in Nat, NEW b \in Nat, NEW c \in Nat \ {0}, NEW x \in Int, a * b <= x * c
  PROVE  MulDivCeil(a, b, c) <= x
<1> DEFINE q == MulDivCeil(a, b, c)
<1>1. q \in Nat /\ q * c <= a * b + (c - 1)
  BY CeilBound, CeilTight
<1> HIDE DEF q
<1>2. q * c < x * c + c
  <2>1. q * c \in Int /\ a * b \in Int /\ x * c \in Int
    BY <1>1
  <2> DEFINE u == q * c
             v == a * b
             w == x * c
  <2>2. u \in Int /\ v \in Int /\ w \in Int /\ u <= v + (c - 1) /\ v <= w
    BY <1>1, <2>1
  <2> HIDE DEF u, v, w
  <2>3. u < w + c
    BY <2>2
  <2> QED BY <2>3 DEF u, w
<1>3. q <= x
  BY <1>1, <1>2, TimesCancelsRest
<1> QED BY <1>3 DEF q

\* Rounding down a larger product gives no less.
LEMMA FloorMonotone ==
  ASSUME NEW a \in Nat, NEW b \in Nat, NEW d \in Nat, NEW c \in Nat \ {0}, a <= d
  PROVE  MulDivFloor(a, b, c) <= MulDivFloor(d, b, c)
<1>1. a * b <= d * b
  BY TimesMonotone
<1>2. MulDivFloor(a, b, c) \in Nat /\ MulDivFloor(a, b, c) * c <= a * b
  BY FloorBound
<1>3. MulDivFloor(a, b, c) * c <= d * b
  <2> DEFINE y == a * b
             z == d * b
             m == MulDivFloor(a, b, c)
  <2>1. m \in Nat /\ y \in Nat /\ z \in Nat /\ m * c <= y /\ y <= z
    BY <1>1, <1>2
  <2> HIDE DEF m, y, z
  <2>2. m * c \in Nat
    BY <2>1
  <2>3. m * c <= z
    BY <2>1, <2>2
  <2> QED BY <2>3 DEF m, z
<1> QED BY <1>2, <1>3, FloorLargest

-----------------------------------------------------------------------------
(***************************************************************************)
(* Induction over finite sets.  The induction theorems of the library take  *)
(* an operator; the well-foundedness of strict inclusion, which they rest   *)
(* on, gives the same with the set of good subsets as an ordinary value.    *)
(***************************************************************************)

\* A set of subsets of S that holds each subset whose strict subsets it holds,
\* holds S.
LEMMA SetInduction ==
  ASSUME NEW S, IsFiniteSet(S), NEW Good \in SUBSET SUBSET S,
         \A U \in SUBSET S : (\A V \in SUBSET U : V # U => V \in Good) => U \in Good
  PROVE  S \in Good
<1> SUFFICES ASSUME S \notin Good PROVE FALSE
  OBVIOUS
<1> DEFINE Bad == (SUBSET S) \ Good
           Finite == FiniteSubsetsOf(S)
           R == StrictSubsetOrdering(S)
<1>1. IsWellFoundedOn(R, Finite)
  BY FS_StrictSubsetOrderingWellFounded
<1>2. Finite = SUBSET S
  BY FS_FiniteSubsetsOfFinite
<1>3. PICK U \in Bad : \A V \in Bad : <<V, U>> \notin R
  <2>1. Bad \subseteq Finite /\ Bad # {}
    BY <1>2
  <2> HIDE DEF Bad, Finite, R
  <2> QED BY <1>1, <2>1, WFMin
<1>4. \A V \in SUBSET U : V # U => V \in Good
  BY <1>3 DEF StrictSubsetOrdering
<1> QED BY <1>3, <1>4

\* A set of positions that is not empty has a first and a last one.
LEMMA EndsExist ==
  ASSUME NEW n \in Nat, NEW S \in SUBSET (1 .. n), S # {}
  PROVE  /\ \E m \in S : \A j \in S : m <= j
         /\ \E m \in S : \A j \in S : j <= m
<1> DEFINE Ends(U) == /\ \E m \in U : \A j \in U : m <= j
                      /\ \E m \in U : \A j \in U : j <= m
           Good == {U \in SUBSET S : U # {} => Ends(U)}
<1>1. ASSUME NEW U \in SUBSET S, \A V \in SUBSET U : V # U => V \in Good
      PROVE  U \in Good
  <2> SUFFICES ASSUME U # {} PROVE Ends(U)
    OBVIOUS
  <2>1. PICK x \in U : TRUE
    OBVIOUS
  <2> DEFINE V == U \ {x}
  <2>2. V \subseteq Int /\ x \in Int /\ (V # {} => Ends(V))
    <3>1. V \in SUBSET U /\ V # U
      BY <2>1
    <3>2. V \in Good
      BY <1>1, <3>1
    <3> QED BY <3>2
  <2>3. CASE V = {}
    <3>1. U = {x}
      BY <2>3
    <3> QED BY <2>2, <3>1
  <2>4. CASE V # {}
    <3>1. PICK a \in V, b \in V : \A j \in V : a <= j /\ j <= b
      BY <2>2, <2>4
    <3>2. \A j \in U : j = x \/ j \in V
      OBVIOUS
    <3>3. \A j \in U : (IF x <= a THEN x ELSE a) <= j
      BY <2>2, <3>1, <3>2
    <3>4. \A j \in U : j <= (IF b <= x THEN x ELSE b)
      BY <2>2, <3>1, <3>2
    <3> QED BY <3>3, <3>4
  <2> QED BY <2>3, <2>4
<1>2. IsFiniteSet(S)
  <2>1. IsFiniteSet(1 .. n)
    BY FS_Interval
  <2> QED BY <2>1, FS_Subset
<1>3. S \in Good
  <2>1. Good \in SUBSET SUBSET S
    OBVIOUS
  <2>2. \A U \in SUBSET S : (\A V \in SUBSET U : V # U => V \in Good) => U \in Good
    BY <1>1
  <2> HIDE DEF Good
  <2> QED BY <1>2, <2>1, <2>2, SetInduction
<1> QED BY <1>3

-----------------------------------------------------------------------------
(***************************************************************************)
(* A sum is defined by a recursive function over the subsets of its domain. *)
(* Such a function exists, its values do not depend on the set it was built *)
(* for, and so a sum satisfies the equation it was defined by.              *)
(***************************************************************************)

\* The element a sum takes out first.
Chosen(s) == CHOOSE x \in s : TRUE

\* g adds up f over every subset of S, in the order of Chosen.
AddsAll(g, f, S) == g = [s \in SUBSET S |-> IF s = {} THEN 0 ELSE f[Chosen(s)] + g[s \ {Chosen(s)}]]

\* The library's definition, named.
LEMMA SumIter ==
  ASSUME NEW S, NEW f
  PROVE  SumOver(f, S) = (CHOOSE g : AddsAll(g, f, S))[S]
BY DEF SumOver, MapThenSumSet, MapThenFoldSet, AddsAll, Chosen

\* An element of a set that has one.
LEMMA ChosenIn == ASSUME NEW s, s # {} PROVE Chosen(s) \in s
BY DEF Chosen

\* Two functions that add up f agree wherever both are defined.
LEMMA AddsUnique ==
  ASSUME NEW S, NEW T, NEW f, NEW g, NEW h, NEW U, IsFiniteSet(U),
         AddsAll(g, f, S), AddsAll(h, f, T), U \subseteq S, U \subseteq T
  PROVE  g[U] = h[U]
<1> DEFINE Good == {V \in SUBSET U : g[V] = h[V]}
<1>1. ASSUME NEW V \in SUBSET U, \A W \in SUBSET V : W # V => W \in Good
      PROVE  V \in Good
  <2>1. /\ g[V] = IF V = {} THEN 0 ELSE f[Chosen(V)] + g[V \ {Chosen(V)}]
        /\ h[V] = IF V = {} THEN 0 ELSE f[Chosen(V)] + h[V \ {Chosen(V)}]
    BY DEF AddsAll
  <2>2. V # {} => V \ {Chosen(V)} \in Good
    BY <1>1, ChosenIn
  <2> QED BY <2>1, <2>2
<1>2. Good \in SUBSET SUBSET U
  OBVIOUS
<1>3. U \in Good
  <2> HIDE DEF Good
  <2> QED BY <1>1, <1>2, SetInduction
<1> QED BY <1>3

\* Over a finite set there is one: from one for each strict subset, one for the set.
LEMMA AddsExists ==
  ASSUME NEW S, NEW f, IsFiniteSet(S)
  PROVE  \E g : AddsAll(g, f, S)
<1> DEFINE Good == {U \in SUBSET S : \E g : AddsAll(g, f, U)}
<1>1. ASSUME NEW U \in SUBSET S, \A V \in SUBSET U : V # U => V \in Good
      PROVE  U \in Good
  <2> DEFINE below(V) == CHOOSE g : AddsAll(g, f, V)
             rest(s) == s \ {Chosen(s)}
             g == [s \in SUBSET U |->
                     IF s = {} THEN 0 ELSE f[Chosen(s)] + below(rest(s))[rest(s)]]
  <2>1. ASSUME NEW V \in SUBSET U, V # U PROVE AddsAll(below(V), f, V)
    BY <1>1, <2>1
  <2>2. ASSUME NEW s \in SUBSET U, s # {} PROVE g[rest(s)] = below(rest(s))[rest(s)]
    <3> DEFINE t == rest(s)
    <3>1. t \in SUBSET U /\ t # U
      BY <2>2, ChosenIn
    <3>2. AddsAll(below(t), f, t)
      BY <2>1, <3>1
    <3> HIDE DEF below
    <3>3. below(t)[t] = IF t = {} THEN 0 ELSE f[Chosen(t)] + below(t)[rest(t)]
      BY <3>2 DEF AddsAll
    <3>4. g[t] = IF t = {} THEN 0 ELSE f[Chosen(t)] + below(rest(t))[rest(t)]
      BY <3>1
    <3>5. ASSUME t # {} PROVE below(t)[rest(t)] = below(rest(t))[rest(t)]
      <4>1. rest(t) \in SUBSET U /\ rest(t) # U /\ rest(t) \subseteq t
        BY <3>1, <3>5, ChosenIn
      <4>2. AddsAll(below(rest(t)), f, rest(t))
        BY <2>1, <4>1
      <4>3. IsFiniteSet(rest(t))
        BY <4>1, FS_Subset
      <4> HIDE DEF t, rest
      <4> QED BY <3>2, <4>1, <4>2, <4>3, AddsUnique
    <3> HIDE DEF g, t
    <3>6. g[t] = below(t)[t]
      BY <3>3, <3>4, <3>5
    <3> QED BY <3>6 DEF t
  <2>3. AddsAll(g, f, U)
    <3> HIDE DEF below
    <3>1. \A s \in SUBSET U : s # {} => g[rest(s)] = below(rest(s))[rest(s)]
      BY <2>2
    <3> QED BY <3>1 DEF AddsAll
  <2> QED BY <2>3
<1>2. Good \in SUBSET SUBSET S
  OBVIOUS
<1>3. S \in Good
  <2> HIDE DEF Good
  <2> QED BY <1>1, <1>2, SetInduction
<1> QED BY <1>3

\* The defining equation of a sum.
LEMMA SumStep ==
  ASSUME NEW S, NEW f, IsFiniteSet(S)
  PROVE  SumOver(f, S) = IF S = {} THEN 0 ELSE f[Chosen(S)] + SumOver(f, S \ {Chosen(S)})
<1> DEFINE it(U) == CHOOSE g : AddsAll(g, f, U)
<1>1. \A U \in SUBSET S : AddsAll(it(U), f, U) /\ SumOver(f, U) = it(U)[U]
  <2> SUFFICES ASSUME NEW U \in SUBSET S PROVE AddsAll(it(U), f, U) /\ SumOver(f, U) = it(U)[U]
    OBVIOUS
  <2>1. IsFiniteSet(U)
    BY FS_Subset
  <2>2. \E g : AddsAll(g, f, U)
    BY <2>1, AddsExists
  <2>3. AddsAll(it(U), f, U)
    BY <2>2
  <2> QED BY <2>3, SumIter
<1> HIDE DEF it
<1>2. CASE S = {}
  BY <1>1, <1>2 DEF AddsAll
<1>3. CASE S # {}
  <2> DEFINE T == S \ {Chosen(S)}
  <2>1. T \in SUBSET S /\ S \in SUBSET S
    OBVIOUS
  <2>2. it(S)[S] = f[Chosen(S)] + it(S)[T]
    BY <1>1, <1>3, <2>1 DEF AddsAll
  <2>3. it(S)[T] = it(T)[T]
    <3>1. IsFiniteSet(T)
      BY FS_Subset
    <3>2. AddsAll(it(S), f, S) /\ AddsAll(it(T), f, T) /\ T \subseteq S
      BY <1>1, <2>1
    <3> HIDE DEF T
    <3> QED BY <3>1, <3>2, AddsUnique
  <2> QED BY <1>1, <1>3, <2>1, <2>2, <2>3
<1> QED BY <1>2, <1>3

-----------------------------------------------------------------------------
(***************************************************************************)
(* What a sum is worth.                                                    *)
(***************************************************************************)

\* Nothing adds up to zero.
LEMMA SumEmpty == ASSUME NEW f PROVE SumOver(f, {}) = 0
BY SumStep, FS_EmptySet

\* Integers add up to an integer, and naturals to a natural.
LEMMA SumType ==
  ASSUME NEW S, IsFiniteSet(S), NEW f,
         NEW Numbers \in {Nat, Int}, \A x \in S : f[x] \in Numbers
  PROVE  SumOver(f, S) \in Numbers
<1> DEFINE Good == {U \in SUBSET S : SumOver(f, U) \in Numbers}
<1>1. ASSUME NEW U \in SUBSET S, \A V \in SUBSET U : V # U => V \in Good
      PROVE  U \in Good
  <2>1. IsFiniteSet(U)
    BY FS_Subset
  <2>2. U # {} => Chosen(U) \in U /\ U \ {Chosen(U)} \in Good
    BY <1>1, ChosenIn
  <2>3. SumOver(f, U) = IF U = {} THEN 0 ELSE f[Chosen(U)] + SumOver(f, U \ {Chosen(U)})
    BY <2>1, SumStep
  <2> QED BY <2>2, <2>3
<1>2. Good \in SUBSET SUBSET S
  OBVIOUS
<1>3. S \in Good
  <2> HIDE DEF Good
  <2> QED BY <1>1, <1>2, SetInduction
<1> QED BY <1>3

\* Any element may be taken out first.
LEMMA SumAt ==
  ASSUME NEW S, IsFiniteSet(S), NEW f, \A y \in S : f[y] \in Int, NEW x \in S
  PROVE  SumOver(f, S) = f[x] + SumOver(f, S \ {x})
<1> DEFINE Without(U, y) == SumOver(f, U \ {y})
           Good == {U \in SUBSET S : \A y \in U : SumOver(f, U) = f[y] + Without(U, y)}
<1>1. ASSUME NEW U \in SUBSET S, \A V \in SUBSET U : V # U => V \in Good
      PROVE  U \in Good
  <2> SUFFICES ASSUME NEW y \in U PROVE SumOver(f, U) = f[y] + Without(U, y)
    OBVIOUS
  <2> DEFINE p == Chosen(U)
  <2>1. p \in U
    BY ChosenIn
  <2>2. SumOver(f, U) = f[p] + Without(U, p)
    <3>1. IsFiniteSet(U)
      BY FS_Subset
    <3> QED BY <3>1, SumStep
  <2>3. CASE y # p
    <3>1. U \ {p} \in Good /\ U \ {y} \in Good
      BY <1>1, <2>1
    <3> DEFINE rest == SumOver(f, (U \ {p}) \ {y})
    <3>2. Without(U, p) = f[y] + rest
      BY <2>1, <2>3, <3>1
    <3>3. Without(U, y) = f[p] + rest
      <4>1. (U \ {p}) \ {y} = (U \ {y}) \ {p}
        OBVIOUS
      <4> QED BY <2>1, <2>3, <3>1, <4>1
    <3>4. rest \in Int /\ f[p] \in Int /\ f[y] \in Int
      <4>1. IsFiniteSet((U \ {p}) \ {y}) /\ \A z \in (U \ {p}) \ {y} : f[z] \in Int
        BY FS_Subset
      <4> QED BY <2>1, <4>1, SumType
    <3> HIDE DEF rest
    <3> HIDE DEF p, Without
    <3> QED BY <2>2, <3>2, <3>3, <3>4
  <2> QED BY <2>2, <2>3
<1>2. Good \in SUBSET SUBSET S
  OBVIOUS
<1>3. S \in Good
  <2> HIDE DEF Good
  <2> QED BY <1>1, <1>2, SetInduction
<1> QED BY <1>3

\* A sum depends on the values added only.
LEMMA SumSame ==
  ASSUME NEW S, IsFiniteSet(S), NEW f, NEW g, \A x \in S : f[x] = g[x]
  PROVE  SumOver(f, S) = SumOver(g, S)
<1> DEFINE Good == {U \in SUBSET S : SumOver(f, U) = SumOver(g, U)}
<1>1. ASSUME NEW U \in SUBSET S, \A V \in SUBSET U : V # U => V \in Good
      PROVE  U \in Good
  <2>1. U # {} => Chosen(U) \in U /\ U \ {Chosen(U)} \in Good
    BY <1>1, ChosenIn
  <2>2. /\ SumOver(f, U) = IF U = {} THEN 0 ELSE f[Chosen(U)] + SumOver(f, U \ {Chosen(U)})
        /\ SumOver(g, U) = IF U = {} THEN 0 ELSE g[Chosen(U)] + SumOver(g, U \ {Chosen(U)})
    BY FS_Subset, SumStep
  <2> QED BY <2>1, <2>2
<1>2. Good \in SUBSET SUBSET S
  OBVIOUS
<1>3. S \in Good
  <2> HIDE DEF Good
  <2> QED BY <1>1, <1>2, SetInduction
<1> QED BY <1>3

\* Sums add up.
LEMMA SumPlus ==
  ASSUME NEW S, IsFiniteSet(S), NEW f, NEW g, NEW h,
         \A x \in S : f[x] \in Int /\ g[x] \in Int /\ h[x] = f[x] + g[x]
  PROVE  SumOver(h, S) = SumOver(f, S) + SumOver(g, S)
<1> DEFINE Good == {U \in SUBSET S : SumOver(h, U) = SumOver(f, U) + SumOver(g, U)}
<1>1. ASSUME NEW U \in SUBSET S, \A V \in SUBSET U : V # U => V \in Good
      PROVE  U \in Good
  <2>0. IsFiniteSet(U)
    BY FS_Subset
  <2>1. CASE U = {}
    BY <2>1, SumEmpty
  <2>2. CASE U # {}
    <3> DEFINE p == Chosen(U)
               V == U \ {p}
    <3>1. p \in U /\ V \in Good /\ IsFiniteSet(V)
      BY <1>1, <2>2, ChosenIn, FS_Subset
    <3>2. /\ SumOver(f, U) = f[p] + SumOver(f, V)
          /\ SumOver(g, U) = g[p] + SumOver(g, V)
          /\ SumOver(h, U) = h[p] + SumOver(h, V)
      BY <2>0, <2>2, SumStep
    <3>3. SumOver(f, V) \in Int /\ SumOver(g, V) \in Int
      BY <3>1, SumType
    <3> HIDE DEF p, V
    <3> QED BY <3>1, <3>2, <3>3
  <2> QED BY <2>1, <2>2
<1>2. Good \in SUBSET SUBSET S
  OBVIOUS
<1>3. S \in Good
  <2> HIDE DEF Good
  <2> QED BY <1>1, <1>2, SetInduction
<1> QED BY <1>3

\* A sum of multiples is the multiple of the sum.
LEMMA SumScale ==
  ASSUME NEW S, IsFiniteSet(S), NEW f, NEW g, NEW n \in Int,
         \A x \in S : f[x] \in Int /\ g[x] = f[x] * n
  PROVE  SumOver(g, S) = SumOver(f, S) * n
<1> DEFINE Good == {U \in SUBSET S : SumOver(g, U) = SumOver(f, U) * n}
<1>1. ASSUME NEW U \in SUBSET S, \A V \in SUBSET U : V # U => V \in Good
      PROVE  U \in Good
  <2>0. IsFiniteSet(U)
    BY FS_Subset
  <2>1. CASE U = {}
    BY <2>1, SumEmpty
  <2>2. CASE U # {}
    <3> DEFINE p == Chosen(U)
               V == U \ {p}
               t == SumOver(f, V)
    <3>1. p \in U /\ V \in Good /\ IsFiniteSet(V)
      BY <1>1, <2>2, ChosenIn, FS_Subset
    <3>2. /\ SumOver(f, U) = f[p] + t
          /\ SumOver(g, U) = g[p] + SumOver(g, V)
      BY <2>0, <2>2, SumStep
    <3>3. t \in Int /\ f[p] \in Int /\ g[p] = f[p] * n /\ SumOver(g, V) = t * n
      BY <3>1, SumType
    <3> HIDE DEF p, V, t
    <3>4. (f[p] + t) * n = f[p] * n + t * n
      BY <3>3
    <3> QED BY <3>2, <3>3, <3>4
  <2> QED BY <2>1, <2>2
<1>2. Good \in SUBSET SUBSET S
  OBVIOUS
<1>3. S \in Good
  <2> HIDE DEF Good
  <2> QED BY <1>1, <1>2, SetInduction
<1> QED BY <1>3

\* Changing one value changes the sum by as much.
LEMMA SumUpdate ==
  ASSUME NEW S, IsFiniteSet(S), NEW f, NEW g, NEW x \in S,
         \A y \in S : f[y] \in Int /\ g[y] \in Int /\ (y # x => g[y] = f[y])
  PROVE  SumOver(g, S) = SumOver(f, S) + (g[x] - f[x])
<1> DEFINE T == S \ {x}
<1>1. IsFiniteSet(T)
  BY FS_Subset
<1>2. SumOver(f, T) = SumOver(g, T) /\ SumOver(f, T) \in Int
  BY <1>1, SumSame, SumType
<1>3. SumOver(f, S) = f[x] + SumOver(f, T) /\ SumOver(g, S) = g[x] + SumOver(g, T)
  BY SumAt
<1> HIDE DEF T
<1> QED BY <1>2, <1>3

\* The sum over two sets that have nothing in common is the sum of the two sums.
LEMMA SumDisjoint ==
  ASSUME NEW S, IsFiniteSet(S), NEW T, IsFiniteSet(T), S \cap T = {},
         NEW f, \A x \in S \cup T : f[x] \in Int
  PROVE  SumOver(f, S \cup T) = SumOver(f, S) + SumOver(f, T)
<1> DEFINE Good == {U \in SUBSET T : SumOver(f, S \cup U) = SumOver(f, S) + SumOver(f, U)}
<1>1. ASSUME NEW U \in SUBSET T, \A V \in SUBSET U : V # U => V \in Good
      PROVE  U \in Good
  <2>1. IsFiniteSet(U) /\ IsFiniteSet(S \cup U) /\ SumOver(f, S) \in Int
    BY FS_Subset, FS_Union, SumType
  <2>2. CASE U = {}
    <3>1. SumOver(f, U) = 0 /\ S \cup U = S
      BY <2>2, SumEmpty
    <3> QED BY <2>1, <3>1
  <2>3. CASE U # {}
    <3>1. PICK x \in U : TRUE
      BY <2>3
    <3> DEFINE V == U \ {x}
    <3>2. V \in Good /\ IsFiniteSet(V) /\ SumOver(f, V) \in Int
      <4>1. V \in SUBSET U /\ V # U
        BY <3>1
      <4>2. IsFiniteSet(V)
        BY <2>1, <4>1, FS_Subset
      <4>3. \A y \in V : f[y] \in Int
        OBVIOUS
      <4> HIDE DEF V
      <4> QED BY <1>1, <4>1, <4>2, <4>3, SumType
    <3>3. (S \cup U) \ {x} = S \cup V
      BY <3>1
    <3>4. /\ SumOver(f, S \cup U) = f[x] + SumOver(f, S \cup V)
          /\ SumOver(f, U) = f[x] + SumOver(f, V) /\ f[x] \in Int
      <4>1. /\ \A y \in S \cup U : f[y] \in Int
            /\ x \in S \cup U
        BY <3>1
      <4> QED BY <2>1, <3>1, <3>3, <4>1, SumAt
    <3>5. SumOver(f, S \cup V) = SumOver(f, S) + SumOver(f, V)
      BY <3>2
    <3> HIDE DEF V
    <3> QED BY <2>1, <3>2, <3>4, <3>5
  <2> QED BY <2>2, <2>3
<1>2. T \in Good
  <2> HIDE DEF Good
  <2>1. Good \in SUBSET SUBSET T
    BY DEF Good
  <2> QED BY <1>1, <2>1, SetInduction
<1> QED BY <1>2

\* A union of finitely many finite sets of which no two meet is summed up set by set.
LEMMA SumByParts ==
  ASSUME NEW I, IsFiniteSet(I), NEW R, \A i \in I : IsFiniteSet(R[i]),
         \A i, j \in I : i # j => R[i] \cap R[j] = {},
         NEW f, \A i \in I : \A x \in R[i] : f[x] \in Int,
         NEW g, \A i \in I : g[i] = SumOver(f, R[i])
  PROVE  SumOver(f, UNION {R[i] : i \in I}) = SumOver(g, I)
<1> DEFINE U(J) == UNION {R[j] : j \in J}
           Good == {J \in SUBSET I : IsFiniteSet(U(J)) /\ SumOver(f, U(J)) = SumOver(g, J)}
<1>1. ASSUME NEW J \in SUBSET I, \A K \in SUBSET J : K # J => K \in Good
      PROVE  J \in Good
  <2>1. IsFiniteSet(J)
    BY FS_Subset
  <2>2. CASE J = {}
    <3>1. U(J) = {}
      BY <2>2
    <3>2. IsFiniteSet(U(J)) /\ SumOver(f, U(J)) = 0 /\ SumOver(g, J) = 0
      BY <2>2, <3>1, SumEmpty, FS_EmptySet
    <3> QED BY <3>2
  <2>3. CASE J # {}
    <3>1. PICK i \in J : TRUE
      BY <2>3
    <3> DEFINE K == J \ {i}
    <3>2. K \in SUBSET J /\ K # J /\ K \in SUBSET I
      BY <3>1
    <3>3. K \in Good
      BY <1>1, <3>2
    <3>4. IsFiniteSet(U(K)) /\ SumOver(f, U(K)) = SumOver(g, K)
      BY <3>3
    <3>5. U(J) = U(K) \cup R[i]
      <4>1. J = K \cup {i}
        BY <3>1
      <4> QED BY <4>1
    <3>6. U(K) \cap R[i] = {}
      <4>1. \A k \in K : R[k] \cap R[i] = {}
        BY <3>1
      <4> QED BY <4>1
    <3>7. IsFiniteSet(R[i]) /\ IsFiniteSet(U(J))
      <4> DEFINE A == U(K)
      <4>1. IsFiniteSet(A) /\ IsFiniteSet(R[i]) /\ U(J) = A \cup R[i]
        BY <3>1, <3>4, <3>5
      <4> HIDE DEF A
      <4>2. IsFiniteSet(A \cup R[i])
        BY <4>1, FS_Union
      <4> QED BY <4>1, <4>2
    <3>8. \A x \in U(K) \cup R[i] : f[x] \in Int
      BY <3>1
    <3>9. SumOver(f, U(J)) = SumOver(f, U(K)) + SumOver(f, R[i])
      <4> DEFINE A == U(K)
                 B == R[i]
      <4>1. /\ IsFiniteSet(A) /\ IsFiniteSet(B) /\ A \cap B = {} /\ U(J) = A \cup B
            /\ \A x \in A \cup B : f[x] \in Int
        BY <3>4, <3>5, <3>6, <3>7, <3>8
      <4> HIDE DEF A, B
      <4>2. SumOver(f, A \cup B) = SumOver(f, A) + SumOver(f, B)
        BY <4>1, SumDisjoint
      <4> QED BY <4>1, <4>2 DEF A, B
    <3>10. \A j \in J : g[j] \in Int
      <4> SUFFICES ASSUME NEW j \in J PROVE g[j] \in Int
        OBVIOUS
      <4>1. SumOver(f, R[j]) \in Int
        BY SumType
      <4> QED BY <4>1
    <3>11. SumOver(g, J) = g[i] + SumOver(g, K) /\ SumOver(g, K) \in Int /\ g[i] \in Int
      <4>1. IsFiniteSet(K)
        BY <2>1, FS_Subset
      <4> QED BY <2>1, <3>1, <3>10, <4>1, SumAt, SumType
    <3>12. SumOver(g, J) = SumOver(f, U(J))
      <4>1. g[i] = SumOver(f, R[i])
        BY <3>1
      <4> QED BY <3>4, <3>9, <3>11, <4>1
    <3> QED BY <3>7, <3>12
  <2> QED BY <2>2, <2>3
<1>2. I \in Good
  <2> HIDE DEF Good
  <2>1. Good \in SUBSET SUBSET I
    BY DEF Good
  <2> QED BY <1>1, <2>1, SetInduction
<1> QED BY <1>2

\* A sum of naturals is at least any of them.
LEMMA SumBound ==
  ASSUME NEW S, IsFiniteSet(S), NEW f, \A y \in S : f[y] \in Nat, NEW x \in S
  PROVE  f[x] <= SumOver(f, S)
<1> DEFINE T == S \ {x}
<1>1. IsFiniteSet(T)
  BY FS_Subset
<1>2. SumOver(f, T) \in Nat
  BY <1>1, SumType
<1>3. SumOver(f, S) = f[x] + SumOver(f, T)
  BY SumAt
<1> HIDE DEF T
<1> QED BY <1>2, <1>3

\* A sum of smaller values is smaller.
LEMMA SumBelow ==
  ASSUME NEW S, IsFiniteSet(S), NEW f, NEW g,
         \A x \in S : f[x] \in Int /\ g[x] \in Int /\ f[x] <= g[x]
  PROVE  SumOver(f, S) <= SumOver(g, S)
<1> DEFINE d == [x \in S |-> g[x] - f[x]]
<1>1. \A x \in S : d[x] \in Nat /\ g[x] = f[x] + d[x]
  OBVIOUS
<1> HIDE DEF d
<1>2. SumOver(g, S) = SumOver(f, S) + SumOver(d, S)
  BY <1>1, SumPlus
<1>3. SumOver(d, S) \in Nat /\ SumOver(f, S) \in Int
  BY <1>1, SumType
<1> QED BY <1>2, <1>3

-----------------------------------------------------------------------------
(***************************************************************************)
(* How the operations of a ledger move its total.                          *)
(***************************************************************************)

\* What a move leaves with whom.
LEMMA MovedFacts ==
  ASSUME NEW S, NEW f \in [S -> Nat], NEW x \in S, NEW y \in S, NEW n \in Nat, n <= f[x]
  PROVE  /\ Moved(f, x, y, n) \in [S -> Nat]
         /\ \A z \in S :
              Moved(f, x, y, n)[z] = f[z] - (IF z = x THEN n ELSE 0) + (IF z = y THEN n ELSE 0)
BY DEF Moved

\* A credit, or with a negative amount a debit, moves the total by the amount.
LEMMA TotalAfterCredit ==
  ASSUME NEW S, IsFiniteSet(S), NEW f \in [S -> Int], NEW x \in S, NEW n \in Int
  PROVE  SumOver([f EXCEPT ![x] = @ + n], S) = SumOver(f, S) + n
<1> DEFINE g == [f EXCEPT ![x] = @ + n]
<1>1. /\ g[x] = f[x] + n
      /\ \A y \in S : f[y] \in Int /\ g[y] \in Int /\ (y # x => g[y] = f[y])
  OBVIOUS
<1>2. SumOver(f, S) \in Int /\ f[x] \in Int
  BY SumType
<1> HIDE DEF g
<1>3. SumOver(g, S) = SumOver(f, S) + (g[x] - f[x])
  BY <1>1, SumUpdate
<1>4. SumOver(g, S) = SumOver(f, S) + n
  BY <1>1, <1>2, <1>3
<1> QED BY <1>4 DEF g

\* The same for a debit.
LEMMA TotalAfterDebit ==
  ASSUME NEW S, IsFiniteSet(S), NEW f \in [S -> Int], NEW x \in S, NEW n \in Int
  PROVE  SumOver([f EXCEPT ![x] = @ - n], S) = SumOver(f, S) - n
<1> DEFINE g == [f EXCEPT ![x] = @ - n]
<1>1. /\ g[x] = f[x] - n
      /\ \A y \in S : f[y] \in Int /\ g[y] \in Int /\ (y # x => g[y] = f[y])
  OBVIOUS
<1>2. SumOver(f, S) \in Int /\ f[x] \in Int
  BY SumType
<1> HIDE DEF g
<1>3. SumOver(g, S) = SumOver(f, S) + (g[x] - f[x])
  BY <1>1, SumUpdate
<1>4. SumOver(g, S) = SumOver(f, S) - n
  BY <1>1, <1>2, <1>3
<1> QED BY <1>4 DEF g

\* A move leaves the total alone, one to oneself included.
LEMMA TotalAfterMove ==
  ASSUME NEW S, IsFiniteSet(S), NEW f \in [S -> Int], NEW x \in S, NEW y \in S, NEW n \in Int
  PROVE  SumOver(Moved(f, x, y, n), S) = SumOver(f, S)
<1> DEFINE g == [f EXCEPT ![x] = @ - n]
<1>1. Moved(f, x, y, n) = [g EXCEPT ![y] = @ + n]
  BY DEF Moved
<1>2. SumOver(g, S) = SumOver(f, S) - n /\ SumOver(f, S) \in Int
  BY TotalAfterDebit, SumType
<1>3. g \in [S -> Int]
  OBVIOUS
<1> HIDE DEF g
<1>4. SumOver([g EXCEPT ![y] = @ + n], S) = SumOver(g, S) + n
  BY <1>3, TotalAfterCredit
<1> QED BY <1>1, <1>2, <1>4

\* A ledger of zeros has total zero.
LEMMA TotalOfZeros ==
  ASSUME NEW S, IsFiniteSet(S), NEW f, \A x \in S : f[x] = 0
  PROVE  SumOver(f, S) = 0
<1> DEFINE t == SumOver(f, S)
<1>1. \A x \in S : f[x] \in Int /\ f[x] = f[x] + f[x]
  OBVIOUS
<1>2. t = t + t
  BY <1>1, SumPlus
<1>3. t \in Int
  BY <1>1, SumType
<1> HIDE DEF t
<1>4. t = 0
  BY <1>2, <1>3
<1> QED BY <1>4 DEF t

-----------------------------------------------------------------------------
(***************************************************************************)
(* Sums over the few elements a set may have, counts of them, and products. *)
(***************************************************************************)

\* The sum over one element.
LEMMA SumOfOne ==
  ASSUME NEW f, NEW x, f[x] \in Int
  PROVE  SumOver(f, {x}) = f[x]
<1> DEFINE S == {x}
<1>1. IsFiniteSet(S) /\ S \ {x} = {} /\ x \in S /\ \A y \in S : f[y] \in Int
  BY FS_Singleton
<1>2. SumOver(f, {}) = 0
  BY SumEmpty
<1> HIDE DEF S
<1>3. SumOver(f, S) = f[x] + SumOver(f, S \ {x})
  BY <1>1, SumAt
<1>4. SumOver(f, S) = f[x] + 0
  BY <1>1, <1>2, <1>3
<1> QED BY <1>4 DEF S

\* What one element adds to the sum over the rest.
LEMMA SumWith ==
  ASSUME NEW S, NEW f, NEW x, IsFiniteSet(S \ {x}),
         \A y \in S : f[y] \in Int
  PROVE  /\ IsFiniteSet(S)
         /\ SumOver(f, S) = SumOver(f, S \ {x}) + (IF x \in S THEN f[x] ELSE 0)
<1>1. CASE x \in S
  <2>1. S = (S \ {x}) \cup {x}
    BY <1>1
  <2>2. IsFiniteSet(S)
    BY <2>1, FS_AddElement
  <2>3. SumOver(f, S) = f[x] + SumOver(f, S \ {x})
    BY <1>1, <2>2, SumAt
  <2>4. f[x] \in Int /\ SumOver(f, S \ {x}) \in Int
    BY <1>1, SumType
  <2> QED BY <1>1, <2>2, <2>3, <2>4
<1>2. CASE x \notin S
  <2> DEFINE R == S \ {x}
  <2>1. R = S /\ IsFiniteSet(R)
    BY <1>2
  <2> HIDE DEF R
  <2>2. SumOver(f, S) \in Int
    BY <2>1, SumType
  <2>3. SumOver(f, S) = SumOver(f, R) + 0
    BY <2>1, <2>2
  <2> QED BY <1>2, <2>1, <2>3 DEF R
<1> QED BY <1>1, <1>2

\* The sum over a set that may hold any of three elements.
LEMMA SumOfThree ==
  ASSUME NEW x, NEW y, NEW z, x # y, x # z, y # z, NEW S, S \subseteq {x, y, z},
         NEW f, \A w \in S : f[w] \in Int
  PROVE  SumOver(f, S) = (IF x \in S THEN f[x] ELSE 0) + (IF y \in S THEN f[y] ELSE 0)
                           + (IF z \in S THEN f[z] ELSE 0)
<1> DEFINE A == S \ {x}
           B == A \ {y}
           C == B \ {z}
<1>1. C = {}
  OBVIOUS
<1>2. SumOver(f, C) = 0 /\ IsFiniteSet(C)
  BY <1>1, SumEmpty, FS_EmptySet
<1>3. /\ \A w \in A : f[w] \in Int /\ w \in S
      /\ \A w \in B : f[w] \in Int /\ w \in S
      /\ (x \in S => f[x] \in Int) /\ (y \in S => f[y] \in Int) /\ (z \in S => f[z] \in Int)
      /\ (y \in A <=> y \in S) /\ (z \in B <=> z \in S)
  OBVIOUS
<1> HIDE DEF C
<1>4. IsFiniteSet(B) /\ SumOver(f, B) = SumOver(f, C) + (IF z \in B THEN f[z] ELSE 0)
  <2> HIDE DEF B
  <2> QED BY <1>2, <1>3, SumWith DEF C
<1> HIDE DEF B
<1>5. IsFiniteSet(A) /\ SumOver(f, A) = SumOver(f, B) + (IF y \in A THEN f[y] ELSE 0)
  <2>1. IsFiniteSet(A \ {y}) /\ \A w \in A : f[w] \in Int
    BY <1>3, <1>4 DEF B
  <2> HIDE DEF A
  <2>2. IsFiniteSet(A) /\ SumOver(f, A) = SumOver(f, A \ {y}) + (IF y \in A THEN f[y] ELSE 0)
    BY <2>1, SumWith
  <2> QED BY <2>2 DEF B
<1> HIDE DEF A
<1>6. SumOver(f, S) = SumOver(f, A) + (IF x \in S THEN f[x] ELSE 0)
  BY <1>3, <1>5, SumWith DEF A
<1> QED BY <1>2, <1>3, <1>4, <1>5, <1>6


\* How many of two elements a set of them holds.
LEMMA CountOfTwo ==
  ASSUME NEW x, NEW y, x # y, NEW S, S \subseteq {x, y}
  PROVE  /\ IsFiniteSet(S)
         /\ Cardinality(S) = (IF x \in S THEN 1 ELSE 0) + (IF y \in S THEN 1 ELSE 0)
<1>1. /\ IsFiniteSet({}) /\ Cardinality({}) = 0
      /\ IsFiniteSet({x}) /\ Cardinality({x}) = 1 /\ IsFiniteSet({y}) /\ Cardinality({y}) = 1
  BY FS_EmptySet, FS_Singleton
<1> DEFINE X == {x}
           T == X \cup {y}
<1>2. y \notin X /\ IsFiniteSet(X) /\ Cardinality(X) = 1
  BY <1>1
<1>3. IsFiniteSet(T) /\ Cardinality(T) = 2
  <2> HIDE DEF X
  <2>1. IsFiniteSet(X \cup {y}) /\ Cardinality(X \cup {y}) = Cardinality(X) + 1
    BY <1>2, FS_AddElement
  <2> QED BY <1>2, <2>1
<1>4. S = {} \/ S = {x} \/ S = {y} \/ S = T
  OBVIOUS
<1>5. x \in T /\ y \in T
  OBVIOUS
<1> HIDE DEF T
<1> QED BY <1>1, <1>3, <1>4, <1>5

\* A product of three grows with each of them.
LEMMA ProductBelow ==
  ASSUME NEW i \in Nat, NEW j \in Nat, NEW k \in Nat, NEW l \in Nat, NEW m \in Nat, NEW n \in Nat,
         i <= l, j <= m, k <= n
  PROVE  i * j * k <= l * m * n /\ i * j * k \in Nat /\ l * m * n \in Nat
<1> DEFINE ij == i * j
           lj == j * l
           ml == m * l
<1>1. ij \in Nat /\ lj \in Nat /\ ml \in Nat
  OBVIOUS
<1>2. i * j <= l * j
  BY TimesMonotone
<1>3. j * l <= m * l
  BY TimesMonotone
<1>4. ij <= ml /\ lj = l * j /\ ml = l * m
  BY <1>1, <1>2, <1>3
<1> HIDE DEF ij, ml
<1>5. ij * k <= ml * k
  BY <1>1, <1>4, TimesMonotone
<1>6. k * ml <= n * ml
  BY <1>1, TimesMonotone
<1>7. ij * k \in Nat /\ ml * k \in Nat /\ k * ml = ml * k /\ n * ml = ml * n /\ ml * n \in Nat
  BY <1>1
<1> QED BY <1>4, <1>5, <1>6, <1>7 DEF ij, ml

=============================================================================

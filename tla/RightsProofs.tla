------------------------------ MODULE RightsProofs ------------------------------
(***************************************************************************)
(* The distribution of a sale makes no money (distribution.ts), for any    *)
(* rights, tenants, taxes and price; before it what the proofs need about  *)
(* folds, sums and sorting.                                                *)
(***************************************************************************)
EXTENDS RightsAnalysis, FiniteSetTheorems, SequenceTheorems, TLAPS

\* Numbers and folds

\* A set of numbers has a least one.
LEMMA LeastOf ==
  ASSUME NEW T \in SUBSET Nat, T # {}
  PROVE  \E x \in T : \A y \in T : ~(y < x)
<1> DEFINE R == OpToRel(<, Nat)
<1>1. IsWellFoundedOn(R, Nat)
  BY NatLessThanWellFounded
<1>2. PICK x \in T : \A y \in T : ~(<<y, x>> \in R)
  <2> HIDE DEF R
  <2> QED
    BY <1>1, WFMin
<1> QED
  BY <1>2 DEF OpToRel

LEMMA AllNumbers ==
  ASSUME NEW S \in SUBSET Nat, 0 \in S, \A n \in S : n + 1 \in S
  PROVE  S = Nat
<1> DEFINE T == Nat \ S
<1>1. SUFFICES ASSUME T # {} PROVE FALSE
  OBVIOUS
<1>2. PICK x \in T : \A y \in T : ~(y < x)
  <2>1. T \in SUBSET Nat
    OBVIOUS
  <2> HIDE DEF T
  <2> QED
    BY <1>1, <2>1, LeastOf
<1>3. x - 1 \in Nat /\ x - 1 < x /\ x = (x - 1) + 1
  BY <1>2
<1>4. x - 1 \in S
  BY <1>2, <1>3
<1> QED
  BY <1>2, <1>3, <1>4

LEMMA LastOfFirst ==
  ASSUME NEW n \in Nat, NEW s \in SUBSET (1..(n + 1)), n + 1 \in s
  PROVE  Max(s) = n + 1
<1>1. \A y \in s : y \in Int /\ y <= n + 1
  OBVIOUS
<1>2. \A x \in s : (\A y \in s : x >= y) <=> x = n + 1
  BY <1>1
<1> QED
  BY <1>2 DEF Max

-----------------------------------------------------------------------------
\* Folds.

\* A fold whose values stay in a set, by its steps as a function of value and place.
FoldOver(steps, start, D, iter) ==
  iter = [s \in SUBSET D |-> IF s = {} THEN start ELSE steps[iter[s \ {Max(s)}], Max(s)]]

LEMMA FoldInside ==
  ASSUME NEW V, NEW start \in V, NEW n \in Nat, NEW steps \in [V \X (1..n) -> V]
  PROVE  \E iter \in [SUBSET (1..n) -> V] : FoldOver(steps, start, 1..n, iter)
<1> DEFINE Inside(k) == \E iter \in [SUBSET (1..k) -> V] : FoldOver(steps, start, 1..k, iter)
           K == {k \in Nat : k <= n => Inside(k)}
<1>1. 0 \in K
  <2> DEFINE iter == [s \in SUBSET (1..0) |-> start]
  <2>1. \A s \in SUBSET (1..0) : s = {}
    OBVIOUS
  <2>2. iter \in [SUBSET (1..0) -> V] /\ FoldOver(steps, start, 1..0, iter)
    BY <2>1 DEF FoldOver
  <2> QED
    BY <2>2
<1>2. \A k \in K : k + 1 \in K
  <2>0. SUFFICES ASSUME NEW k \in Nat, k + 1 <= n, Inside(k)
                 PROVE  Inside(k + 1)
    <3>1. \A k \in Nat : k + 1 <= n => k <= n
      OBVIOUS
    <3> HIDE DEF Inside
    <3> QED
      BY <3>1
  <2> PICK iter \in [SUBSET (1..k) -> V] : FoldOver(steps, start, 1..k, iter)
    BY <2>0
  <2> DEFINE Step(s, h) == IF s = {} THEN start ELSE steps[h[s \ {Max(s)}], Max(s)]
             more == [s \in SUBSET (1..(k + 1)) |->
                        IF k + 1 \in s THEN steps[iter[s \ {k + 1}], k + 1] ELSE iter[s]]
  <2>1. iter = [s \in SUBSET (1..k) |-> Step(s, iter)]
    BY DEF FoldOver
  <2>2. ASSUME NEW s \in SUBSET (1..(k + 1)) PROVE more[s] = Step(s, more) /\ more[s] \in V
    <3>1. \A t \in SUBSET (1..k) : t \in SUBSET (1..(k + 1)) /\ more[t] = iter[t]
      <4>1. \A t \in SUBSET (1..k) : t \in SUBSET (1..(k + 1)) /\ k + 1 \notin t
        OBVIOUS
      <4> QED
        BY <4>1
    <3>2. CASE k + 1 \in s
      <4>1. Max(s) = k + 1 /\ s # {} /\ s \ {k + 1} \in SUBSET (1..k)
        BY <2>2, <3>2, LastOfFirst
      <4>2. more[s \ {k + 1}] = iter[s \ {k + 1}]
        BY <3>1, <4>1
      <4>3. more[s] = steps[iter[s \ {k + 1}], k + 1]
        BY <2>2, <3>2
      <4>4. steps[iter[s \ {k + 1}], k + 1] \in V
        <5>1. iter[s \ {k + 1}] \in V /\ k + 1 \in 1..n
          <6>1. \A t \in SUBSET (1..k) : iter[t] \in V
            OBVIOUS
          <6>2. k + 1 \in 1..n
            BY <2>0
          <6> QED
            BY <4>1, <6>1, <6>2
        <5>2. \A v \in V, i \in 1..n : steps[v, i] \in V
          OBVIOUS
        <5> QED
          BY <5>1, <5>2
      <4> HIDE DEF more
      <4> QED
        BY <4>1, <4>2, <4>3, <4>4
    <3>3. CASE k + 1 \notin s
      <4>1. s \in SUBSET (1..k) /\ s \ {Max(s)} \in SUBSET (1..k)
        <5>1. \A i \in s : i \in 1..k
          BY <2>2, <3>3
        <5> QED
          BY <5>1
      <4>2. more[s] = iter[s] /\ more[s \ {Max(s)}] = iter[s \ {Max(s)}]
        BY <3>1, <4>1
      <4>3. iter[s] = Step(s, iter) /\ iter[s] \in V
        BY <2>1, <4>1
      <4> HIDE DEF more
      <4> QED
        BY <4>2, <4>3
    <3> QED
      BY <3>2, <3>3
  <2>3. more = [s \in SUBSET (1..(k + 1)) |-> Step(s, more)] /\ more \in [SUBSET (1..(k + 1)) -> V]
    <3>1. DOMAIN more = SUBSET (1..(k + 1)) /\ more = [s \in SUBSET (1..(k + 1)) |-> more[s]]
      OBVIOUS
    <3> HIDE DEF more
    <3> QED
      BY <2>2, <3>1
  <2> QED
    BY <2>3 DEF FoldOver
<1>3. K \in SUBSET Nat
  OBVIOUS
<1> HIDE DEF K
<1>4. K = Nat
  BY <1>1, <1>2, <1>3, AllNumbers
<1>5. Inside(n)
  <2> HIDE DEF Inside
  <2> QED
    BY <1>4 DEF K
<1> QED
  BY <1>5

\* What holds of nothing, and of one place more, holds of all places.
LEMMA PlaceByPlace ==
  ASSUME NEW V, NEW n \in Nat, NEW iter, iter[{}] \in V,
         \A k \in 0..(n - 1) : iter[1..k] \in V => iter[1..(k + 1)] \in V
  PROVE  iter[1..n] \in V
<1> DEFINE K == {k \in Nat : k <= n => iter[1..k] \in V}
<1>1. 0 \in K
  <2>1. 1..0 = {}
    OBVIOUS
  <2> QED
    BY <2>1
<1>2. \A k \in K : k + 1 \in K
  <2> SUFFICES ASSUME NEW k \in Nat, k + 1 <= n, iter[1..k] \in V
               PROVE  iter[1..(k + 1)] \in V
    <3>1. \A k \in Nat : k + 1 <= n => k <= n
      OBVIOUS
    <3> QED
      BY <3>1
  <2>1. k \in 0..(n - 1)
    OBVIOUS
  <2> QED
    BY <2>1
<1>3. K \in SUBSET Nat
  OBVIOUS
<1> HIDE DEF K
<1>4. K = Nat
  BY <1>1, <1>2, <1>3, AllNumbers
<1> QED
  BY <1>4 DEF K

\* A set of first places has a largest one.
LEMMA LargestPlace ==
  ASSUME NEW n \in Nat, NEW s \in SUBSET (1..n), s # {}
  PROVE  Max(s) \in s /\ \A i \in s : i <= Max(s)
<1> DEFINE T == {n - i : i \in s}
<1>1. T \in SUBSET Nat /\ T # {}
  <2>1. \A i \in s : n - i \in Nat
    <3>1. \A i \in s : i \in 1..n
      OBVIOUS
    <3>2. \A i \in 1..n : n - i \in Nat
      OBVIOUS
    <3> QED
      BY <3>1, <3>2
  <2> QED
    BY <2>1
<1>2. PICK x \in T : \A y \in T : ~(y < x)
  <2> HIDE DEF T
  <2> QED
    BY <1>1, LeastOf
<1>3. PICK i \in s : x = n - i
  BY <1>2
<1>4. \A j \in s : i >= j
  BY <1>2, <1>3
<1>5. i \in s /\ \A j \in s : i >= j
  BY <1>3, <1>4
<1>6. Max(s) \in s /\ \A j \in s : Max(s) >= j
  BY <1>5 DEF Max
<1>7. \A j \in s : j \in Int
  OBVIOUS
<1> QED
  BY <1>6, <1>7

\* The last of the first places, and the places before it.
LEMMA FirstPlaces ==
  ASSUME NEW n \in Nat, NEW k \in 0..(n - 1)
  PROVE  /\ 1..(k + 1) \in SUBSET (1..n) /\ 1..(k + 1) # {}
         /\ Max(1..(k + 1)) = k + 1 /\ (1..(k + 1)) \ {k + 1} = 1..k /\ k + 1 \in 1..n
<1>1. \A i \in 1..(k + 1) : i \in 1..n
  OBVIOUS
<1>2. k + 1 \in 1..(k + 1) /\ k \in Nat
  OBVIOUS
<1>3. Max(1..(k + 1)) = k + 1
  BY <1>2, LastOfFirst
<1>4. (1..(k + 1)) \ {k + 1} = 1..k
  OBVIOUS
<1> QED
  BY <1>1, <1>2, <1>3, <1>4

-----------------------------------------------------------------------------
\* Sums.

\* The sums of the numbers at the places of s, for all sets s of the first n places.
Sums(a, n, sum) ==
  sum = [s \in SUBSET (1..n) |-> IF s = {} THEN 0 ELSE sum[s \ {Max(s)}] + a[Max(s)]]
SumIn(a, n, s) == (CHOOSE sum : Sums(a, n, sum))[s]

LEMMA BelowLargest ==
  ASSUME NEW k \in Nat, NEW s \in SUBSET (1..(k + 1)), s # {}
  PROVE  Max(s) \in s /\ s \ {Max(s)} \in SUBSET (1..k)
<1>1. k + 1 \in Nat
  OBVIOUS
<1>2. Max(s) \in s
  BY <1>1, LargestPlace
<1>3. CASE k + 1 \in s
  <2>1. Max(s) = k + 1
    BY <1>3, LastOfFirst
  <2>2. \A i \in 1..(k + 1) : i # k + 1 => i \in 1..k
    OBVIOUS
  <2> QED
    BY <1>2, <2>1, <2>2
<1>4. CASE k + 1 \notin s
  <2>1. \A i \in 1..(k + 1) : i # k + 1 => i \in 1..k
    OBVIOUS
  <2> QED
    BY <1>2, <1>4, <2>1
<1> QED
  BY <1>3, <1>4

LEMMA SumsAgree ==
  ASSUME NEW n \in Nat, NEW a, NEW g, NEW h, Sums(a, n, g), Sums(a, n, h)
  PROVE  g = h
<1> DEFINE K == {k \in Nat : k <= n => \A s \in SUBSET (1..k) : g[s] = h[s]}
<1>0. ASSUME NEW k \in Nat, k <= n PROVE SUBSET (1..k) \subseteq SUBSET (1..n)
  <2>1. \A i \in 1..k : i \in 1..n
    BY <1>0
  <2> QED
    BY <2>1
<1>1. 0 \in K
  <2>1. 1..0 = {} /\ {} \in SUBSET (1..n)
    OBVIOUS
  <2>2. g[{}] = 0 /\ h[{}] = 0
    BY <2>1 DEF Sums
  <2> QED
    BY <2>1, <2>2
<1>2. \A k \in K : k + 1 \in K
  <2> SUFFICES ASSUME NEW k \in Nat, k + 1 <= n, \A s \in SUBSET (1..k) : g[s] = h[s],
                      NEW s \in SUBSET (1..(k + 1)), s # {}
               PROVE  g[s] = h[s]
    <3>1. \A k \in Nat : k + 1 <= n => k <= n
      OBVIOUS
    <3>2. {} \in SUBSET (1..n)
      OBVIOUS
    <3>3. g[{}] = 0 /\ h[{}] = 0
      BY <3>2 DEF Sums
    <3> QED
      BY <3>1, <3>3
  <2>1. s \in SUBSET (1..n) /\ s \ {Max(s)} \in SUBSET (1..k)
    BY <1>0, BelowLargest
  <2>2. g[s] = g[s \ {Max(s)}] + a[Max(s)] /\ h[s] = h[s \ {Max(s)}] + a[Max(s)]
    BY <2>1 DEF Sums
  <2> QED
    BY <2>1, <2>2
<1>3. K \in SUBSET Nat
  OBVIOUS
<1> HIDE DEF K
<1>4. K = Nat
  BY <1>1, <1>2, <1>3, AllNumbers
<1>5. \A s \in SUBSET (1..n) : g[s] = h[s]
  BY <1>4 DEF K
<1>6. DOMAIN g = SUBSET (1..n) /\ DOMAIN h = SUBSET (1..n)
  BY DEF Sums
<1>7. g = [s \in SUBSET (1..n) |-> g[s]] /\ h = [s \in SUBSET (1..n) |-> h[s]]
  BY <1>6 DEF Sums
<1> QED
  BY <1>5, <1>7

LEMMA SumsExist ==
  ASSUME NEW n \in Nat, NEW a \in [1..n -> Int]
  PROVE  \E sum \in [SUBSET (1..n) -> Int] :
           Sums(a, n, sum) /\ \A s \in SUBSET (1..n) : SumIn(a, n, s) = sum[s]
<1> DEFINE D == 1..n
           steps == [p \in Int \X D |-> p[1] + a[p[2]]]
<1>1. steps \in [Int \X D -> Int] /\ 0 \in Int
  OBVIOUS
<1>2. PICK h \in [SUBSET D -> Int] : FoldOver(steps, 0, D, h)
  <2> HIDE DEF steps
  <2> QED
    BY <1>1, FoldInside
<1>3. Sums(a, n, h)
  <2>1. ASSUME NEW s \in SUBSET D, s # {}
        PROVE  steps[h[s \ {Max(s)}], Max(s)] = h[s \ {Max(s)}] + a[Max(s)]
    <3>1. Max(s) \in D
      BY <2>1, LargestPlace
    <3>2. h[s \ {Max(s)}] \in Int
      OBVIOUS
    <3> QED
      BY <3>1, <3>2
  <2> HIDE DEF steps
  <2> QED
    BY <1>2, <2>1 DEF FoldOver, Sums
<1>4. Sums(a, n, CHOOSE sum : Sums(a, n, sum))
  BY <1>3
<1>5. (CHOOSE sum : Sums(a, n, sum)) = h
  BY <1>3, <1>4, SumsAgree
<1> QED
  BY <1>3, <1>5 DEF SumIn

\* Nothing sums up to nothing, a place more adds its number.
LEMMA SumSteps ==
  ASSUME NEW n \in Nat, NEW a \in [1..n -> Int]
  PROVE  /\ \A s \in SUBSET (1..n) : SumIn(a, n, s) \in Int
         /\ SumIn(a, n, {}) = 0 /\ SumIn(a, n, 1..0) = 0
         /\ \A s \in SUBSET (1..n) : s # {} =>
              SumIn(a, n, s) = SumIn(a, n, s \ {Max(s)}) + a[Max(s)]
         /\ \A k \in 0..(n - 1) : SumIn(a, n, 1..(k + 1)) = SumIn(a, n, 1..k) + a[k + 1]
<1>1. PICK sum \in [SUBSET (1..n) -> Int] :
        Sums(a, n, sum) /\ \A s \in SUBSET (1..n) : SumIn(a, n, s) = sum[s]
  BY SumsExist
<1>2. {} \in SUBSET (1..n)
  OBVIOUS
<1>0. 1..0 = {}
  OBVIOUS
<1>3. \A s \in SUBSET (1..n) : s \ {Max(s)} \in SUBSET (1..n)
  OBVIOUS
<1>4. \A s \in SUBSET (1..n) : s # {} => sum[s] = sum[s \ {Max(s)}] + a[Max(s)]
  BY <1>1 DEF Sums
<1>5. sum[{}] = 0
  BY <1>1, <1>2 DEF Sums
<1>6. \A s \in SUBSET (1..n) : s # {} =>
        SumIn(a, n, s) = SumIn(a, n, s \ {Max(s)}) + a[Max(s)]
  BY <1>1, <1>3, <1>4
<1>7. ASSUME NEW k \in 0..(n - 1)
      PROVE  SumIn(a, n, 1..(k + 1)) = SumIn(a, n, 1..k) + a[k + 1]
  <2>1. /\ 1..(k + 1) \in SUBSET (1..n) /\ 1..(k + 1) # {}
        /\ Max(1..(k + 1)) = k + 1 /\ (1..(k + 1)) \ {k + 1} = 1..k
    BY FirstPlaces
  <2> QED
    BY <1>6, <2>1
<1>8. SumIn(a, n, {}) = 0
  BY <1>1, <1>2, <1>5
<1>9. \A s \in SUBSET (1..n) : SumIn(a, n, s) \in Int
  BY <1>1
<1> QED
  BY <1>0, <1>6, <1>7, <1>8, <1>9

\* Induction over the first n places.
LEMMA Stepwise ==
  ASSUME NEW n \in Nat, NEW S, 0 \in S, \A k \in 0..(n - 1) : k \in S => k + 1 \in S
  PROVE  \A k \in 0..n : k \in S
<1> DEFINE K == {k \in Nat : k <= n => k \in S}
<1>1. 0 \in K
  OBVIOUS
<1>2. \A k \in K : k + 1 \in K
  <2> SUFFICES ASSUME NEW k \in Nat, k <= n => k \in S, k + 1 <= n PROVE k + 1 \in S
    OBVIOUS
  <2>1. k <= n /\ k \in 0..(n - 1)
    OBVIOUS
  <2> QED
    BY <2>1
<1>3. K \in SUBSET Nat
  OBVIOUS
<1> HIDE DEF K
<1>4. K = Nat
  BY <1>1, <1>2, <1>3, AllNumbers
<1>5. \A k \in 0..n : k \in K
  BY <1>4
<1>6. \A k \in 0..n : k <= n
  OBVIOUS
<1> QED
  BY <1>5, <1>6 DEF K

\* What holds of no place, and of one place more, holds of all first places.
LEMMA EachPlace ==
  ASSUME NEW n \in Nat, NEW V, NEW f, f[{}] \in V,
         \A k \in 0..(n - 1) : f[1..k] \in V => f[1..(k + 1)] \in V
  PROVE  \A k \in 0..n : f[1..k] \in V
<1> DEFINE S == {k \in 0..n : f[1..k] \in V}
<1>1. 0 \in S
  <2>1. 1..0 = {} /\ 0 \in 0..n
    OBVIOUS
  <2> QED
    BY <2>1
<1>2. \A k \in 0..(n - 1) : k \in S => k + 1 \in S
  OBVIOUS
<1> HIDE DEF S
<1>3. \A k \in 0..n : k \in S
  BY <1>1, <1>2, Stepwise
<1> QED
  BY <1>3 DEF S

\* Larger numbers have the larger sum.
LEMMA SumAtMost ==
  ASSUME NEW n \in Nat, NEW a \in [1..n -> Int], NEW m \in Nat, NEW b \in [1..m -> Int],
         NEW e \in Nat, e <= n, e <= m, \A i \in 1..e : a[i] <= b[i]
  PROVE  SumIn(a, n, 1..e) <= SumIn(b, m, 1..e)
<1> DEFINE S == {k \in 0..e : SumIn(a, n, 1..k) <= SumIn(b, m, 1..k)}
<1>1. 0 \in S
  BY SumSteps
<1>2. ASSUME NEW k \in 0..(e - 1), k \in S PROVE k + 1 \in S
  <2>1. k \in 0..(n - 1) /\ k \in 0..(m - 1) /\ k + 1 \in 1..e /\ k + 1 \in 0..e
    OBVIOUS
  <2>2. SumIn(a, n, 1..(k + 1)) = SumIn(a, n, 1..k) + a[k + 1]
    BY <2>1, SumSteps
  <2>3. SumIn(b, m, 1..(k + 1)) = SumIn(b, m, 1..k) + b[k + 1]
    BY <2>1, SumSteps
  <2>4. SumIn(a, n, 1..k) \in Int /\ SumIn(b, m, 1..k) \in Int
    <3>1. 1..k \in SUBSET (1..n) /\ 1..k \in SUBSET (1..m)
      OBVIOUS
    <3> QED
      BY <3>1, SumSteps
  <2>5. a[k + 1] <= b[k + 1] /\ a[k + 1] \in Int /\ b[k + 1] \in Int
    <3>1. k + 1 \in 1..n /\ k + 1 \in 1..m
      OBVIOUS
    <3> QED
      BY <2>1, <3>1
  <2>6. SumIn(a, n, 1..k) <= SumIn(b, m, 1..k)
    BY <1>2
  <2>7. SumIn(a, n, 1..(k + 1)) <= SumIn(b, m, 1..(k + 1))
    BY <2>2, <2>3, <2>4, <2>5, <2>6
  <2> QED
    BY <2>1, <2>7
<1> HIDE DEF S
<1>3. e \in S
  <2>1. \A k \in 0..e : k \in S
    BY <1>1, <1>2, Stepwise
  <2> QED
    BY <2>1
<1> QED
  BY <1>3 DEF S

LEMMA SumTyped ==
  ASSUME NEW n \in Nat, NEW a \in [1..n -> Int], NEW e \in Nat, e <= n
  PROVE  SumIn(a, n, 1..e) \in Int
<1>1. 1..e \in SUBSET (1..n)
  OBVIOUS
<1> QED
  BY <1>1, SumSteps

LEMMA SumSame ==
  ASSUME NEW n \in Nat, NEW a \in [1..n -> Int], NEW m \in Nat, NEW b \in [1..m -> Int],
         NEW e \in Nat, e <= n, e <= m, \A i \in 1..e : a[i] = b[i]
  PROVE  SumIn(a, n, 1..e) = SumIn(b, m, 1..e)
<1>1. \A i \in 1..e : a[i] \in Int /\ b[i] \in Int
  <2>1. \A i \in 1..e : i \in 1..n /\ i \in 1..m
    OBVIOUS
  <2> QED
    BY <2>1
<1>2. \A i \in 1..e : a[i] <= b[i] /\ b[i] <= a[i]
  BY <1>1
<1>3. SumIn(a, n, 1..e) <= SumIn(b, m, 1..e)
  BY <1>2, SumAtMost
<1>4. SumIn(b, m, 1..e) <= SumIn(a, n, 1..e)
  BY <1>2, SumAtMost
<1> QED
  BY <1>3, <1>4, SumTyped

\* One number alone is its own sum.
LEMMA SumOfOne ==
  ASSUME NEW n \in Nat, NEW a \in [1..n -> Int], NEW one \in Nat,
         \A i \in 1..n : i # one => a[i] = 0, NEW e \in 0..n
  PROVE  SumIn(a, n, 1..e) = IF one \in 1..e THEN a[one] ELSE 0
<1> DEFINE S == {k \in 0..n : SumIn(a, n, 1..k) = IF one \in 1..k THEN a[one] ELSE 0}
<1>1. 0 \in S
  <2>1. SumIn(a, n, 1..0) = 0
    BY SumSteps
  <2>2. one \notin 1..0 /\ 0 \in 0..n
    OBVIOUS
  <2> QED
    BY <2>1, <2>2
<1>2. ASSUME NEW k \in 0..(n - 1), k \in S PROVE k + 1 \in S
  <2>1. SumIn(a, n, 1..(k + 1)) = SumIn(a, n, 1..k) + a[k + 1]
    BY SumSteps
  <2>2. k + 1 \in 1..n /\ k + 1 \in 0..n
    OBVIOUS
  <2>3. SumIn(a, n, 1..k) = IF one \in 1..k THEN a[one] ELSE 0
    BY <1>2
  <2>4. CASE k + 1 = one
    <3>1. one \notin 1..k /\ one \in 1..(k + 1) /\ a[one] \in Int
      BY <2>2, <2>4
    <3> QED
      BY <2>1, <2>2, <2>3, <2>4, <3>1
  <2>5. CASE k + 1 # one
    <3>1. a[k + 1] = 0 /\ (one \in 1..k <=> one \in 1..(k + 1))
      BY <2>2, <2>5
    <3>2. one \in 1..k => a[one] \in Int
      OBVIOUS
    <3>3. SumIn(a, n, 1..(k + 1)) = SumIn(a, n, 1..k)
      BY <2>1, <2>3, <3>1, <3>2
    <3> QED
      BY <2>2, <2>3, <3>1, <3>3
  <2> QED
    BY <2>4, <2>5
<1> HIDE DEF S
<1>3. e \in S
  BY <1>1, <1>2, Stepwise
<1> QED
  BY <1>3 DEF S

\* None of the numbers of a sum is above it, if none is below nothing.
LEMMA SumOfNaturals ==
  ASSUME NEW n \in Nat, NEW a \in [1..n -> Nat], NEW e \in Nat, e <= n
  PROVE  SumIn(a, n, 1..e) \in Nat /\ \A i \in 1..e : a[i] <= SumIn(a, n, 1..e)
<1>0. a \in [1..n -> Int]
  OBVIOUS
<1>1. ASSUME NEW i \in Nat
      PROVE  (IF i \in 1..e THEN a[i] ELSE 0) <= SumIn(a, n, 1..e)
  <2> DEFINE b == [j \in 1..n |-> IF j = i THEN a[j] ELSE 0]
  <2>1. b \in [1..n -> Int] /\ \A j \in 1..e : b[j] <= a[j]
    <3>1. \A j \in 1..e : j \in 1..n
      OBVIOUS
    <3> QED
      BY <3>1
  <2>2. (\A j \in 1..n : j # i => b[j] = 0) /\ e \in 0..n
    OBVIOUS
  <2>3. i \in 1..e => b[i] = a[i]
    <3>1. i \in 1..e => i \in 1..n
      OBVIOUS
    <3> QED
      BY <3>1
  <2> HIDE DEF b
  <2>4. SumIn(b, n, 1..e) <= SumIn(a, n, 1..e)
    BY <1>0, <2>1, SumAtMost
  <2>5. SumIn(b, n, 1..e) = IF i \in 1..e THEN b[i] ELSE 0
    BY <2>1, <2>2, SumOfOne
  <2> QED
    BY <2>3, <2>4, <2>5
<1>2. 0 <= SumIn(a, n, 1..e)
  <2>1. 0 \notin 1..e /\ 0 \in Nat
    OBVIOUS
  <2> QED
    BY <1>1, <2>1
<1>3. SumIn(a, n, 1..e) \in Int
  BY <1>0, SumTyped
<1>4. \A i \in 1..e : a[i] <= SumIn(a, n, 1..e)
  <2>1. \A i \in 1..e : i \in Nat
    OBVIOUS
  <2> QED
    BY <1>1, <2>1
<1> QED
  BY <1>2, <1>3, <1>4

\* A sum does not depend on the order: any number may be taken off it first.
LEMMA SumRemove ==
  ASSUME NEW n \in Nat, NEW a \in [1..n -> Int], NEW s \in SUBSET (1..n), NEW x \in s
  PROVE  SumIn(a, n, s) = SumIn(a, n, s \ {x}) + a[x]
<1> DEFINE Off(t, y) == SumIn(a, n, t) = SumIn(a, n, t \ {y}) + a[y]
           S == {k \in 0..n : \A t \in SUBSET (1..k) : \A y \in t : Off(t, y)}
<1>1. 0 \in S
  <2>1. \A t \in SUBSET (1..0) : t = {}
    OBVIOUS
  <2> QED
    BY <2>1
<1>2. ASSUME NEW k \in 0..(n - 1), k \in S PROVE k + 1 \in S
  <2> SUFFICES ASSUME NEW t \in SUBSET (1..(k + 1)), NEW y \in t PROVE Off(t, y)
    OBVIOUS
  <2> DEFINE m == Max(t)
  <2>0. k \in Nat /\ t # {}
    OBVIOUS
  <2>1. m \in t /\ t \ {m} \in SUBSET (1..k)
    BY <2>0, BelowLargest
  <2>2. k + 1 \in Nat /\ \A i \in 1..(k + 1) : i \in 1..n
    OBVIOUS
  <2>3. \A i \in t : i <= m
    BY <2>2, LargestPlace
  <2>4. t \in SUBSET (1..n) /\ t \ {y} \in SUBSET (1..n) /\ t \ {m} \in SUBSET (1..n)
        /\ (t \ {m}) \ {y} \in SUBSET (1..n)
    BY <2>2
  <2>5. SumIn(a, n, t) = SumIn(a, n, t \ {m}) + a[m]
    BY <2>1, <2>4, SumSteps
  <2> HIDE DEF m
  <2>6. CASE y = m
    BY <2>5, <2>6
  <2>7. CASE y # m
    <3>1. y \in t \ {m}
      BY <2>7
    <3>2. SumIn(a, n, t \ {m}) = SumIn(a, n, (t \ {m}) \ {y}) + a[y]
      BY <1>2, <2>1, <3>1
    <3>3. m \in t \ {y} /\ \A i \in t \ {y} : i <= m
      BY <2>1, <2>3, <2>7
    <3>4. Max(t \ {y}) = m
      <4>1. m \in Int /\ \A i \in t \ {y} : i \in Int
        BY <2>1, <2>2
      <4>2. \A j \in t \ {y} : (\A i \in t \ {y} : j >= i) <=> j = m
        BY <3>3, <4>1
      <4> QED
        BY <3>3, <4>2 DEF Max
    <3>5. (t \ {y}) \ {m} = (t \ {m}) \ {y}
      OBVIOUS
    <3>6. SumIn(a, n, t \ {y}) = SumIn(a, n, (t \ {m}) \ {y}) + a[m]
      <4> DEFINE u == t \ {y}
      <4>1. u \in SUBSET (1..n) /\ u # {} /\ Max(u) = m /\ u \ {m} = (t \ {m}) \ {y}
        BY <2>4, <3>3, <3>4, <3>5
      <4> HIDE DEF u
      <4>2. SumIn(a, n, u) = SumIn(a, n, u \ {Max(u)}) + a[Max(u)]
        BY <4>1, SumSteps
      <4>3. SumIn(a, n, u) = SumIn(a, n, (t \ {m}) \ {y}) + a[m]
        BY <4>1, <4>2
      <4> QED
        BY <4>3 DEF u
    <3>7. SumIn(a, n, (t \ {m}) \ {y}) \in Int /\ a[m] \in Int /\ a[y] \in Int
      <4>1. m \in 1..n /\ y \in 1..n
        BY <2>1, <2>2
      <4> QED
        BY <2>4, <4>1, SumSteps
    <3> QED
      BY <2>5, <3>2, <3>6, <3>7
  <2> QED
    BY <2>6, <2>7
<1> HIDE DEF S
<1>3. n \in S
  <2>1. n \in 0..n
    OBVIOUS
  <2> QED
    BY <1>1, <1>2, <2>1, Stepwise
<1> QED
  BY <1>3 DEF S

Permutes(p, n) ==
  /\ p \in [1..n -> 1..n]
  /\ \A i, j \in 1..n : p[i] = p[j] => i = j
  /\ \A j \in 1..n : \E i \in 1..n : p[i] = j

Rearranged(b, a, p, n) ==
  n \in Nat /\ a \in [1..n -> Int] /\ Permutes(p, n) /\ b = [i \in 1..n |-> a[p[i]]]

LEMMA SumPermuted ==
  ASSUME NEW n, NEW a, NEW p, NEW b, Rearranged(b, a, p, n)
  PROVE  SumIn(b, n, 1..n) = SumIn(a, n, 1..n)
<1> n \in Nat /\ a \in [1..n -> Int] /\ Permutes(p, n) /\ b = [i \in 1..n |-> a[p[i]]]
  BY DEF Rearranged
<1> DEFINE Image(k) == {p[i] : i \in 1..k}
           S == {k \in 0..n : SumIn(b, n, 1..k) = SumIn(a, n, Image(k))}
<1>0. b \in [1..n -> Int] /\ \A i \in 1..n : b[i] = a[p[i]]
  BY DEF Permutes
<1>1. 0 \in S
  <2>1. Image(0) = {}
    OBVIOUS
  <2>2. SumIn(b, n, 1..0) = 0
    BY <1>0, SumSteps
  <2>3. SumIn(a, n, Image(0)) = 0
    <3>1. SumIn(a, n, {}) = 0
      BY SumSteps
    <3> QED
      BY <2>1, <3>1
  <2> HIDE DEF Image
  <2> QED
    BY <2>2, <2>3
<1>2. ASSUME NEW k \in 0..(n - 1), k \in S PROVE k + 1 \in S
  <2>1. k + 1 \in 1..n /\ k + 1 \in 0..n /\ k \in Nat
    OBVIOUS
  <2>2. \A i \in 1..(k + 1) : i \in 1..n
    OBVIOUS
  <2>3. Image(k + 1) \in SUBSET (1..n) /\ p[k + 1] \in Image(k + 1)
    <3>1. k + 1 \in 1..(k + 1)
      OBVIOUS
    <3>2. \A i \in 1..n : p[i] \in 1..n
      BY DEF Permutes
    <3> QED
      BY <2>2, <3>1, <3>2
  <2>4. Image(k + 1) \ {p[k + 1]} = Image(k)
    <3>1. \A i \in 1..(k + 1) : i \in 1..k <=> i # k + 1
      OBVIOUS
    <3>2. \A i \in 1..k : i \in 1..(k + 1)
      OBVIOUS
    <3>3. \A i \in 1..(k + 1) : p[i] = p[k + 1] => i = k + 1
      BY <2>1, <2>2 DEF Permutes
    <3>4. \A x \in Image(k) : x \in Image(k + 1) \ {p[k + 1]}
      BY <3>1, <3>2, <3>3
    <3>5. \A x \in Image(k + 1) \ {p[k + 1]} : x \in Image(k)
      BY <3>1
    <3> QED
      BY <3>4, <3>5
  <2> HIDE DEF Image
  <2>5. SumIn(a, n, Image(k + 1)) = SumIn(a, n, Image(k)) + a[p[k + 1]]
    <3> DEFINE t == Image(k + 1)
               y == p[k + 1]
    <3>1. t \in SUBSET (1..n) /\ y \in t /\ t \ {y} = Image(k)
      BY <2>3, <2>4
    <3> HIDE DEF t, y
    <3>2. SumIn(a, n, t) = SumIn(a, n, t \ {y}) + a[y]
      BY <3>1, SumRemove
    <3> QED
      BY <3>1, <3>2 DEF t, y
  <2>6. SumIn(b, n, 1..(k + 1)) = SumIn(b, n, 1..k) + a[p[k + 1]]
    <3>1. SumIn(b, n, 1..(k + 1)) = SumIn(b, n, 1..k) + b[k + 1]
      BY <1>0, SumSteps
    <3> QED
      BY <1>0, <2>1, <3>1
  <2>7. SumIn(b, n, 1..k) = SumIn(a, n, Image(k))
    BY <1>2
  <2> QED
    BY <2>1, <2>5, <2>6, <2>7
<1>3. n \in S
  <2>1. n \in 0..n
    OBVIOUS
  <2> HIDE DEF S
  <2> QED
    BY <1>1, <1>2, <2>1, Stepwise
<1>4. Image(n) = 1..n
  BY DEF Permutes
<1> HIDE DEF Image
<1> QED
  BY <1>3, <1>4

\* The sum of two parts, one after the other.
LEMMA SumOfFirst ==
  ASSUME NEW n \in Nat, NEW a \in [1..n -> Int], NEW l \in Nat, n <= l,
         NEW c \in [1..l -> Int], \A i \in 1..n : c[i] = a[i]
  PROVE  SumIn(c, l, 1..n) = SumIn(a, n, 1..n)
<1>1. n <= n
  OBVIOUS
<1> QED
  BY <1>1, SumSame

InTurn(c, a, n, b, m) ==
  /\ n \in Nat /\ a \in [1..n -> Int] /\ m \in Nat /\ b \in [1..m -> Int]
  /\ c \in [1..(n + m) -> Int]
  /\ \A i \in 1..n : c[i] = a[i]
  /\ \A j \in 1..m : c[n + j] = b[j]

LEMMA SumOfTwo ==
  ASSUME NEW n, NEW a, NEW m, NEW b, NEW c, InTurn(c, a, n, b, m)
  PROVE  SumIn(c, n + m, 1..(n + m)) = SumIn(a, n, 1..n) + SumIn(b, m, 1..m)
<1> /\ n \in Nat /\ a \in [1..n -> Int] /\ m \in Nat /\ b \in [1..m -> Int]
    /\ c \in [1..(n + m) -> Int]
  BY DEF InTurn
<1> DEFINE S == {k \in 0..m : SumIn(c, n + m, 1..(n + k)) = SumIn(a, n, 1..n) + SumIn(b, m, 1..k)}
<1>0. n + m \in Nat /\ n <= n + m /\ n <= n
  OBVIOUS
<1>1. 0 \in S
  <2>1. SumIn(c, n + m, 1..n) = SumIn(a, n, 1..n)
    <3> DEFINE l == n + m
    <3>1. l \in Nat /\ n <= l /\ n <= n /\ c \in [1..l -> Int] /\ \A i \in 1..n : c[i] = a[i]
      BY <1>0 DEF InTurn
    <3> HIDE DEF l
    <3>2. SumIn(c, l, 1..n) = SumIn(a, n, 1..n)
      BY <3>1, SumOfFirst
    <3> QED
      BY <3>2 DEF l
  <2>2. SumIn(b, m, 1..0) = 0
    BY SumSteps
  <2>3. SumIn(a, n, 1..n) \in Int
    BY <1>0, SumTyped
  <2>4. n + 0 = n /\ 0 \in 0..m
    OBVIOUS
  <2> QED
    BY <2>1, <2>2, <2>3, <2>4
<1>2. ASSUME NEW k \in 0..(m - 1), k \in S PROVE k + 1 \in S
  <2>1. k + 1 \in 1..m /\ n + k \in 0..((n + m) - 1) /\ (n + k) + 1 = n + (k + 1)
        /\ k + 1 \in 0..m
    OBVIOUS
  <2>2. SumIn(c, n + m, 1..((n + k) + 1)) = SumIn(c, n + m, 1..(n + k)) + c[(n + k) + 1]
    BY <1>0, <2>1, SumSteps
  <2>3. SumIn(b, m, 1..(k + 1)) = SumIn(b, m, 1..k) + b[k + 1]
    BY SumSteps
  <2>4. c[(n + k) + 1] = b[k + 1] /\ b[k + 1] \in Int
    BY <2>1 DEF InTurn
  <2>5. SumIn(a, n, 1..n) \in Int /\ SumIn(b, m, 1..k) \in Int
    <3>1. k \in Nat /\ k <= m
      OBVIOUS
    <3> QED
      BY <1>0, <3>1, SumTyped
  <2>6. SumIn(c, n + m, 1..(n + k)) = SumIn(a, n, 1..n) + SumIn(b, m, 1..k)
    BY <1>2
  <2>7. SumIn(c, n + m, 1..(n + (k + 1))) = SumIn(a, n, 1..n) + SumIn(b, m, 1..(k + 1))
    BY <2>1, <2>2, <2>3, <2>4, <2>5, <2>6
  <2> QED
    BY <2>1, <2>7
<1>3. m \in S
  <2>1. m \in 0..m
    OBVIOUS
  <2> HIDE DEF S
  <2> QED
    BY <1>1, <1>2, <2>1, Stepwise
<1> QED
  BY <1>3

\* The sum that the model computes.
LEMMA SumAllIs ==
  ASSUME NEW n \in Nat, NEW a \in [1..n -> Int]
  PROVE  SumAll(a) = SumIn(a, n, 1..n)
<1> DEFINE D == 1..n
           Folds(h) == h = [s \in SUBSET D |-> IF s = {} THEN 0 ELSE h[s \ {Max(s)}] + a[Max(s)]]
<1>1. SumAll(a) = (CHOOSE h : Folds(h))[D]
  BY DEF SumAll, FoldLeft, MapThenFoldSet
<1>2. SumIn(a, n, D) = (CHOOSE h : Folds(h))[D]
  BY DEF SumIn, Sums
<1> QED
  BY <1>1, <1>2

-----------------------------------------------------------------------------
\* The book of a distribution.

Stages == {"small", "relief", "tax", "rank"}
Entries(W) == [stage : Stages, to : W, amount : Int]
Books(W) == [left : Int, entries : Seq(Entries(W))]

\* What the entries of some stages pay to some claimants.
PaidAt(entries, S, T) ==
  [i \in 1..Len(entries) |->
     IF entries[i].stage \in S /\ entries[i].to \in T THEN entries[i].amount ELSE 0]
PaidOf(book, S, T) ==
  SumIn(PaidAt(book.entries, S, T), Len(book.entries), 1..Len(book.entries))

LEMMA PaidTyped ==
  ASSUME NEW W, NEW book \in Books(W), NEW S, NEW T
  PROVE  /\ Len(book.entries) \in Nat /\ DOMAIN book.entries = 1..Len(book.entries)
         /\ \A i \in 1..Len(book.entries) : book.entries[i] \in Entries(W)
         /\ PaidAt(book.entries, S, T) \in [1..Len(book.entries) -> Int]
         /\ PaidOf(book, S, T) \in Int
<1> DEFINE entries == book.entries
           n == Len(entries)
<1>1. entries \in Seq(Entries(W))
  BY DEF Books
<1> HIDE DEF entries
<1>2. n \in Nat /\ DOMAIN entries = 1..n
  BY <1>1
<1>3. \A i \in 1..n : entries[i] \in Entries(W)
  BY <1>1, <1>2
<1>4. \A i \in 1..n : entries[i].amount \in Int
  BY <1>3 DEF Entries
<1>5. PaidAt(entries, S, T) \in [1..n -> Int]
  BY <1>4 DEF PaidAt
<1>6. PaidOf(book, S, T) \in Int
  <2>1. n <= n
    BY <1>2
  <2> QED
    BY <1>2, <1>5, <2>1, SumTyped DEF PaidOf, entries
<1> QED
  BY <1>2, <1>3, <1>5, <1>6 DEF entries

\* A payment adds its amount to what its claimant got at its stage.
LEMMA PaidMore ==
  ASSUME NEW W, NEW book \in Books(W), NEW stage \in Stages, NEW to \in W, NEW amount \in Int
  PROVE  /\ Pay(book, stage, to, amount) \in Books(W)
         /\ Pay(book, stage, to, amount).left = book.left - amount
         /\ \A S, T : PaidOf(Pay(book, stage, to, amount), S, T) =
                       PaidOf(book, S, T) + (IF stage \in S /\ to \in T THEN amount ELSE 0)
<1> DEFINE entries == book.entries
           n == Len(entries)
           e == [stage |-> stage, to |-> to, amount |-> amount]
           more == Append(entries, e)
           paid == Pay(book, stage, to, amount)
<1>1. entries \in Seq(Entries(W)) /\ book.left \in Int
  BY DEF Books
<1>2. e \in Entries(W)
  BY DEF Entries
<1>3. paid = [left |-> book.left - amount, entries |-> more]
  BY DEF Pay
<1> HIDE DEF entries, e, paid
<1>4. more \in Seq(Entries(W)) /\ Len(more) = n + 1 /\ n \in Nat
      /\ more[n + 1] = e /\ \A i \in 1..n : more[i] = entries[i]
  BY <1>1, <1>2
<1> HIDE DEF more, n
<1>5. paid \in Books(W) /\ paid.left = book.left - amount /\ paid.entries = more
  BY <1>1, <1>3, <1>4 DEF Books
<1>6. ASSUME NEW S, NEW T
      PROVE  PaidOf(paid, S, T) =
             PaidOf(book, S, T) + (IF stage \in S /\ to \in T THEN amount ELSE 0)
  <2> DEFINE a == PaidAt(entries, S, T)
             b == PaidAt(more, S, T)
             m == n + 1
  <2>1. a \in [1..n -> Int] /\ PaidOf(book, S, T) = SumIn(a, n, 1..n)
    BY PaidTyped DEF PaidOf, entries, n
  <2>2. b \in [1..m -> Int] /\ PaidOf(paid, S, T) = SumIn(b, m, 1..m)
    BY <1>4, <1>5, PaidTyped DEF PaidOf
  <2>3. \A i \in 1..n : b[i] = a[i]
    <3>1. \A i \in 1..n : i \in 1..m
      BY <1>4
    <3> QED
      BY <1>4, <3>1 DEF PaidAt, n
  <2>4. b[m] = IF stage \in S /\ to \in T THEN amount ELSE 0
    <3>1. m \in 1..m
      BY <1>4
    <3> QED
      BY <1>4, <3>1 DEF PaidAt, e
  <2>5. m \in Nat /\ n <= m /\ n \in 0..(m - 1)
    BY <1>4
  <2> HIDE DEF a, b
  <2>6. SumIn(b, m, 1..n) = SumIn(a, n, 1..n)
    <3> HIDE DEF m
    <3> QED
      BY <1>4, <2>1, <2>2, <2>3, <2>5, SumOfFirst
  <2>7. SumIn(b, m, 1..(n + 1)) = SumIn(b, m, 1..n) + b[n + 1]
    <3> HIDE DEF m
    <3> QED
      BY <2>2, <2>5, SumSteps
  <2> QED
    BY <2>1, <2>2, <2>4, <2>6, <2>7
<1> QED
  BY <1>5, <1>6 DEF paid

\* What a claimant has received is a sum of the book.
LEMMA ReceivedIsPaid ==
  ASSUME NEW W, NEW book \in Books(W), NEW S, NEW who
  PROVE  Received(book, S, who) = PaidOf(book, S, {who})
<1> DEFINE entries == book.entries
           n == Len(entries)
           a == PaidAt(entries, S, {who})
<1>1. n \in Nat /\ DOMAIN entries = 1..n /\ a \in [1..n -> Int]
  BY PaidTyped
<1>2. a = [i \in DOMAIN entries |->
             IF entries[i].stage \in S /\ entries[i].to = who THEN entries[i].amount ELSE 0]
  BY <1>1 DEF PaidAt
<1>3. Received(book, S, who) = SumAll(a)
  BY <1>2 DEF Received, SumOf
<1> QED
  BY <1>1, <1>3, SumAllIs DEF PaidOf

-----------------------------------------------------------------------------
\* Sorting.

\* The places that come before place i, and i itself.
UpTo(dates, n, i) ==
  {j \in 1..n : Before(dates[j], dates[i]) \/ (dates[j] = dates[i] /\ j <= i)}

\* What comes before what, by date and then by place.
Precedes(dates, j, i) == Before(dates[j], dates[i]) \/ (dates[j] = dates[i] /\ j < i)

LEMMA RankTyped ==
  ASSUME NEW n \in Nat, NEW dates, NEW i \in 1..n
  PROVE  /\ UpTo(dates, n, i) \in SUBSET (1..n) /\ i \in UpTo(dates, n, i)
         /\ IsFiniteSet(UpTo(dates, n, i)) /\ Cardinality(UpTo(dates, n, i)) \in 1..n
<1>1. IsFiniteSet(1..n) /\ Cardinality(1..n) = n
  BY FS_Interval
<1>2. UpTo(dates, n, i) \in SUBSET (1..n) /\ i \in UpTo(dates, n, i)
  BY DEF UpTo
<1>3. IsFiniteSet(UpTo(dates, n, i)) /\ Cardinality(UpTo(dates, n, i)) <= n
  BY <1>1, <1>2, FS_Subset
<1>4. Cardinality(UpTo(dates, n, i)) \in Nat /\ Cardinality(UpTo(dates, n, i)) # 0
  BY <1>2, <1>3, FS_CardinalityType, FS_EmptySet
<1> QED
  BY <1>2, <1>3, <1>4

LEMMA RankGrows ==
  ASSUME NEW n \in Nat, NEW dates \in [1..n -> Dates], NEW i \in 1..n, NEW j \in 1..n,
         Precedes(dates, i, j)
  PROVE  Cardinality(UpTo(dates, n, i)) < Cardinality(UpTo(dates, n, j))
<1>1. \A k \in 1..n : dates[k] \in Dates /\ k \in Int
  OBVIOUS
<1>2. UpTo(dates, n, i) \subseteq UpTo(dates, n, j)
  BY <1>1, AbsentAssumption DEF UpTo, Before, Dates, Precedes
<1>3. j \notin UpTo(dates, n, i)
  BY <1>1, AbsentAssumption DEF UpTo, Before, Dates, Precedes
<1> DEFINE s == UpTo(dates, n, i)
           t == UpTo(dates, n, j)
<1>4. j \in t /\ IsFiniteSet(t) /\ Cardinality(s) \in 1..n /\ Cardinality(t) \in 1..n
  BY RankTyped
<1> HIDE DEF s, t
<1>5. s # t /\ s \subseteq t
  BY <1>2, <1>3, <1>4 DEF s, t
<1>6. Cardinality(s) <= Cardinality(t) /\ Cardinality(s) # Cardinality(t)
  BY <1>4, <1>5, FS_Subset
<1> QED
  BY <1>4, <1>6 DEF s, t

\* Sorting by date gives every place once.
LEMMA SortingPermutes ==
  ASSUME NEW n \in Nat, NEW dates \in [1..n -> Dates]
  PROVE  /\ Permutes([k \in 1..n |-> Ranked(dates, k)], n)
         /\ \A k \in 1..n : Cardinality(UpTo(dates, n, Ranked(dates, k))) = k
<1> DEFINE D == 1..n
           Rank(i) == Cardinality(UpTo(dates, n, i))
           rank == [i \in D |-> Rank(i)]
           place == [k \in D |-> Ranked(dates, k)]
<1>1. IsFiniteSet(D) /\ Cardinality(D) = n
  BY FS_Interval
<1>2. \A i \in D : Rank(i) \in D
  BY RankTyped
<1>3. \A i, j \in D : Precedes(dates, i, j) => Rank(i) < Rank(j)
  BY RankGrows
<1>4. ASSUME NEW i \in D, NEW j \in D, i # j PROVE Rank(i) # Rank(j)
  <2>1. dates[i] \in Dates /\ dates[j] \in Dates /\ i \in Int /\ j \in Int
    OBVIOUS
  <2>2. Precedes(dates, i, j) \/ Precedes(dates, j, i)
    BY <1>4, <2>1, AbsentAssumption DEF Before, Dates, Precedes
  <2>3. Rank(i) < Rank(j) \/ Rank(j) < Rank(i)
    BY <1>3, <2>2
  <2>4. Rank(i) \in Int /\ Rank(j) \in Int
    BY <1>2
  <2> HIDE DEF Rank
  <2> QED
    BY <2>3, <2>4
<1>5. rank \in Injection(D, D)
  <2>1. rank \in [D -> D]
    BY <1>2
  <2>2. \A i, j \in D : rank[i] = rank[j] => i = j
    BY <1>4
  <2> HIDE DEF rank
  <2> QED
    BY <2>1, <2>2 DEF Injection, IsInjective
<1>6. rank \in Surjection(D, D)
  <2> HIDE DEF rank, D
  <2> QED
    BY <1>1, <1>5, FS_Injection
<1>7. \A k \in D : \E i \in D : Rank(i) = k
  <2>1. \A k \in D : \E i \in D : rank[i] = k
    <3> HIDE DEF rank
    <3> QED
      BY <1>6 DEF Surjection
  <2> QED
    BY <2>1
<1>8. \A k \in D : place[k] \in D /\ Rank(place[k]) = k
  <2>1. DOMAIN dates = D /\ \A i \in D : RankIn(dates, i) = Rank(i)
    BY DEF RankIn, UpTo
  <2> HIDE DEF Rank
  <2>2. \A k \in D : \E i \in D : RankIn(dates, i) = k
    BY <1>7, <2>1
  <2>3. \A k \in D : Ranked(dates, k) \in D /\ RankIn(dates, Ranked(dates, k)) = k
    BY <2>1, <2>2 DEF Ranked
  <2> QED
    BY <2>1, <2>3
<1> HIDE DEF Rank, place
<1>9. \A i, j \in D : place[i] = place[j] => i = j
  BY <1>8
<1>10. \A i \in D : place[Rank(i)] = i
  <2> TAKE i \in D
  <2>1. Rank(i) \in D
    BY <1>2 DEF Rank
  <2>2. place[Rank(i)] \in D /\ Rank(place[Rank(i)]) = Rank(i)
    BY <1>8, <2>1
  <2> QED
    BY <1>4, <2>2 DEF Rank
<1>11. place \in [D -> D]
  <2>1. place = [k \in D |-> place[k]]
    BY DEF place
  <2> QED
    BY <1>8, <2>1
<1>12. \A i \in D : \E k \in D : place[k] = i
  BY <1>2, <1>10 DEF Rank
<1>13. \A k \in D : Cardinality(UpTo(dates, n, Ranked(dates, k))) = k
  BY <1>8 DEF Rank, place
<1> QED
  BY <1>9, <1>11, <1>12, <1>13 DEF Permutes, place

\* The places in their order.
LEMMA SortingOrders ==
  ASSUME NEW n \in Nat, NEW dates \in [1..n -> Dates], NEW q \in 1..n, NEW k \in 1..n
  PROVE  Precedes(dates, Ranked(dates, q), Ranked(dates, k)) <=> q < k
<1> DEFINE j == Ranked(dates, q)
           i == Ranked(dates, k)
           p == [l \in 1..n |-> Ranked(dates, l)]
<1>1. Permutes(p, n) /\ p[q] = j /\ p[k] = i
  BY SortingPermutes
<1>2. Cardinality(UpTo(dates, n, j)) = q /\ Cardinality(UpTo(dates, n, i)) = k
  BY SortingPermutes
<1> HIDE DEF p, i, j
<1>3. i \in 1..n /\ j \in 1..n /\ (i = j => q = k)
  BY <1>1 DEF Permutes
<1>4. Precedes(dates, j, i) => q < k
  BY <1>2, <1>3, RankGrows
<1>5. Precedes(dates, i, j) => k < q
  BY <1>2, <1>3, RankGrows
<1>6. i # j => Precedes(dates, i, j) \/ Precedes(dates, j, i)
  <2>1. dates[i] \in Dates /\ dates[j] \in Dates /\ i \in Int /\ j \in Int
    BY <1>3
  <2> QED
    BY <2>1, AbsentAssumption DEF Before, Dates, Precedes
<1>7. q < k => i # j /\ ~(k < q)
  BY <1>2
<1> QED
  BY <1>4, <1>5, <1>6, <1>7 DEF i, j

Tables == [from : Int, deposit : [1..4 -> Nat], repaid : [1..4 -> Nat]]

\* No money is made or lost, and no payment takes any back.
Balanced(book, money) ==
  /\ book \in Books(STRING)
  /\ book.left + PaidOf(book, Stages, STRING) = money
  /\ \A S, T : 0 <= PaidOf(book, S, T)

LEMMA PayBalances ==
  ASSUME NEW money \in Int, NEW book, Balanced(book, money), NEW stage \in Stages,
         NEW to \in STRING, NEW amount \in Nat
  PROVE  /\ Balanced(Pay(book, stage, to, amount), money)
         /\ Pay(book, stage, to, amount).left = book.left - amount
         /\ \A S, T : PaidOf(Pay(book, stage, to, amount), S, T) =
                       PaidOf(book, S, T) + (IF stage \in S /\ to \in T THEN amount ELSE 0)
<1> DEFINE paid == Pay(book, stage, to, amount)
<1>1. book \in Books(STRING) /\ amount \in Int
  BY DEF Balanced
<1>2. /\ paid \in Books(STRING) /\ paid.left = book.left - amount
      /\ \A S, T : PaidOf(paid, S, T) =
                    PaidOf(book, S, T) + (IF stage \in S /\ to \in T THEN amount ELSE 0)
  BY <1>1, PaidMore
<1> HIDE DEF paid
<1>3. \A S, T : PaidOf(book, S, T) \in Int /\ PaidOf(book, S, T) >= 0
  BY <1>1, PaidTyped DEF Balanced
<1>4. \A S, T : 0 <= PaidOf(paid, S, T)
  BY <1>2, <1>3
<1>5. paid.left + PaidOf(paid, Stages, STRING) = money
  <2>1. PaidOf(paid, Stages, STRING) = PaidOf(book, Stages, STRING) + amount
    BY <1>2
  <2>2. book.left \in Int /\ book.left + PaidOf(book, Stages, STRING) = money
    BY <1>1 DEF Books, Balanced
  <2> QED
    BY <1>2, <1>3, <2>1, <2>2
<1>6. Balanced(paid, money)
  BY <1>2, <1>4, <1>5 DEF Balanced
<1> QED
  BY <1>2, <1>6 DEF paid

LEMMA NothingPaid ==
  ASSUME NEW money \in Int, NEW book, book = [left |-> money, entries |-> << >>]
  PROVE  Balanced(book, money) /\ \A S, T : PaidOf(book, S, T) = 0
<1>1. book \in Books(STRING)
  BY DEF Books
<1>2. Len(book.entries) = 0 /\ 1..Len(book.entries) = {}
  OBVIOUS
<1>3. \A S, T : PaidAt(book.entries, S, T) \in [1..0 -> Int]
  BY <1>2 DEF PaidAt
<1>4. \A S, T : PaidOf(book, S, T) = 0
  <2> TAKE S, T
  <2>1. SumIn(PaidAt(book.entries, S, T), 0, 1..0) = 0
    BY <1>3, SumSteps
  <2> QED
    BY <1>2, <2>1 DEF PaidOf
<1> QED
  BY <1>1, <1>4 DEF Balanced

\* A small deposit is no more than the deposit.
LEMMA SmallDepositTyped ==
  ASSUME NEW tenant \in Tenants, NEW rule \in Tables, NEW region \in 1..4
  PROVE  SmallDeposit(tenant, rule, region) \in Nat
         /\ SmallDeposit(tenant, rule, region) <= tenant.deposit
<1>1. tenant.deposit \in Nat /\ rule.deposit[region] \in Nat /\ rule.repaid[region] \in Nat
  BY DEF Tenants, Tables
<1> QED
  BY <1>1 DEF SmallDeposit, Least

\* The small deposits are paid one after the other.
SharesFit(V, book, tenants, n, rule, region, total, budget) ==
  /\ n \in Nat /\ DOMAIN tenants = 1..n /\ book \in V
  /\ \A v \in V, i \in 1..n : PayShare(v, tenants[i], SmallDeposit(tenants[i], rule, region), total, budget) \in V
SharesRun(g, V, book, tenants, n, rule, region, total, budget) ==
  /\ g \in [0..n -> V] /\ g[0] = book /\ g[n] = PayShares(book, tenants, rule, region, total, budget)
  /\ \A k \in 0..(n - 1) : g[k + 1] = PayShare(g[k], tenants[k + 1], SmallDeposit(tenants[k + 1], rule, region), total, budget)

LEMMA SharesInTurn ==
  ASSUME NEW V, NEW book, NEW tenants, NEW n, NEW rule, NEW region, NEW total, NEW budget,
         SharesFit(V, book, tenants, n, rule, region, total, budget)
  PROVE  \E g : SharesRun(g, V, book, tenants, n, rule, region, total, budget)
<1> DEFINE D == 1..n
           steps == [p \in V \X D |-> PayShare(p[1], tenants[p[2]], SmallDeposit(tenants[p[2]], rule, region), total, budget)]
           Folds(h) == h = [s \in SUBSET D |-> IF s = {} THEN book
                                               ELSE PayShare(h[s \ {Max(s)}], tenants[Max(s)], SmallDeposit(tenants[Max(s)], rule, region), total, budget)]
           f == CHOOSE h : Folds(h)
<1>1. \A v \in V, i \in D : PayShare(v, tenants[i], SmallDeposit(tenants[i], rule, region), total, budget) \in V
  BY DEF SharesFit
<1> n \in Nat /\ DOMAIN tenants = D /\ book \in V
  BY DEF SharesFit
<1>2. PayShares(book, tenants, rule, region, total, budget) = f[D]
  BY DEF PayShares, FoldLeft, MapThenFoldSet
<1>3. steps \in [V \X D -> V] /\ \A v \in V, i \in D : steps[v, i] = PayShare(v, tenants[i], SmallDeposit(tenants[i], rule, region), total, budget)
  BY <1>1
<1>4. PICK h \in [SUBSET D -> V] : FoldOver(steps, book, D, h)
  <2> HIDE DEF steps
  <2> QED
    BY <1>3, FoldInside
<1>5. Folds(h)
  <2>1. ASSUME NEW s \in SUBSET D, s # {}
        PROVE  steps[h[s \ {Max(s)}], Max(s)] = PayShare(h[s \ {Max(s)}], tenants[Max(s)], SmallDeposit(tenants[Max(s)], rule, region), total, budget)
    <3>1. Max(s) \in D /\ h[s \ {Max(s)}] \in V
      BY <2>1, LargestPlace
    <3> HIDE DEF steps
    <3> QED
      BY <1>3, <3>1
  <2> HIDE DEF steps
  <2> QED
    BY <1>4, <2>1 DEF FoldOver
<1>6. Folds(f)
  <2> HIDE DEF Folds
  <2> QED
    BY <1>5
<1>7. f[{}] = book /\ \A s \in SUBSET D : s # {} =>
        f[s] = PayShare(f[s \ {Max(s)}], tenants[Max(s)], SmallDeposit(tenants[Max(s)], rule, region), total, budget)
  <2> HIDE DEF f
  <2> QED
    BY <1>6
<1> HIDE DEF f, Folds, steps
<1>8. \A k \in 0..(n - 1) : f[1..(k + 1)] = PayShare(f[1..k], tenants[k + 1], SmallDeposit(tenants[k + 1], rule, region), total, budget)
  <2> TAKE k \in 0..(n - 1)
  <2>1. 1..(k + 1) \in SUBSET D /\ 1..(k + 1) # {} /\ Max(1..(k + 1)) = k + 1
        /\ (1..(k + 1)) \ {k + 1} = 1..k
    BY FirstPlaces
  <2> QED
    BY <1>7, <2>1
<1>9. \A k \in 0..n : f[1..k] \in V
  <2>1. ASSUME NEW k \in 0..(n - 1), f[1..k] \in V PROVE f[1..(k + 1)] \in V
    <3>1. k + 1 \in D
      OBVIOUS
    <3> QED
      BY <1>1, <1>8, <2>1, <3>1
  <2>2. f[{}] \in V
    BY <1>7
  <2> QED
    BY <2>1, <2>2, EachPlace
<1> DEFINE g == [k \in 0..n |-> f[1..k]]
<1>10. g \in [0..n -> V] /\ g[0] = book /\ g[n] = PayShares(book, tenants, rule, region, total, budget)
  <2>1. 1..0 = {} /\ 0 \in 0..n /\ n \in 0..n
    OBVIOUS
  <2> QED
    BY <1>2, <1>7, <1>9, <2>1
<1>11. \A k \in 0..(n - 1) : g[k + 1] = PayShare(g[k], tenants[k + 1], SmallDeposit(tenants[k + 1], rule, region), total, budget)
  <2>1. \A k \in 0..(n - 1) : k \in 0..n /\ k + 1 \in 0..n
    OBVIOUS
  <2> QED
    BY <1>8, <2>1
<1> QED
  BY <1>10, <1>11 DEF SharesRun

\* A share of a budget that does not exceed the claims is no more than the claim.
LEMMA ShareBounds ==
  ASSUME NEW claim \in Nat, NEW total \in Nat, NEW budget \in Nat,
         0 < claim, claim <= total, budget <= total
  PROVE  LET share == (claim * budget) \div total IN
         share \in Nat /\ share <= claim /\ total * share <= claim * budget
<1> DEFINE x == claim * budget
           share == x \div total
<1>1. x \in Nat /\ x <= claim * total
  OBVIOUS
<1> HIDE DEF x
<1>2. share \in Int /\ total * share <= x /\ x < total * share + total
  <2>1. x = total * share + (x % total) /\ 0 <= x % total /\ x % total < total
    BY <1>1
  <2>2. share \in Int /\ x % total \in Int
    BY <1>1
  <2> HIDE DEF share
  <2> QED
    BY <2>1, <2>2
<1> HIDE DEF share
<1>3. share >= 0
  <2>1. CASE share <= -1
    <3>1. total * share <= total * (-1)
      BY <1>2, <2>1
    <3> QED
      BY <1>1, <1>2, <3>1
  <2> QED
    BY <1>2, <2>1
<1>4. share <= claim
  <2>1. CASE share >= claim + 1
    <3>1. total * share >= total * (claim + 1)
      BY <1>2, <2>1
    <3> QED
      BY <1>1, <1>2, <3>1
  <2> QED
    BY <1>2, <2>1
<1> QED
  BY <1>2, <1>3, <1>4 DEF share, x

-----------------------------------------------------------------------------
\* The first stage: the small deposits.

\* A book with entries of the first stage only, for tenants 1..k, of claims c.
SmallBook(b, k, c, n, ids, budget, money) ==
  /\ Balanced(b, money)
  /\ \A S, T : "small" \in S => PaidOf(b, S, T) = PaidOf(b, {"small"}, T)
  /\ PaidOf(b, {"small"}, STRING) <= SumIn(c, n, 1..k)
  /\ SumIn(c, n, 1..n) * PaidOf(b, {"small"}, STRING) <= SumIn(c, n, 1..k) * budget
  /\ \A i \in 1..n : PaidOf(b, {"small"}, {ids[i]}) <= IF i <= k THEN c[i] ELSE 0
  /\ \A w \in STRING : (\A i \in 1..n : w # ids[i]) => PaidOf(b, {"small"}, {w}) = 0

Shares(n, c, ids, budget) ==
  /\ n \in Nat /\ c \in [1..n -> Nat] /\ ids \in [1..n -> STRING]
  /\ \A i, j \in 1..n : ids[i] = ids[j] => i = j
  /\ budget \in Nat /\ budget <= SumIn(c, n, 1..n)

\* One tenant more is paid at most the claim.
LEMMA PayOneMore ==
  ASSUME NEW n, NEW c, NEW ids, NEW budget, Shares(n, c, ids, budget), NEW money \in Int,
         NEW b, NEW k \in 0..(n - 1), SmallBook(b, k, c, n, ids, budget, money),
         NEW amount \in Nat, amount <= c[k + 1],
         SumIn(c, n, 1..n) * amount <= c[k + 1] * budget
  PROVE  SmallBook(Pay(b, "small", ids[k + 1], amount), k + 1, c, n, ids, budget, money)
<1> DEFINE more == Pay(b, "small", ids[k + 1], amount)
           total == SumIn(c, n, 1..n)
           before == SumIn(c, n, 1..k)
           paid == PaidOf(b, {"small"}, STRING)
<1>1. /\ n \in Nat /\ c \in [1..n -> Nat] /\ c \in [1..n -> Int] /\ ids \in [1..n -> STRING]
      /\ k + 1 \in 1..n /\ k \in Nat /\ k <= n /\ budget \in Nat
      /\ \A i, j \in 1..n : ids[i] = ids[j] => i = j
  BY DEF Shares
<1>2. ids[k + 1] \in STRING /\ c[k + 1] \in Nat
  BY <1>1
<1>3. /\ Balanced(more, money)
      /\ \A S, T : PaidOf(more, S, T) =
                    PaidOf(b, S, T) + (IF "small" \in S /\ ids[k + 1] \in T THEN amount ELSE 0)
  <2>1. "small" \in Stages /\ Balanced(b, money)
    BY DEF Stages, SmallBook
  <2> DEFINE to == ids[k + 1]
  <2>2. to \in STRING
    BY <1>2
  <2> HIDE DEF to
  <2>3. /\ Balanced(Pay(b, "small", to, amount), money)
        /\ \A S, T : PaidOf(Pay(b, "small", to, amount), S, T) =
                      PaidOf(b, S, T) + (IF "small" \in S /\ to \in T THEN amount ELSE 0)
    BY <2>1, <2>2, PayBalances
  <2> QED
    BY <2>3 DEF to
<1>4. before \in Nat /\ total \in Nat /\ SumIn(c, n, 1..(k + 1)) = before + c[k + 1]
  <2>1. n <= n
    BY <1>1
  <2>2. before \in Nat /\ total \in Nat
    BY <1>1, <2>1, SumOfNaturals
  <2> QED
    BY <1>1, <2>2, SumSteps
<1>5. \A S, T : PaidOf(b, S, T) \in Int
  BY PaidTyped DEF SmallBook, Balanced
<1> HIDE DEF more, total, before
<1>6. \A S, T : "small" \in S => PaidOf(more, S, T) = PaidOf(more, {"small"}, T)
  BY <1>3, <1>5 DEF SmallBook
<1>7. PaidOf(more, {"small"}, STRING) = paid + amount
  BY <1>2, <1>3
<1>8. paid \in Int /\ paid <= before /\ total * paid <= before * budget
  BY <1>5 DEF SmallBook, total, before
<1>9. PaidOf(more, {"small"}, STRING) <= SumIn(c, n, 1..(k + 1))
  BY <1>2, <1>4, <1>7, <1>8
<1>10. total * PaidOf(more, {"small"}, STRING) <= SumIn(c, n, 1..(k + 1)) * budget
  <2>1. total * (paid + amount) = total * paid + total * amount
    BY <1>4, <1>8
  <2>2. (before + c[k + 1]) * budget = before * budget + c[k + 1] * budget
    BY <1>1, <1>2, <1>4
  <2>3. total * amount <= c[k + 1] * budget
    BY DEF total
  <2>4. total * paid \in Int /\ total * amount \in Int /\ before * budget \in Int
        /\ c[k + 1] * budget \in Int
    BY <1>1, <1>2, <1>4, <1>8
  <2>5. total * paid + total * amount <= before * budget + c[k + 1] * budget
    <3> DEFINE u == total * paid
               v == total * amount
               x == before * budget
               y == c[k + 1] * budget
    <3>1. u \in Int /\ v \in Int /\ x \in Int /\ y \in Int /\ u <= x /\ v <= y
      BY <1>8, <2>3, <2>4
    <3> HIDE DEF u, v, x, y
    <3>2. u + v <= x + y
      BY <3>1
    <3> QED
      BY <3>2 DEF u, v, x, y
  <2> QED
    BY <1>4, <1>7, <2>1, <2>2, <2>5
<1>11. ASSUME NEW i \in 1..n
       PROVE  PaidOf(more, {"small"}, {ids[i]}) <= IF i <= k + 1 THEN c[i] ELSE 0
  <2>1. PaidOf(b, {"small"}, {ids[i]}) <= IF i <= k THEN c[i] ELSE 0
    BY DEF SmallBook
  <2>2. PaidOf(more, {"small"}, {ids[i]}) =
        PaidOf(b, {"small"}, {ids[i]}) + (IF i = k + 1 THEN amount ELSE 0)
    BY <1>1, <1>3
  <2>3. c[i] \in Nat /\ PaidOf(b, {"small"}, {ids[i]}) \in Int
    BY <1>1, <1>5
  <2> QED
    BY <1>1, <2>1, <2>2, <2>3
<1>12. ASSUME NEW w \in STRING, \A i \in 1..n : w # ids[i]
       PROVE  PaidOf(more, {"small"}, {w}) = 0
  <2>1. PaidOf(b, {"small"}, {w}) = 0
    BY <1>12 DEF SmallBook
  <2>2. ids[k + 1] \notin {w}
    BY <1>1, <1>12
  <2> QED
    BY <1>3, <2>1, <2>2
<1> QED
  BY <1>3, <1>6, <1>9, <1>10, <1>11, <1>12 DEF SmallBook, more, total

\* The first stage keeps the books, within half of the money, and pays nobody
\* more than the deposit.
StartBook(money) == [left |-> money, entries |-> << >>]
AfterSmall(b, joining, n, money) ==
  /\ Balanced(b, money) /\ b.left >= 0
  /\ 2 * PaidOf(b, {"small"}, STRING) <= money
  /\ \A S, T : "small" \in S => PaidOf(b, S, T) = PaidOf(b, {"small"}, T)
  /\ \A i \in 1..n : PaidOf(b, {"small"}, {joining[i].id}) <= joining[i].deposit
  /\ \A w \in STRING : (\A i \in 1..n : w # joining[i].id) => PaidOf(b, {"small"}, {w}) = 0
DistinctIds(seq, n) == \A i, j \in 1..n : seq[i].id = seq[j].id => i = j

LEMMA SmallStage ==
  ASSUME NEW n \in Nat, NEW joining \in [1..n -> Tenants], DistinctIds(joining, n),
         NEW region \in 1..4, NEW rule, n > 0 => rule \in Tables, NEW money \in Nat
  PROVE  AfterSmall(PaySmallDeposits(StartBook(money), joining, rule, region), joining, n, money)
<1> DEFINE c == [i \in 1..n |-> SmallDeposit(joining[i], rule, region)]
           ids == [i \in 1..n |-> joining[i].id]
           total == SumIn(c, n, 1..n)
           budget == Least(total, SmallBudget(money))
<1>1. c \in [1..n -> Nat] /\ ids \in [1..n -> STRING] /\ \A i \in 1..n : c[i] <= joining[i].deposit
  <2>1. ASSUME NEW i \in 1..n
        PROVE  SmallDeposit(joining[i], rule, region) \in Nat
               /\ SmallDeposit(joining[i], rule, region) <= joining[i].deposit
               /\ joining[i].id \in STRING
    <3>1. joining[i] \in Tenants /\ rule \in Tables
      BY <2>1
    <3>2. joining[i].id \in STRING
      BY <3>1 DEF Tenants
    <3> QED
      BY <3>1, <3>2, SmallDepositTyped
  <2> QED
    BY <2>1
<1>2. total \in Nat /\ \A i \in 1..n : c[i] <= total
  <2>1. n <= n
    OBVIOUS
  <2> HIDE DEF c
  <2> QED
    BY <1>1, <2>1, SumOfNaturals
<1>3. SmallTotal(joining, rule, region) = total
  <2>1. c = [i \in DOMAIN joining |-> SmallDeposit(joining[i], rule, region)]
    OBVIOUS
  <2>2. SmallTotal(joining, rule, region) = SumAll(c)
    BY <2>1 DEF SmallTotal, SumOf
  <2>3. c \in [1..n -> Int]
    BY <1>1
  <2> HIDE DEF c
  <2> QED
    BY <2>2, <2>3, SumAllIs
<1>4. budget \in Nat /\ budget <= total /\ 2 * budget <= money
  <2> HIDE DEF total
  <2> QED
    BY <1>2 DEF Least, SmallBudget
<1>5. Shares(n, c, ids, budget)
  <2>1. \A i, j \in 1..n : ids[i] = ids[j] => i = j
    BY DEF DistinctIds
  <2> HIDE DEF c, ids, budget
  <2> QED
    BY <1>1, <1>4, <2>1 DEF Shares
<1> DEFINE Step(b, i) == PayShare(b, joining[i], SmallDeposit(joining[i], rule, region), total, budget)
<1>6. ASSUME NEW b, NEW i \in 1..n
      PROVE  \/ Step(b, i) = b /\ c[i] = 0
             \/ \E amount \in Nat : /\ Step(b, i) = Pay(b, "small", ids[i], amount)
                                    /\ amount <= c[i] /\ total * amount <= c[i] * budget
  <2>1. Step(b, i) = IF c[i] > 0 THEN Pay(b, "small", ids[i], (c[i] * budget) \div total) ELSE b
    BY <1>6 DEF PayShare
  <2>2. c[i] \in Nat /\ c[i] <= total
    BY <1>1, <1>2
  <2> HIDE DEF c, total, budget, Step
  <2>3. c[i] > 0 => LET share == (c[i] * budget) \div total IN
                    share \in Nat /\ share <= c[i] /\ total * share <= c[i] * budget
    BY <1>2, <1>4, <2>2, ShareBounds
  <2> QED
    BY <2>1, <2>2, <2>3
<1> HIDE DEF Step
<1>7. \A b \in Books(STRING), i \in 1..n : Step(b, i) \in Books(STRING)
  <2> TAKE b \in Books(STRING), i \in 1..n
  <2>1. CASE Step(b, i) = b
    BY <2>1
  <2>2. CASE Step(b, i) # b
    <3>1. PICK amount \in Nat : Step(b, i) = Pay(b, "small", ids[i], amount)
      BY <1>6, <2>2
    <3>2. amount \in Int /\ ids[i] \in STRING /\ "small" \in Stages
      BY <1>1 DEF Stages
    <3> HIDE DEF ids
    <3> QED
      BY <3>1, <3>2, PaidMore
  <2> QED
    BY <2>1, <2>2
<1>8. Balanced(StartBook(money), money) /\ \A S, T : PaidOf(StartBook(money), S, T) = 0
  BY NothingPaid DEF StartBook
<1>9. PICK g \in [0..n -> Books(STRING)] :
        /\ g[0] = StartBook(money)
        /\ g[n] = PaySmallDeposits(StartBook(money), joining, rule, region)
        /\ \A k \in 0..(n - 1) : g[k + 1] = Step(g[k], k + 1)
  <2>1. DOMAIN joining = 1..n /\ StartBook(money) \in Books(STRING)
    BY <1>8 DEF Balanced
  <2>2. StartBook(money).left = money
    BY DEF StartBook
  <2>3. PaySmallDeposits(StartBook(money), joining, rule, region) =
        PayShares(StartBook(money), joining, rule, region, total, budget)
    BY <1>3, <2>2 DEF PaySmallDeposits
  <2> HIDE DEF total, budget
  <2>4. \E g \in [0..n -> Books(STRING)] :
          /\ g[0] = StartBook(money)
          /\ g[n] = PayShares(StartBook(money), joining, rule, region, total, budget)
          /\ \A k \in 0..(n - 1) : g[k + 1] = Step(g[k], k + 1)
    <3>1. SharesFit(Books(STRING), StartBook(money), joining, n, rule, region, total, budget)
      BY <1>7, <2>1 DEF SharesFit, Step
    <3>2. PICK g : SharesRun(g, Books(STRING), StartBook(money), joining, n, rule, region, total, budget)
      BY <3>1, SharesInTurn
    <3> QED
      BY <3>2 DEF SharesRun, Step
  <2> QED
    BY <2>3, <2>4
<1> DEFINE Kept == {k \in 0..n : SmallBook(g[k], k, c, n, ids, budget, money)}
<1>10. 0 \in Kept
  <2>1. SumIn(c, n, 1..0) = 0
    <3>1. c \in [1..n -> Int]
      BY <1>1
    <3> HIDE DEF c
    <3> QED
      BY <3>1, SumSteps
  <2>2. 0 * budget = 0 /\ total * 0 = 0
    <3> HIDE DEF budget, total
    <3> QED
      BY <1>2, <1>4
  <2>3. \A i \in 1..n : 0 <= IF i <= 0 THEN c[i] ELSE 0
    OBVIOUS
  <2> HIDE DEF c, budget, ids
  <2> QED
    BY <1>8, <1>9, <2>1, <2>2, <2>3 DEF SmallBook, total
<1>11. ASSUME NEW k \in 0..(n - 1), k \in Kept PROVE k + 1 \in Kept
  <2>1. k + 1 \in 0..n /\ k + 1 \in 1..n /\ c[k + 1] \in Nat /\ money \in Int
    BY <1>1
  <2>2. SmallBook(g[k], k, c, n, ids, budget, money) /\ g[k + 1] = Step(g[k], k + 1)
    BY <1>9, <1>11
  <2> HIDE DEF c, budget, ids, Kept
  <2>3. CASE \E amount \in Nat : /\ Step(g[k], k + 1) = Pay(g[k], "small", ids[k + 1], amount)
                                 /\ amount <= c[k + 1] /\ total * amount <= c[k + 1] * budget
    BY <1>5, <2>1, <2>2, <2>3, PayOneMore DEF Kept, total
  <2>4. CASE Step(g[k], k + 1) = g[k] /\ c[k + 1] = 0
    <3>1. SumIn(c, n, 1..(k + 1)) = SumIn(c, n, 1..k)
      <4>1. c \in [1..n -> Int]
        BY <1>1
      <4>2. SumIn(c, n, 1..(k + 1)) = SumIn(c, n, 1..k) + c[k + 1]
        BY <4>1, SumSteps
      <4>3. SumIn(c, n, 1..k) \in Int
        <5>1. k \in Nat /\ k <= n
          OBVIOUS
        <5> QED
          BY <4>1, <5>1, SumTyped
      <4> QED
        BY <2>4, <4>2, <4>3
    <3>2. \A i \in 1..n : (IF i <= k THEN c[i] ELSE 0) = (IF i <= k + 1 THEN c[i] ELSE 0)
      <4>1. \A i \in 1..n : i <= k + 1 <=> i <= k \/ i = k + 1
        OBVIOUS
      <4> QED
        BY <2>4, <4>1
    <3>3. SmallBook(g[k], k + 1, c, n, ids, budget, money)
      BY <2>2, <3>1, <3>2 DEF SmallBook
    <3> QED
      BY <2>1, <2>2, <2>4, <3>3 DEF Kept
  <2> QED
    BY <1>6, <2>1, <2>3, <2>4
<1>12. SmallBook(g[n], n, c, n, ids, budget, money)
  <2> HIDE DEF Kept
  <2>1. n \in Kept
    <3>1. n \in 0..n
      OBVIOUS
    <3> QED
      BY <1>10, <1>11, <3>1, Stepwise
  <2> QED
    BY <2>1 DEF Kept
<1> DEFINE b == g[n]
           paid == PaidOf(b, {"small"}, STRING)
<1>13. \A S, T : PaidOf(b, S, T) \in Int
  BY <1>12, PaidTyped DEF SmallBook, Balanced
<1>14. 2 * paid <= money
  <2>1. paid \in Int /\ paid <= total /\ total * paid <= total * budget
    BY <1>12, <1>13 DEF SmallBook, total
  <2> HIDE DEF paid, total, budget
  <2>2. paid <= budget
    <3>1. CASE total = 0
      BY <1>4, <2>1, <3>1
    <3>2. CASE total > 0 /\ paid >= budget + 1
      <4>1. total * paid >= total * (budget + 1) /\ total * (budget + 1) = total * budget + total
        BY <1>2, <1>4, <2>1, <3>2
      <4>2. total * budget \in Int /\ total * paid \in Int
        BY <1>2, <1>4, <2>1
      <4> DEFINE u == total * paid
                 v == total * budget
      <4>3. u \in Int /\ v \in Int /\ u <= v /\ u >= total * (budget + 1)
            /\ total * (budget + 1) = v + total
        BY <2>1, <4>1, <4>2
      <4> HIDE DEF u, v
      <4>4. u >= v + total
        BY <4>3
      <4> QED
        BY <1>2, <3>2, <4>3, <4>4
    <3> QED
      BY <1>2, <1>4, <2>1, <3>1, <3>2
  <2> QED
    BY <1>4, <2>1, <2>2
<1>15. b.left >= 0
  <2>1. "small" \in Stages
    BY DEF Stages
  <2>2. PaidOf(b, Stages, STRING) = paid /\ b.left + PaidOf(b, Stages, STRING) = money
    BY <1>12, <2>1 DEF SmallBook, Balanced
  <2>3. b.left \in Int
    BY <1>12 DEF SmallBook, Balanced, Books
  <2>4. paid \in Int /\ paid >= 0
    BY <1>12, <1>13 DEF SmallBook, Balanced
  <2> QED
    BY <1>14, <2>2, <2>3, <2>4
<1>16. \A i \in 1..n : PaidOf(b, {"small"}, {joining[i].id}) <= joining[i].deposit
  <2> TAKE i \in 1..n
  <2>1. PaidOf(b, {"small"}, {ids[i]}) <= c[i]
    <3> HIDE DEF c, ids, b
    <3> QED
      BY <1>12 DEF SmallBook, b
  <2>2. c[i] <= joining[i].deposit /\ c[i] \in Nat /\ joining[i].deposit \in Nat
    <3>1. joining[i] \in Tenants
      OBVIOUS
    <3> QED
      BY <1>1, <3>1 DEF Tenants
  <2>3. ids[i] = joining[i].id
    OBVIOUS
  <2> HIDE DEF c, ids, b
  <2> QED
    BY <1>13, <2>1, <2>2, <2>3
<1>17. \A w \in STRING : (\A i \in 1..n : w # joining[i].id) => PaidOf(b, {"small"}, {w}) = 0
  <2> TAKE w \in STRING
  <2> HAVE \A i \in 1..n : w # joining[i].id
  <2>1. \A i \in 1..n : w # ids[i]
    OBVIOUS
  <2> HIDE DEF ids, c
  <2> QED
    BY <1>12, <2>1 DEF SmallBook
<1> HIDE DEF c, ids, budget
<1> QED
  BY <1>9, <1>12, <1>14, <1>15, <1>16, <1>17 DEF AfterSmall, SmallBook

-----------------------------------------------------------------------------
\* The second stage: the taxes on the property, with the relief of tenants.

\* The joining tenants have at most their deposit, from the first two stages
\* alone; those that are neither tenants nor taxes have nothing yet.
TaxedBook(b, joining, n, taxIds, money) ==
  /\ Balanced(b, money) /\ b.left >= 0
  /\ 2 * PaidOf(b, {"small"}, STRING) <= money
  /\ \A i \in 1..n :
       /\ PaidOf(b, Stages, {joining[i].id}) = PaidOf(b, {"small", "relief"}, {joining[i].id})
       /\ PaidOf(b, Stages, {joining[i].id}) <= joining[i].deposit
  /\ \A w \in STRING : w \notin taxIds /\ (\A i \in 1..n : w # joining[i].id) =>
       PaidOf(b, Stages, {w}) = 0

LEMMA SmallThenTaxes ==
  ASSUME NEW b, NEW joining, NEW n, NEW taxIds, NEW money, AfterSmall(b, joining, n, money)
  PROVE  TaxedBook(b, joining, n, taxIds, money)
<1>1. \A T : /\ PaidOf(b, Stages, T) = PaidOf(b, {"small"}, T)
             /\ PaidOf(b, {"small", "relief"}, T) = PaidOf(b, {"small"}, T)
  <2>1. "small" \in Stages /\ "small" \in {"small", "relief"}
    BY DEF Stages
  <2> QED
    BY <2>1 DEF AfterSmall
<1> QED
  BY <1>1 DEF AfterSmall, TaxedBook

OwnIds(joining, n, taxIds) ==
  /\ n \in Nat /\ joining \in [1..n -> Tenants] /\ DistinctIds(joining, n)
  /\ taxIds \in SUBSET STRING /\ \A i \in 1..n : joining[i].id \notin taxIds

LEMMA PayRelief ==
  ASSUME NEW n, NEW joining, NEW taxIds, OwnIds(joining, n, taxIds), NEW money \in Int,
         NEW b, TaxedBook(b, joining, n, taxIds, money), NEW i \in 1..n,
         NEW amount \in Nat, amount <= b.left,
         amount <= joining[i].deposit - PaidOf(b, {"small", "relief"}, {joining[i].id})
  PROVE  TaxedBook(Pay(b, "relief", joining[i].id, amount), joining, n, taxIds, money)
<1> DEFINE to == joining[i].id
           more == Pay(b, "relief", to, amount)
<1>1. /\ n \in Nat /\ joining \in [1..n -> Tenants] /\ to \in STRING /\ to \notin taxIds
      /\ \A j \in 1..n : joining[j].id = to => i = j
      /\ \A j \in 1..n : joining[j].id \in STRING /\ joining[j].deposit \in Nat
  <2>1. n \in Nat /\ joining \in [1..n -> Tenants] /\ to \notin taxIds
        /\ \A j \in 1..n : joining[j].id = to => i = j
    BY DEF OwnIds, DistinctIds
  <2>2. \A j \in 1..n : joining[j].id \in STRING /\ joining[j].deposit \in Nat
    BY <2>1 DEF Tenants
  <2> QED
    BY <2>1, <2>2
<1> HIDE DEF to
<1>2. /\ Balanced(more, money) /\ more.left = b.left - amount
      /\ \A S, T : PaidOf(more, S, T) =
                    PaidOf(b, S, T) + (IF "relief" \in S /\ to \in T THEN amount ELSE 0)
  <2>1. "relief" \in Stages /\ Balanced(b, money)
    BY DEF Stages, TaxedBook
  <2> QED
    BY <1>1, <2>1, PayBalances
<1>3. \A S, T : PaidOf(b, S, T) \in Int
  BY PaidTyped DEF TaxedBook, Balanced
<1> HIDE DEF more
<1>4. more.left >= 0
  <2>1. b.left \in Int
    BY DEF TaxedBook, Balanced, Books
  <2> QED
    BY <1>2, <2>1
<1>5. 2 * PaidOf(more, {"small"}, STRING) <= money
  <2>1. PaidOf(more, {"small"}, STRING) = PaidOf(b, {"small"}, STRING)
    BY <1>2, <1>3
  <2> QED
    BY <2>1 DEF TaxedBook
<1>6. ASSUME NEW j \in 1..n
      PROVE  /\ PaidOf(more, Stages, {joining[j].id}) =
                  PaidOf(more, {"small", "relief"}, {joining[j].id})
             /\ PaidOf(more, Stages, {joining[j].id}) <= joining[j].deposit
  <2> DEFINE w == joining[j].id
  <2>1. /\ PaidOf(b, Stages, {w}) = PaidOf(b, {"small", "relief"}, {w})
        /\ PaidOf(b, Stages, {w}) <= joining[j].deposit
    BY DEF TaxedBook
  <2>2. /\ PaidOf(more, Stages, {w}) = PaidOf(b, Stages, {w}) + (IF to = w THEN amount ELSE 0)
        /\ PaidOf(more, {"small", "relief"}, {w}) =
             PaidOf(b, {"small", "relief"}, {w}) + (IF to = w THEN amount ELSE 0)
    <3>1. "relief" \in Stages /\ "relief" \in {"small", "relief"}
      BY DEF Stages
    <3> QED
      BY <1>2, <3>1
  <2>3. to = w => i = j
    BY <1>1
  <2>4. joining[j].deposit \in Int /\ PaidOf(b, Stages, {w}) \in Int
        /\ PaidOf(b, {"small", "relief"}, {w}) \in Int
    BY <1>1, <1>3
  <2>5. to = w => amount <= joining[j].deposit - PaidOf(b, {"small", "relief"}, {w})
    BY <2>3 DEF to
  <2> QED
    BY <2>1, <2>2, <2>4, <2>5
<1>7. ASSUME NEW w \in STRING, w \notin taxIds, \A j \in 1..n : w # joining[j].id
      PROVE  PaidOf(more, Stages, {w}) = 0
  <2>1. PaidOf(b, Stages, {w}) = 0
    BY <1>7 DEF TaxedBook
  <2>2. to \notin {w}
    BY <1>7 DEF to
  <2> QED
    BY <1>2, <2>1, <2>2
<1> QED
  BY <1>2, <1>4, <1>5, <1>6, <1>7 DEF TaxedBook, more, to

LEMMA PayOwnTax ==
  ASSUME NEW n, NEW joining, NEW taxIds, OwnIds(joining, n, taxIds), NEW money \in Int,
         NEW b, TaxedBook(b, joining, n, taxIds, money), NEW to \in taxIds,
         NEW amount \in Nat, amount <= b.left
  PROVE  TaxedBook(Pay(b, "tax", to, amount), joining, n, taxIds, money)
<1> DEFINE more == Pay(b, "tax", to, amount)
<1>1. to \in STRING /\ \A j \in 1..n : joining[j].id # to
  BY DEF OwnIds
<1>2. /\ Balanced(more, money) /\ more.left = b.left - amount
      /\ \A S, T : PaidOf(more, S, T) =
                    PaidOf(b, S, T) + (IF "tax" \in S /\ to \in T THEN amount ELSE 0)
  <2>1. "tax" \in Stages /\ Balanced(b, money)
    BY DEF Stages, TaxedBook
  <2> QED
    BY <1>1, <2>1, PayBalances
<1>3. \A S, T : PaidOf(b, S, T) \in Int
  BY PaidTyped DEF TaxedBook, Balanced
<1> HIDE DEF more
<1>4. more.left >= 0
  <2>1. b.left \in Int
    BY DEF TaxedBook, Balanced, Books
  <2> QED
    BY <1>2, <2>1
<1>5. \A S, T : to \notin T \/ "tax" \notin S => PaidOf(more, S, T) = PaidOf(b, S, T)
  BY <1>2, <1>3
<1>6. \A S : \A j \in 1..n : PaidOf(more, S, {joining[j].id}) = PaidOf(b, S, {joining[j].id})
  <2>1. \A j \in 1..n : to \notin {joining[j].id}
    BY <1>1
  <2> QED
    BY <1>5, <2>1
<1>7. PaidOf(more, {"small"}, STRING) = PaidOf(b, {"small"}, STRING)
  BY <1>5
<1>8. ASSUME NEW w \in STRING, w \notin taxIds, \A j \in 1..n : w # joining[j].id
      PROVE  PaidOf(more, Stages, {w}) = 0
  <2>1. PaidOf(b, Stages, {w}) = 0
    BY <1>8 DEF TaxedBook
  <2>2. to \notin {w}
    BY <1>8
  <2> QED
    BY <1>5, <2>1, <2>2
<1> QED
  BY <1>2, <1>4, <1>6, <1>7, <1>8 DEF TaxedBook, more

\* The tenants are relieved one after the other.
ReliefsFit(V, paid, tenants, n, tax) ==
  /\ n \in Nat /\ DOMAIN tenants = 1..n /\ paid \in V
  /\ \A v \in V, i \in 1..n : Relieved(v, tenants[i], tax) \in V
ReliefsRun(g, V, paid, tenants, n, tax) ==
  /\ g \in [0..n -> V] /\ g[0] = paid /\ g[n] = Relieve(paid, tenants, tax)
  /\ \A k \in 0..(n - 1) : g[k + 1] = Relieved(g[k], tenants[k + 1], tax)

LEMMA ReliefsInTurn ==
  ASSUME NEW V, NEW paid, NEW tenants, NEW n, NEW tax,
         ReliefsFit(V, paid, tenants, n, tax)
  PROVE  \E g : ReliefsRun(g, V, paid, tenants, n, tax)
<1> DEFINE D == 1..n
           steps == [p \in V \X D |-> Relieved(p[1], tenants[p[2]], tax)]
           Folds(h) == h = [s \in SUBSET D |-> IF s = {} THEN paid
                                               ELSE Relieved(h[s \ {Max(s)}], tenants[Max(s)], tax)]
           f == CHOOSE h : Folds(h)
<1>1. \A v \in V, i \in D : Relieved(v, tenants[i], tax) \in V
  BY DEF ReliefsFit
<1> n \in Nat /\ DOMAIN tenants = D /\ paid \in V
  BY DEF ReliefsFit
<1>2. Relieve(paid, tenants, tax) = f[D]
  BY DEF Relieve, FoldLeft, MapThenFoldSet
<1>3. steps \in [V \X D -> V] /\ \A v \in V, i \in D : steps[v, i] = Relieved(v, tenants[i], tax)
  BY <1>1
<1>4. PICK h \in [SUBSET D -> V] : FoldOver(steps, paid, D, h)
  <2> HIDE DEF steps
  <2> QED
    BY <1>3, FoldInside
<1>5. Folds(h)
  <2>1. ASSUME NEW s \in SUBSET D, s # {}
        PROVE  steps[h[s \ {Max(s)}], Max(s)] = Relieved(h[s \ {Max(s)}], tenants[Max(s)], tax)
    <3>1. Max(s) \in D /\ h[s \ {Max(s)}] \in V
      BY <2>1, LargestPlace
    <3> HIDE DEF steps
    <3> QED
      BY <1>3, <3>1
  <2> HIDE DEF steps
  <2> QED
    BY <1>4, <2>1 DEF FoldOver
<1>6. Folds(f)
  <2> HIDE DEF Folds
  <2> QED
    BY <1>5
<1>7. f[{}] = paid /\ \A s \in SUBSET D : s # {} =>
        f[s] = Relieved(f[s \ {Max(s)}], tenants[Max(s)], tax)
  <2> HIDE DEF f
  <2> QED
    BY <1>6
<1> HIDE DEF f, Folds, steps
<1>8. \A k \in 0..(n - 1) : f[1..(k + 1)] = Relieved(f[1..k], tenants[k + 1], tax)
  <2> TAKE k \in 0..(n - 1)
  <2>1. 1..(k + 1) \in SUBSET D /\ 1..(k + 1) # {} /\ Max(1..(k + 1)) = k + 1
        /\ (1..(k + 1)) \ {k + 1} = 1..k
    BY FirstPlaces
  <2> QED
    BY <1>7, <2>1
<1>9. \A k \in 0..n : f[1..k] \in V
  <2>1. ASSUME NEW k \in 0..(n - 1), f[1..k] \in V PROVE f[1..(k + 1)] \in V
    <3>1. k + 1 \in D
      OBVIOUS
    <3> QED
      BY <1>1, <1>8, <2>1, <3>1
  <2>2. f[{}] \in V
    BY <1>7
  <2> QED
    BY <2>1, <2>2, EachPlace
<1> DEFINE g == [k \in 0..n |-> f[1..k]]
<1>10. g \in [0..n -> V] /\ g[0] = paid /\ g[n] = Relieve(paid, tenants, tax)
  <2>1. 1..0 = {} /\ 0 \in 0..n /\ n \in 0..n
    OBVIOUS
  <2> QED
    BY <1>2, <1>7, <1>9, <2>1
<1>11. \A k \in 0..(n - 1) : g[k + 1] = Relieved(g[k], tenants[k + 1], tax)
  <2>1. \A k \in 0..(n - 1) : k \in 0..n /\ k + 1 \in 0..n
    OBVIOUS
  <2> QED
    BY <1>8, <2>1
<1> QED
  BY <1>10, <1>11 DEF ReliefsRun

\* The taxes are paid one after the other.
TaxesFit(V, book, taxes, n, tenants, reliefApplies) ==
  /\ n \in Nat /\ DOMAIN taxes = 1..n /\ book \in V
  /\ \A v \in V, i \in 1..n : PayTax(v, taxes[i], tenants, reliefApplies) \in V
TaxesRun(g, V, book, taxes, n, tenants, reliefApplies) ==
  /\ g \in [0..n -> V] /\ g[0] = book /\ g[n] = PayTaxes(book, taxes, tenants, reliefApplies)
  /\ \A k \in 0..(n - 1) : g[k + 1] = PayTax(g[k], taxes[k + 1], tenants, reliefApplies)

LEMMA TaxesInTurn ==
  ASSUME NEW V, NEW book, NEW taxes, NEW n, NEW tenants, NEW reliefApplies,
         TaxesFit(V, book, taxes, n, tenants, reliefApplies)
  PROVE  \E g : TaxesRun(g, V, book, taxes, n, tenants, reliefApplies)
<1> DEFINE D == 1..n
           steps == [p \in V \X D |-> PayTax(p[1], taxes[p[2]], tenants, reliefApplies)]
           Folds(h) == h = [s \in SUBSET D |-> IF s = {} THEN book
                                               ELSE PayTax(h[s \ {Max(s)}], taxes[Max(s)], tenants, reliefApplies)]
           f == CHOOSE h : Folds(h)
<1>1. \A v \in V, i \in D : PayTax(v, taxes[i], tenants, reliefApplies) \in V
  BY DEF TaxesFit
<1> n \in Nat /\ DOMAIN taxes = D /\ book \in V
  BY DEF TaxesFit
<1>2. PayTaxes(book, taxes, tenants, reliefApplies) = f[D]
  BY DEF PayTaxes, FoldLeft, MapThenFoldSet
<1>3. steps \in [V \X D -> V] /\ \A v \in V, i \in D : steps[v, i] = PayTax(v, taxes[i], tenants, reliefApplies)
  BY <1>1
<1>4. PICK h \in [SUBSET D -> V] : FoldOver(steps, book, D, h)
  <2> HIDE DEF steps
  <2> QED
    BY <1>3, FoldInside
<1>5. Folds(h)
  <2>1. ASSUME NEW s \in SUBSET D, s # {}
        PROVE  steps[h[s \ {Max(s)}], Max(s)] = PayTax(h[s \ {Max(s)}], taxes[Max(s)], tenants, reliefApplies)
    <3>1. Max(s) \in D /\ h[s \ {Max(s)}] \in V
      BY <2>1, LargestPlace
    <3> HIDE DEF steps
    <3> QED
      BY <1>3, <3>1
  <2> HIDE DEF steps
  <2> QED
    BY <1>4, <2>1 DEF FoldOver
<1>6. Folds(f)
  <2> HIDE DEF Folds
  <2> QED
    BY <1>5
<1>7. f[{}] = book /\ \A s \in SUBSET D : s # {} =>
        f[s] = PayTax(f[s \ {Max(s)}], taxes[Max(s)], tenants, reliefApplies)
  <2> HIDE DEF f
  <2> QED
    BY <1>6
<1> HIDE DEF f, Folds, steps
<1>8. \A k \in 0..(n - 1) : f[1..(k + 1)] = PayTax(f[1..k], taxes[k + 1], tenants, reliefApplies)
  <2> TAKE k \in 0..(n - 1)
  <2>1. 1..(k + 1) \in SUBSET D /\ 1..(k + 1) # {} /\ Max(1..(k + 1)) = k + 1
        /\ (1..(k + 1)) \ {k + 1} = 1..k
    BY FirstPlaces
  <2> QED
    BY <1>7, <2>1
<1>9. \A k \in 0..n : f[1..k] \in V
  <2>1. ASSUME NEW k \in 0..(n - 1), f[1..k] \in V PROVE f[1..(k + 1)] \in V
    <3>1. k + 1 \in D
      OBVIOUS
    <3> QED
      BY <1>1, <1>8, <2>1, <3>1
  <2>2. f[{}] \in V
    BY <1>7
  <2> QED
    BY <2>1, <2>2, EachPlace
<1> DEFINE g == [k \in 0..n |-> f[1..k]]
<1>10. g \in [0..n -> V] /\ g[0] = book /\ g[n] = PayTaxes(book, taxes, tenants, reliefApplies)
  <2>1. 1..0 = {} /\ 0 \in 0..n /\ n \in 0..n
    OBVIOUS
  <2> QED
    BY <1>2, <1>7, <1>9, <2>1
<1>11. \A k \in 0..(n - 1) : g[k + 1] = PayTax(g[k], taxes[k + 1], tenants, reliefApplies)
  <2>1. \A k \in 0..(n - 1) : k \in 0..n /\ k + 1 \in 0..n
    OBVIOUS
  <2> QED
    BY <1>8, <2>1
<1> QED
  BY <1>10, <1>11 DEF TaxesRun

LEMMA RelieveKeeps ==
  ASSUME NEW n, NEW joining, NEW taxIds, OwnIds(joining, n, taxIds), NEW money \in Int,
         NEW b, TaxedBook(b, joining, n, taxIds, money), NEW due \in Nat, NEW tax
  PROVE  LET r == Relieve([book |-> b, due |-> due], joining, tax) IN
         TaxedBook(r.book, joining, n, taxIds, money) /\ r.due \in Nat
<1> DEFINE V == {r \in [book : Books(STRING), due : Nat] : TaxedBook(r.book, joining, n, taxIds, money)}
           start == [book |-> b, due |-> due]
<1>1. n \in Nat /\ DOMAIN joining = 1..n /\ joining \in [1..n -> Tenants]
  BY DEF OwnIds
<1>2. start \in V
  BY DEF TaxedBook, Balanced
<1>3. ASSUME NEW v \in V, NEW i \in 1..n PROVE Relieved(v, joining[i], tax) \in V
  <2> DEFINE t == joining[i]
             amount == Relief(v.book, t, tax, v.due)
             claim == t.deposit - PaidOf(v.book, {"small", "relief"}, {t.id})
  <2>1. v.book \in Books(STRING) /\ v.due \in Nat /\ TaxedBook(v.book, joining, n, taxIds, money)
    OBVIOUS
  <2>2. v.book.left \in Int /\ v.book.left >= 0
    BY <2>1 DEF TaxedBook, Books
  <2>3. t.deposit \in Nat /\ t.id \in STRING
    BY <1>1 DEF Tenants
  <2>4. PaidOf(v.book, {"small", "relief"}, {t.id}) \in Int
        /\ Received(v.book, {"small", "relief"}, t.id) = PaidOf(v.book, {"small", "relief"}, {t.id})
    BY <2>1, PaidTyped, ReceivedIsPaid
  <2> HIDE DEF V
  <2>5. amount \in Nat /\ amount <= v.due /\ amount <= v.book.left /\ (amount > 0 => amount <= claim)
    BY <2>1, <2>2, <2>3, <2>4 DEF Relief, Least
  <2> HIDE DEF amount, claim
  <2>6. CASE amount > 0
    <3> DEFINE more == Pay(v.book, "relief", t.id, amount)
    <3>1. TaxedBook(more, joining, n, taxIds, money)
      BY <2>1, <2>5, <2>6, PayRelief DEF claim
    <3>2. more \in Books(STRING)
      BY <3>1 DEF TaxedBook, Balanced
    <3>3. v.due - amount \in Nat
      BY <2>1, <2>5
    <3>4. Relieved(v, t, tax) = [book |-> more, due |-> v.due - amount]
      BY <2>6 DEF Relieved, amount
    <3> HIDE DEF more
    <3> QED
      BY <3>1, <3>2, <3>3, <3>4 DEF V
  <2>7. CASE ~(amount > 0)
    BY <2>7 DEF Relieved, amount
  <2> QED
    BY <2>6, <2>7
<1>4. ReliefsFit(V, start, joining, n, tax)
  <2> HIDE DEF V, start
  <2> QED
    BY <1>1, <1>2, <1>3 DEF ReliefsFit
<1> HIDE DEF V, start
<1>5. PICK g : ReliefsRun(g, V, start, joining, n, tax)
  BY <1>4, ReliefsInTurn
<1>6. Relieve(start, joining, tax) \in V
  <2>1. n \in 0..n
    BY <1>1
  <2> QED
    BY <1>5, <2>1 DEF ReliefsRun
<1> QED
  BY <1>6 DEF V, start

LEMMA PayTaxKeeps ==
  ASSUME NEW n, NEW joining, NEW taxIds, OwnIds(joining, n, taxIds), NEW money \in Int,
         NEW b, TaxedBook(b, joining, n, taxIds, money), NEW tax \in TaxRows, tax.id \in taxIds,
         NEW applies
  PROVE  TaxedBook(PayTax(b, tax, joining, applies), joining, n, taxIds, money)
<1>1. CASE ~(tax.property /\ tax.amount # Absent)
  BY <1>1 DEF PayTax
<1>2. CASE tax.property /\ tax.amount # Absent
  <2>1. tax.amount \in Nat
    BY <1>2 DEF TaxRows, OptionalAmount
  <2> DEFINE start == [book |-> b, due |-> tax.amount]
             paid == IF applies THEN Relieve(start, joining, tax) ELSE start
             rest == Least(paid.book.left, paid.due)
  <2>2. TaxedBook(paid.book, joining, n, taxIds, money) /\ paid.due \in Nat
    BY <2>1, RelieveKeeps
  <2>3. PayTax(b, tax, joining, applies) =
        IF rest > 0 THEN Pay(paid.book, "tax", tax.id, rest) ELSE paid.book
    BY <1>2 DEF PayTax, PayPropertyTax, PayTaxItself
  <2> HIDE DEF paid
  <2>4. paid.book.left \in Int /\ paid.book.left >= 0
    BY <2>2 DEF TaxedBook, Balanced, Books
  <2>5. rest \in Nat /\ rest <= paid.book.left
    BY <2>2, <2>4 DEF Least
  <2> HIDE DEF rest
  <2> QED
    BY <2>2, <2>3, <2>5, PayOwnTax
<1> QED
  BY <1>1, <1>2

LEMMA TaxStage ==
  ASSUME NEW n, NEW joining, NEW taxIds, OwnIds(joining, n, taxIds), NEW money \in Int,
         NEW b, TaxedBook(b, joining, n, taxIds, money), NEW m \in Nat,
         NEW taxes \in [1..m -> TaxRows], \A i \in 1..m : taxes[i].id \in taxIds, NEW applies
  PROVE  TaxedBook(PayTaxes(b, taxes, joining, applies), joining, n, taxIds, money)
<1> DEFINE V == {v \in Books(STRING) : TaxedBook(v, joining, n, taxIds, money)}
<1>1. \A v \in V, i \in 1..m : PayTax(v, taxes[i], joining, applies) \in V
  <2> TAKE v \in V, i \in 1..m
  <2>1. taxes[i] \in TaxRows /\ taxes[i].id \in taxIds
    OBVIOUS
  <2>2. TaxedBook(PayTax(v, taxes[i], joining, applies), joining, n, taxIds, money)
    BY <2>1, PayTaxKeeps
  <2> QED
    BY <2>2 DEF TaxedBook, Balanced
<1>2. b \in V
  BY DEF TaxedBook, Balanced
<1> HIDE DEF V
<1>3. TaxesFit(V, b, taxes, m, joining, applies)
  BY <1>1, <1>2 DEF TaxesFit
<1>4. PICK g : TaxesRun(g, V, b, taxes, m, joining, applies)
  BY <1>3, TaxesInTurn
<1>5. PayTaxes(b, taxes, joining, applies) \in V
  <2>1. m \in 0..m
    OBVIOUS
  <2> QED
    BY <1>4, <2>1 DEF TaxesRun
<1> QED
  BY <1>5 DEF V

-----------------------------------------------------------------------------
\* The third stage: the claims by rank.

ClaimRows == [to : STRING, date : Dates, amount : Nat]
ClaimedAt(claims, w) == [i \in 1..Len(claims) |-> IF claims[i].to = w THEN claims[i].amount ELSE 0]
ClaimedBy(claims, w) == SumIn(ClaimedAt(claims, w), Len(claims), 1..Len(claims))

LEMMA ClaimsTyped ==
  ASSUME NEW claims \in Seq(ClaimRows), NEW w
  PROVE  /\ Len(claims) \in Nat /\ DOMAIN claims = 1..Len(claims)
         /\ claims \in [1..Len(claims) -> ClaimRows]
         /\ ClaimedAt(claims, w) \in [1..Len(claims) -> Nat]
         /\ ClaimedAt(claims, w) \in [1..Len(claims) -> Int]
         /\ ClaimedBy(claims, w) \in Nat
<1>1. Len(claims) \in Nat /\ claims \in [1..Len(claims) -> ClaimRows]
  OBVIOUS
<1>2. \A i \in 1..Len(claims) : claims[i].amount \in Nat
  BY <1>1 DEF ClaimRows
<1>3. ClaimedAt(claims, w) \in [1..Len(claims) -> Nat]
  BY <1>2 DEF ClaimedAt
<1>4. ClaimedAt(claims, w) \in [1..Len(claims) -> Int]
  BY <1>3
<1>5. ClaimedBy(claims, w) \in Nat
  <2>1. Len(claims) <= Len(claims)
    BY <1>1
  <2> QED
    BY <1>1, <1>3, <2>1, SumOfNaturals DEF ClaimedBy
<1> QED
  BY <1>1, <1>3, <1>4, <1>5

LEMMA NoClaims ==
  << >> \in Seq(ClaimRows) /\ \A w : ClaimedBy(<< >>, w) = 0
<1>1. << >> \in Seq(ClaimRows) /\ Len(<< >>) = 0
  OBVIOUS
<1>2. ASSUME NEW w PROVE ClaimedBy(<< >>, w) = 0
  <2>1. ClaimedAt(<< >>, w) \in [1..0 -> Int]
    BY <1>1, ClaimsTyped
  <2>2. SumIn(ClaimedAt(<< >>, w), 0, 1..0) = 0
    BY <2>1, SumSteps
  <2> QED
    BY <1>1, <2>2 DEF ClaimedBy
<1> QED
  BY <1>1, <1>2

\* One claim after others, and two lists of claims.
LEMMA ClaimsInARow ==
  ASSUME NEW claims \in Seq(ClaimRows), NEW more \in Seq(ClaimRows)
  PROVE  /\ claims \o more \in Seq(ClaimRows)
         /\ \A w : ClaimedBy(claims \o more, w) = ClaimedBy(claims, w) + ClaimedBy(more, w)
<1> DEFINE n == Len(claims)
           m == Len(more)
           both == claims \o more
<1>1. /\ both \in Seq(ClaimRows) /\ Len(both) = n + m /\ n \in Nat /\ m \in Nat
      /\ \A i \in 1..n : both[i] = claims[i]
      /\ \A j \in 1..m : both[n + j] = more[j]
  OBVIOUS
<1> HIDE DEF both
<1>2. ASSUME NEW w PROVE ClaimedBy(both, w) = ClaimedBy(claims, w) + ClaimedBy(more, w)
  <2> DEFINE c == ClaimedAt(both, w)
             a == ClaimedAt(claims, w)
             b == ClaimedAt(more, w)
  <2>1. a \in [1..n -> Int] /\ b \in [1..m -> Int] /\ c \in [1..(n + m) -> Int]
    BY <1>1, ClaimsTyped
  <2>2. InTurn(c, a, n, b, m)
    <3>1. \A i \in 1..n : i \in 1..(n + m)
      BY <1>1
    <3>2. \A j \in 1..m : n + j \in 1..(n + m)
      BY <1>1
    <3>3. \A i \in 1..n : c[i] = a[i]
      BY <1>1, <3>1 DEF ClaimedAt
    <3>4. \A j \in 1..m : c[n + j] = b[j]
      BY <1>1, <3>2 DEF ClaimedAt
    <3> HIDE DEF a, b, c
    <3> QED
      BY <1>1, <2>1, <3>3, <3>4 DEF InTurn
  <2> HIDE DEF a, b, c, n, m
  <2>3. SumIn(c, n + m, 1..(n + m)) = SumIn(a, n, 1..n) + SumIn(b, m, 1..m)
    BY <2>2, SumOfTwo
  <2> QED
    BY <1>1, <2>3 DEF ClaimedBy, a, b, c, n, m
<1> QED
  BY <1>1, <1>2 DEF both

LEMMA OneClaim ==
  ASSUME NEW to \in STRING, NEW date \in Dates, NEW amount \in Nat
  PROVE  /\ << Claim(to, date, amount) >> \in Seq(ClaimRows)
         /\ \A w : ClaimedBy(<< Claim(to, date, amount) >>, w) = IF to = w THEN amount ELSE 0
<1> DEFINE one == << Claim(to, date, amount) >>
<1>1. one \in Seq(ClaimRows) /\ Len(one) = 1 /\ one[1] = Claim(to, date, amount)
  BY DEF Claim, ClaimRows
<1> HIDE DEF one
<1>2. ASSUME NEW w PROVE ClaimedBy(one, w) = IF to = w THEN amount ELSE 0
  <2> DEFINE a == ClaimedAt(one, w)
  <2>1. a \in [1..1 -> Int] /\ a[1] = IF to = w THEN amount ELSE 0
    BY <1>1, ClaimsTyped DEF ClaimedAt, Claim
  <2>2. \A i \in 1..1 : i # 1 => a[i] = 0
    OBVIOUS
  <2> HIDE DEF a
  <2>3. SumIn(a, 1, 1..1) = a[1]
    <3>1. 1 \in 0..1 /\ 1 \in 1..1 /\ 1 \in Nat
      OBVIOUS
    <3> QED
      BY <2>1, <2>2, <3>1, SumOfOne
  <2> QED
    BY <1>1, <2>1, <2>3 DEF ClaimedBy, a
<1> QED
  BY <1>1, <1>2 DEF one

LEMMA ClaimMore ==
  ASSUME NEW claims \in Seq(ClaimRows), NEW to \in STRING, NEW date \in Dates, NEW amount \in Nat
  PROVE  /\ Append(claims, Claim(to, date, amount)) \in Seq(ClaimRows)
         /\ \A w : ClaimedBy(Append(claims, Claim(to, date, amount)), w) =
                    ClaimedBy(claims, w) + (IF to = w THEN amount ELSE 0)
<1> DEFINE one == << Claim(to, date, amount) >>
<1>1. one \in Seq(ClaimRows) /\ \A w : ClaimedBy(one, w) = IF to = w THEN amount ELSE 0
  BY OneClaim
<1>2. Append(claims, Claim(to, date, amount)) = claims \o one
  <2>1. Claim(to, date, amount) \in ClaimRows
    BY DEF Claim, ClaimRows
  <2> QED
    BY <2>1, AppendIsConcat
<1> HIDE DEF one
<1>3. /\ claims \o one \in Seq(ClaimRows)
      /\ \A w : ClaimedBy(claims \o one, w) = ClaimedBy(claims, w) + ClaimedBy(one, w)
  BY <1>1, ClaimsInARow
<1> QED
  BY <1>1, <1>2, <1>3

\* Sorting changes no sum.
InOrder(b, a, dates, n) ==
  /\ n \in Nat /\ dates \in [1..n -> Dates] /\ a \in [1..n -> Int]
  /\ b = [k \in 1..n |-> a[Ranked(dates, k)]]

LEMMA SumSorted ==
  ASSUME NEW n, NEW dates, NEW a, NEW b, InOrder(b, a, dates, n)
  PROVE  SumIn(b, n, 1..n) = SumIn(a, n, 1..n)
<1> DEFINE p == [k \in 1..n |-> Ranked(dates, k)]
<1>1. Permutes(p, n)
  BY SortingPermutes DEF InOrder
<1>2. b = [k \in 1..n |-> a[p[k]]] /\ n \in Nat /\ a \in [1..n -> Int]
  BY DEF InOrder
<1> HIDE DEF p
<1>3. Rearranged(b, a, p, n)
  BY <1>1, <1>2 DEF Rearranged
<1> QED
  BY <1>3, SumPermuted

LEMMA RankOfClaims ==
  ASSUME NEW claims \in Seq(ClaimRows)
  PROVE  /\ ByRank(claims) \in Seq(ClaimRows)
         /\ \A w : ClaimedBy(ByRank(claims), w) = ClaimedBy(claims, w)
<1> DEFINE n == Len(claims)
           dates == [i \in 1..n |-> claims[i].date]
           sorted == ByRank(claims)
           p == [k \in 1..n |-> Ranked(dates, k)]
<1>1. n \in Nat /\ DOMAIN claims = 1..n /\ claims \in [1..n -> ClaimRows]
  OBVIOUS
<1>2. dates \in [1..n -> Dates]
  BY <1>1 DEF ClaimRows
<1>3. sorted = [k \in 1..n |-> claims[Ranked(dates, k)]]
  BY <1>1 DEF ByRank, SortedBy
<1> HIDE DEF sorted, dates
<1>4. \A k \in 1..n : Ranked(dates, k) \in 1..n
  <2>1. Permutes(p, n)
    BY <1>1, <1>2, SortingPermutes
  <2> QED
    BY <2>1 DEF Permutes
<1>5. sorted \in [1..n -> ClaimRows] /\ sorted \in Seq(ClaimRows) /\ Len(sorted) = n
  <2>1. sorted \in [1..n -> ClaimRows]
    BY <1>1, <1>3, <1>4
  <2> QED
    BY <1>1, <2>1
<1>6. ASSUME NEW w PROVE ClaimedBy(sorted, w) = ClaimedBy(claims, w)
  <2> DEFINE a == ClaimedAt(claims, w)
             b == ClaimedAt(sorted, w)
  <2>1. a \in [1..n -> Int]
    BY ClaimsTyped
  <2>2. b = [k \in 1..n |-> a[Ranked(dates, k)]]
    BY <1>3, <1>4, <1>5 DEF ClaimedAt
  <2> HIDE DEF a, b, n
  <2>3. SumIn(b, n, 1..n) = SumIn(a, n, 1..n)
    <3>1. InOrder(b, a, dates, n)
      BY <1>1, <1>2, <2>1, <2>2 DEF InOrder
    <3> QED
      BY <3>1, SumSorted
  <2> QED
    BY <1>5, <2>3 DEF ClaimedBy, a, b, n
<1> QED
  BY <1>5, <1>6 DEF sorted

\* The parts of a deposit are claimed one after the other.
PartsFit(V, acc, parts, n, tenant) ==
  /\ n \in Nat /\ DOMAIN parts = 1..n /\ acc \in V
  /\ \A v \in V, i \in 1..n : ClaimPart(v, parts[i], tenant) \in V
PartsRun(g, V, acc, parts, n, tenant) ==
  /\ g \in [0..n -> V] /\ g[0] = acc /\ g[n] = ClaimParts(acc, parts, tenant)
  /\ \A k \in 0..(n - 1) : g[k + 1] = ClaimPart(g[k], parts[k + 1], tenant)

LEMMA PartsInTurn ==
  ASSUME NEW V, NEW acc, NEW parts, NEW n, NEW tenant,
         PartsFit(V, acc, parts, n, tenant)
  PROVE  \E g : PartsRun(g, V, acc, parts, n, tenant)
<1> DEFINE D == 1..n
           steps == [p \in V \X D |-> ClaimPart(p[1], parts[p[2]], tenant)]
           Folds(h) == h = [s \in SUBSET D |-> IF s = {} THEN acc
                                               ELSE ClaimPart(h[s \ {Max(s)}], parts[Max(s)], tenant)]
           f == CHOOSE h : Folds(h)
<1>1. \A v \in V, i \in D : ClaimPart(v, parts[i], tenant) \in V
  BY DEF PartsFit
<1> n \in Nat /\ DOMAIN parts = D /\ acc \in V
  BY DEF PartsFit
<1>2. ClaimParts(acc, parts, tenant) = f[D]
  BY DEF ClaimParts, FoldLeft, MapThenFoldSet
<1>3. steps \in [V \X D -> V] /\ \A v \in V, i \in D : steps[v, i] = ClaimPart(v, parts[i], tenant)
  BY <1>1
<1>4. PICK h \in [SUBSET D -> V] : FoldOver(steps, acc, D, h)
  <2> HIDE DEF steps
  <2> QED
    BY <1>3, FoldInside
<1>5. Folds(h)
  <2>1. ASSUME NEW s \in SUBSET D, s # {}
        PROVE  steps[h[s \ {Max(s)}], Max(s)] = ClaimPart(h[s \ {Max(s)}], parts[Max(s)], tenant)
    <3>1. Max(s) \in D /\ h[s \ {Max(s)}] \in V
      BY <2>1, LargestPlace
    <3> HIDE DEF steps
    <3> QED
      BY <1>3, <3>1
  <2> HIDE DEF steps
  <2> QED
    BY <1>4, <2>1 DEF FoldOver
<1>6. Folds(f)
  <2> HIDE DEF Folds
  <2> QED
    BY <1>5
<1>7. f[{}] = acc /\ \A s \in SUBSET D : s # {} =>
        f[s] = ClaimPart(f[s \ {Max(s)}], parts[Max(s)], tenant)
  <2> HIDE DEF f
  <2> QED
    BY <1>6
<1> HIDE DEF f, Folds, steps
<1>8. \A k \in 0..(n - 1) : f[1..(k + 1)] = ClaimPart(f[1..k], parts[k + 1], tenant)
  <2> TAKE k \in 0..(n - 1)
  <2>1. 1..(k + 1) \in SUBSET D /\ 1..(k + 1) # {} /\ Max(1..(k + 1)) = k + 1
        /\ (1..(k + 1)) \ {k + 1} = 1..k
    BY FirstPlaces
  <2> QED
    BY <1>7, <2>1
<1>9. \A k \in 0..n : f[1..k] \in V
  <2>1. ASSUME NEW k \in 0..(n - 1), f[1..k] \in V PROVE f[1..(k + 1)] \in V
    <3>1. k + 1 \in D
      OBVIOUS
    <3> QED
      BY <1>1, <1>8, <2>1, <3>1
  <2>2. f[{}] \in V
    BY <1>7
  <2> QED
    BY <2>1, <2>2, EachPlace
<1> DEFINE g == [k \in 0..n |-> f[1..k]]
<1>10. g \in [0..n -> V] /\ g[0] = acc /\ g[n] = ClaimParts(acc, parts, tenant)
  <2>1. 1..0 = {} /\ 0 \in 0..n /\ n \in 0..n
    OBVIOUS
  <2> QED
    BY <1>2, <1>7, <1>9, <2>1
<1>11. \A k \in 0..(n - 1) : g[k + 1] = ClaimPart(g[k], parts[k + 1], tenant)
  <2>1. \A k \in 0..(n - 1) : k \in 0..n /\ k + 1 \in 0..n
    OBVIOUS
  <2> QED
    BY <1>8, <2>1
<1> QED
  BY <1>10, <1>11 DEF PartsRun

\* What was received comes off the parts, and the rest of them is claimed.
PartsClaimed(acc, sum, received, to) ==
  /\ acc.offset \in Nat /\ acc.claims \in Seq(ClaimRows)
  /\ \A w : w # to => ClaimedBy(acc.claims, w) = 0
  /\ \/ acc.offset = 0 /\ ClaimedBy(acc.claims, to) <= sum - received
     \/ acc.offset = received - sum /\ ClaimedBy(acc.claims, to) = 0

LEMMA ClaimOnePart ==
  ASSUME NEW acc, NEW sum \in Nat, NEW received \in Nat, NEW tenant \in Tenants,
         PartsClaimed(acc, sum, received, tenant.id), NEW part \in Parts
  PROVE  PartsClaimed(ClaimPart(acc, part, tenant), sum + part.amount, received, tenant.id)
<1> DEFINE to == tenant.id
           offset == Least(acc.offset, part.amount)
           rest == part.amount - offset
           date == Most(part.fixed, PossessionDate(tenant))
           claim == rest > 0 /\ part.fixed # Absent
           claims == IF claim THEN Append(acc.claims, Claim(to, date, rest)) ELSE acc.claims
           next == ClaimPart(acc, part, tenant)
<1>1. /\ part.amount \in Nat /\ part.fixed \in Dates /\ to \in STRING /\ tenant.moveIn \in Int
      /\ acc.offset \in Nat /\ acc.claims \in Seq(ClaimRows)
  BY DEF Parts, Tenants, PartsClaimed
<1>2. next.offset = acc.offset - offset /\ next.claims = claims
  BY DEF ClaimPart
<1>3. offset \in Nat /\ rest \in Nat /\ acc.offset - offset \in Nat
      /\ (acc.offset < part.amount => offset = acc.offset)
      /\ (acc.offset >= part.amount => offset = part.amount /\ rest = 0)
  BY <1>1 DEF Least
<1>4. claim => date \in Dates
  BY <1>1 DEF Most, PossessionDate, Dates
<1> HIDE DEF next, offset, date, to
<1>5. ClaimedBy(acc.claims, to) \in Nat
  BY <1>1, ClaimsTyped
<1>6. /\ claims \in Seq(ClaimRows)
      /\ \A w : w # to => ClaimedBy(claims, w) = 0
      /\ ClaimedBy(claims, to) = ClaimedBy(acc.claims, to) + (IF claim THEN rest ELSE 0)
  <2>1. \A w : w # to => ClaimedBy(acc.claims, w) = 0
    BY DEF PartsClaimed, to
  <2>2. CASE claim
    <3> DEFINE more == Append(acc.claims, Claim(to, date, rest))
    <3> HIDE DEF rest
    <3>1. /\ more \in Seq(ClaimRows)
          /\ \A w : ClaimedBy(more, w) = ClaimedBy(acc.claims, w) + (IF to = w THEN rest ELSE 0)
      BY <1>1, <1>3, <1>4, <2>2, ClaimMore DEF rest
    <3>2. claims = more
      BY <2>2
    <3> HIDE DEF more, claims
    <3>3. \A w : w # to => ClaimedBy(more, w) = 0
      BY <2>1, <3>1
    <3> QED
      BY <1>5, <2>2, <3>1, <3>2, <3>3
  <2>3. CASE ~claim
    <3>1. claims = acc.claims
      BY <2>3
    <3> HIDE DEF claims
    <3> QED
      BY <1>1, <1>5, <2>1, <2>3, <3>1
  <2> QED
    BY <2>2, <2>3
<1> HIDE DEF claims
<1>7. \/ acc.offset = 0 /\ ClaimedBy(acc.claims, to) <= sum - received
      \/ acc.offset = received - sum /\ ClaimedBy(acc.claims, to) = 0
  BY DEF PartsClaimed, to
<1>8. (IF claim THEN rest ELSE 0) \in Nat /\ (IF claim THEN rest ELSE 0) <= rest
  BY <1>3
<1> DEFINE claimed == IF claim THEN rest ELSE 0
<1>9. \/ next.offset = 0 /\ ClaimedBy(next.claims, to) <= (sum + part.amount) - received
      \/ next.offset = received - (sum + part.amount) /\ ClaimedBy(next.claims, to) = 0
  <2>1. claimed \in Nat /\ claimed <= part.amount - offset
        /\ ClaimedBy(claims, to) = ClaimedBy(acc.claims, to) + claimed
    BY <1>6, <1>8
  <2> HIDE DEF claimed
  <2>2. CASE acc.offset < part.amount
    <3>1. offset = acc.offset
      BY <1>3, <2>2
    <3> QED
      BY <1>1, <1>2, <1>5, <1>7, <2>1, <3>1
  <2>3. CASE acc.offset >= part.amount
    <3>1. offset = part.amount
      BY <1>3, <2>3
    <3> QED
      BY <1>1, <1>2, <1>5, <1>7, <2>1, <2>3, <3>1
  <2> QED
    BY <1>1, <2>2, <2>3
<1> QED
  BY <1>2, <1>3, <1>6, <1>9 DEF PartsClaimed, next, to

AmountsOf(parts, m) == [i \in 1..m |-> parts[i].amount]

LEMMA TranchesOf ==
  ASSUME NEW tenant \in Tenants, ~Mismatched(tenant)
  PROVE  \E m \in Nat : /\ Tranches(tenant) \in [1..m -> Parts]
                        /\ AmountsOf(Tranches(tenant), m) \in [1..m -> Nat]
                        /\ SumIn(AmountsOf(Tranches(tenant), m), m, 1..m) = tenant.deposit
<1>1. tenant.deposit \in Nat /\ tenant.fixed \in Dates /\ tenant.tranches \in Seq(Parts)
  BY DEF Tenants
<1>2. CASE tenant.tranches = << >>
  <2> DEFINE parts == Tranches(tenant)
             a == AmountsOf(parts, 1)
  <2>1. parts \in [1..1 -> Parts] /\ parts[1].amount = tenant.deposit
    BY <1>1, <1>2 DEF Tranches, Parts
  <2> HIDE DEF parts
  <2>2. a \in [1..1 -> Nat] /\ a \in [1..1 -> Int] /\ a[1] = tenant.deposit
        /\ \A i \in 1..1 : i # 1 => a[i] = 0
    BY <1>1, <2>1 DEF AmountsOf
  <2> HIDE DEF a
  <2>3. SumIn(a, 1, 1..1) = a[1]
    <3>1. 1 \in 0..1 /\ 1 \in 1..1 /\ 1 \in Nat
      OBVIOUS
    <3> QED
      BY <2>2, <3>1, SumOfOne
  <2>4. 1 \in Nat
    OBVIOUS
  <2> QED
    BY <2>1, <2>2, <2>3, <2>4 DEF parts, a
<1>3. CASE tenant.tranches # << >>
  <2> DEFINE parts == tenant.tranches
             n == Len(parts)
             dates == [i \in 1..n |-> parts[i].fixed]
             a == AmountsOf(parts, n)
             sorted == Tranches(tenant)
             b == AmountsOf(sorted, n)
             p == [k \in 1..n |-> Ranked(dates, k)]
  <2>1. n \in Nat /\ DOMAIN parts = 1..n /\ parts \in [1..n -> Parts]
    BY <1>1
  <2>2. dates \in [1..n -> Dates] /\ a \in [1..n -> Nat] /\ a \in [1..n -> Int]
    BY <2>1 DEF Parts, AmountsOf
  <2>3. sorted = [k \in 1..n |-> parts[Ranked(dates, k)]]
    BY <1>3, <2>1 DEF Tranches, ByFixedDate, SortedBy
  <2>4. SumAll(a) = tenant.deposit
    <3>1. a = [i \in DOMAIN parts |-> parts[i].amount]
      BY <2>1 DEF AmountsOf
    <3>2. SumOf(parts, LAMBDA part : part.amount) = SumAll(a)
      BY <3>1 DEF SumOf
    <3> QED
      BY <1>3, <3>1 DEF Mismatched, SumOf
  <2> HIDE DEF sorted, dates, a, n
  <2>5. \A k \in 1..n : Ranked(dates, k) \in 1..n
    <3>1. Permutes(p, n)
      BY <2>1, <2>2, SortingPermutes
    <3> QED
      BY <3>1 DEF Permutes
  <2>6. sorted \in [1..n -> Parts]
    BY <2>1, <2>3, <2>5
  <2>7. b = [k \in 1..n |-> a[Ranked(dates, k)]]
    BY <2>3, <2>5 DEF AmountsOf, a
  <2>8. b \in [1..n -> Nat]
    BY <2>2, <2>5, <2>7
  <2> HIDE DEF b
  <2>9. SumIn(b, n, 1..n) = SumIn(a, n, 1..n)
    <3>1. InOrder(b, a, dates, n)
      BY <2>1, <2>2, <2>7 DEF InOrder
    <3> QED
      BY <3>1, SumSorted
  <2>10. SumIn(a, n, 1..n) = tenant.deposit
    BY <2>1, <2>2, <2>4, SumAllIs
  <2> QED
    BY <2>1, <2>6, <2>8, <2>9, <2>10 DEF sorted, b
<1> QED
  BY <1>2, <1>3

\* A tenant claims at most what is left of the deposit.
LEMMA TenantClaimsTyped ==
  ASSUME NEW tenant \in Tenants, ~Mismatched(tenant), NEW received \in Nat,
         received <= tenant.deposit
  PROVE  /\ TenantClaims(tenant, received) \in Seq(ClaimRows)
         /\ ClaimedBy(TenantClaims(tenant, received), tenant.id) <= tenant.deposit - received
         /\ \A w : w # tenant.id => ClaimedBy(TenantClaims(tenant, received), w) = 0
<1> DEFINE parts == Tranches(tenant)
           start == [offset |-> received, claims |-> << >>]
           V == [offset : Int, claims : Seq(ClaimRows)]
<1>1. PICK m \in Nat : /\ parts \in [1..m -> Parts]
                       /\ AmountsOf(parts, m) \in [1..m -> Nat]
                       /\ SumIn(AmountsOf(parts, m), m, 1..m) = tenant.deposit
  BY TranchesOf
<1> DEFINE a == AmountsOf(parts, m)
<1>2. \A i \in 1..m : parts[i].amount \in Nat /\ a[i] = parts[i].amount /\ parts[i] \in Parts
  BY <1>1 DEF AmountsOf
<1>3. a \in [1..m -> Nat] /\ a \in [1..m -> Int] /\ SumIn(a, m, 1..m) = tenant.deposit
  BY <1>1
<1>4. DOMAIN parts = 1..m
  BY <1>1
<1> HIDE DEF a, parts
<1>5. ASSUME NEW v \in V, NEW i \in 1..m PROVE ClaimPart(v, parts[i], tenant) \in V
  <2> DEFINE offset == Least(v.offset, parts[i].amount)
             rest == parts[i].amount - offset
             date == Most(parts[i].fixed, PossessionDate(tenant))
  <2>1. v.offset \in Int /\ v.claims \in Seq(ClaimRows) /\ parts[i].amount \in Nat
        /\ parts[i].fixed \in Dates /\ tenant.id \in STRING /\ tenant.moveIn \in Int
    BY <1>2 DEF Parts, Tenants
  <2>2. offset \in Int
    BY <2>1 DEF Least
  <2>3. parts[i].fixed # Absent => date \in Dates
    BY <2>1 DEF Most, PossessionDate, Dates
  <2> HIDE DEF date, offset
  <2>4. rest > 0 /\ parts[i].fixed # Absent =>
          Append(v.claims, Claim(tenant.id, date, rest)) \in Seq(ClaimRows)
    <3> SUFFICES ASSUME rest > 0, parts[i].fixed # Absent
                 PROVE  Append(v.claims, Claim(tenant.id, date, rest)) \in Seq(ClaimRows)
      OBVIOUS
    <3>1. rest \in Nat
      BY <2>1, <2>2
    <3> HIDE DEF rest
    <3> QED
      BY <2>1, <2>3, <3>1, ClaimMore
  <2>5. ClaimPart(v, parts[i], tenant) =
          [offset |-> v.offset - offset,
           claims |-> IF rest > 0 /\ parts[i].fixed # Absent
                      THEN Append(v.claims, Claim(tenant.id, date, rest)) ELSE v.claims]
    BY DEF ClaimPart, offset, date
  <2> HIDE DEF rest
  <2> QED
    BY <2>1, <2>2, <2>4, <2>5
<1>6. start \in V
  BY NoClaims
<1> HIDE DEF V, start
<1>7. PartsFit(V, start, parts, m, tenant)
  BY <1>4, <1>5, <1>6 DEF PartsFit
<1>8. PICK g : PartsRun(g, V, start, parts, m, tenant)
  BY <1>7, PartsInTurn
<1> DEFINE S == {k \in 0..m : PartsClaimed(g[k], SumIn(a, m, 1..k), received, tenant.id)}
<1>9. 0 \in S
  <2>1. SumIn(a, m, 1..0) = 0
    BY <1>3, SumSteps
  <2>2. g[0] = start
    BY <1>8 DEF PartsRun
  <2>3. start.offset = received /\ start.claims = << >>
    BY DEF start
  <2>4. PartsClaimed(start, 0, received, tenant.id)
    BY <2>3, NoClaims DEF PartsClaimed
  <2> QED
    BY <2>1, <2>2, <2>4
<1>10. ASSUME NEW k \in 0..(m - 1), k \in S PROVE k + 1 \in S
  <2>1. k + 1 \in 1..m /\ k + 1 \in 0..m /\ k \in Nat /\ k <= m
    OBVIOUS
  <2>2. g[k + 1] = ClaimPart(g[k], parts[k + 1], tenant)
    BY <1>8 DEF PartsRun
  <2>3. SumIn(a, m, 1..(k + 1)) = SumIn(a, m, 1..k) + parts[k + 1].amount
    <3>1. SumIn(a, m, 1..(k + 1)) = SumIn(a, m, 1..k) + a[k + 1]
      BY <1>3, SumSteps
    <3> QED
      BY <1>2, <2>1, <3>1
  <2>4. SumIn(a, m, 1..k) \in Nat
    BY <1>3, <2>1, SumOfNaturals
  <2>5. PartsClaimed(g[k], SumIn(a, m, 1..k), received, tenant.id)
    BY <1>10
  <2> DEFINE sum == SumIn(a, m, 1..k)
  <2> HIDE DEF sum, S
  <2>6. PartsClaimed(g[k + 1], sum + parts[k + 1].amount, received, tenant.id)
    <3>1. parts[k + 1] \in Parts
      BY <1>2, <2>1
    <3>2. sum \in Nat /\ PartsClaimed(g[k], sum, received, tenant.id)
      BY <2>4, <2>5 DEF sum
    <3> QED
      BY <2>2, <3>1, <3>2, ClaimOnePart
  <2> QED
    BY <2>1, <2>3, <2>6 DEF sum, S
<1>11. PartsClaimed(g[m], SumIn(a, m, 1..m), received, tenant.id)
  <2> HIDE DEF S
  <2>1. m \in S
    <3>1. m \in 0..m
      OBVIOUS
    <3> QED
      BY <1>9, <1>10, <3>1, Stepwise
  <2> QED
    BY <2>1 DEF S
<1>12. TenantClaims(tenant, received) = g[m].claims
  BY <1>8 DEF PartsRun, TenantClaims, start, parts
<1>13. ClaimedBy(g[m].claims, tenant.id) \in Nat /\ tenant.deposit \in Nat
  BY <1>11, ClaimsTyped DEF PartsClaimed, Tenants
<1>14. ClaimedBy(g[m].claims, tenant.id) <= tenant.deposit - received
  BY <1>3, <1>11, <1>13 DEF PartsClaimed
<1> QED
  BY <1>11, <1>12, <1>14 DEF PartsClaimed

\* The tenants claim one after the other.
TenantClaimsFit(V, tenants, n, book) ==
  /\ n \in Nat /\ DOMAIN tenants = 1..n /\ << >> \in V
  /\ \A v \in V, i \in 1..n : ClaimTenant(v, book, tenants[i]) \in V
TenantClaimsRun(g, V, tenants, n, book) ==
  /\ g \in [0..n -> V] /\ g[0] = << >> /\ g[n] = ClaimTenants(book, tenants)
  /\ \A k \in 0..(n - 1) : g[k + 1] = ClaimTenant(g[k], book, tenants[k + 1])

LEMMA TenantClaimsInTurn ==
  ASSUME NEW V, NEW tenants, NEW n, NEW book,
         TenantClaimsFit(V, tenants, n, book)
  PROVE  \E g : TenantClaimsRun(g, V, tenants, n, book)
<1> DEFINE D == 1..n
           steps == [p \in V \X D |-> ClaimTenant(p[1], book, tenants[p[2]])]
           Folds(h) == h = [s \in SUBSET D |-> IF s = {} THEN << >>
                                               ELSE ClaimTenant(h[s \ {Max(s)}], book, tenants[Max(s)])]
           f == CHOOSE h : Folds(h)
<1>1. \A v \in V, i \in D : ClaimTenant(v, book, tenants[i]) \in V
  BY DEF TenantClaimsFit
<1> n \in Nat /\ DOMAIN tenants = D /\ << >> \in V
  BY DEF TenantClaimsFit
<1>2. ClaimTenants(book, tenants) = f[D]
  BY DEF ClaimTenants, FoldLeft, MapThenFoldSet
<1>3. steps \in [V \X D -> V] /\ \A v \in V, i \in D : steps[v, i] = ClaimTenant(v, book, tenants[i])
  BY <1>1
<1>4. PICK h \in [SUBSET D -> V] : FoldOver(steps, << >>, D, h)
  <2> HIDE DEF steps
  <2> QED
    BY <1>3, FoldInside
<1>5. Folds(h)
  <2>1. ASSUME NEW s \in SUBSET D, s # {}
        PROVE  steps[h[s \ {Max(s)}], Max(s)] = ClaimTenant(h[s \ {Max(s)}], book, tenants[Max(s)])
    <3>1. Max(s) \in D /\ h[s \ {Max(s)}] \in V
      BY <2>1, LargestPlace
    <3> HIDE DEF steps
    <3> QED
      BY <1>3, <3>1
  <2> HIDE DEF steps
  <2> QED
    BY <1>4, <2>1 DEF FoldOver
<1>6. Folds(f)
  <2> HIDE DEF Folds
  <2> QED
    BY <1>5
<1>7. f[{}] = << >> /\ \A s \in SUBSET D : s # {} =>
        f[s] = ClaimTenant(f[s \ {Max(s)}], book, tenants[Max(s)])
  <2> HIDE DEF f
  <2> QED
    BY <1>6
<1> HIDE DEF f, Folds, steps
<1>8. \A k \in 0..(n - 1) : f[1..(k + 1)] = ClaimTenant(f[1..k], book, tenants[k + 1])
  <2> TAKE k \in 0..(n - 1)
  <2>1. 1..(k + 1) \in SUBSET D /\ 1..(k + 1) # {} /\ Max(1..(k + 1)) = k + 1
        /\ (1..(k + 1)) \ {k + 1} = 1..k
    BY FirstPlaces
  <2> QED
    BY <1>7, <2>1
<1>9. \A k \in 0..n : f[1..k] \in V
  <2>1. ASSUME NEW k \in 0..(n - 1), f[1..k] \in V PROVE f[1..(k + 1)] \in V
    <3>1. k + 1 \in D
      OBVIOUS
    <3> QED
      BY <1>1, <1>8, <2>1, <3>1
  <2>2. f[{}] \in V
    BY <1>7
  <2> QED
    BY <2>1, <2>2, EachPlace
<1> DEFINE g == [k \in 0..n |-> f[1..k]]
<1>10. g \in [0..n -> V] /\ g[0] = << >> /\ g[n] = ClaimTenants(book, tenants)
  <2>1. 1..0 = {} /\ 0 \in 0..n /\ n \in 0..n
    OBVIOUS
  <2> QED
    BY <1>2, <1>7, <1>9, <2>1
<1>11. \A k \in 0..(n - 1) : g[k + 1] = ClaimTenant(g[k], book, tenants[k + 1])
  <2>1. \A k \in 0..(n - 1) : k \in 0..n /\ k + 1 \in 0..n
    OBVIOUS
  <2> QED
    BY <1>8, <2>1
<1> QED
  BY <1>10, <1>11 DEF TenantClaimsRun

\* The rights claim one after the other.
RightClaimsFit(V, claims, rights, n) ==
  /\ n \in Nat /\ DOMAIN rights = 1..n /\ claims \in V
  /\ \A v \in V, i \in 1..n : ClaimRight(v, rights[i]) \in V
RightClaimsRun(g, V, claims, rights, n) ==
  /\ g \in [0..n -> V] /\ g[0] = claims /\ g[n] = ClaimRights(claims, rights)
  /\ \A k \in 0..(n - 1) : g[k + 1] = ClaimRight(g[k], rights[k + 1])

LEMMA RightClaimsInTurn ==
  ASSUME NEW V, NEW claims, NEW rights, NEW n,
         RightClaimsFit(V, claims, rights, n)
  PROVE  \E g : RightClaimsRun(g, V, claims, rights, n)
<1> DEFINE D == 1..n
           steps == [p \in V \X D |-> ClaimRight(p[1], rights[p[2]])]
           Folds(h) == h = [s \in SUBSET D |-> IF s = {} THEN claims
                                               ELSE ClaimRight(h[s \ {Max(s)}], rights[Max(s)])]
           f == CHOOSE h : Folds(h)
<1>1. \A v \in V, i \in D : ClaimRight(v, rights[i]) \in V
  BY DEF RightClaimsFit
<1> n \in Nat /\ DOMAIN rights = D /\ claims \in V
  BY DEF RightClaimsFit
<1>2. ClaimRights(claims, rights) = f[D]
  BY DEF ClaimRights, FoldLeft, MapThenFoldSet
<1>3. steps \in [V \X D -> V] /\ \A v \in V, i \in D : steps[v, i] = ClaimRight(v, rights[i])
  BY <1>1
<1>4. PICK h \in [SUBSET D -> V] : FoldOver(steps, claims, D, h)
  <2> HIDE DEF steps
  <2> QED
    BY <1>3, FoldInside
<1>5. Folds(h)
  <2>1. ASSUME NEW s \in SUBSET D, s # {}
        PROVE  steps[h[s \ {Max(s)}], Max(s)] = ClaimRight(h[s \ {Max(s)}], rights[Max(s)])
    <3>1. Max(s) \in D /\ h[s \ {Max(s)}] \in V
      BY <2>1, LargestPlace
    <3> HIDE DEF steps
    <3> QED
      BY <1>3, <3>1
  <2> HIDE DEF steps
  <2> QED
    BY <1>4, <2>1 DEF FoldOver
<1>6. Folds(f)
  <2> HIDE DEF Folds
  <2> QED
    BY <1>5
<1>7. f[{}] = claims /\ \A s \in SUBSET D : s # {} =>
        f[s] = ClaimRight(f[s \ {Max(s)}], rights[Max(s)])
  <2> HIDE DEF f
  <2> QED
    BY <1>6
<1> HIDE DEF f, Folds, steps
<1>8. \A k \in 0..(n - 1) : f[1..(k + 1)] = ClaimRight(f[1..k], rights[k + 1])
  <2> TAKE k \in 0..(n - 1)
  <2>1. 1..(k + 1) \in SUBSET D /\ 1..(k + 1) # {} /\ Max(1..(k + 1)) = k + 1
        /\ (1..(k + 1)) \ {k + 1} = 1..k
    BY FirstPlaces
  <2> QED
    BY <1>7, <2>1
<1>9. \A k \in 0..n : f[1..k] \in V
  <2>1. ASSUME NEW k \in 0..(n - 1), f[1..k] \in V PROVE f[1..(k + 1)] \in V
    <3>1. k + 1 \in D
      OBVIOUS
    <3> QED
      BY <1>1, <1>8, <2>1, <3>1
  <2>2. f[{}] \in V
    BY <1>7
  <2> QED
    BY <2>1, <2>2, EachPlace
<1> DEFINE g == [k \in 0..n |-> f[1..k]]
<1>10. g \in [0..n -> V] /\ g[0] = claims /\ g[n] = ClaimRights(claims, rights)
  <2>1. 1..0 = {} /\ 0 \in 0..n /\ n \in 0..n
    OBVIOUS
  <2> QED
    BY <1>2, <1>7, <1>9, <2>1
<1>11. \A k \in 0..(n - 1) : g[k + 1] = ClaimRight(g[k], rights[k + 1])
  <2>1. \A k \in 0..(n - 1) : k \in 0..n /\ k + 1 \in 0..n
    OBVIOUS
  <2> QED
    BY <1>8, <2>1
<1> QED
  BY <1>10, <1>11 DEF RightClaimsRun

\* The other taxes claim one after the other.
TaxClaimsFit(V, claims, taxes, n) ==
  /\ n \in Nat /\ DOMAIN taxes = 1..n /\ claims \in V
  /\ \A v \in V, i \in 1..n : ClaimTax(v, taxes[i]) \in V
TaxClaimsRun(g, V, claims, taxes, n) ==
  /\ g \in [0..n -> V] /\ g[0] = claims /\ g[n] = ClaimTaxes(claims, taxes)
  /\ \A k \in 0..(n - 1) : g[k + 1] = ClaimTax(g[k], taxes[k + 1])

LEMMA TaxClaimsInTurn ==
  ASSUME NEW V, NEW claims, NEW taxes, NEW n,
         TaxClaimsFit(V, claims, taxes, n)
  PROVE  \E g : TaxClaimsRun(g, V, claims, taxes, n)
<1> DEFINE D == 1..n
           steps == [p \in V \X D |-> ClaimTax(p[1], taxes[p[2]])]
           Folds(h) == h = [s \in SUBSET D |-> IF s = {} THEN claims
                                               ELSE ClaimTax(h[s \ {Max(s)}], taxes[Max(s)])]
           f == CHOOSE h : Folds(h)
<1>1. \A v \in V, i \in D : ClaimTax(v, taxes[i]) \in V
  BY DEF TaxClaimsFit
<1> n \in Nat /\ DOMAIN taxes = D /\ claims \in V
  BY DEF TaxClaimsFit
<1>2. ClaimTaxes(claims, taxes) = f[D]
  BY DEF ClaimTaxes, FoldLeft, MapThenFoldSet
<1>3. steps \in [V \X D -> V] /\ \A v \in V, i \in D : steps[v, i] = ClaimTax(v, taxes[i])
  BY <1>1
<1>4. PICK h \in [SUBSET D -> V] : FoldOver(steps, claims, D, h)
  <2> HIDE DEF steps
  <2> QED
    BY <1>3, FoldInside
<1>5. Folds(h)
  <2>1. ASSUME NEW s \in SUBSET D, s # {}
        PROVE  steps[h[s \ {Max(s)}], Max(s)] = ClaimTax(h[s \ {Max(s)}], taxes[Max(s)])
    <3>1. Max(s) \in D /\ h[s \ {Max(s)}] \in V
      BY <2>1, LargestPlace
    <3> HIDE DEF steps
    <3> QED
      BY <1>3, <3>1
  <2> HIDE DEF steps
  <2> QED
    BY <1>4, <2>1 DEF FoldOver
<1>6. Folds(f)
  <2> HIDE DEF Folds
  <2> QED
    BY <1>5
<1>7. f[{}] = claims /\ \A s \in SUBSET D : s # {} =>
        f[s] = ClaimTax(f[s \ {Max(s)}], taxes[Max(s)])
  <2> HIDE DEF f
  <2> QED
    BY <1>6
<1> HIDE DEF f, Folds, steps
<1>8. \A k \in 0..(n - 1) : f[1..(k + 1)] = ClaimTax(f[1..k], taxes[k + 1])
  <2> TAKE k \in 0..(n - 1)
  <2>1. 1..(k + 1) \in SUBSET D /\ 1..(k + 1) # {} /\ Max(1..(k + 1)) = k + 1
        /\ (1..(k + 1)) \ {k + 1} = 1..k
    BY FirstPlaces
  <2> QED
    BY <1>7, <2>1
<1>9. \A k \in 0..n : f[1..k] \in V
  <2>1. ASSUME NEW k \in 0..(n - 1), f[1..k] \in V PROVE f[1..(k + 1)] \in V
    <3>1. k + 1 \in D
      OBVIOUS
    <3> QED
      BY <1>1, <1>8, <2>1, <3>1
  <2>2. f[{}] \in V
    BY <1>7
  <2> QED
    BY <2>1, <2>2, EachPlace
<1> DEFINE g == [k \in 0..n |-> f[1..k]]
<1>10. g \in [0..n -> V] /\ g[0] = claims /\ g[n] = ClaimTaxes(claims, taxes)
  <2>1. 1..0 = {} /\ 0 \in 0..n /\ n \in 0..n
    OBVIOUS
  <2> QED
    BY <1>2, <1>7, <1>9, <2>1
<1>11. \A k \in 0..(n - 1) : g[k + 1] = ClaimTax(g[k], taxes[k + 1])
  <2>1. \A k \in 0..(n - 1) : k \in 0..n /\ k + 1 \in 0..n
    OBVIOUS
  <2> QED
    BY <1>8, <2>1
<1> QED
  BY <1>10, <1>11 DEF TaxClaimsRun

\* The claims are paid one after the other.
ClaimsFit(V, book, claims, n) ==
  /\ n \in Nat /\ DOMAIN claims = 1..n /\ book \in V
  /\ \A v \in V, i \in 1..n : PayClaim(v, claims[i]) \in V
ClaimsRun(g, V, book, claims, n) ==
  /\ g \in [0..n -> V] /\ g[0] = book /\ g[n] = PayInOrder(book, claims)
  /\ \A k \in 0..(n - 1) : g[k + 1] = PayClaim(g[k], claims[k + 1])

LEMMA ClaimsInTurn ==
  ASSUME NEW V, NEW book, NEW claims, NEW n,
         ClaimsFit(V, book, claims, n)
  PROVE  \E g : ClaimsRun(g, V, book, claims, n)
<1> DEFINE D == 1..n
           steps == [p \in V \X D |-> PayClaim(p[1], claims[p[2]])]
           Folds(h) == h = [s \in SUBSET D |-> IF s = {} THEN book
                                               ELSE PayClaim(h[s \ {Max(s)}], claims[Max(s)])]
           f == CHOOSE h : Folds(h)
<1>1. \A v \in V, i \in D : PayClaim(v, claims[i]) \in V
  BY DEF ClaimsFit
<1> n \in Nat /\ DOMAIN claims = D /\ book \in V
  BY DEF ClaimsFit
<1>2. PayInOrder(book, claims) = f[D]
  BY DEF PayInOrder, FoldLeft, MapThenFoldSet
<1>3. steps \in [V \X D -> V] /\ \A v \in V, i \in D : steps[v, i] = PayClaim(v, claims[i])
  BY <1>1
<1>4. PICK h \in [SUBSET D -> V] : FoldOver(steps, book, D, h)
  <2> HIDE DEF steps
  <2> QED
    BY <1>3, FoldInside
<1>5. Folds(h)
  <2>1. ASSUME NEW s \in SUBSET D, s # {}
        PROVE  steps[h[s \ {Max(s)}], Max(s)] = PayClaim(h[s \ {Max(s)}], claims[Max(s)])
    <3>1. Max(s) \in D /\ h[s \ {Max(s)}] \in V
      BY <2>1, LargestPlace
    <3> HIDE DEF steps
    <3> QED
      BY <1>3, <3>1
  <2> HIDE DEF steps
  <2> QED
    BY <1>4, <2>1 DEF FoldOver
<1>6. Folds(f)
  <2> HIDE DEF Folds
  <2> QED
    BY <1>5
<1>7. f[{}] = book /\ \A s \in SUBSET D : s # {} =>
        f[s] = PayClaim(f[s \ {Max(s)}], claims[Max(s)])
  <2> HIDE DEF f
  <2> QED
    BY <1>6
<1> HIDE DEF f, Folds, steps
<1>8. \A k \in 0..(n - 1) : f[1..(k + 1)] = PayClaim(f[1..k], claims[k + 1])
  <2> TAKE k \in 0..(n - 1)
  <2>1. 1..(k + 1) \in SUBSET D /\ 1..(k + 1) # {} /\ Max(1..(k + 1)) = k + 1
        /\ (1..(k + 1)) \ {k + 1} = 1..k
    BY FirstPlaces
  <2> QED
    BY <1>7, <2>1
<1>9. \A k \in 0..n : f[1..k] \in V
  <2>1. ASSUME NEW k \in 0..(n - 1), f[1..k] \in V PROVE f[1..(k + 1)] \in V
    <3>1. k + 1 \in D
      OBVIOUS
    <3> QED
      BY <1>1, <1>8, <2>1, <3>1
  <2>2. f[{}] \in V
    BY <1>7
  <2> QED
    BY <2>1, <2>2, EachPlace
<1> DEFINE g == [k \in 0..n |-> f[1..k]]
<1>10. g \in [0..n -> V] /\ g[0] = book /\ g[n] = PayInOrder(book, claims)
  <2>1. 1..0 = {} /\ 0 \in 0..n /\ n \in 0..n
    OBVIOUS
  <2> QED
    BY <1>2, <1>7, <1>9, <2>1
<1>11. \A k \in 0..(n - 1) : g[k + 1] = PayClaim(g[k], claims[k + 1])
  <2>1. \A k \in 0..(n - 1) : k \in 0..n /\ k + 1 \in 0..n
    OBVIOUS
  <2> QED
    BY <1>8, <2>1
<1> QED
  BY <1>10, <1>11 DEF ClaimsRun

Got12(book, w) == PaidOf(book, {"small", "relief"}, {w})

\* All tenants together claim what is left of each deposit.
TenantsClaimed(claims, k, book, joining, n) ==
  /\ claims \in Seq(ClaimRows)
  /\ \A i \in 1..n : ClaimedBy(claims, joining[i].id) <=
                       IF i <= k THEN joining[i].deposit - Got12(book, joining[i].id) ELSE 0
  /\ \A w : (\A i \in 1..n : w # joining[i].id) => ClaimedBy(claims, w) = 0

LEMMA ClaimOneTenant ==
  ASSUME NEW n, NEW joining, NEW taxIds, OwnIds(joining, n, taxIds),
         NEW book \in Books(STRING), NEW money, TaxedBook(book, joining, n, taxIds, money),
         NEW k \in 0..(n - 1), ~Mismatched(joining[k + 1]),
         NEW claims, TenantsClaimed(claims, k, book, joining, n)
  PROVE  TenantsClaimed(ClaimTenant(claims, book, joining[k + 1]), k + 1, book, joining, n)
<1> DEFINE t == joining[k + 1]
           received == Got12(book, t.id)
           more == TenantClaims(t, received)
           both == claims \o more
<1>1. /\ n \in Nat /\ joining \in [1..n -> Tenants] /\ k + 1 \in 1..n
      /\ \A i, j \in 1..n : joining[i].id = joining[j].id => i = j
  BY DEF OwnIds, DistinctIds
<1>2. t \in Tenants /\ t.id \in STRING /\ t.deposit \in Nat
  BY <1>1 DEF Tenants
<1>3. received \in Nat /\ received <= t.deposit
  <2>1. Got12(book, t.id) \in Int /\ 0 <= Got12(book, t.id)
    BY PaidTyped DEF TaxedBook, Balanced, Got12
  <2>2. Got12(book, t.id) = PaidOf(book, Stages, {t.id}) /\ PaidOf(book, Stages, {t.id}) <= t.deposit
    BY <1>1 DEF TaxedBook, Got12
  <2> QED
    BY <2>1, <2>2
<1>4. ClaimTenant(claims, book, t) = both
  BY ReceivedIsPaid DEF ClaimTenant, Got12
<1> HIDE DEF t, received
<1>5. /\ more \in Seq(ClaimRows) /\ ClaimedBy(more, t.id) <= t.deposit - received
      /\ \A w : w # t.id => ClaimedBy(more, w) = 0
  BY <1>2, <1>3, TenantClaimsTyped DEF t
<1> HIDE DEF more, both
<1>6. both \in Seq(ClaimRows) /\ \A w : ClaimedBy(both, w) = ClaimedBy(claims, w) + ClaimedBy(more, w)
  BY <1>5, ClaimsInARow DEF TenantsClaimed, both
<1>7. \A w : ClaimedBy(claims, w) \in Nat /\ ClaimedBy(more, w) \in Nat
  BY <1>5, ClaimsTyped DEF TenantsClaimed
<1>8. ASSUME NEW i \in 1..n
      PROVE  ClaimedBy(both, joining[i].id) <=
               IF i <= k + 1 THEN joining[i].deposit - Got12(book, joining[i].id) ELSE 0
  <2> DEFINE w == joining[i].id
             rest == joining[i].deposit - Got12(book, w)
  <2>1. ClaimedBy(claims, w) <= IF i <= k THEN rest ELSE 0
    BY DEF TenantsClaimed
  <2>2. ClaimedBy(both, w) = ClaimedBy(claims, w) + ClaimedBy(more, w)
    BY <1>6
  <2>3. CASE i = k + 1
    <3>1. w = t.id /\ rest = t.deposit - received /\ ~(i <= k) /\ i <= k + 1
      BY <1>1, <2>3 DEF t, received
    <3> HIDE DEF w, rest
    <3>2. ClaimedBy(claims, w) = 0
      BY <1>7, <2>1, <3>1
    <3>3. ClaimedBy(both, w) <= rest
      BY <1>5, <1>7, <2>2, <3>1, <3>2
    <3>4. ClaimedBy(both, w) <= IF i <= k + 1 THEN rest ELSE 0
      BY <3>1, <3>3
    <3> QED
      BY <3>4 DEF w, rest
  <2>4. CASE i # k + 1
    <3>1. w # t.id /\ (i <= k <=> i <= k + 1)
      BY <1>1, <2>4 DEF t
    <3>2. ClaimedBy(more, w) = 0
      BY <1>5, <3>1
    <3> HIDE DEF w, rest
    <3>3. ClaimedBy(both, w) = ClaimedBy(claims, w)
      BY <1>7, <2>2, <3>2
    <3>4. ClaimedBy(both, w) <= IF i <= k + 1 THEN rest ELSE 0
      BY <2>1, <3>1, <3>3
    <3> QED
      BY <3>4 DEF w, rest
  <2> QED
    BY <2>3, <2>4
<1>9. ASSUME NEW w, \A i \in 1..n : w # joining[i].id PROVE ClaimedBy(both, w) = 0
  <2>1. ClaimedBy(claims, w) = 0
    BY <1>9 DEF TenantsClaimed
  <2>2. w # t.id
    BY <1>1, <1>9 DEF t
  <2> QED
    BY <1>5, <1>6, <2>1, <2>2
<1> QED
  BY <1>4, <1>6, <1>8, <1>9 DEF TenantsClaimed, t

LEMMA TenantsClaim ==
  ASSUME NEW n, NEW joining, NEW taxIds, OwnIds(joining, n, taxIds),
         NEW book \in Books(STRING), NEW money, TaxedBook(book, joining, n, taxIds, money),
         \A i \in 1..n : ~Mismatched(joining[i])
  PROVE  TenantsClaimed(ClaimTenants(book, joining), n, book, joining, n)
<1> DEFINE V == Seq(ClaimRows)
<1>1. n \in Nat /\ joining \in [1..n -> Tenants] /\ DOMAIN joining = 1..n
  BY DEF OwnIds
<1>2. ASSUME NEW v \in V, NEW i \in 1..n PROVE ClaimTenant(v, book, joining[i]) \in V
  <2> DEFINE t == joining[i]
             received == Got12(book, t.id)
  <2>1. t \in Tenants /\ ~Mismatched(t)
    BY <1>1
  <2>2. received \in Nat /\ received <= t.deposit
    <3>1. Got12(book, t.id) \in Int /\ 0 <= Got12(book, t.id)
      BY PaidTyped DEF TaxedBook, Balanced, Got12
    <3>2. Got12(book, t.id) = PaidOf(book, Stages, {t.id}) /\ PaidOf(book, Stages, {t.id}) <= t.deposit
      BY DEF TaxedBook, Got12
    <3> QED
      BY <3>1, <3>2
  <2>3. ClaimTenant(v, book, t) = v \o TenantClaims(t, received)
    BY ReceivedIsPaid DEF ClaimTenant, Got12
  <2> HIDE DEF t, received
  <2>4. TenantClaims(t, received) \in Seq(ClaimRows)
    BY <2>1, <2>2, TenantClaimsTyped
  <2> QED
    BY <2>3, <2>4, ClaimsInARow DEF t
<1>3. << >> \in V
  BY NoClaims
<1> HIDE DEF V
<1>4. TenantClaimsFit(V, joining, n, book)
  BY <1>1, <1>2, <1>3 DEF TenantClaimsFit
<1>5. PICK g : TenantClaimsRun(g, V, joining, n, book)
  BY <1>4, TenantClaimsInTurn
<1> DEFINE S == {k \in 0..n : TenantsClaimed(g[k], k, book, joining, n)}
<1>6. 0 \in S
  <2>1. g[0] = << >>
    BY <1>5 DEF TenantClaimsRun
  <2>2. \A i \in 1..n : ~(i <= 0)
    OBVIOUS
  <2>3. TenantsClaimed(<< >>, 0, book, joining, n)
    BY <2>2, NoClaims DEF TenantsClaimed
  <2> QED
    BY <1>1, <2>1, <2>3
<1>7. ASSUME NEW k \in 0..(n - 1), k \in S PROVE k + 1 \in S
  <2>1. k + 1 \in 1..n /\ k + 1 \in 0..n
    BY <1>1
  <2>2. TenantsClaimed(g[k], k, book, joining, n) /\ ~Mismatched(joining[k + 1])
    BY <1>7, <2>1
  <2>3. g[k + 1] = ClaimTenant(g[k], book, joining[k + 1])
    BY <1>5 DEF TenantClaimsRun
  <2> HIDE DEF S
  <2>4. TenantsClaimed(g[k + 1], k + 1, book, joining, n)
    BY <2>2, <2>3, ClaimOneTenant
  <2> QED
    BY <2>1, <2>4 DEF S
<1>8. n \in S
  <2>1. n \in 0..n
    BY <1>1
  <2> HIDE DEF S
  <2> QED
    BY <1>1, <1>6, <1>7, <2>1, Stepwise
<1> QED
  BY <1>5, <1>8 DEF TenantClaimsRun

-----------------------------------------------------------------------------
\* Tenants, rights and taxes claim what is still owed to them.

RightsClaimed(claims, k, before, rights, n) ==
  /\ claims \in Seq(ClaimRows)
  /\ \A i \in 1..n : ClaimedBy(claims, rights[i].id) <=
                       IF i <= k /\ rights[i].amount # Absent THEN rights[i].amount ELSE 0
  /\ \A w : (\A i \in 1..n : w # rights[i].id) => ClaimedBy(claims, w) = ClaimedBy(before, w)

LEMMA RightsClaim ==
  ASSUME NEW n \in Nat, NEW rights \in [1..n -> RightRows], DistinctIds(rights, n),
         NEW before \in Seq(ClaimRows), \A i \in 1..n : ClaimedBy(before, rights[i].id) = 0
  PROVE  RightsClaimed(ClaimRights(before, rights), n, before, rights, n)
<1> DEFINE V == Seq(ClaimRows)
<1>0. ASSUME NEW i \in 1..n
      PROVE  rights[i].id \in STRING /\ rights[i].received \in Dates
             /\ (rights[i].amount # Absent => rights[i].amount \in Nat)
  BY DEF RightRows, OptionalAmount, Dates
<1>1. ASSUME NEW v \in V, NEW i \in 1..n
      PROVE  /\ ClaimRight(v, rights[i]) \in V
             /\ \A w : ClaimedBy(ClaimRight(v, rights[i]), w) = ClaimedBy(v, w)
                       + (IF w = rights[i].id /\ rights[i].amount # Absent THEN rights[i].amount ELSE 0)
  <2>1. CASE rights[i].amount # Absent
    <3> DEFINE to == rights[i].id
               date == rights[i].received
               amount == rights[i].amount
    <3>1. to \in STRING /\ date \in Dates /\ amount \in Nat
      BY <1>0, <2>1
    <3>2. ClaimRight(v, rights[i]) = Append(v, Claim(to, date, amount))
      BY <2>1 DEF ClaimRight
    <3> HIDE DEF to, date, amount
    <3>3. /\ Append(v, Claim(to, date, amount)) \in V
          /\ \A w : ClaimedBy(Append(v, Claim(to, date, amount)), w) =
                      ClaimedBy(v, w) + (IF to = w THEN amount ELSE 0)
      BY <3>1, ClaimMore
    <3> QED
      BY <2>1, <3>2, <3>3 DEF to, amount
  <2>2. CASE rights[i].amount = Absent
    <3>1. ClaimRight(v, rights[i]) = v
      BY <2>2 DEF ClaimRight
    <3>2. \A w : ClaimedBy(v, w) \in Nat
      BY ClaimsTyped
    <3> QED
      BY <2>2, <3>1, <3>2
  <2> QED
    BY <2>1, <2>2
<1> HIDE DEF V
<1>2. RightClaimsFit(V, before, rights, n)
  <2>1. DOMAIN rights = 1..n /\ before \in V
    BY DEF V
  <2> QED
    BY <1>1, <2>1 DEF RightClaimsFit
<1>3. PICK g : RightClaimsRun(g, V, before, rights, n)
  BY <1>2, RightClaimsInTurn
<1> DEFINE S == {k \in 0..n : RightsClaimed(g[k], k, before, rights, n)}
<1>4. 0 \in S
  <2>1. g[0] = before /\ \A i \in 1..n : ~(i <= 0)
    BY <1>3 DEF RightClaimsRun
  <2> QED
    BY <2>1 DEF RightsClaimed
<1>5. ASSUME NEW k \in 0..(n - 1), k \in S PROVE k + 1 \in S
  <2>1. k + 1 \in 1..n /\ k + 1 \in 0..n
    OBVIOUS
  <2>2. RightsClaimed(g[k], k, before, rights, n)
    BY <1>5
  <2>3. g[k + 1] = ClaimRight(g[k], rights[k + 1])
    BY <1>3 DEF RightClaimsRun
  <2>4. g[k] \in V /\ \A w : ClaimedBy(g[k], w) \in Nat
    BY <2>2, ClaimsTyped DEF RightsClaimed, V
  <2> HIDE DEF S
  <2>5. /\ g[k + 1] \in V
        /\ \A w : ClaimedBy(g[k + 1], w) = ClaimedBy(g[k], w)
             + (IF w = rights[k + 1].id /\ rights[k + 1].amount # Absent THEN rights[k + 1].amount ELSE 0)
    BY <1>1, <2>1, <2>3, <2>4
  <2>6. ASSUME NEW i \in 1..n
        PROVE  ClaimedBy(g[k + 1], rights[i].id) <=
                 IF i <= k + 1 /\ rights[i].amount # Absent THEN rights[i].amount ELSE 0
    <3>1. ClaimedBy(g[k], rights[i].id) <=
            IF i <= k /\ rights[i].amount # Absent THEN rights[i].amount ELSE 0
      BY <2>2 DEF RightsClaimed
    <3>2. rights[i].id = rights[k + 1].id <=> i = k + 1
      BY <2>1 DEF DistinctIds
    <3>3. ClaimedBy(g[k], rights[i].id) \in Nat
      BY <2>4
    <3>4. CASE i = k + 1
      <4>1. ClaimedBy(g[k], rights[i].id) = 0
        BY <3>1, <3>3, <3>4
      <4>2. ClaimedBy(g[k + 1], rights[i].id) =
              0 + (IF rights[i].amount # Absent THEN rights[i].amount ELSE 0)
        BY <2>5, <3>4, <4>1
      <4> QED
        BY <1>0, <3>4, <4>2
    <3>5. CASE i # k + 1
      <4>1. ClaimedBy(g[k + 1], rights[i].id) = ClaimedBy(g[k], rights[i].id)
        BY <2>5, <3>2, <3>3, <3>5
      <4>2. i <= k <=> i <= k + 1
        BY <3>5
      <4> QED
        BY <3>1, <4>1, <4>2
    <3> QED
      BY <3>4, <3>5
  <2>7. ASSUME NEW w, \A i \in 1..n : w # rights[i].id
        PROVE  ClaimedBy(g[k + 1], w) = ClaimedBy(before, w)
    <3>1. ClaimedBy(g[k], w) = ClaimedBy(before, w)
      BY <2>2, <2>7 DEF RightsClaimed
    <3>2. w # rights[k + 1].id
      BY <2>1, <2>7
    <3> QED
      BY <2>4, <2>5, <3>1, <3>2
  <2>8. RightsClaimed(g[k + 1], k + 1, before, rights, n)
    BY <2>5, <2>6, <2>7 DEF RightsClaimed, V
  <2> QED
    BY <2>1, <2>8 DEF S
<1>6. n \in S
  <2>1. n \in 0..n
    OBVIOUS
  <2> HIDE DEF S
  <2> QED
    BY <1>4, <1>5, <2>1, Stepwise
<1> QED
  BY <1>3, <1>6 DEF RightClaimsRun

LEMMA TaxesClaim ==
  ASSUME NEW n \in Nat, NEW taxes \in [1..n -> TaxRows], NEW before \in Seq(ClaimRows)
  PROVE  /\ ClaimTaxes(before, taxes) \in Seq(ClaimRows)
         /\ \A w : (\A i \in 1..n : w # taxes[i].id) =>
              ClaimedBy(ClaimTaxes(before, taxes), w) = ClaimedBy(before, w)
<1> DEFINE V == {v \in Seq(ClaimRows) :
                   \A w : (\A i \in 1..n : w # taxes[i].id) => ClaimedBy(v, w) = ClaimedBy(before, w)}
<1>1. ASSUME NEW v \in V, NEW i \in 1..n PROVE ClaimTax(v, taxes[i]) \in V
  <2> DEFINE to == taxes[i].id
             date == taxes[i].statutory
             amount == taxes[i].amount
  <2>1. CASE ~taxes[i].property /\ taxes[i].amount # Absent
    <3> DEFINE more == Append(v, Claim(to, date, amount))
    <3>1. to \in STRING /\ date \in Dates /\ amount \in Nat
      BY <2>1 DEF TaxRows, OptionalAmount, Dates
    <3>2. ClaimTax(v, taxes[i]) = more
      BY <2>1 DEF ClaimTax
    <3>3. v \in Seq(ClaimRows)
      OBVIOUS
    <3> HIDE DEF to, date, amount
    <3>4. /\ more \in Seq(ClaimRows)
          /\ \A w : ClaimedBy(more, w) = ClaimedBy(v, w) + (IF to = w THEN amount ELSE 0)
      BY <3>1, <3>3, ClaimMore
    <3> HIDE DEF more
    <3>5. ASSUME NEW w, \A j \in 1..n : w # taxes[j].id
          PROVE  ClaimedBy(more, w) = ClaimedBy(before, w)
      <4>1. ClaimedBy(v, w) = ClaimedBy(before, w)
        BY <3>5
      <4>2. to # w
        BY <3>5 DEF to
      <4>3. ClaimedBy(v, w) \in Nat
        BY <3>3, ClaimsTyped
      <4> QED
        BY <3>4, <4>1, <4>2, <4>3
    <3> QED
      BY <3>2, <3>4, <3>5
  <2>2. CASE ~(~taxes[i].property /\ taxes[i].amount # Absent)
    BY <2>2 DEF ClaimTax
  <2> QED
    BY <2>1, <2>2
<1>2. before \in V
  OBVIOUS
<1> HIDE DEF V
<1>3. TaxClaimsFit(V, before, taxes, n)
  BY <1>1, <1>2 DEF TaxClaimsFit
<1>4. PICK g : TaxClaimsRun(g, V, before, taxes, n)
  BY <1>3, TaxClaimsInTurn
<1>5. ClaimTaxes(before, taxes) \in V
  <2>1. n \in 0..n
    OBVIOUS
  <2> QED
    BY <1>4, <2>1 DEF TaxClaimsRun
<1> QED
  BY <1>5 DEF V

\* In order of rank, nobody is paid more than the claims so far.
PaidInOrder(b, k, book, claims, n, money) ==
  /\ Balanced(b, money) /\ b.left >= 0
  /\ PaidOf(b, {"small"}, STRING) = PaidOf(book, {"small"}, STRING)
  /\ \A w : PaidOf(b, Stages, {w}) <=
              PaidOf(book, Stages, {w}) + SumIn(ClaimedAt(claims, w), n, 1..k)

LEMMA PayOneClaim ==
  ASSUME NEW claims \in Seq(ClaimRows), NEW n, n = Len(claims), NEW money \in Int,
         NEW book \in Books(STRING), NEW k \in 0..(n - 1), NEW b,
         PaidInOrder(b, k, book, claims, n, money)
  PROVE  PaidInOrder(PayClaim(b, claims[k + 1]), k + 1, book, claims, n, money)
<1> DEFINE claim == claims[k + 1]
           to == claim.to
           amount == Least(b.left, claim.amount)
           more == Pay(b, "rank", to, amount)
<1>1. /\ n \in Nat /\ k + 1 \in 1..n /\ k \in Nat /\ k <= n
      /\ claim.to \in STRING /\ claim.amount \in Nat
  <2>1. n \in Nat /\ claims \in [1..n -> ClaimRows]
    BY ClaimsTyped
  <2> QED
    BY <2>1 DEF ClaimRows
<1>2. b \in Books(STRING) /\ b.left \in Int /\ b.left >= 0 /\ Balanced(b, money)
  BY DEF PaidInOrder, Balanced, Books
<1>3. \A S, T : PaidOf(b, S, T) \in Int
  BY <1>2, PaidTyped
<1>4. \A w : /\ ClaimedAt(claims, w) \in [1..n -> Nat] /\ ClaimedAt(claims, w) \in [1..n -> Int]
             /\ ClaimedAt(claims, w)[k + 1] = IF claim.to = w THEN claim.amount ELSE 0
  BY <1>1, ClaimsTyped DEF ClaimedAt
<1>5. ASSUME NEW w
      PROVE  /\ SumIn(ClaimedAt(claims, w), n, 1..k) \in Nat
             /\ SumIn(ClaimedAt(claims, w), n, 1..(k + 1)) =
                  SumIn(ClaimedAt(claims, w), n, 1..k) + (IF claim.to = w THEN claim.amount ELSE 0)
             /\ PaidOf(b, Stages, {w}) <=
                  PaidOf(book, Stages, {w}) + SumIn(ClaimedAt(claims, w), n, 1..k)
             /\ PaidOf(book, Stages, {w}) \in Int
  <2> DEFINE a == ClaimedAt(claims, w)
  <2>1. a \in [1..n -> Nat] /\ a \in [1..n -> Int]
        /\ a[k + 1] = IF claim.to = w THEN claim.amount ELSE 0
    BY <1>4
  <2>2. PaidOf(b, Stages, {w}) <= PaidOf(book, Stages, {w}) + SumIn(a, n, 1..k)
    BY DEF PaidInOrder
  <2>3. PaidOf(book, Stages, {w}) \in Int
    BY PaidTyped
  <2> HIDE DEF a
  <2>4. SumIn(a, n, 1..k) \in Nat
    BY <1>1, <2>1, SumOfNaturals
  <2>5. SumIn(a, n, 1..(k + 1)) = SumIn(a, n, 1..k) + a[k + 1]
    BY <1>1, <2>1, SumSteps
  <2> QED
    BY <2>1, <2>2, <2>3, <2>4, <2>5 DEF a
<1>6. CASE b.left > 0
  <2>1. amount \in Nat /\ amount <= b.left /\ amount <= claim.amount
    BY <1>1, <1>2 DEF Least
  <2>2. PayClaim(b, claim) = more
    BY <1>6 DEF PayClaim
  <2>3. /\ Balanced(more, money) /\ more.left = b.left - amount
        /\ \A S, T : PaidOf(more, S, T) =
                      PaidOf(b, S, T) + (IF "rank" \in S /\ to \in T THEN amount ELSE 0)
    <3>1. "rank" \in Stages /\ to \in STRING /\ amount \in Nat
      BY <1>1, <2>1 DEF Stages
    <3> HIDE DEF amount, to
    <3> QED
      BY <1>2, <3>1, PayBalances
  <2> HIDE DEF amount, claim
  <2> HIDE DEF more
  <2>4. more.left >= 0
    BY <1>2, <2>1, <2>3
  <2>5. PaidOf(more, {"small"}, STRING) = PaidOf(book, {"small"}, STRING)
    <3>1. PaidOf(more, {"small"}, STRING) = PaidOf(b, {"small"}, STRING)
      BY <1>3, <2>3
    <3> QED
      BY <3>1 DEF PaidInOrder
  <2>6. ASSUME NEW w
        PROVE  PaidOf(more, Stages, {w}) <=
                 PaidOf(book, Stages, {w}) + SumIn(ClaimedAt(claims, w), n, 1..(k + 1))
    <3>1. PaidOf(more, Stages, {w}) = PaidOf(b, Stages, {w}) + (IF claim.to = w THEN amount ELSE 0)
      <4>1. "rank" \in Stages
        BY DEF Stages
      <4> QED
        BY <2>3, <4>1
    <3>2. PaidOf(b, Stages, {w}) \in Int
      BY <1>3
    <3> QED
      BY <1>1, <1>5, <2>1, <3>1, <3>2
  <2> QED
    BY <2>2, <2>3, <2>4, <2>5, <2>6 DEF PaidInOrder, claim
<1>7. CASE ~(b.left > 0)
  <2>1. PayClaim(b, claim) = b
    BY <1>7 DEF PayClaim
  <2>2. ASSUME NEW w
        PROVE  PaidOf(b, Stages, {w}) <=
                 PaidOf(book, Stages, {w}) + SumIn(ClaimedAt(claims, w), n, 1..(k + 1))
    <3>1. PaidOf(b, Stages, {w}) \in Int
      BY <1>3
    <3> QED
      BY <1>1, <1>5, <3>1
  <2> QED
    BY <2>1, <2>2 DEF PaidInOrder
<1> QED
  BY <1>6, <1>7

LEMMA RankStage ==
  ASSUME NEW claims \in Seq(ClaimRows), NEW money \in Int, NEW book, Balanced(book, money),
         book.left >= 0
  PROVE  LET b == PayInOrder(book, claims) IN
         /\ Balanced(b, money) /\ b.left >= 0
         /\ PaidOf(b, {"small"}, STRING) = PaidOf(book, {"small"}, STRING)
         /\ \A w : PaidOf(b, Stages, {w}) <= PaidOf(book, Stages, {w}) + ClaimedBy(claims, w)
<1> DEFINE n == Len(claims)
           V == {v \in Books(STRING) : Balanced(v, money) /\ v.left >= 0}
<1>1. n \in Nat /\ DOMAIN claims = 1..n /\ claims \in [1..n -> ClaimRows] /\ book \in Books(STRING)
  BY ClaimsTyped DEF Balanced
<1> HIDE DEF n
<1>2. ASSUME NEW v \in V, NEW i \in 1..n PROVE PayClaim(v, claims[i]) \in V
  <2> DEFINE claim == claims[i]
             to == claim.to
             amount == Least(v.left, claim.amount)
             more == Pay(v, "rank", to, amount)
  <2>1. claim.to \in STRING /\ claim.amount \in Nat
    BY <1>1 DEF ClaimRows
  <2>2. v.left \in Int /\ v.left >= 0 /\ Balanced(v, money)
    BY DEF Books
  <2>3. amount \in Nat /\ amount <= v.left
    BY <2>1, <2>2 DEF Least
  <2>4. PayClaim(v, claim) = more \/ PayClaim(v, claim) = v
    BY DEF PayClaim
  <2>5. Balanced(more, money) /\ more.left = v.left - amount
    <3>1. "rank" \in Stages /\ to \in STRING /\ amount \in Nat
      BY <2>1, <2>3 DEF Stages
    <3> HIDE DEF amount, to
    <3> QED
      BY <2>2, <3>1, PayBalances
  <2> HIDE DEF claim, amount, more
  <2>6. more \in V
    <3>1. more.left >= 0
      BY <2>2, <2>3, <2>5
    <3> QED
      BY <2>5, <3>1 DEF Balanced
  <2> QED
    BY <2>4, <2>6 DEF claim
<1>3. book \in V
  BY <1>1
<1> HIDE DEF V
<1>4. ClaimsFit(V, book, claims, n)
  BY <1>1, <1>2, <1>3 DEF ClaimsFit
<1>5. PICK g : ClaimsRun(g, V, book, claims, n)
  BY <1>4, ClaimsInTurn
<1> DEFINE S == {k \in 0..n : PaidInOrder(g[k], k, book, claims, n, money)}
<1>6. 0 \in S
  <2>1. g[0] = book
    BY <1>5 DEF ClaimsRun
  <2>2. ASSUME NEW w PROVE PaidOf(book, Stages, {w}) <=
                 PaidOf(book, Stages, {w}) + SumIn(ClaimedAt(claims, w), n, 1..0)
    <3>1. ClaimedAt(claims, w) \in [1..n -> Int] /\ PaidOf(book, Stages, {w}) \in Int
      BY <1>1, ClaimsTyped, PaidTyped DEF n
    <3>2. SumIn(ClaimedAt(claims, w), n, 1..0) = 0
      BY <1>1, <3>1, SumSteps
    <3> QED
      BY <3>1, <3>2
  <2>3. PaidInOrder(book, 0, book, claims, n, money)
    BY <2>2 DEF PaidInOrder
  <2> QED
    BY <1>1, <2>1, <2>3
<1>7. ASSUME NEW k \in 0..(n - 1), k \in S PROVE k + 1 \in S
  <2>1. k + 1 \in 0..n
    BY <1>1
  <2>2. PaidInOrder(g[k], k, book, claims, n, money)
    BY <1>7
  <2>3. g[k + 1] = PayClaim(g[k], claims[k + 1])
    BY <1>5 DEF ClaimsRun
  <2> HIDE DEF S
  <2>4. PaidInOrder(g[k + 1], k + 1, book, claims, n, money)
    <3>1. n = Len(claims)
      BY DEF n
    <3> QED
      BY <1>1, <2>2, <2>3, <3>1, PayOneClaim
  <2> QED
    BY <2>1, <2>4 DEF S
<1>8. n \in S
  <2>1. n \in 0..n
    BY <1>1
  <2> HIDE DEF S
  <2> QED
    BY <1>1, <1>6, <1>7, <2>1, Stepwise
<1>9. g[n] = PayInOrder(book, claims)
  BY <1>5 DEF ClaimsRun
<1>10. PaidInOrder(g[n], n, book, claims, n, money)
  BY <1>8
<1> QED
  BY <1>9, <1>10 DEF PaidInOrder, ClaimedBy, n

-----------------------------------------------------------------------------
\* The three stages together.

\* The ids tell tenants, rights and taxes apart.
Apart(joining, n, rights, l, taxes, m) ==
  /\ n \in Nat /\ joining \in [1..n -> Tenants] /\ DistinctIds(joining, n)
  /\ l \in Nat /\ rights \in [1..l -> RightRows] /\ DistinctIds(rights, l)
  /\ m \in Nat /\ taxes \in [1..m -> TaxRows]
  /\ \A i \in 1..n, j \in 1..l : joining[i].id # rights[j].id
  /\ \A i \in 1..n, j \in 1..m : joining[i].id # taxes[j].id
  /\ \A i \in 1..l, j \in 1..m : rights[i].id # taxes[j].id

\* The books balance, and nobody gets more than is owed.
SettledBook(b, joining, n, rights, l, taxes, m, money) ==
  /\ Balanced(b, money) /\ b.left >= 0
  /\ 2 * PaidOf(b, {"small"}, STRING) <= money
  /\ \A i \in 1..n : PaidOf(b, Stages, {joining[i].id}) <= joining[i].deposit
  /\ \A i \in 1..l : rights[i].amount # Absent => PaidOf(b, Stages, {rights[i].id}) <= rights[i].amount
  /\ \A w \in STRING :
       (\A i \in 1..n : w # joining[i].id) /\ (\A i \in 1..l : w # rights[i].id)
         /\ (\A i \in 1..m : w # taxes[i].id) => PaidOf(b, Stages, {w}) = 0

LEMMA RanksSettle ==
  ASSUME NEW n, NEW joining, NEW l, NEW rights, NEW m, NEW taxes,
         Apart(joining, n, rights, l, taxes, m), \A i \in 1..n : ~Mismatched(joining[i]),
         NEW taxIds, taxIds = {taxes[i].id : i \in 1..m}, OwnIds(joining, n, taxIds),
         NEW money \in Int, NEW book, TaxedBook(book, joining, n, taxIds, money)
  PROVE  SettledBook(PayRanks(book, joining, rights, taxes), joining, n, rights, l, taxes, m, money)
<1> DEFINE ofTenants == ClaimTenants(book, joining)
           ofRights == ClaimRights(ofTenants, rights)
           ofTaxes == ClaimTaxes(ofRights, taxes)
           claims == ByRank(ofTaxes)
           b == PayInOrder(book, claims)
<1>1. b = PayRanks(book, joining, rights, taxes)
  BY DEF PayRanks, RankedClaims
<1>2. book \in Books(STRING) /\ Balanced(book, money) /\ book.left >= 0
      /\ 2 * PaidOf(book, {"small"}, STRING) <= money
  BY DEF TaxedBook, Balanced
<1>3. TenantsClaimed(ofTenants, n, book, joining, n)
  BY <1>2, TenantsClaim
<1> HIDE DEF ofTenants
<1>4. RightsClaimed(ofRights, l, ofTenants, rights, l)
  <2>1. ofTenants \in Seq(ClaimRows)
    BY <1>3 DEF TenantsClaimed
  <2>2. \A i \in 1..l : ClaimedBy(ofTenants, rights[i].id) = 0
    BY <1>3 DEF TenantsClaimed, Apart
  <2>3. l \in Nat /\ rights \in [1..l -> RightRows] /\ DistinctIds(rights, l)
    BY DEF Apart
  <2> QED
    BY <2>1, <2>2, <2>3, RightsClaim
<1> HIDE DEF ofRights
<1>5. /\ ofTaxes \in Seq(ClaimRows)
      /\ \A w : (\A i \in 1..m : w # taxes[i].id) => ClaimedBy(ofTaxes, w) = ClaimedBy(ofRights, w)
  <2>1. ofRights \in Seq(ClaimRows)
    BY <1>4 DEF RightsClaimed
  <2>2. m \in Nat /\ taxes \in [1..m -> TaxRows]
    BY DEF Apart
  <2> QED
    BY <2>1, <2>2, TaxesClaim
<1> HIDE DEF ofTaxes
<1>6. claims \in Seq(ClaimRows) /\ \A w : ClaimedBy(claims, w) = ClaimedBy(ofTaxes, w)
  BY <1>5, RankOfClaims
<1> HIDE DEF claims
<1>7. /\ Balanced(b, money) /\ b.left >= 0
      /\ PaidOf(b, {"small"}, STRING) = PaidOf(book, {"small"}, STRING)
      /\ \A w : PaidOf(b, Stages, {w}) <= PaidOf(book, Stages, {w}) + ClaimedBy(claims, w)
  BY <1>2, <1>6, RankStage
<1> HIDE DEF b
<1>8. \A w : /\ PaidOf(b, Stages, {w}) \in Int /\ PaidOf(book, Stages, {w}) \in Int
             /\ PaidOf(b, Stages, {w}) >= 0 /\ ClaimedBy(claims, w) \in Nat
  BY <1>2, <1>6, <1>7, PaidTyped, ClaimsTyped DEF Balanced
<1>9. ASSUME NEW i \in 1..n PROVE PaidOf(b, Stages, {joining[i].id}) <= joining[i].deposit
  <2> DEFINE w == joining[i].id
  <2>1. /\ \A j \in 1..l : w # rights[j].id
        /\ \A j \in 1..m : w # taxes[j].id
        /\ n \in Nat /\ joining[i] \in Tenants
    BY DEF Apart
  <2>2. ClaimedBy(claims, w) = ClaimedBy(ofTenants, w)
    BY <1>4, <1>5, <1>6, <2>1 DEF RightsClaimed
  <2>3. ClaimedBy(ofTenants, w) <= joining[i].deposit - Got12(book, w)
    <3>1. i <= n
      BY <2>1
    <3> QED
      BY <1>3, <3>1 DEF TenantsClaimed
  <2>4. Got12(book, w) = PaidOf(book, Stages, {w})
    BY DEF TaxedBook, Got12
  <2>5. PaidOf(b, Stages, {w}) <= PaidOf(book, Stages, {w}) + ClaimedBy(claims, w)
    BY <1>7
  <2>6. joining[i].deposit \in Nat
    BY <2>1 DEF Tenants
  <2> HIDE DEF w
  <2>7. PaidOf(b, Stages, {w}) <= joining[i].deposit
    BY <1>8, <2>2, <2>3, <2>4, <2>5, <2>6
  <2> QED
    BY <2>7 DEF w
<1>10. \A w \in STRING : (\A i \in 1..n : w # joining[i].id) /\ (\A i \in 1..m : w # taxes[i].id) =>
         PaidOf(book, Stages, {w}) = 0
  BY DEF TaxedBook
<1>11. ASSUME NEW i \in 1..l, rights[i].amount # Absent
       PROVE  PaidOf(b, Stages, {rights[i].id}) <= rights[i].amount
  <2> DEFINE w == rights[i].id
  <2>1. /\ \A j \in 1..n : w # joining[j].id
        /\ \A j \in 1..m : w # taxes[j].id
        /\ l \in Nat /\ rights[i] \in RightRows
    BY DEF Apart
  <2>2. ClaimedBy(claims, w) = ClaimedBy(ofRights, w)
    BY <1>5, <1>6, <2>1
  <2>3. ClaimedBy(ofRights, w) <= rights[i].amount
    <3>1. i <= l
      BY <2>1
    <3> QED
      BY <1>4, <1>11, <3>1 DEF RightsClaimed
  <2>4. PaidOf(b, Stages, {w}) <= PaidOf(book, Stages, {w}) + ClaimedBy(claims, w)
    BY <1>7
  <2>5. rights[i].amount \in Nat /\ w \in STRING
    BY <1>11, <2>1 DEF RightRows, OptionalAmount
  <2> HIDE DEF w
  <2>6. PaidOf(book, Stages, {w}) = 0
    BY <1>10, <2>1, <2>5
  <2>7. PaidOf(b, Stages, {w}) <= rights[i].amount
    BY <1>8, <2>2, <2>3, <2>4, <2>5, <2>6
  <2> QED
    BY <2>7 DEF w
<1>12. ASSUME NEW w \in STRING, \A i \in 1..n : w # joining[i].id, \A i \in 1..l : w # rights[i].id,
              \A i \in 1..m : w # taxes[i].id
       PROVE  PaidOf(b, Stages, {w}) = 0
  <2>1. ClaimedBy(ofTenants, w) = 0
    BY <1>3, <1>12 DEF TenantsClaimed
  <2>2. ClaimedBy(claims, w) = 0
    BY <1>4, <1>5, <1>6, <1>12, <2>1 DEF RightsClaimed
  <2>3. PaidOf(book, Stages, {w}) = 0
    BY <1>10, <1>12
  <2>4. PaidOf(b, Stages, {w}) <= PaidOf(book, Stages, {w}) + ClaimedBy(claims, w)
    BY <1>7
  <2> QED
    BY <1>8, <2>2, <2>3, <2>4
<1> QED
  BY <1>1, <1>2, <1>7, <1>9, <1>11, <1>12 DEF SettledBook

\* The tenants are asked one after the other.
JoinsFit(V, tenants, n, deadline) ==
  /\ n \in Nat /\ DOMAIN tenants = 1..n /\ << >> \in V
  /\ \A v \in V, i \in 1..n : Joined(v, tenants[i], deadline) \in V
JoinsRun(g, V, tenants, n, deadline) ==
  /\ g \in [0..n -> V] /\ g[0] = << >> /\ g[n] = Join(tenants, deadline)
  /\ \A k \in 0..(n - 1) : g[k + 1] = Joined(g[k], tenants[k + 1], deadline)

LEMMA JoinsInTurn ==
  ASSUME NEW V, NEW tenants, NEW n, NEW deadline,
         JoinsFit(V, tenants, n, deadline)
  PROVE  \E g : JoinsRun(g, V, tenants, n, deadline)
<1> DEFINE D == 1..n
           steps == [p \in V \X D |-> Joined(p[1], tenants[p[2]], deadline)]
           Folds(h) == h = [s \in SUBSET D |-> IF s = {} THEN << >>
                                               ELSE Joined(h[s \ {Max(s)}], tenants[Max(s)], deadline)]
           f == CHOOSE h : Folds(h)
<1>1. \A v \in V, i \in D : Joined(v, tenants[i], deadline) \in V
  BY DEF JoinsFit
<1> n \in Nat /\ DOMAIN tenants = D /\ << >> \in V
  BY DEF JoinsFit
<1>2. Join(tenants, deadline) = f[D]
  BY DEF Join, FoldLeft, MapThenFoldSet
<1>3. steps \in [V \X D -> V] /\ \A v \in V, i \in D : steps[v, i] = Joined(v, tenants[i], deadline)
  BY <1>1
<1>4. PICK h \in [SUBSET D -> V] : FoldOver(steps, << >>, D, h)
  <2> HIDE DEF steps
  <2> QED
    BY <1>3, FoldInside
<1>5. Folds(h)
  <2>1. ASSUME NEW s \in SUBSET D, s # {}
        PROVE  steps[h[s \ {Max(s)}], Max(s)] = Joined(h[s \ {Max(s)}], tenants[Max(s)], deadline)
    <3>1. Max(s) \in D /\ h[s \ {Max(s)}] \in V
      BY <2>1, LargestPlace
    <3> HIDE DEF steps
    <3> QED
      BY <1>3, <3>1
  <2> HIDE DEF steps
  <2> QED
    BY <1>4, <2>1 DEF FoldOver
<1>6. Folds(f)
  <2> HIDE DEF Folds
  <2> QED
    BY <1>5
<1>7. f[{}] = << >> /\ \A s \in SUBSET D : s # {} =>
        f[s] = Joined(f[s \ {Max(s)}], tenants[Max(s)], deadline)
  <2> HIDE DEF f
  <2> QED
    BY <1>6
<1> HIDE DEF f, Folds, steps
<1>8. \A k \in 0..(n - 1) : f[1..(k + 1)] = Joined(f[1..k], tenants[k + 1], deadline)
  <2> TAKE k \in 0..(n - 1)
  <2>1. 1..(k + 1) \in SUBSET D /\ 1..(k + 1) # {} /\ Max(1..(k + 1)) = k + 1
        /\ (1..(k + 1)) \ {k + 1} = 1..k
    BY FirstPlaces
  <2> QED
    BY <1>7, <2>1
<1>9. \A k \in 0..n : f[1..k] \in V
  <2>1. ASSUME NEW k \in 0..(n - 1), f[1..k] \in V PROVE f[1..(k + 1)] \in V
    <3>1. k + 1 \in D
      OBVIOUS
    <3> QED
      BY <1>1, <1>8, <2>1, <3>1
  <2>2. f[{}] \in V
    BY <1>7
  <2> QED
    BY <2>1, <2>2, EachPlace
<1> DEFINE g == [k \in 0..n |-> f[1..k]]
<1>10. g \in [0..n -> V] /\ g[0] = << >> /\ g[n] = Join(tenants, deadline)
  <2>1. 1..0 = {} /\ 0 \in 0..n /\ n \in 0..n
    OBVIOUS
  <2> QED
    BY <1>2, <1>7, <1>9, <2>1
<1>11. \A k \in 0..(n - 1) : g[k + 1] = Joined(g[k], tenants[k + 1], deadline)
  <2>1. \A k \in 0..(n - 1) : k \in 0..n /\ k + 1 \in 0..n
    OBVIOUS
  <2> QED
    BY <1>8, <2>1
<1> QED
  BY <1>10, <1>11 DEF JoinsRun

\* Those who join are tenants of the file, each of them once.
JoinedFrom(v, k, tenants) ==
  /\ v \in Seq(Tenants) /\ DistinctIds(v, Len(v)) /\ Len(v) <= k
  /\ \A i \in 1..Len(v) : \E j \in 1..k : v[i] = tenants[j]

LEMMA JoinOne ==
  ASSUME NEW n \in Nat, NEW tenants \in [1..n -> Tenants], DistinctIds(tenants, n),
         NEW k \in 0..(n - 1), NEW v, JoinedFrom(v, k, tenants), NEW deadline
  PROVE  JoinedFrom(Joined(v, tenants[k + 1], deadline), k + 1, tenants)
<1> DEFINE t == tenants[k + 1]
           m == Len(v)
           more == Append(v, t)
<1>1. /\ k + 1 \in 1..n /\ t \in Tenants /\ v \in Seq(Tenants) /\ m \in Nat /\ m <= k
      /\ \A i \in 1..m : \E j \in 1..k : v[i] = tenants[j]
      /\ \A i, j \in 1..m : v[i].id = v[j].id => i = j
  BY DEF JoinedFrom, DistinctIds
<1>2. Joined(v, t, deadline) = more \/ Joined(v, t, deadline) = v
  BY DEF Joined
<1>3. JoinedFrom(v, k + 1, tenants)
  <2>1. 1..k \subseteq 1..(k + 1)
    OBVIOUS
  <2> QED
    BY <1>1, <2>1 DEF JoinedFrom
<1>4. JoinedFrom(more, k + 1, tenants)
  <2>1. /\ more \in Seq(Tenants) /\ Len(more) = m + 1
        /\ \A i \in 1..m : more[i] = v[i]
        /\ more[m + 1] = t
    BY <1>1
  <2>2. \A i \in 1..m : more[i].id # t.id
    <3> TAKE i \in 1..m
    <3>1. PICK j \in 1..k : v[i] = tenants[j]
      BY <1>1
    <3>2. j \in 1..n /\ j # k + 1
      BY <1>1
    <3> QED
      BY <1>1, <2>1, <3>1, <3>2 DEF DistinctIds
  <2>3. \A i \in 1..(m + 1) : i \in 1..m \/ i = m + 1
    BY <1>1
  <2> HIDE DEF more, t, m
  <2>4. \A i, j \in 1..(m + 1) : more[i].id = more[j].id => i = j
    BY <1>1, <2>1, <2>2, <2>3
  <2>5. \A i \in 1..(m + 1) : \E j \in 1..(k + 1) : more[i] = tenants[j]
    <3>1. 1..k \subseteq 1..(k + 1) /\ k + 1 \in 1..(k + 1)
      BY <1>1
    <3> QED
      BY <1>1, <2>1, <2>3, <3>1 DEF t
  <2>6. Len(more) <= k + 1
    BY <1>1, <2>1
  <2> QED
    BY <2>1, <2>4, <2>5, <2>6 DEF JoinedFrom, DistinctIds
<1> QED
  BY <1>2, <1>3, <1>4

LEMMA JoinsDistinct ==
  ASSUME NEW n \in Nat, NEW tenants \in [1..n -> Tenants], DistinctIds(tenants, n),
         NEW deadline
  PROVE  JoinedFrom(Join(tenants, deadline), n, tenants)
<1> DEFINE V == Seq(Tenants)
<1>1. \A v \in V, i \in 1..n : Joined(v, tenants[i], deadline) \in V
  BY DEF Joined
<1>2. << >> \in V /\ DOMAIN tenants = 1..n
  OBVIOUS
<1> HIDE DEF V
<1>3. JoinsFit(V, tenants, n, deadline)
  BY <1>1, <1>2 DEF JoinsFit
<1>4. PICK g : JoinsRun(g, V, tenants, n, deadline)
  BY <1>3, JoinsInTurn
<1> DEFINE S == {k \in 0..n : JoinedFrom(g[k], k, tenants)}
<1>5. 0 \in S
  <2>1. << >> \in Seq(Tenants) /\ Len(<< >>) = 0 /\ 1..0 = {}
    OBVIOUS
  <2>2. JoinedFrom(<< >>, 0, tenants)
    BY <2>1 DEF JoinedFrom, DistinctIds
  <2> QED
    BY <1>4, <2>2 DEF JoinsRun
<1>6. ASSUME NEW k \in 0..(n - 1), k \in S PROVE k + 1 \in S
  <2>1. JoinedFrom(g[k], k, tenants) /\ k + 1 \in 0..n
    BY <1>6
  <2>2. g[k + 1] = Joined(g[k], tenants[k + 1], deadline)
    BY <1>4 DEF JoinsRun
  <2> HIDE DEF S
  <2>3. JoinedFrom(g[k + 1], k + 1, tenants)
    BY <2>1, <2>2, JoinOne
  <2> QED
    BY <2>1, <2>3 DEF S
<1>7. n \in S
  <2>1. n \in 0..n
    OBVIOUS
  <2> HIDE DEF S
  <2> QED
    BY <1>5, <1>6, <2>1, Stepwise
<1> QED
  BY <1>4, <1>7 DEF JoinsRun

LEMMA OnlyDemandsJoin ==
  ASSUME NEW n \in Nat, NEW tenants \in [1..n -> Tenants], NEW deadline
  PROVE  \A j \in DOMAIN Join(tenants, deadline) : DemandEffective(Join(tenants, deadline)[j], deadline)
<1> DEFINE T == {t \in Tenants : DemandEffective(t, deadline)}
           V == Seq(T)
<1>1. ASSUME NEW v \in V, NEW i \in 1..n PROVE Joined(v, tenants[i], deadline) \in V
  <2>1. DemandEffective(tenants[i], deadline) => tenants[i] \in T
    OBVIOUS
  <2> HIDE DEF T
  <2> QED
    BY <2>1 DEF Joined
<1>2. << >> \in V /\ DOMAIN tenants = 1..n
  OBVIOUS
<1> HIDE DEF V
<1>3. JoinsFit(V, tenants, n, deadline)
  BY <1>1, <1>2 DEF JoinsFit
<1>4. PICK g : JoinsRun(g, V, tenants, n, deadline)
  BY <1>3, JoinsInTurn
<1>5. Join(tenants, deadline) \in V
  <2>1. n \in 0..n
    OBVIOUS
  <2> QED
    BY <1>4, <2>1 DEF JoinsRun
<1> DEFINE joining == Join(tenants, deadline)
<1> HIDE DEF joining, T
<1>6. \A j \in DOMAIN joining : joining[j] \in T
  BY <1>5 DEF V, joining
<1> QED
  BY <1>6 DEF joining, T

-----------------------------------------------------------------------------
\* The whole distribution.

LEMMA TaxesByDueDate ==
  ASSUME NEW m \in Nat, NEW taxes \in [1..m -> TaxRows]
  PROVE  /\ ByDueDate(taxes) \in [1..m -> TaxRows]
         /\ \A i \in 1..m : ByDueDate(taxes)[i].id \in {taxes[j].id : j \in 1..m}
<1> DEFINE dates == [i \in 1..m |-> taxes[i].statutory]
           p == [k \in 1..m |-> Ranked(dates, k)]
<1>1. ByDueDate(taxes) = [k \in 1..m |-> taxes[Ranked(dates, k)]]
  BY DEF ByDueDate, SortedBy
<1>2. dates \in [1..m -> Dates]
  BY DEF TaxRows, Dates
<1> HIDE DEF dates
<1>3. Permutes(p, m)
  BY <1>2, SortingPermutes
<1>4. \A k \in 1..m : Ranked(dates, k) \in 1..m
  BY <1>3 DEF Permutes
<1> QED
  BY <1>1, <1>4

LEMMA EverybodySettled ==
  ASSUME NEW n, NEW joining, NEW l, NEW rights, NEW m, NEW taxes,
         Apart(joining, n, rights, l, taxes, m), \A i \in 1..n : ~Mismatched(joining[i]),
         NEW f, f.rights = rights, f.taxes = taxes, f.region \in 1..4,
         NEW rule, n > 0 => rule \in Tables, NEW money \in Nat
  PROVE  SettledBook(PayAll(f, joining, rule, money), joining, n, rights, l, taxes, m, money)
<1> DEFINE taxIds == {taxes[i].id : i \in 1..m}
           small == PaySmallDeposits(StartBook(money), joining, rule, f.region)
           taxed == PayTaxes(small, ByDueDate(taxes), joining, ReliefApplies(f.decided))
<1>1. /\ n \in Nat /\ joining \in [1..n -> Tenants] /\ DistinctIds(joining, n)
      /\ m \in Nat /\ taxes \in [1..m -> TaxRows]
      /\ \A i \in 1..n, j \in 1..m : joining[i].id # taxes[j].id
  BY DEF Apart
<1>2. PayAll(f, joining, rule, money) = PayRanks(taxed, joining, rights, taxes)
  BY DEF PayAll, StartBook
<1>3. OwnIds(joining, n, taxIds)
  <2>1. taxIds \in SUBSET STRING
    BY <1>1 DEF TaxRows
  <2> QED
    BY <1>1, <2>1 DEF OwnIds
<1>4. AfterSmall(small, joining, n, money)
  BY <1>1, SmallStage
<1> HIDE DEF small, taxIds
<1>5. TaxedBook(small, joining, n, taxIds, money)
  BY <1>4, SmallThenTaxes
<1>6. TaxedBook(taxed, joining, n, taxIds, money)
  <2> DEFINE sorted == ByDueDate(taxes)
             applies == ReliefApplies(f.decided)
  <2>1. sorted \in [1..m -> TaxRows] /\ \A i \in 1..m : sorted[i].id \in taxIds
    BY <1>1, TaxesByDueDate DEF taxIds
  <2>2. money \in Int
    OBVIOUS
  <2> HIDE DEF sorted, applies
  <2>3. TaxedBook(PayTaxes(small, sorted, joining, applies), joining, n, taxIds, money)
    BY <1>1, <1>3, <1>5, <2>1, <2>2, TaxStage
  <2> QED
    BY <2>3 DEF sorted, applies
<1> HIDE DEF taxed
<1>7. money \in Int /\ taxIds = {taxes[i].id : i \in 1..m}
  BY DEF taxIds
<1>8. SettledBook(PayRanks(taxed, joining, rights, taxes), joining, n, rights, l, taxes, m, money)
  BY <1>3, <1>6, <1>7, RanksSettle
<1> QED
  BY <1>2, <1>8

LEMMA DecreesTyped ==
  ASSUME NEW date, ApplicableRule(date) # Absent
  PROVE  ApplicableRule(date) \in Tables
<1> DEFINE inForce == {i \in DOMAIN SmallDepositRules : SmallDepositRules[i].from <= date}
<1>1. DOMAIN SmallDepositRules = 1..12
  BY DEF SmallDepositRules
<1>2. \A i \in 1..12 : SmallDepositRules[i] \in Tables
  BY DEF SmallDepositRules, Decree, Tables
<1>3. inForce # {} /\ ApplicableRule(date) = SmallDepositRules[Max(inForce)]
  BY DEF ApplicableRule
<1>4. inForce \in SUBSET (1..12)
  BY <1>1
<1> HIDE DEF inForce
<1>5. Max(inForce) \in inForce
  BY <1>3, <1>4, LargestPlace
<1> QED
  BY <1>2, <1>3, <1>4, <1>5

LEMMA BookSums ==
  ASSUME NEW book \in Books(STRING)
  PROVE  /\ SumAll([i \in DOMAIN book.entries |-> book.entries[i].amount]) =
              PaidOf(book, Stages, STRING)
         /\ SumAll([i \in DOMAIN book.entries |->
                      IF book.entries[i].stage = "small" THEN book.entries[i].amount ELSE 0]) =
              PaidOf(book, {"small"}, STRING)
<1> DEFINE es == book.entries
           n == Len(es)
           all == PaidAt(es, Stages, STRING)
           small == PaidAt(es, {"small"}, STRING)
<1>1. /\ n \in Nat /\ DOMAIN es = 1..n /\ all \in [1..n -> Int] /\ small \in [1..n -> Int]
      /\ \A i \in 1..n : es[i] \in Entries(STRING)
  BY PaidTyped
<1>2. \A i \in 1..n : es[i].stage \in Stages /\ es[i].to \in STRING
  BY <1>1 DEF Entries
<1>3. all = [i \in DOMAIN es |-> es[i].amount]
  BY <1>1, <1>2 DEF PaidAt
<1>4. small = [i \in DOMAIN es |-> IF es[i].stage = "small" THEN es[i].amount ELSE 0]
  BY <1>1, <1>2 DEF PaidAt
<1>5. PaidOf(book, Stages, STRING) = SumIn(all, n, 1..n)
      /\ PaidOf(book, {"small"}, STRING) = SumIn(small, n, 1..n)
  BY DEF PaidOf
<1> HIDE DEF all, small, n, es
<1>6. SumAll(all) = SumIn(all, n, 1..n)
  BY <1>1, SumAllIs
<1>7. SumAll(small) = SumIn(small, n, 1..n)
  BY <1>1, SumAllIs
<1> QED
  BY <1>3, <1>4, <1>5, <1>6, <1>7 DEF es

\* What a distribution must leave true of a file.
Conserved(f, d) ==
  /\ d.book \in Books(STRING) /\ d.book.left >= 0
  /\ d.book.left + PaidOf(d.book, Stages, STRING) = d.afterCosts
  /\ 2 * PaidOf(d.book, {"small"}, STRING) <= d.afterCosts
  /\ \A i \in DOMAIN f.tenants : PaidOf(d.book, Stages, {f.tenants[i].id}) <= f.tenants[i].deposit
  /\ \A i \in DOMAIN f.rights : f.rights[i].amount # Absent =>
       PaidOf(d.book, Stages, {f.rights[i].id}) <= f.rights[i].amount
  /\ \A S, T : 0 <= PaidOf(d.book, S, T)
  /\ \A i \in DOMAIN f.tenants : ~DemandEffective(f.tenants[i], f.deadline) =>
       PaidOf(d.book, Stages, {f.tenants[i].id}) = 0

LEMMA FileTyped ==
  ASSUME NEW f \in SaleFiles, IdsApart(f)
  PROVE  \E n, l, m \in Nat :
           /\ f.tenants \in [1..n -> Tenants] /\ DistinctIds(f.tenants, n)
           /\ f.rights \in [1..l -> RightRows] /\ DistinctIds(f.rights, l)
           /\ f.taxes \in [1..m -> TaxRows]
           /\ \A i \in 1..n, j \in 1..l : f.tenants[i].id # f.rights[j].id
           /\ \A i \in 1..n, j \in 1..m : f.tenants[i].id # f.taxes[j].id
           /\ \A i \in 1..l, j \in 1..m : f.rights[i].id # f.taxes[j].id
<1> DEFINE n == Len(f.tenants)
           l == Len(f.rights)
           m == Len(f.taxes)
<1>1. f.tenants \in Seq(Tenants) /\ f.rights \in Seq(RightRows) /\ f.taxes \in Seq(TaxRows)
  BY DEF SaleFiles
<1>2. /\ n \in Nat /\ f.tenants \in [1..n -> Tenants] /\ DOMAIN f.tenants = 1..n
      /\ l \in Nat /\ f.rights \in [1..l -> RightRows] /\ DOMAIN f.rights = 1..l
      /\ m \in Nat /\ f.taxes \in [1..m -> TaxRows] /\ DOMAIN f.taxes = 1..m
  BY <1>1
<1> HIDE DEF n, l, m
<1>3. DistinctIds(f.tenants, n) /\ DistinctIds(f.rights, l)
  BY <1>2 DEF IdsApart, OneEach, DistinctIds
<1>4. /\ \A i \in 1..n, j \in 1..l : f.tenants[i].id # f.rights[j].id
      /\ \A i \in 1..n, j \in 1..m : f.tenants[i].id # f.taxes[j].id
      /\ \A i \in 1..l, j \in 1..m : f.rights[i].id # f.taxes[j].id
  <2>1. /\ \A i \in 1..n : f.tenants[i].id \in IdsOf(f.tenants)
        /\ \A i \in 1..l : f.rights[i].id \in IdsOf(f.rights)
        /\ \A i \in 1..m : f.taxes[i].id \in IdsOf(f.taxes)
    BY <1>2 DEF IdsOf
  <2> QED
    BY <2>1 DEF IdsApart
<1> QED
  BY <1>2, <1>3, <1>4

LEMMA DistributionConserves ==
  ASSUME NEW f \in SaleFiles, IdsApart(f), f.sale # Absent, NEW baseline,
         Distribute(f, baseline) # Absent
  PROVE  Conserved(f, Distribute(f, baseline))
<1>1. PICK n, l, m \in Nat :
           /\ f.tenants \in [1..n -> Tenants] /\ DistinctIds(f.tenants, n)
           /\ f.rights \in [1..l -> RightRows] /\ DistinctIds(f.rights, l)
           /\ f.taxes \in [1..m -> TaxRows]
           /\ \A i \in 1..n, j \in 1..l : f.tenants[i].id # f.rights[j].id
           /\ \A i \in 1..n, j \in 1..m : f.tenants[i].id # f.taxes[j].id
           /\ \A i \in 1..l, j \in 1..m : f.rights[i].id # f.taxes[j].id
  BY FileTyped
<1> DEFINE joining == Join(f.tenants, f.deadline)
           o == Len(joining)
           rule == ApplicableRule(MortgageReference(f.rights))
           money == Most(0, f.sale - f.cost)
           book == PayAll(f, joining, rule, money)
           d == Distribute(f, baseline)
<1>2. JoinedFrom(joining, n, f.tenants)
  BY <1>1, JoinsDistinct
<1>3. /\ o \in Nat /\ joining \in [1..o -> Tenants] /\ DistinctIds(joining, o)
      /\ DOMAIN joining = 1..o /\ joining \in Seq(Tenants)
      /\ \A i \in 1..o : \E j \in 1..n : joining[i] = f.tenants[j]
      /\ \A i \in DOMAIN joining : DemandEffective(joining[i], f.deadline)
  <2>1. \A i \in DOMAIN joining : DemandEffective(joining[i], f.deadline)
    BY <1>1, OnlyDemandsJoin
  <2> HIDE DEF joining
  <2> QED
    BY <1>2, <2>1 DEF JoinedFrom
<1>4. d = DistributeAmong(f, baseline, joining, rule, money)
  BY DEF Distribute
<1>5. money \in Nat
  <2>1. f.sale \in Int /\ f.cost \in Int
    BY DEF SaleFiles
  <2> QED
    BY <2>1 DEF Most
<1> HIDE DEF joining, rule, money, o
<1>6. /\ joining # << >> => rule # Absent
      /\ \A i \in 1..o : ~Mismatched(joining[i])
      /\ d = Outcome(f, baseline, money, book)
  BY <1>3, <1>4 DEF DistributeAmong
<1>7. d.book = book /\ d.afterCosts = money
  BY <1>6 DEF Outcome
<1>8. o > 0 => rule \in Tables
  <2>1. o > 0 => joining # << >>
    BY <1>3
  <2> QED
    BY <1>6, <2>1, DecreesTyped DEF rule
<1>9. Apart(joining, o, f.rights, l, f.taxes, m)
  <2>1. ASSUME NEW i \in 1..o
        PROVE  /\ \A j \in 1..l : joining[i].id # f.rights[j].id
               /\ \A j \in 1..m : joining[i].id # f.taxes[j].id
    <3>1. PICK k \in 1..n : joining[i] = f.tenants[k]
      BY <1>3
    <3> QED
      BY <1>1, <3>1
  <2> QED
    BY <1>1, <1>3, <2>1 DEF Apart
<1>10. f.region \in 1..4
  BY DEF SaleFiles
<1> HIDE DEF book, d
<1>11. SettledBook(book, joining, o, f.rights, l, f.taxes, m, money)
  BY <1>5, <1>6, <1>8, <1>9, <1>10, EverybodySettled DEF book
<1>12. /\ Balanced(book, money) /\ book.left >= 0
       /\ 2 * PaidOf(book, {"small"}, STRING) <= money
       /\ \A i \in 1..o : PaidOf(book, Stages, {joining[i].id}) <= joining[i].deposit
       /\ \A i \in 1..l : f.rights[i].amount # Absent =>
            PaidOf(book, Stages, {f.rights[i].id}) <= f.rights[i].amount
       /\ \A w \in STRING :
            (\A i \in 1..o : w # joining[i].id) /\ (\A i \in 1..l : w # f.rights[i].id)
              /\ (\A i \in 1..m : w # f.taxes[i].id) => PaidOf(book, Stages, {w}) = 0
  BY <1>11 DEF SettledBook
<1>13. ASSUME NEW i \in 1..n
       PROVE  /\ PaidOf(book, Stages, {f.tenants[i].id}) <= f.tenants[i].deposit
              /\ ~DemandEffective(f.tenants[i], f.deadline) =>
                   PaidOf(book, Stages, {f.tenants[i].id}) = 0
  <2> DEFINE t == f.tenants[i]
  <2>1. t \in Tenants /\ t.id \in STRING /\ t.deposit \in Nat
    BY <1>1 DEF Tenants
  <2>2. CASE \E j \in 1..o : joining[j].id = t.id
    <3>1. PICK j \in 1..o : joining[j].id = t.id
      BY <2>2
    <3>2. PICK k \in 1..n : joining[j] = f.tenants[k]
      BY <1>3
    <3>3. k = i
      BY <1>1, <3>1, <3>2 DEF DistinctIds
    <3> QED
      BY <1>3, <1>12, <3>2, <3>3
  <2>3. CASE \A j \in 1..o : t.id # joining[j].id
    <3>1. PaidOf(book, Stages, {t.id}) = 0
      BY <1>1, <1>12, <2>1, <2>3
    <3> QED
      BY <2>1, <3>1
  <2> QED
    BY <2>2, <2>3
<1>14. DOMAIN f.tenants = 1..n /\ DOMAIN f.rights = 1..l
  BY <1>1
<1>15. /\ book \in Books(STRING) /\ book.left + PaidOf(book, Stages, STRING) = money
       /\ \A S, T : 0 <= PaidOf(book, S, T)
  BY <1>12 DEF Balanced
<1>16. Conserved(f, d)
  BY <1>7, <1>12, <1>13, <1>14, <1>15 DEF Conserved
<1> QED
  BY <1>16 DEF d

-----------------------------------------------------------------------------
\* Every file of a behavior.

\* The file is well formed, and the report is that of the file.
AnalysisInv == file \in SaleFiles /\ IdsApart(file) /\ analysis = Analyze(file)

\* A change of no id keeps the ids apart.
SameIds(rows, others) ==
  DOMAIN rows = DOMAIN others /\ \A i \in DOMAIN rows : rows[i].id = others[i].id

LEMMA IdsStayApart ==
  ASSUME NEW f, NEW g, IdsApart(f), SameIds(g.tenants, f.tenants),
         SameIds(g.rights, f.rights), SameIds(g.taxes, f.taxes)
  PROVE  IdsApart(g)
<1>1. ASSUME NEW a, NEW b, SameIds(a, b)
      PROVE  IdsOf(a) = IdsOf(b) /\ (OneEach(b) => OneEach(a))
  BY <1>1 DEF SameIds, IdsOf, OneEach
<1>2. IdsOf(g.tenants) = IdsOf(f.tenants) /\ (OneEach(f.tenants) => OneEach(g.tenants))
  BY <1>1
<1>3. IdsOf(g.rights) = IdsOf(f.rights) /\ (OneEach(f.rights) => OneEach(g.rights))
  BY <1>1
<1>4. IdsOf(g.taxes) = IdsOf(f.taxes)
  BY <1>1
<1> QED
  BY <1>2, <1>3, <1>4 DEF IdsApart

\* A changed row in a list, a changed field of a file.
LEMMA RowReplaced ==
  ASSUME NEW S, NEW rows \in Seq(S), NEW i \in DOMAIN rows, NEW row \in S, row.id = rows[i].id
  PROVE  [rows EXCEPT ![i] = row] \in Seq(S) /\ SameIds([rows EXCEPT ![i] = row], rows)
BY DEF SameIds

LEMMA FieldReplaced ==
  ASSUME NEW f \in SaleFiles
  PROVE  /\ \A sale \in Int \union {Absent} :
              LET g == [[f EXCEPT !.sale = sale] EXCEPT !.changes = @ + 1]
              IN  /\ g \in SaleFiles
                  /\ g.tenants = f.tenants /\ g.rights = f.rights /\ g.taxes = f.taxes
         /\ \A tenants \in Seq(Tenants) :
              LET g == [[f EXCEPT !.tenants = tenants] EXCEPT !.changes = @ + 1]
              IN  /\ g \in SaleFiles
                  /\ g.tenants = tenants /\ g.rights = f.rights /\ g.taxes = f.taxes
         /\ \A taxes \in Seq(TaxRows) :
              LET g == [[f EXCEPT !.taxes = taxes] EXCEPT !.changes = @ + 1]
              IN  /\ g \in SaleFiles
                  /\ g.tenants = f.tenants /\ g.rights = f.rights /\ g.taxes = taxes
<1> DEFINE R == Seq(RightRows)
           T == Seq(Tenants)
           X == Seq(TaxRows)
<1>1. SaleFiles = [rights : R, tenants : T, taxes : X, region : 1..4, deadline : Int,
                   decided : Dates, sale : Int \union {Absent}, cost : Int,
                   kind : STRING \union {Absent}, changes : Nat]
  BY DEF SaleFiles
<1> HIDE DEF R, T, X
<1>2. \A h \in SaleFiles :
        LET g == [h EXCEPT !.changes = @ + 1]
        IN  /\ g \in SaleFiles
            /\ g.tenants = h.tenants /\ g.rights = h.rights /\ g.taxes = h.taxes
  BY <1>1
<1>3. ASSUME NEW sale \in Int \union {Absent}
      PROVE  LET g == [[f EXCEPT !.sale = sale] EXCEPT !.changes = @ + 1]
             IN  /\ g \in SaleFiles
                 /\ g.tenants = f.tenants /\ g.rights = f.rights /\ g.taxes = f.taxes
  <2> DEFINE h == [f EXCEPT !.sale = sale]
  <2>1. /\ h \in SaleFiles
        /\ h.tenants = f.tenants /\ h.rights = f.rights /\ h.taxes = f.taxes
    BY <1>1
  <2> HIDE DEF h
  <2>2. LET g == [h EXCEPT !.changes = @ + 1]
        IN  /\ g \in SaleFiles
            /\ g.tenants = f.tenants /\ g.rights = f.rights /\ g.taxes = f.taxes
    BY <1>2, <2>1
  <2> QED
    BY <2>2 DEF h
<1>4. ASSUME NEW tenants \in T
      PROVE  LET g == [[f EXCEPT !.tenants = tenants] EXCEPT !.changes = @ + 1]
             IN  /\ g \in SaleFiles
                 /\ g.tenants = tenants /\ g.rights = f.rights /\ g.taxes = f.taxes
  <2> DEFINE h == [f EXCEPT !.tenants = tenants]
  <2>1. /\ h \in SaleFiles
        /\ h.tenants = tenants /\ h.rights = f.rights /\ h.taxes = f.taxes
    BY <1>1
  <2> HIDE DEF h
  <2>2. LET g == [h EXCEPT !.changes = @ + 1]
        IN  /\ g \in SaleFiles
            /\ g.tenants = tenants /\ g.rights = f.rights /\ g.taxes = f.taxes
    BY <1>2, <2>1
  <2> QED
    BY <2>2 DEF h
<1>5. ASSUME NEW taxes \in X
      PROVE  LET g == [[f EXCEPT !.taxes = taxes] EXCEPT !.changes = @ + 1]
             IN  /\ g \in SaleFiles
                 /\ g.tenants = f.tenants /\ g.rights = f.rights /\ g.taxes = taxes
  <2> DEFINE h == [f EXCEPT !.taxes = taxes]
  <2>1. /\ h \in SaleFiles
        /\ h.tenants = f.tenants /\ h.rights = f.rights /\ h.taxes = taxes
    BY <1>1
  <2> HIDE DEF h
  <2>2. LET g == [h EXCEPT !.changes = @ + 1]
        IN  /\ g \in SaleFiles
            /\ g.tenants = f.tenants /\ g.rights = f.rights /\ g.taxes = taxes
    BY <1>2, <2>1
  <2> QED
    BY <2>2 DEF h
<1> QED
  BY <1>3, <1>4, <1>5 DEF T, X

LEMMA RaisedTyped ==
  ASSUME NEW tenant \in Tenants, NEW amount \in Nat, NEW day \in Dates, NEW split \in BOOLEAN
  PROVE  /\ Raised(tenant, amount, day, split) \in Tenants
         /\ Raised(tenant, amount, day, split).id = tenant.id
<1> DEFINE first == [amount |-> tenant.deposit, fixed |-> tenant.fixed]
           raise == [amount |-> amount, fixed |-> day]
           parts == PartsOf(tenant)
           new == IF split THEN Append(parts, raise) ELSE parts
           deposit == tenant.deposit + amount
<1>1. /\ tenant.deposit \in Nat /\ tenant.fixed \in Dates /\ tenant.tranches \in Seq(Parts)
      /\ deposit \in Nat
  BY DEF Tenants
<1>2. first \in Parts /\ raise \in Parts
  BY <1>1 DEF Parts
<1>3. parts = << first >> \/ parts = tenant.tranches
  BY DEF PartsOf
<1>4. Raised(tenant, amount, day, split) = [tenant EXCEPT !.deposit = deposit, !.tranches = new]
  BY DEF Raised
<1> HIDE DEF first, raise, parts, deposit
<1>5. << first >> \in Seq(Parts)
  BY <1>2
<1>6. parts \in Seq(Parts)
  BY <1>1, <1>3, <1>5
<1>7. new \in Seq(Parts)
  BY <1>2, <1>6
<1> DEFINE P == Seq(Parts)
<1>8. new \in P
  BY <1>7
<1>9. Tenants = [id : STRING, moveIn : Int, fixed : Dates, deposit : Nat, tranches : P,
                 demanded : BOOLEAN, demandedOn : Dates]
  BY DEF Tenants
<1> HIDE DEF P, new
<1>10. [tenant EXCEPT !.deposit = deposit] \in Tenants
       /\ [tenant EXCEPT !.deposit = deposit].id = tenant.id
  BY <1>1, <1>9
<1> DEFINE richer == [tenant EXCEPT !.deposit = deposit]
<1> HIDE DEF richer
<1>11. [richer EXCEPT !.tranches = new] \in Tenants
       /\ [richer EXCEPT !.tranches = new].id = tenant.id
  BY <1>8, <1>9, <1>10 DEF richer
<1> QED
  BY <1>4, <1>11 DEF richer

LEMMA FilesStayTyped ==
  ASSUME file \in SaleFiles, IdsApart(file),
         RaiseSale \/ FileDemand \/ LearnTax \/ RaiseDeposit
  PROVE  file' \in SaleFiles /\ IdsApart(file')
<1>1. /\ file.tenants \in Seq(Tenants) /\ file.rights \in Seq(RightRows)
      /\ file.taxes \in Seq(TaxRows) /\ file.sale \in Int \union {Absent}
  BY DEF SaleFiles
<1>2. \A rows : SameIds(rows, rows)
  BY DEF SameIds
<1>3. \A i \in DOMAIN file.tenants : file.tenants[i] \in Tenants
  BY <1>1
<1>4. CASE RaiseSale
  <2> DEFINE sale == IF file.sale = Absent THEN PriceStep ELSE file.sale + PriceStep
  <2>1. file' = [[file EXCEPT !.sale = sale] EXCEPT !.changes = @ + 1]
    BY <1>4 DEF RaiseSale, Change
  <2>2. sale \in Int \union {Absent}
    BY <1>1, ChangesAssumption
  <2> HIDE DEF sale
  <2>3. /\ file' \in SaleFiles
        /\ file'.tenants = file.tenants /\ file'.rights = file.rights /\ file'.taxes = file.taxes
    BY <2>1, <2>2, FieldReplaced
  <2> QED
    BY <1>2, <2>3, IdsStayApart
<1>5. CASE FileDemand
  <2>1. PICK i \in DOMAIN file.tenants, day \in DemandDays :
          file' = [[file EXCEPT !.tenants[i].demanded = TRUE, !.tenants[i].demandedOn = day]
                     EXCEPT !.changes = @ + 1]
    BY <1>5 DEF FileDemand, Change
  <2> DEFINE row == [file.tenants[i] EXCEPT !.demanded = TRUE, !.demandedOn = day]
             new == [file.tenants EXCEPT ![i] = row]
  <2>2. row \in Tenants /\ row.id = file.tenants[i].id
    <3>1. day \in Dates
      BY ChangesAssumption DEF Dates
    <3> DEFINE P == Seq(Parts)
    <3> HIDE DEF P
    <3>2. Tenants = [id : STRING, moveIn : Int, fixed : Dates, deposit : Nat, tranches : P,
                     demanded : BOOLEAN, demandedOn : Dates]
      BY DEF Tenants, P
    <3> QED
      BY <1>3, <3>1, <3>2
  <2>3. file' = [[file EXCEPT !.tenants = new] EXCEPT !.changes = @ + 1]
    BY <2>1
  <2> HIDE DEF row
  <2>4. new \in Seq(Tenants) /\ SameIds(new, file.tenants)
    BY <1>1, <2>2, RowReplaced
  <2> HIDE DEF new
  <2>5. /\ file' \in SaleFiles
        /\ file'.tenants = new /\ file'.rights = file.rights /\ file'.taxes = file.taxes
    BY <2>3, <2>4, FieldReplaced
  <2> QED
    BY <1>2, <2>4, <2>5, IdsStayApart
<1>6. CASE LearnTax
  <2>1. PICK i \in DOMAIN file.taxes, amount \in TaxAmounts :
          file' = [[file EXCEPT !.taxes[i].amount = amount] EXCEPT !.changes = @ + 1]
    BY <1>6 DEF LearnTax, Change
  <2> DEFINE row == [file.taxes[i] EXCEPT !.amount = amount]
             new == [file.taxes EXCEPT ![i] = row]
  <2>2. row \in TaxRows /\ row.id = file.taxes[i].id
    <3>1. amount \in OptionalAmount
      BY ChangesAssumption DEF OptionalAmount
    <3>2. file.taxes[i] \in TaxRows
      BY <1>1
    <3> QED
      BY <3>1, <3>2 DEF TaxRows
  <2>3. file' = [[file EXCEPT !.taxes = new] EXCEPT !.changes = @ + 1]
    BY <2>1
  <2> HIDE DEF row
  <2>4. new \in Seq(TaxRows) /\ SameIds(new, file.taxes)
    BY <1>1, <2>2, RowReplaced
  <2> HIDE DEF new
  <2>5. /\ file' \in SaleFiles
        /\ file'.tenants = file.tenants /\ file'.rights = file.rights /\ file'.taxes = new
    BY <2>3, <2>4, FieldReplaced
  <2> QED
    BY <1>2, <2>4, <2>5, IdsStayApart
<1>7. CASE RaiseDeposit
  <2>1. PICK i \in DOMAIN file.tenants, amount \in RaiseAmounts, day \in RaiseDays,
             split \in BOOLEAN :
          file' = [[file EXCEPT !.tenants[i] = Raised(@, amount, day, split)]
                     EXCEPT !.changes = @ + 1]
    BY <1>7 DEF RaiseDeposit, Change
  <2> DEFINE row == Raised(file.tenants[i], amount, day, split)
             new == [file.tenants EXCEPT ![i] = row]
  <2>2. row \in Tenants /\ row.id = file.tenants[i].id
    <3>1. amount \in Nat /\ day \in Dates
      BY ChangesAssumption DEF Dates
    <3> QED
      BY <1>3, <3>1, RaisedTyped
  <2>3. file' = [[file EXCEPT !.tenants = new] EXCEPT !.changes = @ + 1]
    BY <2>1
  <2> HIDE DEF row
  <2>4. new \in Seq(Tenants) /\ SameIds(new, file.tenants)
    BY <1>1, <2>2, RowReplaced
  <2> HIDE DEF new
  <2>5. /\ file' \in SaleFiles
        /\ file'.tenants = new /\ file'.rights = file.rights /\ file'.taxes = file.taxes
    BY <2>3, <2>4, FieldReplaced
  <2> QED
    BY <1>2, <2>4, <2>5, IdsStayApart
<1> QED
  BY <1>4, <1>5, <1>6, <1>7

LEMMA ReportsConserve ==
  ASSUME AnalysisInv
  PROVE  MoneyConserved
<1> SUFFICES ASSUME Distributed PROVE MoneyConserved
  BY DEF MoneyConserved
<1> DEFINE d == analysis.distribution
           baseline == BaselineDate(file.rights)
           es == d.book.entries
<1>1. d = Distribute(file, baseline) /\ d # Absent /\ file.sale # Absent
  BY DEF AnalysisInv, Distributed, Analyze, ReportOf, ReportOfTenants, Report, Failed
<1>2. Conserved(file, d)
  BY <1>1, DistributionConserves DEF AnalysisInv
<1> HIDE DEF d
<1>3. d.book \in Books(STRING)
  BY <1>2 DEF Conserved
<1>4. /\ SumAll([i \in DOMAIN es |-> es[i].amount]) = PaidOf(d.book, Stages, STRING)
      /\ SumAll([i \in DOMAIN es |-> IF es[i].stage = "small" THEN es[i].amount ELSE 0]) =
           PaidOf(d.book, {"small"}, STRING)
  BY <1>3, BookSums
<1>5. \A w : PaidTo(analysis, w) = PaidOf(d.book, Stages, {w})
  BY <1>3, ReceivedIsPaid DEF PaidTo, Stages, d
<1>6. MoneyConserved
  BY <1>2, <1>4, <1>5 DEF MoneyConserved, Conserved, SumOf, d
<1> QED
  BY <1>6

\* A file stays typed, its ids apart, and its analysis is the one of the file.
LEMMA FileStaysAnalysed == AnalysisSpec => []AnalysisInv
<1>1. AnalysisInit => AnalysisInv
  BY FilesAssumption DEF AnalysisInit, AnalysisInv
<1>2. AnalysisInv /\ [AnalysisNext]_analysisVars => AnalysisInv'
  <2> SUFFICES ASSUME AnalysisInv, [AnalysisNext]_analysisVars PROVE AnalysisInv'
    OBVIOUS
  <2>1. CASE AnalysisNext
    <3>1. file' \in SaleFiles /\ IdsApart(file')
      BY <2>1, FilesStayTyped DEF AnalysisInv, AnalysisNext
    <3> QED
      BY <2>1, <3>1 DEF AnalysisInv, AnalysisNext
  <2>2. CASE UNCHANGED analysisVars
    BY <2>2 DEF AnalysisInv, analysisVars
  <2> QED
    BY <2>1, <2>2
<1> QED
  BY <1>1, <1>2, PTL DEF AnalysisSpec

\* No payment of a distribution makes money, and nobody is paid more than is
\* owed, whatever rights, tenants and taxes a file has and whatever its reader
\* changes (distribution.ts).
THEOREM BooksBalance == AnalysisSpec => []MoneyConserved
<1>1. AnalysisSpec => []AnalysisInv
  BY FileStaysAnalysed
<1>2. AnalysisInv => MoneyConserved
  BY ReportsConserve
<1> QED
  BY <1>1, <1>2, PTL

-----------------------------------------------------------------------------
\* The rows of the notice.

\* The rows are read one after the other.
TakenFrom(start, rows) == FoldLeft(TakeOwn, start, rows)
TakesFit(V, start, rows, n) ==
  /\ n \in Nat /\ DOMAIN rows = 1..n /\ start \in V
  /\ \A v \in V, i \in 1..n : TakeOwn(v, rows[i]) \in V
TakesRun(g, V, start, rows, n) ==
  /\ g \in [0..n -> V] /\ g[0] = start /\ g[n] = TakenFrom(start, rows)
  /\ \A k \in 0..(n - 1) : g[k + 1] = TakeOwn(g[k], rows[k + 1])

LEMMA TakesInTurn ==
  ASSUME NEW V, NEW start, NEW rows, NEW n,
         TakesFit(V, start, rows, n)
  PROVE  \E g : TakesRun(g, V, start, rows, n)
<1> DEFINE D == 1..n
           steps == [p \in V \X D |-> TakeOwn(p[1], rows[p[2]])]
           Folds(h) == h = [s \in SUBSET D |-> IF s = {} THEN start
                                               ELSE TakeOwn(h[s \ {Max(s)}], rows[Max(s)])]
           f == CHOOSE h : Folds(h)
<1>1. \A v \in V, i \in D : TakeOwn(v, rows[i]) \in V
  BY DEF TakesFit
<1> n \in Nat /\ DOMAIN rows = D /\ start \in V
  BY DEF TakesFit
<1>2. TakenFrom(start, rows) = f[D]
  BY DEF TakenFrom, FoldLeft, MapThenFoldSet
<1>3. steps \in [V \X D -> V] /\ \A v \in V, i \in D : steps[v, i] = TakeOwn(v, rows[i])
  BY <1>1
<1>4. PICK h \in [SUBSET D -> V] : FoldOver(steps, start, D, h)
  <2> HIDE DEF steps
  <2> QED
    BY <1>3, FoldInside
<1>5. Folds(h)
  <2>1. ASSUME NEW s \in SUBSET D, s # {}
        PROVE  steps[h[s \ {Max(s)}], Max(s)] = TakeOwn(h[s \ {Max(s)}], rows[Max(s)])
    <3>1. Max(s) \in D /\ h[s \ {Max(s)}] \in V
      BY <2>1, LargestPlace
    <3> HIDE DEF steps
    <3> QED
      BY <1>3, <3>1
  <2> HIDE DEF steps
  <2> QED
    BY <1>4, <2>1 DEF FoldOver
<1>6. Folds(f)
  <2> HIDE DEF Folds
  <2> QED
    BY <1>5
<1>7. f[{}] = start /\ \A s \in SUBSET D : s # {} =>
        f[s] = TakeOwn(f[s \ {Max(s)}], rows[Max(s)])
  <2> HIDE DEF f
  <2> QED
    BY <1>6
<1> HIDE DEF f, Folds, steps
<1>8. \A k \in 0..(n - 1) : f[1..(k + 1)] = TakeOwn(f[1..k], rows[k + 1])
  <2> TAKE k \in 0..(n - 1)
  <2>1. 1..(k + 1) \in SUBSET D /\ 1..(k + 1) # {} /\ Max(1..(k + 1)) = k + 1
        /\ (1..(k + 1)) \ {k + 1} = 1..k
    BY FirstPlaces
  <2> QED
    BY <1>7, <2>1
<1>9. \A k \in 0..n : f[1..k] \in V
  <2>1. ASSUME NEW k \in 0..(n - 1), f[1..k] \in V PROVE f[1..(k + 1)] \in V
    <3>1. k + 1 \in D
      OBVIOUS
    <3> QED
      BY <1>1, <1>8, <2>1, <3>1
  <2>2. f[{}] \in V
    BY <1>7
  <2> QED
    BY <2>1, <2>2, EachPlace
<1> DEFINE g == [k \in 0..n |-> f[1..k]]
<1>10. g \in [0..n -> V] /\ g[0] = start /\ g[n] = TakenFrom(start, rows)
  <2>1. 1..0 = {} /\ 0 \in 0..n /\ n \in 0..n
    OBVIOUS
  <2> QED
    BY <1>2, <1>7, <1>9, <2>1
<1>11. \A k \in 0..(n - 1) : g[k + 1] = TakeOwn(g[k], rows[k + 1])
  <2>1. \A k \in 0..(n - 1) : k \in 0..n /\ k + 1 \in 0..n
    OBVIOUS
  <2> QED
    BY <1>8, <2>1
<1> QED
  BY <1>10, <1>11 DEF TakesRun

\* A row of the notice, and a person made of rows.
Sources == {"claim", "survey", "register"}
Read == Int \union BOOLEAN \union {Absent}
RowTyped(row) ==
  /\ row.source \in Sources
  /\ \A f \in Fields : row[f] \in Read
NoticePeople(who) == [seq : {who}, sources : SUBSET Sources, value : [Fields -> Read],
                rank : [Fields -> 0..3]]

\* A person's rows: the only claim among them is c.
OwnRows(rows, n, who, c) ==
  \A i \in 1..n : rows[i].seq = who =>
    RowTyped(rows[i]) /\ (rows[i].source = "claim" => rows[i] = c)

\* What the first rows have told of a person.
Told(p, rows, k, who, c) ==
  /\ p \in NoticePeople(who)
  /\ (\E i \in 1..k : rows[i].seq = who /\ rows[i].source = "claim") =>
       \A f \in Fields : c[f] # Absent => p.value[f] = c[f] /\ p.rank[f] = 3
  /\ (\A i \in 1..k : rows[i].seq = who => rows[i].source # "claim") =>
       \A f \in Fields : p.rank[f] <= 2
  /\ \A f \in Fields : (\A i \in 1..k : rows[i].seq = who => rows[i][f] = Absent) =>
       p.value[f] = Absent

LEMMA TakenTyped ==
  ASSUME NEW who, NEW p \in NoticePeople(who), NEW row, row.seq = who, RowTyped(row)
  PROVE  /\ Take(p, row) \in NoticePeople(who)
         /\ SourceRank(row.source) \in 1..3
         /\ SourceRank(row.source) = 3 <=> row.source = "claim"
         /\ \A f \in Fields :
              LET better == row[f] # Absent
                            /\ (p.value[f] = Absent \/ SourceRank(row.source) > p.rank[f])
              IN  /\ Take(p, row).value[f] = IF better THEN row[f] ELSE p.value[f]
                  /\ Take(p, row).rank[f] = IF better THEN SourceRank(row.source) ELSE p.rank[f]
<1>1. /\ SourceRank(row.source) \in 1..3
      /\ SourceRank(row.source) = 3 <=> row.source = "claim"
  BY DEF RowTyped, SourceRank, Sources
<1>2. /\ p.seq = who /\ p.sources \in SUBSET Sources /\ p.value \in [Fields -> Read]
      /\ p.rank \in [Fields -> 0..3]
  BY DEF NoticePeople
<1> DEFINE rank == SourceRank(row.source)
           Better(f) == row[f] # Absent /\ (p.value[f] = Absent \/ rank > p.rank[f])
           value == [f \in Fields |-> IF Better(f) THEN row[f] ELSE p.value[f]]
           ranks == [f \in Fields |-> IF Better(f) THEN rank ELSE p.rank[f]]
           sources == (p.sources \union {row.source}) \ {Absent}
<1>3. Take(p, row) = [seq |-> row.seq, sources |-> sources, value |-> value, rank |-> ranks]
  BY DEF Take
<1>4. value \in [Fields -> Read]
  BY <1>2 DEF RowTyped
<1>5. ranks \in [Fields -> 0..3]
  <2> HIDE DEF rank
  <2>1. rank \in 0..3
    BY <1>1 DEF rank
  <2> QED
    BY <1>2, <2>1
<1>6. sources \in SUBSET Sources
  <2>1. row.source \in Sources
    BY DEF RowTyped
  <2>2. p.sources \in SUBSET Sources
    BY <1>2
  <2> QED
    BY <2>1, <2>2
<1>7. \A f \in Fields : value[f] = (IF Better(f) THEN row[f] ELSE p.value[f])
                         /\ ranks[f] = (IF Better(f) THEN rank ELSE p.rank[f])
  OBVIOUS
<1> HIDE DEF value, ranks, sources
<1> QED
  BY <1>1, <1>3, <1>4, <1>5, <1>6, <1>7 DEF NoticePeople

LEMMA TakeTells ==
  ASSUME NEW n \in Nat, NEW rows, NEW who, NEW c, OwnRows(rows, n, who, c),
         NEW k \in 0..(n - 1), NEW p, Told(p, rows, k, who, c)
  PROVE  Told(TakeOwn(p, rows[k + 1]), rows, k + 1, who, c)
<1> DEFINE row == rows[k + 1]
           q == TakeOwn(p, row)
           Claimed(j) == \E i \in 1..j : rows[i].seq = who /\ rows[i].source = "claim"
           Silent(f, j) == \A i \in 1..j : rows[i].seq = who => rows[i][f] = Absent
<1>1. /\ k + 1 \in 1..n /\ k + 1 \in 1..(k + 1)
      /\ \A i \in 1..k : i \in 1..(k + 1)
      /\ \A i \in 1..(k + 1) : i \in 1..k \/ i = k + 1
  OBVIOUS
<1>2. /\ p \in NoticePeople(who) /\ p.seq = who
      /\ Claimed(k) => \A f \in Fields : c[f] # Absent => p.value[f] = c[f] /\ p.rank[f] = 3
      /\ ~Claimed(k) => \A f \in Fields : p.rank[f] <= 2
      /\ \A f \in Fields : Silent(f, k) => p.value[f] = Absent
  BY DEF Told, NoticePeople
<1>3. CASE row.seq # who
  <2>1. q = p
    BY <1>2, <1>3 DEF TakeOwn
  <2>2. Claimed(k + 1) <=> Claimed(k)
    BY <1>1, <1>3
  <2>3. \A f \in Fields : Silent(f, k + 1) => Silent(f, k)
    BY <1>1
  <2> QED
    BY <1>2, <2>1, <2>2, <2>3 DEF Told
<1>4. CASE row.seq = who
  <2>1. q = Take(p, row)
    BY <1>2, <1>4 DEF TakeOwn
  <2>2. RowTyped(row) /\ (row.source = "claim" => row = c)
    BY <1>1, <1>4 DEF OwnRows
  <2> DEFINE rank == SourceRank(row.source)
  <2>3. /\ q \in NoticePeople(who) /\ rank \in 1..3 /\ (rank = 3 <=> row.source = "claim")
        /\ \A f \in Fields :
             LET better == row[f] # Absent /\ (p.value[f] = Absent \/ rank > p.rank[f])
             IN  /\ q.value[f] = IF better THEN row[f] ELSE p.value[f]
                 /\ q.rank[f] = IF better THEN rank ELSE p.rank[f]
    BY <1>2, <1>4, <2>1, <2>2, TakenTyped
  <2>4. \A f \in Fields : p.rank[f] \in 0..3
    BY <1>2 DEF NoticePeople
  <2> HIDE DEF q, rank
  <2>5. ASSUME Claimed(k + 1), NEW f \in Fields, c[f] # Absent
        PROVE  q.value[f] = c[f] /\ q.rank[f] = 3
    <3>1. CASE Claimed(k)
      <4>1. p.value[f] = c[f] /\ p.rank[f] = 3
        BY <1>2, <2>5, <3>1
      <4> QED
        BY <2>3, <2>5, <4>1
    <3>2. CASE ~Claimed(k)
      <4>1. row.source = "claim" /\ rank = 3 /\ row = c
        BY <1>1, <2>2, <2>3, <2>5, <3>2
      <4>2. p.rank[f] <= 2 /\ p.rank[f] \in 0..3
        BY <1>2, <2>4, <3>2
      <4> HIDE DEF row
      <4> QED
        BY <2>3, <2>5, <4>1, <4>2
    <3> QED
      BY <3>1, <3>2
  <2>6. ASSUME ~Claimed(k + 1), NEW f \in Fields PROVE q.rank[f] <= 2
    <3>1. ~Claimed(k) /\ row.source # "claim"
      BY <1>1, <1>4, <2>6
    <3>2. p.rank[f] <= 2 /\ rank \in 1..3 /\ rank # 3
      BY <1>2, <2>3, <3>1
    <3> QED
      BY <2>3, <2>4, <3>2
  <2>7. ASSUME NEW f \in Fields, Silent(f, k + 1) PROVE q.value[f] = Absent
    <3>1. Silent(f, k) /\ row[f] = Absent
      BY <1>1, <1>4, <2>7
    <3> QED
      BY <1>2, <2>3, <3>1
  <2>8. (\A i \in 1..(k + 1) : rows[i].seq = who => rows[i].source # "claim") => ~Claimed(k + 1)
    OBVIOUS
  <2> QED
    BY <2>3, <2>5, <2>6, <2>7, <2>8 DEF Told, q
<1> QED
  BY <1>3, <1>4

\* What a person's claim says stands, whatever the other rows say and in
\* whatever order they come; what no row says stays unknown.
LEMMA ClaimStands ==
  ASSUME NEW n \in Nat, NEW rows, DOMAIN rows = 1..n, NEW who, NEW c,
         OwnRows(rows, n, who, c),
         \E i \in 1..n : rows[i].seq = who /\ rows[i].source = "claim"
  PROVE  /\ Merged(rows, who) \in NoticePeople(who)
         /\ \A f \in Fields : c[f] # Absent => Merged(rows, who).value[f] = c[f]
         /\ \A f \in Fields : (\A i \in 1..n : rows[i].seq = who => rows[i][f] = Absent) =>
              Merged(rows, who).value[f] = Absent
<1> DEFINE V == NoticePeople(who)
           start == Nobody(who)
<1>1. Merged(rows, who) = TakenFrom(start, rows)
  BY DEF Merged, TakenFrom
<1>2. Told(start, rows, 0, who, c)
  <2>1. start \in V
    BY DEF Nobody, NoticePeople, Read
  <2>2. \A f \in Fields : start.value[f] = Absent /\ start.rank[f] = 0
    BY DEF Nobody
  <2>3. 1..0 = {}
    OBVIOUS
  <2> HIDE DEF start
  <2> QED
    BY <2>1, <2>2, <2>3 DEF Told
<1> HIDE DEF start
<1>3. TakesFit(V, start, rows, n)
  <2>1. start \in V
    BY <1>2 DEF Told
  <2>2. ASSUME NEW v \in V, NEW i \in 1..n PROVE TakeOwn(v, rows[i]) \in V
    <3>1. v.seq = who
      BY <2>2 DEF NoticePeople
    <3>2. CASE rows[i].seq # who
      BY <2>2, <3>1, <3>2 DEF TakeOwn
    <3>3. CASE rows[i].seq = who
      <4>1. RowTyped(rows[i])
        BY <2>2, <3>3 DEF OwnRows
      <4>2. Take(v, rows[i]) \in V
        BY <2>2, <3>3, <4>1, TakenTyped
      <4> HIDE DEF V
      <4> QED
        BY <3>1, <3>3, <4>2 DEF TakeOwn
    <3> QED
      BY <3>2, <3>3
  <2> HIDE DEF V
  <2> QED
    BY <2>1, <2>2 DEF TakesFit
<1> HIDE DEF V
<1>4. PICK g : TakesRun(g, V, start, rows, n)
  BY <1>3, TakesInTurn
<1> DEFINE S == {k \in 0..n : Told(g[k], rows, k, who, c)}
<1>5. 0 \in S
  <2>1. g[0] = start /\ 0 \in 0..n
    BY <1>4 DEF TakesRun
  <2> QED
    BY <1>2, <2>1
<1>6. ASSUME NEW k \in 0..(n - 1), k \in S PROVE k + 1 \in S
  <2>1. Told(g[k], rows, k, who, c) /\ k + 1 \in 0..n
    BY <1>6
  <2>2. g[k + 1] = TakeOwn(g[k], rows[k + 1])
    BY <1>4 DEF TakesRun
  <2> HIDE DEF S
  <2>3. Told(g[k + 1], rows, k + 1, who, c)
    BY <2>1, <2>2, TakeTells
  <2> QED
    BY <2>1, <2>3 DEF S
<1>7. n \in S
  <2>1. n \in 0..n
    OBVIOUS
  <2> HIDE DEF S
  <2> QED
    BY <1>5, <1>6, <2>1, Stepwise
<1>8. Told(Merged(rows, who), rows, n, who, c)
  BY <1>1, <1>4, <1>7 DEF TakesRun
<1> QED
  BY <1>8 DEF Told

\* The people of rows numbered from 1.
LEMMA PeopleByNumber ==
  ASSUME NEW rows, NEW n \in Nat, {rows[i].seq : i \in DOMAIN rows} = 1..n
  PROVE  MergeNoticeTenants(rows) = [k \in 1..n |-> Merged(rows, k)]
<1> DEFINE Place(k, m) == Cardinality({x \in 1..n : x < m}) = k - 1
<1>1. Cardinality(1..n) = n
  BY FS_Interval
<1>2. ASSUME NEW m \in 1..n PROVE Cardinality({x \in 1..n : x < m}) = m - 1
  <2>1. {x \in 1..n : x < m} = 1..(m - 1)
    OBVIOUS
  <2>2. Cardinality(1..(m - 1)) = m - 1
    BY FS_Interval
  <2> QED
    BY <2>1, <2>2
<1>3. ASSUME NEW k \in 1..n PROVE (CHOOSE m \in 1..n : Place(k, m)) = k
  <2>1. \A m \in 1..n : Place(k, m) <=> m = k
    <3> TAKE m \in 1..n
    <3>1. Place(k, m) <=> m - 1 = k - 1
      BY <1>2
    <3> QED
      BY <3>1
  <2> HIDE DEF Place
  <2> QED
    BY <2>1
<1> DEFINE N == {rows[i].seq : i \in DOMAIN rows}
<1>4. MergeNoticeTenants(rows) =
        [k \in 1..Cardinality(N) |->
           Merged(rows, CHOOSE m \in N : Cardinality({x \in N : x < m}) = k - 1)]
  BY Zenon DEF MergeNoticeTenants
<1>5. N = 1..n
  OBVIOUS
<1> HIDE DEF N
<1>6. MergeNoticeTenants(rows) =
        [k \in 1..n |-> Merged(rows, CHOOSE m \in 1..n : Place(k, m))]
  BY <1>1, <1>4, <1>5, Zenon
<1> HIDE DEF Place
<1> QED
  BY <1>3, <1>6

-----------------------------------------------------------------------------
\* The notice alone, and the whole file.

Shown(hidden, field, value) == IF field \in hidden THEN Absent ELSE value
NoticeRow(f, hidden, i) ==
  LET t == f.tenants[i] IN
  [seq |-> i, source |-> "claim", part |-> Absent, fixed |-> t.fixed,
   moveIn |-> Shown(hidden, "moveIn", t.moveIn), deposit |-> Shown(hidden, "deposit", t.deposit),
   demanded |-> Shown(hidden, "demand", t.demanded),
   demandedOn |-> Shown(hidden, "demand", t.demandedOn)]
NoticeOf(f, hidden) == [i \in DOMAIN f.tenants |-> NoticeRow(f, hidden, i)]
NoticeVerdicts(f, baseline, hidden) ==
  AnalyzeNotice(NoticeOf(f, hidden), Shown(hidden, "baseline", baseline),
                Shown(hidden, "deadline", f.deadline))
NoticeVerdict(f, baseline, hidden, i) ==
  ClassifyNoticeAssumption(NoticeRow(f, hidden, i), Shown(hidden, "baseline", baseline),
                           Shown(hidden, "deadline", f.deadline))

\* A notice with one row for each tenant is judged row by row.
LEMMA RowByRow ==
  ASSUME NEW f, NEW n \in Nat, f.tenants \in [1..n -> Tenants], NEW hidden, NEW baseline
  PROVE  NoticeVerdicts(f, baseline, hidden) =
           [i \in 1..n |-> NoticeVerdict(f, baseline, hidden, i)]
<1> DEFINE rows == NoticeOf(f, hidden)
           b == Shown(hidden, "baseline", baseline)
           d == Shown(hidden, "deadline", f.deadline)
<1>1. DOMAIN rows = 1..n /\ \A i \in 1..n : rows[i] = NoticeRow(f, hidden, i)
  BY DEF NoticeOf
<1> HIDE DEF rows
<1>2. \A i \in 1..n : rows[i].seq = i /\ rows[i].source = "claim" /\ RowTyped(rows[i])
  <2> TAKE i \in 1..n
  <2> DEFINE t == f.tenants[i]
  <2>1. /\ t.moveIn \in Read /\ t.fixed \in Read /\ t.deposit \in Read
        /\ t.demanded \in Read /\ t.demandedOn \in Read /\ Absent \in Read
    BY DEF Tenants, Dates, Read
  <2> HIDE DEF t
  <2>2. rows[i] = [seq |-> i, source |-> "claim", part |-> Absent, fixed |-> t.fixed,
                   moveIn |-> Shown(hidden, "moveIn", t.moveIn),
                   deposit |-> Shown(hidden, "deposit", t.deposit),
                   demanded |-> Shown(hidden, "demand", t.demanded),
                   demandedOn |-> Shown(hidden, "demand", t.demandedOn)]
    BY <1>1 DEF NoticeRow, t
  <2> HIDE DEF Read
  <2>3. \A x \in Fields : rows[i][x] \in Read
    BY <2>1, <2>2 DEF Fields, Shown
  <2> QED
    BY <2>2, <2>3 DEF RowTyped, Sources
<1>3. {rows[i].seq : i \in DOMAIN rows} = 1..n
  BY <1>1, <1>2
<1>4. MergeNoticeTenants(rows) = [k \in 1..n |-> Merged(rows, k)]
  BY <1>3, PeopleByNumber
<1>5. ASSUME NEW k \in 1..n
      PROVE  ClassifyNoticeAssumption(Merged(rows, k).value, b, d) =
               NoticeVerdict(f, baseline, hidden, k)
  <2> DEFINE row == rows[k]
             value == Merged(rows, k).value
  <2>1. \A i \in 1..n : rows[i].seq = k => rows[i] = row
    BY <1>2
  <2>2. OwnRows(rows, n, k, row)
    BY <1>2, <2>1 DEF OwnRows
  <2>3. rows[k].seq = k /\ rows[k].source = "claim"
    BY <1>2
  <2>4. /\ \A x \in Fields : row[x] # Absent => value[x] = row[x]
        /\ \A x \in Fields : (\A i \in 1..n : rows[i].seq = k => rows[i][x] = Absent) =>
             value[x] = Absent
    BY <1>1, <2>2, <2>3, ClaimStands
  <2> HIDE DEF row, value
  <2>5. \A x \in Fields : value[x] = row[x]
    BY <2>1, <2>4
  <2>6. /\ value.moveIn = row.moveIn /\ value.deposit = row.deposit
        /\ value.demanded = row.demanded /\ value.demandedOn = row.demandedOn
    BY <2>5 DEF Fields
  <2> HIDE DEF b, d
  <2>7. ClassifyNoticeAssumption(value, b, d) = ClassifyNoticeAssumption(row, b, d)
    BY <2>6 DEF ClassifyNoticeAssumption, HasPriority, PossessionDate, DemandEffective
  <2> QED
    BY <1>1, <2>7 DEF NoticeVerdict, row, value, b, d
<1> HIDE DEF b, d
<1>6. AnalyzeNotice(rows, b, d) =
        [k \in 1..n |-> ClassifyNoticeAssumption(Merged(rows, k).value, b, d)]
  BY <1>4 DEF AnalyzeNotice
<1> QED
  BY <1>5, <1>6 DEF NoticeVerdicts, rows, b, d

\* What a verdict of the notice says of a tenant's deposit is what the
\* analysis of the file says.
True(v, a) ==
  /\ a.assumed \in Nat
  /\ v.assumption \in {"UNKNOWN", "NOT_ASSUMED", "ASSUMED_FULL", "ASSUMED_AMOUNT_UNKNOWN"}
  /\ v.assumption = "NOT_ASSUMED" => a.assumed = 0
  /\ v.assumption = "ASSUMED_FULL" /\ v.amount # Absent => a.assumed = v.amount

LEMMA VerdictIsTrue ==
  ASSUME NEW f, NEW n \in Nat, f.tenants \in [1..n -> Tenants], NEW hidden, NEW baseline,
         NEW i \in 1..n, NEW d, d # Absent, d.assumed[i] \in Nat
  PROVE  True(NoticeVerdict(f, baseline, hidden, i), ClassifyTenant(f, i, baseline, d))
<1> DEFINE v == NoticeVerdict(f, baseline, hidden, i)
           a == ClassifyTenant(f, i, baseline, d)
           t == f.tenants[i]
           row == NoticeRow(f, hidden, i)
           b == Shown(hidden, "baseline", baseline)
           deadline == Shown(hidden, "deadline", f.deadline)
<1>1. t.deposit \in Nat
  BY DEF Tenants
<1>2. a.assumed = IF ~HasPriority(t, baseline) THEN 0
                  ELSE IF ~DemandEffective(t, f.deadline) THEN t.deposit
                  ELSE d.assumed[i]
  BY DEF ClassifyTenant
<1>3. /\ row.moveIn = Shown(hidden, "moveIn", t.moveIn)
      /\ row.deposit = Shown(hidden, "deposit", t.deposit)
      /\ row.demanded = Shown(hidden, "demand", t.demanded)
      /\ row.demandedOn = Shown(hidden, "demand", t.demandedOn)
  BY DEF NoticeRow
<1> HIDE DEF t, row, v, a
<1> DEFINE known == row.demanded # Absent /\ deadline # Absent
           effective == IF known THEN DemandEffective(row, deadline) ELSE Absent
<1>4. v = IF row.moveIn = Absent \/ b = Absent THEN Verdict("UNKNOWN", Absent, Absent)
          ELSE IF ~HasPriority(row, b) THEN Verdict("NOT_ASSUMED", 0, effective)
          ELSE IF known /\ ~effective THEN Verdict("ASSUMED_FULL", row.deposit, FALSE)
          ELSE Verdict("ASSUMED_AMOUNT_UNKNOWN", Absent, effective)
  BY DEF NoticeVerdict, ClassifyNoticeAssumption, row, v
<1>5. row.moveIn # Absent /\ b # Absent => (HasPriority(row, b) <=> HasPriority(t, baseline))
  BY <1>3 DEF HasPriority, PossessionDate, Shown
<1>6. known => (DemandEffective(row, deadline) <=> DemandEffective(t, f.deadline))
  BY <1>3 DEF DemandEffective, Shown
<1>7. row.deposit # Absent => row.deposit = t.deposit
  BY <1>3 DEF Shown
<1>8. v.assumption = "NOT_ASSUMED" => ~HasPriority(t, baseline)
  <2> HIDE DEF b, known, effective
  <2> QED
    BY <1>4, <1>5 DEF Verdict
<1>9. v.assumption = "ASSUMED_FULL" =>
        HasPriority(t, baseline) /\ ~DemandEffective(t, f.deadline) /\ v.amount = row.deposit
  <2>1. known => effective = DemandEffective(row, deadline)
    OBVIOUS
  <2> HIDE DEF b, known, effective
  <2> QED
    BY <1>4, <1>5, <1>6, <2>1 DEF Verdict
<1>10. v.assumption \in {"UNKNOWN", "NOT_ASSUMED", "ASSUMED_FULL", "ASSUMED_AMOUNT_UNKNOWN"}
  <2> HIDE DEF b, known, effective
  <2> QED
    BY <1>4 DEF Verdict
<1> QED
  BY <1>1, <1>2, <1>7, <1>8, <1>9, <1>10 DEF True, v, a

LEMMA AssumedTyped ==
  ASSUME NEW f \in SaleFiles, IdsApart(f), f.sale # Absent, NEW baseline,
         NEW d, d = Distribute(f, baseline), d # Absent, NEW i \in DOMAIN f.tenants
  PROVE  d.assumed[i] \in Nat
<1> DEFINE t == f.tenants[i]
           got == Got(d.book, t.id)
<1>1. d.book \in Books(STRING)
  BY DistributionConserves DEF Conserved
<1>2. got \in Int
  <2> DEFINE paid == {"small", "relief", "rank"}
  <2> HIDE DEF t, paid
  <2>1. Received(d.book, paid, t.id) = PaidOf(d.book, paid, {t.id})
    BY <1>1, ReceivedIsPaid
  <2>2. PaidOf(d.book, paid, {t.id}) \in Int
    BY <1>1, PaidTyped
  <2> QED
    BY <2>1, <2>2 DEF Got, paid
<1>3. t.deposit \in Nat
  <2>1. PICK n \in Nat : f.tenants \in [1..n -> Tenants]
    BY FileTyped
  <2>2. t \in Tenants
    BY <2>1
  <2> QED
    BY <2>2 DEF Tenants
<1>4. d.assumed[i] = IF HasPriority(t, baseline) THEN Most(0, t.deposit - got) ELSE 0
  BY DEF Distribute, DistributeAmong, Outcome
<1> HIDE DEF t, got
<1> QED
  BY <1>2, <1>3, <1>4 DEF Most

\* The total of a notice is at most what is assumed, and that amount unless a
\* deposit is still open.
AssumedIn(a) == SumAll([i \in DOMAIN a |-> a[i].assumed])
AllTrue(v, a, n) == DOMAIN v = 1..n /\ DOMAIN a = 1..n /\ \A i \in 1..n : True(v[i], a[i])
TrueTotal(shown, total) ==
  /\ shown.amount <= total
  /\ ~shown.lowerBound => shown.amount = total
  /\ AssumedHeadline(shown) = "NONE" => total = 0

LEMMA TotalIsTrue ==
  ASSUME NEW n \in Nat, NEW v, NEW a, AllTrue(v, a, n)
  PROVE  TrueTotal(AssumedTotalOf(v), AssumedIn(a))
<1> DEFINE shown == [i \in 1..n |-> AssumedAmount(v[i])]
           assumed == [i \in 1..n |-> a[i].assumed]
           sum == SumIn(shown, n, 1..n)
           total == SumIn(assumed, n, 1..n)
           open == \E k \in 1..n : \/ v[k].assumption \in {"ASSUMED_AMOUNT_UNKNOWN", "UNKNOWN"}
                                   \/ v[k].assumption = "ASSUMED_FULL" /\ v[k].amount = Absent
<1>1. \A i \in 1..n : AssumedAmount(v[i]) \in Nat /\ AssumedAmount(v[i]) <= a[i].assumed
  BY DEF AllTrue, True, AssumedAmount
<1>2. \A i \in 1..n : a[i].assumed \in Int
  BY DEF AllTrue, True
<1>3. shown \in [1..n -> Nat]
  BY <1>1
<1>4. shown \in [1..n -> Int]
  BY <1>1
<1>5. assumed \in [1..n -> Int]
  BY <1>2
<1>6. \A i \in 1..n : shown[i] <= assumed[i]
  BY <1>1
<1>7. ~open => \A i \in 1..n : shown[i] = assumed[i]
  BY DEF AllTrue, True, AssumedAmount
<1>8. AssumedIn(a) = SumAll(assumed)
  BY DEF AssumedIn, AllTrue
<1>9. AssumedTotalOf(v) = [amount |-> SumAll(shown), lowerBound |-> open]
  BY DEF AssumedTotalOf, SumOf, AllTrue
<1>10. n <= n
  OBVIOUS
<1> HIDE DEF shown, assumed, open
<1>11. SumAll(shown) = sum
  BY <1>4, SumAllIs
<1>12. SumAll(assumed) = total
  BY <1>5, SumAllIs
<1>13. sum <= total
  BY <1>4, <1>5, <1>6, <1>10, SumAtMost
<1>14. ~open => sum = total
  <2> SUFFICES ASSUME ~open PROVE sum = total
    OBVIOUS
  <2>1. \A i \in 1..n : shown[i] = assumed[i]
    BY <1>7
  <2> QED
    BY <1>4, <1>5, <1>10, <2>1, SumSame
<1>15. sum \in Nat
  BY <1>3, <1>10, SumOfNaturals
<1>16. total \in Int
  BY <1>5, <1>10, SumTyped
<1> HIDE DEF sum, total
<1>17. AssumedTotalOf(v).amount = sum /\ AssumedTotalOf(v).lowerBound = open
  BY <1>9, <1>11
<1>18. AssumedHeadline(AssumedTotalOf(v)) = "NONE" => ~(sum > 0) /\ ~open
  BY <1>17 DEF AssumedHeadline
<1>19. AssumedIn(a) = total
  BY <1>8, <1>12
<1> QED
  BY <1>13, <1>14, <1>15, <1>16, <1>17, <1>18, <1>19 DEF TrueTotal

\* What NoticeAgreesWithAnalysis says of the verdicts on one notice.
TrueNotice(verdicts) ==
  LET shown == AssumedTotalOf(verdicts) IN
  /\ \A i \in DOMAIN verdicts :
       /\ verdicts[i].assumption = "NOT_ASSUMED" => analysis.tenants[i].assumed = 0
       /\ verdicts[i].assumption = "ASSUMED_FULL" /\ verdicts[i].amount # Absent =>
            analysis.tenants[i].assumed = verdicts[i].amount
  /\ shown.amount <= analysis.assumed
  /\ ~shown.lowerBound => shown.amount = analysis.assumed
  /\ AssumedHeadline(shown) = "NONE" => analysis.assumed = 0

LEMMA NoticesAgree ==
  ASSUME AnalysisInv
  PROVE  NoticeAgreesWithAnalysis
<1> SUFFICES ASSUME Distributed PROVE NoticeAgreesWithAnalysis
  BY DEF NoticeAgreesWithAnalysis
<1> DEFINE d == analysis.distribution
           baseline == BaselineDate(file.rights)
           ts == analysis.tenants
<1>1. /\ d = Distribute(file, baseline) /\ d # Absent /\ file.sale # Absent
      /\ analysis.baseline = baseline
      /\ ts = [i \in DOMAIN file.tenants |-> ClassifyTenant(file, i, baseline, d)]
      /\ analysis.assumed = AssumedIn(ts)
  BY DEF AnalysisInv, Distributed, Analyze, ReportOf, ReportOfTenants, Report, Failed, SumOf,
         AssumedIn
<1>2. PICK n \in Nat : file.tenants \in [1..n -> Tenants]
  BY FileTyped DEF AnalysisInv
<1>3. \A i \in 1..n : d.assumed[i] \in Nat
  BY <1>1, <1>2, AssumedTyped DEF AnalysisInv
<1> HIDE DEF d, baseline
<1>4. ASSUME NEW hidden
      PROVE  /\ AllTrue(NoticeVerdicts(file, baseline, hidden), ts, n)
             /\ TrueTotal(AssumedTotalOf(NoticeVerdicts(file, baseline, hidden)), analysis.assumed)
  <2> DEFINE v == NoticeVerdicts(file, baseline, hidden)
  <2>1. v = [i \in 1..n |-> NoticeVerdict(file, baseline, hidden, i)]
    BY <1>2, RowByRow
  <2> HIDE DEF v
  <2>2. DOMAIN v = 1..n /\ DOMAIN ts = 1..n
    BY <1>1, <1>2, <2>1
  <2>3. ASSUME NEW i \in 1..n PROVE True(v[i], ts[i])
    <3>1. v[i] = NoticeVerdict(file, baseline, hidden, i)
      BY <2>1
    <3>2. ts[i] = ClassifyTenant(file, i, baseline, d)
      BY <1>1, <1>2
    <3>3. True(NoticeVerdict(file, baseline, hidden, i), ClassifyTenant(file, i, baseline, d))
      BY <1>1, <1>2, <1>3, VerdictIsTrue
    <3> HIDE DEF ts
    <3> QED
      BY <3>1, <3>2, <3>3
  <2> HIDE DEF ts
  <2>4. AllTrue(v, ts, n)
    BY <2>2, <2>3 DEF AllTrue
  <2>5. TrueTotal(AssumedTotalOf(v), AssumedIn(ts))
    BY <2>4, TotalIsTrue
  <2> QED
    BY <1>1, <2>4, <2>5 DEF v
<1> HIDE DEF ts
<1>5. ASSUME NEW hidden
      PROVE  TrueNotice(NoticeVerdicts(file, analysis.baseline, hidden))
  BY <1>1, <1>4 DEF AllTrue, True, TrueTotal, TrueNotice, ts
<1> QED
  BY <1>5, Zenon DEF NoticeAgreesWithAnalysis, TrueNotice, NoticeVerdicts, NoticeOf, NoticeRow, Shown

\* Whatever fields of the notice the court left unread: what the page says of
\* it is what the analysis of the whole file says, or says less
\* (notice-assumption.ts, rights-analysis.service.ts).
THEOREM NoticeTellsTruth == AnalysisSpec => []NoticeAgreesWithAnalysis
<1>1. AnalysisSpec => []AnalysisInv
  BY FileStaysAnalysed
<1>2. AnalysisInv => NoticeAgreesWithAnalysis
  BY NoticesAgree
<1> QED
  BY <1>1, <1>2, PTL

-----------------------------------------------------------------------------
\* The rows of several sources.

OwnClaims(f, n) == {SourceRow(f, i, "claim", 0, 0) : i \in 1..n}
OtherRows(f, n) == {SourceRow(f, i, "survey", 20000, 1) : i \in 1..n}
                     \union {SourceRow(f, i, "register", 10000, 2) : i \in 1..n}
AllRows(f, n) == OwnClaims(f, n) \union OtherRows(f, n)

\* Rows among which every tenant's claim is.
WithClaims(rows, f, n) ==
  /\ rows \in Seq(AllRows(f, n))
  /\ \A k \in 1..n : \E i \in 1..Len(rows) : rows[i] = SourceRow(f, k, "claim", 0, 0)

LEMMA RowsTogether ==
  ASSUME NEW f, NEW n, NEW s \in Seq(AllRows(f, n)), NEW t \in Seq(AllRows(f, n)),
         WithClaims(s, f, n) \/ WithClaims(t, f, n)
  PROVE  WithClaims(s \o t, f, n)
<1> DEFINE G == AllRows(f, n)
           both == s \o t
<1> HIDE DEF G
<1>1. /\ both \in Seq(G) /\ Len(both) = Len(s) + Len(t)
      /\ \A i \in 1..Len(both) : both[i] = IF i <= Len(s) THEN s[i] ELSE t[i - Len(s)]
  BY ConcatProperties DEF G
<1>2. Len(s) \in Nat /\ Len(t) \in Nat
  BY DEF G
<1> HIDE DEF both
<1>3. \A i \in 1..Len(s) : i \in 1..Len(both) /\ both[i] = s[i]
  BY <1>1, <1>2
<1>4. \A i \in 1..Len(t) : i + Len(s) \in 1..Len(both) /\ both[i + Len(s)] = t[i]
  <2> TAKE i \in 1..Len(t)
  <2>1. i + Len(s) \in 1..Len(both) /\ ~(i + Len(s) <= Len(s)) /\ (i + Len(s)) - Len(s) = i
    BY <1>1, <1>2
  <2> QED
    BY <1>1, <2>1
<1>5. ASSUME NEW k \in 1..n PROVE \E i \in 1..Len(both) : both[i] = SourceRow(f, k, "claim", 0, 0)
  BY <1>3, <1>4 DEF WithClaims
<1> QED
  BY <1>1, <1>5 DEF WithClaims, G, both

\* A file with n tenants.
TenantsTyped(f, n) == n \in Nat /\ f.tenants \in [1..n -> Tenants] /\ f.deadline \in Int

\* What a row of tenant i says: who it is, and what the claim says if it is one.
OfTenant(row, f, i) ==
  /\ row.seq = i /\ RowTyped(row)
  /\ row.source = "claim" => row = SourceRow(f, i, "claim", 0, 0)
  /\ f.tenants[i].demanded /\ f.tenants[i].demandedOn = Absent => row.demandedOn = Absent

\* A person among such rows has the claim that was made, and rows trusted less.
LEMMA RowsOfTenant ==
  ASSUME NEW f, NEW n, TenantsTyped(f, n), NEW i \in 1..n,
         NEW row, row \in {SourceRow(f, i, "claim", 0, 0), SourceRow(f, i, "survey", 20000, 1),
                           SourceRow(f, i, "register", 10000, 2)}
  PROVE  OfTenant(row, f, i)
<1> DEFINE t == f.tenants[i]
<1>1. /\ t.moveIn \in Int /\ t.fixed \in Read /\ t.deposit \in Nat
      /\ t.demanded \in BOOLEAN /\ t.demandedOn \in Read /\ f.deadline \in Int
  BY DEF TenantsTyped, Tenants, Dates, Read
<1> HIDE DEF t
<1>2. PICK source \in Sources, later \in Nat, more \in Nat :
        /\ row = SourceRow(f, i, source, later, more)
        /\ source = "claim" <=> later = 0
        /\ source = "claim" => row = SourceRow(f, i, "claim", 0, 0)
  BY DEF Sources
<1>3. row = [seq |-> i, source |-> source, part |-> Absent, fixed |-> t.fixed,
             moveIn |-> t.moveIn + later, deposit |-> t.deposit + more,
             demanded |-> (t.demanded <=> later = 0),
             demandedOn |-> IF later = 0 THEN t.demandedOn
                            ELSE IF t.demanded THEN Absent ELSE f.deadline]
  BY <1>2 DEF SourceRow, t
<1>4. /\ Absent \in Read /\ f.deadline \in Read
      /\ t.moveIn + later \in Read /\ t.deposit + more \in Read
      /\ (t.demanded <=> later = 0) \in Read
  BY <1>1 DEF Read
<1> HIDE DEF Read
<1>5. /\ row.seq = i /\ row.source = source /\ row.part = Absent /\ row.fixed = t.fixed
      /\ row.moveIn = t.moveIn + later /\ row.deposit = t.deposit + more
      /\ row.demanded = (t.demanded <=> later = 0)
      /\ row.demandedOn = IF later = 0 THEN t.demandedOn
                          ELSE IF t.demanded THEN Absent ELSE f.deadline
  BY <1>3
<1>6. \A x \in Fields : row[x] \in Read
  BY <1>1, <1>4, <1>5 DEF Fields
<1>7. t.demanded /\ t.demandedOn = Absent => row.demandedOn = Absent
  BY <1>5
<1> QED
  BY <1>2, <1>5, <1>6, <1>7 DEF OfTenant, RowTyped, t

\* The verdicts that the claims alone give.
OfClaims(f, n, b, d) ==
  [k \in 1..n |-> ClassifyNoticeAssumption(SourceRow(f, k, "claim", 0, 0), b, d)]

LEMMA ClaimsDecide ==
  ASSUME NEW f, NEW n, TenantsTyped(f, n), NEW rows, WithClaims(rows, f, n), NEW b, NEW d
  PROVE  AnalyzeNotice(rows, b, d) = OfClaims(f, n, b, d)
<1>0. n \in Nat /\ f.tenants \in [1..n -> Tenants] /\ f.deadline \in Int
  BY DEF TenantsTyped
<1> DEFINE l == Len(rows)
           c(k) == SourceRow(f, k, "claim", 0, 0)
<1>1. l \in Nat /\ DOMAIN rows = 1..l /\ \A j \in 1..l : rows[j] \in AllRows(f, n)
  <2> DEFINE G == AllRows(f, n)
  <2>1. rows \in Seq(G)
    BY DEF WithClaims
  <2> HIDE DEF G
  <2>2. l \in Nat /\ DOMAIN rows = 1..l /\ \A j \in 1..l : rows[j] \in G
    BY <2>1
  <2> QED
    BY <2>2 DEF G
<1>2. \A k \in 1..n : \E j \in 1..l : rows[j] = c(k)
  BY DEF WithClaims
<1> HIDE DEF l
<1>3. ASSUME NEW j \in 1..l
      PROVE  \E i \in 1..n : rows[j] \in {c(i), SourceRow(f, i, "survey", 20000, 1),
                                          SourceRow(f, i, "register", 10000, 2)}
  BY <1>1 DEF AllRows, OwnClaims, OtherRows
<1>4. ASSUME NEW j \in 1..l
      PROVE  /\ rows[j].seq \in 1..n /\ RowTyped(rows[j])
             /\ rows[j].source = "claim" => rows[j] = c(rows[j].seq)
             /\ f.tenants[rows[j].seq].demanded /\ f.tenants[rows[j].seq].demandedOn = Absent =>
                  rows[j].demandedOn = Absent
  <2>1. PICK i \in 1..n : rows[j] \in {c(i), SourceRow(f, i, "survey", 20000, 1),
                                       SourceRow(f, i, "register", 10000, 2)}
    BY <1>3
  <2> DEFINE row == rows[j]
  <2> HIDE DEF row
  <2>2. OfTenant(row, f, i)
    BY <2>1, RowsOfTenant DEF row
  <2> QED
    BY <2>2 DEF OfTenant, row
<1>5. \A k \in 1..n : c(k).seq = k /\ c(k).source = "claim"
  BY DEF SourceRow
<1>6. {rows[j].seq : j \in DOMAIN rows} = 1..n
  <2>1. \A k \in 1..n : \E j \in 1..l : rows[j].seq = k
    BY <1>2, <1>5
  <2> QED
    BY <1>1, <1>4, <2>1
<1>7. MergeNoticeTenants(rows) = [k \in 1..n |-> Merged(rows, k)]
  BY <1>0, <1>6, PeopleByNumber
<1>8. ASSUME NEW k \in 1..n
      PROVE  ClassifyNoticeAssumption(Merged(rows, k).value, b, d) =
               ClassifyNoticeAssumption(c(k), b, d)
  <2> DEFINE row == c(k)
             t == f.tenants[k]
             value == Merged(rows, k).value
  <2>1. OwnRows(rows, l, k, row)
    BY <1>4 DEF OwnRows
  <2>2. \E j \in 1..l : rows[j].seq = k /\ rows[j].source = "claim"
    BY <1>2, <1>5
  <2>3. /\ \A x \in Fields : row[x] # Absent => value[x] = row[x]
        /\ \A x \in Fields : (\A j \in 1..l : rows[j].seq = k => rows[j][x] = Absent) =>
             value[x] = Absent
    BY <1>1, <2>1, <2>2, ClaimStands
  <2>4. /\ t.moveIn \in Int /\ t.deposit \in Int /\ t.demanded \in BOOLEAN
    BY <1>0 DEF Tenants
  <2>5. t.demanded /\ t.demandedOn = Absent =>
          \A j \in 1..l : rows[j].seq = k => rows[j].demandedOn = Absent
    BY <1>4
  <2> HIDE DEF t, value
  <2>6. /\ row.moveIn = t.moveIn + 0 /\ row.deposit = t.deposit + 0
        /\ row.demanded = (t.demanded <=> 0 = 0) /\ row.demandedOn = t.demandedOn
    BY DEF SourceRow, t
  <2> HIDE DEF row
  <2>7. row.moveIn # Absent /\ row.deposit # Absent /\ row.demanded # Absent
    BY <2>4, <2>6, AbsentAssumption, AbsentIsNoFlag
  <2>8. /\ value.moveIn = row.moveIn /\ value.deposit = row.deposit
        /\ value.demanded = row.demanded
        /\ row.demandedOn # Absent => value.demandedOn = row.demandedOn
    BY <2>3, <2>7 DEF Fields
  <2>9. row.demanded /\ row.demandedOn = Absent => value.demandedOn = Absent
    <3>1. (\A j \in 1..l : rows[j].seq = k => rows[j].demandedOn = Absent) =>
             value.demandedOn = Absent
      BY <2>3 DEF Fields
    <3>2. row.demanded => t.demanded
      BY <2>4, <2>6
    <3> QED
      BY <2>5, <2>6, <3>1, <3>2
  <2>10. DemandEffective(value, d) = DemandEffective(row, d)
    BY <2>8, <2>9 DEF DemandEffective
  <2>11. HasPriority(value, b) = HasPriority(row, b)
    BY <2>8 DEF HasPriority, PossessionDate
  <2>12. ClassifyNoticeAssumption(value, b, d) = ClassifyNoticeAssumption(row, b, d)
    BY <2>8, <2>10, <2>11, Zenon DEF ClassifyNoticeAssumption
  <2> QED
    BY <2>12 DEF row, value
<1>9. AnalyzeNotice(rows, b, d) =
        [k \in 1..n |-> ClassifyNoticeAssumption(Merged(rows, k).value, b, d)]
  BY <1>7 DEF AnalyzeNotice
<1> QED
  BY <1>8, <1>9 DEF OfClaims

LEMMA AnyOrder ==
  ASSUME AnalysisInv
  PROVE  ClaimDecidesInAnyOrder
<1> DEFINE claim == RowsOfClaims(file)
           survey == RowsOfSurvey(file)
           register == RowsOfRegister(file)
           Verdicts(rows) == AnalyzeNotice(rows, analysis.baseline, file.deadline)
<1>1. PICK n \in Nat : file.tenants \in [1..n -> Tenants]
  BY FileTyped DEF AnalysisInv
<1>2. TenantsTyped(file, n)
  BY <1>1 DEF AnalysisInv, SaleFiles, TenantsTyped
<1> DEFINE G == AllRows(file, n)
<1>3. claim \in Seq(G) /\ survey \in Seq(G) /\ register \in Seq(G)
  <2>1. /\ \A i \in 1..n : SourceRow(file, i, "claim", 0, 0) \in G
        /\ \A i \in 1..n : SourceRow(file, i, "survey", 20000, 1) \in G
        /\ \A i \in 1..n : SourceRow(file, i, "register", 10000, 2) \in G
    BY DEF AllRows, OwnClaims, OtherRows
  <2>2. DOMAIN file.tenants = 1..n
    BY <1>1
  <2> HIDE DEF G
  <2> QED
    BY <2>1, <2>2 DEF SourceRows, RowsOfClaims, RowsOfSurvey, RowsOfRegister
<1>4. Len(claim) = n /\ \A k \in 1..n : claim[k] = SourceRow(file, k, "claim", 0, 0)
  BY <1>1 DEF SourceRows, RowsOfClaims
<1> HIDE DEF G
<1>5. WithClaims(claim, file, n)
  <2> HIDE DEF claim
  <2> QED
    BY <1>3, <1>4 DEF WithClaims, G
<1> HIDE DEF claim, survey, register
<1>6. WithClaims((survey \o claim) \o register, file, n)
  <2>1. WithClaims(survey \o claim, file, n)
    BY <1>3, <1>5, RowsTogether DEF G
  <2>2. survey \o claim \in Seq(AllRows(file, n))
    BY <2>1 DEF WithClaims
  <2> DEFINE both == survey \o claim
  <2> HIDE DEF both
  <2>3. WithClaims(both \o register, file, n)
    BY <1>3, <2>1, <2>2, RowsTogether DEF G, both
  <2> QED
    BY <2>3 DEF both
<1>7. WithClaims((claim \o survey) \o register, file, n)
  <2>1. WithClaims(claim \o survey, file, n)
    BY <1>3, <1>5, RowsTogether DEF G
  <2>2. claim \o survey \in Seq(AllRows(file, n))
    BY <2>1 DEF WithClaims
  <2> DEFINE both == claim \o survey
  <2> HIDE DEF both
  <2>3. WithClaims(both \o register, file, n)
    BY <1>3, <2>1, <2>2, RowsTogether DEF G, both
  <2> QED
    BY <2>3 DEF both
<1>8. WithClaims((register \o claim) \o survey, file, n)
  <2>1. WithClaims(register \o claim, file, n)
    BY <1>3, <1>5, RowsTogether DEF G
  <2>2. register \o claim \in Seq(AllRows(file, n))
    BY <2>1 DEF WithClaims
  <2> DEFINE both == register \o claim
  <2> HIDE DEF both
  <2>3. WithClaims(both \o survey, file, n)
    BY <1>3, <2>1, <2>2, RowsTogether DEF G, both
  <2> QED
    BY <2>3 DEF both
<1>9. ASSUME NEW rows, WithClaims(rows, file, n) PROVE Verdicts(rows) = Verdicts(claim)
  <2> DEFINE alone == OfClaims(file, n, analysis.baseline, file.deadline)
  <2>1. Verdicts(rows) = alone
    BY <1>2, <1>9, ClaimsDecide
  <2>2. Verdicts(claim) = alone
    BY <1>2, <1>5, ClaimsDecide
  <2> QED
    BY <2>1, <2>2
<1> HIDE DEF Verdicts
<1>10. /\ Verdicts((survey \o claim) \o register) = Verdicts(claim)
       /\ Verdicts((register \o claim) \o survey) = Verdicts(claim)
       /\ Verdicts((claim \o survey) \o register) = Verdicts(claim)
  BY <1>6, <1>7, <1>8, <1>9
<1>11. \A rows \in {(survey \o claim) \o register, (register \o claim) \o survey,
                    (claim \o survey) \o register} : Verdicts(rows) = Verdicts(claim)
  BY <1>10, Zenon
<1> QED
  BY <1>11 DEF ClaimDecidesInAnyOrder, Verdicts, claim, survey, register

\* Whatever the bailiff and the register say of a tenant, and in whatever order
\* their rows come, a tenant's own claim decides the verdict
\* (notice-tenant-merge.ts).
THEOREM ClaimsAreHeard == AnalysisSpec => []ClaimDecidesInAnyOrder
<1>1. AnalysisSpec => []AnalysisInv
  BY FileStaysAnalysed
<1>2. AnalysisInv => ClaimDecidesInAnyOrder
  BY AnyOrder
<1> QED
  BY <1>1, <1>2, PTL

-----------------------------------------------------------------------------
\* A demand

\* Two files whose difference no distribution sees: tenants may differ in a demand
\* that counts in neither.
SameButDemands(f, g) ==
  /\ g.rights = f.rights /\ g.taxes = f.taxes /\ g.region = f.region /\ g.deadline = f.deadline
  /\ g.decided = f.decided /\ g.sale = f.sale /\ g.cost = f.cost /\ g.kind = f.kind
SameTenant(t, u, deadline) ==
  /\ u.id = t.id /\ u.moveIn = t.moveIn /\ u.deposit = t.deposit
  /\ DemandEffective(u, deadline) <=> DemandEffective(t, deadline)
  /\ DemandEffective(t, deadline) => u = t
SameTenants(ts, us, n, deadline) ==
  /\ n \in Nat /\ ts \in [1..n -> Tenants] /\ us \in [1..n -> Tenants]
  /\ \A i \in 1..n : SameTenant(ts[i], us[i], deadline)

LEMMA SameJoin ==
  ASSUME NEW ts, NEW us, NEW n, NEW deadline, SameTenants(ts, us, n, deadline)
  PROVE  Join(us, deadline) = Join(ts, deadline)
<1> DEFINE V == Seq(Tenants)
<1>1. /\ n \in Nat /\ ts \in [1..n -> Tenants] /\ us \in [1..n -> Tenants]
      /\ DOMAIN ts = 1..n /\ DOMAIN us = 1..n
      /\ \A i \in 1..n : SameTenant(ts[i], us[i], deadline)
  BY DEF SameTenants
<1>2. \A v \in V, t \in Tenants : Joined(v, t, deadline) \in V
  BY DEF Joined
<1>3. << >> \in V
  OBVIOUS
<1> HIDE DEF V
<1>4. JoinsFit(V, ts, n, deadline) /\ JoinsFit(V, us, n, deadline)
  BY <1>1, <1>2, <1>3 DEF JoinsFit
<1>5. PICK g : JoinsRun(g, V, ts, n, deadline)
  BY <1>4, JoinsInTurn
<1>6. PICK h : JoinsRun(h, V, us, n, deadline)
  BY <1>4, JoinsInTurn
<1> DEFINE S == {k \in 0..n : h[k] = g[k]}
<1>7. 0 \in S
  BY <1>1, <1>5, <1>6 DEF JoinsRun
<1>8. ASSUME NEW k \in 0..(n - 1), k \in S PROVE k + 1 \in S
  <2>1. k + 1 \in 0..n /\ k + 1 \in 1..n
    BY <1>1
  <2>2. g[k + 1] = Joined(g[k], ts[k + 1], deadline) /\ h[k + 1] = Joined(h[k], us[k + 1], deadline)
    BY <1>5, <1>6 DEF JoinsRun
  <2>3. SameTenant(ts[k + 1], us[k + 1], deadline) /\ h[k] = g[k]
    BY <1>1, <1>8, <2>1
  <2>4. h[k + 1] = g[k + 1]
    BY <2>2, <2>3 DEF Joined, SameTenant
  <2> QED
    BY <2>1, <2>4
<1>9. n \in S
  <2>1. n \in 0..n
    BY <1>1
  <2> HIDE DEF S
  <2> QED
    BY <1>1, <1>7, <1>8, <2>1, Stepwise
<1> QED
  BY <1>5, <1>6, <1>9 DEF JoinsRun

LEMMA SameOutcome ==
  ASSUME NEW f, NEW g, NEW n, SameTenants(f.tenants, g.tenants, n, f.deadline),
         NEW b, NEW money, NEW book
  PROVE  Outcome(g, b, money, book) = Outcome(f, b, money, book)
<1>1. DOMAIN f.tenants = 1..n /\ DOMAIN g.tenants = 1..n
  BY DEF SameTenants
<1>2. \A i \in 1..n : /\ g.tenants[i].id = f.tenants[i].id
                      /\ g.tenants[i].deposit = f.tenants[i].deposit
                      /\ HasPriority(g.tenants[i], b) <=> HasPriority(f.tenants[i], b)
  BY DEF SameTenants, SameTenant, HasPriority, PossessionDate
<1> DEFINE R == [i \in 1..n |-> Got(book, f.tenants[i].id)]
           A == [i \in 1..n |-> IF HasPriority(f.tenants[i], b)
                                THEN Most(0, f.tenants[i].deposit - R[i]) ELSE 0]
<1>3. [i \in DOMAIN g.tenants |-> Got(book, g.tenants[i].id)] = R
      /\ [i \in DOMAIN f.tenants |-> Got(book, f.tenants[i].id)] = R
  BY <1>1, <1>2
<1> HIDE DEF R
<1>4. [i \in DOMAIN g.tenants |-> IF HasPriority(g.tenants[i], b)
                                  THEN Most(0, g.tenants[i].deposit - R[i]) ELSE 0] = A
      /\ [i \in DOMAIN f.tenants |-> IF HasPriority(f.tenants[i], b)
                                     THEN Most(0, f.tenants[i].deposit - R[i]) ELSE 0] = A
  BY <1>1, <1>2
<1> QED
  BY <1>3, <1>4 DEF Outcome

LEMMA SameDistribution ==
  ASSUME NEW f, NEW g, SameButDemands(f, g),
         NEW n, SameTenants(f.tenants, g.tenants, n, f.deadline), NEW b
  PROVE  Distribute(g, b) = Distribute(f, b)
<1>1. Join(g.tenants, g.deadline) = Join(f.tenants, f.deadline)
  BY SameJoin DEF SameButDemands
<1>2. \A joining, rule, money : PayAll(g, joining, rule, money) = PayAll(f, joining, rule, money)
  BY DEF PayAll, SameButDemands
<1>3. \A joining, rule, money :
        DistributeAmong(g, b, joining, rule, money) = DistributeAmong(f, b, joining, rule, money)
  <2>1. \A money, book : Outcome(g, b, money, book) = Outcome(f, b, money, book)
    BY SameOutcome
  <2> QED
    BY <1>2, <2>1 DEF DistributeAmong
<1> QED
  BY <1>1, <1>3 DEF Distribute, SameButDemands

LEMMA SameAnalysis ==
  ASSUME NEW f, NEW g, SameButDemands(f, g),
         NEW n, SameTenants(f.tenants, g.tenants, n, f.deadline)
  PROVE  Analyze(g) = Analyze(f)
<1>1. /\ n \in Nat /\ DOMAIN f.tenants = 1..n /\ DOMAIN g.tenants = 1..n
      /\ \A i \in 1..n : SameTenant(f.tenants[i], g.tenants[i], f.deadline)
  BY DEF SameTenants
<1>2. f.tenants = << >> <=> g.tenants = << >>
  <2>1. \A s : DOMAIN s = 1..n /\ s \in Seq(Tenants) => (s = << >> <=> n = 0)
    BY <1>1
  <2>2. f.tenants \in Seq(Tenants) /\ g.tenants \in Seq(Tenants)
    BY <1>1 DEF SameTenants
  <2> QED
    BY <1>1, <2>1, <2>2
<1>3. ASSUME NEW b, NEW d
      PROVE  [i \in DOMAIN g.tenants |-> ClassifyTenant(g, i, b, d)] =
             [i \in DOMAIN f.tenants |-> ClassifyTenant(f, i, b, d)]
  <2>1. ASSUME NEW i \in 1..n PROVE ClassifyTenant(g, i, b, d) = ClassifyTenant(f, i, b, d)
    <3>1. /\ g.tenants[i].deposit = f.tenants[i].deposit /\ g.deadline = f.deadline
          /\ HasPriority(g.tenants[i], b) <=> HasPriority(f.tenants[i], b)
          /\ DemandEffective(g.tenants[i], g.deadline) <=> DemandEffective(f.tenants[i], f.deadline)
      BY <1>1 DEF SameTenant, HasPriority, PossessionDate, SameButDemands
    <3> QED
      BY <3>1 DEF ClassifyTenant
  <2> QED
    BY <1>1, <2>1
<1>4. \A ts, d : EvictionOutlook(g, ts, d) = EvictionOutlook(f, ts, d)
  <2>1. \A i \in 1..n : g.tenants[i].deposit = f.tenants[i].deposit
    BY <1>1 DEF SameTenant
  <2> QED
    BY <1>1, <1>2, <2>1 DEF EvictionOutlook
<1>5. \A b, d, ts : ReportOfTenants(g, b, d, ts) = ReportOfTenants(f, b, d, ts)
  BY <1>4 DEF ReportOfTenants, Report, BurdenOf, SameButDemands
<1>6. \A b, d : ReportOf(g, b, d) = ReportOf(f, b, d)
  BY <1>3, <1>5 DEF ReportOf, SameButDemands
<1>7. \A b : Distribute(g, b) = Distribute(f, b)
  BY SameDistribution
<1> QED
  BY <1>6, <1>7 DEF Analyze, SameButDemands

\* What a demand changes of a file.
OneDemand(f, g, n, k, day) ==
  /\ k \in 1..n /\ SameButDemands(f, g)
  /\ f.tenants \in [1..n -> Tenants] /\ g.tenants \in [1..n -> Tenants]
  /\ ~f.tenants[k].demanded
  /\ \A i \in 1..n : i # k => g.tenants[i] = f.tenants[i]
  /\ g.tenants[k] = [f.tenants[k] EXCEPT !.demanded = TRUE, !.demandedOn = day]
LEMMA DemandFiled ==
  ASSUME AnalysisInv, FileDemand
  PROVE  \E n, k \in Nat, day \in Int : OneDemand(file, file', n, k, day)
<1>1. PICK k \in DOMAIN file.tenants, day \in DemandDays :
        /\ ~file.tenants[k].demanded
        /\ file' = [[file EXCEPT !.tenants[k].demanded = TRUE, !.tenants[k].demandedOn = day]
                      EXCEPT !.changes = @ + 1]
  BY DEF FileDemand, Change
<1>2. PICK n \in Nat : file.tenants \in [1..n -> Tenants]
  BY FileTyped DEF AnalysisInv
<1>3. k \in 1..n /\ day \in Int
  BY <1>1, <1>2, ChangesAssumption
<1> DEFINE row == [file.tenants[k] EXCEPT !.demanded = TRUE, !.demandedOn = day]
           new == [file.tenants EXCEPT ![k] = row]
<1>4. file' = [[file EXCEPT !.tenants = new] EXCEPT !.changes = @ + 1]
  BY <1>1
<1>5. /\ \A i \in 1..n : i # k => new[i] = file.tenants[i]
      /\ new[k] = row /\ DOMAIN new = 1..n
  BY <1>2, <1>3
<1> HIDE DEF new
<1>6. DOMAIN file = {"rights", "tenants", "taxes", "region", "deadline", "decided", "sale", "cost",
                     "kind", "changes"}
  BY DEF AnalysisInv, SaleFiles
<1>7. SameButDemands(file, file') /\ file'.tenants = new
  BY <1>4, <1>6 DEF SameButDemands
<1>8. new \in [1..n -> Tenants]
  <2>1. file' \in SaleFiles /\ IdsApart(file')
    BY FilesStayTyped DEF AnalysisInv
  <2>2. PICK m \in Nat : file'.tenants \in [1..m -> Tenants]
    BY <2>1, FileTyped
  <2>3. 1..m = 1..n
    BY <1>5, <1>7, <2>2
  <2> QED
    BY <1>7, <2>2, <2>3
<1>9. OneDemand(file, file', n, k, day)
  <2>1. new[k] = [file.tenants[k] EXCEPT !.demanded = TRUE, !.demandedOn = day]
    BY <1>5
  <2> QED
    BY <1>1, <1>2, <1>3, <1>5, <1>7, <1>8, <2>1 DEF OneDemand
<1> QED
  BY <1>2, <1>3, <1>9

\* The tenants of a report.
LEMMA ReportedTenants ==
  ASSUME NEW f \in SaleFiles, IdsApart(f), NEW a, a = Analyze(f), ~a.failed, f.sale # Absent,
         NEW i \in DOMAIN f.tenants
  PROVE  LET b == BaselineDate(f.rights)
             d == Distribute(f, b)
             t == f.tenants[i]
         IN  /\ Conserved(f, d) /\ a.distribution = d
             /\ \A w : PaidTo(a, w) = PaidOf(d.book, Stages, {w})
             /\ t.deposit \in Nat
             /\ a.tenants[i].assumed \in 0..t.deposit
             /\ ~HasPriority(t, b) => a.tenants[i].assumed = 0
             /\ HasPriority(t, b) /\ ~DemandEffective(t, f.deadline) =>
                  a.tenants[i].assumed = t.deposit
<1> DEFINE b == BaselineDate(f.rights)
           d == Distribute(f, b)
           t == f.tenants[i]
<1>1. /\ d # Absent /\ a.distribution = d
      /\ a.tenants = [j \in DOMAIN f.tenants |-> ClassifyTenant(f, j, b, d)]
  BY DEF Analyze, ReportOf, ReportOfTenants, Report, Failed
<1>2. a.tenants[i] = ClassifyTenant(f, i, b, d)
  BY <1>1
<1>3. Conserved(f, d)
  BY <1>1, DistributionConserves
<1>4. d.assumed[i] = IF HasPriority(t, b) THEN Most(0, t.deposit - Got(d.book, t.id)) ELSE 0
  BY <1>1 DEF Distribute, DistributeAmong, Outcome
<1>5. t.deposit \in Nat
  <2>1. PICK n \in Nat : f.tenants \in [1..n -> Tenants]
    BY FileTyped
  <2>2. t \in Tenants
    BY <2>1
  <2> QED
    BY <2>2 DEF Tenants
<1> HIDE DEF d, b, t
<1>6. d.book \in Books(STRING)
  BY <1>3 DEF Conserved
<1>7. \A w : PaidTo(a, w) = PaidOf(d.book, Stages, {w})
  <2>1. \A w : Received(d.book, Stages, w) = PaidOf(d.book, Stages, {w})
    BY <1>6, ReceivedIsPaid
  <2>2. \A w : PaidTo(a, w) = Received(d.book, Stages, w)
    BY <1>1 DEF PaidTo, Stages
  <2> QED
    BY <2>1, <2>2
<1>8. Got(d.book, t.id) \in Int /\ Got(d.book, t.id) >= 0
  <2> DEFINE paid == {"small", "relief", "rank"}
  <2> HIDE DEF paid
  <2>1. Received(d.book, paid, t.id) = PaidOf(d.book, paid, {t.id})
    BY <1>6, ReceivedIsPaid
  <2>2. PaidOf(d.book, paid, {t.id}) \in Int /\ 0 <= PaidOf(d.book, paid, {t.id})
    BY <1>3, <1>6, PaidTyped DEF Conserved
  <2> QED
    BY <2>1, <2>2 DEF Got, paid
<1>9. d.assumed[i] \in 0..t.deposit
  BY <1>4, <1>5, <1>8 DEF Most
<1>10. /\ a.tenants[i].assumed \in 0..t.deposit
       /\ ~HasPriority(t, b) => a.tenants[i].assumed = 0
       /\ HasPriority(t, b) /\ ~DemandEffective(t, f.deadline) => a.tenants[i].assumed = t.deposit
  BY <1>1, <1>2, <1>5, <1>9 DEF ClassifyTenant, t
<1> QED
  BY <1>1, <1>3, <1>5, <1>7, <1>10 DEF d, b, t

\* A demand helps in time, and is nothing too late.
LEMMA DemandHelps ==
  ASSUME AnalysisInv, AnalysisNext, FileDemand, Distributed, ~analysis'.failed,
         NEW i \in DOMAIN file.tenants, file'.tenants[i].demanded # file.tenants[i].demanded
  PROVE  IF file'.tenants[i].demandedOn <= file.deadline
         THEN /\ analysis'.tenants[i].assumed <= analysis.tenants[i].assumed
              /\ PaidTo(analysis', file.tenants[i].id) >= PaidTo(analysis, file.tenants[i].id)
         ELSE analysis' = analysis
<1>0. PICK n \in Nat, k \in Nat, day \in Int : OneDemand(file, file', n, k, day)
  BY DemandFiled
<1>1. /\ n \in Nat /\ day \in Int
      /\ k \in 1..n /\ SameButDemands(file, file')
      /\ file.tenants \in [1..n -> Tenants] /\ file'.tenants \in [1..n -> Tenants]
      /\ ~file.tenants[k].demanded
      /\ \A j \in 1..n : j # k => file'.tenants[j] = file.tenants[j]
      /\ file'.tenants[k] = [file.tenants[k] EXCEPT !.demanded = TRUE, !.demandedOn = day]
  BY <1>0 DEF OneDemand
<1>2. i \in 1..n /\ i = k
  BY <1>1
<1> DEFINE t == file.tenants[i]
           u == file'.tenants[i]
           b == BaselineDate(file.rights)
<1>3. /\ file \in SaleFiles /\ IdsApart(file) /\ analysis = Analyze(file)
      /\ file' \in SaleFiles /\ IdsApart(file') /\ analysis' = Analyze(file')
      /\ file.sale # Absent /\ ~analysis.failed /\ file'.sale = file.sale
      /\ file'.rights = file.rights /\ file'.deadline = file.deadline
  BY <1>1, FilesStayTyped DEF AnalysisInv, AnalysisNext, Distributed, SameButDemands
<1>4. t \in Tenants
  BY <1>1, <1>2
<1>5. /\ u.id = t.id /\ u.moveIn = t.moveIn /\ u.deposit = t.deposit
      /\ u.demandedOn = day /\ u.demanded /\ ~t.demanded
  BY <1>1, <1>2, <1>4 DEF Tenants
<1>6. ~DemandEffective(t, file.deadline)
  BY <1>5 DEF DemandEffective
<1> HIDE DEF t, u, b
<1>7. CASE day <= file.deadline
  <2> DEFINE d == Distribute(file, b)
             e == Distribute(file', b)
  <2>1. /\ Conserved(file, d) /\ PaidTo(analysis, t.id) = PaidOf(d.book, Stages, {t.id})
        /\ t.deposit \in Nat
        /\ ~HasPriority(t, b) => analysis.tenants[i].assumed = 0
        /\ HasPriority(t, b) => analysis.tenants[i].assumed = t.deposit
    BY <1>3, <1>6, ReportedTenants DEF t, b
  <2>2. /\ Conserved(file', e) /\ PaidTo(analysis', u.id) = PaidOf(e.book, Stages, {u.id})
        /\ analysis'.tenants[i].assumed \in 0..u.deposit
        /\ ~HasPriority(u, b) => analysis'.tenants[i].assumed = 0
    <3>1. i \in DOMAIN file'.tenants
      BY <1>1, <1>2
    <3> QED
      BY <1>3, <3>1, ReportedTenants DEF u, b
  <2> HIDE DEF d, e
  <2>3. HasPriority(u, b) <=> HasPriority(t, b)
    BY <1>5 DEF HasPriority, PossessionDate
  <2>4. PaidOf(d.book, Stages, {t.id}) = 0
    BY <1>6, <2>1 DEF Conserved, t
  <2>5. 0 <= PaidOf(e.book, Stages, {u.id}) /\ PaidOf(e.book, Stages, {u.id}) \in Int
    BY <2>2, PaidTyped DEF Conserved
  <2>6. analysis'.tenants[i].assumed <= analysis.tenants[i].assumed
    BY <1>5, <2>1, <2>2, <2>3
  <2>7. PaidTo(analysis', t.id) >= PaidTo(analysis, t.id)
    BY <1>5, <2>1, <2>2, <2>4, <2>5
  <2> QED
    BY <1>5, <1>7, <2>6, <2>7 DEF t, u
<1>8. CASE ~(day <= file.deadline)
  <2>1. ~DemandEffective(u, file.deadline)
    BY <1>5, <1>8 DEF DemandEffective
  <2>2. ASSUME NEW j \in 1..n PROVE SameTenant(file.tenants[j], file'.tenants[j], file.deadline)
    <3>1. CASE j = i
      BY <1>5, <1>6, <2>1, <3>1 DEF SameTenant, t, u
    <3>2. CASE j # i
      <4>1. file'.tenants[j] = file.tenants[j]
        BY <1>1, <1>2, <3>2
      <4> QED
        BY <4>1 DEF SameTenant
    <3> QED
      BY <3>1, <3>2
  <2>3. SameTenants(file.tenants, file'.tenants, n, file.deadline)
    BY <1>1, <2>2 DEF SameTenants
  <2>4. analysis' = analysis
    BY <1>1, <1>3, <2>3, SameAnalysis
  <2> QED
    BY <1>5, <1>8, <2>4 DEF u
<1> QED
  BY <1>7, <1>8

\* A demand in time never costs its tenant anything, and one after the deadline
\* changes nothing for anybody, whatever the file and whoever else has a claim
\* (distribution.ts, rights-analysis.service.ts).
THEOREM DemandsInTimeCount == AnalysisSpec => DemandOnlyInTime
<1>1. AnalysisSpec => []AnalysisInv
  BY FileStaysAnalysed
<1>2. AnalysisInv /\ [AnalysisNext]_analysisVars =>
        [FileDemand /\ Distributed /\ ~analysis'.failed =>
           \A i \in DOMAIN file.tenants : file'.tenants[i].demanded # file.tenants[i].demanded =>
             IF file'.tenants[i].demandedOn <= file.deadline
             THEN /\ analysis'.tenants[i].assumed <= analysis.tenants[i].assumed
                  /\ PaidTo(analysis', file.tenants[i].id) >= PaidTo(analysis, file.tenants[i].id)
             ELSE analysis' = analysis]_analysisVars
  BY DemandHelps
<1> QED
  BY <1>1, <1>2, PTL DEF AnalysisSpec, DemandOnlyInTime

-----------------------------------------------------------------------------
\* What the ranks leave unpaid

\* The numbers of one list, placed apart in another one of larger numbers, have the
\* smaller sum.
Placed(h, x, m, y, n) ==
  /\ m \in Nat /\ x \in [1..m -> Int] /\ n \in Nat /\ y \in [1..n -> Nat]
  /\ h \in [1..m -> 1..n] /\ \A i, j \in 1..m : h[i] = h[j] => i = j
  /\ \A i \in 1..m : x[i] <= y[h[i]]

LEMMA SumSubset ==
  ASSUME NEW n \in Nat, NEW y \in [1..n -> Nat], NEW s \in SUBSET (1..n)
  PROVE  SumIn(y, n, s) <= SumIn(y, n, 1..n)
<1> DEFINE S == {k \in 0..n : SumIn(y, n, s \intersect (1..k)) <= SumIn(y, n, 1..k)}
<1>1. y \in [1..n -> Int]
  OBVIOUS
<1>2. 0 \in S
  <2>1. s \intersect (1..0) = {} /\ 1..0 = {}
    OBVIOUS
  <2>2. SumIn(y, n, {}) = 0
    BY <1>1, SumSteps
  <2> QED
    BY <2>1, <2>2
<1>3. ASSUME NEW k \in 0..(n - 1), k \in S PROVE k + 1 \in S
  <2> DEFINE t == s \intersect (1..k)
             u == s \intersect (1..(k + 1))
  <2>1. k + 1 \in 1..n /\ k + 1 \in 0..n /\ \A i \in 1..k : i \in 1..n
    OBVIOUS
  <2>2. t \in SUBSET (1..n) /\ u \in SUBSET (1..n) /\ 1..k \in SUBSET (1..n)
    BY <2>1
  <2>3. SumIn(y, n, t) \in Int /\ SumIn(y, n, 1..k) \in Int /\ y[k + 1] \in Nat
    BY <1>1, <2>1, <2>2, SumSteps
  <2>4. SumIn(y, n, 1..(k + 1)) = SumIn(y, n, 1..k) + y[k + 1]
    BY <1>1, SumSteps
  <2>5. SumIn(y, n, t) <= SumIn(y, n, 1..k)
    BY <1>3
  <2>6. CASE k + 1 \in s
    <3>1. k + 1 \in u /\ u \ {k + 1} = t
      BY <2>6
    <3> HIDE DEF t, u
    <3>2. SumIn(y, n, u) = SumIn(y, n, u \ {k + 1}) + y[k + 1]
      BY <1>1, <2>2, <3>1, SumRemove
    <3>3. SumIn(y, n, u) = SumIn(y, n, t) + y[k + 1]
      BY <3>1, <3>2
    <3>4. SumIn(y, n, u) <= SumIn(y, n, 1..(k + 1))
      BY <2>3, <2>4, <2>5, <3>3
    <3> QED
      BY <2>1, <3>4 DEF u
  <2>7. CASE k + 1 \notin s
    <3>1. u = t
      BY <2>7
    <3> HIDE DEF t, u
    <3>2. SumIn(y, n, u) <= SumIn(y, n, 1..(k + 1))
      BY <2>3, <2>4, <2>5, <3>1
    <3> QED
      BY <2>1, <3>2 DEF u
  <2> QED
    BY <2>6, <2>7
<1>4. n \in S
  <2>1. n \in 0..n
    OBVIOUS
  <2> HIDE DEF S
  <2> QED
    BY <1>2, <1>3, <2>1, Stepwise
<1>5. s \intersect (1..n) = s
  OBVIOUS
<1> QED
  BY <1>4, <1>5

LEMMA SumPlaced ==
  ASSUME NEW h, NEW x, NEW m, NEW y, NEW n, Placed(h, x, m, y, n)
  PROVE  SumIn(x, m, 1..m) <= SumIn(y, n, 1..n)
<1> DEFINE Image(k) == {h[i] : i \in 1..k}
           S == {k \in 0..m : SumIn(x, m, 1..k) <= SumIn(y, n, Image(k))}
<1>1. /\ m \in Nat /\ x \in [1..m -> Int] /\ n \in Nat /\ y \in [1..n -> Nat]
      /\ y \in [1..n -> Int]
  BY DEF Placed
<1>0. /\ h \in [1..m -> 1..n] /\ \A i, j \in 1..m : h[i] = h[j] => i = j
      /\ \A i \in 1..m : x[i] <= y[h[i]]
  BY DEF Placed
<1>2. \A k \in 0..m : Image(k) \in SUBSET (1..n)
  <2>1. \A k \in 0..m : \A i \in 1..k : i \in 1..m
    BY <1>1
  <2> QED
    BY <1>0, <2>1
<1>3. 0 \in S
  <2>1. Image(0) = {} /\ 1..0 = {} /\ 0 \in 0..m
    BY <1>1
  <2>2. SumIn(y, n, {}) = 0 /\ SumIn(x, m, {}) = 0
    BY <1>1, SumSteps
  <2> HIDE DEF Image
  <2>3. SumIn(x, m, 1..0) <= SumIn(y, n, Image(0))
    BY <2>1, <2>2
  <2> QED
    BY <2>1, <2>3
<1>4. ASSUME NEW k \in 0..(m - 1), k \in S PROVE k + 1 \in S
  <2> DEFINE t == Image(k + 1)
             z == h[k + 1]
  <2>1. k + 1 \in 1..m /\ k + 1 \in 0..m /\ k \in 0..m /\ k \in Nat /\ k <= m
    BY <1>1
  <2>2. z \in t /\ t \ {z} = Image(k)
    <3>1. \A i \in 1..(k + 1) : i \in 1..m /\ (i \in 1..k <=> i # k + 1)
      BY <1>1
    <3>2. \A i \in 1..k : i \in 1..(k + 1)
      BY <1>1
    <3>3. k + 1 \in 1..(k + 1)
      BY <1>1
    <3>4. \A i \in 1..(k + 1) : h[i] = z => i = k + 1
      BY <1>0, <2>1, <3>1
    <3>5. \A e \in Image(k) : e \in t \ {z}
      BY <3>1, <3>2, <3>4
    <3>6. \A e \in t \ {z} : e \in Image(k)
      BY <3>1
    <3> QED
      BY <3>3, <3>5, <3>6
  <2>3. t \in SUBSET (1..n) /\ Image(k) \in SUBSET (1..n)
    BY <1>2, <2>1
  <2>4. x[k + 1] <= y[z] /\ x[k + 1] \in Int /\ y[z] \in Int
    <3>1. z \in 1..n /\ x[k + 1] <= y[z]
      BY <1>0, <2>1
    <3> HIDE DEF z
    <3> QED
      BY <1>1, <2>1, <3>1
  <2>5. SumIn(x, m, 1..k) <= SumIn(y, n, Image(k))
    BY <1>4
  <2>6. SumIn(x, m, 1..(k + 1)) = SumIn(x, m, 1..k) + x[k + 1]
    BY <1>1, SumSteps
  <2>7. SumIn(x, m, 1..k) \in Int
    BY <1>1, <2>1, SumTyped
  <2> HIDE DEF Image, t, z
  <2>8. SumIn(y, n, t) = SumIn(y, n, Image(k)) + y[z]
    <3>2. n \in Nat /\ y \in [1..n -> Int] /\ t \in SUBSET (1..n) /\ z \in t
      BY <1>1, <2>2, <2>3
    <3>1. SumIn(y, n, t) = SumIn(y, n, t \ {z}) + y[z]
      BY <3>2, SumRemove
    <3> QED
      BY <2>2, <3>1
  <2>9. SumIn(y, n, Image(k)) \in Int
    BY <1>1, <2>3, SumSteps
  <2>10. SumIn(x, m, 1..(k + 1)) <= SumIn(y, n, t)
    BY <2>4, <2>5, <2>6, <2>7, <2>8, <2>9
  <2> QED
    BY <2>1, <2>10 DEF t
<1>5. SumIn(x, m, 1..m) <= SumIn(y, n, Image(m))
  <2>1. m \in 0..m
    BY <1>1
  <2> HIDE DEF S
  <2>2. m \in S
    BY <1>1, <1>3, <1>4, <2>1, Stepwise
  <2> QED
    BY <2>2 DEF S
<1>6. Image(m) \in SUBSET (1..n)
  <2>1. m \in 0..m
    BY <1>1
  <2> HIDE DEF Image
  <2> QED
    BY <1>2, <2>1
<1> HIDE DEF Image
<1>7. SumIn(y, n, Image(m)) <= SumIn(y, n, 1..n)
  BY <1>1, <1>6, SumSubset
<1>8. SumIn(y, n, Image(m)) \in Int /\ SumIn(y, n, 1..n) \in Int /\ SumIn(x, m, 1..m) \in Int
  <2>1. 1..n \in SUBSET (1..n) /\ 1..m \in SUBSET (1..m)
    OBVIOUS
  <2>2. SumIn(y, n, Image(m)) \in Int /\ SumIn(y, n, 1..n) \in Int
    BY <1>1, <1>6, <2>1, SumSteps
  <2>3. SumIn(x, m, 1..m) \in Int
    BY <1>1, <2>1, SumSteps
  <2> QED
    BY <2>2, <2>3
<1> QED
  BY <1>5, <1>7, <1>8

\* Nothing is added by places that hold nothing.
LEMMA SumPrefix ==
  ASSUME NEW n \in Nat, NEW a \in [1..n -> Int], NEW e \in 0..n,
         \A i \in 1..n : e < i => a[i] = 0
  PROVE  SumIn(a, n, 1..n) = SumIn(a, n, 1..e)
<1> DEFINE S == {k \in 0..n : e <= k => SumIn(a, n, 1..k) = SumIn(a, n, 1..e)}
<1>1. 0 \in S
  OBVIOUS
<1>2. ASSUME NEW k \in 0..(n - 1), k \in S PROVE k + 1 \in S
  <2>1. k + 1 \in 0..n /\ k + 1 \in 1..n /\ k \in Nat /\ k <= n
    OBVIOUS
  <2>2. SumIn(a, n, 1..(k + 1)) = SumIn(a, n, 1..k) + a[k + 1]
    BY SumSteps
  <2>3. SumIn(a, n, 1..k) \in Int
    BY <2>1, SumTyped
  <2>4. CASE e <= k
    <3>1. a[k + 1] = 0 /\ SumIn(a, n, 1..k) = SumIn(a, n, 1..e)
      BY <1>2, <2>1, <2>4
    <3>2. SumIn(a, n, 1..(k + 1)) = SumIn(a, n, 1..e)
      BY <2>2, <2>3, <3>1
    <3> QED
      BY <2>1, <3>2
  <2>5. CASE ~(e <= k)
    <3>1. e <= k + 1 => e = k + 1
      BY <2>5
    <3> QED
      BY <2>1, <3>1
  <2> QED
    BY <2>4, <2>5
<1>3. n \in S
  <2>1. n \in 0..n
    OBVIOUS
  <2> HIDE DEF S
  <2> QED
    BY <1>1, <1>2, <2>1, Stepwise
<1> QED
  BY <1>3

FirstOf(b, a, n, e) ==
  /\ n \in Nat /\ a \in [1..n -> Int] /\ b \in [1..n -> Int] /\ e \in 0..n
  /\ \A i \in 1..n : b[i] = IF i <= e THEN a[i] ELSE 0

LEMMA SumFirst ==
  ASSUME NEW b, NEW a, NEW n, NEW e, FirstOf(b, a, n, e)
  PROVE  SumIn(b, n, 1..n) = SumIn(a, n, 1..e)
<1> /\ n \in Nat /\ a \in [1..n -> Int] /\ b \in [1..n -> Int] /\ e \in 0..n
    /\ \A i \in 1..n : b[i] = IF i <= e THEN a[i] ELSE 0
  BY DEF FirstOf
<1>1. \A i \in 1..n : e < i => b[i] = 0
  OBVIOUS
<1>2. SumIn(b, n, 1..n) = SumIn(b, n, 1..e)
  BY <1>1, SumPrefix
<1>3. e \in Nat /\ e <= n /\ \A i \in 1..e : b[i] = a[i]
  OBVIOUS
<1>4. SumIn(b, n, 1..e) = SumIn(a, n, 1..e)
  BY <1>3, SumSame
<1> QED
  BY <1>2, <1>4

\* The claims that are paid before another one, and what a claim lacks after them.
DatesOf(claims) == [i \in 1..Len(claims) |-> claims[i].date]
AmountAt(claims) == [i \in 1..Len(claims) |-> claims[i].amount]
AheadAt(claims, i) ==
  [j \in 1..Len(claims) |-> IF Precedes(DatesOf(claims), j, i) THEN claims[j].amount ELSE 0]
AheadOf(claims, i) == SumIn(AheadAt(claims, i), Len(claims), 1..Len(claims))
Short(left, ahead, amount) == Most(0, amount - Most(0, left - ahead))
UnpaidAt(claims, left, w) ==
  [i \in 1..Len(claims) |->
     IF claims[i].to = w THEN Short(left, AheadOf(claims, i), claims[i].amount) ELSE 0]
Unpaid(claims, left, w) == SumIn(UnpaidAt(claims, left, w), Len(claims), 1..Len(claims))

LEMMA ShortTyped ==
  ASSUME NEW left \in Int, NEW ahead \in Int, NEW amount \in Nat
  PROVE  Short(left, ahead, amount) \in Nat /\ Short(left, ahead, amount) <= amount
BY DEF Short, Most

LEMMA AheadTyped ==
  ASSUME NEW claims \in Seq(ClaimRows), NEW n, n = Len(claims)
  PROVE  /\ n \in Nat /\ claims \in [1..n -> ClaimRows]
         /\ DatesOf(claims) \in [1..n -> Dates]
         /\ AmountAt(claims) \in [1..n -> Nat] /\ AmountAt(claims) \in [1..n -> Int]
         /\ \A i : AheadAt(claims, i) \in [1..n -> Nat] /\ AheadAt(claims, i) \in [1..n -> Int]
         /\ \A i : AheadOf(claims, i) \in Nat
         /\ \A left \in Int : \A w : /\ UnpaidAt(claims, left, w) \in [1..n -> Nat]
                                 /\ UnpaidAt(claims, left, w) \in [1..n -> Int]
                                 /\ Unpaid(claims, left, w) \in Nat
<1>1. n \in Nat /\ claims \in [1..n -> ClaimRows] /\ n <= n
  BY ClaimsTyped
<1>2. \A i \in 1..n : claims[i].amount \in Nat /\ claims[i].date \in Dates
  BY <1>1 DEF ClaimRows
<1>3. /\ DatesOf(claims) \in [1..n -> Dates]
      /\ AmountAt(claims) \in [1..n -> Nat] /\ AmountAt(claims) \in [1..n -> Int]
  BY <1>2 DEF DatesOf, AmountAt
<1>4. \A i : AheadAt(claims, i) \in [1..n -> Nat] /\ AheadAt(claims, i) \in [1..n -> Int]
  BY <1>2 DEF AheadAt
<1>5. \A i : AheadOf(claims, i) \in Nat
  <2> TAKE i
  <2> DEFINE a == AheadAt(claims, i)
  <2>1. a \in [1..n -> Nat]
    BY <1>4
  <2> HIDE DEF a
  <2>2. SumIn(a, n, 1..n) \in Nat
    BY <1>1, <2>1, SumOfNaturals
  <2> QED
    BY <2>2 DEF AheadOf, a
<1>6. ASSUME NEW left \in Int, NEW w
      PROVE  /\ UnpaidAt(claims, left, w) \in [1..n -> Nat]
             /\ UnpaidAt(claims, left, w) \in [1..n -> Int]
             /\ Unpaid(claims, left, w) \in Nat
  <2> DEFINE a == UnpaidAt(claims, left, w)
  <2>1. \A i \in 1..n : Short(left, AheadOf(claims, i), claims[i].amount) \in Nat
    <3> TAKE i \in 1..n
    <3>1. AheadOf(claims, i) \in Int /\ claims[i].amount \in Nat
      BY <1>2, <1>5
    <3> QED
      BY <3>1, ShortTyped
  <2>2. a \in [1..n -> Nat]
    BY <2>1 DEF UnpaidAt
  <2> HIDE DEF a
  <2>3. SumIn(a, n, 1..n) \in Nat /\ a \in [1..n -> Int]
    BY <1>1, <2>2, SumOfNaturals
  <2> QED
    BY <2>2, <2>3 DEF Unpaid, a
<1> QED
  BY <1>1, <1>3, <1>4, <1>5, <1>6

LEMMA RankedPlace ==
  ASSUME NEW n \in Nat, NEW dates \in [1..n -> Dates], NEW k \in 1..n
  PROVE  Ranked(dates, k) \in 1..n
<1> DEFINE p == [l \in 1..n |-> Ranked(dates, l)]
<1>1. Permutes(p, n) /\ p[k] = Ranked(dates, k)
  BY SortingPermutes
<1> HIDE DEF p
<1>2. p[k] \in 1..n
  BY <1>1 DEF Permutes
<1> QED
  BY <1>1, <1>2

\* In the sorted list the amounts ahead of a claim are the first ones.
LEMMA AheadSorted ==
  ASSUME NEW claims \in Seq(ClaimRows), NEW n, n = Len(claims), NEW k \in 1..n
  PROVE  SumIn(AmountAt(ByRank(claims)), n, 1..(k - 1)) =
           AheadOf(claims, Ranked(DatesOf(claims), k))
<1> DEFINE dates == DatesOf(claims)
           i == Ranked(dates, k)
           s == ByRank(claims)
           c == AmountAt(s)
           a == AheadAt(claims, i)
           b == [q \in 1..n |-> a[Ranked(dates, q)]]
<1>1. n \in Nat /\ claims \in [1..n -> ClaimRows] /\ DOMAIN claims = 1..n
  BY AheadTyped
<1>2. dates \in [1..n -> Dates] /\ a \in [1..n -> Int]
  BY AheadTyped
<1>3. s \in Seq(ClaimRows) /\ s = [q \in 1..n |-> claims[Ranked(dates, q)]] /\ Len(s) = n
  <2>1. s \in Seq(ClaimRows)
    BY RankOfClaims
  <2>2. s = [q \in 1..n |-> claims[Ranked(dates, q)]]
    BY <1>1 DEF ByRank, SortedBy, DatesOf
  <2>3. DOMAIN s = 1..n
    BY <2>2
  <2> HIDE DEF s
  <2> QED
    BY <1>1, <2>1, <2>2, <2>3
<1>4. c \in [1..n -> Int]
  BY <1>3, AheadTyped
<1>5. ASSUME NEW q \in 1..n
      PROVE  b[q] = (IF q < k THEN c[q] ELSE 0) /\ b[q] \in Int
  <2>1. Precedes(dates, Ranked(dates, q), Ranked(dates, k)) <=> q < k
    <3> HIDE DEF dates
    <3> QED
      BY <1>1, <1>2, SortingOrders
  <2>2. Ranked(dates, q) \in 1..n
    <3> HIDE DEF dates
    <3> QED
      BY <1>1, <1>2, RankedPlace
  <2>3. a[Ranked(dates, q)] = IF q < k THEN claims[Ranked(dates, q)].amount ELSE 0
    BY <2>1, <2>2 DEF AheadAt
  <2>4. c[q] = claims[Ranked(dates, q)].amount
    BY <1>3 DEF AmountAt
  <2>5. a[Ranked(dates, q)] \in Int
    BY <1>2, <2>2
  <2> HIDE DEF a, c, dates
  <2> QED
    BY <2>3, <2>4, <2>5
<1> HIDE DEF a, c, dates, s
<1>6. b \in [1..n -> Int] /\ b = [q \in 1..n |-> a[Ranked(dates, q)]]
  BY <1>5
<1> HIDE DEF b
<1>7. SumIn(b, n, 1..n) = SumIn(a, n, 1..n)
  <2>1. InOrder(b, a, dates, n)
    BY <1>1, <1>2, <1>6 DEF InOrder
  <2> QED
    BY <2>1, SumSorted
<1> DEFINE e == k - 1
<1>8. e \in 0..n /\ \A q \in 1..n : q < k <=> q <= e
  BY <1>1
<1> HIDE DEF e
<1>9. SumIn(b, n, 1..n) = SumIn(c, n, 1..e)
  <2>1. \A q \in 1..n : b[q] = IF q <= e THEN c[q] ELSE 0
    BY <1>5, <1>8
  <2>2. b \in [1..n -> Int]
    BY <1>6
  <2>3. FirstOf(b, c, n, e)
    BY <1>1, <1>4, <1>8, <2>1, <2>2 DEF FirstOf
  <2> QED
    BY <2>3, SumFirst
<1> QED
  BY <1>7, <1>9 DEF AheadOf, a, c, dates, s, i, e

\* The payments of the first k claims of a list: all of each but what it lacks.
LackAt(claims, left, w) ==
  [k \in 1..Len(claims) |->
     IF claims[k].to = w
     THEN Short(left, SumIn(AmountAt(claims), Len(claims), 1..(k - 1)), claims[k].amount) ELSE 0]
PaidByRank(b, k, book, claims, n) ==
  /\ b \in Books(STRING)
  /\ b.left = Most(0, book.left - SumIn(AmountAt(claims), n, 1..k))
  /\ \A S, T : "rank" \notin S => PaidOf(b, S, T) = PaidOf(book, S, T)
  /\ \A S, w : "rank" \in S =>
       PaidOf(b, S, {w}) = PaidOf(book, S, {w}) + SumIn(ClaimedAt(claims, w), n, 1..k)
                             - SumIn(LackAt(claims, book.left, w), n, 1..k)

LEMMA LackTyped ==
  ASSUME NEW claims \in Seq(ClaimRows), NEW n, n = Len(claims), NEW left \in Int, NEW w
  PROVE  LackAt(claims, left, w) \in [1..n -> Int]
<1> DEFINE am == AmountAt(claims)
<1>1. n \in Nat /\ claims \in [1..n -> ClaimRows] /\ am \in [1..n -> Int]
  BY AheadTyped
<1> HIDE DEF am
<1>2. ASSUME NEW k \in 1..n PROVE Short(left, SumIn(am, n, 1..(k - 1)), claims[k].amount) \in Int
  <2> DEFINE e == k - 1
  <2>1. e \in Nat /\ e <= n
    BY <1>1
  <2> HIDE DEF e
  <2>2. SumIn(am, n, 1..e) \in Int
    BY <1>1, <2>1, SumTyped
  <2>3. claims[k].amount \in Nat
    BY <1>1 DEF ClaimRows
  <2>4. Short(left, SumIn(am, n, 1..e), claims[k].amount) \in Nat
    BY <2>2, <2>3, ShortTyped
  <2> QED
    BY <2>4 DEF e
<1> QED
  BY <1>2 DEF LackAt, am

LEMMA PayWhatIsLeft ==
  ASSUME NEW left \in Int, NEW sum \in Int, NEW amount \in Nat
  PROVE  LET rest == Most(0, left - sum)
             paid == IF rest > 0 THEN Least(rest, amount) ELSE 0
         IN  /\ paid \in Nat /\ paid = amount - Short(left, sum, amount)
             /\ Short(left, sum, amount) \in Int
             /\ rest - paid = Most(0, left - (sum + amount))
BY DEF Least, Most, Short

LEMMA PayByRank ==
  ASSUME NEW claims \in Seq(ClaimRows), NEW n, n = Len(claims),
         NEW book \in Books(STRING), NEW k \in 0..(n - 1), NEW b,
         PaidByRank(b, k, book, claims, n)
  PROVE  PaidByRank(PayClaim(b, claims[k + 1]), k + 1, book, claims, n)
<1> DEFINE claim == claims[k + 1]
           to == claim.to
           sum == SumIn(AmountAt(claims), n, 1..k)
           amount == Least(b.left, claim.amount)
           lack == Short(book.left, sum, claim.amount)
           paid == IF b.left > 0 THEN amount ELSE 0
           next == PayClaim(b, claim)
<1>1. /\ n \in Nat /\ k + 1 \in 1..n /\ k \in Nat /\ k <= n
      /\ claim.to \in STRING /\ claim.amount \in Nat /\ (k + 1) - 1 = k
  <2>1. n \in Nat /\ claims \in [1..n -> ClaimRows]
    BY ClaimsTyped
  <2> QED
    BY <2>1 DEF ClaimRows
<1>2. /\ b \in Books(STRING) /\ b.left \in Int /\ book.left \in Int /\ sum \in Int
      /\ b.left = Most(0, book.left - sum)
  <2>1. AmountAt(claims) \in [1..n -> Int]
    BY AheadTyped
  <2>2. sum \in Int
    BY <1>1, <2>1, SumTyped
  <2> QED
    BY <2>2 DEF PaidByRank, Books
<1>3. \A S, T : PaidOf(b, S, T) \in Int /\ PaidOf(book, S, T) \in Int
  BY <1>2, PaidTyped
<1>4. SumIn(AmountAt(claims), n, 1..(k + 1)) = sum + claim.amount
  <2>1. AmountAt(claims) \in [1..n -> Int] /\ AmountAt(claims)[k + 1] = claim.amount
    BY <1>1, AheadTyped DEF AmountAt
  <2> QED
    BY <1>1, <2>1, SumSteps
<1> HIDE DEF sum
<1>5. paid \in Nat /\ paid = claim.amount - lack /\ lack \in Int
      /\ b.left - paid = Most(0, book.left - (sum + claim.amount))
  <2> DEFINE left == book.left
             x == claim.amount
  <2>1. left \in Int /\ x \in Nat
    BY <1>1, <1>2
  <2> HIDE DEF left, x
  <2>2. LET rest == Most(0, left - sum)
            part == IF rest > 0 THEN Least(rest, x) ELSE 0
        IN  /\ part \in Nat /\ part = x - Short(left, sum, x)
            /\ Short(left, sum, x) \in Int
            /\ rest - part = Most(0, left - (sum + x))
    BY <1>2, <2>1, PayWhatIsLeft
  <2> QED
    BY <1>2, <2>2 DEF left, x
<1>6. /\ next \in Books(STRING) /\ next.left = b.left - paid
      /\ \A S, T : PaidOf(next, S, T) =
                    PaidOf(b, S, T) + (IF "rank" \in S /\ to \in T THEN paid ELSE 0)
  <2>1. CASE b.left > 0
    <3>1. next = Pay(b, "rank", to, amount) /\ paid = amount
      BY <2>1 DEF PayClaim
    <3>2. "rank" \in Stages /\ to \in STRING /\ amount \in Int
      BY <1>1, <1>5, <3>1 DEF Stages
    <3> DEFINE more == Pay(b, "rank", to, amount)
    <3> HIDE DEF amount, to, next, paid
    <3>3. /\ more \in Books(STRING) /\ more.left = b.left - amount
          /\ \A S, T : PaidOf(more, S, T) =
                        PaidOf(b, S, T) + (IF "rank" \in S /\ to \in T THEN amount ELSE 0)
      <4>1. b \in Books(STRING)
        BY <1>2
      <4> QED
        BY <3>2, <4>1, PaidMore
    <3> HIDE DEF more
    <3>4. next = more /\ paid = amount
      BY <3>1 DEF more
    <3> QED
      BY <3>3, <3>4
  <2>2. CASE ~(b.left > 0)
    <3>1. next = b /\ paid = 0
      BY <2>2 DEF PayClaim
    <3> HIDE DEF next, paid, to
    <3> QED
      BY <1>2, <1>3, <3>1
  <2> QED
    BY <2>1, <2>2
<1> HIDE DEF next, paid
<1>7. next.left = Most(0, book.left - SumIn(AmountAt(claims), n, 1..(k + 1)))
  BY <1>4, <1>5, <1>6
<1>8. \A S, T : "rank" \notin S => PaidOf(next, S, T) = PaidOf(book, S, T)
  <2>1. \A S, T : "rank" \notin S => PaidOf(b, S, T) = PaidOf(book, S, T)
    BY DEF PaidByRank
  <2> QED
    BY <1>3, <1>6, <2>1
<1>9. ASSUME NEW S, NEW w, "rank" \in S
      PROVE  PaidOf(next, S, {w}) = PaidOf(book, S, {w})
               + SumIn(ClaimedAt(claims, w), n, 1..(k + 1))
               - SumIn(LackAt(claims, book.left, w), n, 1..(k + 1))
  <2> DEFINE c == ClaimedAt(claims, w)
             l == LackAt(claims, book.left, w)
  <2>1. c \in [1..n -> Int] /\ c[k + 1] = IF to = w THEN claim.amount ELSE 0
    BY <1>1, ClaimsTyped DEF ClaimedAt
  <2>2. l \in [1..n -> Int] /\ l[k + 1] = IF to = w THEN lack ELSE 0
    <3>1. l \in [1..n -> Int]
      BY <1>2, LackTyped
    <3>2. l[k + 1] = IF to = w THEN lack ELSE 0
      BY <1>1 DEF LackAt, sum
    <3> QED
      BY <3>1, <3>2
  <2>3. PaidOf(b, S, {w}) = PaidOf(book, S, {w}) + SumIn(c, n, 1..k) - SumIn(l, n, 1..k)
    BY <1>9 DEF PaidByRank
  <2>4. PaidOf(next, S, {w}) = PaidOf(b, S, {w}) + (IF to = w THEN paid ELSE 0)
    BY <1>6, <1>9
  <2> HIDE DEF c, l, lack, to
  <2>5. /\ SumIn(c, n, 1..(k + 1)) = SumIn(c, n, 1..k) + c[k + 1]
        /\ SumIn(l, n, 1..(k + 1)) = SumIn(l, n, 1..k) + l[k + 1]
    BY <1>1, <2>1, <2>2, SumSteps
  <2>6. SumIn(c, n, 1..k) \in Int /\ SumIn(l, n, 1..k) \in Int
    BY <1>1, <2>1, <2>2, SumTyped
  <2>7. PaidOf(book, S, {w}) \in Int
    BY <1>3
  <2>8. PaidOf(next, S, {w}) = PaidOf(book, S, {w}) + SumIn(c, n, 1..(k + 1)) - SumIn(l, n, 1..(k + 1))
    <3> DEFINE C == SumIn(c, n, 1..k)
               L == SumIn(l, n, 1..k)
               P == PaidOf(book, S, {w})
               C1 == SumIn(c, n, 1..(k + 1))
               L1 == SumIn(l, n, 1..(k + 1))
    <3> HIDE DEF C, L, P, C1, L1
    <3>1. C1 = C + c[k + 1] /\ L1 = L + l[k + 1] /\ C \in Int /\ L \in Int /\ P \in Int
      BY <2>5, <2>6, <2>7 DEF C, L, P, C1, L1
    <3>2. PaidOf(next, S, {w}) = P + C - L + (IF to = w THEN paid ELSE 0)
      BY <2>3, <2>4 DEF C, L, P
    <3>3. PaidOf(next, S, {w}) = P + C1 - L1
      <4> DEFINE x == claim.amount
      <4>1. x \in Int /\ lack \in Int /\ paid = x - lack
        BY <1>1, <1>5
      <4> HIDE DEF x
      <4>2. CASE to = w
        <5>1. c[k + 1] = x /\ l[k + 1] = lack
          BY <2>1, <2>2, <4>2 DEF x
        <5>2. PaidOf(next, S, {w}) = P + C - L + (x - lack)
          BY <3>2, <4>1, <4>2
        <5> QED
          BY <3>1, <4>1, <5>1, <5>2
      <4>3. CASE to # w
        <5>1. c[k + 1] = 0 /\ l[k + 1] = 0
          BY <2>1, <2>2, <4>3
        <5>2. PaidOf(next, S, {w}) = P + C - L
          BY <3>1, <3>2, <4>3
        <5> QED
          BY <3>1, <5>1, <5>2
      <4> QED
        BY <4>2, <4>3
    <3> QED
      BY <3>3 DEF P, C1, L1
  <2> QED
    BY <2>8 DEF c, l
<1> QED
  BY <1>6, <1>7, <1>8, <1>9 DEF PaidByRank, next

\* The rank stage pays every claimant all the claims but what is left unpaid.
LEMMA RanksPay ==
  ASSUME NEW claims \in Seq(ClaimRows), NEW book \in Books(STRING), book.left >= 0
  PROVE  LET b == PayInOrder(book, ByRank(claims)) IN
         /\ b \in Books(STRING)
         /\ \A S, T : "rank" \notin S => PaidOf(b, S, T) = PaidOf(book, S, T)
         /\ \A S, w : "rank" \in S =>
              PaidOf(b, S, {w}) = PaidOf(book, S, {w}) + ClaimedBy(claims, w)
                                    - Unpaid(claims, book.left, w)
<1> DEFINE s == ByRank(claims)
           n == Len(claims)
           V == Books(STRING)
           left == book.left
           dates == DatesOf(claims)
<1>1. /\ n \in Nat /\ claims \in [1..n -> ClaimRows] /\ DOMAIN claims = 1..n
      /\ dates \in [1..n -> Dates] /\ left \in Int
  BY AheadTyped DEF Books
<1>2. s \in Seq(ClaimRows) /\ s = [q \in 1..n |-> claims[Ranked(dates, q)]] /\ Len(s) = n
      /\ \A w : ClaimedBy(s, w) = ClaimedBy(claims, w)
  <2>1. s \in Seq(ClaimRows) /\ \A w : ClaimedBy(s, w) = ClaimedBy(claims, w)
    BY RankOfClaims
  <2>2. s = [q \in 1..n |-> claims[Ranked(dates, q)]]
    BY <1>1 DEF ByRank, SortedBy, DatesOf
  <2>3. DOMAIN s = 1..n
    BY <2>2
  <2> HIDE DEF s, dates
  <2> QED
    BY <1>1, <2>1, <2>2, <2>3
<1> HIDE DEF s, n, dates
<1>3. s \in [1..n -> ClaimRows] /\ DOMAIN s = 1..n
  <2>1. s \in Seq(ClaimRows) /\ Len(s) = n
    BY <1>2
  <2> QED
    BY <2>1, ClaimsTyped
<1>4. ASSUME NEW v \in V, NEW i \in 1..n PROVE PayClaim(v, s[i]) \in V
  <2> DEFINE to == s[i].to
             amount == Least(v.left, s[i].amount)
  <2>1. s[i] \in ClaimRows /\ v.left \in Int
    BY <1>3 DEF Books
  <2>2. to \in STRING /\ amount \in Int /\ "rank" \in Stages
    BY <2>1 DEF ClaimRows, Least, Stages
  <2>3. PayClaim(v, s[i]) = v \/ PayClaim(v, s[i]) = Pay(v, "rank", to, amount)
    BY DEF PayClaim
  <2> HIDE DEF to, amount
  <2>4. Pay(v, "rank", to, amount) \in V
    BY <2>2, PaidMore
  <2> HIDE DEF V
  <2> QED
    BY <2>3, <2>4
<1> HIDE DEF V
<1>5. book \in V
  BY DEF V
<1>6. ClaimsFit(V, book, s, n)
  BY <1>1, <1>3, <1>4, <1>5 DEF ClaimsFit
<1>7. PICK g : ClaimsRun(g, V, book, s, n)
  BY <1>6, ClaimsInTurn
<1> DEFINE S == {k \in 0..n : PaidByRank(g[k], k, book, s, n)}
<1>8. 0 \in S
  <2>1. g[0] = book /\ 0 \in 0..n
    BY <1>1, <1>7 DEF ClaimsRun
  <2>2. SumIn(AmountAt(s), n, 1..0) = 0
    <3>1. AmountAt(s) \in [1..n -> Int]
      BY <1>2, AheadTyped
    <3> QED
      BY <1>1, <3>1, SumSteps
  <2>3. ASSUME NEW w
        PROVE  SumIn(ClaimedAt(s, w), n, 1..0) = 0 /\ SumIn(LackAt(s, left, w), n, 1..0) = 0
    <3>1. ClaimedAt(s, w) \in [1..n -> Int] /\ LackAt(s, left, w) \in [1..n -> Int]
      BY <1>1, <1>2, ClaimsTyped, LackTyped
    <3> QED
      BY <1>1, <3>1, SumSteps
  <2>4. \A S2, T : PaidOf(book, S2, T) \in Int
    BY PaidTyped
  <2>5. book.left = Most(0, book.left - SumIn(AmountAt(s), n, 1..0))
    BY <1>1, <2>2 DEF Most
  <2>6. PaidByRank(book, 0, book, s, n)
    BY <2>3, <2>4, <2>5 DEF PaidByRank
  <2> QED
    BY <2>1, <2>6
<1>9. ASSUME NEW k \in 0..(n - 1), k \in S PROVE k + 1 \in S
  <2>1. k + 1 \in 0..n
    BY <1>1
  <2>2. PaidByRank(g[k], k, book, s, n)
    BY <1>9
  <2>3. g[k + 1] = PayClaim(g[k], s[k + 1])
    BY <1>7 DEF ClaimsRun
  <2> HIDE DEF S
  <2>4. PaidByRank(g[k + 1], k + 1, book, s, n)
    BY <1>2, <2>2, <2>3, PayByRank
  <2> QED
    BY <2>1, <2>4 DEF S
<1>10. PaidByRank(g[n], n, book, s, n)
  <2>1. n \in 0..n
    BY <1>1
  <2> HIDE DEF S
  <2>2. n \in S
    BY <1>1, <1>8, <1>9, <2>1, Stepwise
  <2> QED
    BY <2>2 DEF S
<1>11. g[n] = PayInOrder(book, s)
  BY <1>7 DEF ClaimsRun
<1>12. ASSUME NEW w
       PROVE  /\ SumIn(ClaimedAt(s, w), n, 1..n) = ClaimedBy(claims, w)
              /\ SumIn(LackAt(s, left, w), n, 1..n) = Unpaid(claims, left, w)
  <2> DEFINE a == UnpaidAt(claims, left, w)
             b == LackAt(s, left, w)
  <2>1. SumIn(ClaimedAt(s, w), n, 1..n) = ClaimedBy(claims, w)
    BY <1>2 DEF ClaimedBy
  <2>2. a \in [1..n -> Int]
    BY <1>1, AheadTyped DEF n
  <2>3. b = [q \in 1..n |-> a[Ranked(dates, q)]]
    <3>1. ASSUME NEW q \in 1..n PROVE b[q] = a[Ranked(dates, q)]
      <4>1. Ranked(dates, q) \in 1..n
        BY <1>1, RankedPlace
      <4>2. SumIn(AmountAt(s), n, 1..(q - 1)) = AheadOf(claims, Ranked(dates, q))
        BY AheadSorted DEF s, n, dates
      <4>3. s[q] = claims[Ranked(dates, q)]
        BY <1>2
      <4>4. a[Ranked(dates, q)] =
              IF claims[Ranked(dates, q)].to = w
              THEN Short(left, AheadOf(claims, Ranked(dates, q)), claims[Ranked(dates, q)].amount)
              ELSE 0
        BY <4>1 DEF UnpaidAt, n
      <4>5. b[q] = IF s[q].to = w
                   THEN Short(left, SumIn(AmountAt(s), n, 1..(q - 1)), s[q].amount) ELSE 0
        BY <1>2 DEF LackAt
      <4> QED
        BY <4>2, <4>3, <4>4, <4>5
    <3>2. b = [q \in 1..n |-> b[q]]
      BY <1>2 DEF LackAt
    <3> HIDE DEF a, b
    <3> QED
      BY <3>1, <3>2
  <2> HIDE DEF a, b
  <2>4. InOrder(b, a, dates, n)
    BY <1>1, <2>2, <2>3 DEF InOrder
  <2>5. SumIn(b, n, 1..n) = SumIn(a, n, 1..n)
    BY <2>4, SumSorted
  <2> QED
    BY <2>1, <2>5 DEF Unpaid, a, b, n
<1>13. \A S2, w : "rank" \in S2 =>
         PaidOf(g[n], S2, {w}) = PaidOf(book, S2, {w}) + ClaimedBy(claims, w) - Unpaid(claims, left, w)
  BY <1>10, <1>12 DEF PaidByRank
<1> QED
  BY <1>10, <1>11, <1>13 DEF PaidByRank, s

-----------------------------------------------------------------------------
\* Fewer claims

\* The claims of a list e stand in the same order in a list c, where none is for
\* less and others may be between them.
FewerBy(h, e, c) ==
  /\ h \in [1..Len(e) -> 1..Len(c)]
  /\ \A i, j \in 1..Len(e) : i < j => h[i] < h[j]
  /\ \A i \in 1..Len(e) : e[i].to = c[h[i]].to /\ e[i].date = c[h[i]].date
                            /\ e[i].amount <= c[h[i]].amount
Fewer(e, c) == e \in Seq(ClaimRows) /\ c \in Seq(ClaimRows) /\ \E h : FewerBy(h, e, c)

LEMMA FewerAhead ==
  ASSUME NEW e \in Seq(ClaimRows), NEW c \in Seq(ClaimRows), NEW h, FewerBy(h, e, c),
         NEW i \in 1..Len(e)
  PROVE  AheadOf(e, i) <= AheadOf(c, h[i])
<1> DEFINE m == Len(e)
           n == Len(c)
           x == AheadAt(e, i)
           y == AheadAt(c, h[i])
<1>1. /\ m \in Nat /\ n \in Nat /\ x \in [1..m -> Int] /\ y \in [1..n -> Nat]
      /\ e \in [1..m -> ClaimRows] /\ c \in [1..n -> ClaimRows]
  BY AheadTyped
<1>2. h \in [1..m -> 1..n] /\ \A j, k \in 1..m : j < k => h[j] < h[k]
  BY DEF FewerBy
<1>3. \A j, k \in 1..m : h[j] = h[k] => j = k
  <2> TAKE j, k \in 1..m
  <2>1. h[j] \in Int /\ h[k] \in Int /\ j \in Int /\ k \in Int
    BY <1>2
  <2>2. (j < k => h[j] < h[k]) /\ (k < j => h[k] < h[j])
    BY <1>2
  <2> QED
    BY <2>1, <2>2
<1>4. ASSUME NEW j \in 1..m PROVE x[j] <= y[h[j]]
  <2>1. h[j] \in 1..n /\ h[i] \in 1..n /\ (j < i => h[j] < h[i])
    BY <1>2
  <2>2. /\ e[j].date = c[h[j]].date /\ e[i].date = c[h[i]].date
        /\ e[j].amount <= c[h[j]].amount
    BY DEF FewerBy
  <2>3. e[j].amount \in Nat /\ c[h[j]].amount \in Nat
    BY <1>1, <2>1 DEF ClaimRows
  <2>4. Precedes(DatesOf(e), j, i) => Precedes(DatesOf(c), h[j], h[i])
    BY <2>1, <2>2 DEF Precedes, DatesOf
  <2>5. x[j] = (IF Precedes(DatesOf(e), j, i) THEN e[j].amount ELSE 0)
        /\ y[h[j]] = (IF Precedes(DatesOf(c), h[j], h[i]) THEN c[h[j]].amount ELSE 0)
    BY <2>1 DEF AheadAt
  <2> QED
    BY <2>2, <2>3, <2>4, <2>5
<1> HIDE DEF m, n, x, y
<1>5. Placed(h, x, m, y, n)
  BY <1>1, <1>2, <1>3, <1>4 DEF Placed
<1>6. SumIn(x, m, 1..m) <= SumIn(y, n, 1..n)
  BY <1>5, SumPlaced
<1> QED
  BY <1>6 DEF AheadOf, m, n, x, y

LEMMA ShortGrows ==
  ASSUME NEW left \in Int, NEW ahead \in Int, NEW amount \in Nat,
         NEW left2 \in Int, NEW ahead2 \in Int, NEW amount2 \in Nat,
         left2 <= left, ahead <= ahead2, amount <= amount2
  PROVE  Short(left, ahead, amount) <= Short(left2, ahead2, amount2)
BY DEF Short, Most

\* Fewer claims on more money leave less unpaid, to everybody.
LEMMA FewerUnpaid ==
  ASSUME NEW e, NEW c, Fewer(e, c), NEW left \in Int, NEW left2 \in Int, left2 <= left, NEW w
  PROVE  Unpaid(e, left, w) <= Unpaid(c, left2, w)
<1> DEFINE m == Len(e)
           n == Len(c)
           x == UnpaidAt(e, left, w)
           y == UnpaidAt(c, left2, w)
<1>1. e \in Seq(ClaimRows) /\ c \in Seq(ClaimRows)
  BY DEF Fewer
<1>2. PICK h : FewerBy(h, e, c)
  BY DEF Fewer
<1>3. /\ m \in Nat /\ n \in Nat /\ x \in [1..m -> Int] /\ y \in [1..n -> Nat]
      /\ e \in [1..m -> ClaimRows] /\ c \in [1..n -> ClaimRows]
  BY <1>1, AheadTyped
<1>4. h \in [1..m -> 1..n] /\ \A j, k \in 1..m : j < k => h[j] < h[k]
  BY <1>2 DEF FewerBy
<1>5. \A j, k \in 1..m : h[j] = h[k] => j = k
  <2> TAKE j, k \in 1..m
  <2>1. h[j] \in Int /\ h[k] \in Int /\ j \in Int /\ k \in Int
    BY <1>4
  <2>2. (j < k => h[j] < h[k]) /\ (k < j => h[k] < h[j])
    BY <1>4
  <2> QED
    BY <2>1, <2>2
<1>6. ASSUME NEW j \in 1..m PROVE x[j] <= y[h[j]]
  <2>1. h[j] \in 1..n
    BY <1>4
  <2>2. e[j].to = c[h[j]].to /\ e[j].amount <= c[h[j]].amount
    BY <1>2 DEF FewerBy
  <2>3. e[j].amount \in Nat /\ c[h[j]].amount \in Nat
    BY <1>3, <2>1 DEF ClaimRows
  <2>4. AheadOf(e, j) <= AheadOf(c, h[j])
    BY <1>1, <1>2, FewerAhead
  <2>5. AheadOf(e, j) \in Int /\ AheadOf(c, h[j]) \in Int
    BY <1>1, AheadTyped
  <2>6. Short(left, AheadOf(e, j), e[j].amount) <= Short(left2, AheadOf(c, h[j]), c[h[j]].amount)
    BY <2>2, <2>3, <2>4, <2>5, ShortGrows
  <2>7. x[j] = (IF e[j].to = w THEN Short(left, AheadOf(e, j), e[j].amount) ELSE 0)
        /\ y[h[j]] = IF c[h[j]].to = w
                     THEN Short(left2, AheadOf(c, h[j]), c[h[j]].amount) ELSE 0
    BY <2>1 DEF UnpaidAt
  <2> QED
    BY <2>2, <2>6, <2>7
<1> HIDE DEF m, n, x, y
<1>7. Placed(h, x, m, y, n)
  BY <1>3, <1>4, <1>5, <1>6 DEF Placed
<1>8. SumIn(x, m, 1..m) <= SumIn(y, n, 1..n)
  BY <1>7, SumPlaced
<1> QED
  BY <1>8 DEF Unpaid, m, n, x, y

\* How lists with fewer claims arise: none and one, the same ones, one list after
\* another.
LEMMA FewerOne ==
  ASSUME NEW a \in ClaimRows, NEW b \in ClaimRows, a.to = b.to, a.date = b.date,
         a.amount <= b.amount
  PROVE  Fewer(<< >>, << >>) /\ Fewer(<< >>, << b >>) /\ Fewer(<< a >>, << b >>)
<1>1. /\ << >> \in Seq(ClaimRows) /\ Len(<< >>) = 0
      /\ << a >> \in Seq(ClaimRows) /\ Len(<< a >>) = 1 /\ << a >>[1] = a
      /\ << b >> \in Seq(ClaimRows) /\ Len(<< b >>) = 1 /\ << b >>[1] = b
  OBVIOUS
<1>2. ASSUME NEW c, Len(c) \in Nat PROVE FewerBy([i \in 1..0 |-> 1], << >>, c)
  BY <1>1 DEF FewerBy
<1>3. FewerBy([i \in 1..1 |-> 1], << a >>, << b >>)
  BY <1>1 DEF FewerBy
<1> QED
  BY <1>1, <1>2, <1>3 DEF Fewer

LEMMA FewerJoined ==
  ASSUME NEW e, NEW c, Fewer(e, c), NEW e2, NEW c2, Fewer(e2, c2)
  PROVE  Fewer(e \o e2, c \o c2)
<1> DEFINE m == Len(e)
           n == Len(c)
           m2 == Len(e2)
           n2 == Len(c2)
           p == e \o e2
           q == c \o c2
<1>1. PICK h : FewerBy(h, e, c)
  BY DEF Fewer
<1>2. PICK h2 : FewerBy(h2, e2, c2)
  BY DEF Fewer
<1>3. /\ e \in Seq(ClaimRows) /\ c \in Seq(ClaimRows) /\ e2 \in Seq(ClaimRows) /\ c2 \in Seq(ClaimRows)
      /\ m \in Nat /\ n \in Nat /\ m2 \in Nat /\ n2 \in Nat
  BY DEF Fewer
<1>4. /\ p \in Seq(ClaimRows) /\ Len(p) = m + m2
      /\ \A i \in 1..m : p[i] = e[i]
      /\ \A i \in 1..m2 : p[m + i] = e2[i]
  BY <1>3
<1>5. /\ q \in Seq(ClaimRows) /\ Len(q) = n + n2
      /\ \A i \in 1..n : q[i] = c[i]
      /\ \A i \in 1..n2 : q[n + i] = c2[i]
  BY <1>3
<1> DEFINE g == [i \in 1..(m + m2) |-> IF i <= m THEN h[i] ELSE n + h2[i - m]]
<1>6. /\ h \in [1..m -> 1..n] /\ \A i, j \in 1..m : i < j => h[i] < h[j]
      /\ \A i \in 1..m : e[i].to = c[h[i]].to /\ e[i].date = c[h[i]].date
                           /\ e[i].amount <= c[h[i]].amount
  BY <1>1 DEF FewerBy
<1>7. /\ h2 \in [1..m2 -> 1..n2] /\ \A i, j \in 1..m2 : i < j => h2[i] < h2[j]
      /\ \A i \in 1..m2 : e2[i].to = c2[h2[i]].to /\ e2[i].date = c2[h2[i]].date
                            /\ e2[i].amount <= c2[h2[i]].amount
  BY <1>2 DEF FewerBy
<1> HIDE DEF m, n, m2, n2, p, q
<1>8. \A i \in 1..(m + m2) :
        \/ i \in 1..m /\ g[i] = h[i] /\ h[i] \in 1..n
        \/ i \notin 1..m /\ i - m \in 1..m2 /\ g[i] = n + h2[i - m] /\ h2[i - m] \in 1..n2
  <2> TAKE i \in 1..(m + m2)
  <2>1. CASE i <= m
    <3>1. i \in 1..m
      BY <1>3, <2>1
    <3>2. g[i] = h[i] /\ h[i] \in 1..n
      BY <1>6, <2>1, <3>1
    <3> QED
      BY <3>1, <3>2
  <2>2. CASE ~(i <= m)
    <3>1. i \notin 1..m /\ i - m \in 1..m2
      BY <1>3, <2>2
    <3>2. g[i] = n + h2[i - m] /\ h2[i - m] \in 1..n2
      BY <1>7, <2>2, <3>1
    <3> QED
      BY <3>1, <3>2
  <2> QED
    BY <2>1, <2>2
<1>9. g \in [1..(m + m2) -> 1..(n + n2)]
  <2>1. \A i \in 1..(m + m2) : g[i] \in 1..(n + n2)
    <3> HIDE DEF g
    <3> TAKE i \in 1..(m + m2)
    <3>1. CASE i \in 1..m /\ g[i] = h[i] /\ h[i] \in 1..n
      BY <1>3, <3>1
    <3>2. CASE g[i] = n + h2[i - m] /\ h2[i - m] \in 1..n2
      BY <1>3, <3>2
    <3> QED
      BY <1>8, <3>1, <3>2
  <2> QED
    BY <2>1
<1> HIDE DEF g
<1>10. ASSUME NEW i \in 1..(m + m2), NEW j \in 1..(m + m2), i < j PROVE g[i] < g[j]
  <2>1. CASE j \in 1..m
    <3>1. i \in 1..m
      BY <1>3, <1>10, <2>1
    <3>2. g[i] = h[i] /\ g[j] = h[j] /\ h[i] < h[j]
      BY <1>6, <1>8, <1>10, <2>1, <3>1
    <3> QED
      BY <3>2
  <2>2. CASE j \notin 1..m
    <3>1. j - m \in 1..m2 /\ g[j] = n + h2[j - m] /\ h2[j - m] \in 1..n2
      BY <1>8, <2>2
    <3>2. CASE i \in 1..m
      <4>1. g[i] = h[i] /\ h[i] \in 1..n
        BY <1>8, <3>2
      <4> QED
        BY <1>3, <3>1, <4>1
    <3>3. CASE i \notin 1..m
      <4>1. i - m \in 1..m2 /\ g[i] = n + h2[i - m] /\ h2[i - m] \in 1..n2
        BY <1>8, <3>3
      <4>2. i - m < j - m
        BY <1>3, <1>10
      <4>3. h2[i - m] < h2[j - m]
        BY <1>7, <3>1, <4>1, <4>2
      <4> QED
        BY <1>3, <3>1, <4>1, <4>3
    <3> QED
      BY <3>2, <3>3
  <2> QED
    BY <2>1, <2>2
<1>11. ASSUME NEW i \in 1..(m + m2)
       PROVE  p[i].to = q[g[i]].to /\ p[i].date = q[g[i]].date /\ p[i].amount <= q[g[i]].amount
  <2>1. CASE i \in 1..m
    <3>1. g[i] = h[i] /\ h[i] \in 1..n
      BY <1>8, <2>1
    <3>2. p[i] = e[i] /\ q[g[i]] = c[h[i]]
      BY <1>4, <1>5, <2>1, <3>1
    <3> QED
      BY <1>6, <2>1, <3>2
  <2>2. CASE i \notin 1..m
    <3> DEFINE k == i - m
    <3>1. k \in 1..m2 /\ g[i] = n + h2[k] /\ h2[k] \in 1..n2 /\ m + k = i
      <4>1. k \in 1..m2 /\ g[i] = n + h2[k] /\ h2[k] \in 1..n2
        BY <1>8, <2>2
      <4>2. m + k = i
        BY <1>3
      <4> QED
        BY <4>1, <4>2
    <3> HIDE DEF k
    <3>2. p[i] = e2[k] /\ q[g[i]] = c2[h2[k]]
      <4>1. p[m + k] = e2[k] /\ q[n + h2[k]] = c2[h2[k]]
        BY <1>4, <1>5, <3>1
      <4> QED
        BY <3>1, <4>1
    <3> QED
      BY <1>7, <3>1, <3>2
  <2> QED
    BY <2>1, <2>2
<1>12. FewerBy(g, p, q)
  BY <1>4, <1>5, <1>9, <1>10, <1>11 DEF FewerBy
<1> QED
  BY <1>4, <1>5, <1>12 DEF Fewer, p, q

-----------------------------------------------------------------------------
LEMMA FewerSelf ==
  ASSUME NEW c \in Seq(ClaimRows)
  PROVE  Fewer(c, c)
<1> DEFINE n == Len(c)
           h == [i \in 1..n |-> i]
<1>1. h \in [1..n -> 1..n] /\ \A i \in 1..n : h[i] = i
  OBVIOUS
<1>2. n \in Nat /\ c \in [1..n -> ClaimRows] /\ \A i \in 1..n : c[i].amount \in Nat
  <2>1. n \in Nat /\ c \in [1..n -> ClaimRows]
    BY ClaimsTyped
  <2> QED
    BY <2>1 DEF ClaimRows
<1> HIDE DEF h
<1>3. FewerBy(h, c, c)
  BY <1>1, <1>2 DEF FewerBy
<1> QED
  BY <1>3 DEF Fewer

LEMMA FewerMore ==
  ASSUME NEW e, NEW c, Fewer(e, c), NEW a \in ClaimRows, NEW b \in ClaimRows, a.to = b.to,
         a.date = b.date, a.amount <= b.amount
  PROVE  Fewer(e, Append(c, b)) /\ Fewer(Append(e, a), Append(c, b))
<1>1. e \in Seq(ClaimRows) /\ c \in Seq(ClaimRows)
  BY DEF Fewer
<1>2. e \o << >> = e /\ Append(e, a) = e \o << a >> /\ Append(c, b) = c \o << b >>
  <2>1. Append(e, a) = e \o << a >> /\ Append(c, b) = c \o << b >>
    BY <1>1, AppendIsConcat
  <2>2. e \o << >> = e
    BY <1>1
  <2> QED
    BY <2>1, <2>2
<1>3. Fewer(<< >>, << b >>) /\ Fewer(<< a >>, << b >>)
  BY FewerOne
<1>4. Fewer(e \o << >>, c \o << b >>) /\ Fewer(e \o << a >>, c \o << b >>)
  BY <1>3, FewerJoined
<1> QED
  BY <1>2, <1>4

-----------------------------------------------------------------------------
\* Who has received more claims less, but at most by what was received.

LessClaimed(v, v2, gap, to) ==
  /\ v.offset \in Nat /\ v2.offset \in Nat /\ v.offset <= v2.offset
  /\ Fewer(v2.claims, v.claims)
  /\ ClaimedBy(v.claims, to) + v2.offset - v.offset <= ClaimedBy(v2.claims, to) + gap

LEMMA LeastOffsets ==
  ASSUME NEW o \in Nat, NEW o2 \in Nat, o <= o2, NEW a \in Nat
  PROVE  LET x == Least(o, a)
             x2 == Least(o2, a)
         IN  /\ x \in Nat /\ x2 \in Nat /\ x <= x2 /\ x2 <= a
             /\ o - x \in Nat /\ o2 - x2 \in Nat /\ o - x <= o2 - x2
BY DEF Least

LEMMA RestsOf ==
  ASSUME NEW a \in Nat, NEW x \in Nat, NEW x2 \in Nat, x <= x2, x2 <= a
  PROVE  a - x \in Nat /\ a - x2 \in Nat /\ a - x2 <= a - x /\ (a - x) - (a - x2) <= x2 - x
OBVIOUS

LEMMA GapKept ==
  ASSUME NEW c \in Nat, NEW c2 \in Nat, NEW o \in Nat, NEW o2 \in Nat, NEW x \in Nat,
         NEW x2 \in Nat, NEW r \in Nat, NEW r2 \in Nat, NEW gap \in Int,
         c + o2 - o <= c2 + gap, x <= x2, r - r2 <= x2 - x
  PROVE  (c + r) + (o2 - x2) - (o - x) <= (c2 + r2) + gap
OBVIOUS

LEMMA LessOnePart ==
  ASSUME NEW tenant \in Tenants, NEW gap \in Int, NEW v, NEW v2,
         LessClaimed(v, v2, gap, tenant.id), NEW part \in Parts
  PROVE  LessClaimed(ClaimPart(v, part, tenant), ClaimPart(v2, part, tenant), gap, tenant.id)
<1> DEFINE to == tenant.id
           date == Most(part.fixed, PossessionDate(tenant))
           x == Least(v.offset, part.amount)
           x2 == Least(v2.offset, part.amount)
           rest == part.amount - x
           rest2 == part.amount - x2
           more == Append(v.claims, Claim(to, date, rest))
           more2 == Append(v2.claims, Claim(to, date, rest2))
           next == ClaimPart(v, part, tenant)
           next2 == ClaimPart(v2, part, tenant)
<1>1. /\ part.amount \in Nat /\ part.fixed \in Dates /\ to \in STRING /\ tenant.moveIn \in Int
      /\ v.offset \in Nat /\ v2.offset \in Nat /\ v.offset <= v2.offset
      /\ Fewer(v2.claims, v.claims)
      /\ v.claims \in Seq(ClaimRows) /\ v2.claims \in Seq(ClaimRows)
  BY DEF Parts, Tenants, LessClaimed, Fewer
<1>2. ClaimedBy(v.claims, to) + v2.offset - v.offset <= ClaimedBy(v2.claims, to) + gap
  BY DEF LessClaimed
<1>3. /\ x \in Nat /\ x2 \in Nat /\ x <= x2 /\ x2 <= part.amount
      /\ v.offset - x \in Nat /\ v2.offset - x2 \in Nat /\ v.offset - x <= v2.offset - x2
  BY <1>1, LeastOffsets
<1>4. part.fixed # Absent => date \in Dates
  BY <1>1 DEF Most, PossessionDate, Dates
<1>5. /\ next.offset = v.offset - x /\ next2.offset = v2.offset - x2
      /\ next.claims = (IF rest > 0 /\ part.fixed # Absent THEN more ELSE v.claims)
      /\ next2.claims = IF rest2 > 0 /\ part.fixed # Absent THEN more2 ELSE v2.claims
  BY DEF ClaimPart
<1> HIDE DEF x, x2, date, to, next, next2
<1>6. rest \in Nat /\ rest2 \in Nat /\ rest2 <= rest /\ rest - rest2 <= x2 - x
  <2>1. part.amount \in Nat /\ x \in Nat /\ x2 \in Nat /\ x <= x2 /\ x2 <= part.amount
    BY <1>1, <1>3
  <2> QED
    BY <2>1, RestsOf
<1> HIDE DEF rest, rest2, more, more2
<1>7. ClaimedBy(v.claims, to) \in Nat /\ ClaimedBy(v2.claims, to) \in Nat
  BY <1>1, ClaimsTyped
<1>8. CASE part.fixed = Absent \/ rest = 0
  <2>1. next.claims = v.claims /\ next2.claims = v2.claims
    BY <1>5, <1>6, <1>8
  <2>2. ClaimedBy(v.claims, to) + (v2.offset - x2) - (v.offset - x) <= ClaimedBy(v2.claims, to) + gap
    <3>1. 0 \in Nat /\ 0 - 0 <= x2 - x
      BY <1>3
    <3>2. (ClaimedBy(v.claims, to) + 0) + (v2.offset - x2) - (v.offset - x) <=
            (ClaimedBy(v2.claims, to) + 0) + gap
      BY <1>1, <1>2, <1>3, <1>7, <3>1, GapKept
    <3> QED
      BY <1>7, <3>2
  <2> QED
    BY <1>1, <1>3, <1>5, <2>1, <2>2 DEF LessClaimed, to, next, next2
<1>9. CASE part.fixed # Absent /\ rest > 0
  <2>1. date \in Dates
    BY <1>4, <1>9
  <2>2. /\ Claim(to, date, rest) \in ClaimRows /\ Claim(to, date, rest).to = to
        /\ Claim(to, date, rest).date = date /\ Claim(to, date, rest).amount = rest
    BY <1>1, <1>6, <2>1 DEF Claim, ClaimRows
  <2>3. /\ Claim(to, date, rest2) \in ClaimRows /\ Claim(to, date, rest2).to = to
        /\ Claim(to, date, rest2).date = date /\ Claim(to, date, rest2).amount = rest2
    BY <1>1, <1>6, <2>1 DEF Claim, ClaimRows
  <2>4. ClaimedBy(more, to) = ClaimedBy(v.claims, to) + rest
    <3>1. \A w : ClaimedBy(more, w) = ClaimedBy(v.claims, w) + (IF to = w THEN rest ELSE 0)
      BY <1>1, <1>6, <2>1, ClaimMore DEF more
    <3> QED
      BY <3>1
  <2>5. ClaimedBy(more2, to) = ClaimedBy(v2.claims, to) + rest2
    <3>1. \A w : ClaimedBy(more2, w) = ClaimedBy(v2.claims, w) + (IF to = w THEN rest2 ELSE 0)
      BY <1>1, <1>6, <2>1, ClaimMore DEF more2
    <3> QED
      BY <3>1
  <2>6. Fewer(v2.claims, more) /\ Fewer(more2, more)
    <3> DEFINE a == Claim(to, date, rest2)
               b == Claim(to, date, rest)
    <3>1. a \in ClaimRows /\ b \in ClaimRows /\ a.to = b.to /\ a.date = b.date
          /\ a.amount <= b.amount
      BY <1>6, <2>2, <2>3
    <3> HIDE DEF a, b
    <3>2. Fewer(v2.claims, Append(v.claims, b)) /\ Fewer(Append(v2.claims, a), Append(v.claims, b))
      BY <1>1, <3>1, FewerMore
    <3> QED
      BY <3>2 DEF more, more2, a, b
  <2>7. next.claims = more
    BY <1>5, <1>9
  <2>8. CASE rest2 > 0
    <3>1. next2.claims = more2
      BY <1>5, <1>9, <2>8
    <3>2. ClaimedBy(more, to) + (v2.offset - x2) - (v.offset - x) <= ClaimedBy(more2, to) + gap
      <4>1. (ClaimedBy(v.claims, to) + rest) + (v2.offset - x2) - (v.offset - x) <=
              (ClaimedBy(v2.claims, to) + rest2) + gap
        BY <1>1, <1>2, <1>3, <1>6, <1>7, GapKept
      <4> QED
        BY <2>4, <2>5, <4>1
    <3> QED
      BY <1>3, <1>5, <2>6, <2>7, <3>1, <3>2 DEF LessClaimed, to, next, next2
  <2>9. CASE rest2 = 0
    <3>1. next2.claims = v2.claims
      BY <1>5, <2>9
    <3>2. ClaimedBy(more, to) + (v2.offset - x2) - (v.offset - x) <= ClaimedBy(v2.claims, to) + gap
      <4>1. (ClaimedBy(v.claims, to) + rest) + (v2.offset - x2) - (v.offset - x) <=
              (ClaimedBy(v2.claims, to) + rest2) + gap
        BY <1>1, <1>2, <1>3, <1>6, <1>7, GapKept
      <4>2. ClaimedBy(v2.claims, to) + rest2 = ClaimedBy(v2.claims, to)
        BY <1>7, <2>9
      <4> QED
        BY <2>4, <4>1, <4>2
    <3> QED
      BY <1>3, <1>5, <2>6, <2>7, <3>1, <3>2 DEF LessClaimed, to, next, next2
  <2> QED
    BY <1>6, <2>8, <2>9
<1> QED
  BY <1>6, <1>8, <1>9

LEMMA TenantClaimsLess ==
  ASSUME NEW tenant \in Tenants, ~Mismatched(tenant), NEW received \in Nat, NEW received2 \in Nat,
         received <= received2
  PROVE  /\ Fewer(TenantClaims(tenant, received2), TenantClaims(tenant, received))
         /\ ClaimedBy(TenantClaims(tenant, received), tenant.id) <=
              ClaimedBy(TenantClaims(tenant, received2), tenant.id) + (received2 - received)
<1> DEFINE parts == Tranches(tenant)
           start == [offset |-> received, claims |-> << >>]
           start2 == [offset |-> received2, claims |-> << >>]
           V == [offset : Int, claims : Seq(ClaimRows)]
           gap == received2 - received
<1>1. PICK m \in Nat : parts \in [1..m -> Parts]
  BY TranchesOf
<1>2. DOMAIN parts = 1..m /\ gap \in Int /\ \A i \in 1..m : parts[i] \in Parts
  BY <1>1
<1> HIDE DEF parts
<1>3. ASSUME NEW v \in V, NEW i \in 1..m PROVE ClaimPart(v, parts[i], tenant) \in V
  <2> DEFINE offset == Least(v.offset, parts[i].amount)
             rest == parts[i].amount - offset
             date == Most(parts[i].fixed, PossessionDate(tenant))
  <2>1. v.offset \in Int /\ v.claims \in Seq(ClaimRows) /\ parts[i].amount \in Nat
        /\ parts[i].fixed \in Dates /\ tenant.id \in STRING /\ tenant.moveIn \in Int
    BY <1>2 DEF Parts, Tenants
  <2>2. offset \in Int
    BY <2>1 DEF Least
  <2>3. parts[i].fixed # Absent => date \in Dates
    BY <2>1 DEF Most, PossessionDate, Dates
  <2> HIDE DEF date, offset
  <2>4. rest > 0 /\ parts[i].fixed # Absent =>
          Append(v.claims, Claim(tenant.id, date, rest)) \in Seq(ClaimRows)
    <3> SUFFICES ASSUME rest > 0, parts[i].fixed # Absent
                 PROVE  Append(v.claims, Claim(tenant.id, date, rest)) \in Seq(ClaimRows)
      OBVIOUS
    <3>1. rest \in Nat
      BY <2>1, <2>2
    <3> HIDE DEF rest
    <3> QED
      BY <2>1, <2>3, <3>1, ClaimMore
  <2>5. ClaimPart(v, parts[i], tenant) =
          [offset |-> v.offset - offset,
           claims |-> IF rest > 0 /\ parts[i].fixed # Absent
                      THEN Append(v.claims, Claim(tenant.id, date, rest)) ELSE v.claims]
    BY DEF ClaimPart, offset, date
  <2> HIDE DEF rest
  <2> QED
    BY <2>1, <2>2, <2>4, <2>5
<1>4. start \in V /\ start2 \in V
  BY NoClaims
<1>5. LessClaimed(start, start2, gap, tenant.id)
  <2>1. Fewer(<< >>, << >>)
    BY NoClaims, FewerSelf
  <2>2. ClaimedBy(<< >>, tenant.id) = 0
    BY NoClaims
  <2> QED
    BY <2>1, <2>2 DEF LessClaimed
<1> HIDE DEF V, start, start2, gap
<1>6. PartsFit(V, start, parts, m, tenant) /\ PartsFit(V, start2, parts, m, tenant)
  BY <1>2, <1>3, <1>4 DEF PartsFit
<1>7. PICK g : PartsRun(g, V, start, parts, m, tenant)
  BY <1>6, PartsInTurn
<1>8. PICK h : PartsRun(h, V, start2, parts, m, tenant)
  BY <1>6, PartsInTurn
<1> DEFINE S == {k \in 0..m : LessClaimed(g[k], h[k], gap, tenant.id)}
<1>9. 0 \in S
  <2>1. g[0] = start /\ h[0] = start2
    BY <1>7, <1>8 DEF PartsRun
  <2> QED
    BY <1>5, <2>1
<1>10. ASSUME NEW k \in 0..(m - 1), k \in S PROVE k + 1 \in S
  <2>1. k + 1 \in 1..m /\ k + 1 \in 0..m
    OBVIOUS
  <2>2. g[k + 1] = ClaimPart(g[k], parts[k + 1], tenant) /\ h[k + 1] = ClaimPart(h[k], parts[k + 1], tenant)
    BY <1>7, <1>8 DEF PartsRun
  <2>3. LessClaimed(g[k], h[k], gap, tenant.id) /\ parts[k + 1] \in Parts
    BY <1>2, <1>10, <2>1
  <2> HIDE DEF S
  <2>4. LessClaimed(g[k + 1], h[k + 1], gap, tenant.id)
    BY <1>2, <2>2, <2>3, LessOnePart
  <2> QED
    BY <2>1, <2>4 DEF S
<1>11. LessClaimed(g[m], h[m], gap, tenant.id)
  <2>1. m \in 0..m
    OBVIOUS
  <2> HIDE DEF S
  <2>2. m \in S
    BY <1>9, <1>10, <2>1, Stepwise
  <2> QED
    BY <2>2 DEF S
<1>12. TenantClaims(tenant, received) = g[m].claims /\ TenantClaims(tenant, received2) = h[m].claims
  BY <1>7, <1>8 DEF PartsRun, TenantClaims, start, start2, parts
<1>13. /\ g[m].claims \in Seq(ClaimRows) /\ h[m].claims \in Seq(ClaimRows)
       /\ g[m].offset \in Nat /\ h[m].offset \in Nat /\ g[m].offset <= h[m].offset
       /\ Fewer(h[m].claims, g[m].claims)
       /\ ClaimedBy(g[m].claims, tenant.id) + h[m].offset - g[m].offset <=
            ClaimedBy(h[m].claims, tenant.id) + gap
  BY <1>11 DEF LessClaimed, Fewer
<1>14. ClaimedBy(g[m].claims, tenant.id) \in Nat /\ ClaimedBy(h[m].claims, tenant.id) \in Nat
  BY <1>13, ClaimsTyped
<1>15. ClaimedBy(g[m].claims, tenant.id) <= ClaimedBy(h[m].claims, tenant.id) + gap
  BY <1>2, <1>13, <1>14 DEF gap
<1> QED
  BY <1>12, <1>13, <1>15 DEF gap

\* The claims of all tenants on two books, where the second one has paid more.
Paying(book, book2, joining, n, taxIds, money, money2) ==
  /\ OwnIds(joining, n, taxIds) /\ \A i \in 1..n : ~Mismatched(joining[i])
  /\ money \in Int /\ money2 \in Int
  /\ TaxedBook(book, joining, n, taxIds, money) /\ TaxedBook(book2, joining, n, taxIds, money2)
  /\ book.left <= book2.left
  /\ \A i \in 1..n : Got12(book, joining[i].id) <= Got12(book2, joining[i].id)
TenantsLess(v, v2, k, book, book2, joining, n) ==
  /\ Fewer(v2, v)
  /\ \A i \in 1..n : ClaimedBy(v, joining[i].id) <= ClaimedBy(v2, joining[i].id)
       + (IF i <= k THEN Got12(book2, joining[i].id) - Got12(book, joining[i].id) ELSE 0)

LEMMA TenantTurn ==
  ASSUME NEW book \in Books(STRING), NEW t, NEW v
  PROVE  ClaimTenant(v, book, t) = v \o TenantClaims(t, Got12(book, t.id))
BY ReceivedIsPaid DEF ClaimTenant, Got12

LEMMA TenantGot ==
  ASSUME NEW joining, NEW n, NEW taxIds, OwnIds(joining, n, taxIds), NEW money,
         NEW book, TaxedBook(book, joining, n, taxIds, money), NEW i \in 1..n
  PROVE  /\ book \in Books(STRING) /\ Got12(book, joining[i].id) \in Nat
         /\ Got12(book, joining[i].id) <= joining[i].deposit
         /\ joining[i] \in Tenants
<1> DEFINE t == joining[i]
<1>1. book \in Books(STRING)
  BY DEF TaxedBook, Balanced
<1>2. Got12(book, t.id) \in Int /\ 0 <= Got12(book, t.id)
  BY <1>1, PaidTyped DEF TaxedBook, Balanced, Got12
<1>3. Got12(book, t.id) = PaidOf(book, Stages, {t.id}) /\ PaidOf(book, Stages, {t.id}) <= t.deposit
  BY DEF TaxedBook, Got12
<1>5. t \in Tenants
  BY DEF OwnIds
<1>6. Got12(book, t.id) \in Nat /\ Got12(book, t.id) <= t.deposit
  BY <1>2, <1>3
<1> HIDE DEF t
<1>7. /\ book \in Books(STRING) /\ Got12(book, t.id) \in Nat
      /\ Got12(book, t.id) <= t.deposit
      /\ t \in Tenants
  BY <1>1, <1>5, <1>6
<1> QED
  BY <1>7 DEF t

LEMMA LessOneTenant ==
  ASSUME NEW joining, NEW n, NEW taxIds, NEW money, NEW money2, NEW book, NEW book2,
         Paying(book, book2, joining, n, taxIds, money, money2), NEW k \in 0..(n - 1),
         NEW v, NEW v2, TenantsLess(v, v2, k, book, book2, joining, n)
  PROVE  TenantsLess(ClaimTenant(v, book, joining[k + 1]), ClaimTenant(v2, book2, joining[k + 1]),
                     k + 1, book, book2, joining, n)
<1> DEFINE t == joining[k + 1]
           r == Got12(book, t.id)
           r2 == Got12(book2, t.id)
           c == TenantClaims(t, r)
           c2 == TenantClaims(t, r2)
           both == v \o c
           both2 == v2 \o c2
<1>1. /\ OwnIds(joining, n, taxIds) /\ \A i \in 1..n : ~Mismatched(joining[i])
      /\ TaxedBook(book, joining, n, taxIds, money) /\ TaxedBook(book2, joining, n, taxIds, money2)
      /\ \A i \in 1..n : Got12(book, joining[i].id) <= Got12(book2, joining[i].id)
  BY DEF Paying
<1>2. /\ n \in Nat /\ joining \in [1..n -> Tenants] /\ k + 1 \in 1..n
      /\ \A i, j \in 1..n : joining[i].id = joining[j].id => i = j
  BY <1>1 DEF OwnIds, DistinctIds
<1>3. /\ t \in Tenants /\ r \in Nat /\ r2 \in Nat /\ r <= r2 /\ ~Mismatched(t)
      /\ r <= t.deposit /\ r2 <= t.deposit
      /\ ClaimTenant(v, book, t) = both /\ ClaimTenant(v2, book2, t) = both2
  <2>1. r <= r2 /\ ~Mismatched(t)
    BY <1>1, <1>2
  <2>2. t \in Tenants /\ r \in Nat /\ r <= t.deposit /\ book \in Books(STRING)
    <3> DEFINE e == k + 1
    <3>1. e \in 1..n
      BY <1>2
    <3> HIDE DEF e
    <3>2. OwnIds(joining, n, taxIds) /\ TaxedBook(book, joining, n, taxIds, money)
      BY <1>1
    <3>3. /\ book \in Books(STRING) /\ Got12(book, joining[e].id) \in Nat
          /\ Got12(book, joining[e].id) <= joining[e].deposit /\ joining[e] \in Tenants
      BY <3>1, <3>2, TenantGot
    <3> QED
      BY <3>3 DEF e
  <2>3. r2 \in Nat /\ r2 <= t.deposit /\ book2 \in Books(STRING)
    <3> DEFINE e == k + 1
    <3>1. e \in 1..n
      BY <1>2
    <3> HIDE DEF e
    <3>2. OwnIds(joining, n, taxIds) /\ TaxedBook(book2, joining, n, taxIds, money2)
      BY <1>1
    <3>3. /\ book2 \in Books(STRING) /\ Got12(book2, joining[e].id) \in Nat
          /\ Got12(book2, joining[e].id) <= joining[e].deposit
      BY <3>1, <3>2, TenantGot
    <3> QED
      BY <3>3 DEF e
  <2>4. ClaimTenant(v, book, t) = both /\ ClaimTenant(v2, book2, t) = both2
    <3> HIDE DEF t
    <3> QED
      BY <2>2, <2>3, TenantTurn
  <2> QED
    BY <2>1, <2>2, <2>3, <2>4
<1> HIDE DEF t, r, r2
<1>4. /\ Fewer(c2, c) /\ ClaimedBy(c, t.id) <= ClaimedBy(c2, t.id) + (r2 - r)
  BY <1>3, TenantClaimsLess
<1>5. \A w : w # t.id => ClaimedBy(c, w) = 0 /\ ClaimedBy(c2, w) = 0
  <2>1. \A w : w # t.id => ClaimedBy(c, w) = 0
    BY <1>3, TenantClaimsTyped
  <2>2. \A w : w # t.id => ClaimedBy(c2, w) = 0
    BY <1>3, TenantClaimsTyped
  <2> QED
    BY <2>1, <2>2
<1> HIDE DEF c, c2
<1>6. /\ v \in Seq(ClaimRows) /\ v2 \in Seq(ClaimRows) /\ Fewer(v2, v)
      /\ c \in Seq(ClaimRows) /\ c2 \in Seq(ClaimRows)
  BY <1>4 DEF TenantsLess, Fewer
<1>7. Fewer(both2, both)
  BY <1>4, <1>6, FewerJoined
<1>8. /\ \A w : ClaimedBy(both, w) = ClaimedBy(v, w) + ClaimedBy(c, w)
      /\ \A w : ClaimedBy(both2, w) = ClaimedBy(v2, w) + ClaimedBy(c2, w)
  <2>1. \A w : ClaimedBy(both, w) = ClaimedBy(v, w) + ClaimedBy(c, w)
    BY <1>6, ClaimsInARow
  <2>2. \A w : ClaimedBy(both2, w) = ClaimedBy(v2, w) + ClaimedBy(c2, w)
    BY <1>6, ClaimsInARow
  <2> QED
    BY <2>1, <2>2
<1> HIDE DEF both, both2
<1>9. \A w : /\ ClaimedBy(v, w) \in Nat /\ ClaimedBy(v2, w) \in Nat
             /\ ClaimedBy(c, w) \in Nat /\ ClaimedBy(c2, w) \in Nat
  BY <1>6, ClaimsTyped
<1>10. ASSUME NEW i \in 1..n
       PROVE  ClaimedBy(both, joining[i].id) <= ClaimedBy(both2, joining[i].id)
                + (IF i <= k + 1 THEN Got12(book2, joining[i].id) - Got12(book, joining[i].id) ELSE 0)
  <2> DEFINE w == joining[i].id
             g == Got12(book2, w) - Got12(book, w)
  <2>1. ClaimedBy(v, w) <= ClaimedBy(v2, w) + (IF i <= k THEN g ELSE 0)
    BY DEF TenantsLess
  <2>2. g \in Int
    <3>1. Got12(book, w) \in Nat /\ Got12(book2, w) \in Nat
      BY <1>1, TenantGot
    <3> QED
      BY <3>1
  <2>3. CASE i = k + 1
    <3>1. w = t.id /\ g = r2 - r /\ ~(i <= k) /\ i <= k + 1
      BY <1>2, <2>3 DEF t, r, r2
    <3> HIDE DEF w, g
    <3>2. ClaimedBy(c, w) <= ClaimedBy(c2, w) + g /\ ClaimedBy(v, w) <= ClaimedBy(v2, w) + 0
      BY <1>4, <2>1, <3>1
    <3>3. ClaimedBy(both, w) <= ClaimedBy(both2, w) + g
      BY <1>8, <1>9, <2>2, <3>2
    <3>4. ClaimedBy(both, w) <= ClaimedBy(both2, w) + (IF i <= k + 1 THEN g ELSE 0)
      BY <3>1, <3>3
    <3> QED
      BY <3>4 DEF w, g
  <2>4. CASE i # k + 1
    <3>1. w # t.id /\ (i <= k <=> i <= k + 1)
      BY <1>2, <2>4 DEF t
    <3> DEFINE d == IF i <= k THEN g ELSE 0
    <3>2. d \in Int /\ d = (IF i <= k + 1 THEN g ELSE 0) /\ ClaimedBy(v, w) <= ClaimedBy(v2, w) + d
      BY <2>1, <2>2, <3>1
    <3> HIDE DEF w, g, d
    <3>3. ClaimedBy(c, w) = 0 /\ ClaimedBy(c2, w) = 0
      BY <1>5, <3>1
    <3>4. ClaimedBy(both, w) <= ClaimedBy(both2, w) + d
      BY <1>8, <1>9, <3>2, <3>3
    <3> QED
      BY <3>2, <3>4 DEF w, g
  <2> QED
    BY <2>3, <2>4
<1>11. TenantsLess(both, both2, k + 1, book, book2, joining, n)
  BY <1>7, <1>10 DEF TenantsLess
<1> QED
  BY <1>3, <1>11 DEF t

LEMMA TenantsClaimLess ==
  ASSUME NEW joining, NEW n, NEW taxIds, NEW money, NEW money2, NEW book, NEW book2,
         Paying(book, book2, joining, n, taxIds, money, money2)
  PROVE  TenantsLess(ClaimTenants(book, joining), ClaimTenants(book2, joining), n,
                     book, book2, joining, n)
<1> DEFINE V == Seq(ClaimRows)
<1>1. /\ OwnIds(joining, n, taxIds) /\ \A i \in 1..n : ~Mismatched(joining[i])
      /\ TaxedBook(book, joining, n, taxIds, money) /\ TaxedBook(book2, joining, n, taxIds, money2)
  BY DEF Paying
<1>2. n \in Nat /\ joining \in [1..n -> Tenants] /\ DOMAIN joining = 1..n
  BY <1>1 DEF OwnIds
<1>3. ASSUME NEW b, NEW mon, TaxedBook(b, joining, n, taxIds, mon), NEW v \in V, NEW i \in 1..n
      PROVE  ClaimTenant(v, b, joining[i]) \in V
  <2> DEFINE t == joining[i]
             c == TenantClaims(t, Got12(b, t.id))
  <2>1. t \in Tenants /\ Got12(b, t.id) \in Nat /\ Got12(b, t.id) <= t.deposit /\ ~Mismatched(t)
        /\ b \in Books(STRING)
    BY <1>1, <1>3, TenantGot
  <2>4. ClaimTenant(v, b, t) = v \o c
    BY <2>1, TenantTurn
  <2>2. c \in Seq(ClaimRows)
    <3> HIDE DEF t
    <3> QED
      BY <2>1, TenantClaimsTyped
  <2> HIDE DEF c
  <2>3. v \o c \in Seq(ClaimRows)
    BY <2>2, ClaimsInARow
  <2> QED
    BY <2>4, <2>3
<1>4. << >> \in V
  BY NoClaims
<1> HIDE DEF V
<1>5. TenantClaimsFit(V, joining, n, book) /\ TenantClaimsFit(V, joining, n, book2)
  BY <1>1, <1>2, <1>3, <1>4 DEF TenantClaimsFit
<1>6. PICK g : TenantClaimsRun(g, V, joining, n, book)
  BY <1>5, TenantClaimsInTurn
<1>7. PICK h : TenantClaimsRun(h, V, joining, n, book2)
  BY <1>5, TenantClaimsInTurn
<1> DEFINE S == {k \in 0..n : TenantsLess(g[k], h[k], k, book, book2, joining, n)}
<1>8. 0 \in S
  <2>1. g[0] = << >> /\ h[0] = << >>
    BY <1>6, <1>7 DEF TenantClaimsRun
  <2>2. \A w : ClaimedBy(<< >>, w) = 0
    BY NoClaims
  <2>3. Fewer(<< >>, << >>)
    BY NoClaims, FewerSelf
  <2>4. \A i \in 1..n : ~(i <= 0)
    OBVIOUS
  <2>5. TenantsLess(<< >>, << >>, 0, book, book2, joining, n)
    BY <2>2, <2>3, <2>4 DEF TenantsLess
  <2> QED
    BY <1>2, <2>1, <2>5
<1>9. ASSUME NEW k \in 0..(n - 1), k \in S PROVE k + 1 \in S
  <2>1. k + 1 \in 0..n
    BY <1>2
  <2>2. TenantsLess(g[k], h[k], k, book, book2, joining, n)
    BY <1>9
  <2>3. g[k + 1] = ClaimTenant(g[k], book, joining[k + 1])
        /\ h[k + 1] = ClaimTenant(h[k], book2, joining[k + 1])
    BY <1>6, <1>7 DEF TenantClaimsRun
  <2> HIDE DEF S
  <2>4. TenantsLess(g[k + 1], h[k + 1], k + 1, book, book2, joining, n)
    BY <2>2, <2>3, LessOneTenant
  <2> QED
    BY <2>1, <2>4 DEF S
<1>10. n \in S
  <2>1. n \in 0..n
    BY <1>2
  <2> HIDE DEF S
  <2> QED
    BY <1>2, <1>8, <1>9, <2>1, Stepwise
<1> QED
  BY <1>6, <1>7, <1>10 DEF TenantClaimsRun

\* The rights add the same claims to both lists.
SameAdded(v, v2, start, start2) ==
  /\ Fewer(v2, v)
  /\ \A w : ClaimedBy(v, w) + ClaimedBy(start2, w) = ClaimedBy(v2, w) + ClaimedBy(start, w)

LEMMA AddedSums ==
  ASSUME NEW a \in Nat, NEW a2 \in Nat, NEW b \in Nat, NEW b2 \in Nat, NEW c \in Nat,
         a + b2 = a2 + b
  PROVE  (a + c) + b2 = (a2 + c) + b
OBVIOUS

LEMMA ClaimedOnce ==
  ASSUME NEW claims, claims \in Seq(ClaimRows),
         NEW to \in STRING, NEW date \in Dates, NEW amount \in Nat, NEW w
  PROVE  ClaimedBy(Append(claims, Claim(to, date, amount)), w) =
           ClaimedBy(claims, w) + (IF to = w THEN amount ELSE 0)
<1>1. /\ Append(claims, Claim(to, date, amount)) \in Seq(ClaimRows)
      /\ \A u : ClaimedBy(Append(claims, Claim(to, date, amount)), u) =
                  ClaimedBy(claims, u) + (IF to = u THEN amount ELSE 0)
  BY ClaimMore
<1> QED
  BY <1>1

LEMMA SameRight ==
  ASSUME NEW right \in RightRows, NEW v, NEW v2, NEW start \in Seq(ClaimRows),
         NEW start2 \in Seq(ClaimRows), SameAdded(v, v2, start, start2)
  PROVE  SameAdded(ClaimRight(v, right), ClaimRight(v2, right), start, start2)
<1> DEFINE to == right.id
           date == right.received
           amount == right.amount
           one == Claim(to, date, amount)
           more == Append(v, one)
           more2 == Append(v2, one)
<1>1. v \in Seq(ClaimRows) /\ v2 \in Seq(ClaimRows)
  BY DEF SameAdded, Fewer
<1>0. Fewer(v2, v)
  BY DEF SameAdded
<1>2. CASE amount = Absent
  BY <1>2 DEF ClaimRight
<1>3. CASE amount # Absent
  <2>1. to \in STRING /\ date \in Dates /\ amount \in Nat
    BY <1>3 DEF RightRows, OptionalAmount, Dates
  <2>2. ClaimRight(v, right) = more /\ ClaimRight(v2, right) = more2
    BY <1>3 DEF ClaimRight
  <2> HIDE DEF to, date, amount
  <2>3. one \in ClaimRows /\ one.amount \in Nat
    BY <2>1 DEF Claim, ClaimRows
  <2>4. \A w : ClaimedBy(more, w) = ClaimedBy(v, w) + (IF to = w THEN amount ELSE 0)
    BY <1>1, <2>1, ClaimedOnce
  <2>5. \A w : ClaimedBy(more2, w) = ClaimedBy(v2, w) + (IF to = w THEN amount ELSE 0)
    BY <1>1, <2>1, ClaimedOnce
  <2> HIDE DEF one, more, more2
  <2>6. Fewer(more2, more)
    <3>1. one.amount <= one.amount
      BY <2>3
    <3>2. Fewer(Append(v2, one), Append(v, one))
      BY <1>0, <2>3, <3>1, FewerMore
    <3> QED
      BY <3>2 DEF more, more2
  <2>7. ASSUME NEW w
        PROVE  ClaimedBy(more, w) + ClaimedBy(start2, w) = ClaimedBy(more2, w) + ClaimedBy(start, w)
    <3> DEFINE c == IF to = w THEN amount ELSE 0
    <3>1. c \in Nat
      BY <2>1
    <3>2. ClaimedBy(more, w) = ClaimedBy(v, w) + c /\ ClaimedBy(more2, w) = ClaimedBy(v2, w) + c
      BY <2>4, <2>5
    <3> HIDE DEF c
    <3>3. /\ ClaimedBy(v, w) \in Nat /\ ClaimedBy(v2, w) \in Nat
          /\ ClaimedBy(start, w) \in Nat /\ ClaimedBy(start2, w) \in Nat
      BY <1>1, ClaimsTyped
    <3>4. ClaimedBy(v, w) + ClaimedBy(start2, w) = ClaimedBy(v2, w) + ClaimedBy(start, w)
      BY DEF SameAdded
    <3>5. (ClaimedBy(v, w) + c) + ClaimedBy(start2, w) = (ClaimedBy(v2, w) + c) + ClaimedBy(start, w)
      BY <3>1, <3>3, <3>4, AddedSums
    <3> QED
      BY <3>2, <3>5
  <2> QED
    BY <2>2, <2>6, <2>7 DEF SameAdded
<1> QED
  BY <1>2, <1>3

LEMMA RightClaimsTyped ==
  ASSUME NEW n \in Nat, NEW rights \in [1..n -> RightRows], NEW before \in Seq(ClaimRows)
  PROVE  RightClaimsFit(Seq(ClaimRows), before, rights, n)
<1> DEFINE V == Seq(ClaimRows)
<1>1. ASSUME NEW v \in V, NEW i \in 1..n PROVE ClaimRight(v, rights[i]) \in V
  <2>1. rights[i].amount # Absent => Claim(rights[i].id, rights[i].received, rights[i].amount) \in ClaimRows
    BY DEF RightRows, OptionalAmount, Dates, Claim, ClaimRows
  <2> DEFINE one == Claim(rights[i].id, rights[i].received, rights[i].amount)
  <2> HIDE DEF one
  <2>2. one \in ClaimRows => Append(v, one) \in V
    OBVIOUS
  <2> HIDE DEF V
  <2> QED
    BY <2>1, <2>2 DEF ClaimRight, one
<1> QED
  BY <1>1 DEF RightClaimsFit

LEMMA SameRights ==
  ASSUME NEW n \in Nat, NEW rights \in [1..n -> RightRows],
         NEW start, NEW start2, Fewer(start2, start)
  PROVE  SameAdded(ClaimRights(start, rights), ClaimRights(start2, rights), start, start2)
<1> DEFINE V == Seq(ClaimRows)
<1>1. start \in V /\ start2 \in V
  BY DEF Fewer
<1>2. RightClaimsFit(V, start, rights, n) /\ RightClaimsFit(V, start2, rights, n)
  BY <1>1, RightClaimsTyped
<1>3. PICK g : RightClaimsRun(g, V, start, rights, n)
  BY <1>2, RightClaimsInTurn
<1>4. PICK h : RightClaimsRun(h, V, start2, rights, n)
  BY <1>2, RightClaimsInTurn
<1> DEFINE S == {k \in 0..n : SameAdded(g[k], h[k], start, start2)}
<1>5. 0 \in S
  <2>1. g[0] = start /\ h[0] = start2
    BY <1>3, <1>4 DEF RightClaimsRun
  <2>2. \A w : ClaimedBy(start, w) \in Nat /\ ClaimedBy(start2, w) \in Nat
    BY <1>1, ClaimsTyped
  <2>3. SameAdded(start, start2, start, start2)
    BY <2>2 DEF SameAdded
  <2> QED
    BY <2>1, <2>3
<1>6. ASSUME NEW k \in 0..(n - 1), k \in S PROVE k + 1 \in S
  <2>1. k + 1 \in 0..n /\ rights[k + 1] \in RightRows
    OBVIOUS
  <2>2. SameAdded(g[k], h[k], start, start2)
    BY <1>6
  <2>3. g[k + 1] = ClaimRight(g[k], rights[k + 1]) /\ h[k + 1] = ClaimRight(h[k], rights[k + 1])
    BY <1>3, <1>4 DEF RightClaimsRun
  <2> HIDE DEF S
  <2>4. SameAdded(g[k + 1], h[k + 1], start, start2)
    BY <1>1, <2>1, <2>2, <2>3, SameRight
  <2> QED
    BY <2>1, <2>4 DEF S
<1>7. n \in S
  <2>1. n \in 0..n
    OBVIOUS
  <2> HIDE DEF S
  <2> QED
    BY <1>5, <1>6, <2>1, Stepwise
<1> QED
  BY <1>3, <1>4, <1>7 DEF RightClaimsRun

\* The taxes of two files, where the amounts of some are known in the first one only.
Learned(tax, tax2) ==
  /\ tax2.id = tax.id /\ tax2.property = tax.property /\ tax2.statutory = tax.statutory
  /\ tax2.amount = Absent \/ tax2.amount = tax.amount
MoreTaxes(taxes, taxes2, n) ==
  /\ n \in Nat /\ taxes \in [1..n -> TaxRows] /\ taxes2 \in [1..n -> TaxRows]
  /\ \A i \in 1..n : Learned(taxes[i], taxes2[i])

LEMMA LessOneTax ==
  ASSUME NEW tax \in TaxRows, NEW tax2 \in TaxRows, Learned(tax, tax2),
         NEW v, NEW v2, Fewer(v2, v)
  PROVE  Fewer(ClaimTax(v2, tax2), ClaimTax(v, tax))
<1> DEFINE one == Claim(tax.id, tax.statutory, tax.amount)
<1>1. tax2.id = tax.id /\ tax2.property = tax.property /\ tax2.statutory = tax.statutory
      /\ (tax2.amount = Absent \/ tax2.amount = tax.amount)
  BY DEF Learned
<1>2. CASE tax.property \/ tax.amount = Absent
  <2>1. ClaimTax(v, tax) = v /\ ClaimTax(v2, tax2) = v2
    BY <1>1, <1>2 DEF ClaimTax
  <2> QED
    BY <2>1
<1>3. CASE ~tax.property /\ tax.amount # Absent
  <2>1. one \in ClaimRows /\ one.amount <= one.amount
    BY <1>3 DEF TaxRows, OptionalAmount, Dates, Claim, ClaimRows
  <2>2. ClaimTax(v, tax) = Append(v, one)
    BY <1>3 DEF ClaimTax
  <2>3. ClaimTax(v2, tax2) = v2 \/ ClaimTax(v2, tax2) = Append(v2, one)
    BY <1>1 DEF ClaimTax
  <2> HIDE DEF one
  <2>4. Fewer(v2, Append(v, one)) /\ Fewer(Append(v2, one), Append(v, one))
    BY <2>1, FewerMore
  <2> QED
    BY <2>2, <2>3, <2>4
<1> QED
  BY <1>2, <1>3

LEMMA TaxClaimsTyped ==
  ASSUME NEW n \in Nat, NEW taxes \in [1..n -> TaxRows], NEW before \in Seq(ClaimRows)
  PROVE  TaxClaimsFit(Seq(ClaimRows), before, taxes, n)
<1> DEFINE V == Seq(ClaimRows)
<1>1. ASSUME NEW v \in V, NEW i \in 1..n PROVE ClaimTax(v, taxes[i]) \in V
  <2>1. taxes[i].amount # Absent => Claim(taxes[i].id, taxes[i].statutory, taxes[i].amount) \in ClaimRows
    BY DEF TaxRows, OptionalAmount, Dates, Claim, ClaimRows
  <2> DEFINE one == Claim(taxes[i].id, taxes[i].statutory, taxes[i].amount)
  <2> HIDE DEF one
  <2>2. one \in ClaimRows => Append(v, one) \in V
    OBVIOUS
  <2> HIDE DEF V
  <2> QED
    BY <2>1, <2>2 DEF ClaimTax, one
<1> QED
  BY <1>1 DEF TaxClaimsFit

LEMMA TaxesClaimLess ==
  ASSUME NEW n, NEW taxes, NEW taxes2, MoreTaxes(taxes, taxes2, n),
         NEW start, NEW start2, Fewer(start2, start)
  PROVE  Fewer(ClaimTaxes(start2, taxes2), ClaimTaxes(start, taxes))
<1> DEFINE V == Seq(ClaimRows)
<1>1. /\ n \in Nat /\ taxes \in [1..n -> TaxRows] /\ taxes2 \in [1..n -> TaxRows]
      /\ \A i \in 1..n : Learned(taxes[i], taxes2[i])
      /\ start \in V /\ start2 \in V
  BY DEF Fewer, MoreTaxes
<1>2. TaxClaimsFit(V, start, taxes, n) /\ TaxClaimsFit(V, start2, taxes2, n)
  BY <1>1, TaxClaimsTyped
<1>3. PICK g : TaxClaimsRun(g, V, start, taxes, n)
  BY <1>2, TaxClaimsInTurn
<1>4. PICK h : TaxClaimsRun(h, V, start2, taxes2, n)
  BY <1>2, TaxClaimsInTurn
<1> DEFINE S == {k \in 0..n : Fewer(h[k], g[k])}
<1>5. 0 \in S
  <2>1. g[0] = start /\ h[0] = start2
    BY <1>3, <1>4 DEF TaxClaimsRun
  <2> QED
    BY <1>1, <2>1
<1>6. ASSUME NEW k \in 0..(n - 1), k \in S PROVE k + 1 \in S
  <2>1. k + 1 \in 0..n /\ taxes[k + 1] \in TaxRows /\ taxes2[k + 1] \in TaxRows
        /\ Learned(taxes[k + 1], taxes2[k + 1])
    BY <1>1
  <2>2. Fewer(h[k], g[k])
    BY <1>6
  <2>3. g[k + 1] = ClaimTax(g[k], taxes[k + 1]) /\ h[k + 1] = ClaimTax(h[k], taxes2[k + 1])
    BY <1>3, <1>4 DEF TaxClaimsRun
  <2> HIDE DEF S
  <2>4. Fewer(h[k + 1], g[k + 1])
    BY <2>1, <2>2, <2>3, LessOneTax
  <2> QED
    BY <2>1, <2>4 DEF S
<1>7. n \in S
  <2>1. n \in 0..n
    BY <1>1
  <2> HIDE DEF S
  <2> QED
    BY <1>1, <1>5, <1>6, <2>1, Stepwise
<1> QED
  BY <1>3, <1>4, <1>7 DEF TaxClaimsRun

-----------------------------------------------------------------------------
\* Two numbers at every place.
Both(c, a, b, n) ==
  /\ n \in Nat /\ a \in [1..n -> Int] /\ b \in [1..n -> Int]
  /\ c = [i \in 1..n |-> a[i] + b[i]]

LEMMA SumBoth ==
  ASSUME NEW n, NEW a, NEW b, NEW c, Both(c, a, b, n)
  PROVE  SumIn(c, n, 1..n) = SumIn(a, n, 1..n) + SumIn(b, n, 1..n)
<1>1. /\ n \in Nat /\ a \in [1..n -> Int] /\ b \in [1..n -> Int] /\ c \in [1..n -> Int]
      /\ \A i \in 1..n : c[i] = a[i] + b[i]
  BY DEF Both
<1> DEFINE S == {k \in 0..n : SumIn(c, n, 1..k) = SumIn(a, n, 1..k) + SumIn(b, n, 1..k)}
<1>2. 0 \in S
  <2>1. SumIn(a, n, 1..0) = 0 /\ SumIn(b, n, 1..0) = 0 /\ SumIn(c, n, 1..0) = 0
    BY <1>1, SumSteps
  <2> QED
    BY <1>1, <2>1
<1>3. ASSUME NEW k \in 0..(n - 1), k \in S PROVE k + 1 \in S
  <2>1. k + 1 \in 1..n /\ k + 1 \in 0..n /\ k \in Nat /\ k <= n
    BY <1>1
  <2>2. /\ SumIn(a, n, 1..(k + 1)) = SumIn(a, n, 1..k) + a[k + 1]
        /\ SumIn(b, n, 1..(k + 1)) = SumIn(b, n, 1..k) + b[k + 1]
        /\ SumIn(c, n, 1..(k + 1)) = SumIn(c, n, 1..k) + c[k + 1]
    BY <1>1, SumSteps
  <2>3. SumIn(a, n, 1..k) \in Int /\ SumIn(b, n, 1..k) \in Int
    BY <1>1, <2>1, SumTyped
  <2>4. a[k + 1] \in Int /\ b[k + 1] \in Int /\ c[k + 1] = a[k + 1] + b[k + 1]
    BY <1>1, <2>1
  <2>5. SumIn(c, n, 1..k) = SumIn(a, n, 1..k) + SumIn(b, n, 1..k)
    BY <1>3
  <2>6. SumIn(c, n, 1..(k + 1)) = SumIn(a, n, 1..(k + 1)) + SumIn(b, n, 1..(k + 1))
    BY <2>2, <2>3, <2>4, <2>5
  <2> QED
    BY <2>1, <2>6
<1> HIDE DEF S
<1>4. n \in S
  <2>1. n \in 0..n
    BY <1>1
  <2> QED
    BY <1>1, <1>2, <1>3, <2>1, Stepwise
<1> QED
  BY <1>4 DEF S

\* What two sets of stages pay, apart.
LEMMA PaidApart ==
  ASSUME NEW book \in Books(STRING), NEW S, NEW R, S \intersect R = {}, NEW T
  PROVE  PaidOf(book, S \union R, T) = PaidOf(book, S, T) + PaidOf(book, R, T)
<1> DEFINE n == Len(book.entries)
           a == PaidAt(book.entries, S, T)
           b == PaidAt(book.entries, R, T)
           c == PaidAt(book.entries, S \union R, T)
<1>1. n \in Nat /\ a \in [1..n -> Int] /\ b \in [1..n -> Int] /\ c \in [1..n -> Int]
  BY PaidTyped
<1>2. \A i \in 1..n : c[i] = a[i] + b[i]
  <2>1. \A i \in 1..n : book.entries[i].amount \in Int
    BY PaidTyped DEF Entries
  <2> QED
    BY <2>1 DEF PaidAt
<1> HIDE DEF n, a, b, c
<1>3. Both(c, a, b, n)
  BY <1>1, <1>2 DEF Both
<1>4. SumIn(c, n, 1..n) = SumIn(a, n, 1..n) + SumIn(b, n, 1..n)
  BY <1>3, SumBoth
<1> QED
  BY <1>4 DEF PaidOf, n, a, b, c

\* Before the ranks a tenant has nothing but small deposits and relief.
LEMMA GotBeforeRanks ==
  ASSUME NEW joining, NEW n, NEW taxIds, NEW money,
         NEW book, TaxedBook(book, joining, n, taxIds, money), NEW i \in 1..n
  PROVE  /\ PaidOf(book, Stages, {joining[i].id}) = Got12(book, joining[i].id)
         /\ PaidOf(book, {"small", "relief", "rank"}, {joining[i].id}) = Got12(book, joining[i].id)
<1> DEFINE T == {joining[i].id}
           two == {"small", "relief"}
           three == {"small", "relief", "rank"}
<1>1. book \in Books(STRING) /\ \A S : 0 <= PaidOf(book, S, T) /\ PaidOf(book, S, T) \in Int
  BY PaidTyped DEF TaxedBook, Balanced
<1>2. PaidOf(book, Stages, T) = PaidOf(book, two, T)
  BY DEF TaxedBook
<1>3. two \union {"rank"} = three /\ two \intersect {"rank"} = {}
  OBVIOUS
<1>4. three \union {"tax"} = Stages /\ three \intersect {"tax"} = {}
  BY DEF Stages
<1> HIDE DEF T, two, three
<1>5. PaidOf(book, three, T) = PaidOf(book, two, T) + PaidOf(book, {"rank"}, T)
  BY <1>1, <1>3, PaidApart
<1>6. PaidOf(book, Stages, T) = PaidOf(book, three, T) + PaidOf(book, {"tax"}, T)
  BY <1>1, <1>4, PaidApart
<1>7. PaidOf(book, three, T) = PaidOf(book, two, T)
  <2>1. /\ PaidOf(book, {"rank"}, T) >= 0 /\ PaidOf(book, {"rank"}, T) \in Int
        /\ PaidOf(book, {"tax"}, T) >= 0 /\ PaidOf(book, {"tax"}, T) \in Int
        /\ PaidOf(book, two, T) \in Int /\ PaidOf(book, three, T) \in Int
    BY <1>1
  <2> QED
    BY <1>2, <1>5, <1>6, <2>1
<1> QED
  BY <1>2, <1>7 DEF Got12, T, two, three

\* All claims, not yet by rank.
Listed(book, joining, rights, taxes) ==
  ClaimTaxes(ClaimRights(ClaimTenants(book, joining), rights), taxes)

\* Where tenants have received more they claim that much less at most, and the
\* rights claim the same.
ClaimsLess(c, c2, book, book2, joining, n, rights, l) ==
  /\ Fewer(c2, c)
  /\ \A i \in 1..n : ClaimedBy(c, joining[i].id) + Got12(book, joining[i].id) <=
                       ClaimedBy(c2, joining[i].id) + Got12(book2, joining[i].id)
  /\ \A i \in 1..l : ClaimedBy(c, rights[i].id) = ClaimedBy(c2, rights[i].id)

\* Two distributions of one file before the ranks: the taxes of the first are those
\* of the second with more amounts known.
TwoRuns(book, book2, joining, n, rights, l, taxes, taxes2, m, money, money2) ==
  /\ Apart(joining, n, rights, l, taxes, m)
  /\ MoreTaxes(taxes, taxes2, m)
  /\ Paying(book, book2, joining, n, {taxes[i].id : i \in 1..m}, money, money2)

LEMMA ClaimsSum ==
  ASSUME NEW a \in Nat, NEW a2 \in Nat, NEW b \in Nat, NEW b2 \in Nat,
         NEW g \in Nat, NEW g2 \in Nat,
         b + a2 = b2 + a, a <= a2 + (g2 - g)
  PROVE  b + g <= b2 + g2
OBVIOUS

LEMMA ListsLess ==
  ASSUME NEW book, NEW book2, NEW joining, NEW n, NEW rights, NEW l, NEW taxes, NEW taxes2, NEW m,
         NEW money, NEW money2,
         TwoRuns(book, book2, joining, n, rights, l, taxes, taxes2, m, money, money2)
  PROVE  ClaimsLess(Listed(book, joining, rights, taxes), Listed(book2, joining, rights, taxes2),
                    book, book2, joining, n, rights, l)
<1> DEFINE taxIds == {taxes[i].id : i \in 1..m}
           a == ClaimTenants(book, joining)
           a2 == ClaimTenants(book2, joining)
           b == ClaimRights(a, rights)
           b2 == ClaimRights(a2, rights)
           c == ClaimTaxes(b, taxes)
           c2 == ClaimTaxes(b2, taxes2)
<1>1. /\ Apart(joining, n, rights, l, taxes, m) /\ MoreTaxes(taxes, taxes2, m)
      /\ Paying(book, book2, joining, n, taxIds, money, money2)
  BY DEF TwoRuns
<1>2. /\ OwnIds(joining, n, taxIds) /\ \A i \in 1..n : ~Mismatched(joining[i])
      /\ TaxedBook(book, joining, n, taxIds, money) /\ TaxedBook(book2, joining, n, taxIds, money2)
  <2> HIDE DEF taxIds
  <2> QED
    BY <1>1 DEF Paying
<1>3. /\ book \in Books(STRING) /\ book2 \in Books(STRING)
  BY <1>2 DEF TaxedBook, Balanced
<1>4. TenantsLess(a, a2, n, book, book2, joining, n)
  <2> HIDE DEF taxIds
  <2> QED
    BY <1>1, TenantsClaimLess
<1>5. TenantsClaimed(a, n, book, joining, n) /\ TenantsClaimed(a2, n, book2, joining, n)
  <2> HIDE DEF taxIds
  <2> QED
    BY <1>2, <1>3, TenantsClaim
<1> HIDE DEF a, a2
<1>6. l \in Nat /\ rights \in [1..l -> RightRows] /\ m \in Nat /\ n \in Nat
  BY <1>1 DEF Apart
<1>7. Fewer(a2, a)
  BY <1>4 DEF TenantsLess
<1>8. SameAdded(b, b2, a, a2)
  BY <1>6, <1>7, SameRights
<1> HIDE DEF b, b2
<1>9. Fewer(b2, b) /\ \A w : ClaimedBy(b, w) + ClaimedBy(a2, w) = ClaimedBy(b2, w) + ClaimedBy(a, w)
  BY <1>8 DEF SameAdded
<1>10. Fewer(c2, c)
  BY <1>1, <1>9, TaxesClaimLess
<1>11. /\ a \in Seq(ClaimRows) /\ a2 \in Seq(ClaimRows)
       /\ b \in Seq(ClaimRows) /\ b2 \in Seq(ClaimRows)
  BY <1>7, <1>9 DEF Fewer
<1>12. /\ taxes \in [1..m -> TaxRows] /\ taxes2 \in [1..m -> TaxRows]
       /\ \A i \in 1..m : taxes2[i].id = taxes[i].id
  BY <1>1 DEF MoreTaxes, Learned
<1>13. ASSUME NEW w, \A i \in 1..m : w # taxes[i].id
       PROVE  ClaimedBy(c, w) = ClaimedBy(b, w) /\ ClaimedBy(c2, w) = ClaimedBy(b2, w)
  <2>1. \A i \in 1..m : w # taxes2[i].id
    BY <1>12, <1>13
  <2> HIDE DEF c, c2
  <2>2. ClaimedBy(c, w) = ClaimedBy(b, w)
    <3>1. \A u : (\A i \in 1..m : u # taxes[i].id) => ClaimedBy(c, u) = ClaimedBy(b, u)
      BY <1>6, <1>11, <1>12, TaxesClaim DEF c
    <3> QED
      BY <1>13, <3>1
  <2>3. ClaimedBy(c2, w) = ClaimedBy(b2, w)
    <3>1. \A u : (\A i \in 1..m : u # taxes2[i].id) => ClaimedBy(c2, u) = ClaimedBy(b2, u)
      BY <1>6, <1>11, <1>12, TaxesClaim DEF c2
    <3> QED
      BY <2>1, <3>1
  <2> QED
    BY <2>2, <2>3
<1> HIDE DEF c, c2
<1>14. ASSUME NEW i \in 1..n
       PROVE  ClaimedBy(c, joining[i].id) + Got12(book, joining[i].id) <=
                ClaimedBy(c2, joining[i].id) + Got12(book2, joining[i].id)
  <2> DEFINE w == joining[i].id
  <2>1. \A j \in 1..m : w # taxes[j].id
    BY <1>1 DEF Apart
  <2>2. Got12(book, w) \in Nat /\ Got12(book2, w) \in Nat
    <3> HIDE DEF taxIds
    <3> QED
      BY <1>2, TenantGot
  <2>3. ClaimedBy(a, w) <= ClaimedBy(a2, w) + (Got12(book2, w) - Got12(book, w))
    <3>1. i <= n
      BY <1>6
    <3> QED
      BY <1>4, <3>1 DEF TenantsLess
  <2> HIDE DEF w
  <2>4. /\ ClaimedBy(a, w) \in Nat /\ ClaimedBy(a2, w) \in Nat
        /\ ClaimedBy(b, w) \in Nat /\ ClaimedBy(b2, w) \in Nat
    BY <1>11, ClaimsTyped
  <2>5. ClaimedBy(b, w) + ClaimedBy(a2, w) = ClaimedBy(b2, w) + ClaimedBy(a, w)
    BY <1>9
  <2>6. ClaimedBy(b, w) + Got12(book, w) <= ClaimedBy(b2, w) + Got12(book2, w)
    BY <2>2, <2>3, <2>4, <2>5, ClaimsSum
  <2>7. ClaimedBy(c, w) = ClaimedBy(b, w) /\ ClaimedBy(c2, w) = ClaimedBy(b2, w)
    BY <1>13, <2>1
  <2> QED
    BY <2>6, <2>7 DEF w
<1>15. ASSUME NEW i \in 1..l
       PROVE  ClaimedBy(c, rights[i].id) = ClaimedBy(c2, rights[i].id)
  <2> DEFINE w == rights[i].id
  <2>1. (\A j \in 1..m : w # taxes[j].id) /\ (\A j \in 1..n : w # joining[j].id)
    BY <1>1 DEF Apart
  <2> HIDE DEF w
  <2>2. ClaimedBy(a, w) = 0 /\ ClaimedBy(a2, w) = 0
    BY <1>5, <2>1 DEF TenantsClaimed
  <2>3. ClaimedBy(b, w) + ClaimedBy(a2, w) = ClaimedBy(b2, w) + ClaimedBy(a, w)
    BY <1>9
  <2>4. ClaimedBy(b, w) \in Nat /\ ClaimedBy(b2, w) \in Nat
    BY <1>11, ClaimsTyped
  <2>5. ClaimedBy(c, w) = ClaimedBy(b, w) /\ ClaimedBy(c2, w) = ClaimedBy(b2, w)
    BY <1>13, <2>1
  <2> QED
    BY <2>2, <2>3, <2>4, <2>5 DEF w
<1>16. c = Listed(book, joining, rights, taxes) /\ c2 = Listed(book2, joining, rights, taxes2)
  BY DEF Listed, a, a2, b, b2, c, c2
<1> QED
  BY <1>10, <1>14, <1>15, <1>16 DEF ClaimsLess

\* By rank, then, nobody receives less.
BetterRanks(b, b2, joining, n, rights, l) ==
  /\ b \in Books(STRING) /\ b2 \in Books(STRING)
  /\ \A i \in 1..n :
       /\ PaidOf(b, Stages, {joining[i].id}) <= PaidOf(b2, Stages, {joining[i].id})
       /\ PaidOf(b, {"small", "relief", "rank"}, {joining[i].id}) <=
            PaidOf(b2, {"small", "relief", "rank"}, {joining[i].id})
  /\ \A i \in 1..l : PaidOf(b, Stages, {rights[i].id}) <= PaidOf(b2, Stages, {rights[i].id})

LEMMA PaidSum ==
  ASSUME NEW p \in Int, NEW p2 \in Int, NEW c \in Nat, NEW c2 \in Nat, NEW u \in Nat, NEW u2 \in Nat,
         c + p <= c2 + p2, u2 <= u
  PROVE  p + c - u <= p2 + c2 - u2
OBVIOUS

LEMMA RanksBetter ==
  ASSUME NEW book, NEW book2, NEW joining, NEW n, NEW rights, NEW l, NEW taxes, NEW taxes2, NEW m,
         NEW money, NEW money2,
         TwoRuns(book, book2, joining, n, rights, l, taxes, taxes2, m, money, money2)
  PROVE  BetterRanks(PayRanks(book, joining, rights, taxes), PayRanks(book2, joining, rights, taxes2),
                     joining, n, rights, l)
<1> DEFINE taxIds == {taxes[i].id : i \in 1..m}
           c == Listed(book, joining, rights, taxes)
           c2 == Listed(book2, joining, rights, taxes2)
           b == PayInOrder(book, ByRank(c))
           b2 == PayInOrder(book2, ByRank(c2))
<1>1. b = PayRanks(book, joining, rights, taxes) /\ b2 = PayRanks(book2, joining, rights, taxes2)
  BY DEF PayRanks, RankedClaims, Listed
<1>2. ClaimsLess(c, c2, book, book2, joining, n, rights, l)
  BY ListsLess
<1> HIDE DEF c, c2
<1>3. c \in Seq(ClaimRows) /\ c2 \in Seq(ClaimRows) /\ Fewer(c2, c)
  BY <1>2 DEF ClaimsLess, Fewer
<1>4. /\ Apart(joining, n, rights, l, taxes, m)
      /\ Paying(book, book2, joining, n, taxIds, money, money2)
  BY DEF TwoRuns
<1>5. /\ TaxedBook(book, joining, n, taxIds, money) /\ TaxedBook(book2, joining, n, taxIds, money2)
      /\ book.left <= book2.left
  <2> HIDE DEF taxIds
  <2> QED
    BY <1>4 DEF Paying
<1>6. /\ book \in Books(STRING) /\ book2 \in Books(STRING) /\ book.left >= 0 /\ book2.left >= 0
      /\ book.left \in Int /\ book2.left \in Int
  BY <1>5 DEF TaxedBook, Balanced, Books
<1>7. /\ b \in Books(STRING)
      /\ \A S, w : "rank" \in S =>
           PaidOf(b, S, {w}) = PaidOf(book, S, {w}) + ClaimedBy(c, w) - Unpaid(c, book.left, w)
  BY <1>3, <1>6, RanksPay
<1>8. /\ b2 \in Books(STRING)
      /\ \A S, w : "rank" \in S =>
           PaidOf(b2, S, {w}) = PaidOf(book2, S, {w}) + ClaimedBy(c2, w) - Unpaid(c2, book2.left, w)
  BY <1>3, <1>6, RanksPay
<1> HIDE DEF b, b2
<1>9. ASSUME NEW S, "rank" \in S, NEW w,
             ClaimedBy(c, w) + PaidOf(book, S, {w}) <= ClaimedBy(c2, w) + PaidOf(book2, S, {w})
      PROVE  PaidOf(b, S, {w}) <= PaidOf(b2, S, {w})
  <2>1. Unpaid(c2, book2.left, w) <= Unpaid(c, book.left, w)
    BY <1>3, <1>5, <1>6, FewerUnpaid
  <2>2. Unpaid(c2, book2.left, w) \in Nat /\ Unpaid(c, book.left, w) \in Nat
    BY <1>3, <1>6, AheadTyped
  <2>3. ClaimedBy(c, w) \in Nat /\ ClaimedBy(c2, w) \in Nat
    BY <1>3, ClaimsTyped
  <2>4. PaidOf(book, S, {w}) \in Int /\ PaidOf(book2, S, {w}) \in Int
    BY <1>6, PaidTyped
  <2>5. PaidOf(book, S, {w}) + ClaimedBy(c, w) - Unpaid(c, book.left, w) <=
          PaidOf(book2, S, {w}) + ClaimedBy(c2, w) - Unpaid(c2, book2.left, w)
    BY <1>9, <2>1, <2>2, <2>3, <2>4, PaidSum
  <2> QED
    BY <1>7, <1>8, <1>9, <2>5
<1>10. ASSUME NEW i \in 1..n
       PROVE  /\ PaidOf(b, Stages, {joining[i].id}) <= PaidOf(b2, Stages, {joining[i].id})
              /\ PaidOf(b, {"small", "relief", "rank"}, {joining[i].id}) <=
                   PaidOf(b2, {"small", "relief", "rank"}, {joining[i].id})
  <2> DEFINE w == joining[i].id
             three == {"small", "relief", "rank"}
  <2>1. "rank" \in Stages /\ "rank" \in three
    BY DEF Stages
  <2>2. /\ PaidOf(book, Stages, {w}) = Got12(book, w) /\ PaidOf(book, three, {w}) = Got12(book, w)
        /\ PaidOf(book2, Stages, {w}) = Got12(book2, w) /\ PaidOf(book2, three, {w}) = Got12(book2, w)
    <3> HIDE DEF taxIds
    <3> QED
      BY <1>5, GotBeforeRanks
  <2>3. ClaimedBy(c, w) + Got12(book, w) <= ClaimedBy(c2, w) + Got12(book2, w)
    BY <1>2 DEF ClaimsLess
  <2> HIDE DEF w, three
  <2>4. PaidOf(b, Stages, {w}) <= PaidOf(b2, Stages, {w})
    BY <1>9, <2>1, <2>2, <2>3
  <2>5. PaidOf(b, three, {w}) <= PaidOf(b2, three, {w})
    BY <1>9, <2>1, <2>2, <2>3
  <2> QED
    BY <2>4, <2>5 DEF w, three
<1>11. ASSUME NEW i \in 1..l
       PROVE  PaidOf(b, Stages, {rights[i].id}) <= PaidOf(b2, Stages, {rights[i].id})
  <2> DEFINE w == rights[i].id
  <2>1. w \notin taxIds /\ (\A j \in 1..n : w # joining[j].id) /\ w \in STRING
    BY <1>4 DEF Apart, RightRows
  <2>2. PaidOf(book, Stages, {w}) = 0 /\ PaidOf(book2, Stages, {w}) = 0
    <3> HIDE DEF taxIds, w
    <3> QED
      BY <1>5, <2>1 DEF TaxedBook
  <2>3. ClaimedBy(c, w) = ClaimedBy(c2, w)
    BY <1>2 DEF ClaimsLess
  <2>4. ClaimedBy(c, w) \in Nat /\ "rank" \in Stages
    BY <1>3, ClaimsTyped DEF Stages
  <2> HIDE DEF w
  <2>5. ClaimedBy(c, w) + PaidOf(book, Stages, {w}) <= ClaimedBy(c2, w) + PaidOf(book2, Stages, {w})
    BY <2>2, <2>3, <2>4
  <2>6. PaidOf(b, Stages, {w}) <= PaidOf(b2, Stages, {w})
    BY <1>9, <2>4, <2>5
  <2> QED
    BY <2>6 DEF w
<1> QED
  BY <1>1, <1>7, <1>8, <1>10, <1>11 DEF BetterRanks

-----------------------------------------------------------------------------
\* Two distributions, one of them better for everybody.

\* Who takes part in the distribution of a file, and with how much money.
Setting(f, joining, n, rule, l, m, money) ==
  /\ joining = Join(f.tenants, f.deadline) /\ rule = ApplicableRule(MortgageReference(f.rights))
  /\ money = Most(0, f.sale - f.cost) /\ money \in Nat
  /\ n \in Nat /\ joining \in [1..n -> Tenants] /\ DOMAIN joining = 1..n
  /\ f.region \in 1..4 /\ (n > 0 => rule \in Tables)
  /\ \A i \in 1..n : ~Mismatched(joining[i])
  /\ DOMAIN f.rights = 1..l
  /\ Apart(joining, n, f.rights, l, f.taxes, m)
  /\ OwnIds(joining, n, {f.taxes[i].id : i \in 1..m})
TaxedOf(f, joining, rule, money) ==
  PayTaxes(PaySmallDeposits(StartBook(money), joining, rule, f.region), ByDueDate(f.taxes),
           joining, ReliefApplies(f.decided))

LEMMA DistributionSetting ==
  ASSUME NEW f \in SaleFiles, IdsApart(f), f.sale # Absent, NEW baseline,
         Distribute(f, baseline) # Absent
  PROVE  \E joining, n, rule, l, m, money :
           /\ Setting(f, joining, n, rule, l, m, money)
           /\ Distribute(f, baseline) =
                Outcome(f, baseline, money, PayRanks(TaxedOf(f, joining, rule, money), joining,
                                                     f.rights, f.taxes))
<1>1. PICK n, l, m \in Nat :
           /\ f.tenants \in [1..n -> Tenants] /\ DistinctIds(f.tenants, n)
           /\ f.rights \in [1..l -> RightRows] /\ DistinctIds(f.rights, l)
           /\ f.taxes \in [1..m -> TaxRows]
           /\ \A i \in 1..n, j \in 1..l : f.tenants[i].id # f.rights[j].id
           /\ \A i \in 1..n, j \in 1..m : f.tenants[i].id # f.taxes[j].id
           /\ \A i \in 1..l, j \in 1..m : f.rights[i].id # f.taxes[j].id
  BY FileTyped
<1> DEFINE joining == Join(f.tenants, f.deadline)
           o == Len(joining)
           rule == ApplicableRule(MortgageReference(f.rights))
           money == Most(0, f.sale - f.cost)
           book == PayAll(f, joining, rule, money)
           d == Distribute(f, baseline)
           taxIds == {f.taxes[i].id : i \in 1..m}
<1>2. JoinedFrom(joining, n, f.tenants)
  BY <1>1, JoinsDistinct
<1>3. /\ o \in Nat /\ joining \in [1..o -> Tenants] /\ DistinctIds(joining, o)
      /\ DOMAIN joining = 1..o /\ joining \in Seq(Tenants)
      /\ \A i \in 1..o : \E j \in 1..n : joining[i] = f.tenants[j]
  <2> HIDE DEF joining
  <2> QED
    BY <1>2 DEF JoinedFrom
<1>4. d = DistributeAmong(f, baseline, joining, rule, money)
  BY DEF Distribute
<1>5. money \in Nat
  <2>1. f.sale \in Int /\ f.cost \in Int
    BY DEF SaleFiles
  <2> QED
    BY <2>1 DEF Most
<1>0. joining = Join(f.tenants, f.deadline) /\ rule = ApplicableRule(MortgageReference(f.rights))
      /\ money = Most(0, f.sale - f.cost)
  OBVIOUS
<1> HIDE DEF joining, rule, money, o
<1>6. /\ joining # << >> => rule # Absent
      /\ \A i \in 1..o : ~Mismatched(joining[i])
      /\ d = Outcome(f, baseline, money, book)
  BY <1>3, <1>4 DEF DistributeAmong
<1>8. o > 0 => rule \in Tables
  <2>1. o > 0 => joining # << >>
    BY <1>3
  <2> QED
    BY <1>6, <2>1, DecreesTyped DEF rule
<1>9. Apart(joining, o, f.rights, l, f.taxes, m)
  <2>1. ASSUME NEW i \in 1..o
        PROVE  /\ \A j \in 1..l : joining[i].id # f.rights[j].id
               /\ \A j \in 1..m : joining[i].id # f.taxes[j].id
    <3>1. PICK k \in 1..n : joining[i] = f.tenants[k]
      BY <1>3
    <3> QED
      BY <1>1, <3>1
  <2> QED
    BY <1>1, <1>3, <2>1 DEF Apart
<1>10. f.region \in 1..4 /\ DOMAIN f.rights = 1..l
  BY <1>1 DEF SaleFiles
<1>11. OwnIds(joining, o, taxIds)
  <2>1. taxIds \in SUBSET STRING
    BY <1>1 DEF TaxRows
  <2>2. \A i \in 1..o : joining[i].id \notin taxIds
    BY <1>9 DEF Apart
  <2> HIDE DEF taxIds
  <2> QED
    BY <1>3, <2>1, <2>2 DEF OwnIds
<1>12. book = PayRanks(TaxedOf(f, joining, rule, money), joining, f.rights, f.taxes)
  BY DEF PayAll, TaxedOf, StartBook
<1> HIDE DEF book, d
<1>13. Setting(f, joining, o, rule, l, m, money)
  BY <1>0, <1>3, <1>5, <1>6, <1>8, <1>9, <1>10, <1>11 DEF Setting
<1> QED
  BY <1>6, <1>12, <1>13 DEF d

LEMMA TaxedOfFile ==
  ASSUME NEW f, NEW joining, NEW n, NEW rule, NEW l, NEW m, NEW money,
         Setting(f, joining, n, rule, l, m, money)
  PROVE  TaxedBook(TaxedOf(f, joining, rule, money), joining, n, {f.taxes[i].id : i \in 1..m}, money)
<1> DEFINE taxIds == {f.taxes[i].id : i \in 1..m}
           small == PaySmallDeposits(StartBook(money), joining, rule, f.region)
           sorted == ByDueDate(f.taxes)
           applies == ReliefApplies(f.decided)
<1>1. /\ n \in Nat /\ joining \in [1..n -> Tenants] /\ money \in Nat /\ money \in Int
      /\ f.region \in 1..4 /\ (n > 0 => rule \in Tables)
      /\ Apart(joining, n, f.rights, l, f.taxes, m) /\ OwnIds(joining, n, taxIds)
  BY DEF Setting
<1>2. DistinctIds(joining, n) /\ m \in Nat /\ f.taxes \in [1..m -> TaxRows]
  BY <1>1 DEF Apart
<1>3. AfterSmall(small, joining, n, money)
  BY <1>1, <1>2, SmallStage
<1>4. sorted \in [1..m -> TaxRows] /\ \A i \in 1..m : sorted[i].id \in taxIds
  BY <1>2, TaxesByDueDate
<1> HIDE DEF small, taxIds, sorted, applies
<1>5. TaxedBook(small, joining, n, taxIds, money)
  BY <1>3, SmallThenTaxes
<1>6. TaxedBook(PayTaxes(small, sorted, joining, applies), joining, n, taxIds, money)
  BY <1>1, <1>2, <1>4, <1>5, TaxStage
<1> QED
  BY <1>6 DEF TaxedOf, taxIds, small, sorted, applies

\* After the taxes more is left, and every tenant has at least as much.
BetterStage(x, y, joining, n) ==
  x.left <= y.left /\ \A i \in 1..n : Got12(x, joining[i].id) <= Got12(y, joining[i].id)
StagesBetter(f, g) ==
  \A joining, n, rule, l, m, money, money2 :
    Setting(f, joining, n, rule, l, m, money) /\ Setting(g, joining, n, rule, l, m, money2) =>
      BetterStage(TaxedOf(f, joining, rule, money), TaxedOf(g, joining, rule, money2), joining, n)

\* Two files with the same rights and tenants; of the taxes, the first one knows
\* more amounts.
SameClaimants(f, g) ==
  /\ g.rights = f.rights /\ g.tenants = f.tenants /\ g.deadline = f.deadline
  /\ \E m : MoreTaxes(f.taxes, g.taxes, m)
NobodyLess(f, d, e) ==
  /\ \A i \in DOMAIN f.tenants :
       /\ PaidOf(d.book, Stages, {f.tenants[i].id}) <= PaidOf(e.book, Stages, {f.tenants[i].id})
       /\ Got(d.book, f.tenants[i].id) <= Got(e.book, f.tenants[i].id)
  /\ \A i \in DOMAIN f.rights :
       PaidOf(d.book, Stages, {f.rights[i].id}) <= PaidOf(e.book, Stages, {f.rights[i].id})

LEMMA SameLength ==
  ASSUME NEW a \in Nat, NEW b \in Nat, 1..a = 1..b
  PROVE  a = b
<1>1. a > 0 => a \in 1..b
  OBVIOUS
<1>2. b > 0 => b \in 1..a
  OBVIOUS
<1> QED
  BY <1>1, <1>2

LEMMA SettingsAgree ==
  ASSUME NEW f, NEW g, SameClaimants(f, g),
         NEW joining, NEW n, NEW rule, NEW l, NEW m, NEW money,
         Setting(f, joining, n, rule, l, m, money),
         NEW joining2, NEW n2, NEW rule2, NEW l2, NEW m2, NEW money2,
         Setting(g, joining2, n2, rule2, l2, m2, money2)
  PROVE  /\ joining2 = joining /\ n2 = n /\ rule2 = rule /\ l2 = l /\ m2 = m
         /\ MoreTaxes(f.taxes, g.taxes, m)
<1>1. PICK k : MoreTaxes(f.taxes, g.taxes, k)
  BY DEF SameClaimants
<1>2. k \in Nat /\ DOMAIN f.taxes = 1..k /\ DOMAIN g.taxes = 1..k
  BY <1>1 DEF MoreTaxes
<1>3. /\ n \in Nat /\ l \in Nat /\ m \in Nat /\ DOMAIN joining = 1..n /\ DOMAIN f.rights = 1..l
      /\ DOMAIN f.taxes = 1..m
  BY DEF Setting, Apart
<1>4. /\ n2 \in Nat /\ l2 \in Nat /\ m2 \in Nat /\ DOMAIN joining2 = 1..n2 /\ DOMAIN g.rights = 1..l2
      /\ DOMAIN g.taxes = 1..m2
  BY DEF Setting, Apart
<1>5. joining2 = joining /\ rule2 = rule /\ g.rights = f.rights
  BY DEF Setting, SameClaimants
<1>6. k = m /\ k = m2
  BY <1>2, <1>3, <1>4, SameLength
<1>7. n = n2 /\ l = l2
  BY <1>3, <1>4, <1>5, SameLength
<1> QED
  BY <1>1, <1>5, <1>6, <1>7

LEMMA GotIsPaid ==
  ASSUME NEW book \in Books(STRING), NEW who
  PROVE  Got(book, who) = PaidOf(book, {"small", "relief", "rank"}, {who})
BY ReceivedIsPaid DEF Got

LEMMA NothingGot ==
  ASSUME NEW money, NEW book, Balanced(book, money), NEW w, PaidOf(book, Stages, {w}) = 0
  PROVE  PaidOf(book, {"small", "relief", "rank"}, {w}) = 0
<1> DEFINE three == {"small", "relief", "rank"}
           T == {w}
<1>1. three \union {"tax"} = Stages /\ three \intersect {"tax"} = {}
  BY DEF Stages
<1>2. book \in Books(STRING)
  BY DEF Balanced
<1> HIDE DEF three, T
<1>3. PaidOf(book, Stages, T) = PaidOf(book, three, T) + PaidOf(book, {"tax"}, T)
  BY <1>1, <1>2, PaidApart
<1>4. /\ PaidOf(book, three, T) \in Int /\ PaidOf(book, {"tax"}, T) \in Int
      /\ 0 <= PaidOf(book, three, T) /\ 0 <= PaidOf(book, {"tax"}, T)
  BY <1>2, PaidTyped DEF Balanced
<1>5. PaidOf(book, Stages, T) = 0
  BY DEF T
<1> QED
  BY <1>3, <1>4, <1>5 DEF three, T

LEMMA DistributionsBetter ==
  ASSUME NEW f \in SaleFiles, IdsApart(f), f.sale # Absent,
         NEW g \in SaleFiles, IdsApart(g), g.sale # Absent,
         SameClaimants(f, g), StagesBetter(f, g), NEW baseline,
         Distribute(f, baseline) # Absent, Distribute(g, baseline) # Absent
  PROVE  NobodyLess(f, Distribute(f, baseline), Distribute(g, baseline))
<1> DEFINE d == Distribute(f, baseline)
           e == Distribute(g, baseline)
<1>1. PICK joining, n, rule, l, m, money :
           /\ Setting(f, joining, n, rule, l, m, money)
           /\ d = Outcome(f, baseline, money,
                          PayRanks(TaxedOf(f, joining, rule, money), joining, f.rights, f.taxes))
  BY DistributionSetting
<1>2. PICK joining2, n2, rule2, l2, m2, money2 :
           /\ Setting(g, joining2, n2, rule2, l2, m2, money2)
           /\ e = Outcome(g, baseline, money2,
                          PayRanks(TaxedOf(g, joining2, rule2, money2), joining2, g.rights, g.taxes))
  BY DistributionSetting
<1>3. /\ joining2 = joining /\ n2 = n /\ rule2 = rule /\ l2 = l /\ m2 = m
      /\ MoreTaxes(f.taxes, g.taxes, m)
  BY <1>1, <1>2, SettingsAgree
<1>4. Setting(g, joining, n, rule, l, m, money2)
  BY <1>2, <1>3
<1> DEFINE x == TaxedOf(f, joining, rule, money)
           y == TaxedOf(g, joining, rule, money2)
           b == PayRanks(x, joining, f.rights, f.taxes)
           b2 == PayRanks(y, joining, f.rights, g.taxes)
           taxIds == {f.taxes[i].id : i \in 1..m}
<1>5. d.book = b /\ e.book = b2
  <2>1. g.rights = f.rights
    BY DEF SameClaimants
  <2>2. e = Outcome(g, baseline, money2, b2)
    BY <1>2, <1>3, <2>1
  <2> QED
    BY <1>1, <2>2 DEF Outcome
<1>6. BetterStage(x, y, joining, n)
  BY <1>1, <1>4 DEF StagesBetter
<1>7. taxIds = {g.taxes[i].id : i \in 1..m}
  <2>1. \A i \in 1..m : g.taxes[i].id = f.taxes[i].id
    BY <1>3 DEF MoreTaxes, Learned
  <2> QED
    BY <2>1
<1>8. TaxedBook(x, joining, n, taxIds, money)
  BY <1>1, TaxedOfFile
<1>9. TaxedBook(y, joining, n, taxIds, money2)
  <2>1. TaxedBook(y, joining, n, {g.taxes[i].id : i \in 1..m}, money2)
    BY <1>4, TaxedOfFile
  <2> QED
    BY <1>7, <2>1
<1>10. /\ Apart(joining, n, f.rights, l, f.taxes, m) /\ OwnIds(joining, n, taxIds)
       /\ \A i \in 1..n : ~Mismatched(joining[i])
       /\ n \in Nat /\ joining \in [1..n -> Tenants] /\ DOMAIN f.rights = 1..l
       /\ money \in Int /\ money2 \in Int
  <2> HIDE DEF taxIds
  <2> QED
    BY <1>1, <1>4 DEF Setting, taxIds
<1> HIDE DEF x, y
<1>11. Paying(x, y, joining, n, taxIds, money, money2)
  <2> HIDE DEF taxIds
  <2> QED
    BY <1>6, <1>8, <1>9, <1>10 DEF Paying, BetterStage
<1>12. TwoRuns(x, y, joining, n, f.rights, l, f.taxes, g.taxes, m, money, money2)
  BY <1>3, <1>10, <1>11 DEF TwoRuns
<1>13. BetterRanks(b, b2, joining, n, f.rights, l)
  BY <1>12, RanksBetter
<1> HIDE DEF b, b2, d, e
<1>14. Conserved(f, d) /\ Conserved(g, e)
  BY DistributionConserves DEF d, e
<1>15. b \in Books(STRING) /\ b2 \in Books(STRING)
  BY <1>13 DEF BetterRanks
<1>16. ASSUME NEW i \in DOMAIN f.rights
       PROVE  PaidOf(b, Stages, {f.rights[i].id}) <= PaidOf(b2, Stages, {f.rights[i].id})
  BY <1>10, <1>13 DEF BetterRanks
<1>18. ASSUME NEW i \in DOMAIN f.tenants
       PROVE  /\ \A j \in 1..l : f.tenants[i].id # f.rights[j].id
              /\ \A j \in 1..m : f.tenants[i].id # f.taxes[j].id /\ f.tenants[i].id # g.taxes[j].id
              /\ f.tenants[i].id \in STRING
  <2>1. DOMAIN f.rights = 1..l /\ DOMAIN f.taxes = 1..m
    BY <1>3, <1>10 DEF MoreTaxes
  <2>2. \A j \in 1..m : g.taxes[j].id = f.taxes[j].id
    BY <1>3 DEF MoreTaxes, Learned
  <2>3. PICK k \in Nat : f.tenants \in [1..k -> Tenants]
    BY FileTyped
  <2>4. f.tenants[i].id \in STRING
    BY <2>3 DEF Tenants
  <2>5. f.tenants[i].id \in IdsOf(f.tenants)
    BY DEF IdsOf
  <2>6. (\A j \in 1..l : f.rights[j].id \in IdsOf(f.rights))
        /\ \A j \in 1..m : f.taxes[j].id \in IdsOf(f.taxes)
    BY <2>1 DEF IdsOf
  <2> QED
    BY <2>2, <2>4, <2>5, <2>6 DEF IdsApart
<1>19. /\ SettledBook(b, joining, n, f.rights, l, f.taxes, m, money)
       /\ SettledBook(b2, joining, n, f.rights, l, g.taxes, m, money2)
  <2>1. SettledBook(b, joining, n, f.rights, l, f.taxes, m, money)
    <3> HIDE DEF taxIds
    <3>1. taxIds = {f.taxes[i].id : i \in 1..m}
      BY DEF taxIds
    <3> QED
      BY <1>8, <1>10, <3>1, RanksSettle DEF b
  <2>2. Apart(joining, n, f.rights, l, g.taxes, m)
    BY <1>4 DEF Setting, SameClaimants
  <2>3. SettledBook(b2, joining, n, f.rights, l, g.taxes, m, money2)
    <3> HIDE DEF taxIds
    <3> QED
      BY <1>7, <1>9, <1>10, <2>2, RanksSettle DEF b2
  <2> QED
    BY <2>1, <2>3
<1>17. ASSUME NEW i \in DOMAIN f.tenants
       PROVE  /\ PaidOf(b, Stages, {f.tenants[i].id}) <= PaidOf(b2, Stages, {f.tenants[i].id})
              /\ Got(b, f.tenants[i].id) <= Got(b2, f.tenants[i].id)
  <2> DEFINE w == f.tenants[i].id
             three == {"small", "relief", "rank"}
  <2>1. Got(b, w) = PaidOf(b, three, {w}) /\ Got(b2, w) = PaidOf(b2, three, {w})
    BY <1>15, GotIsPaid
  <2>2. CASE \E j \in 1..n : joining[j].id = w
    <3>1. PICK j \in 1..n : joining[j].id = w
      BY <2>2
    <3>2. /\ PaidOf(b, Stages, {joining[j].id}) <= PaidOf(b2, Stages, {joining[j].id})
          /\ PaidOf(b, three, {joining[j].id}) <= PaidOf(b2, three, {joining[j].id})
      BY <1>13 DEF BetterRanks
    <3> HIDE DEF w, three
    <3>3. PaidOf(b, Stages, {w}) <= PaidOf(b2, Stages, {w}) /\ Got(b, w) <= Got(b2, w)
      BY <2>1, <3>1, <3>2
    <3> QED
      BY <3>3 DEF w
  <2>3. CASE \A j \in 1..n : joining[j].id # w
    <3>1. /\ \A j \in 1..l : w # f.rights[j].id
          /\ \A j \in 1..m : w # f.taxes[j].id /\ w # g.taxes[j].id
          /\ w \in STRING
      BY <1>18
    <3>2. PaidOf(b, Stages, {w}) = 0 /\ PaidOf(b2, Stages, {w}) = 0
      BY <1>19, <2>3, <3>1 DEF SettledBook
    <3> HIDE DEF w
    <3>3. Got(b, w) = 0 /\ Got(b2, w) = 0
      BY <1>19, <2>1, <3>2, NothingGot DEF SettledBook
    <3> QED
      BY <3>2, <3>3 DEF w
  <2> QED
    BY <2>2, <2>3
<1> QED
  BY <1>5, <1>16, <1>17 DEF NobodyLess, d, e

\* So the buyer assumes no more.
BetterReport(f, a, c) ==
  /\ \A i \in DOMAIN f.tenants :
       /\ c.tenants[i].assumed <= a.tenants[i].assumed
       /\ PaidTo(a, f.tenants[i].id) <= PaidTo(c, f.tenants[i].id)
  /\ \A i \in DOMAIN f.rights : PaidTo(a, f.rights[i].id) <= PaidTo(c, f.rights[i].id)

LEMMA ReportsBetter ==
  ASSUME NEW f \in SaleFiles, IdsApart(f), f.sale # Absent,
         NEW g \in SaleFiles, IdsApart(g), g.sale # Absent,
         SameClaimants(f, g), StagesBetter(f, g),
         NEW a, a = Analyze(f), ~a.failed, NEW c, c = Analyze(g), ~c.failed
  PROVE  BetterReport(f, a, c)
<1> DEFINE b == BaselineDate(f.rights)
           d == Distribute(f, b)
           e == Distribute(g, b)
<1>0. g.rights = f.rights /\ g.tenants = f.tenants /\ g.deadline = f.deadline
  BY DEF SameClaimants
<1>1. /\ d # Absent /\ a.distribution = d
      /\ a.tenants = [j \in DOMAIN f.tenants |-> ClassifyTenant(f, j, b, d)]
  BY DEF Analyze, ReportOf, ReportOfTenants, Report, Failed
<1>2. /\ e # Absent /\ c.distribution = e
      /\ c.tenants = [j \in DOMAIN f.tenants |-> ClassifyTenant(g, j, b, e)]
  BY <1>0 DEF Analyze, ReportOf, ReportOfTenants, Report, Failed
<1>3. NobodyLess(f, d, e)
  <2> HIDE DEF b
  <2> QED
    BY <1>1, <1>2, DistributionsBetter
<1>4. Conserved(f, d) /\ Conserved(g, e)
  <2> HIDE DEF b
  <2> QED
    BY <1>1, <1>2, DistributionConserves
<1>5. \A w : PaidTo(a, w) = PaidOf(d.book, Stages, {w}) /\ PaidTo(c, w) = PaidOf(e.book, Stages, {w})
  <2>1. d.book \in Books(STRING) /\ e.book \in Books(STRING)
    BY <1>4 DEF Conserved
  <2> HIDE DEF d, e
  <2>2. \A w : Received(d.book, Stages, w) = PaidOf(d.book, Stages, {w})
    BY <2>1, ReceivedIsPaid
  <2>3. \A w : Received(e.book, Stages, w) = PaidOf(e.book, Stages, {w})
    BY <2>1, ReceivedIsPaid
  <2>4. \A w : PaidTo(a, w) = Received(d.book, Stages, w) /\ PaidTo(c, w) = Received(e.book, Stages, w)
    BY <1>1, <1>2 DEF PaidTo, Stages
  <2> QED
    BY <2>2, <2>3, <2>4
<1>6. ASSUME NEW i \in DOMAIN f.tenants
      PROVE  c.tenants[i].assumed <= a.tenants[i].assumed
  <2> DEFINE t == f.tenants[i]
             got == Got(d.book, t.id)
             got2 == Got(e.book, t.id)
  <2>1. /\ d.assumed[i] = IF HasPriority(t, b) THEN Most(0, t.deposit - got) ELSE 0
        /\ e.assumed[i] = IF HasPriority(t, b) THEN Most(0, t.deposit - got2) ELSE 0
    BY <1>0, <1>1, <1>2 DEF Distribute, DistributeAmong, Outcome
  <2>2. t.deposit \in Int
    BY ReportedTenants
  <2>3. got <= got2
    <3> HIDE DEF d, e
    <3> QED
      BY <1>3 DEF NobodyLess
  <2>4. got \in Int /\ got2 \in Int
    <3>1. d.book \in Books(STRING) /\ e.book \in Books(STRING)
      BY <1>4 DEF Conserved
    <3> DEFINE three == {"small", "relief", "rank"}
               w == t.id
    <3> HIDE DEF d, e, t, three, w
    <3>2. PaidOf(d.book, three, {w}) \in Int /\ PaidOf(e.book, three, {w}) \in Int
      BY <3>1, PaidTyped
    <3>3. Got(d.book, w) = PaidOf(d.book, three, {w}) /\ Got(e.book, w) = PaidOf(e.book, three, {w})
      BY <3>1, GotIsPaid DEF three
    <3> QED
      BY <3>2, <3>3 DEF w
  <2>5. a.tenants[i] = ClassifyTenant(f, i, b, d) /\ c.tenants[i] = ClassifyTenant(g, i, b, e)
    BY <1>1, <1>2
  <2> HIDE DEF d, e, b, got, got2
  <2>6. e.assumed[i] <= d.assumed[i]
    BY <2>1, <2>2, <2>3, <2>4 DEF Most
  <2> QED
    BY <1>0, <1>1, <1>2, <2>2, <2>5, <2>6 DEF ClassifyTenant
<1>7. ASSUME NEW i \in DOMAIN f.tenants
      PROVE  PaidTo(a, f.tenants[i].id) <= PaidTo(c, f.tenants[i].id)
  <2> HIDE DEF d, e
  <2> QED
    BY <1>3, <1>5 DEF NobodyLess
<1>8. ASSUME NEW i \in DOMAIN f.rights
      PROVE  PaidTo(a, f.rights[i].id) <= PaidTo(c, f.rights[i].id)
  <2> HIDE DEF d, e
  <2> QED
    BY <1>3, <1>5 DEF NobodyLess
<1> QED
  BY <1>6, <1>7, <1>8 DEF BetterReport

\* And no more in total.
LEMMA TotalsBetter ==
  ASSUME NEW f \in SaleFiles, IdsApart(f), f.sale # Absent,
         NEW g \in SaleFiles, IdsApart(g), g.sale # Absent, g.tenants = f.tenants,
         NEW a, a = Analyze(f), ~a.failed, NEW c, c = Analyze(g), ~c.failed,
         BetterReport(f, a, c)
  PROVE  c.assumed <= a.assumed
<1>1. PICK n \in Nat : f.tenants \in [1..n -> Tenants]
  BY FileTyped
<1> DEFINE x == [i \in 1..n |-> a.tenants[i].assumed]
           y == [i \in 1..n |-> c.tenants[i].assumed]
<1>2. /\ a.assumed = SumAll([i \in DOMAIN a.tenants |-> a.tenants[i].assumed])
      /\ DOMAIN a.tenants = DOMAIN f.tenants
  BY DEF Analyze, ReportOf, ReportOfTenants, Report, Failed, SumOf
<1>3. /\ c.assumed = SumAll([i \in DOMAIN c.tenants |-> c.tenants[i].assumed])
      /\ DOMAIN c.tenants = DOMAIN f.tenants
  BY DEF Analyze, ReportOf, ReportOfTenants, Report, Failed, SumOf
<1>4. DOMAIN f.tenants = 1..n
  BY <1>1
<1>5. a.assumed = SumAll(x) /\ c.assumed = SumAll(y)
  BY <1>2, <1>3, <1>4
<1>6. ASSUME NEW i \in 1..n
      PROVE  a.tenants[i].assumed \in Int /\ c.tenants[i].assumed \in Int
  <2>1. a.tenants[i].assumed \in 0..f.tenants[i].deposit /\ f.tenants[i].deposit \in Nat
    BY <1>4, ReportedTenants
  <2>2. c.tenants[i].assumed \in 0..f.tenants[i].deposit
    BY <1>4, ReportedTenants
  <2> QED
    BY <2>1, <2>2
<1>7. x \in [1..n -> Int] /\ y \in [1..n -> Int] /\ \A i \in 1..n : y[i] <= x[i]
  BY <1>4, <1>6 DEF BetterReport
<1> HIDE DEF x, y
<1>8. SumAll(x) = SumIn(x, n, 1..n) /\ SumAll(y) = SumIn(y, n, 1..n)
  BY <1>7, SumAllIs
<1>9. SumIn(y, n, 1..n) <= SumIn(x, n, 1..n)
  <2>1. n <= n
    OBVIOUS
  <2> QED
    BY <1>7, <2>1, SumAtMost
<1> QED
  BY <1>5, <1>8, <1>9

-----------------------------------------------------------------------------
\* A tax whose amount becomes known.

DueOf(tax) == IF tax.property /\ tax.amount # Absent THEN tax.amount ELSE 0

\* Without relief a tax is paid from what is left, and no tenant notices.
TaxedAlone(p, b, due, joining, n, taxIds, money) ==
  /\ TaxedBook(p, joining, n, taxIds, money)
  /\ p.left = b.left - Least(b.left, due)
  /\ \A w : Got12(p, w) = Got12(b, w)

LEMMA TaxAlone ==
  ASSUME NEW n, NEW joining, NEW taxIds, OwnIds(joining, n, taxIds), NEW money \in Int,
         NEW b, TaxedBook(b, joining, n, taxIds, money), NEW tax \in TaxRows, tax.id \in taxIds
  PROVE  TaxedAlone(PayTax(b, tax, joining, FALSE), b, DueOf(tax), joining, n, taxIds, money)
<1> DEFINE rest == Least(b.left, DueOf(tax))
           paid == PayTax(b, tax, joining, FALSE)
           to == tax.id
           more == Pay(b, "tax", to, rest)
<1>1. TaxedBook(paid, joining, n, taxIds, money)
  BY PayTaxKeeps
<1>2. Balanced(b, money) /\ b.left \in Int /\ b.left >= 0 /\ b \in Books(STRING)
  BY DEF TaxedBook, Balanced, Books
<1>3. DueOf(tax) \in Nat
  BY DEF DueOf, TaxRows, OptionalAmount
<1>4. rest \in Nat
  BY <1>2, <1>3 DEF Least
<1>5. paid = IF rest > 0 THEN more ELSE b
  <2>1. CASE tax.property /\ tax.amount # Absent
    <3>1. DueOf(tax) = tax.amount
      BY <2>1 DEF DueOf
    <3> QED
      BY <2>1, <3>1 DEF PayTax, PayPropertyTax, PayTaxItself
  <2>2. CASE ~(tax.property /\ tax.amount # Absent)
    <3>0. DueOf(tax) = 0
      BY <2>2 DEF DueOf
    <3>1. rest = 0
      BY <1>2, <3>0 DEF Least
    <3>2. paid = b
      BY <2>2 DEF PayTax
    <3>3. ~(rest > 0)
      BY <3>1
    <3> QED
      BY <3>2, <3>3
  <2> QED
    BY <2>1, <2>2
<1>6. /\ Balanced(more, money)
      /\ more.left = b.left - rest
      /\ \A S, T : PaidOf(more, S, T) = PaidOf(b, S, T) + (IF "tax" \in S /\ to \in T THEN rest ELSE 0)
  <2>1. "tax" \in Stages /\ to \in STRING /\ Balanced(b, money)
    BY <1>2 DEF Stages, TaxRows
  <2> HIDE DEF rest, to
  <2> QED
    BY <1>4, <2>1, PayBalances
<1> HIDE DEF rest, more, paid, to
<1>7. paid.left = b.left - rest
  BY <1>2, <1>4, <1>5, <1>6
<1>8. ASSUME NEW w PROVE Got12(paid, w) = Got12(b, w)
  <2> DEFINE two == {"small", "relief"}
             T == {w}
  <2>1. "tax" \notin two
    OBVIOUS
  <2> HIDE DEF two, T
  <2>2. PaidOf(b, two, T) \in Int
    BY <1>2, PaidTyped
  <2>3. PaidOf(more, two, T) = PaidOf(b, two, T)
    BY <1>6, <2>1, <2>2
  <2>4. PaidOf(paid, two, T) = PaidOf(b, two, T)
    BY <1>5, <2>3
  <2> QED
    BY <2>4 DEF Got12, two, T
<1> QED
  BY <1>1, <1>7, <1>8 DEF TaxedAlone, paid, rest

LEMMA RestSmaller ==
  ASSUME NEW a \in Nat, NEW b \in Nat, a <= b, NEW x \in Nat, NEW y \in Nat, y <= x
  PROVE  a - Least(a, x) <= b - Least(b, y)
BY DEF Least

\* With more amounts known, every tax leaves less.
LessLeft(v, v2, joining, n, taxIds, money) ==
  /\ TaxedBook(v, joining, n, taxIds, money) /\ TaxedBook(v2, joining, n, taxIds, money)
  /\ v.left <= v2.left /\ \A w : Got12(v, w) = Got12(v2, w)

LEMMA LearnedLess ==
  ASSUME NEW n, NEW joining, NEW taxIds, OwnIds(joining, n, taxIds), NEW money \in Int,
         NEW v, NEW v2, LessLeft(v, v2, joining, n, taxIds, money),
         NEW tax \in TaxRows, tax.id \in taxIds, NEW tax2 \in TaxRows, Learned(tax, tax2)
  PROVE  LessLeft(PayTax(v, tax, joining, FALSE), PayTax(v2, tax2, joining, FALSE),
                  joining, n, taxIds, money)
<1> DEFINE p == PayTax(v, tax, joining, FALSE)
           p2 == PayTax(v2, tax2, joining, FALSE)
<1>0. TaxedBook(v, joining, n, taxIds, money) /\ TaxedBook(v2, joining, n, taxIds, money)
  BY DEF LessLeft
<1>1. v.left <= v2.left /\ \A w : Got12(v, w) = Got12(v2, w)
  BY DEF LessLeft
<1>2. TaxedAlone(p, v, DueOf(tax), joining, n, taxIds, money)
  BY <1>0, TaxAlone
<1>3. TaxedAlone(p2, v2, DueOf(tax2), joining, n, taxIds, money)
  <2>1. tax2.id \in taxIds
    BY DEF Learned
  <2> QED
    BY <1>0, <2>1, TaxAlone
<1>4. v.left \in Nat /\ v2.left \in Nat
  BY <1>0 DEF TaxedBook, Balanced, Books
<1>5. DueOf(tax) \in Nat /\ DueOf(tax2) \in Nat /\ DueOf(tax2) <= DueOf(tax)
  BY DEF DueOf, Learned, TaxRows, OptionalAmount
<1> HIDE DEF p, p2
<1>6. p.left <= p2.left
  <2>1. v.left - Least(v.left, DueOf(tax)) <= v2.left - Least(v2.left, DueOf(tax2))
    BY <1>1, <1>4, <1>5, RestSmaller
  <2> QED
    BY <1>2, <1>3, <2>1 DEF TaxedAlone
<1>7. \A w : Got12(p, w) = Got12(p2, w)
  BY <1>1, <1>2, <1>3 DEF TaxedAlone
<1>8. LessLeft(p, p2, joining, n, taxIds, money)
  BY <1>2, <1>3, <1>6, <1>7 DEF LessLeft, TaxedAlone
<1> QED
  BY <1>8 DEF p, p2

LEMMA LearnedInTurn ==
  ASSUME NEW n, NEW joining, NEW taxIds, OwnIds(joining, n, taxIds), NEW money \in Int,
         NEW v, TaxedBook(v, joining, n, taxIds, money),
         NEW m, NEW taxes, NEW taxes2, MoreTaxes(taxes, taxes2, m), \A i \in 1..m : taxes[i].id \in taxIds
  PROVE  LessLeft(PayTaxes(v, taxes, joining, FALSE), PayTaxes(v, taxes2, joining, FALSE),
                  joining, n, taxIds, money)
<1> DEFINE V == {b \in Books(STRING) : TaxedBook(b, joining, n, taxIds, money)}
<1>1. /\ m \in Nat /\ taxes \in [1..m -> TaxRows] /\ taxes2 \in [1..m -> TaxRows]
      /\ \A i \in 1..m : Learned(taxes[i], taxes2[i])
  BY DEF MoreTaxes
<1>2. \A i \in 1..m : taxes2[i].id \in taxIds
  BY <1>1 DEF Learned
<1>3. ASSUME NEW b \in V, NEW tax \in TaxRows, tax.id \in taxIds
      PROVE  PayTax(b, tax, joining, FALSE) \in V
  <2>1. TaxedBook(PayTax(b, tax, joining, FALSE), joining, n, taxIds, money)
    BY <1>3, PayTaxKeeps
  <2> QED
    BY <2>1 DEF TaxedBook, Balanced
<1>4. v \in V
  BY DEF TaxedBook, Balanced
<1> HIDE DEF V
<1>5. TaxesFit(V, v, taxes, m, joining, FALSE) /\ TaxesFit(V, v, taxes2, m, joining, FALSE)
  <2>1. \A b \in V, i \in 1..m : PayTax(b, taxes[i], joining, FALSE) \in V
    BY <1>1, <1>3
  <2>2. \A b \in V, i \in 1..m : PayTax(b, taxes2[i], joining, FALSE) \in V
    BY <1>1, <1>2, <1>3
  <2> QED
    BY <1>1, <1>4, <2>1, <2>2 DEF TaxesFit
<1>6. PICK g : TaxesRun(g, V, v, taxes, m, joining, FALSE)
  BY <1>5, TaxesInTurn
<1>7. PICK h : TaxesRun(h, V, v, taxes2, m, joining, FALSE)
  BY <1>5, TaxesInTurn
<1> DEFINE S == {k \in 0..m : LessLeft(g[k], h[k], joining, n, taxIds, money)}
<1>8. 0 \in S
  <2>1. g[0] = v /\ h[0] = v
    BY <1>6, <1>7 DEF TaxesRun
  <2>2. v.left \in Int
    BY DEF TaxedBook, Balanced, Books
  <2>3. LessLeft(v, v, joining, n, taxIds, money)
    BY <2>2 DEF LessLeft
  <2> QED
    BY <1>1, <2>1, <2>3
<1>9. ASSUME NEW k \in 0..(m - 1), k \in S PROVE k + 1 \in S
  <2>1. k + 1 \in 0..m /\ k + 1 \in 1..m
    BY <1>1
  <2>2. LessLeft(g[k], h[k], joining, n, taxIds, money)
    BY <1>9
  <2>3. g[k + 1] = PayTax(g[k], taxes[k + 1], joining, FALSE)
        /\ h[k + 1] = PayTax(h[k], taxes2[k + 1], joining, FALSE)
    BY <1>6, <1>7 DEF TaxesRun
  <2>4. taxes[k + 1] \in TaxRows /\ taxes2[k + 1] \in TaxRows /\ taxes[k + 1].id \in taxIds
        /\ Learned(taxes[k + 1], taxes2[k + 1])
    BY <1>1, <2>1
  <2> HIDE DEF S
  <2>5. LessLeft(g[k + 1], h[k + 1], joining, n, taxIds, money)
    BY <2>2, <2>3, <2>4, LearnedLess
  <2> QED
    BY <2>1, <2>5 DEF S
<1>10. m \in S
  <2>1. m \in 0..m
    BY <1>1
  <2> HIDE DEF S
  <2> QED
    BY <1>1, <1>8, <1>9, <2>1, Stepwise
<1> QED
  BY <1>6, <1>7, <1>10 DEF TaxesRun

-----------------------------------------------------------------------------
\* The taxes keep their order.
LEMMA LearnedByDueDate ==
  ASSUME NEW taxes, NEW taxes2, NEW m, MoreTaxes(taxes, taxes2, m)
  PROVE  MoreTaxes(ByDueDate(taxes), ByDueDate(taxes2), m)
<1> DEFINE dates == [i \in 1..m |-> taxes[i].statutory]
           dates2 == [i \in 1..m |-> taxes2[i].statutory]
           p == [k \in 1..m |-> Ranked(dates, k)]
<1>1. /\ m \in Nat /\ taxes \in [1..m -> TaxRows] /\ taxes2 \in [1..m -> TaxRows]
      /\ \A i \in 1..m : Learned(taxes[i], taxes2[i])
  BY DEF MoreTaxes
<1>2. dates2 = dates
  BY <1>1 DEF Learned
<1>3. ByDueDate(taxes) = [k \in 1..m |-> taxes[Ranked(dates, k)]]
  BY <1>1 DEF ByDueDate, SortedBy
<1>4. ByDueDate(taxes2) = [k \in 1..m |-> taxes2[Ranked(dates2, k)]]
  BY <1>1 DEF ByDueDate, SortedBy
<1>5. dates \in [1..m -> Dates]
  BY <1>1 DEF TaxRows, Dates
<1> HIDE DEF dates, dates2
<1>6. Permutes(p, m)
  BY <1>1, <1>5, SortingPermutes
<1>7. \A k \in 1..m : Ranked(dates, k) \in 1..m
  BY <1>6 DEF Permutes
<1>8. \A k \in 1..m : /\ ByDueDate(taxes)[k] = taxes[Ranked(dates, k)]
                      /\ ByDueDate(taxes2)[k] = taxes2[Ranked(dates, k)]
  BY <1>2, <1>3, <1>4
<1>9. \A k \in 1..m : Learned(ByDueDate(taxes)[k], ByDueDate(taxes2)[k])
  BY <1>1, <1>7, <1>8
<1>10. ByDueDate(taxes) \in [1..m -> TaxRows] /\ ByDueDate(taxes2) \in [1..m -> TaxRows]
  BY <1>1, TaxesByDueDate
<1> QED
  BY <1>1, <1>9, <1>10 DEF MoreTaxes

\* Two files that differ in the amounts of the taxes only.
SameButTaxes(f, g) ==
  /\ SameClaimants(f, g) /\ g.region = f.region /\ g.decided = f.decided
  /\ g.sale = f.sale /\ g.cost = f.cost

NoRelief(f) == ReliefApplies(f.decided) = FALSE
LEMMA NoReliefBefore ==
  ASSUME NEW f \in SaleFiles, DecidedBefore(f, 20230401)
  PROVE  NoRelief(f)
<1>1. f.decided \in Int
  BY SMT DEF SaleFiles, Dates, DecidedBefore
<1> QED
  BY <1>1, SMT DEF DecidedBefore, ReliefApplies, NoRelief

\* Where no tenant has a relief, an amount more leaves less to everybody.
LEMMA LearnedStages ==
  ASSUME NEW f, NEW g, SameButTaxes(f, g), NoRelief(f)
  PROVE  StagesBetter(f, g)
<1> SUFFICES ASSUME NEW joining, NEW n, NEW rule, NEW l, NEW m, NEW money, NEW money2,
                    Setting(f, joining, n, rule, l, m, money),
                    Setting(g, joining, n, rule, l, m, money2)
             PROVE  BetterStage(TaxedOf(f, joining, rule, money), TaxedOf(g, joining, rule, money2),
                                joining, n)
  BY DEF StagesBetter
<1> DEFINE small == PaySmallDeposits(StartBook(money), joining, rule, f.region)
           taxIds == {f.taxes[i].id : i \in 1..m}
           sorted == ByDueDate(f.taxes)
           sorted2 == ByDueDate(g.taxes)
<1>1. /\ n \in Nat /\ joining \in [1..n -> Tenants] /\ money \in Nat /\ money \in Int
      /\ f.region \in 1..4 /\ (n > 0 => rule \in Tables)
      /\ Apart(joining, n, f.rights, l, f.taxes, m) /\ OwnIds(joining, n, taxIds)
      /\ money = Most(0, f.sale - f.cost)
  BY DEF Setting
<1>2. DistinctIds(joining, n) /\ m \in Nat /\ f.taxes \in [1..m -> TaxRows]
  BY <1>1 DEF Apart
<1>3. money2 = money
  BY <1>1 DEF Setting, SameButTaxes
<1>4. MoreTaxes(f.taxes, g.taxes, m)
  BY SettingsAgree DEF SameButTaxes
<1>5. MoreTaxes(sorted, sorted2, m)
  BY <1>4, LearnedByDueDate
<1>6. \A i \in 1..m : sorted[i].id \in taxIds
  BY <1>2, TaxesByDueDate
<1>7. AfterSmall(small, joining, n, money)
  BY <1>1, <1>2, SmallStage
<1>8. /\ TaxedOf(f, joining, rule, money) = PayTaxes(small, sorted, joining, FALSE)
      /\ TaxedOf(g, joining, rule, money2) = PayTaxes(small, sorted2, joining, FALSE)
  BY <1>3 DEF TaxedOf, SameButTaxes, NoRelief
<1> DEFINE x == PayTaxes(small, sorted, joining, FALSE)
           y == PayTaxes(small, sorted2, joining, FALSE)
<1> HIDE DEF small, taxIds, sorted, sorted2
<1>9. TaxedBook(small, joining, n, taxIds, money)
  BY <1>7, SmallThenTaxes
<1>10. LessLeft(x, y, joining, n, taxIds, money)
  BY <1>1, <1>5, <1>6, <1>9, LearnedInTurn
<1> HIDE DEF x, y
<1>11. TaxedBook(x, joining, n, taxIds, money) /\ x.left <= y.left /\ \A w : Got12(x, w) = Got12(y, w)
  BY <1>10 DEF LessLeft
<1>12. \A i \in 1..n : Got12(x, joining[i].id) \in Nat
  BY <1>1, <1>11, TenantGot
<1>13. BetterStage(x, y, joining, n)
  BY <1>11, <1>12 DEF BetterStage
<1> QED
  BY <1>8, <1>13 DEF x, y

\* One amount becomes known.
LEMMA TaxLearned ==
  ASSUME AnalysisInv, LearnTax
  PROVE  SameButTaxes(file', file)
<1>1. PICK k \in DOMAIN file.taxes, amount \in TaxAmounts :
        /\ file.taxes[k].amount = Absent
        /\ file' = [[file EXCEPT !.taxes[k].amount = amount] EXCEPT !.changes = @ + 1]
  BY DEF LearnTax, Change
<1>2. PICK m \in Nat : file.taxes \in [1..m -> TaxRows]
  BY FileTyped DEF AnalysisInv
<1> DEFINE row == [file.taxes[k] EXCEPT !.amount = amount]
           new == [file.taxes EXCEPT ![k] = row]
<1>3. file' = [[file EXCEPT !.taxes = new] EXCEPT !.changes = @ + 1]
  BY <1>1
<1>4. DOMAIN file = {"rights", "tenants", "taxes", "region", "deadline", "decided", "sale", "cost",
                     "kind", "changes"}
  BY DEF AnalysisInv, SaleFiles
<1>5. row \in TaxRows /\ Learned(row, file.taxes[k])
  <2>1. amount \in OptionalAmount
    BY ChangesAssumption DEF OptionalAmount
  <2>2. file.taxes[k] \in TaxRows
    BY <1>1, <1>2
  <2> DEFINE old == file.taxes[k]
  <2>0. old \in TaxRows
    BY <2>2
  <2> HIDE DEF old
  <2>3. [old EXCEPT !.amount = amount] \in TaxRows
    BY <2>0, <2>1 DEF TaxRows
  <2>4. /\ [old EXCEPT !.amount = amount].id = old.id
        /\ [old EXCEPT !.amount = amount].property = old.property
        /\ [old EXCEPT !.amount = amount].statutory = old.statutory
    BY <2>0 DEF TaxRows
  <2> QED
    BY <1>1, <2>3, <2>4 DEF Learned, old
<1>6. \A i \in 1..m : Learned(file.taxes[i], file.taxes[i])
  BY DEF Learned
<1> HIDE DEF row
<1>7. new \in [1..m -> TaxRows] /\ \A i \in 1..m : Learned(new[i], file.taxes[i])
  BY <1>2, <1>5, <1>6
<1> HIDE DEF new
<1>8. MoreTaxes(new, file.taxes, m)
  BY <1>2, <1>7 DEF MoreTaxes
<1>9. /\ file'.taxes = new /\ file'.rights = file.rights /\ file'.tenants = file.tenants
      /\ file'.region = file.region /\ file'.deadline = file.deadline
      /\ file'.decided = file.decided /\ file'.sale = file.sale /\ file'.cost = file.cost
  BY <1>3, <1>4
<1> QED
  BY <1>8, <1>9 DEF SameButTaxes, SameClaimants

LEMMA UnknownAssumesLess ==
  ASSUME AnalysisInv, AnalysisNext, LearnTax, Distributed, ~analysis'.failed,
         DecidedBefore(file, 20230401)
  PROVE  analysis'.assumed >= analysis.assumed
<1>1. /\ file \in SaleFiles /\ IdsApart(file) /\ analysis = Analyze(file)
      /\ file' \in SaleFiles /\ IdsApart(file') /\ analysis' = Analyze(file')
      /\ file.sale # Absent /\ ~analysis.failed
  BY FilesStayTyped DEF AnalysisInv, AnalysisNext, Distributed
<1>2. SameButTaxes(file', file)
  BY TaxLearned
<1> DEFINE f == file'
           g == file
           a == analysis'
           c == analysis
<1>3. SameClaimants(f, g) /\ g.tenants = f.tenants /\ f.sale # Absent /\ DecidedBefore(f, 20230401)
  BY <1>1, <1>2 DEF SameButTaxes, SameClaimants, DecidedBefore
<1>4. SameButTaxes(f, g)
  BY <1>2
<1>5. /\ a = Analyze(f) /\ ~a.failed /\ c = Analyze(g) /\ ~c.failed
      /\ f \in SaleFiles /\ g \in SaleFiles /\ IdsApart(f) /\ IdsApart(g) /\ g.sale # Absent
  BY <1>1
<1> HIDE DEF f, g, a, c
<1>8. StagesBetter(f, g)
  <2>1. NoRelief(f)
    BY <1>3, <1>5, NoReliefBefore
  <2> QED
    BY <1>4, <2>1, LearnedStages
<1>6. BetterReport(f, a, c)
  BY <1>3, <1>5, <1>8, ReportsBetter
<1>7. c.assumed <= a.assumed
  BY <1>3, <1>5, <1>6, TotalsBetter
<1> QED
  BY <1>7 DEF a, c

\* While no relief is in force, an unknown tax amount makes the total a lower
\* bound (distribution.ts, rights-analysis.service.ts).
THEOREM UnknownTaxesHideBurden == AnalysisSpec => UnknownTaxIsLowerBound
<1>1. AnalysisSpec => []AnalysisInv
  BY FileStaysAnalysed
<1>2. AnalysisInv /\ [AnalysisNext]_analysisVars =>
        [LearnTax /\ Distributed /\ ~analysis'.failed /\ DecidedBefore(file, 20230401) =>
           analysis'.assumed >= analysis.assumed]_analysisVars
  BY UnknownAssumesLess
<1> QED
  BY <1>1, <1>2, PTL DEF AnalysisSpec, UnknownTaxIsLowerBound

-----------------------------------------------------------------------------
\* The taxes and the relief, with more money.

\* What is taken from one sum is taken from the other.
OneRelief(d, g, g2, x, y, x2, y2, a, a2) ==
  /\ d \in Nat /\ g \in Nat /\ g2 \in Nat /\ g <= d /\ g2 <= d
  /\ x \in Nat /\ y \in Nat /\ x2 \in Nat /\ y2 \in Nat
  /\ g <= g2 /\ Least(y, x) <= Least(y2, x2)
  /\ a = Least(d - g, Least(y, x)) /\ a2 = Least(d - g2, Least(y2, x2))

LEMMA ReliefGrows ==
  ASSUME NEW d, NEW g, NEW g2, NEW x, NEW y, NEW x2, NEW y2, NEW a, NEW a2,
         OneRelief(d, g, g2, x, y, x2, y2, a, a2)
  PROVE  /\ Least(y - a, x - a) <= Least(y2 - a2, x2 - a2) /\ g + a <= g2 + a2
         /\ a \in Nat /\ a2 \in Nat
         /\ (x - a) - Least(y - a, x - a) = x - Least(y, x)
         /\ (x2 - a2) - Least(y2 - a2, x2 - a2) = x2 - Least(y2, x2)
BY DEF OneRelief, Least

\* One tenant is relieved.
ReliefOf(r, t, tax) ==
  IF t.fixed # Absent /\ t.fixed < tax.statutory
  THEN Least(t.deposit - Got12(r.book, t.id), Least(r.due, r.book.left)) ELSE 0
Relieving(r, joining, n, taxIds, money) ==
  TaxedBook(r.book, joining, n, taxIds, money) /\ r.due \in Nat
Relieves(q, r, t, a) ==
  /\ q.book.left = r.book.left - a /\ q.due = r.due - a
  /\ \A w : Got12(q.book, w) = Got12(r.book, w) + (IF w = t.id THEN a ELSE 0)

LEMMA RelievedAlone ==
  ASSUME NEW n, NEW joining, NEW taxIds, OwnIds(joining, n, taxIds), NEW money \in Int,
         NEW r, Relieving(r, joining, n, taxIds, money), NEW i \in 1..n, NEW tax
  PROVE  /\ Relieving(Relieved(r, joining[i], tax), joining, n, taxIds, money)
         /\ Relieves(Relieved(r, joining[i], tax), r, joining[i], ReliefOf(r, joining[i], tax))
<1> DEFINE t == joining[i]
           amount == Relief(r.book, t, tax, r.due)
           a == ReliefOf(r, t, tax)
           got == Got12(r.book, t.id)
           left == r.book.left
           q == Relieved(r, t, tax)
<1>1. TaxedBook(r.book, joining, n, taxIds, money) /\ r.due \in Nat
  BY DEF Relieving
<1>2. r.book \in Books(STRING) /\ got \in Nat /\ got <= t.deposit /\ t \in Tenants
  BY <1>1, TenantGot
<1>3. left \in Nat
  BY <1>1 DEF TaxedBook, Balanced, Books
<1>4. Received(r.book, {"small", "relief"}, t.id) = got
  BY <1>2, ReceivedIsPaid DEF Got12
<1>5. t.deposit \in Nat /\ t.id \in STRING
  BY <1>2 DEF Tenants
<1>6. \A w : Got12(r.book, w) \in Int
  BY <1>2, PaidTyped DEF Got12
<1> HIDE DEF t, got, left
<1>7. amount = a
  <2>1. amount = IF t.fixed # Absent /\ t.fixed < tax.statutory /\ t.deposit - got > 0
                 THEN Least(t.deposit - got, Least(r.due, left)) ELSE 0
    BY <1>4 DEF Relief, left
  <2>2. a = IF t.fixed # Absent /\ t.fixed < tax.statutory
            THEN Least(t.deposit - got, Least(r.due, left)) ELSE 0
    BY DEF ReliefOf, got, left
  <2>3. ~(t.deposit - got > 0) => Least(t.deposit - got, Least(r.due, left)) = 0
    BY <1>1, <1>2, <1>3, <1>5 DEF Least
  <2> QED
    BY <2>1, <2>2, <2>3
<1>8. a \in Nat /\ a <= left /\ a <= r.due /\ a <= t.deposit - got
  BY <1>1, <1>2, <1>3, <1>5 DEF ReliefOf, Least, got, left
<1> HIDE DEF a, amount
<1>9. CASE a > 0
  <2> DEFINE more == Pay(r.book, "relief", t.id, a)
  <2>1. q = [book |-> more, due |-> r.due - a]
    BY <1>7, <1>9 DEF Relieved, amount
  <2>2. TaxedBook(more, joining, n, taxIds, money)
    BY <1>1, <1>8, PayRelief DEF t, left, got, Got12
  <2>3. /\ more.left = r.book.left - a
        /\ \A S, T : PaidOf(more, S, T) = PaidOf(r.book, S, T)
                                          + (IF "relief" \in S /\ t.id \in T THEN a ELSE 0)
    <3>1. "relief" \in Stages /\ Balanced(r.book, money)
      BY <1>1 DEF TaxedBook, Stages
    <3> DEFINE to == t.id
    <3>2. to \in STRING
      BY <1>5
    <3> HIDE DEF to
    <3>3. /\ Pay(r.book, "relief", to, a).left = r.book.left - a
          /\ \A S, T : PaidOf(Pay(r.book, "relief", to, a), S, T) = PaidOf(r.book, S, T)
                                          + (IF "relief" \in S /\ to \in T THEN a ELSE 0)
      BY <1>8, <3>1, <3>2, PayBalances
    <3> QED
      BY <3>3 DEF to
  <2> HIDE DEF more
  <2>4. ASSUME NEW w PROVE Got12(more, w) = Got12(r.book, w) + (IF w = t.id THEN a ELSE 0)
    <3>1. "relief" \in {"small", "relief"} /\ (t.id \in {w} <=> w = t.id)
      OBVIOUS
    <3> QED
      BY <2>3, <3>1 DEF Got12
  <2>5. r.due - a \in Nat
    BY <1>1, <1>8
  <2> HIDE DEF q
  <2>6. q.book = more /\ q.due = r.due - a
    BY <2>1
  <2> QED
    BY <2>2, <2>3, <2>4, <2>5, <2>6 DEF Relieving, Relieves, q, t, a
<1>10. CASE ~(a > 0)
  <2>1. a = 0
    BY <1>8, <1>10
  <2>2. q = r
    BY <1>7, <1>10 DEF Relieved, amount
  <2>3. left = left - 0 /\ r.due = r.due - 0
    BY <1>1, <1>3
  <2>4. \A w : Got12(r.book, w) = Got12(r.book, w) + (IF w = t.id THEN 0 ELSE 0)
    BY <1>6
  <2>5. Relieves(r, r, t, 0)
    BY <2>3, <2>4 DEF Relieves, left
  <2> HIDE DEF q
  <2>6. Relieving(q, joining, n, taxIds, money) /\ Relieves(q, r, t, a)
    BY <2>1, <2>2, <2>5
  <2> QED
    BY <2>6 DEF q, a, t
<1> QED
  BY <1>9, <1>10

\* Two runs of the relief, the second one with more money.
OpenOf(r) == Least(r.due, r.book.left)
BetterRelief(r, r2, joining, n, taxIds, money, money2, rest, rest2) ==
  /\ Relieving(r, joining, n, taxIds, money) /\ Relieving(r2, joining, n, taxIds, money2)
  /\ OpenOf(r) <= OpenOf(r2)
  /\ r.book.left - OpenOf(r) = rest /\ r2.book.left - OpenOf(r2) = rest2
  /\ \A i \in 1..n : Got12(r.book, joining[i].id) <= Got12(r2.book, joining[i].id)

LEMMA BetterRelieved ==
  ASSUME NEW n, NEW joining, NEW taxIds, OwnIds(joining, n, taxIds),
         NEW money \in Int, NEW money2 \in Int, NEW rest, NEW rest2, NEW r, NEW r2,
         BetterRelief(r, r2, joining, n, taxIds, money, money2, rest, rest2),
         NEW i \in 1..n, NEW tax
  PROVE  BetterRelief(Relieved(r, joining[i], tax), Relieved(r2, joining[i], tax),
                      joining, n, taxIds, money, money2, rest, rest2)
<1> DEFINE t == joining[i]
           a == ReliefOf(r, t, tax)
           a2 == ReliefOf(r2, t, tax)
           q == Relieved(r, t, tax)
           q2 == Relieved(r2, t, tax)
           g == Got12(r.book, t.id)
           g2 == Got12(r2.book, t.id)
<1>1. Relieving(r, joining, n, taxIds, money) /\ Relieving(r2, joining, n, taxIds, money2)
  BY DEF BetterRelief
<1>2. Relieving(q, joining, n, taxIds, money) /\ Relieves(q, r, t, a)
  BY <1>1, RelievedAlone
<1>3. Relieving(q2, joining, n, taxIds, money2) /\ Relieves(q2, r2, t, a2)
  BY <1>1, RelievedAlone
<1>4. \A j \in 1..n : /\ Got12(r.book, joining[j].id) \in Nat /\ Got12(r2.book, joining[j].id) \in Nat
                      /\ Got12(r.book, joining[j].id) <= joining[j].deposit
                      /\ Got12(r2.book, joining[j].id) <= joining[j].deposit
  BY <1>1, TenantGot DEF Relieving
<1>5. t \in Tenants /\ t.deposit \in Nat
  BY DEF OwnIds, Tenants
<1>6. r.book.left \in Nat /\ r2.book.left \in Nat /\ r.due \in Nat /\ r2.due \in Nat
  BY <1>1 DEF Relieving, TaxedBook, Balanced, Books
<1>7. /\ OpenOf(r) <= OpenOf(r2)
      /\ r.book.left - OpenOf(r) = rest /\ r2.book.left - OpenOf(r2) = rest2
      /\ \A j \in 1..n : Got12(r.book, joining[j].id) <= Got12(r2.book, joining[j].id)
  BY DEF BetterRelief
<1> DEFINE x == r.book.left
           x2 == r2.book.left
           y == r.due
           y2 == r2.due
           eligible == t.fixed # Absent /\ t.fixed < tax.statutory
<1>8. /\ a = IF eligible THEN Least(t.deposit - g, Least(y, x)) ELSE 0
      /\ a2 = IF eligible THEN Least(t.deposit - g2, Least(y2, x2)) ELSE 0
  BY DEF ReliefOf
<1>9. g \in Nat /\ g2 \in Nat /\ g <= t.deposit /\ g2 <= t.deposit /\ g <= g2
  BY <1>4, <1>7
<1>10. Least(y, x) <= Least(y2, x2) /\ x - Least(y, x) = rest /\ x2 - Least(y2, x2) = rest2
  BY <1>7 DEF OpenOf
<1>11. \A w : /\ Got12(q.book, w) = Got12(r.book, w) + (IF w = t.id THEN a ELSE 0)
              /\ Got12(q2.book, w) = Got12(r2.book, w) + (IF w = t.id THEN a2 ELSE 0)
  BY <1>2, <1>3 DEF Relieves
<1>12. q.book.left = x - a /\ q.due = y - a /\ q2.book.left = x2 - a2 /\ q2.due = y2 - a2
  BY <1>2, <1>3 DEF Relieves
<1>13. x \in Nat /\ y \in Nat /\ x2 \in Nat /\ y2 \in Nat
  BY <1>6
<1>20. \A j \in 1..n : joining[j].id = t.id => j = i
  BY DEF OwnIds, DistinctIds
<1> HIDE DEF a, a2, q, q2, g, g2, x, x2, y, y2, eligible
<1>14. /\ Least(y - a, x - a) <= Least(y2 - a2, x2 - a2) /\ g + a <= g2 + a2
       /\ (x - a) - Least(y - a, x - a) = rest /\ (x2 - a2) - Least(y2 - a2, x2 - a2) = rest2
  <2>1. CASE eligible
    <3>1. OneRelief(t.deposit, g, g2, x, y, x2, y2, a, a2)
      <4> HIDE DEF t
      <4> QED
        BY <1>5, <1>8, <1>9, <1>10, <1>13, <2>1 DEF OneRelief
    <3> QED
      BY <1>10, <3>1, ReliefGrows
  <2>2. CASE ~eligible
    <3>1. a = 0 /\ a2 = 0
      BY <1>8, <2>2
    <3>2. x - a = x /\ y - a = y /\ x2 - a2 = x2 /\ y2 - a2 = y2 /\ g + a = g /\ g2 + a2 = g2
      BY <1>9, <1>13, <3>1
    <3> QED
      BY <1>9, <1>10, <3>2
  <2> QED
    BY <2>1, <2>2
<1>15. /\ OpenOf(q) <= OpenOf(q2)
       /\ q.book.left - OpenOf(q) = rest /\ q2.book.left - OpenOf(q2) = rest2
  BY <1>12, <1>14 DEF OpenOf
<1>16. ASSUME NEW j \in 1..n
       PROVE  Got12(q.book, joining[j].id) <= Got12(q2.book, joining[j].id)
  <2> DEFINE w == joining[j].id
  <2>1. CASE w = t.id
    BY <1>11, <1>14, <2>1 DEF g, g2
  <2>2. CASE w # t.id
    <3>1. Got12(r.book, w) \in Nat /\ Got12(r2.book, w) \in Nat /\ Got12(r.book, w) <= Got12(r2.book, w)
      BY <1>4, <1>7
    <3>2. Got12(q.book, w) = Got12(r.book, w) + 0 /\ Got12(q2.book, w) = Got12(r2.book, w) + 0
      BY <1>11, <2>2
    <3> QED
      BY <3>1, <3>2
  <2> QED
    BY <2>1, <2>2
<1>17. BetterRelief(q, q2, joining, n, taxIds, money, money2, rest, rest2)
  BY <1>2, <1>3, <1>15, <1>16 DEF BetterRelief
<1> QED
  BY <1>17 DEF q, q2, t

ReliefBooks(joining, n, taxIds, money) ==
  {r \in [book : Books(STRING), due : Nat] : Relieving(r, joining, n, taxIds, money)}

LEMMA ReliefsFitBooks ==
  ASSUME NEW n, NEW joining, NEW taxIds, OwnIds(joining, n, taxIds), NEW money \in Int,
         NEW r \in ReliefBooks(joining, n, taxIds, money), NEW tax
  PROVE  ReliefsFit(ReliefBooks(joining, n, taxIds, money), r, joining, n, tax)
<1>1. n \in Nat /\ DOMAIN joining = 1..n
  BY DEF OwnIds
<1>2. ASSUME NEW v \in ReliefBooks(joining, n, taxIds, money), NEW i \in 1..n
      PROVE  Relieved(v, joining[i], tax) \in ReliefBooks(joining, n, taxIds, money)
  <2> DEFINE q == Relieved(v, joining[i], tax)
             amount == Relief(v.book, joining[i], tax, v.due)
  <2>1. v \in [book : Books(STRING), due : Nat] /\ Relieving(v, joining, n, taxIds, money)
    BY DEF ReliefBooks
  <2>2. Relieving(q, joining, n, taxIds, money)
    BY <2>1, RelievedAlone
  <2>3. q = v \/ q = [book |-> Pay(v.book, "relief", joining[i].id, amount), due |-> v.due - amount]
    BY DEF Relieved
  <2> HIDE DEF amount
  <2>4. q = [book |-> q.book, due |-> q.due]
    BY <2>1, <2>3
  <2> HIDE DEF q
  <2>5. q.book \in Books(STRING) /\ q.due \in Nat
    BY <2>2 DEF Relieving, TaxedBook, Balanced
  <2>6. q \in [book : Books(STRING), due : Nat]
    BY <2>4, <2>5
  <2>7. q \in ReliefBooks(joining, n, taxIds, money)
    BY <2>2, <2>6 DEF ReliefBooks
  <2> QED
    BY <2>7 DEF q
<1> QED
  BY <1>1, <1>2 DEF ReliefsFit

LEMMA BetterRelieve ==
  ASSUME NEW n, NEW joining, NEW taxIds, OwnIds(joining, n, taxIds),
         NEW money \in Int, NEW money2 \in Int, NEW rest, NEW rest2,
         NEW r \in ReliefBooks(joining, n, taxIds, money),
         NEW r2 \in ReliefBooks(joining, n, taxIds, money2),
         BetterRelief(r, r2, joining, n, taxIds, money, money2, rest, rest2), NEW tax
  PROVE  BetterRelief(Relieve(r, joining, tax), Relieve(r2, joining, tax),
                      joining, n, taxIds, money, money2, rest, rest2)
<1> DEFINE V == ReliefBooks(joining, n, taxIds, money)
           V2 == ReliefBooks(joining, n, taxIds, money2)
           Better(q, q2) == BetterRelief(q, q2, joining, n, taxIds, money, money2, rest, rest2)
<1>1. ReliefsFit(V, r, joining, n, tax) /\ ReliefsFit(V2, r2, joining, n, tax)
  BY ReliefsFitBooks
<1> HIDE DEF V, V2
<1>2. PICK g : ReliefsRun(g, V, r, joining, n, tax)
  BY <1>1, ReliefsInTurn
<1>3. PICK h : ReliefsRun(h, V2, r2, joining, n, tax)
  BY <1>1, ReliefsInTurn
<1>4. n \in Nat
  BY DEF OwnIds
<1>5. /\ g[0] = r /\ g[n] = Relieve(r, joining, tax)
      /\ \A k \in 0..(n - 1) : g[k + 1] = Relieved(g[k], joining[k + 1], tax)
  BY <1>2 DEF ReliefsRun
<1>6. /\ h[0] = r2 /\ h[n] = Relieve(r2, joining, tax)
      /\ \A k \in 0..(n - 1) : h[k + 1] = Relieved(h[k], joining[k + 1], tax)
  BY <1>3 DEF ReliefsRun
<1> DEFINE S == {k \in 0..n : Better(g[k], h[k])}
<1>7. 0 \in S
  BY <1>4, <1>5, <1>6
<1>8. ASSUME NEW k \in 0..(n - 1), k \in S PROVE k + 1 \in S
  <2>1. k + 1 \in 0..n /\ k + 1 \in 1..n
    BY <1>4
  <2>2. Better(g[k], h[k])
    BY <1>8
  <2>3. g[k + 1] = Relieved(g[k], joining[k + 1], tax) /\ h[k + 1] = Relieved(h[k], joining[k + 1], tax)
    BY <1>5, <1>6
  <2> HIDE DEF S
  <2>4. Better(g[k + 1], h[k + 1])
    BY <2>1, <2>2, <2>3, BetterRelieved
  <2> QED
    BY <2>1, <2>4 DEF S
<1>9. n \in S
  <2>1. n \in 0..n
    BY <1>4
  <2> HIDE DEF S
  <2> QED
    BY <1>4, <1>7, <1>8, <2>1, Stepwise
<1>10. Better(g[n], h[n])
  BY <1>9
<1> HIDE DEF Better
<1>11. Better(Relieve(r, joining, tax), Relieve(r2, joining, tax))
  BY <1>5, <1>6, <1>10
<1> QED
  BY <1>11 DEF Better

LEMMA TaxItself ==
  ASSUME NEW n, NEW joining, NEW taxIds, OwnIds(joining, n, taxIds), NEW money \in Int,
         NEW r, Relieving(r, joining, n, taxIds, money), NEW tax \in TaxRows, tax.id \in taxIds,
         tax.property
  PROVE  TaxedAlone(PayTaxItself(r.book, tax, r.due), r.book, r.due, joining, n, taxIds, money)
<1> DEFINE own == [tax EXCEPT !.amount = r.due]
<1>1. TaxedBook(r.book, joining, n, taxIds, money) /\ r.due \in Nat
  BY DEF Relieving
<1>2. own \in TaxRows /\ own.id = tax.id /\ own.property /\ own.amount = r.due
  BY <1>1 DEF TaxRows, OptionalAmount
<1>3. own.amount # Absent
  BY <1>1, <1>2, AbsentAssumption
<1> HIDE DEF own
<1>4. DueOf(own) = r.due
  BY <1>2, <1>3 DEF DueOf
<1>5. PayTax(r.book, own, joining, FALSE) = PayTaxItself(r.book, tax, r.due)
  <2>1. PayTax(r.book, own, joining, FALSE) = PayTaxItself(r.book, own, r.due)
    BY <1>2, <1>3 DEF PayTax, PayPropertyTax
  <2>2. PayTaxItself(r.book, own, r.due) = PayTaxItself(r.book, tax, r.due)
    BY <1>2 DEF PayTaxItself
  <2> QED
    BY <2>1, <2>2
<1>6. TaxedAlone(PayTax(r.book, own, joining, FALSE), r.book, DueOf(own), joining, n, taxIds, money)
  BY <1>1, <1>2, TaxAlone
<1> QED
  BY <1>4, <1>5, <1>6

\* With more money every tax leaves more, and no tenant has less.
MoreLeft(v, v2, joining, n, taxIds, money, money2) ==
  /\ TaxedBook(v, joining, n, taxIds, money) /\ TaxedBook(v2, joining, n, taxIds, money2)
  /\ BetterStage(v, v2, joining, n)

LEMMA RestGrows ==
  ASSUME NEW x \in Nat, NEW x2 \in Nat, x <= x2, NEW due \in Nat
  PROVE  Least(due, x) <= Least(due, x2) /\ x - Least(due, x) <= x2 - Least(due, x2)
BY DEF Least

LEMMA BetterTax ==
  ASSUME NEW n, NEW joining, NEW taxIds, OwnIds(joining, n, taxIds),
         NEW money \in Int, NEW money2 \in Int, NEW v, NEW v2,
         MoreLeft(v, v2, joining, n, taxIds, money, money2),
         NEW tax \in TaxRows, tax.id \in taxIds, NEW applies
  PROVE  MoreLeft(PayTax(v, tax, joining, applies), PayTax(v2, tax, joining, applies),
                  joining, n, taxIds, money, money2)
<1>1. CASE ~(tax.property /\ tax.amount # Absent)
  BY <1>1 DEF PayTax
<1>2. CASE tax.property /\ tax.amount # Absent
  <2> DEFINE due == tax.amount
             start == [book |-> v, due |-> due]
             start2 == [book |-> v2, due |-> due]
             r == IF applies THEN Relieve(start, joining, tax) ELSE start
             r2 == IF applies THEN Relieve(start2, joining, tax) ELSE start2
             rest == v.left - Least(due, v.left)
             rest2 == v2.left - Least(due, v2.left)
             p == PayTaxItself(r.book, tax, r.due)
             p2 == PayTaxItself(r2.book, tax, r2.due)
  <2>1. due \in Nat
    BY <1>2 DEF TaxRows, OptionalAmount
  <2>2. /\ TaxedBook(v, joining, n, taxIds, money) /\ TaxedBook(v2, joining, n, taxIds, money2)
        /\ v.left <= v2.left
        /\ \A i \in 1..n : Got12(v, joining[i].id) <= Got12(v2, joining[i].id)
    BY DEF MoreLeft, BetterStage
  <2>3. v \in Books(STRING) /\ v2 \in Books(STRING) /\ v.left \in Nat /\ v2.left \in Nat
    BY <2>2 DEF TaxedBook, Balanced, Books
  <2> HIDE DEF due
  <2>4. Least(due, v.left) <= Least(due, v2.left) /\ rest <= rest2
    BY <2>1, <2>2, <2>3, RestGrows
  <2>5. /\ start \in ReliefBooks(joining, n, taxIds, money)
        /\ start2 \in ReliefBooks(joining, n, taxIds, money2)
        /\ Relieving(start, joining, n, taxIds, money) /\ Relieving(start2, joining, n, taxIds, money2)
    BY <2>1, <2>2, <2>3 DEF ReliefBooks, Relieving
  <2>6. BetterRelief(start, start2, joining, n, taxIds, money, money2, rest, rest2)
    <3>1. OpenOf(start) = Least(due, v.left) /\ OpenOf(start2) = Least(due, v2.left)
      BY DEF OpenOf
    <3>2. /\ start.book.left - OpenOf(start) = rest /\ start2.book.left - OpenOf(start2) = rest2
          /\ start.book = v /\ start2.book = v2
      BY <3>1
    <3> HIDE DEF start, start2, rest, rest2
    <3> QED
      BY <2>2, <2>4, <2>5, <3>1, <3>2 DEF BetterRelief
  <2> HIDE DEF start, start2, rest, rest2
  <2>7. BetterRelief(r, r2, joining, n, taxIds, money, money2, rest, rest2)
    <3>1. BetterRelief(Relieve(start, joining, tax), Relieve(start2, joining, tax),
                       joining, n, taxIds, money, money2, rest, rest2)
      BY <2>5, <2>6, BetterRelieve
    <3> QED
      BY <2>6, <3>1
  <2>8. PayTax(v, tax, joining, applies) = p /\ PayTax(v2, tax, joining, applies) = p2
    BY <1>2 DEF PayTax, PayPropertyTax, start, start2, due
  <2> HIDE DEF r, r2
  <2>9. /\ Relieving(r, joining, n, taxIds, money) /\ Relieving(r2, joining, n, taxIds, money2)
        /\ r.book.left - OpenOf(r) = rest /\ r2.book.left - OpenOf(r2) = rest2
        /\ \A i \in 1..n : Got12(r.book, joining[i].id) <= Got12(r2.book, joining[i].id)
    BY <2>7 DEF BetterRelief
  <2>10. TaxedAlone(p, r.book, r.due, joining, n, taxIds, money)
    BY <1>2, <2>9, TaxItself
  <2>11. TaxedAlone(p2, r2.book, r2.due, joining, n, taxIds, money2)
    BY <1>2, <2>9, TaxItself
  <2>12. r.book.left \in Nat /\ r2.book.left \in Nat /\ r.due \in Nat /\ r2.due \in Nat
    BY <2>9 DEF Relieving, TaxedBook, Balanced, Books
  <2> HIDE DEF p, p2
  <2>13. p.left = rest /\ p2.left = rest2
    <3>1. /\ p.left = r.book.left - Least(r.book.left, r.due)
          /\ p2.left = r2.book.left - Least(r2.book.left, r2.due)
      BY <2>10, <2>11 DEF TaxedAlone
    <3>2. /\ Least(r.book.left, r.due) = Least(r.due, r.book.left)
          /\ Least(r2.book.left, r2.due) = Least(r2.due, r2.book.left)
      BY <2>12 DEF Least
    <3> QED
      BY <2>9, <3>1, <3>2 DEF OpenOf
  <2>14. \A w : Got12(p, w) = Got12(r.book, w) /\ Got12(p2, w) = Got12(r2.book, w)
    BY <2>10, <2>11 DEF TaxedAlone
  <2>15. BetterStage(p, p2, joining, n)
    BY <2>4, <2>9, <2>13, <2>14 DEF BetterStage
  <2>16. MoreLeft(p, p2, joining, n, taxIds, money, money2)
    BY <2>10, <2>11, <2>15 DEF MoreLeft, TaxedAlone
  <2> QED
    BY <2>8, <2>16
<1> QED
  BY <1>1, <1>2

LEMMA BetterTaxes ==
  ASSUME NEW n, NEW joining, NEW taxIds, OwnIds(joining, n, taxIds),
         NEW money \in Int, NEW money2 \in Int, NEW v, NEW v2,
         MoreLeft(v, v2, joining, n, taxIds, money, money2),
         NEW m \in Nat, NEW taxes \in [1..m -> TaxRows], \A i \in 1..m : taxes[i].id \in taxIds,
         NEW applies
  PROVE  MoreLeft(PayTaxes(v, taxes, joining, applies), PayTaxes(v2, taxes, joining, applies),
                  joining, n, taxIds, money, money2)
<1> DEFINE V == {b \in Books(STRING) : TaxedBook(b, joining, n, taxIds, money)}
           V2 == {b \in Books(STRING) : TaxedBook(b, joining, n, taxIds, money2)}
           Better(b, b2) == MoreLeft(b, b2, joining, n, taxIds, money, money2)
<1>1. ASSUME NEW b \in V, NEW tax \in TaxRows, tax.id \in taxIds
      PROVE  PayTax(b, tax, joining, applies) \in V
  <2>1. TaxedBook(PayTax(b, tax, joining, applies), joining, n, taxIds, money)
    BY <1>1, PayTaxKeeps
  <2> QED
    BY <2>1 DEF TaxedBook, Balanced
<1>2. ASSUME NEW b \in V2, NEW tax \in TaxRows, tax.id \in taxIds
      PROVE  PayTax(b, tax, joining, applies) \in V2
  <2>1. TaxedBook(PayTax(b, tax, joining, applies), joining, n, taxIds, money2)
    BY <1>2, PayTaxKeeps
  <2> QED
    BY <2>1 DEF TaxedBook, Balanced
<1>3. v \in V /\ v2 \in V2
  BY DEF MoreLeft, TaxedBook, Balanced
<1> HIDE DEF V, V2
<1>4. TaxesFit(V, v, taxes, m, joining, applies) /\ TaxesFit(V2, v2, taxes, m, joining, applies)
  <2>1. \A b \in V, i \in 1..m : PayTax(b, taxes[i], joining, applies) \in V
    BY <1>1
  <2>2. \A b \in V2, i \in 1..m : PayTax(b, taxes[i], joining, applies) \in V2
    BY <1>2
  <2> QED
    BY <1>3, <2>1, <2>2 DEF TaxesFit
<1>5. PICK g : TaxesRun(g, V, v, taxes, m, joining, applies)
  BY <1>4, TaxesInTurn
<1>6. PICK h : TaxesRun(h, V2, v2, taxes, m, joining, applies)
  BY <1>4, TaxesInTurn
<1> DEFINE S == {k \in 0..m : Better(g[k], h[k])}
<1>7. 0 \in S
  BY <1>5, <1>6 DEF TaxesRun
<1>8. ASSUME NEW k \in 0..(m - 1), k \in S PROVE k + 1 \in S
  <2>1. k + 1 \in 0..m /\ k + 1 \in 1..m
    OBVIOUS
  <2>2. Better(g[k], h[k])
    BY <1>8
  <2>3. g[k + 1] = PayTax(g[k], taxes[k + 1], joining, applies)
        /\ h[k + 1] = PayTax(h[k], taxes[k + 1], joining, applies)
    BY <1>5, <1>6 DEF TaxesRun
  <2>4. taxes[k + 1] \in TaxRows /\ taxes[k + 1].id \in taxIds
    BY <2>1
  <2> HIDE DEF S
  <2>5. Better(g[k + 1], h[k + 1])
    BY <2>2, <2>3, <2>4, BetterTax
  <2> QED
    BY <2>1, <2>5 DEF S
<1>9. m \in S
  <2>1. m \in 0..m
    OBVIOUS
  <2> HIDE DEF S
  <2> QED
    BY <1>7, <1>8, <2>1, Stepwise
<1>10. Better(g[m], h[m])
  BY <1>9
<1> HIDE DEF Better
<1>11. Better(PayTaxes(v, taxes, joining, applies), PayTaxes(v2, taxes, joining, applies))
  BY <1>5, <1>6, <1>10 DEF TaxesRun
<1> QED
  BY <1>11 DEF Better

-----------------------------------------------------------------------------
\* The small deposits, with more money.

ShareOf(claim, total, budget) == IF claim > 0 THEN (claim * budget) \div total ELSE 0

\* The whole part of a quotient.
LEMMA WholePart ==
  ASSUME NEW x \in Nat, NEW total \in Nat, 0 < total
  PROVE  /\ x \div total \in Nat
         /\ total * (x \div total) <= x /\ x < total * (x \div total) + total
<1> DEFINE q == x \div total
<1>1. q \in Int
  OBVIOUS
<1>2. x = total * q + (x % total) /\ 0 <= x % total /\ x % total < total /\ x % total \in Int
  OBVIOUS
<1> HIDE DEF q
<1>3. total * q <= x /\ x < total * q + total
  BY <1>1, <1>2
<1>4. q >= 0
  <2>1. CASE q <= -1
    <3>1. total * q <= total * (-1)
      BY <1>1, <2>1
    <3> QED
      BY <1>1, <1>3, <3>1
  <2> QED
    BY <1>1, <2>1
<1> QED
  BY <1>1, <1>3, <1>4 DEF q

LEMMA PartsGrow ==
  ASSUME NEW x \in Nat, NEW y \in Nat, x <= y, NEW total \in Nat, 0 < total
  PROVE  x \div total <= y \div total
<1> DEFINE q == x \div total
           r == y \div total
<1>1. q \in Nat /\ total * q <= x
  BY WholePart
<1>2. r \in Nat /\ y < total * r + total
  BY WholePart
<1> HIDE DEF q, r
<1>3. CASE q >= r + 1
  <2>1. total * q >= total * (r + 1) /\ total * (r + 1) = total * r + total
    BY <1>1, <1>2, <1>3
  <2> DEFINE u == total * q
             v == total * r
  <2>2. u \in Int /\ v \in Int /\ u >= v + total /\ u <= x /\ y < v + total
    BY <1>1, <1>2, <2>1
  <2> HIDE DEF u, v
  <2> QED
    BY <2>2
<1>4. CASE q <= r
  BY <1>4 DEF q, r
<1> QED
  BY <1>1, <1>2, <1>3, <1>4

\* A larger budget gives a share that is no smaller.
LEMMA ShareGrows ==
  ASSUME NEW claim \in Nat, NEW total \in Nat, claim <= total,
         NEW budget \in Nat, NEW budget2 \in Nat, budget <= budget2
  PROVE  /\ ShareOf(claim, total, budget) \in Nat
         /\ ShareOf(claim, total, budget) <= ShareOf(claim, total, budget2)
         /\ claim * budget <= total * ShareOf(claim, total, budget) + total
<1>1. CASE claim > 0
  <2> DEFINE x == claim * budget
             y == claim * budget2
  <2>1. x \in Nat /\ y \in Nat /\ x <= y /\ 0 < total
    BY <1>1
  <2> HIDE DEF x, y
  <2>2. x \div total <= y \div total /\ x \div total \in Nat /\ x < total * (x \div total) + total
    BY <2>1, PartsGrow, WholePart
  <2>3. ShareOf(claim, total, budget) = x \div total /\ ShareOf(claim, total, budget2) = y \div total
    BY <1>1 DEF ShareOf, x, y
  <2> DEFINE q == x \div total
             u == total * q
  <2>4. u \in Int
    BY <2>1, <2>2
  <2>5. x <= u + total
    <3> HIDE DEF u
    <3>1. x < u + total
      BY <2>2 DEF u
    <3> HIDE DEF q
    <3> QED
      BY <2>1, <2>4, <3>1
  <2> QED
    BY <2>2, <2>3, <2>5 DEF x
<1>2. CASE claim = 0
  <2>1. ShareOf(claim, total, budget) = 0 /\ ShareOf(claim, total, budget2) = 0
    BY <1>2 DEF ShareOf
  <2>2. claim * budget = 0 /\ total * 0 = 0
    BY <1>2
  <2> QED
    BY <2>1, <2>2
<1> QED
  BY <1>1, <1>2

LEMMA TimesGrows ==
  ASSUME NEW a \in Nat, NEW b \in Nat, NEW c \in Nat, a + c + 1 <= b, NEW total \in Nat
  PROVE  total * a + c * total + total <= total * b
<1>1. total * (a + c + 1) <= total * b
  OBVIOUS
<1>2. total * (a + c + 1) = total * a + c * total + total
  OBVIOUS
<1> QED
  BY <1>1, <1>2

\* What the rounding takes from the claims so far, multiplied by the total.
RoundedDown(claimed, shared, k, total, budget) ==
  /\ claimed \in Nat /\ shared \in Nat
  /\ total * shared <= claimed * budget /\ claimed * budget <= total * shared + k * total

LEMMA RoundedDownOnce ==
  ASSUME NEW total \in Nat, NEW budget \in Nat, NEW k \in Nat,
         NEW claimed, NEW shared, RoundedDown(claimed, shared, k, total, budget),
         NEW claim, NEW share, RoundedDown(claim, share, 1, total, budget)
  PROVE  RoundedDown(claimed + claim, shared + share, k + 1, total, budget)
<1> DEFINE u == total * shared
           v == claimed * budget
           w == total * share
           x == claim * budget
           y == k * total
<1>1. claimed \in Nat /\ shared \in Nat /\ claim \in Nat /\ share \in Nat
  BY DEF RoundedDown
<1>2. u <= v /\ v <= u + y /\ w <= x /\ x <= w + 1 * total
  BY DEF RoundedDown
<1>3. u \in Int /\ v \in Int /\ w \in Int /\ x \in Int /\ y \in Int
  BY <1>1
<1>4. /\ total * (shared + share) = u + w /\ (claimed + claim) * budget = v + x
      /\ (k + 1) * total = y + total
  BY <1>1
<1> HIDE DEF u, v, w, x, y
<1>5. u + w <= v + x /\ v + x <= (u + w) + (y + total)
  BY <1>2, <1>3
<1>6. claimed + claim \in Nat /\ shared + share \in Nat
  BY <1>1
<1> QED
  BY <1>4, <1>5, <1>6 DEF RoundedDown

LEMMA ShareRounded ==
  ASSUME NEW claim \in Nat, NEW total \in Nat, claim <= total,
         NEW budget \in Nat, budget <= total
  PROVE  RoundedDown(claim, ShareOf(claim, total, budget), 1, total, budget)
         /\ ShareOf(claim, total, budget) <= claim
<1> DEFINE share == ShareOf(claim, total, budget)
<1>1. share \in Nat /\ claim * budget <= total * share + total
  <2>1. budget <= budget
    OBVIOUS
  <2> QED
    BY <2>1, ShareGrows
<1>2. total * share <= claim * budget /\ share <= claim
  <2>1. CASE claim > 0
    <3>1. share = (claim * budget) \div total
      BY <2>1 DEF ShareOf
    <3>2. 0 < claim
      BY <2>1
    <3> QED
      BY <3>1, <3>2, ShareBounds
  <2>2. CASE claim = 0
    <3>1. share = 0
      BY <2>2 DEF ShareOf
    <3> HIDE DEF share
    <3> QED
      BY <2>2, <3>1
  <2> QED
    BY <2>1, <2>2
<1> HIDE DEF share
<1>3. 1 * total = total
  OBVIOUS
<1> QED
  BY <1>1, <1>2, <1>3 DEF RoundedDown, share

\* All shares together are the budget, short of at most one each.
SharesOf(c, n, total, budget) == [i \in 1..n |-> ShareOf(c[i], total, budget)]

LEMMA SharesTogether ==
  ASSUME NEW n \in Nat, NEW c \in [1..n -> Nat], NEW total, total = SumIn(c, n, 1..n),
         NEW budget \in Nat, budget <= total
  PROVE  LET s == SharesOf(c, n, total, budget) IN
         /\ s \in [1..n -> Nat] /\ SumIn(s, n, 1..n) \in Nat
         /\ SumIn(s, n, 1..n) <= budget /\ budget <= SumIn(s, n, 1..n) + n
<1> DEFINE s == SharesOf(c, n, total, budget)
<1>0. n <= n /\ c \in [1..n -> Int]
  OBVIOUS
<1>1. total \in Nat /\ \A i \in 1..n : c[i] <= total
  BY <1>0, SumOfNaturals
<1>2. ASSUME NEW i \in 1..n
      PROVE  RoundedDown(c[i], s[i], 1, total, budget) /\ s[i] <= c[i]
  <2>1. c[i] \in Nat /\ c[i] <= total
    BY <1>1
  <2>2. s[i] = ShareOf(c[i], total, budget)
    BY DEF SharesOf
  <2> HIDE DEF s
  <2> QED
    BY <1>1, <2>1, <2>2, ShareRounded
<1>3. s \in [1..n -> Nat]
  <2>1. \A i \in 1..n : s[i] \in Nat
    BY <1>2 DEF RoundedDown
  <2>2. s = [i \in 1..n |-> s[i]]
    BY DEF SharesOf
  <2> HIDE DEF s
  <2> QED
    BY <2>1, <2>2
<1> HIDE DEF s
<1>4. s \in [1..n -> Int]
  BY <1>3
<1>5. SumIn(s, n, 1..n) \in Nat /\ SumIn(s, n, 1..n) <= total
  <2>1. SumIn(s, n, 1..n) \in Nat
    BY <1>0, <1>3, SumOfNaturals
  <2>2. SumIn(s, n, 1..n) <= SumIn(c, n, 1..n)
    BY <1>0, <1>2, <1>4, SumAtMost
  <2> QED
    BY <2>1, <2>2
<1> DEFINE S == {k \in 0..n : RoundedDown(SumIn(c, n, 1..k), SumIn(s, n, 1..k), k, total, budget)}
<1>6. 0 \in S
  <2>1. SumIn(c, n, 1..0) = 0 /\ SumIn(s, n, 1..0) = 0
    BY <1>0, <1>4, SumSteps
  <2>2. total * 0 = 0 /\ 0 * budget = 0 /\ 0 * total = 0
    BY <1>1
  <2>3. RoundedDown(0, 0, 0, total, budget)
    BY <2>2 DEF RoundedDown
  <2> QED
    BY <2>1, <2>3
<1>7. ASSUME NEW k \in 0..(n - 1), k \in S PROVE k + 1 \in S
  <2>1. k + 1 \in 0..n /\ k + 1 \in 1..n /\ k \in Nat
    OBVIOUS
  <2>2. /\ SumIn(c, n, 1..(k + 1)) = SumIn(c, n, 1..k) + c[k + 1]
        /\ SumIn(s, n, 1..(k + 1)) = SumIn(s, n, 1..k) + s[k + 1]
    BY <1>0, <1>4, SumSteps
  <2>3. RoundedDown(SumIn(c, n, 1..k), SumIn(s, n, 1..k), k, total, budget)
    BY <1>7
  <2>4. RoundedDown(c[k + 1], s[k + 1], 1, total, budget)
    BY <1>2, <2>1
  <2> HIDE DEF S
  <2>5. RoundedDown(SumIn(c, n, 1..k) + c[k + 1], SumIn(s, n, 1..k) + s[k + 1], k + 1, total, budget)
    BY <1>1, <2>1, <2>3, <2>4, RoundedDownOnce
  <2> QED
    BY <2>1, <2>2, <2>5 DEF S
<1>8. RoundedDown(SumIn(c, n, 1..n), SumIn(s, n, 1..n), n, total, budget)
  <2>1. n \in 0..n
    OBVIOUS
  <2>2. n \in S
    <3> HIDE DEF S
    <3> QED
      BY <1>6, <1>7, <2>1, Stepwise
  <2> QED
    BY <2>2
<1> DEFINE shared == SumIn(s, n, 1..n)
<1>9. /\ shared \in Nat /\ shared <= total
      /\ total * shared <= total * budget /\ total * budget <= total * shared + n * total
  BY <1>5, <1>8 DEF RoundedDown
<1> HIDE DEF shared
<1>10. CASE total = 0
  BY <1>3, <1>9, <1>10 DEF s, shared
<1>11. CASE total > 0
  <2> DEFINE u == total * shared
             v == total * budget
             w == n * total
  <2>1. u \in Int /\ v \in Int /\ w \in Int /\ u <= v /\ v <= u + w
    BY <1>1, <1>9
  <2>2. budget + 1 <= shared => v + total <= u
    <3>1. budget + 0 + 1 <= shared => v + 0 * total + total <= u
      BY <1>1, <1>9, TimesGrows
    <3> HIDE DEF u, v
    <3> QED
      BY <1>1, <1>9, <2>1, <3>1
  <2>3. shared + n + 1 <= budget => u + w + total <= v
    BY <1>1, <1>9, TimesGrows
  <2> HIDE DEF u, v, w
  <2>4. shared <= budget /\ budget <= shared + n
    BY <1>1, <1>9, <1>11, <2>1, <2>2, <2>3
  <2> QED
    BY <1>3, <1>9, <2>4 DEF shared, s
<1> QED
  BY <1>1, <1>10, <1>11

\* The first stage pays the shares.
ClaimsOf(joining, n, rule, region) == [i \in 1..n |-> SmallDeposit(joining[i], rule, region)]
SharedBook(b, k, joining, n, s, money) ==
  /\ Balanced(b, money) /\ b.left = money - SumIn(s, n, 1..k)
  /\ \A i \in 1..n : Got12(b, joining[i].id) = IF i <= k THEN s[i] ELSE 0

LEMMA ShareOneMore ==
  ASSUME NEW n \in Nat, NEW joining \in [1..n -> Tenants], DistinctIds(joining, n),
         NEW s \in [1..n -> Nat], NEW money \in Int, NEW k \in 0..(n - 1),
         NEW b, SharedBook(b, k, joining, n, s, money)
  PROVE  SharedBook(Pay(b, "small", joining[k + 1].id, s[k + 1]), k + 1, joining, n, s, money)
<1> DEFINE to == joining[k + 1].id
           amount == s[k + 1]
           more == Pay(b, "small", to, amount)
<1>1. k + 1 \in 1..n /\ s \in [1..n -> Int] /\ k \in Nat /\ k <= n
  OBVIOUS
<1>2. amount \in Nat /\ to \in STRING
  BY <1>1 DEF Tenants
<1>3. /\ Balanced(b, money) /\ b.left = money - SumIn(s, n, 1..k)
      /\ \A i \in 1..n : Got12(b, joining[i].id) = IF i <= k THEN s[i] ELSE 0
  BY DEF SharedBook
<1>4. /\ SumIn(s, n, 1..(k + 1)) = SumIn(s, n, 1..k) + amount
      /\ SumIn(s, n, 1..k) \in Int
  BY <1>1, SumSteps, SumTyped
<1>5. \A i \in 1..n : joining[i].id = to <=> i = k + 1
  BY <1>1 DEF DistinctIds
<1> HIDE DEF to, amount
<1>6. /\ Balanced(more, money) /\ more.left = b.left - amount
      /\ \A S, T : PaidOf(more, S, T) = PaidOf(b, S, T) + (IF "small" \in S /\ to \in T THEN amount ELSE 0)
  <2>1. "small" \in Stages
    BY DEF Stages
  <2> QED
    BY <1>2, <1>3, <2>1, PayBalances
<1> HIDE DEF more
<1>7. more.left = money - SumIn(s, n, 1..(k + 1))
  BY <1>2, <1>3, <1>4, <1>6
<1>8. ASSUME NEW i \in 1..n
      PROVE  Got12(more, joining[i].id) = IF i <= k + 1 THEN s[i] ELSE 0
  <2> DEFINE w == joining[i].id
  <2>1. Got12(more, w) = Got12(b, w) + (IF to \in {w} THEN amount ELSE 0)
    <3>1. "small" \in {"small", "relief"}
      OBVIOUS
    <3> QED
      BY <1>6, <3>1 DEF Got12
  <2>2. Got12(b, w) = IF i <= k THEN s[i] ELSE 0
    BY <1>3
  <2>3. to \in {w} <=> i = k + 1
    BY <1>5
  <2>4. s[i] \in Nat
    OBVIOUS
  <2> HIDE DEF w
  <2>5. CASE i = k + 1
    <3>1. Got12(more, w) = 0 + amount /\ amount = s[i] /\ ~(i <= k) /\ i <= k + 1
      BY <1>1, <2>1, <2>2, <2>3, <2>5 DEF amount
    <3> QED
      BY <2>4, <3>1 DEF w
  <2>6. CASE i # k + 1
    <3>1. i <= k <=> i <= k + 1
      BY <1>1, <2>6
    <3>2. Got12(more, w) = (IF i <= k THEN s[i] ELSE 0) + 0
      BY <2>1, <2>2, <2>3, <2>6
    <3> QED
      BY <2>4, <3>1, <3>2 DEF w
  <2> QED
    BY <2>5, <2>6
<1>9. SharedBook(more, k + 1, joining, n, s, money)
  BY <1>6, <1>7, <1>8 DEF SharedBook
<1> QED
  BY <1>9 DEF more, to, amount

LEMMA SmallShares ==
  ASSUME NEW n \in Nat, NEW joining \in [1..n -> Tenants], DistinctIds(joining, n),
         NEW region \in 1..4, NEW rule, n > 0 => rule \in Tables, NEW money \in Nat,
         NEW c, c = ClaimsOf(joining, n, rule, region), NEW total, total = SumIn(c, n, 1..n),
         NEW budget, budget = Least(total, SmallBudget(money))
  PROVE  SharedBook(PaySmallDeposits(StartBook(money), joining, rule, region), n,
                    joining, n, SharesOf(c, n, total, budget), money)
         /\ c \in [1..n -> Nat] /\ budget \in Nat /\ budget <= total
<1> DEFINE s == SharesOf(c, n, total, budget)
           small == PaySmallDeposits(StartBook(money), joining, rule, region)
<1>1. c \in [1..n -> Nat]
  <2>1. ASSUME NEW i \in 1..n PROVE SmallDeposit(joining[i], rule, region) \in Nat
    <3>1. joining[i] \in Tenants /\ rule \in Tables
      BY <2>1
    <3> QED
      BY <3>1, SmallDepositTyped
  <2> QED
    BY <2>1 DEF ClaimsOf
<1>2. total \in Nat
  <2>1. n <= n
    OBVIOUS
  <2> QED
    BY <1>1, <2>1, SumOfNaturals
<1>3. SmallTotal(joining, rule, region) = total
  <2>1. c = [i \in DOMAIN joining |-> SmallDeposit(joining[i], rule, region)]
    BY DEF ClaimsOf
  <2>2. SmallTotal(joining, rule, region) = SumAll(c)
    BY <2>1 DEF SmallTotal, SumOf
  <2>3. c \in [1..n -> Int]
    BY <1>1
  <2> QED
    BY <2>2, <2>3, SumAllIs
<1>4. budget \in Nat /\ budget <= total
  BY <1>2 DEF Least, SmallBudget
<1>5. s \in [1..n -> Nat]
  BY <1>1, <1>4, SharesTogether
<1> HIDE DEF s
<1>6. small = PayShares(StartBook(money), joining, rule, region, total, budget)
  <2>1. StartBook(money).left = money
    BY DEF StartBook
  <2> QED
    BY <1>3, <2>1 DEF PaySmallDeposits
<1> HIDE DEF small
<1> DEFINE Step(b, i) == PayShare(b, joining[i], SmallDeposit(joining[i], rule, region), total, budget)
<1>7. ASSUME NEW b, NEW i \in 1..n
      PROVE  Step(b, i) = IF c[i] > 0 THEN Pay(b, "small", joining[i].id, s[i]) ELSE b
  <2>1. c[i] = SmallDeposit(joining[i], rule, region)
    BY DEF ClaimsOf
  <2>2. c[i] > 0 => s[i] = (c[i] * budget) \div total
    BY DEF s, SharesOf, ShareOf
  <2> QED
    BY <2>1, <2>2 DEF PayShare
<1>8. ASSUME NEW i \in 1..n, ~(c[i] > 0) PROVE s[i] = 0
  BY <1>8 DEF s, SharesOf, ShareOf
<1> HIDE DEF Step
<1>9. \A b \in Books(STRING), i \in 1..n : Step(b, i) \in Books(STRING)
  <2> TAKE b \in Books(STRING), i \in 1..n
  <2>1. s[i] \in Int /\ joining[i].id \in STRING /\ "small" \in Stages
    BY <1>5 DEF Stages, Tenants
  <2>2. Pay(b, "small", joining[i].id, s[i]) \in Books(STRING)
    <3> DEFINE to == joining[i].id
    <3>1. to \in STRING
      BY <2>1
    <3> HIDE DEF to
    <3>2. Pay(b, "small", to, s[i]) \in Books(STRING)
      BY <2>1, <3>1, PaidMore
    <3> QED
      BY <3>2 DEF to
  <2> QED
    BY <1>7, <2>2
<1>10. Balanced(StartBook(money), money) /\ \A S, T : PaidOf(StartBook(money), S, T) = 0
  BY NothingPaid DEF StartBook
<1>11. SharesFit(Books(STRING), StartBook(money), joining, n, rule, region, total, budget)
  <2>1. DOMAIN joining = 1..n /\ StartBook(money) \in Books(STRING)
    BY <1>10 DEF Balanced
  <2> QED
    BY <1>9, <2>1 DEF SharesFit, Step
<1>12. PICK g : SharesRun(g, Books(STRING), StartBook(money), joining, n, rule, region, total, budget)
  BY <1>11, SharesInTurn
<1>13. /\ g[0] = StartBook(money) /\ g[n] = small
       /\ \A k \in 0..(n - 1) : g[k + 1] = Step(g[k], k + 1)
  BY <1>6, <1>12 DEF SharesRun, Step
<1> DEFINE S == {k \in 0..n : SharedBook(g[k], k, joining, n, s, money)}
<1>14. 0 \in S
  <2>1. SumIn(s, n, 1..0) = 0
    <3>1. s \in [1..n -> Int]
      BY <1>5
    <3> QED
      BY <3>1, SumSteps
  <2>2. StartBook(money).left = money - 0
    BY DEF StartBook
  <2>3. \A i \in 1..n : Got12(StartBook(money), joining[i].id) = 0 /\ ~(i <= 0)
    BY <1>10 DEF Got12
  <2>4. SharedBook(StartBook(money), 0, joining, n, s, money)
    BY <1>10, <2>1, <2>2, <2>3 DEF SharedBook
  <2> QED
    BY <1>13, <2>4
<1>15. ASSUME NEW k \in 0..(n - 1), k \in S PROVE k + 1 \in S
  <2>1. k + 1 \in 0..n /\ k + 1 \in 1..n /\ k \in Nat /\ k <= n
    OBVIOUS
  <2>2. SharedBook(g[k], k, joining, n, s, money)
    BY <1>15
  <2> HIDE DEF S
  <2>3. CASE c[k + 1] > 0
    <3>1. g[k + 1] = Pay(g[k], "small", joining[k + 1].id, s[k + 1])
      BY <1>7, <1>13, <2>1, <2>3
    <3>2. SharedBook(g[k + 1], k + 1, joining, n, s, money)
      BY <1>5, <2>2, <3>1, ShareOneMore
    <3> QED
      BY <2>1, <3>2 DEF S
  <2>4. CASE ~(c[k + 1] > 0)
    <3>1. g[k + 1] = g[k]
      BY <1>7, <1>13, <2>1, <2>4
    <3>2. s[k + 1] = 0
      BY <1>8, <2>1, <2>4
    <3>3. SumIn(s, n, 1..(k + 1)) = SumIn(s, n, 1..k)
      <4>1. s \in [1..n -> Int]
        BY <1>5
      <4>2. SumIn(s, n, 1..(k + 1)) = SumIn(s, n, 1..k) + s[k + 1]
        BY <4>1, SumSteps
      <4>3. SumIn(s, n, 1..k) \in Int
        BY <2>1, <4>1, SumTyped
      <4> QED
        BY <3>2, <4>2, <4>3
    <3>4. \A i \in 1..n : (IF i <= k THEN s[i] ELSE 0) = (IF i <= k + 1 THEN s[i] ELSE 0)
      <4>1. \A i \in 1..n : i <= k + 1 <=> i <= k \/ i = k + 1
        OBVIOUS
      <4> QED
        BY <3>2, <4>1
    <3>5. SharedBook(g[k], k + 1, joining, n, s, money)
      BY <2>2, <3>3, <3>4 DEF SharedBook
    <3> QED
      BY <2>1, <3>1, <3>5 DEF S
  <2> QED
    BY <2>3, <2>4
<1>16. SharedBook(g[n], n, joining, n, s, money)
  <2>1. n \in 0..n
    OBVIOUS
  <2>2. n \in S
    <3> HIDE DEF S
    <3> QED
      BY <1>14, <1>15, <2>1, Stepwise
  <2> QED
    BY <2>2
<1> QED
  BY <1>1, <1>4, <1>13, <1>16 DEF s, small

\* A raise that covers the rounding of the shares: of n shares each may be
\* rounded down, and half of the raise may go to the small deposits.
CoversRounding(money, money2, n) ==
  money \in Nat /\ money2 \in Nat /\ (money = 0 \/ money + 2 * n + 1 <= money2)

LEMMA BudgetGrows ==
  ASSUME NEW n \in Nat, NEW money, NEW money2, CoversRounding(money, money2, n), NEW total \in Nat
  PROVE  LET budget == Least(total, SmallBudget(money))
             budget2 == Least(total, SmallBudget(money2))
         IN  /\ budget \in Nat /\ budget2 \in Nat /\ budget <= budget2
             /\ money = 0 => budget = 0
             /\ money # 0 => budget2 - budget + n <= money2 - money
<1>1. money \in Nat /\ money2 \in Nat
  BY DEF CoversRounding
<1>2. /\ money \div 2 \in Nat /\ money2 \div 2 \in Nat
      /\ 2 * (money \div 2) <= money /\ money <= 2 * (money \div 2) + 1
      /\ 2 * (money2 \div 2) <= money2
  BY <1>1
<1> DEFINE h == money \div 2
           h2 == money2 \div 2
<1>3. h \in Nat /\ h2 \in Nat /\ 2 * h <= money /\ money <= 2 * h + 1 /\ 2 * h2 <= money2
  BY <1>2
<1> HIDE DEF h, h2
<1>5. money2 >= money => h <= h2
  <2>1. money2 <= 2 * (money2 \div 2) + 1
    BY <1>1
  <2>2. money2 <= 2 * h2 + 1
    BY <2>1 DEF h2
  <2> QED
    BY <1>1, <1>3, <2>2
<1>6. money = 0 => h = 0
  BY <1>3
<1>7. money # 0 => money + 2 * n + 1 <= money2
  BY DEF CoversRounding
<1>8. h <= h2
  BY <1>1, <1>3, <1>5, <1>6, <1>7
<1>9. money # 0 => (h2 - h) + n <= money2 - money
  BY <1>1, <1>3, <1>7
<1>10. Least(total, h2) - Least(total, h) <= h2 - h
       /\ Least(total, h) \in Nat /\ Least(total, h2) \in Nat /\ Least(total, h) <= Least(total, h2)
       /\ (h = 0 => Least(total, h) = 0)
  BY <1>3, <1>8 DEF Least
<1>11. Least(total, SmallBudget(money)) = Least(total, h) /\ Least(total, SmallBudget(money2)) = Least(total, h2)
  BY DEF SmallBudget, h, h2
<1>12. money # 0 => Least(total, h2) - Least(total, h) + n <= money2 - money
  <2> DEFINE u == Least(total, h2)
             v == Least(total, h)
  <2>1. u \in Nat /\ v \in Nat /\ u - v <= h2 - h
    BY <1>10
  <2> HIDE DEF u, v
  <2>2. money # 0 => u - v + n <= money2 - money
    BY <1>1, <1>3, <1>9, <2>1
  <2> QED
    BY <2>2 DEF u, v
<1> QED
  BY <1>6, <1>10, <1>11, <1>12

LEMMA BetterSmall ==
  ASSUME NEW n \in Nat, NEW joining \in [1..n -> Tenants], DistinctIds(joining, n),
         NEW region \in 1..4, NEW rule, n > 0 => rule \in Tables,
         NEW money, NEW money2, CoversRounding(money, money2, n)
  PROVE  BetterStage(PaySmallDeposits(StartBook(money), joining, rule, region),
                     PaySmallDeposits(StartBook(money2), joining, rule, region), joining, n)
<1> DEFINE small == PaySmallDeposits(StartBook(money), joining, rule, region)
           small2 == PaySmallDeposits(StartBook(money2), joining, rule, region)
           c == ClaimsOf(joining, n, rule, region)
           total == SumIn(c, n, 1..n)
           budget == Least(total, SmallBudget(money))
           budget2 == Least(total, SmallBudget(money2))
           s == SharesOf(c, n, total, budget)
           s2 == SharesOf(c, n, total, budget2)
           sum == SumIn(s, n, 1..n)
           sum2 == SumIn(s2, n, 1..n)
<1>1. money \in Nat /\ money2 \in Nat
  BY DEF CoversRounding
<1>2. AfterSmall(small2, joining, n, money2)
  BY <1>1, SmallStage
<1> HIDE DEF small, small2, c
<1> HIDE DEF total
<1> HIDE DEF budget, budget2
<1>3. SharedBook(small, n, joining, n, s, money) /\ c \in [1..n -> Nat] /\ budget \in Nat /\ budget <= total
  BY <1>1, SmallShares DEF small, c, total, budget
<1>4. SharedBook(small2, n, joining, n, s2, money2) /\ budget2 \in Nat /\ budget2 <= total
  BY <1>1, SmallShares DEF small2, c, total, budget2
<1>5. total \in Nat /\ \A i \in 1..n : c[i] <= total
  <2>1. n <= n
    OBVIOUS
  <2> QED
    BY <1>3, <2>1, SumOfNaturals DEF total
<1>6. /\ budget <= budget2 /\ (money = 0 => budget = 0)
      /\ (money # 0 => budget2 - budget + n <= money2 - money)
  BY <1>5, BudgetGrows DEF budget, budget2
<1>7. s \in [1..n -> Nat] /\ sum \in Nat /\ sum <= budget /\ budget <= sum + n
  BY <1>3, SharesTogether DEF total
<1>8. s2 \in [1..n -> Nat] /\ sum2 \in Nat /\ sum2 <= budget2
  BY <1>3, <1>4, SharesTogether DEF total
<1>9. \A i \in 1..n : s[i] <= s2[i]
  <2> TAKE i \in 1..n
  <2>1. c[i] \in Nat /\ c[i] <= total
    BY <1>3, <1>5
  <2>2. ShareOf(c[i], total, budget) <= ShareOf(c[i], total, budget2)
    BY <1>3, <1>4, <1>5, <1>6, <2>1, ShareGrows
  <2> QED
    BY <2>2 DEF SharesOf
<1> HIDE DEF s, s2
<1>10. small.left = money - sum /\ small2.left = money2 - sum2
  BY <1>3, <1>4 DEF SharedBook
<1>11. \A i \in 1..n : Got12(small, joining[i].id) <= Got12(small2, joining[i].id)
  <2>1. \A i \in 1..n : i <= n
    OBVIOUS
  <2>2. \A i \in 1..n : Got12(small, joining[i].id) = s[i] /\ Got12(small2, joining[i].id) = s2[i]
    BY <1>3, <1>4, <2>1 DEF SharedBook
  <2> QED
    BY <1>9, <2>2
<1> HIDE DEF sum, sum2
<1>12. small.left <= small2.left
  <2>1. CASE money = 0
    <3>1. sum = 0
      BY <1>3, <1>6, <1>7, <2>1
    <3>2. small.left = 0
      BY <1>10, <2>1, <3>1
    <3>3. small2.left >= 0
      BY <1>2 DEF AfterSmall
    <3> QED
      BY <3>2, <3>3
  <2>2. CASE money # 0
    <3>1. budget2 - budget + n <= money2 - money
      BY <1>6, <2>2
    <3>2. money - sum <= money2 - sum2
      BY <1>1, <1>3, <1>4, <1>7, <1>8, <3>1
    <3> QED
      BY <1>10, <3>2
  <2> QED
    BY <2>1, <2>2
<1>13. BetterStage(small, small2, joining, n)
  BY <1>11, <1>12 DEF BetterStage
<1> QED
  BY <1>13 DEF small, small2

\* Two files that differ in the price only.
Dearer(f, g, step) ==
  /\ g.rights = f.rights /\ g.tenants = f.tenants /\ g.taxes = f.taxes /\ g.region = f.region
  /\ g.deadline = f.deadline /\ g.decided = f.decided /\ g.cost = f.cost
  /\ f.sale \in Int /\ g.sale = f.sale + step
FewTenants(f, step) == \E k \in Nat : DOMAIN f.tenants = 1..k /\ 2 * k < step

LEMMA DearerClaimants ==
  ASSUME NEW f \in SaleFiles, IdsApart(f), NEW g, NEW step, Dearer(f, g, step)
  PROVE  SameClaimants(f, g)
<1>1. PICK m \in Nat : f.taxes \in [1..m -> TaxRows]
  BY FileTyped
<1>2. MoreTaxes(f.taxes, f.taxes, m)
  BY <1>1 DEF MoreTaxes, Learned
<1> QED
  BY <1>2 DEF SameClaimants, Dearer

LEMMA FewJoin ==
  ASSUME NEW f \in SaleFiles, IdsApart(f), NEW step \in Nat, FewTenants(f, step),
         NEW n \in Nat, NEW joining, joining = Join(f.tenants, f.deadline), DOMAIN joining = 1..n
  PROVE  2 * n < step
<1>1. PICK k \in Nat : f.tenants \in [1..k -> Tenants] /\ DistinctIds(f.tenants, k)
  BY FileTyped
<1>2. PICK h \in Nat : DOMAIN f.tenants = 1..h /\ 2 * h < step
  BY DEF FewTenants
<1>3. h = k
  <2>1. 1..h = 1..k
    BY <1>1, <1>2
  <2> QED
    BY <2>1, SameLength
<1>4. JoinedFrom(joining, k, f.tenants)
  BY <1>1, JoinsDistinct
<1>5. joining \in Seq(Tenants) /\ Len(joining) <= k
  BY <1>4 DEF JoinedFrom
<1>6. Len(joining) = n
  <2>1. Len(joining) \in Nat /\ 1..Len(joining) = 1..n
    BY <1>5
  <2> QED
    BY <2>1, SameLength
<1> QED
  BY <1>2, <1>3, <1>5, <1>6

LEMMA HigherStages ==
  ASSUME NEW f \in SaleFiles, IdsApart(f), NEW g, NEW step \in Nat, Dearer(f, g, step),
         FewTenants(f, step)
  PROVE  StagesBetter(f, g)
<1> SUFFICES ASSUME NEW joining, NEW n, NEW rule, NEW l, NEW m, NEW money, NEW money2,
                    Setting(f, joining, n, rule, l, m, money),
                    Setting(g, joining, n, rule, l, m, money2)
             PROVE  BetterStage(TaxedOf(f, joining, rule, money), TaxedOf(g, joining, rule, money2),
                                joining, n)
  BY DEF StagesBetter
<1> DEFINE small == PaySmallDeposits(StartBook(money), joining, rule, f.region)
           small2 == PaySmallDeposits(StartBook(money2), joining, rule, f.region)
           taxIds == {f.taxes[i].id : i \in 1..m}
           sorted == ByDueDate(f.taxes)
           applies == ReliefApplies(f.decided)
<1>1. /\ n \in Nat /\ joining \in [1..n -> Tenants] /\ money \in Nat
      /\ f.region \in 1..4 /\ (n > 0 => rule \in Tables)
      /\ Apart(joining, n, f.rights, l, f.taxes, m) /\ OwnIds(joining, n, taxIds)
      /\ money = Most(0, f.sale - f.cost) /\ joining = Join(f.tenants, f.deadline)
      /\ DOMAIN joining = 1..n
  BY DEF Setting
<1>2. DistinctIds(joining, n) /\ m \in Nat /\ f.taxes \in [1..m -> TaxRows]
  BY <1>1 DEF Apart
<1>3. money2 \in Nat /\ money2 = Most(0, (f.sale + step) - f.cost)
  BY DEF Setting, Dearer
<1>4. 2 * n < step
  BY <1>1, FewJoin
<1>5. CoversRounding(money, money2, n)
  <2>1. f.sale \in Int /\ f.cost \in Int
    BY DEF Dearer, SaleFiles
  <2> QED
    BY <1>1, <1>3, <1>4, <2>1 DEF CoversRounding, Most
<1>6. BetterStage(small, small2, joining, n)
  BY <1>1, <1>2, <1>5, BetterSmall
<1>7. AfterSmall(small, joining, n, money) /\ AfterSmall(small2, joining, n, money2)
  BY <1>1, <1>2, <1>3, SmallStage
<1>8. sorted \in [1..m -> TaxRows] /\ \A i \in 1..m : sorted[i].id \in taxIds
  BY <1>2, TaxesByDueDate
<1>9. /\ TaxedOf(f, joining, rule, money) = PayTaxes(small, sorted, joining, applies)
      /\ TaxedOf(g, joining, rule, money2) = PayTaxes(small2, sorted, joining, applies)
  BY DEF TaxedOf, Dearer
<1> HIDE DEF small, small2, taxIds, sorted, applies
<1>10. TaxedBook(small, joining, n, taxIds, money) /\ TaxedBook(small2, joining, n, taxIds, money2)
  BY <1>7, SmallThenTaxes
<1>11. MoreLeft(small, small2, joining, n, taxIds, money, money2)
  BY <1>6, <1>10 DEF MoreLeft
<1>12. MoreLeft(PayTaxes(small, sorted, joining, applies), PayTaxes(small2, sorted, joining, applies),
                joining, n, taxIds, money, money2)
  <2>1. money \in Int /\ money2 \in Int
    BY <1>1, <1>3
  <2> QED
    BY <1>1, <1>2, <1>8, <1>11, <2>1, BetterTaxes
<1> QED
  BY <1>9, <1>12 DEF MoreLeft

-----------------------------------------------------------------------------
\* A price is raised.

TenantsAreFew == FewTenants(file, PriceStep)

LEMMA TenantsStay ==
  ASSUME AnalysisInv, AnalysisNext
  PROVE  DOMAIN file'.tenants = DOMAIN file.tenants
<1>1. DOMAIN file = {"rights", "tenants", "taxes", "region", "deadline", "decided", "sale", "cost",
                     "kind", "changes"}
  BY DEF AnalysisInv, SaleFiles
<1>2. CASE RaiseSale
  <2>1. \E sale : file' = [[file EXCEPT !.sale = sale] EXCEPT !.changes = @ + 1]
    BY <1>2 DEF RaiseSale, Change
  <2> QED
    BY <1>1, <2>1
<1>3. CASE FileDemand
  <2>1. PICK i \in DOMAIN file.tenants, day \in DemandDays :
          file' = [[file EXCEPT !.tenants[i].demanded = TRUE, !.tenants[i].demandedOn = day]
                     EXCEPT !.changes = @ + 1]
    BY <1>3 DEF FileDemand, Change
  <2> DEFINE row == [file.tenants[i] EXCEPT !.demanded = TRUE, !.demandedOn = day]
             new == [file.tenants EXCEPT ![i] = row]
  <2>2. file' = [[file EXCEPT !.tenants = new] EXCEPT !.changes = @ + 1]
    BY <2>1
  <2>3. DOMAIN new = DOMAIN file.tenants
    OBVIOUS
  <2> HIDE DEF new
  <2> QED
    BY <1>1, <2>2, <2>3
<1>4. CASE LearnTax
  <2>1. \E new : file' = [[file EXCEPT !.taxes = new] EXCEPT !.changes = @ + 1]
    BY <1>4 DEF LearnTax, Change
  <2> QED
    BY <1>1, <2>1
<1>5. CASE RaiseDeposit
  <2>1. \E i, row : file' = [[file EXCEPT !.tenants = [file.tenants EXCEPT ![i] = row]] EXCEPT !.changes = @ + 1]
    BY <1>5 DEF RaiseDeposit, Change
  <2> QED
    BY <1>1, <2>1
<1> QED
  BY <1>2, <1>3, <1>4, <1>5 DEF AnalysisNext

LEMMA PriceRaised ==
  ASSUME AnalysisInv, RaiseSale, Distributed
  PROVE  Dearer(file, file', PriceStep) /\ file'.sale # Absent
<1>1. file \in SaleFiles /\ file.sale # Absent /\ file.sale \in Int
  BY DEF AnalysisInv, SaleFiles, Distributed
<1> DEFINE sale == file.sale + PriceStep
<1>2. file' = [[file EXCEPT !.sale = sale] EXCEPT !.changes = @ + 1]
  BY <1>1 DEF RaiseSale, Change
<1>3. DOMAIN file = {"rights", "tenants", "taxes", "region", "deadline", "decided", "sale", "cost",
                     "kind", "changes"}
  BY <1>1 DEF SaleFiles
<1>4. sale # Absent
  BY <1>1, AbsentAssumption, ChangesAssumption
<1> HIDE DEF sale
<1>5. /\ file'.sale = sale /\ file'.rights = file.rights /\ file'.tenants = file.tenants
      /\ file'.taxes = file.taxes /\ file'.region = file.region /\ file'.deadline = file.deadline
      /\ file'.decided = file.decided /\ file'.cost = file.cost
  BY <1>2, <1>3
<1> QED
  BY <1>1, <1>4, <1>5 DEF Dearer, sale

LEMMA PriceHelps ==
  ASSUME AnalysisInv, TenantsAreFew, AnalysisNext, RaiseSale, Distributed, ~analysis'.failed
  PROVE  /\ \A i \in DOMAIN file.tenants :
              /\ analysis'.tenants[i].assumed <= analysis.tenants[i].assumed
              /\ PaidTo(analysis', file.tenants[i].id) >= PaidTo(analysis, file.tenants[i].id)
         /\ \A i \in DOMAIN file.rights :
              PaidTo(analysis', file.rights[i].id) >= PaidTo(analysis, file.rights[i].id)
<1>1. /\ file \in SaleFiles /\ IdsApart(file) /\ analysis = Analyze(file)
      /\ file' \in SaleFiles /\ IdsApart(file') /\ analysis' = Analyze(file')
      /\ file.sale # Absent /\ ~analysis.failed
  BY FilesStayTyped DEF AnalysisInv, AnalysisNext, Distributed
<1>2. Dearer(file, file', PriceStep) /\ file'.sale # Absent
  BY PriceRaised
<1> DEFINE f == file
           g == file'
           a == analysis
           c == analysis'
<1>3. /\ f \in SaleFiles /\ IdsApart(f) /\ a = Analyze(f) /\ ~a.failed /\ f.sale # Absent
      /\ g \in SaleFiles /\ IdsApart(g) /\ c = Analyze(g) /\ ~c.failed /\ g.sale # Absent
      /\ Dearer(f, g, PriceStep) /\ FewTenants(f, PriceStep) /\ PriceStep \in Nat
  BY <1>1, <1>2, ChangesAssumption DEF TenantsAreFew
<1> HIDE DEF f, g, a, c
<1>4. SameClaimants(f, g)
  BY <1>3, DearerClaimants
<1>5. StagesBetter(f, g)
  BY <1>3, HigherStages
<1>6. BetterReport(f, a, c)
  BY <1>3, <1>4, <1>5, ReportsBetter
<1>7. /\ \A i \in DOMAIN f.tenants : /\ c.tenants[i].assumed <= a.tenants[i].assumed
                                    /\ PaidTo(c, f.tenants[i].id) >= PaidTo(a, f.tenants[i].id)
      /\ \A i \in DOMAIN f.rights : PaidTo(c, f.rights[i].id) >= PaidTo(a, f.rights[i].id)
  BY <1>6 DEF BetterReport
<1> QED
  BY <1>7 DEF f, a, c

\* Every raise of the price is more than twice the number of tenants.  Shares of
\* the small deposits are rounded down, so a smaller raise may all go to them.
RaisesCoverRounding == \A f \in Files : 2 * Len(f.tenants) < PriceStep

\* A price that rises by more than the rounding hurts nobody, through all three
\* stages and whatever the file (distribution.ts, rights-analysis.service.ts).
THEOREM HigherPricesHelp ==
  ASSUME RaisesCoverRounding
  PROVE  AnalysisSpec => HigherPriceHurtsNobody
<1>1. AnalysisSpec => []AnalysisInv
  BY FileStaysAnalysed
<1>2. AnalysisInit => TenantsAreFew
  <2> SUFFICES ASSUME AnalysisInit PROVE TenantsAreFew
    OBVIOUS
  <2>1. file \in Files /\ 2 * Len(file.tenants) < PriceStep
    BY DEF AnalysisInit, RaisesCoverRounding
  <2>2. file \in SaleFiles
    BY <2>1, FilesAssumption
  <2>3. file.tenants \in Seq(Tenants)
    BY <2>2 DEF SaleFiles
  <2>4. Len(file.tenants) \in Nat /\ DOMAIN file.tenants = 1..Len(file.tenants)
    BY <2>3
  <2> QED
    BY <2>1, <2>4 DEF TenantsAreFew, FewTenants
<1>3. AnalysisInv /\ TenantsAreFew /\ [AnalysisNext]_analysisVars => TenantsAreFew'
  <2>1. AnalysisInv /\ TenantsAreFew /\ AnalysisNext => TenantsAreFew'
    BY TenantsStay DEF TenantsAreFew, FewTenants
  <2>2. TenantsAreFew /\ UNCHANGED analysisVars => TenantsAreFew'
    BY DEF TenantsAreFew, FewTenants, analysisVars
  <2> QED
    BY <2>1, <2>2
<1>4. AnalysisInv /\ TenantsAreFew /\ [AnalysisNext]_analysisVars =>
        [RaiseSale /\ Distributed /\ ~analysis'.failed =>
           /\ \A i \in DOMAIN file.tenants :
                /\ analysis'.tenants[i].assumed <= analysis.tenants[i].assumed
                /\ PaidTo(analysis', file.tenants[i].id) >= PaidTo(analysis, file.tenants[i].id)
           /\ \A i \in DOMAIN file.rights :
                PaidTo(analysis', file.rights[i].id) >= PaidTo(analysis, file.rights[i].id)]_analysisVars
  BY PriceHelps
<1> QED
  BY <1>1, <1>2, <1>3, <1>4, PTL DEF AnalysisSpec, HigherPriceHurtsNobody

=============================================================================

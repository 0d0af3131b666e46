------------------------ MODULE RecommendationProofs ------------------------
(***************************************************************************)
(* What holds of every recommendation, for any containers, any history of  *)
(* usage, any policy and any way floating point rounds.                    *)
(*                                                                         *)
(* The invariant says little: samples are finite sets of naturals, and a   *)
(* result was computed from the samples that are there.  The work is in    *)
(* the arithmetic, from the k-th sample in order and the sum of samples,   *)
(* for which induction is over a set of naturals, to a rounded value.      *)
(***************************************************************************)
EXTENDS Recommendation, FiniteSetTheorems, TLAPS

(***************************************************************************)
(* Naturals and finite sets of them                                        *)
(***************************************************************************)

\* Every set of naturals that is not empty has a least member.
LEMMA LeastNatural ==
    ASSUME NEW S \in SUBSET Nat, S # {}
    PROVE  /\ Min(S) \in S
           /\ \A y \in S : Min(S) <= y
<1>1. PICK x \in S : \A y \in S : ~(<<y, x>> \in OpToRel(<, Nat))
  BY NatLessThanWellFounded, WFMin
<1>2. \A y \in S : x <= y
  <2> SUFFICES ASSUME NEW y \in S, y < x PROVE FALSE
    BY SMT
  <2>1. <<y, x>> \in OpToRel(<, Nat)
    BY DEF OpToRel
  <2> QED BY <1>1, <2>1
<1> QED BY <1>2 DEF Min

\* Induction, over a set: one with 0 and the successor of each of its members has all naturals.
LEMMA AllNaturals ==
    ASSUME NEW T, 0 \in T, \A n \in Nat : n \in T => n + 1 \in T
    PROVE  Nat \subseteq T
<1> DEFINE Rest == Nat \ T
<1> SUFFICES ASSUME Rest # {} PROVE FALSE
  OBVIOUS
<1>1. Min(Rest) \in Rest /\ \A y \in Rest : Min(Rest) <= y
  BY LeastNatural
<1>2. PICK n \in Rest : \A y \in Rest : n <= y
  BY <1>1
<1> HIDE DEF Rest
<1>3. n \in Nat /\ n # 0 /\ n \notin T
  BY DEF Rest
<1>4. n - 1 \in Nat /\ n - 1 \in T
  BY <1>2, <1>3 DEF Rest
<1>5. (n - 1) + 1 \in T
  BY <1>4
<1> QED BY <1>3, <1>5

\* A finite set of naturals has a bound.
LEMMA FiniteBounded ==
    ASSUME NEW S \in SUBSET Nat, IsFiniteSet(S)
    PROVE  \E b \in Nat : \A s \in S : s <= b
<1> DEFINE Bounded(R) == \E b \in Nat : \A s \in R : s <= b
           T == {n \in Nat : \A R \in SUBSET Nat : IsFiniteSet(R) /\ Cardinality(R) = n => Bounded(R)}
<1>1. 0 \in T
  <2> SUFFICES ASSUME NEW R \in SUBSET Nat, IsFiniteSet(R), Cardinality(R) = 0 PROVE Bounded(R)
    OBVIOUS
  <2>1. R = {}
    BY FS_EmptySet
  <2> QED BY <2>1
<1>2. ASSUME NEW n \in Nat, n \in T PROVE n + 1 \in T
  <2> SUFFICES ASSUME NEW R \in SUBSET Nat, IsFiniteSet(R), Cardinality(R) = n + 1 PROVE Bounded(R)
    OBVIOUS
  <2> HIDE DEF T
  <2>0. R # {}
    BY FS_EmptySet, n + 1 # 0
  <2>1. PICK x \in R : TRUE
    BY <2>0
  <2>2. IsFiniteSet(R \ {x}) /\ Cardinality(R \ {x}) = n
    <3>1. Cardinality(R \ {x}) = Cardinality(R) - 1 /\ IsFiniteSet(R \ {x})
      BY FS_RemoveElement
    <3> QED BY <3>1
  <2> USE DEF T
  <2>3. PICK b \in Nat : \A s \in R \ {x} : s <= b
    BY <1>2, <2>2
  <2>4. b + x \in Nat /\ x <= b + x /\ \A s \in R \ {x} : s <= b + x
    BY <2>3
  <2>5. \A s \in R : s <= b + x
    BY <2>4
  <2> QED BY <2>4, <2>5
<1>3. Nat \subseteq T
  <2> HIDE DEF T
  <2> QED BY <1>1, <1>2, AllNaturals
<1>4. Cardinality(S) \in Nat
  BY FS_CardinalityType
<1> QED BY <1>3, <1>4

\* A finite set of naturals that is not empty has a greatest member.
LEMMA GreatestNatural ==
    ASSUME NEW S \in SUBSET Nat, S # {}, IsFiniteSet(S)
    PROVE  /\ Max(S) \in S
           /\ \A y \in S : y <= Max(S)
<1> DEFINE B == {b \in Nat : \A s \in S : s <= b}
<1>1. B # {} /\ B \in SUBSET Nat
  BY FiniteBounded
<1>2. PICK m \in B : \A b \in B : m <= b
  <2> HIDE DEF B
  <2> QED BY <1>1, LeastNatural
<1>3. m \in S
  <2> SUFFICES ASSUME m \notin S PROVE FALSE
    OBVIOUS
  <2>1. m \in Nat /\ \A s \in S : s < m
    BY <1>2
  <2>2. m - 1 \in Nat /\ \A s \in S : s <= m - 1
    <3>1. PICK s \in S : s < m
      BY <2>1
    <3>2. m # 0
      BY <3>1
    <3>3. \A x \in S : x \in Nat /\ x < m
      BY <2>1
    <3> QED BY <2>1, <3>2, <3>3
  <2>3. m - 1 \in B
    BY <2>2
  <2>4. m <= m - 1
    BY <1>2, <2>3
  <2> QED BY <2>1, <2>4
<1>4. \A y \in S : m >= y
  BY <1>2
<1>5. PICK x \in S : x = Max(S) /\ \A y \in S : x >= y
  BY <1>3, <1>4 DEF Max
<1>6. \A y \in S : y <= x
  BY <1>5
<1> QED BY <1>5, <1>6

(***************************************************************************)
(* Sums                                                                    *)
(***************************************************************************)

Pick(s) == CHOOSE x \in s : TRUE

\* The function that the fold behind Sum defines.
SumsOf(S, g) ==
    g = [s \in SUBSET S |-> IF s = {} THEN 0 ELSE Pick(s).value + g[s \ {Pick(s)}]]

\* The cardinalities of the subsets of a finite set.
LEMMA Subsets ==
    ASSUME NEW S, IsFiniteSet(S), NEW s \in SUBSET S
    PROVE  /\ IsFiniteSet(s) /\ Cardinality(s) \in Nat
           /\ Cardinality(s) = 0 => s = {}
           /\ s # {} => /\ Pick(s) \in s /\ s \ {Pick(s)} \in SUBSET S
                        /\ Cardinality(s) # 0
                        /\ Cardinality(s \ {Pick(s)}) = Cardinality(s) - 1
<1>1. IsFiniteSet(s)
  BY FS_Subset
<1>2. Cardinality(s) \in Nat
  BY <1>1, FS_CardinalityType
<1>3. Cardinality(s) = 0 <=> s = {}
  BY <1>1, FS_EmptySet
<1>4. ASSUME s # {} PROVE Pick(s) \in s
  BY <1>4 DEF Pick
<1>5. ASSUME s # {} PROVE Cardinality(s \ {Pick(s)}) = Cardinality(s) - 1
  BY <1>1, <1>4, <1>5, FS_RemoveElement
<1> QED BY <1>1, <1>2, <1>3, <1>4, <1>5

\* It exists.
LEMMA SumIsDefined ==
    ASSUME NEW S, IsFiniteSet(S), \A s \in S : s.value \in Nat
    PROVE  \E g : SumsOf(S, g)
<1> DEFINE Upto(n) == {s \in SUBSET S : Cardinality(s) <= n}
           Body(g, s) == IF s = {} THEN 0 ELSE Pick(s).value + g[s \ {Pick(s)}]
           Defined(n) == \E g \in [Upto(n) -> Nat] : \A s \in Upto(n) : g[s] = Body(g, s)
           T == {n \in Nat : Defined(n)}
<1>1. ASSUME NEW n \in Nat, NEW s \in Upto(n + 1), s # {}
      PROVE  Pick(s).value \in Nat /\ s \ {Pick(s)} \in Upto(n)
  <2>1. /\ Pick(s) \in S /\ s \ {Pick(s)} \in SUBSET S
        /\ Cardinality(s) \in Nat /\ Cardinality(s \ {Pick(s)}) = Cardinality(s) - 1
    BY <1>1, Subsets
  <2> QED BY <2>1
<1>2. 0 \in T
  <2> DEFINE g == [s \in Upto(0) |-> 0]
  <2>1. ASSUME NEW s \in Upto(0) PROVE s = {}
    <3>1. Cardinality(s) \in Nat /\ Cardinality(s) <= 0
      BY Subsets
    <3>2. Cardinality(s) = 0
      BY <3>1
    <3> QED BY <3>2, Subsets
  <2>2. \A s \in Upto(0) : g[s] = Body(g, s)
    BY <2>1
  <2>3. g \in [Upto(0) -> Nat]
    OBVIOUS
  <2> QED BY <2>2, <2>3
<1>3. ASSUME NEW n \in Nat, n \in T PROVE n + 1 \in T
  <2>1. PICK g \in [Upto(n) -> Nat] : \A s \in Upto(n) : g[s] = Body(g, s)
    BY <1>3
  <2> DEFINE h == [s \in Upto(n + 1) |-> Body(g, s)]
  <2> HIDE DEF T
  <2>2. \A s \in Upto(n + 1) : Body(g, s) \in Nat
    <3> SUFFICES ASSUME NEW s \in Upto(n + 1) PROVE Body(g, s) \in Nat
      OBVIOUS
    <3>1. CASE s = {}
      BY <3>1
    <3>2. CASE s # {}
      <4>1. Pick(s).value \in Nat /\ s \ {Pick(s)} \in Upto(n)
        BY <1>1, <3>2
      <4>2. g[s \ {Pick(s)}] \in Nat
        BY <4>1
      <4> QED BY <3>2, <4>1, <4>2
    <3> QED BY <3>1, <3>2
  <2>3. h \in [Upto(n + 1) -> Nat]
    BY <2>2
  <2>4. \A s \in Upto(n) : s \in Upto(n + 1) /\ h[s] = g[s]
    <3> SUFFICES ASSUME NEW s \in Upto(n) PROVE s \in Upto(n + 1) /\ h[s] = g[s]
      OBVIOUS
    <3>1. Cardinality(s) \in Nat
      BY Subsets
    <3>2. s \in Upto(n + 1)
      BY <3>1
    <3> QED BY <2>1, <3>2
  <2>5. \A s \in Upto(n + 1) : h[s] = Body(h, s)
    <3> SUFFICES ASSUME NEW s \in Upto(n + 1) PROVE h[s] = Body(h, s)
      OBVIOUS
    <3>1. CASE s = {}
      BY <3>1
    <3>2. CASE s # {}
      <4>1. h[s \ {Pick(s)}] = g[s \ {Pick(s)}]
        BY <1>1, <2>4, <3>2
      <4> QED BY <3>2, <4>1
    <3> QED BY <3>1, <3>2
  <2> HIDE DEF h
  <2>6. Defined(n + 1)
    BY <2>3, <2>5
  <2> HIDE DEF Defined
  <2> QED BY <2>6 DEF T
<1>4. Nat \subseteq T
  <2> HIDE DEF T
  <2> QED BY <1>2, <1>3, AllNaturals
<1>5. Cardinality(S) \in Nat
  BY FS_CardinalityType
<1>6. PICK g \in [Upto(Cardinality(S)) -> Nat] :
          \A s \in Upto(Cardinality(S)) : g[s] = Body(g, s)
  BY <1>4, <1>5
<1>7. Upto(Cardinality(S)) = SUBSET S
  BY FS_Subset
<1>8. g = [s \in SUBSET S |-> Body(g, s)]
  BY <1>6, <1>7
<1> QED BY <1>8 DEF SumsOf

\* The sum of values that are at most m.
LEMMA SumBounded ==
    ASSUME NEW S, IsFiniteSet(S), NEW m \in Nat, \A s \in S : s.value \in Nat /\ s.value <= m
    PROVE  /\ Sum(S) \in Nat
           /\ Sum(S) <= m * Cardinality(S)
<1> DEFINE G == CHOOSE g : SumsOf(S, g)
           T == {n \in Nat : \A s \in SUBSET S : Cardinality(s) = n => G[s] \in Nat /\ G[s] <= m * n}
<1>1. Sum(S) = G[S]
  BY DEF Sum, MapThenSumSet, MapThenFoldSet, SumsOf, Pick
<1>2. SumsOf(S, G)
  BY SumIsDefined
<1> HIDE DEF G
<1>3. \A s \in SUBSET S : G[s] = IF s = {} THEN 0 ELSE Pick(s).value + G[s \ {Pick(s)}]
  BY <1>2 DEF SumsOf
<1>4. 0 \in T
  <2> SUFFICES ASSUME NEW s \in SUBSET S, Cardinality(s) = 0 PROVE G[s] \in Nat /\ G[s] <= m * 0
    OBVIOUS
  <2>1. s = {}
    BY Subsets
  <2>2. G[s] = 0
    BY <1>3, <2>1
  <2>3. m * 0 = 0
    OBVIOUS
  <2> QED BY <2>2, <2>3
<1>5. ASSUME NEW n \in Nat, n \in T PROVE n + 1 \in T
  <2> SUFFICES ASSUME NEW s \in SUBSET S, Cardinality(s) = n + 1
               PROVE  G[s] \in Nat /\ G[s] <= m * (n + 1)
    OBVIOUS
  <2>1. s # {}
    BY FS_EmptySet, n + 1 # 0
  <2>2. /\ Pick(s) \in S /\ s \ {Pick(s)} \in SUBSET S
        /\ Cardinality(s \ {Pick(s)}) = n
    BY <2>1, Subsets
  <2>3. G[s \ {Pick(s)}] \in Nat /\ G[s \ {Pick(s)}] <= m * n
    BY <1>5, <2>2
  <2>4. G[s] = Pick(s).value + G[s \ {Pick(s)}] /\ Pick(s).value \in Nat /\ Pick(s).value <= m
    BY <1>3, <2>1, <2>2
  <2>5. m * (n + 1) = m * n + m /\ m * n \in Nat
    OBVIOUS
  <2> QED BY <2>3, <2>4, <2>5
<1>6. Nat \subseteq T
  <2> HIDE DEF T
  <2> QED BY <1>4, <1>5, AllNaturals
<1>7. Cardinality(S) \in Nat
  BY FS_CardinalityType
<1> QED BY <1>1, <1>6, <1>7

(***************************************************************************)
(* Rounding                                                                *)
(***************************************************************************)

\* Multiplying by a natural keeps the order.
LEMMA Monotone ==
    ASSUME NEW d \in Nat, NEW a \in Int, NEW b \in Int, a <= b
    PROVE  d * a <= d * b /\ a * d <= b * d
<1>1. PICK k \in Nat : b = a + k
  BY b - a \in Nat, b = a + (b - a)
<1>2. d * b = d * a + d * k /\ d * k \in Nat
  BY <1>1
<1>3. a * d = d * a /\ b * d = d * b
  OBVIOUS
<1> QED BY <1>2, <1>3

\* A positive factor can be cancelled.
LEMMA Cancel ==
    ASSUME NEW d \in Nat \ {0}, NEW a \in Int, NEW b \in Int, d * a < d * b
    PROVE  a < b
<1> SUFFICES ASSUME b <= a PROVE FALSE
  OBVIOUS
<1>1. d * b <= d * a
  BY Monotone
<1>2. d * a \in Int /\ d * b \in Int
  OBVIOUS
<1> QED BY <1>1, <1>2

\* Quotient and rest of a division.
LEMMA Quotient ==
    ASSUME NEW n \in Nat, NEW d \in Nat \ {0}
    PROVE  /\ n \div d \in Nat /\ n % d \in Nat /\ n % d < d
           /\ n = d * (n \div d) + (n % d)
<1>1. n = d * (n \div d) + (n % d) /\ n \div d \in Int
  OBVIOUS
<1>2. n % d \in 0 .. d - 1
  OBVIOUS
<1>3. d * (-1) < d * (n \div d)
  BY <1>1, <1>2
<1>4. -1 < n \div d
  BY <1>1, <1>3, Cancel
<1> QED BY <1>1, <1>2, <1>4

\* Rounding up, exactly or a trifle above a whole number.
LEMMA CeilBounds ==
    ASSUME NEW n \in Nat, NEW d \in Nat \ {0}, NEW noise
    PROVE  /\ Ceil(n, d, noise) \in Nat
           /\ d * Ceil(n, d, noise) >= n
           /\ Ceil(n, d, noise) <= (n \div d) + 1
           /\ n = 0 => Ceil(n, d, noise) = 0
           /\ n > 0 => Ceil(n, d, noise) > 0
<1> DEFINE a == n \div d
           q == CeilDiv(n, d)
<1>1. a \in Nat /\ n = d * a + (n % d) /\ n % d \in Nat /\ n % d < d
  BY Quotient
<1>2. n + d - 1 \in Nat
  OBVIOUS
<1>3. PICK r \in Nat : q \in Nat /\ r < d /\ n + d - 1 = d * q + r
  <2>1. q = (n + d - 1) \div d
    BY DEF CeilDiv
  <2> HIDE DEF q
  <2>2. q \in Nat /\ (n + d - 1) % d \in Nat /\ (n + d - 1) % d < d /\ n + d - 1 = d * q + ((n + d - 1) % d)
    BY <1>2, <2>1, Quotient
  <2> QED BY <2>2
<1>4. d * q \in Nat /\ d * a \in Nat /\ d * (a + 1) = d * a + d /\ d * (a + 2) = d * a + d + d
  BY <1>1, <1>3
<1> HIDE DEF a, q
<1>5. d * q >= n
  BY <1>3, <1>4
<1>6. d * q < d * (a + 2)
  BY <1>1, <1>3, <1>4
<1>7. q < a + 2
  BY <1>1, <1>3, <1>6, Cancel
<1>8. n = 0 => q = 0
  <2> SUFFICES ASSUME n = 0 PROVE q < 1
    BY <1>3
  <2>1. d * q < d * 1
    BY <1>3, <1>4
  <2> QED BY <1>3, <2>1, Cancel
<1>9. n > 0 => q > 0
  <2> SUFFICES ASSUME n > 0, q = 0 PROVE FALSE
    BY <1>3
  <2>1. d * q = 0
    OBVIOUS
  <2> QED BY <1>5, <2>1
<1>10. CASE noise /\ n > 0 /\ n % d = 0
  <2>1. Ceil(n, d, noise) = a + 1
    BY <1>10 DEF Ceil, a
  <2>2. d * (a + 1) >= n
    BY <1>1, <1>4
  <2>3. /\ Ceil(n, d, noise) \in Nat /\ d * Ceil(n, d, noise) >= n
        /\ Ceil(n, d, noise) <= a + 1 /\ Ceil(n, d, noise) > 0
    BY <1>1, <2>1, <2>2
  <2>4. a = n \div d /\ n # 0
    BY <1>10 DEF a
  <2> QED BY <2>3, <2>4
<1>11. CASE ~(noise /\ n > 0 /\ n % d = 0)
  <2>1. Ceil(n, d, noise) = q
    BY <1>11 DEF Ceil, q
  <2> QED BY <1>1, <1>3, <1>5, <1>7, <1>8, <1>9, <2>1 DEF a
<1> QED BY <1>10, <1>11

\* The least multiple that is not below a value.
LEMMA RoundedUp ==
    ASSUME NEW v \in Nat, NEW step \in {10, 50, 32, 128}
    PROVE  /\ roundUp(v, step) \in Nat
           /\ roundUp(v, step) % step = 0
           /\ roundUp(v, step) >= v
           /\ roundUp(v, step) < v + step
           /\ v = 0 => roundUp(v, step) = 0
<1>1. CASE step = 10
  BY <1>1 DEF roundUp, CeilDiv
<1>2. CASE step = 50
  BY <1>2 DEF roundUp, CeilDiv
<1>3. CASE step = 32
  BY <1>3 DEF roundUp, CeilDiv
<1>4. CASE step = 128
  BY <1>4 DEF roundUp, CeilDiv
<1> QED BY <1>1, <1>2, <1>3, <1>4

\* A rounded value is a multiple of the step of its own size and stays below what a larger
\* value and its step come to.
LEMMA RoundedResource ==
    ASSUME NEW r \in Resources, NEW v \in Nat
    PROVE  /\ roundResource(r, v) \in Nat
           /\ roundResource(r, v) >= v
           /\ roundResource(r, v) % Step(r, roundResource(r, v)) = 0
           /\ v = 0 => roundResource(r, v) = 0
           /\ \A m \in Nat : v <= m => roundResource(r, v) < m + Step(r, m)
<1>1. CASE r = "cpu" /\ v <= 100
  <2>1. roundResource(r, v) = roundUp(v, 10)
    BY <1>1 DEF roundResource
  <2>2. \A x \in Nat : Step(r, x) = IF x <= 100 THEN 10 ELSE 50
    BY <1>1 DEF Step
  <2>3. /\ roundUp(v, 10) \in Nat /\ roundUp(v, 10) % 10 = 0
        /\ roundUp(v, 10) >= v /\ roundUp(v, 10) < v + 10
        /\ v = 0 => roundUp(v, 10) = 0
    BY RoundedUp
  <2> QED BY <1>1, <2>1, <2>2, <2>3
<1>2. CASE r = "cpu" /\ v > 100
  <2>1. roundResource(r, v) = roundUp(v, 50)
    BY <1>2 DEF roundResource
  <2>2. \A x \in Nat : Step(r, x) = IF x <= 100 THEN 10 ELSE 50
    BY <1>2 DEF Step
  <2>3. /\ roundUp(v, 50) \in Nat /\ roundUp(v, 50) % 50 = 0
        /\ roundUp(v, 50) >= v /\ roundUp(v, 50) < v + 50
        /\ v = 0 => roundUp(v, 50) = 0
    BY RoundedUp
  <2> QED BY <1>2, <2>1, <2>2, <2>3
<1>3. CASE r = "memory" /\ v <= 512
  <2>1. roundResource(r, v) = roundUp(v, 32)
    BY <1>3 DEF roundResource
  <2>2. \A x \in Nat : Step(r, x) = IF x <= 512 THEN 32 ELSE 128
    BY <1>3 DEF Step
  <2>3. /\ roundUp(v, 32) \in Nat /\ roundUp(v, 32) % 32 = 0
        /\ roundUp(v, 32) >= v /\ roundUp(v, 32) < v + 32
        /\ v = 0 => roundUp(v, 32) = 0
    BY RoundedUp
  <2> QED BY <1>3, <2>1, <2>2, <2>3
<1>4. CASE r = "memory" /\ v > 512
  <2>1. roundResource(r, v) = roundUp(v, 128)
    BY <1>4 DEF roundResource
  <2>2. \A x \in Nat : Step(r, x) = IF x <= 512 THEN 32 ELSE 128
    BY <1>4 DEF Step
  <2>3. /\ roundUp(v, 128) \in Nat /\ roundUp(v, 128) % 128 = 0
        /\ roundUp(v, 128) >= v /\ roundUp(v, 128) < v + 128
        /\ v = 0 => roundUp(v, 128) = 0
    BY RoundedUp
  <2> QED BY <1>4, <2>1, <2>2, <2>3
<1> QED BY <1>1, <1>2, <1>3, <1>4 DEF Resources

\* A ratio applied: at least the product and the minimum, and not above both by more than one.
LEMMA Headroom ==
    ASSUME NEW base \in Nat, NEW ratio \in Int, NEW minimum \in Nat, NEW noise
    PROVE  LET x    == applyHeadroom(base, ratio, minimum, noise)
               used == IF ratio <= 0 THEN 100 ELSE ratio
           IN  /\ used \in Nat /\ x \in Nat /\ x >= minimum
               /\ x * 100 >= base * used
               /\ x = 0 => base = 0
               /\ x <= larger(((base * used) \div 100) + 1, minimum)
<1> DEFINE used == IF ratio <= 0 THEN 100 ELSE ratio
           n == base * used
           q == Ceil(n, 100, noise)
<1>1. used \in Nat /\ used > 0
  OBVIOUS
<1> HIDE DEF used
<1>2. n \in Nat /\ (n = 0 => base = 0)
  <2>1. n \in Nat
    BY <1>1
  <2>2. base > 0 => 1 * used <= n
    BY <1>1, Monotone
  <2> QED BY <1>1, <2>1, <2>2
<1> HIDE DEF n
<1>3. /\ q \in Nat /\ 100 * q >= n /\ q <= (n \div 100) + 1 /\ (n > 0 => q > 0)
  BY <1>2, CeilBounds
<1>4. applyHeadroom(base, ratio, minimum, noise) = larger(q, minimum)
  BY DEF applyHeadroom, used, n
<1> HIDE DEF q
<1>5. (n \div 100) \in Nat
  BY <1>2
<1>6. /\ larger(q, minimum) \in Nat /\ larger(q, minimum) >= minimum
      /\ larger(q, minimum) * 100 >= n
      /\ larger(q, minimum) = 0 => base = 0
      /\ larger(q, minimum) <= larger((n \div 100) + 1, minimum)
  BY <1>2, <1>3, <1>5 DEF larger
<1> QED BY <1>1, <1>4, <1>6 DEF used, n

(***************************************************************************)
(* Samples                                                                 *)
(***************************************************************************)

IsSamples(S) == IsFiniteSet(S) /\ S \subseteq [day : Nat, value : Nat]

\* The values of samples are a finite set of naturals.
LEMMA Values ==
    ASSUME NEW S, IsSamples(S), NEW V, V = {t.value : t \in S}
    PROVE  IsFiniteSet(V) /\ V \in SUBSET Nat /\ (S # {} => V # {})
<1> DEFINE f == [s \in S |-> s.value]
<1>1. f \in Surjection(S, V)
  BY DEF Surjection
<1>2. IsFiniteSet(V)
  BY <1>1, FS_Surjection DEF IsSamples
<1> QED BY <1>2 DEF IsSamples

\* The largest of the values.
LEMMA LargestSample ==
    ASSUME NEW S, IsSamples(S), S # {}
    PROVE  /\ Max({s.value : s \in S}) \in Nat
           /\ Max({s.value : s \in S}) \in {s.value : s \in S}
           /\ \A s \in S : s.value <= Max({t.value : t \in S})
<1> DEFINE V == {s.value : s \in S}
<1>1. V \in SUBSET Nat /\ V # {} /\ IsFiniteSet(V)
  BY Values
<1>2. Max(V) \in V /\ \A y \in V : y <= Max(V)
  <2> HIDE DEF V
  <2> QED BY <1>1, GreatestNatural
<1> QED BY <1>1, <1>2

\* The k-th value is one of the values.
LEMMA Ordered ==
    ASSUME NEW S, IsSamples(S), NEW k \in 1 .. Cardinality(S)
    PROVE  sortedValue(S, k) \in {s.value : s \in S}
<1> DEFINE V == {s.value : s \in S}
           B == {v \in V : Cardinality({s \in S : s.value <= v}) >= k}
<1>1. S # {}
  BY FS_EmptySet
<1>2. Max(V) \in V /\ \A s \in S : s.value <= Max(V)
  BY <1>1, LargestSample
<1>3. {s \in S : s.value <= Max(V)} = S
  BY <1>2
<1>4. Cardinality(S) \in Nat
  BY FS_CardinalityType DEF IsSamples
<1>5. Cardinality({s \in S : s.value <= Max(V)}) >= k
  <2> DEFINE W == {s \in S : s.value <= Max(V)}
  <2>1. W = S
    BY <1>3
  <2> HIDE DEF W
  <2>2. Cardinality(W) >= k
    BY <1>4, <2>1
  <2> QED BY <2>2 DEF W
<1>6. V \in SUBSET Nat /\ sortedValue(S, k) = Min(B)
  <2>1. V \in SUBSET Nat
    BY Values
  <2>2. sortedValue(S, k) = Min(B)
    BY DEF sortedValue
  <2> QED BY <2>1, <2>2
<1> HIDE DEF V
<1>7. Min(B) \in B
  <2>1. Max(V) \in B /\ B \in SUBSET Nat
    BY <1>2, <1>5, <1>6
  <2> HIDE DEF B
  <2> QED BY <2>1, LeastNatural
<1>8. Min(B) \in V
  BY <1>7
<1> QED BY <1>6, <1>8 DEF V

\* The places between which a percentile lies are places of the list.
LEMMA Places ==
    ASSUME NEW n \in Nat \ {0}, NEW p \in {50, 90, 95, 99}
    PROVE  LET rank   == p * (n - 1)
               lower  == (rank \div 100) + 1
               weight == rank % 100
               upper  == IF weight = 0 THEN lower ELSE lower + 1
           IN  lower \in 1 .. n /\ upper \in 1 .. n /\ weight \in 0 .. 99
<1>1. CASE p = 50
  BY <1>1
<1>2. CASE p = 90
  BY <1>2
<1>3. CASE p = 95
  BY <1>3
<1>4. CASE p = 99
  BY <1>4
<1> QED BY <1>1, <1>2, <1>3, <1>4

\* A percentile of values up to m is at most m, but for rounding.
LEMMA PercentileBounds ==
    ASSUME NEW S, IsSamples(S), NEW m \in Nat, \A s \in S : s.value <= m,
           NEW p \in {50, 90, 95, 99}, NEW noise
    PROVE  /\ percentileOf(S, p, noise) \in Nat
           /\ percentileOf(S, p, noise) <= (m \div 100) + 1
<1>1. CASE S = {}
  <2>1. percentileOf(S, p, noise) = Ceil(0, 1 * 100, p \in noise.percentiles)
    BY <1>1 DEF percentileOf, Percentile, whole
  <2>2. Ceil(0, 100, p \in noise.percentiles) = 0
    BY CeilBounds
  <2> QED BY <2>1, <2>2
<1>2. CASE S # {}
  <2> DEFINE n      == Cardinality(S)
             rank   == p * (n - 1)
             lower  == (rank \div 100) + 1
             w      == rank % 100
             upper  == IF w = 0 THEN lower ELSE lower + 1
             a      == sortedValue(S, lower)
             b      == sortedValue(S, upper)
             num    == a * (100 - w) + b * w
  <2>1. n \in Nat \ {0}
    BY <1>2, FS_CardinalityType, FS_EmptySet DEF IsSamples
  <2>2. lower \in 1 .. n /\ upper \in 1 .. n /\ w \in 0 .. 99
    <3> HIDE DEF n
    <3> QED BY <2>1, Places
  <2>3. percentileOf(S, p, noise) = Ceil(num, 100 * 100, p \in noise.percentiles)
    BY <1>2 DEF percentileOf, Percentile, whole
  <2> HIDE DEF lower, upper, w
  <2>4. a \in Nat /\ a <= m /\ b \in Nat /\ b <= m
    <3>1. a \in {s.value : s \in S} /\ b \in {s.value : s \in S}
      BY <2>2, Ordered
    <3> HIDE DEF a, b
    <3> QED BY <3>1 DEF IsSamples
  <2> HIDE DEF a, b
  <2>5. num \in Nat /\ num <= m * 100
    <3>1. a * (100 - w) \in Nat /\ b * w \in Nat
      BY <2>2, <2>4
    <3>2. a * (100 - w) <= m * (100 - w) /\ b * w <= m * w
      BY <2>2, <2>4, Monotone
    <3>3. m * (100 - w) + m * w = m * 100 /\ m * (100 - w) \in Nat /\ m * w \in Nat
      BY <2>2
    <3> QED BY <3>1, <3>2, <3>3
  <2> HIDE DEF num
  <2> DEFINE q == Ceil(num, 10000, p \in noise.percentiles)
  <2>6. q \in Nat /\ q <= (num \div 10000) + 1
    BY <2>5, CeilBounds
  <2>7. percentileOf(S, p, noise) = q
    BY <2>3
  <2> HIDE DEF q
  <2>8. num \div 10000 <= m \div 100
    BY <2>5
  <2> QED BY <2>5, <2>6, <2>7, <2>8
<1> QED BY <1>1, <1>2

\* What the status says of a window.
LEMMA WindowBounds ==
    ASSUME NEW S, IsSamples(S), NEW m \in Nat, \A s \in S : s.value <= m, NEW noise
    PROVE  LET w == minAvgMax(S, noise)
           IN  /\ w.avg \in Nat /\ w.max \in Nat
               /\ \A s \in S : s.value <= w.max * 100
               /\ w.avg * 100 * Cardinality(S) >= Sum(S)
               /\ w.avg <= (m \div 100) + 1
<1>0. Sum(S) \in Nat /\ Sum(S) <= m * Cardinality(S) /\ Cardinality(S) \in Nat
  BY SumBounded, FS_CardinalityType DEF IsSamples
<1>1. CASE S = {}
  <2>1. minAvgMax(S, noise).avg = 0 /\ minAvgMax(S, noise).max = 0
    BY <1>1 DEF minAvgMax
  <2>2. Cardinality(S) = 0
    BY <1>1, FS_EmptySet
  <2>3. Sum(S) = 0
    BY <1>0, <2>2
  <2> QED BY <1>1, <2>1, <2>2, <2>3
<1>2. CASE S # {}
  <2> DEFINE c   == Cardinality(S)
             x   == Sum(S)
             top == Max({s.value : s \in S})
             avg == Ceil(x, c * 100, noise.average)
             max == Ceil(top, 1 * 100, noise.sample)
  <2>1. minAvgMax(S, noise).avg = avg /\ minAvgMax(S, noise).max = max
    BY <1>2 DEF minAvgMax, whole
  <2>2. c \in Nat /\ c > 0 /\ x \in Nat /\ x <= m * c
    BY <1>0, <1>2, FS_EmptySet DEF IsSamples
  <2>3. top \in Nat /\ \A s \in S : s.value <= top
    BY <1>2, LargestSample
  <2> HIDE DEF c, x, top
  <2>4. c * 100 \in Nat \ {0}
    BY <2>2
  <2>5. avg \in Nat /\ (c * 100) * avg >= x /\ avg <= (x \div (c * 100)) + 1
    BY <2>2, <2>4, CeilBounds
  <2>6. max \in Nat /\ 100 * max >= top
    BY <2>3, CeilBounds
  <2>7. x \div (c * 100) <= m \div 100
    <3> DEFINE a == x \div (c * 100)
    <3>1. a \in Nat /\ (c * 100) * a <= x
      <4> DEFINE d == c * 100
      <4>1. d \in Nat \ {0}
        BY <2>4
      <4> HIDE DEF d
      <4>2. x \div d \in Nat /\ x % d \in Nat /\ x = d * (x \div d) + (x % d)
        BY <2>2, <4>1, Quotient
      <4>3. d * (x \div d) \in Nat
        BY <4>1, <4>2
      <4>4. d * (x \div d) <= x
        BY <4>2, <4>3
      <4> QED BY <4>2, <4>4 DEF d
    <3> HIDE DEF a
    <3>2. c * (100 * a) = (c * 100) * a /\ m * c = c * m /\ c * (m + 1) = c * m + c /\ c * m \in Nat
      BY <2>2, <3>1
    <3>3. c * (100 * a) < c * (m + 1)
      BY <2>2, <3>1, <3>2
    <3>4. 100 * a < m + 1
      BY <2>2, <3>1, <3>3, Cancel
    <3>5. a <= m \div 100
      BY <3>1, <3>4
    <3> QED BY <3>5 DEF a
  <2> HIDE DEF avg, max
  <2>8. avg * 100 * c = (c * 100) * avg
    BY <2>2, <2>5
  <2>9. (x \div (c * 100)) \in Nat
    BY <2>2, <2>4, Quotient
  <2>10. avg <= (m \div 100) + 1
    BY <2>5, <2>7, <2>9
  <2>11. \A s \in S : s.value <= max * 100
    BY <2>3, <2>6 DEF IsSamples
  <2> QED BY <2>1, <2>5, <2>6, <2>8, <2>10, <2>11 DEF c, x
<1> QED BY <1>1, <1>2

(***************************************************************************)
(* Windows                                                                 *)
(***************************************************************************)

\* Samples in a window are samples.
LEMMA SubsetOfSamples ==
    ASSUME NEW S, IsSamples(S), NEW R \in SUBSET S
    PROVE  IsSamples(R)
BY FS_Subset DEF IsSamples

\* The end of the windows is the day of the latest sample.
LEMMA LatestDay ==
    ASSUME NEW Q, IsSamples(Q["cpu"]), IsSamples(Q["memory"])
    PROVE  LET both == Q["cpu"] \cup Q["memory"]
           IN  /\ latestTimestamp(Q) \in Nat
               /\ \A s \in both : s.day <= latestTimestamp(Q)
               /\ latestTimestamp(Q) = 0 \/ \E s \in both : s.day = latestTimestamp(Q)
<1> DEFINE both == Q["cpu"] \cup Q["memory"]
           D    == {s.day : s \in both}
           f    == [s \in both |-> s.day]
<1>1. IsFiniteSet(both) /\ both \subseteq [day : Nat, value : Nat]
  BY FS_Union DEF IsSamples
<1>2. f \in Surjection(both, D)
  BY DEF Surjection
<1>3. IsFiniteSet(D)
  <2> HIDE DEF both, D, f
  <2> QED BY <1>1, <1>2, FS_Surjection
<1>4. D \in SUBSET Nat
  BY <1>1
<1>5. latestTimestamp(Q) = Max({0} \cup D)
  BY DEF latestTimestamp
<1>6. \A s \in both : s.day \in D
  OBVIOUS
<1>7. \A d \in D : \E s \in both : s.day = d
  OBVIOUS
<1> HIDE DEF both, D
<1> DEFINE E == {0} \cup D
<1>8. IsFiniteSet(E) /\ E # {} /\ E \in SUBSET Nat
  <2>1. IsFiniteSet({0})
    BY FS_Singleton
  <2>2. IsFiniteSet(E)
    BY <1>3, <2>1, FS_Union
  <2>3. E \in SUBSET Nat
    BY <1>4
  <2> QED BY <2>2, <2>3
<1> DEFINE last == Max(E)
<1>9. last \in E /\ \A d \in E : d <= last
  <2> HIDE DEF E
  <2> QED BY <1>8, GreatestNatural
<1> HIDE DEF last
<1>10. last \in Nat
  BY <1>8, <1>9
<1>11. \A s \in both : s.day <= last
  BY <1>6, <1>9
<1>12. last = 0 \/ \E s \in both : s.day = last
  BY <1>7, <1>9
<1>13. latestTimestamp(Q) = last
  BY <1>5 DEF last
<1>14. /\ latestTimestamp(Q) \in Nat
       /\ \A s \in both : s.day <= latestTimestamp(Q)
       /\ latestTimestamp(Q) = 0 \/ \E s \in both : s.day = latestTimestamp(Q)
  BY <1>10, <1>11, <1>12, <1>13
<1> QED BY <1>14 DEF both

InWindow(Q, r, days) ==
    samplesInWindow(Q[r], latestTimestamp(Q) - days, latestTimestamp(Q))

\* The window the code computes, from its end, is the one the properties describe.
LEMMA WindowIsSince ==
    ASSUME NEW c, IsSamples(queried(c)["cpu"]), IsSamples(queried(c)["memory"]),
           NEW r \in Resources, NEW days \in Nat
    PROVE  InWindow(queried(c), r, days) = Since(c, r, days)
<1> DEFINE Q    == queried(c)
           both == Q["cpu"] \cup Q["memory"]
           last == latestTimestamp(Q)
<1>1. InWindow(Q, r, days) = {s \in Q[r] : s.day >= last - days /\ s.day <= last}
  BY DEF InWindow, samplesInWindow
<1>2. Since(c, r, days) = {s \in Q[r] : \A t \in both : t.day - days <= s.day}
  BY DEF Since
<1>3. Q[r] \subseteq both /\ \A s \in both : s.day \in Nat
  BY DEF Resources, IsSamples
<1>4. /\ last \in Nat /\ \A s \in both : s.day <= last
      /\ last = 0 \/ \E s \in both : s.day = last
  <2> HIDE DEF Q
  <2> QED BY LatestDay DEF Q
<1> HIDE DEF Q, both, last
<1>5. ASSUME NEW s \in Q[r]
      PROVE  (s.day >= last - days /\ s.day <= last) <=> \A t \in both : t.day - days <= s.day
  <2>1. s.day \in Nat /\ s.day <= last
    BY <1>3, <1>4
  <2>2. ASSUME s.day >= last - days, NEW t \in both PROVE t.day - days <= s.day
    <3>1. t.day \in Nat /\ t.day <= last
      BY <1>3, <1>4
    <3> QED BY <1>4, <2>1, <2>2, <3>1
  <2>3. ASSUME \A t \in both : t.day - days <= s.day PROVE s.day >= last - days
    <3>1. CASE last = 0
      BY <2>1, <3>1
    <3>2. CASE \E t \in both : t.day = last
      <4>1. PICK t \in both : t.day = last
        BY <3>2
      <4>2. last - days <= s.day
        BY <2>3, <4>1
      <4> QED BY <1>4, <2>1, <4>2
    <3> QED BY <1>4, <3>1, <3>2
  <2> QED BY <2>1, <2>2, <2>3
<1>6. {s \in Q[r] : s.day >= last - days /\ s.day <= last}
        = {s \in Q[r] : \A t \in both : t.day - days <= s.day}
  BY <1>5
<1> QED BY <1>1, <1>2, <1>6 DEF Q

(***************************************************************************)
(* Policies                                                                *)
(***************************************************************************)

Whats == {"request", "limit"}

\* Only a CPU request has no headroom of its language.
LEMMA LanguageRatio ==
    ASSUME NEW l, NEW r \in Resources, NEW what \in Whats
    PROVE  /\ languageHeadroom(l, <<r, what>>) \in Nat
           /\ <<r, what>> # <<"cpu", "request">> => languageHeadroom(l, <<r, what>>) > 0
           /\ <<r, what>> = <<"cpu", "request">> => languageHeadroom(l, <<r, what>>) = 0
<1>1. CASE r = "cpu" /\ what = "request"
  BY <1>1 DEF languageHeadroom
<1>2. CASE r = "cpu" /\ what = "limit"
  BY <1>2 DEF languageHeadroom
<1>3. CASE r = "memory" /\ what = "request"
  BY <1>3 DEF languageHeadroom
<1>4. CASE r = "memory" /\ what = "limit"
  BY <1>4 DEF languageHeadroom
<1> QED BY <1>1, <1>2, <1>3, <1>4 DEF Resources, Whats

\* The ratio a policy asks for; Asked of the last result.
RatioOf(policy, c, Q, r, what) ==
    LET rule == policy[r][what].headroom IN
    larger(IF <<r, what>> = <<"cpu", "request">> /\ rule <= 0 THEN 100 ELSE rule,
           languageHeadroom(languageFor(policy, c, Q), <<r, what>>))

\* A ratio that is not positive is that of the language, or one.
LEMMA RatioIsApplied ==
    ASSUME NEW policy \in Policies, NEW c, NEW Q, NEW r \in Resources, NEW what \in Whats
    PROVE  LET ratio == headroom(policy, c, Q, r, what)
           IN  /\ ratio \in Int
               /\ RatioOf(policy, c, Q, r, what) = IF ratio <= 0 THEN 100 ELSE ratio
<1> DEFINE rule == policy[r][what].headroom
           own  == languageHeadroom(languageFor(policy, c, Q), <<r, what>>)
<1>1. rule \in Int
  BY PolicyAssumption DEF Whats
<1>2. /\ own \in Nat
      /\ <<r, what>> # <<"cpu", "request">> => own > 0
      /\ <<r, what>> = <<"cpu", "request">> => own = 0
  BY LanguageRatio
<1>3. headroom(policy, c, Q, r, what) = larger(rule, own)
  BY DEF headroom
<1>4. RatioOf(policy, c, Q, r, what)
        = larger(IF <<r, what>> = <<"cpu", "request">> /\ rule <= 0 THEN 100 ELSE rule, own)
  BY DEF RatioOf
<1> HIDE DEF rule, own
<1>5. larger(rule, own) \in Int
  BY <1>1, <1>2 DEF larger
<1>6. CASE <<r, what>> = <<"cpu", "request">>
  BY <1>1, <1>2, <1>3, <1>4, <1>5, <1>6 DEF larger
<1>7. CASE <<r, what>> # <<"cpu", "request">>
  BY <1>1, <1>2, <1>3, <1>4, <1>5, <1>7 DEF larger
<1> QED BY <1>6, <1>7

\* There always is a minimum.
LEMMA MinimumIsNatural ==
    ASSUME NEW policy \in Policies, NEW r \in Resources
    PROVE  defaultMinimum(policy[r].minimum, r) \in Nat /\ defaultMinimum(policy[r].minimum, r) > 0
<1>1. policy[r].minimum \in Int
  BY PolicyAssumption
<1> QED BY <1>1 DEF defaultMinimum

\* Any name is one of four percentiles.
LEMMA PercentileIsNamed ==
    ASSUME NEW name, NEW fallback \in {95, 99}
    PROVE  percentileName(name, fallback) \in {50, 90, 95, 99}
BY DEF percentileName

(***************************************************************************)
(* One recommendation                                                      *)
(***************************************************************************)

\* What a request and a limit start from, with any samples up to m.
LEMMA BaseBounds ==
    ASSUME NEW Q, IsSamples(Q["cpu"]), IsSamples(Q["memory"]), NEW r \in Resources,
           NEW rule, NEW noise, NEW m \in Nat, \A s \in Q[r] : s.value <= m
    PROVE  LET W     == InWindow(Q, r, 14)
               base  == requestBase(Q, BuildUsageWindows(Q, noise), rule, r, noise)
               most  == limitBase(Q, BuildUsageWindows(Q, noise), rule, r, noise)
           IN  /\ Cardinality(W) \in Nat /\ Sum(W) \in Nat /\ \A s \in W : s.value \in Nat
               /\ base \in Nat /\ base * 100 * Cardinality(W) >= Sum(W)
               /\ base <= (m \div 100) + 1
               /\ most \in Nat /\ \A s \in W : s.value <= most * 100
<1> DEFINE W    == InWindow(Q, r, 14)
           w    == minAvgMax(W, noise)
           low  == percentileName(rule.request.percentile, 95)
           high == percentileName(rule.limit.percentile, 99)
           pl   == percentileOf(Q[r], low, noise)
           ph   == percentileOf(Q[r], high, noise)
<1>1. IsSamples(Q[r])
  BY DEF Resources
<1>2. W \in SUBSET Q[r]
  BY DEF InWindow, samplesInWindow
<1>3. BuildUsageWindows(Q, noise)[r].last14d = w
  BY DEF BuildUsageWindows, InWindow
<1>4. /\ requestBase(Q, BuildUsageWindows(Q, noise), rule, r, noise) = larger(pl, w.avg)
      /\ limitBase(Q, BuildUsageWindows(Q, noise), rule, r, noise) = larger(ph, w.max)
  BY <1>3 DEF requestBase, limitBase
<1>5. low \in {50, 90, 95, 99} /\ high \in {50, 90, 95, 99}
  BY PercentileIsNamed
<1> HIDE DEF W, w, low, high
<1>6. IsSamples(W) /\ \A s \in W : s.value <= m
  BY <1>1, <1>2, SubsetOfSamples
<1>7. pl \in Nat /\ pl <= (m \div 100) + 1
  BY <1>1, <1>5, PercentileBounds
<1>8. ph \in Nat
  BY <1>1, <1>5, PercentileBounds
<1>9. /\ w.avg \in Nat /\ w.max \in Nat
      /\ \A s \in W : s.value <= w.max * 100
      /\ w.avg * 100 * Cardinality(W) >= Sum(W)
      /\ w.avg <= (m \div 100) + 1
  BY <1>6, WindowBounds DEF w
<1>10. Cardinality(W) \in Nat /\ Sum(W) \in Nat
  BY <1>6, SumBounded, FS_CardinalityType DEF IsSamples
<1> HIDE DEF pl, ph
<1> DEFINE base == larger(pl, w.avg)
           most == larger(ph, w.max)
<1>11. base \in Nat /\ base >= w.avg /\ base <= (m \div 100) + 1
  BY <1>7, <1>9 DEF larger
<1>12. most \in Nat /\ most >= w.max
  BY <1>8, <1>9 DEF larger
<1> HIDE DEF base, most
<1>13. base * 100 * Cardinality(W) >= Sum(W)
  <2> DEFINE n == 100 * Cardinality(W)
  <2>1. n \in Nat
    BY <1>10
  <2>2. w.avg * n <= base * n
    <3> HIDE DEF n
    <3> QED BY <1>9, <1>11, <2>1, Monotone
  <2>3. w.avg * 100 * Cardinality(W) = w.avg * n /\ base * 100 * Cardinality(W) = base * n
    BY <1>9, <1>10, <1>11
  <2>4. w.avg * n \in Nat /\ base * n \in Nat
    BY <1>9, <1>11, <2>1
  <2> QED BY <1>9, <1>10, <2>2, <2>3, <2>4
<1>14. \A s \in W : s.value <= most * 100
  BY <1>6, <1>9, <1>12 DEF IsSamples
<1>15. \A s \in W : s.value \in Nat
  BY <1>6 DEF IsSamples
<1> QED BY <1>4, <1>10, <1>11, <1>12, <1>13, <1>14, <1>15 DEF base, most, W

Recommended(c, Q, policy, noise) ==
    RecommendResources(c, Q, BuildUsageWindows(Q, noise), policy, noise)

\* A request and a limit as computed, the limit before it is compared with the request.
LEMMA RecommendedIs ==
    ASSUME NEW Q, NEW policy, NEW c, NEW r \in Resources, NEW noise
    PROVE  LET windows == BuildUsageWindows(Q, noise)
               request == roundResource(r,
                   applyHeadroom(requestBase(Q, windows, policy[r], r, noise),
                                 headroom(policy, c, Q, r, "request"),
                                 defaultMinimum(policy[r].minimum, r), noise.ratio))
               limit == roundResource(r,
                   applyHeadroom(limitBase(Q, windows, policy[r], r, noise),
                                 headroom(policy, c, Q, r, "limit"), 0, noise.ratio))
           IN  /\ Recommended(c, Q, policy, noise)[r].request = request
               /\ Recommended(c, Q, policy, noise)[r].limit = atLeast(limit, request)
BY DEF Recommended, RecommendResources

IsRounded(r, v) == v \in Nat /\ v > 0 /\ v % Step(r, v) = 0

\* A request: rounded, at least the minimum, its headroom above the mean and not far above the
\* largest sample.
RequestIsSound(c, Q, policy, r, noise, m) ==
    LET request == Recommended(c, Q, policy, noise)[r].request
        W       == InWindow(Q, r, 14)
        ratio   == RatioOf(policy, c, Q, r, "request")
        minimum == defaultMinimum(policy[r].minimum, r)
        most    == larger(((((m \div 100) + 1) * ratio) \div 100) + 1, minimum)
    IN  /\ IsRounded(r, request) /\ request >= minimum
        /\ request * 10000 * Cardinality(W) >= Sum(W) * ratio
        /\ request < most + Step(r, most)

\* Whatever the samples and the policy.
LEMMA RequestSound ==
    ASSUME NEW Q, IsSamples(Q["cpu"]), IsSamples(Q["memory"]),
           NEW policy \in Policies, NEW c, NEW r \in Resources, NEW noise,
           NEW m \in Nat, \A s \in Q[r] : s.value <= m
    PROVE  RequestIsSound(c, Q, policy, r, noise, m)
<1> DEFINE request == Recommended(c, Q, policy, noise)[r].request
           W       == InWindow(Q, r, 14)
           base    == requestBase(Q, BuildUsageWindows(Q, noise), policy[r], r, noise)
           given   == headroom(policy, c, Q, r, "request")
           ratio   == RatioOf(policy, c, Q, r, "request")
           minimum == defaultMinimum(policy[r].minimum, r)
           x       == applyHeadroom(base, given, minimum, noise.ratio)
           peak    == (m \div 100) + 1
           most    == larger(((peak * ratio) \div 100) + 1, minimum)
<1>1. /\ Cardinality(W) \in Nat /\ Sum(W) \in Nat
      /\ base \in Nat /\ base * 100 * Cardinality(W) >= Sum(W) /\ base <= peak
  BY BaseBounds
<1>2. given \in Int /\ ratio = IF given <= 0 THEN 100 ELSE given
  BY RatioIsApplied DEF Whats
<1>3. minimum \in Nat /\ minimum > 0
  BY MinimumIsNatural
<1>4. request = roundResource(r, x)
  BY RecommendedIs
<1> HIDE DEF request, W, base, given, minimum, ratio
<1>5. ratio \in Nat
  BY <1>2
<1>6. x \in Nat /\ x >= minimum /\ x * 100 >= base * ratio
      /\ x <= larger(((base * ratio) \div 100) + 1, minimum)
  BY <1>1, <1>2, <1>3, Headroom
<1> HIDE DEF x
<1>7. peak \in Nat
  OBVIOUS
<1> HIDE DEF peak
<1>8. most \in Nat /\ x <= most
  <2>1. base * ratio \in Nat /\ peak * ratio \in Nat /\ base * ratio <= peak * ratio
    BY <1>1, <1>5, <1>7, Monotone
  <2> DEFINE b == base * ratio
             p == peak * ratio
  <2> HIDE DEF b, p
  <2>2. (b \div 100) \in Nat /\ (p \div 100) \in Nat /\ (b \div 100) <= (p \div 100)
    BY <2>1 DEF b, p
  <2>3. most = larger((p \div 100) + 1, minimum) /\ x <= larger((b \div 100) + 1, minimum)
    BY <1>6 DEF b, p
  <2> HIDE DEF most
  <2> QED BY <1>3, <1>6, <2>2, <2>3 DEF larger
<1> HIDE DEF most
<1>9. /\ request \in Nat /\ request >= x /\ request % Step(r, request) = 0
      /\ request < most + Step(r, most)
  BY <1>4, <1>6, <1>8, RoundedResource
<1>10. request > 0 /\ request >= minimum
  BY <1>3, <1>6, <1>9
<1>11. request * 10000 * Cardinality(W) >= Sum(W) * ratio
  <2> DEFINE n == Cardinality(W)
             s == Sum(W)
             k == base * 100 * n
             b == base * ratio
             q == request * 100
             h == 100 * n
  <2> HIDE DEF n, s
  <2>0. n \in Nat /\ s \in Nat
    BY <1>1 DEF n, s
  <2>1. b \in Nat /\ q \in Nat /\ h \in Nat /\ b <= q /\ k \in Nat /\ s <= k
    BY <1>1, <1>5, <1>6, <1>9, <2>0 DEF n, s
  <2>2. b * h = k * ratio
    BY <1>1, <1>5, <2>0
  <2>3. request * 10000 * n = q * h
    BY <1>9, <2>0
  <2> HIDE DEF b, q, h, k
  <2>4. b * h <= q * h /\ s * ratio <= k * ratio
    BY <1>5, <2>0, <2>1, Monotone
  <2>5. b * h \in Nat /\ q * h \in Nat /\ s * ratio \in Nat
    BY <1>5, <2>0, <2>1
  <2>6. request * 10000 * n >= s * ratio
    BY <2>2, <2>3, <2>4, <2>5
  <2> QED BY <2>6 DEF n, s
<1>12. IsRounded(r, request)
  BY <1>9, <1>10 DEF IsRounded
<1> QED BY <1>9, <1>10, <1>11, <1>12 DEF RequestIsSound, request, W, ratio, minimum, most, peak

\* A limit: rounded, its headroom above every sample of the window, never below its request.
LimitIsSound(c, Q, policy, r, noise) ==
    LET rec   == Recommended(c, Q, policy, noise)[r]
        W     == InWindow(Q, r, 14)
        ratio == RatioOf(policy, c, Q, r, "limit")
    IN  /\ rec.limit \in Nat /\ rec.limit % Step(r, rec.limit) = 0
        /\ \A s \in W : rec.limit * 10000 >= s.value * ratio
        /\ rec.limit = 0 => \A s \in W : s.value = 0
        /\ rec.limit # 0 => rec.request <= rec.limit

\* Whatever the samples and the policy.
LEMMA LimitSound ==
    ASSUME NEW Q, IsSamples(Q["cpu"]), IsSamples(Q["memory"]),
           NEW policy \in Policies, NEW c, NEW r \in Resources, NEW noise,
           NEW m \in Nat, \A s \in Q[r] : s.value <= m
    PROVE  LimitIsSound(c, Q, policy, r, noise)
<1> DEFINE request == Recommended(c, Q, policy, noise)[r].request
           limit   == Recommended(c, Q, policy, noise)[r].limit
           W       == InWindow(Q, r, 14)
           base    == limitBase(Q, BuildUsageWindows(Q, noise), policy[r], r, noise)
           given   == headroom(policy, c, Q, r, "limit")
           ratio   == RatioOf(policy, c, Q, r, "limit")
           x       == applyHeadroom(base, given, 0, noise.ratio)
           own     == roundResource(r, x)
<1>1. base \in Nat /\ \A s \in W : s.value \in Nat /\ s.value <= base * 100
  BY BaseBounds
<1>2. given \in Int /\ ratio = IF given <= 0 THEN 100 ELSE given
  BY RatioIsApplied DEF Whats
<1>3. request \in Nat /\ request > 0 /\ request % Step(r, request) = 0
  <2>1. RequestIsSound(c, Q, policy, r, noise, m)
    BY RequestSound
  <2>2. IsRounded(r, request)
    BY <2>1 DEF RequestIsSound, request
  <2> HIDE DEF request
  <2> QED BY <2>2 DEF IsRounded
<1>4. limit = atLeast(own, request)
  BY RecommendedIs
<1> HIDE DEF request, limit, W, base, given, ratio
<1>5. ratio \in Nat
  BY <1>2
<1>6. x \in Nat /\ x * 100 >= base * ratio /\ (x = 0 => base = 0)
  BY <1>1, <1>2, Headroom
<1> HIDE DEF x
<1>7. own \in Nat /\ own >= x /\ own % Step(r, own) = 0
  BY <1>6, RoundedResource
<1> HIDE DEF own
<1>8. /\ limit \in Nat /\ limit >= own /\ (limit = 0 => own = 0)
      /\ limit # 0 => request <= limit
      /\ limit = own \/ limit = request
  BY <1>3, <1>4, <1>7 DEF atLeast
<1>9. limit % Step(r, limit) = 0
  BY <1>3, <1>7, <1>8
<1>10. ASSUME NEW s \in W PROVE limit * 10000 >= s.value * ratio
  <2> DEFINE v == s.value
             b == base * 100
             y == base * ratio
  <2>1. v \in Nat /\ b \in Nat /\ v <= b
    BY <1>1
  <2>2. b * ratio = 100 * y /\ y \in Nat
    BY <1>1, <1>5
  <2>3. y <= x * 100
    BY <1>6
  <2> HIDE DEF v, b, y
  <2>4. v * ratio <= b * ratio /\ v * ratio \in Nat
    BY <1>5, <2>1, Monotone
  <2>5. v * ratio <= limit * 10000
    BY <1>6, <1>7, <1>8, <2>2, <2>3, <2>4
  <2> QED BY <1>8, <2>4, <2>5 DEF v
<1>11. ASSUME limit = 0, NEW s \in W PROVE s.value = 0
  <2>1. base = 0
    BY <1>6, <1>7, <1>8, <1>11
  <2> QED BY <1>1, <2>1
<1>12. /\ limit \in Nat /\ limit % Step(r, limit) = 0
       /\ \A s \in W : limit * 10000 >= s.value * ratio
       /\ limit = 0 => \A s \in W : s.value = 0
       /\ limit # 0 => request <= limit
  BY <1>8, <1>9, <1>10, <1>11
<1> QED BY <1>12 DEF LimitIsSound, request, limit, W, ratio

(***************************************************************************)
(* The invariant                                                           *)
(***************************************************************************)

UsageOK ==
    /\ usage \in [Containers -> [Resources -> SUBSET [day : Nat, value : Nat]]]
    /\ \A c \in Containers, r \in Resources : IsFiniteSet(usage[c][r])

SettingsOK ==
    /\ settings \in [Containers -> Seq(Settings)]
    /\ \A c \in Containers : settings[c] # <<>>

\* Nothing is scraped between an analysis and the next reconcile: what was recommended can be
\* read against the samples it was computed from.
ResultOK ==
    result # None =>
        /\ result.policy \in Policies
        /\ DOMAIN result.recs = analyzed
        /\ \E noise \in Noises : \A c \in analyzed :
             result.recs[c].recommended = Recommended(c, queried(c), result.policy, noise)

IInv ==
    /\ day \in Nat /\ scrapes \in 0 .. MaxScrapes
    /\ UsageOK /\ SettingsOK /\ ResultOK

\* Before the first scrape there are no samples and there is no result.
LEMMA InitEstablishes == Init => IInv
<1> SUFFICES ASSUME Init PROVE IInv
  OBVIOUS
<1>1. day \in Nat /\ scrapes \in 0 .. MaxScrapes
  BY BoundAssumption DEF Init
<1>2. UsageOK
  <2>1. usage = [c \in Containers |-> [r \in Resources |-> {}]]
    BY DEF Init
  <2>2. \A c \in Containers, r \in Resources : usage[c][r] = {}
    BY <2>1
  <2>3. usage \in [Containers -> [Resources -> SUBSET [day : Nat, value : Nat]]]
    BY <2>1
  <2> QED BY <2>2, <2>3, FS_EmptySet DEF UsageOK
<1>3. SettingsOK
  <2>1. settings = [c \in Containers |-> <<FirstSettings[c]>>]
    BY DEF Init
  <2>2. \A c \in Containers : FirstSettings[c] \in Settings
    BY SettingsAssumption
  <2>3. \A c \in Containers : <<FirstSettings[c]>> \in Seq(Settings) /\ <<FirstSettings[c]>> # <<>>
    BY <2>2
  <2> QED BY <2>1, <2>3 DEF SettingsOK
<1>4. ResultOK
  BY DEF Init, ResultOK
<1> QED BY <1>1, <1>2, <1>3, <1>4 DEF IInv

\* A scrape adds a sample to finite sets, and only when there is no result.
LEMMA ScrapePreserves ==
    ASSUME IInv, NEW c \in Containers, Scrape(c)
    PROVE  IInv'
<1>1. PICK u \in Usages[c], gap \in Gaps :
        /\ day' = day + gap
        /\ usage' = [usage EXCEPT ![c] = [r \in Resources |->
                IF u[r] = None THEN usage[c][r]
                ELSE usage[c][r] \cup {[day |-> day + gap, value |-> u[r]]}]]
  BY DEF Scrape
<1>2. day' \in Nat
  BY <1>1, BoundAssumption DEF IInv
<1>3. scrapes' \in 0 .. MaxScrapes
  BY BoundAssumption DEF IInv, Scrape
<1>4. UsageOK'
  <2> DEFINE samples(r) == IF u[r] = None THEN usage[c][r]
                           ELSE usage[c][r] \cup {[day |-> day + gap, value |-> u[r]]}
  <2>1. ASSUME NEW r \in Resources
        PROVE  samples(r) \subseteq [day : Nat, value : Nat] /\ IsFiniteSet(samples(r))
    <3>1. usage[c][r] \subseteq [day : Nat, value : Nat] /\ IsFiniteSet(usage[c][r])
      BY DEF IInv, UsageOK
    <3>2. CASE u[r] = None
      BY <3>1, <3>2
    <3>3. CASE u[r] # None
      <4> DEFINE new == [day |-> day + gap, value |-> u[r]]
      <4>1. u \in [Resources -> Nat \cup {None}]
        BY UsageAssumption
      <4>2. u[r] \in Nat
        BY <3>3, <4>1
      <4>3. new \in [day : Nat, value : Nat]
        BY <1>1, <1>2, <4>2
      <4>4. samples(r) = usage[c][r] \cup {new}
        BY <3>3
      <4> HIDE DEF new, samples
      <4>5. IsFiniteSet(usage[c][r] \cup {new})
        BY <3>1, FS_AddElement
      <4> QED BY <3>1, <4>3, <4>4, <4>5
    <3> QED BY <3>2, <3>3
  <2> DEFINE all == [r \in Resources |-> samples(r)]
  <2>2. usage' = [usage EXCEPT ![c] = all]
    BY <1>1
  <2>3. \A r \in Resources : all[r] = samples(r)
    OBVIOUS
  <2> HIDE DEF samples
  <2>4. all \in [Resources -> SUBSET [day : Nat, value : Nat]]
    BY <2>1
  <2> HIDE DEF all
  <2>5. usage' \in [Containers -> [Resources -> SUBSET [day : Nat, value : Nat]]]
    BY <2>2, <2>4 DEF IInv, UsageOK
  <2>6. ASSUME NEW d \in Containers, NEW r \in Resources PROVE IsFiniteSet(usage'[d][r])
    <3>1. usage'[d] = IF d = c THEN all ELSE usage[d]
      BY <2>2 DEF IInv, UsageOK
    <3>2. IsFiniteSet(usage[d][r]) /\ IsFiniteSet(all[r])
      BY <2>1, <2>3 DEF IInv, UsageOK
    <3> QED BY <3>1, <3>2
  <2> QED BY <2>5, <2>6 DEF UsageOK
<1>5. SettingsOK'
  BY DEF IInv, SettingsOK, Scrape
<1>6. ResultOK'
  BY DEF ResultOK, Scrape
<1> QED BY <1>2, <1>3, <1>4, <1>5, <1>6 DEF IInv

\* New requests and limits leave the samples alone.
LEMMA ResizePreserves ==
    ASSUME IInv, NEW c \in Containers, Resize(c)
    PROVE  IInv'
<1>1. PICK s \in Settings : settings' = [settings EXCEPT ![c] = Append(@, s)]
  BY DEF Resize
<1>2. day' \in Nat /\ scrapes' \in 0 .. MaxScrapes
  BY DEF IInv, Resize
<1>3. UsageOK'
  BY DEF IInv, UsageOK, Resize
<1>4. SettingsOK'
  <2>1. settings \in [Containers -> Seq(Settings)] /\ \A d \in Containers : settings[d] # <<>>
    BY DEF IInv, SettingsOK
  <2>2. settings[c] \in Seq(Settings)
    BY <2>1
  <2>3. Append(settings[c], s) \in Seq(Settings) /\ Append(settings[c], s) # <<>>
    BY <2>2
  <2>4. settings' \in [Containers -> Seq(Settings)]
    BY <1>1, <2>1, <2>3
  <2>5. \A d \in Containers : settings'[d] # <<>>
    BY <1>1, <2>1, <2>3
  <2> QED BY <2>4, <2>5 DEF SettingsOK
<1>5. ResultOK'
  BY DEF ResultOK, Resize
<1> QED BY <1>2, <1>3, <1>4, <1>5 DEF IInv

\* What is read does not change while it is analyzed.
LEMMA SameSamples ==
    ASSUME UNCHANGED <<day, usage>>
    PROVE  /\ analyzed' = analyzed
           /\ \A c : queried(c)' = queried(c)
<1>1. \A c : queried(c)' = queried(c)
  BY DEF queried
<1> QED BY <1>1 DEF analyzed

\* A result is what was recommended from the samples that are there.
LEMMA AnalysisPreserves ==
    ASSUME IInv, AnalyzeResourceSeries
    PROVE  IInv'
<1> DEFINE computed(policy, noise, latest) ==
               [policy |-> policy, recs |-> Recommendations(policy, latest, noise),
                reduction |-> [r \in Resources |->
                    potentialReduction(Recommendations(policy, latest, noise), r)]]
<1>1. PICK policy \in Policies, noise \in Noises :
        \E latest : result' = computed(policy, noise, latest)
  BY DEF AnalyzeResourceSeries
<1>2. UNCHANGED <<day, scrapes, usage, settings>>
  BY DEF AnalyzeResourceSeries
<1>3. day' \in Nat /\ scrapes' \in 0 .. MaxScrapes /\ UsageOK' /\ SettingsOK'
  BY <1>2 DEF IInv, UsageOK, SettingsOK
<1>4. ResultOK'
  <2>0. PICK latest : result' = computed(policy, noise, latest)
    BY <1>1
  <2> DEFINE recs == Recommendations(policy, latest, noise)
  <2>1. result'.policy = policy /\ result'.recs = recs
    BY <2>0
  <2>2. DOMAIN recs = analyzed
    BY DEF Recommendations
  <2>3. \A c \in analyzed : recs[c].recommended = Recommended(c, queried(c), policy, noise)
    BY DEF Recommendations, Recommended
  <2> HIDE DEF recs
  <2>4. /\ analyzed' = analyzed
        /\ \A c : queried(c)' = queried(c)
    BY <1>2, SameSamples
  <2> QED BY <2>1, <2>2, <2>3, <2>4 DEF ResultOK
<1> QED BY <1>3, <1>4 DEF IInv

\* Nothing else touches the samples; a result can only go.
LEMMA StutteringPreserves ==
    ASSUME IInv, UNCHANGED <<day, scrapes, usage, settings>>, result' = result \/ result' = None
    PROVE  IInv'
<1>1. day' \in Nat /\ scrapes' \in 0 .. MaxScrapes /\ UsageOK' /\ SettingsOK'
  BY DEF IInv, UsageOK, SettingsOK
<1>2. ResultOK'
  <2>1. CASE result' = None
    BY <2>1 DEF ResultOK
  <2>2. CASE result' = result
    <3>1. /\ analyzed' = analyzed
          /\ \A c : queried(c)' = queried(c)
      BY SameSamples
    <3> QED BY <2>2, <3>1 DEF IInv, ResultOK
  <2> QED BY <2>1, <2>2
<1> QED BY <1>1, <1>2 DEF IInv

\* The invariant is inductive.
LEMMA NextPreserves == IInv /\ [Next]_vars => IInv'
<1> SUFFICES ASSUME IInv, [Next]_vars PROVE IInv'
  OBVIOUS
<1>1. ASSUME NEW c \in Containers, Scrape(c) PROVE IInv'
  BY <1>1, ScrapePreserves
<1>2. ASSUME NEW c \in Containers, Resize(c) PROVE IInv'
  BY <1>2, ResizePreserves
<1>3. CASE AnalyzeResourceSeries
  BY <1>3, AnalysisPreserves
<1>4. CASE NextReconcile
  BY <1>4, StutteringPreserves DEF NextReconcile
<1>5. CASE UNCHANGED vars
  BY <1>5, StutteringPreserves DEF vars
<1> QED BY <1>1, <1>2, <1>3, <1>4, <1>5 DEF Next

\* Samples are finite sets of naturals, and a result is what was recommended from them, in every
\* state (resource_series.go, AnalyzeResourceSeries).
THEOREM Invariance == Spec => []IInv
<1>1. Init => IInv
  BY InitEstablishes
<1>2. IInv /\ [Next]_vars => IInv'
  BY NextPreserves
<1> QED BY <1>1, <1>2, PTL DEF Spec

(***************************************************************************)
(* The theorems                                                            *)
(***************************************************************************)

\* What the queries return are samples.
LEMMA QueriedIsSamples ==
    ASSUME IInv, NEW c \in Containers, NEW r \in Resources
    PROVE  IsSamples(queried(c)[r])
<1>1. usage[c][r] \subseteq [day : Nat, value : Nat] /\ IsFiniteSet(usage[c][r])
  BY DEF IInv, UsageOK
<1>2. IsSamples(usage[c][r])
  BY <1>1 DEF IsSamples
<1>3. queried(c)[r] \in SUBSET usage[c][r]
  BY DEF queried
<1> QED BY <1>2, <1>3, SubsetOfSamples

\* The largest sample there is.
LEMMA PeakBounds ==
    ASSUME NEW S, IsSamples(S)
    PROVE  /\ Max({0} \cup {s.value : s \in S}) \in Nat
           /\ \A s \in S : s.value <= Max({0} \cup {t.value : t \in S})
<1> DEFINE V == {s.value : s \in S}
           E == {0} \cup V
<1>1. IsFiniteSet(V) /\ V \in SUBSET Nat
  BY Values
<1>2. \A s \in S : s.value \in V
  OBVIOUS
<1> HIDE DEF V
<1>3. IsFiniteSet(E) /\ E # {} /\ E \in SUBSET Nat
  <2>1. IsFiniteSet({0})
    BY FS_Singleton
  <2>2. IsFiniteSet(E)
    BY <1>1, <2>1, FS_Union
  <2>3. E \in SUBSET Nat
    BY <1>1
  <2> QED BY <2>2, <2>3
<1> DEFINE peak == Max(E)
<1>4. peak \in E /\ \A v \in E : v <= peak
  <2> HIDE DEF E
  <2> QED BY <1>3, GreatestNatural
<1> HIDE DEF peak
<1>5. peak \in Nat
  BY <1>3, <1>4
<1>6. \A s \in S : s.value <= peak
  BY <1>2, <1>4
<1> QED BY <1>5, <1>6 DEF peak, V

\* Every answer is a sound recommendation.
LEMMA AnswersAreSound ==
    ASSUME IInv, NEW c \in Answers, NEW r \in Resources
    PROVE  \E noise \in Noises :
             /\ result.recs[c].recommended = Recommended(c, queried(c), result.policy, noise)
             /\ RequestIsSound(c, queried(c), result.policy, r, noise,
                               Max({0} \cup {s.value : s \in queried(c)[r]}))
             /\ LimitIsSound(c, queried(c), result.policy, r, noise)
             /\ InWindow(queried(c), r, 14) = Since(c, r, 14)
<1>1. result # None /\ c \in analyzed /\ result.policy \in Policies
  BY DEF Answers, IInv, ResultOK
<1>2. PICK noise \in Noises :
        result.recs[c].recommended = Recommended(c, queried(c), result.policy, noise)
  BY <1>1 DEF IInv, ResultOK
<1>3. c \in Containers
  BY <1>1 DEF analyzed
<1> DEFINE Q == queried(c)
           m == Max({0} \cup {s.value : s \in Q[r]})
<1>4. IsSamples(Q["cpu"]) /\ IsSamples(Q["memory"]) /\ IsSamples(Q[r])
  BY <1>3, QueriedIsSamples DEF Resources
<1>5. InWindow(Q, r, 14) = Since(c, r, 14)
  BY <1>4, WindowIsSince
<1> HIDE DEF Q
<1>6. m \in Nat /\ \A s \in Q[r] : s.value <= m
  BY <1>4, PeakBounds
<1> HIDE DEF m
<1>7. RequestIsSound(c, Q, result.policy, r, noise, m)
  BY <1>1, <1>4, <1>6, RequestSound
<1>8. LimitIsSound(c, Q, result.policy, r, noise)
  BY <1>1, <1>4, <1>6, LimitSound
<1> QED BY <1>2, <1>5, <1>7, <1>8 DEF Q, m

\* Every request and limit is a multiple of what the docs round to, and no request is zero
\* (resource.go, roundMillicores and roundMiB).
THEOREM TypeCorrect == Spec => []TypeOK
<1>1. ASSUME IInv PROVE TypeOK
  <2>1. day \in Nat /\ scrapes \in 0 .. MaxScrapes
    BY <1>1 DEF IInv
  <2>2. ASSUME NEW c \in Containers
        PROVE  settings[c] # <<>> /\ Range(settings[c]) \subseteq Settings
    <3>1. settings[c] \in Seq(Settings) /\ settings[c] # <<>>
      BY <1>1 DEF IInv, SettingsOK
    <3> QED BY <3>1 DEF Range
  <2>3. ASSUME NEW c \in Answers, NEW r \in Resources
        PROVE  LET rec == result.recs[c].recommended[r]
               IN  /\ rec.request > 0 /\ rec.request % Step(r, rec.request) = 0
                   /\ rec.limit >= 0 /\ rec.limit % Step(r, rec.limit) = 0
    <3> DEFINE rec == result.recs[c].recommended[r]
               Q   == queried(c)
               m   == Max({0} \cup {s.value : s \in Q[r]})
    <3>1. PICK noise \in Noises :
            /\ result.recs[c].recommended = Recommended(c, Q, result.policy, noise)
            /\ RequestIsSound(c, Q, result.policy, r, noise, m)
            /\ LimitIsSound(c, Q, result.policy, r, noise)
      BY <1>1, AnswersAreSound
    <3>2. rec = Recommended(c, Q, result.policy, noise)[r]
      BY <3>1
    <3> HIDE DEF rec, Q, m
    <3>3. IsRounded(r, rec.request)
      BY <3>1, <3>2 DEF RequestIsSound
    <3>4. rec.limit \in Nat /\ rec.limit % Step(r, rec.limit) = 0
      BY <3>1, <3>2 DEF LimitIsSound
    <3>5. rec.request > 0 /\ rec.request % Step(r, rec.request) = 0 /\ rec.limit >= 0
      BY <3>3, <3>4 DEF IsRounded
    <3> QED BY <3>4, <3>5 DEF rec
  <2> QED BY <2>1, <2>2, <2>3 DEF TypeOK
<1> QED BY <1>1, Invariance, PTL

\* The limit of a container leaves its headroom above every sample of the last 14 days
\* (resource.go, limitBase).
THEOREM LimitsCoverPeaks == Spec => []LimitCoversPeak
<1>1. ASSUME IInv PROVE LimitCoversPeak
  <2> SUFFICES ASSUME NEW c \in Answers, NEW r \in Resources, NEW s \in Since(c, r, 14)
               PROVE  result.recs[c].recommended[r].limit * 10000 >= s.value * Asked(c, r, "limit")
    BY DEF LimitCoversPeak
  <2>1. PICK noise \in Noises :
          /\ result.recs[c].recommended = Recommended(c, queried(c), result.policy, noise)
          /\ LimitIsSound(c, queried(c), result.policy, r, noise)
          /\ InWindow(queried(c), r, 14) = Since(c, r, 14)
    BY <1>1, AnswersAreSound
  <2>2. Recommended(c, queried(c), result.policy, noise)[r].limit * 10000
          >= s.value * RatioOf(result.policy, c, queried(c), r, "limit")
    BY <2>1 DEF LimitIsSound
  <2>3. Asked(c, r, "limit") = RatioOf(result.policy, c, queried(c), r, "limit")
    BY DEF Asked, RatioOf
  <2> QED BY <2>1, <2>2, <2>3
<1> QED BY <1>1, Invariance, PTL

\* No limit is below its request, and there is none only without usage (resource.go, the last
\* lines of RecommendResources).
THEOREM RequestsWithinLimits == Spec => []RequestWithinLimit
<1>1. ASSUME IInv PROVE RequestWithinLimit
  <2> SUFFICES ASSUME NEW c \in Answers, NEW r \in Resources
               PROVE  LET rec == result.recs[c].recommended[r]
                      IN  IF rec.limit = 0 THEN \A s \in Since(c, r, 14) : s.value = 0
                          ELSE rec.request <= rec.limit
    BY DEF RequestWithinLimit
  <2> DEFINE rec == result.recs[c].recommended[r]
  <2>1. PICK noise \in Noises :
          /\ result.recs[c].recommended = Recommended(c, queried(c), result.policy, noise)
          /\ LimitIsSound(c, queried(c), result.policy, r, noise)
          /\ InWindow(queried(c), r, 14) = Since(c, r, 14)
    BY <1>1, AnswersAreSound
  <2>2. rec = Recommended(c, queried(c), result.policy, noise)[r]
    BY <2>1
  <2> HIDE DEF rec
  <2>3. /\ rec.limit = 0 => \A s \in Since(c, r, 14) : s.value = 0
        /\ rec.limit # 0 => rec.request <= rec.limit
    BY <2>1, <2>2 DEF LimitIsSound
  <2> QED BY <2>3 DEF rec
<1> QED BY <1>1, Invariance, PTL

\* A request leaves its headroom above the mean of the last 14 days and is not below the minimum
\* (resource.go, requestBase and applyHeadroom).
THEOREM RequestsCoverAverages == Spec => []RequestCoversAverage
<1>1. ASSUME IInv PROVE RequestCoversAverage
  <2> SUFFICES ASSUME NEW c \in Answers, NEW r \in Resources
               PROVE  LET samples == Since(c, r, 14)
                          request == result.recs[c].recommended[r].request
                      IN  /\ request * 10000 * Cardinality(samples)
                               >= Sum(samples) * Asked(c, r, "request")
                          /\ request >= defaultMinimum(result.policy[r].minimum, r)
    BY DEF RequestCoversAverage
  <2> DEFINE request == result.recs[c].recommended[r].request
             m       == Max({0} \cup {s.value : s \in queried(c)[r]})
             W       == InWindow(queried(c), r, 14)
  <2>1. PICK noise \in Noises :
          /\ result.recs[c].recommended = Recommended(c, queried(c), result.policy, noise)
          /\ RequestIsSound(c, queried(c), result.policy, r, noise, m)
          /\ W = Since(c, r, 14)
    BY <1>1, AnswersAreSound
  <2>2. request = Recommended(c, queried(c), result.policy, noise)[r].request
    BY <2>1
  <2> HIDE DEF request, m
  <2>3. /\ request * 10000 * Cardinality(W) >= Sum(W) * RatioOf(result.policy, c, queried(c), r, "request")
        /\ request >= defaultMinimum(result.policy[r].minimum, r)
    BY <2>1, <2>2 DEF RequestIsSound
  <2>4. Asked(c, r, "request") = RatioOf(result.policy, c, queried(c), r, "request")
    BY DEF Asked, RatioOf
  <2> HIDE DEF W
  <2> QED BY <2>1, <2>3, <2>4 DEF request
<1> QED BY <1>1, Invariance, PTL

\* However floating point rounds, a request stays within one step of what the largest sample and
\* its headroom come to (resource.go, from BuildUsageWindows to roundMillicores and roundMiB).
THEOREM RequestsAreNotInflated == Spec => []NoInflation
<1>1. ASSUME IInv PROVE NoInflation
  <2> SUFFICES ASSUME NEW c \in Answers, NEW r \in Resources
               PROVE  LET peak == (Max({0} \cup {s.value : s \in queried(c)[r]}) \div 100) + 1
                          most == larger(((peak * Asked(c, r, "request")) \div 100) + 1,
                                         defaultMinimum(result.policy[r].minimum, r))
                      IN  result.recs[c].recommended[r].request < most + Step(r, most)
    BY DEF NoInflation
  <2> DEFINE m       == Max({0} \cup {s.value : s \in queried(c)[r]})
             request == result.recs[c].recommended[r].request
             minimum == defaultMinimum(result.policy[r].minimum, r)
             asked   == Asked(c, r, "request")
             most    == larger(((((m \div 100) + 1) * asked) \div 100) + 1, minimum)
  <2>1. PICK noise \in Noises :
          /\ result.recs[c].recommended = Recommended(c, queried(c), result.policy, noise)
          /\ RequestIsSound(c, queried(c), result.policy, r, noise, m)
    BY <1>1, AnswersAreSound
  <2>2. request = Recommended(c, queried(c), result.policy, noise)[r].request
    BY <2>1
  <2>3. asked = RatioOf(result.policy, c, queried(c), r, "request")
    BY DEF Asked, RatioOf
  <2> HIDE DEF m, request, asked
  <2>4. request < most + Step(r, most)
    BY <2>1, <2>2, <2>3 DEF RequestIsSound
  <2> QED BY <2>4 DEF m, request, asked
<1> QED BY <1>1, Invariance, PTL
=============================================================================

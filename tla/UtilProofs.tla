----------------------------- MODULE UtilProofs -----------------------------
(***************************************************************************)
(* What the proofs about the components share: block-height arithmetic and *)
(* rounding (ChainUtil), least elements, induction over the subsets of a   *)
(* finite set, and sums of functions over finite sets.                     *)
(*                                                                         *)
(* The induction principles take the set of the elements for which a       *)
(* statement holds in place of the statement, so that the provers can      *)
(* apply them.                                                             *)
(***************************************************************************)
EXTENDS Functions, ChainUtil, FiniteSetTheorems, TLAPS

-----------------------------------------------------------------------------
(* Periods and rounding *)

(* The period of a height is the one whose first and last block enclose it. *)
LEMMA PeriodBounds ==
  ASSUME NEW p \in Nat \ {0}, NEW h \in Nat
  PROVE  /\ Period(h, p) \in Nat
         /\ Period(h, p) * p <= h
         /\ h < (Period(h, p) + 1) * p
  BY DEF Period

(* After its last block a period is followed by the next, at a multiple. *)
LEMMA PeriodEnds ==
  ASSUME NEW p \in Nat \ {0}, NEW h \in Nat, IsPeriodLastBlock(h, p)
  PROVE  /\ Period(h + 1, p) = Period(h, p) + 1
         /\ h + 1 = Period(h + 1, p) * p
  BY DEF Period, IsPeriodLastBlock

(* Before its last block a period goes on. *)
LEMMA PeriodGoesOn ==
  ASSUME NEW p \in Nat \ {0}, NEW h \in Nat, ~IsPeriodLastBlock(h, p)
  PROVE  Period(h + 1, p) = Period(h, p)
  BY DEF Period, IsPeriodLastBlock

(* A later height is in no earlier period. *)
LEMMA PeriodMonotone ==
  ASSUME NEW p \in Nat \ {0}, NEW g \in Nat, NEW h \in Nat, g <= h
  PROVE  Period(g, p) <= Period(h, p)
  BY DEF Period

LEMMA ProductPositive ==
  ASSUME NEW x \in Nat, NEW y \in Nat
  PROVE  x * y \in Nat /\ (x > 0 /\ y > 0 => x * y > 0)
  OBVIOUS

(* Truncating division stays below what the product stays below. *)
LEMMA QuotientBelow ==
  ASSUME NEW n \in Nat \ {0}, NEW a \in Nat, NEW r \in Nat, a <= r * n
  PROVE  a \div n \in 0 .. r
<1>1. PICK q \in Nat : q = a \div n /\ q * n <= a
  OBVIOUS
<1>2. q * n <= r * n
  BY <1>1
<1>3. q <= r
  BY <1>2
<1> QED  BY <1>1, <1>3

(* Rounding to the nearest integer is off by less than one ... *)
LEMMA RoundIntBounds ==
  ASSUME NEW d \in Nat \ {0}, NEW n \in Nat
  PROVE  /\ RoundInt(n, d) \in Nat
         /\ 2 * d * RoundInt(n, d) <= 2 * n + d
         /\ 2 * n <= 2 * d * RoundInt(n, d) + d
<1> DEFINE q == n \div d
           r == n % d
<1>1. q \in Nat /\ r \in 0 .. d - 1 /\ n = d * q + r
  OBVIOUS
<1>2. RoundInt(n, d) = IF 2 * r < d \/ (2 * r = d /\ q % 2 = 0) THEN q ELSE q + 1
  BY DEF RoundInt
<1> HIDE DEF q, r
<1>3. CASE RoundInt(n, d) = q /\ 2 * r <= d
  BY <1>1, <1>3
<1>4. CASE RoundInt(n, d) = q + 1 /\ 2 * r >= d
  <2>1. d * (q + 1) = d * q + d
    BY <1>1
  <2> QED  BY <1>1, <1>4, <2>1
<1> QED  BY <1>1, <1>2, <1>3, <1>4

(* ... keeps the order ... *)
LEMMA RoundIntMonotone ==
  ASSUME NEW d \in Nat \ {0}, NEW m \in Nat, NEW n \in Nat, m <= n
  PROVE  RoundInt(m, d) <= RoundInt(n, d)
<1> DEFINE q == n \div d
           r == n % d
           k == m \div d
           l == m % d
<1>1. q \in Nat /\ r \in 0 .. d - 1 /\ n = d * q + r
  OBVIOUS
<1>2. k \in Nat /\ l \in 0 .. d - 1 /\ m = d * k + l
  OBVIOUS
<1>3. k <= q
  OBVIOUS
<1>4. k = q => l <= r
  BY <1>1, <1>2
<1>5. /\ RoundInt(n, d) = IF 2 * r < d \/ (2 * r = d /\ q % 2 = 0) THEN q ELSE q + 1
      /\ RoundInt(m, d) = IF 2 * l < d \/ (2 * l = d /\ k % 2 = 0) THEN k ELSE k + 1
  BY DEF RoundInt
<1> HIDE DEF q, r, k, l
<1>6. CASE k = q
  BY <1>1, <1>2, <1>4, <1>5, <1>6
<1>7. CASE k < q
  BY <1>1, <1>2, <1>5, <1>7
<1> QED  BY <1>1, <1>2, <1>3, <1>6, <1>7

(* ... and leaves whole numbers alone. *)
LEMMA RoundIntExact ==
  ASSUME NEW d \in Nat \ {0}, NEW n \in Nat
  PROVE  RoundInt(n * d, d) = n
<1>1. (n * d) \div d = n /\ (n * d) % d = 0
  OBVIOUS
<1> QED  BY <1>1 DEF RoundInt

-----------------------------------------------------------------------------
(* Induction *)

LEMMA LeastElement ==
  ASSUME NEW T \in SUBSET Nat, T # {}
  PROVE  \E x \in T : \A y \in T : x <= y
<1> DEFINE R == {ss \in Nat \X Nat : ss[1] < ss[2]}
<1>1. IsWellFoundedOn(R, Nat)
  BY NatLessThanWellFounded, Zenon DEF OpToRel
<1>2. \A x, y \in Nat : <<y, x>> \in R <=> y < x
  OBVIOUS
<1> HIDE DEF R
<1>3. PICK x \in T : \A y \in T : ~(<<y, x>> \in R)
  BY <1>1, WFMin
<1>4. \A y \in T : ~(y < x)
  BY <1>2, <1>3
<1> QED  BY <1>4

(* And bounded ones a greatest element. *)
LEMMA GreatestElement ==
  ASSUME NEW n \in Nat, NEW T \in SUBSET (0 .. n), T # {}
  PROVE  \E x \in T : \A y \in T : y <= x
<1> DEFINE U == {k \in 0 .. n : n - k \in T}
<1>1. PICK t \in T : t \in 0 .. n
  OBVIOUS
<1>2. n - t \in U
  BY <1>1
<1>3. U \in SUBSET Nat /\ U # {}
  BY <1>2
<1>4. PICK k \in U : \A j \in U : k <= j
  BY <1>3, LeastElement
<1>5. ASSUME NEW y \in T PROVE y <= n - k
  <2>1. n - y \in U
    OBVIOUS
  <2>2. k \in Nat /\ y \in Nat /\ k <= n - y
    BY <1>4, <2>1
  <2> QED  BY <2>2
<1>6. n - k \in T
  OBVIOUS
<1> QED  BY <1>5, <1>6

LEMMA NaturalInduction ==
  ASSUME NEW P \in SUBSET Nat, 0 \in P, \A n \in P : n + 1 \in P
  PROVE  P = Nat
<1> SUFFICES ASSUME Nat \ P # {} PROVE FALSE
  OBVIOUS
<1>1. PICK n \in Nat \ P : \A m \in Nat \ P : n <= m
  BY LeastElement
<1>2. n # 0 /\ n - 1 \in Nat /\ n - 1 \in P
  BY <1>1
<1> QED  BY <1>1, <1>2

LEMMA SubsetInduction ==
  ASSUME NEW S, IsFiniteSet(S), NEW P,
         {} \in P,
         \A T \in SUBSET S : T # {} /\ (\A x \in T : T \ {x} \in P) => T \in P
  PROVE  SUBSET S \subseteq P
<1> SUFFICES ASSUME NEW Bad \in SUBSET S, Bad \notin P PROVE FALSE
  OBVIOUS
<1> DEFINE Sizes == {n \in Nat : \E T \in SUBSET S : T \notin P /\ Cardinality(T) = n}
<1>1. \A T \in SUBSET S : IsFiniteSet(T) /\ Cardinality(T) \in Nat
  BY FS_Subset, FS_CardinalityType
<1>2. Sizes # {}
  BY <1>1
<1>3. PICK n \in Sizes : \A m \in Sizes : n <= m
  <2> HIDE DEF Sizes
  <2>1. Sizes \subseteq Nat
    BY DEF Sizes
  <2> QED  BY <1>2, <2>1, LeastElement
<1>4. PICK T \in SUBSET S : T \notin P /\ Cardinality(T) = n
  BY <1>3
<1>5. ASSUME NEW x \in T PROVE T \ {x} \in P
  <2>1. Cardinality(T \ {x}) = n - 1 /\ n \in Nat
    BY <1>1, <1>4, FS_RemoveElement
  <2>2. T \ {x} \in SUBSET S
    OBVIOUS
  <2>3. ASSUME T \ {x} \notin P PROVE FALSE
    <3>1. n - 1 \in Sizes
      BY <1>1, <2>1, <2>2, <2>3
    <3> QED  BY <1>3, <2>1, <3>1
  <2> QED  BY <2>3
<1> QED  BY <1>4, <1>5

-----------------------------------------------------------------------------
(* Sums over finite sets: SumFunctionOnSet of the community modules folds   *)
(* the values in an order of its own, by a recursive function on subsets.   *)

(* The element that is added last. *)
AddedLast(s) == CHOOSE x \in s : TRUE

(* The recursion: the sum of the values of f over the set s. *)
Unfold(f, g, s) == IF s = {} THEN 0 ELSE f[AddedLast(s)] + g[s \ {AddedLast(s)}]

SumOfSubsets(f, S) == CHOOSE g : g = [s \in SUBSET S |-> Unfold(f, g, s)]

LEMMA SumIsRecursive ==
  ASSUME NEW f, NEW S
  PROVE  SumFunctionOnSet(f, S) = SumOfSubsets(f, S)[S]
  BY Zenon DEF SumFunctionOnSet, FoldFunctionOnSet, MapThenFoldSet, SumOfSubsets, Unfold, AddedLast

LEMMA LastIsElement ==
  ASSUME NEW s, s # {}
  PROVE  AddedLast(s) \in s
  BY DEF AddedLast

(* The recursion has a solution, which SumOfSubsets therefore is. *)
LEMMA SumsExist ==
  ASSUME NEW f, NEW S, IsFiniteSet(S)
  PROVE  \A s \in SUBSET S : SumOfSubsets(f, S)[s] = Unfold(f, SumOfSubsets(f, S), s)
<1> DEFINE Solves(g, n) == \A s \in SUBSET S : Cardinality(s) <= n => g[s] = Unfold(f, g, s)
           Solved == {n \in Nat : \E g : Solves(g, n)}
<1>1. \A s \in SUBSET S : IsFiniteSet(s) /\ Cardinality(s) \in Nat
  BY FS_Subset, FS_CardinalityType
<1>2. \A s \in SUBSET S : s # {} =>
        s \ {AddedLast(s)} \in SUBSET S /\ Cardinality(s \ {AddedLast(s)}) = Cardinality(s) - 1
  BY <1>1, FS_RemoveElement, LastIsElement
<1>3. 0 \in Solved
  <2>1. \A s \in SUBSET S : Cardinality(s) <= 0 => s = {}
    BY <1>1, FS_EmptySet
  <2>2. Solves([s \in SUBSET S |-> 0], 0)
    BY <2>1 DEF Unfold
  <2> QED  BY <2>2
<1>4. ASSUME NEW n \in Solved PROVE n + 1 \in Solved
  <2>1. PICK g : Solves(g, n)
    OBVIOUS
  <2> DEFINE h == [s \in SUBSET S |-> IF Cardinality(s) <= n THEN g[s] ELSE Unfold(f, g, s)]
  <2>2. ASSUME NEW s \in SUBSET S, Cardinality(s) <= n + 1
        PROVE  h[s] = Unfold(f, h, s)
    <3>1. h[s] = Unfold(f, g, s)
      BY <2>1
    <3>2. CASE s = {}
      BY <3>1, <3>2 DEF Unfold
    <3>3. CASE s # {}
      <4>1. Cardinality(s \ {AddedLast(s)}) <= n
        BY <1>1, <1>2, <2>2, <3>3
      <4>2. h[s \ {AddedLast(s)}] = g[s \ {AddedLast(s)}]
        BY <1>2, <3>3, <4>1
      <4> HIDE DEF h
      <4> QED  BY <3>1, <3>3, <4>2 DEF Unfold
    <3> QED  BY <3>2, <3>3
  <2> HIDE DEF h
  <2>3. Solves(h, n + 1)
    BY <2>2
  <2> QED  BY <2>3
<1>5. Cardinality(S) \in Solved
  <2>1. Solved \in SUBSET Nat
    OBVIOUS
  <2> HIDE DEF Solved
  <2>2. Solved = Nat
    BY <1>3, <1>4, <2>1, NaturalInduction
  <2> QED  BY <1>1, <2>2
<1>6. PICK g : Solves(g, Cardinality(S))
  BY <1>5
<1> DEFINE h == [s \in SUBSET S |-> g[s]]
<1>7. \A s \in SUBSET S : Unfold(f, h, s) = Unfold(f, g, s)
  BY <1>2 DEF Unfold
<1>8. \A s \in SUBSET S : g[s] = Unfold(f, g, s)
  BY <1>1, <1>6, FS_Subset
<1>9. h = [s \in SUBSET S |-> Unfold(f, h, s)]
  BY <1>7, <1>8, Zenon
<1>10. SumOfSubsets(f, S) = [s \in SUBSET S |-> Unfold(f, SumOfSubsets(f, S), s)]
  <2> HIDE DEF h
  <2>1. \E e : e = [s \in SUBSET S |-> Unfold(f, e, s)]
    BY <1>9
  <2> QED  BY <2>1, Zenon DEF SumOfSubsets
<1> QED  BY <1>10, Zenon

(* The sum of a subset does not depend on the set it is taken from. *)
LEMMA SumOfSubset ==
  ASSUME NEW f, NEW S, IsFiniteSet(S), NEW T \in SUBSET S
  PROVE  SumOfSubsets(f, S)[T] = SumFunctionOnSet(f, T)
<1> DEFINE P == {s \in SUBSET T : SumOfSubsets(f, S)[s] = SumOfSubsets(f, T)[s]}
<1>1. IsFiniteSet(T)
  BY FS_Subset
<1>2. \A s \in SUBSET T :
        /\ SumOfSubsets(f, S)[s] = Unfold(f, SumOfSubsets(f, S), s)
        /\ SumOfSubsets(f, T)[s] = Unfold(f, SumOfSubsets(f, T), s)
  BY <1>1, SumsExist
<1>3. {} \in P
  BY <1>2 DEF Unfold
<1>4. ASSUME NEW s \in SUBSET T, s # {}, \A x \in s : s \ {x} \in P
      PROVE  s \in P
  BY <1>2, <1>4, LastIsElement DEF Unfold
<1>5. SUBSET T \subseteq P
  <2> HIDE DEF P
  <2> QED  BY <1>1, <1>3, <1>4, SubsetInduction
<1> QED  BY <1>5, SumIsRecursive

LEMMA SumOfNothing ==
  ASSUME NEW f
  PROVE  SumFunctionOnSet(f, {}) = 0
  BY FS_EmptySet, SumsExist, SumIsRecursive DEF Unfold

LEMMA SumLast ==
  ASSUME NEW f, NEW S, IsFiniteSet(S), S # {}
  PROVE  SumFunctionOnSet(f, S) = f[AddedLast(S)] + SumFunctionOnSet(f, S \ {AddedLast(S)})
<1>1. SumFunctionOnSet(f, S) = Unfold(f, SumOfSubsets(f, S), S)
  BY SumIsRecursive, SumsExist
<1> QED  BY <1>1, SumOfSubset DEF Unfold

(* Sums of integers are integers, and those of naturals are naturals. *)
LEMMA SumType ==
  ASSUME NEW f, NEW S, IsFiniteSet(S), NEW N, N = Int \/ N = Nat,
         \A x \in S : f[x] \in N
  PROVE  SumFunctionOnSet(f, S) \in N
<1> DEFINE P == {s \in SUBSET S : SumFunctionOnSet(f, s) \in N}
<1>1. {} \in P
  BY SumOfNothing
<1>2. ASSUME NEW s \in SUBSET S, s # {}, \A x \in s : s \ {x} \in P
      PROVE  s \in P
  <2>1. IsFiniteSet(s) /\ AddedLast(s) \in s
    BY <1>2, FS_Subset, LastIsElement
  <2>2. f[AddedLast(s)] \in N /\ SumFunctionOnSet(f, s \ {AddedLast(s)}) \in N
    BY <1>2, <2>1
  <2> QED  BY <1>2, <2>1, <2>2, SumLast
<1>3. SUBSET S \subseteq P
  <2> HIDE DEF P
  <2> QED  BY <1>1, <1>2, SubsetInduction
<1> QED  BY <1>3

(* Any element may be taken out of a sum, not only the one added last. *)
LEMMA SumRemove ==
  ASSUME NEW f, NEW S, IsFiniteSet(S), \A x \in S : f[x] \in Int, NEW e \in S
  PROVE  SumFunctionOnSet(f, S) = f[e] + SumFunctionOnSet(f, S \ {e})
<1> DEFINE P == {s \in SUBSET S : \A x \in s :
                   SumFunctionOnSet(f, s) = f[x] + SumFunctionOnSet(f, s \ {x})}
<1>1. {} \in P
  OBVIOUS
<1>2. ASSUME NEW s \in SUBSET S, s # {}, \A x \in s : s \ {x} \in P, NEW x \in s
      PROVE  SumFunctionOnSet(f, s) = f[x] + SumFunctionOnSet(f, s \ {x})
  <2>1. PICK c \in s : c = AddedLast(s)
    BY <1>2, LastIsElement
  <2>2. SumFunctionOnSet(f, s) = f[c] + SumFunctionOnSet(f, s \ {c})
    BY <1>2, <2>1, FS_Subset, SumLast
  <2>3. CASE c = x
    BY <2>2, <2>3
  <2>4. CASE c # x
    <3>1. (s \ {c}) \ {x} = s \ {c, x} /\ (s \ {x}) \ {c} = s \ {c, x}
      OBVIOUS
    <3>2. s \ {c} \in P /\ s \ {x} \in P /\ x \in s \ {c} /\ c \in s \ {x}
      BY <1>2, <2>4
    <3>3. SumFunctionOnSet(f, s \ {c}) = f[x] + SumFunctionOnSet(f, s \ {c, x})
      BY <3>1, <3>2, Zenon
    <3>4. SumFunctionOnSet(f, s \ {x}) = f[c] + SumFunctionOnSet(f, s \ {c, x})
      BY <3>1, <3>2, Zenon
    <3>5. SumFunctionOnSet(f, s \ {c, x}) \in Int
      <4>1. IsFiniteSet(s \ {c, x})
        BY FS_Subset
      <4> QED  BY <4>1, SumType
    <3>6. f[c] \in Int /\ f[x] \in Int
      OBVIOUS
    <3> QED  BY <2>2, <3>3, <3>4, <3>5, <3>6
  <2> QED  BY <2>3, <2>4
<1>3. SUBSET S \subseteq P
  <2>1. \A s \in SUBSET S : s # {} /\ (\A x \in s : s \ {x} \in P) => s \in P
    BY <1>2
  <2> HIDE DEF P
  <2> QED  BY <1>1, <2>1, SubsetInduction
<1> QED  BY <1>3

(* Sums are linear and monotone. *)
LEMMA SumLinear ==
  ASSUME NEW S, IsFiniteSet(S), NEW f, NEW g, NEW h, NEW k \in Int,
         \A x \in S : f[x] \in Int /\ g[x] \in Int /\ h[x] = k * f[x] + g[x]
  PROVE  SumFunctionOnSet(h, S) = k * SumFunctionOnSet(f, S) + SumFunctionOnSet(g, S)
<1> DEFINE P == {s \in SUBSET S :
                   SumFunctionOnSet(h, s) = k * SumFunctionOnSet(f, s) + SumFunctionOnSet(g, s)}
<1>1. {} \in P
  BY SumOfNothing
<1>2. ASSUME NEW s \in SUBSET S, s # {}, \A x \in s : s \ {x} \in P
      PROVE  s \in P
  <2>1. PICK c \in s : c = AddedLast(s)
    BY <1>2, LastIsElement
  <2>2. IsFiniteSet(s) /\ IsFiniteSet(s \ {c})
    BY FS_Subset
  <2>3. /\ SumFunctionOnSet(f, s) = f[c] + SumFunctionOnSet(f, s \ {c})
        /\ SumFunctionOnSet(g, s) = g[c] + SumFunctionOnSet(g, s \ {c})
        /\ SumFunctionOnSet(h, s) = h[c] + SumFunctionOnSet(h, s \ {c})
    BY <1>2, <2>1, <2>2, SumLast
  <2>4. SumFunctionOnSet(f, s \ {c}) \in Int /\ SumFunctionOnSet(g, s \ {c}) \in Int
    BY <2>2, SumType
  <2>5. SumFunctionOnSet(h, s \ {c})
          = k * SumFunctionOnSet(f, s \ {c}) + SumFunctionOnSet(g, s \ {c})
    BY <1>2
  <2>6. f[c] \in Int /\ g[c] \in Int /\ h[c] = k * f[c] + g[c]
    OBVIOUS
  <2>7. k * (f[c] + SumFunctionOnSet(f, s \ {c})) = k * f[c] + k * SumFunctionOnSet(f, s \ {c})
    BY <2>4, <2>6
  <2> QED  BY <2>3, <2>4, <2>5, <2>6, <2>7
<1>3. SUBSET S \subseteq P
  <2> HIDE DEF P
  <2> QED  BY <1>1, <1>2, SubsetInduction
<1> QED  BY <1>3

LEMMA SumOfZeros ==
  ASSUME NEW S, IsFiniteSet(S), NEW f, \A x \in S : f[x] = 0
  PROVE  SumFunctionOnSet(f, S) = 0
<1>1. \A x \in S : f[x] \in Int /\ f[x] = 1 * f[x] + f[x]
  OBVIOUS
<1>2. PICK z \in Int : z = SumFunctionOnSet(f, S)
  BY <1>1, SumType
<1>3. z = z + z
  <2>1. z = 1 * z + z
    <3> DEFINE k == 1
    <3>1. k \in Int /\ \A x \in S : f[x] \in Int /\ f[x] = k * f[x] + f[x]
      BY <1>1
    <3> HIDE DEF k
    <3>2. SumFunctionOnSet(f, S) = k * SumFunctionOnSet(f, S) + SumFunctionOnSet(f, S)
      BY <3>1, SumLinear
    <3> QED  BY <1>2, <3>2 DEF k
  <2>2. 1 * z = z
    OBVIOUS
  <2> QED  BY <2>1, <2>2
<1>4. z = 0
  BY <1>3
<1> QED  BY <1>2, <1>4

LEMMA SumScaled ==
  ASSUME NEW S, IsFiniteSet(S), NEW f, NEW h, NEW k \in Int,
         \A x \in S : f[x] \in Int /\ h[x] = k * f[x]
  PROVE  SumFunctionOnSet(h, S) = k * SumFunctionOnSet(f, S)
<1> DEFINE g == [x \in S |-> 0]
<1>1. \A x \in S : f[x] \in Int /\ g[x] \in Int /\ h[x] = k * f[x] + g[x]
  OBVIOUS
<1>2. SumFunctionOnSet(g, S) = 0
  BY SumOfZeros
<1>3. SumFunctionOnSet(f, S) \in Int
  BY SumType
<1> HIDE DEF g
<1>4. SumFunctionOnSet(h, S) = k * SumFunctionOnSet(f, S) + SumFunctionOnSet(g, S)
  BY <1>1, SumLinear
<1> QED  BY <1>2, <1>3, <1>4

LEMMA SumOfSums ==
  ASSUME NEW S, IsFiniteSet(S), NEW f, NEW g, NEW h,
         \A x \in S : f[x] \in Int /\ g[x] \in Int /\ h[x] = f[x] + g[x]
  PROVE  SumFunctionOnSet(h, S) = SumFunctionOnSet(f, S) + SumFunctionOnSet(g, S)
<1>1. \A x \in S : f[x] \in Int /\ g[x] \in Int /\ h[x] = 1 * f[x] + g[x]
  OBVIOUS
<1>2. SumFunctionOnSet(h, S) = 1 * SumFunctionOnSet(f, S) + SumFunctionOnSet(g, S)
  BY <1>1, SumLinear
<1> QED  BY <1>2, SumType

LEMMA SumMonotone ==
  ASSUME NEW S, IsFiniteSet(S), NEW f, NEW g,
         \A x \in S : f[x] \in Int /\ g[x] \in Int /\ f[x] <= g[x]
  PROVE  SumFunctionOnSet(f, S) <= SumFunctionOnSet(g, S)
<1> DEFINE P == {s \in SUBSET S : SumFunctionOnSet(f, s) <= SumFunctionOnSet(g, s)}
<1>1. {} \in P
  BY SumOfNothing
<1>2. ASSUME NEW s \in SUBSET S, s # {}, \A x \in s : s \ {x} \in P
      PROVE  s \in P
  <2>1. PICK c \in s : c = AddedLast(s)
    BY <1>2, LastIsElement
  <2>2. IsFiniteSet(s) /\ IsFiniteSet(s \ {c})
    BY FS_Subset
  <2>3. /\ SumFunctionOnSet(f, s) = f[c] + SumFunctionOnSet(f, s \ {c})
        /\ SumFunctionOnSet(g, s) = g[c] + SumFunctionOnSet(g, s \ {c})
    BY <1>2, <2>1, <2>2, SumLast
  <2>4. SumFunctionOnSet(f, s \ {c}) \in Int /\ SumFunctionOnSet(g, s \ {c}) \in Int
    BY <2>2, SumType
  <2>5. SumFunctionOnSet(f, s \ {c}) <= SumFunctionOnSet(g, s \ {c})
    BY <1>2
  <2> QED  BY <2>3, <2>4, <2>5
<1>3. SUBSET S \subseteq P
  <2> HIDE DEF P
  <2> QED  BY <1>1, <1>2, SubsetInduction
<1> QED  BY <1>3

(* A sum depends on the values only. *)
LEMMA SumSame ==
  ASSUME NEW S, IsFiniteSet(S), NEW f, NEW g,
         \A x \in S : f[x] \in Int /\ f[x] = g[x]
  PROVE  SumFunctionOnSet(f, S) = SumFunctionOnSet(g, S)
<1>1. /\ SumFunctionOnSet(f, S) <= SumFunctionOnSet(g, S)
      /\ SumFunctionOnSet(g, S) <= SumFunctionOnSet(f, S)
  BY SumMonotone
<1>2. SumFunctionOnSet(f, S) \in Int /\ SumFunctionOnSet(g, S) \in Int
  BY SumType
<1> QED  BY <1>1, <1>2

(* Changing one value changes the sum by as much. *)
LEMMA SumChange ==
  ASSUME NEW S, IsFiniteSet(S), NEW f, NEW g, NEW e \in S,
         \A x \in S : f[x] \in Int /\ g[x] \in Int,
         \A x \in S \ {e} : f[x] = g[x]
  PROVE  SumFunctionOnSet(g, S) = SumFunctionOnSet(f, S) + g[e] - f[e]
<1>1. IsFiniteSet(S \ {e})
  BY FS_Subset
<1>2. /\ SumFunctionOnSet(f, S) = f[e] + SumFunctionOnSet(f, S \ {e})
      /\ SumFunctionOnSet(g, S) = g[e] + SumFunctionOnSet(g, S \ {e})
  BY SumRemove
<1>3. SumFunctionOnSet(f, S \ {e}) = SumFunctionOnSet(g, S \ {e})
  BY <1>1, SumSame
<1>4. SumFunctionOnSet(f, S \ {e}) \in Int
  BY <1>1, SumType
<1> QED  BY <1>2, <1>3, <1>4

(* A constant adds up to a multiple. *)
LEMMA SumConstant ==
  ASSUME NEW S, IsFiniteSet(S), NEW f, NEW k \in Int, \A x \in S : f[x] = k
  PROVE  SumFunctionOnSet(f, S) = k * Cardinality(S)
<1> DEFINE P == {s \in SUBSET S : SumFunctionOnSet(f, s) = k * Cardinality(s)}
<1>1. {} \in P
  <2>1. Cardinality({}) = 0
    BY FS_EmptySet
  <2> QED  BY <2>1, SumOfNothing
<1>2. ASSUME NEW T \in SUBSET S, T # {}, \A x \in T : T \ {x} \in P
      PROVE  T \in P
  <2>1. PICK e \in T : TRUE
    BY <1>2
  <2>2. IsFiniteSet(T)
    BY FS_Subset
  <2>3. \A x \in T : f[x] \in Int
    OBVIOUS
  <2>4. SumFunctionOnSet(f, T) = f[e] + SumFunctionOnSet(f, T \ {e})
    BY <2>2, <2>3, SumRemove
  <2>5. SumFunctionOnSet(f, T \ {e}) = k * Cardinality(T \ {e})
    BY <1>2
  <2>6. PICK n \in Nat : n = Cardinality(T \ {e}) /\ Cardinality(T) = n + 1
    <3>1. Cardinality(T \ {e}) = Cardinality(T) - 1 /\ IsFiniteSet(T \ {e})
      BY <2>2, FS_RemoveElement
    <3>2. Cardinality(T) \in Nat /\ Cardinality(T \ {e}) \in Nat
      BY <2>2, <3>1, FS_CardinalityType
    <3> QED  BY <3>1, <3>2
  <2>7. f[e] = k /\ k * (n + 1) = k + k * n
    OBVIOUS
  <2> QED  BY <2>4, <2>5, <2>6, <2>7
<1> HIDE DEF P
<1>3. SUBSET S \subseteq P
  BY <1>1, <1>2, SubsetInduction
<1> QED  BY <1>3 DEF P

(* A sum is split along a subset. *)
LEMMA SumSplit ==
  ASSUME NEW S, IsFiniteSet(S), NEW f, \A x \in S : f[x] \in Int, NEW T \in SUBSET S
  PROVE  SumFunctionOnSet(f, S) = SumFunctionOnSet(f, T) + SumFunctionOnSet(f, S \ T)
<1> DEFINE Split(s) == SumFunctionOnSet(f, s)
                         = SumFunctionOnSet(f, s \cap T) + SumFunctionOnSet(f, s \ T)
           P == {s \in SUBSET S : Split(s)}
<1>1. {} \in P
  <2>1. {} \cap T = {} /\ {} \ T = {}
    OBVIOUS
  <2> QED  BY <2>1, SumOfNothing
<1>2. ASSUME NEW s \in SUBSET S, s # {}, \A x \in s : s \ {x} \in P
      PROVE  s \in P
  <2>1. PICK e \in s : Split(s \ {e})
    BY <1>2
  <2>2. IsFiniteSet(s) /\ IsFiniteSet(s \cap T) /\ IsFiniteSet(s \ T)
    BY FS_Subset
  <2>3. /\ \A x \in s : f[x] \in Int
        /\ \A x \in s \cap T : f[x] \in Int
        /\ \A x \in s \ T : f[x] \in Int
    OBVIOUS
  <2>4. SumFunctionOnSet(f, s) = f[e] + SumFunctionOnSet(f, s \ {e})
    BY <2>2, <2>3, SumRemove
  <2>5. SumFunctionOnSet(f, s \cap T) \in Int /\ SumFunctionOnSet(f, s \ T) \in Int
    BY <2>2, <2>3, SumType
  <2>6. CASE e \in T
    <3>1. (s \ {e}) \cap T = (s \cap T) \ {e} /\ (s \ {e}) \ T = s \ T /\ e \in s \cap T
      BY <2>6
    <3>2. SumFunctionOnSet(f, s \cap T) = f[e] + SumFunctionOnSet(f, (s \cap T) \ {e})
      BY <2>2, <2>3, <3>1, SumRemove
    <3>3. IsFiniteSet((s \cap T) \ {e}) /\ \A x \in (s \cap T) \ {e} : f[x] \in Int
      BY <2>2, <2>3, FS_Subset
    <3>4. SumFunctionOnSet(f, (s \cap T) \ {e}) \in Int
      BY <3>3, SumType
    <3>5. SumFunctionOnSet(f, s \ {e})
            = SumFunctionOnSet(f, (s \cap T) \ {e}) + SumFunctionOnSet(f, s \ T)
      BY <2>1, <3>1
    <3>6. Split(s)
      BY <2>3, <2>4, <2>5, <3>2, <3>4, <3>5
    <3> QED  BY <3>6
  <2>7. CASE e \notin T
    <3>1. (s \ {e}) \cap T = s \cap T /\ (s \ {e}) \ T = (s \ T) \ {e} /\ e \in s \ T
      BY <2>7
    <3>2. SumFunctionOnSet(f, s \ T) = f[e] + SumFunctionOnSet(f, (s \ T) \ {e})
      BY <2>2, <2>3, <3>1, SumRemove
    <3>3. IsFiniteSet((s \ T) \ {e}) /\ \A x \in (s \ T) \ {e} : f[x] \in Int
      BY <2>2, <2>3, FS_Subset
    <3>4. SumFunctionOnSet(f, (s \ T) \ {e}) \in Int
      BY <3>3, SumType
    <3>5. SumFunctionOnSet(f, s \ {e})
            = SumFunctionOnSet(f, s \cap T) + SumFunctionOnSet(f, (s \ T) \ {e})
      BY <2>1, <3>1
    <3>6. Split(s)
      BY <2>3, <2>4, <2>5, <3>2, <3>4, <3>5
    <3> QED  BY <3>6
  <2> QED  BY <2>6, <2>7
<1> HIDE DEF P
<1>3. SUBSET S \subseteq P
  BY <1>1, <1>2, SubsetInduction
<1>4. S \in P /\ S \cap T = T
  BY <1>3
<1> QED  BY <1>4 DEF P

(* What one set has and another lacks counts for nothing. *)
LEMMA SumAtMost ==
  ASSUME NEW S, IsFiniteSet(S), NEW f, \A x \in S : f[x] \in Nat,
         NEW I \in SUBSET S, NEW J \in SUBSET S, \A x \in I \ J : f[x] = 0
  PROVE  SumFunctionOnSet(f, I) <= SumFunctionOnSet(f, J)
<1>1. /\ IsFiniteSet(I) /\ IsFiniteSet(J)
      /\ IsFiniteSet(I \cap J) /\ IsFiniteSet(I \ J) /\ IsFiniteSet(J \ I)
  BY FS_Subset
<1>2. /\ I \cap J \in SUBSET I /\ I \ (I \cap J) = I \ J
      /\ I \cap J \in SUBSET J /\ J \ (I \cap J) = J \ I
      /\ \A x \in I : f[x] \in Int
      /\ \A x \in J : f[x] \in Int
  OBVIOUS
<1>3. SumFunctionOnSet(f, I) = SumFunctionOnSet(f, I \cap J) + SumFunctionOnSet(f, I \ J)
  BY <1>1, <1>2, SumSplit
<1>4. SumFunctionOnSet(f, J) = SumFunctionOnSet(f, I \cap J) + SumFunctionOnSet(f, J \ I)
  BY <1>1, <1>2, SumSplit
<1>5. SumFunctionOnSet(f, I \ J) = 0
  BY <1>1, SumOfZeros
<1>6. SumFunctionOnSet(f, J \ I) \in Nat /\ SumFunctionOnSet(f, I \cap J) \in Nat
  <2>1. /\ \A x \in J \ I : f[x] \in Nat
        /\ \A x \in I \cap J : f[x] \in Nat
    OBVIOUS
  <2> QED  BY <1>1, <2>1, SumType
<1> QED  BY <1>3, <1>4, <1>5, <1>6

=============================================================================

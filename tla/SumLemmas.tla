------------------------------- MODULE SumLemmas -------------------------------
(***************************************************************************)
(* Facts about finite sums (SumFunctionOnSet of the module Functions) that *)
(* the proofs of the strategies and of the rate limiter cite.              *)
(*                                                                         *)
(* A sum is a recursion over the subsets of S.  Induction is done without  *)
(* the induction theorems of the library: a set of naturals that violates  *)
(* a claim would have a least element.                                     *)
(***************************************************************************)
EXTENDS Integers, FiniteSets, FiniteSetsExt, Functions, FiniteSetTheorems, TLAPS

\* A nonempty set of naturals has a least element.
LEMMA LeastNatural ==
    ASSUME NEW T, T \subseteq Nat, T # {}
    PROVE  \E n \in T : \A k \in T : n <= k
<1> DEFINE less == OpToRel(<, Nat)
<1>1. IsWellFoundedOn(less, Nat)
  BY NatLessThanWellFounded
<1> HIDE DEF less
<1>2. PICK n \in T : \A k \in T : <<k, n>> \notin less
  BY <1>1, WFMin
<1>3. \A k \in T : ~(k < n)
  BY <1>2 DEF less, OpToRel
<1> QED
  BY <1>3

\* A set that contains 0, and with every number the next one, contains all naturals.
LEMMA SetInduction ==
    ASSUME NEW T, T \subseteq Nat, 0 \in T, \A n \in T : n + 1 \in T
    PROVE  T = Nat
<1> SUFFICES ASSUME Nat \ T # {} PROVE FALSE
  OBVIOUS
<1>1. PICK n \in Nat \ T : \A k \in Nat \ T : n <= k
  BY LeastNatural
<1>2. n - 1 \in T
  BY <1>1
<1> QED
  BY <1>1, <1>2

\* The smaller and the larger of two numbers.
LEMMA MinOfTwo ==
    ASSUME NEW a \in Int, NEW b \in Int
    PROVE  Min({a, b}) = IF a <= b THEN a ELSE b
  BY DEF Min

\* The greater of two numbers.
LEMMA MaxOfTwo ==
    ASSUME NEW a \in Int, NEW b \in Int
    PROVE  Max({a, b}) = IF a >= b THEN a ELSE b
  BY DEF Max

\* There are n numbers from 1 to n.
LEMMA CountTo ==
    ASSUME NEW n \in Nat
    PROVE  IsFiniteSet(1..n) /\ Cardinality(1..n) = n
<1>1. /\ IsFiniteSet(1..n)
      /\ Cardinality(1..n) = IF 1 > n THEN 0 ELSE n - 1 + 1
  BY FS_Interval
<1> QED
  BY <1>1

First(s) == CHOOSE x \in s : TRUE
SubsetsUpTo(S, n) == {s \in SUBSET S : Cardinality(s) <= n}

\* What the recursion makes of s when it has made r of the smaller sets.
SumStep(f, r, s) == IF s = {} THEN 0 ELSE f[First(s)] + r[s \ {First(s)}]

Sums(f, S) == CHOOSE r : r = [s \in SUBSET S |-> SumStep(f, r, s)]

\* The community module's sum is this recursion.
LEMMA SumIsRecursive == \A f, S : SumFunctionOnSet(f, S) = Sums(f, S)[S]
  BY DEF SumFunctionOnSet, FoldFunctionOnSet, MapThenFoldSet, Sums, SumStep, First

\* Sizes of finite sets, without one element and of one that is not empty.
LEMMA RemoveOne ==
    ASSUME NEW s, IsFiniteSet(s), NEW y \in s
    PROVE  Cardinality(s \ {y}) = Cardinality(s) - 1
  BY FS_RemoveElement

\* A set that counts at least one member has one.
LEMMA NotEmpty ==
    ASSUME NEW s, NEW n \in Nat, Cardinality(s) = n + 1
    PROVE  s # {}
  BY FS_EmptySet

\* What a step leaves of a set is smaller by one.
LEMMA SmallerSubset ==
    ASSUME NEW S, IsFiniteSet(S), NEW s \in SUBSET S, s # {}
    PROVE  /\ First(s) \in s
           /\ s \ {First(s)} \in SUBSET S
           /\ IsFiniteSet(s)
           /\ Cardinality(s) \in Nat \ {0}
           /\ Cardinality(s \ {First(s)}) = Cardinality(s) - 1
<1>1. First(s) \in s
  BY DEF First
<1>2. IsFiniteSet(s)
  BY FS_Subset
<1> QED
  BY <1>1, <1>2, FS_RemoveElement, FS_CardinalityType, FS_EmptySet

\* The recursion has a solution: on all sets of at most n elements, for every n.
LEMMA SumsExist ==
    ASSUME NEW f, NEW S, IsFiniteSet(S)
    PROVE  \E r : r = [s \in SUBSET S |-> SumStep(f, r, s)]
<1> DEFINE D(n) == SubsetsUpTo(S, n)
           T == {n \in Nat : \E r : r = [s \in D(n) |-> SumStep(f, r, s)]}
<1>0. \A s \in SUBSET S : IsFiniteSet(s) /\ Cardinality(s) \in Nat /\ Cardinality(s) <= Cardinality(S)
  BY FS_Subset, FS_CardinalityType
<1>1. 0 \in T
  <2> DEFINE r == [s \in D(0) |-> 0]
  <2>1. \A s \in D(0) : s = {}
    BY <1>0, FS_EmptySet DEF SubsetsUpTo
  <2>2. r = [s \in D(0) |-> SumStep(f, r, s)]
    BY <2>1 DEF SumStep
  <2> QED
    BY <2>2
<1>2. ASSUME NEW n \in T PROVE n + 1 \in T
  <2>1. PICK r : r = [s \in D(n) |-> SumStep(f, r, s)]
    OBVIOUS
  <2> DEFINE q == [s \in D(n + 1) |-> SumStep(f, r, s)]
  <2>2. \A s \in D(n) : q[s] = r[s] /\ s \in D(n + 1)
    BY <2>1, <1>0 DEF SubsetsUpTo
  <2>3. ASSUME NEW s \in D(n + 1) PROVE q[s] = SumStep(f, q, s)
    <3>1. CASE s = {}
      BY <3>1 DEF SumStep
    <3>2. CASE s # {}
      <4>1. s \ {First(s)} \in D(n)
        BY <3>2, SmallerSubset DEF SubsetsUpTo
      <4> QED
        BY <3>2, <4>1, <2>2 DEF SumStep
    <3> QED
      BY <3>1, <3>2
  <2>4. q = [s \in D(n + 1) |-> SumStep(f, q, s)]
    BY <2>3
  <2> HIDE DEF q, D
  <2>5. \E p : p = [s \in D(n + 1) |-> SumStep(f, p, s)]
    BY <2>4
  <2> QED
    BY <2>5
<1> HIDE DEF T
<1>3. T = Nat
  BY <1>1, <1>2, SetInduction DEF T
<1>4. D(Cardinality(S)) = SUBSET S
  BY <1>0 DEF SubsetsUpTo
<1>5. \E r : r = [s \in D(Cardinality(S)) |-> SumStep(f, r, s)]
  <2> HIDE DEF D
  <2>1. Cardinality(S) \in T
    BY <1>3, FS_CardinalityType
  <2> QED
    BY <2>1 DEF T
<1> QED
  BY <1>4, <1>5

\* The sum of every subset is one step of the recursion.
LEMMA SumsAt ==
    ASSUME NEW f, NEW S, IsFiniteSet(S)
    PROVE  \A t \in SUBSET S : Sums(f, S)[t] = SumStep(f, Sums(f, S), t)
<1> DEFINE r == Sums(f, S)
<1>1. Sums(f, S) = [s \in SUBSET S |-> SumStep(f, Sums(f, S), s)]
  BY SumsExist DEF Sums
<1> HIDE DEF r
<1>2. r = [s \in SUBSET S |-> SumStep(f, r, s)]
  BY <1>1 DEF r
<1>3. \A t \in SUBSET S : r[t] = SumStep(f, r, t)
  BY <1>2
<1> QED
  BY <1>3 DEF r

\* The recursion gives a subset the same sum in whatever set it starts.
LEMMA SumsOfSubset ==
    ASSUME NEW f, NEW S, IsFiniteSet(S), NEW T \in SUBSET S
    PROVE  Sums(f, S)[T] = SumFunctionOnSet(f, T)
<1> DEFINE N == {n \in Nat : \A s \in SUBSET T : Cardinality(s) = n => Sums(f, S)[s] = Sums(f, T)[s]}
<1>0. IsFiniteSet(T) /\ \A s \in SUBSET T : s \in SUBSET S /\ IsFiniteSet(s)
  BY FS_Subset
<1>1. \A s \in SUBSET T : /\ Sums(f, S)[s] = SumStep(f, Sums(f, S), s)
                          /\ Sums(f, T)[s] = SumStep(f, Sums(f, T), s)
  BY <1>0, SumsAt
<1>2. 0 \in N
  BY <1>0, <1>1, FS_EmptySet DEF SumStep
<1>3. ASSUME NEW n \in N PROVE n + 1 \in N
  <2> SUFFICES ASSUME NEW s \in SUBSET T, Cardinality(s) = n + 1
               PROVE  Sums(f, S)[s] = Sums(f, T)[s]
    OBVIOUS
  <2>0. n \in Nat
    OBVIOUS
  <2>1. s # {}
    BY <2>0, NotEmpty
  <2>2. /\ s \ {First(s)} \in SUBSET T
        /\ Cardinality(s \ {First(s)}) = n
    BY <2>0, <2>1, <1>0, SmallerSubset
  <2>3. Sums(f, S)[s \ {First(s)}] = Sums(f, T)[s \ {First(s)}]
    BY <2>2
  <2> QED
    BY <2>1, <2>3, <1>1 DEF SumStep
<1> HIDE DEF N
<1>4. N = Nat
  BY <1>2, <1>3, SetInduction DEF N
<1>5. Cardinality(T) \in N
  BY <1>0, <1>4, FS_CardinalityType
<1> QED
  BY <1>5, SumIsRecursive DEF N

\* The sum of nothing.
LEMMA SumEmpty == \A f : SumFunctionOnSet(f, {}) = 0
<1> TAKE f
<1>1. Sums(f, {})[{}] = SumStep(f, Sums(f, {}), {})
  BY SumsAt, FS_EmptySet
<1> QED
  BY <1>1, SumIsRecursive DEF SumStep

\* The element that the recursion takes first can be split off.
LEMMA SumFirst ==
    ASSUME NEW f, NEW S, IsFiniteSet(S), S # {}
    PROVE  SumFunctionOnSet(f, S) = f[First(S)] + SumFunctionOnSet(f, S \ {First(S)})
<1>1. Sums(f, S)[S \ {First(S)}] = SumFunctionOnSet(f, S \ {First(S)})
  BY SumsOfSubset
<1>2. Sums(f, S)[S] = f[First(S)] + Sums(f, S)[S \ {First(S)}]
  BY SumsAt DEF SumStep
<1> QED
  BY <1>1, <1>2, SumIsRecursive

-----------------------------------------------------------------------------
(* The facts that the proofs use *)

\* A sum of integers is one.
LEMMA SumType ==
    ASSUME NEW S, IsFiniteSet(S), NEW f, \A x \in S : f[x] \in Int
    PROVE  SumFunctionOnSet(f, S) \in Int
<1> DEFINE N == {n \in Nat : \A s \in SUBSET S : Cardinality(s) = n => SumFunctionOnSet(f, s) \in Int}
<1>0. \A s \in SUBSET S : IsFiniteSet(s)
  BY FS_Subset
<1>1. 0 \in N
  BY <1>0, SumEmpty, FS_EmptySet
<1>2. ASSUME NEW n \in N PROVE n + 1 \in N
  <2> SUFFICES ASSUME NEW s \in SUBSET S, Cardinality(s) = n + 1
               PROVE  SumFunctionOnSet(f, s) \in Int
    OBVIOUS
  <2>0. n \in Nat
    OBVIOUS
  <2>1. s # {}
    BY <2>0, NotEmpty
  <2>2. /\ First(s) \in s /\ s \ {First(s)} \in SUBSET S
        /\ Cardinality(s \ {First(s)}) = n
    BY <2>0, <2>1, SmallerSubset
  <2> QED
    BY <2>1, <2>2, <1>0, SumFirst
<1> HIDE DEF N
<1>3. N = Nat
  BY <1>1, <1>2, SetInduction DEF N
<1> QED
  BY <1>3, FS_CardinalityType DEF N

\* Any element may be taken first.
LEMMA SumRemove ==
    ASSUME NEW S, IsFiniteSet(S), NEW f, \A y \in S : f[y] \in Int, NEW x \in S
    PROVE  SumFunctionOnSet(f, S) = f[x] + SumFunctionOnSet(f, S \ {x})
<1> DEFINE Sum(s) == SumFunctionOnSet(f, s)
           N == {n \in Nat : \A s \in SUBSET S : Cardinality(s) = n =>
                    \A y \in s : Sum(s) = f[y] + Sum(s \ {y})}
<1>0. \A s \in SUBSET S : IsFiniteSet(s) /\ Sum(s) \in Int
  BY FS_Subset, SumType
<1>1. 0 \in N
  BY <1>0, FS_EmptySet
<1>2. ASSUME NEW n \in N PROVE n + 1 \in N
  <2> SUFFICES ASSUME NEW s \in SUBSET S, Cardinality(s) = n + 1, NEW y \in s
               PROVE  Sum(s) = f[y] + Sum(s \ {y})
    OBVIOUS
  <2> DEFINE z == First(s)
  <2>1. /\ z \in s /\ s \ {z} \in SUBSET S /\ Cardinality(s \ {z}) = n
        /\ Sum(s) = f[z] + Sum(s \ {z})
    BY <1>0, SmallerSubset, SumFirst
  <2> HIDE DEF z
  <2>2. CASE y = z
    BY <2>1, <2>2
  <2>3. CASE y # z
    <3>1. y \in s \ {z} /\ z \in s \ {y} /\ s \ {y} \in SUBSET S
      BY <2>1, <2>3
    <3>2. Cardinality(s \ {y}) = n
      <4>1. IsFiniteSet(s) /\ n \in Nat
        BY <1>0
      <4>2. Cardinality(s \ {y}) = Cardinality(s) - 1
        BY <4>1, RemoveOne
      <4> QED
        BY <4>1, <4>2
    <3>3. Sum(s \ {z}) = f[y] + Sum((s \ {z}) \ {y})
      BY <2>1, <3>1
    <3>4. Sum(s \ {y}) = f[z] + Sum((s \ {y}) \ {z})
      BY <3>1, <3>2
    <3>5. Sum((s \ {z}) \ {y}) = Sum((s \ {y}) \ {z})
      <4>1. (s \ {z}) \ {y} = (s \ {y}) \ {z}
        OBVIOUS
      <4> QED
        BY <4>1
    <3>6. (s \ {y}) \ {z} \in SUBSET S
      OBVIOUS
    <3>7. Sum((s \ {y}) \ {z}) \in Int /\ f[y] \in Int /\ f[z] \in Int
      BY <1>0, <3>1, <3>6
    <3> HIDE DEF Sum, N
    <3> QED
      BY <2>1, <3>3, <3>4, <3>5, <3>7
  <2> QED
    BY <2>2, <2>3
<1> HIDE DEF N
<1>3. N = Nat
  BY <1>1, <1>2, SetInduction DEF N
<1> QED
  BY <1>3, FS_CardinalityType DEF N

\* Sums compare like their terms.
LEMMA SumMonotone ==
    ASSUME NEW S, IsFiniteSet(S), NEW f, NEW g,
           \A x \in S : f[x] \in Int /\ g[x] \in Int /\ f[x] <= g[x]
    PROVE  SumFunctionOnSet(f, S) <= SumFunctionOnSet(g, S)
<1> DEFINE F(s) == SumFunctionOnSet(f, s)
           G(s) == SumFunctionOnSet(g, s)
           N == {n \in Nat : \A s \in SUBSET S : Cardinality(s) = n => F(s) <= G(s)}
<1>0. \A s \in SUBSET S : IsFiniteSet(s) /\ F(s) \in Int /\ G(s) \in Int
  BY FS_Subset, SumType
<1>1. 0 \in N
  BY <1>0, SumEmpty, FS_EmptySet
<1>2. ASSUME NEW n \in N PROVE n + 1 \in N
  <2> SUFFICES ASSUME NEW s \in SUBSET S, Cardinality(s) = n + 1
               PROVE  F(s) <= G(s)
    OBVIOUS
  <2> DEFINE z == First(s)
  <2>0. n \in Nat /\ s # {} /\ IsFiniteSet(s)
    BY <1>0, NotEmpty
  <2>1. /\ z \in s /\ s \ {z} \in SUBSET S /\ Cardinality(s \ {z}) = n
        /\ F(s) = f[z] + F(s \ {z}) /\ G(s) = g[z] + G(s \ {z})
    BY <2>0, <1>0, SmallerSubset, SumFirst
  <2>2. F(s \ {z}) <= G(s \ {z})
    BY <2>1
  <2>3. /\ f[z] \in Int /\ g[z] \in Int /\ f[z] <= g[z]
        /\ F(s \ {z}) \in Int /\ G(s \ {z}) \in Int
    BY <1>0, <2>1
  <2> HIDE DEF z, F, G
  <2> QED
    BY <2>1, <2>2, <2>3
<1> HIDE DEF N
<1>3. N = Nat
  BY <1>1, <1>2, SetInduction DEF N
<1> QED
  BY <1>3, FS_CardinalityType DEF N

\* Sums of the same terms are the same.
LEMMA SumSame ==
    ASSUME NEW S, IsFiniteSet(S), NEW f, NEW g,
           \A x \in S : f[x] \in Int /\ g[x] = f[x]
    PROVE  SumFunctionOnSet(g, S) = SumFunctionOnSet(f, S)
<1>1. SumFunctionOnSet(f, S) <= SumFunctionOnSet(g, S)
  BY SumMonotone
<1>2. SumFunctionOnSet(g, S) <= SumFunctionOnSet(f, S)
  BY SumMonotone
<1>3. SumFunctionOnSet(f, S) \in Int /\ SumFunctionOnSet(g, S) \in Int
  BY SumType
<1> QED
  BY <1>1, <1>2, <1>3

\* When one term changes, the sum changes by as much.
LEMMA SumUpdate ==
    ASSUME NEW S, IsFiniteSet(S), NEW x \in S, NEW f, NEW g,
           \A y \in S : f[y] \in Int /\ g[y] \in Int,
           \A y \in S \ {x} : g[y] = f[y]
    PROVE  SumFunctionOnSet(g, S) = SumFunctionOnSet(f, S) - f[x] + g[x]
<1>0. IsFiniteSet(S \ {x})
  BY FS_RemoveElement
<1>1. SumFunctionOnSet(f, S) = f[x] + SumFunctionOnSet(f, S \ {x})
  BY SumRemove
<1>2. SumFunctionOnSet(g, S) = g[x] + SumFunctionOnSet(g, S \ {x})
  BY SumRemove
<1>3. SumFunctionOnSet(g, S \ {x}) = SumFunctionOnSet(f, S \ {x})
  BY <1>0, SumSame
<1>4. SumFunctionOnSet(f, S \ {x}) \in Int
  BY <1>0, SumType
<1> QED
  BY <1>1, <1>2, <1>3, <1>4

\* A sum of zeros.
LEMMA SumOfZeros ==
    ASSUME NEW S, IsFiniteSet(S), NEW f, \A x \in S : f[x] = 0
    PROVE  SumFunctionOnSet(f, S) = 0
<1> DEFINE N == {n \in Nat : \A s \in SUBSET S : Cardinality(s) = n => SumFunctionOnSet(f, s) = 0}
<1>0. \A s \in SUBSET S : IsFiniteSet(s)
  BY FS_Subset
<1>1. 0 \in N
  BY <1>0, SumEmpty, FS_EmptySet
<1>2. ASSUME NEW n \in N PROVE n + 1 \in N
  <2> SUFFICES ASSUME NEW s \in SUBSET S, Cardinality(s) = n + 1
               PROVE  SumFunctionOnSet(f, s) = 0
    OBVIOUS
  <2>1. n \in Nat /\ s # {}
    BY NotEmpty
  <2>2. /\ First(s) \in s /\ s \ {First(s)} \in SUBSET S
        /\ Cardinality(s \ {First(s)}) = n
    BY <2>1, SmallerSubset
  <2> QED
    BY <2>1, <2>2, <1>0, SumFirst
<1> HIDE DEF N
<1>3. N = Nat
  BY <1>1, <1>2, SetInduction DEF N
<1> QED
  BY <1>3, FS_CardinalityType DEF N

\* Naturals add up to at least each of them.
LEMMA SumOfNaturals ==
    ASSUME NEW S, IsFiniteSet(S), NEW f, \A x \in S : f[x] \in Nat
    PROVE  /\ SumFunctionOnSet(f, S) \in Nat
           /\ \A x \in S : f[x] <= SumFunctionOnSet(f, S)
<1>1. ASSUME NEW s \in SUBSET S PROVE SumFunctionOnSet(f, s) \in Nat
  <2> DEFINE zeros == [x \in S |-> 0]
  <2>1. IsFiniteSet(s)
    BY FS_Subset
  <2>2. SumFunctionOnSet(zeros, s) = 0
    BY <2>1, SumOfZeros
  <2>3. SumFunctionOnSet(zeros, s) <= SumFunctionOnSet(f, s)
    BY <2>1, SumMonotone
  <2>4. SumFunctionOnSet(f, s) \in Int
    BY <2>1, SumType
  <2> QED
    BY <2>2, <2>3, <2>4
<1>2. ASSUME NEW x \in S PROVE f[x] <= SumFunctionOnSet(f, S)
  <2>1. SumFunctionOnSet(f, S) = f[x] + SumFunctionOnSet(f, S \ {x})
    BY SumRemove
  <2>2. SumFunctionOnSet(f, S \ {x}) \in Nat
    BY <1>1
  <2> QED
    BY <2>1, <2>2
<1> QED
  BY <1>1, <1>2

\* The sum over a set of which some terms count for f, the others for g.
LEMMA SumOfTwo ==
    ASSUME NEW S, IsFiniteSet(S), NEW f, NEW g, NEW h,
           \A x \in S : f[x] \in Int /\ g[x] \in Int /\ h[x] = f[x] + g[x]
    PROVE  SumFunctionOnSet(h, S) = SumFunctionOnSet(f, S) + SumFunctionOnSet(g, S)
<1> DEFINE F(s) == SumFunctionOnSet(f, s)
           G(s) == SumFunctionOnSet(g, s)
           H(s) == SumFunctionOnSet(h, s)
           N == {n \in Nat : \A s \in SUBSET S : Cardinality(s) = n => H(s) = F(s) + G(s)}
<1>0. \A s \in SUBSET S : IsFiniteSet(s) /\ F(s) \in Int /\ G(s) \in Int /\ H(s) \in Int
  BY FS_Subset, SumType
<1>1. 0 \in N
  <2>1. F({}) = 0 /\ G({}) = 0 /\ H({}) = 0
    BY SumEmpty
  <2>2. \A s \in SUBSET S : Cardinality(s) = 0 => s = {}
    BY <1>0, FS_EmptySet
  <2>3. \A s : s = {} => F(s) = 0 /\ G(s) = 0 /\ H(s) = 0
    BY <2>1
  <2>4. \A s \in SUBSET S : Cardinality(s) = 0 => H(s) = F(s) + G(s)
    <3> HIDE DEF F, G, H
    <3> QED
      BY <2>2, <2>3
  <2> QED
    BY <2>4
<1>2. ASSUME NEW n \in N PROVE n + 1 \in N
  <2> SUFFICES ASSUME NEW s \in SUBSET S, Cardinality(s) = n + 1
               PROVE  H(s) = F(s) + G(s)
    OBVIOUS
  <2> DEFINE z == First(s)
  <2>0. n \in Nat /\ s # {} /\ IsFiniteSet(s)
    BY <1>0, NotEmpty
  <2>1. /\ z \in s /\ s \ {z} \in SUBSET S /\ Cardinality(s \ {z}) = n
        /\ F(s) = f[z] + F(s \ {z}) /\ G(s) = g[z] + G(s \ {z}) /\ H(s) = h[z] + H(s \ {z})
    BY <2>0, <1>0, SmallerSubset, SumFirst
  <2>2. H(s \ {z}) = F(s \ {z}) + G(s \ {z})
    BY <2>1
  <2>3. /\ f[z] \in Int /\ g[z] \in Int /\ h[z] = f[z] + g[z]
        /\ F(s \ {z}) \in Int /\ G(s \ {z}) \in Int
    BY <1>0, <2>1
  <2> HIDE DEF z, F, G, H, N
  <2> QED
    BY <2>1, <2>2, <2>3
<1> HIDE DEF N
<1>3. N = Nat
  BY <1>1, <1>2, SetInduction DEF N
<1> QED
  BY <1>3, FS_CardinalityType DEF N

\* A sum of one term.
LEMMA SumOfOne ==
    ASSUME NEW x, NEW f, f[x] \in Int
    PROVE  SumFunctionOnSet(f, {x}) = f[x]
<1> DEFINE S == {x}
<1>1. IsFiniteSet(S) /\ x \in S /\ S \ {x} = {} /\ \A y \in S : f[y] \in Int
  BY FS_Singleton
<1> HIDE DEF S
<1>2. SumFunctionOnSet(f, S) = f[x] + SumFunctionOnSet(f, S \ {x})
  BY <1>1, SumRemove
<1>3. SumFunctionOnSet(f, S) = f[x] + 0
  BY <1>1, <1>2, SumEmpty
<1>4. f[x] + 0 = f[x]
  OBVIOUS
<1> QED
  BY <1>3, <1>4 DEF S

\* The sum over a set is that over a part of it and over the rest.
LEMMA SumSplit ==
    ASSUME NEW S, IsFiniteSet(S), NEW f, \A x \in S : f[x] \in Int, NEW T \in SUBSET S
    PROVE  SumFunctionOnSet(f, S) = SumFunctionOnSet(f, T) + SumFunctionOnSet(f, S \ T)
<1> DEFINE F(s) == SumFunctionOnSet(f, s)
           N == {n \in Nat : \A s \in SUBSET S : Cardinality(s) = n =>
                    F(s) = F(s \intersect T) + F(s \ T)}
<1>0. \A s \in SUBSET S : IsFiniteSet(s) /\ F(s) \in Int
  BY FS_Subset, SumType
<1>1. 0 \in N
  <2>1. \A s \in SUBSET S : Cardinality(s) = 0 => s = {} /\ s \intersect T = {} /\ s \ T = {}
    BY <1>0, FS_EmptySet
  <2>2. \A s : s = {} => F(s) = 0
    BY SumEmpty
  <2> HIDE DEF F
  <2> QED
    BY <2>1, <2>2
<1>2. ASSUME NEW n \in N PROVE n + 1 \in N
  <2> SUFFICES ASSUME NEW s \in SUBSET S, Cardinality(s) = n + 1
               PROVE  F(s) = F(s \intersect T) + F(s \ T)
    OBVIOUS
  <2> DEFINE z == First(s)
             r == s \ {z}
  <2>0. n \in Nat /\ s # {} /\ IsFiniteSet(s)
    BY <1>0, NotEmpty
  <2>1. z \in s /\ r \in SUBSET S /\ Cardinality(r) = n /\ F(s) = f[z] + F(r)
    BY <2>0, <1>0, SmallerSubset, SumFirst
  <2>2. F(r) = F(r \intersect T) + F(r \ T)
    BY <2>1
  <2>3. /\ f[z] \in Int /\ F(r \intersect T) \in Int /\ F(r \ T) \in Int
        /\ IsFiniteSet(s \intersect T) /\ IsFiniteSet(s \ T)
        /\ \A y \in s : f[y] \in Int
    BY <1>0, <2>1
  <2>4. CASE z \in T
    <3>1. r \ T = s \ T /\ r \intersect T = (s \intersect T) \ {z} /\ z \in s \intersect T
      BY <2>1, <2>4
    <3>2. F(s \intersect T) = f[z] + F((s \intersect T) \ {z})
      BY <2>3, <3>1, SumRemove
    <3>3. F(r \ T) = F(s \ T) /\ F(r \intersect T) = F((s \intersect T) \ {z})
      BY <3>1
    <3> HIDE DEF F, r, z
    <3> QED
      BY <2>1, <2>2, <2>3, <3>2, <3>3
  <2>5. CASE z \notin T
    <3>1. r \intersect T = s \intersect T /\ r \ T = (s \ T) \ {z} /\ z \in s \ T
      BY <2>1, <2>5
    <3>2. F(s \ T) = f[z] + F((s \ T) \ {z})
      BY <2>3, <3>1, SumRemove
    <3>3. F(r \intersect T) = F(s \intersect T) /\ F(r \ T) = F((s \ T) \ {z})
      BY <3>1
    <3> HIDE DEF F, r, z
    <3> QED
      BY <2>1, <2>2, <2>3, <3>2, <3>3
  <2> QED
    BY <2>4, <2>5
<1> HIDE DEF N
<1>3. N = Nat
  BY <1>1, <1>2, SetInduction DEF N
<1>4. Cardinality(S) \in N /\ S \intersect T = T
  BY <1>3, FS_CardinalityType
<1>5. F(S) = F(S \intersect T) + F(S \ T)
  BY <1>4 DEF N
<1> QED
  BY <1>4, <1>5
=============================================================================

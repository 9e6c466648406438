----------------------------- MODULE SumProofs -----------------------------
(***************************************************************************)
(* Lemmas about sums over finite sets: the contributions of a bounty, the    *)
(* legs of a payout, the open spend of a key, the shares of a pool.  The     *)
(* modules add up with MapThenSumSet, which picks the elements one after      *)
(* the other; here it is shown that the order does not matter.               *)
(*                                                                         *)
(* A statement about every subset of a finite set is proved from a minimal    *)
(* counterexample (SubsetInduction): the strict subsets of a finite set are    *)
(* well founded, and the statement is given as the set of subsets it holds    *)
(* of.                                                                       *)
(***************************************************************************)
EXTENDS Integers, FiniteSets, FiniteSetsExt, FiniteSetTheorems,
        WellFoundedInduction, TLAPS

\* The sum of f[x] over the elements x of S.
SumOf(f, S) == MapThenSumSet(LAMBDA x : f[x], S)

\* The element that a fold takes first.
First(s) == CHOOSE x \in s : TRUE

\* g maps each subset of S to its sum.
IsSum(g, f, S) ==
    g = [s \in SUBSET S |-> IF s = {} THEN 0 ELSE f[First(s)] + g[s \ {First(s)}]]
-----------------------------------------------------------------------------
\* What holds of a subset of S when it holds of its strict subsets holds of all.
LEMMA SubsetInduction ==
    ASSUME NEW S, IsFiniteSet(S), NEW Good,
           \A s \in SUBSET S : (\A t \in SUBSET s : t # s => t \in Good) => s \in Good
    PROVE  \A s \in SUBSET S : s \in Good
<1> DEFINE Bad == (SUBSET S) \ Good
<1>1. SUFFICES ASSUME Bad # {}
               PROVE  FALSE
  OBVIOUS
<1>2. Bad \subseteq FiniteSubsetsOf(S)
  BY FS_Subset DEF FiniteSubsetsOf
<1>3. PICK s \in Bad : \A t \in Bad : ~ (<<t, s>> \in StrictSubsetOrdering(S))
  <2> DEFINE R == StrictSubsetOrdering(S)
             F == FiniteSubsetsOf(S)
  <2>1. IsWellFoundedOn(R, F)
    BY FS_StrictSubsetOrderingWellFounded
  <2>2. Bad \subseteq F /\ Bad # {}
    BY <1>1, <1>2
  <2> HIDE DEF Bad, R, F
  <2>3. \E s \in Bad : \A t \in Bad : ~ (<<t, s>> \in R)
    BY <2>1, <2>2, WFMin
  <2> QED
    BY <2>3 DEF R
<1>4. \A t \in SUBSET s : t # s => t \in Good
  BY <1>3 DEF StrictSubsetOrdering
<1> QED
  BY <1>3, <1>4

LEMMA FirstIn == ASSUME NEW s, s # {} PROVE First(s) \in s
  BY DEF First

LEMMA SumStep ==
    ASSUME NEW S, NEW f, NEW g, IsSum(g, f, S), NEW s \in SUBSET S
    PROVE  g[s] = IF s = {} THEN 0 ELSE f[First(s)] + g[s \ {First(s)}]
  BY DEF IsSum

LEMMA SumsAgree ==
    ASSUME NEW S, NEW T, IsFiniteSet(S), NEW f, NEW g, NEW h,
           IsSum(g, f, S), IsSum(h, f, T)
    PROVE  \A s \in SUBSET S : s \subseteq T => g[s] = h[s]
<1> DEFINE Good == {s \in SUBSET S : s \subseteq T => g[s] = h[s]}
<1>1. ASSUME NEW s \in SUBSET S, \A t \in SUBSET s : t # s => t \in Good
      PROVE  s \in Good
  <2>1. SUFFICES ASSUME s \subseteq T
                 PROVE  g[s] = h[s]
    OBVIOUS
  <2>2. CASE s = {}
    BY <2>1, <2>2, SumStep
  <2>3. CASE s # {}
    <3>1. First(s) \in s
      BY <2>3, FirstIn
    <3>2. s \ {First(s)} \in Good
      BY <1>1, <3>1
    <3>3. g[s \ {First(s)}] = h[s \ {First(s)}]
      BY <2>1, <3>2
    <3> QED
      BY <2>1, <2>3, <3>3, SumStep
  <2> QED
    BY <2>2, <2>3
<1> HIDE DEF Good
<1>2. \A s \in SUBSET S : s \in Good
  BY <1>1, SubsetInduction
<1> QED
  BY <1>2 DEF Good

LEMMA SumExists ==
    ASSUME NEW S, IsFiniteSet(S), NEW f
    PROVE  \E g : IsSum(g, f, S)
<1> DEFINE Good == {s \in SUBSET S : \E g : IsSum(g, f, s)}
           G(s) == CHOOSE g : IsSum(g, f, s)
<1>1. ASSUME NEW s \in SUBSET S, \A t \in SUBSET s : t # s => t \in Good
      PROVE  s \in Good
  <2> DEFINE Rest(t) == t \ {First(t)}
             h == [t \in SUBSET s |-> IF t = {} THEN 0 ELSE f[First(t)] + G(Rest(t))[Rest(t)]]
  <2>1. \A t \in SUBSET s : t # s => IsSum(G(t), f, t)
    BY <1>1
  <2>2. ASSUME NEW v \in SUBSET s, v # s
        PROVE  h[v] = G(v)[v]
    <3>1. IsSum(G(v), f, v) /\ IsFiniteSet(v)
      BY <2>1, <2>2, FS_Subset
    <3> HIDE DEF G
    <3>2. CASE v = {}
      BY <3>1, <3>2, SumStep
    <3>3. CASE v # {}
      <4>1. Rest(v) \in SUBSET v /\ Rest(v) # s /\ Rest(v) \in SUBSET s
        BY <3>3, FirstIn, <2>2
      <4>2. IsSum(G(Rest(v)), f, Rest(v)) /\ IsFiniteSet(Rest(v))
        BY <2>1, <4>1, <3>1, FS_Subset
      <4>3. G(v)[Rest(v)] = G(Rest(v))[Rest(v)]
        BY <3>1, <4>1, <4>2, SumsAgree
      <4>4. G(v)[v] = f[First(v)] + G(v)[Rest(v)]
        BY <3>1, <3>3, SumStep
      <4> QED
        BY <3>3, <4>3, <4>4
    <3> QED
      BY <3>2, <3>3
  <2>3. \A t \in SUBSET s : t # {} => Rest(t) \in SUBSET s /\ Rest(t) # s
    BY FirstIn
  <2>4. \A t \in SUBSET s : h[t] = IF t = {} THEN 0 ELSE f[First(t)] + h[Rest(t)]
    <3>1. ASSUME NEW t \in SUBSET s
          PROVE  h[t] = IF t = {} THEN 0 ELSE f[First(t)] + G(Rest(t))[Rest(t)]
      BY <3>1
    <3> HIDE DEF h, Rest, G
    <3> QED
      BY <2>2, <2>3, <3>1
  <2>5. h = [t \in SUBSET s |-> h[t]]
    OBVIOUS
  <2>6. IsSum(h, f, s)
    <3> HIDE DEF h
    <3> QED
      BY <2>4, <2>5 DEF IsSum
  <2> QED
    BY <2>6
<1> HIDE DEF Good
<1>2. \A s \in SUBSET S : s \in Good
  BY <1>1, SubsetInduction
<1>3. S \in Good
  BY <1>2
<1> QED
  BY <1>3 DEF Good

LEMMA SumIs ==
    ASSUME NEW S, IsFiniteSet(S), NEW f
    PROVE  \E g : IsSum(g, f, S) /\ SumOf(f, S) = g[S]
<1> DEFINE iter == CHOOSE g : IsSum(g, f, S)
<1>1. IsSum(iter, f, S)
  BY SumExists
<1>2. SumOf(f, S) = iter[S]
  BY DEF SumOf, MapThenSumSet, MapThenFoldSet, First, IsSum
<1> QED
  BY <1>1, <1>2

\* The fold takes one element and sums the rest.
LEMMA SumRest ==
    ASSUME NEW S, IsFiniteSet(S), NEW f
    PROVE  SumOf(f, S) = IF S = {} THEN 0 ELSE f[First(S)] + SumOf(f, S \ {First(S)})
<1>1. PICK g : IsSum(g, f, S) /\ SumOf(f, S) = g[S]
  BY SumIs
<1>2. CASE S = {}
  BY <1>1, <1>2, SumStep
<1>3. CASE S # {}
  <2> DEFINE R == S \ {First(S)}
  <2>1. IsFiniteSet(R) /\ R \subseteq S
    BY FS_RemoveElement
  <2>2. PICK h : IsSum(h, f, R) /\ SumOf(f, R) = h[R]
    BY <2>1, SumIs
  <2>3. g[R] = h[R]
    BY <1>1, <2>1, <2>2, SumsAgree
  <2> QED
    BY <1>1, <1>3, <2>1, <2>2, <2>3, SumStep
<1> QED
  BY <1>2, <1>3

LEMMA SumEmpty == ASSUME NEW f PROVE SumOf(f, {}) = 0
  BY SumRest, FS_EmptySet

\* Equal terms have equal sums.
LEMMA SumEqual ==
    ASSUME NEW S, IsFiniteSet(S), NEW f, NEW h, \A x \in S : f[x] = h[x]
    PROVE  SumOf(f, S) = SumOf(h, S)
<1> DEFINE Good == {s \in SUBSET S : SumOf(f, s) = SumOf(h, s)}
<1>1. ASSUME NEW s \in SUBSET S, \A t \in SUBSET s : t # s => t \in Good
      PROVE  s \in Good
  <2>0. IsFiniteSet(s)
    BY FS_Subset
  <2>1. CASE s = {}
    BY <2>1, SumEmpty
  <2>2. CASE s # {}
    <3>1. First(s) \in s
      BY <2>2, FirstIn
    <3>2. s \ {First(s)} \in Good
      BY <1>1, <3>1
    <3> QED
      BY <2>0, <2>2, <3>1, <3>2, SumRest
  <2> QED
    BY <2>1, <2>2
<1> HIDE DEF Good
<1>2. S \in Good
  BY <1>1, SubsetInduction
<1> QED
  BY <1>2 DEF Good

\* The sum of natural numbers is one.
LEMMA SumNat ==
    ASSUME NEW S, IsFiniteSet(S), NEW f, \A x \in S : f[x] \in Nat
    PROVE  SumOf(f, S) \in Nat
<1> DEFINE Good == {s \in SUBSET S : SumOf(f, s) \in Nat}
<1>1. ASSUME NEW s \in SUBSET S, \A t \in SUBSET s : t # s => t \in Good
      PROVE  s \in Good
  <2>0. IsFiniteSet(s)
    BY FS_Subset
  <2>1. CASE s = {}
    BY <2>1, SumEmpty
  <2>2. CASE s # {}
    <3>1. First(s) \in s
      BY <2>2, FirstIn
    <3>2. s \ {First(s)} \in Good
      BY <1>1, <3>1
    <3>3. f[First(s)] \in Nat /\ SumOf(f, s \ {First(s)}) \in Nat
      BY <3>1, <3>2
    <3>4. SumOf(f, s) = f[First(s)] + SumOf(f, s \ {First(s)})
      BY <2>0, <2>2, SumRest
    <3> QED
      BY <3>3, <3>4
  <2> QED
    BY <2>1, <2>2
<1> HIDE DEF Good
<1>2. S \in Good
  BY <1>1, SubsetInduction
<1> QED
  BY <1>2 DEF Good

LEMMA SumNatSubset ==
    ASSUME NEW S, IsFiniteSet(S), NEW f, \A x \in S : f[x] \in Nat, NEW T \in SUBSET S
    PROVE  SumOf(f, T) \in Nat
  BY FS_Subset, SumNat

\* Any element may be taken out first.
LEMMA SumTake ==
    ASSUME NEW S, IsFiniteSet(S), NEW f, \A x \in S : f[x] \in Nat, NEW y \in S
    PROVE  SumOf(f, S) = f[y] + SumOf(f, S \ {y})
<1> DEFINE Good == {s \in SUBSET S : \A x \in s : SumOf(f, s) = f[x] + SumOf(f, s \ {x})}
<1>1. ASSUME NEW s \in SUBSET S, \A t \in SUBSET s : t # s => t \in Good
      PROVE  s \in Good
  <2>1. SUFFICES ASSUME NEW x \in s
                 PROVE  SumOf(f, s) = f[x] + SumOf(f, s \ {x})
    OBVIOUS
  <2> DEFINE z == First(s)
  <2>2. z \in s /\ IsFiniteSet(s)
    BY FirstIn, FS_Subset
  <2>3. SumOf(f, s) = f[z] + SumOf(f, s \ {z})
    BY <2>2, SumRest
  <2>4. CASE x = z
    BY <2>3, <2>4
  <2>5. CASE x # z
    <3>1. s \ {z} \in Good /\ s \ {x} \in Good /\ x \in s \ {z} /\ z \in s \ {x}
      BY <1>1, <2>2, <2>5
    <3>2. (s \ {z}) \ {x} = (s \ {x}) \ {z}
      OBVIOUS
    <3>3. /\ SumOf(f, s \ {z}) = f[x] + SumOf(f, (s \ {z}) \ {x})
          /\ SumOf(f, s \ {x}) = f[z] + SumOf(f, (s \ {z}) \ {x})
      BY <3>1, <3>2
    <3>4. f[x] \in Nat /\ f[z] \in Nat /\ SumOf(f, (s \ {z}) \ {x}) \in Nat
      <4>1. (s \ {z}) \ {x} \in SUBSET S /\ x \in S /\ z \in S
        BY <2>2
      <4> QED
        BY <4>1, SumNatSubset
    <3> QED
      BY <2>3, <3>3, <3>4
  <2> QED
    BY <2>4, <2>5
<1> HIDE DEF Good
<1>2. S \in Good
  BY <1>1, SubsetInduction
<1> QED
  BY <1>2 DEF Good

\* A change of one term changes the sum by as much.
LEMMA SumUpdate ==
    ASSUME NEW S, IsFiniteSet(S), NEW f, NEW h, NEW y \in S,
           \A x \in S : f[x] \in Nat /\ h[x] \in Nat,
           \A x \in S \ {y} : h[x] = f[x]
    PROVE  SumOf(h, S) = SumOf(f, S) - f[y] + h[y]
<1>1. SumOf(f, S) = f[y] + SumOf(f, S \ {y}) /\ SumOf(h, S) = h[y] + SumOf(h, S \ {y})
  BY SumTake
<1>2. IsFiniteSet(S \ {y})
  BY FS_RemoveElement
<1>3. SumOf(h, S \ {y}) = SumOf(f, S \ {y})
  BY <1>2, SumEqual
<1>4. SumOf(f, S \ {y}) \in Nat /\ f[y] \in Nat /\ h[y] \in Nat
  BY SumNatSubset
<1> QED
  BY <1>1, <1>3, <1>4

\* Smaller terms have a smaller sum.
LEMMA SumLess ==
    ASSUME NEW S, IsFiniteSet(S), NEW f, NEW h,
           \A x \in S : f[x] \in Nat /\ h[x] \in Nat /\ f[x] <= h[x]
    PROVE  SumOf(f, S) <= SumOf(h, S)
<1> DEFINE Good == {s \in SUBSET S : SumOf(f, s) <= SumOf(h, s)}
<1>1. ASSUME NEW s \in SUBSET S, \A t \in SUBSET s : t # s => t \in Good
      PROVE  s \in Good
  <2>0. IsFiniteSet(s)
    BY FS_Subset
  <2>1. CASE s = {}
    BY <2>1, SumEmpty
  <2>2. CASE s # {}
    <3>1. First(s) \in s
      BY <2>2, FirstIn
    <3>2. s \ {First(s)} \in Good
      BY <1>1, <3>1
    <3>3. /\ SumOf(f, s \ {First(s)}) \in Nat /\ SumOf(h, s \ {First(s)}) \in Nat
          /\ f[First(s)] \in Nat /\ h[First(s)] \in Nat /\ f[First(s)] <= h[First(s)]
      BY <3>1, SumNatSubset
    <3> QED
      BY <2>0, <2>2, <3>2, <3>3, SumRest
  <2> QED
    BY <2>1, <2>2
<1> HIDE DEF Good
<1>2. S \in Good
  BY <1>1, SubsetInduction
<1> QED
  BY <1>2 DEF Good

\* Nothing adds up to nothing.
LEMMA SumZero ==
    ASSUME NEW S, IsFiniteSet(S), NEW f, \A x \in S : f[x] = 0
    PROVE  SumOf(f, S) = 0
<1> DEFINE Good == {s \in SUBSET S : SumOf(f, s) = 0}
<1>1. ASSUME NEW s \in SUBSET S, \A t \in SUBSET s : t # s => t \in Good
      PROVE  s \in Good
  <2>0. IsFiniteSet(s)
    BY FS_Subset
  <2>1. CASE s = {}
    BY <2>1, SumEmpty
  <2>2. CASE s # {}
    <3>1. First(s) \in s
      BY <2>2, FirstIn
    <3>2. s \ {First(s)} \in Good
      BY <1>1, <3>1
    <3> QED
      BY <2>0, <2>2, <3>1, <3>2, SumRest
  <2> QED
    BY <2>1, <2>2
<1> HIDE DEF Good
<1>2. S \in Good
  BY <1>1, SubsetInduction
<1> QED
  BY <1>2 DEF Good

\* Equal terms: the sum is a product.
LEMMA SumConstant ==
    ASSUME NEW S, IsFiniteSet(S), NEW f, NEW c \in Nat, \A x \in S : f[x] = c
    PROVE  SumOf(f, S) = Cardinality(S) * c
<1> DEFINE Good == {s \in SUBSET S : SumOf(f, s) = Cardinality(s) * c}
<1>1. ASSUME NEW s \in SUBSET S, \A t \in SUBSET s : t # s => t \in Good
      PROVE  s \in Good
  <2>0. IsFiniteSet(s)
    BY FS_Subset
  <2>1. CASE s = {}
    BY <2>1, SumEmpty, FS_EmptySet
  <2>2. CASE s # {}
    <3> DEFINE R == s \ {First(s)}
    <3>1. First(s) \in s /\ f[First(s)] = c
      BY <2>2, FirstIn
    <3>2. R \in Good
      BY <1>1, <3>1
    <3>3. Cardinality(R) = Cardinality(s) - 1 /\ Cardinality(s) \in Nat
      BY <2>0, <3>1, FS_RemoveElement, FS_CardinalityType
    <3>4. SumOf(f, s) = c + SumOf(f, R)
      BY <2>0, <2>2, <3>1, SumRest
    <3>5. SumOf(f, R) = (Cardinality(s) - 1) * c
      BY <3>2, <3>3
    <3> HIDE DEF R
    <3>6. c + (Cardinality(s) - 1) * c = Cardinality(s) * c
      BY <3>3
    <3> QED
      BY <3>4, <3>5, <3>6
  <2> QED
    BY <2>1, <2>2
<1> HIDE DEF Good
<1>2. S \in Good
  BY <1>1, SubsetInduction
<1> QED
  BY <1>2 DEF Good

\* A sum over a part, and the rest.
LEMMA SumParts ==
    ASSUME NEW S, IsFiniteSet(S), NEW f, \A x \in S : f[x] \in Nat, NEW T \in SUBSET S
    PROVE  SumOf(f, S) = SumOf(f, T) + SumOf(f, S \ T)
<1> DEFINE Good == {s \in SUBSET S : SumOf(f, S) = SumOf(f, s) + SumOf(f, S \ s)}
<1>1. ASSUME NEW s \in SUBSET S, \A t \in SUBSET s : t # s => t \in Good
      PROVE  s \in Good
  <2>1. CASE s = {}
    <3>1. S \ s = S
      BY <2>1
    <3> QED
      BY <2>1, <3>1, SumEmpty, SumNat
  <2>2. CASE s # {}
    <3> DEFINE y == First(s)
               r == s \ {y}
               q == S \ r
    <3>1. y \in s /\ y \in q /\ q \ {y} = S \ s /\ q \subseteq S
      BY <2>2, FirstIn
    <3>2. r \in Good
      BY <1>1, <3>1
    <3>3. IsFiniteSet(s) /\ IsFiniteSet(q)
      BY <3>1, FS_Subset
    <3>4. SumOf(f, s) = f[y] + SumOf(f, r)
      BY <3>1, <3>3, SumTake
    <3>5. SumOf(f, q) = f[y] + SumOf(f, S \ s)
      BY <3>1, <3>3, SumTake
    <3>6. SumOf(f, S) = SumOf(f, r) + SumOf(f, q)
      BY <3>2
    <3>7. SumOf(f, r) \in Nat /\ SumOf(f, S \ s) \in Nat /\ f[y] \in Nat
      BY <3>1, SumNatSubset
    <3> HIDE DEF r, q, y
    <3> QED
      BY <3>4, <3>5, <3>6, <3>7
  <2> QED
    BY <2>1, <2>2
<1> HIDE DEF Good
<1>2. T \in Good
  BY <1>1, SubsetInduction
<1> QED
  BY <1>2 DEF Good

\* A part of the terms, or one of them, is at most the whole.
LEMMA SumPartLess ==
    ASSUME NEW S, IsFiniteSet(S), NEW f, \A x \in S : f[x] \in Nat, NEW T \in SUBSET S
    PROVE  SumOf(f, T) <= SumOf(f, S)
<1>1. SumOf(f, T) \in Nat /\ SumOf(f, S \ T) \in Nat
  BY SumNatSubset
<1> QED
  BY <1>1, SumParts

LEMMA SumTermLess ==
    ASSUME NEW S, IsFiniteSet(S), NEW f, \A x \in S : f[x] \in Nat, NEW y \in S
    PROVE  f[y] <= SumOf(f, S)
<1>1. SumOf(f, S \ {y}) \in Nat /\ f[y] \in Nat
  BY SumNatSubset
<1> QED
  BY <1>1, SumTake
=============================================================================

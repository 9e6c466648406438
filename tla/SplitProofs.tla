----------------------------- MODULE SplitProofs -----------------------------
(***************************************************************************)
(* What the split of a face guarantees for every face, every pair of rates *)
(* and every number of hunters.                                            *)
(***************************************************************************)
EXTENDS Split, TLAPS

\* Division rounds down: k units of the quotient fit, k + 1 do not.
LEMMA DivBounds ==
    ASSUME NEW a \in Nat, NEW b \in Nat, b > 0
    PROVE  /\ a \div b \in Nat
           /\ b * (a \div b) <= a
           /\ a - b * (a \div b) < b
  OBVIOUS

\* A part of an amount at a rate of at most 100% is at most the amount.
LEMMA RateBounds ==
    ASSUME NEW a \in Nat, NEW bps \in 0 .. BpsDenominator
    PROVE  (a * bps) \div BpsDenominator \in 0 .. a
<1> DEFINE x == a * bps
<1>1. x \in Nat
  BY DEF BpsDenominator
<1>2. x <= a * 10000
  BY DEF BpsDenominator
<1> HIDE DEF x
<1>3. x \div 10000 \in Nat /\ 10000 * (x \div 10000) <= x
  BY <1>1
<1>4. x \div 10000 <= a
  BY <1>1, <1>2, <1>3
<1> USE DEF x
<1> QED
  BY <1>3, <1>4 DEF BpsDenominator

LEMMA FeeBounds ==
    ASSUME NEW face \in Nat, NEW feeBps \in 0 .. BpsDenominator
    PROVE  /\ FeeAtomic(face, feeBps) \in 0 .. face
           /\ PostFeeAtomic(face, feeBps) \in 0 .. face
<1>1. FeeAtomic(face, feeBps) \in 0 .. face
  BY RateBounds DEF FeeAtomic
<1> QED
  BY <1>1 DEF PostFeeAtomic

LEMMA PaidCountBounds ==
    ASSUME NEW eligible \in Nat, NEW maxPaid \in Nat
    PROVE  /\ PaidCount(eligible, maxPaid) \in Nat
           /\ PaidCount(eligible, maxPaid) <= eligible
           /\ PaidCount(eligible, maxPaid) <= maxPaid
  BY DEF PaidCount

LEMMA PoolBounds ==
    ASSUME NEW face \in Nat, NEW eligible \in Nat,
           NEW feeBps \in 0 .. BpsDenominator, NEW poolBps \in 0 .. BpsDenominator
    PROVE  PoolAtomic(face, eligible, feeBps, poolBps)
             \in 0 .. PostFeeAtomic(face, feeBps)
<1>1. PostFeeAtomic(face, feeBps) \in Nat
  BY FeeBounds
<1>2. (PostFeeAtomic(face, feeBps) * poolBps) \div BpsDenominator
        \in 0 .. PostFeeAtomic(face, feeBps)
  BY <1>1, RateBounds
<1> QED
  BY <1>1, <1>2 DEF PoolAtomic

\* The shares fit into the pool, and what they leave is less than one unit
\* per member.
LEMMA ShareBounds ==
    ASSUME NEW face \in Nat, NEW eligible \in Nat, NEW maxPaid \in Nat,
           NEW feeBps \in 0 .. BpsDenominator, NEW poolBps \in 0 .. BpsDenominator
    PROVE  /\ ShareAtomic(face, eligible, feeBps, poolBps, maxPaid) \in Nat
           /\ PoolPaidAtomic(face, eligible, feeBps, poolBps, maxPaid)
                \in 0 .. PoolAtomic(face, eligible, feeBps, poolBps)
           /\ PaidCount(eligible, maxPaid) > 0 =>
                DustAtomic(face, eligible, feeBps, poolBps, maxPaid)
                  < PaidCount(eligible, maxPaid)
<1> DEFINE pool == PoolAtomic(face, eligible, feeBps, poolBps)
           n == PaidCount(eligible, maxPaid)
<1>1. pool \in Nat /\ n \in Nat
  <2>1. PostFeeAtomic(face, feeBps) \in Nat
    BY FeeBounds
  <2>2. pool \in 0 .. PostFeeAtomic(face, feeBps)
    BY PoolBounds
  <2>3. n \in Nat
    BY PaidCountBounds
  <2> QED
    BY <2>1, <2>2, <2>3
<1>2. CASE n = 0
  BY <1>1, <1>2 DEF ShareAtomic, PoolPaidAtomic, DustAtomic
<1>3. CASE n > 0
  <2>1. /\ pool \div n \in Nat
        /\ n * (pool \div n) <= pool
        /\ pool - n * (pool \div n) < n
    BY <1>1, <1>3, DivBounds
  <2>2. (pool \div n) * n = n * (pool \div n)
    BY <1>1, <2>1
  <2>3. (pool \div n) * n \in Nat
    BY <1>1, <2>1
  <2> HIDE DEF pool, n
  <2>4. /\ pool \div n \in Nat
        /\ (pool \div n) * n \in 0 .. pool
        /\ pool - (pool \div n) * n < n
    BY <1>1, <2>1, <2>2, <2>3
  <2> USE DEF pool, n
  <2> QED
    BY <1>3, <2>4 DEF ShareAtomic, PoolPaidAtomic, DustAtomic
<1> QED
  BY <1>1, <1>2, <1>3

\* Conservation: the fee, the winner and the paid shares add up to the face,
\* and nobody is paid a negative amount, for every face, roster and rate
\* (splitPostFeePoolAtomic).
THEOREM SplitConserves ==
    ASSUME NEW face \in Nat, NEW eligible \in Nat, NEW maxPaid \in Nat,
           NEW feeBps \in 0 .. BpsDenominator, NEW poolBps \in 0 .. BpsDenominator
    PROVE  /\ FeeAtomic(face, feeBps)
                + WinnerAtomic(face, eligible, feeBps, poolBps, maxPaid)
                + ShareAtomic(face, eligible, feeBps, poolBps, maxPaid)
                    * PaidCount(eligible, maxPaid) = face
           /\ FeeAtomic(face, feeBps) \in Nat
           /\ WinnerAtomic(face, eligible, feeBps, poolBps, maxPaid) \in Nat
           /\ ShareAtomic(face, eligible, feeBps, poolBps, maxPaid) \in Nat
<1>1. /\ FeeAtomic(face, feeBps) \in Nat
      /\ PostFeeAtomic(face, feeBps) \in Nat
  BY FeeBounds
<1>2. PoolAtomic(face, eligible, feeBps, poolBps) \in 0 .. PostFeeAtomic(face, feeBps)
  BY PoolBounds
<1>3. /\ ShareAtomic(face, eligible, feeBps, poolBps, maxPaid) \in Nat
      /\ PoolPaidAtomic(face, eligible, feeBps, poolBps, maxPaid)
           \in 0 .. PoolAtomic(face, eligible, feeBps, poolBps)
  BY ShareBounds
<1>4. PoolPaidAtomic(face, eligible, feeBps, poolBps, maxPaid)
        = ShareAtomic(face, eligible, feeBps, poolBps, maxPaid)
            * PaidCount(eligible, maxPaid)
  BY DEF PoolPaidAtomic
<1>5. WinnerAtomic(face, eligible, feeBps, poolBps, maxPaid) \in Nat
  BY <1>1, <1>2, <1>3 DEF WinnerAtomic
<1>6. PostFeeAtomic(face, feeBps) = face - FeeAtomic(face, feeBps)
  BY DEF PostFeeAtomic
<1> QED
  BY <1>1, <1>2, <1>3, <1>4, <1>5, <1>6 DEF WinnerAtomic

\* A larger divisor gives no larger a quotient.
LEMMA QuotientMonotone ==
    ASSUME NEW a \in Nat, NEW n \in Nat, NEW k \in Nat, n > 0, n <= k
    PROVE  a \div k <= a \div n
<1> DEFINE p == a \div n
           q == a \div k
<1>1. p \in Nat /\ n * p <= a /\ a - n * p < n
  BY DivBounds
<1>2. q \in Nat /\ k * q <= a
  BY DivBounds
<1> HIDE DEF p, q
<1>3. SUFFICES ASSUME q >= p + 1
               PROVE  FALSE
  BY <1>1, <1>2 DEF p, q
<1>4. PICK d \in Nat, e \in Nat : q = p + 1 + d /\ k = n + e
  <2>1. q - (p + 1) \in Nat /\ k - n \in Nat
    BY <1>1, <1>2, <1>3
  <2> QED
    BY <1>1, <1>2, <2>1
<1>5. n * q = n * p + n + n * d /\ n * d \in Nat
  BY <1>1, <1>4
<1>6. k * q = n * q + e * q /\ e * q \in Nat
  BY <1>2, <1>4
<1>7. n * p \in Nat
  BY <1>1
<1> DEFINE np == n * p
           nd == n * d
           nq == n * q
           eq == e * q
           kq == k * q
<1>8. /\ np \in Nat /\ nd \in Nat /\ eq \in Nat /\ np <= a /\ a - np < n /\ kq <= a
      /\ nq = np + n + nd /\ kq = nq + eq
  BY <1>1, <1>2, <1>5, <1>6, <1>7
<1> HIDE DEF np, nd, nq, eq, kq
<1> QED
  BY <1>8

\* The more hunters there are in the pool, the less each of them gets.
LEMMA ShareMonotone ==
    ASSUME NEW face \in Nat, NEW maxPaid \in Nat, NEW n \in Nat, NEW k \in Nat,
           n > 0, n <= k, k <= maxPaid,
           NEW feeBps \in 0 .. BpsDenominator, NEW poolBps \in 0 .. BpsDenominator
    PROVE  ShareAtomic(face, k, feeBps, poolBps, maxPaid)
             <= ShareAtomic(face, n, feeBps, poolBps, maxPaid)
<1> DEFINE a == PoolAtomic(face, n, feeBps, poolBps)
<1>1. a \in Nat /\ PoolAtomic(face, k, feeBps, poolBps) = a
  <2>1. PostFeeAtomic(face, feeBps) \in Nat
    BY FeeBounds
  <2>2. a \in 0 .. PostFeeAtomic(face, feeBps)
    BY PoolBounds
  <2> QED
    BY <2>1, <2>2 DEF PoolAtomic
<1>2. PaidCount(k, maxPaid) = k /\ PaidCount(n, maxPaid) = n
  BY DEF PaidCount
<1>3. a \div k <= a \div n
  BY <1>1, QuotientMonotone
<1>4. /\ ShareAtomic(face, k, feeBps, poolBps, maxPaid) = PoolAtomic(face, k, feeBps, poolBps) \div k
      /\ ShareAtomic(face, n, feeBps, poolBps, maxPaid) = a \div n
  BY <1>2 DEF ShareAtomic
<1> QED
  BY <1>1, <1>3, <1>4
=============================================================================

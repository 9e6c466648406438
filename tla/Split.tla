------------------------------- MODULE Split -------------------------------
(***************************************************************************)
(* How the face of a bounty is divided when it is settled                  *)
(* (src/apps/web/src/lib/money.ts).  Amounts are atomic units of USDC,     *)
(* rates are basis points; every division rounds down.  The fee is taken   *)
(* from the face, the pool from what is left after the fee, and the winner *)
(* receives the rest, dust included.                                       *)
(***************************************************************************)
EXTENDS Integers

BpsDenominator == 10000

\* splitFaceAtomic: the platform fee, and what the hunters are paid from.
FeeAtomic_Unscaled(face, feeBps) == face * feeBps
FeeAtomic(face, feeBps) == (face * feeBps) \div BpsDenominator
PostFeeAtomic(face, feeBps) == face - FeeAtomic(face, feeBps)

\* splitPostFeePoolAtomic.  "eligible" counts the frozen pool members, the
\* ones above the cap included; at most maxPaid of them are paid.
PaidCount(eligible, maxPaid) == IF eligible <= maxPaid THEN eligible ELSE maxPaid

PoolAtomic(face, eligible, feeBps, poolBps) ==
    IF eligible = 0 THEN 0
    ELSE (PostFeeAtomic(face, feeBps) * poolBps) \div BpsDenominator

ShareAtomic(face, eligible, feeBps, poolBps, maxPaid) ==
    LET n == PaidCount(eligible, maxPaid)
    IN  IF n = 0 THEN 0
        ELSE PoolAtomic(face, eligible, feeBps, poolBps) \div n

PoolPaidAtomic(face, eligible, feeBps, poolBps, maxPaid) ==
    ShareAtomic(face, eligible, feeBps, poolBps, maxPaid) * PaidCount(eligible, maxPaid)

DustAtomic(face, eligible, feeBps, poolBps, maxPaid) ==
    PoolAtomic(face, eligible, feeBps, poolBps)
        - PoolPaidAtomic(face, eligible, feeBps, poolBps, maxPaid)

WinnerAtomic(face, eligible, feeBps, poolBps, maxPaid) ==
    PostFeeAtomic(face, feeBps) - PoolPaidAtomic(face, eligible, feeBps, poolBps, maxPaid)
=============================================================================

---------------------------- MODULE MCSettlement ----------------------------
(***************************************************************************)
(* Instances of Settlement for TLC.  Amounts are chosen so that every       *)
(* division leaves a remainder: a face of 40 gives a fee of 4, a pool of 7, *)
(* shares of 3 for two members and 1 of dust.                              *)
(***************************************************************************)
EXTENDS Settlement, TLC

CONSTANTS m1, m2, c1, c2, r1, r2

OneFunder  == (c1 :> 40)
TwoFunders == (c1 :> 25) @@ (c2 :> 15)

Claims == {"winner_and_fee"} \cup Members
ClaimsAndRefunds == Claims \cup RefundOps
AnyOp == ClaimsAndRefunds \cup {"all"}
ClaimsAndCancel == Claims \cup {"cancel"}

Symmetry == Permutations(Requests) \cup Permutations(Members)
RequestSymmetry == Permutations(Requests)
MemberSymmetry == Permutations(Members)
=============================================================================

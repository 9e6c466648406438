--------------------------- MODULE MCFeeWithdraw ---------------------------
(***************************************************************************)
(* Instances of FeeWithdraw for TLC: three tokens, so that a duplicate can *)
(* follow a withdrawal that was refused or got lost.                       *)
(***************************************************************************)
EXTENDS FeeWithdraw, TLC

Symmetry == Permutations(Requests) \cup Permutations(Tokens) \cup Permutations(Orders)
TokenSymmetry == Permutations(Requests) \cup Permutations(Tokens)
=============================================================================

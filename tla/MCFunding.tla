----------------------------- MODULE MCFunding -----------------------------
(***************************************************************************)
(* Instances of Funding for TLC: three payments are enough for a lock and   *)
(* two top-ups that race.                                                  *)
(***************************************************************************)
EXTENDS Funding, TLC

Symmetry == Permutations(Requests) \cup Permutations(Payments)
=============================================================================

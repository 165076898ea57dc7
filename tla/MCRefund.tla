------------------------------- MODULE MCRefund -------------------------------
(***************************************************************************)
(* Instances of Refund for TLC.                                            *)
(***************************************************************************)
EXTENDS Refund, TLC

Symmetry == Permutations(Admins)
\* A cfg has no negative numbers.
NoSum == -1
=============================================================================

-------------------------- MODULE MCExpressCheckout --------------------------
(***************************************************************************)
(* Instances of ExpressCheckout for TLC.                                   *)
(***************************************************************************)
EXTENDS ExpressCheckout, TLC

\* The poll commands are started and work alike.
Symmetry == Permutations(PollProcs)
=============================================================================

-------------------------- MODULE MCRegularCheckout --------------------------
(***************************************************************************)
(* Instances of RegularCheckout for TLC.                                   *)
(***************************************************************************)
EXTENDS RegularCheckout
=============================================================================

------------------------------ MODULE MCOrderPage ------------------------------
(***************************************************************************)
(* An instance of OrderPage for TLC.                                       *)
(***************************************************************************)
EXTENDS OrderPage, TLC

\* Nothing is said of a page once the history was on its way.
Careful == "history" \notin hasty
Symmetry == Permutations(Mine)
=============================================================================

----------------------------- MODULE MCExpressCart -----------------------------
(***************************************************************************)
(* Instances of ExpressCart for TLC.                                       *)
(***************************************************************************)
EXTENDS ExpressCart, TLC

Symmetry == Permutations(Customers) \cup Permutations(CheckIns)
            \cup Permutations(Units) \cup Permutations(Procs)
=============================================================================

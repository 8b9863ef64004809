----------------------------- MODULE MCScanner ------------------------------
(***************************************************************************)
(* Scanner on small instances.  Addresses are interchangeable where        *)
(* Healthy and OnDemand do not single one out.                             *)
(***************************************************************************)
EXTENDS Scanner, TLC

Symmetry == Permutations(IPs) \cup Permutations(Workers)

=============================================================================

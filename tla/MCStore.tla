------------------------------ MODULE MCStore -------------------------------
(***************************************************************************)
(* Store on small instances; addresses and request slots are               *)
(* interchangeable in the runs that name Symmetry.                         *)
(***************************************************************************)
EXTENDS Store, TLC

Symmetry == Permutations(Requests)

=============================================================================

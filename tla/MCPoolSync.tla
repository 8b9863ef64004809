----------------------------- MODULE MCPoolSync -----------------------------
(***************************************************************************)
(* PoolSync on small instances.  Addresses, tabs and row contents are      *)
(* interchangeable, so the safety runs use their permutations; the         *)
(* liveness runs do not.                                                   *)
(***************************************************************************)
EXTENDS PoolSync, TLC

Symmetry == Permutations(IPs) \cup Permutations(Tabs) \cup Permutations(Vals)

=============================================================================

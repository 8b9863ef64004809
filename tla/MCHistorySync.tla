--------------------------- MODULE MCHistorySync ----------------------------
(***************************************************************************)
(* HistorySync on small instances; pages and calls are interchangeable.    *)
(***************************************************************************)
EXTENDS HistorySync, TLC

Symmetry == Permutations(Tabs) \cup Permutations(Slots)

=============================================================================

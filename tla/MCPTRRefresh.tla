---------------------------- MODULE MCPTRRefresh ----------------------------
(***************************************************************************)
(* PTRRefresh on a small instance.                                         *)
(***************************************************************************)
EXTENDS PTRRefresh

=============================================================================

----------------------------- MODULE MCPublish ------------------------------
(***************************************************************************)
(* Publish on a small instance: four addresses for two records a family,   *)
(* in pools that differ in rank, ties, reachability and measured times.    *)
(***************************************************************************)
EXTENDS Publish

CONSTANTS a, b, c, d

Up(seen, rtt) == [ok |-> TRUE, seen |-> seen, rtt |-> rtt]

Down == [ok |-> FALSE, seen |-> 9, rtt |-> 1]

PoolOf(x, y, z) == [ip \in {a, b, c, d} |->
    CASE ip = a -> x [] ip = b -> y [] ip = c -> z [] ip = d -> Up(1, 1)]

MCPools == {PoolOf(Up(3, 2), Up(2, 1), Up(1, 1)), PoolOf(Up(1, 2), Up(1, 1), Up(2, 2)),
            PoolOf(Up(3, NoRTT), Up(1, 1), Up(1, 1)), PoolOf(Down, Up(1, 1), Down),
            PoolOf(Down, Down, Down)}

=============================================================================

------------------------------ MODULE MCQuery -------------------------------
(***************************************************************************)
(* Query on a small instance: a prefix of Google's inside one that is not, *)
(* with an address in each, and a hostname with addresses in both families *)
(* that has a sibling without any.  Requests for an address and for a      *)
(* hostname share nothing but the counter, so they come from different     *)
(* visitors.                                                               *)
(***************************************************************************)
EXTENDS Query, TLC

CONSTANTS g, f, h, s, n

MCRoutes ==
    {[len |-> 8, ips |-> {f, g}, google |-> FALSE], [len |-> 16, ips |-> {g}, google |-> TRUE]}

MCSibling == (h :> s) @@ (s :> h)

MCFamilies == (h :> {4, 6}) @@ (s :> {})

MCRecords == (g :> {n, None}) @@ (f :> {None})

MCVisitors ==
    {{<<"query", g>>}, {<<"query", f>>}, {<<"query", h>>}, {<<"probe", g>>, <<"probe", f>>}}

Symmetry == Permutations(Requests)

=============================================================================

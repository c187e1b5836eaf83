----------------------------- MODULE MCBackends ----------------------------
(* Small instances of Backends for TLC. *)
EXTENDS Backends, TLC

CONSTANTS c1, c2, n1, n2, k1, k2, v1, v2

\* Two keys in one namespace, one in another.
ThreePairs == {<<n1, k1>>, <<n1, k2>>, <<n2, k1>>}

\* Two lists that touch the same two namespaces in opposite orders.
CrossingLists == {<< <<n1, k1>>, <<n2, k1>> >>, << <<n2, k1>>, <<n1, k1>> >>}

OwnValue == (c1 :> v1) @@ (c2 :> v2)
=============================================================================

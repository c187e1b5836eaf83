------------------------------ MODULE MCStore ------------------------------
(* Small instances of the store for TLC. *)
EXTENDS StoreRefinement, TLC

CONSTANTS t1, t2, n1, n2, k1, k2, v1, v2

\* n1 and n2 live in different shards, so a batch over both takes two locks.
MCShardOf == n1 :> 0 @@ n2 :> 1
MCSizeOf  == v1 :> 1 @@ v2 :> 2

\* Batches across both shards, and batches with two rows of a namespace.
BothShards == {(<<n1, k1>> :> v1) @@ (<<n2, k1>> :> v2)}
ThreeRows  == {(<<n1, k1>> :> v1) @@ (<<n1, k2>> :> v2) @@ (<<n2, k1>> :> v2)}
TwoBatches == BothShards \cup {(<<n1, k1>> :> v2) @@ (<<n1, k2>> :> v1)}

AllOps     == OpNames
LockedOps  == {"set", "delete", "set_many", "delete_many", "snapshot",
               "restore"}

Threads == Permutations(Thread)
=============================================================================

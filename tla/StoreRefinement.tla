-------------------------- MODULE StoreRefinement --------------------------
(***************************************************************************)
(* The refinement mapping from Store to AtomicStore.  A batched write      *)
(* takes effect when it obtains a shard's write lock and a restore when it *)
(* obtains the last one: from then on nobody else can see the rows until   *)
(* the lock is released.  A snapshot captures when it obtains the last     *)
(* read lock.                                                              *)
(***************************************************************************)
EXTENDS Store

TableOf(m) == [p \in Pair |-> Row(m, p[1], p[2])]

\* A write-locked shard already has the rows its holder will leave in it.
TableNow ==
  [p \in Pair |->
     LET w == writer[ShardOf[p[1]]]
     IN  IF w # NoThread /\ pc[w] \in EntryPCs /\ p \in DOMAIN batch[w]
         THEN batch[w][p]
         ELSE IF w # NoThread /\ pc[w] = "restore_write"
         THEN Row(snap[w].maps, p[1], p[2])
         ELSE Row(maps, p[1], p[2])]

CallNow ==
  [t \in Thread |->
     CASE pc[t] \in ManyPCs \cup EntryPCs \cup {"clear", "clear_bytes"} -> "write"
       [] pc[t] = "get_many" -> "read"
       [] pc[t] = "snap_lock" -> "snapshot"
       [] pc[t] \in CapturePCs \cup LinkPCs -> "captured"
       [] pc[t] = "restore_lock" -> "restore"
       [] pc[t] \in {"restore_write", "restore_drop"} -> "installed"
       [] OTHER -> "idle"]

\* clear has yet to empty the shards from this one on.
ToClear(i) == [p \in {q \in Pair : ShardOf[q[1]] >= i} |-> Nil]

TodoNow ==
  [t \in Thread |->
     CASE pc[t] \in ManyPCs \cup {"get_many"} -> batch[t]
       [] pc[t] \in EntryPCs -> Without(batch[t], Bucket(batch[t], idx[t]))
       [] pc[t] = "clear" -> ToClear(idx[t])
       [] pc[t] = "clear_bytes" -> ToClear(idx[t] + 1)
       [] OTHER -> NoBatch]

ViewNow ==
  [t \in Thread |->
     CASE pc[t] = "snap_clone" -> TableNow
       [] pc[t] \in {"snap_load", "snap_drop", "restore_lock",
                     "restore_write", "restore_drop"} \cup LinkPCs ->
            TableOf(snap[t].maps)
       [] OTHER -> NoBatch]

ViewsNow == {TableOf(s.maps) : s \in snaps}

Atomic == INSTANCE AtomicStore WITH
  table <- TableNow, call <- CallNow, todo <- TodoNow, seen <- got,
  view <- ViewNow, views <- ViewsNow

\* Store implements AtomicStore: per-namespace batches, point-in-time
\* snapshots and all-at-once restores, for every interleaving.
ImplementsAtomicStore == Atomic!Spec
=============================================================================

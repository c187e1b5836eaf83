------------------------------- MODULE Store -------------------------------
(***************************************************************************)
(* The in-memory store (rust/src/store.rs) at the granularity of its       *)
(* critical sections: namespaces hashed over shards, one RwLock and one    *)
(* byte counter per shard, snapshots that read-lock every shard, restores  *)
(* that write-lock every shard, and the two operations (clear and          *)
(* delete_namespace) that touch a byte counter after their guard is gone.  *)
(*                                                                         *)
(* A single-lock critical section whose every effect is under its guard is *)
(* one step; an operation that takes several locks, or that goes on after  *)
(* dropping its guard, is one step per lock, per entry or per atomic.      *)
(***************************************************************************)
EXTENDS Integers, Sequences, FiniteSets

LOCAL INSTANCE FiniteSetsExt

CONSTANTS
  Thread,      \* callers (the interpreter is detached inside every operation)
  NS, Key,     \* namespaces and keys
  Val,         \* encoded values
  Nil,         \* no value under a key
  NoMap,       \* a namespace its shard does not hold
  NoThread,    \* nobody write-locks the shard
  NShards,     \* SHARDS
  ShardOf,     \* shard_index: the shard a namespace hashes to
  SizeOf,      \* length of an encoded value in bytes
  ByteMod,     \* byte counters are usize: they wrap modulo this
  MaxHistory,  \* max_history: Unlimited, or how many snapshots are retained
  MaxCalls,    \* bound: calls each thread makes
  Batches,     \* the batches callers pass to set_many, delete_many, get_many
  Ops          \* the operations callers use

Unlimited == -1
Shard     == 0 .. NShards - 1
Pair      == NS \X Key
Entry     == Val \cup {Nil}
NsMap     == [Key -> Entry] \cup {NoMap}
Content   == [NS -> NsMap]
EmptyMap  == [k \in Key |-> Nil]
NoBatch   == [p \in {} |-> Nil]

\* A batch: at most one entry per pair (of two entries for one pair in a list
\* the later wins, and the byte deltas telescope to the same total).
Batch == UNION {[D -> Entry] : D \in SUBSET Pair}

OpNames == {"set", "delete", "set_many", "delete_many", "get_many",
            "delete_namespace", "clear", "snapshot", "restore",
            "clear_history"}

ASSUME ConstantsAssumption ==
  /\ NShards \in Nat \ {0}
  /\ ShardOf \in [NS -> Shard]
  /\ SizeOf \in [Val -> Nat]
  /\ ByteMod \in Nat \ {0}
  /\ MaxHistory \in Nat \cup {Unlimited}
  /\ MaxCalls \in Nat
  /\ Nil \notin Val
  /\ NoMap \notin [Key -> Entry]
  /\ NoThread \notin Thread
  /\ \A b \in Batches : \E D \in SUBSET Pair : D # {} /\ b \in [D -> Val]
  /\ Ops \subseteq OpNames

VARIABLES
  maps,      \* the shards' maps: namespace -> (key -> value)
  bytes,     \* shard_bytes
  readers,   \* per shard, the threads holding its read lock
  writer,    \* per shard, the thread holding its write lock
  counter,   \* next snapshot id
  last_id,   \* id of the last linked snapshot, 0 for None
  history,   \* retained snapshots
  snaps,     \* snapshots handed out to callers, who may restore them
  pc, idx,   \* per thread: where its call is, and the shard it is at
  batch,     \* per thread: entries its call has yet to process
  got,       \* per thread: values get_many has read
  acc,       \* per thread: delta or freed bytes of the current section
  snap,      \* per thread: the snapshot being built, or being restored
  calls      \* per thread: calls made so far

data   == <<maps, bytes>>
locks  == <<readers, writer>>
meta   == <<counter, last_id, history, snaps>>
locals == <<pc, idx, batch, got, acc, snap>>
vars   == <<data, locks, meta, locals, calls>>

Usize == 0 .. ByteMod - 1

SnapshotData == [id: Nat, parent: Nat, size_bytes: Usize,
                 shard_bytes: [Shard -> Usize], maps: Content]

NoMaps == [n \in NS |-> NoMap]
NoSnap == [id |-> 0, parent |-> 0, size_bytes |-> 0,
           shard_bytes |-> [i \in Shard |-> 0], maps |-> NoMaps]

ManyPCs    == {"set_many", "delete_many"}
EntryPCs   == {"set_entry", "delete_entry"}
CapturePCs == {"snap_clone", "snap_load", "snap_drop"}
LinkPCs    == {"snap_id", "snap_parent", "snap_push"}
PCs == ManyPCs \cup EntryPCs \cup CapturePCs \cup LinkPCs \cup
       {"idle", "get_many", "count_freed", "clear", "clear_bytes",
        "snap_lock", "restore_lock", "restore_write", "restore_drop"}

TypeOK ==
  /\ maps \in Content
  /\ bytes \in [Shard -> Usize]
  /\ readers \in [Shard -> SUBSET Thread]
  /\ writer \in [Shard -> Thread \cup {NoThread}]
  /\ counter \in Nat /\ last_id \in Nat
  /\ history \in Seq(SnapshotData)
  /\ snaps \in SUBSET SnapshotData
  /\ pc \in [Thread -> PCs]
  /\ idx \in [Thread -> Shard]
  /\ batch \in [Thread -> Batch]
  /\ got \in [Thread -> Batch]
  /\ acc \in [Thread -> Int]
  /\ snap \in [Thread -> SnapshotData]
  /\ calls \in [Thread -> 0 .. MaxCalls]

Init ==
  /\ maps = NoMaps
  /\ bytes = [i \in Shard |-> 0]
  /\ readers = [i \in Shard |-> {}]
  /\ writer = [i \in Shard |-> NoThread]
  /\ counter = 1 /\ last_id = 0
  /\ history = <<>>
  /\ snaps = {}
  /\ pc = [t \in Thread |-> "idle"]
  /\ idx = [t \in Thread |-> 0]
  /\ batch = [t \in Thread |-> NoBatch]
  /\ got = [t \in Thread |-> NoBatch]
  /\ acc = [t \in Thread |-> 0]
  /\ snap = [t \in Thread |-> NoSnap]
  /\ calls = [t \in Thread |-> 0]

-----------------------------------------------------------------------------
(* Maps, locks and counters *)

Row(m, n, k) == IF m[n] = NoMap THEN Nil ELSE m[n][k]

Length(v) == IF v = Nil THEN 0 ELSE SizeOf[v]

Insert(m, n, k, v) ==
  [m EXCEPT ![n] = [(IF m[n] = NoMap THEN EmptyMap ELSE m[n]) EXCEPT ![k] = v]]

\* Mutant: the emptied namespace stays.
RemoveKeyOnly(m, n, k) ==
  IF m[n] = NoMap THEN m ELSE [m EXCEPT ![n] = [m[n] EXCEPT ![k] = Nil]]

\* A namespace that loses its last key is dropped as well.
Remove(m, n, k) ==
  LET left == [m[n] EXCEPT ![k] = Nil]
  IN  IF m[n] = NoMap
      THEN m
      ELSE [m EXCEPT ![n] = IF left = EmptyMap THEN NoMap ELSE left]

\* Change of a shard's bytes when (n, k) takes the value v.
Delta(m, n, k, v) == Length(v) - Length(Row(m, n, k))

\* Mutant: a writer waits for writers only.
UnlockedByWriter(i) == writer[i] = NoThread

Unlocked(i) == writer[i] = NoThread /\ readers[i] = {}

\* Mutant: reads do not wait for a writer.
ReadableAlways(i) == TRUE

Readable(i) == writer[i] = NoThread

\* Mutants: a guard that is not kept to the end of the operation.
HoldReadBriefly(t, i)  == UNCHANGED readers
HoldWriteBriefly(t, i) == UNCHANGED writer

HoldRead(t, i)  == readers' = [readers EXCEPT ![i] = @ \cup {t}]
HoldWrite(t, i) == writer' = [writer EXCEPT ![i] = t]

\* Mutant: a counter that does not wrap.
AddBytesUnbounded(i, d) == bytes' = [bytes EXCEPT ![i] = @ + d]

AddBytes(i, d) == bytes' = [bytes EXCEPT ![i] = (@ + d) % ByteMod]

Bucket(b, i) == {p \in DOMAIN b : ShardOf[p[1]] = i}

\* Batched operations visit the shards of their batch in ascending order.
FirstPending(b, i) ==
  /\ Bucket(b, i) # {}
  /\ \A j \in Shard : j < i => Bucket(b, j) = {}

Without(b, D) == [p \in DOMAIN b \ D |-> b[p]]

Call(t, op) ==
  /\ pc[t] = "idle"
  /\ op \in Ops
  /\ calls[t] < MaxCalls
  /\ calls' = [calls EXCEPT ![t] = @ + 1]

Goto(t, label) == pc' = [pc EXCEPT ![t] = label]

\* The call returns and its locals go out of scope.
Return(t) ==
  /\ Goto(t, "idle")
  /\ idx' = [idx EXCEPT ![t] = 0]
  /\ batch' = [batch EXCEPT ![t] = NoBatch]
  /\ got' = [got EXCEPT ![t] = NoBatch]
  /\ acc' = [acc EXCEPT ![t] = 0]
  /\ snap' = [snap EXCEPT ![t] = NoSnap]

LastShard(t) == idx[t] = NShards - 1

\* One iteration of a loop over the shards, then on to the label `after`.
Advance(t, after) ==
  /\ idx' = [idx EXCEPT ![t] = IF LastShard(t) THEN 0 ELSE @ + 1]
  /\ Goto(t, IF LastShard(t) THEN after ELSE pc[t])

-----------------------------------------------------------------------------
(* set and delete: one critical section each *)

Set(t, n, k, v) ==
  /\ Call(t, "set")
  /\ Unlocked(ShardOf[n])
  /\ maps' = Insert(maps, n, k, v)
  /\ AddBytes(ShardOf[n], Delta(maps, n, k, v))
  /\ UNCHANGED <<locks, meta, locals>>

Delete(t, n, k) ==
  /\ Call(t, "delete")
  /\ Unlocked(ShardOf[n])
  /\ maps' = Remove(maps, n, k)
  /\ AddBytes(ShardOf[n], -Length(Row(maps, n, k)))
  /\ UNCHANGED <<locks, meta, locals>>

-----------------------------------------------------------------------------
(* set_many, delete_many, get_many: one critical section per shard.  The    *)
(* values of a set_many are encoded before any lock is taken, so a value    *)
(* that cannot be encoded raises with nothing written.                      *)

BeginMany(t, op, b) ==
  /\ Call(t, op)
  /\ Goto(t, op)
  /\ batch' = [batch EXCEPT ![t] = b]
  /\ UNCHANGED <<data, locks, meta, idx, got, acc, snap>>

SetMany(t, b)    == BeginMany(t, "set_many", b)
DeleteMany(t, b) == BeginMany(t, "delete_many", [p \in DOMAIN b |-> Nil])
GetMany(t, b)    == BeginMany(t, "get_many", [p \in DOMAIN b |-> Nil])

LockBucket(t, i) ==
  /\ pc[t] \in ManyPCs
  /\ FirstPending(batch[t], i)
  /\ Unlocked(i)
  /\ HoldWrite(t, i)
  /\ idx' = [idx EXCEPT ![t] = i]
  /\ acc' = [acc EXCEPT ![t] = 0]
  /\ Goto(t, IF pc[t] = "set_many" THEN "set_entry" ELSE "delete_entry")
  /\ UNCHANGED <<data, readers, meta, batch, got, snap, calls>>

SetEntry(t, p) ==
  /\ pc[t] = "set_entry"
  /\ p \in Bucket(batch[t], idx[t])
  /\ maps' = Insert(maps, p[1], p[2], batch[t][p])
  /\ acc' = [acc EXCEPT ![t] = @ + Delta(maps, p[1], p[2], batch[t][p])]
  /\ batch' = [batch EXCEPT ![t] = Without(@, {p})]
  /\ UNCHANGED <<bytes, locks, meta, pc, idx, got, snap, calls>>

DeleteEntry(t, p) ==
  /\ pc[t] = "delete_entry"
  /\ p \in Bucket(batch[t], idx[t])
  /\ maps' = Remove(maps, p[1], p[2])
  /\ acc' = [acc EXCEPT ![t] = @ - Length(Row(maps, p[1], p[2]))]
  /\ batch' = [batch EXCEPT ![t] = Without(@, {p})]
  /\ UNCHANGED <<bytes, locks, meta, pc, idx, got, snap, calls>>

\* The bucket is done: the counter takes the delta and the guard is dropped.
UnlockBucket(t) ==
  /\ pc[t] \in EntryPCs
  /\ Bucket(batch[t], idx[t]) = {}
  /\ AddBytes(idx[t], acc[t])
  /\ writer' = [writer EXCEPT ![idx[t]] = NoThread]
  /\ \/ /\ DOMAIN batch[t] = {}
        /\ Return(t)
     \/ /\ DOMAIN batch[t] # {}
        /\ Goto(t, IF pc[t] = "set_entry" THEN "set_many" ELSE "delete_many")
        /\ idx' = [idx EXCEPT ![t] = 0]
        /\ acc' = [acc EXCEPT ![t] = 0]
        /\ UNCHANGED <<batch, got, snap>>
  /\ UNCHANGED <<maps, readers, meta, calls>>

ReadBucket(t, i) ==
  /\ pc[t] = "get_many"
  /\ FirstPending(batch[t], i)
  /\ Readable(i)
  /\ got' = [got EXCEPT ![t] =
               [p \in DOMAIN @ \cup Bucket(batch[t], i) |->
                  IF p \in DOMAIN @ THEN @[p] ELSE Row(maps, p[1], p[2])]]
  /\ batch' = [batch EXCEPT ![t] = Without(@, Bucket(@, i))]
  /\ UNCHANGED <<data, locks, meta, pc, idx, acc, snap, calls>>

GetManyReturn(t) ==
  /\ pc[t] = "get_many"
  /\ DOMAIN batch[t] = {}
  /\ Return(t)
  /\ UNCHANGED <<data, locks, meta, calls>>

-----------------------------------------------------------------------------
(* delete_namespace: the write guard is a temporary of the let statement,   *)
(* so the bytes are counted and subtracted after the lock is released       *)

DeleteNamespace(t, n) ==
  /\ Call(t, "delete_namespace")
  /\ Unlocked(ShardOf[n])
  /\ \/ /\ maps[n] = NoMap
        /\ UNCHANGED <<maps, locals>>
     \/ /\ maps[n] # NoMap
        /\ maps' = [maps EXCEPT ![n] = NoMap]
        /\ Goto(t, "count_freed")
        /\ idx' = [idx EXCEPT ![t] = ShardOf[n]]
        /\ batch' = [batch EXCEPT ![t] =
                       [p \in {q \in Pair : q[1] = n /\ maps[n][q[2]] # Nil}
                          |-> maps[n][p[2]]]]
        /\ UNCHANGED <<got, acc, snap>>
  /\ UNCHANGED <<bytes, locks, meta>>

\* Mutant: counts the keys it frees, not their bytes.
FreedKeys(v) == 1

FreedBytes(v) == Length(v)

CountFreed(t, p) ==
  /\ pc[t] = "count_freed"
  /\ p \in DOMAIN batch[t]
  /\ acc' = [acc EXCEPT ![t] = @ + FreedBytes(batch[t][p])]
  /\ batch' = [batch EXCEPT ![t] = Without(@, {p})]
  /\ UNCHANGED <<data, locks, meta, pc, idx, got, snap, calls>>

SubFreed(t) ==
  /\ pc[t] = "count_freed"
  /\ DOMAIN batch[t] = {}
  /\ AddBytes(idx[t], -acc[t])
  /\ Return(t)
  /\ UNCHANGED <<maps, locks, meta, calls>>

-----------------------------------------------------------------------------
(* clear: per shard, empty the map under its lock, then zero the counter    *)
(* once the guard is gone                                                   *)

Clear(t) ==
  /\ Call(t, "clear")
  /\ Goto(t, "clear")
  /\ UNCHANGED <<data, locks, meta, idx, batch, got, acc, snap>>

ClearShard(t) ==
  /\ pc[t] = "clear"
  /\ Unlocked(idx[t])
  /\ maps' = [n \in NS |-> IF ShardOf[n] = idx[t] THEN NoMap ELSE maps[n]]
  /\ Goto(t, "clear_bytes")
  /\ UNCHANGED <<bytes, locks, meta, idx, batch, got, acc, snap, calls>>

\* Mutant: the counter survives the clear.
KeepCounter(i) == UNCHANGED bytes

ZeroCounter(i) == bytes' = [bytes EXCEPT ![i] = 0]

ZeroBytes(t) ==
  /\ pc[t] = "clear_bytes"
  /\ ZeroCounter(idx[t])
  /\ \/ /\ LastShard(t)
        /\ Return(t)
     \/ /\ ~LastShard(t)
        /\ idx' = [idx EXCEPT ![t] = @ + 1]
        /\ Goto(t, "clear")
        /\ UNCHANGED <<batch, got, acc, snap>>
  /\ UNCHANGED <<maps, locks, meta, calls>>

-----------------------------------------------------------------------------
(* snapshot: read-lock every shard in order, clone the maps, load the       *)
(* counters, drop the guards; then take an id, link the parent and retain.  *)
(* Dropping all guards is one step: a release only enables other threads.   *)

Snapshot(t) ==
  /\ Call(t, "snapshot")
  /\ Goto(t, "snap_lock")
  /\ UNCHANGED <<data, locks, meta, idx, batch, got, acc, snap>>

LockForRead(t) ==
  /\ pc[t] = "snap_lock"
  /\ Readable(idx[t])
  /\ HoldRead(t, idx[t])
  /\ Advance(t, "snap_clone")
  /\ UNCHANGED <<data, writer, meta, batch, got, acc, snap, calls>>

CloneShard(t) ==
  /\ pc[t] = "snap_clone"
  /\ snap' = [snap EXCEPT ![t].maps =
                [n \in NS |-> IF ShardOf[n] = idx[t] THEN maps[n] ELSE @[n]]]
  /\ Advance(t, "snap_load")
  /\ UNCHANGED <<data, locks, meta, batch, got, acc, calls>>

LoadBytes(t) ==
  /\ pc[t] = "snap_load"
  /\ snap' = [snap EXCEPT
                ![t].shard_bytes = [@ EXCEPT ![idx[t]] = bytes[idx[t]]],
                ![t].size_bytes = (@ + bytes[idx[t]]) % ByteMod]
  /\ Advance(t, "snap_drop")
  /\ UNCHANGED <<data, locks, meta, batch, got, acc, calls>>

DropReadGuards(t) ==
  /\ pc[t] = "snap_drop"
  /\ readers' = [i \in Shard |-> readers[i] \ {t}]
  /\ Goto(t, "snap_id")
  /\ UNCHANGED <<data, writer, meta, idx, batch, got, acc, snap, calls>>

TakeId(t) ==
  /\ pc[t] = "snap_id"
  /\ snap' = [snap EXCEPT ![t].id = counter]
  /\ counter' = counter + 1
  /\ Goto(t, "snap_parent")
  /\ UNCHANGED <<data, locks, last_id, history, snaps, idx, batch, got, acc,
                 calls>>

\* Mutant: last_id only ever grows.
GreatestId(t) == IF snap[t].id > last_id THEN snap[t].id ELSE last_id

NewLastId(t) == snap[t].id

PreviousId(t) == last_id

LinkParent(t) ==
  /\ pc[t] = "snap_parent"
  /\ snap' = [snap EXCEPT ![t].parent = PreviousId(t)]
  /\ last_id' = NewLastId(t)
  /\ Goto(t, "snap_push")
  /\ UNCHANGED <<data, locks, counter, history, snaps, idx, batch, got, acc,
                 calls>>

\* Mutant: pops only once the history is two over.
RetainOneMore(h, s) ==
  LET pushed == Append(h, s)
  IN  IF MaxHistory = 0 THEN h
      ELSE IF Len(h) <= MaxHistory THEN pushed ELSE Tail(pushed)

\* What push_back followed by popping the front while over max_history leaves.
Retain(h, s) ==
  IF MaxHistory = 0 THEN h
  ELSE LET pushed == Append(h, s)
           over   == Len(pushed) - MaxHistory
       IN  IF MaxHistory = Unlimited \/ over <= 0 THEN pushed
           ELSE SubSeq(pushed, over + 1, Len(pushed))

PushHistory(t) ==
  /\ pc[t] = "snap_push"
  /\ history' = Retain(history, snap[t])
  /\ snaps' = snaps \cup {snap[t]}
  /\ Return(t)
  /\ UNCHANGED <<data, locks, counter, last_id, calls>>

ClearHistory(t) ==
  /\ Call(t, "clear_history")
  /\ history' = <<>>
  /\ UNCHANGED <<data, locks, counter, last_id, snaps, locals>>

-----------------------------------------------------------------------------
(* restore: write-lock every shard in order, replace maps and counters      *)

Restore(t, s) ==
  /\ Call(t, "restore")
  /\ snap' = [snap EXCEPT ![t] = s]
  /\ Goto(t, "restore_lock")
  /\ UNCHANGED <<data, locks, meta, idx, batch, got, acc>>

\* Mutant: locks from the last shard to the first.
LockForWriteDescending(t) ==
  LET i == NShards - 1 - idx[t]
  IN  /\ pc[t] = "restore_lock"
      /\ Unlocked(i)
      /\ HoldWrite(t, i)
      /\ Advance(t, "restore_write")
      /\ UNCHANGED <<data, readers, meta, batch, got, acc, snap, calls>>

LockForWrite(t) ==
  /\ pc[t] = "restore_lock"
  /\ Unlocked(idx[t])
  /\ HoldWrite(t, idx[t])
  /\ Advance(t, "restore_write")
  /\ UNCHANGED <<data, readers, meta, batch, got, acc, snap, calls>>

\* Mutant: the counters are not rolled back with the maps.
CounterAsIs(t) == bytes[idx[t]]

CounterThen(t) == snap[t].shard_bytes[idx[t]]

WriteShard(t) ==
  /\ pc[t] = "restore_write"
  /\ maps' = [n \in NS |-> IF ShardOf[n] = idx[t] THEN snap[t].maps[n]
                           ELSE maps[n]]
  /\ bytes' = [bytes EXCEPT ![idx[t]] = CounterThen(t)]
  /\ Advance(t, "restore_drop")
  /\ UNCHANGED <<locks, meta, batch, got, acc, snap, calls>>

DropWriteGuards(t) ==
  /\ pc[t] = "restore_drop"
  /\ writer' = [i \in Shard |-> IF writer[i] = t THEN NoThread ELSE writer[i]]
  /\ Return(t)
  /\ UNCHANGED <<data, readers, meta, calls>>

-----------------------------------------------------------------------------

Invoke(t) ==
  \/ \E n \in NS, k \in Key : \/ Delete(t, n, k)
                              \/ \E v \in Val : Set(t, n, k, v)
  \/ \E b \in Batches : SetMany(t, b) \/ DeleteMany(t, b) \/ GetMany(t, b)
  \/ \E n \in NS : DeleteNamespace(t, n)
  \/ Clear(t) \/ Snapshot(t) \/ ClearHistory(t)
  \/ \E s \in snaps : Restore(t, s)

Continue(t) ==
  \/ \E i \in Shard : LockBucket(t, i) \/ ReadBucket(t, i)
  \/ \E p \in DOMAIN batch[t] : \/ SetEntry(t, p)
                                \/ DeleteEntry(t, p)
                                \/ CountFreed(t, p)
  \/ UnlockBucket(t) \/ GetManyReturn(t) \/ SubFreed(t)
  \/ ClearShard(t) \/ ZeroBytes(t)
  \/ LockForRead(t) \/ CloneShard(t) \/ LoadBytes(t) \/ DropReadGuards(t)
  \/ TakeId(t) \/ LinkParent(t) \/ PushHistory(t)
  \/ LockForWrite(t) \/ WriteShard(t) \/ DropWriteGuards(t)

Next == \E t \in Thread : Invoke(t) \/ Continue(t)

Spec == Init /\ [][Next]_vars

\* A thread inside a call is scheduled, and a lock that stays free is granted;
\* nothing makes a caller start another call.
FairSpec == Spec /\ \A t \in Thread : WF_vars(Continue(t))

-----------------------------------------------------------------------------
(* Snapshot::keys and Snapshot::diff; identity of a shared map is a shortcut *)
(* for equality of its contents                                             *)

PairsOf(m) == {p \in Pair : Row(m, p[1], p[2]) # Nil}

\* Mutant: keys of a namespace that is gone altogether are not reported.
DiffOfSharedNamespaces(self, base) ==
  [added   |-> {p \in PairsOf(self) : Row(base, p[1], p[2]) = Nil},
   changed |-> {p \in PairsOf(self) \cap PairsOf(base) :
                  Row(base, p[1], p[2]) # Row(self, p[1], p[2])},
   removed |-> {p \in PairsOf(base) : self[p[1]] # NoMap /\ self[p[1]][p[2]] = Nil}]

Diff(self, base) ==
  [added   |-> {p \in PairsOf(self) : Row(base, p[1], p[2]) = Nil},
   changed |-> {p \in PairsOf(self) :
                  /\ Row(base, p[1], p[2]) # Nil
                  /\ Row(base, p[1], p[2]) # Row(self, p[1], p[2])},
   removed |-> {p \in PairsOf(base) : \/ self[p[1]] = NoMap
                                      \/ self[p[1]][p[2]] = Nil}]

-----------------------------------------------------------------------------
(* Properties *)

\* Every snapshot is a point-in-time view: when its guards are dropped, the
\* maps it cloned shard after shard are all still the store's current maps
\* (Store::snapshot takes every read lock before it clones the first map).
SnapshotConsistent ==
  \A t \in Thread :
    pc[t] \in {"snap_load", "snap_drop"} => snap[t].maps = maps

\* Nothing writes to a shard while somebody holds its read lock, whatever the
\* operation and however many shards it visits.
ReadGuardsProtect ==
  [][\A n \in NS : readers[ShardOf[n]] # {} => maps'[n] = maps[n]]_vars

\* When Store::restore releases its guards the whole store is exactly the
\* snapshot, although it was replaced one shard at a time.
RestoreConsistent ==
  \A t \in Thread : pc[t] = "restore_drop" => snap[t].maps = maps

\* A namespace that lost its last key is gone, in the store and in every
\* snapshot: callers scan namespaces() (Store::delete, Store::delete_many).
NoEmptyNamespace ==
  \A n \in NS : /\ maps[n] # EmptyMap
                /\ \A s \in snaps : s.maps[n] # EmptyMap

StoredBytes(m, i) ==
  MapThenSumSet(LAMBDA p : Length(Row(m, p[1], p[2])),
                {p \in Pair : ShardOf[p[1]] = i})

\* Bytes thread t has removed from shard i's maps and not yet from its counter
\* (negative: inserted and not yet counted).
InFlight(t, i) ==
  CASE pc[t] = "count_freed" /\ idx[t] = i ->
         acc[t] + MapThenSumSet(LAMBDA p : Length(batch[t][p]), DOMAIN batch[t])
    [] pc[t] \in EntryPCs /\ idx[t] = i -> -acc[t]
    [] OTHER -> 0

\* Byte accounting: at every moment each counter is the bytes its shard stores
\* plus what is still in flight, and no update is lost or applied twice.
CountersExact ==
  \A i \in Shard :
    bytes[i] = (StoredBytes(maps, i)
                + MapThenSumSet(LAMBDA t : InFlight(t, i), Thread)) % ByteMod

Quiescent == \A t \in Thread : pc[t] = "idle"

\* "Per-shard running total of stored value bytes": with no call in progress
\* each counter is the size of the values its shard holds.
QuiescentBytes ==
  Quiescent => \A i \in Shard : bytes[i] = StoredBytes(maps, i) % ByteMod

\* Snapshot::size_bytes is the total size of the values in that snapshot.
SnapshotSizeExact ==
  \A s \in snaps :
    s.size_bytes = MapThenSumSet(LAMBDA i : StoredBytes(s.maps, i), Shard)
                   % ByteMod

\* Counters and snapshot sizes together: restore() must bring back the counters
\* of the snapshot with its maps, or every later size is wrong.
BytesExact == CountersExact /\ SnapshotSizeExact

Linked == snaps \cup {snap[t] : t \in {u \in Thread : pc[u] = "snap_push"}}

\* Lineage: whatever the interleaving of concurrent snapshot() calls, the
\* parents form one chain that starts at None and ends at last_id: ids are
\* unique, no two snapshots share a parent, every parent exists.
LineageIsChain ==
  /\ \A a, b \in Linked : a.id = b.id \/ a.parent = b.parent => a = b
  /\ \A a \in Linked : a.parent # 0 => \E b \in Linked : b.id = a.parent
  /\ Linked # {} => /\ \E a \in Linked : a.id = last_id
                    /\ \A a \in Linked : a.parent # last_id

\* "Id of the previous snapshot from the same store": a parent is older.
ParentIsPrevious == \A s \in snaps : s.parent < s.id

\* With one caller the history is exactly the tail of the lineage, at most
\* max_history long and never shorter for a reason other than clear_history.
HistoryIsTail ==
  /\ MaxHistory # Unlimited => Len(history) <= MaxHistory
  /\ Quiescent =>
       \A i \in DOMAIN history : history[i].id = last_id - Len(history) + i

\* Snapshot::diff tells the whole truth about two snapshots: patching the base
\* with it gives the other, and it is empty only for equal contents.
DiffExplains ==
  \A a, b \in snaps :
    LET d == Diff(a.maps, b.maps)
    IN  /\ PairsOf(a.maps) = (PairsOf(b.maps) \ d.removed) \cup d.added
        /\ \A p \in PairsOf(a.maps) \ (d.added \cup d.changed) :
             Row(a.maps, p[1], p[2]) = Row(b.maps, p[1], p[2])
        /\ a.maps = b.maps <=> d.added \cup d.changed \cup d.removed = {}

\* Every call returns: threads that take many locks take them in one order, so
\* they cannot wait for each other in a circle.
CallsReturn == \A t \in Thread : pc[t] # "idle" ~> pc[t] = "idle"
=============================================================================

---------------------------- MODULE StoreProofs ----------------------------
(***************************************************************************)
(* Theorems about Store, for any threads, shards, namespaces, keys, values *)
(* and batches.                                                            *)
(***************************************************************************)
EXTENDS Store, SequenceTheorems, TLAPS

LEMMA InsertType ==
  ASSUME NEW m \in Content, NEW n \in NS, NEW k \in Key, NEW v \in Entry
  PROVE  Insert(m, n, k, v) \in Content
  BY DEF Insert, Content, NsMap, EmptyMap, Entry

LEMMA RemoveType ==
  ASSUME NEW m \in Content, NEW n \in NS, NEW k \in Key
  PROVE  Remove(m, n, k) \in Content
  BY DEF Remove, Content, NsMap, EmptyMap, Entry

LEMMA BatchIntro ==
  ASSUME NEW D \in SUBSET Pair, NEW b \in [D -> Entry]
  PROVE  b \in Batch
  BY DEF Batch

LEMMA BatchElim ==
  ASSUME NEW b \in Batch
  PROVE  /\ DOMAIN b \in SUBSET Pair
         /\ \A p \in DOMAIN b : b[p] \in Entry
         /\ b \in [DOMAIN b -> Entry]
  BY DEF Batch

LEMMA WithoutType ==
  ASSUME NEW b \in Batch, NEW D
  PROVE  Without(b, D) \in Batch
  <1>1. Without(b, D) \in [DOMAIN b \ D -> Entry]
    BY BatchElim DEF Without
  <1>2. DOMAIN b \ D \in SUBSET Pair
    BY BatchElim
  <1>3. QED
    BY <1>1, <1>2, BatchIntro

LEMMA LengthType ==
  ASSUME NEW v \in Entry
  PROVE  Length(v) \in Nat
  BY ConstantsAssumption DEF Length, Entry

LEMMA RowType ==
  ASSUME NEW m \in Content, NEW n \in NS, NEW k \in Key
  PROVE  Row(m, n, k) \in Entry
  BY DEF Row, Content, NsMap, Entry

LEMMA UsizeMod ==
  ASSUME NEW x \in Int
  PROVE  x % ByteMod \in Usize
  BY ConstantsAssumption DEF Usize

LEMMA NoSnapType ==
  /\ NoSnap \in SnapshotData
  /\ NoBatch \in Batch
  /\ NoMaps \in Content
  <1>1. NoMaps \in Content
    BY DEF NoMaps, Content, NsMap
  <1>2. NoBatch \in [{} -> Entry]
    BY DEF NoBatch
  <1>3. 0 \in Usize
    BY ConstantsAssumption DEF Usize
  <1>4. QED
    BY <1>1, <1>2, <1>3, BatchIntro DEF NoSnap, SnapshotData

\* The types of a thread's locals.
LocalsOK ==
  /\ pc \in [Thread -> PCs]
  /\ idx \in [Thread -> Shard]
  /\ batch \in [Thread -> Batch]
  /\ got \in [Thread -> Batch]
  /\ acc \in [Thread -> Int]
  /\ snap \in [Thread -> SnapshotData]

LEMMA ReturnType ==
  ASSUME LocalsOK, NEW t \in Thread, Return(t)
  PROVE  LocalsOK'
  <1>1. 0 \in Shard
    BY ConstantsAssumption DEF Shard
  <1>2. QED
    BY <1>1, NoSnapType DEF LocalsOK, Return, Goto, PCs

LEMMA AdvanceType ==
  ASSUME LocalsOK, NEW t \in Thread, NEW after \in PCs, Advance(t, after)
  PROVE  idx' \in [Thread -> Shard] /\ pc' \in [Thread -> PCs]
  <1>1. /\ 0 \in Shard
        /\ ~LastShard(t) => idx[t] + 1 \in Shard
    BY ConstantsAssumption DEF Shard, LastShard, LocalsOK
  <1>2. QED
    BY <1>1 DEF LocalsOK, Advance, Goto

LEMMA TypeInit == Init => TypeOK
  <1>1. SUFFICES ASSUME Init PROVE TypeOK
    OBVIOUS
  <1>2. 0 \in Shard /\ 0 \in Usize
    BY ConstantsAssumption DEF Shard, Usize
  <1>3. QED
    BY <1>1, <1>2, NoSnapType, ConstantsAssumption DEF Init, TypeOK, PCs

LEMMA RetainType ==
  ASSUME NEW h \in Seq(SnapshotData), NEW s \in SnapshotData
  PROVE  Retain(h, s) \in Seq(SnapshotData)
  <1> DEFINE pushed == Append(h, s)
             over == Len(pushed) - MaxHistory
  <1>1. pushed \in Seq(SnapshotData) /\ Len(pushed) \in Nat
    OBVIOUS
  <1>2. CASE MaxHistory = 0
    BY <1>2 DEF Retain
  <1>3. CASE MaxHistory # 0 /\ (MaxHistory = Unlimited \/ over <= 0)
    BY <1>1, <1>3 DEF Retain
  <1>4. CASE MaxHistory # 0 /\ MaxHistory # Unlimited /\ ~(over <= 0)
    <2>1. MaxHistory \in Nat
      BY <1>4, ConstantsAssumption
    <2>2. over + 1 \in 1 .. Len(pushed) + 1
      BY <1>1, <1>4, <2>1
    <2>3. SubSeq(pushed, over + 1, Len(pushed)) \in Seq(SnapshotData)
      BY <1>1, <2>2, SubSeqProperties
    <2>4. QED
      BY <1>4, <2>3 DEF Retain
  <1>5. QED
    BY <1>2, <1>3, <1>4

LEMMA CallType ==
  ASSUME TypeOK, NEW t \in Thread, NEW op, Call(t, op)
  PROVE  calls' \in [Thread -> 0 .. MaxCalls]
  BY ConstantsAssumption DEF TypeOK, Call

LEMMA AddBytesType ==
  ASSUME TypeOK, NEW i \in Shard, NEW d \in Int, AddBytes(i, d)
  PROVE  bytes' \in [Shard -> Usize]
  <1>1. bytes[i] + d \in Int
    BY ConstantsAssumption DEF TypeOK, Usize
  <1>2. (bytes[i] + d) % ByteMod \in Usize
    BY <1>1, UsizeMod
  <1>3. QED
    BY <1>2 DEF TypeOK, AddBytes

LEMMA DeltaType ==
  ASSUME NEW m \in Content, NEW n \in NS, NEW k \in Key, NEW v \in Entry
  PROVE  Delta(m, n, k, v) \in Int
  BY LengthType, RowType DEF Delta

LEMMA TypeNext == TypeOK /\ [Next]_vars => TypeOK'
  <1> SUFFICES ASSUME TypeOK, [Next]_vars PROVE TypeOK'
    OBVIOUS
  <1>0. LocalsOK
    BY DEF TypeOK, LocalsOK
  <1>1. ASSUME NEW t \in Thread, NEW n \in NS, NEW k \in Key, NEW v \in Val,
               Set(t, n, k, v)
        PROVE  TypeOK'
    <2>1. v \in Entry /\ ShardOf[n] \in Shard
      BY ConstantsAssumption DEF Entry
    <2>2. maps' \in Content
      BY <1>1, <2>1, InsertType DEF Set, TypeOK
    <2>3. bytes' \in [Shard -> Usize]
      BY <1>1, <2>1, DeltaType, AddBytesType DEF Set, TypeOK
    <2>4. QED
      BY <1>1, <2>2, <2>3, CallType DEF Set, TypeOK, locks, meta, locals
  <1>2. ASSUME NEW t \in Thread, NEW n \in NS, NEW k \in Key, Delete(t, n, k)
        PROVE  TypeOK'
    <2>1. ShardOf[n] \in Shard /\ -Length(Row(maps, n, k)) \in Int
      BY ConstantsAssumption, RowType, LengthType DEF TypeOK
    <2>2. maps' \in Content
      BY <1>2, RemoveType DEF Delete, TypeOK
    <2>3. bytes' \in [Shard -> Usize]
      BY <1>2, <2>1, AddBytesType DEF Delete
    <2>4. QED
      BY <1>2, <2>2, <2>3, CallType DEF Delete, TypeOK, locks, meta, locals
  <1>3. ASSUME NEW t \in Thread, NEW b \in Batches,
               SetMany(t, b) \/ DeleteMany(t, b) \/ GetMany(t, b)
        PROVE  TypeOK'
    <2>1. PICK D \in SUBSET Pair : b \in [D -> Val]
      BY ConstantsAssumption
    <2>2. b \in Batch /\ [p \in DOMAIN b |-> Nil] \in Batch
      BY <2>1, BatchIntro DEF Entry
    <2>3. ASSUME NEW op \in {"set_many", "delete_many", "get_many"},
                 NEW c \in Batch, BeginMany(t, op, c)
          PROVE  TypeOK'
      BY <2>3, CallType
         DEF BeginMany, Goto, TypeOK, PCs, ManyPCs, data, locks, meta
    <2>4. QED
      BY <1>3, <2>2, <2>3 DEF SetMany, DeleteMany, GetMany
  <1>4. ASSUME NEW t \in Thread, NEW n \in NS, DeleteNamespace(t, n)
        PROVE  TypeOK'
    <2>1. CASE maps[n] = NoMap
      BY <1>4, <2>1, CallType DEF DeleteNamespace, TypeOK, locks, meta, locals
    <2>2. CASE maps[n] # NoMap
      <3> DEFINE D == {q \in Pair : q[1] = n /\ maps[n][q[2]] # Nil}
                 b == [p \in D |-> maps[n][p[2]]]
      <3>1. maps[n] \in [Key -> Entry]
        BY <2>2 DEF TypeOK, Content, NsMap
      <3>2. b \in [D -> Entry]
        BY <3>1 DEF Pair
      <3>3. b \in Batch
        BY <3>2, BatchIntro
      <3>4. maps' \in Content
        BY <1>4, <2>2 DEF DeleteNamespace, TypeOK, Content, NsMap
      <3>5. ShardOf[n] \in Shard
        BY ConstantsAssumption
      <3>6. /\ batch' = [batch EXCEPT ![t] = b]
            /\ idx' = [idx EXCEPT ![t] = ShardOf[n]]
            /\ pc' = [pc EXCEPT ![t] = "count_freed"]
        BY <1>4, <2>2 DEF DeleteNamespace, Goto
      <3> HIDE DEF b, D
      <3>7. QED
        BY <1>4, <2>2, <3>3, <3>4, <3>5, <3>6, CallType
           DEF DeleteNamespace, TypeOK, PCs, locks, meta
    <2>3. QED
      BY <2>1, <2>2
  <1>5. ASSUME NEW t \in Thread, Clear(t) \/ Snapshot(t)
        PROVE  TypeOK'
    BY <1>5, CallType DEF Clear, Snapshot, Goto, TypeOK, PCs, data, locks, meta
  <1>6. ASSUME NEW t \in Thread, ClearHistory(t)
        PROVE  TypeOK'
    BY <1>6, CallType DEF ClearHistory, TypeOK, data, locks, locals
  <1>7. ASSUME NEW t \in Thread, NEW s \in snaps, Restore(t, s)
        PROVE  TypeOK'
    BY <1>7, CallType DEF Restore, Goto, TypeOK, PCs, data, locks, meta
  <1>8. ASSUME NEW t \in Thread, NEW i \in Shard, LockBucket(t, i)
        PROVE  TypeOK'
    BY <1>8 DEF LockBucket, HoldWrite, Goto, TypeOK, PCs, EntryPCs, data, meta
  <1>9. ASSUME NEW t \in Thread, NEW i \in Shard, ReadBucket(t, i)
        PROVE  TypeOK'
    <2> DEFINE D == DOMAIN got[t] \cup Bucket(batch[t], i)
               g == [p \in D |-> IF p \in DOMAIN got[t] THEN got[t][p]
                                 ELSE Row(maps, p[1], p[2])]
    <2>1. /\ got[t] \in Batch /\ batch[t] \in Batch
          /\ maps \in Content
      BY DEF TypeOK
    <2>2. D \in SUBSET Pair
      BY <2>1, BatchElim DEF Bucket
    <2>3. \A p \in D : p[1] \in NS /\ p[2] \in Key
      BY <2>2 DEF Pair
    <2>4. g \in [D -> Entry]
      BY <2>1, <2>3, BatchElim, RowType
    <2>5. g \in Batch
      BY <2>2, <2>4, BatchIntro
    <2>6. Without(batch[t], Bucket(batch[t], i)) \in Batch
      BY <2>1, WithoutType
    <2>7. got' = [got EXCEPT ![t] = g]
      BY <1>9 DEF ReadBucket
    <2> HIDE DEF g, D
    <2>8. QED
      BY <1>9, <2>5, <2>6, <2>7, ZenonT(60) DEF ReadBucket, TypeOK, data, locks, meta
  <1>10. ASSUME NEW t \in Thread, NEW p \in DOMAIN batch[t],
                SetEntry(t, p) \/ DeleteEntry(t, p) \/ CountFreed(t, p)
         PROVE  TypeOK'
    <2>1. batch[t] \in Batch /\ maps \in Content /\ acc[t] \in Int
      BY DEF TypeOK
    <2>2. p[1] \in NS /\ p[2] \in Key /\ batch[t][p] \in Entry
      BY <2>1, BatchElim DEF Pair
    <2>3. Without(batch[t], {p}) \in Batch
      BY <2>1, WithoutType
    <2>4. /\ Insert(maps, p[1], p[2], batch[t][p]) \in Content
          /\ Remove(maps, p[1], p[2]) \in Content
      BY <2>1, <2>2, InsertType, RemoveType
    <2>5. /\ Delta(maps, p[1], p[2], batch[t][p]) \in Int
          /\ Length(Row(maps, p[1], p[2])) \in Int
          /\ FreedBytes(batch[t][p]) \in Int
      BY <2>1, <2>2, DeltaType, RowType, LengthType DEF FreedBytes
    <2>6. CASE SetEntry(t, p)
      BY <2>1, <2>3, <2>4, <2>5, <2>6 DEF SetEntry, TypeOK, locks, meta
    <2>7. CASE DeleteEntry(t, p)
      BY <2>1, <2>3, <2>4, <2>5, <2>7 DEF DeleteEntry, TypeOK, locks, meta
    <2>8. CASE CountFreed(t, p)
      BY <2>1, <2>3, <2>5, <2>8 DEF CountFreed, TypeOK, data, locks, meta
    <2>9. QED
      BY <1>10, <2>6, <2>7, <2>8
  <1>11. ASSUME NEW t \in Thread, UnlockBucket(t)
         PROVE  TypeOK'
    <2>1. bytes' \in [Shard -> Usize]
      BY <1>11, AddBytesType DEF UnlockBucket, TypeOK
    <2>2. LocalsOK'
      <3>1. CASE DOMAIN batch[t] = {}
        BY <1>0, <1>11, <3>1, ReturnType DEF UnlockBucket
      <3>2. CASE DOMAIN batch[t] # {}
        <4>1. 0 \in Shard
          BY ConstantsAssumption DEF Shard
        <4>2. QED
          BY <1>0, <1>11, <3>2, <4>1
             DEF UnlockBucket, LocalsOK, Goto, PCs, ManyPCs
      <3>3. QED
        BY <3>1, <3>2
    <2>3. QED
      BY <1>11, <2>1, <2>2 DEF UnlockBucket, TypeOK, LocalsOK, meta
  <1>12. ASSUME NEW t \in Thread, GetManyReturn(t)
         PROVE  TypeOK'
    <2>1. LocalsOK'
      BY <1>0, <1>12, ReturnType DEF GetManyReturn
    <2>2. QED
      BY <1>12, <2>1 DEF GetManyReturn, TypeOK, LocalsOK, data, locks, meta
  <1>13. ASSUME NEW t \in Thread, SubFreed(t)
         PROVE  TypeOK'
    <2>1. bytes' \in [Shard -> Usize]
      <3>1. -acc[t] \in Int /\ idx[t] \in Shard
        BY DEF TypeOK
      <3>2. QED
        BY <1>13, <3>1, AddBytesType DEF SubFreed
    <2>2. LocalsOK'
      BY <1>0, <1>13, ReturnType DEF SubFreed
    <2>3. QED
      BY <1>13, <2>1, <2>2 DEF SubFreed, TypeOK, LocalsOK, locks, meta
  <1>14. ASSUME NEW t \in Thread, ClearShard(t)
         PROVE  TypeOK'
    <2>1. maps' \in Content
      BY <1>14 DEF ClearShard, TypeOK, Content, NsMap
    <2>2. QED
      BY <1>14, <2>1 DEF ClearShard, Goto, TypeOK, PCs, locks, meta
  <1>15. ASSUME NEW t \in Thread, ZeroBytes(t)
         PROVE  TypeOK'
    <2>1. bytes' \in [Shard -> Usize]
      BY <1>15, ConstantsAssumption DEF ZeroBytes, ZeroCounter, TypeOK, Usize
    <2>2. LocalsOK'
      <3>1. CASE LastShard(t)
        BY <1>0, <1>15, <3>1, ReturnType DEF ZeroBytes
      <3>2. CASE ~LastShard(t)
        <4>1. idx[t] + 1 \in Shard
          BY <3>2, ConstantsAssumption DEF LastShard, Shard, TypeOK
        <4>2. QED
          BY <1>0, <1>15, <3>2, <4>1 DEF ZeroBytes, LocalsOK, Goto, PCs
      <3>3. QED
        BY <3>1, <3>2
    <2>3. QED
      BY <1>15, <2>1, <2>2 DEF ZeroBytes, TypeOK, LocalsOK, locks, meta
  <1>16. ASSUME NEW t \in Thread, LockForRead(t)
         PROVE  TypeOK'
    <2>1. idx' \in [Thread -> Shard] /\ pc' \in [Thread -> PCs]
      BY <1>0, <1>16, AdvanceType DEF LockForRead, PCs, CapturePCs
    <2>2. QED
      BY <1>16, <2>1 DEF LockForRead, HoldRead, TypeOK, data, meta
  <1>17. ASSUME NEW t \in Thread, CloneShard(t)
         PROVE  TypeOK'
    <2>1. idx' \in [Thread -> Shard] /\ pc' \in [Thread -> PCs]
      BY <1>0, <1>17, AdvanceType DEF CloneShard, PCs, CapturePCs
    <2>2. [n \in NS |-> IF ShardOf[n] = idx[t] THEN maps[n]
                        ELSE snap[t].maps[n]] \in Content
      BY DEF TypeOK, SnapshotData, Content
    <2>3. snap' \in [Thread -> SnapshotData]
      BY <1>17, <2>2 DEF CloneShard, TypeOK, SnapshotData
    <2>4. QED
      BY <1>17, <2>1, <2>3 DEF CloneShard, TypeOK, data, locks, meta
  <1>18. ASSUME NEW t \in Thread, LoadBytes(t)
         PROVE  TypeOK'
    <2>1. idx' \in [Thread -> Shard] /\ pc' \in [Thread -> PCs]
      BY <1>0, <1>18, AdvanceType DEF LoadBytes, PCs, CapturePCs
    <2>2. [snap[t].shard_bytes EXCEPT ![idx[t]] = bytes[idx[t]]]
            \in [Shard -> Usize]
      BY DEF TypeOK, SnapshotData
    <2>3. (snap[t].size_bytes + bytes[idx[t]]) % ByteMod \in Usize
      <3>1. snap[t].size_bytes + bytes[idx[t]] \in Int
        BY ConstantsAssumption DEF TypeOK, SnapshotData, Usize
      <3>2. QED
        BY <3>1, UsizeMod
    <2>4. snap' \in [Thread -> SnapshotData]
      BY <1>18, <2>2, <2>3, ZenonT(60) DEF LoadBytes, TypeOK, SnapshotData
    <2>5. QED
      BY <1>18, <2>1, <2>4 DEF LoadBytes, TypeOK, data, locks, meta
  <1>19. ASSUME NEW t \in Thread, DropReadGuards(t)
         PROVE  TypeOK'
    BY <1>19 DEF DropReadGuards, Goto, TypeOK, PCs, LinkPCs, data, meta
  <1>20. ASSUME NEW t \in Thread, TakeId(t)
         PROVE  TypeOK'
    <2>1. snap' \in [Thread -> SnapshotData]
      BY <1>20 DEF TakeId, TypeOK, SnapshotData
    <2>2. QED
      BY <1>20, <2>1 DEF TakeId, Goto, TypeOK, PCs, LinkPCs, data, locks
  <1>21. ASSUME NEW t \in Thread, LinkParent(t)
         PROVE  TypeOK'
    BY <1>21, ZenonT(60) DEF LinkParent, NewLastId, PreviousId, Goto, TypeOK, SnapshotData,
                 PCs, LinkPCs, data, locks
  <1>22. ASSUME NEW t \in Thread, PushHistory(t)
         PROVE  TypeOK'
    <2>1. history' \in Seq(SnapshotData)
      BY <1>22, RetainType DEF PushHistory, TypeOK
    <2>2. LocalsOK'
      BY <1>0, <1>22, ReturnType DEF PushHistory
    <2>3. QED
      BY <1>22, <2>1, <2>2 DEF PushHistory, TypeOK, LocalsOK, data, locks
  <1>23. ASSUME NEW t \in Thread, LockForWrite(t)
         PROVE  TypeOK'
    <2>1. idx' \in [Thread -> Shard] /\ pc' \in [Thread -> PCs]
      BY <1>0, <1>23, AdvanceType DEF LockForWrite, PCs
    <2>2. QED
      BY <1>23, <2>1 DEF LockForWrite, HoldWrite, TypeOK, data, meta
  <1>24. ASSUME NEW t \in Thread, WriteShard(t)
         PROVE  TypeOK'
    <2>1. idx' \in [Thread -> Shard] /\ pc' \in [Thread -> PCs]
      BY <1>0, <1>24, AdvanceType DEF WriteShard, PCs
    <2>2. maps' \in Content /\ bytes' \in [Shard -> Usize]
      BY <1>24 DEF WriteShard, CounterThen, TypeOK, SnapshotData, Content
    <2>3. QED
      BY <1>24, <2>1, <2>2 DEF WriteShard, TypeOK, locks, meta
  <1>25. ASSUME NEW t \in Thread, DropWriteGuards(t)
         PROVE  TypeOK'
    <2>1. LocalsOK'
      BY <1>0, <1>25, ReturnType DEF DropWriteGuards
    <2>2. QED
      BY <1>25, <2>1 DEF DropWriteGuards, TypeOK, LocalsOK, data, meta
  <1>26. CASE UNCHANGED vars
    BY <1>26 DEF vars, data, locks, meta, locals, TypeOK
  <1>27. QED
    BY <1>1, <1>2, <1>3, <1>4, <1>5, <1>6, <1>7, <1>8, <1>9, <1>10, <1>11,
       <1>12, <1>13, <1>14, <1>15, <1>16, <1>17, <1>18, <1>19, <1>20, <1>21,
       <1>22, <1>23, <1>24, <1>25, <1>26
       DEF Next, Invoke, Continue

\* The store's state always has its type: in particular a byte counter stays
\* within usize, a thread's shard index within the shards, and every snapshot
\* handed out or retained is a complete one.
THEOREM StoreTypes == Spec => []TypeOK
  BY TypeInit, TypeNext, PTL DEF Spec

-----------------------------------------------------------------------------
(* The inductive invariant.  Who holds which lock is a function of where    *)
(* the thread is in its call, and what a guard protects does not change:    *)
(* without the first part nothing relates readers and writer to a snapshot  *)
(* half way through its shards.                                             *)

HoldsWrite(t, i) ==
  \/ pc[t] \in EntryPCs /\ idx[t] = i
  \/ pc[t] = "restore_lock" /\ i < idx[t]
  \/ pc[t] \in {"restore_write", "restore_drop"}

HoldsRead(t, i) ==
  \/ pc[t] = "snap_lock" /\ i < idx[t]
  \/ pc[t] \in CapturePCs

LockInv ==
  /\ \A i \in Shard, t \in Thread : writer[i] = t <=> HoldsWrite(t, i)
  /\ \A i \in Shard, t \in Thread : t \in readers[i] <=> HoldsRead(t, i)
  /\ \A i \in Shard : writer[i] # NoThread => readers[i] = {}
  /\ \A t \in Thread : pc[t] = "idle" => idx[t] = 0

Cloned(t) ==
  /\ pc[t] = "snap_clone" =>
       \A n \in NS : ShardOf[n] < idx[t] => snap[t].maps[n] = maps[n]
  /\ pc[t] \in {"snap_load", "snap_drop"} => snap[t].maps = maps

Installed(t) ==
  /\ pc[t] = "restore_write" =>
       \A n \in NS : ShardOf[n] < idx[t] => snap[t].maps[n] = maps[n]
  /\ pc[t] = "restore_drop" => snap[t].maps = maps

IInv ==
  /\ TypeOK
  /\ LockInv
  /\ \A t \in Thread : Cloned(t) /\ Installed(t)

\* A step of one thread leaves the locals of the others alone.
LEMMA Frame ==
  ASSUME TypeOK, NEW t \in Thread, Invoke(t) \/ Continue(t),
         NEW u \in Thread, u # t
  PROVE  /\ pc'[u] = pc[u] /\ idx'[u] = idx[u]
         /\ snap'[u] = snap[u] /\ batch'[u] = batch[u]
  <1>1. CASE Invoke(t)
    BY <1>1 DEF Invoke, Set, Delete, SetMany, DeleteMany, GetMany, BeginMany,
       DeleteNamespace, Clear, Snapshot, ClearHistory, Restore, Goto, locals,
       TypeOK
  <1>2. CASE Continue(t)
    BY <1>2 DEF Continue, LockBucket, ReadBucket, SetEntry, DeleteEntry,
       CountFreed, UnlockBucket, GetManyReturn, SubFreed, ClearShard,
       ZeroBytes, LockForRead, CloneShard, LoadBytes, DropReadGuards, TakeId,
       LinkParent, PushHistory, LockForWrite, WriteShard, DropWriteGuards,
       Goto, Return, Advance, locals, TypeOK
  <1>3. QED
    BY <1>1, <1>2

\* A step of t changes a namespace's map only while the shard is free or t
\* itself holds its write lock.
LEMMA MapsChange ==
  ASSUME TypeOK, LockInv, NEW t \in Thread, Invoke(t) \/ Continue(t),
         NEW n \in NS
  PROVE  \/ maps'[n] = maps[n]
         \/ Unlocked(ShardOf[n])
         \/ writer[ShardOf[n]] = t
  <1> USE DEF data
  <1>0. maps \in Content /\ ShardOf[n] \in Shard
    BY ConstantsAssumption DEF TypeOK
  <1>1. CASE Invoke(t)
    <2>1. ASSUME NEW m \in NS, NEW k \in Key, NEW v \in Val, Set(t, m, k, v)
          PROVE  maps'[n] = maps[n] \/ Unlocked(ShardOf[n])
      BY <1>0, <2>1 DEF Set, Insert, Content
    <2>2. ASSUME NEW m \in NS, NEW k \in Key, Delete(t, m, k)
          PROVE  maps'[n] = maps[n] \/ Unlocked(ShardOf[n])
      BY <1>0, <2>2 DEF Delete, Remove, Content
    <2>3. ASSUME NEW m \in NS, DeleteNamespace(t, m)
          PROVE  maps'[n] = maps[n] \/ Unlocked(ShardOf[n])
      BY <1>0, <2>3 DEF DeleteNamespace, Content
    <2>4. QED
      BY <1>1, <2>1, <2>2, <2>3
         DEF Invoke, SetMany, DeleteMany, GetMany, BeginMany, Clear, Snapshot,
             ClearHistory, Restore
  <1>2. CASE Continue(t)
    <2>1. ASSUME NEW p \in DOMAIN batch[t], SetEntry(t, p) \/ DeleteEntry(t, p)
          PROVE  maps'[n] = maps[n] \/ writer[ShardOf[n]] = t
      <3>1. p[1] \in NS /\ p[2] \in Key
        BY BatchElim DEF TypeOK, Pair
      <3>2. maps'[n] = maps[n] \/ p[1] = n
        BY <1>0, <2>1, <3>1 DEF SetEntry, DeleteEntry, Insert, Remove, Content
      <3>3. ShardOf[p[1]] = idx[t] /\ pc[t] \in EntryPCs
        BY <2>1 DEF SetEntry, DeleteEntry, Bucket, EntryPCs
      <3>4. QED
        BY <1>0, <3>2, <3>3 DEF LockInv, HoldsWrite
    <2>2. CASE ClearShard(t)
      BY <1>0, <2>2 DEF ClearShard, Content
    <2>3. CASE WriteShard(t)
      BY <1>0, <2>3 DEF WriteShard, Content, LockInv, HoldsWrite
    <2>4. QED
      BY <1>2, <2>1, <2>2, <2>3
         DEF Continue, LockBucket, ReadBucket, CountFreed, UnlockBucket,
             GetManyReturn, SubFreed, ZeroBytes, LockForRead, CloneShard,
             LoadBytes, DropReadGuards, TakeId, LinkParent, PushHistory,
             LockForWrite, DropWriteGuards
  <1>3. QED
    BY <1>1, <1>2

LEMMA LockInit == Init => LockInv
  BY ConstantsAssumption DEF Init, LockInv, HoldsWrite, HoldsRead, EntryPCs, CapturePCs

\* A step that takes or drops no lock, between two places of the call at
\* which the thread holds the same locks.
LEMMA SameLocks ==
  ASSUME LockInv, NEW t \in Thread, UNCHANGED locks,
         \A i \in Shard : HoldsWrite(t, i)' <=> HoldsWrite(t, i),
         \A i \in Shard : HoldsRead(t, i)' <=> HoldsRead(t, i),
         \A u \in Thread : u # t => pc'[u] = pc[u] /\ idx'[u] = idx[u],
         pc'[t] = "idle" => idx'[t] = 0
  PROVE  LockInv'
  BY DEF LockInv, HoldsWrite, HoldsRead, locks

LEMMA LockNext == TypeOK /\ LockInv /\ [Next]_vars => LockInv'
  <1> SUFFICES ASSUME TypeOK, LockInv, [Next]_vars PROVE LockInv'
    OBVIOUS
  <1> USE DEF ManyPCs, EntryPCs, CapturePCs, LinkPCs
  <1>1. ASSUME NEW t \in Thread, Invoke(t)
        PROVE  LockInv'
    <2>0. pc[t] = "idle" /\ idx[t] = 0 /\ idx[t] \in Shard
      BY <1>1 DEF Invoke, Set, Delete, SetMany, DeleteMany, GetMany, BeginMany,
         DeleteNamespace, Clear, Snapshot, ClearHistory, Restore, Call, LockInv,
         TypeOK
    <2>1. UNCHANGED locks
      BY <1>1 DEF Invoke, Set, Delete, SetMany, DeleteMany, GetMany, BeginMany,
         DeleteNamespace, Clear, Snapshot, ClearHistory, Restore, locks
    <2>2. \/ pc'[t] \in {"idle", "set_many", "delete_many", "get_many", "clear",
                         "snap_lock", "restore_lock"} /\ idx'[t] = 0
          \/ pc'[t] = "count_freed"
      <3>1. ASSUME NEW n \in NS, DeleteNamespace(t, n)
            PROVE  \/ pc'[t] = "idle" /\ idx'[t] = 0
                   \/ pc'[t] = "count_freed"
        BY <2>0, <3>1 DEF DeleteNamespace, Goto, locals, TypeOK
      <3>2. ASSUME NEW b \in Batches,
                   SetMany(t, b) \/ DeleteMany(t, b) \/ GetMany(t, b)
            PROVE  pc'[t] \in {"set_many", "delete_many", "get_many"} /\ idx'[t] = 0
        BY <2>0, <3>2 DEF SetMany, DeleteMany, GetMany, BeginMany, Goto, TypeOK
      <3>3. QED
        BY <1>1, <2>0, <3>1, <3>2
           DEF Invoke, Set, Delete, Clear, Snapshot, ClearHistory, Restore,
               Goto, locals, TypeOK
    <2>3. /\ \A i \in Shard : HoldsWrite(t, i)' <=> HoldsWrite(t, i)
          /\ \A i \in Shard : HoldsRead(t, i)' <=> HoldsRead(t, i)
      BY <2>0, <2>2, ConstantsAssumption DEF HoldsWrite, HoldsRead, Shard
    <2>4. QED
      BY <1>1, <2>1, <2>2, <2>3, Frame, SameLocks
  <1>2. ASSUME NEW t \in Thread, NEW i \in Shard, LockBucket(t, i)
        PROVE  LockInv'
    BY <1>2, ConstantsAssumption
       DEF LockBucket, Unlocked, HoldWrite, Goto, TypeOK, LockInv, HoldsWrite, HoldsRead
  <1>3. ASSUME NEW t \in Thread, UnlockBucket(t)
        PROVE  LockInv'
    <2>1. pc'[t] \in {"idle", "set_many", "delete_many"} /\ idx'[t] = 0
      BY <1>3 DEF UnlockBucket, Return, Goto, TypeOK
    <2>2. \A u \in Thread : u # t => pc'[u] = pc[u] /\ idx'[u] = idx[u]
      BY <1>3, Frame DEF Continue
    <2>3. /\ writer' = [writer EXCEPT ![idx[t]] = NoThread]
          /\ readers' = readers /\ pc[t] \in EntryPCs
      BY <1>3 DEF UnlockBucket
    <2>4. ASSUME NEW i \in Shard, NEW u \in Thread
          PROVE  writer'[i] = u <=> HoldsWrite(u, i)'
      <3>1. CASE u = t
        BY <2>1, <2>3, <3>1, ConstantsAssumption DEF TypeOK, LockInv, HoldsWrite
      <3>2. CASE u # t
        <4>1. HoldsWrite(u, i)' <=> HoldsWrite(u, i)
          BY <2>2, <3>2 DEF HoldsWrite
        <4>2. writer[idx[t]] = t
          BY <2>3 DEF TypeOK, LockInv, HoldsWrite
        <4>3. writer'[i] = u <=> writer[i] = u
          BY <2>3, <3>2, <4>2, ConstantsAssumption DEF TypeOK
        <4>4. QED
          BY <4>1, <4>3 DEF LockInv
      <3>3. QED
        BY <3>1, <3>2
    <2>5. ASSUME NEW i \in Shard, NEW u \in Thread
          PROVE  u \in readers'[i] <=> HoldsRead(u, i)'
      BY <2>1, <2>2, <2>3 DEF LockInv, HoldsRead
    <2>6. ASSUME NEW i \in Shard, writer'[i] # NoThread
          PROVE  readers'[i] = {}
      BY <2>3, <2>6 DEF TypeOK, LockInv
    <2>7. QED
      BY <2>1, <2>2, <2>4, <2>5, <2>6 DEF LockInv
  <1>4. ASSUME NEW t \in Thread, LockForRead(t)
        PROVE  LockInv'
    BY <1>4, ConstantsAssumption
       DEF LockForRead, Readable, HoldRead, Advance, LastShard, Goto, Shard,
           TypeOK, LockInv, HoldsWrite, HoldsRead
  <1>5. ASSUME NEW t \in Thread, DropReadGuards(t)
        PROVE  LockInv'
    BY <1>5, ConstantsAssumption
       DEF DropReadGuards, Goto, TypeOK, LockInv, HoldsWrite, HoldsRead
  <1>6. ASSUME NEW t \in Thread, LockForWrite(t)
        PROVE  LockInv'
    BY <1>6, ConstantsAssumption
       DEF LockForWrite, Unlocked, HoldWrite, Advance, LastShard, Goto, Shard,
           TypeOK, LockInv, HoldsWrite, HoldsRead
  <1>7. ASSUME NEW t \in Thread, DropWriteGuards(t)
        PROVE  LockInv'
    BY <1>7, ConstantsAssumption
       DEF DropWriteGuards, Return, Goto, TypeOK, LockInv, HoldsWrite, HoldsRead
  <1>8. ASSUME NEW t \in Thread,
               CloneShard(t) \/ LoadBytes(t) \/ WriteShard(t)
        PROVE  LockInv'
    <2>1. UNCHANGED locks
      BY <1>8 DEF CloneShard, LoadBytes, WriteShard, locks
    <2>2. \/ pc[t] \in CapturePCs /\ pc'[t] \in CapturePCs
          \/ /\ pc[t] = "restore_write"
             /\ pc'[t] \in {"restore_write", "restore_drop"}
      BY <1>8 DEF CloneShard, LoadBytes, WriteShard, Advance, Goto, TypeOK
    <2>3. /\ \A i \in Shard : HoldsWrite(t, i)' <=> HoldsWrite(t, i)
          /\ \A i \in Shard : HoldsRead(t, i)' <=> HoldsRead(t, i)
      BY <2>2 DEF HoldsWrite, HoldsRead
    <2>4. QED
      BY <1>8, <2>1, <2>2, <2>3, Frame, SameLocks DEF Continue
  <1>9. ASSUME NEW t \in Thread,
               \/ \E p \in DOMAIN batch[t] :
                    SetEntry(t, p) \/ DeleteEntry(t, p) \/ CountFreed(t, p)
               \/ \E i \in Shard : ReadBucket(t, i)
        PROVE  LockInv'
    <2>1. UNCHANGED <<locks, pc, idx>>
      BY <1>9 DEF SetEntry, DeleteEntry, CountFreed, ReadBucket, locks
    <2>2. QED
      BY <2>1 DEF locks, LockInv, HoldsWrite, HoldsRead
  <1>10. ASSUME NEW t \in Thread,
                \/ GetManyReturn(t) \/ SubFreed(t) \/ ClearShard(t) \/ ZeroBytes(t)
                \/ TakeId(t) \/ LinkParent(t) \/ PushHistory(t)
         PROVE  LockInv'
    <2> DEFINE free == {"idle", "get_many", "count_freed", "clear",
                        "clear_bytes"} \cup LinkPCs
    <2>1. UNCHANGED locks
      BY <1>10 DEF GetManyReturn, SubFreed, ClearShard, ZeroBytes, TakeId,
         LinkParent, PushHistory, locks
    <2>2. /\ pc[t] \in free /\ pc'[t] \in free
          /\ pc'[t] = "idle" => idx'[t] = 0
      BY <1>10 DEF GetManyReturn, SubFreed, ClearShard, ZeroBytes, TakeId,
         LinkParent, PushHistory, Return, Goto, TypeOK
    <2>3. /\ \A i \in Shard : HoldsWrite(t, i)' <=> HoldsWrite(t, i)
          /\ \A i \in Shard : HoldsRead(t, i)' <=> HoldsRead(t, i)
      BY <2>2 DEF HoldsWrite, HoldsRead
    <2>4. QED
      BY <1>10, <2>1, <2>2, <2>3, Frame, SameLocks DEF Continue
  <1>11. CASE UNCHANGED vars
    BY <1>11 DEF vars, locks, locals, LockInv, HoldsWrite, HoldsRead
  <1>12. QED
    BY <1>1, <1>2, <1>3, <1>4, <1>5, <1>6, <1>7, <1>8, <1>9, <1>10, <1>11
       DEF Next, Continue

\* A thread that holds a read lock on every shard, or a write lock on every
\* shard, sees no other thread change a map.
LEMMA GuardedMaps ==
  ASSUME TypeOK, LockInv, NEW t \in Thread, Invoke(t) \/ Continue(t),
         NEW u \in Thread, u # t,
         \A i \in Shard : HoldsRead(u, i) \/ HoldsWrite(u, i)
  PROVE  maps' = maps
  <1>1. ASSUME NEW n \in NS
        PROVE  maps'[n] = maps[n]
    <2>1. ShardOf[n] \in Shard
      BY ConstantsAssumption
    <2>2. ~Unlocked(ShardOf[n]) /\ writer[ShardOf[n]] # t
      BY <2>1, ConstantsAssumption DEF LockInv, Unlocked
    <2>3. QED
      BY <2>2, MapsChange
  <1>2. maps \in [NS -> NsMap] /\ maps' \in [NS -> NsMap]
    BY TypeNext DEF TypeOK, Content, Next
  <1>3. QED
    BY <1>1, <1>2

LEMMA GuardNext ==
  IInv /\ [Next]_vars => \A u \in Thread : Cloned(u)' /\ Installed(u)'
  <1> SUFFICES ASSUME IInv, [Next]_vars, NEW u \in Thread
               PROVE  Cloned(u)' /\ Installed(u)'
    OBVIOUS
  <1> USE DEF ManyPCs, EntryPCs, CapturePCs, LinkPCs
  <1>0. TypeOK /\ LockInv /\ TypeOK' /\ Cloned(u) /\ Installed(u)
    BY TypeNext DEF IInv
  <1>1. CASE UNCHANGED vars
    BY <1>0, <1>1 DEF vars, data, locals, Cloned, Installed
  <1>2. ASSUME NEW t \in Thread, Invoke(t) \/ Continue(t), u # t
        PROVE  Cloned(u)' /\ Installed(u)'
    <2>1. /\ pc'[u] = pc[u] /\ idx'[u] = idx[u]
          /\ snap'[u] = snap[u]
      BY <1>0, <1>2, Frame
    <2>2. CASE pc[u] \in {"snap_clone", "snap_load", "snap_drop",
                          "restore_write", "restore_drop"}
      <3>1. \A i \in Shard : HoldsRead(u, i) \/ HoldsWrite(u, i)
        BY <2>2 DEF HoldsRead, HoldsWrite
      <3>2. maps' = maps
        BY <1>0, <1>2, <3>1, GuardedMaps
      <3>3. QED
        BY <1>0, <2>1, <3>2 DEF Cloned, Installed
    <2>3. QED
      BY <2>1, <2>2 DEF Cloned, Installed
  <1>3. ASSUME Invoke(u)
        PROVE  Cloned(u)' /\ Installed(u)'
    <2>1. pc'[u] \notin {"snap_clone", "snap_load", "snap_drop",
                         "restore_write", "restore_drop"}
      BY <1>0, <1>3, ZenonT(60) DEF Invoke, Set, Delete, SetMany, DeleteMany, GetMany,
         BeginMany, DeleteNamespace, Clear, Snapshot, ClearHistory, Restore,
         Call, Goto, locals, TypeOK
    <2>2. QED
      BY <2>1 DEF Cloned, Installed
  <1>4. CASE LockForRead(u)
    BY <1>0, <1>4, ConstantsAssumption
       DEF LockForRead, Advance, Goto, LastShard, Shard, TypeOK, Cloned, Installed
  <1>5. CASE CloneShard(u)
    <2>1. maps' = maps /\ pc[u] = "snap_clone"
      BY <1>5 DEF CloneShard, data
    <2>2. ASSUME NEW n \in NS, ShardOf[n] <= idx[u]
          PROVE  snap'[u].maps[n] = maps[n]
      <3>1. snap'[u].maps[n] = IF ShardOf[n] = idx[u] THEN maps[n]
                               ELSE snap[u].maps[n]
        BY <1>0, <1>5 DEF CloneShard, TypeOK, SnapshotData
      <3>2. ShardOf[n] # idx[u] => ShardOf[n] < idx[u]
        BY <1>0, <2>2, ConstantsAssumption DEF TypeOK, Shard
      <3>3. QED
        BY <1>0, <2>1, <3>1, <3>2 DEF Cloned
    <2>3. CASE LastShard(u)
      <3>1. pc'[u] = "snap_load"
        BY <1>0, <1>5, <2>3 DEF CloneShard, Advance, Goto, TypeOK
      <3>2. \A n \in NS : snap'[u].maps[n] = maps[n]
        BY <1>0, <2>2, <2>3, ConstantsAssumption DEF LastShard, Shard
      <3>3. snap'[u].maps = maps
        BY <1>0, <3>2 DEF TypeOK, SnapshotData, Content
      <3>4. QED
        BY <2>1, <3>1, <3>3 DEF Cloned, Installed
    <2>4. CASE ~LastShard(u)
      <3>1. pc'[u] = "snap_clone" /\ idx'[u] = idx[u] + 1
        BY <1>0, <1>5, <2>4 DEF CloneShard, Advance, Goto, TypeOK
      <3>2. \A n \in NS : ShardOf[n] < idx'[u] => ShardOf[n] <= idx[u]
        BY <1>0, <3>1, ConstantsAssumption DEF TypeOK, Shard
      <3>3. QED
        BY <2>1, <2>2, <3>1, <3>2 DEF Cloned, Installed
    <2>5. QED
      BY <2>3, <2>4
  <1>6. CASE LoadBytes(u)
    BY <1>0, <1>6
       DEF LoadBytes, Advance, Goto, data, TypeOK, SnapshotData, Cloned, Installed
  <1>7. CASE LockForWrite(u)
    BY <1>0, <1>7, ConstantsAssumption
       DEF LockForWrite, Advance, Goto, LastShard, Shard, TypeOK, Cloned, Installed
  <1>8. CASE WriteShard(u)
    <2>1. snap' = snap /\ pc[u] = "restore_write"
      BY <1>8 DEF WriteShard
    <2>2. ASSUME NEW n \in NS, ShardOf[n] <= idx[u]
          PROVE  maps'[n] = snap[u].maps[n]
      <3>1. maps'[n] = IF ShardOf[n] = idx[u] THEN snap[u].maps[n] ELSE maps[n]
        BY <1>8 DEF WriteShard
      <3>2. ShardOf[n] # idx[u] => ShardOf[n] < idx[u]
        BY <1>0, <2>2, ConstantsAssumption DEF TypeOK, Shard
      <3>3. QED
        BY <1>0, <2>1, <3>1, <3>2 DEF Installed
    <2>3. CASE LastShard(u)
      <3>1. pc'[u] = "restore_drop"
        BY <1>0, <1>8, <2>3 DEF WriteShard, Advance, Goto, TypeOK
      <3>2. \A n \in NS : maps'[n] = snap[u].maps[n]
        BY <1>0, <2>2, <2>3, ConstantsAssumption DEF LastShard, Shard
      <3>3. maps' = snap[u].maps
        BY <1>0, <3>2 DEF TypeOK, SnapshotData, Content
      <3>4. QED
        BY <2>1, <3>1, <3>3 DEF Cloned, Installed
    <2>4. CASE ~LastShard(u)
      <3>1. pc'[u] = "restore_write" /\ idx'[u] = idx[u] + 1
        BY <1>0, <1>8, <2>4 DEF WriteShard, Advance, Goto, TypeOK
      <3>2. \A n \in NS : ShardOf[n] < idx'[u] => ShardOf[n] <= idx[u]
        BY <1>0, <3>1, ConstantsAssumption DEF TypeOK, Shard
      <3>3. QED
        BY <2>1, <2>2, <3>1, <3>2 DEF Cloned, Installed
    <2>5. QED
      BY <2>3, <2>4
  <1>9. ASSUME \/ \E i \in Shard : LockBucket(u, i) \/ ReadBucket(u, i)
               \/ \E p \in DOMAIN batch[u] :
                    SetEntry(u, p) \/ DeleteEntry(u, p) \/ CountFreed(u, p)
               \/ UnlockBucket(u) \/ GetManyReturn(u) \/ SubFreed(u)
               \/ ClearShard(u) \/ ZeroBytes(u) \/ DropReadGuards(u)
               \/ TakeId(u) \/ LinkParent(u) \/ PushHistory(u)
               \/ DropWriteGuards(u)
        PROVE  Cloned(u)' /\ Installed(u)'
    <2>1. pc'[u] \notin {"snap_clone", "snap_load", "snap_drop",
                         "restore_write", "restore_drop"}
      BY <1>0, <1>9, ZenonT(60) DEF LockBucket, ReadBucket, SetEntry, DeleteEntry,
         CountFreed, UnlockBucket, GetManyReturn, SubFreed, ClearShard,
         ZeroBytes, DropReadGuards, TakeId, LinkParent, PushHistory,
         DropWriteGuards, Return, Goto, TypeOK
    <2>2. QED
      BY <2>1 DEF Cloned, Installed
  <1>10. QED
    BY <1>1, <1>2, <1>3, <1>4, <1>5, <1>6, <1>7, <1>8, <1>9 DEF Next, Continue

LEMMA Inductive == Spec => []IInv
  <1>1. Init => IInv
    BY TypeInit, LockInit
       DEF Init, IInv, Cloned, Installed
  <1>2. IInv /\ [Next]_vars => IInv'
    BY TypeNext, LockNext, GuardNext DEF IInv
  <1>3. QED
    BY <1>1, <1>2, PTL DEF Spec

\* Store::snapshot is point-in-time for every number of threads, shards,
\* namespaces and keys and every interleaving: the maps cloned one after the
\* other are together the content of the store at the moment the guards drop.
THEOREM SnapshotIsConsistent == Spec => []SnapshotConsistent
  <1>1. IInv => SnapshotConsistent
    BY DEF IInv, Cloned, SnapshotConsistent
  <1>2. QED
    BY <1>1, Inductive, PTL

\* Store::restore leaves exactly the snapshot behind.
THEOREM RestoreIsConsistent == Spec => []RestoreConsistent
  <1>1. IInv => RestoreConsistent
    BY DEF IInv, Installed, RestoreConsistent
  <1>2. QED
    BY <1>1, Inductive, PTL

\* No step writes to a shard that somebody has read-locked.
THEOREM ReadGuardsHold == Spec => ReadGuardsProtect
  <1>1. IInv /\ [Next]_vars =>
          [\A n \in NS : readers[ShardOf[n]] # {} => maps'[n] = maps[n]]_vars
    <2> SUFFICES ASSUME IInv, Next, NEW n \in NS, readers[ShardOf[n]] # {}
                 PROVE  maps'[n] = maps[n]
      OBVIOUS
    <2>1. PICK t \in Thread : Invoke(t) \/ Continue(t)
      BY DEF Next
    <2>2. ShardOf[n] \in Shard
      BY ConstantsAssumption
    <2>3. ~Unlocked(ShardOf[n]) /\ writer[ShardOf[n]] # t
      BY <2>2, ConstantsAssumption DEF IInv, LockInv, Unlocked
    <2>4. QED
      BY <2>1, <2>3, MapsChange DEF IInv
  <1>2. QED
    BY <1>1, Inductive, PTL DEF Spec, ReadGuardsProtect

-----------------------------------------------------------------------------
(* What snapshots are made of: no namespace in them is empty, their lineage *)
(* is one chain, their diffs are complete, and with one caller the retained *)
(* ones are the tail of the chain.                                          *)

(* No empty namespace.  The invariant reaches through the snapshots being   *)
(* built and restored, and needs that a set_many carries values only.       *)

NoEmpty(m) == \A n \in NS : m[n] # EmptyMap

SetsValues(t) ==
  pc[t] \in {"set_many", "set_entry"} =>
    \A p \in DOMAIN batch[t] : batch[t][p] # Nil

DenseInv ==
  /\ NoEmpty(maps)
  /\ \A s \in snaps : NoEmpty(s.maps)
  /\ \A t \in Thread : NoEmpty(snap[t].maps) /\ SetsValues(t)

LEMMA NotEmptyMap == NoMap # EmptyMap
  BY ConstantsAssumption DEF EmptyMap, Entry

LEMMA InsertDense ==
  ASSUME NEW m \in Content, NoEmpty(m), NEW n \in NS, NEW k \in Key,
         NEW v \in Entry, v # Nil
  PROVE  NoEmpty(Insert(m, n, k, v))
  <1> SUFFICES ASSUME NEW x \in NS PROVE Insert(m, n, k, v)[x] # EmptyMap
    BY DEF NoEmpty
  <1>1. CASE x # n
    BY <1>1 DEF Insert, NoEmpty, Content
  <1>2. CASE x = n
    <2>1. Insert(m, n, k, v)[x][k] = v
      BY <1>2 DEF Insert, Content, NsMap, EmptyMap
    <2>2. EmptyMap[k] = Nil
      BY DEF EmptyMap
    <2>3. QED
      BY <2>1, <2>2
  <1>3. QED
    BY <1>1, <1>2

LEMMA RemoveDense ==
  ASSUME NEW m \in Content, NoEmpty(m), NEW n \in NS, NEW k \in Key
  PROVE  NoEmpty(Remove(m, n, k))
  BY NotEmptyMap DEF NoEmpty, Remove, Content

LEMMA DenseInit == Init => DenseInv
  BY NotEmptyMap DEF Init, DenseInv, NoEmpty, SetsValues, NoMaps, NoSnap

LEMMA DenseNext == TypeOK /\ DenseInv /\ [Next]_vars => DenseInv'
  <1> SUFFICES ASSUME TypeOK, DenseInv, [Next]_vars PROVE DenseInv'
    OBVIOUS
  <1>0. TypeOK'
    BY TypeNext
  <1>1. ASSUME NEW t \in Thread, Invoke(t) \/ Continue(t)
        PROVE  NoEmpty(maps')
    <2>1. ASSUME NEW n \in NS, NEW k \in Key, NEW v \in Val, Set(t, n, k, v)
          PROVE  NoEmpty(maps')
      BY <2>1, InsertDense, ConstantsAssumption DEF Set, TypeOK, DenseInv, Entry
    <2>2. ASSUME NEW n \in NS, NEW k \in Key, Delete(t, n, k)
          PROVE  NoEmpty(maps')
      BY <2>2, RemoveDense DEF Delete, TypeOK, DenseInv
    <2>3. ASSUME NEW n \in NS, DeleteNamespace(t, n)
          PROVE  NoEmpty(maps')
      BY <2>3, NotEmptyMap DEF DeleteNamespace, TypeOK, DenseInv, NoEmpty, Content
    <2>4. ASSUME NEW p \in DOMAIN batch[t], SetEntry(t, p)
          PROVE  NoEmpty(maps')
      <3>1. batch[t] \in Batch /\ pc[t] = "set_entry"
        BY <2>4 DEF SetEntry, TypeOK
      <3>2. p \in Pair /\ batch[t][p] \in Entry
        BY <3>1, BatchElim
      <3>3. batch[t][p] # Nil
        BY <3>1 DEF DenseInv, SetsValues
      <3>4. p[1] \in NS /\ p[2] \in Key
        BY <3>2 DEF Pair
      <3>5. QED
        BY <2>4, <3>2, <3>3, <3>4, InsertDense DEF SetEntry, TypeOK, DenseInv
    <2>5. ASSUME NEW p \in DOMAIN batch[t], DeleteEntry(t, p)
          PROVE  NoEmpty(maps')
      <3>1. p \in Pair
        BY BatchElim DEF TypeOK
      <3>2. p[1] \in NS /\ p[2] \in Key
        BY <3>1 DEF Pair
      <3>3. QED
        BY <2>5, <3>2, RemoveDense DEF DeleteEntry, TypeOK, DenseInv
    <2>6. CASE ClearShard(t)
      BY <2>6, NotEmptyMap DEF ClearShard, DenseInv, NoEmpty
    <2>7. CASE WriteShard(t)
      BY <2>7 DEF WriteShard, DenseInv, NoEmpty
    <2>8. CASE maps' = maps
      BY <2>8 DEF DenseInv
    <2>9. QED
      BY <1>1, <2>1, <2>2, <2>3, <2>4, <2>5, <2>6, <2>7, <2>8
         DEF Invoke, Continue, SetMany, DeleteMany, GetMany, BeginMany, Clear,
             Snapshot, ClearHistory, Restore, LockBucket, ReadBucket,
             CountFreed, UnlockBucket, GetManyReturn, SubFreed, ZeroBytes,
             LockForRead, CloneShard, LoadBytes, DropReadGuards, TakeId,
             LinkParent, PushHistory, LockForWrite, DropWriteGuards, data
  <1>2. ASSUME NEW t \in Thread, Invoke(t) \/ Continue(t)
        PROVE  NoEmpty(snap'[t].maps)
    <2>1. NoEmpty(snap[t].maps) /\ NoEmpty(NoSnap.maps)
      BY NotEmptyMap DEF DenseInv, NoEmpty, NoSnap, NoMaps
    <2>2. CASE snap'[t] \in {snap[t], NoSnap}
      BY <2>1, <2>2
    <2>3. CASE \E s \in snaps : Restore(t, s)
      BY <2>3 DEF Restore, TypeOK, DenseInv
    <2>4. CASE CloneShard(t)
      <3>1. snap'[t].maps = [n \in NS |-> IF ShardOf[n] = idx[t] THEN maps[n]
                                          ELSE snap[t].maps[n]]
        BY <2>4 DEF CloneShard, TypeOK, SnapshotData
      <3>2. QED
        BY <3>1 DEF DenseInv, NoEmpty
    <2>5. CASE LoadBytes(t) \/ TakeId(t) \/ LinkParent(t)
      <3>1. snap'[t].maps = snap[t].maps
        BY <2>5 DEF LoadBytes, TakeId, LinkParent, TypeOK, SnapshotData
      <3>2. QED
        BY <2>1, <3>1
    <2>6. QED
      BY <1>2, <2>2, <2>3, <2>4, <2>5
         DEF Invoke, Continue, Set, Delete, SetMany, DeleteMany, GetMany,
             BeginMany, DeleteNamespace, Clear, Snapshot, ClearHistory,
             LockBucket, ReadBucket, SetEntry, DeleteEntry, CountFreed,
             UnlockBucket, GetManyReturn, SubFreed, ClearShard, ZeroBytes,
             LockForRead, DropReadGuards, PushHistory, LockForWrite,
             WriteShard, DropWriteGuards, Return, locals, TypeOK
  <1>3. ASSUME NEW t \in Thread, Invoke(t) \/ Continue(t)
        PROVE  SetsValues(t)'
    <2> SUFFICES ASSUME pc'[t] \in {"set_many", "set_entry"},
                        NEW p \in DOMAIN batch'[t]
                 PROVE  batch'[t][p] # Nil
      BY DEF SetsValues
    <2> USE DEF ManyPCs, EntryPCs, CapturePCs, LinkPCs
    <2>1. CASE \E b \in Batches : SetMany(t, b)
      <3>1. PICK b \in Batches : SetMany(t, b)
        BY <2>1
      <3>2. batch'[t] = b
        BY <3>1 DEF SetMany, BeginMany, TypeOK
      <3>3. b[p] \in Val
        BY <3>2, ConstantsAssumption
      <3>4. QED
        BY <3>2, <3>3, ConstantsAssumption
    <2>2. CASE \E q \in DOMAIN batch[t] : SetEntry(t, q)
      <3>1. PICK q \in DOMAIN batch[t] : SetEntry(t, q)
        BY <2>2
      <3>2. batch'[t] = Without(batch[t], {q}) /\ pc[t] = "set_entry"
        BY <3>1 DEF SetEntry, TypeOK
      <3>3. p \in DOMAIN batch[t] /\ batch'[t][p] = batch[t][p]
        BY <3>2 DEF Without
      <3>4. QED
        BY <3>2, <3>3 DEF DenseInv, SetsValues
    <2>3. CASE \/ \E i \in Shard : LockBucket(t, i)
               \/ UnlockBucket(t)
      <3>1. batch'[t] = batch[t] /\ pc[t] \in {"set_many", "set_entry"}
        BY <2>3 DEF LockBucket, UnlockBucket, Return, Goto, TypeOK
      <3>2. QED
        BY <3>1 DEF DenseInv, SetsValues
    <2>4. QED
      BY <1>3, <2>1, <2>2, <2>3
         DEF Invoke, Continue, Set, Delete, DeleteMany, GetMany,
             BeginMany, DeleteNamespace, Clear, Snapshot, ClearHistory,
             Restore, ReadBucket, DeleteEntry, CountFreed,
             GetManyReturn, SubFreed, ClearShard, ZeroBytes, Call,
             LockForRead, CloneShard, LoadBytes, DropReadGuards, TakeId,
             LinkParent, PushHistory, LockForWrite, WriteShard,
             DropWriteGuards, Return, Goto, Advance, locals, TypeOK
  <1>4. ASSUME NEW t \in Thread, Invoke(t) \/ Continue(t)
        PROVE  snaps' \subseteq snaps \cup {snap[t]}
    BY <1>4
       DEF Invoke, Continue, Set, Delete, SetMany, DeleteMany, GetMany,
           BeginMany, DeleteNamespace, Clear, Snapshot, ClearHistory, Restore,
           LockBucket, ReadBucket, SetEntry, DeleteEntry, CountFreed,
           UnlockBucket, GetManyReturn, SubFreed, ClearShard, ZeroBytes,
           LockForRead, CloneShard, LoadBytes, DropReadGuards, TakeId,
           LinkParent, PushHistory, LockForWrite, WriteShard, DropWriteGuards,
           meta
  <1>5. ASSUME NEW t \in Thread, Invoke(t) \/ Continue(t)
        PROVE  DenseInv'
    <2>1. \A s \in snaps' : NoEmpty(s.maps)
      BY <1>4, <1>5 DEF DenseInv
    <2>2. ASSUME NEW u \in Thread, u # t
          PROVE  NoEmpty(snap'[u].maps) /\ SetsValues(u)'
      <3>1. /\ pc'[u] = pc[u] /\ snap'[u] = snap[u] /\ batch'[u] = batch[u]
        BY <1>5, <2>2, Frame
      <3>2. QED
        BY <3>1 DEF DenseInv, SetsValues
    <2>3. QED
      BY <1>1, <1>2, <1>3, <1>5, <2>1, <2>2 DEF DenseInv, NoEmpty
  <1>6. CASE UNCHANGED vars
    BY <1>6 DEF vars, data, meta, locals, DenseInv, SetsValues, NoEmpty
  <1>7. QED
    BY <1>5, <1>6 DEF Next

LEMMA Dense == Spec => []DenseInv
  BY DenseInit, DenseNext, StoreTypes, PTL DEF Spec

\* Store::delete, delete_many and delete_namespace drop a namespace with its
\* last key, and neither a snapshot nor a restore brings an empty one back.
THEOREM NamespacesAreNotEmpty == Spec => []NoEmptyNamespace
  <1>1. DenseInv => NoEmptyNamespace
    BY DEF DenseInv, NoEmpty, NoEmptyNamespace
  <1>2. QED
    BY <1>1, Dense, PTL

-----------------------------------------------------------------------------
(* Snapshot::diff.  It works on rows, so it can tell contents apart only    *)
(* because no namespace is empty.                                           *)

\* Contents without empty namespaces are equal if their rows are.
LEMMA RowsDecide ==
  ASSUME NEW a \in Content, NEW b \in Content, NoEmpty(a), NoEmpty(b),
         \A p \in Pair : Row(a, p[1], p[2]) = Row(b, p[1], p[2])
  PROVE  a = b
  <1>1. ASSUME NEW n \in NS
        PROVE  a[n] = b[n]
    <2>1. \A k \in Key : Row(a, n, k) = Row(b, n, k)
      <3>1. \A k \in Key : <<n, k>> \in Pair
        BY DEF Pair
      <3>2. QED
        BY <3>1
    <2>2. a[n] \in NsMap /\ b[n] \in NsMap
      BY DEF Content
    <2>3. ASSUME NEW c \in [Key -> Entry], \A k \in Key : c[k] = Nil
          PROVE  c = EmptyMap
      BY <2>3 DEF EmptyMap
    <2>4. CASE a[n] = NoMap /\ b[n] # NoMap
      <3>1. b[n] \in [Key -> Entry] /\ \A k \in Key : b[n][k] = Nil
        BY <2>1, <2>2, <2>4 DEF Row, NsMap
      <3>2. QED
        BY <2>3, <3>1 DEF NoEmpty
    <2>5. CASE a[n] # NoMap /\ b[n] = NoMap
      <3>1. a[n] \in [Key -> Entry] /\ \A k \in Key : a[n][k] = Nil
        BY <2>1, <2>2, <2>5 DEF Row, NsMap
      <3>2. QED
        BY <2>3, <3>1 DEF NoEmpty
    <2>6. CASE a[n] # NoMap /\ b[n] # NoMap
      <3>1. /\ a[n] \in [Key -> Entry] /\ b[n] \in [Key -> Entry]
            /\ \A k \in Key : a[n][k] = b[n][k]
        BY <2>1, <2>2, <2>6 DEF Row, NsMap
      <3>2. QED
        BY <3>1
    <2>7. QED
      BY <2>4, <2>5, <2>6
  <1>2. QED
    BY <1>1 DEF Content

\* The three sets of a diff, by the rows of both sides.
LEMMA DiffSets ==
  ASSUME NEW a \in Content, NEW b \in Content, NEW p \in Pair
  PROVE  /\ p \in Diff(a, b).added <=> /\ Row(a, p[1], p[2]) # Nil
                                       /\ Row(b, p[1], p[2]) = Nil
         /\ p \in Diff(a, b).changed <=>
              /\ Row(a, p[1], p[2]) # Nil /\ Row(b, p[1], p[2]) # Nil
              /\ Row(a, p[1], p[2]) # Row(b, p[1], p[2])
         /\ p \in Diff(a, b).removed <=> /\ Row(b, p[1], p[2]) # Nil
                                         /\ Row(a, p[1], p[2]) = Nil
  BY DEF Diff, PairsOf, Row

\* Snapshot::diff is complete and empty only for equal contents, for any two
\* snapshots callers hold.
THEOREM DiffIsComplete == Spec => []DiffExplains
  <1>1. TypeOK /\ DenseInv => DiffExplains
    <2> SUFFICES ASSUME TypeOK, DenseInv, NEW a \in snaps, NEW b \in snaps
                 PROVE  LET d == Diff(a.maps, b.maps)
                        IN  /\ PairsOf(a.maps) = (PairsOf(b.maps) \ d.removed) \cup d.added
                            /\ \A p \in PairsOf(a.maps) \ (d.added \cup d.changed) :
                                 Row(a.maps, p[1], p[2]) = Row(b.maps, p[1], p[2])
                            /\ a.maps = b.maps <=> d.added \cup d.changed \cup d.removed = {}
      BY DEF DiffExplains
    <2> DEFINE d == Diff(a.maps, b.maps)
    <2>0. /\ a.maps \in Content /\ b.maps \in Content
          /\ NoEmpty(a.maps) /\ NoEmpty(b.maps)
      BY DEF TypeOK, SnapshotData, DenseInv
    <2>1. /\ d.added \subseteq Pair /\ d.changed \subseteq Pair
          /\ d.removed \subseteq Pair
          /\ PairsOf(a.maps) \subseteq Pair /\ PairsOf(b.maps) \subseteq Pair
      BY DEF Diff, PairsOf
    <2>2. \A p \in Pair : /\ p \in PairsOf(a.maps) <=> Row(a.maps, p[1], p[2]) # Nil
                          /\ p \in PairsOf(b.maps) <=> Row(b.maps, p[1], p[2]) # Nil
      BY DEF PairsOf
    <2>3. \A p \in Pair :
            /\ p \in d.added <=> Row(a.maps, p[1], p[2]) # Nil /\ Row(b.maps, p[1], p[2]) = Nil
            /\ p \in d.changed <=> /\ Row(a.maps, p[1], p[2]) # Nil
                                   /\ Row(b.maps, p[1], p[2]) # Nil
                                   /\ Row(a.maps, p[1], p[2]) # Row(b.maps, p[1], p[2])
            /\ p \in d.removed <=> Row(b.maps, p[1], p[2]) # Nil /\ Row(a.maps, p[1], p[2]) = Nil
      BY <2>0, DiffSets
    <2> HIDE DEF d
    <2>4. PairsOf(a.maps) = (PairsOf(b.maps) \ d.removed) \cup d.added
      BY <2>1, <2>2, <2>3
    <2>5. \A p \in PairsOf(a.maps) \ (d.added \cup d.changed) :
            Row(a.maps, p[1], p[2]) = Row(b.maps, p[1], p[2])
      BY <2>1, <2>2, <2>3
    <2>6. ASSUME a.maps = b.maps
          PROVE  d.added \cup d.changed \cup d.removed = {}
      BY <2>1, <2>3, <2>6
    <2>7. ASSUME d.added \cup d.changed \cup d.removed = {}
          PROVE  a.maps = b.maps
      <3>1. \A p \in Pair : Row(a.maps, p[1], p[2]) = Row(b.maps, p[1], p[2])
        BY <2>3, <2>7
      <3>2. QED
        BY <2>0, <3>1, RowsDecide
    <2>8. QED
      BY <2>4, <2>5, <2>6, <2>7 DEF d
  <1>2. QED
    BY <1>1, Dense, StoreTypes, PTL

-----------------------------------------------------------------------------
(* The lineage.  A thread that took an id and has yet to link it holds one  *)
(* that nobody else has, which is what keeps the chain a chain when ids are *)
(* linked in another order than they were taken.                            *)

\* Everything LineageIsChain says, the ids that are taken and not yet linked,
\* and last_id before the first snapshot.
ChainInv ==
  /\ LineageIsChain
  /\ Linked = {} => last_id = 0
  /\ counter # 0
  /\ \A a \in Linked : a.id # 0 /\ a.id < counter
  /\ \A t \in Thread : pc[t] = "snap_parent" =>
       /\ snap[t].id # 0 /\ snap[t].id < counter
       /\ \A a \in Linked : a.id # snap[t].id
       /\ \A u \in Thread : pc[u] = "snap_parent" /\ snap[u].id = snap[t].id => u = t

LEMMA ChainInit == Init => ChainInv
  BY DEF Init, ChainInv, LineageIsChain, Linked

\* Steps that neither link nor take an id.
LEMMA SameChain ==
  ASSUME TypeOK, ChainInv, NEW t \in Thread,
         UNCHANGED <<counter, last_id, snaps>>,
         pc[t] \notin {"snap_parent", "snap_push"},
         pc'[t] \notin {"snap_parent", "snap_push"},
         \A u \in Thread : u # t => pc'[u] = pc[u] /\ snap'[u] = snap[u]
  PROVE  ChainInv'
  <1>1. \A u \in Thread : /\ pc'[u] = "snap_push" <=> pc[u] = "snap_push"
                          /\ pc'[u] = "snap_parent" <=> pc[u] = "snap_parent"
                          /\ pc[u] \in {"snap_push", "snap_parent"} => snap'[u] = snap[u]
    OBVIOUS
  <1>2. Linked' = Linked
    BY <1>1 DEF Linked
  <1>3. LineageIsChain'
    BY <1>2 DEF ChainInv, LineageIsChain
  <1>4. QED
    BY <1>1, <1>2, <1>3 DEF ChainInv

LEMMA ChainNext == TypeOK /\ ChainInv /\ [Next]_vars => ChainInv'
  <1> SUFFICES ASSUME TypeOK, ChainInv, [Next]_vars PROVE ChainInv'
    OBVIOUS
  <1>1. ASSUME NEW t \in Thread, Invoke(t) \/ Continue(t),
               ~TakeId(t), ~LinkParent(t), ~PushHistory(t)
        PROVE  ChainInv'
    <2> USE DEF ManyPCs, EntryPCs, CapturePCs, LinkPCs
    <2>1. CASE Invoke(t)
      <3>1. /\ UNCHANGED <<counter, last_id, snaps>>
            /\ pc[t] \notin {"snap_parent", "snap_push"}
            /\ pc'[t] \notin {"snap_parent", "snap_push"}
        BY <2>1
           DEF Invoke, Set, Delete, SetMany, DeleteMany, GetMany, BeginMany,
               DeleteNamespace, Clear, Snapshot, ClearHistory, Restore, Call,
               Goto, meta, locals, TypeOK
      <3>2. QED
        BY <1>1, <3>1, Frame, SameChain
    <2>2. CASE Continue(t)
      <3>1. /\ UNCHANGED <<counter, last_id, snaps>>
            /\ pc[t] \notin {"snap_parent", "snap_push"}
            /\ pc'[t] \notin {"snap_parent", "snap_push"}
        BY <1>1, <2>2
           DEF Continue, LockBucket, ReadBucket, SetEntry, DeleteEntry,
               CountFreed, UnlockBucket, GetManyReturn, SubFreed, ClearShard,
               ZeroBytes, LockForRead, CloneShard, LoadBytes, DropReadGuards,
               LockForWrite, WriteShard, DropWriteGuards, Goto, Return,
               Advance, meta, TypeOK
      <3>2. QED
        BY <1>1, <3>1, Frame, SameChain
    <2>3. QED
      BY <1>1, <2>1, <2>2
  <1>2. ASSUME NEW t \in Thread, TakeId(t)
        PROVE  ChainInv'
    <2>1. /\ pc[t] = "snap_id" /\ pc'[t] = "snap_parent"
          /\ snap'[t].id = counter /\ counter' = counter + 1
          /\ UNCHANGED <<last_id, snaps>>
          /\ \A u \in Thread : u # t => pc'[u] = pc[u] /\ snap'[u] = snap[u]
          /\ counter \in Nat
      BY <1>2 DEF TakeId, Goto, TypeOK, SnapshotData
    <2>2. Linked' = Linked
      BY <2>1 DEF Linked
    <2>3. LineageIsChain'
      BY <2>1, <2>2 DEF ChainInv, LineageIsChain
    <2>4. Linked \subseteq SnapshotData
      BY DEF Linked, TypeOK
    <2>5. \A a \in Linked' : a.id # 0 /\ a.id < counter'
      BY <2>1, <2>2, <2>4 DEF ChainInv, SnapshotData
    <2>6. ASSUME NEW u \in Thread, pc'[u] = "snap_parent"
          PROVE  /\ snap'[u].id # 0 /\ snap'[u].id < counter'
                 /\ \A a \in Linked' : a.id # snap'[u].id
                 /\ \A w \in Thread :
                      pc'[w] = "snap_parent" /\ snap'[w].id = snap'[u].id => w = u
      <3>1. \A w \in Thread : pc[w] = "snap_parent" =>
              snap[w].id \in Nat /\ snap[w].id < counter
        BY DEF ChainInv, TypeOK, SnapshotData
      <3>2. \A a \in Linked : a.id \in Nat /\ a.id < counter
        BY <2>4 DEF ChainInv, SnapshotData
      <3>3. CASE u = t
        BY <2>1, <2>2, <3>1, <3>2, <3>3 DEF ChainInv
      <3>4. CASE u # t
        BY <2>1, <2>2, <2>6, <3>1, <3>2, <3>4 DEF ChainInv
      <3>5. QED
        BY <3>3, <3>4
    <2>7. counter' # 0 /\ (Linked' = {} => last_id' = 0)
      BY <2>1, <2>2 DEF ChainInv
    <2>8. QED
      BY <2>3, <2>5, <2>6, <2>7 DEF ChainInv
  <1>3. ASSUME NEW t \in Thread, LinkParent(t)
        PROVE  ChainInv'
    <2> DEFINE new == snap'[t]
    <2>1. /\ pc[t] = "snap_parent" /\ pc'[t] = "snap_push"
          /\ new.id = snap[t].id /\ new.parent = last_id
          /\ last_id' = new.id
          /\ UNCHANGED <<counter, snaps>>
          /\ \A u \in Thread : u # t => pc'[u] = pc[u] /\ snap'[u] = snap[u]
      BY <1>3 DEF LinkParent, PreviousId, NewLastId, Goto, TypeOK, SnapshotData
    <2>2. Linked' = Linked \cup {new}
      BY <2>1 DEF Linked
    <2>3. /\ new.id # 0 /\ new.id < counter
          /\ \A a \in Linked : a.id # new.id
      BY <2>1 DEF ChainInv
    <2> HIDE DEF new
    <2>4. \A a \in Linked : a.parent # last_id /\ a.parent # new.id
      BY <2>3 DEF ChainInv, LineageIsChain
    <2>5. last_id # 0 => \E b \in Linked : b.id = last_id
      BY DEF ChainInv, LineageIsChain
    <2>6. last_id # new.id
      BY <2>3, <2>5
    <2>7. LineageIsChain'
      <3>1. \A a, b \in Linked' : a.id = b.id \/ a.parent = b.parent => a = b
        BY <2>1, <2>2, <2>3, <2>4 DEF ChainInv, LineageIsChain
      <3>2. \A a \in Linked' : a.parent # 0 => \E b \in Linked' : b.id = a.parent
        BY <2>1, <2>2, <2>5 DEF ChainInv, LineageIsChain
      <3>3. /\ \E a \in Linked' : a.id = last_id'
            /\ \A a \in Linked' : a.parent # last_id'
        BY <2>1, <2>2, <2>4, <2>6
      <3>4. QED
        BY <3>1, <3>2, <3>3 DEF LineageIsChain
    <2>8. \A a \in Linked' : a.id # 0 /\ a.id < counter'
      BY <2>1, <2>2, <2>3 DEF ChainInv
    <2>9. ASSUME NEW u \in Thread, pc'[u] = "snap_parent"
          PROVE  /\ snap'[u].id # 0 /\ snap'[u].id < counter'
                 /\ \A a \in Linked' : a.id # snap'[u].id
                 /\ \A w \in Thread :
                      pc'[w] = "snap_parent" /\ snap'[w].id = snap'[u].id => w = u
      <3>1. u # t /\ pc[u] = "snap_parent" /\ snap'[u] = snap[u]
        BY <2>1, <2>9
      <3>2. new.id # snap[u].id
        BY <2>1, <3>1 DEF ChainInv
      <3>3. \A w \in Thread : pc'[w] = "snap_parent" =>
              pc[w] = "snap_parent" /\ snap'[w] = snap[w]
        BY <2>1
      <3>4. QED
        BY <2>1, <2>2, <3>1, <3>2, <3>3 DEF ChainInv
    <2>10. counter' # 0 /\ (Linked' = {} => last_id' = 0)
      BY <2>1, <2>2 DEF ChainInv
    <2>11. QED
      BY <2>7, <2>8, <2>9, <2>10 DEF ChainInv
  <1>4. ASSUME NEW t \in Thread, PushHistory(t)
        PROVE  ChainInv'
    <2>1. /\ pc[t] = "snap_push" /\ pc'[t] = "idle"
          /\ UNCHANGED <<counter, last_id>>
          /\ snaps' = snaps \cup {snap[t]}
          /\ \A u \in Thread : u # t => pc'[u] = pc[u] /\ snap'[u] = snap[u]
      BY <1>4 DEF PushHistory, Return, Goto, TypeOK
    <2>2. Linked' = Linked
      BY <2>1 DEF Linked
    <2>3. LineageIsChain'
      BY <2>1, <2>2 DEF ChainInv, LineageIsChain
    <2>4. \A u \in Thread : pc'[u] = "snap_parent" =>
            pc[u] = "snap_parent" /\ snap'[u] = snap[u]
      BY <2>1
    <2>5. QED
      BY <2>1, <2>2, <2>3, <2>4 DEF ChainInv
  <1>5. CASE UNCHANGED vars
    <2>1. Linked' = Linked
      BY <1>5 DEF vars, meta, locals, Linked
    <2>2. QED
      BY <1>5, <2>1 DEF vars, meta, locals, ChainInv, LineageIsChain
  <1>6. QED
    BY <1>1, <1>2, <1>3, <1>4, <1>5 DEF Next

\* Concurrent Store::snapshot calls, each taking its id and linking its parent
\* in two steps, leave one chain from the first snapshot to last_id, for any
\* number of threads: ids are unique and no parent is shared or missing.
THEOREM LineageIsOneChain == Spec => []LineageIsChain
  <1>1. ChainInv => LineageIsChain
    BY DEF ChainInv
  <1>2. QED
    BY <1>1, ChainInit, ChainNext, StoreTypes, PTL DEF Spec

-----------------------------------------------------------------------------
(* The retained history.  Its length is bounded whatever the callers do;    *)
(* that it is the tail of the lineage needs that ids are pushed in the      *)
(* order they were taken, which holds with one caller.                      *)

\* What a push leaves: at most max_history snapshots, numbered up to the new one
\* if they were numbered up to its predecessor.
LEMMA RetainTail ==
  ASSUME NEW h \in Seq(SnapshotData), NEW s \in SnapshotData, NEW x \in Int,
         MaxHistory # Unlimited => Len(h) <= MaxHistory
  PROVE  /\ MaxHistory # Unlimited => Len(Retain(h, s)) <= MaxHistory
         /\ s.id = x + 1 /\ (\A i \in DOMAIN h : h[i].id = x - Len(h) + i)
              => \A i \in DOMAIN Retain(h, s) :
                   Retain(h, s)[i].id = x + 1 - Len(Retain(h, s)) + i
  <1> DEFINE pushed == Append(h, s)
             over   == Len(pushed) - MaxHistory
             r      == Retain(h, s)
             ends(q, y) == \A i \in DOMAIN q : q[i].id = y - Len(q) + i
  <1>0. /\ pushed \in Seq(SnapshotData) /\ Len(pushed) = Len(h) + 1
        /\ Len(h) \in Nat
    OBVIOUS
  <1>1. ASSUME s.id = x + 1, ends(h, x)
        PROVE  ends(pushed, x + 1)
    <2> SUFFICES ASSUME NEW i \in DOMAIN pushed
                 PROVE  pushed[i].id = x + 1 - Len(pushed) + i
      OBVIOUS
    <2>1. CASE i = Len(h) + 1
      BY <1>0, <1>1, <2>1
    <2>2. CASE i # Len(h) + 1
      <3>1. i \in DOMAIN h /\ pushed[i] = h[i]
        BY <1>0, <2>2
      <3>2. h[i].id = x - Len(h) + i /\ i \in Int
        BY <1>1, <3>1
      <3>3. QED
        BY <1>0, <3>1, <3>2
    <2>3. QED
      BY <2>1, <2>2
  <1>2. CASE MaxHistory = 0
    <2>1. r = h
      BY <1>2 DEF Retain
    <2>2. Len(h) = 0 /\ DOMAIN h = {}
      BY <1>0, <1>2, ConstantsAssumption DEF Unlimited
    <2>3. QED
      BY <1>2, <2>1, <2>2
  <1>3. CASE MaxHistory # 0 /\ (MaxHistory = Unlimited \/ over <= 0)
    <2>1. r = pushed
      BY <1>3 DEF Retain
    <2>2. MaxHistory # Unlimited => Len(pushed) <= MaxHistory
      BY <1>0, <1>3, ConstantsAssumption
    <2> HIDE DEF pushed, r
    <2>3. QED
      BY <1>1, <2>1, <2>2 DEF r
  <1>4. CASE MaxHistory # 0 /\ MaxHistory # Unlimited /\ ~(over <= 0)
    <2>1. r = SubSeq(pushed, over + 1, Len(pushed))
      BY <1>4 DEF Retain
    <2>2. MaxHistory \in Nat /\ over = 1 /\ Len(pushed) = MaxHistory + 1
      BY <1>0, <1>4, ConstantsAssumption
    <2>3. 2 \in 1 .. Len(pushed) + 1
      BY <1>0, <2>2
    <2>4. r = SubSeq(pushed, 2, Len(pushed))
      BY <2>1, <2>2
    <2> HIDE DEF r
    <2>5. /\ r \in Seq(SnapshotData) /\ Len(r) = MaxHistory
          /\ \A i \in 1 .. MaxHistory : r[i] = pushed[2 + i - 1]
      <3> HIDE DEF pushed, over
      <3>1. Len(r) = IF 2 <= Len(pushed) THEN Len(pushed) - 2 + 1 ELSE 0
        BY <1>0, <2>3, <2>4, SubSeqProperties
      <3>2. Len(r) = MaxHistory
        BY <2>2, <3>1, <1>4
      <3>3. r \in Seq(SnapshotData) /\ \A i \in 1 .. Len(pushed) - 2 + 1 : r[i] = pushed[2 + i - 1]
        BY <1>0, <2>3, <2>4, SubSeqProperties
      <3>4. QED
        BY <2>2, <3>2, <3>3
    <2>6. ASSUME s.id = x + 1, ends(h, x), NEW i \in DOMAIN r
          PROVE  r[i].id = x + 1 - Len(r) + i
      <3>1. i \in 1 .. MaxHistory
        BY <2>5
      <3>2. i + 1 \in DOMAIN pushed /\ r[i] = pushed[i + 1]
        BY <1>0, <2>2, <2>5, <3>1
      <3>3. pushed[i + 1].id = x + 1 - Len(pushed) + (i + 1)
        BY <1>1, <2>6, <3>2
      <3>4. QED
        BY <2>2, <2>5, <3>1, <3>2, <3>3
    <2>7. QED
      BY <2>5, <2>6 DEF r
  <1>5. QED
    BY <1>2, <1>3, <1>4

\* The last id that is in place: a thread about to push has linked its own.
Newest == IF \E t \in Thread : pc[t] = "snap_push" THEN last_id - 1 ELSE last_id

HistoryInv ==
  /\ MaxHistory # Unlimited => Len(history) <= MaxHistory
  /\ \A i \in DOMAIN history : history[i].id = Newest - Len(history) + i
  /\ \A t \in Thread :
       /\ pc[t] = "snap_parent" => snap[t].id = last_id + 1 /\ counter = last_id + 2
       /\ pc[t] = "snap_push" => snap[t].id = last_id /\ counter = last_id + 1
       /\ pc[t] \notin {"snap_parent", "snap_push"} => counter = last_id + 1

LEMMA HistoryNext ==
  ASSUME \A t, u \in Thread : t = u,
         TypeOK, HistoryInv, [Next]_vars
  PROVE  HistoryInv'
  <1>1. ASSUME NEW t \in Thread, Invoke(t) \/ Continue(t),
               ~TakeId(t), ~LinkParent(t), ~PushHistory(t)
        PROVE  HistoryInv'
    <2> USE DEF ManyPCs, EntryPCs, CapturePCs, LinkPCs
    <2>1. /\ UNCHANGED <<counter, last_id>>
          /\ history' = history \/ history' = <<>>
          /\ pc[t] \notin {"snap_parent", "snap_push"}
          /\ pc'[t] \notin {"snap_parent", "snap_push"}
      <3>1. CASE Invoke(t)
        BY <3>1
           DEF Invoke, Set, Delete, SetMany, DeleteMany, GetMany, BeginMany,
               DeleteNamespace, Clear, Snapshot, ClearHistory, Restore, Call,
               Goto, meta, locals, TypeOK
      <3>2. CASE Continue(t)
        BY <1>1, <3>2
           DEF Continue, LockBucket, ReadBucket, SetEntry, DeleteEntry,
               CountFreed, UnlockBucket, GetManyReturn, SubFreed, ClearShard,
               ZeroBytes, LockForRead, CloneShard, LoadBytes, DropReadGuards,
               LockForWrite, WriteShard, DropWriteGuards, Goto, Return,
               Advance, meta, TypeOK
      <3>3. QED
        BY <1>1, <3>1, <3>2
    <2>2. Newest' = Newest
      BY <2>1 DEF Newest
    <2>3. CASE history' = history
      BY <2>1, <2>2, <2>3 DEF HistoryInv
    <2>4. CASE history' = <<>>
      <3>1. Len(history') = 0 /\ DOMAIN history' = {}
        BY <2>4
      <3>2. MaxHistory # Unlimited => Len(history') <= MaxHistory
        BY <3>1, ConstantsAssumption
      <3>3. QED
        BY <2>1, <3>1, <3>2 DEF HistoryInv
    <2>5. QED
      BY <2>1, <2>3, <2>4
  <1>2. ASSUME NEW t \in Thread, TakeId(t)
        PROVE  HistoryInv'
    <2>1. /\ pc[t] = "snap_id" /\ pc'[t] = "snap_parent"
          /\ snap'[t].id = counter /\ counter' = counter + 1
          /\ UNCHANGED <<last_id, history>>
          /\ last_id \in Nat
      BY <1>2 DEF TakeId, Goto, TypeOK, SnapshotData
    <2>2. Newest' = Newest
      BY <2>1 DEF Newest
    <2>3. QED
      BY <2>1, <2>2 DEF HistoryInv
  <1>3. ASSUME NEW t \in Thread, LinkParent(t)
        PROVE  HistoryInv'
    <2>1. /\ pc[t] = "snap_parent" /\ pc'[t] = "snap_push"
          /\ snap'[t].id = snap[t].id
          /\ last_id' = snap[t].id
          /\ UNCHANGED <<counter, history>>
          /\ last_id \in Nat
      BY <1>3 DEF LinkParent, PreviousId, NewLastId, Goto, TypeOK, SnapshotData
    <2>2. snap[t].id = last_id + 1 /\ counter = last_id + 2
      BY <2>1 DEF HistoryInv
    <2>3. Newest' = last_id /\ Newest = last_id
      BY <2>1, <2>2 DEF Newest
    <2>4. QED
      BY <2>1, <2>2, <2>3 DEF HistoryInv
  <1>4. ASSUME NEW t \in Thread, PushHistory(t)
        PROVE  HistoryInv'
    <2>1. /\ pc[t] = "snap_push" /\ pc'[t] = "idle"
          /\ UNCHANGED <<counter, last_id>>
          /\ history' = Retain(history, snap[t])
          /\ last_id \in Nat
          /\ history \in Seq(SnapshotData) /\ snap[t] \in SnapshotData
      BY <1>4 DEF PushHistory, Return, Goto, TypeOK
    <2>2. /\ snap[t].id = last_id /\ counter = last_id + 1
          /\ Newest = last_id - 1 /\ Newest' = last_id
      BY <2>1 DEF HistoryInv, Newest
    <2>3. /\ last_id - 1 \in Int
          /\ snap[t].id = (last_id - 1) + 1
          /\ MaxHistory # Unlimited => Len(history) <= MaxHistory
          /\ \A i \in DOMAIN history : history[i].id = (last_id - 1) - Len(history) + i
      BY <2>1, <2>2 DEF HistoryInv
    <2>4. /\ MaxHistory # Unlimited => Len(history') <= MaxHistory
          /\ \A i \in DOMAIN history' :
               history'[i].id = (last_id - 1) + 1 - Len(history') + i
      BY <2>1, <2>3, RetainTail
    <2>5. \A i \in DOMAIN history' : history'[i].id = Newest' - Len(history') + i
      BY <2>1, <2>2, <2>4
    <2>6. QED
      BY <2>1, <2>2, <2>4, <2>5 DEF HistoryInv
  <1>5. CASE UNCHANGED vars
    BY <1>5 DEF vars, meta, locals, HistoryInv, Newest
  <1>6. QED
    BY <1>1, <1>2, <1>3, <1>4, <1>5 DEF Next

\* With one caller Store::history() is exactly the tail of the lineage, at most
\* max_history long: popping the front neither skips nor keeps one too many.
THEOREM HistoryIsTheTail ==
  ASSUME \A t, u \in Thread : t = u
  PROVE  Spec => []HistoryIsTail
  <1>1. Init => HistoryInv
    <2>1. ASSUME Init
          PROVE  Len(history) = 0 /\ DOMAIN history = {}
      BY <2>1 DEF Init
    <2>2. QED
      BY <2>1, ConstantsAssumption DEF Init, HistoryInv, Newest
  <1>2. TypeOK /\ HistoryInv /\ [Next]_vars => HistoryInv'
    BY HistoryNext
  <1>3. HistoryInv => HistoryIsTail
    BY DEF HistoryInv, HistoryIsTail, Newest, Quiescent
  <1>4. QED
    BY <1>1, <1>2, <1>3, StoreTypes, PTL DEF Spec
=============================================================================

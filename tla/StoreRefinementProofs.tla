----------------------- MODULE StoreRefinementProofs -----------------------
(***************************************************************************)
(* Store implements AtomicStore: every step of the sharded, locked store   *)
(* is a step of the atomic one, or none, under the mapping of              *)
(* StoreRefinement.  Beyond the lock and copy invariants of StoreProofs    *)
(* the mapping needs to know that a deletion carries no values, and that   *)
(* only get_many has values it read.                                       *)
(***************************************************************************)
EXTENDS StoreRefinement, StoreProofs

\* A delete_many, like a get_many, carries pairs only.
NoValues(t) ==
  pc[t] \in {"delete_many", "delete_entry", "get_many"} =>
    \A p \in DOMAIN batch[t] : batch[t][p] = Nil

\* Outside get_many nothing has been read.
NothingRead(t) == pc[t] # "get_many" => got[t] = NoBatch

RefInv == IInv /\ \A t \in Thread : NoValues(t) /\ NothingRead(t)

LEMMA NoValuesNext == RefInv /\ [Next]_vars => \A u \in Thread : NoValues(u)'
  <1> SUFFICES ASSUME RefInv, [Next]_vars, NEW u \in Thread PROVE NoValues(u)'
    OBVIOUS
  <1>0. TypeOK /\ NoValues(u)
    BY DEF RefInv, IInv
  <1> USE DEF ManyPCs, EntryPCs, CapturePCs, LinkPCs
  <1>1. CASE UNCHANGED vars
    BY <1>0, <1>1 DEF vars, locals, NoValues
  <1>2. ASSUME NEW t \in Thread, Invoke(t) \/ Continue(t), u # t
        PROVE  NoValues(u)'
    BY <1>0, <1>2, Frame DEF NoValues
  <1>3. ASSUME Invoke(u) \/ Continue(u)
        PROVE  NoValues(u)'
    <2> SUFFICES ASSUME pc'[u] \in {"delete_many", "delete_entry", "get_many"},
                        NEW p \in DOMAIN batch'[u]
                 PROVE  batch'[u][p] = Nil
      BY DEF NoValues
    <2>1. CASE \E b \in Batches : DeleteMany(u, b) \/ GetMany(u, b)
      <3>1. PICK b \in Batches : batch' = [batch EXCEPT ![u] = [q \in DOMAIN b |-> Nil]]
        BY <2>1 DEF DeleteMany, GetMany, BeginMany
      <3>2. QED
        BY <1>0, <3>1 DEF TypeOK
    <2>2. CASE \/ \E q \in DOMAIN batch[u] : DeleteEntry(u, q)
               \/ \E i \in Shard : ReadBucket(u, i)
      <3>1. PICK D : batch'[u] = Without(batch[u], D)
        BY <1>0, <2>2 DEF DeleteEntry, ReadBucket, TypeOK
      <3>2. pc[u] \in {"delete_entry", "get_many"}
        BY <2>2 DEF DeleteEntry, ReadBucket
      <3>3. p \in DOMAIN batch[u] /\ batch'[u][p] = batch[u][p]
        BY <3>1 DEF Without
      <3>4. QED
        BY <1>0, <3>2, <3>3 DEF NoValues
    <2>3. CASE \/ \E i \in Shard : LockBucket(u, i)
               \/ UnlockBucket(u)
      <3>1. batch'[u] = batch[u] /\ pc[u] \in {"delete_many", "delete_entry"}
        BY <1>0, <2>3 DEF LockBucket, UnlockBucket, Return, Goto, TypeOK
      <3>2. QED
        BY <1>0, <3>1 DEF NoValues
    <2>4. QED
      BY <1>0, <1>3, <2>1, <2>2, <2>3, ZenonT(60)
         DEF Invoke, Continue, Set, Delete, SetMany,
             BeginMany, DeleteNamespace, Clear, Snapshot, ClearHistory,
             Restore, SetEntry, CountFreed, GetManyReturn, SubFreed,
             ClearShard, ZeroBytes, Call, LockForRead, CloneShard, LoadBytes,
             DropReadGuards, TakeId, LinkParent, PushHistory, LockForWrite,
             WriteShard, DropWriteGuards, Return, Goto, Advance, locals, TypeOK
  <1>4. QED
    BY <1>1, <1>2, <1>3 DEF Next

LEMMA NothingReadNext == RefInv /\ [Next]_vars => \A u \in Thread : NothingRead(u)'
  <1> SUFFICES ASSUME RefInv, [Next]_vars, NEW u \in Thread PROVE NothingRead(u)'
    OBVIOUS
  <1>0. TypeOK /\ NothingRead(u)
    BY DEF RefInv, IInv
  <1>1. CASE UNCHANGED vars
    BY <1>0, <1>1 DEF vars, locals, NothingRead
  <1>2. ASSUME NEW t \in Thread, Invoke(t)
        PROVE  NothingRead(u)'
    <2>1. got' = got /\ pc[t] = "idle" /\ (u # t => pc'[u] = pc[u])
      BY <1>0, <1>2 DEF Invoke, Set, Delete, SetMany, DeleteMany, GetMany, BeginMany,
         DeleteNamespace, Clear, Snapshot, ClearHistory, Restore, Call, Goto,
         locals, TypeOK
    <2>2. QED
      BY <1>0, <2>1 DEF NothingRead
  <1>3. ASSUME NEW t \in Thread, Continue(t)
        PROVE  NothingRead(u)'
    <2>1. \/ got' = [got EXCEPT ![t] = NoBatch]
          \/ got' = got /\ pc[t] # "get_many"
          \/ pc' = pc /\ pc[t] = "get_many" /\ \A w \in Thread : w # t => got'[w] = got[w]
      BY <1>0, <1>3 DEF Continue, LockBucket, ReadBucket, SetEntry, DeleteEntry,
         CountFreed, UnlockBucket, GetManyReturn, SubFreed, ClearShard,
         ZeroBytes, LockForRead, CloneShard, LoadBytes, DropReadGuards, TakeId,
         LinkParent, PushHistory, LockForWrite, WriteShard, DropWriteGuards,
         Goto, Return, Advance, ManyPCs, EntryPCs, TypeOK
    <2>2. u # t => pc'[u] = pc[u]
      BY <1>0, <1>3, Frame
    <2>3. QED
      BY <1>0, <2>1, <2>2 DEF NothingRead, TypeOK
  <1>4. QED
    BY <1>1, <1>2, <1>3 DEF Next

LEMMA RefNext == RefInv /\ [Next]_vars => RefInv'
  BY NoValuesNext, NothingReadNext, TypeNext, LockNext, GuardNext DEF RefInv, IInv

LEMMA RefInductive == Spec => []RefInv
  <1>1. Init => RefInv
    BY TypeInit, LockInit
       DEF Init, IInv, Cloned, Installed, RefInv, NoValues, NothingRead
  <1>2. QED
    BY <1>1, RefNext, PTL DEF Spec

-----------------------------------------------------------------------------
(* The initial states *)

LEMMA InitMaps == Init => Atomic!Init
  <1> SUFFICES ASSUME Init PROVE Atomic!Init
    OBVIOUS
  <1> USE DEF ManyPCs, EntryPCs, CapturePCs, LinkPCs
  <1>1. TableNow = [p \in Pair |-> Nil]
    <2>1. \A p \in Pair : p[1] \in NS /\ ShardOf[p[1]] \in Shard
      BY ConstantsAssumption DEF Pair
    <2>2. QED
      BY <2>1 DEF Init, TableNow, Row, NoMaps
  <1>2. CallNow = [t \in Thread |-> "idle"]
    BY DEF Init, CallNow
  <1>3. TodoNow = [t \in Thread |-> NoBatch]
    BY DEF Init, TodoNow
  <1>4. ViewNow = [t \in Thread |-> NoBatch]
    BY DEF Init, ViewNow
  <1>5. ViewsNow = {}
    BY DEF Init, ViewsNow
  <1>6. QED
    BY <1>1, <1>2, <1>3, <1>4, <1>5
       DEF Init, Atomic!Init, Atomic!Pair, Atomic!None, Pair, NoBatch

-----------------------------------------------------------------------------
(* How one step moves the mapped variables *)

\* A row of a shard nobody write-locks is what the maps hold.
LEMMA FreeRow ==
  ASSUME NEW p \in Pair, writer[ShardOf[p[1]]] = NoThread
  PROVE  TableNow[p] = Row(maps, p[1], p[2])
  BY DEF TableNow

LEMMA FreeRowNext ==
  ASSUME NEW p \in Pair, writer'[ShardOf[p[1]]] = NoThread
  PROVE  TableNow'[p] = Row(maps', p[1], p[2])
  BY DEF TableNow, Row

\* The rows of a shard another thread has write-locked stay as they are.
LEMMA OthersRow ==
  ASSUME RefInv, NEW t \in Thread, Invoke(t) \/ Continue(t), NEW p \in Pair,
         writer[ShardOf[p[1]]] # NoThread, writer[ShardOf[p[1]]] # t,
         writer'[ShardOf[p[1]]] = writer[ShardOf[p[1]]]
  PROVE  TableNow'[p] = TableNow[p]
  <1> DEFINE w == writer[ShardOf[p[1]]]
  <1>1. p[1] \in NS /\ p[2] \in Key /\ ShardOf[p[1]] \in Shard
    BY ConstantsAssumption DEF Pair
  <1>2. TypeOK /\ LockInv
    BY DEF RefInv, IInv
  <1>3. w \in Thread /\ w # t
    BY <1>1, <1>2 DEF TypeOK
  <1>4. pc'[w] = pc[w] /\ batch'[w] = batch[w] /\ snap'[w] = snap[w]
    BY <1>2, <1>3, Frame
  <1>5. maps'[p[1]] = maps[p[1]]
    BY <1>1, <1>2, MapsChange DEF Unlocked
  <1>6. Row(maps', p[1], p[2]) = Row(maps, p[1], p[2])
    BY <1>5 DEF Row
  <1>7. QED
    BY <1>4, <1>6 DEF TableNow, Row

\* Only the thread that takes a step has its call, its todo and its view change,
\* and a snapshot that is being cloned sees the table as it is.
LEMMA OthersCall ==
  ASSUME RefInv, NEW t \in Thread, Invoke(t) \/ Continue(t),
         TableNow' = TableNow \/ \A u \in Thread : pc[u] # "snap_clone"
  PROVE  /\ CallNow' = [CallNow EXCEPT ![t] = CallNow'[t]]
         /\ TodoNow' = [TodoNow EXCEPT ![t] = TodoNow'[t]]
         /\ ViewNow' = [ViewNow EXCEPT ![t] = ViewNow'[t]]
         /\ CallNow'[t] = CallNow[t] => CallNow' = CallNow
         /\ TodoNow'[t] = TodoNow[t] => TodoNow' = TodoNow
         /\ ViewNow'[t] = ViewNow[t] => ViewNow' = ViewNow
  <1>0. TypeOK
    BY DEF RefInv, IInv
  <1>1. ASSUME NEW u \in Thread, u # t
        PROVE  /\ CallNow'[u] = CallNow[u]
               /\ TodoNow'[u] = TodoNow[u]
               /\ ViewNow'[u] = ViewNow[u]
    <2>1. /\ pc'[u] = pc[u] /\ idx'[u] = idx[u]
          /\ snap'[u] = snap[u] /\ batch'[u] = batch[u]
      BY <1>0, <1>1, Frame
    <2>2. CallNow'[u] = CallNow[u]
      BY <2>1 DEF CallNow
    <2>3. TodoNow'[u] = TodoNow[u]
      BY <2>1 DEF TodoNow, Without, Bucket, ToClear
    <2>4. ViewNow'[u] = ViewNow[u]
      BY <2>1 DEF ViewNow, TableOf, Row
    <2>5. QED
      BY <2>2, <2>3, <2>4
  <1>2. /\ CallNow = [u \in Thread |-> CallNow[u]]
        /\ TodoNow = [u \in Thread |-> TodoNow[u]]
        /\ ViewNow = [u \in Thread |-> ViewNow[u]]
        /\ CallNow' = [u \in Thread |-> CallNow'[u]]
        /\ TodoNow' = [u \in Thread |-> TodoNow'[u]]
        /\ ViewNow' = [u \in Thread |-> ViewNow'[u]]
    BY DEF CallNow, TodoNow, ViewNow
  <1> HIDE DEF CallNow, TodoNow, ViewNow
  <1>3. QED
    BY <1>1, <1>2

\* A shard without readers means that no snapshot is being cloned.
LEMMA NotCloning ==
  ASSUME RefInv, NEW i \in Shard, readers[i] = {}, NEW u \in Thread
  PROVE  pc[u] # "snap_clone"
  BY DEF RefInv, IInv, LockInv, HoldsRead, CapturePCs

\* A step that changes no mapped variable.
LEMMA Stutter ==
  ASSUME RefInv, NEW t \in Thread, Invoke(t) \/ Continue(t),
         TableNow' = TableNow, CallNow'[t] = CallNow[t],
         TodoNow'[t] = TodoNow[t], ViewNow'[t] = ViewNow[t],
         got' = got, snaps' = snaps
  PROVE  UNCHANGED Atomic!vars
  <1>1. CallNow' = CallNow /\ TodoNow' = TodoNow /\ ViewNow' = ViewNow
    BY OthersCall
  <1>2. ViewsNow' = ViewsNow
    BY DEF ViewsNow, TableOf, Row
  <1>3. QED
    BY <1>1, <1>2 DEF Atomic!vars

\* A step of a thread that holds no write lock and takes none.
LEMMA FreeStep ==
  ASSUME RefInv, NEW t \in Thread, Invoke(t) \/ Continue(t),
         writer' = writer, \A i \in Shard : writer[i] # t, NEW p \in Pair
  PROVE  \/ TableNow'[p] = TableNow[p] /\ maps'[p[1]] = maps[p[1]]
         \/ /\ TableNow[p] = Row(maps, p[1], p[2])
            /\ TableNow'[p] = Row(maps', p[1], p[2])
  <1>1. p[1] \in NS /\ ShardOf[p[1]] \in Shard
    BY ConstantsAssumption DEF Pair
  <1>2. CASE writer[ShardOf[p[1]]] = NoThread
    BY <1>2, FreeRow, FreeRowNext
  <1>3. CASE writer[ShardOf[p[1]]] # NoThread
    <2>1. maps'[p[1]] = maps[p[1]]
      BY <1>1, <1>3, MapsChange DEF RefInv, IInv, Unlocked
    <2>2. QED
      BY <1>1, <1>3, <2>1, OthersRow
  <1>4. QED
    BY <1>2, <1>3

LEMMA TableDomain ==
  /\ TableNow = [p \in Pair |-> TableNow[p]]
  /\ TableNow' = [p \in Pair |-> TableNow'[p]]
  BY DEF TableNow

\* The table stays as it is under a step of a thread without write locks that
\* leaves the maps alone.
LEMMA SameTable ==
  ASSUME RefInv, NEW t \in Thread, Invoke(t) \/ Continue(t),
         UNCHANGED <<writer, maps>>, \A i \in Shard : writer[i] # t
  PROVE  TableNow' = TableNow
  <1>1. \A p \in Pair : TableNow'[p] = TableNow[p]
    BY FreeStep
  <1>2. QED
    BY <1>1, TableDomain

\* Where a thread is when it holds no write lock.
LEMMA WritesNothing ==
  ASSUME RefInv, NEW t \in Thread,
         pc[t] \notin EntryPCs \cup {"restore_lock", "restore_write", "restore_drop"}
  PROVE  \A i \in Shard : writer[i] # t
  BY DEF RefInv, IInv, LockInv, HoldsWrite

LEMMA InsertRow ==
  ASSUME NEW m \in Content, NEW n \in NS, NEW k \in Key, NEW v \in Entry,
         NEW x \in NS, NEW y \in Key
  PROVE  Row(Insert(m, n, k, v), x, y)
           = IF x = n /\ y = k THEN v ELSE Row(m, x, y)
  <1>1. Insert(m, n, k, v) \in Content
    BY InsertType
  <1>2. CASE x # n
    BY <1>2 DEF Insert, Row, Content
  <1>3. CASE x = n
    <2> DEFINE old == IF m[n] = NoMap THEN EmptyMap ELSE m[n]
    <2>1. old \in [Key -> Entry] /\ old[y] = Row(m, n, y)
      BY DEF Row, EmptyMap, Entry, Content, NsMap
    <2>2. Insert(m, n, k, v)[n] = [old EXCEPT ![k] = v]
      BY DEF Insert, Content
    <2> HIDE DEF old
    <2>3. [old EXCEPT ![k] = v] \in [Key -> Entry]
      BY <2>1
    <2>4. [old EXCEPT ![k] = v] # NoMap
      BY <2>3, ConstantsAssumption
    <2>5. QED
      BY <1>3, <2>1, <2>2, <2>4 DEF Row
  <1>4. QED
    BY <1>2, <1>3

LEMMA RemoveRow ==
  ASSUME NEW m \in Content, NEW n \in NS, NEW k \in Key,
         NEW x \in NS, NEW y \in Key
  PROVE  Row(Remove(m, n, k), x, y)
           = IF x = n /\ y = k THEN Nil ELSE Row(m, x, y)
  <1>1. CASE m[n] = NoMap
    BY <1>1 DEF Remove, Row
  <1>2. CASE m[n] # NoMap
    <2> DEFINE left == [m[n] EXCEPT ![k] = Nil]
    <2>1. left \in [Key -> Entry] /\ left # NoMap
      BY <1>2, ConstantsAssumption DEF Content, NsMap, Entry
    <2>2. left[y] = IF y = k THEN Nil ELSE m[n][y]
      BY <1>2 DEF Content, NsMap
    <2>3. Remove(m, n, k) = [m EXCEPT ![n] = IF left = EmptyMap THEN NoMap ELSE left]
      BY <1>2 DEF Remove
    <2> HIDE DEF left
    <2>4. CASE x # n
      BY <2>3, <2>4 DEF Row, Content
    <2>5. CASE x = n
      BY <1>2, <2>1, <2>2, <2>3, <2>5 DEF Row, Content, EmptyMap
    <2>6. QED
      BY <2>4, <2>5
  <1>3. QED
    BY <1>1, <1>2

-----------------------------------------------------------------------------
(* Calls that begin *)

AtomicStep == [Atomic!Next]_(Atomic!vars)

\* set and delete: Update with one row.
LEMMA RowStep ==
  ASSUME RefInv, NEW t \in Thread, NEW n \in NS, NEW k \in Key, NEW v \in Entry,
         Invoke(t), pc[t] = "idle", Unlocked(ShardOf[n]),
         UNCHANGED <<locks, snaps, locals>>,
         \A x \in NS, y \in Key : Row(maps', x, y)
            = IF x = n /\ y = k THEN v ELSE Row(maps, x, y),
         \A x \in NS \ {n} : maps'[x] = maps[x]
  PROVE  AtomicStep
  <1>1. \A i \in Shard : writer[i] # t
    BY WritesNothing DEF EntryPCs
  <1>2. ShardOf[n] \in Shard /\ writer[ShardOf[n]] = NoThread
    BY ConstantsAssumption DEF Unlocked
  <1>3. ASSUME NEW p \in Pair
        PROVE  TableNow'[p] = IF p = <<n, k>> THEN v ELSE TableNow[p]
    <2>1. p[1] \in NS /\ p[2] \in Key /\ p = <<p[1], p[2]>>
      BY DEF Pair
    <2>2. Row(maps', p[1], p[2]) = IF p = <<n, k>> THEN v ELSE Row(maps, p[1], p[2])
      BY <2>1
    <2>3. CASE writer[ShardOf[p[1]]] = NoThread
      <3>1. writer'[ShardOf[p[1]]] = NoThread
        BY <2>3 DEF locks
      <3>2. QED
        BY <2>2, <2>3, <3>1, FreeRow, FreeRowNext
    <2>4. CASE writer[ShardOf[p[1]]] # NoThread
      <3>1. p # <<n, k>>
        BY <1>2, <2>4
      <3>2. ShardOf[p[1]] \in Shard
        BY <2>1, ConstantsAssumption
      <3>3. TableNow'[p] = TableNow[p]
        BY <1>1, <2>4, <3>2, OthersRow DEF locks
      <3>4. QED
        BY <3>1, <3>3
    <2>5. QED
      BY <2>3, <2>4
  <1>4. TableNow' = [TableNow EXCEPT ![<<n, k>>] = v]
    BY <1>3, TableDomain
  <1>5. \A u \in Thread : pc[u] # "snap_clone"
    BY <1>2, NotCloning DEF Unlocked
  <1>6. /\ CallNow'[t] = CallNow[t] /\ TodoNow'[t] = TodoNow[t]
        /\ ViewNow'[t] = ViewNow[t]
    <2>1. pc'[t] = "idle"
      BY DEF locals
    <2>2. QED
      BY <2>1 DEF CallNow, TodoNow, ViewNow, ManyPCs, EntryPCs, CapturePCs, LinkPCs
  <1>7. CallNow' = CallNow /\ TodoNow' = TodoNow /\ ViewNow' = ViewNow
    BY <1>5, <1>6, OthersCall
  <1>8. ViewsNow' = ViewsNow /\ got' = got
    BY DEF ViewsNow, TableOf, Row, locals
  <1>9. CallNow[t] = "idle"
    BY DEF CallNow, ManyPCs, EntryPCs, CapturePCs, LinkPCs
  <1>10. Atomic!Update(t, n)
    BY <1>4, <1>7, <1>8, <1>9 DEF Atomic!Update, Entry
  <1>11. QED
    BY <1>10 DEF AtomicStep, Atomic!Next

LEMMA SetStep ==
  ASSUME RefInv, NEW t \in Thread, NEW n \in NS, NEW k \in Key, NEW v \in Val,
         Set(t, n, k, v)
  PROVE  AtomicStep
  <1>1. v \in Entry /\ maps \in Content
    BY DEF Entry, RefInv, IInv, TypeOK
  <1>2. \A x \in NS, y \in Key : Row(maps', x, y)
            = IF x = n /\ y = k THEN v ELSE Row(maps, x, y)
    BY <1>1, InsertRow DEF Set
  <1>3. \A x \in NS \ {n} : maps'[x] = maps[x]
    BY <1>1 DEF Set, Insert, Content
  <1>4. QED
    BY <1>1, <1>2, <1>3, RowStep DEF Set, Call, Invoke, meta

LEMMA DeleteStep ==
  ASSUME RefInv, NEW t \in Thread, NEW n \in NS, NEW k \in Key, Delete(t, n, k)
  PROVE  AtomicStep
  <1>1. Nil \in Entry /\ maps \in Content
    BY DEF Entry, RefInv, IInv, TypeOK
  <1>2. \A x \in NS, y \in Key : Row(maps', x, y)
            = IF x = n /\ y = k THEN Nil ELSE Row(maps, x, y)
    BY <1>1, RemoveRow DEF Delete
  <1>3. \A x \in NS \ {n} : maps'[x] = maps[x]
    BY <1>1 DEF Delete, Remove, Content
  <1>4. QED
    BY <1>1, <1>2, <1>3, RowStep DEF Delete, Call, Invoke, meta

\* A call that begins without touching the store.
LEMMA BeginFrame ==
  ASSUME RefInv, NEW t \in Thread, Invoke(t), pc[t] = "idle",
         UNCHANGED <<data, locks, snaps, got>>
  PROVE  /\ CallNow[t] = "idle" /\ TodoNow[t] = NoBatch /\ ViewNow[t] = NoBatch
         /\ TableNow' = TableNow /\ ViewsNow' = ViewsNow
         /\ CallNow' = [CallNow EXCEPT ![t] = CallNow'[t]]
         /\ TodoNow' = [TodoNow EXCEPT ![t] = TodoNow'[t]]
         /\ ViewNow' = [ViewNow EXCEPT ![t] = ViewNow'[t]]
         /\ TodoNow'[t] = NoBatch => TodoNow' = TodoNow
         /\ ViewNow'[t] = NoBatch => ViewNow' = ViewNow
  <1>1. TableNow' = TableNow
    BY SameTable, WritesNothing DEF data, locks, EntryPCs
  <1>2. CallNow[t] = "idle" /\ TodoNow[t] = NoBatch /\ ViewNow[t] = NoBatch
    BY DEF CallNow, TodoNow, ViewNow, ManyPCs, EntryPCs, CapturePCs, LinkPCs
  <1>3. ViewsNow' = ViewsNow
    BY DEF ViewsNow, TableOf, Row
  <1>4. QED
    BY <1>1, <1>2, <1>3, OthersCall

LEMMA PartIsBatch == Atomic!Part = Batch
  BY DEF Atomic!Part, Atomic!Pair, Batch, Pair, Entry

LEMMA ManyStep ==
  ASSUME RefInv, NEW t \in Thread, NEW b \in Batches,
         SetMany(t, b) \/ DeleteMany(t, b) \/ GetMany(t, b)
  PROVE  AtomicStep
  <1> USE DEF ManyPCs, EntryPCs, CapturePCs, LinkPCs
  <1>0. TypeOK /\ TypeOK'
    <2>1. Next
      BY DEF Next, Invoke
    <2>2. QED
      BY <2>1, TypeNext DEF RefInv, IInv
  <1>1. Invoke(t) /\ pc[t] = "idle" /\ UNCHANGED <<data, locks, snaps, got>>
    BY DEF SetMany, DeleteMany, GetMany, BeginMany, Call, Invoke, meta
  <1>2. /\ pc'[t] \in {"set_many", "delete_many", "get_many"}
        /\ pc'[t] = "get_many" => batch'[t] = [p \in DOMAIN b |-> Nil]
    BY <1>0 DEF SetMany, DeleteMany, GetMany, BeginMany, Goto, TypeOK
  <1>3. TodoNow'[t] = batch'[t] /\ ViewNow'[t] = NoBatch
    BY <1>2 DEF TodoNow, ViewNow
  <1>4. TodoNow' = [TodoNow EXCEPT ![t] = batch'[t]] /\ ViewNow' = ViewNow
    BY <1>1, <1>3, BeginFrame
  <1>5. CASE pc'[t] = "get_many"
    <2>1. CallNow'[t] = "read"
      BY <1>5 DEF CallNow
    <2>2. PICK D \in SUBSET Pair : b \in [D -> Val]
      BY ConstantsAssumption
    <2>3. DOMAIN b \in SUBSET Atomic!Pair
      BY <2>2 DEF Atomic!Pair, Pair
    <2>4. Atomic!BeginRead(t)
      BY <1>1, <1>2, <1>4, <1>5, <2>1, <2>3, BeginFrame
         DEF Atomic!BeginRead, Atomic!Enter
    <2>5. QED
      BY <2>4 DEF AtomicStep, Atomic!Next
  <1>6. CASE pc'[t] # "get_many"
    <2>1. CallNow'[t] = "write"
      BY <1>2, <1>6 DEF CallNow
    <2>2. batch'[t] \in Atomic!Part
      BY <1>0, PartIsBatch DEF TypeOK
    <2>3. Atomic!BeginWrite(t)
      BY <1>1, <1>4, <2>1, <2>2, BeginFrame
         DEF Atomic!BeginWrite, Atomic!Enter
    <2>4. QED
      BY <2>3 DEF AtomicStep, Atomic!Next
  <1>7. QED
    BY <1>5, <1>6

LEMMA ClearSnapshotStep ==
  ASSUME RefInv, NEW t \in Thread, Clear(t) \/ Snapshot(t)
  PROVE  AtomicStep
  <1> USE DEF ManyPCs, EntryPCs, CapturePCs, LinkPCs
  <1>0. TypeOK
    BY DEF RefInv, IInv
  <1>1. Invoke(t) /\ pc[t] = "idle" /\ UNCHANGED <<data, locks, snaps, got>>
    BY DEF Clear, Snapshot, Call, Invoke, meta
  <1>2. pc'[t] \in {"clear", "snap_lock"}
    BY <1>0 DEF Clear, Snapshot, Goto, TypeOK
  <1>3. ViewNow'[t] = NoBatch
    BY <1>2 DEF ViewNow
  <1>4. ViewNow' = ViewNow
    BY <1>1, <1>3, BeginFrame
  <1>5. CASE pc'[t] = "clear"
    <2>1. CallNow'[t] = "write" /\ TodoNow'[t] = ToClear(idx'[t])
      BY <1>5 DEF CallNow, TodoNow, ToClear
    <2>2. ToClear(idx'[t]) \in Atomic!Part
      <3>1. ToClear(idx'[t]) \in [{q \in Pair : ShardOf[q[1]] >= idx'[t]} -> Entry]
        BY DEF ToClear, Entry
      <3>2. QED
        BY <3>1, BatchIntro, PartIsBatch
    <2>3. Atomic!BeginWrite(t)
      BY <1>1, <1>4, <2>1, <2>2, BeginFrame
         DEF Atomic!BeginWrite, Atomic!Enter
    <2>4. QED
      BY <2>3 DEF AtomicStep, Atomic!Next
  <1>6. CASE pc'[t] = "snap_lock"
    <2>1. CallNow'[t] = "snapshot" /\ TodoNow'[t] = NoBatch
      BY <1>6 DEF CallNow, TodoNow
    <2>2. TodoNow' = TodoNow
      BY <1>1, <2>1, BeginFrame
    <2>3. Atomic!BeginSnapshot(t)
      BY <1>1, <1>4, <2>1, <2>2, BeginFrame
         DEF Atomic!BeginSnapshot, Atomic!Enter
    <2>4. QED
      BY <2>3 DEF AtomicStep, Atomic!Next
  <1>7. QED
    BY <1>2, <1>5, <1>6

LEMMA RestoreStep ==
  ASSUME RefInv, NEW t \in Thread, NEW s \in snaps, Restore(t, s)
  PROVE  AtomicStep
  <1> USE DEF ManyPCs, EntryPCs, CapturePCs, LinkPCs
  <1>0. TypeOK
    BY DEF RefInv, IInv
  <1>1. Invoke(t) /\ pc[t] = "idle" /\ UNCHANGED <<data, locks, snaps, got>>
    BY DEF Restore, Call, Invoke, meta
  <1>2. pc'[t] = "restore_lock" /\ snap'[t] = s
    BY <1>0 DEF Restore, Goto, TypeOK
  <1>3. /\ CallNow'[t] = "restore" /\ TodoNow'[t] = NoBatch
        /\ ViewNow'[t] = TableOf(s.maps)
    BY <1>2 DEF CallNow, TodoNow, ViewNow, TableOf, Row
  <1>4. TodoNow' = TodoNow
    BY <1>1, <1>3, BeginFrame
  <1>5. TableOf(s.maps) \in ViewsNow
    BY DEF ViewsNow
  <1>6. Atomic!BeginRestore(t)
    BY <1>1, <1>3, <1>4, <1>5, BeginFrame DEF Atomic!BeginRestore, Atomic!Enter
  <1>7. QED
    BY <1>6 DEF AtomicStep, Atomic!Next

LEMMA ClearHistoryStep ==
  ASSUME RefInv, NEW t \in Thread, ClearHistory(t)
  PROVE  AtomicStep
  <1>1. /\ Invoke(t) /\ pc[t] = "idle" /\ UNCHANGED <<data, locks, snaps, got>>
        /\ pc'[t] = "idle"
    BY DEF ClearHistory, Call, Invoke, locals
  <1>2. /\ TableNow' = TableNow
        /\ CallNow[t] = "idle" /\ TodoNow[t] = NoBatch /\ ViewNow[t] = NoBatch
    BY <1>1, BeginFrame
  <1>3. CallNow'[t] = "idle" /\ TodoNow'[t] = NoBatch /\ ViewNow'[t] = NoBatch
    BY <1>1 DEF CallNow, TodoNow, ViewNow, ManyPCs, EntryPCs, CapturePCs, LinkPCs
  <1>4. UNCHANGED Atomic!vars
    BY <1>1, <1>2, <1>3, Stutter
  <1>5. QED
    BY <1>4 DEF AtomicStep

\* delete_namespace: Update with a whole namespace.
LEMMA DeleteNamespaceStep ==
  ASSUME RefInv, NEW t \in Thread, NEW n \in NS, DeleteNamespace(t, n)
  PROVE  AtomicStep
  <1> USE DEF ManyPCs, EntryPCs, CapturePCs, LinkPCs
  <1>0. TypeOK /\ Invoke(t) /\ pc[t] = "idle"
    BY DEF RefInv, IInv, DeleteNamespace, Call, Invoke
  <1>1. CallNow[t] = "idle" /\ TodoNow[t] = NoBatch /\ ViewNow[t] = NoBatch
    BY <1>0 DEF CallNow, TodoNow, ViewNow
  <1>2. pc'[t] \in {"idle", "count_freed"} /\ snaps' = snaps /\ got' = got
    BY <1>0 DEF DeleteNamespace, Goto, TypeOK, locals, meta
  <1>3. CallNow'[t] = "idle" /\ TodoNow'[t] = NoBatch /\ ViewNow'[t] = NoBatch
    BY <1>2 DEF CallNow, TodoNow, ViewNow
  <1>4. writer' = writer /\ \A i \in Shard : writer[i] # t
    BY <1>0, WritesNothing DEF DeleteNamespace, locks
  <1>5. CASE maps[n] = NoMap
    <2>1. TableNow' = TableNow
      BY <1>0, <1>4, <1>5, SameTable DEF DeleteNamespace
    <2>2. QED
      BY <1>0, <1>1, <1>2, <1>3, <2>1, Stutter DEF AtomicStep
  <1>6. CASE maps[n] # NoMap
    <2>1. /\ ShardOf[n] \in Shard /\ Unlocked(ShardOf[n])
          /\ maps'[n] = NoMap /\ \A x \in NS \ {n} : maps'[x] = maps[x]
      BY <1>0, <1>6, ConstantsAssumption DEF DeleteNamespace, TypeOK, Content
    <2>2. ASSUME NEW p \in Pair
          PROVE  TableNow'[p] = IF p[1] = n THEN Nil ELSE TableNow[p]
      <3>1. CASE p[1] = n
        <4>1. writer'[ShardOf[p[1]]] = NoThread
          BY <1>4, <2>1, <3>1 DEF Unlocked
        <4>2. QED
          BY <2>1, <3>1, <4>1, FreeRowNext DEF Row
      <3>2. CASE p[1] # n
        <4>1. maps'[p[1]] = maps[p[1]]
          BY <2>1, <3>2 DEF Pair
        <4>2. Row(maps', p[1], p[2]) = Row(maps, p[1], p[2])
          BY <4>1 DEF Row
        <4>3. QED
          BY <1>0, <1>4, <3>2, <4>2, FreeStep
      <3>3. QED
        BY <3>1, <3>2
    <2>3. TableNow' = [p \in Atomic!Pair |-> IF p[1] = n THEN Nil ELSE TableNow[p]]
      BY <2>2, TableDomain DEF Atomic!Pair, Pair
    <2>4. \A u \in Thread : pc[u] # "snap_clone"
      BY <2>1, NotCloning DEF Unlocked
    <2>5. CallNow' = CallNow /\ TodoNow' = TodoNow /\ ViewNow' = ViewNow
      BY <1>0, <1>1, <1>3, <2>4, OthersCall
    <2>6. ViewsNow' = ViewsNow
      BY <1>2 DEF ViewsNow, TableOf, Row
    <2>7. Atomic!Update(t, n)
      BY <1>1, <1>2, <2>3, <2>5, <2>6 DEF Atomic!Update
    <2>8. QED
      BY <2>7 DEF AtomicStep, Atomic!Next
  <1>7. QED
    BY <1>5, <1>6

-----------------------------------------------------------------------------
(* Batched writes and clear: the rows of a shard at once *)

\* The part of b that lies in shard i becomes visible.
LEMMA WriteSomeStep ==
  ASSUME RefInv, NEW t \in Thread, Continue(t), NEW i \in Shard, readers[i] = {},
         CallNow[t] = "write", CallNow'[t] = "write",
         ViewNow'[t] = ViewNow[t], got' = got, snaps' = snaps,
         NEW b \in Batch, TodoNow[t] = b,
         TodoNow'[t] = Without(b, Bucket(b, i)),
         \A p \in Pair :
           TableNow'[p] = IF p \in Bucket(b, i) THEN b[p] ELSE TableNow[p]
  PROVE  AtomicStep
  <1> DEFINE G == {n \in NS : ShardOf[n] = i}
             now == Atomic!InNamespaces(b, G)
  <1>1. now = Bucket(b, i) /\ DOMAIN b \subseteq Pair
    BY BatchElim DEF Atomic!InNamespaces, Bucket, Pair
  <1>2. \A u \in Thread : pc[u] # "snap_clone"
    BY NotCloning
  <1>3. /\ CallNow' = CallNow /\ ViewNow' = ViewNow
        /\ TodoNow' = [TodoNow EXCEPT ![t] = TodoNow'[t]]
    BY <1>2, OthersCall
  <1>4. ViewsNow' = ViewsNow
    BY DEF ViewsNow, TableOf, Row
  <1> HIDE DEF now
  <1>5. TableNow' = Atomic!Overlay(TableNow, [p \in now |-> b[p]])
    BY <1>1, TableDomain DEF Atomic!Overlay
  <1>6. TodoNow'[t] = [p \in DOMAIN TodoNow[t] \ now |-> TodoNow[t][p]]
    BY <1>1 DEF Without
  <1>7. TodoNow' = [TodoNow EXCEPT ![t] = [p \in DOMAIN @ \ now |-> @[p]]]
    BY <1>3, <1>6
  <1>8. G \in SUBSET NS
    OBVIOUS
  <1>9. Atomic!WriteSome(t)
    BY <1>3, <1>4, <1>5, <1>7, <1>8 DEF Atomic!WriteSome, now
  <1>10. QED
    BY <1>9 DEF AtomicStep, Atomic!Next

LEMMA LockBucketStep ==
  ASSUME RefInv, NEW t \in Thread, NEW i \in Shard, LockBucket(t, i)
  PROVE  AtomicStep
  <1> USE DEF ManyPCs, EntryPCs, CapturePCs, LinkPCs
  <1>0. TypeOK /\ Continue(t)
    BY DEF RefInv, IInv, Continue
  <1>1. /\ pc[t] \in ManyPCs /\ pc'[t] \in EntryPCs /\ idx'[t] = i
        /\ writer[i] = NoThread /\ readers[i] = {}
        /\ writer' = [writer EXCEPT ![i] = t]
        /\ UNCHANGED <<maps, batch, got, snaps>>
    BY <1>0 DEF LockBucket, Unlocked, HoldWrite, Goto, TypeOK, data, meta
  <1>2. batch[t] \in Batch
    BY <1>0 DEF TypeOK
  <1>3. ASSUME NEW p \in Pair
        PROVE  TableNow'[p] = IF p \in Bucket(batch[t], i) THEN batch[t][p]
                              ELSE TableNow[p]
    <2>1. p[1] \in NS /\ ShardOf[p[1]] \in Shard
      BY ConstantsAssumption DEF Pair
    <2>2. CASE ShardOf[p[1]] = i
      <3>1. TableNow[p] = Row(maps, p[1], p[2])
        BY <1>1, <2>2, FreeRow
      <3>2. writer'[ShardOf[p[1]]] = t /\ t # NoThread
        BY <1>0, <1>1, <2>2, ConstantsAssumption DEF TypeOK
      <3>3. TableNow'[p] = IF p \in DOMAIN batch[t] THEN batch[t][p]
                           ELSE Row(maps, p[1], p[2])
        BY <1>1, <3>2 DEF TableNow, Row
      <3>4. QED
        BY <2>2, <3>1, <3>3 DEF Bucket
    <2>3. CASE ShardOf[p[1]] # i
      <3>1. p \notin Bucket(batch[t], i)
        BY <2>3 DEF Bucket
      <3>2. writer'[ShardOf[p[1]]] = writer[ShardOf[p[1]]]
        BY <1>0, <1>1, <2>1, <2>3 DEF TypeOK
      <3>3. writer[ShardOf[p[1]]] # t
        BY <1>1, <2>1, WritesNothing
      <3>4. CASE writer[ShardOf[p[1]]] = NoThread
        BY <1>1, <3>1, <3>2, <3>4, FreeRow, FreeRowNext
      <3>5. CASE writer[ShardOf[p[1]]] # NoThread
        BY <1>0, <3>1, <3>2, <3>3, <3>5, OthersRow
      <3>6. QED
        BY <3>4, <3>5
    <2>4. QED
      BY <2>2, <2>3
  <1>4. /\ CallNow[t] = "write" /\ CallNow'[t] = "write"
        /\ ViewNow[t] = NoBatch /\ ViewNow'[t] = NoBatch
    BY <1>1 DEF CallNow, ViewNow
  <1>5. TodoNow[t] = batch[t] /\ TodoNow'[t] = Without(batch[t], Bucket(batch[t], i))
    BY <1>1 DEF TodoNow, Without, Bucket
  <1>6. QED
    BY <1>0, <1>1, <1>2, <1>3, <1>4, <1>5, WriteSomeStep

\* Writing an entry changes nothing: the row was visible from the lock on.
LEMMA EntryStep ==
  ASSUME RefInv, NEW t \in Thread, NEW p \in DOMAIN batch[t],
         SetEntry(t, p) \/ DeleteEntry(t, p)
  PROVE  AtomicStep
  <1> USE DEF ManyPCs, EntryPCs, CapturePCs, LinkPCs
  <1>0. TypeOK /\ Continue(t) /\ batch[t] \in Batch /\ maps \in Content
    BY DEF RefInv, IInv, Continue, TypeOK
  <1>1. /\ pc[t] \in EntryPCs /\ p \in Bucket(batch[t], idx[t])
        /\ UNCHANGED <<writer, pc, idx, got, snaps>>
        /\ batch'[t] = Without(batch[t], {p})
    BY <1>0 DEF SetEntry, DeleteEntry, TypeOK, locks, meta
  <1>2. /\ p \in Pair /\ p[1] \in NS /\ p[2] \in Key /\ p = <<p[1], p[2]>>
        /\ batch[t][p] \in Entry
    BY <1>0, BatchElim DEF Pair
  <1>3. \A x \in NS, y \in Key : Row(maps', x, y)
            = IF x = p[1] /\ y = p[2] THEN batch[t][p] ELSE Row(maps, x, y)
    <2>1. CASE SetEntry(t, p)
      BY <1>0, <1>2, <2>1, InsertRow DEF SetEntry
    <2>2. CASE DeleteEntry(t, p)
      <3>1. batch[t][p] = Nil
        BY <2>2 DEF DeleteEntry, RefInv, NoValues
      <3>2. QED
        BY <1>0, <1>2, <2>2, <3>1, RemoveRow DEF DeleteEntry
    <2>3. QED
      BY <2>1, <2>2
  <1>4. ASSUME NEW q \in Pair
        PROVE  TableNow'[q] = TableNow[q]
    <2>1. q[1] \in NS /\ q[2] \in Key /\ q = <<q[1], q[2]>> /\ ShardOf[q[1]] \in Shard
      BY ConstantsAssumption DEF Pair
    <2>2. Row(maps', q[1], q[2]) = IF q = p THEN batch[t][p] ELSE Row(maps, q[1], q[2])
      BY <1>2, <1>3, <2>1
    <2>3. CASE writer[ShardOf[q[1]]] = t
      <3>1. t # NoThread /\ writer'[ShardOf[q[1]]] = t
        BY <1>1, <2>3, ConstantsAssumption
      <3>2. TableNow[q] = IF q \in DOMAIN batch[t] THEN batch[t][q]
                          ELSE Row(maps, q[1], q[2])
        BY <1>1, <2>3, <3>1 DEF TableNow
      <3>3. TableNow'[q] = IF q \in DOMAIN batch'[t] THEN batch'[t][q]
                           ELSE Row(maps', q[1], q[2])
        BY <1>1, <2>3, <3>1 DEF TableNow, Row
      <3>4. QED
        BY <1>1, <2>2, <3>2, <3>3 DEF Without
    <2>4. CASE writer[ShardOf[q[1]]] # t
      <3>1. writer[idx[t]] = t
        BY <1>0, <1>1 DEF RefInv, IInv, LockInv, HoldsWrite, TypeOK
      <3>2. q # p
        BY <1>1, <2>4, <3>1 DEF Bucket
      <3>3. CASE writer[ShardOf[q[1]]] = NoThread
        BY <1>1, <2>2, <3>2, <3>3, FreeRow, FreeRowNext
      <3>4. CASE writer[ShardOf[q[1]]] # NoThread
        BY <1>0, <1>1, <2>4, <3>4, OthersRow
      <3>5. QED
        BY <3>3, <3>4
    <2>5. QED
      BY <2>3, <2>4
  <1>5. TableNow' = TableNow
    BY <1>4, TableDomain
  <1>6. /\ CallNow'[t] = CallNow[t] /\ ViewNow'[t] = ViewNow[t]
    BY <1>1 DEF CallNow, ViewNow
  <1>7. TodoNow'[t] = TodoNow[t]
    <2>1. Without(batch'[t], Bucket(batch'[t], idx[t]))
            = Without(batch[t], Bucket(batch[t], idx[t]))
      BY <1>1 DEF Without, Bucket
    <2>2. /\ TodoNow[t] = Without(batch[t], Bucket(batch[t], idx[t]))
          /\ TodoNow'[t] = Without(batch'[t], Bucket(batch'[t], idx[t]))
      BY <1>1 DEF TodoNow, Without, Bucket
    <2>3. QED
      BY <2>1, <2>2
  <1>8. QED
    BY <1>0, <1>1, <1>5, <1>6, <1>7, Stutter DEF AtomicStep

LEMMA UnlockBucketStep ==
  ASSUME RefInv, NEW t \in Thread, UnlockBucket(t)
  PROVE  AtomicStep
  <1> USE DEF ManyPCs, EntryPCs, CapturePCs, LinkPCs
  <1>0. TypeOK /\ Continue(t) /\ batch[t] \in Batch /\ idx[t] \in Shard
    BY DEF RefInv, IInv, Continue, TypeOK
  <1>1. /\ pc[t] \in EntryPCs /\ Bucket(batch[t], idx[t]) = {}
        /\ writer' = [writer EXCEPT ![idx[t]] = NoThread]
        /\ UNCHANGED <<maps, snaps>>
    BY DEF UnlockBucket, meta
  <1>2. ASSUME NEW p \in Pair
        PROVE  TableNow'[p] = TableNow[p]
    <2>1. p[1] \in NS /\ ShardOf[p[1]] \in Shard
      BY ConstantsAssumption DEF Pair
    <2>2. CASE ShardOf[p[1]] = idx[t]
      <3>1. writer[ShardOf[p[1]]] = t /\ writer'[ShardOf[p[1]]] = NoThread
        BY <1>0, <1>1, <2>2 DEF RefInv, IInv, LockInv, HoldsWrite, TypeOK
      <3>2. p \notin DOMAIN batch[t]
        BY <1>1, <2>2 DEF Bucket
      <3>3. TableNow[p] = Row(maps, p[1], p[2])
        BY <1>1, <3>1, <3>2 DEF TableNow
      <3>4. QED
        BY <1>1, <3>1, <3>3, FreeRowNext
    <2>3. CASE ShardOf[p[1]] # idx[t]
      <3>1. writer'[ShardOf[p[1]]] = writer[ShardOf[p[1]]]
        BY <1>0, <1>1, <2>1, <2>3 DEF TypeOK
      <3>2. writer[ShardOf[p[1]]] # t
        BY <1>1, <2>1, <2>3 DEF RefInv, IInv, LockInv, HoldsWrite
      <3>3. CASE writer[ShardOf[p[1]]] = NoThread
        BY <1>1, <3>1, <3>3, FreeRow, FreeRowNext
      <3>4. CASE writer[ShardOf[p[1]]] # NoThread
        BY <1>0, <3>1, <3>2, <3>4, OthersRow
      <3>5. QED
        BY <3>3, <3>4
    <2>4. QED
      BY <2>2, <2>3
  <1>3. TableNow' = TableNow
    BY <1>2, TableDomain
  <1>4. CallNow[t] = "write" /\ TodoNow[t] = batch[t] /\ ViewNow[t] = NoBatch
    <2>1. TodoNow[t] = Without(batch[t], {})
      BY <1>1 DEF TodoNow
    <2>2. Without(batch[t], {}) = batch[t]
      BY <1>0, BatchElim DEF Without
    <2>3. QED
      BY <1>1, <2>1, <2>2 DEF CallNow, ViewNow
  <1>5. CASE DOMAIN batch[t] = {}
    <2>1. Return(t)
      BY <1>5 DEF UnlockBucket
    <2>2. pc'[t] = "idle" /\ got' = [got EXCEPT ![t] = NoBatch]
      BY <1>0, <2>1 DEF Return, Goto, TypeOK
    <2>3. CallNow'[t] = "idle" /\ TodoNow'[t] = NoBatch /\ ViewNow'[t] = NoBatch
      BY <2>2 DEF CallNow, TodoNow, ViewNow
    <2>4. /\ CallNow' = [CallNow EXCEPT ![t] = "idle"]
          /\ TodoNow' = [TodoNow EXCEPT ![t] = NoBatch]
          /\ ViewNow' = [ViewNow EXCEPT ![t] = NoBatch]
      BY <1>0, <1>3, <2>3, OthersCall
    <2>5. ViewsNow' = ViewsNow
      BY <1>1 DEF ViewsNow, TableOf, Row
    <2>6. Atomic!EndWrite(t)
      BY <1>3, <1>4, <1>5, <2>2, <2>4, <2>5
         DEF Atomic!EndWrite, Atomic!Leave, Atomic!None, NoBatch
    <2>7. QED
      BY <2>6 DEF AtomicStep, Atomic!Next
  <1>6. CASE DOMAIN batch[t] # {}
    <2>1. /\ pc'[t] \in ManyPCs
          /\ UNCHANGED <<batch, got, snap>>
      BY <1>0, <1>1, <1>6 DEF UnlockBucket, Goto, TypeOK
    <2>2. CallNow'[t] = "write" /\ TodoNow'[t] = batch[t] /\ ViewNow'[t] = NoBatch
      BY <2>1 DEF CallNow, TodoNow, ViewNow
    <2>3. QED
      BY <1>0, <1>1, <1>3, <1>4, <2>1, <2>2, Stutter DEF AtomicStep
  <1>7. QED
    BY <1>5, <1>6

LEMMA ClearShardStep ==
  ASSUME RefInv, NEW t \in Thread, ClearShard(t)
  PROVE  AtomicStep
  <1> USE DEF ManyPCs, EntryPCs, CapturePCs, LinkPCs
  <1>0. TypeOK /\ Continue(t) /\ idx[t] \in Shard
    BY DEF RefInv, IInv, Continue, TypeOK
  <1> DEFINE b == ToClear(idx[t])
  <1>1. /\ pc[t] = "clear" /\ pc'[t] = "clear_bytes" /\ idx' = idx
        /\ writer[idx[t]] = NoThread /\ readers[idx[t]] = {}
        /\ maps' = [n \in NS |-> IF ShardOf[n] = idx[t] THEN NoMap ELSE maps[n]]
        /\ UNCHANGED <<writer, got, snaps>>
    BY <1>0 DEF ClearShard, Unlocked, Goto, TypeOK, locks, meta
  <1>2. b \in Batch
    <2>1. b \in [{q \in Pair : ShardOf[q[1]] >= idx[t]} -> Entry]
      BY DEF ToClear, Entry
    <2>2. QED
      BY <2>1, BatchIntro
  <1>3. Bucket(b, idx[t]) = {q \in Pair : ShardOf[q[1]] = idx[t]}
    <2>1. \A q \in Pair : ShardOf[q[1]] = idx[t] => ShardOf[q[1]] >= idx[t]
      BY <1>0, ConstantsAssumption DEF Shard
    <2>2. QED
      BY <2>1 DEF Bucket, ToClear
  <1>4. ASSUME NEW p \in Pair
        PROVE  TableNow'[p] = IF p \in Bucket(b, idx[t]) THEN b[p] ELSE TableNow[p]
    <2>1. p[1] \in NS
      BY DEF Pair
    <2>2. CASE ShardOf[p[1]] = idx[t]
      <3>1. TableNow'[p] = Nil
        BY <1>1, <2>1, <2>2, FreeRowNext DEF Row
      <3>2. b[p] = Nil
        BY <1>3, <2>2 DEF ToClear, Bucket
      <3>3. QED
        BY <1>3, <2>2, <3>1, <3>2
    <2>3. CASE ShardOf[p[1]] # idx[t]
      <3>1. Row(maps', p[1], p[2]) = Row(maps, p[1], p[2])
        BY <1>1, <2>1, <2>3 DEF Row
      <3>2. TableNow'[p] = TableNow[p]
        BY <1>0, <1>1, <3>1, FreeStep, WritesNothing
      <3>3. QED
        BY <1>3, <2>3, <3>2
    <2>4. QED
      BY <2>2, <2>3
  <1>5. /\ CallNow[t] = "write" /\ CallNow'[t] = "write"
        /\ ViewNow[t] = NoBatch /\ ViewNow'[t] = NoBatch
    BY <1>1 DEF CallNow, ViewNow
  <1>6. TodoNow[t] = b /\ TodoNow'[t] = ToClear(idx[t] + 1)
    BY <1>1 DEF TodoNow, ToClear
  <1>7. ToClear(idx[t] + 1) = Without(b, Bucket(b, idx[t]))
    <2>1. {q \in Pair : ShardOf[q[1]] >= idx[t] + 1}
            = {q \in Pair : ShardOf[q[1]] >= idx[t]} \ Bucket(b, idx[t])
      <3>1. \A q \in Pair : /\ ShardOf[q[1]] \in Int /\ idx[t] \in Int
                            /\ ShardOf[q[1]] >= idx[t] + 1
                                 <=> ShardOf[q[1]] >= idx[t] /\ ShardOf[q[1]] # idx[t]
        BY <1>0, ConstantsAssumption, SMTT(60) DEF Shard, Pair
      <3>2. QED
        BY <1>3, <3>1
    <2>2. QED
      BY <2>1 DEF ToClear, Without
  <1> HIDE DEF b
  <1>8. QED
    BY <1>0, <1>1, <1>2, <1>4, <1>5, <1>6, <1>7, WriteSomeStep

LEMMA ZeroBytesStep ==
  ASSUME RefInv, NEW t \in Thread, ZeroBytes(t)
  PROVE  AtomicStep
  <1> USE DEF ManyPCs, EntryPCs, CapturePCs, LinkPCs
  <1>0. TypeOK /\ Continue(t) /\ idx[t] \in Shard
    BY DEF RefInv, IInv, Continue, TypeOK
  <1>1. pc[t] = "clear_bytes" /\ UNCHANGED <<maps, writer, snaps>>
    BY DEF ZeroBytes, locks, meta
  <1>2. TableNow' = TableNow
    BY <1>0, <1>1, SameTable, WritesNothing
  <1>3. CallNow[t] = "write" /\ TodoNow[t] = ToClear(idx[t] + 1) /\ ViewNow[t] = NoBatch
    BY <1>1 DEF CallNow, TodoNow, ViewNow
  <1>4. CASE LastShard(t)
    <2>1. Return(t)
      BY <1>4 DEF ZeroBytes
    <2>2. pc'[t] = "idle" /\ got' = [got EXCEPT ![t] = NoBatch]
      BY <1>0, <2>1 DEF Return, Goto, TypeOK
    <2>3. CallNow'[t] = "idle" /\ TodoNow'[t] = NoBatch /\ ViewNow'[t] = NoBatch
      BY <2>2 DEF CallNow, TodoNow, ViewNow
    <2>4. /\ CallNow' = [CallNow EXCEPT ![t] = "idle"]
          /\ TodoNow' = [TodoNow EXCEPT ![t] = NoBatch]
          /\ ViewNow' = [ViewNow EXCEPT ![t] = NoBatch]
      BY <1>0, <1>2, <2>3, OthersCall
    <2>5. DOMAIN TodoNow[t] = {}
      <3>1. \A q \in Pair : ~(ShardOf[q[1]] >= idx[t] + 1)
        BY <1>0, <1>4, ConstantsAssumption DEF LastShard, Shard, Pair
      <3>2. QED
        BY <1>3, <3>1 DEF ToClear
    <2>6. ViewsNow' = ViewsNow
      BY <1>1 DEF ViewsNow, TableOf, Row
    <2>7. Atomic!EndWrite(t)
      BY <1>2, <1>3, <2>2, <2>4, <2>5, <2>6
         DEF Atomic!EndWrite, Atomic!Leave, Atomic!None, NoBatch
    <2>8. QED
      BY <2>7 DEF AtomicStep, Atomic!Next
  <1>5. CASE ~LastShard(t)
    <2>1. pc'[t] = "clear" /\ idx'[t] = idx[t] + 1 /\ got' = got
      BY <1>0, <1>5 DEF ZeroBytes, Goto, TypeOK
    <2>2. /\ CallNow'[t] = "write" /\ TodoNow'[t] = ToClear(idx[t] + 1)
          /\ ViewNow'[t] = NoBatch
      BY <2>1 DEF CallNow, TodoNow, ViewNow, ToClear
    <2>3. QED
      BY <1>0, <1>1, <1>2, <1>3, <2>1, <2>2, Stutter DEF AtomicStep
  <1>6. QED
    BY <1>4, <1>5

-----------------------------------------------------------------------------
(* Batched reads, and the bytes delete_namespace counts afterwards *)

LEMMA ReadBucketStep ==
  ASSUME RefInv, NEW t \in Thread, NEW i \in Shard, ReadBucket(t, i)
  PROVE  AtomicStep
  <1> USE DEF ManyPCs, EntryPCs, CapturePCs, LinkPCs
  <1>0. TypeOK /\ Continue(t) /\ batch[t] \in Batch /\ got[t] \in Batch
    BY DEF RefInv, IInv, Continue, TypeOK
  <1> DEFINE b == batch[t]
             G == {n \in NS : ShardOf[n] = i}
             now == Atomic!InNamespaces(b, G)
  <1>1. /\ pc[t] = "get_many" /\ pc'[t] = "get_many" /\ writer[i] = NoThread
        /\ batch'[t] = Without(b, Bucket(b, i))
        /\ UNCHANGED <<maps, writer, snaps>>
        /\ got' = [got EXCEPT ![t] =
                     [p \in DOMAIN @ \cup Bucket(b, i) |->
                        IF p \in DOMAIN @ THEN @[p] ELSE Row(maps, p[1], p[2])]]
    BY <1>0 DEF ReadBucket, Readable, TypeOK, data, locks, meta
  <1>2. now = Bucket(b, i) /\ DOMAIN b \subseteq Pair
    BY <1>0, BatchElim DEF Atomic!InNamespaces, Bucket, Pair
  <1>3. TableNow' = TableNow
    BY <1>0, <1>1, SameTable, WritesNothing
  <1>4. \A p \in Bucket(b, i) : Row(maps, p[1], p[2]) = TableNow[p]
    BY <1>1, <1>2, FreeRow DEF Bucket
  <1>5. /\ CallNow[t] = "read" /\ CallNow'[t] = "read"
        /\ ViewNow[t] = NoBatch /\ ViewNow'[t] = NoBatch
        /\ TodoNow[t] = b /\ TodoNow'[t] = Without(b, Bucket(b, i))
    BY <1>1 DEF CallNow, ViewNow, TodoNow
  <1>6. /\ CallNow' = CallNow /\ ViewNow' = ViewNow
        /\ TodoNow' = [TodoNow EXCEPT ![t] = Without(b, Bucket(b, i))]
    BY <1>0, <1>3, <1>5, OthersCall
  <1>7. ViewsNow' = ViewsNow
    BY <1>1 DEF ViewsNow, TableOf, Row
  <1> HIDE DEF now, b
  <1>8. TodoNow' = [TodoNow EXCEPT ![t] = [p \in DOMAIN @ \ now |-> @[p]]]
    BY <1>2, <1>5, <1>6 DEF Without
  <1>9. got' = [got EXCEPT ![t] =
                  [p \in DOMAIN @ \cup now |->
                     IF p \in DOMAIN @ THEN @[p] ELSE TableNow[p]]]
    <2>1. [p \in DOMAIN got[t] \cup Bucket(b, i) |->
             IF p \in DOMAIN got[t] THEN got[t][p] ELSE Row(maps, p[1], p[2])]
          = [p \in DOMAIN got[t] \cup now |->
               IF p \in DOMAIN got[t] THEN got[t][p] ELSE TableNow[p]]
      BY <1>2, <1>4
    <2>2. QED
      BY <1>1, <2>1
  <1>10. G \in SUBSET NS
    OBVIOUS
  <1>11. now = Atomic!InNamespaces(TodoNow[t], G)
    BY <1>5 DEF now
  <1>12. Atomic!ReadSome(t)
    BY <1>3, <1>5, <1>6, <1>7, <1>8, <1>9, <1>10, <1>11 DEF Atomic!ReadSome
  <1>13. QED
    BY <1>12 DEF AtomicStep, Atomic!Next

LEMMA GetManyReturnStep ==
  ASSUME RefInv, NEW t \in Thread, GetManyReturn(t)
  PROVE  AtomicStep
  <1> USE DEF ManyPCs, EntryPCs, CapturePCs, LinkPCs
  <1>0. TypeOK /\ Continue(t)
    BY DEF RefInv, IInv, Continue
  <1>1. /\ pc[t] = "get_many" /\ DOMAIN batch[t] = {} /\ pc'[t] = "idle"
        /\ UNCHANGED <<maps, writer, snaps>>
        /\ got' = [got EXCEPT ![t] = NoBatch]
    BY <1>0 DEF GetManyReturn, Return, Goto, TypeOK, data, locks, meta
  <1>2. TableNow' = TableNow
    BY <1>0, <1>1, SameTable, WritesNothing
  <1>3. /\ CallNow[t] = "read" /\ CallNow'[t] = "idle"
        /\ TodoNow[t] = batch[t] /\ TodoNow'[t] = NoBatch /\ ViewNow'[t] = NoBatch
    BY <1>1 DEF CallNow, ViewNow, TodoNow
  <1>4. /\ CallNow' = [CallNow EXCEPT ![t] = "idle"]
        /\ TodoNow' = [TodoNow EXCEPT ![t] = NoBatch]
        /\ ViewNow' = [ViewNow EXCEPT ![t] = NoBatch]
    BY <1>0, <1>2, <1>3, OthersCall
  <1>5. ViewsNow' = ViewsNow
    BY <1>1 DEF ViewsNow, TableOf, Row
  <1>6. Atomic!EndRead(t)
    BY <1>1, <1>2, <1>3, <1>4, <1>5
       DEF Atomic!EndRead, Atomic!Leave, Atomic!None, NoBatch
  <1>7. QED
    BY <1>6 DEF AtomicStep, Atomic!Next

LEMMA FreedStep ==
  ASSUME RefInv, NEW t \in Thread,
         SubFreed(t) \/ \E p \in DOMAIN batch[t] : CountFreed(t, p)
  PROVE  AtomicStep
  <1> USE DEF ManyPCs, EntryPCs, CapturePCs, LinkPCs
  <1>0. TypeOK /\ Continue(t)
    BY DEF RefInv, IInv, Continue
  <1>1. /\ pc[t] = "count_freed" /\ pc'[t] \in {"count_freed", "idle"}
        /\ UNCHANGED <<maps, writer, snaps>>
        /\ got' = got \/ got' = [got EXCEPT ![t] = NoBatch]
    BY <1>0 DEF SubFreed, CountFreed, Return, Goto, TypeOK, data, locks, meta
  <1>2. got' = got
    BY <1>0, <1>1 DEF RefInv, NothingRead, TypeOK
  <1>3. TableNow' = TableNow
    BY <1>0, <1>1, SameTable, WritesNothing
  <1>4. /\ CallNow[t] = "idle" /\ CallNow'[t] = "idle"
        /\ TodoNow[t] = NoBatch /\ TodoNow'[t] = NoBatch
        /\ ViewNow[t] = NoBatch /\ ViewNow'[t] = NoBatch
    BY <1>1 DEF CallNow, ViewNow, TodoNow
  <1>5. QED
    BY <1>0, <1>1, <1>2, <1>3, <1>4, Stutter DEF AtomicStep

-----------------------------------------------------------------------------
(* Snapshots: the capture is the moment the last read lock is obtained *)

\* While a snapshot clones, the maps are the table.
LEMMA ClonedTable ==
  ASSUME RefInv, NEW t \in Thread, pc[t] \in CapturePCs
  PROVE  TableNow = TableOf(maps)
  <1>1. \A p \in Pair : ShardOf[p[1]] \in Shard
    BY ConstantsAssumption DEF Pair
  <1>2. \A i \in Shard : t \in readers[i]
    BY DEF RefInv, IInv, LockInv, HoldsRead
  <1>3. \A i \in Shard : writer[i] = NoThread
    BY <1>2 DEF RefInv, IInv, LockInv
  <1>4. \A p \in Pair : TableNow[p] = Row(maps, p[1], p[2])
    BY <1>1, <1>3, FreeRow
  <1>5. QED
    BY <1>4, TableDomain DEF TableOf

LEMMA CaptureStep ==
  ASSUME RefInv, NEW t \in Thread, LockForRead(t)
  PROVE  AtomicStep
  <1> USE DEF ManyPCs, EntryPCs, CapturePCs, LinkPCs
  <1>0. TypeOK /\ Continue(t)
    BY DEF RefInv, IInv, Continue
  <1>1. /\ pc[t] = "snap_lock" /\ UNCHANGED <<maps, writer, snaps, got>>
        /\ pc'[t] = IF LastShard(t) THEN "snap_clone" ELSE "snap_lock"
    BY <1>0 DEF LockForRead, Advance, Goto, TypeOK, data, meta
  <1>2. TableNow' = TableNow
    BY <1>0, <1>1, SameTable, WritesNothing
  <1>3. CallNow[t] = "snapshot" /\ TodoNow[t] = NoBatch /\ ViewNow[t] = NoBatch
    BY <1>1 DEF CallNow, ViewNow, TodoNow
  <1>4. CASE LastShard(t)
    <2>1. pc'[t] = "snap_clone"
      BY <1>1, <1>4
    <2>2. CallNow'[t] = "captured" /\ TodoNow'[t] = NoBatch /\ ViewNow'[t] = TableNow'
      BY <2>1 DEF CallNow, ViewNow, TodoNow
    <2>3. /\ CallNow' = [CallNow EXCEPT ![t] = "captured"]
          /\ ViewNow' = [ViewNow EXCEPT ![t] = TableNow]
          /\ TodoNow' = TodoNow
      BY <1>0, <1>2, <1>3, <2>2, OthersCall
    <2>4. ViewsNow' = ViewsNow
      BY <1>1 DEF ViewsNow, TableOf, Row
    <2>5. Atomic!Capture(t)
      BY <1>1, <1>2, <1>3, <2>3, <2>4 DEF Atomic!Capture
    <2>6. QED
      BY <2>5 DEF AtomicStep, Atomic!Next
  <1>5. CASE ~LastShard(t)
    <2>1. CallNow'[t] = "snapshot" /\ TodoNow'[t] = NoBatch /\ ViewNow'[t] = NoBatch
      BY <1>1, <1>5 DEF CallNow, ViewNow, TodoNow
    <2>2. QED
      BY <1>0, <1>1, <1>2, <1>3, <2>1, Stutter DEF AtomicStep
  <1>6. QED
    BY <1>4, <1>5

LEMMA CloneStep ==
  ASSUME RefInv, NEW t \in Thread,
         \/ CloneShard(t) \/ LoadBytes(t) \/ DropReadGuards(t)
         \/ TakeId(t) \/ LinkParent(t)
  PROVE  AtomicStep
  <1> USE DEF ManyPCs, EntryPCs, CapturePCs, LinkPCs
  <1>0. TypeOK /\ Continue(t) /\ Next
    BY DEF RefInv, IInv, Continue, Next
  <1>1. /\ pc[t] \in {"snap_clone", "snap_load", "snap_drop", "snap_id", "snap_parent"}
        /\ UNCHANGED <<maps, writer, snaps, got>>
        /\ pc'[t] \in {"snap_clone", "snap_load", "snap_drop"} \cup LinkPCs
    BY <1>0 DEF CloneShard, LoadBytes, DropReadGuards, TakeId, LinkParent,
       Advance, Goto, TypeOK, data, locks, meta
  <1>2. TableNow' = TableNow
    BY <1>0, <1>1, SameTable, WritesNothing
  <1>3. /\ CallNow[t] = "captured" /\ TodoNow[t] = NoBatch
        /\ CallNow'[t] = "captured" /\ TodoNow'[t] = NoBatch
    BY <1>1 DEF CallNow, TodoNow
  <1>4. ViewNow'[t] = ViewNow[t]
    <2>1. CASE CloneShard(t)
      <3>1. pc[t] = "snap_clone" /\ pc'[t] \in {"snap_clone", "snap_load"}
        BY <1>0, <2>1 DEF CloneShard, Advance, Goto, TypeOK
      <3>2. ViewNow[t] = TableNow
        BY <3>1 DEF ViewNow
      <3>3. CASE pc'[t] = "snap_clone"
        BY <1>2, <3>2, <3>3 DEF ViewNow
      <3>4. CASE pc'[t] = "snap_load"
        <4>1. Cloned(t)'
          BY <1>0, GuardNext DEF RefInv
        <4>2. snap'[t].maps = maps
          BY <1>1, <3>4, <4>1 DEF Cloned
        <4>3. ViewNow'[t] = TableOf(maps)
          BY <3>4, <4>2 DEF ViewNow, TableOf, Row
        <4>4. QED
          BY <3>1, <3>2, <4>3, ClonedTable
      <3>5. QED
        BY <3>1, <3>3, <3>4
    <2>2. CASE ~CloneShard(t)
      <3>1. /\ pc[t] \in {"snap_load", "snap_drop", "snap_id", "snap_parent"}
            /\ pc'[t] \in {"snap_load", "snap_drop"} \cup LinkPCs
        BY <1>0, <2>2 DEF LoadBytes, DropReadGuards, TakeId, LinkParent,
           Advance, Goto, TypeOK
      <3>2. snap'[t].maps = snap[t].maps
        BY <1>0, <2>2 DEF LoadBytes, DropReadGuards, TakeId, LinkParent, TypeOK,
           SnapshotData
      <3>3. QED
        BY <3>1, <3>2 DEF ViewNow, TableOf, Row
    <2>3. QED
      BY <2>1, <2>2
  <1>5. QED
    BY <1>0, <1>1, <1>2, <1>3, <1>4, Stutter DEF AtomicStep

LEMMA PushStep ==
  ASSUME RefInv, NEW t \in Thread, PushHistory(t)
  PROVE  AtomicStep
  <1> USE DEF ManyPCs, EntryPCs, CapturePCs, LinkPCs
  <1>0. TypeOK /\ Continue(t)
    BY DEF RefInv, IInv, Continue
  <1>1. /\ pc[t] = "snap_push" /\ pc'[t] = "idle"
        /\ UNCHANGED <<maps, writer>>
        /\ snaps' = snaps \cup {snap[t]}
        /\ got' = [got EXCEPT ![t] = NoBatch]
    BY <1>0 DEF PushHistory, Return, Goto, TypeOK, data, locks
  <1>2. TableNow' = TableNow
    BY <1>0, <1>1, SameTable, WritesNothing
  <1>3. /\ CallNow[t] = "captured" /\ ViewNow[t] = TableOf(snap[t].maps)
        /\ CallNow'[t] = "idle" /\ TodoNow'[t] = NoBatch /\ ViewNow'[t] = NoBatch
    BY <1>1 DEF CallNow, TodoNow, ViewNow
  <1>4. /\ CallNow' = [CallNow EXCEPT ![t] = "idle"]
        /\ TodoNow' = [TodoNow EXCEPT ![t] = NoBatch]
        /\ ViewNow' = [ViewNow EXCEPT ![t] = NoBatch]
    BY <1>0, <1>2, <1>3, OthersCall
  <1>5. ViewsNow' = ViewsNow \cup {ViewNow[t]}
    <2>1. ViewsNow' = {TableOf(s.maps) : s \in snaps'}
      BY DEF ViewsNow, TableOf, Row
    <2>2. QED
      BY <1>1, <1>3, <2>1 DEF ViewsNow
  <1>6. Atomic!EndSnapshot(t)
    BY <1>1, <1>2, <1>3, <1>4, <1>5
       DEF Atomic!EndSnapshot, Atomic!Leave, Atomic!None, NoBatch
  <1>7. QED
    BY <1>6 DEF AtomicStep, Atomic!Next

-----------------------------------------------------------------------------
(* Restores: the table changes when the last write lock is obtained *)

LEMMA InstallStep ==
  ASSUME RefInv, NEW t \in Thread, LockForWrite(t)
  PROVE  AtomicStep
  <1> USE DEF ManyPCs, EntryPCs, CapturePCs, LinkPCs
  <1>0. TypeOK /\ Continue(t) /\ Next /\ idx[t] \in Shard
    BY DEF RefInv, IInv, Continue, Next, TypeOK
  <1>1. /\ pc[t] = "restore_lock" /\ UNCHANGED <<maps, snaps, snap, got, batch>>
        /\ pc'[t] = IF LastShard(t) THEN "restore_write" ELSE "restore_lock"
        /\ writer' = [writer EXCEPT ![idx[t]] = t]
        /\ writer[idx[t]] = NoThread /\ readers[idx[t]] = {}
    BY <1>0 DEF LockForWrite, Unlocked, HoldWrite, Advance, Goto, TypeOK, data, meta
  <1>2. /\ CallNow[t] = "restore" /\ TodoNow[t] = NoBatch
        /\ ViewNow[t] = TableOf(snap[t].maps)
        /\ TodoNow'[t] = NoBatch /\ ViewNow'[t] = TableOf(snap[t].maps)
    BY <1>1 DEF CallNow, ViewNow, TodoNow, TableOf, Row
  <1>3. CASE LastShard(t)
    <2>1. pc'[t] = "restore_write"
      BY <1>1, <1>3
    <2>2. \A i \in Shard : writer'[i] = t
      <3>1. LockInv'
        BY <1>0, LockNext DEF RefInv, IInv
      <3>2. QED
        BY <2>1, <3>1 DEF LockInv, HoldsWrite
    <2>3. ASSUME NEW p \in Pair
          PROVE  TableNow'[p] = Row(snap[t].maps, p[1], p[2])
      <3>1. ShardOf[p[1]] \in Shard
        BY ConstantsAssumption DEF Pair
      <3>2. writer'[ShardOf[p[1]]] = t /\ t # NoThread
        BY <2>2, <3>1, ConstantsAssumption
      <3>3. QED
        BY <1>1, <2>1, <3>2 DEF TableNow, Row
    <2>4. TableNow' = ViewNow[t]
      BY <1>2, <2>3, TableDomain DEF TableOf
    <2>5. CallNow'[t] = "installed"
      BY <2>1 DEF CallNow
    <2>6. \A u \in Thread : pc[u] # "snap_clone"
      BY <1>0, <1>1, NotCloning
    <2>7. /\ CallNow' = [CallNow EXCEPT ![t] = "installed"]
          /\ TodoNow' = TodoNow /\ ViewNow' = ViewNow
      BY <1>0, <1>2, <2>5, <2>6, OthersCall
    <2>8. ViewsNow' = ViewsNow
      BY <1>1 DEF ViewsNow, TableOf, Row
    <2>9. Atomic!Install(t)
      BY <1>1, <1>2, <2>4, <2>7, <2>8 DEF Atomic!Install
    <2>10. QED
      BY <2>9 DEF AtomicStep, Atomic!Next
  <1>4. CASE ~LastShard(t)
    <2>1. pc'[t] = "restore_lock"
      BY <1>1, <1>4
    <2>2. ASSUME NEW p \in Pair
          PROVE  TableNow'[p] = TableNow[p]
      <3>1. p[1] \in NS /\ ShardOf[p[1]] \in Shard
        BY ConstantsAssumption DEF Pair
      <3>2. CASE writer[ShardOf[p[1]]] \in {NoThread, t}
        <4>1. writer'[ShardOf[p[1]]] \in {NoThread, t}
          BY <1>0, <1>1, <3>1, <3>2 DEF TypeOK
        <4>2. TableNow[p] = Row(maps, p[1], p[2])
          BY <1>1, <3>2 DEF TableNow
        <4>3. TableNow'[p] = Row(maps, p[1], p[2])
          BY <1>1, <2>1, <4>1 DEF TableNow, Row
        <4>4. QED
          BY <4>2, <4>3
      <3>3. CASE writer[ShardOf[p[1]]] \notin {NoThread, t}
        <4>1. writer'[ShardOf[p[1]]] = writer[ShardOf[p[1]]]
          BY <1>0, <1>1, <3>1, <3>3 DEF TypeOK
        <4>2. QED
          BY <1>0, <3>3, <4>1, OthersRow
      <3>4. QED
        BY <3>2, <3>3
    <2>3. TableNow' = TableNow
      BY <2>2, TableDomain
    <2>4. CallNow'[t] = "restore"
      BY <2>1 DEF CallNow
    <2>5. QED
      BY <1>0, <1>1, <1>2, <2>3, <2>4, Stutter DEF AtomicStep
  <1>5. QED
    BY <1>3, <1>4

\* Copying a shard changes nothing: its rows were the snapshot's already.
LEMMA WriteShardStep ==
  ASSUME RefInv, NEW t \in Thread, WriteShard(t)
  PROVE  AtomicStep
  <1> USE DEF ManyPCs, EntryPCs, CapturePCs, LinkPCs
  <1>0. TypeOK /\ Continue(t) /\ Next
    BY DEF RefInv, IInv, Continue, Next
  <1>1. /\ pc[t] = "restore_write" /\ UNCHANGED <<writer, snaps, snap, got>>
        /\ pc'[t] \in {"restore_write", "restore_drop"}
    BY <1>0 DEF WriteShard, Advance, Goto, TypeOK, locks, meta
  <1>2. ASSUME NEW p \in Pair
        PROVE  TableNow'[p] = TableNow[p]
    <2>1. ShardOf[p[1]] \in Shard
      BY ConstantsAssumption DEF Pair
    <2>2. writer[ShardOf[p[1]]] = t /\ t # NoThread
      BY <1>1, <2>1, ConstantsAssumption DEF RefInv, IInv, LockInv, HoldsWrite
    <2>3. TableNow[p] = Row(snap[t].maps, p[1], p[2])
      BY <1>1, <2>2 DEF TableNow
    <2>4. CASE pc'[t] = "restore_write"
      BY <1>1, <2>2, <2>3, <2>4 DEF TableNow, Row
    <2>5. CASE pc'[t] = "restore_drop"
      <3>1. Installed(t)'
        BY <1>0, GuardNext DEF RefInv
      <3>2. snap[t].maps = maps'
        BY <1>1, <2>5, <3>1 DEF Installed
      <3>3. TableNow'[p] = Row(maps', p[1], p[2])
        BY <1>1, <2>2, <2>5 DEF TableNow, Row
      <3>4. QED
        BY <2>3, <3>2, <3>3 DEF Row
    <2>6. QED
      BY <1>1, <2>4, <2>5
  <1>3. TableNow' = TableNow
    BY <1>2, TableDomain
  <1>4. /\ CallNow'[t] = CallNow[t] /\ TodoNow'[t] = TodoNow[t]
        /\ ViewNow'[t] = ViewNow[t]
    BY <1>1 DEF CallNow, TodoNow, ViewNow, TableOf, Row
  <1>5. QED
    BY <1>0, <1>1, <1>3, <1>4, Stutter DEF AtomicStep

LEMMA DropWriteStep ==
  ASSUME RefInv, NEW t \in Thread, DropWriteGuards(t)
  PROVE  AtomicStep
  <1> USE DEF ManyPCs, EntryPCs, CapturePCs, LinkPCs
  <1>0. TypeOK /\ Continue(t)
    BY DEF RefInv, IInv, Continue
  <1>1. /\ pc[t] = "restore_drop" /\ pc'[t] = "idle" /\ UNCHANGED <<maps, snaps>>
        /\ writer' = [i \in Shard |-> IF writer[i] = t THEN NoThread ELSE writer[i]]
        /\ got' = [got EXCEPT ![t] = NoBatch]
    BY <1>0 DEF DropWriteGuards, Return, Goto, TypeOK, data, meta
  <1>2. ASSUME NEW p \in Pair
        PROVE  TableNow'[p] = TableNow[p]
    <2>1. ShardOf[p[1]] \in Shard
      BY ConstantsAssumption DEF Pair
    <2>2. writer[ShardOf[p[1]]] = t /\ writer'[ShardOf[p[1]]] = NoThread
      BY <1>1, <2>1 DEF RefInv, IInv, LockInv, HoldsWrite
    <2>3. TableNow[p] = Row(maps, p[1], p[2])
      BY <1>1, <2>2 DEF TableNow
    <2>4. QED
      BY <1>1, <2>2, <2>3, FreeRowNext
  <1>3. TableNow' = TableNow
    BY <1>2, TableDomain
  <1>4. /\ CallNow[t] = "installed"
        /\ CallNow'[t] = "idle" /\ TodoNow'[t] = NoBatch /\ ViewNow'[t] = NoBatch
    BY <1>1 DEF CallNow, TodoNow, ViewNow
  <1>5. /\ CallNow' = [CallNow EXCEPT ![t] = "idle"]
        /\ TodoNow' = [TodoNow EXCEPT ![t] = NoBatch]
        /\ ViewNow' = [ViewNow EXCEPT ![t] = NoBatch]
    BY <1>0, <1>3, <1>4, OthersCall
  <1>6. ViewsNow' = ViewsNow
    BY <1>1 DEF ViewsNow, TableOf, Row
  <1>7. Atomic!EndRestore(t)
    BY <1>1, <1>3, <1>4, <1>5, <1>6
       DEF Atomic!EndRestore, Atomic!Leave, Atomic!None, NoBatch
  <1>8. QED
    BY <1>7 DEF AtomicStep, Atomic!Next

-----------------------------------------------------------------------------

LEMMA NextMaps == RefInv /\ [Next]_vars => AtomicStep
  <1> SUFFICES ASSUME RefInv, [Next]_vars PROVE AtomicStep
    OBVIOUS
  <1>1. CASE UNCHANGED vars
    <2>1. UNCHANGED <<maps, writer, snaps, pc, idx, batch, got, snap>>
      BY <1>1 DEF vars, data, locks, meta, locals
    <2>2. TableNow' = TableNow /\ CallNow' = CallNow /\ ViewsNow' = ViewsNow
      BY <2>1 DEF TableNow, CallNow, ViewsNow, TableOf, Row
    <2>3. TodoNow' = TodoNow
      BY <2>1 DEF TodoNow, Without, Bucket, ToClear
    <2>4. ViewNow' = ViewNow
      BY <2>1, <2>2 DEF ViewNow, TableOf, Row
    <2>5. QED
      BY <2>1, <2>2, <2>3, <2>4 DEF AtomicStep, Atomic!vars
  <1>2. ASSUME NEW t \in Thread, Invoke(t)
        PROVE  AtomicStep
    BY <1>2, SetStep, DeleteStep, ManyStep, DeleteNamespaceStep,
       ClearSnapshotStep, RestoreStep, ClearHistoryStep DEF Invoke
  <1>3. ASSUME NEW t \in Thread, Continue(t)
        PROVE  AtomicStep
    BY <1>3, LockBucketStep, ReadBucketStep, EntryStep, FreedStep,
       UnlockBucketStep, GetManyReturnStep, ClearShardStep, ZeroBytesStep,
       CaptureStep, CloneStep, PushStep, InstallStep, WriteShardStep,
       DropWriteStep DEF Continue
  <1>4. QED
    BY <1>1, <1>2, <1>3 DEF Next

\* The sharded store with its locks implements the atomic table, for any number
\* of threads, shards, namespaces and keys: batches take effect whole
\* namespaces at a time, a snapshot is the table at one moment of its call and
\* a restore replaces the table at one moment of its own.
THEOREM StoreImplementsAtomicStore == Spec => ImplementsAtomicStore
  <1>1. RefInv /\ [Next]_vars => [Atomic!Next]_(Atomic!vars)
    BY NextMaps DEF AtomicStep
  <1>2. QED
    BY <1>1, InitMaps, RefInductive, PTL DEF Spec, ImplementsAtomicStore, Atomic!Spec
=============================================================================

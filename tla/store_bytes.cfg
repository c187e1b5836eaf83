\* Byte accounting under concurrent writes, snapshots and restores.
SPECIFICATION Spec
CONSTANTS
  t1 = t1  t2 = t2  n1 = n1  n2 = n2  k1 = k1  k2 = k2  v1 = v1  v2 = v2
  Nil = Nil  NoMap = NoMap  NoThread = NoThread
  Thread = {t1, t2}
  NS = {n1, n2}
  Key = {k1, k2}
  Val = {v1, v2}
  NShards = 2
  ShardOf <- MCShardOf
  SizeOf <- MCSizeOf
  ByteMod = 8
  MaxHistory = 1
  MaxCalls = 2
  Batches <- TwoBatches
  Ops <- LockedOps
INVARIANTS BytesExact
SYMMETRY Threads
CHECK_DEADLOCK FALSE

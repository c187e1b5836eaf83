\* Two threads use every operation of a store of two shards.
SPECIFICATION FairSpec
CONSTANTS
  t1 = t1  t2 = t2  n1 = n1  n2 = n2  k1 = k1  k2 = k2  v1 = v1  v2 = v2
  Nil = Nil  NoMap = NoMap  NoThread = NoThread
  Thread = {t1, t2}
  NS = {n1, n2}
  Key = {k1, k2}
  Val = {v1, v2}
  NShards = 2
  ShardOf <- MCShardOf
  SizeOf <- MCSizeOf
  ByteMod = 8
  MaxHistory = 1
  MaxCalls = 2
  Batches <- ThreeRows
  Ops <- AllOps
INVARIANTS TypeOK SnapshotConsistent RestoreConsistent NoEmptyNamespace LineageIsChain
PROPERTIES ImplementsAtomicStore ReadGuardsProtect CallsReturn
CHECK_DEADLOCK FALSE

\* One caller, plain channels: every operation but copy_thread, in any order.
SPECIFICATION Spec
CONSTANTS
  p1 = p1  p2 = p2  s1 = s1  s2 = s2  x = x  d = d
  Proc = {p1}
  Saver = {s1}
  SaverOf <- OneCaller
  Thread = {t1}
  MaxId = 4
  Plain = {x}
  Delta = {}
  Run = {r1, r2}
  Incremental = TRUE
  Limit = 1
  PruneSlack = 2
  MaxHints = 2
  Indexed = FALSE
  NativeAsync = FALSE
  RowOrder = "ck_first"
  IntVersions = TRUE
  InOrder = TRUE
  Legacy = {t1}
  Window = 1
  WKey = {w, v}
  Special = {v}
  ChanOf <- PlainWrites
  WVal = {1, 2}
  MaxCalls = 5
  Ops <- SerialOps
INVARIANTS TypeOK LatestIsMax NoLeftovers TupleWrites RetentionBound
PROPERTY WriteOnce
CHECK_DEADLOCK FALSE

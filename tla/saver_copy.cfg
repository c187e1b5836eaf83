\* copy_thread into empty and non-empty threads, prune(keep_latest) and store rollbacks.
SPECIFICATION Spec
CONSTANTS
  p1 = p1  p2 = p2  s1 = s1  s2 = s2  x = x  d = d
  Proc = {p1}
  Saver = {s1}
  SaverOf <- OneCaller
  Thread = {t1, t2}
  MaxId = 3
  Plain = {x}
  Delta = {d}
  Run = {r1}
  Incremental = TRUE
  Limit = 0
  PruneSlack = 1
  MaxHints = 1
  Indexed = FALSE
  NativeAsync = FALSE
  RowOrder = "together"
  IntVersions = FALSE
  InOrder = TRUE
  Legacy = {}
  Window = 1
  WKey = {w}
  Special = {}
  ChanOf <- DeltaWrites
  WVal = {1}
  MaxCalls = 5
  Ops <- CopyOps
INVARIANTS  LatestIsMax
CHECK_DEADLOCK FALSE

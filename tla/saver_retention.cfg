\* Retention on a thread of two delta channels, with forks inside the window.
SPECIFICATION Spec
CONSTANTS
  p1 = p1  p2 = p2  s1 = s1  s2 = s2  x = x  d = d
  Proc = {p1}
  Saver = {s1}
  SaverOf <- OneCaller
  Thread = {t1}
  MaxId = 4
  Plain = {}
  Delta = {d, e}
  Run = {r1}
  Incremental = TRUE
  Limit = 2
  PruneSlack = 0
  MaxHints = 2
  Indexed = FALSE
  NativeAsync = FALSE
  RowOrder = "ck_first"
  IntVersions = FALSE
  InOrder = FALSE
  Legacy = {}
  Window = 2
  WKey = {w}
  Special = {}
  ChanOf <- DeltaWrites
  WVal = {1}
  MaxCalls = 5
  Ops <- RetentionOps
INVARIANTS DeltaPreserved TupleValues
CHECK_DEADLOCK FALSE

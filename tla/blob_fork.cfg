\* Two checkpoints continue the same parent.
SPECIFICATION Spec
CONSTANTS
  p1 = p1  p2 = p2  s1 = s1  s2 = s2  x = x  d = d
  Proc = {p1}
  Saver = {s1}
  SaverOf <- OneCaller
  Thread = {t1}
  MaxId = 4
  Plain = {x}
  Delta = {}
  Run = {r1}
  Incremental = TRUE
  Limit = 0
  PruneSlack = 1
  MaxHints = 2
  Indexed = FALSE
  NativeAsync = FALSE
  RowOrder = "ck_first"
  IntVersions = TRUE
  InOrder = TRUE
  Legacy = {}
  Window = 3
  WKey = {w}
  Special = {}
  ChanOf <- PlainWrites
  WVal = {1}
  MaxCalls = 5
  Ops <- ForkOps
INVARIANT TupleValues
CHECK_DEADLOCK FALSE

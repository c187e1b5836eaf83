\* A reader and a writer that trims, each with its own saver, on a store that indexes max_key.
SPECIFICATION Spec
CONSTANTS
  p1 = p1  p2 = p2  s1 = s1  s2 = s2  x = x  d = d
  Proc = {p1, p2}
  Saver = {s1, s2}
  SaverOf <- OneEach
  Thread = {t1}
  MaxId = 4
  Plain = {x}
  Delta = {}
  Run = {r1}
  Incremental = TRUE
  Limit = 1
  PruneSlack = 0
  MaxHints = 2
  Indexed = TRUE
  NativeAsync = TRUE
  RowOrder = "ck_first"
  IntVersions = FALSE
  InOrder = TRUE
  Legacy = {}
  Window = 1
  WKey = {w}
  Special = {}
  ChanOf <- PlainWrites
  WVal = {1}
  MaxCalls = 4
  Ops <- WriterReader
INVARIANTS TupleValues FreshRead
CHECK_DEADLOCK FALSE

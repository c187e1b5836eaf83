CONSTANTS
  o1 = o1  o2 = o2  c1 = c1  c2 = c2  c3 = c3  a = a  b = b  x = x  Null = Null
  Watcher <- MCWatcher
  Caller = {c1, c2, c3}
  Object = {o1, o2}
  ObjOf <- MCObjOf
  CrewNs <- MCCrewNs
  Suffix = {1, 2, 3}
  Text = {a, b}
  Score <- MCScore
  Thresholds = {1, 2}
  Limit = 1
  TopPoint = 3
  Surrogates = {2}
  Prefixes <- MCPrefixes
  BatchSize = 2
  Rows <- MCRows
  Values = {x}
  Budgets <- MCBudgets
SPECIFICATION Spec
INVARIANTS EntriesFaithful FileWhole LoadFaithful SearchFaithful
PROPERTIES EntryKept KeysOrdered
CHECK_DEADLOCK FALSE
SYMMETRY Threads

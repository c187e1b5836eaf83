\* Two callers of each persistent backend.
SPECIFICATION FairSpec
CONSTANTS
  c1 = c1  c2 = c2  n1 = n1  n2 = n2  k1 = k1  k2 = k2  v1 = v1  v2 = v2  Nil = Nil
  Client = {c1, c2}
  Task = {c2}
  Pair <- ThreePairs
  Val = {v1, v2}
  ValOf <- OwnValue
  Lists <- CrossingLists
  Kinds = {"disk", "postgres", "redis"}
  MaxCalls = 2
  MaxSnaps = 1
INVARIANTS ReadsCoherent
PROPERTIES  CallsReturn
CHECK_DEADLOCK FALSE

\* A graph that refuses cycles, routing every small state, and one that allows
\* cycles and parallel edges.
SPECIFICATION Spec
SYMMETRY NodeSymmetry
CONSTANTS
  a = a  b = b  c1 = c1  c2 = c2  c3 = c3  c4 = c4
  Node = {n1, n2, n3}
  Cond = {c1, c2, c3, c4}
  NoCond = NoCond
  Reads <- ConditionReads
  Test <- Conditions
  States <- AllStates
  Seg = {a, b}
  Policies = {"error", "allow"}
  Passed <- CondsPassed
  MaxEdges <- EdgesPerNode
INVARIANTS TypeOK StaysAcyclic  SearchDecides KahnDecides
CHECK_DEADLOCK FALSE

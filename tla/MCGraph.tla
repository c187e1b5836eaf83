------------------------------ MODULE MCGraph ------------------------------
(* Instances of HandoffRouting: conditions over two segments, and every     *)
(* state that is at most two maps deep.                                     *)
EXTENDS HandoffRouting

CONSTANTS a, b, c1, c2, c3, c4

NodeSymmetry == Permutations(Node)

Leaves  == {Num(0), Num(1)}
Trees(below) ==
  UNION {{Map(m) : m \in [D -> below]} : D \in SUBSET Seg}
AllStates == Trees(Leaves \cup Trees(Leaves))

\* a.b == 1;  not a.a or "b" in a;  b >= a.b and a.a != 0;  b not in [1, a]
Conditions ==
  c1 :> Op("==", <<Var(<<a, b>>), Lit(Num(1))>>) @@
  c2 :> Op("or", <<Op("not", <<Var(<<a, a>>)>>),
                   Op("in", <<Lit(Str(b)), Var(<<a>>)>>)>>) @@
  c3 :> Op("and", <<Op(">=", <<Var(<<b>>), Var(<<a, b>>)>>),
                    Op("!=", <<Var(<<a, a>>), Lit(Num(0))>>)>>) @@
  c4 :> Op("not in", <<Var(<<b>>), Op("list", <<Lit(Num(1)), Var(<<a>>)>>)>>)

ConditionReads == [k \in DOMAIN Conditions |-> CollectPaths(Conditions[k])]

\* A graph that refuses cycles has conditions; one that allows them has more
\* edges, parallel ones among them.
CondsPassed  == [error |-> {c1, c2, c3, c4}, allow |-> {}]
EdgesPerNode == [error |-> 2, allow |-> 3]
=============================================================================

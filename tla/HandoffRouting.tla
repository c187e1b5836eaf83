--------------------------- MODULE HandoffRouting ---------------------------
(***************************************************************************)
(* The algorithms of the handoff graph (rust/src/graph.rs) and of the      *)
(* condition evaluator (rust/src/condition.rs) over the states of          *)
(* HandoffGraph: the cycle search, Kahn's algorithm, and route, which      *)
(* evaluates conditions on a partial copy of the caller's state.           *)
(*                                                                         *)
(* A routing state is a tree: a number, a string or nothing, or a map from *)
(* segments to trees.  A condition is the expression the parser built.     *)
(* Strings are atoms: they are equal or not, with no order or substrings.  *)
(***************************************************************************)
EXTENDS HandoffGraph, FiniteSets, TLC

LOCAL INSTANCE SequencesExt
LOCAL INSTANCE FiniteSetsExt

CONSTANTS
  Seg,     \* path segments, and the keys of maps
  Test,    \* the expression of each condition
  States   \* routing states callers pass

-----------------------------------------------------------------------------
(* would_create_cycle and is_dag *)

\* The search: a stack of nodes to visit, and those seen.
RECURSIVE Visit(_, _, _)
Visit(from, stack, seen) ==
  IF stack = <<>> THEN FALSE
  ELSE LET n    == Last(stack)
           rest == Front(stack)
       IN  \/ n = from
           \/ n \in seen /\ Visit(from, rest, seen)
           \/ /\ n \notin seen
              /\ Visit(from, rest \o [i \in DOMAIN adj[n] |-> adj[n][i].to],
                       seen \cup {n})

\* Mutant: looks at the nodes one edge away only.
SearchNear(from, to) == from = to \/ from \in Succ(to)

Search(from, to) == from = to \/ Visit(from, <<to>>, {})

Indegree == [n \in nodes |-> Cardinality({<<m, i>> \in Node \X (1 .. MaxEdges[on_cycle]) :
                                            i \in DOMAIN adj[m] /\ adj[m][i].to = n})]

\* Mutant: an edge that is there twice is taken off once.
ReleaseOnce(k, edge) ==
  IF k.degree[edge.to] <= 1 THEN k
  ELSE [k EXCEPT !.degree[edge.to] = @ - 1]

\* One edge of a settled node: its target is ready with its last incoming edge.
Release(k, edge) ==
  LET left == k.degree[edge.to] - 1
  IN  [degree |-> [k.degree EXCEPT ![edge.to] = left],
       ready  |-> IF left = 0 THEN Append(k.ready, edge.to) ELSE k.ready]

RECURSIVE Settle(_, _)
Settle(k, settled) ==
  IF k.ready = <<>> THEN settled
  ELSE Settle(FoldLeft(Release, [k EXCEPT !.ready = Front(k.ready)],
                       adj[Last(k.ready)]),
              settled + 1)

IsDag ==
  LET roots == {n \in nodes : Indegree[n] = 0}
  IN  Settle([degree |-> Indegree, ready |-> SetToSeq(roots)], 0) = Cardinality(nodes)

-----------------------------------------------------------------------------
(* route *)

Nil        == [kind |-> "nil"]
Bool(v)    == [kind |-> "bool", value |-> v]
Num(v)     == [kind |-> "num", value |-> v]
Str(v)     == [kind |-> "str", value |-> v]
Array(v)   == [kind |-> "array", items |-> v]
Map(m)     == [kind |-> "map", items |-> m]
EmptyState == Map([s \in {} |-> Nil])

\* One step of a path: a key of a map; a plain value has no fields.
Child(tree, seg) ==
  IF tree.kind = "map" /\ seg \in DOMAIN tree.items THEN tree.items[seg] ELSE Nil

\* resolve_path on the caller's state, lookup on the evaluator's copy of it.
Lookup(tree, path) == FoldLeft(Child, tree, path)

\* insert_path: put a leaf at a path, with maps on the way to it.
RECURSIVE InsertPath(_, _, _)
InsertPath(items, path, leaf) ==
  LET key == Head(path)
  IN  IF Len(path) = 1 THEN (key :> leaf) @@ items
      ELSE IF key \notin DOMAIN items
           THEN (key :> Map(InsertPath([s \in {} |-> Nil], Tail(path), leaf))) @@ items
      ELSE IF items[key].kind = "map"
           THEN [items EXCEPT ![key] = Map(InsertPath(@.items, Tail(path), leaf))]
      ELSE items

\* partial_state: the caller's state, as far as the node's conditions read it.
PartialState(n, state) ==
  LET found == {p \in node_paths[n] : Lookup(state, p) # Nil}
  IN  Map(FoldSet(LAMBDA p, items : InsertPath(items, p, Lookup(state, p)),
                  EmptyState.items, found))

Truthy(v) == CASE v.kind = "nil"            -> FALSE
               [] v.kind = "bool"           -> v.value
               [] v.kind = "num"            -> v.value # 0
               [] v.kind = "str"            -> TRUE
               [] v.kind \in {"array", "map"} -> DOMAIN v.items # {}

ValuesEqual(u, v) == u.kind = v.kind /\ u = v

OrderingTrue(op, u, v) ==
  /\ u.kind = "num" /\ v.kind = "num"
  /\ \/ op = "<"  /\ u.value < v.value
     \/ op = "<=" /\ u.value <= v.value
     \/ op = ">"  /\ u.value > v.value
     \/ op = ">=" /\ u.value >= v.value

IsMember(u, v) ==
  \/ v.kind = "array" /\ \E i \in DOMAIN v.items : ValuesEqual(v.items[i], u)
  \/ v.kind = "map" /\ \E s \in DOMAIN v.items : ValuesEqual(Str(s), u)
  \/ v.kind = "str" /\ ValuesEqual(u, v)

\* An expression: a literal, a path into the state, or an operator.
Lit(v)       == [op |-> "lit", value |-> v]
Var(path)    == [op |-> "var", path |-> path]
Op(op, args) == [op |-> op, args |-> args]

Compare(op, u, v) ==
  CASE op = "=="     -> ValuesEqual(u, v)
    [] op = "!="     -> ~ValuesEqual(u, v)
    [] op = "in"     -> IsMember(u, v)
    [] op = "not in" -> ~IsMember(u, v)
    [] OTHER         -> OrderingTrue(op, u, v)

RECURSIVE Eval(_, _)
Eval(expr, state) ==
  IF expr.op = "lit" THEN expr.value
  ELSE IF expr.op = "var" THEN Lookup(state, expr.path)
  ELSE LET args == [i \in DOMAIN expr.args |-> Eval(expr.args[i], state)]
       IN  CASE expr.op = "list" -> Array(args)
             [] expr.op = "not"  -> Bool(~Truthy(args[1]))
             [] expr.op = "and"  -> Bool(\A i \in DOMAIN args : Truthy(args[i]))
             [] expr.op = "or"   -> Bool(\E i \in DOMAIN args : Truthy(args[i]))
             [] OTHER            -> Bool(Compare(expr.op, args[1], args[2]))

\* eval_truthy of a condition.
Holds(cond, state) == Truthy(Eval(Test[cond], state))

RECURSIVE CollectPaths(_)

\* Mutant: of an operator's operands, only the first is looked at.
FirstOperandPaths(expr) ==
  CASE expr.op = "lit" -> {}
    [] expr.op = "var" -> {expr.path}
    [] OTHER           -> CollectPaths(expr.args[1])

\* collect_paths: the state paths an expression reads.
CollectPaths(expr) ==
  CASE expr.op = "lit" -> {}
    [] expr.op = "var" -> {expr.path}
    [] OTHER           -> UNION {CollectPaths(expr.args[i]) : i \in DOMAIN expr.args}

\* The first edge whose condition holds, None when there is none.
FirstMatch(edges, state) ==
  LET hits == {i \in DOMAIN edges :
                 edges[i].cond = NoCond \/ Holds(edges[i].cond, state)}
  IN  IF hits = {} THEN {} ELSE {edges[Min(hits)].to}

Route(n, state) == FirstMatch(adj[n], PartialState(n, state))

-----------------------------------------------------------------------------
(* Properties *)

\* The iterative search of would_create_cycle decides reachability, on graphs
\* with and without cycles and with parallel edges.
SearchDecides ==
  \A a, b \in Node : Search(a, b) <=> WouldCreateCycle(a, b)

\* is_dag, which counts edges, is true exactly of the graphs without a cycle.
KahnDecides == IsDag <=> Acyclic

\* Routing on the partial copy goes where routing on the whole state would go,
\* for every node and state: route reads nothing that it left out.
PartialStateSuffices ==
  \A n \in Node, s \in States : Route(n, s) = FirstMatch(adj[n], s)
=============================================================================

---------------------------- MODULE HandoffGraph ----------------------------
(***************************************************************************)
(* The handoff graph (rust/src/graph.rs): nodes, outgoing edges in the     *)
(* order they were added, each with an optional condition, and per node    *)
(* the state paths its conditions read.  With on_cycle = "error" an edge   *)
(* that would close a cycle is refused.  Routing is in HandoffRouting.     *)
(***************************************************************************)
EXTENDS Integers, Sequences

LOCAL INSTANCE SequencesExt

CONSTANTS
  Node,      \* node names
  Cond,      \* parsed conditions
  NoCond,    \* an edge without a condition
  Reads,     \* the state paths each condition reads
  Policies,  \* the on_cycle policies in use
  Passed,    \* bound: per policy, the conditions that callers pass
  MaxEdges   \* bound: per policy, outgoing edges per node

ASSUME GraphAssumption ==
  /\ NoCond \notin Cond
  /\ Policies \subseteq {"error", "allow"}
  /\ Passed \in [Policies -> SUBSET Cond]
  /\ MaxEdges \in [Policies -> Nat]
  /\ DOMAIN Reads = Cond

VARIABLES
  on_cycle,    \* "error" or "allow", fixed when the graph is made
  nodes,       \* registered nodes
  adj,         \* node -> its outgoing edges, in insertion order
  node_paths   \* node -> the state paths its outgoing conditions read

vars == <<on_cycle, nodes, adj, node_paths>>

Edge == [to: Node, cond: Cond \cup {NoCond}]

Init ==
  /\ on_cycle \in Policies
  /\ nodes = {}
  /\ adj = [n \in Node |-> <<>>]
  /\ node_paths = [n \in Node |-> {}]

Succ(n) == {adj[n][i].to : i \in DOMAIN adj[n]}

\* Sets of nodes no edge leaves.
Closed(S) == \A n \in S : Succ(n) \subseteq S

\* b can be reached from a: it is in every closed set that a is in.
Reaches(a, b) == \A S \in SUBSET Node : a \in S /\ Closed(S) => b \in S

\* would_create_cycle, by what its search decides (see HandoffRouting!Search).
WouldCreateCycle(from, to) == from = to \/ Reaches(to, from)

\* Mutant: a self-loop is not a cycle.
LongCycleRefused(from, to) == on_cycle = "error" /\ from # to /\ Reaches(to, from)

\* on_cycle = "error": an edge that would close a cycle raises.
CycleRefused(from, to) == on_cycle = "error" /\ WouldCreateCycle(from, to)

\* drop_covered_paths: a path below another one that is read anyway goes.
DropCovered(paths) == {p \in paths : ~\E q \in paths : IsStrictPrefix(q, p)}

\* refresh_paths: what the conditions of these outgoing edges read.
PathsOf(edges) ==
  DropCovered(UNION {Reads[edges[i].cond] :
                       i \in {j \in DOMAIN edges : edges[j].cond # NoCond}})

\* Mutant: only the source of an edge is registered.
SourceOnly(from, to) == {from}

\* An edge registers its endpoints.
Endpoints(from, to) == {from, to}

AddNode(n) ==
  /\ nodes' = nodes \cup {n}
  /\ UNCHANGED <<on_cycle, adj, node_paths>>

\* add_edge.  An invalid condition, or a cycle that is not allowed, raises
\* before anything is changed.
AddEdge(from, to, cond) ==
  /\ Len(adj[from]) < MaxEdges[on_cycle]
  /\ ~CycleRefused(from, to)
  /\ nodes' = nodes \cup Endpoints(from, to)
  /\ adj' = [adj EXCEPT ![from] = Append(@, [to |-> to, cond |-> cond])]
  /\ node_paths' = [node_paths EXCEPT ![from] = PathsOf(adj'[from])]
  /\ UNCHANGED on_cycle

Next ==
  \E n \in Node :
    \/ AddNode(n)
    \/ \E to \in Node, cond \in Passed[on_cycle] \cup {NoCond} : AddEdge(n, to, cond)

Spec == Init /\ [][Next]_vars

-----------------------------------------------------------------------------

\* Edges connect registered nodes (add_edge, is_dag).
TypeOK ==
  /\ on_cycle \in Policies
  /\ nodes \subseteq Node
  /\ adj \in [Node -> Seq(Edge)]
  /\ DOMAIN node_paths = Node
  /\ \A n \in Node : Succ(n) \subseteq nodes /\ (adj[n] # <<>> => n \in nodes)

\* No node reaches itself along an edge.
Acyclic == \A n \in Node : \A m \in Succ(n) : ~Reaches(m, n)

\* A graph that refuses cycles never has one, whatever edges are added and
\* however they are mixed with refused ones (on_cycle = "error").
StaysAcyclic == on_cycle = "error" => Acyclic
=============================================================================

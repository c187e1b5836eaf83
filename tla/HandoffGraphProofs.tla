------------------------- MODULE HandoffGraphProofs -------------------------
(***************************************************************************)
(* A graph that refuses cycles stays acyclic, for any set of nodes, any    *)
(* conditions and any order of calls.  Reachability is defined by closed   *)
(* sets, so the proof exhibits for every edge a closed set that holds its  *)
(* target and not its source: what the target reaches, joined with what    *)
(* the target of the new edge reaches if the new edge leaves that set.     *)
(***************************************************************************)
EXTENDS HandoffGraph, TLAPS

\* The nodes that can be reached from a.
ReachSet(a) == {x \in Node : Reaches(a, x)}

\* Callers pass conditions.
LEMMA PassedConds ==
  ASSUME TypeOK
  PROVE  Passed[on_cycle] \subseteq Cond
BY GraphAssumption DEF TypeOK

\* An edge leads to a node.
LEMMA SuccInNode ==
  ASSUME TypeOK, NEW n \in Node
  PROVE  Succ(n) \subseteq Node
BY DEF TypeOK, Succ, Edge

\* What a node reaches is closed, and holds the node.
LEMMA ReachSetClosed ==
  ASSUME TypeOK, NEW a \in Node
  PROVE  /\ ReachSet(a) \subseteq Node
         /\ a \in ReachSet(a)
         /\ Closed(ReachSet(a))
<1>1. ReachSet(a) \subseteq Node /\ a \in ReachSet(a)
  BY DEF ReachSet, Reaches
<1>2. ASSUME NEW x \in ReachSet(a), NEW y \in Succ(x)
      PROVE  y \in ReachSet(a)
  <2>1. x \in Node /\ Reaches(a, x)
    BY DEF ReachSet
  <2>2. y \in Node
    BY <2>1, SuccInNode
  <2>3. Reaches(a, y)
    BY <2>1 DEF Reaches, Closed
  <2> QED BY <2>2, <2>3 DEF ReachSet
<1> QED BY <1>1, <1>2 DEF Closed

\* Reachability is transitive and contains the edges.
LEMMA ReachesTransitive ==
  ASSUME NEW a, NEW b, NEW c, Reaches(a, b), Reaches(b, c)
  PROVE  Reaches(a, c)
BY DEF Reaches

LEMMA ReachesEdge ==
  ASSUME NEW a \in Node, NEW b \in Succ(a)
  PROVE  Reaches(a, b)
BY DEF Reaches, Closed

\* What add_edge does to the successors.
LEMMA AddEdgeSucc ==
  ASSUME TypeOK, NEW f \in Node, NEW t \in Node, NEW c \in Cond \cup {NoCond},
         AddEdge(f, t, c)
  PROVE  /\ Succ(f)' = Succ(f) \cup {t}
         /\ \A n \in Node \ {f} : Succ(n)' = Succ(n)
         /\ adj' \in [Node -> Seq(Edge)]
<1> DEFINE e == [to |-> t, cond |-> c]
<1>1. e \in Edge
  BY DEF Edge
<1>2. adj' = [adj EXCEPT ![f] = Append(adj[f], e)]
  BY DEF AddEdge
<1>3. adj[f] \in Seq(Edge)
  BY DEF TypeOK
<1>4. Append(adj[f], e) \in Seq(Edge)
  BY <1>1, <1>3
<1>5. adj' \in [Node -> Seq(Edge)]
  BY <1>2, <1>4 DEF TypeOK
<1>6. adj'[f] = Append(adj[f], e)
  BY <1>2 DEF TypeOK
<1>7. \A n \in Node \ {f} : adj'[n] = adj[n]
  BY <1>2 DEF TypeOK
<1>8. Succ(f)' = Succ(f) \cup {t}
  <2>1. DOMAIN adj'[f] = DOMAIN adj[f] \cup {Len(adj[f]) + 1}
    BY <1>1, <1>3, <1>6
  <2>2. \A i \in DOMAIN adj[f] : adj'[f][i] = adj[f][i]
    BY <1>1, <1>3, <1>6
  <2>3. adj'[f][Len(adj[f]) + 1].to = t
    BY <1>1, <1>3, <1>6
  <2> HIDE DEF e
  <2> QED BY <2>1, <2>2, <2>3 DEF Succ
<1>9. \A n \in Node \ {f} : Succ(n)' = Succ(n)
  BY <1>7 DEF Succ
<1> QED BY <1>5, <1>8, <1>9

\* The type invariant of the graph: edges connect registered nodes, whatever
\* calls of add_node and add_edge are made (graph.rs, add_node and add_edge).
THEOREM GraphTypes == Spec => []TypeOK
<1>1. Init => TypeOK
  BY DEF Init, TypeOK, Succ
<1>2. TypeOK /\ [Next]_vars => TypeOK'
  <2> SUFFICES ASSUME TypeOK, [Next]_vars PROVE TypeOK'
    OBVIOUS
  <2>1. ASSUME NEW n \in Node, AddNode(n) PROVE TypeOK'
    BY <2>1 DEF AddNode, TypeOK, Succ
  <2>2. ASSUME NEW f \in Node, NEW t \in Node, NEW c \in Cond \cup {NoCond},
               AddEdge(f, t, c)
        PROVE  TypeOK'
    <3>1. nodes' = nodes \cup {f, t} /\ nodes' \subseteq Node
      BY <2>2 DEF AddEdge, Endpoints, TypeOK
    <3>2. DOMAIN node_paths' = Node /\ on_cycle' \in Policies
      BY <2>2 DEF AddEdge, TypeOK
    <3>3. ASSUME NEW n \in Node PROVE Succ(n)' \subseteq nodes'
      <4>1. Succ(n)' \subseteq Succ(n) \cup {t}
        <5>1. Succ(f)' = Succ(f) \cup {t}
          BY <2>2, AddEdgeSucc
        <5>2. n # f => Succ(n)' = Succ(n)
          BY <2>2, AddEdgeSucc
        <5> QED BY <5>1, <5>2
      <4>2. Succ(n) \subseteq nodes
        BY DEF TypeOK
      <4> QED BY <3>1, <4>1, <4>2
    <3>4. \A n \in Node : adj'[n] # <<>> => n \in nodes'
      BY <2>2, <3>1 DEF AddEdge, TypeOK
    <3> QED BY <2>2, <3>1, <3>2, <3>3, <3>4, AddEdgeSucc DEF TypeOK
  <2>3. CASE UNCHANGED vars
    BY <2>3 DEF vars, TypeOK, Succ
  <2> QED BY <2>1, <2>2, <2>3, PassedConds DEF Next
<1> QED BY <1>1, <1>2, PTL DEF Spec

\* An edge that would_create_cycle accepts leaves an acyclic graph acyclic.
LEMMA AddEdgeAcyclic ==
  ASSUME TypeOK, Acyclic, NEW f \in Node, NEW t \in Node,
         NEW c \in Cond \cup {NoCond}, AddEdge(f, t, c),
         ~WouldCreateCycle(f, t)
  PROVE  Acyclic'
<1>1. ASSUME NEW S \in SUBSET Node, Closed(S), f \in S => t \in S
      PROVE  Closed(S)'
  BY <1>1, AddEdgeSucc DEF Closed
<1>2. ~Reaches(t, f)
  BY DEF WouldCreateCycle
<1>3. ASSUME NEW n \in Node, NEW m \in Succ(n)'
      PROVE  \E S \in SUBSET Node : m \in S /\ Closed(S)' /\ n \notin S
  <2>1. CASE n = f /\ m = t
    <3>1. PICK S \in SUBSET Node : S = ReachSet(t)
      BY ReachSetClosed
    <3>2. t \in S /\ Closed(S) /\ f \notin S
      BY <1>2, <3>1, ReachSetClosed DEF ReachSet
    <3>3. Closed(S)'
      BY <1>1, <3>2
    <3> QED BY <2>1, <3>2, <3>3
  <2>2. CASE m \in Succ(n)
    <3>1. m \in Node
      BY <2>2, SuccInNode
    <3>2. n \notin ReachSet(m)
      BY <2>2 DEF Acyclic, ReachSet
    <3>3. CASE f \notin ReachSet(m)
      <4>1. PICK S \in SUBSET Node : S = ReachSet(m)
        BY <3>1, ReachSetClosed
      <4>2. m \in S /\ Closed(S) /\ f \notin S /\ n \notin S
        BY <3>1, <3>2, <3>3, <4>1, ReachSetClosed
      <4>3. Closed(S)'
        BY <1>1, <4>2
      <4> QED BY <4>2, <4>3
    <3>4. CASE f \in ReachSet(m)
      <4>1. n \notin ReachSet(t)
        <5> SUFFICES ASSUME n \in ReachSet(t) PROVE FALSE
          OBVIOUS
        <5>1. Reaches(t, n) /\ Reaches(n, m) /\ Reaches(m, f)
          BY <2>2, <3>4, ReachesEdge DEF ReachSet
        <5> QED BY <1>2, <5>1, ReachesTransitive
      <4>2. PICK S \in SUBSET Node : S = ReachSet(m) \cup ReachSet(t)
        BY <3>1, ReachSetClosed
      <4>3. t \in S /\ m \in S /\ n \notin S
        BY <3>1, <3>2, <4>1, <4>2, ReachSetClosed
      <4>4. Closed(S)
        BY <3>1, <4>2, ReachSetClosed DEF Closed
      <4>5. Closed(S)'
        BY <1>1, <4>3, <4>4
      <4> QED BY <4>3, <4>5
    <3> QED BY <3>3, <3>4
  <2> QED BY <2>1, <2>2, AddEdgeSucc
<1> QED BY <1>3 DEF Acyclic, Reaches

\* on_cycle = "error": no sequence of add_node and add_edge calls, accepted or
\* refused, leaves the graph with a cycle (graph.rs, would_create_cycle).
THEOREM GraphStaysAcyclic == Spec => []StaysAcyclic
<1>1. Init => StaysAcyclic
  BY DEF Init, StaysAcyclic, Acyclic, Succ
<1>2. TypeOK /\ StaysAcyclic /\ [Next]_vars => StaysAcyclic'
  <2> SUFFICES ASSUME TypeOK, StaysAcyclic, [Next]_vars, on_cycle' = "error"
               PROVE  Acyclic'
    BY DEF StaysAcyclic
  <2>1. on_cycle = "error" /\ Acyclic
    BY DEF StaysAcyclic, Next, AddNode, AddEdge, vars
  <2>2. ASSUME UNCHANGED adj PROVE Acyclic'
    <3>1. \A n : Succ(n)' = Succ(n)
      BY <2>2 DEF Succ
    <3>2. \A S : Closed(S)' <=> Closed(S)
      BY <3>1 DEF Closed
    <3>3. \A x, y : Reaches(x, y)' <=> Reaches(x, y)
      BY <3>2 DEF Reaches
    <3> QED BY <2>1, <3>1, <3>3 DEF Acyclic
  <2>3. ASSUME NEW n \in Node, AddNode(n) PROVE Acyclic'
    BY <2>2, <2>3 DEF AddNode
  <2>4. ASSUME NEW f \in Node, NEW t \in Node, NEW c \in Cond \cup {NoCond},
               AddEdge(f, t, c)
        PROVE  Acyclic'
    <3>1. ~WouldCreateCycle(f, t)
      BY <2>1, <2>4 DEF AddEdge, CycleRefused
    <3> QED BY <2>1, <2>4, <3>1, AddEdgeAcyclic
  <2>5. CASE UNCHANGED vars
    BY <2>2, <2>5 DEF vars
  <2> QED BY <2>3, <2>4, <2>5, PassedConds DEF Next
<1> QED BY <1>1, <1>2, GraphTypes, PTL DEF Spec
=============================================================================

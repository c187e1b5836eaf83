---------------------------- MODULE AtomicStore ----------------------------
(***************************************************************************)
(* What the store promises its callers, without shards, locks or counters: *)
(* a table of rows in which                                                *)
(*   - a batch takes effect some whole namespaces at a time (never half a  *)
(*     namespace, but not all namespaces at once either);                  *)
(*   - a batched read sees each namespace at one moment;                   *)
(*   - a snapshot is the whole table at one moment of the call;            *)
(*   - a restore replaces the whole table in one step.                     *)
(* Store implements it (StoreRefinement).                                  *)
(***************************************************************************)
EXTENDS Integers

CONSTANTS Thread, NS, Key, Val, Nil

Pair  == NS \X Key
Table == [Pair -> Val \cup {Nil}]
Part  == UNION {[D -> Val \cup {Nil}] : D \in SUBSET Pair}
None  == [p \in {} |-> Nil]

VARIABLES
  table,  \* the rows
  call,   \* per thread: the call it is in
  todo,   \* per thread: entries to write, or pairs to read
  seen,   \* per thread: what a batched read has seen
  view,   \* per thread: what a snapshot captured or a restore will install
  views   \* snapshots handed out

vars == <<table, call, todo, seen, view, views>>

Init ==
  /\ table = [p \in Pair |-> Nil]
  /\ call = [t \in Thread |-> "idle"]
  /\ todo = [t \in Thread |-> None]
  /\ seen = [t \in Thread |-> None]
  /\ view = [t \in Thread |-> None]
  /\ views = {}

InNamespaces(f, G) == {p \in DOMAIN f : p[1] \in G}

Overlay(f, g) == [p \in DOMAIN f |-> IF p \in DOMAIN g THEN g[p] ELSE f[p]]

Enter(t, c) == call[t] = "idle" /\ call' = [call EXCEPT ![t] = c]

Leave(t) ==
  /\ call' = [call EXCEPT ![t] = "idle"]
  /\ todo' = [todo EXCEPT ![t] = None]
  /\ seen' = [seen EXCEPT ![t] = None]
  /\ view' = [view EXCEPT ![t] = None]

\* set, delete and delete_namespace: one namespace, one step.
Update(t, n) ==
  /\ call[t] = "idle"
  /\ \/ \E k \in Key, v \in Val \cup {Nil} :
          table' = [table EXCEPT ![<<n, k>>] = v]
     \/ table' = [p \in Pair |-> IF p[1] = n THEN Nil ELSE table[p]]
  /\ UNCHANGED <<call, todo, seen, view, views>>

\* set_many, delete_many and clear.
BeginWrite(t) ==
  /\ Enter(t, "write")
  /\ \E b \in Part : todo' = [todo EXCEPT ![t] = b]
  /\ UNCHANGED <<table, seen, view, views>>

WriteSome(t) ==
  /\ call[t] = "write"
  /\ \E G \in SUBSET NS :
       LET now == InNamespaces(todo[t], G)
       IN  /\ table' = Overlay(table, [p \in now |-> todo[t][p]])
           /\ todo' = [todo EXCEPT ![t] = [p \in DOMAIN @ \ now |-> @[p]]]
  /\ UNCHANGED <<call, seen, view, views>>

EndWrite(t) ==
  /\ call[t] = "write" /\ DOMAIN todo[t] = {}
  /\ Leave(t)
  /\ UNCHANGED <<table, views>>

BeginRead(t) ==
  /\ Enter(t, "read")
  /\ \E D \in SUBSET Pair : todo' = [todo EXCEPT ![t] = [p \in D |-> Nil]]
  /\ UNCHANGED <<table, seen, view, views>>

ReadSome(t) ==
  /\ call[t] = "read"
  /\ \E G \in SUBSET NS :
       LET now == InNamespaces(todo[t], G)
       IN  /\ seen' = [seen EXCEPT ![t] =
                         [p \in DOMAIN @ \cup now |->
                            IF p \in DOMAIN @ THEN @[p] ELSE table[p]]]
           /\ todo' = [todo EXCEPT ![t] = [p \in DOMAIN @ \ now |-> @[p]]]
  /\ UNCHANGED <<table, call, view, views>>

EndRead(t) ==
  /\ call[t] = "read" /\ DOMAIN todo[t] = {}
  /\ Leave(t)
  /\ UNCHANGED <<table, views>>

BeginSnapshot(t) ==
  /\ Enter(t, "snapshot")
  /\ UNCHANGED <<table, todo, seen, view, views>>

Capture(t) ==
  /\ call[t] = "snapshot"
  /\ call' = [call EXCEPT ![t] = "captured"]
  /\ view' = [view EXCEPT ![t] = table]
  /\ UNCHANGED <<table, todo, seen, views>>

EndSnapshot(t) ==
  /\ call[t] = "captured"
  /\ views' = views \cup {view[t]}
  /\ Leave(t)
  /\ UNCHANGED table

BeginRestore(t) ==
  /\ Enter(t, "restore")
  /\ \E w \in views : view' = [view EXCEPT ![t] = w]
  /\ UNCHANGED <<table, todo, seen, views>>

Install(t) ==
  /\ call[t] = "restore"
  /\ call' = [call EXCEPT ![t] = "installed"]
  /\ table' = view[t]
  /\ UNCHANGED <<todo, seen, view, views>>

EndRestore(t) ==
  /\ call[t] = "installed"
  /\ Leave(t)
  /\ UNCHANGED <<table, views>>

Next == \E t \in Thread :
  \/ \E n \in NS : Update(t, n)
  \/ BeginWrite(t) \/ WriteSome(t) \/ EndWrite(t)
  \/ BeginRead(t) \/ ReadSome(t) \/ EndRead(t)
  \/ BeginSnapshot(t) \/ Capture(t) \/ EndSnapshot(t)
  \/ BeginRestore(t) \/ Install(t) \/ EndRestore(t)

Spec == Init /\ [][Next]_vars
=============================================================================

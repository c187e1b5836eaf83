------------------------------ MODULE Backend ------------------------------
(***************************************************************************)
(* What the persistent backends (python/swarmstate/backends) have in       *)
(* common: rows kept by a database, callers whose calls are one or more    *)
(* statements, and the copy-based snapshots of _snapshot.py.               *)
(*                                                                         *)
(* A call is a record: what it asks for, the statements it still has to    *)
(* send, what it has read or written so far (written rows are invisible    *)
(* to the others until it commits), the row locks the database granted it. *)
(* DiskStore, PostgresStore and RedisStore say which statements their      *)
(* operations send and what the database does with each; Backends puts     *)
(* them together.                                                          *)
(***************************************************************************)
EXTENDS Naturals, Sequences, FiniteSets

CONSTANTS
  Client,    \* callers of one store object, each with its own connection
  Task,      \* the callers that use the asynchronous methods, where there are any
  Pair,      \* the (namespace, key) pairs callers use
  Val, Nil,  \* packed values; Nil for no row
  ValOf,     \* the value each caller writes
  Lists,     \* the lists of pairs callers pass to set_many and delete_many
  Kinds,     \* the backends under consideration
  MaxCalls,  \* bound: calls each client makes
  MaxSnaps   \* bound: snapshots taken

NS      == {p[1] : p \in Pair}
Of(n)   == {p \in Pair : p[1] = n}
NoRows  == [p \in {} |-> Nil]
All(S, v) == [p \in S |-> v]
Gone(S) == All(S, Nil)

Wipes    == {"delete_many", "delete_namespace", "clear", "restore"}
Reads    == {"get_many", "snapshot"}

\* A statement: what it does to the rows at `at`.
Send(do, S, v) == [do |-> do, at |-> S, v |-> v]

ASSUME BackendAssumption ==
  /\ IsFiniteSet(Pair)
  /\ Nil \notin Val
  /\ Task \subseteq Client
  /\ Kinds \subseteq {"disk", "postgres", "redis"}
  /\ MaxCalls \in Nat /\ MaxSnaps \in Nat
  /\ ValOf \in [Client -> Val]
  /\ \A q \in Lists : q \in Seq(Pair) /\ q # <<>>

VARIABLES
  kind,   \* which backend this is
  rows,   \* the committed rows
  call,   \* per client, the call under way
  calls,  \* per client, the calls made so far
  seq, last,  \* SnapshotMeta: the last id handed out, the parent of the next
  snaps   \* the snapshots callers hold

meta == <<seq, last, snaps>>
vars == <<kind, rows, call, calls, meta>>

\* `seen`: the contents the rows have had since the call (in a delete
\* statement: since that statement) began.  `left`, `list`: what SCAN has not
\* come to yet, and the hashes it returned.
Idle == [pc |-> "idle", op |-> "none", ask |-> NoRows, todo |-> <<>>,
         work |-> NoRows, held |-> {}, seen |-> {}, left |-> {}, list |-> {}]

BackendInit ==
  /\ kind \in Kinds
  /\ rows = [p \in Pair |-> Nil]
  /\ call = [c \in Client |-> Idle]
  /\ calls = [c \in Client |-> 0]
  /\ seq = 0 /\ last = 0
  /\ snaps = {}

-----------------------------------------------------------------------------
(* Calls, statements, commits *)

\* r with the rows of w written over it.
Overlay(r, w) ==
  [p \in DOMAIN r \cup DOMAIN w |-> IF p \in DOMAIN w THEN w[p] ELSE r[p]]

Listed(q)      == {q[i] : i \in DOMAIN q}
Upserts(q, v)  == [i \in DOMAIN q |-> Send("upsert", {q[i]}, v)]
Present(r)     == {p \in DOMAIN r : r[p] # Nil}
Inserts(r, qs) == [i \in DOMAIN qs |-> Send("insert", {qs[i]}, r[qs[i]])]

\* The orders in which a statement, or a query, may come to the members of S.
Orders(S) == {q \in [1 .. Cardinality(S) -> S] : \A x \in S : \E i \in DOMAIN q : q[i] = x}

\* Some client but c holds a lock on a row of S.
Locked(c, S) == \E d \in Client \ {c} : call[d].held \cap S # {}

\* c makes a call that asks for `ask` and goes to pc with the statements todo.
Call(c, op, pc, ask, todo) ==
  /\ call[c].pc = "idle"
  /\ calls[c] < MaxCalls
  /\ calls' = [calls EXCEPT ![c] = @ + 1]
  /\ call' = [call EXCEPT ![c] = [Idle EXCEPT !.pc = pc, !.op = op, !.ask = ask,
                !.todo = todo, !.left = IF pc = "scan" THEN NS ELSE {},
                !.seen = IF op \in Reads \cup Wipes THEN {rows} ELSE {}]]
  /\ UNCHANGED <<kind, rows, meta>>

Go(c, r) ==
  /\ call' = [call EXCEPT ![c] = r]
  /\ UNCHANGED <<kind, rows, calls, meta>>

\* The rows become r and the call of c returns.
Land(c, r) ==
  /\ rows' = r
  /\ call' = [d \in Client |->
                IF d = c THEN Idle
                ELSE [call[d] EXCEPT !.seen = IF @ = {} THEN {} ELSE @ \cup {r}]]
  /\ UNCHANGED <<kind, calls, meta>>

\* Mutant: the database keeps the locks of a call that raised.
FailLocked(c) ==
  /\ call[c].pc # "idle"
  /\ Go(c, [Idle EXCEPT !.held = call[c].held])

\* The call raises: its connection drops, its process dies, a statement is
\* refused.  Nothing it wrote was committed and its locks are given back.
Fail(c) ==
  /\ call[c].pc # "idle"
  /\ Go(c, Idle)

\* A read statement sees the committed rows.
Read(c) ==
  LET me == call[c]
      s  == Head(me.todo)
  IN  /\ me.pc = "read" /\ me.todo # <<>>
      /\ Go(c, [me EXCEPT !.todo = Tail(@),
                          !.work = Overlay(@, [p \in s.at |-> rows[p]])])

\* get_many has all its rows and hands them over.
Got(c) ==
  /\ call[c].pc = "read" /\ call[c].todo = <<>>
  /\ Go(c, IF call[c].op = "snapshot" THEN [call[c] EXCEPT !.pc = "stamp"] ELSE Idle)

\* SnapshotMeta.next, under its lock, after the rows were read.
Stamp(c) ==
  /\ call[c].pc = "stamp"
  /\ seq' = seq + 1
  /\ last' = seq + 1
  /\ snaps' = snaps \cup {[id |-> seq + 1, parent |-> last,
                           rows |-> Overlay(Gone(Pair), call[c].work)]}
  /\ call' = [call EXCEPT ![c] = Idle]
  /\ UNCHANGED <<kind, rows, calls>>

\* A snapshot may be taken: ids handed out and reads under way stay in bounds.
MaySnap == seq + Cardinality({c \in Client : call[c].op = "snapshot"}) < MaxSnaps

=============================================================================

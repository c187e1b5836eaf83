---------------------------- MODULE Connections ----------------------------
(***************************************************************************)
(* How the persistent backends open, share and close connections.          *)
(*                                                                         *)
(* "threads": DiskStore keeps one SQLite connection per thread in          *)
(* self._local and all of them in self._conns, so that close() can shut    *)
(* them down.  "tasks": PostgresStore keeps one asynchronous pool per      *)
(* event loop in self._apools; tasks of the loop run one at a time and     *)
(* change over only where they await.  "clients": RedisStore keeps one     *)
(* client per event loop in self._aclients, made without awaiting.         *)
(*                                                                         *)
(* A handle is a SQLite connection, a pool or a client.                    *)
(***************************************************************************)
EXTENDS Naturals, FiniteSets

CONSTANTS
  User,       \* threads or tasks that make calls
  Closer,     \* threads or tasks that call close() or aclose()
  None,       \* no handle
  MaxHandles, \* bound: handles opened
  MaxCloses   \* bound: close() calls

ASSUME ConnectionsAssumption ==
  /\ User \cap Closer = {}
  /\ MaxHandles \in Nat /\ MaxCloses \in Nat
  /\ None \notin Nat

VARIABLES
  kind,    \* "threads", "tasks" or "clients"
  made,    \* handles opened so far: 1 .. made
  open,    \* those not closed
  known,   \* self._conns, or the loop's entry in self._apools or self._aclients
  mine,    \* self._local.conn per thread
  pc,      \* where each user and each closer is
  hand,    \* per user, the handle its call works with
  spare,   \* per task, the pool it opened in vain
  popped,  \* per closer, the handles it is closing
  clean,   \* history: no close has overlapped the user's call so far
  closes   \* close() calls made

vars == <<kind, made, open, known, mine, pc, hand, spare, popped, clean, closes>>

Handle == 1 .. MaxHandles

TypeOK ==
  /\ kind \in {"threads", "tasks", "clients"}
  /\ made \in 0 .. MaxHandles
  /\ open \subseteq Handle /\ known \subseteq Handle
  /\ mine \in [User -> Handle \cup {None}]
  /\ pc \in [User \cup Closer -> {"idle", "opened", "kept", "opening", "losing",
                                  "use", "closing"}]
  /\ hand \in [User -> Handle \cup {None}]
  /\ spare \in [User -> Handle \cup {None}]
  /\ popped \in [Closer -> SUBSET Handle]
  /\ clean \in [User -> BOOLEAN]
  /\ closes \in 0 .. MaxCloses

Init ==
  /\ kind \in {"threads", "tasks", "clients"}
  /\ made = 0 /\ open = {} /\ known = {}
  /\ mine = [u \in User |-> None]
  /\ pc = [x \in User \cup Closer |-> "idle"]
  /\ hand = [u \in User |-> None]
  /\ spare = [u \in User |-> None]
  /\ popped = [k \in Closer |-> {}]
  /\ clean = [u \in User |-> FALSE]
  /\ closes = 0

To(x, label) == pc' = [pc EXCEPT ![x] = label]
NoCloser     == \A k \in Closer : pc[k] = "idle"
Begun(u)     == clean' = [clean EXCEPT ![u] = NoCloser]

-----------------------------------------------------------------------------
(* DiskStore: _connect, a call on the connection, close *)

\* This thread's connection, or a new one.
Connect(u) ==
  /\ kind = "threads" /\ pc[u] = "idle"
  /\ Begun(u)
  /\ \/ /\ mine[u] # None
        /\ hand' = [hand EXCEPT ![u] = mine[u]]
        /\ To(u, "use")
        /\ UNCHANGED <<made, open>>
     \/ /\ mine[u] = None
        /\ made < MaxHandles
        /\ made' = made + 1
        /\ open' = open \cup {made + 1}
        /\ hand' = [hand EXCEPT ![u] = made + 1]
        /\ To(u, "opened")
  /\ UNCHANGED <<kind, known, mine, spare, popped, closes>>

Keep(u) ==
  /\ pc[u] = "opened"
  /\ mine' = [mine EXCEPT ![u] = hand[u]]
  /\ To(u, "kept")
  /\ UNCHANGED <<kind, made, open, known, hand, spare, popped, clean, closes>>

Register(u) ==
  /\ pc[u] = "kept"
  /\ known' = known \cup {hand[u]}
  /\ To(u, "use")
  /\ UNCHANGED <<kind, made, open, mine, hand, spare, popped, clean, closes>>

\* The call ends; on a closed handle it raises.
Use(u) ==
  /\ pc[u] = "use"
  /\ hand' = [hand EXCEPT ![u] = None]
  /\ To(u, "idle")
  /\ UNCHANGED <<kind, made, open, known, mine, spare, popped, clean, closes>>

\* close() and aclose() first take the handles out of the registry ...
Close(k) ==
  /\ pc[k] = "idle" /\ closes < MaxCloses
  /\ popped' = [popped EXCEPT ![k] = known]
  /\ known' = {}
  /\ To(k, "closing")
  /\ clean' = [u \in User |-> FALSE]
  /\ closes' = closes + 1
  /\ UNCHANGED <<kind, made, open, mine, hand, spare>>

\* ... then close them one after the other ...
CloseOne(k) ==
  /\ pc[k] = "closing"
  /\ \E h \in popped[k] :
       /\ popped' = [popped EXCEPT ![k] = @ \ {h}]
       /\ open' = open \ {h}
  /\ UNCHANGED <<kind, made, known, mine, pc, hand, spare, clean, closes>>

\* Mutant: threads keep the connections that were just closed.
ForgetNone == mine

\* close() replaces self._local, so every thread opens a new connection.
Forget == [u \in User |-> None]

\* ... and the store is ready to be used again.
Closed(k) ==
  /\ pc[k] = "closing" /\ popped[k] = {}
  /\ mine' = IF kind = "threads" THEN Forget ELSE mine
  /\ To(k, "idle")
  /\ UNCHANGED <<kind, made, open, known, hand, spare, popped, clean, closes>>

-----------------------------------------------------------------------------
(* RedisStore: _ar on one event loop *)

\* The loop's client, or a new one, registered at once.
Client(u) ==
  /\ kind = "clients" /\ pc[u] = "idle"
  /\ Begun(u)
  /\ \/ /\ known # {}
        /\ hand' = [hand EXCEPT ![u] = CHOOSE h \in known : TRUE]
        /\ UNCHANGED <<made, open, known>>
     \/ /\ known = {} /\ made < MaxHandles
        /\ made' = made + 1
        /\ open' = open \cup {made + 1}
        /\ known' = {made + 1}
        /\ hand' = [hand EXCEPT ![u] = made + 1]
  /\ To(u, "use")
  /\ UNCHANGED <<kind, mine, spare, popped, closes>>

-----------------------------------------------------------------------------
(* PostgresStore: _aconnection on one event loop *)

\* The loop's pool; if there is none this task goes to open one.
Enter(u) ==
  /\ kind = "tasks" /\ pc[u] = "idle"
  /\ Begun(u)
  /\ \/ /\ known # {}
        /\ hand' = [hand EXCEPT ![u] = CHOOSE h \in known : TRUE]
        /\ To(u, "use")
     \/ /\ known = {}
        /\ To(u, "opening")
        /\ UNCHANGED hand
  /\ UNCHANGED <<kind, made, open, known, mine, spare, popped, closes>>

\* Mutant: the pool just opened replaces whatever is registered.
Replace(h) == {h}

\* setdefault: the first pool registered stays.
SetDefault(h) == IF known = {} THEN {h} ELSE known

\* pool.open() is done: register it, or close it again if another task won.
Opened(u) ==
  LET h == made + 1 IN
  /\ pc[u] = "opening" /\ made < MaxHandles
  /\ made' = h
  /\ open' = open \cup {h}
  /\ known' = SetDefault(h)
  /\ hand' = [hand EXCEPT ![u] = CHOOSE x \in SetDefault(h) : TRUE]
  /\ IF h \in SetDefault(h)
     THEN To(u, "use") /\ UNCHANGED spare
     ELSE To(u, "losing") /\ spare' = [spare EXCEPT ![u] = h]
  /\ UNCHANGED <<kind, mine, popped, clean, closes>>

\* The server refuses: the call raises, nothing is registered.
OpenFails(u) ==
  /\ pc[u] = "opening"
  /\ To(u, "idle")
  /\ UNCHANGED <<kind, made, open, known, mine, hand, spare, popped, clean, closes>>

CloseSpare(u) ==
  /\ pc[u] = "losing"
  /\ open' = open \ {spare[u]}
  /\ spare' = [spare EXCEPT ![u] = None]
  /\ To(u, "use")
  /\ UNCHANGED <<kind, made, known, mine, hand, popped, clean, closes>>

-----------------------------------------------------------------------------
UserStep(u) ==
  \/ Keep(u) \/ Register(u) \/ Use(u)
  \/ Opened(u) \/ OpenFails(u) \/ CloseSpare(u)

Next ==
  \/ \E u \in User : Connect(u) \/ Client(u) \/ Enter(u) \/ UserStep(u)
  \/ \E k \in Closer : Close(k) \/ CloseOne(k) \/ Closed(k)

Spec == Init /\ [][Next]_vars

-----------------------------------------------------------------------------
(* Properties *)

\* The handles somebody is about to register or to close.
InHand ==
  {hand[u] : u \in {w \in User : pc[w] \in {"opened", "kept"}}}
  \cup {spare[u] : u \in {w \in User : pc[w] = "losing"}}
  \cup UNION {popped[k] : k \in Closer}

\* No connection or pool is lost: whatever is open is registered, where the
\* next close() finds it, or in the hands of the call that opened it or of the
\* close() that will close it (disk.py:77, disk.py:261, postgres.py:339,
\* redis.py:115).
NoOrphan == open \subseteq known \cup InHand

\* A call that no close() overlaps works on an open connection: after close()
\* threads reconnect instead of finding their closed one, and a task that lost
\* the race to open the loop's pool uses the winner's.
WorksAfterClose == \A u \in User : pc[u] = "use" /\ clean[u] => hand[u] \in open
=============================================================================

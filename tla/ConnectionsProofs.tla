------------------------- MODULE ConnectionsProofs -------------------------
(***************************************************************************)
(* No connection is lost and calls work after close(), for any number of   *)
(* users, closers, connections and close() calls.                          *)
(*                                                                         *)
(* What carries both proofs is who owns a handle: it is registered, or     *)
(* being closed, or still in the hands of the one call that opened it.     *)
(***************************************************************************)
EXTENDS Connections, TLAPS

Private(u) == pc[u] \in {"opened", "kept"}

\* Handles are numbered as they are opened; the registered ones are open, and
\* no close() is working on them.
Registered ==
  /\ open \subseteq 1 .. made
  /\ known \subseteq open
  /\ \A k \in Closer : popped[k] \subseteq 1 .. made /\ popped[k] \cap known = {}
  /\ \A k \in Closer : pc[k] = "idle" => popped[k] = {}

\* A connection not yet registered is open and belongs to one call.
Owned ==
  \A u \in User : Private(u) =>
    /\ kind = "threads"
    /\ hand[u] \in open \ known
    /\ \A k \in Closer : hand[u] \notin popped[k]
    /\ \A w \in User \ {u} : Private(w) => hand[w] # hand[u]

\* A pool opened in vain is not the registered one.
Spared ==
  \A u \in User :
    /\ pc[u] \in {"opening", "losing"} => kind = "tasks"
    /\ pc[u] = "losing" => spare[u] \in 1 .. made /\ spare[u] \notin known

\* A thread's connection is registered unless it is being closed.
Remembered ==
  \A u \in User : kind = "threads" =>
    IF pc[u] = "kept" THEN mine[u] \in {None, hand[u]}
    ELSE mine[u] = None \/ mine[u] \in known \/ ~NoCloser

\* A call that no close() overlaps works with a registered handle.
Current ==
  \A u \in User : clean[u] /\ pc[u] \in {"use", "losing"} => hand[u] \in known

IInv == TypeOK /\ Registered /\ Owned /\ Spared /\ Remembered /\ Current /\ NoOrphan

USE DEF Handle

\* Nothing is open to begin with.
LEMMA InitInv == Init => IInv
BY ConnectionsAssumption
   DEF Init, IInv, TypeOK, Registered, Owned, Spared, Remembered, Current, NoOrphan,
       Private, InHand

\* What a call notes at its start is a Boolean.
LEMMA BegunType ==
  ASSUME NEW u \in User, clean \in [User -> BOOLEAN], Begun(u)
  PROVE  clean' \in [User -> BOOLEAN]
<1>1. NoCloser \in BOOLEAN
  BY DEF NoCloser
<1> QED BY <1>1 DEF Begun

\* A handle that is opened is a new one.
LEMMA NewHandle ==
  ASSUME IInv, made < MaxHandles
  PROVE  /\ made + 1 \in 1 .. MaxHandles
         /\ made + 1 \in 1 .. made + 1
         /\ 1 .. made \subseteq 1 .. made + 1
         /\ made + 1 \notin 1 .. made
         /\ made + 1 \in 0 .. MaxHandles
BY ConnectionsAssumption DEF IInv, TypeOK

\* A thread that finds no connection opens a new one, in its own hands.
LEMMA ConnectInv ==
  ASSUME NEW u \in User, IInv, Connect(u)
  PROVE  IInv'
<1> USE ConnectionsAssumption DEF IInv
<1>0. clean' \in [User -> BOOLEAN]
  BY BegunType DEF Connect, TypeOK
<1>1. TypeOK'
  <2>1. made' \in 0 .. MaxHandles /\ open' \subseteq Handle
    BY NewHandle DEF Connect, TypeOK
  <2>2. hand' \in [User -> Handle \cup {None}]
    BY NewHandle DEF Connect, TypeOK
  <2> QED BY <1>0, <2>1, <2>2 DEF Connect, To, TypeOK
<1>2. Registered'
  BY NewHandle DEF Connect, To, TypeOK, Registered
<1>3. Owned'
  BY DEF Connect, To, TypeOK, Begun, NoCloser, Registered, Owned, Spared, Private
<1>4. Spared'
  BY DEF Connect, To, TypeOK, Begun, NoCloser, Registered, Spared
<1>5. Remembered'
  BY DEF Connect, To, TypeOK, Begun, NoCloser, Remembered, Owned, Private
<1>6. Current'
  BY DEF Connect, To, TypeOK, Begun, NoCloser, Registered, Remembered, Current
<1>7. NoOrphan'
  <2>1. open' \subseteq open \cup {made + 1}
    BY DEF Connect
  <2>2. open' # open => made + 1 \in known' \cup InHand'
    BY DEF Connect, To, TypeOK, InHand
  <2>3. known \cup InHand \subseteq known' \cup InHand'
    BY DEF Connect, To, TypeOK, InHand
  <2> QED BY <2>1, <2>2, <2>3 DEF NoOrphan
<1> QED BY <1>1, <1>2, <1>3, <1>4, <1>5, <1>6, <1>7

\* self._local changes, and the connection stays in the thread's hands.
LEMMA KeepInv ==
  ASSUME NEW u \in User, IInv, Keep(u)
  PROVE  IInv'
<1> USE ConnectionsAssumption DEF IInv
<1>1. TypeOK'
  BY DEF Keep, To, TypeOK
<1>2. Registered'
  BY DEF Keep, To, TypeOK, Registered, Owned, Spared, Private
<1>3. Owned'
  BY DEF Keep, To, TypeOK, Registered, Owned, Spared, Private
<1>4. Spared'
  BY DEF Keep, To, TypeOK, Registered, Spared
<1>5. Remembered'
  BY DEF Keep, To, TypeOK, Remembered, Owned, Private, NoCloser
<1>6. Current'
  BY DEF Keep, To, TypeOK, Registered, Remembered, Current, NoCloser
<1>7. NoOrphan'
  BY DEF Keep, To, TypeOK, Registered, Owned, Spared, NoOrphan, InHand, Private
<1> QED BY <1>1, <1>2, <1>3, <1>4, <1>5, <1>6, <1>7

\* A thread hands its connection over to the registry.
LEMMA RegisterInv ==
  ASSUME NEW u \in User, IInv, Register(u)
  PROVE  IInv'
<1> USE ConnectionsAssumption DEF IInv
<1>1. TypeOK'
  BY DEF Register, To, TypeOK, Owned, Private
<1>2. Registered'
  <2>1. known' = known \cup {hand[u]} /\ hand[u] \in open
    BY DEF Register, Owned, Private
  <2>2. \A k \in Closer : popped[k] \cap known' = {}
    BY <2>1 DEF Register, Registered, Owned, Private
  <2>3. \A k \in Closer : pc'[k] = pc[k] /\ popped'[k] = popped[k]
    BY DEF Register, To, TypeOK
  <2> QED BY <2>1, <2>2, <2>3 DEF Register, Registered
<1>3. Owned'
  BY DEF Register, To, TypeOK, Registered, Owned, Spared, Private
<1>4. Spared'
  BY DEF Register, To, TypeOK, Spared, Owned, Private
<1>5. Remembered'
  BY DEF Register, To, TypeOK, Remembered, Owned, Private, NoCloser
<1>6. Current'
  BY DEF Register, To, TypeOK, Registered, Remembered, Current, NoCloser
<1>7. NoOrphan'
  BY DEF Register, To, TypeOK, Registered, Owned, Spared, NoOrphan, InHand, Private
<1> QED BY <1>1, <1>2, <1>3, <1>4, <1>5, <1>6, <1>7

\* The end of a call touches no handle.
LEMMA UseInv ==
  ASSUME NEW u \in User, IInv, Use(u)
  PROVE  IInv'
<1> USE ConnectionsAssumption DEF IInv
<1>1. TypeOK'
  BY DEF Use, To, TypeOK
<1>2. Registered'
  BY DEF Use, To, TypeOK, Registered, Owned, Spared, Private
<1>3. Owned'
  BY DEF Use, To, TypeOK, Registered, Owned, Spared, Private
<1>4. Spared'
  BY DEF Use, To, TypeOK, Registered, Spared
<1>5. Remembered'
  BY DEF Use, To, TypeOK, Remembered, Owned, Private, NoCloser
<1>6. Current'
  BY DEF Use, To, TypeOK, Registered, Remembered, Current, NoCloser
<1>7. NoOrphan'
  BY DEF Use, To, TypeOK, Registered, Owned, Spared, NoOrphan, InHand, Private
<1> QED BY <1>1, <1>2, <1>3, <1>4, <1>5, <1>6, <1>7

\* close() takes over what is registered, and no call under way is clean.
LEMMA CloseInv ==
  ASSUME NEW k \in Closer, IInv, Close(k)
  PROVE  IInv'
<1> USE ConnectionsAssumption DEF IInv
<1>1. TypeOK'
  BY DEF Close, To, TypeOK
<1>2. Registered'
  BY DEF Close, To, TypeOK, Registered, Owned, Spared, Private
<1>3. Owned'
  BY DEF Close, To, TypeOK, Registered, Owned, Spared, Private
<1>4. Spared'
  BY DEF Close, To, TypeOK, Registered, Spared
<1>5. Remembered'
  BY DEF Close, To, TypeOK, Remembered, Owned, Private, NoCloser
<1>6. Current'
  BY DEF Close, To, TypeOK, Registered, Remembered, Current, NoCloser
<1>7. NoOrphan'
  BY DEF Close, To, TypeOK, Registered, Owned, Spared, NoOrphan, InHand, Private
<1> QED BY <1>1, <1>2, <1>3, <1>4, <1>5, <1>6, <1>7

\* close() closes a handle that is no longer registered.
LEMMA CloseOneInv ==
  ASSUME NEW k \in Closer, IInv, CloseOne(k)
  PROVE  IInv'
<1> USE ConnectionsAssumption DEF IInv
<1>1. TypeOK'
  BY DEF CloseOne, To, TypeOK
<1>2. Registered'
  BY DEF CloseOne, To, TypeOK, Registered, Owned, Spared, Private
<1>3. Owned'
  BY DEF CloseOne, To, TypeOK, Registered, Owned, Spared, Private
<1>4. Spared'
  BY DEF CloseOne, To, TypeOK, Registered, Spared
<1>5. Remembered'
  BY DEF CloseOne, To, TypeOK, Remembered, Owned, Private, NoCloser
<1>6. Current'
  BY DEF CloseOne, To, TypeOK, Registered, Remembered, Current, NoCloser
<1>7. NoOrphan'
  BY DEF CloseOne, To, TypeOK, Registered, Owned, Spared, NoOrphan, InHand, Private
<1> QED BY <1>1, <1>2, <1>3, <1>4, <1>5, <1>6, <1>7

\* close() forgets the threads' connections when its last one is closed.
LEMMA ClosedInv ==
  ASSUME NEW k \in Closer, IInv, Closed(k)
  PROVE  IInv'
<1> USE ConnectionsAssumption DEF IInv
<1>1. TypeOK'
  BY DEF Closed, To, TypeOK, Forget
<1>2. Registered'
  BY DEF Closed, To, TypeOK, Forget, Registered, Owned, Spared, Private
<1>3. Owned'
  BY DEF Closed, To, TypeOK, Forget, Registered, Owned, Spared, Private
<1>4. Spared'
  BY DEF Closed, To, TypeOK, Forget, Registered, Spared
<1>5. Remembered'
  BY DEF Closed, To, TypeOK, Forget, Remembered, Owned, Private, NoCloser
<1>6. Current'
  BY DEF Closed, To, TypeOK, Forget, Registered, Remembered, Current, NoCloser
<1>7. NoOrphan'
  BY DEF Closed, To, TypeOK, Forget, Registered, Owned, Spared, NoOrphan, InHand, Private
<1> QED BY <1>1, <1>2, <1>3, <1>4, <1>5, <1>6, <1>7

\* A client is registered in the step that makes it.
LEMMA ClientInv ==
  ASSUME NEW u \in User, IInv, Client(u)
  PROVE  IInv'
<1> USE ConnectionsAssumption DEF IInv
<1>0. clean' \in [User -> BOOLEAN]
  BY BegunType DEF Client, TypeOK
<1>1. TypeOK'
  <2>1. made' \in 0 .. MaxHandles /\ open' \subseteq Handle /\ known' \subseteq Handle
    BY NewHandle DEF Client, TypeOK
  <2>2. hand' \in [User -> Handle \cup {None}]
    BY NewHandle DEF Client, TypeOK
  <2> QED BY <1>0, <2>1, <2>2 DEF Client, To, TypeOK
<1>2. Registered'
  <2>1. /\ open' \subseteq 1 .. made'
        /\ known' \subseteq open'
    BY NewHandle DEF Client, TypeOK, Registered
  <2>2. \A k \in Closer : popped[k] \subseteq 1 .. made' /\ popped[k] \cap known' = {}
    BY NewHandle DEF Client, TypeOK, Registered
  <2>3. \A k \in Closer : pc'[k] = pc[k] /\ popped'[k] = popped[k]
    BY DEF Client, To, TypeOK
  <2> QED BY <2>1, <2>2, <2>3 DEF Registered
<1>3. Owned'
  BY DEF Client, To, TypeOK, Begun, NoCloser, Registered, Owned, Spared, Private
<1>4. Spared'
  BY DEF Client, To, TypeOK, Begun, NoCloser, Registered, Spared
<1>5. Remembered'
  BY DEF Client, To, TypeOK, Begun, NoCloser, Remembered, Owned, Private
<1>6. Current'
  BY DEF Client, To, TypeOK, Begun, NoCloser, Registered, Remembered, Current
<1>7. NoOrphan'
  <2>1. open' \subseteq open \cup {made + 1}
    BY DEF Client
  <2>2. open' # open => made + 1 \in known' \cup InHand'
    BY DEF Client, To, TypeOK, InHand
  <2>3. known \subseteq known'
    BY DEF Client
  <2>4. ASSUME NEW w \in User, pc[w] # "idle" \/ pc'[w] # "use"
        PROVE  pc'[w] = pc[w] /\ hand'[w] = hand[w] /\ spare'[w] = spare[w]
    BY <2>4 DEF Client, To, TypeOK
  <2>5. InHand \subseteq InHand'
    BY <2>4 DEF Client, InHand
  <2> QED BY <2>1, <2>2, <2>3, <2>5 DEF NoOrphan
<1> QED BY <1>1, <1>2, <1>3, <1>4, <1>5, <1>6, <1>7

\* A task uses the registered pool or goes to open one.
LEMMA EnterInv ==
  ASSUME NEW u \in User, IInv, Enter(u)
  PROVE  IInv'
<1> USE ConnectionsAssumption DEF IInv
<1>1. TypeOK'
  BY ZenonT(60) DEF Enter, To, TypeOK, Begun, NoCloser
<1>2. Registered'
  BY DEF Enter, To, TypeOK, Begun, NoCloser, Registered, Owned, Spared, Private
<1>3. Owned'
  BY DEF Enter, To, TypeOK, Begun, NoCloser, Registered, Owned, Spared, Private
<1>4. Spared'
  BY DEF Enter, To, TypeOK, Begun, NoCloser, Registered, Spared
<1>5. Remembered'
  BY DEF Enter, To, TypeOK, Begun, NoCloser, Remembered, Owned, Private
<1>6. Current'
  BY DEF Enter, To, TypeOK, Begun, NoCloser, Registered, Remembered, Current
<1>7. NoOrphan'
  BY DEF Enter, To, TypeOK, Begun, NoCloser, Registered, Owned, Spared, NoOrphan, InHand, Private
<1> QED BY <1>1, <1>2, <1>3, <1>4, <1>5, <1>6, <1>7

\* A new pool is registered or it is spare.
LEMMA OpenedInv ==
  ASSUME NEW u \in User, IInv, Opened(u)
  PROVE  IInv'
<1> USE ConnectionsAssumption DEF IInv
<1>1. TypeOK'
  BY NewHandle, ZenonT(60) DEF Opened, To, TypeOK, SetDefault
<1>2. Registered'
  BY DEF Opened, To, TypeOK, SetDefault, Registered, Owned, Spared, Private
<1>3. Owned'
  BY DEF Opened, To, TypeOK, SetDefault, Registered, Owned, Spared, Private
<1>4. Spared'
  BY DEF Opened, To, TypeOK, SetDefault, Registered, Spared
<1>5. Remembered'
  BY DEF Opened, To, TypeOK, SetDefault, Remembered, Owned, Private, NoCloser
<1>6. Current'
  BY ZenonT(60) DEF Opened, To, TypeOK, SetDefault, Registered, Remembered, Current, NoCloser
<1>7. NoOrphan'
  BY DEF Opened, To, TypeOK, SetDefault, Registered, Owned, Spared, NoOrphan, InHand, Private
<1> QED BY <1>1, <1>2, <1>3, <1>4, <1>5, <1>6, <1>7

\* A pool that could not be opened was never a handle.
LEMMA OpenFailsInv ==
  ASSUME NEW u \in User, IInv, OpenFails(u)
  PROVE  IInv'
<1> USE ConnectionsAssumption DEF IInv
<1>1. TypeOK'
  BY DEF OpenFails, To, TypeOK
<1>2. Registered'
  BY DEF OpenFails, To, TypeOK, Registered, Owned, Spared, Private
<1>3. Owned'
  BY DEF OpenFails, To, TypeOK, Registered, Owned, Spared, Private
<1>4. Spared'
  BY DEF OpenFails, To, TypeOK, Registered, Spared
<1>5. Remembered'
  BY DEF OpenFails, To, TypeOK, Remembered, Owned, Private, NoCloser
<1>6. Current'
  BY DEF OpenFails, To, TypeOK, Registered, Remembered, Current, NoCloser
<1>7. NoOrphan'
  BY DEF OpenFails, To, TypeOK, Registered, Owned, Spared, NoOrphan, InHand, Private
<1> QED BY <1>1, <1>2, <1>3, <1>4, <1>5, <1>6, <1>7

\* A task closes only what it opened in vain.
LEMMA CloseSpareInv ==
  ASSUME NEW u \in User, IInv, CloseSpare(u)
  PROVE  IInv'
<1> USE ConnectionsAssumption DEF IInv
<1>1. TypeOK'
  BY DEF CloseSpare, To, TypeOK
<1>2. Registered'
  BY DEF CloseSpare, To, TypeOK, Registered, Owned, Spared, Private
<1>3. Owned'
  BY DEF CloseSpare, To, TypeOK, Registered, Owned, Spared, Private
<1>4. Spared'
  BY DEF CloseSpare, To, TypeOK, Registered, Spared
<1>5. Remembered'
  BY DEF CloseSpare, To, TypeOK, Remembered, Owned, Private, NoCloser
<1>6. Current'
  BY DEF CloseSpare, To, TypeOK, Registered, Remembered, Current, NoCloser
<1>7. NoOrphan'
  <2>1. open' = open \ {spare[u]} /\ known' = known
    BY DEF CloseSpare
  <2>2. InHand \subseteq InHand' \cup {spare[u]}
    BY DEF CloseSpare, To, TypeOK, InHand
  <2> QED BY <2>1, <2>2 DEF NoOrphan
<1> QED BY <1>1, <1>2, <1>3, <1>4, <1>5, <1>6, <1>7
\* Every step of a user or a closer keeps the invariant.
LEMMA Inductive == IInv /\ [Next]_vars => IInv'
<1> SUFFICES ASSUME IInv, [Next]_vars PROVE IInv'
  OBVIOUS
<1>1. ASSUME NEW u \in User, Connect(u) \/ Client(u) \/ Enter(u) \/ UserStep(u)
      PROVE  IInv'
  BY <1>1, ConnectInv, ClientInv, EnterInv, KeepInv, RegisterInv, UseInv, OpenedInv,
     OpenFailsInv, CloseSpareInv DEF UserStep
<1>2. ASSUME NEW k \in Closer, Close(k) \/ CloseOne(k) \/ Closed(k)
      PROVE  IInv'
  BY <1>2, CloseInv, CloseOneInv, ClosedInv
<1>3. CASE UNCHANGED vars
  BY <1>3 DEF vars, IInv, TypeOK, Registered, Owned, Spared, Remembered, Current,
     NoOrphan, Private, InHand, NoCloser
<1> QED BY <1>1, <1>2, <1>3 DEF Next

\* The inductive invariant holds in every state of every run.
LEMMA Always == Spec => []IInv
BY InitInv, Inductive, PTL DEF Spec

\* No connection, pool or client is lost, however calls and close() interleave:
\* an open one is registered or in the hands of a call that will register or
\* close it (disk.py _connect and close, postgres.py _aconnection and aclose,
\* redis.py _ar and aclose).
THEOREM ConnectionsNoOrphan == Spec => []NoOrphan
<1>1. IInv => NoOrphan
  BY DEF IInv
<1> QED BY <1>1, Always, PTL

\* A call that no close() overlaps never meets a closed connection, also after
\* any number of close() calls and lost races to open the loop's pool.
THEOREM ConnectionsWorkAfterClose == Spec => []WorksAfterClose
<1>1. IInv => WorksAfterClose
  BY DEF IInv, Registered, Current, WorksAfterClose
<1> QED BY <1>1, Always, PTL
=============================================================================

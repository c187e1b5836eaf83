--------------------------- MODULE BackendsProofs ---------------------------
(***************************************************************************)
(* Writes of the persistent backends land whole and reads are as coherent  *)
(* as the database makes them, for any callers, rows, batches and number   *)
(* of calls.                                                               *)
(*                                                                         *)
(* Both are arguments about one call at a time: whatever the other callers *)
(* do, all they change for it is that the rows become something else, and  *)
(* `seen` remembers it.  The invariant is therefore one of a call record.  *)
(***************************************************************************)
EXTENDS Backends, SequenceTheorems, FiniteSetTheorems, TLAPS

Entry == Val \cup {Nil}
Table == [Pair -> Entry]
Part  == UNION {[D -> Entry] : D \in SUBSET Pair}
Dos   == {"read", "upsert", "insert", "delete", "drop"}
Stmt  == [do : Dos, at : SUBSET Pair, v : Entry]

Pcs == {"idle", "auto", "begin", "rows", "exec", "scan", "read", "stamp"}
Ops == {"none", "set", "delete", "set_many"} \cup Wipes \cup Reads

CallRecord ==
  [pc : Pcs, op : Ops, ask : Part, todo : Seq(Stmt), work : Part,
   held : SUBSET Pair, seen : SUBSET Table, left : SUBSET NS, list : SUBSET NS]

Types ==
  /\ kind \in {"disk", "postgres", "redis"}
  /\ rows \in Table
  /\ call \in [Client -> CallRecord]
  /\ \A s \in snaps : s.rows \in Table

-----------------------------------------------------------------------------
(* The invariant of one call: k is the kind of backend, now the rows *)

\* What is seen includes what is there now; who reads or wipes looks.
SeenOK(now, me) ==
  /\ me.seen # {} => now \in me.seen
  /\ me.op \in Reads \cup Wipes => me.seen # {}

\* The row p of a transaction that asks for it is written as asked, or will be,
\* or may be passed over: it was not there at some moment of the DELETE.
Due(k, me, p) ==
  \/ p \in DOMAIN me.work /\ me.work[p] = me.ask[p]
  \/ \E j \in 1 .. Len(me.todo) : p \in me.todo[j].at /\ me.todo[j].v = me.ask[p]
  \/ /\ k # "disk" /\ me.ask[p] = Nil /\ p \notin DOMAIN me.work
     /\ \E r \in me.seen : r[p] = Nil
     /\ \A i \in 1 .. Len(me.todo) : me.todo[i].do # "delete"

\* A statement that leaves the row p otherwise is followed by one that does not.
Corrected(me, p) ==
  \A i \in 1 .. Len(me.todo) : p \in me.todo[i].at /\ me.todo[i].v # me.ask[p] =>
    \E j \in i + 1 .. Len(me.todo) : p \in me.todo[j].at /\ me.todo[j].v = me.ask[p]

\* The rows of a DELETE are dropped one by one before anything is written.
DropsFirst(me) ==
  \A i \in 1 .. Len(me.todo) : me.todo[i].do = "drop" =>
    /\ \E p \in Pair : me.todo[i].at = {p}
    /\ \A j \in 1 .. i : me.todo[j].v = Nil
    /\ \A p \in DOMAIN me.work : me.work[p] = Nil

\* On Postgres a DELETE is the first statement of its transaction.
DeleteFirst(k, me) ==
  k = "postgres" =>
    \A i \in 1 .. Len(me.todo) : me.todo[i].do = "delete" =>
      i = 1 /\ me.work = NoRows /\ me.todo[i].v = Nil

PlanOK(k, me) ==
  me.pc \in {"begin", "rows"} =>
    /\ DOMAIN me.work \subseteq DOMAIN me.ask
    /\ \A i \in 1 .. Len(me.todo) : me.todo[i].at \subseteq DOMAIN me.ask
    /\ \A p \in DOMAIN me.ask : Due(k, me, p) /\ Corrected(me, p)
    /\ DropsFirst(me)
    /\ DeleteFirst(k, me)

\* A hash that SCAN passed by was not there.
ScanOK(me) ==
  me.pc \in {"scan", "exec"} /\ me.op \in {"clear", "restore"} =>
    /\ DOMAIN me.ask = Pair
    /\ me.pc = "exec" => me.left = {}
    /\ \A n \in NS : n \in me.left \cup me.list
                     \/ \E r \in me.seen : \A p \in Of(n) : r[p] = Nil

Pieces(k, op) ==
  CASE k = "redis" /\ op = "get_many" -> {{p} : p \in Pair}
    [] k = "redis" /\ op = "snapshot" -> {Of(n) : n \in NS}
    [] k = "disk"  /\ op = "get_many" -> {Of(n) : n \in NS}
    [] OTHER -> {Pair}

\* The rows of g are as they were at some moment of the call.
Coherent(me, g) ==
  \E r \in me.seen : \A p \in g : Overlay(Gone(Pair), me.work)[p] = r[p]

\* Every piece is coherent, or still to be read as a whole.
ReadOK(k, me) ==
  me.op \in Reads =>
    /\ me.pc \in {"read", "scan", "stamp"}
    /\ me.pc = "read" =>
         /\ \A i \in 1 .. Len(me.todo) : me.todo[i].at \in Pieces(k, me.op)
         /\ \A g \in Pieces(k, me.op) :
              (\E i \in 1 .. Len(me.todo) : me.todo[i].at = g) \/ Coherent(me, g)
    /\ me.pc = "stamp" => \A g \in Pieces(k, me.op) : Coherent(me, g)
    /\ me.pc = "scan" =>
         /\ k = "redis" /\ me.op = "snapshot"
         /\ me.left \cap me.list = {}
         /\ \A n \in NS :
              IF n \in me.left \cup me.list THEN Of(n) \cap DOMAIN me.work = {}
              ELSE Coherent(me, Of(n))

\* The steps of a call fit the operation.
PcOK(me) ==
  /\ me.pc = "scan" => me.op \in {"clear", "restore", "snapshot"}
  /\ me.pc = "read" => me.op \in Reads
  /\ me.pc = "stamp" => me.op = "snapshot"

CallOK(k, now, me) ==
  /\ SeenOK(now, me)
  /\ PlanOK(k, me)
  /\ ScanOK(me)
  /\ ReadOK(k, me)
  /\ PcOK(me)

IInv == Types /\ \A c \in Client : CallOK(kind, rows, call[c])

-----------------------------------------------------------------------------
(* Rows *)

LEMMA PartIs ==
  ASSUME NEW f \in Part
  PROVE  DOMAIN f \subseteq Pair /\ \A p \in DOMAIN f : f[p] \in Entry
BY DEF Part

LEMMA TableIsPart == Table \subseteq Part
BY DEF Table, Part

LEMMA OverlayPart ==
  ASSUME NEW f \in Part, NEW g \in Part
  PROVE  Overlay(f, g) \in Part
<1>1. Overlay(f, g) \in [DOMAIN f \cup DOMAIN g -> Entry]
  BY PartIs DEF Overlay
<1>2. DOMAIN f \cup DOMAIN g \in SUBSET Pair
  BY PartIs
<1>. QED  BY <1>1, <1>2 DEF Part

LEMMA OverlayTable ==
  ASSUME NEW f \in Table, NEW g \in Part
  PROVE  Overlay(f, g) \in Table
<1>1. DOMAIN g \subseteq Pair /\ \A p \in DOMAIN g : g[p] \in Entry
  BY PartIs
<1>. QED  BY <1>1 DEF Overlay, Table

\* The rows that a statement leaves, or reads.
LEMMA ConstPart ==
  ASSUME NEW S \in SUBSET Pair, NEW v \in Entry
  PROVE  /\ [p \in S |-> v] \in Part
         /\ All(S, v) \in Part
         /\ DOMAIN All(S, v) = S
         /\ \A p \in S : All(S, v)[p] = v
BY DEF Part, All

LEMMA ReadPart ==
  ASSUME NEW S \in SUBSET Pair, NEW r \in Table
  PROVE  [p \in S |-> r[p]] \in Part
BY DEF Part, Table

LEMMA NoRowsPart == NoRows \in Part /\ DOMAIN NoRows = {}
BY DEF NoRows, Part

LEMMA IdleType == Idle \in CallRecord
<1>1. <<>> \in Seq(Stmt)
  BY EmptySeq
<1>2. ASSUME NEW e \in Seq(Stmt)
      PROVE  [pc |-> "idle", op |-> "none", ask |-> NoRows, todo |-> e, work |-> NoRows,
              held |-> {}, seen |-> {}, left |-> {}, list |-> {}] \in CallRecord
  BY NoRowsPart DEF CallRecord, Pcs, Ops
<1>. QED  BY <1>1, <1>2, Zenon DEF Idle

\* Nothing is asked of an idle call.
LEMMA IdleOK ==
  ASSUME NEW k, NEW now
  PROVE  CallOK(k, now, Idle)
BY DEF CallOK, Idle, SeenOK, PlanOK, ScanOK, ReadOK, PcOK, Reads, Wipes

-----------------------------------------------------------------------------
(* What a step does to the calls *)

\* Another caller's step: the rows become r.
LEMMA Grow ==
  ASSUME NEW k, NEW now \in Table, NEW me \in CallRecord, NEW r \in Table,
         CallOK(k, now, me)
  PROVE  LET m == [me EXCEPT !.seen = IF @ = {} THEN {} ELSE @ \cup {r}]
         IN  m \in CallRecord /\ CallOK(k, r, m)
<1>. DEFINE m == [me EXCEPT !.seen = IF @ = {} THEN {} ELSE @ \cup {r}]
<1>1. /\ m.pc = me.pc /\ m.op = me.op /\ m.ask = me.ask /\ m.todo = me.todo
      /\ m.work = me.work /\ m.held = me.held /\ m.left = me.left /\ m.list = me.list
      /\ m.seen = IF me.seen = {} THEN {} ELSE me.seen \cup {r}
      /\ m \in CallRecord
  BY DEF CallRecord
<1>. HIDE DEF m
<1>2. me.seen \subseteq m.seen
  BY <1>1
<1>3. SeenOK(r, m)
  BY <1>1 DEF CallOK, SeenOK
<1>4. PlanOK(k, m)
  <2>1. SUFFICES ASSUME m.pc \in {"begin", "rows"} PROVE PlanOK(k, m)
    BY DEF PlanOK
  <2>2. PlanOK(k, me)
    BY DEF CallOK
  <2>3. \A p \in DOMAIN me.ask : Due(k, m, p)
    BY <1>1, <1>2, <2>1, <2>2 DEF PlanOK, Due
  <2>. QED  BY <1>1, <2>1, <2>2, <2>3 DEF PlanOK, Corrected, DropsFirst, DeleteFirst
<1>5. ScanOK(m)
  BY <1>1, <1>2 DEF CallOK, ScanOK
<1>6. ReadOK(k, m)
  <2>1. \A g : Coherent(me, g) => Coherent(m, g)
    BY <1>1, <1>2 DEF Coherent
  <2>. QED  BY <1>1, <2>1 DEF CallOK, ReadOK
<1>7. PcOK(m)
  BY <1>1 DEF CallOK, PcOK
<1>. QED  BY <1>1, <1>3, <1>4, <1>5, <1>6, <1>7 DEF CallOK, m

LEMMA GoKeeps ==
  ASSUME IInv, NEW c \in Client, NEW m \in CallRecord, CallOK(kind, rows, m), Go(c, m)
  PROVE  IInv'
BY DEF IInv, Types, Go, meta

LEMMA LandKeeps ==
  ASSUME IInv, NEW c \in Client, NEW r \in Table, Land(c, r)
  PROVE  IInv'
<1>1. /\ kind' = kind /\ rows' = r /\ snaps' = snaps
      /\ call' = [d \in Client |->
                    IF d = c THEN Idle
                    ELSE [call[d] EXCEPT !.seen = IF @ = {} THEN {} ELSE @ \cup {r}]]
  BY DEF Land, meta
<1>2. ASSUME NEW d \in Client
      PROVE  call'[d] \in CallRecord /\ CallOK(kind, r, call'[d])
  <2>1. CASE d = c
    BY <1>1, <2>1, IdleType, IdleOK
  <2>2. CASE d # c
    <3>1. call[d] \in CallRecord /\ rows \in Table /\ CallOK(kind, rows, call[d])
      BY DEF IInv, Types
    <3>. QED  BY <1>1, <2>2, <3>1, Grow
  <2>. QED  BY <2>1, <2>2
<1>3. call' \in [Client -> CallRecord]
  BY <1>1, <1>2
<1>. QED  BY <1>1, <1>2, <1>3 DEF IInv, Types

\* The record of a call that begins.
Fresh(op, pc, ask, todo) ==
  [Idle EXCEPT !.pc = pc, !.op = op, !.ask = ask,
               !.todo = todo, !.left = IF pc = "scan" THEN NS ELSE {},
               !.seen = IF op \in Reads \cup Wipes THEN {rows} ELSE {}]

LEMMA FreshIs ==
  ASSUME Types, NEW op \in Ops, NEW pc \in Pcs, NEW ask \in Part, NEW todo \in Seq(Stmt)
  PROVE  LET m == Fresh(op, pc, ask, todo)
         IN  /\ m \in CallRecord
             /\ m.pc = pc /\ m.op = op /\ m.ask = ask /\ m.todo = todo
             /\ m.work = NoRows /\ m.list = {}
             /\ m.left = IF pc = "scan" THEN NS ELSE {}
             /\ m.seen = IF op \in Reads \cup Wipes THEN {rows} ELSE {}
             /\ SeenOK(rows, m)
BY NoRowsPart DEF Fresh, Idle, CallRecord, Types, SeenOK

LEMMA CallKeeps ==
  ASSUME IInv, NEW c \in Client,
         NEW op \in Ops, NEW pc \in Pcs, NEW ask \in Part, NEW todo \in Seq(Stmt),
         CallOK(kind, rows, Fresh(op, pc, ask, todo)), Call(c, op, pc, ask, todo)
  PROVE  IInv'
<1>1. call' = [call EXCEPT ![c] = Fresh(op, pc, ask, todo)]
  BY DEF Call, Fresh
<1>2. kind' = kind /\ rows' = rows /\ snaps' = snaps
  BY DEF Call, meta
<1>3. Fresh(op, pc, ask, todo) \in CallRecord
  BY FreshIs DEF IInv
<1>. QED  BY <1>1, <1>2, <1>3 DEF IInv, Types

-----------------------------------------------------------------------------
(* Calls that begin *)

LEMMA NonEmpty ==
  ASSUME NEW q \in Seq(Stmt), q # <<>>
  PROVE  Len(q) \in Nat \ {0}
BY EmptySeq

LEMMA EmptyTodo == <<>> \in Seq(Stmt) /\ Len(<<>>) = 0
BY EmptySeq

\* A single statement or MULTI/EXEC, and a scan that is going to delete.
LEMMA PlainCall ==
  ASSUME Types, NEW op \in Ops \ Reads, NEW pc \in {"auto", "exec", "scan"}, NEW ask \in Part,
         NEW todo \in Seq(Stmt),
         pc = "exec" => op \notin {"clear", "restore"},
         pc = "scan" => op \in {"clear", "restore"} /\ ask \in Table
  PROVE  CallOK(kind, rows, Fresh(op, pc, ask, todo))
<1>. DEFINE m == Fresh(op, pc, ask, todo)
<1>1. /\ m.pc = pc /\ m.op = op /\ m.ask = ask
      /\ m.left = IF pc = "scan" THEN NS ELSE {}
      /\ SeenOK(rows, m)
  <2>1. pc \in Pcs /\ op \in Ops
    BY DEF Pcs
  <2>. QED  BY <2>1, FreshIs
<1>2. pc = "scan" => DOMAIN ask = Pair
  BY DEF Table
<1>. HIDE DEF m
<1>3. PlanOK(kind, m) /\ ReadOK(kind, m) /\ PcOK(m)
  BY <1>1 DEF PlanOK, ReadOK, PcOK
<1>4. ScanOK(m)
  BY <1>1, <1>2 DEF ScanOK
<1>. QED  BY <1>1, <1>3, <1>4 DEF CallOK, m

\* A transaction whose statements write what was asked, or delete it first.
LEMMA BatchCall ==
  ASSUME Types, NEW op \in Ops \ Reads, NEW pc \in {"begin", "rows"}, NEW ask \in Part,
         NEW todo \in Seq(Stmt),
         \A i \in 1 .. Len(todo) : todo[i].at \subseteq DOMAIN ask /\ todo[i].do # "drop",
         \A p \in DOMAIN ask : \E j \in 1 .. Len(todo) :
           p \in todo[j].at /\ todo[j].v = ask[p],
         \A p \in DOMAIN ask : \A i \in 1 .. Len(todo) :
           p \in todo[i].at /\ todo[i].v # ask[p] =>
             \E j \in i + 1 .. Len(todo) : p \in todo[j].at /\ todo[j].v = ask[p],
         kind = "postgres" =>
           \A i \in 1 .. Len(todo) : todo[i].do = "delete" => i = 1 /\ todo[i].v = Nil
  PROVE  CallOK(kind, rows, Fresh(op, pc, ask, todo))
<1>. DEFINE m == Fresh(op, pc, ask, todo)
<1>1. /\ m.pc = pc /\ m.op = op /\ m.ask = ask /\ m.todo = todo /\ m.work = NoRows
      /\ SeenOK(rows, m)
  BY FreshIs DEF Pcs
<1>. HIDE DEF m
<1>2. ScanOK(m) /\ ReadOK(kind, m) /\ PcOK(m)
  BY <1>1 DEF ScanOK, ReadOK, PcOK
<1>3. \A p \in DOMAIN ask : Due(kind, m, p) /\ Corrected(m, p)
  BY <1>1 DEF Due, Corrected
<1>4. DropsFirst(m)
  BY <1>1 DEF DropsFirst
<1>5. DeleteFirst(kind, m)
  BY <1>1 DEF DeleteFirst
<1>6. PlanOK(kind, m)
  BY <1>1, <1>3, <1>4, <1>5, NoRowsPart DEF PlanOK
<1>. QED  BY <1>1, <1>2, <1>6 DEF CallOK, m

\* Reads that come to every piece.
LEMMA ReadCall ==
  ASSUME Types, NEW op \in Reads, NEW todo \in Seq(Stmt),
         \A i \in 1 .. Len(todo) : todo[i].at \in Pieces(kind, op),
         \A g \in Pieces(kind, op) : \E i \in 1 .. Len(todo) : todo[i].at = g
  PROVE  CallOK(kind, rows, Fresh(op, "read", NoRows, todo))
<1>. DEFINE m == Fresh(op, "read", NoRows, todo)
<1>1. /\ m.pc = "read" /\ m.op = op /\ m.todo = todo
      /\ SeenOK(rows, m)
  <2>1. "read" \in Pcs /\ op \in Ops
    BY DEF Pcs, Ops
  <2>. QED  BY <2>1, NoRowsPart, FreshIs
<1>. HIDE DEF m
<1>2. PlanOK(kind, m) /\ ReadOK(kind, m) /\ PcOK(m)
  BY <1>1 DEF PlanOK, ReadOK, PcOK
<1>3. ScanOK(m)
  BY <1>1 DEF ScanOK
<1>. QED  BY <1>1, <1>2, <1>3 DEF CallOK, m

LEMMA ScanReadCall ==
  ASSUME Types, kind = "redis", NEW todo \in Seq(Stmt)
  PROVE  CallOK(kind, rows, Fresh("snapshot", "scan", NoRows, todo))
<1>. DEFINE m == Fresh("snapshot", "scan", NoRows, todo)
<1>1. /\ m.pc = "scan" /\ m.op = "snapshot" /\ m.work = NoRows /\ m.left = NS /\ m.list = {}
      /\ SeenOK(rows, m)
  <2>1. "scan" \in Pcs /\ "snapshot" \in Ops
    BY DEF Pcs, Ops, Reads
  <2>. QED  BY <2>1, NoRowsPart, FreshIs
<1>. HIDE DEF m
<1>2. PlanOK(kind, m) /\ ReadOK(kind, m) /\ PcOK(m)
  BY <1>1, NoRowsPart DEF PlanOK, ReadOK, PcOK
<1>3. ScanOK(m)
  BY <1>1 DEF ScanOK
<1>. QED  BY <1>1, <1>2, <1>3 DEF CallOK, m

\* One statement per pair of a list.
LEMMA ListTodo ==
  ASSUME NEW qs \in Seq(Pair), NEW do \in Dos, NEW v \in Entry
  PROVE  LET todo == [i \in DOMAIN qs |-> Send(do, {qs[i]}, v)]
         IN  /\ todo \in Seq(Stmt) /\ Len(todo) = Len(qs)
             /\ \A i \in 1 .. Len(qs) : todo[i] = Send(do, {qs[i]}, v)
             /\ Listed(qs) \in SUBSET Pair
             /\ \A i \in 1 .. Len(qs) : qs[i] \in Listed(qs)
             /\ \A p \in Listed(qs) : \E i \in 1 .. Len(qs) : p = qs[i]
<1>1. DOMAIN qs = 1 .. Len(qs) /\ Len(qs) \in Nat /\ \A i \in 1 .. Len(qs) : qs[i] \in Pair
  BY LenProperties, ElementOfSeq
<1>2. \A i \in 1 .. Len(qs) : Send(do, {qs[i]}, v) \in Stmt
  BY <1>1 DEF Send, Stmt
<1>3. Listed(qs) \in SUBSET Pair /\ (\A i \in 1 .. Len(qs) : qs[i] \in Listed(qs))
      /\ \A p \in Listed(qs) : \E i \in 1 .. Len(qs) : p = qs[i]
  BY <1>1 DEF Listed
<1>. QED  BY <1>1, <1>2, <1>3

-----------------------------------------------------------------------------
(* Every operation begins well *)

\* The orders of a set of rows or namespaces are sequences.
LEMMA OrderIs ==
  ASSUME NEW S, IsFiniteSet(S), NEW q \in Orders(S)
  PROVE  /\ q \in Seq(S)
         /\ \A x \in S : \E i \in 1 .. Len(q) : q[i] = x
<1>1. Cardinality(S) \in Nat
  BY FS_CardinalityType
<1>. QED  BY <1>1 DEF Orders

LEMMA FinitePairs == ASSUME NEW S \in SUBSET Pair PROVE IsFiniteSet(S)
BY BackendAssumption, FS_Subset

LEMMA FiniteNS == IsFiniteSet(NS)
<1>. DEFINE f == [p \in Pair |-> p[1]]
<1>1. f \in Surjection(Pair, NS)
  BY DEF Surjection, NS
<1>. QED  BY <1>1, BackendAssumption, FS_Surjection

LEMMA PlainKeeps ==
  ASSUME IInv, NEW c \in Client,
         NEW op \in Ops \ Reads, NEW pc \in {"auto", "exec", "scan"}, NEW ask \in Part,
         pc = "exec" => op \notin {"clear", "restore"},
         pc = "scan" => op \in {"clear", "restore"} /\ ask \in Table,
         Call(c, op, pc, ask, <<>>)
  PROVE  IInv'
<1>1. PICK todo \in Seq(Stmt) : todo = <<>>
  BY EmptyTodo
<1>2. Call(c, op, pc, ask, todo)
  BY <1>1
<1>3. CallOK(kind, rows, Fresh(op, pc, ask, todo))
  BY PlainCall DEF IInv
<1>. QED  BY <1>2, <1>3, CallKeeps DEF Pcs

LEMMA BatchKeeps ==
  ASSUME IInv, NEW c \in Client,
         NEW op \in Ops \ Reads, NEW pc \in {"begin", "rows"},
         NEW qs \in Lists, NEW do \in {"upsert", "delete"}, NEW v \in Entry,
         kind = "postgres" => do # "delete",
         Call(c, op, pc, All(Listed(qs), v), [i \in DOMAIN qs |-> Send(do, {qs[i]}, v)])
  PROVE  IInv'
<1>. DEFINE todo == [i \in DOMAIN qs |-> Send(do, {qs[i]}, v)]
            ask  == All(Listed(qs), v)
<1>0. qs \in Seq(Pair) /\ do \in Dos
  BY BackendAssumption DEF Dos
<1>1. /\ todo \in Seq(Stmt) /\ Len(todo) = Len(qs)
      /\ \A i \in 1 .. Len(qs) : todo[i] = Send(do, {qs[i]}, v)
      /\ Listed(qs) \in SUBSET Pair
      /\ \A i \in 1 .. Len(qs) : qs[i] \in Listed(qs)
      /\ \A p \in Listed(qs) : \E i \in 1 .. Len(qs) : p = qs[i]
  BY <1>0, ListTodo
<1>2. ask \in Part /\ DOMAIN ask = Listed(qs) /\ \A p \in Listed(qs) : ask[p] = v
  BY <1>1, ConstPart
<1>3. Call(c, op, pc, ask, todo)
  OBVIOUS
<1>. HIDE DEF todo, ask
<1>4. \A i \in 1 .. Len(todo) : todo[i].at \subseteq DOMAIN ask /\ todo[i].do # "drop"
  BY <1>1, <1>2 DEF Send
<1>5. \A p \in DOMAIN ask : \E j \in 1 .. Len(todo) : p \in todo[j].at /\ todo[j].v = ask[p]
  BY <1>1, <1>2, SMTT(60) DEF Send
<1>6. \A p \in DOMAIN ask : \A i \in 1 .. Len(todo) : todo[i].v = ask[p]
  BY <1>1, <1>2 DEF Send
<1>7. kind = "postgres" => \A i \in 1 .. Len(todo) : todo[i].do # "delete"
  BY <1>1 DEF Send
<1>8. CallOK(kind, rows, Fresh(op, pc, ask, todo))
  BY <1>1, <1>2, <1>4, <1>5, <1>6, <1>7, BatchCall DEF IInv
<1>. QED  BY <1>1, <1>2, <1>3, <1>8, CallKeeps DEF Pcs

LEMMA SendIs ==
  \A do, S, v : Send(do, S, v).do = do /\ Send(do, S, v).at = S /\ Send(do, S, v).v = v
BY DEF Send

LEMMA OneStatement ==
  ASSUME NEW do \in Dos, NEW S \in SUBSET Pair, NEW v \in Entry
  PROVE  /\ Send(do, S, v) \in Stmt
         /\ <<Send(do, S, v)>> \in Seq(Stmt)
         /\ Len(<<Send(do, S, v)>>) = 1
         /\ <<Send(do, S, v)>>[1] = Send(do, S, v)
<1>1. Send(do, S, v) \in Stmt
  BY DEF Send, Stmt
<1>. QED  BY <1>1

\* A single INSERT ... ON CONFLICT of Postgres.
LEMMA SingleKeeps ==
  ASSUME IInv, NEW c \in Client, NEW op \in Ops \ Reads, NEW p \in Pair, PgUpsert(c, op, <<p>>)
  PROVE  IInv'
<1>. DEFINE v    == ValOf[c]
            todo == Upserts(<<p>>, v)
            ask  == All({p}, v)
<1>0. v \in Entry /\ "upsert" \in Dos
  BY BackendAssumption DEF Entry, Dos
<1>1. Listed(<<p>>) = {p}
  <2>1. DOMAIN <<p>> = {1} /\ <<p>>[1] = p
    OBVIOUS
  <2>. QED  BY <2>1, Zenon DEF Listed
<1>2. PICK q \in Seq(Pair) : q = <<p>> /\ Len(q) = 1 /\ q[1] = p
  <2>1. <<p>> \in Seq(Pair) /\ Len(<<p>>) = 1 /\ <<p>>[1] = p
    OBVIOUS
  <2>. QED  BY <2>1, Zenon
<1>3. Call(c, op, "rows", ask, todo)
  BY <1>1 DEF PgUpsert
<1>4. /\ todo \in Seq(Stmt) /\ Len(todo) = 1 /\ todo[1] = Send("upsert", {p}, v)
      /\ ask \in Part /\ DOMAIN ask = {p} /\ ask[p] = v
  <2>1. todo = [i \in DOMAIN q |-> Send("upsert", {q[i]}, v)]
    BY <1>2 DEF Upserts
  <2>. HIDE DEF v, todo
  <2>2. todo \in Seq(Stmt) /\ Len(todo) = 1 /\ todo[1] = Send("upsert", {p}, v)
    <3>1. /\ todo \in Seq(Stmt) /\ Len(todo) = Len(q)
          /\ \A i \in 1 .. Len(q) : todo[i] = Send("upsert", {q[i]}, v)
      BY <1>0, <2>1, ListTodo, ZenonT(60)
    <3>2. 1 \in 1 .. Len(q)
      BY <1>2
    <3>. QED  BY <1>2, <3>1, <3>2, Zenon
  <2>3. {p} \in SUBSET Pair
    OBVIOUS
  <2>4. ask \in Part /\ DOMAIN ask = {p} /\ ask[p] = v
    BY <1>0, <2>3, ConstPart
  <2>. QED  BY <2>2, <2>4
<1>. HIDE DEF todo, ask, v
<1>5. todo[1].do = "upsert" /\ todo[1].at = {p} /\ todo[1].v = v
  BY <1>4 DEF Send
<1>6. 1 .. Len(todo) = {1}
  BY <1>4
<1>7. CallOK(kind, rows, Fresh(op, "rows", ask, todo))
  BY <1>4, <1>5, <1>6, BatchCall DEF IInv
<1>. QED  BY <1>3, <1>4, <1>7, CallKeeps DEF Pcs

\* A DELETE of Postgres.
LEMMA DeleteKeeps ==
  ASSUME IInv, NEW c \in Client,
         NEW op \in Ops \ Reads, NEW S \in SUBSET Pair, PgDelete(c, op, S)
  PROVE  IInv'
<1>. DEFINE todo == <<Send("delete", S, Nil)>>
            ask  == Gone(S)
<1>0. Nil \in Entry /\ "delete" \in Dos
  BY DEF Entry, Dos
<1>1. /\ todo \in Seq(Stmt) /\ Len(todo) = 1 /\ todo[1] = Send("delete", S, Nil)
      /\ ask \in Part /\ DOMAIN ask = S /\ \A p \in S : ask[p] = Nil
  BY <1>0, OneStatement, ConstPart DEF Gone
<1>2. Call(c, op, "rows", ask, todo)
  BY DEF PgDelete
<1>. HIDE DEF todo, ask
<1>3. todo[1].do = "delete" /\ todo[1].at = S /\ todo[1].v = Nil
  BY <1>1 DEF Send
<1>4. 1 .. Len(todo) = {1}
  BY <1>1
<1>5. CallOK(kind, rows, Fresh(op, "rows", ask, todo))
  BY <1>1, <1>3, <1>4, BatchCall DEF IInv
<1>. QED  BY <1>1, <1>2, <1>5, CallKeeps DEF Pcs

LEMMA InsertsTodo ==
  ASSUME NEW r \in Table, NEW qs \in Seq(Pair)
  PROVE  /\ Inserts(r, qs) \in Seq(Stmt) /\ Len(Inserts(r, qs)) = Len(qs)
         /\ \A i \in 1 .. Len(qs) : Inserts(r, qs)[i] = Send("insert", {qs[i]}, r[qs[i]])
<1>1. DOMAIN qs = 1 .. Len(qs) /\ Len(qs) \in Nat /\ \A i \in 1 .. Len(qs) : qs[i] \in Pair
  BY LenProperties, ElementOfSeq
<1>2. \A i \in 1 .. Len(qs) : Send("insert", {qs[i]}, r[qs[i]]) \in Stmt
  BY <1>1 DEF Send, Stmt, Dos, Table
<1>. DEFINE f == Inserts(r, qs)
<1>3. f \in [1 .. Len(qs) -> Stmt]
      /\ \A i \in 1 .. Len(qs) : f[i] = Send("insert", {qs[i]}, r[qs[i]])
  BY <1>1, <1>2 DEF Inserts
<1>. HIDE DEF f
<1>4. f \in Seq(Stmt) /\ Len(f) = Len(qs)
  BY <1>1, <1>3
<1>. QED  BY <1>3, <1>4 DEF f

\* A restore of the SQL backends: DELETE, then an INSERT per row.
LEMMA RestoreKeeps ==
  ASSUME IInv, NEW c \in Client, NEW s \in snaps, NEW pc \in {"begin", "rows"},
         NEW qs \in Orders(Present(s.rows)),
         Call(c, "restore", pc, s.rows, <<Send("delete", Pair, Nil)>> \o Inserts(s.rows, qs))
  PROVE  IInv'
<1>. DEFINE ask  == s.rows
            ins  == Inserts(s.rows, qs)
            one  == <<Send("delete", Pair, Nil)>>
            todo == one \o ins
<1>1. ask \in Table /\ ask \in Part /\ DOMAIN ask = Pair /\ \A p \in Pair : ask[p] \in Entry
  BY TableIsPart DEF IInv, Types, Table
<1>2. /\ qs \in Seq(Present(s.rows))
      /\ \A x \in Present(s.rows) : \E i \in 1 .. Len(qs) : qs[i] = x
  <2>1. Present(s.rows) \in SUBSET Pair
    BY <1>1 DEF Present
  <2>. QED  BY <2>1, FinitePairs, OrderIs
<1>3. Len(qs) \in Nat /\ DOMAIN qs = 1 .. Len(qs)
      /\ \A i \in 1 .. Len(qs) : qs[i] \in Pair /\ ask[qs[i]] # Nil
  BY <1>1, <1>2, LenProperties, ElementOfSeq DEF Present
<1>4. ins \in Seq(Stmt) /\ Len(ins) = Len(qs)
      /\ \A i \in 1 .. Len(qs) : ins[i] = Send("insert", {qs[i]}, ask[qs[i]])
  <2>1. qs \in Seq(Pair)
    BY <1>2, <1>3
  <2>. QED  BY <1>1, <2>1, InsertsTodo
<1>5. one \in Seq(Stmt) /\ Len(one) = 1 /\ one[1] = Send("delete", Pair, Nil)
  <2>1. Nil \in Entry /\ "delete" \in Dos
    BY DEF Entry, Dos
  <2>. QED  BY <2>1, OneStatement
<1>6. Call(c, "restore", pc, ask, todo)
  OBVIOUS
<1>. HIDE DEF ins, one, ask
<1>7. /\ todo \in Seq(Stmt) /\ Len(todo) = 1 + Len(qs)
      /\ todo[1] = Send("delete", Pair, Nil)
      /\ \A i \in 2 .. Len(todo) : todo[i] = Send("insert", {qs[i - 1]}, ask[qs[i - 1]])
  <2>1. /\ todo \in Seq(Stmt)
        /\ Len(todo) = Len(one) + Len(ins)
        /\ \A i \in 1 .. Len(one) + Len(ins) :
             todo[i] = IF i <= Len(one) THEN one[i] ELSE ins[i - Len(one)]
    BY <1>4, <1>5, ConcatProperties
  <2>. HIDE DEF todo
  <2>2. ASSUME NEW i \in 2 .. Len(todo)
        PROVE  todo[i] = ins[i - 1] /\ i - 1 \in 1 .. Len(qs)
    BY <1>3, <1>4, <1>5, <2>1
  <2>3. Len(todo) = 1 + Len(qs) /\ todo[1] = one[1]
    BY <1>3, <1>4, <1>5, <2>1
  <2>. QED  BY <1>4, <1>5, <2>1, <2>2, <2>3
<1>. HIDE DEF todo
<1>8. todo[1].do = "delete" /\ todo[1].at = Pair /\ todo[1].v = Nil
  BY <1>7 DEF Send
<1>9. \A i \in 2 .. Len(todo) :
         /\ todo[i].do = "insert" /\ todo[i].at = {qs[i - 1]}
         /\ todo[i].v = ask[qs[i - 1]] /\ qs[i - 1] \in Pair
  <2>1. ASSUME NEW i \in 2 .. Len(todo)
        PROVE  i - 1 \in 1 .. Len(qs)
    BY <1>3, <1>7
  <2>2. ASSUME NEW i \in 2 .. Len(todo), NEW q, q = qs[i - 1]
        PROVE  todo[i].do = "insert" /\ todo[i].at = {q} /\ todo[i].v = ask[q] /\ q \in Pair
    <3>1. todo[i] = Send("insert", {q}, ask[q]) /\ q \in Pair
      BY <1>3, <1>7, <2>1, <2>2
    <3>. QED  BY <3>1 DEF Send
  <2>. QED  BY <2>2
<1>10. \A p \in Pair : ask[p] # Nil =>
         \E j \in 2 .. Len(todo) : p \in todo[j].at /\ todo[j].v = ask[p]
  <2>1. SUFFICES ASSUME NEW p \in Pair, ask[p] # Nil
                 PROVE  \E j \in 2 .. Len(todo) : p \in todo[j].at /\ todo[j].v = ask[p]
    OBVIOUS
  <2>2. p \in Present(s.rows)
    BY <1>1, <2>1 DEF Present, ask
  <2>3. PICK i \in 1 .. Len(qs) : qs[i] = p
    BY <1>2, <2>2
  <2>4. i + 1 \in 2 .. Len(todo) /\ (i + 1) - 1 = i
    BY <1>3, <1>7, <2>3
  <2>5. todo[i + 1].at = {p} /\ todo[i + 1].v = ask[p]
    BY <1>9, <2>3, <2>4
  <2>. QED  BY <2>4, <2>5
<1>11. \A p \in Pair : \A i \in 1 .. Len(todo) : p \in todo[i].at /\ todo[i].v # ask[p] => i = 1
  <2>1. \A i \in 2 .. Len(todo) : \A p \in todo[i].at : todo[i].v = ask[p]
    BY <1>9
  <2>. QED  BY <1>3, <1>7, <2>1
<1>12. \A i \in 1 .. Len(todo) : todo[i].at \subseteq DOMAIN ask /\ todo[i].do # "drop"
  <2>1. SUFFICES ASSUME NEW i \in 1 .. Len(todo)
                 PROVE  todo[i].at \subseteq Pair /\ todo[i].do # "drop"
    BY <1>1
  <2>2. i = 1 \/ i \in 2 .. Len(todo)
    BY <1>3, <1>7
  <2>. QED  BY <1>8, <1>9, <2>2
<1>13. \A p \in DOMAIN ask : \E j \in 1 .. Len(todo) : p \in todo[j].at /\ todo[j].v = ask[p]
  <2>1. 1 \in 1 .. Len(todo) /\ \A j \in 2 .. Len(todo) : j \in 1 .. Len(todo)
    BY <1>3, <1>7
  <2>2. ASSUME NEW p \in Pair, ask[p] = Nil
        PROVE  p \in todo[1].at /\ todo[1].v = ask[p]
    BY <1>8, <2>2
  <2>. QED  BY <1>1, <1>10, <2>1, <2>2
<1>14. \A p \in DOMAIN ask : \A i \in 1 .. Len(todo) :
         p \in todo[i].at /\ todo[i].v # ask[p] =>
           \E j \in i + 1 .. Len(todo) : p \in todo[j].at /\ todo[j].v = ask[p]
  BY <1>1, <1>8, <1>10, <1>11
<1>15. \A i \in 1 .. Len(todo) : todo[i].do = "delete" => i = 1 /\ todo[i].v = Nil
  BY <1>3, <1>7, <1>8, <1>9
<1>16. CallOK(kind, rows, Fresh("restore", pc, ask, todo))
  <2>1. "restore" \in Ops \ Reads
    BY DEF Ops, Wipes, Reads
  <2>2. Types
    BY DEF IInv
  <2>. QED  BY <1>1, <1>7, <1>12, <1>13, <1>14, <1>15, <2>1, <2>2, BatchCall
<1>17. "restore" \in Ops /\ pc \in Pcs
  BY DEF Ops, Wipes, Pcs
<1>. QED  BY <1>1, <1>6, <1>7, <1>16, <1>17, CallKeeps

\* The pieces are rows, and two of them are one or have nothing in common.
LEMMA PiecesApart ==
  ASSUME NEW k, NEW op, NEW g \in Pieces(k, op), NEW h \in Pieces(k, op)
  PROVE  g \subseteq Pair /\ (g = h \/ g \cap h = {})
BY DEF Pieces, Of

LEMMA ReadsKeep ==
  ASSUME IInv, NEW c \in Client, NEW op \in Reads, NEW todo \in Seq(Stmt),
         \A i \in 1 .. Len(todo) : todo[i].at \in Pieces(kind, op),
         \A g \in Pieces(kind, op) : \E i \in 1 .. Len(todo) : todo[i].at = g,
         Call(c, op, "read", NoRows, todo)
  PROVE  IInv'
<1>1. CallOK(kind, rows, Fresh(op, "read", NoRows, todo))
  BY ReadCall DEF IInv
<1>2. op \in Ops /\ "read" \in Pcs
  BY DEF Ops, Pcs
<1>. QED  BY <1>1, <1>2, CallKeeps, NoRowsPart

\* One query for everything.
LEMMA WholeReadKeeps ==
  ASSUME IInv, NEW c \in Client, NEW op \in Reads, Pieces(kind, op) = {Pair},
         Call(c, op, "read", NoRows, <<Send("read", Pair, Nil)>>)
  PROVE  IInv'
<1>. DEFINE todo == <<Send("read", Pair, Nil)>>
<1>1. "read" \in Dos /\ Nil \in Entry
  BY DEF Dos, Entry
<1>2. todo \in Seq(Stmt) /\ Len(todo) = 1 /\ todo[1].at = Pair
  BY <1>1, OneStatement, SendIs
<1>3. Call(c, op, "read", NoRows, todo)
  OBVIOUS
<1>. HIDE DEF todo
<1>4. 1 .. Len(todo) = {1}
  BY <1>2
<1>. QED  BY <1>2, <1>3, <1>4, ReadsKeep

\* A query per namespace.
LEMMA DiskReadKeeps ==
  ASSUME IInv, NEW c \in Client, kind = "disk", Disk_get_many(c, Pair)
  PROVE  IInv'
<1>1. PICK q \in Orders({p[1] : p \in Pair}) :
        Call(c, "get_many", "read", NoRows,
             [i \in DOMAIN q |-> Send("read", Pair \cap Of(q[i]), Nil)])
  BY DEF Disk_get_many
<1>. DEFINE todo == [i \in DOMAIN q |-> Send("read", Pair \cap Of(q[i]), Nil)]
<1>2. q \in Seq(NS) /\ \A n \in NS : \E i \in 1 .. Len(q) : q[i] = n
  BY FiniteNS, OrderIs DEF NS
<1>3. DOMAIN q = 1 .. Len(q) /\ Len(q) \in Nat /\ \A i \in 1 .. Len(q) : q[i] \in NS
  BY <1>2, LenProperties, ElementOfSeq
<1>4. \A n : Pair \cap Of(n) = Of(n) /\ Send("read", Of(n), Nil) \in Stmt
  <2>1. \A n : Pair \cap Of(n) = Of(n) /\ Of(n) \in SUBSET Pair
    BY DEF Of
  <2>2. "read" \in Dos /\ Nil \in Entry
    BY DEF Dos, Entry
  <2>. QED  BY <2>1, <2>2, OneStatement
<1>5. todo \in [1 .. Len(q) -> Stmt] /\ \A i \in 1 .. Len(q) : todo[i] = Send("read", Of(q[i]), Nil)
  BY <1>3, <1>4
<1>. HIDE DEF todo
<1>6. todo \in Seq(Stmt) /\ Len(todo) = Len(q)
  BY <1>3, <1>5
<1>7. \A i \in 1 .. Len(q) : todo[i].at = Of(q[i])
  BY <1>5, SendIs
<1>8. Pieces(kind, "get_many") = {Of(n) : n \in NS} /\ "get_many" \in Reads
  BY DEF Pieces, Reads
<1>9. \A i \in 1 .. Len(todo) : todo[i].at \in Pieces(kind, "get_many")
  BY <1>3, <1>6, <1>7, <1>8
<1>10. \A g \in Pieces(kind, "get_many") : \E i \in 1 .. Len(todo) : todo[i].at = g
  BY <1>2, <1>6, <1>7, <1>8
<1>. QED  BY <1>1, <1>6, <1>8, <1>9, <1>10, ReadsKeep DEF todo

\* A command per row.
LEMMA RedisReadKeeps ==
  ASSUME IInv, NEW c \in Client, kind = "redis", Redis_get_many(c, Pair)
  PROVE  IInv'
<1>1. PICK q \in Orders(Pair) :
        Call(c, "get_many", "read", NoRows, [i \in DOMAIN q |-> Send("read", {q[i]}, Nil)])
  BY DEF Redis_get_many
<1>. DEFINE todo == [i \in DOMAIN q |-> Send("read", {q[i]}, Nil)]
<1>2. q \in Seq(Pair) /\ \A p \in Pair : \E i \in 1 .. Len(q) : q[i] = p
  BY FinitePairs, OrderIs
<1>3. \A i \in 1 .. Len(q) : q[i] \in Pair
  BY <1>2, ElementOfSeq
<1>4. "read" \in Dos /\ Nil \in Entry
  BY DEF Dos, Entry
<1>5. /\ todo \in Seq(Stmt) /\ Len(todo) = Len(q)
      /\ \A i \in 1 .. Len(q) : todo[i] = Send("read", {q[i]}, Nil)
  BY <1>2, <1>4, ListTodo, ZenonT(60)
<1>. HIDE DEF todo
<1>7. \A i \in 1 .. Len(q) : todo[i].at = {q[i]}
  BY <1>5, SendIs
<1>8. Pieces(kind, "get_many") = {{p} : p \in Pair} /\ "get_many" \in Reads
  BY DEF Pieces, Reads
<1>9. \A i \in 1 .. Len(todo) : todo[i].at \in Pieces(kind, "get_many")
  BY <1>3, <1>5, <1>7, <1>8
<1>10. \A g \in Pieces(kind, "get_many") : \E i \in 1 .. Len(todo) : todo[i].at = g
  <2>1. ASSUME NEW p \in Pair
        PROVE  \E i \in 1 .. Len(todo) : todo[i].at = {p}
    BY <1>2, <1>5, <1>7
  <2>. QED  BY <1>8, <2>1
<1>. QED  BY <1>1, <1>5, <1>8, <1>9, <1>10, ReadsKeep DEF todo

LEMMA RedisSnapshotKeeps ==
  ASSUME IInv, NEW c \in Client, kind = "redis", Redis_snapshot(c)
  PROVE  IInv'
<1>1. PICK todo \in Seq(Stmt) : todo = <<>>
  BY EmptyTodo
<1>2. Call(c, "snapshot", "scan", NoRows, todo)
  <2>1. Call(c, "snapshot", "scan", NoRows, <<>>)
    BY DEF Redis_snapshot
  <2>. QED  BY <1>1, <2>1
<1>3. CallOK(kind, rows, Fresh("snapshot", "scan", NoRows, todo))
  <2>1. Types
    BY DEF IInv
  <2>. QED  BY <2>1, ScanReadCall
<1>4. "snapshot" \in Ops /\ "scan" \in Pcs
  BY DEF Ops, Reads, Pcs
<1>. QED  BY <1>2, <1>3, <1>4, CallKeeps, NoRowsPart

-----------------------------------------------------------------------------
(* The steps of a transaction *)

\* A transaction that is under way concerns the other invariants in no way.
LEMMA PlanSuffices ==
  ASSUME NEW k, NEW now, NEW me, NEW m, CallOK(k, now, me),
         me.pc \in {"begin", "rows"}, m.pc = "rows", m.op = me.op,
         SeenOK(now, m), PlanOK(k, m)
  PROVE  CallOK(k, now, m)
<1>1. ScanOK(m) /\ PcOK(m)
  BY DEF ScanOK, PcOK
<1>2. ReadOK(k, m)
  BY DEF CallOK, ReadOK
<1>. QED  BY <1>1, <1>2 DEF CallOK

\* The statement at the head of a transaction is sent and writes its rows.
Written(me, s, held) ==
  [me EXCEPT !.todo = Tail(@), !.held = held,
             !.work = Overlay(@, [p \in s.at |-> s.v])]

LEMMA HeadTail ==
  ASSUME NEW me \in CallRecord, me.todo # <<>>
  PROVE  /\ me.todo \in Seq(Stmt) /\ Len(me.todo) \in Nat \ {0}
         /\ Head(me.todo) \in Stmt /\ Head(me.todo) = me.todo[1]
         /\ Tail(me.todo) \in Seq(Stmt) /\ Len(Tail(me.todo)) = Len(me.todo) - 1
         /\ \A i \in 1 .. Len(Tail(me.todo)) : Tail(me.todo)[i] = me.todo[i + 1]
<1>1. me.todo \in Seq(Stmt)
  BY DEF CallRecord
<1>2. Len(me.todo) \in Nat \ {0}
  BY <1>1, NonEmpty
<1>. QED  BY <1>1, <1>2, HeadTailProperties

LEMMA WrittenOK ==
  ASSUME NEW k, NEW now, NEW me \in CallRecord, NEW held \in SUBSET Pair, CallOK(k, now, me),
         me.pc = "rows", me.todo # <<>>,
         k = "postgres" => Head(me.todo).do # "delete"
  PROVE  LET m == Written(me, Head(me.todo), held)
         IN  m \in CallRecord /\ CallOK(k, now, m)
<1>. DEFINE s == Head(me.todo)
            m == Written(me, s, held)
            w == Overlay(me.work, [p \in s.at |-> s.v])
            t == Tail(me.todo)
<1>1. /\ me.todo \in Seq(Stmt) /\ Len(me.todo) \in Nat \ {0}
      /\ s \in Stmt /\ s = me.todo[1]
      /\ t \in Seq(Stmt) /\ Len(t) = Len(me.todo) - 1
      /\ \A i \in 1 .. Len(t) : t[i] = me.todo[i + 1]
  BY HeadTail
<1>2. s.at \in SUBSET Pair /\ s.v \in Entry
  BY <1>1 DEF Stmt
<1>3. w \in Part /\ DOMAIN w = DOMAIN me.work \cup s.at
      /\ (\A p \in s.at : w[p] = s.v)
      /\ \A p \in DOMAIN me.work \ s.at : w[p] = me.work[p]
  <2>1. me.work \in Part /\ [p \in s.at |-> s.v] \in Part
    <3>1. me.work \in Part
      BY DEF CallRecord
    <3>. HIDE DEF s
    <3>2. [p \in s.at |-> s.v] \in [s.at -> Entry]
      BY <1>2
    <3>. QED  BY <1>2, <3>1, <3>2 DEF Part
  <2>2. w \in Part
    BY <2>1, OverlayPart
  <2>. QED  BY <2>2 DEF Overlay
<1>4. /\ m.pc = "rows" /\ m.op = me.op /\ m.ask = me.ask /\ m.todo = t /\ m.work = w
      /\ m.seen = me.seen /\ m \in CallRecord
  BY <1>1, <1>3 DEF CallRecord, Written
<1>. HIDE DEF m, w, t, s
<1>5. SeenOK(now, m)
  BY <1>4 DEF CallOK, SeenOK
<1>6. /\ DOMAIN me.work \subseteq DOMAIN me.ask
      /\ \A i \in 1 .. Len(me.todo) : me.todo[i].at \subseteq DOMAIN me.ask
      /\ \A p \in DOMAIN me.ask : Due(k, me, p) /\ Corrected(me, p)
      /\ DropsFirst(me)
      /\ DeleteFirst(k, me)
  BY DEF CallOK, PlanOK
<1>7. DOMAIN m.work \subseteq DOMAIN m.ask
  BY <1>1, <1>3, <1>4, <1>6
<1>8. \A i \in 1 .. Len(t) : i + 1 \in 1 .. Len(me.todo) /\ t[i] = me.todo[i + 1]
  BY <1>1
<1>9. \A i \in 1 .. Len(m.todo) : m.todo[i].at \subseteq DOMAIN m.ask
  BY <1>4, <1>6, <1>8
<1>10. \A j \in 2 .. Len(me.todo) : j - 1 \in 1 .. Len(t) /\ t[j - 1] = me.todo[j]
  BY <1>1
<1>11. ASSUME NEW p \in DOMAIN me.ask
       PROVE  Corrected(m, p)
  <2>1. SUFFICES ASSUME NEW i \in 1 .. Len(t), p \in t[i].at, t[i].v # me.ask[p]
                 PROVE  \E j \in i + 1 .. Len(t) : p \in t[j].at /\ t[j].v = me.ask[p]
    BY <1>4 DEF Corrected
  <2>2. PICK j \in (i + 1) + 1 .. Len(me.todo) : p \in me.todo[j].at /\ me.todo[j].v = me.ask[p]
    BY <1>6, <1>8, <2>1 DEF Corrected
  <2>3. j \in 2 .. Len(me.todo) /\ j - 1 \in i + 1 .. Len(t)
    BY <1>1, <2>2
  <2>. QED  BY <1>10, <2>2, <2>3
<1>12. ASSUME NEW p \in DOMAIN me.ask
       PROVE  Due(k, m, p)
  <2>1. CASE p \in s.at
    <3>1. CASE s.v = me.ask[p]
      BY <1>3, <1>4, <2>1, <3>1 DEF Due
    <3>2. CASE s.v # me.ask[p]
      <4>1. PICK j \in 1 + 1 .. Len(me.todo) : p \in me.todo[j].at /\ me.todo[j].v = me.ask[p]
        BY <1>1, <1>6, <2>1, <3>2 DEF Corrected
      <4>2. j \in 2 .. Len(me.todo)
        BY <4>1
      <4>. QED  BY <1>4, <1>10, <4>1, <4>2 DEF Due
    <3>. QED  BY <3>1, <3>2
  <2>2. CASE p \notin s.at
    <3>1. CASE p \in DOMAIN me.work /\ me.work[p] = me.ask[p]
      BY <1>3, <1>4, <2>2, <3>1 DEF Due
    <3>2. CASE \E j \in 1 .. Len(me.todo) : p \in me.todo[j].at /\ me.todo[j].v = me.ask[p]
      <4>1. PICK j \in 1 .. Len(me.todo) : p \in me.todo[j].at /\ me.todo[j].v = me.ask[p]
        BY <3>2
      <4>2. j \in 2 .. Len(me.todo)
        BY <1>1, <2>2, <4>1
      <4>. QED  BY <1>4, <1>10, <4>1, <4>2 DEF Due
    <3>3. CASE /\ k # "disk" /\ me.ask[p] = Nil /\ p \notin DOMAIN me.work
               /\ \E r \in me.seen : r[p] = Nil
               /\ \A i \in 1 .. Len(me.todo) : me.todo[i].do # "delete"
      <4>1. p \notin DOMAIN m.work
        BY <1>3, <1>4, <2>2, <3>3
      <4>2. \A i \in 1 .. Len(m.todo) : m.todo[i].do # "delete"
        BY <1>4, <1>8, <3>3
      <4>. QED  BY <1>4, <3>3, <4>1, <4>2 DEF Due
    <3>. QED  BY <1>6, <3>1, <3>2, <3>3 DEF Due
  <2>. QED  BY <2>1, <2>2
<1>13. DropsFirst(m)
  <2>1. SUFFICES ASSUME NEW i \in 1 .. Len(t), t[i].do = "drop"
                 PROVE  /\ \E p \in Pair : t[i].at = {p}
                        /\ \A j \in 1 .. i : t[j].v = Nil
                        /\ \A p \in DOMAIN w : w[p] = Nil
    BY <1>4 DEF DropsFirst
  <2>2. /\ \E p \in Pair : me.todo[i + 1].at = {p}
        /\ \A j \in 1 .. i + 1 : me.todo[j].v = Nil
        /\ \A p \in DOMAIN me.work : me.work[p] = Nil
    BY <1>6, <1>8, <2>1 DEF DropsFirst
  <2>3. s.v = Nil
    <3>1. 1 \in 1 .. i + 1
      BY <1>1, <2>1
    <3>. QED  BY <1>1, <2>2, <3>1
  <2>4. \A j \in 1 .. i : j \in 1 .. Len(t) /\ j + 1 \in 1 .. i + 1
    BY <1>1, <2>1
  <2>5. \A j \in 1 .. i : t[j].v = Nil
    BY <1>8, <2>2, <2>4
  <2>6. \A p \in DOMAIN w : w[p] = Nil
    BY <1>3, <2>2, <2>3
  <2>7. \E p \in Pair : t[i].at = {p}
    BY <1>8, <2>1, <2>2
  <2>. QED  BY <2>5, <2>6, <2>7
<1>14. DeleteFirst(k, m)
  <2>1. k = "postgres" => \A i \in 1 .. Len(t) : t[i].do # "delete"
    BY <1>1, <1>6, <1>8 DEF DeleteFirst
  <2>. QED  BY <1>4, <2>1 DEF DeleteFirst
<1>15. PlanOK(k, m)
  BY <1>4, <1>7, <1>9, <1>11, <1>12, <1>13, <1>14 DEF PlanOK
<1>. QED  BY <1>4, <1>5, <1>15, PlanSuffices DEF m, s

\* A row that somebody else deleted since the DELETE began is passed over.
LEMMA SkippedOK ==
  ASSUME NEW now, NEW me \in CallRecord, CallOK("postgres", now, me),
         me.pc = "rows", me.todo # <<>>, Head(me.todo).do = "drop",
         \E p \in Head(me.todo).at : \E r \in me.seen : r[p] = Nil
  PROVE  LET m == [me EXCEPT !.todo = Tail(@)]
         IN  m \in CallRecord /\ CallOK("postgres", now, m)
<1>. DEFINE s == Head(me.todo)
            m == [me EXCEPT !.todo = Tail(@)]
            t == Tail(me.todo)
<1>1. /\ me.todo \in Seq(Stmt) /\ Len(me.todo) \in Nat \ {0}
      /\ s \in Stmt /\ s = me.todo[1]
      /\ t \in Seq(Stmt) /\ Len(t) = Len(me.todo) - 1
      /\ \A i \in 1 .. Len(t) : t[i] = me.todo[i + 1]
  BY HeadTail
<1>4. /\ m.pc = "rows" /\ m.op = me.op /\ m.ask = me.ask /\ m.todo = t /\ m.work = me.work
      /\ m.seen = me.seen /\ m \in CallRecord
  BY <1>1 DEF CallRecord
<1>. HIDE DEF m, t
<1>5. SeenOK(now, m)
  BY <1>4 DEF CallOK, SeenOK
<1>6. /\ DOMAIN me.work \subseteq DOMAIN me.ask
      /\ \A i \in 1 .. Len(me.todo) : me.todo[i].at \subseteq DOMAIN me.ask
      /\ \A p \in DOMAIN me.ask : Due("postgres", me, p) /\ Corrected(me, p)
      /\ DropsFirst(me)
      /\ DeleteFirst("postgres", me)
  BY DEF CallOK, PlanOK
<1>7. PICK q \in Pair : s.at = {q} /\ s.v = Nil /\ \A p \in DOMAIN me.work : me.work[p] = Nil
  BY <1>1, <1>6 DEF DropsFirst
<1>8. \E r \in me.seen : r[q] = Nil
  BY <1>7
<1>9. \A i \in 1 .. Len(t) : i + 1 \in 1 .. Len(me.todo) /\ t[i] = me.todo[i + 1]
  BY <1>1
<1>10. \A j \in 2 .. Len(me.todo) : j - 1 \in 1 .. Len(t) /\ t[j - 1] = me.todo[j]
  BY <1>1
<1>11. \A i \in 1 .. Len(t) : t[i].do # "delete"
  BY <1>1, <1>6, <1>9 DEF DeleteFirst
<1>. HIDE DEF s
<1>12. ASSUME NEW p \in DOMAIN me.ask
       PROVE  Corrected(m, p)
  <2>1. SUFFICES ASSUME NEW i \in 1 .. Len(t), p \in t[i].at, t[i].v # me.ask[p]
                 PROVE  \E j \in i + 1 .. Len(t) : p \in t[j].at /\ t[j].v = me.ask[p]
    BY <1>4 DEF Corrected
  <2>2. PICK j \in (i + 1) + 1 .. Len(me.todo) : p \in me.todo[j].at /\ me.todo[j].v = me.ask[p]
    BY <1>6, <1>9, <2>1 DEF Corrected
  <2>3. j \in 2 .. Len(me.todo) /\ j - 1 \in i + 1 .. Len(t)
    BY <1>1, <2>2
  <2>. QED  BY <1>10, <2>2, <2>3
<1>13. ASSUME NEW p \in DOMAIN me.ask
       PROVE  Due("postgres", m, p)
  <2>1. CASE p \in DOMAIN me.work /\ me.work[p] = me.ask[p]
    BY <1>4, <2>1 DEF Due
  <2>2. CASE \E j \in 2 .. Len(me.todo) : p \in me.todo[j].at /\ me.todo[j].v = me.ask[p]
    BY <1>4, <1>10, <2>2 DEF Due
  <2>3. CASE p \in s.at /\ s.v = me.ask[p] /\ p \notin DOMAIN me.work
    <3>1. me.ask[p] = Nil /\ \E r \in me.seen : r[p] = Nil
      BY <1>7, <1>8, <2>3
    <3>. QED  BY <1>4, <1>11, <2>3, <3>1 DEF Due
  <2>4. CASE p \in s.at /\ s.v = me.ask[p] /\ p \in DOMAIN me.work
    BY <1>7, <2>1, <2>4
  <2>5. CASE me.ask[p] = Nil /\ p \notin DOMAIN me.work /\ \E r \in me.seen : r[p] = Nil
    BY <1>4, <1>11, <2>5 DEF Due
  <2>6. \A j \in 1 .. Len(me.todo) : j = 1 \/ j \in 2 .. Len(me.todo)
    BY <1>1
  <2>. QED  BY <1>1, <1>6, <2>1, <2>2, <2>3, <2>4, <2>5, <2>6 DEF Due
<1>14. DropsFirst(m)
  <2>1. SUFFICES ASSUME NEW i \in 1 .. Len(t), t[i].do = "drop"
                 PROVE  /\ \E p \in Pair : t[i].at = {p}
                        /\ \A j \in 1 .. i : t[j].v = Nil
                        /\ \A p \in DOMAIN me.work : me.work[p] = Nil
    BY <1>4 DEF DropsFirst
  <2>2. /\ \E p \in Pair : me.todo[i + 1].at = {p}
        /\ \A j \in 1 .. i + 1 : me.todo[j].v = Nil
    BY <1>6, <1>9, <2>1 DEF DropsFirst
  <2>3. \A j \in 1 .. i : j \in 1 .. Len(t) /\ j + 1 \in 1 .. i + 1
    BY <1>1, <2>1
  <2>. QED  BY <1>7, <1>9, <2>1, <2>2, <2>3
<1>15. DeleteFirst("postgres", m)
  BY <1>4, <1>11 DEF DeleteFirst
<1>16. PlanOK("postgres", m)
  BY <1>4, <1>6, <1>9, <1>12, <1>13, <1>14, <1>15 DEF PlanOK
<1>. QED  BY <1>4, <1>5, <1>16, PlanSuffices DEF m

\* A DELETE of Postgres fixes its rows: those it leaves out are not there.
LEMMA PickedOK ==
  ASSUME Types, NEW me \in CallRecord, CallOK("postgres", rows, me),
         me.pc = "rows", me.todo # <<>>, Head(me.todo).do = "delete",
         NEW q \in Orders({p \in Head(me.todo).at : rows[p] # Nil})
  PROVE  LET m == [me EXCEPT !.seen = {rows},
                             !.todo = [i \in DOMAIN q |-> Send("drop", {q[i]}, Nil)]
                                      \o Tail(me.todo)]
         IN  m \in CallRecord /\ CallOK("postgres", rows, m)
<1>. DEFINE s == Head(me.todo)
            t == Tail(me.todo)
            d == [i \in DOMAIN q |-> Send("drop", {q[i]}, Nil)]
            u == d \o t
            m == [me EXCEPT !.seen = {rows}, !.todo = u]
            L == Len(q)
<1>1. /\ me.todo \in Seq(Stmt) /\ Len(me.todo) \in Nat \ {0}
      /\ s \in Stmt /\ s = me.todo[1]
      /\ t \in Seq(Stmt) /\ Len(t) = Len(me.todo) - 1
      /\ \A i \in 1 .. Len(t) : t[i] = me.todo[i + 1]
  BY HeadTail
<1>. HIDE DEF t
<1>2. /\ q \in Seq(Pair)
      /\ \A i \in 1 .. L : q[i] \in s.at
      /\ \A p \in s.at : rows[p] # Nil => \E i \in 1 .. L : q[i] = p
  <2>1. {p \in s.at : rows[p] # Nil} \in SUBSET Pair
    BY <1>1 DEF Stmt
  <2>2. /\ q \in Seq({p \in s.at : rows[p] # Nil})
        /\ \A x \in {p \in s.at : rows[p] # Nil} : \E i \in 1 .. L : q[i] = x
    BY <2>1, FinitePairs, OrderIs
  <2>3. \A i \in 1 .. L : q[i] \in {p \in s.at : rows[p] # Nil}
    BY <2>2, ElementOfSeq
  <2>4. q \in Seq(Pair)
    BY <2>1, <2>2, SeqMonotonic
  <2>. QED  BY <2>2, <2>3, <2>4
<1>. HIDE DEF s
<1>3. L \in Nat
  BY <1>2, LenProperties
<1>4. d \in Seq(Stmt) /\ Len(d) = L /\ \A i \in 1 .. L : d[i] = Send("drop", {q[i]}, Nil)
  <2>1. "drop" \in Dos /\ Nil \in Entry
    BY DEF Dos, Entry
  <2>. QED  BY <1>2, <2>1, ListTodo, ZenonT(60)
<1>. HIDE DEF d
<1>5. \A i \in 1 .. L : d[i].do = "drop" /\ d[i].at = {q[i]} /\ d[i].v = Nil
  <2>1. ASSUME NEW i \in 1 .. L, NEW x, x = q[i]
        PROVE  d[i].do = "drop" /\ d[i].at = {x} /\ d[i].v = Nil
    <3>1. d[i] = Send("drop", {x}, Nil)
      BY <1>4, <2>1
    <3>. QED  BY <3>1 DEF Send
  <2>. QED  BY <2>1
<1>6. /\ u \in Seq(Stmt) /\ Len(u) = L + Len(t)
      /\ \A i \in 1 .. L + Len(t) : u[i] = IF i <= L THEN d[i] ELSE t[i - L]
  <2>1. /\ u \in Seq(Stmt) /\ Len(u) = Len(d) + Len(t)
        /\ \A i \in 1 .. Len(d) + Len(t) : u[i] = IF i <= Len(d) THEN d[i] ELSE t[i - Len(d)]
    BY <1>1, <1>4, ConcatProperties, ZenonT(60)
  <2>. HIDE DEF u, L
  <2>. QED  BY <1>4, <2>1
<1>. HIDE DEF L
<1>7. /\ m.pc = "rows" /\ m.op = me.op /\ m.ask = me.ask /\ m.todo = u /\ m.work = me.work
      /\ m.seen = {rows} /\ m \in CallRecord
  <2>1. rows \in Table
    BY DEF Types
  <2>. HIDE DEF u
  <2>. QED  BY <1>6, <2>1 DEF CallRecord
<1>. HIDE DEF m, u
<1>8. \A i \in 1 .. L : i \in 1 .. Len(u) /\ u[i] = d[i]
  BY <1>1, <1>3, <1>6, SMTT(60)
<1>9. \A i \in 2 .. Len(me.todo) : (i - 1) + L \in 1 .. Len(u) /\ u[(i - 1) + L] = me.todo[i]
  <2>1. ASSUME NEW i \in 2 .. Len(me.todo)
        PROVE  /\ (i - 1) + L \in 1 .. L + Len(t) /\ ~((i - 1) + L <= L)
               /\ i - 1 \in 1 .. Len(t) /\ (i - 1) + 1 = i /\ ((i - 1) + L) - L = i - 1
    BY <1>1, <1>3
  <2>. QED  BY <1>1, <1>6, <2>1
<1>10. \A i \in 1 .. Len(u) :
         i \in 1 .. L \/ (i > L /\ (i - L) + 1 \in 2 .. Len(me.todo) /\ u[i] = me.todo[(i - L) + 1])
  <2>1. ASSUME NEW i \in 1 .. L + Len(t), i \notin 1 .. L
        PROVE  /\ i > L /\ ~(i <= L) /\ i - L \in 1 .. Len(t)
               /\ (i - L) + 1 \in 2 .. Len(me.todo)
    BY <1>1, <1>3, <2>1
  <2>. QED  BY <1>1, <1>6, <2>1
<1>11. /\ DOMAIN me.work \subseteq DOMAIN me.ask
       /\ \A i \in 1 .. Len(me.todo) : me.todo[i].at \subseteq DOMAIN me.ask
       /\ \A p \in DOMAIN me.ask : Due("postgres", me, p) /\ Corrected(me, p)
       /\ DropsFirst(me)
       /\ DeleteFirst("postgres", me)
  BY DEF CallOK, PlanOK
<1>12. /\ me.work = NoRows /\ s.v = Nil /\ me.todo[1].do = "delete"
       /\ \A i \in 2 .. Len(me.todo) : me.todo[i].do # "delete"
  BY <1>1, <1>11 DEF DeleteFirst, s
<1>13. SeenOK(rows, m)
  BY <1>7 DEF SeenOK
<1>14. \A i \in 1 .. Len(u) : u[i].at \subseteq DOMAIN me.ask /\ u[i].do # "delete"
  <2>1. s.at \subseteq DOMAIN me.ask
    BY <1>1, <1>11
  <2>2. ASSUME NEW i \in 1 .. L PROVE u[i].at \subseteq DOMAIN me.ask /\ u[i].do # "delete"
    BY <1>2, <1>5, <1>8, <2>1
  <2>3. ASSUME NEW i \in 2 .. Len(me.todo)
        PROVE  me.todo[i].at \subseteq DOMAIN me.ask /\ me.todo[i].do # "delete"
    BY <1>1, <1>11, <1>12
  <2>. QED  BY <1>10, <2>2, <2>3
<1>15. ASSUME NEW p \in DOMAIN me.ask
       PROVE  Corrected(m, p)
  <2>1. SUFFICES ASSUME NEW i \in 1 .. Len(u), p \in u[i].at, u[i].v # me.ask[p]
                 PROVE  \E j \in i + 1 .. Len(u) : p \in u[j].at /\ u[j].v = me.ask[p]
    BY <1>7 DEF Corrected
  <2>2. CASE i \in 1 .. L
    <3>1. p \in s.at /\ s.v # me.ask[p]
      BY <1>2, <1>5, <1>8, <1>12, <2>1, <2>2
    <3>2. PICK j \in 1 + 1 .. Len(me.todo) : p \in me.todo[j].at /\ me.todo[j].v = me.ask[p]
      BY <1>1, <1>11, <3>1 DEF Corrected
    <3>3. j \in 2 .. Len(me.todo) /\ (j - 1) + L \in i + 1 .. Len(u)
      BY <1>1, <1>3, <1>6, <2>2, <3>2
    <3>. QED  BY <1>9, <3>2, <3>3
  <2>3. CASE i > L /\ (i - L) + 1 \in 2 .. Len(me.todo) /\ u[i] = me.todo[(i - L) + 1]
    <3>1. (i - L) + 1 \in 1 .. Len(me.todo)
      BY <1>1, <1>3, <2>3
    <3>2. PICK j \in ((i - L) + 1) + 1 .. Len(me.todo) :
            p \in me.todo[j].at /\ me.todo[j].v = me.ask[p]
      BY <1>11, <2>1, <2>3, <3>1 DEF Corrected
    <3>3. j \in 2 .. Len(me.todo) /\ (j - 1) + L \in i + 1 .. Len(u)
      <4>1. i \in Nat /\ Len(u) = L + (Len(me.todo) - 1)
        BY <1>1, <1>3, <1>6, <2>1
      <4>2. i > L /\ Len(me.todo) \in Nat
        BY <1>1, <2>3
      <4>3. j \in Int /\ ((i - L) + 1) + 1 <= j /\ j <= Len(me.todo)
        BY <1>3, <3>2, <4>1, <4>2
      <4>. QED  BY <1>3, <4>1, <4>2, <4>3
    <3>. QED  BY <1>9, <3>2, <3>3
  <2>. QED  BY <1>10, <2>2, <2>3
<1>16. ASSUME NEW p \in DOMAIN me.ask
       PROVE  Due("postgres", m, p)
  <2>1. PICK j \in 1 .. Len(me.todo) : p \in me.todo[j].at /\ me.todo[j].v = me.ask[p]
    <3>1. p \notin DOMAIN me.work
      BY <1>12, NoRowsPart
    <3>2. 1 \in 1 .. Len(me.todo)
      BY <1>1
    <3>. QED  BY <1>11, <1>12, <3>1, <3>2 DEF Due
  <2>2. CASE j \in 2 .. Len(me.todo)
    BY <1>7, <1>9, <2>1, <2>2 DEF Due
  <2>3. CASE j = 1 /\ rows[p] # Nil
    <3>1. PICK i \in 1 .. L : q[i] = p
      BY <1>1, <1>2, <2>1, <2>3
    <3>2. p \in u[i].at /\ u[i].v = me.ask[p] /\ i \in 1 .. Len(u)
      BY <1>1, <1>5, <1>8, <1>12, <2>1, <2>3, <3>1
    <3>. QED  BY <1>7, <3>2 DEF Due
  <2>4. CASE j = 1 /\ rows[p] = Nil
    <3>1. me.ask[p] = Nil /\ p \notin DOMAIN me.work
      BY <1>1, <1>12, <2>1, <2>4, NoRowsPart
    <3>. QED  BY <1>7, <1>14, <2>4, <3>1 DEF Due
  <2>. QED  BY <1>1, <2>1, <2>2, <2>3, <2>4
<1>17. DropsFirst(m)
  <2>1. SUFFICES ASSUME NEW i \in 1 .. Len(u), u[i].do = "drop"
                 PROVE  (\E p \in Pair : u[i].at = {p}) /\ \A j \in 1 .. i : u[j].v = Nil
    BY <1>7, <1>12, NoRowsPart DEF DropsFirst
  <2>2. CASE i \in 1 .. L
    <3>1. \A j \in 1 .. i : j \in 1 .. L
      BY <1>3, <2>2
    <3>2. q[i] \in Pair
      BY <1>2, <2>2, ElementOfSeq DEF L
    <3>. QED  BY <1>5, <1>8, <2>2, <3>1, <3>2
  <2>3. CASE i > L /\ (i - L) + 1 \in 2 .. Len(me.todo) /\ u[i] = me.todo[(i - L) + 1]
    <3>1. (i - L) + 1 \in 1 .. Len(me.todo)
      BY <1>1, <1>3, <2>3
    <3>2. /\ \E p \in Pair : me.todo[(i - L) + 1].at = {p}
          /\ \A j \in 1 .. (i - L) + 1 : me.todo[j].v = Nil
      BY <1>11, <2>1, <2>3, <3>1 DEF DropsFirst
    <3>3. ASSUME NEW j \in 1 .. i PROVE u[j].v = Nil
      <4>1. j \in 1 .. Len(u)
        BY <1>1, <1>3, <1>6, <2>1, <3>3
      <4>2. CASE j \in 1 .. L
        BY <1>5, <1>8, <4>2
      <4>3. CASE j > L /\ (j - L) + 1 \in 2 .. Len(me.todo) /\ u[j] = me.todo[(j - L) + 1]
        <5>1. (j - L) + 1 \in 1 .. (i - L) + 1
          BY <1>3, <2>3, <3>3, <4>3
        <5>. QED  BY <3>2, <4>3, <5>1
      <4>. QED  BY <1>10, <4>1, <4>2, <4>3
    <3>. QED  BY <2>3, <3>2, <3>3
  <2>. QED  BY <1>10, <2>2, <2>3
<1>18. DeleteFirst("postgres", m)
  BY <1>7, <1>14 DEF DeleteFirst
<1>19. PlanOK("postgres", m)
  BY <1>7, <1>11, <1>14, <1>15, <1>16, <1>17, <1>18 DEF PlanOK
<1>. QED  BY <1>7, <1>13, <1>19, PlanSuffices DEF m, u, d, t

-----------------------------------------------------------------------------
(* The steps of a scan and of a read *)

\* Rows that are read now: everything in S is as it is, nothing else changes.
LEMMA ReadInto ==
  ASSUME NEW me \in CallRecord, NEW S \in SUBSET Pair, rows \in Table
  PROVE  LET w == Overlay(me.work, [p \in S |-> rows[p]])
         IN  /\ w \in Part /\ DOMAIN w = DOMAIN me.work \cup S
             /\ \A p \in S : Overlay(Gone(Pair), w)[p] = rows[p]
             /\ \A p \in Pair \ S : Overlay(Gone(Pair), w)[p] = Overlay(Gone(Pair), me.work)[p]
<1>. DEFINE w == Overlay(me.work, [p \in S |-> rows[p]])
<1>1. me.work \in Part
  BY DEF CallRecord
<1>2. w \in Part
  BY <1>1, ReadPart, OverlayPart
<1>3. DOMAIN w = DOMAIN me.work \cup S /\ (\A p \in S : w[p] = rows[p])
      /\ \A p \in DOMAIN me.work \ S : w[p] = me.work[p]
  BY DEF Overlay
<1>. HIDE DEF w
<1>. QED  BY <1>2, <1>3 DEF Overlay, Gone, All, w

\* One query or command of a read.
LEMMA ReadStepOK ==
  ASSUME Types, NEW me \in CallRecord, CallOK(kind, rows, me), me.pc = "read", me.todo # <<>>
  PROVE  LET m == [me EXCEPT !.todo = Tail(@),
                     !.work = Overlay(@, [p \in Head(me.todo).at |-> rows[p]])]
         IN  m \in CallRecord /\ CallOK(kind, rows, m)
<1>. DEFINE s == Head(me.todo)
            t == Tail(me.todo)
            w == Overlay(me.work, [p \in s.at |-> rows[p]])
            m == [me EXCEPT !.todo = t, !.work = w]
            G == Pieces(kind, me.op)
<1>0. rows \in Table
  BY DEF Types
<1>1. /\ me.todo \in Seq(Stmt) /\ Len(me.todo) \in Nat \ {0}
      /\ s \in Stmt /\ s = me.todo[1]
      /\ t \in Seq(Stmt) /\ Len(t) = Len(me.todo) - 1
      /\ \A i \in 1 .. Len(t) : t[i] = me.todo[i + 1]
  BY HeadTail
<1>. HIDE DEF s, t
<1>2. s.at \in SUBSET Pair
  BY <1>1 DEF Stmt
<1>3. /\ w \in Part
      /\ \A p \in s.at : Overlay(Gone(Pair), w)[p] = rows[p]
      /\ \A p \in Pair \ s.at : Overlay(Gone(Pair), w)[p] = Overlay(Gone(Pair), me.work)[p]
  BY <1>0, <1>2, ReadInto
<1>. HIDE DEF w
<1>4. /\ m.pc = "read" /\ m.op = me.op /\ m.todo = t /\ m.work = w
      /\ m.seen = me.seen /\ m \in CallRecord
  BY <1>1, <1>3 DEF CallRecord
<1>. HIDE DEF m, G
<1>5. /\ me.op \in Reads
      /\ \A i \in 1 .. Len(me.todo) : me.todo[i].at \in G
      /\ \A g \in G : (\E i \in 1 .. Len(me.todo) : me.todo[i].at = g) \/ Coherent(me, g)
      /\ rows \in me.seen
  BY DEF CallOK, PcOK, ReadOK, SeenOK, G
<1>6. ASSUME NEW g \in G
      PROVE  (\E i \in 1 .. Len(t) : t[i].at = g) \/ Coherent(m, g)
  <2>1. s.at \in G
    BY <1>1, <1>5
  <2>2. CASE g = s.at
    BY <1>3, <1>4, <1>5, <2>2 DEF Coherent
  <2>3. CASE g # s.at
    <3>1. g \subseteq Pair /\ g \cap s.at = {}
      BY <2>1, <2>3, PiecesApart DEF G
    <3>2. Coherent(me, g) => Coherent(m, g)
      BY <1>3, <1>4, <3>1 DEF Coherent
    <3>3. ASSUME NEW i \in 1 .. Len(me.todo), me.todo[i].at = g
          PROVE  i - 1 \in 1 .. Len(t) /\ t[i - 1] = me.todo[i]
      BY <1>1, <2>3, <3>3
    <3>. QED  BY <1>5, <3>2, <3>3
  <2>. QED  BY <2>2, <2>3
<1>7. \A i \in 1 .. Len(t) : t[i].at \in G
  BY <1>1, <1>5
<1>8. ReadOK(kind, m)
  BY <1>4, <1>5, <1>6, <1>7 DEF ReadOK, G
<1>9. SeenOK(rows, m)
  BY <1>4 DEF CallOK, SeenOK
<1>10. PlanOK(kind, m) /\ ScanOK(m) /\ PcOK(m)
  BY <1>4, <1>5 DEF PlanOK, ScanOK, PcOK
<1>. QED  BY <1>4, <1>8, <1>9, <1>10 DEF CallOK, m, w, s, t

\* What Scanned does to a record.
LEMMA ScannedIs ==
  ASSUME NEW r \in CallRecord
  PROVE  /\ Scanned(r) \in CallRecord
         /\ Scanned(r).op = r.op /\ Scanned(r).ask = r.ask /\ Scanned(r).work = r.work
         /\ Scanned(r).seen = r.seen /\ Scanned(r).left = r.left /\ Scanned(r).list = r.list
         /\ \/ Scanned(r).pc = r.pc
            \/ Scanned(r).pc = "stamp" /\ r.op = "snapshot" /\ r.left = {} /\ r.list = {}
            \/ Scanned(r).pc = "exec" /\ r.op # "snapshot" /\ r.left = {}
BY DEF Scanned, CallRecord, Pcs

\* What is left to show of a scan, before Scanned.
LEMMA ScannedOK ==
  ASSUME NEW r \in CallRecord, r.pc = "scan", CallOK(kind, rows, r)
  PROVE  CallOK(kind, rows, Scanned(r))
<1>. DEFINE m == Scanned(r)
<1>1. /\ m.op = r.op /\ m.ask = r.ask /\ m.work = r.work
      /\ m.seen = r.seen /\ m.left = r.left /\ m.list = r.list
      /\ \/ m.pc = "scan"
         \/ m.pc = "stamp" /\ r.op = "snapshot" /\ r.left = {} /\ r.list = {}
         \/ m.pc = "exec" /\ r.op # "snapshot" /\ r.left = {}
  BY ScannedIs
<1>. HIDE DEF m
<1>2. SeenOK(rows, m)
  BY <1>1 DEF CallOK, SeenOK
<1>3. PlanOK(kind, m)
  BY <1>1 DEF PlanOK
<1>4. ScanOK(m)
  BY <1>1 DEF CallOK, ScanOK
<1>5. PcOK(m)
  BY <1>1 DEF CallOK, PcOK
<1>6. ReadOK(kind, m)
  <2>1. SUFFICES ASSUME r.op \in Reads PROVE ReadOK(kind, m)
    BY <1>1 DEF ReadOK
  <2>2. /\ kind = "redis" /\ r.op = "snapshot" /\ r.left \cap r.list = {}
        /\ \A n \in NS :
              IF n \in r.left \cup r.list THEN Of(n) \cap DOMAIN r.work = {}
              ELSE Coherent(r, Of(n))
    BY <2>1 DEF CallOK, ReadOK
  <2>3. \A g : Coherent(r, g) => Coherent(m, g)
    BY <1>1 DEF Coherent
  <2>4. Pieces(kind, r.op) = {Of(n) : n \in NS}
    BY <2>2 DEF Pieces
  <2>5. m.pc = "stamp" => \A n \in NS : Coherent(m, Of(n))
    BY <1>1, <2>2, <2>3
  <2>. QED  BY <1>1, <2>2, <2>3, <2>4, <2>5 DEF ReadOK
<1>. QED  BY <1>2, <1>3, <1>4, <1>5, <1>6 DEF CallOK, m

\* SCAN comes by the hash of n.
LEMMA ScanStepOK ==
  ASSUME Types, NEW me \in CallRecord, CallOK(kind, rows, me), me.pc = "scan", NEW n \in me.left
  PROVE  LET there == \E p \in Of(n) : rows[p] # Nil
             r == [me EXCEPT !.left = @ \ {n}, !.list = IF there THEN @ \cup {n} ELSE @]
         IN  r \in CallRecord /\ r.pc = "scan" /\ CallOK(kind, rows, r)
<1>. DEFINE there == \E p \in Of(n) : rows[p] # Nil
            r == [me EXCEPT !.left = @ \ {n}, !.list = IF there THEN @ \cup {n} ELSE @]
<1>1. /\ r.pc = "scan" /\ r.op = me.op /\ r.ask = me.ask /\ r.work = me.work
      /\ r.seen = me.seen /\ r.left = me.left \ {n}
      /\ r.list = (IF there THEN me.list \cup {n} ELSE me.list)
      /\ r \in CallRecord
  BY DEF CallRecord
<1>. HIDE DEF r
<1>2. me.op \in {"clear", "restore", "snapshot"}
  BY DEF CallOK, PcOK
<1>3. rows \in me.seen
  BY <1>2 DEF CallOK, SeenOK, Reads, Wipes
<1>4. SeenOK(rows, r) /\ PlanOK(kind, r) /\ PcOK(r)
  BY <1>1 DEF CallOK, SeenOK, PlanOK, PcOK
<1>5. ~ there => \A p \in Of(n) : rows[p] = Nil
  OBVIOUS
<1>. HIDE DEF there
<1>6. ScanOK(r)
  BY <1>1, <1>3, <1>5 DEF CallOK, ScanOK
<1>7. ReadOK(kind, r)
  <2>1. SUFFICES ASSUME me.op \in Reads PROVE ReadOK(kind, r)
    BY <1>1 DEF ReadOK
  <2>2. /\ kind = "redis" /\ me.op = "snapshot" /\ me.left \cap me.list = {}
        /\ \A x \in NS :
              IF x \in me.left \cup me.list THEN Of(x) \cap DOMAIN me.work = {}
              ELSE Coherent(me, Of(x))
    BY <2>1 DEF CallOK, ReadOK
  <2>3. \A g : Coherent(me, g) => Coherent(r, g)
    BY <1>1 DEF Coherent
  <2>4. ~ there => Coherent(r, Of(n))
    <3>1. SUFFICES ASSUME ~ there PROVE Coherent(r, Of(n))
      OBVIOUS
    <3>2. n \in NS
      BY DEF CallRecord
    <3>3. \A p \in Of(n) : p \in Pair /\ p \notin DOMAIN me.work
      BY <2>2, <3>2 DEF Of
    <3>4. \A p \in Of(n) : Overlay(Gone(Pair), me.work)[p] = Nil
      BY <3>3 DEF Overlay, Gone, All
    <3>. QED  BY <1>1, <1>3, <1>5, <3>1, <3>4 DEF Coherent
  <2>5. r.left \cap r.list = {}
    BY <1>1, <2>2
  <2>6. ASSUME NEW x \in NS
        PROVE  IF x \in r.left \cup r.list THEN Of(x) \cap DOMAIN r.work = {}
               ELSE Coherent(r, Of(x))
    BY <1>1, <2>2, <2>3, <2>4
  <2>. QED  BY <1>1, <2>2, <2>5, <2>6 DEF ReadOK
<1>. QED  BY <1>1, <1>4, <1>6, <1>7 DEF CallOK, r, there

\* HGETALL of the hash of n.
LEMMA HGetAllOK ==
  ASSUME Types, NEW me \in CallRecord, CallOK(kind, rows, me),
         me.pc = "scan", me.op = "snapshot", NEW n \in me.list
  PROVE  LET r == [me EXCEPT !.list = @ \ {n},
                     !.work = Overlay(@, [p \in Of(n) |-> rows[p]])]
         IN  r \in CallRecord /\ r.pc = "scan" /\ CallOK(kind, rows, r)
<1>. DEFINE w == Overlay(me.work, [p \in Of(n) |-> rows[p]])
            r == [me EXCEPT !.list = @ \ {n}, !.work = w]
<1>0. rows \in Table /\ Of(n) \in SUBSET Pair
  BY DEF Types, Of
<1>1. /\ w \in Part /\ DOMAIN w = DOMAIN me.work \cup Of(n)
      /\ \A p \in Of(n) : Overlay(Gone(Pair), w)[p] = rows[p]
      /\ \A p \in Pair \ Of(n) : Overlay(Gone(Pair), w)[p] = Overlay(Gone(Pair), me.work)[p]
  BY <1>0, ReadInto
<1>. HIDE DEF w
<1>2. /\ r.pc = "scan" /\ r.op = "snapshot" /\ r.work = w
      /\ r.seen = me.seen /\ r.left = me.left /\ r.list = me.list \ {n}
      /\ r \in CallRecord
  BY <1>1 DEF CallRecord
<1>. HIDE DEF r
<1>3. rows \in me.seen
  BY DEF CallOK, SeenOK, Reads
<1>4. SeenOK(rows, r) /\ PlanOK(kind, r) /\ PcOK(r)
  BY <1>2 DEF CallOK, SeenOK, PlanOK, PcOK, Wipes, Reads
<1>5. ScanOK(r)
  BY <1>2 DEF ScanOK
<1>6. /\ kind = "redis" /\ me.left \cap me.list = {}
      /\ \A x \in NS :
            IF x \in me.left \cup me.list THEN Of(x) \cap DOMAIN me.work = {}
            ELSE Coherent(me, Of(x))
  BY DEF CallOK, ReadOK, Reads
<1>7. \A x : x # n => Of(x) \cap Of(n) = {} /\ Of(x) \subseteq Pair
  BY DEF Of
<1>8. Coherent(r, Of(n))
  BY <1>1, <1>2, <1>3 DEF Coherent
<1>9. \A x : x # n /\ Coherent(me, Of(x)) => Coherent(r, Of(x))
  BY <1>1, <1>2, <1>7 DEF Coherent
<1>10. ASSUME NEW x \in NS
       PROVE  IF x \in r.left \cup r.list THEN Of(x) \cap DOMAIN r.work = {}
              ELSE Coherent(r, Of(x))
  BY <1>1, <1>2, <1>6, <1>7, <1>8, <1>9
<1>11. ReadOK(kind, r)
  BY <1>2, <1>6, <1>10 DEF ReadOK
<1>. QED  BY <1>2, <1>4, <1>5, <1>11 DEF CallOK, r, w

\* A read that has all its rows goes on to be stamped.
LEMMA GotOK ==
  ASSUME NEW me \in CallRecord, CallOK(kind, rows, me),
         me.pc = "read", me.todo = <<>>, me.op = "snapshot"
  PROVE  LET m == [me EXCEPT !.pc = "stamp"]
         IN  m \in CallRecord /\ CallOK(kind, rows, m)
<1>. DEFINE m == [me EXCEPT !.pc = "stamp"]
<1>1. /\ m.pc = "stamp" /\ m.op = "snapshot" /\ m.work = me.work /\ m.seen = me.seen
      /\ m \in CallRecord
  BY DEF CallRecord, Pcs
<1>. HIDE DEF m
<1>2. Len(me.todo) = 0
  BY EmptyTodo
<1>3. \A g \in Pieces(kind, me.op) : Coherent(me, g)
  BY <1>2 DEF CallOK, ReadOK, Reads
<1>4. ReadOK(kind, m)
  BY <1>1, <1>3 DEF ReadOK, Coherent
<1>5. SeenOK(rows, m) /\ PlanOK(kind, m) /\ ScanOK(m) /\ PcOK(m)
  BY <1>1 DEF CallOK, SeenOK, PlanOK, ScanOK, PcOK
<1>. QED  BY <1>1, <1>4, <1>5 DEF CallOK, m

\* BEGIN IMMEDIATE.
LEMMA BegunOK ==
  ASSUME NEW me \in CallRecord, CallOK(kind, rows, me), me.pc = "begin"
  PROVE  LET m == [me EXCEPT !.pc = "rows", !.held = Pair]
         IN  m \in CallRecord /\ CallOK(kind, rows, m)
<1>. DEFINE m == [me EXCEPT !.pc = "rows", !.held = Pair]
<1>1. /\ m.pc = "rows" /\ m.op = me.op /\ m.ask = me.ask /\ m.todo = me.todo
      /\ m.work = me.work /\ m.seen = me.seen /\ m \in CallRecord
  BY DEF CallRecord, Pcs
<1>. HIDE DEF m
<1>2. SeenOK(rows, m)
  BY <1>1 DEF CallOK, SeenOK
<1>3. PlanOK(kind, m)
  BY <1>1 DEF CallOK, PlanOK, Due, Corrected, DropsFirst, DeleteFirst
<1>. QED  BY <1>1, <1>2, <1>3, PlanSuffices DEF m

-----------------------------------------------------------------------------
(* Every step keeps the invariant *)

LEMMA Asked ==
  /\ \A c \in Client : ValOf[c] \in Entry
  /\ Nil \in Entry
  /\ \A p \in Pair, v \in Entry : All({p}, v) \in Part
  /\ \A p \in Pair : Gone({p}) \in Part
  /\ \A n \in NS : Of(n) \in SUBSET Pair /\ Gone(Of(n)) \in Part
  /\ Gone(Pair) \in Part /\ Gone(Pair) \in Table
  /\ \A qs \in Lists : Listed(qs) \in SUBSET Pair
  /\ \A qs \in Lists, v \in Entry : All(Listed(qs), v) \in Part
<1>1. Nil \in Entry /\ \A c \in Client : ValOf[c] \in Entry
  BY BackendAssumption DEF Entry
<1>2. \A S \in SUBSET Pair, v \in Entry : All(S, v) \in Part
  BY ConstPart
<1>3. \A S \in SUBSET Pair : Gone(S) \in Part
  BY <1>1, <1>2 DEF Gone
<1>4. \A n : Of(n) \in SUBSET Pair
  BY DEF Of
<1>5. Gone(Pair) \in Table
  BY <1>1 DEF Gone, All, Table
<1>6. \A qs \in Lists : Listed(qs) \in SUBSET Pair
  <2>1. SUFFICES ASSUME NEW qs \in Lists PROVE Listed(qs) \in SUBSET Pair
    OBVIOUS
  <2>2. qs \in Seq(Pair)
    BY BackendAssumption
  <2>3. DOMAIN qs = 1 .. Len(qs) /\ \A i \in 1 .. Len(qs) : qs[i] \in Pair
    BY <2>2, LenProperties, ElementOfSeq
  <2>. QED  BY <2>3 DEF Listed
<1>. QED  BY <1>1, <1>2, <1>3, <1>4, <1>5, <1>6

LEMMA SnapIs == ASSUME Types, NEW s \in snaps PROVE s.rows \in Table /\ s.rows \in Part
BY TableIsPart DEF Types

LEMMA DiskCallKeeps ==
  ASSUME IInv, NEW c \in Client, kind = "disk", DiskCall(c)
  PROVE  IInv'
<1>. USE Asked
<1>1. ASSUME NEW p \in Pair, Disk_set(c, p) PROVE IInv'
  <2>1. "set" \in Ops \ Reads
    BY DEF Ops, Reads
  <2>. QED  BY <1>1, <2>1, PlainKeeps DEF Disk_set
<1>2. ASSUME NEW p \in Pair, Disk_delete(c, p) PROVE IInv'
  <2>1. "delete" \in Ops \ Reads
    BY DEF Ops, Reads
  <2>. QED  BY <1>2, <2>1, PlainKeeps DEF Disk_delete
<1>3. ASSUME NEW n \in NS, Disk_delete_namespace(c, n) PROVE IInv'
  <2>1. "delete_namespace" \in Ops \ Reads
    BY DEF Ops, Reads, Wipes
  <2>. QED  BY <1>3, <2>1, PlainKeeps DEF Disk_delete_namespace
<1>4. CASE Disk_clear(c)
  <2>1. "clear" \in Ops \ Reads
    BY DEF Ops, Reads, Wipes
  <2>. QED  BY <1>4, <2>1, PlainKeeps DEF Disk_clear
<1>5. ASSUME NEW qs \in Lists, Disk_set_many(c, qs) PROVE IInv'
  <2>1. "set_many" \in Ops \ Reads
    BY DEF Ops, Reads
  <2>. QED  BY <1>5, <2>1, BatchKeeps DEF Disk_set_many, Upserts
<1>6. ASSUME NEW qs \in Lists, Disk_delete_many(c, qs) PROVE IInv'
  <2>1. "delete_many" \in Ops \ Reads
    BY DEF Ops, Reads, Wipes
  <2>. QED  BY <1>6, <2>1, BatchKeeps DEF Disk_delete_many, Gone
<1>7. CASE Disk_get_many(c, Pair)
  BY <1>7, DiskReadKeeps
<1>8. CASE Disk_snapshot(c)
  <2>1. Pieces(kind, "snapshot") = {Pair} /\ "snapshot" \in Reads
    BY DEF Pieces, Reads
  <2>2. Call(c, "snapshot", "read", NoRows, <<Send("read", Pair, Nil)>>)
    BY <1>8 DEF Disk_snapshot
  <2>. QED  BY <2>1, <2>2, WholeReadKeeps
<1>9. ASSUME NEW s \in snaps, Disk_restore(c, s) PROVE IInv'
  BY <1>9, RestoreKeeps DEF Disk_restore
<1>. QED  BY <1>1, <1>2, <1>3, <1>4, <1>5, <1>6, <1>7, <1>8, <1>9 DEF DiskCall

LEMMA PgCallKeeps ==
  ASSUME IInv, NEW c \in Client, kind = "postgres", PgCall(c)
  PROVE  IInv'
<1>. USE Asked
<1>0. /\ "set" \in Ops \ Reads /\ "delete" \in Ops \ Reads /\ "set_many" \in Ops \ Reads
      /\ "delete_namespace" \in Ops \ Reads /\ "delete_many" \in Ops \ Reads
      /\ "clear" \in Ops \ Reads
  BY DEF Ops, Reads, Wipes
<1>1. ASSUME NEW p \in Pair, Pg_set(c, p) PROVE IInv'
  BY <1>0, <1>1, SingleKeeps DEF Pg_set
<1>2. ASSUME NEW p \in Pair, Pg_delete(c, p) PROVE IInv'
  BY <1>0, <1>2, DeleteKeeps DEF Pg_delete
<1>3. ASSUME NEW n \in NS, Pg_delete_namespace(c, n) PROVE IInv'
  BY <1>0, <1>3, DeleteKeeps DEF Pg_delete_namespace
<1>4. CASE Pg_clear(c)
  BY <1>0, <1>4, DeleteKeeps DEF Pg_clear
<1>5. ASSUME NEW qs \in Lists, Pg_set_many(c, qs) PROVE IInv'
  BY <1>0, <1>5, BatchKeeps DEF Pg_set_many, PgUpsert, Upserts
<1>6. ASSUME NEW qs \in Lists, Pg_delete_many(c, qs) PROVE IInv'
  BY <1>0, <1>6, DeleteKeeps DEF Pg_delete_many
<1>7. CASE Pg_get_many(c, Pair)
  <2>1. Pieces(kind, "get_many") = {Pair} /\ "get_many" \in Reads
    BY DEF Pieces, Reads
  <2>. QED  BY <1>7, <2>1, WholeReadKeeps DEF Pg_get_many
<1>8. CASE Pg_snapshot(c)
  <2>1. Pieces(kind, "snapshot") = {Pair} /\ "snapshot" \in Reads
    BY DEF Pieces, Reads
  <2>2. Call(c, "snapshot", "read", NoRows, <<Send("read", Pair, Nil)>>)
    BY <1>8 DEF Pg_snapshot
  <2>. QED  BY <2>1, <2>2, WholeReadKeeps
<1>9. ASSUME NEW s \in snaps, Pg_restore(c, s) PROVE IInv'
  BY <1>9, RestoreKeeps DEF Pg_restore
<1>. QED  BY <1>1, <1>2, <1>3, <1>4, <1>5, <1>6, <1>7, <1>8, <1>9 DEF PgCall, PgTwins

LEMMA RedisCallKeeps ==
  ASSUME IInv, NEW c \in Client, kind = "redis", RedisCall(c)
  PROVE  IInv'
<1>. USE Asked
<1>0. /\ "set" \in Ops \ Reads /\ "delete" \in Ops \ Reads /\ "set_many" \in Ops \ Reads
      /\ "delete_namespace" \in Ops \ Reads /\ "delete_many" \in Ops \ Reads
      /\ "clear" \in Ops \ Reads /\ "restore" \in Ops \ Reads
  BY DEF Ops, Reads, Wipes
<1>1. ASSUME NEW p \in Pair, Redis_set(c, p) PROVE IInv'
  BY <1>0, <1>1, PlainKeeps DEF Redis_set
<1>2. ASSUME NEW p \in Pair, Redis_delete(c, p) PROVE IInv'
  BY <1>0, <1>2, PlainKeeps DEF Redis_delete
<1>3. ASSUME NEW n \in NS, Redis_delete_namespace(c, n) PROVE IInv'
  BY <1>0, <1>3, PlainKeeps DEF Redis_delete_namespace
<1>4. CASE Redis_clear(c)
  BY <1>0, <1>4, PlainKeeps DEF Redis_clear
<1>5. ASSUME NEW qs \in Lists, Redis_set_many(c, qs) PROVE IInv'
  BY <1>0, <1>5, PlainKeeps DEF Redis_set_many
<1>6. ASSUME NEW qs \in Lists, Redis_delete_many(c, qs) PROVE IInv'
  BY <1>0, <1>6, PlainKeeps DEF Redis_delete_many, Gone
<1>7. CASE Redis_get_many(c, Pair)
  BY <1>7, RedisReadKeeps
<1>8. CASE Redis_snapshot(c)
  BY <1>8, RedisSnapshotKeeps
<1>9. ASSUME NEW s \in snaps, Redis_restore(c, s) PROVE IInv'
  <2>1. s.rows \in Table /\ s.rows \in Part
    BY SnapIs DEF IInv
  <2>. QED  BY <1>0, <1>9, <2>1, PlainKeeps DEF Redis_restore
<1>. QED  BY <1>1, <1>2, <1>3, <1>4, <1>5, <1>6, <1>7, <1>8, <1>9 DEF RedisCall, RedisTwins

LEMMA MineIs ==
  ASSUME IInv, NEW c \in Client
  PROVE  /\ Types /\ rows \in Table /\ call[c] \in CallRecord /\ CallOK(kind, rows, call[c])
         /\ call[c].work \in Part /\ call[c].ask \in Part
BY DEF IInv, Types, CallRecord

LEMMA DiskStepKeeps ==
  ASSUME IInv, NEW c \in Client, kind = "disk", DiskStep(c)
  PROVE  IInv'
<1>. USE MineIs
<1>1. CASE DiskAuto(c)
  BY <1>1, OverlayTable, LandKeeps DEF DiskAuto
<1>2. CASE DiskBegin(c)
  BY <1>2, BegunOK, GoKeeps DEF DiskBegin
<1>3. CASE DiskRow(c)
  <2>. DEFINE me == call[c]
  <2>1. me.pc = "rows" /\ me.todo # <<>> /\ me \in CallRecord /\ CallOK(kind, rows, me)
    BY <1>3 DEF DiskRow
  <2>2. me.held \in SUBSET Pair
    BY <2>1 DEF CallRecord
  <2>. DEFINE m == Written(me, Head(me.todo), me.held)
  <2>3. m \in CallRecord /\ CallOK(kind, rows, m)
    BY <2>1, <2>2, WrittenOK
  <2>4. m = [me EXCEPT !.todo = Tail(@),
               !.work = Overlay(@, [p \in Head(me.todo).at |-> Head(me.todo).v])]
    BY <2>1 DEF Written, CallRecord
  <2>5. Go(c, m)
    BY <1>3, <2>4 DEF DiskRow
  <2>. QED  BY <2>3, <2>5, GoKeeps
<1>4. CASE DiskCommit(c)
  BY <1>4, OverlayTable, LandKeeps DEF DiskCommit
<1>. QED  BY <1>1, <1>2, <1>3, <1>4 DEF DiskStep

LEMMA PgStepKeeps ==
  ASSUME IInv, NEW c \in Client, kind = "postgres", PgStep(c)
  PROVE  IInv'
<1>. USE MineIs
<1>. DEFINE me == call[c]
            s  == Head(me.todo)
<1>0. me \in CallRecord /\ CallOK("postgres", rows, me) /\ Types
  OBVIOUS
<1>1. CASE PgPickRows(c)
  <2>1. PICK q \in Orders({p \in s.at : rows[p] # Nil}) :
           Go(c, [me EXCEPT !.seen = {rows},
                            !.todo = [i \in DOMAIN q |-> Send("drop", {q[i]}, Nil)]
                                     \o Tail(me.todo)])
    BY <1>1 DEF PgPickRows
  <2>2. me.pc = "rows" /\ me.todo # <<>> /\ s.do = "delete"
    BY <1>1 DEF PgPickRows
  <2>. DEFINE m == [me EXCEPT !.seen = {rows},
                            !.todo = [i \in DOMAIN q |-> Send("drop", {q[i]}, Nil)]
                                     \o Tail(me.todo)]
  <2>3. m \in CallRecord /\ CallOK("postgres", rows, m)
    BY <1>0, <2>2, PickedOK
  <2>4. Go(c, m)
    BY <2>1
  <2>. HIDE DEF m
  <2>. QED  BY <2>3, <2>4, GoKeeps
<1>2. CASE PgRow(c)
  <2>1. me.pc = "rows" /\ me.todo # <<>> /\ s.do # "delete"
    BY <1>2 DEF PgRow
  <2>2. CASE s.do = "drop" /\ \E p \in s.at : \E r \in me.seen : r[p] = Nil
    <3>. DEFINE m == [me EXCEPT !.todo = Tail(@)]
    <3>1. Go(c, m)
      BY <1>2, <2>2 DEF PgRow
    <3>2. m \in CallRecord /\ CallOK("postgres", rows, m)
      BY <1>0, <2>1, <2>2, SkippedOK
    <3>. HIDE DEF m
    <3>. QED  BY <3>1, <3>2, GoKeeps
  <2>3. CASE ~(s.do = "drop" /\ \E p \in s.at : \E r \in me.seen : r[p] = Nil)
    <3>. DEFINE m == Written(me, s, me.held \cup s.at)
    <3>1. Go(c, m)
      <4>1. Go(c, [me EXCEPT !.todo = Tail(@), !.held = @ \cup s.at,
                             !.work = Overlay(@, [p \in s.at |-> s.v])])
        BY <1>2, <2>3 DEF PgRow
      <4>. QED  BY <4>1 DEF Written
    <3>2. me.held \cup s.at \in SUBSET Pair
      <4>1. s \in Stmt /\ me.held \in SUBSET Pair
        BY <1>0, <2>1, HeadTail DEF CallRecord
      <4>. QED  BY <4>1 DEF Stmt
    <3>3. m \in CallRecord /\ CallOK("postgres", rows, m)
      BY <1>0, <2>1, <3>2, WrittenOK
    <3>. HIDE DEF m
    <3>. QED  BY <3>1, <3>3, GoKeeps
  <2>. QED  BY <2>2, <2>3
<1>3. CASE PgUnique(c)
  BY <1>3, IdleType, IdleOK, GoKeeps DEF PgUnique
<1>4. CASE PgCommit(c)
  BY <1>4, OverlayTable, LandKeeps DEF PgCommit
<1>5. CASE PgDeadlock(c)
  BY <1>5, IdleType, IdleOK, GoKeeps DEF PgDeadlock
<1>. QED  BY <1>1, <1>2, <1>3, <1>4, <1>5 DEF PgStep

\* What MULTI/EXEC sends are rows of the store.
LEMMA CommandsPart ==
  ASSUME NEW me \in CallRecord
  PROVE  Commands(me) \in Part
<1>1. me.ask \in Part
  BY DEF CallRecord
<1>2. DOMAIN me.ask \subseteq Pair /\ \A p \in DOMAIN me.ask : me.ask[p] \in Entry
  BY <1>1, PartIs
<1>3. [p \in Present(me.ask) |-> me.ask[p]] \in Part
  <2>1. Present(me.ask) \in SUBSET Pair
    BY <1>2 DEF Present
  <2>2. [p \in Present(me.ask) |-> me.ask[p]] \in [Present(me.ask) -> Entry]
    BY <1>2 DEF Present
  <2>. QED  BY <2>1, <2>2 DEF Part
<1>4. Gone(UNION {Of(n) : n \in me.list}) \in Part
  <2>1. UNION {Of(n) : n \in me.list} \in SUBSET Pair
    BY DEF Of
  <2>. QED  BY <2>1, ConstPart, Asked DEF Gone
<1>. QED  BY <1>1, <1>3, <1>4, OverlayPart DEF Commands

LEMMA RedisStepKeeps ==
  ASSUME IInv, NEW c \in Client, kind = "redis", RedisStep(c)
  PROVE  IInv'
<1>. USE MineIs
<1>. DEFINE me == call[c]
<1>0. me \in CallRecord /\ CallOK(kind, rows, me) /\ Types
  OBVIOUS
<1>1. CASE RedisScan(c)
  <2>1. PICK n \in me.left :
          LET there == \E p \in Of(n) : rows[p] # Nil
          IN  Go(c, Scanned([me EXCEPT !.left = @ \ {n},
                                       !.list = IF there THEN @ \cup {n} ELSE @]))
    BY <1>1 DEF RedisScan
  <2>. DEFINE there == \E p \in Of(n) : rows[p] # Nil
              r == [me EXCEPT !.left = @ \ {n}, !.list = IF there THEN @ \cup {n} ELSE @]
  <2>2. me.pc = "scan"
    BY <1>1 DEF RedisScan
  <2>3. r \in CallRecord /\ r.pc = "scan" /\ CallOK(kind, rows, r)
    BY <1>0, <2>2, ScanStepOK
  <2>4. Go(c, Scanned(r))
    BY <2>1
  <2>. HIDE DEF r
  <2>. QED  BY <2>3, <2>4, ScannedIs, ScannedOK, GoKeeps
<1>2. CASE RedisHGetAll(c)
  <2>1. PICK n \in me.list :
          Go(c, Scanned([me EXCEPT !.list = @ \ {n},
                           !.work = Overlay(@, [p \in Of(n) |-> rows[p]])]))
    BY <1>2 DEF RedisHGetAll
  <2>. DEFINE r == [me EXCEPT !.list = @ \ {n},
                           !.work = Overlay(@, [p \in Of(n) |-> rows[p]])]
  <2>2. me.pc = "scan" /\ me.op = "snapshot"
    BY <1>2 DEF RedisHGetAll
  <2>3. r \in CallRecord /\ r.pc = "scan" /\ CallOK(kind, rows, r)
    BY <1>0, <2>2, HGetAllOK
  <2>4. Go(c, Scanned(r))
    BY <2>1
  <2>. HIDE DEF r
  <2>. QED  BY <2>3, <2>4, ScannedIs, ScannedOK, GoKeeps
<1>3. CASE RedisExec(c)
  BY <1>3, CommandsPart, OverlayTable, LandKeeps DEF RedisExec
<1>. QED  BY <1>1, <1>2, <1>3 DEF RedisStep

LEMMA StampKeeps ==
  ASSUME IInv, NEW c \in Client, Stamp(c)
  PROVE  IInv'
<1>1. /\ call' = [call EXCEPT ![c] = Idle] /\ kind' = kind /\ rows' = rows
      /\ snaps' = snaps \cup {[id |-> seq + 1, parent |-> last,
                               rows |-> Overlay(Gone(Pair), call[c].work)]}
  BY DEF Stamp
<1>2. Overlay(Gone(Pair), call[c].work) \in Table
  BY MineIs, Asked, OverlayTable
<1>3. \A s \in snaps' : s.rows \in Table
  BY <1>1, <1>2 DEF IInv, Types
<1>. QED  BY <1>1, <1>3, IdleType, IdleOK DEF IInv, Types

LEMMA ReadKeeps ==
  ASSUME IInv, NEW c \in Client, Read(c) \/ Got(c)
  PROVE  IInv'
<1>. DEFINE me == call[c]
<1>0. me \in CallRecord /\ CallOK(kind, rows, me) /\ Types
  BY MineIs
<1>1. CASE Read(c)
  <2>. DEFINE m == [me EXCEPT !.todo = Tail(@),
                     !.work = Overlay(@, [p \in Head(me.todo).at |-> rows[p]])]
  <2>1. me.pc = "read" /\ me.todo # <<>> /\ Go(c, m)
    BY <1>1 DEF Read
  <2>2. m \in CallRecord /\ CallOK(kind, rows, m)
    BY <1>0, <2>1, ReadStepOK
  <2>. HIDE DEF m
  <2>. QED  BY <2>1, <2>2, GoKeeps
<1>2. CASE Got(c) /\ me.op = "snapshot"
  BY <1>0, <1>2, GotOK, GoKeeps DEF Got
<1>3. CASE Got(c) /\ me.op # "snapshot"
  BY <1>3, IdleType, IdleOK, GoKeeps DEF Got
<1>. QED  BY <1>1, <1>2, <1>3

LEMMA InitInv == BackendInit => IInv
<1>1. SUFFICES ASSUME BackendInit PROVE IInv
  OBVIOUS
<1>2. kind \in {"disk", "postgres", "redis"}
  BY <1>1, BackendAssumption DEF BackendInit
<1>3. rows \in Table /\ \A c \in Client : call[c] = Idle
  BY <1>1 DEF BackendInit, Table, Entry
<1>4. call \in [Client -> CallRecord]
  BY <1>1, IdleType DEF BackendInit
<1>5. \A c \in Client : CallOK(kind, rows, call[c])
  BY <1>3, IdleOK
<1>. QED  BY <1>1, <1>2, <1>3, <1>4, <1>5 DEF IInv, Types, BackendInit

LEMMA Inductive == IInv /\ [Next]_vars => IInv'
<1>1. ASSUME IInv, UNCHANGED vars PROVE IInv'
  BY <1>1 DEF IInv, Types, vars, meta
<1>2. ASSUME IInv, NEW c \in Client, kind = "disk" /\ DiskCall(c) PROVE IInv'
  BY <1>2, DiskCallKeeps
<1>3. ASSUME IInv, NEW c \in Client, kind = "postgres" /\ PgCall(c) PROVE IInv'
  BY <1>3, PgCallKeeps
<1>4. ASSUME IInv, NEW c \in Client, kind = "redis" /\ RedisCall(c) PROVE IInv'
  BY <1>4, RedisCallKeeps
<1>5. ASSUME IInv, NEW c \in Client, Advance(c) PROVE IInv'
  BY <1>5, DiskStepKeeps, PgStepKeeps, RedisStepKeeps, ReadKeeps, StampKeeps DEF Advance
<1>6. ASSUME IInv, NEW c \in Client, Fail(c) PROVE IInv'
  BY <1>6, IdleType, IdleOK, GoKeeps DEF Fail
<1>. QED  BY <1>1, <1>2, <1>3, <1>4, <1>5, <1>6 DEF Next

LEMMA Invariance == Spec => []IInv
BY InitInv, Inductive, PTL DEF Spec

-----------------------------------------------------------------------------
(* Reads *)

\* On every backend, what get_many and snapshot return was in the store while
\* they ran, at one moment for each piece that the backend reads at once: the
\* whole table for a SQL snapshot, a hash for Redis (disk.py:139, postgres.py:216,
\* redis.py:231).
THEOREM ReadsAreCoherent == Spec => []ReadsCoherent
<1>1. IInv => ReadsCoherent
  <2>1. SUFFICES ASSUME IInv, NEW c \in Client, call[c].op \in Reads, call[c].todo = <<>>,
                        call[c].pc # "scan", NEW g \in Grains(call[c].op)
                 PROVE  Coherent(call[c], g)
    BY DEF ReadsCoherent, Coherent
  <2>2. Grains(call[c].op) = Pieces(kind, call[c].op)
    BY DEF Grains, Pieces
  <2>3. ReadOK(kind, call[c])
    BY <2>1 DEF IInv, CallOK
  <2>4. Len(call[c].todo) = 0
    BY <2>1, EmptyTodo
  <2>5. \A i : i \notin 1 .. 0
    OBVIOUS
  <2>. QED  BY <2>1, <2>2, <2>3, <2>4, <2>5 DEF ReadOK
<1>. QED  BY <1>1, Invariance, PTL

-----------------------------------------------------------------------------
(* Writes *)

\* A transaction that has sent its statements commits what was asked.
LEMMA CommitWhole ==
  ASSUME IInv, NEW c \in Client, call[c].pc = "rows", call[c].todo = <<>>,
         rows' = Overlay(rows, call[c].work)
  PROVE  LandsWhole(c)
<1>. DEFINE me == call[c]
<1>1. /\ DOMAIN me.work \subseteq DOMAIN me.ask
      /\ \A p \in DOMAIN me.ask : Due(kind, me, p)
  BY DEF IInv, CallOK, PlanOK
<1>2. Len(me.todo) = 0
  BY EmptyTodo
<1>3. DOMAIN me.ask \subseteq Pair /\ DOMAIN rows = Pair
  BY MineIs, PartIs DEF Table
<1>4. /\ \A p \in DOMAIN me.work : rows'[p] = me.work[p]
      /\ \A p \in Pair \ DOMAIN me.work : rows'[p] = rows[p]
  BY <1>3 DEF Overlay
<1>5. ASSUME NEW p \in DOMAIN me.ask PROVE rows'[p] = me.ask[p] \/ MayMiss(c, p)
  <2>1. CASE p \in DOMAIN me.work /\ me.work[p] = me.ask[p]
    BY <1>4, <2>1
  <2>2. CASE /\ kind # "disk" /\ me.ask[p] = Nil /\ p \notin DOMAIN me.work
             /\ \E r \in me.seen : r[p] = Nil
    BY <1>3, <1>4, <2>2 DEF MayMiss
  <2>3. \A i : i \notin 1 .. 0
    OBVIOUS
  <2>. QED  BY <1>1, <1>2, <2>1, <2>2, <2>3 DEF Due
<1>. QED  BY <1>1, <1>4, <1>5 DEF LandsWhole

\* MULTI/EXEC after a scan, or by itself.
LEMMA ExecWhole ==
  ASSUME IInv, NEW c \in Client, kind = "redis", call[c].pc = "exec",
         rows' = Overlay(rows, Commands(call[c]))
  PROVE  LandsWhole(c)
<1>. DEFINE me == call[c]
            gone == Gone(UNION {Of(n) : n \in me.list})
            put  == [p \in Present(me.ask) |-> me.ask[p]]
<1>1. DOMAIN me.ask \subseteq Pair /\ DOMAIN rows = Pair
  BY MineIs, PartIs DEF Table
<1>2. CASE me.op \notin {"clear", "restore"}
  <2>1. rows' = Overlay(rows, me.ask)
    BY <1>2 DEF Commands
  <2>. QED  BY <1>1, <2>1 DEF LandsWhole, Overlay
<1>3. CASE me.op \in {"clear", "restore"}
  <2>1. rows' = Overlay(rows, Overlay(gone, put))
    BY <1>3 DEF Commands
  <2>2. /\ DOMAIN me.ask = Pair /\ me.left = {}
        /\ \A n \in NS : n \in me.left \cup me.list
                         \/ \E r \in me.seen : \A p \in Of(n) : r[p] = Nil
    BY <1>3 DEF IInv, CallOK, ScanOK
  <2>3. ASSUME NEW p \in Pair PROVE rows'[p] = me.ask[p] \/ MayMiss(c, p)
    <3>1. p[1] \in NS /\ p \in Of(p[1])
      BY DEF NS, Of
    <3>2. CASE me.ask[p] # Nil
      <4>1. p \in DOMAIN put /\ put[p] = me.ask[p]
        BY <2>2, <3>2 DEF Present
      <4>. QED  BY <2>1, <4>1 DEF Overlay
    <3>3. CASE me.ask[p] = Nil /\ p[1] \in me.list
      <4>1. p \notin DOMAIN put /\ p \in DOMAIN gone /\ gone[p] = Nil
        BY <3>1, <3>3 DEF Present, Gone, All
      <4>. QED  BY <2>1, <3>3, <4>1 DEF Overlay
    <3>4. CASE me.ask[p] = Nil /\ p[1] \notin me.list
      <4>1. p \notin DOMAIN put /\ p \notin DOMAIN gone
        BY <3>4 DEF Present, Gone, All, Of
      <4>2. rows'[p] = rows[p]
        BY <1>1, <2>1, <4>1 DEF Overlay
      <4>3. \E r \in me.seen : r[p] = Nil
        BY <2>2, <3>1, <3>4
      <4>. QED  BY <3>4, <4>2, <4>3 DEF MayMiss
    <3>. QED  BY <3>2, <3>3, <3>4
  <2>. QED  BY <2>2, <2>3 DEF LandsWhole
<1>. QED  BY <1>2, <1>3

LEMMA StepWhole ==
  ASSUME IInv, Next, rows' # rows
  PROVE  \E c \in Client : call[c].pc # "idle" /\ LandsWhole(c)
<1>1. PICK c \in Client :
        \/ kind = "disk" /\ DiskCall(c)
        \/ kind = "postgres" /\ PgCall(c)
        \/ kind = "redis" /\ RedisCall(c)
        \/ Advance(c)
        \/ Fail(c)
  BY DEF Next
<1>2. ~ DiskCall(c) /\ ~ PgCall(c) /\ ~ RedisCall(c)
  <2>1. \A op, pc, ask, todo : ~ Call(c, op, pc, ask, todo)
    BY DEF Call
  <2>2. ~ DiskCall(c)
    BY <2>1, Zenon
       DEF DiskCall, Disk_set, Disk_delete, Disk_delete_namespace, Disk_clear, Disk_set_many,
           Disk_delete_many, Disk_get_many, Disk_snapshot, Disk_restore
  <2>3. ~ PgCall(c)
    BY <2>1, Zenon
       DEF PgCall, PgTwins, Pg_set, Pg_delete, Pg_delete_namespace, Pg_set_many, Pg_delete_many,
           Pg_get_many, Pg_clear, Pg_snapshot, Pg_restore, PgUpsert, PgDelete
  <2>4. ~ RedisCall(c)
    BY <2>1, Zenon
       DEF RedisCall, RedisTwins, Redis_set, Redis_delete, Redis_delete_namespace,
           Redis_set_many, Redis_delete_many, Redis_get_many, Redis_clear, Redis_snapshot,
           Redis_restore
  <2>. QED  BY <2>2, <2>3, <2>4
<1>3. \A r : ~ Go(c, r)
  BY DEF Go
<1>4. \/ kind = "disk" /\ (DiskAuto(c) \/ DiskCommit(c))
      \/ kind = "postgres" /\ PgCommit(c)
      \/ kind = "redis" /\ RedisExec(c)
  <2>1. ~ DiskBegin(c) /\ ~ DiskRow(c) /\ ~ Fail(c) /\ ~ Read(c) /\ ~ Got(c)
    BY <1>3, Zenon DEF DiskBegin, DiskRow, Fail, Read, Got
  <2>2. ~ PgPickRows(c) /\ ~ PgRow(c) /\ ~ PgUnique(c) /\ ~ PgDeadlock(c)
    BY <1>3, Zenon DEF PgPickRows, PgRow, PgUnique, PgDeadlock
  <2>3. ~ RedisScan(c) /\ ~ RedisHGetAll(c)
    BY <1>3, Zenon DEF RedisScan, RedisHGetAll
  <2>4. ~ Stamp(c)
    BY DEF Stamp
  <2>. QED  BY <1>1, <1>2, <2>1, <2>2, <2>3, <2>4 DEF Advance, DiskStep, PgStep, RedisStep
<1>5. CASE DiskAuto(c)
  <2>1. call[c].pc # "idle" /\ rows' = Overlay(rows, call[c].ask)
    BY <1>5 DEF DiskAuto, Land
  <2>2. DOMAIN call[c].ask \subseteq Pair /\ DOMAIN rows = Pair
    BY MineIs, PartIs DEF Table
  <2>3. LandsWhole(c)
    BY <2>1, <2>2 DEF LandsWhole, Overlay
  <2>. QED  BY <2>1, <2>3
<1>6. CASE DiskCommit(c) \/ PgCommit(c)
  BY <1>6, CommitWhole DEF DiskCommit, PgCommit, Land
<1>7. CASE kind = "redis" /\ RedisExec(c)
  BY <1>7, ExecWhole DEF RedisExec, Land
<1>. QED  BY <1>4, <1>5, <1>6, <1>7

\* On every backend a change of the rows is one call taking effect as a whole,
\* whatever the other callers do meanwhile; only a row that was missing at some
\* moment may survive a wipe of Postgres or Redis (disk.py:131, postgres.py:206,
\* redis.py:153).
THEOREM WritesLandWhole == Spec => WholeWrites
<1>1. IInv /\ [Next]_vars => [\E c \in Client : call[c].pc # "idle" /\ LandsWhole(c)]_rows
  BY StepWhole DEF vars
<1>. QED  BY <1>1, Invariance, PTL DEF Spec, WholeWrites
=============================================================================

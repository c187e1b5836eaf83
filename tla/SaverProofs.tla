---------------------------- MODULE SaverProofs ----------------------------
(***************************************************************************)
(* Theorems about Saver, for any callers, savers, threads, channels, keys, *)
(* bounds and configuration of the saver.                                  *)
(***************************************************************************)
EXTENDS Saver, FiniteSetTheorems, WellFoundedInduction, TLAPS

-----------------------------------------------------------------------------
(* Rows: functions on some of the keys *)

Part(A, B) == UNION {[D -> B] : D \in SUBSET A}

\* A function on some of A.
LEMMA PartIs ==
  ASSUME NEW A, NEW B, NEW f
  PROVE  f \in Part(A, B) <=> /\ DOMAIN f \subseteq A
                              /\ f = [x \in DOMAIN f |-> f[x]]
                              /\ \A x \in DOMAIN f : f[x] \in B
<1>1. ASSUME f \in Part(A, B)
      PROVE  DOMAIN f \subseteq A /\ f = [x \in DOMAIN f |-> f[x]] /\ \A x \in DOMAIN f : f[x] \in B
  <2>1. PICK D \in SUBSET A : f \in [D -> B]
    BY <1>1 DEF Part
  <2>. QED  BY <2>1
<1>2. ASSUME DOMAIN f \subseteq A, f = [x \in DOMAIN f |-> f[x]], \A x \in DOMAIN f : f[x] \in B
      PROVE  f \in Part(A, B)
  <2>1. f \in [DOMAIN f -> B]
    BY <1>2
  <2>. QED  BY <1>2, <2>1 DEF Part
<1>. QED  BY <1>1, <1>2

LEMMA PartElim ==
  ASSUME NEW A, NEW B, NEW f \in Part(A, B)
  PROVE  DOMAIN f \subseteq A /\ \A x \in DOMAIN f : f[x] \in B
  BY PartIs

LEMMA OverIs ==
  ASSUME NEW f, NEW g
  PROVE  /\ DOMAIN Over(f, g) = DOMAIN f \cup DOMAIN g
         /\ \A x \in DOMAIN f : Over(f, g)[x] = f[x]
         /\ \A x \in DOMAIN g \ DOMAIN f : Over(f, g)[x] = g[x]
  BY DEF Over

LEMMA OverPart ==
  ASSUME NEW A, NEW B, NEW f \in Part(A, B), NEW g \in Part(A, B)
  PROVE  Over(f, g) \in Part(A, B)
<1>1. /\ DOMAIN f \subseteq A /\ DOMAIN g \subseteq A
      /\ (\A x \in DOMAIN f : f[x] \in B) /\ (\A x \in DOMAIN g : g[x] \in B)
  BY PartElim
<1>2. DOMAIN Over(f, g) \subseteq A /\ \A x \in DOMAIN Over(f, g) : Over(f, g)[x] \in B
  BY <1>1 DEF Over
<1>3. Over(f, g) = [x \in DOMAIN Over(f, g) |-> Over(f, g)[x]]
  BY DEF Over
<1>. QED  BY <1>2, <1>3, PartIs

LEMMA RowIs ==
  ASSUME NEW x, NEW v
  PROVE  DOMAIN Row(x, v) = {x} /\ Row(x, v)[x] = v
  BY DEF Row

LEMMA RowPart ==
  ASSUME NEW A, NEW B, NEW x \in A, NEW v \in B
  PROVE  Row(x, v) \in Part(A, B)
<1>1. Row(x, v) \in [{x} -> B]
  BY DEF Row
<1>. QED  BY <1>1 DEF Part

LEMMA DropPart ==
  ASSUME NEW A, NEW B, NEW f \in Part(A, B), NEW D
  PROVE  Drop(f, D) \in Part(A, B) /\ Only(f, D) \in Part(A, B)
<1>1. DOMAIN f \subseteq A /\ \A x \in DOMAIN f : f[x] \in B
  BY PartElim
<1>2. Drop(f, D) \in [DOMAIN f \ D -> B] /\ Only(f, D) \in [DOMAIN f \cap D -> B]
  BY <1>1 DEF Drop, Only
<1>3. DOMAIN f \ D \in SUBSET A /\ DOMAIN f \cap D \in SUBSET A
  BY <1>1
<1>. QED  BY <1>2, <1>3 DEF Part

LEMMA EmptyPart ==
  ASSUME NEW A, NEW B
  PROVE  Empty \in Part(A, B) /\ DOMAIN Empty = {}
<1>1. Empty \in [{} -> B] /\ DOMAIN Empty = {}
  BY DEF Empty
<1>. QED  BY <1>1 DEF Part

LEMMA PartMonotonic ==
  ASSUME NEW A, NEW B, NEW C, NEW D, A \subseteq C, B \subseteq D, NEW f \in Part(A, B)
  PROVE  f \in Part(C, D)
<1>1. DOMAIN f \subseteq A /\ f = [x \in DOMAIN f |-> f[x]] /\ \A x \in DOMAIN f : f[x] \in B
  BY PartIs
<1>2. DOMAIN f \subseteq C /\ \A x \in DOMAIN f : f[x] \in D
  BY <1>1
<1>. QED  BY <1>1, <1>2, PartIs

-----------------------------------------------------------------------------
(* Ids: least and greatest *)

\* A non-empty set of numbers up to n has a least and a greatest member.
LEMMA Extremes ==
  ASSUME NEW n \in Nat, NEW S \in SUBSET (0 .. n), S # {}
  PROVE  /\ \E i \in S : \A j \in S : i <= j
         /\ \E i \in S : \A j \in S : i >= j
<1>1. ASSUME NEW T \in SUBSET Nat, T # {}
      PROVE  \E i \in T : \A j \in T : i <= j
  <2>1. PICK i \in T : \A j \in T : ~ (<<j, i>> \in OpToRel(<, Nat))
    BY <1>1, WFMin, NatLessThanWellFounded
  <2>2. ASSUME NEW j \in T PROVE i <= j
    <3>1. i \in Nat /\ j \in Nat
      OBVIOUS
    <3>2. ~ (j < i)
      BY <2>1, <2>2, <3>1 DEF OpToRel
    <3>. QED  BY <3>1, <3>2
  <2>. QED  BY <2>2
<1>2. \E i \in S : \A j \in S : i <= j
  BY <1>1
<1>3. \E i \in S : \A j \in S : i >= j
  <2>. DEFINE T == {n - i : i \in S}
  <2>1. T \in SUBSET Nat /\ T # {}
    <3>1. \A i \in S : n - i \in Nat
      OBVIOUS
    <3>2. PICK i : i \in S
      OBVIOUS
    <3>3. n - i \in T
      BY <3>2
    <3>. QED  BY <3>1, <3>3
  <2>2. PICK k \in T : \A j \in T : k <= j
    BY <1>1, <2>1
  <2>3. PICK i \in S : k = n - i
    OBVIOUS
  <2>4. ASSUME NEW j \in S PROVE i >= j
    <3>1. n - j \in T
      OBVIOUS
    <3>2. n - i <= n - j
      BY <2>2, <2>3, <3>1
    <3>3. i \in 0 .. n /\ j \in 0 .. n
      OBVIOUS
    <3>. QED  BY <3>2, <3>3
  <2>. QED  BY <2>4
<1>. QED  BY <1>2, <1>3

LEMMA MaxIs ==
  ASSUME NEW S \in SUBSET IdOrNo, S # {}
  PROVE  /\ Max(S) \in S /\ \A j \in S : j <= Max(S)
         /\ Min(S) \in S /\ \A j \in S : Min(S) <= j
<1>1. MaxId \in Nat /\ S \in SUBSET (0 .. MaxId)
  BY ConstantsAssumption DEF IdOrNo
<1>2. (\E i \in S : \A j \in S : i <= j) /\ (\E i \in S : \A j \in S : i >= j)
  BY <1>1, Extremes
<1>3. Max(S) \in S /\ (\A j \in S : Max(S) >= j)
  BY <1>2 DEF Max
<1>4. Min(S) \in S /\ (\A j \in S : Min(S) <= j)
  BY <1>2 DEF Min
<1>5. \A i, j \in S : i >= j => j <= i
  <2>1. \A i \in S : i \in Int
    BY <1>1
  <2>. QED  BY <2>1
<1>. QED  BY <1>3, <1>4, <1>5

LEMMA IdIs ==
  /\ Id \subseteq IdOrNo /\ None \in IdOrNo /\ None \notin Id /\ 1 \in Id
  /\ IdOrNo \subseteq Nat /\ IdOrNo = Id \cup {None} /\ None \in Nat
<1>1. MaxId \in Nat /\ MaxId >= 1
  BY ConstantsAssumption
<1>. QED  BY <1>1 DEF Id, IdOrNo, None

LEMMA NewestIs ==
  ASSUME NEW S \in SUBSET Id
  PROVE  /\ Newest(S) \in IdOrNo
         /\ S = {} => Newest(S) = None
         /\ S # {} => Newest(S) \in S
         /\ \A j \in S : j <= Newest(S)
<1>1. CASE S = {}
  BY <1>1, IdIs DEF Newest
<1>2. CASE S # {}
  <2>1. S \in SUBSET IdOrNo
    BY IdIs
  <2>. QED  BY <1>2, <2>1, MaxIs DEF Newest
<1>. QED  BY <1>1, <1>2

-----------------------------------------------------------------------------
(* Types *)

PutPCs   == {"put_hint", "put_blobs", "put_rows", "put_rest"}
WritePCs == {"write_check", "write_flush"}
BuildPCs == {"build_blobs", "build_keys", "build_writes"}
WalkPCs  == {"trim_next", "walk_row", "walk_vals"}
CopyPCs  == {"copy_ck", "copy_wr", "copy_bl", "copy_lt"}

\* What a call may still have to do: blobs, writes or checkpoints.
Things == (Channel \X Id) \cup (Id \X WKey) \cup Id

Local ==
  [pc: PCs, op: OpNames \cup {""}, t: Thread \cup {None}, id: IdOrNo,
   rec: Record \cup {NoRow}, publish: BOOLEAN, keys: SUBSET (Channel \X IdOrNo),
   todo: SUBSET Things, batch: Part(Things, IdOrNo \cup WVal), bound: IdOrNo,
   ids: SUBSET Id, recs: Part(Id, Record \cup {NoRow}), keep: Nat, cur: IdOrNo,
   missing: SUBSET Channel, needed: SUBSET Id, doomed: SUBSET Id, kept: SUBSET Id,
   threads: SUBSET Thread, runs: SUBSET Run, want: IdOrNo, before: IdOrNo]

\* What the locals are at each point of a call.
Shape(me) ==
  /\ me.pc \notin {"idle", "list_next", "runs_next"} => me.t \in Thread
  /\ me.pc = "list_next" /\ me.ids # {} => me.t \in Thread
  /\ me.pc \in PutPCs => /\ me.id \in Id /\ me.rec \in Record
                         /\ me.todo \subseteq Channel \X Id
                         /\ me.batch \in Part(Channel \X Id, IdOrNo)
  /\ me.pc \in WritePCs => /\ me.todo \subseteq Id \X WKey
                           /\ me.batch \in Part(Id \X WKey, WVal)
  /\ me.pc \in BuildPCs => me.rec \in Record
  /\ me.pc \in WalkPCs => me.todo \subseteq DOMAIN me.recs
  /\ me.pc = "walk_vals" => me.cur \in DOMAIN me.recs
  /\ me.pc \in CopyPCs => me.threads # {}

CkT == [Thread -> Part(Id, Record)]
WrT == [Thread -> Part(Id \X WKey, WVal)]
BlT == [Thread -> Part(Channel \X Id, IdOrNo)]
LtT == [Thread -> IdOrNo]

Stores   == ck \in CkT /\ wr \in WrT /\ bl \in BlT /\ lt \in LtT
Hints    == max_seen \in [Saver -> LtT] /\ prune_floor \in [Saver -> LtT]
Archives == arch \in CkT /\ awr \in WrT /\ done \in [Thread -> SUBSET Id]
Backups  ==
  backup # <<>> => backup \in CkT \X WrT \X BlT \X LtT \X WrT

\* Everything stored was put, and a channel's version is no greater than the
\* id of the checkpoint that has it.
Known ==
  /\ \A t \in Thread : /\ DOMAIN ck[t] \subseteq DOMAIN arch[t]
                       /\ backup # <<>> => DOMAIN backup[1][t] \subseteq DOMAIN arch[t]
                       /\ \A i \in DOMAIN arch[t], c \in Channel : arch[t][i].vers[c] <= i
  /\ \A p \in Proc : l[p].pc \in PutPCs => l[p].id \in DOMAIN arch[l[p].t]

TypeInv ==
  /\ Stores /\ Hints /\ Archives /\ Backups
  /\ l \in [Proc -> Local]
  /\ \A p \in Proc : Shape(l[p])
  /\ calls \in [Proc -> 0 .. MaxCalls]
  /\ Known

LEMMA PartBatch ==
  ASSUME NEW f
  PROVE  /\ f \in Part(Channel \X Id, IdOrNo) => f \in Part(Things, IdOrNo \cup WVal)
         /\ f \in Part(Id \X WKey, WVal) => f \in Part(Things, IdOrNo \cup WVal)
<1>1. /\ Channel \X Id \subseteq Things /\ Id \X WKey \subseteq Things
      /\ IdOrNo \subseteq IdOrNo \cup WVal /\ WVal \subseteq IdOrNo \cup WVal
  BY DEF Things
<1>. QED  BY <1>1, PartMonotonic

LEMMA ValuesAre ==
  NoVals \in Values /\ \A i \in IdOrNo : [c \in Channel |-> i] \in Values
  BY IdIs DEF NoVals, Values

LEMMA NoRowIs ==
  NoRow \notin Record
<1>1. -1 \notin IdOrNo
  BY IdIs
<1>. QED  BY <1>1 DEF NoRow, Record

LEMMA LocalsAre ==
  Locals0 \in Local /\ Shape(Locals0)
<1>1. Empty \in Part(Things, IdOrNo \cup WVal) /\ Empty \in Part(Id, Record \cup {NoRow})
  BY EmptyPart
<1>2. None \in IdOrNo /\ "idle" \in PCs
  BY IdIs DEF PCs
<1>3. Locals0 \in Local
  BY <1>1, <1>2, IdIs DEF Locals0, Local, None
<1>. QED  BY <1>3 DEF Locals0, Shape, PutPCs, WritePCs, BuildPCs, WalkPCs, CopyPCs

LEMMA StartedIs ==
  ASSUME NEW p, NEW op \in OpNames, NEW t \in Thread \cup {None}, NEW label \in PCs
  PROVE  /\ Started(p, op, t, label) \in Local
         /\ Started(p, op, t, label).pc = label /\ Started(p, op, t, label).t = t
         /\ Started(p, op, t, label).op = op
         /\ Started(p, op, t, label).id = None /\ Started(p, op, t, label).todo = {}
         /\ Started(p, op, t, label).ids = {} /\ Started(p, op, t, label).doomed = {}
         /\ Started(p, op, t, label).kept = {} /\ Started(p, op, t, label).needed = {}
         /\ Started(p, op, t, label).recs = Empty /\ Started(p, op, t, label).batch = Empty
         /\ Started(p, op, t, label).bound = None /\ Started(p, op, t, label).keep = 0
  BY LocalsAre DEF Started, Local, Locals0

LEMMA StartedAtNone ==
  ASSUME NEW p, NEW op \in OpNames, NEW label \in PCs
  PROVE  /\ Started(p, op, None, label) \in Local /\ Started(p, op, None, label).pc = label
         /\ Started(p, op, None, label).ids = {}
  BY LocalsAre DEF Started, Local, Locals0

LEMMA Steps ==
  ASSUME l \in [Proc -> Local], NEW p \in Proc, NEW r, Step(p, r)
  PROVE  /\ l'[p] = r /\ \A q \in Proc : q # p => l'[q] = l[q]
         /\ r \in Local => l' \in [Proc -> Local]
  BY DEF Step

\* A step that changes nothing but its caller's locals.
Only_l == UNCHANGED <<store, hints, backup, hist, calls>>

LEMMA ReadKeeps ==
  ASSUME TypeInv, NEW p \in Proc, NEW r \in Local, Step(p, r), Only_l, Shape(r),
         r.pc \in PutPCs => l[p].pc \in PutPCs /\ r.id = l[p].id /\ r.t = l[p].t
  PROVE  TypeInv'
<1>1. l'[p] = r /\ (\A q \in Proc : q # p => l'[q] = l[q]) /\ l' \in [Proc -> Local]
  BY Steps DEF TypeInv
<1>2. /\ ck' = ck /\ wr' = wr /\ bl' = bl /\ lt' = lt /\ max_seen' = max_seen
      /\ prune_floor' = prune_floor /\ backup' = backup /\ arch' = arch /\ awr' = awr
      /\ done' = done /\ calls' = calls
  BY DEF Only_l, store, hints, hist
<1>3. \A q \in Proc : Shape(l'[q])
  BY <1>1 DEF TypeInv
<1>4. Known'
  BY <1>1, <1>2 DEF TypeInv, Known
<1>. QED  BY <1>1, <1>2, <1>3, <1>4 DEF TypeInv, Stores, Hints, Archives, Backups, Shape


\* What is stored under an id, and the rows of a thread.
LEMMA ReadIs ==
  ASSUME TypeInv, NEW t \in Thread
  PROVE  /\ DOMAIN ck[t] \subseteq Id /\ \A i \in DOMAIN ck[t] : ck[t][i] \in Record
         /\ DOMAIN arch[t] \subseteq Id /\ \A i \in DOMAIN arch[t] : arch[t][i] \in Record
         /\ DOMAIN wr[t] \subseteq Id \X WKey /\ \A x \in DOMAIN wr[t] : wr[t][x] \in WVal
         /\ DOMAIN bl[t] \subseteq Channel \X Id /\ \A x \in DOMAIN bl[t] : bl[t][x] \in IdOrNo
         /\ ck[t] \in Part(Id, Record) /\ wr[t] \in Part(Id \X WKey, WVal)
         /\ bl[t] \in Part(Channel \X Id, IdOrNo) /\ lt[t] \in IdOrNo
         /\ arch[t] \in Part(Id, Record) /\ awr[t] \in Part(Id \X WKey, WVal)
         /\ done[t] \in SUBSET Id
<1>1. /\ ck[t] \in Part(Id, Record) /\ wr[t] \in Part(Id \X WKey, WVal)
      /\ bl[t] \in Part(Channel \X Id, IdOrNo) /\ lt[t] \in IdOrNo
      /\ arch[t] \in Part(Id, Record) /\ awr[t] \in Part(Id \X WKey, WVal)
      /\ done[t] \in SUBSET Id
  BY DEF TypeInv, Stores, Archives, CkT, WrT, BlT, LtT
<1>. QED  BY <1>1, PartElim

LEMMA GetIs ==
  ASSUME TypeInv, NEW t \in Thread, NEW i
  PROVE  /\ Get(ck[t], i) \in Record \cup {NoRow}
         /\ Get(ck[t], i) = NoRow <=> i \notin DOMAIN ck[t]
         /\ i \in DOMAIN ck[t] => Get(ck[t], i) = ck[t][i]
  BY ReadIs, NoRowIs DEF Get

LEMMA ValueIs ==
  ASSUME TypeInv, NEW t \in Thread, NEW r \in Record, NEW c \in Channel
  PROVE  ValueOf(t, r, c) \in IdOrNo
<1>1. r.vals[c] \in IdOrNo
  BY DEF Record, Values
<1>2. \A x \in DOMAIN bl[t] : bl[t][x] \in IdOrNo
  BY ReadIs
<1>. QED  BY <1>1, <1>2, IdIs DEF ValueOf

LEMMA MakePart ==
  ASSUME NEW A, NEW B, NEW D \in SUBSET A, NEW f \in [D -> B]
  PROVE  f \in Part(A, B) /\ DOMAIN f = D
  BY DEF Part

\* The calls under way at a label work on a thread.
LEMMA AtIs ==
  ASSUME TypeInv, NEW p \in Proc
  PROVE  l[p] \in Local /\ Shape(l[p])
  BY DEF TypeInv

-----------------------------------------------------------------------------
(* The steps of a read keep the types *)

LEMMA GetMaxTypes ==
  ASSUME TypeInv, NEW p \in Proc, GetMax(p)
  PROVE  TypeInv'
<1>1. PICK me : me = l[p] /\ me \in Local /\ Shape(me) /\ me.pc = "get_max"
  BY AtIs DEF GetMax, ReadStep, At
<1>2. me.t \in Thread
  BY <1>1 DEF Shape
<1>3. PICK top \in IdOrNo : top = MaxKey(me.t)
  BY <1>2, ReadIs, NewestIs DEF MaxKey, Keys
<1>4. PICK pc \in PCs : pc \in {"got", "get_saved"} /\ pc = IF top = None THEN "got" ELSE "get_saved"
  BY DEF PCs
<1>5. PICK r : r = [me EXCEPT !.id = top, !.pc = pc]
  OBVIOUS
<1>6. Step(p, r) /\ Only_l
  BY <1>1, <1>3, <1>4, <1>5 DEF GetMax, ReadStep, Only_l
<1>7. r \in Local /\ r.pc = pc /\ r.t = me.t /\ r.id = top
  BY <1>1, <1>5 DEF Local
<1>8. Shape(r)
  BY <1>1, <1>2, <1>3, <1>4, <1>7 DEF Shape, PutPCs, WritePCs, BuildPCs, WalkPCs, CopyPCs
<1>. QED  BY <1>4, <1>6, <1>7, <1>8, ReadKeeps DEF PutPCs

LEMMA GetLatestTypes ==
  ASSUME TypeInv, NEW p \in Proc, GetLatest(p)
  PROVE  TypeInv'
<1>1. PICK me : me = l[p] /\ me \in Local /\ Shape(me) /\ me.pc = "get_lt"
  BY AtIs DEF GetLatest, ReadStep, At
<1>2. me.t \in Thread
  BY <1>1 DEF Shape
<1>3. PICK top \in IdOrNo : top = lt[me.t]
  BY <1>2, ReadIs
<1>4. PICK pc \in PCs : pc \in {"get_keys", "get_row"} /\ pc = IF top = None THEN "get_keys" ELSE "get_row"
  BY DEF PCs
<1>5. PICK r : r = [me EXCEPT !.id = top, !.pc = pc]
  OBVIOUS
<1>6. Step(p, r) /\ Only_l
  BY <1>1, <1>3, <1>4, <1>5 DEF GetLatest, ReadStep, Only_l
<1>7. r \in Local /\ r.pc = pc /\ r.t = me.t /\ r.id = top
  BY <1>1, <1>5 DEF Local
<1>8. Shape(r)
  BY <1>1, <1>2, <1>3, <1>4, <1>7 DEF Shape, PutPCs, WritePCs, BuildPCs, WalkPCs, CopyPCs
<1>. QED  BY <1>4, <1>6, <1>7, <1>8, ReadKeeps DEF PutPCs

LEMMA GetPointedTypes ==
  ASSUME TypeInv, NEW p \in Proc, GetPointed(p)
  PROVE  TypeInv'
<1>1. PICK me : me = l[p] /\ me \in Local /\ Shape(me) /\ me.pc = "get_row"
  BY AtIs DEF GetPointed, ReadStep, At
<1>2. me.t \in Thread
  BY <1>1 DEF Shape
<1>3. PICK g \in Record \cup {NoRow} : g = Get(ck[me.t], me.id)
  BY <1>2, GetIs
<1>4. PICK pc \in PCs : pc \in {"get_keys", "build_blobs", "build_keys"} /\ pc = IF g = NoRow THEN "get_keys" ELSE Build
  BY DEF PCs, Build
<1>5. PICK r : r = [me EXCEPT !.rec = g, !.pc = pc]
  OBVIOUS
<1>6. Step(p, r) /\ Only_l
  BY <1>1, <1>3, <1>4, <1>5 DEF GetPointed, ReadStep, Only_l
<1>7. r \in Local /\ r.pc = pc /\ r.t = me.t /\ r.rec = g
  BY <1>1, <1>5 DEF Local
<1>8. Shape(r)
  BY <1>1, <1>2, <1>3, <1>4, <1>7 DEF Shape, PutPCs, WritePCs, BuildPCs, WalkPCs, CopyPCs
<1>. QED  BY <1>4, <1>6, <1>7, <1>8, ReadKeeps DEF PutPCs

LEMMA GetKeysTypes ==
  ASSUME TypeInv, NEW p \in Proc, GetKeys(p)
  PROVE  TypeInv'
<1>1. PICK me : me = l[p] /\ me \in Local /\ Shape(me) /\ me.pc = "get_keys"
  BY AtIs DEF GetKeys, ReadStep, At
<1>2. me.t \in Thread
  BY <1>1 DEF Shape
<1>3. PICK top \in IdOrNo : top = Newest(Keys(me.t))
  BY <1>2, ReadIs, NewestIs DEF Keys
<1>4. PICK pc \in PCs : pc \in {"got", "get_publish"} /\ pc = IF top = None THEN "got" ELSE "get_publish"
  BY DEF PCs
<1>5. PICK r : r = [me EXCEPT !.id = top, !.pc = pc]
  OBVIOUS
<1>6. Step(p, r) /\ Only_l
  BY <1>1, <1>3, <1>4, <1>5 DEF GetKeys, ReadStep, Only_l
<1>7. r \in Local /\ r.pc = pc /\ r.t = me.t /\ r.id = top
  BY <1>1, <1>5 DEF Local
<1>8. Shape(r)
  BY <1>1, <1>2, <1>3, <1>4, <1>7 DEF Shape, PutPCs, WritePCs, BuildPCs, WalkPCs, CopyPCs
<1>. QED  BY <1>4, <1>6, <1>7, <1>8, ReadKeeps DEF PutPCs

LEMMA GetSavedTypes ==
  ASSUME TypeInv, NEW p \in Proc, GetSaved(p)
  PROVE  TypeInv'
<1>1. PICK me : me = l[p] /\ me \in Local /\ Shape(me) /\ me.pc = "get_saved"
  BY AtIs DEF GetSaved, ReadStep, At
<1>2. me.t \in Thread
  BY <1>1 DEF Shape
<1>3. PICK g \in Record \cup {NoRow} : g = Get(ck[me.t], me.id)
  BY <1>2, GetIs
<1>4. PICK i \in IdOrNo : i = IF g = NoRow THEN None ELSE me.id
  BY <1>1, IdIs DEF Local
<1>5. PICK pc \in PCs : pc \in {"got", "build_blobs", "build_keys"} /\ pc = IF g = NoRow THEN "got" ELSE Build
  BY DEF PCs, Build
<1>6. PICK r : r = [me EXCEPT !.rec = g, !.id = i, !.pc = pc]
  OBVIOUS
<1>7. Step(p, r) /\ Only_l
  BY <1>1, <1>3, <1>4, <1>5, <1>6 DEF GetSaved, ReadStep, Only_l
<1>8. r \in Local /\ r.pc = pc /\ r.t = me.t /\ r.rec = g /\ r.id = i
  BY <1>1, <1>6 DEF Local
<1>9. Shape(r)
  BY <1>1, <1>2, <1>3, <1>4, <1>5, <1>8 DEF Shape, PutPCs, WritePCs, BuildPCs, WalkPCs, CopyPCs
<1>. QED  BY <1>5, <1>7, <1>8, <1>9, ReadKeeps DEF PutPCs

LEMMA BuildKeysTypes ==
  ASSUME TypeInv, NEW p \in Proc, BuildKeys(p)
  PROVE  TypeInv'
<1>1. PICK me : me = l[p] /\ me \in Local /\ Shape(me) /\ me.pc = "build_keys"
  BY AtIs DEF BuildKeys, ReadStep, At
<1>2. me.t \in Thread
  BY <1>1 DEF Shape
<1>3. PICK S \in SUBSET Things : S = WritesNs(me.t, me.id)
  BY <1>2, ReadIs DEF WritesNs, Things
<1>4. PICK pc \in PCs : pc \in {"build_writes"} /\ pc = "build_writes"
  BY DEF PCs
<1>5. PICK r : r = [me EXCEPT !.todo = S, !.pc = pc]
  OBVIOUS
<1>6. Step(p, r) /\ Only_l
  BY <1>1, <1>3, <1>4, <1>5 DEF BuildKeys, ReadStep, Only_l
<1>7. r \in Local /\ r.pc = pc /\ r.t = me.t /\ r.todo = S /\ r.rec = me.rec
  BY <1>1, <1>5 DEF Local
<1>8. Shape(r)
  BY <1>1, <1>2, <1>3, <1>4, <1>7 DEF Shape, PutPCs, WritePCs, BuildPCs, WalkPCs, CopyPCs
<1>. QED  BY <1>4, <1>6, <1>7, <1>8, ReadKeeps DEF PutPCs

LEMMA BuildWritesTypes ==
  ASSUME TypeInv, NEW p \in Proc, BuildWrites(p)
  PROVE  TypeInv'
<1>1. PICK me : me = l[p] /\ me \in Local /\ Shape(me) /\ me.pc = "build_writes"
  BY AtIs DEF BuildWrites, ReadStep, At
<1>2. me.t \in Thread
  BY <1>1 DEF Shape
<1>3. PICK S \in SUBSET Things : S = {}
  OBVIOUS
<1>4. PICK b \in Part(Things, IdOrNo \cup WVal) : b = Only(wr[me.t], me.todo)
  BY <1>2, ReadIs, DropPart, PartBatch
<1>5. PICK pc \in PCs : pc \in {"got"} /\ pc = "got"
  BY DEF PCs
<1>6. PICK r : r = [me EXCEPT !.todo = S, !.batch = b, !.pc = pc]
  OBVIOUS
<1>7. Step(p, r) /\ Only_l
  BY <1>1, <1>3, <1>4, <1>5, <1>6 DEF BuildWrites, ReadStep, Only_l
<1>8. r \in Local /\ r.pc = pc /\ r.t = me.t /\ r.todo = S /\ r.batch = b
  BY <1>1, <1>6 DEF Local
<1>9. Shape(r)
  BY <1>1, <1>2, <1>3, <1>4, <1>5, <1>8 DEF Shape, PutPCs, WritePCs, BuildPCs, WalkPCs, CopyPCs
<1>. QED  BY <1>5, <1>7, <1>8, <1>9, ReadKeeps DEF PutPCs

\* A call that returns without having changed anything.
LEMMA ReturnKeeps ==
  ASSUME TypeInv, NEW p \in Proc, Step(p, Locals0), Only_l
  PROVE  TypeInv'
<1>1. Locals0.pc = "idle"
  BY DEF Locals0
<1>. QED  BY <1>1, LocalsAre, ReadKeeps DEF PutPCs

LEMMA AttachValuesTypes ==
  ASSUME TypeInv, NEW p \in Proc, AttachValues(p)
  PROVE  TypeInv'
<1>1. PICK me : me = l[p] /\ me \in Local /\ Shape(me) /\ me.pc = "build_blobs"
  BY AtIs DEF AttachValues, ReadStep, At
<1>2. me.t \in Thread
  BY <1>1 DEF Shape
<1>3. PICK v \in Values : v = [c \in Channel |-> ValueOf(me.t, me.rec, c)]
  BY <1>1, <1>2, ValueIs DEF Shape, Values, BuildPCs
<1>4. PICK g \in Record : g = [me.rec EXCEPT !.vals = v]
  BY <1>1 DEF Shape, Record, BuildPCs
<1>5. PICK pc \in PCs : pc \in {"build_keys"} /\ pc = "build_keys"
  BY DEF PCs
<1>6. PICK r : r = [me EXCEPT !.rec = g, !.pc = pc]
  OBVIOUS
<1>7. Step(p, r) /\ Only_l
  BY <1>1, <1>3, <1>4, <1>5, <1>6 DEF AttachValues, ReadStep, Only_l
<1>8. r \in Local /\ r.pc = pc /\ r.t = me.t /\ r.rec = g
  BY <1>1, <1>6 DEF Local
<1>9. Shape(r)
  BY <1>1, <1>2, <1>3, <1>4, <1>5, <1>8 DEF Shape, PutPCs, WritePCs, BuildPCs, WalkPCs, CopyPCs
<1>. QED  BY <1>5, <1>7, <1>8, <1>9, ReadKeeps DEF PutPCs

LEMMA GetReturnTypes ==
  ASSUME TypeInv, NEW p \in Proc, GetReturn(p)
  PROVE  TypeInv'
<1>1. PICK me : me = l[p] /\ me \in Local /\ Shape(me) /\ me.pc = "got"
  BY AtIs DEF GetReturn, ReadStep, At
<1>2. me.t \in Thread
  BY <1>1 DEF Shape
<1>3. SUFFICES ASSUME me.op = "list" /\ me.keep # 1 PROVE TypeInv'
  BY <1>1, ReturnKeeps DEF GetReturn, ReadStep, Only_l
<1>4. PICK i \in IdOrNo : i = None
  BY IdIs
<1>5. PICK g \in Record \cup {NoRow} : g = NoRow
  OBVIOUS
<1>6. PICK b \in Part(Things, IdOrNo \cup WVal) : b = Empty
  BY EmptyPart
<1>7. PICK k \in Nat : k = IF me.keep = 0 THEN 0 ELSE me.keep - 1
  <2>1. me.keep \in Nat
    BY <1>1 DEF Local
  <2>. QED  BY <2>1
<1>8. PICK pc \in PCs : pc \in {"list_next"} /\ pc = "list_next"
  BY DEF PCs
<1>9. PICK r : r = [me EXCEPT !.id = i, !.rec = g, !.batch = b, !.keep = k, !.pc = pc]
  OBVIOUS
<1>10. Step(p, r) /\ Only_l
  BY <1>1, <1>3, <1>4, <1>5, <1>6, <1>7, <1>8, <1>9 DEF GetReturn, ReadStep, Only_l
<1>11. r \in Local /\ r.pc = pc /\ r.t = me.t /\ r.id = i /\ r.rec = g /\ r.batch = b /\ r.keep = k
  BY <1>1, <1>9 DEF Local
<1>12. Shape(r)
  BY <1>1, <1>2, <1>3, <1>4, <1>5, <1>6, <1>7, <1>8, <1>11 DEF Shape, PutPCs, WritePCs, BuildPCs, WalkPCs, CopyPCs
<1>. QED  BY <1>8, <1>10, <1>11, <1>12, ReadKeeps DEF PutPCs

LEMMA ListKeysTypes ==
  ASSUME TypeInv, NEW p \in Proc, ListKeys(p)
  PROVE  TypeInv'
<1>1. PICK me : me = l[p] /\ me \in Local /\ Shape(me) /\ me.pc = "list_next"
  BY AtIs DEF ListKeys, ReadStep, At
<1>2. CASE me.threads = {} /\ ReadStep(p, "list_next", Locals0)
  BY <1>2, ReturnKeeps DEF ReadStep, Only_l
<1>3. CASE \E t \in me.threads :
             ReadStep(p, "list_next",
                [me EXCEPT !.t = t, !.threads = @ \ {t},
                           !.ids = {i \in IF me.want # None THEN {me.want} ELSE Keys(t) :
                                      me.before = None \/ i < me.before}])
  <2>1. PICK t \in me.threads :
             ReadStep(p, "list_next",
                [me EXCEPT !.t = t, !.threads = @ \ {t},
                           !.ids = {i \in IF me.want # None THEN {me.want} ELSE Keys(t) :
                                      me.before = None \/ i < me.before}])
    BY <1>3
  <2>2. t \in Thread /\ me.want \in IdOrNo
    BY <1>1 DEF Local
  <2>3. PICK S \in SUBSET Id : S = {i \in IF me.want # None THEN {me.want} ELSE Keys(t) :
                                      me.before = None \/ i < me.before}
    BY <2>2, ReadIs, IdIs DEF Keys
  <2>4. PICK r : r = [me EXCEPT !.t = t, !.threads = @ \ {t}, !.ids = S]
    OBVIOUS
  <2>5. Step(p, r) /\ Only_l
    BY <2>1, <2>3, <2>4 DEF ReadStep, Only_l
  <2>6. r \in Local /\ r.pc = "list_next" /\ r.t = t
    BY <1>1, <2>2, <2>4 DEF Local
  <2>7. Shape(r)
    BY <2>2, <2>6 DEF Shape, PutPCs, WritePCs, BuildPCs, WalkPCs, CopyPCs
  <2>. QED  BY <2>5, <2>6, <2>7, ReadKeeps DEF PutPCs
<1>. QED  BY <1>1, <1>2, <1>3 DEF ListKeys

LEMMA ListNextTypes ==
  ASSUME TypeInv, NEW p \in Proc, ListNext(p)
  PROVE  TypeInv'
<1>1. PICK me : me = l[p] /\ me \in Local /\ Shape(me) /\ me.pc = "list_next" /\ me.ids # {}
  BY AtIs DEF ListNext, ReadStep, At
<1>2. me.t \in Thread /\ me.ids \in SUBSET IdOrNo /\ me.ids \in SUBSET Id
  BY <1>1, IdIs DEF Shape, Local
<1>3. PICK i \in Id : i = Max(me.ids)
  BY <1>1, <1>2, MaxIs
<1>4. PICK g \in Record \cup {NoRow} : g = Get(ck[me.t], i)
  BY <1>2, GetIs
<1>5. PICK S \in SUBSET Id : S = me.ids \ {i}
  BY <1>2
<1>6. CASE g = NoRow \/ (me.runs # {} /\ g.run \notin me.runs)
  <2>1. PICK r : r = [me EXCEPT !.ids = S]
    OBVIOUS
  <2>2. Step(p, r) /\ Only_l
    BY <1>1, <1>3, <1>4, <1>5, <1>6, <2>1 DEF ListNext, ReadStep, Only_l
  <2>3. r \in Local /\ r.pc = "list_next" /\ r.t = me.t
    BY <1>1, <2>1 DEF Local
  <2>4. Shape(r)
    BY <1>2, <2>3 DEF Shape, PutPCs, WritePCs, BuildPCs, WalkPCs, CopyPCs
  <2>. QED  BY <2>2, <2>3, <2>4, ReadKeeps DEF PutPCs
<1>7. CASE ~ (g = NoRow \/ (me.runs # {} /\ g.run \notin me.runs))
  <2>1. PICK pc \in PCs : pc = Build /\ pc \in {"build_blobs", "build_keys"}
    BY DEF PCs, Build
  <2>2. PICK r : r = [me EXCEPT !.ids = S, !.id = i, !.rec = g, !.pc = pc]
    OBVIOUS
  <2>3. Step(p, r) /\ Only_l
    BY <1>1, <1>3, <1>4, <1>5, <1>7, <2>1, <2>2 DEF ListNext, ReadStep, Only_l
  <2>4. i \in IdOrNo
    BY IdIs
  <2>5. r \in Local /\ r.pc = pc /\ r.t = me.t /\ r.rec = g
    BY <1>1, <2>2, <2>4 DEF Local
  <2>6. Shape(r)
    BY <1>2, <1>7, <2>1, <2>5 DEF Shape, PutPCs, WritePCs, BuildPCs, WalkPCs, CopyPCs
  <2>. QED  BY <2>1, <2>3, <2>5, <2>6, ReadKeeps DEF PutPCs
<1>. QED  BY <1>6, <1>7

LEMMA PruneKeysTypes ==
  ASSUME TypeInv, NEW p \in Proc, PruneKeys(p)
  PROVE  TypeInv'
<1>1. PICK me : me = l[p] /\ me \in Local /\ Shape(me) /\ me.pc = "prune_keys"
  BY AtIs DEF PruneKeys, ReadStep, At
<1>2. me.t \in Thread
  BY <1>1 DEF Shape
<1>3. SUFFICES ASSUME OverFloor(SaverOf[p], me.t, Cardinality(Keys(me.t))) PROVE TypeInv'
  BY <1>1, ReturnKeeps DEF PruneKeys, ReadStep, Only_l
<1>4. PICK S \in SUBSET Id : S = Keys(me.t)
  BY <1>2, ReadIs DEF Keys
<1>5. PICK pc \in PCs : pc \in {"trim_read"} /\ pc = "trim_read"
  BY DEF PCs
<1>6. PICK r : r = [me EXCEPT !.ids = S, !.pc = pc]
  OBVIOUS
<1>7. Step(p, r) /\ Only_l
  BY <1>1, <1>3, <1>4, <1>5, <1>6 DEF PruneKeys, ReadStep, Only_l
<1>8. r \in Local /\ r.pc = pc /\ r.t = me.t /\ r.ids = S
  BY <1>1, <1>6 DEF Local
<1>9. Shape(r)
  BY <1>1, <1>2, <1>3, <1>4, <1>5, <1>8 DEF Shape, PutPCs, WritePCs, BuildPCs, WalkPCs, CopyPCs
<1>. QED  BY <1>5, <1>7, <1>8, <1>9, ReadKeeps DEF PutPCs

LEMMA TrimIdsTypes ==
  ASSUME TypeInv, NEW p \in Proc, TrimIds(p)
  PROVE  TypeInv'
<1>1. PICK me : me = l[p] /\ me \in Local /\ Shape(me) /\ me.pc = "trim_ids"
  BY AtIs DEF TrimIds, ReadStep, At
<1>2. me.t \in Thread
  BY <1>1 DEF Shape
<1>3. SUFFICES ASSUME Keys(me.t) # {} PROVE TypeInv'
  BY <1>1, ReturnKeeps DEF TrimIds, ReadStep, Only_l
<1>4. PICK S \in SUBSET Id : S = Keys(me.t)
  BY <1>2, ReadIs DEF Keys
<1>5. PICK pc \in PCs : pc \in {"trim_read"} /\ pc = "trim_read"
  BY DEF PCs
<1>6. PICK r : r = [me EXCEPT !.ids = S, !.pc = pc]
  OBVIOUS
<1>7. Step(p, r) /\ Only_l
  BY <1>1, <1>3, <1>4, <1>5, <1>6 DEF TrimIds, ReadStep, Only_l
<1>8. r \in Local /\ r.pc = pc /\ r.t = me.t /\ r.ids = S
  BY <1>1, <1>6 DEF Local
<1>9. Shape(r)
  BY <1>1, <1>2, <1>3, <1>4, <1>5, <1>8 DEF Shape, PutPCs, WritePCs, BuildPCs, WalkPCs, CopyPCs
<1>. QED  BY <1>5, <1>7, <1>8, <1>9, ReadKeeps DEF PutPCs

LEMMA TrimReadTypes ==
  ASSUME TypeInv, NEW p \in Proc, TrimRead(p)
  PROVE  TypeInv'
<1>1. PICK me : me = l[p] /\ me \in Local /\ Shape(me) /\ me.pc = "trim_read"
  BY AtIs DEF TrimRead, ReadStep, At
<1>2. me.t \in Thread
  BY <1>1 DEF Shape
<1>3. PICK S \in SUBSET Id : S = NewestOf(me.ids, me.keep)
  BY <1>1 DEF NewestOf, Local
<1>4. PICK T \in SUBSET Things : T = S
  BY DEF Things
<1>5. PICK f \in Part(Id, Record \cup {NoRow}) : f = [i \in S |-> Get(ck[me.t], i)]
  <2>1. [i \in S |-> Get(ck[me.t], i)] \in [S -> Record \cup {NoRow}]
    BY <1>2, GetIs
  <2>. QED  BY <2>1, MakePart
<1>6. PICK pc \in PCs : pc \in {"trim_next"} /\ pc = "trim_next"
  BY DEF PCs
<1>7. PICK r : r = [me EXCEPT !.todo = T, !.kept = S, !.recs = f, !.pc = pc]
  OBVIOUS
<1>8. Step(p, r) /\ Only_l
  BY <1>1, <1>3, <1>4, <1>5, <1>6, <1>7 DEF TrimRead, ReadStep, Only_l
<1>9. r \in Local /\ r.pc = pc /\ r.t = me.t /\ r.todo = T /\ r.kept = S /\ r.recs = f
  BY <1>1, <1>7 DEF Local
<1>10. Shape(r)
  BY <1>1, <1>2, <1>3, <1>4, <1>5, <1>6, <1>9 DEF Shape, PutPCs, WritePCs, BuildPCs, WalkPCs, CopyPCs
<1>. QED  BY <1>6, <1>8, <1>9, <1>10, ReadKeeps DEF PutPCs

LEMMA LacksIs ==
  ASSUME NEW t, NEW r, NEW cs \in SUBSET Channel
  PROVE  Lacks(t, r, cs) \in SUBSET Channel
  BY DEF Lacks

\* Of the survivors that are left the oldest is next.
LEMMA OldestIs ==
  ASSUME TypeInv, NEW p \in Proc, l[p].pc \in WalkPCs, l[p].todo # {}
  PROVE  /\ Min(l[p].todo) \in l[p].todo /\ Min(l[p].todo) \in Id
         /\ l[p].todo \in SUBSET Id
         /\ l[p].recs[Min(l[p].todo)] \in Record \cup {NoRow}
<1>1. l[p].todo \subseteq DOMAIN l[p].recs /\ l[p].recs \in Part(Id, Record \cup {NoRow})
  BY AtIs DEF Shape, Local
<1>2. DOMAIN l[p].recs \subseteq Id /\ \A i \in DOMAIN l[p].recs : l[p].recs[i] \in Record \cup {NoRow}
  BY <1>1, PartElim
<1>3. l[p].todo \in SUBSET IdOrNo /\ l[p].todo \in SUBSET Id
  BY <1>1, <1>2, IdIs
<1>4. Min(l[p].todo) \in l[p].todo
  BY <1>3, MaxIs
<1>. QED  BY <1>1, <1>2, <1>3, <1>4

LEMMA TrimNextTypes ==
  ASSUME TypeInv, NEW p \in Proc, TrimNext(p)
  PROVE  TypeInv'
<1>1. PICK me : me = l[p] /\ me \in Local /\ Shape(me) /\ me.pc = "trim_next"
  BY AtIs DEF TrimNext, ReadStep, At
<1>2. me.t \in Thread
  BY <1>1 DEF Shape
<1>3. PICK i \in Id : i = Min(me.todo)
  BY <1>1, OldestIs DEF TrimNext, WalkPCs
<1>4. PICK g \in Record \cup {NoRow} : g = me.recs[i]
  BY <1>1, <1>3, OldestIs DEF TrimNext, WalkPCs
<1>5. PICK T \in SUBSET Things : T = me.todo \ {i}
  BY <1>1 DEF Local
<1>6. PICK M \in SUBSET Channel : M = IF g = NoRow THEN {} ELSE Lacks(me.t, g, Delta)
  BY LacksIs DEF Channel
<1>7. PICK u \in IdOrNo : u = IF g = NoRow THEN None ELSE g.parent
  BY <1>4, IdIs DEF Record
<1>8. PICK pc \in PCs : pc \in {"trim_next", "walk_row"} /\ pc = IF g = NoRow \/ Delta = {} THEN "trim_next" ELSE "walk_row"
  BY DEF PCs
<1>9. PICK r : r = [me EXCEPT !.todo = T, !.missing = M, !.cur = u, !.pc = pc]
  OBVIOUS
<1>10. Step(p, r) /\ Only_l
  BY <1>1, <1>3, <1>4, <1>5, <1>6, <1>7, <1>8, <1>9 DEF TrimNext, ReadStep, Only_l
<1>11. r \in Local /\ r.pc = pc /\ r.t = me.t /\ r.todo = T /\ r.missing = M /\ r.cur = u /\ r.recs = me.recs
  BY <1>1, <1>9 DEF Local
<1>12. Shape(r)
  BY <1>1, <1>2, <1>3, <1>4, <1>5, <1>6, <1>7, <1>8, <1>11 DEF Shape, PutPCs, WritePCs, BuildPCs, WalkPCs, CopyPCs
<1>. QED  BY <1>8, <1>10, <1>11, <1>12, ReadKeeps DEF PutPCs

LEMMA WalkRowEnds ==
  ASSUME TypeInv, NEW p \in Proc, WalkRow(p), l[p].missing = {} \/ l[p].cur = None
  PROVE  TypeInv'
<1>1. PICK me : me = l[p] /\ me \in Local /\ Shape(me) /\ me.pc = "walk_row"
  BY AtIs DEF WalkRow, ReadStep, At
<1>2. me.t \in Thread
  BY <1>1 DEF Shape
<1>3. me.missing = {} \/ me.cur = None
  BY <1>1
<1>4. PICK S \in SUBSET Channel : S = {}
  OBVIOUS
<1>5. PICK u \in IdOrNo : u = None
  BY IdIs
<1>6. PICK pc \in PCs : pc \in {"trim_next"} /\ pc = "trim_next"
  BY DEF PCs
<1>7. PICK r : r = [me EXCEPT !.missing = S, !.cur = u, !.pc = pc]
  OBVIOUS
<1>8. Step(p, r) /\ Only_l
  BY <1>1, <1>3, <1>4, <1>5, <1>6, <1>7 DEF WalkRow, ReadStep, Only_l
<1>9. r \in Local /\ r.pc = pc /\ r.t = me.t /\ r.missing = S /\ r.cur = u /\ r.recs = me.recs /\ r.todo = me.todo
  BY <1>1, <1>7 DEF Local
<1>10. Shape(r)
  BY <1>1, <1>2, <1>3, <1>4, <1>5, <1>6, <1>9 DEF Shape, PutPCs, WritePCs, BuildPCs, WalkPCs, CopyPCs
<1>. QED  BY <1>6, <1>8, <1>9, <1>10, ReadKeeps DEF PutPCs

LEMMA WalkRowTypes ==
  ASSUME TypeInv, NEW p \in Proc, WalkRow(p)
  PROVE  TypeInv'
<1>1. PICK me : me = l[p] /\ me \in Local /\ Shape(me) /\ me.pc = "walk_row"
  BY AtIs DEF WalkRow, ReadStep, At
<1>2. me.t \in Thread
  BY <1>1 DEF Shape
<1>3. SUFFICES ASSUME ~ (me.missing = {} \/ me.cur = None) PROVE TypeInv'
  BY <1>1, WalkRowEnds
<1>4. PICK u \in Id : u = me.cur
  BY <1>1, <1>3, IdIs DEF Local
<1>5. PICK f \in Part(Id, Record \cup {NoRow}) : f = Over(me.recs, Row(u, Get(ck[me.t], u)))
  <2>1. me.recs \in Part(Id, Record \cup {NoRow}) /\ Row(u, Get(ck[me.t], u)) \in Part(Id, Record \cup {NoRow})
    BY <1>1, <1>2, GetIs, RowPart DEF Local
  <2>. QED  BY <2>1, OverPart
<1>6. PICK pc \in PCs : pc \in {"walk_vals"} /\ pc = "walk_vals"
  BY DEF PCs
<1>7. PICK r : r = [me EXCEPT !.recs = f, !.pc = pc]
  OBVIOUS
<1>8. Step(p, r) /\ Only_l
  BY <1>1, <1>3, <1>4, <1>5, <1>6, <1>7 DEF WalkRow, ReadStep, Only_l
<1>9. r \in Local /\ r.pc = pc /\ r.t = me.t /\ r.recs = f /\ r.cur = me.cur /\ r.todo = me.todo
  BY <1>1, <1>7 DEF Local
<1>10. Shape(r)
  <2>1. DOMAIN f = DOMAIN me.recs \cup {u}
    BY <1>5 DEF Over, Row
  <2>. QED  BY <1>1, <1>2, <1>4, <1>6, <1>9, <2>1 DEF Shape, PutPCs, WritePCs, BuildPCs, WalkPCs, CopyPCs
<1>. QED  BY <1>6, <1>8, <1>9, <1>10, ReadKeeps DEF PutPCs

LEMMA WalkValsEnds ==
  ASSUME TypeInv, NEW p \in Proc, WalkVals(p), l[p].recs[l[p].cur] = NoRow
  PROVE  TypeInv'
<1>1. PICK me : me = l[p] /\ me \in Local /\ Shape(me) /\ me.pc = "walk_vals"
  BY AtIs DEF WalkVals, ReadStep, At
<1>2. me.t \in Thread
  BY <1>1 DEF Shape
<1>3. me.recs[me.cur] = NoRow
  BY <1>1
<1>4. PICK S \in SUBSET Channel : S = {}
  OBVIOUS
<1>5. PICK u \in IdOrNo : u = None
  BY IdIs
<1>6. PICK pc \in PCs : pc \in {"trim_next"} /\ pc = "trim_next"
  BY DEF PCs
<1>7. PICK r : r = [me EXCEPT !.missing = S, !.cur = u, !.pc = pc]
  OBVIOUS
<1>8. Step(p, r) /\ Only_l
  BY <1>1, <1>3, <1>4, <1>5, <1>6, <1>7 DEF WalkVals, ReadStep, Only_l
<1>9. r \in Local /\ r.pc = pc /\ r.t = me.t /\ r.missing = S /\ r.cur = u /\ r.recs = me.recs /\ r.todo = me.todo
  BY <1>1, <1>7 DEF Local
<1>10. Shape(r)
  BY <1>1, <1>2, <1>3, <1>4, <1>5, <1>6, <1>9 DEF Shape, PutPCs, WritePCs, BuildPCs, WalkPCs, CopyPCs
<1>. QED  BY <1>6, <1>8, <1>9, <1>10, ReadKeeps DEF PutPCs

LEMMA WalkValsTypes ==
  ASSUME TypeInv, NEW p \in Proc, WalkVals(p)
  PROVE  TypeInv'
<1>1. PICK me : me = l[p] /\ me \in Local /\ Shape(me) /\ me.pc = "walk_vals"
  BY AtIs DEF WalkVals, ReadStep, At
<1>2. me.t \in Thread
  BY <1>1 DEF Shape
<1>3. SUFFICES ASSUME me.recs[me.cur] # NoRow PROVE TypeInv'
  BY <1>1, WalkValsEnds
<1>4. PICK f \in Part(Id, Record \cup {NoRow}) : f = me.recs
  BY <1>1 DEF Local
<1>5. PICK u \in Id : u = me.cur
  BY <1>1, <1>4, PartElim DEF Shape
<1>6. PICK g \in Record : g = f[u]
  BY <1>1, <1>3, <1>4, <1>5, PartElim DEF Shape
<1>7. PICK N \in SUBSET Id : N = me.needed \cup {u}
  BY <1>1 DEF Local
<1>8. PICK M \in SUBSET Channel : M = Lacks(me.t, g, me.missing)
  BY <1>1, LacksIs DEF Local
<1>9. PICK w \in IdOrNo : w = g.parent
  BY DEF Record
<1>10. PICK pc \in PCs : pc \in {"walk_row"} /\ pc = "walk_row"
  BY DEF PCs
<1>11. PICK r : r = [me EXCEPT !.needed = N, !.missing = M, !.cur = w, !.pc = pc]
  OBVIOUS
<1>12. Step(p, r) /\ Only_l
  BY <1>1, <1>3, <1>4, <1>5, <1>6, <1>7, <1>8, <1>9, <1>10, <1>11 DEF WalkVals, ReadStep, Only_l
<1>13. r \in Local /\ r.pc = pc /\ r.t = me.t /\ r.needed = N /\ r.missing = M /\ r.cur = w /\ r.recs = me.recs /\ r.todo = me.todo
  BY <1>1, <1>11 DEF Local
<1>14. Shape(r)
  BY <1>1, <1>2, <1>3, <1>4, <1>5, <1>6, <1>7, <1>8, <1>9, <1>10, <1>13 DEF Shape, PutPCs, WritePCs, BuildPCs, WalkPCs, CopyPCs
<1>. QED  BY <1>10, <1>12, <1>13, <1>14, ReadKeeps DEF PutPCs

LEMMA TrimEndTypes ==
  ASSUME TypeInv, NEW p \in Proc, TrimEnd(p)
  PROVE  TypeInv'
<1>1. PICK me : me = l[p] /\ me \in Local /\ Shape(me) /\ me.pc = "trim_next"
  BY AtIs DEF TrimEnd, ReadStep, At
<1>2. me.t \in Thread
  BY <1>1 DEF Shape
<1>3. PICK K \in SUBSET Id : K = me.kept \cup me.needed
  BY <1>1 DEF Local
<1>4. PICK D \in SUBSET Id : D = me.ids \ K
  BY <1>1 DEF Local
<1>5. PICK T \in SUBSET Things : T = D
  BY DEF Things
<1>6. PICK pc \in PCs : pc \in {"dropped", "drop_refs", "drop_writes"} /\ pc = IF D = {} THEN "dropped" ELSE DropStart
  BY DEF PCs, DropStart
<1>7. PICK r : r = [me EXCEPT !.kept = K, !.doomed = D, !.todo = T, !.pc = pc]
  OBVIOUS
<1>8. Step(p, r) /\ Only_l
  BY <1>1, <1>3, <1>4, <1>5, <1>6, <1>7 DEF TrimEnd, ReadStep, Only_l
<1>9. r \in Local /\ r.pc = pc /\ r.t = me.t /\ r.kept = K /\ r.doomed = D /\ r.todo = T
  BY <1>1, <1>7 DEF Local
<1>10. Shape(r)
  BY <1>1, <1>2, <1>3, <1>4, <1>5, <1>6, <1>9 DEF Shape, PutPCs, WritePCs, BuildPCs, WalkPCs, CopyPCs
<1>. QED  BY <1>6, <1>8, <1>9, <1>10, ReadKeeps DEF PutPCs

LEMMA ReferencesAre ==
  ASSUME NEW K, NEW recs, \A i \in K : recs[i] \in Record \cup {NoRow}
  PROVE  References(K, recs) \in SUBSET (Channel \X IdOrNo)
<1>1. NoRow.vers \in Values
  BY ValuesAre DEF NoRow
<1>2. \A i \in K : recs[i].vers \in Values
  BY <1>1 DEF Record
<1>3. \A i \in K, c \in Channel : <<c, recs[i].vers[c]>> \in Channel \X IdOrNo
  BY <1>2 DEF Values
<1>. QED  BY <1>3 DEF References

LEMMA DropRefsTypes ==
  ASSUME TypeInv, NEW p \in Proc, DropRefs(p)
  PROVE  TypeInv'
<1>1. PICK me : me = l[p] /\ me \in Local /\ Shape(me) /\ me.pc = "drop_refs"
  BY AtIs DEF DropRefs, ReadStep, At
<1>2. me.t \in Thread
  BY <1>1 DEF Shape
<1>3. PICK f \in Part(Id, Record \cup {NoRow}) : f = Over(me.recs, [i \in me.kept |-> Get(ck[me.t], i)])
  <2>1. [i \in me.kept |-> Get(ck[me.t], i)] \in [me.kept -> Record \cup {NoRow}]
    BY <1>2, GetIs
  <2>2. me.kept \in SUBSET Id /\ me.recs \in Part(Id, Record \cup {NoRow})
    BY <1>1 DEF Local
  <2>3. [i \in me.kept |-> Get(ck[me.t], i)] \in Part(Id, Record \cup {NoRow})
    BY <2>1, <2>2, MakePart
  <2>. QED  BY <2>2, <2>3, OverPart
<1>4. PICK R \in SUBSET (Channel \X IdOrNo) : R = References(me.kept, f)
  <2>1. \A i \in me.kept : i \in DOMAIN f
    BY <1>3 DEF Over
  <2>2. \A i \in me.kept : f[i] \in Record \cup {NoRow}
    BY <2>1, PartElim
  <2>. QED  BY <2>2, ReferencesAre
<1>5. PICK pc \in PCs : pc \in {"drop_blob_keys"} /\ pc = "drop_blob_keys"
  BY DEF PCs
<1>6. PICK r : r = [me EXCEPT !.keys = R, !.pc = pc]
  OBVIOUS
<1>7. Step(p, r) /\ Only_l
  BY <1>1, <1>3, <1>4, <1>5, <1>6 DEF DropRefs, ReadStep, Only_l
<1>8. r \in Local /\ r.pc = pc /\ r.t = me.t /\ r.keys = R
  BY <1>1, <1>6 DEF Local
<1>9. Shape(r)
  BY <1>1, <1>2, <1>3, <1>4, <1>5, <1>8 DEF Shape, PutPCs, WritePCs, BuildPCs, WalkPCs, CopyPCs
<1>. QED  BY <1>5, <1>7, <1>8, <1>9, ReadKeeps DEF PutPCs

LEMMA DropBlobKeysTypes ==
  ASSUME TypeInv, NEW p \in Proc, DropBlobKeys(p)
  PROVE  TypeInv'
<1>1. PICK me : me = l[p] /\ me \in Local /\ Shape(me) /\ me.pc = "drop_blob_keys"
  BY AtIs DEF DropBlobKeys, ReadStep, At
<1>2. me.t \in Thread
  BY <1>1 DEF Shape
<1>3. PICK R \in SUBSET (Channel \X IdOrNo) : R = OrphanBlobs(me.t, me.keys)
  <2>1. DOMAIN bl[me.t] \subseteq Channel \X Id
    BY <1>2, ReadIs
  <2>2. Channel \X Id \subseteq Channel \X IdOrNo
    BY IdIs
  <2>. QED  BY <2>1, <2>2 DEF OrphanBlobs
<1>4. PICK pc \in PCs : pc \in {"drop_blobs"} /\ pc = "drop_blobs"
  BY DEF PCs
<1>5. PICK r : r = [me EXCEPT !.keys = R, !.pc = pc]
  OBVIOUS
<1>6. Step(p, r) /\ Only_l
  BY <1>1, <1>3, <1>4, <1>5 DEF DropBlobKeys, ReadStep, Only_l
<1>7. r \in Local /\ r.pc = pc /\ r.t = me.t /\ r.keys = R
  BY <1>1, <1>5 DEF Local
<1>8. Shape(r)
  BY <1>1, <1>2, <1>3, <1>4, <1>7 DEF Shape, PutPCs, WritePCs, BuildPCs, WalkPCs, CopyPCs
<1>. QED  BY <1>4, <1>6, <1>7, <1>8, ReadKeeps DEF PutPCs

LEMMA DropLatestTypes ==
  ASSUME TypeInv, NEW p \in Proc, DropLatest(p)
  PROVE  TypeInv'
<1>1. PICK me : me = l[p] /\ me \in Local /\ Shape(me) /\ me.pc = "drop_latest"
  BY AtIs DEF DropLatest, ReadStep, At
<1>2. me.t \in Thread
  BY <1>1 DEF Shape
<1>3. PICK pc \in PCs : pc \in {"drop_fix", "dropped"} /\ pc = IF lt[me.t] \in me.doomed THEN "drop_fix" ELSE "dropped"
  BY DEF PCs
<1>4. PICK r : r = [me EXCEPT !.pc = pc]
  OBVIOUS
<1>5. Step(p, r) /\ Only_l
  BY <1>1, <1>3, <1>4 DEF DropLatest, ReadStep, Only_l
<1>6. r \in Local /\ r.pc = pc /\ r.t = me.t
  BY <1>1, <1>4 DEF Local
<1>7. Shape(r)
  BY <1>1, <1>2, <1>3, <1>6 DEF Shape, PutPCs, WritePCs, BuildPCs, WalkPCs, CopyPCs
<1>. QED  BY <1>3, <1>5, <1>6, <1>7, ReadKeeps DEF PutPCs

LEMMA RunsKeysTypes ==
  ASSUME TypeInv, NEW p \in Proc, RunsKeys(p)
  PROVE  TypeInv'
<1>1. PICK me : me = l[p] /\ me \in Local /\ Shape(me) /\ me.pc = "runs_next"
  BY AtIs DEF RunsKeys, ReadStep, At
<1>2. CASE me.threads = {} /\ ReadStep(p, "runs_next", Locals0)
  BY <1>2, ReturnKeeps DEF ReadStep, Only_l
<1>3. CASE \E t \in me.threads :
             ReadStep(p, "runs_next", [me EXCEPT !.pc = "runs_read", !.t = t, !.threads = @ \ {t},
                                                 !.ids = Keys(t)])
  <2>1. PICK t \in me.threads :
             ReadStep(p, "runs_next", [me EXCEPT !.pc = "runs_read", !.t = t, !.threads = @ \ {t},
                                                 !.ids = Keys(t)])
    BY <1>3
  <2>2. t \in Thread
    BY <1>1 DEF Local
  <2>3. PICK S \in SUBSET Id : S = Keys(t)
    BY <2>2, ReadIs DEF Keys
  <2>4. PICK pc \in PCs : pc = "runs_read"
    BY DEF PCs
  <2>5. PICK r : r = [me EXCEPT !.pc = pc, !.t = t, !.threads = @ \ {t}, !.ids = S]
    OBVIOUS
  <2>6. Step(p, r) /\ Only_l
    BY <2>1, <2>3, <2>4, <2>5 DEF ReadStep, Only_l
  <2>7. r \in Local /\ r.pc = pc /\ r.t = t
    BY <1>1, <2>2, <2>5 DEF Local
  <2>8. Shape(r)
    BY <2>2, <2>4, <2>7 DEF Shape, PutPCs, WritePCs, BuildPCs, WalkPCs, CopyPCs
  <2>. QED  BY <2>4, <2>6, <2>7, <2>8, ReadKeeps DEF PutPCs
<1>. QED  BY <1>1, <1>2, <1>3 DEF RunsKeys

LEMMA RunsReadTypes ==
  ASSUME TypeInv, NEW p \in Proc, RunsRead(p)
  PROVE  TypeInv'
<1>1. PICK me : me = l[p] /\ me \in Local /\ Shape(me) /\ me.pc = "runs_read"
  BY AtIs DEF RunsRead, ReadStep, At
<1>2. me.t \in Thread
  BY <1>1 DEF Shape
<1>3. PICK D \in SUBSET Id :
        D = {i \in me.ids \cap DOMAIN ck[me.t] : ck[me.t][i].run \in me.runs}
  BY <1>1 DEF Local
<1>4. CASE D = {}
  <2>1. PICK pc \in PCs : pc = "runs_next"
    BY DEF PCs
  <2>2. PICK r : r = [me EXCEPT !.pc = pc]
    OBVIOUS
  <2>3. Step(p, r) /\ Only_l
    BY <1>1, <1>3, <1>4, <2>1, <2>2 DEF RunsRead, ReadStep, Only_l
  <2>4. r \in Local /\ r.pc = pc
    BY <1>1, <2>2 DEF Local
  <2>5. Shape(r)
    BY <2>1, <2>4 DEF Shape, PutPCs, WritePCs, BuildPCs, WalkPCs, CopyPCs
  <2>. QED  BY <2>1, <2>3, <2>4, <2>5, ReadKeeps DEF PutPCs
<1>5. CASE D # {}
  <2>1. PICK pc \in PCs : pc = DropStart /\ pc \in {"drop_refs", "drop_writes"}
    BY DEF PCs, DropStart
  <2>2. PICK T \in SUBSET Things : T = D
    BY DEF Things
  <2>3. PICK K \in SUBSET Id : K = me.ids \ D
    BY <1>1 DEF Local
  <2>4. PICK r : r = [me EXCEPT !.pc = pc, !.doomed = D, !.todo = T, !.kept = K]
    OBVIOUS
  <2>5. Step(p, r) /\ Only_l
    BY <1>1, <1>3, <1>5, <2>1, <2>2, <2>3, <2>4 DEF RunsRead, ReadStep, Only_l
  <2>6. r \in Local /\ r.pc = pc /\ r.t = me.t
    BY <1>1, <2>4 DEF Local
  <2>7. Shape(r)
    BY <1>2, <2>1, <2>6 DEF Shape, PutPCs, WritePCs, BuildPCs, WalkPCs, CopyPCs
  <2>. QED  BY <2>1, <2>5, <2>6, <2>7, ReadKeeps DEF PutPCs
<1>. QED  BY <1>4, <1>5

LEMMA DeleteListWritesTypes ==
  ASSUME TypeInv, NEW p \in Proc, DeleteListWrites(p)
  PROVE  TypeInv'
<1>1. PICK me : me = l[p] /\ me \in Local /\ Shape(me) /\ me.pc = "del_wr_list"
  BY AtIs DEF DeleteListWrites, ReadStep, At
<1>2. me.t \in Thread
  BY <1>1 DEF Shape
<1>3. PICK S \in SUBSET Things : S = {x[1] : x \in DOMAIN wr[me.t]}
  BY <1>2, ReadIs DEF Things
<1>4. PICK pc \in PCs : pc \in {"del_bl", "del_wr"} /\ pc = IF S = {} THEN "del_bl" ELSE "del_wr"
  BY DEF PCs
<1>5. PICK r : r = [me EXCEPT !.todo = S, !.pc = pc]
  OBVIOUS
<1>6. Step(p, r) /\ Only_l
  BY <1>1, <1>3, <1>4, <1>5 DEF DeleteListWrites, ReadStep, Only_l
<1>7. r \in Local /\ r.pc = pc /\ r.t = me.t /\ r.todo = S
  BY <1>1, <1>5 DEF Local
<1>8. Shape(r)
  BY <1>1, <1>2, <1>3, <1>4, <1>7 DEF Shape, PutPCs, WritePCs, BuildPCs, WalkPCs, CopyPCs
<1>. QED  BY <1>4, <1>6, <1>7, <1>8, ReadKeeps DEF PutPCs

-----------------------------------------------------------------------------
(* The steps that write keep the types *)

LEMMA SetRowsIs ==
  ASSUME NEW A, NEW B, NEW var \in [Thread -> Part(A, B)], NEW t \in Thread, NEW rows \in Part(A, B)
  PROVE  /\ SetRows(var, t, rows) \in [Thread -> Part(A, B)]
         /\ SetRows(var, t, rows)[t] = Over(rows, var[t])
         /\ \A u \in Thread : u # t => SetRows(var, t, rows)[u] = var[u]
<1>1. Over(rows, var[t]) \in Part(A, B)
  BY OverPart
<1>. QED  BY <1>1 DEF SetRows

LEMMA DropRowsIs ==
  ASSUME NEW A, NEW B, NEW var \in [Thread -> Part(A, B)], NEW t \in Thread, NEW D
  PROVE  /\ DropRows(var, t, D) \in [Thread -> Part(A, B)]
         /\ DropRows(var, t, D)[t] = Drop(var[t], D)
         /\ \A u \in Thread : u # t => DropRows(var, t, D)[u] = var[u]
<1>1. Drop(var[t], D) \in Part(A, B)
  BY DropPart
<1>. QED  BY <1>1 DEF DropRows

LEMMA CopyRowsIs ==
  ASSUME NEW A, NEW B, NEW var \in [Thread -> Part(A, B)], NEW t \in Thread, NEW u \in Thread
  PROVE  /\ CopyRows(var, t, u) \in [Thread -> Part(A, B)]
         /\ CopyRows(var, t, u)[u] = Over(var[t], var[u])
         /\ \A v \in Thread : v # u => CopyRows(var, t, u)[v] = var[v]
<1>1. Over(var[t], var[u]) \in Part(A, B)
  BY OverPart
<1>. QED  BY <1>1 DEF CopyRows

LEMMA BoundedSetIs ==
  ASSUME NEW h \in LtT, NEW t \in Thread, NEW v \in IdOrNo
  PROVE  /\ BoundedSet(h, t, v) \in LtT
         /\ BoundedSet(h, t, v)[t] = v
         /\ \A u \in Thread : u # t => BoundedSet(h, t, v)[u] \in {None, h[u]}
<1>1. DOMAIN h = Thread
  BY DEF LtT
<1>2. CASE Cardinality({u \in DOMAIN h : h[u] # None}) >= MaxHints
  BY <1>1, <1>2, IdIs DEF BoundedSet, LtT
<1>3. CASE ~ (Cardinality({u \in DOMAIN h : h[u] # None}) >= MaxHints)
  BY <1>1, <1>3 DEF BoundedSet, LtT
<1>. QED  BY <1>2, <1>3

\* Nothing that was ever put is forgotten, and what is stored was put.
Grows ==
  \A t \in Thread : /\ DOMAIN arch[t] \subseteq DOMAIN arch'[t]
                    /\ DOMAIN ck'[t] \subseteq DOMAIN arch'[t]
                    /\ \A i \in DOMAIN arch'[t], c \in Channel : arch'[t][i].vers[c] <= i

LEMMA WriteKeeps ==
  ASSUME TypeInv, NEW p \in Proc, NEW r \in Local, Step(p, r), Shape(r),
         Stores', Hints', Archives', backup' = backup, calls' \in [Proc -> 0 .. MaxCalls], Grows,
         r.pc \in PutPCs => r.id \in DOMAIN arch'[r.t]
  PROVE  TypeInv'
<1>1. l'[p] = r /\ (\A q \in Proc : q # p => l'[q] = l[q]) /\ l' \in [Proc -> Local]
  BY Steps DEF TypeInv
<1>2. \A q \in Proc : Shape(l'[q])
  BY <1>1 DEF TypeInv
<1>3. Known'
  <2>1. ASSUME NEW q \in Proc, l'[q].pc \in PutPCs
        PROVE  l'[q].id \in DOMAIN arch'[l'[q].t]
    <3>1. CASE q = p
      BY <1>1, <2>1, <3>1
    <3>2. CASE q # p
      <4>1. l[q].pc \in PutPCs /\ l[q].id \in DOMAIN arch[l[q].t] /\ l'[q] = l[q]
        BY <1>1, <2>1, <3>2 DEF TypeInv, Known
      <4>2. l[q].t \in Thread
        BY <4>1, AtIs DEF Shape, PutPCs
      <4>. QED  BY <4>1, <4>2 DEF Grows
    <3>. QED  BY <3>1, <3>2
  <2>. QED  BY <2>1 DEF Known, Grows, TypeInv
<1>4. Backups'
  BY DEF TypeInv, Backups
<1>. QED  BY <1>1, <1>2, <1>3, <1>4 DEF TypeInv, Shape

\* Most steps put nothing new.
LEMMA NothingNew ==
  ASSUME TypeInv, arch' = arch, \A t \in Thread : DOMAIN ck'[t] \subseteq DOMAIN arch[t]
  PROVE  Grows
  BY DEF TypeInv, Known, Grows

LEMMA SameRows ==
  ASSUME TypeInv, arch' = arch, ck' = ck
  PROVE  Grows
  BY DEF TypeInv, Known, Grows

\* The beginning of a call.
LEMMA CallIs ==
  ASSUME TypeInv, NEW p \in Proc, NEW op, Call(p, op)
  PROVE  op \in OpNames /\ calls' \in [Proc -> 0 .. MaxCalls] /\ l[p].pc = "idle"
<1>1. op \in OpNames /\ l[p].pc = "idle"
  BY ConstantsAssumption DEF Call, At
<1>2. calls[p] \in 0 .. MaxCalls /\ calls[p] < MaxCalls /\ MaxCalls \in Nat
  BY ConstantsAssumption DEF TypeInv, Call
<1>3. calls[p] + 1 \in 0 .. MaxCalls
  BY <1>2
<1>. QED  BY <1>1, <1>3 DEF Call, TypeInv

\* A call that begins without touching the store.
LEMMA BeginKeeps ==
  ASSUME TypeInv, NEW p \in Proc, NEW op, Call(p, op), NEW r \in Local, Step(p, r), Shape(r),
         r.pc \notin PutPCs, UNCHANGED <<store, hints, backup, arch, done>>, awr' \in WrT
  PROVE  TypeInv'
<1>1. /\ ck' = ck /\ wr' = wr /\ bl' = bl /\ lt' = lt /\ max_seen' = max_seen
      /\ prune_floor' = prune_floor /\ backup' = backup /\ arch' = arch /\ done' = done
  BY DEF store, hints
<1>2. Stores' /\ Hints' /\ Archives' /\ Grows
  BY <1>1, SameRows DEF TypeInv, Stores, Hints, Archives
<1>. QED  BY <1>1, <1>2, CallIs, WriteKeeps

LEMMA GetTupleTypes ==
  ASSUME TypeInv, NEW p \in Proc, NEW t \in Thread, NEW id \in IdOrNo, GetTuple(p, t, id)
  PROVE  TypeInv'
<1>1. PICK pc \in PCs : /\ pc \in {"get_saved", "get_max", "get_lt"}
                        /\ pc = CASE id # None -> "get_saved"
                                  [] id = None /\ Indexed -> "get_max"
                                  [] OTHER -> "get_lt"
  BY DEF PCs
<1>2. PICK b \in IdOrNo : b = IF id # None THEN None ELSE Newest(done[t] \cap DOMAIN ck[t])
  <2>1. done[t] \cap DOMAIN ck[t] \in SUBSET Id
    BY ReadIs
  <2>. QED  BY <2>1, NewestIs, IdIs
<1>3. Call(p, "get")
  BY DEF GetTuple
<1>4. PICK s \in Local : s = Started(p, "get", t, pc) /\ s.pc = pc /\ s.t = t
  BY <1>3, CallIs, StartedIs
<1>5. PICK r : r = [s EXCEPT !.id = id, !.bound = b]
  OBVIOUS
<1>6. Step(p, r) /\ UNCHANGED <<store, hints, backup, hist>>
  BY <1>1, <1>2, <1>4, <1>5, Zenon DEF GetTuple
<1>7. r \in Local /\ r.pc = pc /\ r.t = t
  BY <1>4, <1>5 DEF Local
<1>8. Shape(r) /\ r.pc \notin PutPCs
  BY <1>1, <1>7 DEF Shape, PutPCs, WritePCs, BuildPCs, WalkPCs, CopyPCs
<1>9. UNCHANGED <<store, hints, backup, arch, done>> /\ awr' \in WrT
  BY <1>6 DEF hist, TypeInv, Archives
<1>. QED  BY <1>3, <1>6, <1>7, <1>8, <1>9, BeginKeeps

LEMMA ListTypes ==
  ASSUME TypeInv, NEW p \in Proc, NEW T \in SUBSET Thread, NEW want \in IdOrNo,
         NEW before \in IdOrNo, NEW runs \in SUBSET Run, NEW limit \in {0, 1},
         List(p, T, want, before, runs, limit)
  PROVE  TypeInv'
<1>1. PICK pc \in PCs : pc = "list_next"
  BY DEF PCs
<1>2. Call(p, "list") /\ limit \in Nat
  BY DEF List
<1>3. PICK s \in Local : s = Started(p, "list", None, pc) /\ s.pc = pc /\ s.ids = {}
  <2>1. "list" \in OpNames
    BY <1>2, CallIs
  <2>. QED  BY <2>1, StartedAtNone
<1>4. PICK N \in SUBSET Thread : N = T \cap Namespaces
  OBVIOUS
<1>5. PICK r : r = [s EXCEPT !.threads = N, !.want = want, !.before = before, !.runs = runs,
                             !.keep = limit]
  OBVIOUS
<1>6. Step(p, r) /\ UNCHANGED <<store, hints, backup, hist>>
  BY <1>1, <1>3, <1>4, <1>5, Zenon DEF List
<1>7. r \in Local /\ r.pc = pc /\ r.ids = {}
  BY <1>2, <1>3, <1>5 DEF Local
<1>8. Shape(r) /\ r.pc \notin PutPCs
  BY <1>1, <1>7 DEF Shape, PutPCs, WritePCs, BuildPCs, WalkPCs, CopyPCs
<1>9. UNCHANGED <<store, hints, backup, arch, done>> /\ awr' \in WrT
  BY <1>6 DEF hist, TypeInv, Archives
<1>. QED  BY <1>2, <1>6, <1>7, <1>8, <1>9, BeginKeeps

LEMMA PruneTypes ==
  ASSUME TypeInv, NEW p \in Proc, NEW t \in Thread, Prune(p, t)
  PROVE  TypeInv'
<1>1. PICK pc \in PCs : pc = "trim_ids"
  BY DEF PCs
<1>2. Call(p, "prune") /\ 1 \in Nat
  BY DEF Prune
<1>3. PICK s \in Local : s = Started(p, "prune", t, pc) /\ s.pc = pc /\ s.t = t
  BY <1>2, CallIs, StartedIs
<1>4. PICK r : r = [s EXCEPT !.keep = 1]
  OBVIOUS
<1>5. Step(p, r) /\ UNCHANGED <<store, hints, backup, hist>>
  BY <1>1, <1>3, <1>4, Zenon DEF Prune
<1>6. r \in Local /\ r.pc = pc /\ r.t = t
  BY <1>2, <1>3, <1>4 DEF Local
<1>7. Shape(r) /\ r.pc \notin PutPCs
  BY <1>1, <1>6 DEF Shape, PutPCs, WritePCs, BuildPCs, WalkPCs, CopyPCs
<1>8. UNCHANGED <<store, hints, backup, arch, done>> /\ awr' \in WrT
  BY <1>5 DEF hist, TypeInv, Archives
<1>. QED  BY <1>2, <1>5, <1>6, <1>7, <1>8, BeginKeeps

LEMMA DeleteForRunsTypes ==
  ASSUME TypeInv, NEW p \in Proc, NEW runs \in SUBSET Run, DeleteForRuns(p, runs)
  PROVE  TypeInv'
<1>1. PICK pc \in PCs : pc = "runs_next"
  BY DEF PCs
<1>2. Call(p, "delete_for_runs")
  BY DEF DeleteForRuns
<1>3. PICK s \in Local : s = Started(p, "delete_for_runs", None, pc) /\ s.pc = pc
  BY <1>2, CallIs, StartedIs
<1>4. PICK N \in SUBSET Thread : N = Namespaces
  BY DEF Namespaces
<1>5. PICK r : r = [s EXCEPT !.runs = runs, !.threads = N]
  OBVIOUS
<1>6. Step(p, r) /\ UNCHANGED <<store, hints, backup, hist>>
  BY <1>1, <1>3, <1>4, <1>5, Zenon DEF DeleteForRuns
<1>7. r \in Local /\ r.pc = pc
  BY <1>3, <1>5 DEF Local
<1>8. Shape(r) /\ r.pc \notin PutPCs
  BY <1>1, <1>7 DEF Shape, PutPCs, WritePCs, BuildPCs, WalkPCs, CopyPCs
<1>9. UNCHANGED <<store, hints, backup, arch, done>> /\ awr' \in WrT
  BY <1>6 DEF hist, TypeInv, Archives
<1>. QED  BY <1>2, <1>6, <1>7, <1>8, <1>9, BeginKeeps

LEMMA DeleteThreadTypes ==
  ASSUME TypeInv, NEW p \in Proc, NEW t \in Thread, DeleteThread(p, t)
  PROVE  TypeInv'
<1>1. PICK pc \in PCs : pc = "del_ck"
  BY DEF PCs
<1>2. Call(p, "delete_thread")
  BY DEF DeleteThread
<1>3. PICK r \in Local : r = Started(p, "delete_thread", t, pc) /\ r.pc = pc /\ r.t = t
  BY <1>2, CallIs, StartedIs
<1>5. Step(p, r) /\ UNCHANGED <<store, hints, backup, hist>>
  BY <1>1, <1>3, Zenon DEF DeleteThread
<1>7. Shape(r) /\ r.pc \notin PutPCs
  BY <1>1, <1>3 DEF Shape, PutPCs, WritePCs, BuildPCs, WalkPCs, CopyPCs
<1>8. UNCHANGED <<store, hints, backup, arch, done>> /\ awr' \in WrT
  BY <1>5 DEF hist, TypeInv, Archives
<1>. QED  BY <1>2, <1>5, <1>7, <1>8, BeginKeeps

LEMMA CopyThreadTypes ==
  ASSUME TypeInv, NEW p \in Proc, NEW t \in Thread, NEW u \in Thread, CopyThread(p, t, u)
  PROVE  TypeInv'
<1>1. PICK pc \in PCs : pc = "copy_ck"
  BY DEF PCs
<1>2. Call(p, "copy_thread")
  BY DEF CopyThread
<1>3. PICK s \in Local : s = Started(p, "copy_thread", t, pc) /\ s.pc = pc /\ s.t = t
  BY <1>2, CallIs, StartedIs
<1>4. PICK N \in SUBSET Thread : N = {u}
  OBVIOUS
<1>5. PICK r : r = [s EXCEPT !.threads = N]
  OBVIOUS
<1>6. Step(p, r) /\ UNCHANGED <<store, hints, backup, hist>>
  BY <1>1, <1>3, <1>4, <1>5, Zenon DEF CopyThread
<1>7. r \in Local /\ r.pc = pc /\ r.t = t /\ r.threads = N
  BY <1>3, <1>5 DEF Local
<1>8. Shape(r) /\ r.pc \notin PutPCs
  BY <1>1, <1>4, <1>7 DEF Shape, PutPCs, WritePCs, BuildPCs, WalkPCs, CopyPCs
<1>9. UNCHANGED <<store, hints, backup, arch, done>> /\ awr' \in WrT
  BY <1>6 DEF hist, TypeInv, Archives
<1>. QED  BY <1>2, <1>6, <1>7, <1>8, <1>9, BeginKeeps

LEMMA PutWritesTypes ==
  ASSUME TypeInv, NEW p \in Proc, NEW t \in Thread, NEW id \in Id,
         NEW K \in SUBSET WKey, NEW batch \in [{id} \X K -> WVal], PutWrites(p, t, id, batch)
  PROVE  TypeInv'
<1>1. PICK pc \in PCs : pc = "write_check"
  BY DEF PCs
<1>2. Call(p, "put_writes")
  BY DEF PutWrites
<1>3. PICK s \in Local : s = Started(p, "put_writes", t, pc) /\ s.pc = pc /\ s.t = t
  BY <1>2, CallIs, StartedIs
<1>4. DOMAIN batch \subseteq Id \X WKey /\ batch \in Part(Id \X WKey, WVal)
  <2>1. {id} \X K \in SUBSET (Id \X WKey)
    OBVIOUS
  <2>. QED  BY <2>1, MakePart
<1>5. DOMAIN batch \in SUBSET Things /\ batch \in Part(Things, IdOrNo \cup WVal) /\ id \in IdOrNo
  BY <1>4, PartBatch, IdIs DEF Things
<1>6. PICK r : r = [s EXCEPT !.id = id, !.batch = batch, !.todo = DOMAIN batch]
  OBVIOUS
<1>7. /\ Step(p, r) /\ UNCHANGED <<store, hints, backup, arch, done>>
      /\ awr' = [awr EXCEPT ![t] = Over(Only(batch, {id} \X Special), Over(@, batch))]
  BY <1>1, <1>3, <1>6, Zenon DEF PutWrites
<1>8. r \in Local /\ r.pc = pc /\ r.t = t /\ r.batch = batch /\ r.todo = DOMAIN batch
  BY <1>3, <1>5, <1>6 DEF Local
<1>9. Shape(r) /\ r.pc \notin PutPCs
  BY <1>1, <1>4, <1>8 DEF Shape, PutPCs, WritePCs, BuildPCs, WalkPCs, CopyPCs
<1>10. awr' \in WrT
  <2>1. awr[t] \in Part(Id \X WKey, WVal) /\ awr \in WrT
    BY ReadIs DEF TypeInv, Archives
  <2>2. Over(Only(batch, {id} \X Special), Over(awr[t], batch)) \in Part(Id \X WKey, WVal)
    BY <1>4, <2>1, DropPart, OverPart
  <2>. QED  BY <1>7, <2>1, <2>2 DEF WrT
<1>. QED  BY <1>2, <1>7, <1>8, <1>9, <1>10, BeginKeeps

\* The checkpoint that a put stores.
LEMMA ContinuationIs ==
  ASSUME TypeInv, NEW t \in Thread, NEW id \in Id, NEW parent \in {None} \cup DOMAIN ck[t],
         parent < id, NEW upd \in SUBSET Channel, NEW snapped, NEW run \in Run
  PROVE  /\ Continuation(t, id, parent, upd, snapped, run) \in Record
         /\ \A c \in Channel : Continuation(t, id, parent, upd, snapped, run).vers[c] <= id
         /\ \A c \in upd : Continuation(t, id, parent, upd, snapped, run).vers[c] \in Id
<1>1. PICK before : before = IF parent = None THEN NoRow ELSE arch[t][parent]
  OBVIOUS
<1>2. parent \in IdOrNo /\ id \in Nat /\ parent \in Nat
  BY ReadIs, IdIs
<1>3. /\ before.vers \in Values /\ before.vals \in Values
      /\ \A c \in Channel : before.vers[c] \in IdOrNo /\ before.vers[c] <= parent
  <2>1. CASE parent = None
    <3>1. before.vers = NoVals /\ before.vals = NoVals
      BY <1>1, <2>1 DEF NoRow
    <3>2. \A c \in Channel : NoVals[c] = None
      BY DEF NoVals
    <3>. QED  BY <1>2, <2>1, <3>1, <3>2, ValuesAre, IdIs
  <2>2. CASE parent # None
    <3>1. parent \in DOMAIN arch[t] /\ before = arch[t][parent]
      BY <1>1, <2>2 DEF TypeInv, Known
    <3>2. before \in Record /\ \A c \in Channel : before.vers[c] <= parent
      BY <3>1, ReadIs DEF TypeInv, Known
    <3>. QED  BY <3>2 DEF Record, Values
  <2>. QED  BY <2>1, <2>2
<1>4. ASSUME NEW d \in Channel
      PROVE  NextVersion(id, before.vers) \in 1 .. id
  <2>. DEFINE S == {before.vers[c] : c \in Channel}
  <2>1. S \in SUBSET IdOrNo /\ S # {}
    BY <1>3, <1>4
  <2>2. Max(S) \in S
    BY <2>1, MaxIs
  <2>3. Max(S) \in Nat /\ Max(S) <= parent
    BY <1>3, <2>2, IdIs
  <2>. HIDE DEF S
  <2>4. 1 + Max(S) \in 1 .. id /\ id \in 1 .. id
    BY <1>2, <2>3, IdIs
  <2>. QED  BY <2>4 DEF NextVersion, S
<1>5. PICK n : n = NextVersion(id, before.vers)
  OBVIOUS
<1>6. PICK r : r = Continuation(t, id, parent, upd, snapped, run)
  OBVIOUS
<1>7. /\ r.parent = parent /\ r.run = run
      /\ r.vers = [c \in Channel |-> IF c \in upd THEN n ELSE before.vers[c]]
      /\ r.vals = [c \in Channel |->
                     IF c \in upd THEN IF c \in Plain \cup snapped THEN id ELSE None
                     ELSE IF c \in Plain \/ Incremental THEN before.vals[c] ELSE None]
      /\ r = [parent |-> r.parent, run |-> r.run, vers |-> r.vers, vals |-> r.vals]
  BY <1>1, <1>5, <1>6 DEF Continuation
<1>8. ASSUME NEW c \in Channel
      PROVE  r.vers[c] \in IdOrNo /\ r.vers[c] <= id /\ (c \in upd => r.vers[c] \in Id)
  <2>1. CASE c \in upd
    <3>1. r.vers[c] = n /\ n \in 1 .. id
      BY <1>4, <1>5, <1>7, <1>8, <2>1
    <3>2. id \in 1 .. MaxId /\ MaxId \in Nat
      BY ConstantsAssumption DEF Id
    <3>. QED  BY <3>1, <3>2 DEF Id, IdOrNo
  <2>2. CASE c \notin upd
    <3>1. r.vers[c] = before.vers[c]
      BY <1>7, <1>8, <2>2
    <3>2. before.vers[c] \in Nat
      BY <1>3, <1>8, IdIs
    <3>. QED  BY <1>2, <1>3, <2>2, <3>1, <3>2
  <2>. QED  BY <2>1, <2>2
<1>9. r.vers \in Values
  <2>1. r.vers \in [Channel -> IdOrNo]
    BY <1>7, <1>8
  <2>. QED  BY <2>1 DEF Values
<1>10. r.vals \in Values
  <2>1. \A c \in Channel : before.vals[c] \in IdOrNo
    BY <1>3 DEF Values
  <2>2. id \in IdOrNo /\ None \in IdOrNo
    BY IdIs
  <2>. QED  BY <1>7, <2>1, <2>2 DEF Values
<1>11. r \in Record
  BY <1>2, <1>7, <1>9, <1>10 DEF Record
<1>. QED  BY <1>6, <1>8, <1>11

LEMMA PutTypes ==
  ASSUME TypeInv, NEW p \in Proc, NEW t \in Thread, NEW parent \in Parents(t), NEW run \in Run,
         NEW id \in FreshIds(parent), NEW upd \in SUBSET Channel, NEW snapped,
         Put(p, t, id, parent, upd, snapped, run)
  PROVE  TypeInv'
<1>1. id \in Id /\ id > parent /\ parent \in {None} \cup DOMAIN ck[t] /\ id \in IdOrNo
  BY IdIs DEF FreshIds, Parents, NewestOf
<1>2. parent \in Nat /\ id \in Nat /\ parent < id
  BY <1>1, ReadIs, IdIs
<1>3. PICK c \in Record : c = Continuation(t, id, parent, upd, snapped, run)
  BY <1>1, <1>2, ContinuationIs
<1>4. (\A d \in Channel : c.vers[d] <= id) /\ (\A d \in upd : c.vers[d] \in Id)
  BY <1>1, <1>2, <1>3, ContinuationIs
<1>5. PICK pub \in BOOLEAN : pub = Publishes(SaverOf[p], t, id)
  BY DEF Publishes
<1>6. PICK pc \in PCs : pc \in PutPCs /\ pc = IF pub THEN "put_hint" ELSE AfterHint
  BY DEF PCs, PutPCs, AfterHint
<1>7. Call(p, "put")
  BY DEF Put
<1>8. PICK s \in Local : s = Started(p, "put", t, pc) /\ s.pc = pc /\ s.t = t /\ s.batch = Empty
  BY <1>7, CallIs, StartedIs
<1>9. PICK T : T = {<<d, c.vers[d]>> : d \in upd}
  OBVIOUS
<1>10. T \subseteq Channel \X Id /\ T \in SUBSET Things
  BY <1>4, <1>9 DEF Things
<1>11. PICK r : r = [s EXCEPT !.id = id, !.rec = c, !.publish = pub, !.todo = T]
  OBVIOUS
<1>12. /\ Step(p, r) /\ arch' = SetRows(arch, t, Row(id, c))
       /\ UNCHANGED <<store, hints, backup, awr, done>>
  BY <1>3, <1>5, <1>6, <1>8, <1>9, <1>11 DEF Put
<1>13. /\ r \in Local /\ r.pc = pc /\ r.t = t /\ r.id = id /\ r.rec = c /\ r.todo = T
       /\ r.batch = Empty
  BY <1>1, <1>8, <1>10, <1>11 DEF Local
<1>14. Shape(r)
  BY <1>1, <1>6, <1>10, <1>13, EmptyPart DEF Shape, PutPCs, WritePCs, BuildPCs, WalkPCs, CopyPCs
<1>15. /\ ck' = ck /\ wr' = wr /\ bl' = bl /\ lt' = lt /\ max_seen' = max_seen
       /\ prune_floor' = prune_floor /\ backup' = backup /\ awr' = awr /\ done' = done
  BY <1>12 DEF store, hints
<1>16. /\ arch' \in CkT /\ arch'[t] = Over(Row(id, c), arch[t])
       /\ \A u \in Thread : u # t => arch'[u] = arch[u]
  <2>1. arch \in CkT /\ Row(id, c) \in Part(Id, Record)
    BY <1>1, RowPart DEF TypeInv, Archives
  <2>. QED  BY <1>12, <2>1, SetRowsIs DEF CkT
<1>17. /\ DOMAIN arch'[t] = DOMAIN arch[t] \cup {id} /\ arch'[t][id] = c
       /\ \A i \in DOMAIN arch[t] : i # id => arch'[t][i] = arch[t][i]
  BY <1>16 DEF Over, Row
<1>18. Grows
  <2>1. ASSUME NEW u \in Thread
        PROVE  /\ DOMAIN arch[u] \subseteq DOMAIN arch'[u] /\ DOMAIN ck'[u] \subseteq DOMAIN arch'[u]
               /\ \A i \in DOMAIN arch'[u], d \in Channel : arch'[u][i].vers[d] <= i
    <3>1. /\ DOMAIN ck[u] \subseteq DOMAIN arch[u]
          /\ \A i \in DOMAIN arch[u], d \in Channel : arch[u][i].vers[d] <= i
      BY DEF TypeInv, Known
    <3>2. CASE u # t
      BY <1>15, <1>16, <3>1, <3>2
    <3>3. CASE u = t
      BY <1>4, <1>15, <1>17, <3>1, <3>3
    <3>. QED  BY <3>2, <3>3
  <2>. QED  BY <2>1 DEF Grows
<1>19. Stores' /\ Hints' /\ Archives'
  BY <1>15, <1>16 DEF TypeInv, Stores, Hints, Archives
<1>20. r.pc \in PutPCs => r.id \in DOMAIN arch'[r.t]
  BY <1>13, <1>17
<1>. QED  BY <1>7, <1>12, <1>13, <1>14, <1>15, <1>18, <1>19, <1>20, CallIs, WriteKeeps

\* A step of a call that puts nothing new.
LEMMA RunKeeps ==
  ASSUME TypeInv, NEW p \in Proc, NEW r \in Local, Step(p, r), Shape(r),
         Stores', Hints', backup' = backup, arch' = arch, awr' \in WrT,
         done' \in [Thread -> SUBSET Id], calls' = calls,
         \A t \in Thread : DOMAIN ck'[t] \subseteq DOMAIN arch[t],
         r.pc \in PutPCs => r.id \in DOMAIN arch[r.t]
  PROVE  TypeInv'
<1>1. Archives' /\ calls' \in [Proc -> 0 .. MaxCalls]
  BY DEF TypeInv, Archives
<1>2. Grows
  BY NothingNew
<1>. QED  BY <1>1, <1>2, WriteKeeps

LEMMA PutIs ==
  ASSUME TypeInv, NEW p \in Proc, l[p].pc \in PutPCs
  PROVE  /\ l[p].t \in Thread /\ l[p].id \in Id /\ l[p].rec \in Record
         /\ l[p].todo \subseteq Channel \X Id /\ l[p].batch \in Part(Channel \X Id, IdOrNo)
         /\ l[p].id \in DOMAIN arch[l[p].t]
<1>1. l[p].id \in DOMAIN arch[l[p].t]
  BY DEF TypeInv, Known
<1>. QED  BY <1>1, AtIs DEF Shape, PutPCs

LEMMA PutHintTypes ==
  ASSUME TypeInv, NEW p \in Proc, PutHint(p)
  PROVE  TypeInv'
<1>1. PICK me : me = l[p] /\ me \in Local /\ Shape(me) /\ me.pc = "put_hint"
  BY AtIs DEF PutHint, At
<1>2. /\ me.t \in Thread /\ me.id \in Id /\ me.rec \in Record /\ me.todo \subseteq Channel \X Id
      /\ me.batch \in Part(Channel \X Id, IdOrNo) /\ me.id \in DOMAIN arch[me.t]
  BY <1>1, PutIs DEF PutPCs
<1>3. PICK pc \in PCs : pc \in {"put_blobs", "put_rows"} /\ pc = AfterHint
  BY DEF PCs, AfterHint
<1>4. PICK r : r = [me EXCEPT !.pc = pc]
  OBVIOUS
<1>5. /\ Step(p, r) /\ UNCHANGED <<store, prune_floor, backup, hist, calls>>
      /\ max_seen' = [max_seen EXCEPT ![SaverOf[p]] = BoundedSet(@, me.t, me.id)]
  BY <1>1, <1>3, <1>4 DEF PutHint
<1>6. /\ r \in Local /\ r.pc = pc /\ r.t = me.t /\ r.id = me.id /\ r.rec = me.rec
      /\ r.todo = me.todo /\ r.batch = me.batch
  BY <1>1, <1>4 DEF Local
<1>7. Shape(r)
  BY <1>2, <1>3, <1>6 DEF Shape, PutPCs, WritePCs, BuildPCs, WalkPCs, CopyPCs
<1>8. /\ ck' = ck /\ wr' = wr /\ bl' = bl /\ lt' = lt /\ prune_floor' = prune_floor
      /\ backup' = backup /\ arch' = arch /\ awr' = awr /\ done' = done /\ calls' = calls
  BY <1>5 DEF store, hist
<1>9. max_seen' \in [Saver -> LtT]
  <2>1. SaverOf[p] \in Saver /\ max_seen \in [Saver -> LtT] /\ me.id \in IdOrNo
    BY <1>2, ConstantsAssumption, IdIs DEF TypeInv, Hints
  <2>2. BoundedSet(max_seen[SaverOf[p]], me.t, me.id) \in LtT
    BY <1>2, <2>1, BoundedSetIs
  <2>. QED  BY <1>5, <2>1, <2>2
<1>10. Stores' /\ Hints' /\ awr' \in WrT /\ done' \in [Thread -> SUBSET Id]
  BY <1>8, <1>9 DEF TypeInv, Stores, Hints, Archives
<1>11. \A t \in Thread : DOMAIN ck'[t] \subseteq DOMAIN arch[t]
  BY <1>8 DEF TypeInv, Known
<1>. QED  BY <1>2, <1>5, <1>6, <1>7, <1>8, <1>10, <1>11, RunKeeps

LEMMA PutBlobContainsTypes ==
  ASSUME TypeInv, NEW p \in Proc, PutBlobContains(p)
  PROVE  TypeInv'
<1>1. PICK me : me = l[p] /\ me \in Local /\ Shape(me) /\ me.pc = "put_blobs"
  BY AtIs DEF PutBlobContains, At
<1>2. /\ me.t \in Thread /\ me.id \in Id /\ me.rec \in Record /\ me.todo \subseteq Channel \X Id
      /\ me.batch \in Part(Channel \X Id, IdOrNo) /\ me.id \in DOMAIN arch[me.t]
  BY <1>1, PutIs DEF PutPCs
<1>3. PICK b \in me.todo :
        Step(p, [me EXCEPT !.todo  = @ \ {b},
                           !.batch = IF b \in DOMAIN bl[me.t] THEN @
                                     ELSE Over(Row(b, me.rec.vals[b[1]]), @)])
  BY <1>1 DEF PutBlobContains
<1>4. PICK f : f = IF b \in DOMAIN bl[me.t] THEN me.batch
                   ELSE Over(Row(b, me.rec.vals[b[1]]), me.batch)
  OBVIOUS
<1>5. f \in Part(Channel \X Id, IdOrNo)
  <2>1. b \in Channel \X Id /\ b[1] \in Channel
    BY <1>2
  <2>2. me.rec.vals[b[1]] \in IdOrNo
    BY <1>2, <2>1 DEF Record, Values
  <2>3. Row(b, me.rec.vals[b[1]]) \in Part(Channel \X Id, IdOrNo)
    BY <2>1, <2>2, RowPart
  <2>. QED  BY <1>2, <1>4, <2>3, OverPart
<1>6. f \in Part(Things, IdOrNo \cup WVal) /\ me.todo \ {b} \in SUBSET Things
  BY <1>2, <1>5, PartBatch DEF Things
<1>7. PICK r : r = [me EXCEPT !.todo = @ \ {b}, !.batch = f]
  OBVIOUS
<1>8. Step(p, r) /\ Only_l
  BY <1>3, <1>4, <1>7 DEF PutBlobContains, Only_l
<1>9. /\ r \in Local /\ r.pc = me.pc /\ r.t = me.t /\ r.id = me.id /\ r.rec = me.rec
      /\ r.todo = me.todo \ {b} /\ r.batch = f
  BY <1>1, <1>6, <1>7 DEF Local
<1>10. Shape(r)
  BY <1>1, <1>2, <1>5, <1>9 DEF Shape, PutPCs, WritePCs, BuildPCs, WalkPCs, CopyPCs
<1>. QED  BY <1>1, <1>8, <1>9, <1>10, ReadKeeps DEF PutPCs

LEMMA PutBlobsTypes ==
  ASSUME TypeInv, NEW p \in Proc, PutBlobs(p)
  PROVE  TypeInv'
<1>1. PICK me : me = l[p] /\ me \in Local /\ Shape(me) /\ me.pc = "put_blobs"
  BY AtIs DEF PutBlobs, At
<1>2. /\ me.t \in Thread /\ me.id \in Id /\ me.rec \in Record /\ me.todo \subseteq Channel \X Id
      /\ me.batch \in Part(Channel \X Id, IdOrNo) /\ me.id \in DOMAIN arch[me.t]
  BY <1>1, PutIs DEF PutPCs
<1>3. PICK pc \in PCs : pc = "put_rows"
  BY DEF PCs
<1>4. PICK r : r = [me EXCEPT !.pc = pc, !.batch = Empty]
  OBVIOUS
<1>5. /\ Step(p, r) /\ UNCHANGED <<ck, wr, lt, hints, backup, hist, calls>>
      /\ bl' = SetRows(bl, me.t, me.batch)
  BY <1>1, <1>3, <1>4 DEF PutBlobs
<1>6. /\ r \in Local /\ r.pc = pc /\ r.t = me.t /\ r.id = me.id /\ r.rec = me.rec
      /\ r.todo = me.todo /\ r.batch = Empty
  <2>1. Empty \in Part(Things, IdOrNo \cup WVal)
    BY EmptyPart
  <2>. QED  BY <1>1, <1>4, <2>1 DEF Local
<1>7. Shape(r)
  BY <1>2, <1>3, <1>6, EmptyPart DEF Shape, PutPCs, WritePCs, BuildPCs, WalkPCs, CopyPCs
<1>8. /\ ck' = ck /\ wr' = wr /\ lt' = lt /\ prune_floor' = prune_floor /\ max_seen' = max_seen
      /\ backup' = backup /\ arch' = arch /\ awr' = awr /\ done' = done /\ calls' = calls
  BY <1>5 DEF hints, hist
<1>9. bl' \in BlT
  BY <1>2, <1>5, SetRowsIs DEF TypeInv, Stores, BlT
<1>10. Stores' /\ Hints' /\ awr' \in WrT /\ done' \in [Thread -> SUBSET Id]
  BY <1>8, <1>9 DEF TypeInv, Stores, Hints, Archives
<1>11. \A t \in Thread : DOMAIN ck'[t] \subseteq DOMAIN arch[t]
  BY <1>8 DEF TypeInv, Known
<1>. QED  BY <1>2, <1>5, <1>6, <1>7, <1>8, <1>10, <1>11, RunKeeps

LEMMA StoredIs ==
  ASSUME NEW r \in Record
  PROVE  /\ Stored(r) \in Record /\ Stored(r).vers = r.vers /\ Stored(r).parent = r.parent
         /\ Stored(r).run = r.run /\ (~Incremental => Stored(r) = r)
  BY ValuesAre DEF Stored, Record

\* The two rows of a put.
LEMMA PutCkIs ==
  ASSUME TypeInv, NEW p \in Proc, l[p].pc \in PutPCs, PutCk(p)
  PROVE  /\ ck' \in CkT /\ ck'[l[p].t] = Over(Row(l[p].id, Stored(l[p].rec)), ck[l[p].t])
         /\ DOMAIN ck'[l[p].t] = DOMAIN ck[l[p].t] \cup {l[p].id}
         /\ ck'[l[p].t][l[p].id] = Stored(l[p].rec)
         /\ \A i \in DOMAIN ck[l[p].t] : i # l[p].id => ck'[l[p].t][i] = ck[l[p].t][i]
         /\ \A u \in Thread : u # l[p].t => ck'[u] = ck[u]
         /\ \A t \in Thread : DOMAIN ck'[t] \subseteq DOMAIN arch[t]
<1>1. l[p].t \in Thread /\ l[p].id \in Id /\ l[p].rec \in Record /\ l[p].id \in DOMAIN arch[l[p].t]
  BY PutIs
<1>2. Row(l[p].id, Stored(l[p].rec)) \in Part(Id, Record)
  BY <1>1, StoredIs, RowPart
<1>3. /\ ck' \in CkT /\ ck'[l[p].t] = Over(Row(l[p].id, Stored(l[p].rec)), ck[l[p].t])
      /\ \A u \in Thread : u # l[p].t => ck'[u] = ck[u]
  <2>1. ck \in [Thread -> Part(Id, Record)]
    BY DEF TypeInv, Stores, CkT
  <2>2. PICK t \in Thread : t = l[p].t
    BY <1>1
  <2>3. PICK rows \in Part(Id, Record) : rows = Row(l[p].id, Stored(l[p].rec))
    BY <1>2
  <2>4. ck' = SetRows(ck, t, rows)
    BY <2>2, <2>3 DEF PutCk
  <2>5. ck' \in CkT /\ ck'[t] = Over(rows, ck[t]) /\ \A u \in Thread : u # t => ck'[u] = ck[u]
    BY <2>1, <2>4, SetRowsIs DEF CkT
  <2>. QED  BY <2>2, <2>3, <2>5
<1>4. /\ DOMAIN ck'[l[p].t] = DOMAIN ck[l[p].t] \cup {l[p].id}
      /\ ck'[l[p].t][l[p].id] = Stored(l[p].rec)
      /\ \A i \in DOMAIN ck[l[p].t] : i # l[p].id => ck'[l[p].t][i] = ck[l[p].t][i]
  BY <1>3 DEF Over, Row
<1>5. \A t \in Thread : DOMAIN ck[t] \subseteq DOMAIN arch[t]
  BY DEF TypeInv, Known
<1>. QED  BY <1>1, <1>3, <1>4, <1>5

LEMMA PutLtIs ==
  ASSUME TypeInv, NEW p \in Proc, l[p].t \in Thread, PutLt(p)
  PROVE  /\ lt' \in LtT /\ lt'[l[p].t] = l[p].id
         /\ \A u \in Thread : u # l[p].t => lt'[u] = lt[u]
<1>1. l[p].id \in IdOrNo
  BY AtIs DEF Local
<1>. QED  BY <1>1 DEF PutLt, TypeInv, Stores, LtT

\* The end of a put, and the trim that may follow.
LEMMA PutEndIs ==
  ASSUME TypeInv, NEW p \in Proc, l[p].pc \in PutPCs, PutEnd(p)
  PROVE  /\ done' \in [Thread -> SUBSET Id]
         /\ \E r \in Local : /\ Step(p, r) /\ Shape(r) /\ r.pc \in {"prune_keys", "idle"}
                             /\ r.doomed = {} /\ r.ids = {} /\ r.needed = {}
                             /\ r.pc = "prune_keys" => /\ r.t = l[p].t /\ r.keep = Limit
                                                       /\ r.op = "put" /\ Limit # 0
                             /\ r.pc = "idle" => Limit = 0 /\ r = Locals0
<1>1. l[p].t \in Thread /\ l[p].id \in Id
  BY PutIs
<1>2. done' \in [Thread -> SUBSET Id]
  BY <1>1 DEF PutEnd, TypeInv, Archives
<1>3. CASE Limit = 0
  <2>1. Step(p, Locals0)
    BY <1>3 DEF PutEnd, Return
  <2>. QED  BY <1>2, <1>3, <2>1, LocalsAre DEF Locals0
<1>4. CASE Limit # 0
  <2>1. PICK pc \in PCs : pc = "prune_keys"
    BY DEF PCs
  <2>2. PICK s \in Local : /\ s = Started(p, "put", l[p].t, pc) /\ s.pc = pc /\ s.t = l[p].t
                           /\ s.op = "put" /\ s.doomed = {} /\ s.ids = {} /\ s.needed = {}
    <3>1. "put" \in OpNames
      BY DEF OpNames
    <3>2. PICK t \in Thread \cup {None} : t = l[p].t
      BY <1>1
    <3>3. PICK s : s = Started(p, "put", t, pc)
      OBVIOUS
    <3>4. s \in Local
      BY <3>1, <3>3, StartedIs
    <3>5. s.pc = pc /\ s.t = t /\ s.op = "put" /\ s.doomed = {} /\ s.ids = {} /\ s.needed = {}
      BY <3>3 DEF Started, Locals0
    <3>. QED  BY <3>2, <3>3, <3>4, <3>5
  <2>3. PICK r : r = [s EXCEPT !.keep = Limit]
    OBVIOUS
  <2>4. Step(p, r)
    BY <1>4, <2>1, <2>2, <2>3 DEF PutEnd
  <2>5. /\ r \in Local /\ r.pc = "prune_keys" /\ r.t = l[p].t /\ r.keep = Limit /\ r.op = "put"
        /\ r.doomed = {} /\ r.ids = {} /\ r.needed = {}
    BY <2>1, <2>2, <2>3, ConstantsAssumption DEF Local
  <2>6. Shape(r)
    BY <1>1, <2>5 DEF Shape, PutPCs, WritePCs, BuildPCs, WalkPCs, CopyPCs
  <2>. QED  BY <1>2, <1>4, <2>4, <2>5, <2>6
<1>. QED  BY <1>3, <1>4

LEMMA PutRowsTypes ==
  ASSUME TypeInv, NEW p \in Proc, PutRows(p)
  PROVE  TypeInv'
<1>1. l[p].pc = "put_rows" /\ l[p].pc \in PutPCs
  BY DEF PutRows, At, PutPCs
<1>2. /\ l[p].t \in Thread /\ l[p].id \in Id /\ l[p].rec \in Record /\ l[p].id \in DOMAIN arch[l[p].t]
      /\ l[p] \in Local /\ Shape(l[p])
  BY <1>1, PutIs, AtIs
<1>3. /\ wr' = wr /\ bl' = bl /\ max_seen' = max_seen /\ prune_floor' = prune_floor
      /\ backup' = backup /\ arch' = arch /\ awr' = awr /\ calls' = calls
  BY DEF PutRows, hints
<1>4. (PutCk(p) \/ UNCHANGED ck) /\ (PutLt(p) \/ UNCHANGED lt)
  BY DEF PutRows
<1>5. ck' \in CkT /\ lt' \in LtT /\ \A t \in Thread : DOMAIN ck'[t] \subseteq DOMAIN arch[t]
  <2>1. ck \in CkT /\ lt \in LtT /\ \A t \in Thread : DOMAIN ck[t] \subseteq DOMAIN arch[t]
    BY DEF TypeInv, Stores, Known
  <2>. QED  BY <1>1, <1>2, <1>4, <2>1, PutCkIs, PutLtIs
<1>6. Stores' /\ Hints' /\ awr' \in WrT
  BY <1>3, <1>5 DEF TypeInv, Stores, Hints, Archives
<1>7. CASE l[p].publish /\ RowOrder # "together"
  <2>1. PICK pc \in PCs : pc = "put_rest"
    BY DEF PCs
  <2>2. PICK r : r = [l[p] EXCEPT !.pc = pc]
    OBVIOUS
  <2>3. Step(p, r) /\ done' = done
    BY <1>7, <2>1, <2>2 DEF PutRows
  <2>4. /\ r \in Local /\ r.pc = pc /\ r.t = l[p].t /\ r.id = l[p].id /\ r.rec = l[p].rec
        /\ r.todo = l[p].todo /\ r.batch = l[p].batch
    BY <1>2, <2>2 DEF Local
  <2>5. Shape(r)
    BY <1>1, <1>2, <2>1, <2>4 DEF Shape, PutPCs, WritePCs, BuildPCs, WalkPCs, CopyPCs
  <2>6. done' \in [Thread -> SUBSET Id]
    BY <2>3 DEF TypeInv, Archives
  <2>. QED  BY <1>2, <1>3, <1>5, <1>6, <2>3, <2>4, <2>5, <2>6, RunKeeps
<1>8. CASE ~ (l[p].publish /\ RowOrder # "together")
  <2>1. PutEnd(p)
    BY <1>8 DEF PutRows
  <2>2. PICK r \in Local : Step(p, r) /\ Shape(r) /\ r.pc \in {"prune_keys", "idle"}
    BY <1>1, <2>1, PutEndIs
  <2>3. r.pc \notin PutPCs /\ done' \in [Thread -> SUBSET Id]
    BY <1>1, <2>1, <2>2, PutEndIs DEF PutPCs
  <2>. QED  BY <1>3, <1>5, <1>6, <2>2, <2>3, RunKeeps
<1>. QED  BY <1>7, <1>8

LEMMA PutRestTypes ==
  ASSUME TypeInv, NEW p \in Proc, PutRest(p)
  PROVE  TypeInv'
<1>1. l[p].pc = "put_rest" /\ l[p].pc \in PutPCs
  BY DEF PutRest, At, PutPCs
<1>2. l[p].t \in Thread
  BY <1>1, PutIs
<1>3. /\ wr' = wr /\ bl' = bl /\ max_seen' = max_seen /\ prune_floor' = prune_floor
      /\ backup' = backup /\ arch' = arch /\ awr' = awr /\ calls' = calls
  BY DEF PutRest, hints
<1>4. (PutCk(p) \/ UNCHANGED ck) /\ (PutLt(p) \/ UNCHANGED lt) /\ PutEnd(p)
  BY DEF PutRest
<1>5. ck' \in CkT /\ lt' \in LtT /\ \A t \in Thread : DOMAIN ck'[t] \subseteq DOMAIN arch[t]
  <2>1. ck \in CkT /\ lt \in LtT /\ \A t \in Thread : DOMAIN ck[t] \subseteq DOMAIN arch[t]
    BY DEF TypeInv, Stores, Known
  <2>. QED  BY <1>1, <1>2, <1>4, <2>1, PutCkIs, PutLtIs
<1>6. Stores' /\ Hints' /\ awr' \in WrT
  BY <1>3, <1>5 DEF TypeInv, Stores, Hints, Archives
<1>7. PICK r \in Local : Step(p, r) /\ Shape(r) /\ r.pc \in {"prune_keys", "idle"}
  BY <1>1, <1>4, PutEndIs
<1>8. r.pc \notin PutPCs /\ done' \in [Thread -> SUBSET Id]
  BY <1>1, <1>4, <1>7, PutEndIs DEF PutPCs
<1>. QED  BY <1>3, <1>5, <1>6, <1>7, <1>8, RunKeeps

\* A step that changes the store, without new checkpoints.
LEMMA StoreKeeps ==
  ASSUME TypeInv, NEW p \in Proc, NEW r \in Local, Step(p, r), Shape(r), r.pc \notin PutPCs,
         Stores', UNCHANGED <<hints, backup, hist, calls>>,
         \A t \in Thread : DOMAIN ck'[t] \subseteq DOMAIN ck[t]
  PROVE  TypeInv'
<1>1. /\ max_seen' = max_seen /\ prune_floor' = prune_floor /\ backup' = backup /\ arch' = arch
      /\ awr' = awr /\ done' = done /\ calls' = calls
  BY DEF hints, hist
<1>2. Hints' /\ awr' \in WrT /\ done' \in [Thread -> SUBSET Id]
  BY <1>1 DEF TypeInv, Hints, Archives
<1>3. \A t \in Thread : DOMAIN ck'[t] \subseteq DOMAIN arch[t]
  BY DEF TypeInv, Known
<1>. QED  BY <1>1, <1>2, <1>3, RunKeeps

LEMMA CheckWritesTypes ==
  ASSUME TypeInv, NEW p \in Proc, CheckWrites(p)
  PROVE  TypeInv'
<1>1. PICK me : me = l[p] /\ me \in Local /\ Shape(me) /\ me.pc = "write_check"
  BY AtIs DEF CheckWrites, At
<1>2. me.t \in Thread /\ me.todo \subseteq Id \X WKey /\ me.batch \in Part(Id \X WKey, WVal)
  BY <1>1 DEF Shape, WritePCs
<1>3. PICK S \in Reads(me.todo) :
        Step(p, [me EXCEPT !.batch = Drop(@, {x \in S : Skips(me.t, x)}),
                           !.todo  = me.todo \ S,
                           !.pc    = IF me.todo \ S = {} THEN "write_flush" ELSE @])
  BY <1>1 DEF CheckWrites
<1>4. PICK f \in Part(Id \X WKey, WVal) : f = Drop(me.batch, {x \in S : Skips(me.t, x)})
  BY <1>2, DropPart
<1>5. PICK pc \in PCs : /\ pc \in {"write_flush", "write_check"}
                        /\ pc = IF me.todo \ S = {} THEN "write_flush" ELSE me.pc
  BY <1>1 DEF PCs
<1>6. f \in Part(Things, IdOrNo \cup WVal) /\ me.todo \ S \in SUBSET Things
  BY <1>2, PartBatch DEF Things
<1>7. PICK r : r = [me EXCEPT !.batch = f, !.todo = me.todo \ S, !.pc = pc]
  OBVIOUS
<1>8. Step(p, r) /\ Only_l
  BY <1>3, <1>4, <1>5, <1>7 DEF CheckWrites, Only_l
<1>9. r \in Local /\ r.pc = pc /\ r.t = me.t /\ r.todo = me.todo \ S /\ r.batch = f
  BY <1>1, <1>6, <1>7 DEF Local
<1>10. Shape(r)
  BY <1>2, <1>4, <1>5, <1>9 DEF Shape, PutPCs, WritePCs, BuildPCs, WalkPCs, CopyPCs
<1>. QED  BY <1>5, <1>8, <1>9, <1>10, ReadKeeps DEF PutPCs

LEMMA FlushWritesTypes ==
  ASSUME TypeInv, NEW p \in Proc, FlushWrites(p)
  PROVE  TypeInv'
<1>1. PICK me : me = l[p] /\ me \in Local /\ Shape(me) /\ me.pc = "write_flush"
  BY AtIs DEF FlushWrites, At
<1>2. me.t \in Thread /\ me.batch \in Part(Id \X WKey, WVal)
  BY <1>1 DEF Shape, WritePCs
<1>3. /\ wr' = SetRows(wr, me.t, me.batch) /\ Step(p, Locals0)
      /\ UNCHANGED <<hints, backup, hist, calls>> /\ ck' = ck /\ bl' = bl /\ lt' = lt
  BY <1>1 DEF FlushWrites, Return
<1>4. Stores'
  BY <1>2, <1>3, SetRowsIs DEF TypeInv, Stores, WrT
<1>5. Locals0.pc \notin PutPCs
  BY DEF Locals0, PutPCs
<1>. QED  BY <1>3, <1>4, <1>5, LocalsAre, StoreKeeps

LEMMA GetPublishTypes ==
  ASSUME TypeInv, NEW p \in Proc, GetPublish(p)
  PROVE  TypeInv'
<1>1. PICK me : me = l[p] /\ me \in Local /\ Shape(me) /\ me.pc = "get_publish"
  BY AtIs DEF GetPublish, At
<1>2. me.t \in Thread
  BY <1>1 DEF Shape
<1>3. PICK pc \in PCs : pc = "get_saved"
  BY DEF PCs
<1>4. PICK r : r = [me EXCEPT !.pc = pc]
  OBVIOUS
<1>5. /\ PutLt(p) /\ Step(p, r) /\ ck' = ck /\ wr' = wr /\ bl' = bl
      /\ UNCHANGED <<hints, backup, hist, calls>>
  BY <1>1, <1>3, <1>4 DEF GetPublish
<1>6. r \in Local /\ r.pc = pc /\ r.t = me.t
  BY <1>1, <1>4 DEF Local
<1>7. Shape(r) /\ r.pc \notin PutPCs
  BY <1>2, <1>3, <1>6 DEF Shape, PutPCs, WritePCs, BuildPCs, WalkPCs, CopyPCs
<1>8. Stores'
  BY <1>1, <1>2, <1>5, PutLtIs DEF TypeInv, Stores
<1>. QED  BY <1>5, <1>6, <1>7, <1>8, StoreKeeps

LEMMA DropBlobsTypes ==
  ASSUME TypeInv, NEW p \in Proc, DropBlobs(p)
  PROVE  TypeInv'
<1>1. PICK me : me = l[p] /\ me \in Local /\ Shape(me) /\ me.pc = "drop_blobs"
  BY AtIs DEF DropBlobs, At
<1>2. me.t \in Thread
  BY <1>1 DEF Shape
<1>3. PICK pc \in PCs : pc = "drop_writes"
  BY DEF PCs
<1>4. PICK r : r = [me EXCEPT !.pc = pc, !.keys = {}]
  OBVIOUS
<1>5. /\ bl' = DropRows(bl, me.t, me.keys) /\ Step(p, r) /\ ck' = ck /\ wr' = wr /\ lt' = lt
      /\ UNCHANGED <<hints, backup, hist, calls>>
  BY <1>1, <1>3, <1>4 DEF DropBlobs
<1>6. r \in Local /\ r.pc = pc /\ r.t = me.t
  BY <1>1, <1>4 DEF Local
<1>7. Shape(r) /\ r.pc \notin PutPCs
  BY <1>2, <1>3, <1>6 DEF Shape, PutPCs, WritePCs, BuildPCs, WalkPCs, CopyPCs
<1>8. Stores'
  BY <1>2, <1>5, DropRowsIs DEF TypeInv, Stores, BlT
<1>. QED  BY <1>5, <1>6, <1>7, <1>8, StoreKeeps

LEMMA DropWritesTypes ==
  ASSUME TypeInv, NEW p \in Proc, DropWrites(p)
  PROVE  TypeInv'
<1>1. PICK me : me = l[p] /\ me \in Local /\ Shape(me) /\ me.pc = "drop_writes"
  BY AtIs DEF DropWrites, At
<1>2. me.t \in Thread
  BY <1>1 DEF Shape
<1>3. PICK i : i = Min(me.todo)
  OBVIOUS
<1>4. PICK pc \in PCs : /\ pc \in {"drop_rows", "drop_writes"}
                        /\ pc = IF me.todo = {i} THEN "drop_rows" ELSE "drop_writes"
  BY DEF PCs
<1>5. PICK r : r = [me EXCEPT !.todo = @ \ {i}, !.pc = pc]
  OBVIOUS
<1>6. /\ wr' = DropRows(wr, me.t, WritesToDrop(me.t, i)) /\ Step(p, r)
      /\ ck' = ck /\ bl' = bl /\ lt' = lt /\ UNCHANGED <<hints, backup, hist, calls>>
  BY <1>1, <1>3, <1>4, <1>5 DEF DropWrites
<1>7. r \in Local /\ r.pc = pc /\ r.t = me.t
  BY <1>1, <1>5 DEF Local
<1>8. Shape(r) /\ r.pc \notin PutPCs
  BY <1>2, <1>4, <1>7 DEF Shape, PutPCs, WritePCs, BuildPCs, WalkPCs, CopyPCs
<1>9. Stores'
  BY <1>2, <1>6, DropRowsIs DEF TypeInv, Stores, WrT
<1>. QED  BY <1>6, <1>7, <1>8, <1>9, StoreKeeps

LEMMA DropCheckpointsTypes ==
  ASSUME TypeInv, NEW p \in Proc, DropCheckpoints(p)
  PROVE  TypeInv'
<1>1. PICK me : me = l[p] /\ me \in Local /\ Shape(me) /\ me.pc = "drop_rows"
  BY AtIs DEF DropCheckpoints, At
<1>2. me.t \in Thread
  BY <1>1 DEF Shape
<1>3. PICK pc \in PCs : /\ pc \in {"dropped", "drop_latest"}
                        /\ pc = IF Indexed THEN "dropped" ELSE "drop_latest"
  BY DEF PCs
<1>4. PICK r : r = [me EXCEPT !.pc = pc]
  OBVIOUS
<1>5. /\ ck' = DropRows(ck, me.t, me.doomed) /\ Step(p, r) /\ wr' = wr /\ bl' = bl /\ lt' = lt
      /\ UNCHANGED <<hints, backup, hist, calls>>
  BY <1>1, <1>3, <1>4 DEF DropCheckpoints
<1>6. r \in Local /\ r.pc = pc /\ r.t = me.t
  BY <1>1, <1>4 DEF Local
<1>7. Shape(r) /\ r.pc \notin PutPCs
  BY <1>2, <1>3, <1>6 DEF Shape, PutPCs, WritePCs, BuildPCs, WalkPCs, CopyPCs
<1>8. /\ Stores' /\ ck'[me.t] = Drop(ck[me.t], me.doomed)
      /\ \A u \in Thread : u # me.t => ck'[u] = ck[u]
  BY <1>2, <1>5, DropRowsIs DEF TypeInv, Stores, CkT
<1>9. \A t \in Thread : DOMAIN ck'[t] \subseteq DOMAIN ck[t]
  BY <1>8 DEF Drop
<1>. QED  BY <1>5, <1>6, <1>7, <1>8, <1>9, StoreKeeps

LEMMA DropFixTypes ==
  ASSUME TypeInv, NEW p \in Proc, DropFix(p)
  PROVE  TypeInv'
<1>1. PICK me : me = l[p] /\ me \in Local /\ Shape(me) /\ me.pc = "drop_fix"
  BY AtIs DEF DropFix, At
<1>2. me.t \in Thread
  BY <1>1 DEF Shape
<1>3. PICK pc \in PCs : pc = "dropped"
  BY DEF PCs
<1>4. PICK r : r = [me EXCEPT !.pc = pc]
  OBVIOUS
<1>5. /\ lt' = [lt EXCEPT ![me.t] = RepointTo(me.kept)] /\ Step(p, r)
      /\ max_seen' = [max_seen EXCEPT ![SaverOf[p]][me.t] = None]
      /\ ck' = ck /\ wr' = wr /\ bl' = bl /\ prune_floor' = prune_floor /\ backup' = backup
      /\ arch' = arch /\ awr' = awr /\ done' = done /\ calls' = calls
  BY <1>1, <1>3, <1>4 DEF DropFix, hist
<1>6. r \in Local /\ r.pc = pc /\ r.t = me.t
  BY <1>1, <1>4 DEF Local
<1>7. Shape(r) /\ r.pc \notin PutPCs
  BY <1>2, <1>3, <1>6 DEF Shape, PutPCs, WritePCs, BuildPCs, WalkPCs, CopyPCs
<1>8. RepointTo(me.kept) \in IdOrNo
  <2>1. me.kept \in SUBSET Id
    BY <1>1 DEF Local
  <2>. QED  BY <2>1, NewestIs DEF RepointTo
<1>9. Stores'
  BY <1>2, <1>5, <1>8 DEF TypeInv, Stores, LtT
<1>10. Hints'
  <2>1. SaverOf[p] \in Saver
    BY ConstantsAssumption
  <2>. QED  BY <1>2, <1>5, <2>1, IdIs DEF TypeInv, Hints, LtT
<1>11. awr' \in WrT /\ done' \in [Thread -> SUBSET Id]
  BY <1>5 DEF TypeInv, Archives
<1>12. \A t \in Thread : DOMAIN ck'[t] \subseteq DOMAIN arch[t]
  BY <1>5 DEF TypeInv, Known
<1>. QED  BY <1>5, <1>6, <1>7, <1>9, <1>10, <1>11, <1>12, RunKeeps

\* A set of ids is finite.
LEMMA IdsFinite ==
  ASSUME NEW S \in SUBSET Id
  PROVE  IsFiniteSet(S) /\ Cardinality(S) \in IdOrNo
<1>1. MaxId \in Nat /\ 1 \in Int /\ MaxId \in Int
  BY ConstantsAssumption
<1>2. IsFiniteSet(Id) /\ Cardinality(Id) = MaxId
  <2>1. Cardinality(1 .. MaxId) = IF 1 > MaxId THEN 0 ELSE MaxId - 1 + 1
    BY <1>1, FS_Interval
  <2>. QED  BY <1>1, <2>1, FS_Interval, ConstantsAssumption DEF Id
<1>3. IsFiniteSet(S) /\ Cardinality(S) <= Cardinality(Id)
  BY <1>2, FS_Subset
<1>4. Cardinality(S) \in Nat
  BY <1>3, FS_CardinalityType
<1>. QED  BY <1>1, <1>2, <1>3, <1>4 DEF IdOrNo

LEMMA DroppedTypes ==
  ASSUME TypeInv, NEW p \in Proc, Dropped(p)
  PROVE  TypeInv'
<1>1. PICK me : me = l[p] /\ me \in Local /\ Shape(me) /\ me.pc = "dropped"
  BY AtIs DEF Dropped, At
<1>2. me.t \in Thread
  BY <1>1 DEF Shape
<1>3. /\ prune_floor' = IF me.op # "put" THEN prune_floor
                        ELSE [prune_floor EXCEPT ![SaverOf[p]] =
                                BoundedSet(@, me.t, Cardinality(me.kept))]
      /\ ck' = ck /\ wr' = wr /\ bl' = bl /\ lt' = lt /\ max_seen' = max_seen /\ backup' = backup
      /\ arch' = arch /\ awr' = awr /\ done' = done /\ calls' = calls
  BY <1>1 DEF Dropped, hist, store
<1>4. \E r \in Local : Step(p, r) /\ Shape(r) /\ r.pc \notin PutPCs
  <2>1. CASE me.op # "delete_for_runs"
    <3>1. Step(p, Locals0)
      BY <1>1, <2>1 DEF Dropped, Return
    <3>. QED  BY <3>1, LocalsAre DEF Locals0, PutPCs
  <2>2. CASE me.op = "delete_for_runs"
    <3>1. PICK pc \in PCs : pc = "runs_next"
      BY DEF PCs
    <3>2. PICK t \in Thread \cup {None} : t = me.t
      BY <1>2
    <3>3. PICK op \in OpNames : op = me.op
      BY <2>2 DEF OpNames
    <3>4. PICK s \in Local : s = Started(p, op, t, pc) /\ s.pc = pc
      <4>1. PICK s : s = Started(p, op, t, pc)
        OBVIOUS
      <4>2. s \in Local /\ s.pc = pc
        BY <4>1, StartedIs
      <4>. QED  BY <4>1, <4>2
    <3>5. PICK r : r = [s EXCEPT !.threads = me.threads, !.runs = me.runs]
      OBVIOUS
    <3>6. Step(p, r)
      BY <1>1, <2>2, <3>1, <3>2, <3>3, <3>4, <3>5 DEF Dropped
    <3>7. r \in Local /\ r.pc = pc
      BY <1>1, <3>4, <3>5 DEF Local
    <3>8. Shape(r) /\ r.pc \notin PutPCs
      BY <3>1, <3>7 DEF Shape, PutPCs, WritePCs, BuildPCs, WalkPCs, CopyPCs
    <3>. QED  BY <3>6, <3>7, <3>8
  <2>. QED  BY <2>1, <2>2
<1>5. Stores' /\ awr' \in WrT /\ done' \in [Thread -> SUBSET Id]
  BY <1>3 DEF TypeInv, Stores, Archives
<1>6. Hints'
  <2>1. SaverOf[p] \in Saver /\ prune_floor \in [Saver -> LtT] /\ max_seen \in [Saver -> LtT]
    BY ConstantsAssumption DEF TypeInv, Hints
  <2>2. Cardinality(me.kept) \in IdOrNo
    BY <1>1, IdsFinite DEF Local
  <2>3. BoundedSet(prune_floor[SaverOf[p]], me.t, Cardinality(me.kept)) \in LtT
    BY <1>2, <2>1, <2>2, BoundedSetIs
  <2>4. prune_floor' \in [Saver -> LtT]
    BY <1>3, <2>1, <2>3
  <2>. QED  BY <1>3, <2>1, <2>4 DEF Hints
<1>7. \A t \in Thread : DOMAIN ck'[t] \subseteq DOMAIN arch[t]
  BY <1>3 DEF TypeInv, Known
<1>. QED  BY <1>3, <1>4, <1>5, <1>6, <1>7, RunKeeps

\* The steps of delete_thread and copy_thread that only move the call on and
\* change some of the rows.
LEMMA DeleteCkTypes ==
  ASSUME TypeInv, NEW p \in Proc, DeleteCk(p)
  PROVE  TypeInv'
<1>1. PICK me : me = l[p] /\ me \in Local /\ Shape(me) /\ me.pc = "del_ck"
  BY AtIs DEF DeleteCk, At
<1>2. me.t \in Thread
  BY <1>1 DEF Shape
<1>3. PICK pc \in PCs : pc = "del_wr_list"
  BY DEF PCs
<1>4. PICK r : r = [me EXCEPT !.pc = pc]
  OBVIOUS
<1>5. /\ ck' = [ck EXCEPT ![me.t] = Empty] /\ Step(p, r) /\ wr' = wr /\ bl' = bl /\ lt' = lt
      /\ UNCHANGED <<hints, backup, hist, calls>>
  BY <1>1, <1>3, <1>4 DEF DeleteCk
<1>6. r \in Local /\ r.pc = pc /\ r.t = me.t
  BY <1>1, <1>4 DEF Local
<1>7. Shape(r) /\ r.pc \notin PutPCs
  BY <1>2, <1>3, <1>6 DEF Shape, PutPCs, WritePCs, BuildPCs, WalkPCs, CopyPCs
<1>8. Stores'
  <2>1. Empty \in Part(Id, Record)
    BY EmptyPart
  <2>. QED  BY <1>2, <1>5, <2>1 DEF TypeInv, Stores, CkT
<1>9. \A t \in Thread : DOMAIN ck'[t] \subseteq DOMAIN ck[t]
  <2>1. DOMAIN Empty = {}
    BY EmptyPart
  <2>. QED  BY <1>2, <1>5, <2>1 DEF TypeInv, Stores, CkT
<1>. QED  BY <1>5, <1>6, <1>7, <1>8, <1>9, StoreKeeps

LEMMA DeleteWritesTypes ==
  ASSUME TypeInv, NEW p \in Proc, DeleteWrites(p)
  PROVE  TypeInv'
<1>1. PICK me : me = l[p] /\ me \in Local /\ Shape(me) /\ me.pc = "del_wr"
  BY AtIs DEF DeleteWrites, At
<1>2. me.t \in Thread
  BY <1>1 DEF Shape
<1>3. PICK i \in me.todo :
        /\ wr' = DropRows(wr, me.t, WritesNs(me.t, i))
        /\ Step(p, [me EXCEPT !.todo = @ \ {i},
                              !.pc = IF me.todo = {i} THEN "del_bl" ELSE "del_wr"])
  BY <1>1 DEF DeleteWrites
<1>4. PICK pc \in PCs : /\ pc \in {"del_bl", "del_wr"}
                        /\ pc = IF me.todo = {i} THEN "del_bl" ELSE "del_wr"
  BY DEF PCs
<1>5. PICK r : r = [me EXCEPT !.todo = @ \ {i}, !.pc = pc]
  OBVIOUS
<1>6. /\ Step(p, r) /\ ck' = ck /\ bl' = bl /\ lt' = lt
      /\ UNCHANGED <<hints, backup, hist, calls>>
  BY <1>3, <1>4, <1>5 DEF DeleteWrites
<1>7. r \in Local /\ r.pc = pc /\ r.t = me.t
  BY <1>1, <1>5 DEF Local
<1>8. Shape(r) /\ r.pc \notin PutPCs
  BY <1>2, <1>4, <1>7 DEF Shape, PutPCs, WritePCs, BuildPCs, WalkPCs, CopyPCs
<1>9. Stores'
  BY <1>2, <1>3, <1>6, DropRowsIs DEF TypeInv, Stores, WrT
<1>. QED  BY <1>6, <1>7, <1>8, <1>9, StoreKeeps

LEMMA DeleteBlobsTypes ==
  ASSUME TypeInv, NEW p \in Proc, DeleteBlobs(p)
  PROVE  TypeInv'
<1>1. PICK me : me = l[p] /\ me \in Local /\ Shape(me) /\ me.pc = "del_bl"
  BY AtIs DEF DeleteBlobs, At
<1>2. me.t \in Thread
  BY <1>1 DEF Shape
<1>3. PICK pc \in PCs : pc = "del_lt"
  BY DEF PCs
<1>4. PICK r : r = [me EXCEPT !.pc = pc]
  OBVIOUS
<1>5. /\ bl' = [bl EXCEPT ![me.t] = Empty] /\ Step(p, r) /\ ck' = ck /\ wr' = wr /\ lt' = lt
      /\ UNCHANGED <<hints, backup, hist, calls>>
  BY <1>1, <1>3, <1>4 DEF DeleteBlobs, DropThreadBlobs
<1>6. r \in Local /\ r.pc = pc /\ r.t = me.t
  BY <1>1, <1>4 DEF Local
<1>7. Shape(r) /\ r.pc \notin PutPCs
  BY <1>2, <1>3, <1>6 DEF Shape, PutPCs, WritePCs, BuildPCs, WalkPCs, CopyPCs
<1>8. Stores'
  <2>1. Empty \in Part(Channel \X Id, IdOrNo)
    BY EmptyPart
  <2>. QED  BY <1>2, <1>5, <2>1 DEF TypeInv, Stores, BlT
<1>. QED  BY <1>5, <1>6, <1>7, <1>8, StoreKeeps

LEMMA DeleteLatestTypes ==
  ASSUME TypeInv, NEW p \in Proc, DeleteLatest(p)
  PROVE  TypeInv'
<1>1. PICK me : me = l[p] /\ me \in Local /\ Shape(me) /\ me.pc = "del_lt"
  BY AtIs DEF DeleteLatest, At
<1>2. me.t \in Thread
  BY <1>1 DEF Shape
<1>3. /\ lt' = (IF Indexed THEN lt ELSE [lt EXCEPT ![me.t] = None])
      /\ max_seen' = [max_seen EXCEPT ![SaverOf[p]][me.t] = None]
      /\ prune_floor' = [prune_floor EXCEPT ![SaverOf[p]][me.t] = 0]
      /\ Step(p, Locals0) /\ ck' = ck /\ wr' = wr /\ bl' = bl /\ backup' = backup
      /\ arch' = arch /\ awr' = awr /\ done' = done /\ calls' = calls
  BY <1>1 DEF DeleteLatest, Return, hist
<1>4. Stores'
  BY <1>2, <1>3, IdIs DEF TypeInv, Stores, LtT
<1>5. Hints'
  <2>1. SaverOf[p] \in Saver /\ 0 \in IdOrNo /\ None \in IdOrNo
    BY ConstantsAssumption, IdIs DEF None
  <2>. QED  BY <1>2, <1>3, <2>1 DEF TypeInv, Hints, LtT
<1>6. awr' \in WrT /\ done' \in [Thread -> SUBSET Id]
  BY <1>3 DEF TypeInv, Archives
<1>7. \A t \in Thread : DOMAIN ck'[t] \subseteq DOMAIN arch[t]
  BY <1>3 DEF TypeInv, Known
<1>8. Locals0.pc \notin PutPCs
  BY DEF Locals0, PutPCs
<1>. QED  BY <1>3, <1>4, <1>5, <1>6, <1>7, <1>8, LocalsAre, RunKeeps

\* A copy goes from one thread to another.
LEMMA TargetIs ==
  ASSUME TypeInv, NEW p \in Proc, l[p].pc \in CopyPCs
  PROVE  l[p].t \in Thread /\ Target(p) \in Thread /\ Target(p) \in l[p].threads
<1>1. l[p] \in Local /\ l[p].t \in Thread /\ l[p].threads # {}
  BY AtIs DEF Shape, CopyPCs
<1>2. Target(p) \in l[p].threads
  BY <1>1 DEF Target
<1>. QED  BY <1>1, <1>2 DEF Local

LEMMA CopyStep ==
  ASSUME TypeInv, NEW p \in Proc, l[p].pc \in CopyPCs, NEW pc \in CopyPCs,
         Step(p, [l[p] EXCEPT !.pc = pc])
  PROVE  \E r \in Local : Step(p, r) /\ Shape(r) /\ r.pc \notin PutPCs
<1>1. l[p] \in Local /\ Shape(l[p]) /\ l[p].t \in Thread /\ l[p].threads # {} /\ pc \in PCs
  BY AtIs DEF Shape, CopyPCs, PCs
<1>2. PICK r : r = [l[p] EXCEPT !.pc = pc]
  OBVIOUS
<1>3. r \in Local /\ r.pc = pc /\ r.t = l[p].t /\ r.threads = l[p].threads
  BY <1>1, <1>2 DEF Local
<1>4. Shape(r) /\ r.pc \notin PutPCs
  BY <1>1, <1>3 DEF Shape, PutPCs, WritePCs, BuildPCs, WalkPCs, CopyPCs
<1>. QED  BY <1>2, <1>3, <1>4

LEMMA CopyCkTypes ==
  ASSUME TypeInv, NEW p \in Proc, CopyCk(p)
  PROVE  TypeInv'
<1>1. l[p].pc \in CopyPCs /\ "copy_wr" \in CopyPCs
  BY DEF CopyCk, At, CopyPCs
<1>2. PICK t \in Thread : t = l[p].t
  BY <1>1, TargetIs
<1>3. PICK u \in Thread : u = Target(p)
  BY <1>1, TargetIs
<1>4. /\ ck' = CopyRows(ck, t, u) /\ arch' = SetRows(arch, u, Only(arch[t], DOMAIN ck[t]))
      /\ wr' = wr /\ bl' = bl /\ lt' = lt /\ max_seen' = max_seen /\ prune_floor' = prune_floor
      /\ backup' = backup /\ awr' = awr /\ done' = done /\ calls' = calls
      /\ Step(p, [l[p] EXCEPT !.pc = "copy_wr"])
  BY <1>2, <1>3 DEF CopyCk, hints
<1>5. PICK r \in Local : Step(p, r) /\ Shape(r) /\ r.pc \notin PutPCs
  BY <1>1, <1>4, CopyStep
<1>6. ck' \in CkT /\ ck'[u] = Over(ck[t], ck[u]) /\ \A v \in Thread : v # u => ck'[v] = ck[v]
  BY <1>4, CopyRowsIs DEF TypeInv, Stores, CkT
<1>7. /\ arch' \in CkT /\ arch'[u] = Over(Only(arch[t], DOMAIN ck[t]), arch[u])
      /\ \A v \in Thread : v # u => arch'[v] = arch[v]
  <2>1. PICK rows \in Part(Id, Record) : rows = Only(arch[t], DOMAIN ck[t])
    BY ReadIs, DropPart
  <2>2. arch \in [Thread -> Part(Id, Record)]
    BY DEF TypeInv, Archives, CkT
  <2>3. arch' = SetRows(arch, u, rows)
    BY <1>4, <2>1
  <2>4. /\ arch' \in CkT /\ arch'[u] = Over(rows, arch[u])
        /\ \A v \in Thread : v # u => arch'[v] = arch[v]
    <3>1. Over(rows, arch[u]) \in Part(Id, Record)
      BY <2>2, OverPart
    <3>. QED  BY <2>2, <2>3, <3>1 DEF CkT, SetRows
  <2>. QED  BY <2>1, <2>4
<1>8. Stores' /\ Hints' /\ Archives' /\ calls' \in [Proc -> 0 .. MaxCalls]
  BY <1>4, <1>6, <1>7 DEF TypeInv, Stores, Hints, Archives
<1>9. Grows
  <2>1. \A v \in Thread : /\ DOMAIN ck[v] \subseteq DOMAIN arch[v]
                          /\ \A i \in DOMAIN arch[v], c \in Channel : arch[v][i].vers[c] <= i
    BY DEF TypeInv, Known
  <2>2. /\ DOMAIN ck'[u] = DOMAIN ck[t] \cup DOMAIN ck[u]
        /\ DOMAIN arch'[u] = DOMAIN ck[t] \cup DOMAIN arch[u]
        /\ \A i \in DOMAIN ck[t] : arch'[u][i] = arch[t][i]
        /\ \A i \in DOMAIN arch[u] \ DOMAIN ck[t] : arch'[u][i] = arch[u][i]
    BY <1>6, <1>7, <2>1 DEF Over, Only
  <2>3. ASSUME NEW v \in Thread
        PROVE  /\ DOMAIN arch[v] \subseteq DOMAIN arch'[v] /\ DOMAIN ck'[v] \subseteq DOMAIN arch'[v]
               /\ \A i \in DOMAIN arch'[v], c \in Channel : arch'[v][i].vers[c] <= i
    <3>1. CASE v # u
      BY <1>6, <1>7, <2>1, <3>1
    <3>2. CASE v = u
      <4>1. DOMAIN arch[u] \subseteq DOMAIN arch'[u] /\ DOMAIN ck'[u] \subseteq DOMAIN arch'[u]
        BY <2>1, <2>2
      <4>2. ASSUME NEW i \in DOMAIN arch'[u], NEW c \in Channel
            PROVE  arch'[u][i].vers[c] <= i
        BY <2>1, <2>2, <4>2
      <4>. QED  BY <3>2, <4>1, <4>2
    <3>. QED  BY <3>1, <3>2
  <2>. QED  BY <2>3 DEF Grows
<1>. QED  BY <1>4, <1>5, <1>8, <1>9, WriteKeeps

LEMMA CopyWrTypes ==
  ASSUME TypeInv, NEW p \in Proc, CopyWr(p)
  PROVE  TypeInv'
<1>1. l[p].pc \in CopyPCs /\ "copy_bl" \in CopyPCs
  BY DEF CopyWr, At, CopyPCs
<1>2. PICK t \in Thread : t = l[p].t
  BY <1>1, TargetIs
<1>3. PICK u \in Thread : u = Target(p)
  BY <1>1, TargetIs
<1>4. /\ wr' = CopyRows(wr, t, u) /\ awr' = CopyRows(awr, t, u)
      /\ ck' = ck /\ bl' = bl /\ lt' = lt /\ max_seen' = max_seen /\ prune_floor' = prune_floor
      /\ backup' = backup /\ arch' = arch /\ done' = done /\ calls' = calls
      /\ Step(p, [l[p] EXCEPT !.pc = "copy_bl"])
  BY <1>2, <1>3 DEF CopyWr, hints
<1>5. PICK r \in Local : Step(p, r) /\ Shape(r) /\ r.pc \notin PutPCs
  BY <1>1, <1>4, CopyStep
<1>6. wr' \in WrT
  BY <1>4, CopyRowsIs DEF TypeInv, Stores, WrT
<1>7. awr' \in WrT
  BY <1>4, CopyRowsIs DEF TypeInv, Archives, WrT
<1>8. Stores' /\ Hints' /\ done' \in [Thread -> SUBSET Id]
  BY <1>4, <1>6 DEF TypeInv, Stores, Hints, Archives
<1>9. \A v \in Thread : DOMAIN ck'[v] \subseteq DOMAIN arch[v]
  BY <1>4 DEF TypeInv, Known
<1>. QED  BY <1>4, <1>5, <1>7, <1>8, <1>9, RunKeeps

LEMMA CopyBlTypes ==
  ASSUME TypeInv, NEW p \in Proc, CopyBl(p)
  PROVE  TypeInv'
<1>1. l[p].pc \in CopyPCs /\ "copy_lt" \in CopyPCs
  BY DEF CopyBl, At, CopyPCs
<1>2. PICK t \in Thread : t = l[p].t
  BY <1>1, TargetIs
<1>3. PICK u \in Thread : u = Target(p)
  BY <1>1, TargetIs
<1>4. /\ bl' = CopyRows(bl, t, u) /\ ck' = ck /\ wr' = wr /\ lt' = lt
      /\ UNCHANGED <<hints, backup, hist, calls>> /\ Step(p, [l[p] EXCEPT !.pc = "copy_lt"])
  BY <1>2, <1>3 DEF CopyBl, CopyBlobs
<1>5. PICK r \in Local : Step(p, r) /\ Shape(r) /\ r.pc \notin PutPCs
  BY <1>1, <1>4, CopyStep
<1>6. Stores'
  BY <1>4, CopyRowsIs DEF TypeInv, Stores, BlT
<1>. QED  BY <1>4, <1>5, <1>6, StoreKeeps

LEMMA CopyLatestTypes ==
  ASSUME TypeInv, NEW p \in Proc, CopyLatest(p)
  PROVE  TypeInv'
<1>1. l[p].pc \in CopyPCs
  BY DEF CopyLatest, At, CopyPCs
<1>2. PICK t \in Thread : t = l[p].t
  BY <1>1, TargetIs
<1>3. PICK u \in Thread : u = Target(p)
  BY <1>1, TargetIs
<1>4. PICK top \in IdOrNo : top = TopAfterCopy(t, u)
  BY ReadIs, NewestIs DEF TopAfterCopy, MaxKey, Keys
<1>5. /\ IF Indexed \/ top = None
         THEN UNCHANGED <<lt, max_seen>>
         ELSE /\ lt' = [lt EXCEPT ![u] = top]
              /\ max_seen' = [max_seen EXCEPT ![SaverOf[p]] = BoundedSet(@, u, top)]
      /\ done' = [done EXCEPT ![u] = @ \cup DOMAIN ck[u]] /\ Step(p, Locals0)
      /\ ck' = ck /\ wr' = wr /\ bl' = bl /\ prune_floor' = prune_floor
      /\ backup' = backup /\ arch' = arch /\ awr' = awr /\ calls' = calls
  BY <1>2, <1>3, <1>4 DEF CopyLatest, Return
<1>6. Stores' /\ awr' \in WrT
  BY <1>5 DEF TypeInv, Stores, LtT, Archives
<1>7. Hints'
  <2>1. SaverOf[p] \in Saver /\ max_seen \in [Saver -> LtT]
    BY ConstantsAssumption DEF TypeInv, Hints
  <2>2. BoundedSet(max_seen[SaverOf[p]], u, top) \in LtT
    BY <2>1, BoundedSetIs
  <2>. QED  BY <1>5, <2>1, <2>2 DEF TypeInv, Hints
<1>8. done' \in [Thread -> SUBSET Id]
  BY <1>5, ReadIs DEF TypeInv, Archives
<1>9. \A v \in Thread : DOMAIN ck'[v] \subseteq DOMAIN arch[v]
  BY <1>5 DEF TypeInv, Known
<1>10. Locals0.pc \notin PutPCs
  BY DEF Locals0, PutPCs
<1>. QED  BY <1>5, <1>6, <1>7, <1>8, <1>9, <1>10, LocalsAre, RunKeeps

LEMMA SnapshotTypes ==
  ASSUME TypeInv, NEW p \in Proc, SnapshotStore(p)
  PROVE  TypeInv'
<1>1. /\ calls' \in [Proc -> 0 .. MaxCalls] /\ backup' = <<ck, wr, bl, lt, awr>>
      /\ ck' = ck /\ wr' = wr /\ bl' = bl /\ lt' = lt /\ max_seen' = max_seen
      /\ prune_floor' = prune_floor /\ arch' = arch /\ awr' = awr /\ done' = done /\ l' = l
  BY CallIs DEF SnapshotStore, store, hints, hist
<1>2. Backups'
  BY <1>1 DEF TypeInv, Stores, Archives, Backups
<1>3. backup'[1] = ck
  BY <1>1
<1>4. Known'
  BY <1>1, <1>3 DEF TypeInv, Known
<1>. QED  BY <1>1, <1>2, <1>4 DEF TypeInv, Stores, Hints, Archives, Shape

LEMMA RestoreTypes ==
  ASSUME TypeInv, NEW p \in Proc, RestoreStore(p)
  PROVE  TypeInv'
<1>1. /\ calls' \in [Proc -> 0 .. MaxCalls] /\ backup # <<>>
      /\ ck' = backup[1] /\ wr' = backup[2] /\ bl' = backup[3] /\ lt' = backup[4]
      /\ awr' = backup[5] /\ max_seen' = max_seen /\ prune_floor' = prune_floor
      /\ backup' = backup /\ arch' = arch /\ done' = done /\ l' = l
  BY CallIs DEF RestoreStore, hints
<1>2. backup \in CkT \X WrT \X BlT \X LtT \X WrT
  BY <1>1 DEF TypeInv, Backups
<1>3. Stores' /\ Hints' /\ Archives'
  BY <1>1, <1>2 DEF TypeInv, Stores, Hints, Archives
<1>4. Known'
  BY <1>1 DEF TypeInv, Known
<1>. QED  BY <1>1, <1>3, <1>4 DEF TypeInv, Backups, Shape

-----------------------------------------------------------------------------
(* Type correctness *)

LEMMA OldRowIs ==
  OldRow \in Record /\ \A c \in Channel : OldRow.vers[c] = 1
<1>1. (CHOOSE r \in Run : TRUE) \in Run
  BY ConstantsAssumption
<1>2. 1 \in IdOrNo
  BY IdIs
<1>. QED  BY <1>1, <1>2, ValuesAre, IdIs DEF OldRow, Record

LEMMA InitTypes ==
  ASSUME Init
  PROVE  TypeInv
<1>1. PICK old \in SUBSET Legacy :
        /\ ck = [t \in Thread |-> IF t \in old THEN Row(1, Stored(OldRow)) ELSE Empty]
        /\ bl = [t \in Thread |-> IF t \in old /\ Incremental
                                  THEN [x \in Channel \X {1} |-> 1] ELSE Empty]
        /\ arch = [t \in Thread |-> IF t \in old THEN Row(1, OldRow) ELSE Empty]
        /\ done = [t \in Thread |-> IF t \in old THEN {1} ELSE {}]
  BY DEF Init
<1>2. /\ wr = [t \in Thread |-> Empty] /\ lt = [t \in Thread |-> None]
      /\ max_seen = [s \in Saver |-> [t \in Thread |-> None]]
      /\ prune_floor = [s \in Saver |-> [t \in Thread |-> 0]]
      /\ backup = <<>> /\ awr = [t \in Thread |-> Empty]
      /\ l = [p \in Proc |-> Locals0] /\ calls = [p \in Proc |-> 0]
  BY DEF Init
<1>3. 1 \in Id /\ 1 \in IdOrNo /\ None \in IdOrNo /\ 0 \in IdOrNo
  BY IdIs DEF None
<1>4. Row(1, Stored(OldRow)) \in Part(Id, Record) /\ Row(1, OldRow) \in Part(Id, Record)
  BY <1>3, OldRowIs, StoredIs, RowPart
<1>5. \A A, B : Empty \in Part(A, B)
  BY EmptyPart
<1>6. [x \in Channel \X {1} |-> 1] \in Part(Channel \X Id, IdOrNo)
  <2>1. [x \in Channel \X {1} |-> 1] \in [Channel \X {1} -> IdOrNo]
    BY <1>3
  <2>2. Channel \X {1} \in SUBSET (Channel \X Id)
    BY <1>3
  <2>. QED  BY <2>1, <2>2 DEF Part
<1>7. ck \in CkT /\ arch \in CkT
  BY <1>1, <1>4, <1>5 DEF CkT
<1>8. bl \in BlT
  BY <1>1, <1>5, <1>6 DEF BlT
<1>9. wr \in WrT /\ awr \in WrT /\ lt \in LtT
  BY <1>2, <1>3, <1>5 DEF WrT, LtT
<1>10. max_seen \in [Saver -> LtT] /\ prune_floor \in [Saver -> LtT]
  BY <1>2, <1>3 DEF LtT
<1>11. done \in [Thread -> SUBSET Id]
  BY <1>1, <1>3
<1>12. l \in [Proc -> Local] /\ (\A p \in Proc : Shape(l[p])) /\ \A p \in Proc : l[p].pc \notin PutPCs
  <2>1. Locals0.pc \notin PutPCs
    BY DEF Locals0, PutPCs
  <2>. QED  BY <1>2, <2>1, LocalsAre
<1>13. calls \in [Proc -> 0 .. MaxCalls]
  BY <1>2, ConstantsAssumption
<1>14. Known
  <2>1. ASSUME NEW t \in Thread
        PROVE  /\ DOMAIN ck[t] \subseteq DOMAIN arch[t]
               /\ \A i \in DOMAIN arch[t], c \in Channel : arch[t][i].vers[c] <= i
    <3>1. CASE t \in old
      <4>1. DOMAIN ck[t] = {1} /\ DOMAIN arch[t] = {1} /\ arch[t][1] = OldRow
        BY <1>1, <3>1 DEF Row
      <4>. QED  BY <4>1, OldRowIs
    <3>2. CASE t \notin old
      <4>1. DOMAIN ck[t] = {} /\ DOMAIN arch[t] = {}
        BY <1>1, <3>2, EmptyPart
      <4>. QED  BY <4>1
    <3>. QED  BY <3>1, <3>2
  <2>. QED  BY <1>2, <1>12, <2>1 DEF Known
<1>15. Backups
  BY <1>2 DEF Backups
<1>. QED  BY <1>7, <1>8, <1>9, <1>10, <1>11, <1>12, <1>13, <1>14, <1>15
     DEF TypeInv, Stores, Hints, Archives

LEMMA InvokeTypes ==
  ASSUME TypeInv, NEW p \in Proc, Invoke(p)
  PROVE  TypeInv'
<1>1. PICK t \in Thread :
        \/ \E parent \in Parents(t), run \in Run :
             \E id \in FreshIds(parent), upd \in Updates(parent) :
               \E snapped \in SUBSET (upd \cap Delta) :
                 Put(p, t, id, parent, upd, snapped, run)
        \/ \E id \in DOMAIN ck[t], K \in SUBSET WKey \ {{}} :
             \E b \in [{id} \X K -> WVal] : PutWrites(p, t, id, b)
        \/ \E id \in {None} \cup DOMAIN ck[t] : GetTuple(p, t, id)
        \/ \E id \in DOMAIN ck[t] : List(p, {t}, id, None, {}, 0)
        \/ \E before \in {None} \cup DOMAIN ck[t], limit \in {0, 1} :
             List(p, {t}, None, before, {}, limit)
        \/ Prune(p, t) \/ DeleteThread(p, t)
        \/ \E u \in Thread : CopyThread(p, t, u)
  BY DEF Invoke
<1>2. DOMAIN ck[t] \subseteq Id /\ DOMAIN ck[t] \subseteq IdOrNo /\ None \in IdOrNo
  BY ReadIs, IdIs
<1>3. ASSUME NEW parent \in Parents(t), NEW run \in Run, NEW id \in FreshIds(parent),
             NEW upd \in Updates(parent), NEW snapped, Put(p, t, id, parent, upd, snapped, run)
      PROVE  TypeInv'
  <2>1. upd \in SUBSET Channel
    BY <1>3 DEF Updates
  <2>. QED  BY <1>3, <2>1, PutTypes
<1>4. ASSUME NEW id \in DOMAIN ck[t], NEW K \in SUBSET WKey, NEW b \in [{id} \X K -> WVal],
             PutWrites(p, t, id, b)
      PROVE  TypeInv'
  BY <1>2, <1>4, PutWritesTypes
<1>5. ASSUME NEW id \in {None} \cup DOMAIN ck[t], GetTuple(p, t, id)
      PROVE  TypeInv'
  BY <1>2, <1>5, GetTupleTypes
<1>6. ASSUME NEW id \in IdOrNo, NEW before \in IdOrNo, NEW limit \in {0, 1},
             List(p, {t}, id, before, {}, limit)
      PROVE  TypeInv'
  <2>1. {t} \in SUBSET Thread /\ {} \in SUBSET Run
    OBVIOUS
  <2>. QED  BY <1>6, <2>1, ListTypes
<1>7. CASE Prune(p, t) \/ DeleteThread(p, t)
  BY <1>7, PruneTypes, DeleteThreadTypes
<1>8. ASSUME NEW u \in Thread, CopyThread(p, t, u)
      PROVE  TypeInv'
  BY <1>8, CopyThreadTypes
<1>9. CASE \E id \in DOMAIN ck[t] : List(p, {t}, id, None, {}, 0)
  BY <1>2, <1>6, <1>9
<1>10. CASE \E before \in {None} \cup DOMAIN ck[t], limit \in {0, 1} :
              List(p, {t}, None, before, {}, limit)
  BY <1>2, <1>6, <1>10
<1>. QED  BY <1>1, <1>3, <1>4, <1>5, <1>7, <1>8, <1>9, <1>10

LEMMA AdministerTypes ==
  ASSUME TypeInv, NEW p \in Proc, Administer(p)
  PROVE  TypeInv'
<1>1. ASSUME NEW runs \in SUBSET Run, NEW limit \in {0, 1}, List(p, Thread, None, None, runs, limit)
      PROVE  TypeInv'
  <2>1. None \in IdOrNo /\ Thread \in SUBSET Thread
    BY IdIs
  <2>. QED  BY <1>1, <2>1, ListTypes
<1>2. ASSUME NEW runs \in SUBSET Run, DeleteForRuns(p, runs)
      PROVE  TypeInv'
  BY <1>2, DeleteForRunsTypes
<1>. QED  BY <1>1, <1>2, SnapshotTypes, RestoreTypes DEF Administer

LEMMA ContinueTypes ==
  ASSUME TypeInv, NEW p \in Proc, Continue(p)
  PROVE  TypeInv'
<1>1. CASE \/ PutHint(p) \/ PutBlobContains(p) \/ PutBlobs(p) \/ PutRows(p) \/ PutRest(p)
           \/ CheckWrites(p) \/ FlushWrites(p)
  BY <1>1, PutHintTypes, PutBlobContainsTypes, PutBlobsTypes, PutRowsTypes, PutRestTypes,
     CheckWritesTypes, FlushWritesTypes
<1>2. CASE \/ GetMax(p) \/ GetLatest(p) \/ GetPointed(p) \/ GetKeys(p) \/ GetPublish(p)
           \/ GetSaved(p) \/ AttachValues(p) \/ BuildKeys(p) \/ BuildWrites(p)
           \/ GetReturn(p) \/ ListKeys(p) \/ ListNext(p)
  BY <1>2, GetMaxTypes, GetLatestTypes, GetPointedTypes, GetKeysTypes, GetPublishTypes,
     GetSavedTypes, AttachValuesTypes, BuildKeysTypes, BuildWritesTypes, GetReturnTypes,
     ListKeysTypes, ListNextTypes
<1>3. CASE \/ PruneKeys(p) \/ TrimIds(p) \/ TrimRead(p) \/ TrimNext(p) \/ WalkRow(p)
           \/ WalkVals(p) \/ TrimEnd(p)
  BY <1>3, PruneKeysTypes, TrimIdsTypes, TrimReadTypes, TrimNextTypes, WalkRowTypes,
     WalkValsTypes, TrimEndTypes
<1>4. CASE \/ DropRefs(p) \/ DropBlobKeys(p) \/ DropBlobs(p) \/ DropWrites(p)
           \/ DropCheckpoints(p) \/ DropLatest(p) \/ DropFix(p) \/ Dropped(p)
  BY <1>4, DropRefsTypes, DropBlobKeysTypes, DropBlobsTypes, DropWritesTypes,
     DropCheckpointsTypes, DropLatestTypes, DropFixTypes, DroppedTypes
<1>5. CASE \/ RunsKeys(p) \/ RunsRead(p)
           \/ DeleteCk(p) \/ DeleteListWrites(p) \/ DeleteWrites(p) \/ DeleteBlobs(p)
           \/ DeleteLatest(p)
           \/ CopyCk(p) \/ CopyWr(p) \/ CopyBl(p) \/ CopyLatest(p)
  BY <1>5, RunsKeysTypes, RunsReadTypes, DeleteCkTypes, DeleteListWritesTypes,
     DeleteWritesTypes, DeleteBlobsTypes, DeleteLatestTypes, CopyCkTypes, CopyWrTypes,
     CopyBlTypes, CopyLatestTypes
<1>. QED  BY <1>1, <1>2, <1>3, <1>4, <1>5 DEF Continue

LEMMA NextTypes ==
  ASSUME TypeInv, [Next]_vars
  PROVE  TypeInv'
<1>1. CASE Next
  BY <1>1, InvokeTypes, AdministerTypes, ContinueTypes DEF Next
<1>2. CASE UNCHANGED vars
  <2>1. /\ ck' = ck /\ wr' = wr /\ bl' = bl /\ lt' = lt /\ max_seen' = max_seen
        /\ prune_floor' = prune_floor /\ backup' = backup /\ arch' = arch /\ awr' = awr
        /\ done' = done /\ l' = l /\ calls' = calls
    BY <1>2 DEF vars, store, hints, hist
  <2>. QED  BY <2>1 DEF TypeInv, Stores, Hints, Archives, Backups, Known, Shape
<1>. QED  BY <1>1, <1>2

LEMMA AlwaysTyped == Spec => []TypeInv
<1>1. Init => TypeInv
  BY InitTypes
<1>2. TypeInv /\ [Next]_vars => TypeInv'
  BY NextTypes
<1>. QED  BY <1>1, <1>2, PTL DEF Spec

\* Type correctness of the saver (SwarmStateSaver in integrations/langgraph.py)
\* for any callers, savers, threads, channels and configuration: the rows, the
\* pointers and the hints stay what the code takes them for, however calls
\* interleave and whenever the store is rolled back.
THEOREM SaverTypes == Spec => []TypeOK
<1>1. TypeInv => TypeOK
  <2>1. ASSUME TypeInv PROVE TypeOK
    <3>1. \A t \in Thread :
            /\ DOMAIN ck[t] \subseteq Id /\ \A i \in DOMAIN ck[t] : ck[t][i] \in Record
            /\ DOMAIN wr[t] \subseteq Id \X WKey /\ \A x \in DOMAIN wr[t] : wr[t][x] \in WVal
            /\ DOMAIN bl[t] \subseteq Channel \X Id /\ \A x \in DOMAIN bl[t] : bl[t][x] \in IdOrNo
      BY <2>1, ReadIs
    <3>2. /\ lt \in [Thread -> IdOrNo] /\ max_seen \in [Saver -> [Thread -> IdOrNo]]
          /\ prune_floor \in [Saver -> [Thread -> 0 .. MaxId]]
          /\ calls \in [Proc -> 0 .. MaxCalls]
      BY <2>1 DEF TypeInv, Stores, Hints, LtT, IdOrNo
    <3>3. \A p \in Proc : l[p].pc \in PCs
      BY <2>1, AtIs DEF Local
    <3>. QED  BY <3>1, <3>2, <3>3 DEF TypeOK
  <2>. QED  BY <2>1
<1>. QED  BY <1>1, AlwaysTyped, PTL

-----------------------------------------------------------------------------
(* What the steps do: the locals that matter later, and the store *)

LEMMA TrimReadIs ==
  ASSUME TypeInv, NEW p \in Proc, TrimRead(p)
  PROVE  /\ l[p].pc = "trim_read" /\ l[p].t \in Thread /\ Only_l
         /\ l'[p].pc = "trim_next" /\ l'[p].todo = NewestOf(l[p].ids, l[p].keep)
         /\ l'[p].kept = NewestOf(l[p].ids, l[p].keep)
         /\ l'[p].recs = [i \in NewestOf(l[p].ids, l[p].keep) |-> Get(ck[l[p].t], i)]
         /\ l'[p].t = l[p].t /\ l'[p].op = l[p].op /\ l'[p].keep = l[p].keep
         /\ l'[p].ids = l[p].ids /\ l'[p].needed = l[p].needed
         /\ l'[p].doomed = l[p].doomed /\ \A q \in Proc : q # p => l'[q] = l[q]
<1>1. PICK me : me = l[p] /\ me \in Local /\ Shape(me) /\ me.pc = "trim_read"
  BY AtIs DEF TrimRead, ReadStep, At
<1>2. me.t \in Thread
  BY <1>1 DEF Shape
<1>3. PICK S : S = NewestOf(me.ids, me.keep)
  OBVIOUS
<1>4. PICK f : f = [i \in S |-> Get(ck[me.t], i)]
  OBVIOUS
<1>5. PICK r : r = [me EXCEPT !.pc = "trim_next", !.todo = S, !.kept = S, !.recs = f]
  OBVIOUS
<1>6. /\ Step(p, r) /\ Only_l
  BY <1>1, <1>3, <1>4, <1>5 DEF TrimRead, ReadStep, Only_l
<1>7. l'[p] = r /\ \A q \in Proc : q # p => l'[q] = l[q]
  BY <1>6, Steps DEF TypeInv
<1>8. /\ r.pc = "trim_next" /\ r.todo = S /\ r.kept = S /\ r.recs = f /\ r.t = me.t
      /\ r.op = me.op /\ r.keep = me.keep /\ r.ids = me.ids /\ r.needed = me.needed
      /\ r.doomed = me.doomed
  BY <1>1, <1>5 DEF Local
<1>. QED  BY <1>1, <1>2, <1>3, <1>4, <1>6, <1>7, <1>8

LEMMA TrimEndIs ==
  ASSUME TypeInv, NEW p \in Proc, TrimEnd(p)
  PROVE  /\ l[p].pc = "trim_next" /\ l[p].t \in Thread /\ l[p].todo = {} /\ Only_l
         /\ l'[p].pc = (IF l[p].ids \ (l[p].kept \cup l[p].needed) = {} THEN "dropped" ELSE DropStart)
         /\ l'[p].kept = (l[p].kept \cup l[p].needed)
         /\ l'[p].doomed = l[p].ids \ (l[p].kept \cup l[p].needed)
         /\ l'[p].todo = l[p].ids \ (l[p].kept \cup l[p].needed) /\ l'[p].t = l[p].t
         /\ l'[p].op = l[p].op /\ l'[p].keep = l[p].keep /\ l'[p].ids = l[p].ids
         /\ l'[p].recs = l[p].recs /\ l'[p].threads = l[p].threads
         /\ l'[p].runs = l[p].runs /\ \A q \in Proc : q # p => l'[q] = l[q]
<1>1. PICK me : me = l[p] /\ me \in Local /\ Shape(me) /\ me.pc = "trim_next"
  BY AtIs DEF TrimEnd, ReadStep, At
<1>2. me.t \in Thread
  BY <1>1 DEF Shape
<1>3. PICK K : K = (me.kept \cup me.needed)
  OBVIOUS
<1>4. PICK D : D = me.ids \ K
  OBVIOUS
<1>5. PICK r : r = [me EXCEPT !.pc = (IF D = {} THEN "dropped" ELSE DropStart), !.kept = K, !.doomed = D, !.todo = D]
  OBVIOUS
<1>6. /\ Step(p, r) /\ l[p].todo = {} /\ Only_l
  BY <1>1, <1>3, <1>4, <1>5 DEF TrimEnd, ReadStep, Only_l
<1>7. l'[p] = r /\ \A q \in Proc : q # p => l'[q] = l[q]
  BY <1>6, Steps DEF TypeInv
<1>8. /\ r.pc = (IF D = {} THEN "dropped" ELSE DropStart) /\ r.kept = K /\ r.doomed = D
      /\ r.todo = D /\ r.t = me.t /\ r.op = me.op /\ r.keep = me.keep /\ r.ids = me.ids
      /\ r.recs = me.recs /\ r.threads = me.threads /\ r.runs = me.runs
  BY <1>1, <1>5 DEF Local
<1>. QED  BY <1>1, <1>2, <1>3, <1>4, <1>6, <1>7, <1>8

LEMMA DropRefsIs ==
  ASSUME TypeInv, NEW p \in Proc, DropRefs(p)
  PROVE  /\ l[p].pc = "drop_refs" /\ l[p].t \in Thread /\ Only_l
         /\ l'[p].pc = "drop_blob_keys"
         /\ l'[p].keys = References(l[p].kept, Over(l[p].recs, [i \in l[p].kept |-> Get(ck[l[p].t], i)]))
         /\ l'[p].t = l[p].t /\ l'[p].op = l[p].op /\ l'[p].keep = l[p].keep
         /\ l'[p].ids = l[p].ids /\ l'[p].kept = l[p].kept
         /\ l'[p].doomed = l[p].doomed /\ l'[p].recs = l[p].recs
         /\ l'[p].threads = l[p].threads /\ l'[p].runs = l[p].runs
         /\ l'[p].todo = l[p].todo /\ \A q \in Proc : q # p => l'[q] = l[q]
<1>1. PICK me : me = l[p] /\ me \in Local /\ Shape(me) /\ me.pc = "drop_refs"
  BY AtIs DEF DropRefs, ReadStep, At
<1>2. me.t \in Thread
  BY <1>1 DEF Shape
<1>3. PICK K : K = References(me.kept, Over(me.recs, [i \in me.kept |-> Get(ck[me.t], i)]))
  OBVIOUS
<1>4. PICK r : r = [me EXCEPT !.pc = "drop_blob_keys", !.keys = K]
  OBVIOUS
<1>5. /\ Step(p, r) /\ Only_l
  BY <1>1, <1>3, <1>4 DEF DropRefs, ReadStep, Only_l
<1>6. l'[p] = r /\ \A q \in Proc : q # p => l'[q] = l[q]
  BY <1>5, Steps DEF TypeInv
<1>7. /\ r.pc = "drop_blob_keys" /\ r.keys = K /\ r.t = me.t /\ r.op = me.op
      /\ r.keep = me.keep /\ r.ids = me.ids /\ r.kept = me.kept /\ r.doomed = me.doomed
      /\ r.recs = me.recs /\ r.threads = me.threads /\ r.runs = me.runs
      /\ r.todo = me.todo
  BY <1>1, <1>4 DEF Local
<1>. QED  BY <1>1, <1>2, <1>3, <1>5, <1>6, <1>7

LEMMA DropBlobKeysIs ==
  ASSUME TypeInv, NEW p \in Proc, DropBlobKeys(p)
  PROVE  /\ l[p].pc = "drop_blob_keys" /\ l[p].t \in Thread /\ Only_l
         /\ l'[p].pc = "drop_blobs" /\ l'[p].keys = DOMAIN bl[l[p].t] \ l[p].keys
         /\ l'[p].t = l[p].t /\ l'[p].op = l[p].op /\ l'[p].keep = l[p].keep
         /\ l'[p].ids = l[p].ids /\ l'[p].kept = l[p].kept
         /\ l'[p].doomed = l[p].doomed /\ l'[p].recs = l[p].recs
         /\ l'[p].threads = l[p].threads /\ l'[p].runs = l[p].runs
         /\ l'[p].todo = l[p].todo /\ \A q \in Proc : q # p => l'[q] = l[q]
<1>1. PICK me : me = l[p] /\ me \in Local /\ Shape(me) /\ me.pc = "drop_blob_keys"
  BY AtIs DEF DropBlobKeys, ReadStep, At
<1>2. me.t \in Thread
  BY <1>1 DEF Shape
<1>3. PICK r : r = [me EXCEPT !.pc = "drop_blobs", !.keys = DOMAIN bl[me.t] \ me.keys]
  OBVIOUS
<1>4. /\ Step(p, r) /\ Only_l
  BY <1>1, <1>3 DEF DropBlobKeys, ReadStep, Only_l, OrphanBlobs
<1>5. l'[p] = r /\ \A q \in Proc : q # p => l'[q] = l[q]
  BY <1>4, Steps DEF TypeInv
<1>6. /\ r.pc = "drop_blobs" /\ r.keys = DOMAIN bl[me.t] \ me.keys /\ r.t = me.t
      /\ r.op = me.op /\ r.keep = me.keep /\ r.ids = me.ids /\ r.kept = me.kept
      /\ r.doomed = me.doomed /\ r.recs = me.recs /\ r.threads = me.threads
      /\ r.runs = me.runs /\ r.todo = me.todo
  BY <1>1, <1>3 DEF Local
<1>. QED  BY <1>1, <1>2, <1>4, <1>5, <1>6

LEMMA DropBlobsIs ==
  ASSUME TypeInv, NEW p \in Proc, DropBlobs(p)
  PROVE  /\ l[p].pc = "drop_blobs" /\ l[p].t \in Thread
         /\ bl' = DropRows(bl, l[p].t, l[p].keys) /\ ck' = ck /\ wr' = wr /\ lt' = lt
         /\ UNCHANGED <<hints, backup, hist, calls>> /\ l'[p].pc = "drop_writes"
         /\ l'[p].keys = {} /\ l'[p].t = l[p].t /\ l'[p].op = l[p].op
         /\ l'[p].keep = l[p].keep /\ l'[p].ids = l[p].ids /\ l'[p].kept = l[p].kept
         /\ l'[p].doomed = l[p].doomed /\ l'[p].recs = l[p].recs
         /\ l'[p].threads = l[p].threads /\ l'[p].runs = l[p].runs
         /\ l'[p].todo = l[p].todo /\ \A q \in Proc : q # p => l'[q] = l[q]
<1>1. PICK me : me = l[p] /\ me \in Local /\ Shape(me) /\ me.pc = "drop_blobs"
  BY AtIs DEF DropBlobs, ReadStep, At
<1>2. me.t \in Thread
  BY <1>1 DEF Shape
<1>3. PICK r : r = [me EXCEPT !.pc = "drop_writes", !.keys = {}]
  OBVIOUS
<1>4. /\ Step(p, r) /\ bl' = DropRows(bl, l[p].t, l[p].keys) /\ ck' = ck /\ wr' = wr
      /\ lt' = lt /\ UNCHANGED <<hints, backup, hist, calls>>
  BY <1>1, <1>3 DEF DropBlobs, ReadStep, Only_l
<1>5. l'[p] = r /\ \A q \in Proc : q # p => l'[q] = l[q]
  BY <1>4, Steps DEF TypeInv
<1>6. /\ r.pc = "drop_writes" /\ r.keys = {} /\ r.t = me.t /\ r.op = me.op
      /\ r.keep = me.keep /\ r.ids = me.ids /\ r.kept = me.kept /\ r.doomed = me.doomed
      /\ r.recs = me.recs /\ r.threads = me.threads /\ r.runs = me.runs
      /\ r.todo = me.todo
  BY <1>1, <1>3 DEF Local
<1>. QED  BY <1>1, <1>2, <1>4, <1>5, <1>6

LEMMA DropWritesIs ==
  ASSUME TypeInv, NEW p \in Proc, DropWrites(p)
  PROVE  /\ l[p].pc = "drop_writes" /\ l[p].t \in Thread
         /\ wr' = DropRows(wr, l[p].t, WritesNs(l[p].t, Min(l[p].todo))) /\ ck' = ck
         /\ bl' = bl /\ lt' = lt /\ UNCHANGED <<hints, backup, hist, calls>>
         /\ l'[p].todo = l[p].todo \ {Min(l[p].todo)}
         /\ l'[p].pc = (IF l[p].todo = {Min(l[p].todo)} THEN "drop_rows" ELSE "drop_writes")
         /\ l'[p].t = l[p].t /\ l'[p].op = l[p].op /\ l'[p].keep = l[p].keep
         /\ l'[p].ids = l[p].ids /\ l'[p].kept = l[p].kept
         /\ l'[p].doomed = l[p].doomed /\ l'[p].recs = l[p].recs
         /\ l'[p].threads = l[p].threads /\ l'[p].runs = l[p].runs
         /\ \A q \in Proc : q # p => l'[q] = l[q]
<1>1. PICK me : me = l[p] /\ me \in Local /\ Shape(me) /\ me.pc = "drop_writes"
  BY AtIs DEF DropWrites, ReadStep, At
<1>2. me.t \in Thread
  BY <1>1 DEF Shape
<1>3. PICK i : i = Min(me.todo)
  OBVIOUS
<1>4. PICK r : r = [me EXCEPT !.todo = me.todo \ {i}, !.pc = (IF me.todo = {i} THEN "drop_rows" ELSE "drop_writes")]
  OBVIOUS
<1>5. /\ Step(p, r) /\ wr' = DropRows(wr, l[p].t, WritesNs(l[p].t, Min(l[p].todo)))
      /\ ck' = ck /\ bl' = bl /\ lt' = lt /\ UNCHANGED <<hints, backup, hist, calls>>
  BY <1>1, <1>3, <1>4 DEF DropWrites, ReadStep, Only_l, WritesToDrop
<1>6. l'[p] = r /\ \A q \in Proc : q # p => l'[q] = l[q]
  BY <1>5, Steps DEF TypeInv
<1>7. /\ r.todo = me.todo \ {i}
      /\ r.pc = (IF me.todo = {i} THEN "drop_rows" ELSE "drop_writes") /\ r.t = me.t
      /\ r.op = me.op /\ r.keep = me.keep /\ r.ids = me.ids /\ r.kept = me.kept
      /\ r.doomed = me.doomed /\ r.recs = me.recs /\ r.threads = me.threads
      /\ r.runs = me.runs
  BY <1>1, <1>4 DEF Local
<1>. QED  BY <1>1, <1>2, <1>3, <1>5, <1>6, <1>7

LEMMA DropCheckpointsIs ==
  ASSUME TypeInv, NEW p \in Proc, DropCheckpoints(p)
  PROVE  /\ l[p].pc = "drop_rows" /\ l[p].t \in Thread
         /\ ck' = DropRows(ck, l[p].t, l[p].doomed) /\ wr' = wr /\ bl' = bl /\ lt' = lt
         /\ UNCHANGED <<hints, backup, hist, calls>>
         /\ l'[p].pc = (IF Indexed THEN "dropped" ELSE "drop_latest")
         /\ l'[p].t = l[p].t /\ l'[p].op = l[p].op /\ l'[p].keep = l[p].keep
         /\ l'[p].ids = l[p].ids /\ l'[p].kept = l[p].kept
         /\ l'[p].doomed = l[p].doomed /\ l'[p].recs = l[p].recs
         /\ l'[p].threads = l[p].threads /\ l'[p].runs = l[p].runs
         /\ \A q \in Proc : q # p => l'[q] = l[q]
<1>1. PICK me : me = l[p] /\ me \in Local /\ Shape(me) /\ me.pc = "drop_rows"
  BY AtIs DEF DropCheckpoints, ReadStep, At
<1>2. me.t \in Thread
  BY <1>1 DEF Shape
<1>3. PICK r : r = [me EXCEPT !.pc = (IF Indexed THEN "dropped" ELSE "drop_latest")]
  OBVIOUS
<1>4. /\ Step(p, r) /\ ck' = DropRows(ck, l[p].t, l[p].doomed) /\ wr' = wr /\ bl' = bl
      /\ lt' = lt /\ UNCHANGED <<hints, backup, hist, calls>>
  BY <1>1, <1>3 DEF DropCheckpoints, ReadStep, Only_l
<1>5. l'[p] = r /\ \A q \in Proc : q # p => l'[q] = l[q]
  BY <1>4, Steps DEF TypeInv
<1>6. /\ r.pc = (IF Indexed THEN "dropped" ELSE "drop_latest") /\ r.t = me.t
      /\ r.op = me.op /\ r.keep = me.keep /\ r.ids = me.ids /\ r.kept = me.kept
      /\ r.doomed = me.doomed /\ r.recs = me.recs /\ r.threads = me.threads
      /\ r.runs = me.runs
  BY <1>1, <1>3 DEF Local
<1>. QED  BY <1>1, <1>2, <1>4, <1>5, <1>6

LEMMA DropLatestIs ==
  ASSUME TypeInv, NEW p \in Proc, DropLatest(p)
  PROVE  /\ l[p].pc = "drop_latest" /\ l[p].t \in Thread /\ Only_l
         /\ l'[p].pc = (IF lt[l[p].t] \in l[p].doomed THEN "drop_fix" ELSE "dropped")
         /\ l'[p].t = l[p].t /\ l'[p].op = l[p].op /\ l'[p].keep = l[p].keep
         /\ l'[p].ids = l[p].ids /\ l'[p].kept = l[p].kept
         /\ l'[p].doomed = l[p].doomed /\ l'[p].recs = l[p].recs
         /\ l'[p].threads = l[p].threads /\ l'[p].runs = l[p].runs
         /\ \A q \in Proc : q # p => l'[q] = l[q]
<1>1. PICK me : me = l[p] /\ me \in Local /\ Shape(me) /\ me.pc = "drop_latest"
  BY AtIs DEF DropLatest, ReadStep, At
<1>2. me.t \in Thread
  BY <1>1 DEF Shape
<1>3. PICK r : r = [me EXCEPT !.pc = (IF lt[me.t] \in me.doomed THEN "drop_fix" ELSE "dropped")]
  OBVIOUS
<1>4. /\ Step(p, r) /\ Only_l
  BY <1>1, <1>3 DEF DropLatest, ReadStep, Only_l
<1>5. l'[p] = r /\ \A q \in Proc : q # p => l'[q] = l[q]
  BY <1>4, Steps DEF TypeInv
<1>6. /\ r.pc = (IF lt[me.t] \in me.doomed THEN "drop_fix" ELSE "dropped")
      /\ r.t = me.t /\ r.op = me.op /\ r.keep = me.keep /\ r.ids = me.ids
      /\ r.kept = me.kept /\ r.doomed = me.doomed /\ r.recs = me.recs
      /\ r.threads = me.threads /\ r.runs = me.runs
  BY <1>1, <1>3 DEF Local
<1>. QED  BY <1>1, <1>2, <1>4, <1>5, <1>6

LEMMA DropFixIs ==
  ASSUME TypeInv, NEW p \in Proc, DropFix(p)
  PROVE  /\ l[p].pc = "drop_fix" /\ l[p].t \in Thread
         /\ lt' = [lt EXCEPT ![l[p].t] = Newest(l[p].kept)]
         /\ max_seen' = [max_seen EXCEPT ![SaverOf[p]][l[p].t] = None] /\ ck' = ck
         /\ wr' = wr /\ bl' = bl /\ prune_floor' = prune_floor
         /\ UNCHANGED <<backup, hist, calls>> /\ l'[p].pc = "dropped"
         /\ l'[p].t = l[p].t /\ l'[p].op = l[p].op /\ l'[p].keep = l[p].keep
         /\ l'[p].ids = l[p].ids /\ l'[p].kept = l[p].kept
         /\ l'[p].doomed = l[p].doomed /\ l'[p].recs = l[p].recs
         /\ l'[p].threads = l[p].threads /\ l'[p].runs = l[p].runs
         /\ \A q \in Proc : q # p => l'[q] = l[q]
<1>1. PICK me : me = l[p] /\ me \in Local /\ Shape(me) /\ me.pc = "drop_fix"
  BY AtIs DEF DropFix, ReadStep, At
<1>2. me.t \in Thread
  BY <1>1 DEF Shape
<1>3. PICK r : r = [me EXCEPT !.pc = "dropped"]
  OBVIOUS
<1>4. /\ Step(p, r) /\ lt' = [lt EXCEPT ![l[p].t] = Newest(l[p].kept)]
      /\ max_seen' = [max_seen EXCEPT ![SaverOf[p]][l[p].t] = None] /\ ck' = ck
      /\ wr' = wr /\ bl' = bl /\ prune_floor' = prune_floor
      /\ UNCHANGED <<backup, hist, calls>>
  BY <1>1, <1>3 DEF DropFix, ReadStep, Only_l, RepointTo
<1>5. l'[p] = r /\ \A q \in Proc : q # p => l'[q] = l[q]
  BY <1>4, Steps DEF TypeInv
<1>6. /\ r.pc = "dropped" /\ r.t = me.t /\ r.op = me.op /\ r.keep = me.keep
      /\ r.ids = me.ids /\ r.kept = me.kept /\ r.doomed = me.doomed /\ r.recs = me.recs
      /\ r.threads = me.threads /\ r.runs = me.runs
  BY <1>1, <1>3 DEF Local
<1>. QED  BY <1>1, <1>2, <1>4, <1>5, <1>6

LEMMA DeleteCkIs ==
  ASSUME TypeInv, NEW p \in Proc, DeleteCk(p)
  PROVE  /\ l[p].pc = "del_ck" /\ l[p].t \in Thread
         /\ ck' = [ck EXCEPT ![l[p].t] = Empty] /\ wr' = wr /\ bl' = bl /\ lt' = lt
         /\ UNCHANGED <<hints, backup, hist, calls>> /\ l'[p].pc = "del_wr_list"
         /\ l'[p].t = l[p].t /\ \A q \in Proc : q # p => l'[q] = l[q]
<1>1. PICK me : me = l[p] /\ me \in Local /\ Shape(me) /\ me.pc = "del_ck"
  BY AtIs DEF DeleteCk, ReadStep, At
<1>2. me.t \in Thread
  BY <1>1 DEF Shape
<1>3. PICK r : r = [me EXCEPT !.pc = "del_wr_list"]
  OBVIOUS
<1>4. /\ Step(p, r) /\ ck' = [ck EXCEPT ![l[p].t] = Empty] /\ wr' = wr /\ bl' = bl
      /\ lt' = lt /\ UNCHANGED <<hints, backup, hist, calls>>
  BY <1>1, <1>3 DEF DeleteCk, ReadStep, Only_l
<1>5. l'[p] = r /\ \A q \in Proc : q # p => l'[q] = l[q]
  BY <1>4, Steps DEF TypeInv
<1>6. /\ r.pc = "del_wr_list" /\ r.t = me.t
  BY <1>1, <1>3 DEF Local
<1>. QED  BY <1>1, <1>2, <1>4, <1>5, <1>6

LEMMA DeleteListWritesIs ==
  ASSUME TypeInv, NEW p \in Proc, DeleteListWrites(p)
  PROVE  /\ l[p].pc = "del_wr_list" /\ l[p].t \in Thread /\ Only_l
         /\ l'[p].todo = {x[1] : x \in DOMAIN wr[l[p].t]}
         /\ l'[p].pc = (IF {x[1] : x \in DOMAIN wr[l[p].t]} = {} THEN "del_bl" ELSE "del_wr")
         /\ l'[p].t = l[p].t /\ \A q \in Proc : q # p => l'[q] = l[q]
<1>1. PICK me : me = l[p] /\ me \in Local /\ Shape(me) /\ me.pc = "del_wr_list"
  BY AtIs DEF DeleteListWrites, ReadStep, At
<1>2. me.t \in Thread
  BY <1>1 DEF Shape
<1>3. PICK N : N = {x[1] : x \in DOMAIN wr[me.t]}
  OBVIOUS
<1>4. PICK r : r = [me EXCEPT !.todo = N, !.pc = (IF N = {} THEN "del_bl" ELSE "del_wr")]
  OBVIOUS
<1>5. /\ Step(p, r) /\ Only_l
  BY <1>1, <1>3, <1>4 DEF DeleteListWrites, ReadStep, Only_l
<1>6. l'[p] = r /\ \A q \in Proc : q # p => l'[q] = l[q]
  BY <1>5, Steps DEF TypeInv
<1>7. /\ r.todo = N /\ r.pc = (IF N = {} THEN "del_bl" ELSE "del_wr") /\ r.t = me.t
  BY <1>1, <1>4 DEF Local
<1>. QED  BY <1>1, <1>2, <1>3, <1>5, <1>6, <1>7

LEMMA DeleteBlobsIs ==
  ASSUME TypeInv, NEW p \in Proc, DeleteBlobs(p)
  PROVE  /\ l[p].pc = "del_bl" /\ l[p].t \in Thread
         /\ bl' = [bl EXCEPT ![l[p].t] = Empty] /\ ck' = ck /\ wr' = wr /\ lt' = lt
         /\ UNCHANGED <<hints, backup, hist, calls>> /\ l'[p].pc = "del_lt"
         /\ l'[p].t = l[p].t /\ \A q \in Proc : q # p => l'[q] = l[q]
<1>1. PICK me : me = l[p] /\ me \in Local /\ Shape(me) /\ me.pc = "del_bl"
  BY AtIs DEF DeleteBlobs, ReadStep, At
<1>2. me.t \in Thread
  BY <1>1 DEF Shape
<1>3. PICK r : r = [me EXCEPT !.pc = "del_lt"]
  OBVIOUS
<1>4. /\ Step(p, r) /\ bl' = [bl EXCEPT ![l[p].t] = Empty] /\ ck' = ck /\ wr' = wr
      /\ lt' = lt /\ UNCHANGED <<hints, backup, hist, calls>>
  BY <1>1, <1>3 DEF DeleteBlobs, ReadStep, Only_l, DropThreadBlobs
<1>5. l'[p] = r /\ \A q \in Proc : q # p => l'[q] = l[q]
  BY <1>4, Steps DEF TypeInv
<1>6. /\ r.pc = "del_lt" /\ r.t = me.t
  BY <1>1, <1>3 DEF Local
<1>. QED  BY <1>1, <1>2, <1>4, <1>5, <1>6

LEMMA CopyCkIs ==
  ASSUME TypeInv, NEW p \in Proc, CopyCk(p)
  PROVE  /\ l[p].pc = "copy_ck" /\ l[p].t \in Thread
         /\ ck' = CopyRows(ck, l[p].t, Target(p))
         /\ arch' = SetRows(arch, Target(p), Only(arch[l[p].t], DOMAIN ck[l[p].t]))
         /\ wr' = wr /\ bl' = bl /\ lt' = lt /\ awr' = awr /\ done' = done
         /\ UNCHANGED <<hints, backup, calls>> /\ l'[p].pc = "copy_wr"
         /\ l'[p].t = l[p].t /\ l'[p].threads = l[p].threads
         /\ \A q \in Proc : q # p => l'[q] = l[q]
<1>1. PICK me : me = l[p] /\ me \in Local /\ Shape(me) /\ me.pc = "copy_ck"
  BY AtIs DEF CopyCk, ReadStep, At
<1>2. me.t \in Thread
  BY <1>1 DEF Shape
<1>3. PICK r : r = [me EXCEPT !.pc = "copy_wr"]
  OBVIOUS
<1>4. /\ Step(p, r) /\ ck' = CopyRows(ck, l[p].t, Target(p))
      /\ arch' = SetRows(arch, Target(p), Only(arch[l[p].t], DOMAIN ck[l[p].t]))
      /\ wr' = wr /\ bl' = bl /\ lt' = lt /\ awr' = awr /\ done' = done
      /\ UNCHANGED <<hints, backup, calls>>
  BY <1>1, <1>3 DEF CopyCk, ReadStep, Only_l
<1>5. l'[p] = r /\ \A q \in Proc : q # p => l'[q] = l[q]
  BY <1>4, Steps DEF TypeInv
<1>6. /\ r.pc = "copy_wr" /\ r.t = me.t /\ r.threads = me.threads
  BY <1>1, <1>3 DEF Local
<1>. QED  BY <1>1, <1>2, <1>4, <1>5, <1>6

LEMMA CopyWrIs ==
  ASSUME TypeInv, NEW p \in Proc, CopyWr(p)
  PROVE  /\ l[p].pc = "copy_wr" /\ l[p].t \in Thread
         /\ wr' = CopyRows(wr, l[p].t, Target(p))
         /\ awr' = CopyRows(awr, l[p].t, Target(p)) /\ ck' = ck /\ bl' = bl /\ lt' = lt
         /\ arch' = arch /\ done' = done /\ UNCHANGED <<hints, backup, calls>>
         /\ l'[p].pc = "copy_bl" /\ l'[p].t = l[p].t /\ l'[p].threads = l[p].threads
         /\ \A q \in Proc : q # p => l'[q] = l[q]
<1>1. PICK me : me = l[p] /\ me \in Local /\ Shape(me) /\ me.pc = "copy_wr"
  BY AtIs DEF CopyWr, ReadStep, At
<1>2. me.t \in Thread
  BY <1>1 DEF Shape
<1>3. PICK r : r = [me EXCEPT !.pc = "copy_bl"]
  OBVIOUS
<1>4. /\ Step(p, r) /\ wr' = CopyRows(wr, l[p].t, Target(p))
      /\ awr' = CopyRows(awr, l[p].t, Target(p)) /\ ck' = ck /\ bl' = bl /\ lt' = lt
      /\ arch' = arch /\ done' = done /\ UNCHANGED <<hints, backup, calls>>
  BY <1>1, <1>3 DEF CopyWr, ReadStep, Only_l
<1>5. l'[p] = r /\ \A q \in Proc : q # p => l'[q] = l[q]
  BY <1>4, Steps DEF TypeInv
<1>6. /\ r.pc = "copy_bl" /\ r.t = me.t /\ r.threads = me.threads
  BY <1>1, <1>3 DEF Local
<1>. QED  BY <1>1, <1>2, <1>4, <1>5, <1>6

LEMMA CopyBlIs ==
  ASSUME TypeInv, NEW p \in Proc, CopyBl(p)
  PROVE  /\ l[p].pc = "copy_bl" /\ l[p].t \in Thread
         /\ bl' = CopyRows(bl, l[p].t, Target(p)) /\ ck' = ck /\ wr' = wr /\ lt' = lt
         /\ UNCHANGED <<hints, backup, hist, calls>> /\ l'[p].pc = "copy_lt"
         /\ l'[p].t = l[p].t /\ l'[p].threads = l[p].threads
         /\ \A q \in Proc : q # p => l'[q] = l[q]
<1>1. PICK me : me = l[p] /\ me \in Local /\ Shape(me) /\ me.pc = "copy_bl"
  BY AtIs DEF CopyBl, ReadStep, At
<1>2. me.t \in Thread
  BY <1>1 DEF Shape
<1>3. PICK r : r = [me EXCEPT !.pc = "copy_lt"]
  OBVIOUS
<1>4. /\ Step(p, r) /\ bl' = CopyRows(bl, l[p].t, Target(p)) /\ ck' = ck /\ wr' = wr
      /\ lt' = lt /\ UNCHANGED <<hints, backup, hist, calls>>
  BY <1>1, <1>3 DEF CopyBl, ReadStep, Only_l, CopyBlobs
<1>5. l'[p] = r /\ \A q \in Proc : q # p => l'[q] = l[q]
  BY <1>4, Steps DEF TypeInv
<1>6. /\ r.pc = "copy_lt" /\ r.t = me.t /\ r.threads = me.threads
  BY <1>1, <1>3 DEF Local
<1>. QED  BY <1>1, <1>2, <1>4, <1>5, <1>6

LEMMA PutHintIs ==
  ASSUME TypeInv, NEW p \in Proc, PutHint(p)
  PROVE  /\ l[p].pc = "put_hint" /\ l[p].t \in Thread
         /\ max_seen' = [max_seen EXCEPT ![SaverOf[p]] = BoundedSet(@, l[p].t, l[p].id)]
         /\ prune_floor' = prune_floor /\ UNCHANGED <<store, backup, hist, calls>>
         /\ l'[p].pc = AfterHint /\ l'[p].t = l[p].t /\ l'[p].id = l[p].id
         /\ l'[p].rec = l[p].rec /\ l'[p].publish = l[p].publish
         /\ l'[p].todo = l[p].todo /\ l'[p].batch = l[p].batch
         /\ \A q \in Proc : q # p => l'[q] = l[q]
<1>1. PICK me : me = l[p] /\ me \in Local /\ Shape(me) /\ me.pc = "put_hint"
  BY AtIs DEF PutHint, ReadStep, At
<1>2. me.t \in Thread
  BY <1>1 DEF Shape
<1>3. PICK r : r = [me EXCEPT !.pc = AfterHint]
  OBVIOUS
<1>4. /\ Step(p, r)
      /\ max_seen' = [max_seen EXCEPT ![SaverOf[p]] = BoundedSet(@, l[p].t, l[p].id)]
      /\ prune_floor' = prune_floor /\ UNCHANGED <<store, backup, hist, calls>>
  BY <1>1, <1>3 DEF PutHint, ReadStep, Only_l
<1>5. l'[p] = r /\ \A q \in Proc : q # p => l'[q] = l[q]
  BY <1>4, Steps DEF TypeInv
<1>6. /\ r.pc = AfterHint /\ r.t = me.t /\ r.id = me.id /\ r.rec = me.rec
      /\ r.publish = me.publish /\ r.todo = me.todo /\ r.batch = me.batch
  BY <1>1, <1>3 DEF Local
<1>. QED  BY <1>1, <1>2, <1>4, <1>5, <1>6

LEMMA PutBlobsIs ==
  ASSUME TypeInv, NEW p \in Proc, PutBlobs(p)
  PROVE  /\ l[p].pc = "put_blobs" /\ l[p].t \in Thread /\ l[p].todo = {}
         /\ bl' = SetRows(bl, l[p].t, l[p].batch) /\ ck' = ck /\ wr' = wr /\ lt' = lt
         /\ UNCHANGED <<hints, backup, hist, calls>> /\ l'[p].pc = "put_rows"
         /\ l'[p].batch = Empty /\ l'[p].t = l[p].t /\ l'[p].id = l[p].id
         /\ l'[p].rec = l[p].rec /\ l'[p].publish = l[p].publish
         /\ l'[p].todo = l[p].todo /\ \A q \in Proc : q # p => l'[q] = l[q]
<1>1. PICK me : me = l[p] /\ me \in Local /\ Shape(me) /\ me.pc = "put_blobs"
  BY AtIs DEF PutBlobs, ReadStep, At
<1>2. me.t \in Thread
  BY <1>1 DEF Shape
<1>3. PICK r : r = [me EXCEPT !.pc = "put_rows", !.batch = Empty]
  OBVIOUS
<1>4. /\ Step(p, r) /\ l[p].todo = {} /\ bl' = SetRows(bl, l[p].t, l[p].batch)
      /\ ck' = ck /\ wr' = wr /\ lt' = lt /\ UNCHANGED <<hints, backup, hist, calls>>
  BY <1>1, <1>3 DEF PutBlobs, ReadStep, Only_l
<1>5. l'[p] = r /\ \A q \in Proc : q # p => l'[q] = l[q]
  BY <1>4, Steps DEF TypeInv
<1>6. /\ r.pc = "put_rows" /\ r.batch = Empty /\ r.t = me.t /\ r.id = me.id
      /\ r.rec = me.rec /\ r.publish = me.publish /\ r.todo = me.todo
  BY <1>1, <1>3 DEF Local
<1>. QED  BY <1>1, <1>2, <1>4, <1>5, <1>6

LEMMA GetPublishIs ==
  ASSUME TypeInv, NEW p \in Proc, GetPublish(p)
  PROVE  /\ l[p].pc = "get_publish" /\ l[p].t \in Thread
         /\ lt' = [lt EXCEPT ![l[p].t] = l[p].id] /\ ck' = ck /\ wr' = wr /\ bl' = bl
         /\ UNCHANGED <<hints, backup, hist, calls>> /\ l'[p].pc = "get_saved"
         /\ l'[p].t = l[p].t /\ l'[p].id = l[p].id /\ l'[p].bound = l[p].bound
         /\ l'[p].op = l[p].op /\ \A q \in Proc : q # p => l'[q] = l[q]
<1>1. PICK me : me = l[p] /\ me \in Local /\ Shape(me) /\ me.pc = "get_publish"
  BY AtIs DEF GetPublish, ReadStep, At
<1>2. me.t \in Thread
  BY <1>1 DEF Shape
<1>3. PICK r : r = [me EXCEPT !.pc = "get_saved"]
  OBVIOUS
<1>4. /\ Step(p, r) /\ lt' = [lt EXCEPT ![l[p].t] = l[p].id] /\ ck' = ck /\ wr' = wr
      /\ bl' = bl /\ UNCHANGED <<hints, backup, hist, calls>>
  BY <1>1, <1>3 DEF GetPublish, ReadStep, Only_l, PutLt
<1>5. l'[p] = r /\ \A q \in Proc : q # p => l'[q] = l[q]
  BY <1>4, Steps DEF TypeInv
<1>6. /\ r.pc = "get_saved" /\ r.t = me.t /\ r.id = me.id /\ r.bound = me.bound
      /\ r.op = me.op
  BY <1>1, <1>3 DEF Local
<1>. QED  BY <1>1, <1>2, <1>4, <1>5, <1>6

LEMMA PruneKeysIs ==
  ASSUME TypeInv, NEW p \in Proc, PruneKeys(p), OverFloor(SaverOf[p], l[p].t, Cardinality(DOMAIN ck[l[p].t]))
  PROVE  /\ l[p].pc = "prune_keys" /\ l[p].t \in Thread /\ Only_l
         /\ l'[p].pc = "trim_read" /\ l'[p].ids = DOMAIN ck[l[p].t] /\ l'[p].t = l[p].t
         /\ l'[p].op = l[p].op /\ l'[p].keep = l[p].keep /\ l'[p].needed = l[p].needed
         /\ l'[p].doomed = l[p].doomed /\ \A q \in Proc : q # p => l'[q] = l[q]
<1>1. PICK me : me = l[p] /\ me \in Local /\ Shape(me) /\ me.pc = "prune_keys"
  BY AtIs DEF PruneKeys, ReadStep, At
<1>2. me.t \in Thread
  BY <1>1 DEF Shape
<1>3. PICK r : r = [me EXCEPT !.pc = "trim_read", !.ids = DOMAIN ck[me.t]]
  OBVIOUS
<1>4. /\ Step(p, r) /\ Only_l
  BY <1>1, <1>3 DEF PruneKeys, ReadStep, Only_l, Keys
<1>5. l'[p] = r /\ \A q \in Proc : q # p => l'[q] = l[q]
  BY <1>4, Steps DEF TypeInv
<1>6. /\ r.pc = "trim_read" /\ r.ids = DOMAIN ck[me.t] /\ r.t = me.t /\ r.op = me.op
      /\ r.keep = me.keep /\ r.needed = me.needed /\ r.doomed = me.doomed
  BY <1>1, <1>3 DEF Local
<1>. QED  BY <1>1, <1>2, <1>4, <1>5, <1>6

LEMMA TrimIdsIs ==
  ASSUME TypeInv, NEW p \in Proc, TrimIds(p), DOMAIN ck[l[p].t] # {}
  PROVE  /\ l[p].pc = "trim_ids" /\ l[p].t \in Thread /\ Only_l
         /\ l'[p].pc = "trim_read" /\ l'[p].ids = DOMAIN ck[l[p].t] /\ l'[p].t = l[p].t
         /\ l'[p].op = l[p].op /\ l'[p].keep = l[p].keep /\ l'[p].needed = l[p].needed
         /\ l'[p].doomed = l[p].doomed /\ \A q \in Proc : q # p => l'[q] = l[q]
<1>1. PICK me : me = l[p] /\ me \in Local /\ Shape(me) /\ me.pc = "trim_ids"
  BY AtIs DEF TrimIds, ReadStep, At
<1>2. me.t \in Thread
  BY <1>1 DEF Shape
<1>3. PICK r : r = [me EXCEPT !.pc = "trim_read", !.ids = DOMAIN ck[me.t]]
  OBVIOUS
<1>4. /\ Step(p, r) /\ Only_l
  BY <1>1, <1>3 DEF TrimIds, ReadStep, Only_l, Keys
<1>5. l'[p] = r /\ \A q \in Proc : q # p => l'[q] = l[q]
  BY <1>4, Steps DEF TypeInv
<1>6. /\ r.pc = "trim_read" /\ r.ids = DOMAIN ck[me.t] /\ r.t = me.t /\ r.op = me.op
      /\ r.keep = me.keep /\ r.needed = me.needed /\ r.doomed = me.doomed
  BY <1>1, <1>3 DEF Local
<1>. QED  BY <1>1, <1>2, <1>4, <1>5, <1>6

LEMMA TrimNextIs ==
  ASSUME TypeInv, NEW p \in Proc, TrimNext(p)
  PROVE  /\ l[p].pc = "trim_next" /\ l[p].t \in Thread /\ l[p].todo # {} /\ Only_l
         /\ l'[p].todo = l[p].todo \ {Min(l[p].todo)}
         /\ l'[p].pc = (IF l[p].recs[Min(l[p].todo)] = NoRow \/ Delta = {} THEN "trim_next" ELSE "walk_row")
         /\ l'[p].missing = (IF l[p].recs[Min(l[p].todo)] = NoRow THEN {} ELSE Lacks(l[p].t, l[p].recs[Min(l[p].todo)], Delta))
         /\ l'[p].cur = (IF l[p].recs[Min(l[p].todo)] = NoRow THEN None ELSE l[p].recs[Min(l[p].todo)].parent)
         /\ l'[p].t = l[p].t /\ l'[p].op = l[p].op /\ l'[p].keep = l[p].keep
         /\ l'[p].ids = l[p].ids /\ l'[p].kept = l[p].kept
         /\ l'[p].doomed = l[p].doomed /\ l'[p].recs = l[p].recs
         /\ l'[p].needed = l[p].needed /\ \A q \in Proc : q # p => l'[q] = l[q]
<1>1. PICK me : me = l[p] /\ me \in Local /\ Shape(me) /\ me.pc = "trim_next"
  BY AtIs DEF TrimNext, ReadStep, At
<1>2. me.t \in Thread
  BY <1>1 DEF Shape
<1>3. PICK i : i = Min(me.todo)
  OBVIOUS
<1>4. PICK g : g = me.recs[i]
  OBVIOUS
<1>5. PICK r : r = [me EXCEPT !.todo = me.todo \ {i}, !.pc = (IF g = NoRow \/ Delta = {} THEN "trim_next" ELSE "walk_row"), !.missing = (IF g = NoRow THEN {} ELSE Lacks(me.t, g, Delta)), !.cur = (IF g = NoRow THEN None ELSE g.parent)]
  OBVIOUS
<1>6. /\ Step(p, r) /\ l[p].todo # {} /\ Only_l
  BY <1>1, <1>3, <1>4, <1>5 DEF TrimNext, ReadStep, Only_l
<1>7. l'[p] = r /\ \A q \in Proc : q # p => l'[q] = l[q]
  BY <1>6, Steps DEF TypeInv
<1>8. /\ r.todo = me.todo \ {i}
      /\ r.pc = (IF g = NoRow \/ Delta = {} THEN "trim_next" ELSE "walk_row")
      /\ r.missing = (IF g = NoRow THEN {} ELSE Lacks(me.t, g, Delta))
      /\ r.cur = (IF g = NoRow THEN None ELSE g.parent) /\ r.t = me.t /\ r.op = me.op
      /\ r.keep = me.keep /\ r.ids = me.ids /\ r.kept = me.kept /\ r.doomed = me.doomed
      /\ r.recs = me.recs /\ r.needed = me.needed
  BY <1>1, <1>5 DEF Local
<1>. QED  BY <1>1, <1>2, <1>3, <1>4, <1>6, <1>7, <1>8

LEMMA WalkRowStops ==
  ASSUME TypeInv, NEW p \in Proc, WalkRow(p), l[p].missing = {} \/ l[p].cur = None
  PROVE  /\ l[p].pc = "walk_row" /\ l[p].t \in Thread /\ Only_l
         /\ l'[p].pc = "trim_next" /\ l'[p].missing = {} /\ l'[p].cur = None
         /\ l'[p].t = l[p].t /\ l'[p].op = l[p].op /\ l'[p].keep = l[p].keep
         /\ l'[p].ids = l[p].ids /\ l'[p].kept = l[p].kept
         /\ l'[p].doomed = l[p].doomed /\ l'[p].recs = l[p].recs
         /\ l'[p].needed = l[p].needed /\ l'[p].todo = l[p].todo
         /\ \A q \in Proc : q # p => l'[q] = l[q]
<1>1. PICK me : me = l[p] /\ me \in Local /\ Shape(me) /\ me.pc = "walk_row"
  BY AtIs DEF WalkRow, ReadStep, At
<1>2. me.t \in Thread
  BY <1>1 DEF Shape
<1>3. PICK r : r = [me EXCEPT !.pc = "trim_next", !.missing = {}, !.cur = None]
  OBVIOUS
<1>4. /\ Step(p, r) /\ Only_l
  BY <1>1, <1>3 DEF WalkRow, ReadStep, Only_l
<1>5. l'[p] = r /\ \A q \in Proc : q # p => l'[q] = l[q]
  BY <1>4, Steps DEF TypeInv
<1>6. /\ r.pc = "trim_next" /\ r.missing = {} /\ r.cur = None /\ r.t = me.t
      /\ r.op = me.op /\ r.keep = me.keep /\ r.ids = me.ids /\ r.kept = me.kept
      /\ r.doomed = me.doomed /\ r.recs = me.recs /\ r.needed = me.needed
      /\ r.todo = me.todo
  BY <1>1, <1>3 DEF Local
<1>. QED  BY <1>1, <1>2, <1>4, <1>5, <1>6

LEMMA WalkRowIs ==
  ASSUME TypeInv, NEW p \in Proc, WalkRow(p), ~ (l[p].missing = {} \/ l[p].cur = None)
  PROVE  /\ l[p].pc = "walk_row" /\ l[p].t \in Thread /\ Only_l
         /\ l'[p].pc = "walk_vals"
         /\ l'[p].recs = Over(l[p].recs, Row(l[p].cur, Get(ck[l[p].t], l[p].cur)))
         /\ l'[p].t = l[p].t /\ l'[p].op = l[p].op /\ l'[p].keep = l[p].keep
         /\ l'[p].ids = l[p].ids /\ l'[p].kept = l[p].kept
         /\ l'[p].doomed = l[p].doomed /\ l'[p].needed = l[p].needed
         /\ l'[p].todo = l[p].todo /\ l'[p].cur = l[p].cur
         /\ \A q \in Proc : q # p => l'[q] = l[q]
<1>1. PICK me : me = l[p] /\ me \in Local /\ Shape(me) /\ me.pc = "walk_row"
  BY AtIs DEF WalkRow, ReadStep, At
<1>2. me.t \in Thread
  BY <1>1 DEF Shape
<1>3. PICK f : f = Over(me.recs, Row(me.cur, Get(ck[me.t], me.cur)))
  OBVIOUS
<1>4. PICK r : r = [me EXCEPT !.pc = "walk_vals", !.recs = f]
  OBVIOUS
<1>5. /\ Step(p, r) /\ Only_l
  BY <1>1, <1>3, <1>4 DEF WalkRow, ReadStep, Only_l
<1>6. l'[p] = r /\ \A q \in Proc : q # p => l'[q] = l[q]
  BY <1>5, Steps DEF TypeInv
<1>7. /\ r.pc = "walk_vals" /\ r.recs = f /\ r.t = me.t /\ r.op = me.op
      /\ r.keep = me.keep /\ r.ids = me.ids /\ r.kept = me.kept /\ r.doomed = me.doomed
      /\ r.needed = me.needed /\ r.todo = me.todo /\ r.cur = me.cur
  BY <1>1, <1>4 DEF Local
<1>. QED  BY <1>1, <1>2, <1>3, <1>5, <1>6, <1>7

LEMMA WalkValsStops ==
  ASSUME TypeInv, NEW p \in Proc, WalkVals(p), l[p].recs[l[p].cur] = NoRow
  PROVE  /\ l[p].pc = "walk_vals" /\ l[p].t \in Thread /\ Only_l
         /\ l'[p].pc = "trim_next" /\ l'[p].missing = {} /\ l'[p].cur = None
         /\ l'[p].t = l[p].t /\ l'[p].op = l[p].op /\ l'[p].keep = l[p].keep
         /\ l'[p].ids = l[p].ids /\ l'[p].kept = l[p].kept
         /\ l'[p].doomed = l[p].doomed /\ l'[p].recs = l[p].recs
         /\ l'[p].needed = l[p].needed /\ l'[p].todo = l[p].todo
         /\ \A q \in Proc : q # p => l'[q] = l[q]
<1>1. PICK me : me = l[p] /\ me \in Local /\ Shape(me) /\ me.pc = "walk_vals"
  BY AtIs DEF WalkVals, ReadStep, At
<1>2. me.t \in Thread
  BY <1>1 DEF Shape
<1>3. PICK r : r = [me EXCEPT !.pc = "trim_next", !.missing = {}, !.cur = None]
  OBVIOUS
<1>4. /\ Step(p, r) /\ Only_l
  BY <1>1, <1>3 DEF WalkVals, ReadStep, Only_l
<1>5. l'[p] = r /\ \A q \in Proc : q # p => l'[q] = l[q]
  BY <1>4, Steps DEF TypeInv
<1>6. /\ r.pc = "trim_next" /\ r.missing = {} /\ r.cur = None /\ r.t = me.t
      /\ r.op = me.op /\ r.keep = me.keep /\ r.ids = me.ids /\ r.kept = me.kept
      /\ r.doomed = me.doomed /\ r.recs = me.recs /\ r.needed = me.needed
      /\ r.todo = me.todo
  BY <1>1, <1>3 DEF Local
<1>. QED  BY <1>1, <1>2, <1>4, <1>5, <1>6

LEMMA WalkValsIs ==
  ASSUME TypeInv, NEW p \in Proc, WalkVals(p), l[p].recs[l[p].cur] # NoRow
  PROVE  /\ l[p].pc = "walk_vals" /\ l[p].t \in Thread /\ Only_l
         /\ l'[p].pc = "walk_row" /\ l'[p].needed = l[p].needed \cup {l[p].cur}
         /\ l'[p].missing = Lacks(l[p].t, l[p].recs[l[p].cur], l[p].missing)
         /\ l'[p].cur = l[p].recs[l[p].cur].parent /\ l'[p].t = l[p].t
         /\ l'[p].op = l[p].op /\ l'[p].keep = l[p].keep /\ l'[p].ids = l[p].ids
         /\ l'[p].kept = l[p].kept /\ l'[p].doomed = l[p].doomed
         /\ l'[p].recs = l[p].recs /\ l'[p].todo = l[p].todo
         /\ \A q \in Proc : q # p => l'[q] = l[q]
<1>1. PICK me : me = l[p] /\ me \in Local /\ Shape(me) /\ me.pc = "walk_vals"
  BY AtIs DEF WalkVals, ReadStep, At
<1>2. me.t \in Thread
  BY <1>1 DEF Shape
<1>3. PICK r : r = [me EXCEPT !.pc = "walk_row", !.needed = me.needed \cup {me.cur}, !.missing = Lacks(me.t, me.recs[me.cur], me.missing), !.cur = me.recs[me.cur].parent]
  OBVIOUS
<1>4. /\ Step(p, r) /\ Only_l
  BY <1>1, <1>3 DEF WalkVals, ReadStep, Only_l
<1>5. l'[p] = r /\ \A q \in Proc : q # p => l'[q] = l[q]
  BY <1>4, Steps DEF TypeInv
<1>6. /\ r.pc = "walk_row" /\ r.needed = me.needed \cup {me.cur}
      /\ r.missing = Lacks(me.t, me.recs[me.cur], me.missing)
      /\ r.cur = me.recs[me.cur].parent /\ r.t = me.t /\ r.op = me.op
      /\ r.keep = me.keep /\ r.ids = me.ids /\ r.kept = me.kept /\ r.doomed = me.doomed
      /\ r.recs = me.recs /\ r.todo = me.todo
  BY <1>1, <1>3 DEF Local
<1>. QED  BY <1>1, <1>2, <1>4, <1>5, <1>6

LEMMA RunsReadNone ==
  ASSUME TypeInv, NEW p \in Proc, RunsRead(p), {i \in l[p].ids \cap DOMAIN ck[l[p].t] : ck[l[p].t][i].run \in l[p].runs} = {}
  PROVE  /\ l[p].pc = "runs_read" /\ l[p].t \in Thread /\ Only_l
         /\ l'[p].pc = "runs_next" /\ l'[p].recs = l[p].recs /\ l'[p].ids = l[p].ids
         /\ l'[p].threads = l[p].threads /\ l'[p].runs = l[p].runs
         /\ l'[p].op = l[p].op /\ l'[p].doomed = l[p].doomed
         /\ \A q \in Proc : q # p => l'[q] = l[q]
<1>1. PICK me : me = l[p] /\ me \in Local /\ Shape(me) /\ me.pc = "runs_read"
  BY AtIs DEF RunsRead, ReadStep, At
<1>2. me.t \in Thread
  BY <1>1 DEF Shape
<1>3. PICK r : r = [me EXCEPT !.pc = "runs_next"]
  OBVIOUS
<1>4. /\ Step(p, r) /\ Only_l
  BY <1>1, <1>3 DEF RunsRead, ReadStep, Only_l
<1>5. l'[p] = r /\ \A q \in Proc : q # p => l'[q] = l[q]
  BY <1>4, Steps DEF TypeInv
<1>6. /\ r.pc = "runs_next" /\ r.recs = me.recs /\ r.ids = me.ids
      /\ r.threads = me.threads /\ r.runs = me.runs /\ r.op = me.op
      /\ r.doomed = me.doomed
  BY <1>1, <1>3 DEF Local
<1>. QED  BY <1>1, <1>2, <1>4, <1>5, <1>6

LEMMA RunsReadIs ==
  ASSUME TypeInv, NEW p \in Proc, RunsRead(p), {i \in l[p].ids \cap DOMAIN ck[l[p].t] : ck[l[p].t][i].run \in l[p].runs} # {}
  PROVE  /\ l[p].pc = "runs_read" /\ l[p].t \in Thread /\ Only_l
         /\ l'[p].pc = DropStart
         /\ l'[p].doomed = {i \in l[p].ids \cap DOMAIN ck[l[p].t] : ck[l[p].t][i].run \in l[p].runs}
         /\ l'[p].todo = {i \in l[p].ids \cap DOMAIN ck[l[p].t] : ck[l[p].t][i].run \in l[p].runs}
         /\ l'[p].kept = l[p].ids \ {i \in l[p].ids \cap DOMAIN ck[l[p].t] : ck[l[p].t][i].run \in l[p].runs}
         /\ l'[p].t = l[p].t /\ l'[p].op = l[p].op /\ l'[p].keep = l[p].keep
         /\ l'[p].ids = l[p].ids /\ l'[p].recs = l[p].recs
         /\ l'[p].threads = l[p].threads /\ l'[p].runs = l[p].runs
         /\ \A q \in Proc : q # p => l'[q] = l[q]
<1>1. PICK me : me = l[p] /\ me \in Local /\ Shape(me) /\ me.pc = "runs_read"
  BY AtIs DEF RunsRead, ReadStep, At
<1>2. me.t \in Thread
  BY <1>1 DEF Shape
<1>3. PICK D : D = {i \in me.ids \cap DOMAIN ck[me.t] : ck[me.t][i].run \in me.runs}
  OBVIOUS
<1>4. PICK r : r = [me EXCEPT !.pc = DropStart, !.doomed = D, !.todo = D, !.kept = me.ids \ D]
  OBVIOUS
<1>5. /\ Step(p, r) /\ Only_l
  BY <1>1, <1>3, <1>4 DEF RunsRead, ReadStep, Only_l
<1>6. l'[p] = r /\ \A q \in Proc : q # p => l'[q] = l[q]
  BY <1>5, Steps DEF TypeInv
<1>7. /\ r.pc = DropStart /\ r.doomed = D /\ r.todo = D /\ r.kept = me.ids \ D
      /\ r.t = me.t /\ r.op = me.op /\ r.keep = me.keep /\ r.ids = me.ids
      /\ r.recs = me.recs /\ r.threads = me.threads /\ r.runs = me.runs
  BY <1>1, <1>4 DEF Local
<1>. QED  BY <1>1, <1>2, <1>3, <1>5, <1>6, <1>7

LEMMA GetMaxIs ==
  ASSUME TypeInv, NEW p \in Proc, GetMax(p)
  PROVE  /\ l[p].pc = "get_max" /\ l[p].t \in Thread /\ Only_l
         /\ l'[p].id = Newest(DOMAIN ck[l[p].t])
         /\ l'[p].pc = (IF Newest(DOMAIN ck[l[p].t]) = None THEN "got" ELSE "get_saved")
         /\ l'[p].t = l[p].t /\ l'[p].bound = l[p].bound /\ l'[p].op = l[p].op
         /\ \A q \in Proc : q # p => l'[q] = l[q]
<1>1. PICK me : me = l[p] /\ me \in Local /\ Shape(me) /\ me.pc = "get_max"
  BY AtIs DEF GetMax, ReadStep, At
<1>2. me.t \in Thread
  BY <1>1 DEF Shape
<1>3. PICK top : top = Newest(DOMAIN ck[me.t])
  OBVIOUS
<1>4. PICK r : r = [me EXCEPT !.id = top, !.pc = (IF top = None THEN "got" ELSE "get_saved")]
  OBVIOUS
<1>5. /\ Step(p, r) /\ Only_l
  BY <1>1, <1>3, <1>4 DEF GetMax, ReadStep, Only_l, MaxKey, Keys
<1>6. l'[p] = r /\ \A q \in Proc : q # p => l'[q] = l[q]
  BY <1>5, Steps DEF TypeInv
<1>7. /\ r.id = top /\ r.pc = (IF top = None THEN "got" ELSE "get_saved") /\ r.t = me.t
      /\ r.bound = me.bound /\ r.op = me.op
  BY <1>1, <1>4 DEF Local
<1>. QED  BY <1>1, <1>2, <1>3, <1>5, <1>6, <1>7

LEMMA GetLatestIs ==
  ASSUME TypeInv, NEW p \in Proc, GetLatest(p)
  PROVE  /\ l[p].pc = "get_lt" /\ l[p].t \in Thread /\ Only_l /\ l'[p].id = lt[l[p].t]
         /\ l'[p].pc = (IF lt[l[p].t] = None THEN "get_keys" ELSE "get_row")
         /\ l'[p].t = l[p].t /\ l'[p].bound = l[p].bound /\ l'[p].op = l[p].op
         /\ \A q \in Proc : q # p => l'[q] = l[q]
<1>1. PICK me : me = l[p] /\ me \in Local /\ Shape(me) /\ me.pc = "get_lt"
  BY AtIs DEF GetLatest, ReadStep, At
<1>2. me.t \in Thread
  BY <1>1 DEF Shape
<1>3. PICK at : at = lt[me.t]
  OBVIOUS
<1>4. PICK r : r = [me EXCEPT !.id = at, !.pc = (IF at = None THEN "get_keys" ELSE "get_row")]
  OBVIOUS
<1>5. /\ Step(p, r) /\ Only_l
  BY <1>1, <1>3, <1>4 DEF GetLatest, ReadStep, Only_l
<1>6. l'[p] = r /\ \A q \in Proc : q # p => l'[q] = l[q]
  BY <1>5, Steps DEF TypeInv
<1>7. /\ r.id = at /\ r.pc = (IF at = None THEN "get_keys" ELSE "get_row")
      /\ r.t = me.t /\ r.bound = me.bound /\ r.op = me.op
  BY <1>1, <1>4 DEF Local
<1>. QED  BY <1>1, <1>2, <1>3, <1>5, <1>6, <1>7

LEMMA GetPointedIs ==
  ASSUME TypeInv, NEW p \in Proc, GetPointed(p)
  PROVE  /\ l[p].pc = "get_row" /\ l[p].t \in Thread /\ Only_l
         /\ l'[p].rec = Get(ck[l[p].t], l[p].id)
         /\ l'[p].pc = (IF Get(ck[l[p].t], l[p].id) = NoRow THEN "get_keys" ELSE Build)
         /\ l'[p].t = l[p].t /\ l'[p].id = l[p].id /\ l'[p].bound = l[p].bound
         /\ l'[p].op = l[p].op /\ \A q \in Proc : q # p => l'[q] = l[q]
<1>1. PICK me : me = l[p] /\ me \in Local /\ Shape(me) /\ me.pc = "get_row"
  BY AtIs DEF GetPointed, ReadStep, At
<1>2. me.t \in Thread
  BY <1>1 DEF Shape
<1>3. PICK g : g = Get(ck[me.t], me.id)
  OBVIOUS
<1>4. PICK r : r = [me EXCEPT !.rec = g, !.pc = (IF g = NoRow THEN "get_keys" ELSE Build)]
  OBVIOUS
<1>5. /\ Step(p, r) /\ Only_l
  BY <1>1, <1>3, <1>4 DEF GetPointed, ReadStep, Only_l
<1>6. l'[p] = r /\ \A q \in Proc : q # p => l'[q] = l[q]
  BY <1>5, Steps DEF TypeInv
<1>7. /\ r.rec = g /\ r.pc = (IF g = NoRow THEN "get_keys" ELSE Build) /\ r.t = me.t
      /\ r.id = me.id /\ r.bound = me.bound /\ r.op = me.op
  BY <1>1, <1>4 DEF Local
<1>. QED  BY <1>1, <1>2, <1>3, <1>5, <1>6, <1>7

LEMMA GetKeysIs ==
  ASSUME TypeInv, NEW p \in Proc, GetKeys(p)
  PROVE  /\ l[p].pc = "get_keys" /\ l[p].t \in Thread /\ Only_l
         /\ l'[p].id = Newest(DOMAIN ck[l[p].t])
         /\ l'[p].pc = (IF Newest(DOMAIN ck[l[p].t]) = None THEN "got" ELSE "get_publish")
         /\ l'[p].t = l[p].t /\ l'[p].bound = l[p].bound /\ l'[p].op = l[p].op
         /\ \A q \in Proc : q # p => l'[q] = l[q]
<1>1. PICK me : me = l[p] /\ me \in Local /\ Shape(me) /\ me.pc = "get_keys"
  BY AtIs DEF GetKeys, ReadStep, At
<1>2. me.t \in Thread
  BY <1>1 DEF Shape
<1>3. PICK top : top = Newest(DOMAIN ck[me.t])
  OBVIOUS
<1>4. PICK r : r = [me EXCEPT !.id = top, !.pc = (IF top = None THEN "got" ELSE "get_publish")]
  OBVIOUS
<1>5. /\ Step(p, r) /\ Only_l
  BY <1>1, <1>3, <1>4 DEF GetKeys, ReadStep, Only_l, Keys
<1>6. l'[p] = r /\ \A q \in Proc : q # p => l'[q] = l[q]
  BY <1>5, Steps DEF TypeInv
<1>7. /\ r.id = top /\ r.pc = (IF top = None THEN "got" ELSE "get_publish")
      /\ r.t = me.t /\ r.bound = me.bound /\ r.op = me.op
  BY <1>1, <1>4 DEF Local
<1>. QED  BY <1>1, <1>2, <1>3, <1>5, <1>6, <1>7

LEMMA GetSavedIs ==
  ASSUME TypeInv, NEW p \in Proc, GetSaved(p)
  PROVE  /\ l[p].pc = "get_saved" /\ l[p].t \in Thread /\ Only_l
         /\ l'[p].rec = Get(ck[l[p].t], l[p].id)
         /\ l'[p].id = (IF Get(ck[l[p].t], l[p].id) = NoRow THEN None ELSE l[p].id)
         /\ l'[p].pc = (IF Get(ck[l[p].t], l[p].id) = NoRow THEN "got" ELSE Build)
         /\ l'[p].t = l[p].t /\ l'[p].bound = l[p].bound /\ l'[p].op = l[p].op
         /\ \A q \in Proc : q # p => l'[q] = l[q]
<1>1. PICK me : me = l[p] /\ me \in Local /\ Shape(me) /\ me.pc = "get_saved"
  BY AtIs DEF GetSaved, ReadStep, At
<1>2. me.t \in Thread
  BY <1>1 DEF Shape
<1>3. PICK g : g = Get(ck[me.t], me.id)
  OBVIOUS
<1>4. PICK r : r = [me EXCEPT !.rec = g, !.id = (IF g = NoRow THEN None ELSE me.id), !.pc = (IF g = NoRow THEN "got" ELSE Build)]
  OBVIOUS
<1>5. /\ Step(p, r) /\ Only_l
  BY <1>1, <1>3, <1>4 DEF GetSaved, ReadStep, Only_l
<1>6. l'[p] = r /\ \A q \in Proc : q # p => l'[q] = l[q]
  BY <1>5, Steps DEF TypeInv
<1>7. /\ r.rec = g /\ r.id = (IF g = NoRow THEN None ELSE me.id)
      /\ r.pc = (IF g = NoRow THEN "got" ELSE Build) /\ r.t = me.t
      /\ r.bound = me.bound /\ r.op = me.op
  BY <1>1, <1>4 DEF Local
<1>. QED  BY <1>1, <1>2, <1>3, <1>5, <1>6, <1>7

LEMMA BuildKeysIs ==
  ASSUME TypeInv, NEW p \in Proc, BuildKeys(p)
  PROVE  /\ l[p].pc = "build_keys" /\ l[p].t \in Thread /\ Only_l
         /\ l'[p].pc = "build_writes" /\ l'[p].todo = WritesNs(l[p].t, l[p].id)
         /\ l'[p].t = l[p].t /\ l'[p].id = l[p].id /\ l'[p].rec = l[p].rec
         /\ l'[p].bound = l[p].bound /\ l'[p].op = l[p].op
         /\ \A q \in Proc : q # p => l'[q] = l[q]
<1>1. PICK me : me = l[p] /\ me \in Local /\ Shape(me) /\ me.pc = "build_keys"
  BY AtIs DEF BuildKeys, ReadStep, At
<1>2. me.t \in Thread
  BY <1>1 DEF Shape
<1>3. PICK S : S = WritesNs(me.t, me.id)
  OBVIOUS
<1>4. PICK r : r = [me EXCEPT !.pc = "build_writes", !.todo = S]
  OBVIOUS
<1>5. /\ Step(p, r) /\ Only_l
  BY <1>1, <1>3, <1>4 DEF BuildKeys, ReadStep, Only_l
<1>6. l'[p] = r /\ \A q \in Proc : q # p => l'[q] = l[q]
  BY <1>5, Steps DEF TypeInv
<1>7. /\ r.pc = "build_writes" /\ r.todo = S /\ r.t = me.t /\ r.id = me.id
      /\ r.rec = me.rec /\ r.bound = me.bound /\ r.op = me.op
  BY <1>1, <1>4 DEF Local
<1>. QED  BY <1>1, <1>2, <1>3, <1>5, <1>6, <1>7

LEMMA BuildWritesIs ==
  ASSUME TypeInv, NEW p \in Proc, BuildWrites(p)
  PROVE  /\ l[p].pc = "build_writes" /\ l[p].t \in Thread /\ Only_l /\ l'[p].pc = "got"
         /\ l'[p].todo = {} /\ l'[p].batch = Only(wr[l[p].t], l[p].todo)
         /\ l'[p].t = l[p].t /\ l'[p].id = l[p].id /\ l'[p].rec = l[p].rec
         /\ l'[p].bound = l[p].bound /\ l'[p].op = l[p].op
         /\ \A q \in Proc : q # p => l'[q] = l[q]
<1>1. PICK me : me = l[p] /\ me \in Local /\ Shape(me) /\ me.pc = "build_writes"
  BY AtIs DEF BuildWrites, ReadStep, At
<1>2. me.t \in Thread
  BY <1>1 DEF Shape
<1>3. PICK f : f = Only(wr[me.t], me.todo)
  OBVIOUS
<1>4. PICK r : r = [me EXCEPT !.pc = "got", !.todo = {}, !.batch = f]
  OBVIOUS
<1>5. /\ Step(p, r) /\ Only_l
  BY <1>1, <1>3, <1>4 DEF BuildWrites, ReadStep, Only_l
<1>6. l'[p] = r /\ \A q \in Proc : q # p => l'[q] = l[q]
  BY <1>5, Steps DEF TypeInv
<1>7. /\ r.pc = "got" /\ r.todo = {} /\ r.batch = f /\ r.t = me.t /\ r.id = me.id
      /\ r.rec = me.rec /\ r.bound = me.bound /\ r.op = me.op
  BY <1>1, <1>4 DEF Local
<1>. QED  BY <1>1, <1>2, <1>3, <1>5, <1>6, <1>7

LEMMA ReturnIs ==
  ASSUME TypeInv, NEW p \in Proc, Step(p, Locals0)
  PROVE  /\ l'[p] = Locals0 /\ l'[p].pc = "idle" /\ l'[p].doomed = {}
         /\ \A q \in Proc : q # p => l'[q] = l[q]
<1>1. l'[p] = Locals0 /\ \A q \in Proc : q # p => l'[q] = l[q]
  BY Steps DEF TypeInv
<1>2. Locals0.pc = "idle" /\ Locals0.doomed = {}
  BY DEF Locals0
<1>. QED  BY <1>1, <1>2

LEMMA PruneKeysStops ==
  ASSUME TypeInv, NEW p \in Proc, PruneKeys(p),
         ~ OverFloor(SaverOf[p], l[p].t, Cardinality(DOMAIN ck[l[p].t]))
  PROVE  l[p].pc = "prune_keys" /\ Step(p, Locals0) /\ Only_l
  BY DEF PruneKeys, ReadStep, At, Only_l, Keys

LEMMA TrimIdsStops ==
  ASSUME TypeInv, NEW p \in Proc, TrimIds(p), DOMAIN ck[l[p].t] = {}
  PROVE  l[p].pc = "trim_ids" /\ Step(p, Locals0) /\ Only_l
  BY DEF TrimIds, ReadStep, At, Only_l, Keys

LEMMA AttachValuesIs ==
  ASSUME TypeInv, NEW p \in Proc, AttachValues(p)
  PROVE  /\ l[p].pc = "build_blobs" /\ l[p].t \in Thread /\ Only_l /\ l'[p].pc = "build_keys"
         /\ l'[p].t = l[p].t /\ l'[p].id = l[p].id /\ l'[p].bound = l[p].bound /\ l'[p].op = l[p].op
         /\ l'[p].rec.vals = [c \in Channel |-> ValueOf(l[p].t, l[p].rec, c)]
         /\ \A q \in Proc : q # p => l'[q] = l[q]
<1>1. PICK me : me = l[p] /\ me \in Local /\ Shape(me) /\ me.pc = "build_blobs"
  BY AtIs DEF AttachValues, ReadStep, At
<1>2. me.t \in Thread /\ me.rec \in Record
  BY <1>1 DEF Shape, BuildPCs
<1>3. PICK v : v = [c \in Channel |-> ValueOf(me.t, me.rec, c)]
  OBVIOUS
<1>4. PICK g : g = [me.rec EXCEPT !.vals = v]
  OBVIOUS
<1>5. PICK r : r = [me EXCEPT !.pc = "build_keys", !.rec = g]
  OBVIOUS
<1>6. Step(p, r) /\ Only_l
  <2>1. ReadStep(p, "build_blobs", [me EXCEPT !.pc = "build_keys", !.rec.vals = v])
    BY <1>1, <1>3 DEF AttachValues
  <2>2. r = [me EXCEPT !.pc = "build_keys", !.rec.vals = v]
    BY <1>1, <1>4, <1>5 DEF Local
  <2>. QED  BY <2>1, <2>2 DEF ReadStep, Only_l
<1>7. l'[p] = r /\ \A q \in Proc : q # p => l'[q] = l[q]
  BY <1>6, Steps DEF TypeInv
<1>8. r.pc = "build_keys" /\ r.rec = g /\ r.t = me.t /\ r.id = me.id /\ r.bound = me.bound /\ r.op = me.op
  BY <1>1, <1>5 DEF Local
<1>9. g.vals = v
  BY <1>2, <1>4 DEF Record
<1>. QED  BY <1>1, <1>2, <1>3, <1>6, <1>7, <1>8, <1>9

LEMMA GetReturnIs ==
  ASSUME TypeInv, NEW p \in Proc, GetReturn(p)
  PROVE  /\ l[p].pc = "got" /\ Only_l /\ l'[p].pc \in {"idle", "list_next"}
         /\ l'[p].pc = "list_next" => l[p].op = "list" /\ l'[p].op = "list" /\ l'[p].bound = l[p].bound
         /\ \A q \in Proc : q # p => l'[q] = l[q]
<1>1. PICK me : me = l[p] /\ me \in Local /\ me.pc = "got"
  BY AtIs DEF GetReturn, ReadStep, At
<1>2. PICK r : r = IF me.op = "list" /\ me.keep # 1
                   THEN [me EXCEPT !.pc = "list_next", !.id = None, !.rec = NoRow,
                                   !.batch = Empty, !.keep = IF @ = 0 THEN 0 ELSE @ - 1]
                   ELSE Locals0
  OBVIOUS
<1>3. Step(p, r) /\ Only_l
  BY <1>1, <1>2 DEF GetReturn, ReadStep, Only_l
<1>4. l'[p] = r /\ \A q \in Proc : q # p => l'[q] = l[q]
  BY <1>3, Steps DEF TypeInv
<1>5. /\ r.pc \in {"idle", "list_next"}
      /\ r.pc = "list_next" => me.op = "list" /\ r.op = "list" /\ r.bound = me.bound
  BY <1>1, <1>2 DEF Local, Locals0
<1>. QED  BY <1>1, <1>3, <1>4, <1>5

LEMMA ListKeysIs ==
  ASSUME TypeInv, NEW p \in Proc, ListKeys(p)
  PROVE  /\ l[p].pc = "list_next" /\ Only_l /\ l'[p].pc \in {"idle", "list_next"}
         /\ l'[p].pc = "list_next" => l'[p].op = l[p].op /\ l'[p].bound = l[p].bound
         /\ \A q \in Proc : q # p => l'[q] = l[q]
<1>1. PICK me : me = l[p] /\ me \in Local /\ me.pc = "list_next"
  BY AtIs DEF ListKeys, ReadStep, At
<1>2. CASE ReadStep(p, "list_next", Locals0)
  <2>1. Step(p, Locals0) /\ Only_l
    BY <1>2 DEF ReadStep, Only_l
  <2>. QED  BY <1>1, <2>1, ReturnIs
<1>3. CASE \E t \in me.threads :
             ReadStep(p, "list_next",
               [me EXCEPT !.t = t, !.threads = @ \ {t},
                          !.ids = {i \in (IF me.want # None THEN {me.want} ELSE Keys(t)) :
                                     me.before = None \/ i < me.before}])
  <2>1. PICK t \in me.threads :
             ReadStep(p, "list_next",
               [me EXCEPT !.t = t, !.threads = @ \ {t},
                          !.ids = {i \in (IF me.want # None THEN {me.want} ELSE Keys(t)) :
                                     me.before = None \/ i < me.before}])
    BY <1>3
  <2>2. PICK S : S = {i \in (IF me.want # None THEN {me.want} ELSE Keys(t)) :
                        me.before = None \/ i < me.before}
    OBVIOUS
  <2>3. PICK r : r = [me EXCEPT !.t = t, !.threads = @ \ {t}, !.ids = S]
    OBVIOUS
  <2>4. Step(p, r) /\ Only_l
    BY <2>1, <2>2, <2>3 DEF ReadStep, Only_l
  <2>5. l'[p] = r /\ \A q \in Proc : q # p => l'[q] = l[q]
    BY <2>4, Steps DEF TypeInv
  <2>6. r.pc = "list_next" /\ r.op = me.op /\ r.bound = me.bound
    BY <1>1, <2>3 DEF Local
  <2>. QED  BY <1>1, <2>4, <2>5, <2>6
<1>. QED  BY <1>1, <1>2, <1>3 DEF ListKeys

LEMMA ListNextIs ==
  ASSUME TypeInv, NEW p \in Proc, ListNext(p)
  PROVE  /\ l[p].pc = "list_next" /\ l[p].t \in Thread /\ Only_l /\ l'[p].t = l[p].t
         /\ l'[p].bound = l[p].bound /\ l'[p].op = l[p].op
         /\ \/ l'[p].pc = "list_next"
            \/ /\ l'[p].pc = Build /\ l'[p].id \in DOMAIN ck[l[p].t]
               /\ l'[p].rec = ck[l[p].t][l'[p].id]
         /\ \A q \in Proc : q # p => l'[q] = l[q]
<1>1. PICK me : me = l[p] /\ me \in Local /\ Shape(me) /\ me.pc = "list_next" /\ me.ids # {}
  BY AtIs DEF ListNext, ReadStep, At
<1>2. me.t \in Thread
  BY <1>1 DEF Shape
<1>3. PICK i : i = Max(me.ids)
  OBVIOUS
<1>4. PICK g : g = Get(ck[me.t], i)
  OBVIOUS
<1>5. CASE g = NoRow \/ (me.runs # {} /\ g.run \notin me.runs)
  <2>1. PICK r : r = [me EXCEPT !.ids = @ \ {i}]
    OBVIOUS
  <2>2. Step(p, r) /\ Only_l
    BY <1>1, <1>3, <1>4, <1>5, <2>1 DEF ListNext, ReadStep, Only_l
  <2>3. l'[p] = r /\ \A q \in Proc : q # p => l'[q] = l[q]
    BY <2>2, Steps DEF TypeInv
  <2>4. r.pc = me.pc /\ r.t = me.t /\ r.bound = me.bound /\ r.op = me.op
    BY <1>1, <2>1 DEF Local
  <2>. QED  BY <1>1, <1>2, <2>2, <2>3, <2>4
<1>6. CASE ~ (g = NoRow \/ (me.runs # {} /\ g.run \notin me.runs))
  <2>1. PICK r : r = [me EXCEPT !.ids = @ \ {i}, !.id = i, !.rec = g, !.pc = Build]
    OBVIOUS
  <2>2. Step(p, r) /\ Only_l
    BY <1>1, <1>3, <1>4, <1>6, <2>1 DEF ListNext, ReadStep, Only_l
  <2>3. l'[p] = r /\ \A q \in Proc : q # p => l'[q] = l[q]
    BY <2>2, Steps DEF TypeInv
  <2>4. r.pc = Build /\ r.t = me.t /\ r.bound = me.bound /\ r.op = me.op /\ r.id = i /\ r.rec = g
    BY <1>1, <2>1 DEF Local
  <2>5. i \in DOMAIN ck[me.t] /\ g = ck[me.t][i]
    BY <1>2, <1>4, <1>6, GetIs
  <2>. QED  BY <1>1, <1>2, <2>2, <2>3, <2>4, <2>5
<1>. QED  BY <1>5, <1>6

\* The locals that get_tuple and list use and nothing else does.
ReadPCs == {"idle", "get_max", "get_lt", "get_row", "get_keys", "get_saved", "build_blobs",
            "build_keys", "build_writes", "got", "list_next"}

Reading(p) ==
  \/ GetMax(p) \/ GetLatest(p) \/ GetPointed(p) \/ GetKeys(p) \/ GetSaved(p) \/ AttachValues(p)
  \/ BuildKeys(p) \/ BuildWrites(p) \/ GetReturn(p) \/ ListKeys(p) \/ ListNext(p)

\* They read the store and change nothing else.
LEMMA ReadingIs ==
  ASSUME TypeInv, NEW p \in Proc, Reading(p)
  PROVE  /\ Only_l /\ l[p].pc \in ReadPCs \ {"idle"} /\ l'[p].pc \in ReadPCs \cup {"get_publish"}
         /\ \A q \in Proc : q # p => l'[q] = l[q]
<1>1. Build \in ReadPCs
  BY DEF Build, ReadPCs
<1>2. CASE GetMax(p) \/ GetLatest(p) \/ GetPointed(p) \/ GetKeys(p) \/ GetSaved(p)
  BY <1>1, <1>2, GetMaxIs, GetLatestIs, GetPointedIs, GetKeysIs, GetSavedIs DEF ReadPCs
<1>3. CASE AttachValues(p) \/ BuildKeys(p) \/ BuildWrites(p) \/ GetReturn(p) \/ ListKeys(p)
  BY <1>3, AttachValuesIs, BuildKeysIs, BuildWritesIs, GetReturnIs, ListKeysIs DEF ReadPCs
<1>4. CASE ListNext(p)
  BY <1>1, <1>4, ListNextIs DEF ReadPCs
<1>. QED  BY <1>2, <1>3, <1>4 DEF Reading

\* What every step of a put leaves as it is.
SamePut(p) ==
  /\ l'[p].t = l[p].t /\ l'[p].id = l[p].id /\ l'[p].rec = l[p].rec
  /\ l'[p].publish = l[p].publish

LEMMA PutBlobContainsIs ==
  ASSUME TypeInv, NEW p \in Proc, PutBlobContains(p)
  PROVE  /\ l[p].pc = "put_blobs" /\ Only_l /\ l'[p].pc = "put_blobs" /\ SamePut(p)
         /\ \E b \in l[p].todo :
              /\ l'[p].todo = l[p].todo \ {b}
              /\ l'[p].batch = IF b \in DOMAIN bl[l[p].t] THEN l[p].batch
                               ELSE Over(Row(b, l[p].rec.vals[b[1]]), l[p].batch)
         /\ \A q \in Proc : q # p => l'[q] = l[q]
<1>1. PICK me : me = l[p] /\ me \in Local /\ Shape(me) /\ me.pc = "put_blobs"
  BY AtIs DEF PutBlobContains, At
<1>2. PICK b \in me.todo :
        Step(p, [me EXCEPT !.todo  = @ \ {b},
                           !.batch = IF b \in DOMAIN bl[me.t] THEN @
                                     ELSE Over(Row(b, me.rec.vals[b[1]]), @)])
  BY <1>1 DEF PutBlobContains
<1>3. PICK f : f = IF b \in DOMAIN bl[me.t] THEN me.batch
                   ELSE Over(Row(b, me.rec.vals[b[1]]), me.batch)
  OBVIOUS
<1>4. PICK r : r = [me EXCEPT !.todo = @ \ {b}, !.batch = f]
  OBVIOUS
<1>5. Step(p, r) /\ Only_l
  BY <1>2, <1>3, <1>4 DEF PutBlobContains, Only_l
<1>6. l'[p] = r /\ \A q \in Proc : q # p => l'[q] = l[q]
  BY <1>5, Steps DEF TypeInv
<1>7. /\ r.pc = me.pc /\ r.t = me.t /\ r.id = me.id /\ r.rec = me.rec /\ r.publish = me.publish
      /\ r.todo = me.todo \ {b} /\ r.batch = f
  BY <1>1, <1>4 DEF Local
<1>. QED  BY <1>1, <1>2, <1>3, <1>5, <1>6, <1>7 DEF SamePut

\* A put has ended: it goes on to the trim when there is a limit.
Ended(p) ==
  /\ l'[p].doomed = {} /\ l'[p].ids = {} /\ l'[p].needed = {}
  /\ \/ l'[p].pc = "prune_keys" /\ l'[p].t = l[p].t /\ l'[p].keep = Limit /\ l'[p].op = "put" /\ Limit # 0
     \/ l'[p].pc = "idle" /\ Limit = 0 /\ l'[p] = Locals0
  /\ \A q \in Proc : q # p => l'[q] = l[q]

LEMMA EndedIs ==
  ASSUME TypeInv, NEW p \in Proc, l[p].pc \in PutPCs, PutEnd(p)
  PROVE  Ended(p) /\ done' = [done EXCEPT ![l[p].t] = @ \cup {l[p].id}]
<1>1. PICK r \in Local : /\ Step(p, r) /\ Shape(r) /\ r.pc \in {"prune_keys", "idle"}
                         /\ r.doomed = {} /\ r.ids = {} /\ r.needed = {}
                         /\ r.pc = "prune_keys" => /\ r.t = l[p].t /\ r.keep = Limit
                                                   /\ r.op = "put" /\ Limit # 0
                         /\ r.pc = "idle" => Limit = 0 /\ r = Locals0
  BY PutEndIs
<1>2. l'[p] = r /\ \A q \in Proc : q # p => l'[q] = l[q]
  BY <1>1, Steps DEF TypeInv
<1>. QED  BY <1>1, <1>2 DEF Ended, PutEnd

LEMMA PutRowsIs ==
  ASSUME TypeInv, NEW p \in Proc, PutRows(p)
  PROVE  /\ l[p].pc = "put_rows"
         /\ wr' = wr /\ bl' = bl /\ max_seen' = max_seen /\ prune_floor' = prune_floor
         /\ backup' = backup /\ arch' = arch /\ awr' = awr /\ calls' = calls
         /\ \/ /\ l[p].publish /\ RowOrder = "ck_first" /\ PutCk(p) /\ lt' = lt
               /\ l'[p].pc = "put_rest" /\ SamePut(p) /\ done' = done
               /\ \A q \in Proc : q # p => l'[q] = l[q]
            \/ /\ l[p].publish /\ RowOrder # "ck_first" /\ PutLt(p) /\ ck' = ck
               /\ l'[p].pc = "put_rest" /\ SamePut(p) /\ done' = done
               /\ \A q \in Proc : q # p => l'[q] = l[q]
            \/ /\ PutCk(p) /\ (l[p].publish => PutLt(p)) /\ (~l[p].publish => lt' = lt)
               /\ Ended(p) /\ done' = [done EXCEPT ![l[p].t] = @ \cup {l[p].id}]
<1>1. PICK me : me = l[p] /\ me \in Local /\ Shape(me) /\ me.pc = "put_rows" /\ me.pc \in PutPCs
  BY AtIs DEF PutRows, At, PutPCs
<1>2. /\ wr' = wr /\ bl' = bl /\ max_seen' = max_seen /\ prune_floor' = prune_floor
      /\ backup' = backup /\ arch' = arch /\ awr' = awr /\ calls' = calls
  BY DEF PutRows, hints
<1>3. CASE me.publish /\ RowOrder # "together"
  <2>1. PICK r : r = [me EXCEPT !.pc = "put_rest"]
    OBVIOUS
  <2>2. /\ Step(p, r) /\ done' = done
        /\ IF RowOrder = "ck_first" THEN PutCk(p) /\ lt' = lt ELSE PutLt(p) /\ ck' = ck
    BY <1>1, <1>3, <2>1 DEF PutRows
  <2>3. l'[p] = r /\ \A q \in Proc : q # p => l'[q] = l[q]
    BY <2>2, Steps DEF TypeInv
  <2>4. /\ r.pc = "put_rest" /\ r.t = me.t /\ r.id = me.id /\ r.rec = me.rec
        /\ r.publish = me.publish
    BY <1>1, <2>1 DEF Local
  <2>5. SamePut(p) /\ l'[p].pc = "put_rest"
    BY <1>1, <2>3, <2>4 DEF SamePut
  <2>. QED  BY <1>1, <1>2, <1>3, <2>2, <2>3, <2>5
<1>4. CASE ~ (me.publish /\ RowOrder # "together")
  <2>1. PutEnd(p) /\ PutCk(p) /\ IF l[p].publish THEN PutLt(p) ELSE lt' = lt
    BY <1>1, <1>4 DEF PutRows
  <2>2. Ended(p) /\ done' = [done EXCEPT ![l[p].t] = @ \cup {l[p].id}]
    BY <1>1, <2>1, EndedIs
  <2>. QED  BY <1>1, <1>2, <2>1, <2>2
<1>. QED  BY <1>3, <1>4

LEMMA PutRestIs ==
  ASSUME TypeInv, NEW p \in Proc, PutRest(p)
  PROVE  /\ l[p].pc = "put_rest"
         /\ wr' = wr /\ bl' = bl /\ max_seen' = max_seen /\ prune_floor' = prune_floor
         /\ backup' = backup /\ arch' = arch /\ awr' = awr /\ calls' = calls
         /\ \/ RowOrder = "ck_first" /\ PutLt(p) /\ ck' = ck
            \/ RowOrder # "ck_first" /\ PutCk(p) /\ lt' = lt
         /\ Ended(p) /\ done' = [done EXCEPT ![l[p].t] = @ \cup {l[p].id}]
<1>1. l[p].pc = "put_rest" /\ l[p].pc \in PutPCs /\ PutEnd(p)
  BY DEF PutRest, At, PutPCs
<1>2. Ended(p) /\ done' = [done EXCEPT ![l[p].t] = @ \cup {l[p].id}]
  BY <1>1, EndedIs
<1>. QED  BY <1>1, <1>2 DEF PutRest, hints

LEMMA CheckWritesIs ==
  ASSUME TypeInv, NEW p \in Proc, CheckWrites(p)
  PROVE  /\ l[p].pc = "write_check" /\ Only_l /\ l'[p].t = l[p].t /\ l'[p].id = l[p].id
         /\ l'[p].pc = IF l'[p].todo = {} THEN "write_flush" ELSE "write_check"
         /\ \E S \in SUBSET l[p].todo :
              /\ l'[p].todo = l[p].todo \ S
              /\ l'[p].batch = Drop(l[p].batch, {x \in S : Skips(l[p].t, x)})
         /\ \A q \in Proc : q # p => l'[q] = l[q]
<1>1. PICK me : me = l[p] /\ me \in Local /\ Shape(me) /\ me.pc = "write_check"
  BY AtIs DEF CheckWrites, At
<1>2. PICK S \in Reads(me.todo) :
        Step(p, [me EXCEPT !.batch = Drop(@, {x \in S : Skips(me.t, x)}),
                           !.todo  = me.todo \ S,
                           !.pc    = IF me.todo \ S = {} THEN "write_flush" ELSE @])
  BY <1>1 DEF CheckWrites
<1>3. S \in SUBSET me.todo
  BY <1>2 DEF Reads
<1>4. PICK f : f = Drop(me.batch, {x \in S : Skips(me.t, x)})
  OBVIOUS
<1>5. PICK pc : pc = IF me.todo \ S = {} THEN "write_flush" ELSE "write_check"
  OBVIOUS
<1>6. PICK r : r = [me EXCEPT !.batch = f, !.todo = me.todo \ S, !.pc = pc]
  OBVIOUS
<1>7. Step(p, r) /\ Only_l
  BY <1>1, <1>2, <1>4, <1>5, <1>6 DEF CheckWrites, Only_l
<1>8. l'[p] = r /\ \A q \in Proc : q # p => l'[q] = l[q]
  BY <1>7, Steps DEF TypeInv
<1>9. r.pc = pc /\ r.t = me.t /\ r.id = me.id /\ r.todo = me.todo \ S /\ r.batch = f
  BY <1>1, <1>6 DEF Local
<1>. QED  BY <1>1, <1>3, <1>4, <1>5, <1>7, <1>8, <1>9

LEMMA FlushWritesIs ==
  ASSUME TypeInv, NEW p \in Proc, FlushWrites(p)
  PROVE  /\ l[p].pc = "write_flush" /\ l[p].t \in Thread
         /\ wr' = SetRows(wr, l[p].t, l[p].batch) /\ Step(p, Locals0)
         /\ ck' = ck /\ bl' = bl /\ lt' = lt /\ UNCHANGED <<hints, backup, hist, calls>>
<1>1. l[p].pc = "write_flush" /\ l[p].t \in Thread
  BY AtIs DEF FlushWrites, At, Shape
<1>. QED  BY <1>1 DEF FlushWrites, Return

LEMMA DroppedIs ==
  ASSUME TypeInv, NEW p \in Proc, Dropped(p)
  PROVE  /\ l[p].pc = "dropped" /\ l[p].t \in Thread
         /\ prune_floor' = IF l[p].op # "put" THEN prune_floor
                           ELSE [prune_floor EXCEPT ![SaverOf[p]] =
                                   BoundedSet(@, l[p].t, Cardinality(l[p].kept))]
         /\ UNCHANGED <<store, max_seen, backup, hist, calls>>
         /\ l'[p].doomed = {} /\ l'[p].recs = Empty
         /\ \/ l'[p] = Locals0 /\ l'[p].pc = "idle"
            \/ l[p].op = "delete_for_runs" /\ l'[p].pc = "runs_next" /\ l'[p].op = l[p].op
         /\ \A q \in Proc : q # p => l'[q] = l[q]
<1>1. PICK me : me = l[p] /\ me \in Local /\ Shape(me) /\ me.pc = "dropped" /\ me.t \in Thread
  BY AtIs DEF Dropped, At, Shape
<1>2. /\ prune_floor' = IF l[p].op # "put" THEN prune_floor
                        ELSE [prune_floor EXCEPT ![SaverOf[p]] =
                                BoundedSet(@, l[p].t, Cardinality(l[p].kept))]
      /\ UNCHANGED <<store, max_seen, backup, hist, calls>>
  BY DEF Dropped
<1>3. CASE me.op # "delete_for_runs"
  <2>1. Step(p, Locals0)
    BY <1>1, <1>3 DEF Dropped, Return
  <2>2. l'[p] = Locals0 /\ l'[p].pc = "idle" /\ \A q \in Proc : q # p => l'[q] = l[q]
    BY <2>1, ReturnIs
  <2>3. Locals0.doomed = {} /\ Locals0.recs = Empty
    BY DEF Locals0
  <2>. QED  BY <1>1, <1>2, <2>2, <2>3
<1>4. CASE me.op = "delete_for_runs"
  <2>1. PICK pc \in PCs : pc = "runs_next"
    BY DEF PCs
  <2>2. PICK t \in Thread \cup {None} : t = me.t
    BY <1>1
  <2>3. PICK op \in OpNames : op = me.op
    BY <1>4 DEF OpNames
  <2>4. PICK s : s = Started(p, op, t, pc)
    OBVIOUS
  <2>5. s \in Local /\ s.pc = pc /\ s.doomed = {} /\ s.recs = Empty /\ s.op = op
    <3>1. s \in Local
      BY <2>4, StartedIs
    <3>. QED  BY <2>4, <3>1 DEF Started, Locals0
  <2>6. PICK r : r = [s EXCEPT !.threads = me.threads, !.runs = me.runs]
    OBVIOUS
  <2>7. Step(p, r)
    BY <1>1, <1>4, <2>1, <2>2, <2>3, <2>4, <2>6 DEF Dropped
  <2>8. l'[p] = r /\ \A q \in Proc : q # p => l'[q] = l[q]
    BY <2>7, Steps DEF TypeInv
  <2>9. r.pc = pc /\ r.doomed = {} /\ r.recs = Empty /\ r.op = op
    BY <2>5, <2>6 DEF Local
  <2>. QED  BY <1>1, <1>2, <1>4, <2>1, <2>3, <2>8, <2>9
<1>. QED  BY <1>3, <1>4

LEMMA RunsKeysIs ==
  ASSUME TypeInv, NEW p \in Proc, RunsKeys(p)
  PROVE  /\ l[p].pc = "runs_next" /\ Only_l
         /\ \/ l'[p] = Locals0 /\ l'[p].pc = "idle" /\ l'[p].doomed = {}
            \/ /\ l'[p].pc = "runs_read" /\ l'[p].t \in Thread /\ l'[p].ids = DOMAIN ck[l'[p].t]
               /\ l'[p].recs = l[p].recs /\ l'[p].doomed = l[p].doomed /\ l'[p].op = l[p].op
         /\ \A q \in Proc : q # p => l'[q] = l[q]
<1>1. PICK me : me = l[p] /\ me \in Local /\ me.pc = "runs_next"
  BY AtIs DEF RunsKeys, ReadStep, At
<1>2. CASE ReadStep(p, "runs_next", Locals0)
  <2>1. Step(p, Locals0) /\ Only_l
    BY <1>2 DEF ReadStep, Only_l
  <2>. QED  BY <1>1, <2>1, ReturnIs
<1>3. CASE \E t \in me.threads :
             ReadStep(p, "runs_next",
               [me EXCEPT !.pc = "runs_read", !.t = t, !.threads = @ \ {t}, !.ids = Keys(t)])
  <2>1. PICK t \in me.threads :
          ReadStep(p, "runs_next",
            [me EXCEPT !.pc = "runs_read", !.t = t, !.threads = @ \ {t}, !.ids = Keys(t)])
    BY <1>3
  <2>2. PICK S : S = DOMAIN ck[t]
    OBVIOUS
  <2>3. PICK r : r = [me EXCEPT !.pc = "runs_read", !.t = t, !.threads = @ \ {t}, !.ids = S]
    OBVIOUS
  <2>4. Step(p, r) /\ Only_l
    BY <2>1, <2>2, <2>3 DEF ReadStep, Only_l, Keys
  <2>5. l'[p] = r /\ \A q \in Proc : q # p => l'[q] = l[q]
    BY <2>4, Steps DEF TypeInv
  <2>6. /\ r.pc = "runs_read" /\ r.t = t /\ r.ids = S /\ r.recs = me.recs /\ r.doomed = me.doomed
        /\ t \in Thread /\ r.op = me.op
    BY <1>1, <2>1, <2>3 DEF Local
  <2>. QED  BY <1>1, <2>2, <2>4, <2>5, <2>6
<1>. QED  BY <1>1, <1>2, <1>3 DEF RunsKeys

LEMMA DeleteWritesIs ==
  ASSUME TypeInv, NEW p \in Proc, DeleteWrites(p)
  PROVE  /\ l[p].pc = "del_wr" /\ l[p].t \in Thread /\ l'[p].t = l[p].t
         /\ ck' = ck /\ bl' = bl /\ lt' = lt /\ UNCHANGED <<hints, backup, hist, calls>>
         /\ \E i \in l[p].todo :
              /\ wr' = DropRows(wr, l[p].t, WritesNs(l[p].t, i))
              /\ l'[p].todo = l[p].todo \ {i}
              /\ l'[p].pc = IF l'[p].todo = {} THEN "del_bl" ELSE "del_wr"
         /\ \A q \in Proc : q # p => l'[q] = l[q]
<1>1. PICK me : me = l[p] /\ me \in Local /\ Shape(me) /\ me.pc = "del_wr" /\ me.t \in Thread
  BY AtIs DEF DeleteWrites, At, Shape
<1>2. PICK i \in me.todo :
        /\ wr' = DropRows(wr, me.t, WritesNs(me.t, i))
        /\ Step(p, [me EXCEPT !.todo = @ \ {i},
                              !.pc = IF me.todo = {i} THEN "del_bl" ELSE "del_wr"])
  BY <1>1 DEF DeleteWrites
<1>3. PICK pc : pc = IF me.todo = {i} THEN "del_bl" ELSE "del_wr"
  OBVIOUS
<1>4. PICK r : r = [me EXCEPT !.todo = @ \ {i}, !.pc = pc]
  OBVIOUS
<1>5. Step(p, r)
  BY <1>2, <1>3, <1>4
<1>6. l'[p] = r /\ \A q \in Proc : q # p => l'[q] = l[q]
  BY <1>5, Steps DEF TypeInv
<1>7. r.t = me.t /\ r.todo = me.todo \ {i} /\ r.pc = pc
  BY <1>1, <1>4 DEF Local
<1>8. me.todo = {i} <=> me.todo \ {i} = {}
  BY <1>2
<1>9. ck' = ck /\ bl' = bl /\ lt' = lt /\ UNCHANGED <<hints, backup, hist, calls>>
  BY DEF DeleteWrites
<1>. QED  BY <1>1, <1>2, <1>3, <1>6, <1>7, <1>8, <1>9

LEMMA DeleteLatestIs ==
  ASSUME TypeInv, NEW p \in Proc, DeleteLatest(p)
  PROVE  /\ l[p].pc = "del_lt" /\ l[p].t \in Thread /\ Step(p, Locals0)
         /\ lt' = (IF Indexed THEN lt ELSE [lt EXCEPT ![l[p].t] = None])
         /\ max_seen' = [max_seen EXCEPT ![SaverOf[p]][l[p].t] = None]
         /\ prune_floor' = [prune_floor EXCEPT ![SaverOf[p]][l[p].t] = 0]
         /\ ck' = ck /\ wr' = wr /\ bl' = bl /\ UNCHANGED <<backup, hist, calls>>
<1>1. l[p].pc = "del_lt" /\ l[p].t \in Thread
  BY AtIs DEF DeleteLatest, At, Shape
<1>. QED  BY <1>1 DEF DeleteLatest, Return

LEMMA CopyLatestIs ==
  ASSUME TypeInv, NEW p \in Proc, CopyLatest(p)
  PROVE  /\ l[p].pc = "copy_lt" /\ Step(p, Locals0)
         /\ IF Indexed \/ Newest(DOMAIN ck[Target(p)]) = None
            THEN lt' = lt /\ max_seen' = max_seen
            ELSE /\ lt' = [lt EXCEPT ![Target(p)] = Newest(DOMAIN ck[Target(p)])]
                 /\ max_seen' = [max_seen EXCEPT ![SaverOf[p]] =
                                   BoundedSet(@, Target(p), Newest(DOMAIN ck[Target(p)]))]
         /\ done' = [done EXCEPT ![Target(p)] = @ \cup DOMAIN ck[Target(p)]]
         /\ ck' = ck /\ wr' = wr /\ bl' = bl /\ UNCHANGED <<prune_floor, backup, arch, awr, calls>>
  BY DEF CopyLatest, Return, At, TopAfterCopy, MaxKey, Keys

-----------------------------------------------------------------------------
(* How the calls start *)

\* What a call has not read yet when it starts.
Fresh(p) ==
  /\ l[p].pc = "idle" /\ l'[p].doomed = {} /\ l'[p].recs = Empty /\ l'[p].ids = {}
  /\ l'[p].needed = {} /\ l'[p].kept = {}
  /\ \A q \in Proc : q # p => l'[q] = l[q]

LEMMA GetTupleStarts ==
  ASSUME TypeInv, NEW p \in Proc, NEW t \in Thread, NEW id \in IdOrNo, GetTuple(p, t, id)
  PROVE  /\ Fresh(p) /\ "get" \in Ops[p] /\ UNCHANGED <<store, hints, backup, hist>>
         /\ l'[p].op = "get" /\ l'[p].t = t /\ l'[p].pc = (CASE id # None -> "get_saved" [] id = None /\ Indexed -> "get_max" [] OTHER -> "get_lt")
         /\ l'[p].id = id
         /\ l'[p].bound = (IF id # None THEN None ELSE Newest(done[t] \cap DOMAIN ck[t]))
<1>1. Call(p, "get") /\ l[p].pc = "idle" /\ "get" \in Ops[p] /\ "get" \in OpNames
  BY CallIs DEF GetTuple, Call
<1>2. PICK pc \in PCs : pc = (CASE id # None -> "get_saved" [] id = None /\ Indexed -> "get_max" [] OTHER -> "get_lt")
  BY DEF PCs
<1>3. PICK s : s = Started(p, "get", t, pc)
  OBVIOUS
<1>4. s \in Local
  BY <1>1, <1>3, StartedIs
<1>5. /\ s.pc = pc /\ s.op = "get" /\ s.t = t /\ s.doomed = {} /\ s.recs = Empty
      /\ s.ids = {} /\ s.needed = {} /\ s.kept = {}
  BY <1>3, <1>4 DEF Started, Locals0
<1>6. PICK v0 : v0 = id
  OBVIOUS
<1>7. PICK v1 : v1 = (IF id # None THEN None ELSE Newest(done[t] \cap DOMAIN ck[t]))
  OBVIOUS
<1>8. PICK r : r = [s EXCEPT !.id = v0, !.bound = v1]
  OBVIOUS
<1>9. Step(p, r) /\ UNCHANGED <<store, hints, backup, hist>>
  BY <1>2, <1>3, <1>6, <1>7, <1>8, Zenon DEF GetTuple
<1>10. l'[p] = r /\ \A q \in Proc : q # p => l'[q] = l[q]
  BY <1>9, Steps DEF TypeInv
<1>11. /\ r.pc = pc /\ r.op = "get" /\ r.t = t /\ r.doomed = {} /\ r.recs = Empty
      /\ r.ids = {} /\ r.needed = {} /\ r.kept = {} /\ r.id = v0 /\ r.bound = v1
  BY <1>4, <1>5, <1>8 DEF Local
<1>. QED  BY <1>1, <1>2, <1>6, <1>7, <1>9, <1>10, <1>11 DEF Fresh

LEMMA ListStarts ==
  ASSUME TypeInv, NEW p \in Proc, NEW T, NEW want, NEW before, NEW runs, NEW limit, List(p, T, want, before, runs, limit)
  PROVE  /\ Fresh(p) /\ "list" \in Ops[p] /\ UNCHANGED <<store, hints, backup, hist>>
         /\ l'[p].op = "list" /\ l'[p].pc = "list_next" /\ l'[p].bound = None
         /\ l'[p].threads = T \cap Namespaces
         /\ l'[p].want = want
         /\ l'[p].before = before
         /\ l'[p].runs = runs
         /\ l'[p].keep = limit
<1>1. Call(p, "list") /\ l[p].pc = "idle" /\ "list" \in Ops[p] /\ "list" \in OpNames
  BY CallIs DEF List, Call
<1>2. PICK pc \in PCs : pc = "list_next"
  BY DEF PCs
<1>3. PICK s : s = Started(p, "list", None, pc)
  OBVIOUS
<1>4. s \in Local
  BY <1>1, <1>3, StartedAtNone
<1>5. /\ s.pc = pc /\ s.op = "list" /\ s.t = None /\ s.doomed = {} /\ s.recs = Empty
      /\ s.ids = {} /\ s.needed = {} /\ s.kept = {} /\ s.bound = None
  BY <1>3, <1>4 DEF Started, Locals0
<1>6. PICK v0 : v0 = T \cap Namespaces
  OBVIOUS
<1>7. PICK v1 : v1 = want
  OBVIOUS
<1>8. PICK v2 : v2 = before
  OBVIOUS
<1>9. PICK v3 : v3 = runs
  OBVIOUS
<1>10. PICK v4 : v4 = limit
  OBVIOUS
<1>11. PICK r : r = [s EXCEPT !.threads = v0, !.want = v1, !.before = v2, !.runs = v3, !.keep = v4]
  OBVIOUS
<1>12. Step(p, r) /\ UNCHANGED <<store, hints, backup, hist>>
  BY <1>2, <1>3, <1>6, <1>7, <1>8, <1>9, <1>10, <1>11, Zenon DEF List
<1>13. l'[p] = r /\ \A q \in Proc : q # p => l'[q] = l[q]
  BY <1>12, Steps DEF TypeInv
<1>14. /\ r.pc = pc /\ r.op = "list" /\ r.t = None /\ r.doomed = {} /\ r.recs = Empty
      /\ r.ids = {} /\ r.needed = {} /\ r.kept = {} /\ r.bound = None /\ r.threads = v0 /\ r.want = v1 /\ r.before = v2 /\ r.runs = v3 /\ r.keep = v4
  BY <1>4, <1>5, <1>11 DEF Local
<1>. QED  BY <1>1, <1>2, <1>6, <1>7, <1>8, <1>9, <1>10, <1>12, <1>13, <1>14 DEF Fresh

LEMMA PruneStarts ==
  ASSUME TypeInv, NEW p \in Proc, NEW t \in Thread, Prune(p, t)
  PROVE  /\ Fresh(p) /\ "prune" \in Ops[p] /\ UNCHANGED <<store, hints, backup, hist>>
         /\ l'[p].op = "prune" /\ l'[p].t = t /\ l'[p].pc = "trim_ids"
         /\ l'[p].keep = 1
<1>1. Call(p, "prune") /\ l[p].pc = "idle" /\ "prune" \in Ops[p] /\ "prune" \in OpNames
  BY CallIs DEF Prune, Call
<1>2. PICK pc \in PCs : pc = "trim_ids"
  BY DEF PCs
<1>3. PICK s : s = Started(p, "prune", t, pc)
  OBVIOUS
<1>4. s \in Local
  BY <1>1, <1>3, StartedIs
<1>5. /\ s.pc = pc /\ s.op = "prune" /\ s.t = t /\ s.doomed = {} /\ s.recs = Empty
      /\ s.ids = {} /\ s.needed = {} /\ s.kept = {}
  BY <1>3, <1>4 DEF Started, Locals0
<1>6. PICK v0 : v0 = 1
  OBVIOUS
<1>7. PICK r : r = [s EXCEPT !.keep = v0]
  OBVIOUS
<1>8. Step(p, r) /\ UNCHANGED <<store, hints, backup, hist>>
  BY <1>2, <1>3, <1>6, <1>7, Zenon DEF Prune
<1>9. l'[p] = r /\ \A q \in Proc : q # p => l'[q] = l[q]
  BY <1>8, Steps DEF TypeInv
<1>10. /\ r.pc = pc /\ r.op = "prune" /\ r.t = t /\ r.doomed = {} /\ r.recs = Empty
      /\ r.ids = {} /\ r.needed = {} /\ r.kept = {} /\ r.keep = v0
  BY <1>4, <1>5, <1>7 DEF Local
<1>. QED  BY <1>1, <1>2, <1>6, <1>8, <1>9, <1>10 DEF Fresh

LEMMA DeleteForRunsStarts ==
  ASSUME TypeInv, NEW p \in Proc, NEW runs, DeleteForRuns(p, runs)
  PROVE  /\ Fresh(p) /\ "delete_for_runs" \in Ops[p] /\ UNCHANGED <<store, hints, backup, hist>>
         /\ l'[p].op = "delete_for_runs" /\ l'[p].pc = "runs_next"
         /\ l'[p].runs = runs
         /\ l'[p].threads = Namespaces
<1>1. Call(p, "delete_for_runs") /\ l[p].pc = "idle" /\ "delete_for_runs" \in Ops[p] /\ "delete_for_runs" \in OpNames
  BY CallIs DEF DeleteForRuns, Call
<1>2. PICK pc \in PCs : pc = "runs_next"
  BY DEF PCs
<1>3. PICK s : s = Started(p, "delete_for_runs", None, pc)
  OBVIOUS
<1>4. s \in Local
  BY <1>1, <1>3, StartedAtNone
<1>5. /\ s.pc = pc /\ s.op = "delete_for_runs" /\ s.t = None /\ s.doomed = {} /\ s.recs = Empty
      /\ s.ids = {} /\ s.needed = {} /\ s.kept = {}
  BY <1>3, <1>4 DEF Started, Locals0
<1>6. PICK v0 : v0 = runs
  OBVIOUS
<1>7. PICK v1 : v1 = Namespaces
  OBVIOUS
<1>8. PICK r : r = [s EXCEPT !.runs = v0, !.threads = v1]
  OBVIOUS
<1>9. Step(p, r) /\ UNCHANGED <<store, hints, backup, hist>>
  BY <1>2, <1>3, <1>6, <1>7, <1>8, Zenon DEF DeleteForRuns
<1>10. l'[p] = r /\ \A q \in Proc : q # p => l'[q] = l[q]
  BY <1>9, Steps DEF TypeInv
<1>11. /\ r.pc = pc /\ r.op = "delete_for_runs" /\ r.t = None /\ r.doomed = {} /\ r.recs = Empty
      /\ r.ids = {} /\ r.needed = {} /\ r.kept = {} /\ r.runs = v0 /\ r.threads = v1
  BY <1>4, <1>5, <1>8 DEF Local
<1>. QED  BY <1>1, <1>2, <1>6, <1>7, <1>9, <1>10, <1>11 DEF Fresh

LEMMA DeleteThreadStarts ==
  ASSUME TypeInv, NEW p \in Proc, NEW t \in Thread, DeleteThread(p, t)
  PROVE  /\ Fresh(p) /\ "delete_thread" \in Ops[p] /\ UNCHANGED <<store, hints, backup, hist>>
         /\ l'[p].op = "delete_thread" /\ l'[p].t = t /\ l'[p].pc = "del_ck"
<1>1. Call(p, "delete_thread") /\ l[p].pc = "idle" /\ "delete_thread" \in Ops[p] /\ "delete_thread" \in OpNames
  BY CallIs DEF DeleteThread, Call
<1>2. PICK pc \in PCs : pc = "del_ck"
  BY DEF PCs
<1>3. PICK s : s = Started(p, "delete_thread", t, pc)
  OBVIOUS
<1>4. s \in Local
  BY <1>1, <1>3, StartedIs
<1>5. /\ s.pc = pc /\ s.op = "delete_thread" /\ s.t = t /\ s.doomed = {} /\ s.recs = Empty
      /\ s.ids = {} /\ s.needed = {} /\ s.kept = {}
  BY <1>3, <1>4 DEF Started, Locals0
<1>6. PICK r : r = s
  OBVIOUS
<1>7. Step(p, r) /\ UNCHANGED <<store, hints, backup, hist>>
  BY <1>2, <1>3, <1>6, Zenon DEF DeleteThread
<1>8. l'[p] = r /\ \A q \in Proc : q # p => l'[q] = l[q]
  BY <1>7, Steps DEF TypeInv
<1>9. /\ r.pc = pc /\ r.op = "delete_thread" /\ r.t = t /\ r.doomed = {} /\ r.recs = Empty
      /\ r.ids = {} /\ r.needed = {} /\ r.kept = {}
  BY <1>4, <1>5, <1>6 DEF Local
<1>. QED  BY <1>1, <1>2, <1>7, <1>8, <1>9 DEF Fresh

LEMMA CopyThreadStarts ==
  ASSUME TypeInv, NEW p \in Proc, NEW t \in Thread, NEW u \in Thread, CopyThread(p, t, u)
  PROVE  /\ Fresh(p) /\ "copy_thread" \in Ops[p] /\ UNCHANGED <<store, hints, backup, hist>> /\ t # u
         /\ l'[p].op = "copy_thread" /\ l'[p].t = t /\ l'[p].pc = "copy_ck"
         /\ l'[p].threads = {u}
<1>1. Call(p, "copy_thread") /\ l[p].pc = "idle" /\ "copy_thread" \in Ops[p] /\ "copy_thread" \in OpNames
  BY CallIs DEF CopyThread, Call
<1>2. PICK pc \in PCs : pc = "copy_ck"
  BY DEF PCs
<1>3. PICK s : s = Started(p, "copy_thread", t, pc)
  OBVIOUS
<1>4. s \in Local
  BY <1>1, <1>3, StartedIs
<1>5. /\ s.pc = pc /\ s.op = "copy_thread" /\ s.t = t /\ s.doomed = {} /\ s.recs = Empty
      /\ s.ids = {} /\ s.needed = {} /\ s.kept = {}
  BY <1>3, <1>4 DEF Started, Locals0
<1>6. PICK v0 : v0 = {u}
  OBVIOUS
<1>7. PICK r : r = [s EXCEPT !.threads = v0]
  OBVIOUS
<1>8. Step(p, r) /\ UNCHANGED <<store, hints, backup, hist>> /\ t # u
  BY <1>2, <1>3, <1>6, <1>7, Zenon DEF CopyThread
<1>9. l'[p] = r /\ \A q \in Proc : q # p => l'[q] = l[q]
  BY <1>8, Steps DEF TypeInv
<1>10. /\ r.pc = pc /\ r.op = "copy_thread" /\ r.t = t /\ r.doomed = {} /\ r.recs = Empty
      /\ r.ids = {} /\ r.needed = {} /\ r.kept = {} /\ r.threads = v0
  BY <1>4, <1>5, <1>7 DEF Local
<1>. QED  BY <1>1, <1>2, <1>6, <1>8, <1>9, <1>10 DEF Fresh

LEMMA PutWritesStarts ==
  ASSUME TypeInv, NEW p \in Proc, NEW t \in Thread, NEW id \in Id, NEW batch, PutWrites(p, t, id, batch)
  PROVE  /\ Fresh(p) /\ "put_writes" \in Ops[p] /\ UNCHANGED <<store, hints, backup, arch, done>> /\ awr' = [awr EXCEPT ![t] = Over(Only(batch, {id} \X Special), Over(@, batch))]
         /\ l'[p].op = "put_writes" /\ l'[p].t = t /\ l'[p].pc = "write_check"
         /\ l'[p].id = id
         /\ l'[p].batch = batch
         /\ l'[p].todo = DOMAIN batch
<1>1. Call(p, "put_writes") /\ l[p].pc = "idle" /\ "put_writes" \in Ops[p] /\ "put_writes" \in OpNames
  BY CallIs DEF PutWrites, Call
<1>2. PICK pc \in PCs : pc = "write_check"
  BY DEF PCs
<1>3. PICK s : s = Started(p, "put_writes", t, pc)
  OBVIOUS
<1>4. s \in Local
  BY <1>1, <1>3, StartedIs
<1>5. /\ s.pc = pc /\ s.op = "put_writes" /\ s.t = t /\ s.doomed = {} /\ s.recs = Empty
      /\ s.ids = {} /\ s.needed = {} /\ s.kept = {}
  BY <1>3, <1>4 DEF Started, Locals0
<1>6. PICK v0 : v0 = id
  OBVIOUS
<1>7. PICK v1 : v1 = batch
  OBVIOUS
<1>8. PICK v2 : v2 = DOMAIN batch
  OBVIOUS
<1>9. PICK r : r = [s EXCEPT !.id = v0, !.batch = v1, !.todo = v2]
  OBVIOUS
<1>10. Step(p, r) /\ UNCHANGED <<store, hints, backup, arch, done>> /\ awr' = [awr EXCEPT ![t] = Over(Only(batch, {id} \X Special), Over(@, batch))]
  BY <1>2, <1>3, <1>6, <1>7, <1>8, <1>9, Zenon DEF PutWrites
<1>11. l'[p] = r /\ \A q \in Proc : q # p => l'[q] = l[q]
  BY <1>10, Steps DEF TypeInv
<1>12. /\ r.pc = pc /\ r.op = "put_writes" /\ r.t = t /\ r.doomed = {} /\ r.recs = Empty
      /\ r.ids = {} /\ r.needed = {} /\ r.kept = {} /\ r.id = v0 /\ r.batch = v1 /\ r.todo = v2
  BY <1>4, <1>5, <1>9 DEF Local
<1>. QED  BY <1>1, <1>2, <1>6, <1>7, <1>8, <1>10, <1>11, <1>12 DEF Fresh

LEMMA PutStarts ==
  ASSUME TypeInv, NEW p \in Proc, NEW t \in Thread, NEW id, NEW parent, NEW upd, NEW snapped, NEW run, Put(p, t, id, parent, upd, snapped, run)
  PROVE  /\ Fresh(p) /\ "put" \in Ops[p] /\ UNCHANGED <<store, hints, backup, awr, done>> /\ arch' = SetRows(arch, t, Row(id, Continuation(t, id, parent, upd, snapped, run)))
         /\ l'[p].op = "put" /\ l'[p].batch = Empty /\ l'[p].t = t /\ l'[p].pc = (IF Publishes(SaverOf[p], t, id) THEN "put_hint" ELSE AfterHint)
         /\ l'[p].id = id
         /\ l'[p].rec = Continuation(t, id, parent, upd, snapped, run)
         /\ l'[p].publish = Publishes(SaverOf[p], t, id)
         /\ l'[p].todo = {<<c, Continuation(t, id, parent, upd, snapped, run).vers[c]>> : c \in upd}
<1>1. Call(p, "put") /\ l[p].pc = "idle" /\ "put" \in Ops[p] /\ "put" \in OpNames
  BY CallIs DEF Put, Call
<1>2. PICK pc \in PCs : pc = (IF Publishes(SaverOf[p], t, id) THEN "put_hint" ELSE AfterHint)
  BY DEF PCs, AfterHint
<1>3. PICK s : s = Started(p, "put", t, pc)
  OBVIOUS
<1>4. s \in Local
  BY <1>1, <1>3, StartedIs
<1>5. /\ s.pc = pc /\ s.op = "put" /\ s.t = t /\ s.doomed = {} /\ s.recs = Empty
      /\ s.ids = {} /\ s.needed = {} /\ s.kept = {} /\ s.batch = Empty
  BY <1>3, <1>4 DEF Started, Locals0
<1>6. PICK v0 : v0 = id
  OBVIOUS
<1>7. PICK v1 : v1 = Continuation(t, id, parent, upd, snapped, run)
  OBVIOUS
<1>8. PICK v2 : v2 = Publishes(SaverOf[p], t, id)
  OBVIOUS
<1>9. PICK v3 : v3 = {<<c, Continuation(t, id, parent, upd, snapped, run).vers[c]>> : c \in upd}
  OBVIOUS
<1>10. PICK r : r = [s EXCEPT !.id = v0, !.rec = v1, !.publish = v2, !.todo = v3]
  OBVIOUS
<1>11. Step(p, r) /\ UNCHANGED <<store, hints, backup, awr, done>> /\ arch' = SetRows(arch, t, Row(id, Continuation(t, id, parent, upd, snapped, run)))
  BY <1>2, <1>3, <1>6, <1>7, <1>8, <1>9, <1>10, Zenon DEF Put
<1>12. l'[p] = r /\ \A q \in Proc : q # p => l'[q] = l[q]
  BY <1>11, Steps DEF TypeInv
<1>13. /\ r.pc = pc /\ r.op = "put" /\ r.t = t /\ r.doomed = {} /\ r.recs = Empty
      /\ r.ids = {} /\ r.needed = {} /\ r.kept = {} /\ r.batch = Empty /\ r.id = v0 /\ r.rec = v1 /\ r.publish = v2 /\ r.todo = v3
  BY <1>4, <1>5, <1>10 DEF Local
<1>. QED  BY <1>1, <1>2, <1>6, <1>7, <1>8, <1>9, <1>11, <1>12, <1>13 DEF Fresh

-----------------------------------------------------------------------------
(* The kinds of steps *)

PutBegins(p) ==
  \E t \in Thread : \E parent \in Parents(t), run \in Run :
    \E id \in FreshIds(parent), upd \in Updates(parent) :
      \E snapped \in SUBSET (upd \cap Delta) : Put(p, t, id, parent, upd, snapped, run)

WritesBegin(p) ==
  \E t \in Thread : \E id \in DOMAIN ck[t], K \in SUBSET WKey \ {{}} :
    \E b \in [{id} \X K -> WVal] : PutWrites(p, t, id, b)

\* A call that starts with reading.
Begins(p) ==
  \/ \E t \in Thread : \/ \E id \in {None} \cup DOMAIN ck[t] : GetTuple(p, t, id)
                       \/ Prune(p, t) \/ DeleteThread(p, t)
                       \/ \E u \in Thread : CopyThread(p, t, u)
  \/ \E T \in SUBSET Thread, want, before \in IdOrNo, runs \in SUBSET Run, limit \in {0, 1} :
       List(p, T, want, before, runs, limit)
  \/ \E runs \in SUBSET Run : DeleteForRuns(p, runs)

\* A step of a trim, of delete_for_runs or of delete_thread that only reads.
Surveys(p) ==
  \/ PruneKeys(p) \/ TrimIds(p) \/ TrimRead(p) \/ TrimNext(p) \/ WalkRow(p) \/ WalkVals(p)
  \/ TrimEnd(p) \/ DropRefs(p) \/ DropBlobKeys(p) \/ DropLatest(p) \/ RunsKeys(p) \/ RunsRead(p)
  \/ DeleteListWrites(p)

LEMMA NextIs ==
  ASSUME TypeInv, Next
  PROVE  \E p \in Proc :
           \/ PutBegins(p) \/ WritesBegin(p) \/ Begins(p)
           \/ SnapshotStore(p) \/ RestoreStore(p)
           \/ PutHint(p) \/ PutBlobContains(p) \/ PutBlobs(p) \/ PutRows(p) \/ PutRest(p)
           \/ CheckWrites(p) \/ FlushWrites(p) \/ Reading(p) \/ GetPublish(p) \/ Surveys(p)
           \/ DropBlobs(p) \/ DropWrites(p) \/ DropCheckpoints(p) \/ DropFix(p) \/ Dropped(p)
           \/ DeleteCk(p) \/ DeleteWrites(p) \/ DeleteBlobs(p) \/ DeleteLatest(p)
           \/ CopyCk(p) \/ CopyWr(p) \/ CopyBl(p) \/ CopyLatest(p)
<1>1. PICK p \in Proc : Invoke(p) \/ Administer(p) \/ Continue(p)
  BY DEF Next
<1>2. None \in IdOrNo /\ \A t \in Thread : DOMAIN ck[t] \subseteq IdOrNo
  BY ReadIs, IdIs
<1>3. CASE Invoke(p)
  <2>1. PICK t \in Thread :
          \/ \E parent \in Parents(t), run \in Run :
               \E id \in FreshIds(parent), upd \in Updates(parent) :
                 \E snapped \in SUBSET (upd \cap Delta) :
                   Put(p, t, id, parent, upd, snapped, run)
          \/ \E id \in DOMAIN ck[t], K \in SUBSET WKey \ {{}} :
               \E b \in [{id} \X K -> WVal] : PutWrites(p, t, id, b)
          \/ \E id \in {None} \cup DOMAIN ck[t] : GetTuple(p, t, id)
          \/ \E id \in DOMAIN ck[t] : List(p, {t}, id, None, {}, 0)
          \/ \E before \in {None} \cup DOMAIN ck[t], limit \in {0, 1} :
               List(p, {t}, None, before, {}, limit)
          \/ Prune(p, t) \/ DeleteThread(p, t)
          \/ \E u \in Thread : CopyThread(p, t, u)
    BY <1>3 DEF Invoke
  <2>2. ASSUME NEW id \in IdOrNo, NEW before \in IdOrNo, NEW limit \in {0, 1},
               List(p, {t}, id, before, {}, limit)
        PROVE  Begins(p)
    <3>1. {t} \in SUBSET Thread /\ {} \in SUBSET Run
      OBVIOUS
    <3>. QED  BY <2>2, <3>1 DEF Begins
  <2>3. CASE \E id \in DOMAIN ck[t] : List(p, {t}, id, None, {}, 0)
    BY <1>2, <2>2, <2>3
  <2>4. CASE \E before \in {None} \cup DOMAIN ck[t], limit \in {0, 1} :
               List(p, {t}, None, before, {}, limit)
    BY <1>2, <2>2, <2>4
  <2>5. CASE \/ \E id \in {None} \cup DOMAIN ck[t] : GetTuple(p, t, id)
             \/ Prune(p, t) \/ DeleteThread(p, t) \/ \E u \in Thread : CopyThread(p, t, u)
    <3>1. Begins(p)
      BY <2>5 DEF Begins
    <3>. QED  BY <3>1
  <2>6. CASE \E parent \in Parents(t), run \in Run :
               \E id \in FreshIds(parent), upd \in Updates(parent) :
                 \E snapped \in SUBSET (upd \cap Delta) :
                   Put(p, t, id, parent, upd, snapped, run)
    <3>1. PutBegins(p)
      BY <2>6 DEF PutBegins
    <3>. QED  BY <3>1
  <2>7. CASE \E id \in DOMAIN ck[t], K \in SUBSET WKey \ {{}} :
               \E b \in [{id} \X K -> WVal] : PutWrites(p, t, id, b)
    <3>1. WritesBegin(p)
      BY <2>7 DEF WritesBegin
    <3>. QED  BY <3>1
  <2>. QED  BY <2>1, <2>3, <2>4, <2>5, <2>6, <2>7
<1>4. CASE Administer(p)
  <2>1. ASSUME NEW runs \in SUBSET Run, NEW limit \in {0, 1}, List(p, Thread, None, None, runs, limit)
        PROVE  Begins(p)
    <3>1. Thread \in SUBSET Thread
      OBVIOUS
    <3>. QED  BY <1>2, <2>1, <3>1 DEF Begins
  <2>2. ASSUME NEW runs \in SUBSET Run, DeleteForRuns(p, runs)
        PROVE  Begins(p)
    BY <2>2 DEF Begins
  <2>. QED  BY <1>4, <2>1, <2>2 DEF Administer
<1>5. CASE Continue(p)
  BY <1>5 DEF Continue, Reading, Surveys
<1>. QED  BY <1>1, <1>3, <1>4, <1>5

LEMMA WritesBeginIs ==
  ASSUME TypeInv, NEW p \in Proc, WritesBegin(p)
  PROVE  /\ Fresh(p) /\ "put_writes" \in Ops[p] /\ UNCHANGED <<store, hints, backup, arch, done>>
         /\ l'[p].pc = "write_check" /\ l'[p].t \in Thread /\ l'[p].id \in DOMAIN ck[l'[p].t]
         /\ l'[p].todo = DOMAIN l'[p].batch /\ \A x \in DOMAIN l'[p].batch : x[1] = l'[p].id
         /\ l'[p].batch \in Part(Id \X WKey, WVal)
         /\ awr' = [awr EXCEPT ![l'[p].t] =
                      Over(Only(l'[p].batch, {l'[p].id} \X Special), Over(@, l'[p].batch))]
<1>1. PICK t \in Thread : \E id \in DOMAIN ck[t], K \in SUBSET WKey \ {{}} :
                            \E b \in [{id} \X K -> WVal] : PutWrites(p, t, id, b)
  BY DEF WritesBegin
<1>2. PICK id \in DOMAIN ck[t], K \in SUBSET WKey \ {{}} :
        \E b \in [{id} \X K -> WVal] : PutWrites(p, t, id, b)
  BY <1>1
<1>3. PICK b \in [{id} \X K -> WVal] : PutWrites(p, t, id, b)
  BY <1>2
<1>4. id \in Id
  BY ReadIs
<1>5. DOMAIN b = {id} \X K /\ {id} \X K \in SUBSET (Id \X WKey)
  BY <1>4
<1>6. b \in Part(Id \X WKey, WVal)
  BY <1>5, MakePart
<1>7. \A x \in DOMAIN b : x[1] = id
  BY <1>5
<1>8. /\ Fresh(p) /\ "put_writes" \in Ops[p] /\ UNCHANGED <<store, hints, backup, arch, done>>
      /\ awr' = [awr EXCEPT ![t] = Over(Only(b, {id} \X Special), Over(@, b))]
      /\ l'[p].t = t /\ l'[p].pc = "write_check" /\ l'[p].id = id /\ l'[p].batch = b
      /\ l'[p].todo = DOMAIN b
  BY <1>3, <1>4, PutWritesStarts
<1>. QED  BY <1>6, <1>7, <1>8

\* A call starts: nothing is stored yet.
LEMMA BeginsIs ==
  ASSUME TypeInv, NEW p \in Proc, Begins(p)
  PROVE  /\ Fresh(p) /\ UNCHANGED <<store, hints, backup, hist>>
         /\ \/ \E t \in Thread : \E id \in {None} \cup DOMAIN ck[t] : GetTuple(p, t, id)
            \/ l'[p].pc = "list_next" /\ l'[p].op = "list" /\ l'[p].bound = None
            \/ /\ l'[p].pc = "trim_ids" /\ l'[p].op = "prune" /\ l'[p].keep = 1
               /\ l'[p].t \in Thread
            \/ l'[p].pc = "del_ck" /\ l'[p].t \in Thread
            \/ \E t, u \in Thread : /\ t # u /\ l'[p].pc = "copy_ck" /\ l'[p].t = t
                                    /\ l'[p].threads = {u} /\ "copy_thread" \in Ops[p]
            \/ /\ l'[p].pc = "runs_next" /\ l'[p].op = "delete_for_runs"
               /\ "delete_for_runs" \in Ops[p]
<1>1. ASSUME NEW t \in Thread, NEW id \in {None} \cup DOMAIN ck[t], GetTuple(p, t, id)
      PROVE  Fresh(p) /\ UNCHANGED <<store, hints, backup, hist>>
  <2>1. id \in IdOrNo
    BY ReadIs, IdIs
  <2>. QED  BY <1>1, <2>1, GetTupleStarts
<1>2. ASSUME NEW T, NEW want, NEW before, NEW runs, NEW limit, List(p, T, want, before, runs, limit)
      PROVE  /\ Fresh(p) /\ UNCHANGED <<store, hints, backup, hist>>
             /\ l'[p].pc = "list_next" /\ l'[p].op = "list" /\ l'[p].bound = None
  BY <1>2, ListStarts
<1>3. ASSUME NEW t \in Thread, Prune(p, t)
      PROVE  /\ Fresh(p) /\ UNCHANGED <<store, hints, backup, hist>>
             /\ l'[p].pc = "trim_ids" /\ l'[p].op = "prune" /\ l'[p].keep = 1
             /\ l'[p].t \in Thread
  BY <1>3, PruneStarts
<1>4. ASSUME NEW t \in Thread, DeleteThread(p, t)
      PROVE  /\ Fresh(p) /\ UNCHANGED <<store, hints, backup, hist>>
             /\ l'[p].pc = "del_ck" /\ l'[p].t \in Thread
  BY <1>4, DeleteThreadStarts
<1>5. ASSUME NEW t \in Thread, NEW u \in Thread, CopyThread(p, t, u)
      PROVE  /\ Fresh(p) /\ UNCHANGED <<store, hints, backup, hist>>
             /\ t # u /\ l'[p].pc = "copy_ck" /\ l'[p].t = t
             /\ l'[p].threads = {u} /\ "copy_thread" \in Ops[p]
  BY <1>5, CopyThreadStarts
<1>6. ASSUME NEW runs, DeleteForRuns(p, runs)
      PROVE  /\ Fresh(p) /\ UNCHANGED <<store, hints, backup, hist>>
             /\ l'[p].pc = "runs_next" /\ l'[p].op = "delete_for_runs"
             /\ "delete_for_runs" \in Ops[p]
  BY <1>6, DeleteForRunsStarts
<1>. QED  BY <1>1, <1>2, <1>3, <1>4, <1>5, <1>6 DEF Begins

DropPCs == {"drop_refs", "drop_blob_keys", "drop_blobs", "drop_writes", "drop_rows",
            "drop_latest", "drop_fix", "dropped"}
TrimPCs == {"prune_keys", "trim_ids", "trim_read", "trim_next", "walk_row", "walk_vals"}
RunPCs  == {"runs_next", "runs_read"}
DelPCs  == {"del_ck", "del_wr_list", "del_wr", "del_bl", "del_lt"}

LEMMA SurveysIs ==
  ASSUME TypeInv, NEW p \in Proc, Surveys(p)
  PROVE  /\ Only_l /\ l[p].pc \in TrimPCs \cup DropPCs \cup RunPCs \cup DelPCs
         /\ l'[p].pc \in TrimPCs \cup DropPCs \cup RunPCs \cup DelPCs \cup {"idle"}
         /\ \A q \in Proc : q # p => l'[q] = l[q]
<1>1. DropStart \in DropPCs
  BY DEF DropStart, DropPCs
<1>2. CASE PruneKeys(p) \/ TrimIds(p)
  BY <1>2, PruneKeysIs, PruneKeysStops, TrimIdsIs, TrimIdsStops, ReturnIs DEF TrimPCs
<1>3. CASE TrimRead(p) \/ TrimNext(p)
  BY <1>3, TrimReadIs, TrimNextIs DEF TrimPCs
<1>4. CASE WalkRow(p)
  BY <1>4, WalkRowIs, WalkRowStops DEF TrimPCs
<1>5. CASE WalkVals(p)
  BY <1>5, WalkValsIs, WalkValsStops DEF TrimPCs
<1>6. CASE TrimEnd(p)
  BY <1>1, <1>6, TrimEndIs DEF TrimPCs, DropPCs
<1>7. CASE DropRefs(p) \/ DropBlobKeys(p) \/ DropLatest(p)
  BY <1>7, DropRefsIs, DropBlobKeysIs, DropLatestIs DEF DropPCs
<1>8. CASE RunsKeys(p)
  BY <1>8, RunsKeysIs DEF RunPCs
<1>9. CASE RunsRead(p)
  BY <1>1, <1>9, RunsReadIs, RunsReadNone DEF RunPCs
<1>10. CASE DeleteListWrites(p)
  BY <1>10, DeleteListWritesIs DEF DelPCs
<1>. QED  BY <1>2, <1>3, <1>4, <1>5, <1>6, <1>7, <1>8, <1>9, <1>10 DEF Surveys

-----------------------------------------------------------------------------
(* A checkpoint is the same wherever it is: an id is used for one put *)

Same ==
  /\ \A t, u \in Thread : \A i \in DOMAIN arch[t] : i \in DOMAIN arch[u] => arch[t][i] = arch[u][i]
  /\ \A t \in Thread : \A i \in DOMAIN ck[t] : ck[t][i] = Stored(arch[t][i])
  /\ backup # <<>> => \A t \in Thread : \A i \in DOMAIN backup[1][t] : backup[1][t][i] = Stored(arch[t][i])
  /\ \A p \in Proc : l[p].pc \in PutPCs => l[p].rec = arch[l[p].t][l[p].id]

\* A step after which every stored checkpoint was stored before.
Shrinks ==
  \A t \in Thread : /\ DOMAIN ck'[t] \subseteq DOMAIN ck[t]
                    /\ \A i \in DOMAIN ck'[t] : ck'[t][i] = ck[t][i]

\* A step that puts nothing.
Calm(p) ==
  /\ Shrinks /\ arch' = arch /\ backup' = backup
  /\ l'[p].pc \in PutPCs => l[p].pc \in PutPCs /\ SamePut(p)
  /\ \A q \in Proc : q # p => l'[q] = l[q]

LEMMA StillShrinks ==
  ASSUME ck' = ck
  PROVE  Shrinks
  BY DEF Shrinks

LEMMA OnlyIs ==
  ASSUME Only_l
  PROVE  /\ ck' = ck /\ wr' = wr /\ bl' = bl /\ lt' = lt /\ max_seen' = max_seen
         /\ prune_floor' = prune_floor /\ backup' = backup /\ arch' = arch /\ awr' = awr
         /\ done' = done /\ calls' = calls
  BY DEF Only_l, store, hints, hist

\* All but five steps put nothing.
Puts(p) == \/ PutBegins(p) \/ PutRows(p) \/ PutRest(p) \/ CopyCk(p)
           \/ SnapshotStore(p) \/ RestoreStore(p)

LEMMA CalmIs ==
  ASSUME TypeInv, NEW p \in Proc,
         \/ WritesBegin(p) \/ Begins(p)
         \/ PutHint(p) \/ PutBlobContains(p) \/ PutBlobs(p)
         \/ CheckWrites(p) \/ FlushWrites(p) \/ Reading(p) \/ GetPublish(p) \/ Surveys(p)
         \/ DropBlobs(p) \/ DropWrites(p) \/ DropCheckpoints(p) \/ DropFix(p) \/ Dropped(p)
         \/ DeleteCk(p) \/ DeleteWrites(p) \/ DeleteBlobs(p) \/ DeleteLatest(p)
         \/ CopyWr(p) \/ CopyBl(p) \/ CopyLatest(p)
  PROVE  Calm(p)
<1>1. CASE WritesBegin(p)
  <2>2. /\ Fresh(p) /\ l'[p].pc = "write_check" /\ ck' = ck /\ arch' = arch /\ backup' = backup
    BY <1>1, WritesBeginIs DEF store
  <2>. QED  BY <2>2, StillShrinks DEF Calm, PutPCs, Fresh
<1>2. CASE Begins(p)
  <2>1. Fresh(p) /\ ck' = ck /\ arch' = arch /\ backup' = backup
    BY <1>2, BeginsIs DEF store, hist
  <2>2. l'[p].pc \notin PutPCs
    <3>1. ASSUME NEW t \in Thread, NEW id \in {None} \cup DOMAIN ck[t], GetTuple(p, t, id)
          PROVE  l'[p].pc \notin PutPCs
      <4>1. id \in IdOrNo
        BY ReadIs, IdIs
      <4>. QED  BY <3>1, <4>1, GetTupleStarts DEF PutPCs
    <3>. QED  BY <1>2, <3>1, BeginsIs DEF PutPCs
  <2>. QED  BY <2>1, <2>2, StillShrinks DEF Calm, Fresh
<1>3. CASE Reading(p) \/ Surveys(p)
  <2>1. Only_l /\ l'[p].pc \notin PutPCs /\ \A q \in Proc : q # p => l'[q] = l[q]
    BY <1>3, ReadingIs, SurveysIs DEF PutPCs, ReadPCs, TrimPCs, DropPCs, RunPCs, DelPCs
  <2>. QED  BY <2>1, OnlyIs, StillShrinks DEF Calm
<1>4. CASE PutHint(p)
  <2>1. SamePut(p) /\ l[p].pc \in PutPCs /\ ck' = ck /\ arch' = arch /\ backup' = backup
    BY <1>4, PutHintIs DEF SamePut, PutPCs, store, hist
  <2>. QED  BY <1>4, <2>1, PutHintIs, StillShrinks DEF Calm
<1>5. CASE PutBlobContains(p)
  <2>1. l[p].pc \in PutPCs
    BY <1>5, PutBlobContainsIs DEF PutPCs
  <2>. QED  BY <1>5, <2>1, PutBlobContainsIs, OnlyIs, StillShrinks DEF Calm
<1>6. CASE PutBlobs(p)
  <2>1. SamePut(p) /\ l[p].pc \in PutPCs /\ ck' = ck /\ arch' = arch /\ backup' = backup
    BY <1>6, PutBlobsIs DEF SamePut, PutPCs, hist
  <2>. QED  BY <1>6, <2>1, PutBlobsIs, StillShrinks DEF Calm
<1>7. CASE CheckWrites(p)
  <2>1. Only_l /\ l'[p].pc \notin PutPCs /\ \A q \in Proc : q # p => l'[q] = l[q]
    BY <1>7, CheckWritesIs DEF PutPCs
  <2>. QED  BY <2>1, OnlyIs, StillShrinks DEF Calm
<1>8. CASE FlushWrites(p) \/ DeleteLatest(p) \/ CopyLatest(p)
  <2>1. Step(p, Locals0) /\ ck' = ck /\ arch' = arch /\ backup' = backup
    BY <1>8, FlushWritesIs, DeleteLatestIs, CopyLatestIs DEF hist
  <2>. QED  BY <2>1, ReturnIs, StillShrinks DEF Calm, PutPCs
<1>9. CASE GetPublish(p) \/ DropBlobs(p) \/ DropWrites(p) \/ DropFix(p)
  <2>1. /\ ck' = ck /\ arch' = arch /\ backup' = backup /\ l'[p].pc \notin PutPCs
        /\ \A q \in Proc : q # p => l'[q] = l[q]
    BY <1>9, GetPublishIs, DropBlobsIs, DropWritesIs, DropFixIs DEF PutPCs, hist
  <2>. QED  BY <2>1, StillShrinks DEF Calm
<1>10. CASE Dropped(p)
  <2>1. /\ ck' = ck /\ arch' = arch /\ backup' = backup /\ l'[p].pc \notin PutPCs
        /\ \A q \in Proc : q # p => l'[q] = l[q]
    BY <1>10, DroppedIs DEF PutPCs, store, hist
  <2>. QED  BY <2>1, StillShrinks DEF Calm
<1>11. CASE DeleteWrites(p) \/ DeleteBlobs(p) \/ CopyWr(p) \/ CopyBl(p)
  <2>1. /\ ck' = ck /\ arch' = arch /\ backup' = backup /\ l'[p].pc \notin PutPCs
        /\ \A q \in Proc : q # p => l'[q] = l[q]
    BY <1>11, DeleteWritesIs, DeleteBlobsIs, CopyWrIs, CopyBlIs DEF PutPCs, hist
  <2>. QED  BY <2>1, StillShrinks DEF Calm
<1>12. CASE DropCheckpoints(p)
  <2>1. /\ ck' = DropRows(ck, l[p].t, l[p].doomed) /\ l[p].t \in Thread /\ arch' = arch
        /\ backup' = backup /\ l'[p].pc \notin PutPCs /\ \A q \in Proc : q # p => l'[q] = l[q]
    BY <1>12, DropCheckpointsIs DEF PutPCs, hist
  <2>2. ck \in [Thread -> Part(Id, Record)]
    BY DEF TypeInv, Stores, CkT
  <2>3. Shrinks
    BY <2>1, <2>2 DEF Shrinks, DropRows, Drop
  <2>. QED  BY <2>1, <2>3 DEF Calm
<1>13. CASE DeleteCk(p)
  <2>1. /\ ck' = [ck EXCEPT ![l[p].t] = Empty] /\ l[p].t \in Thread /\ arch' = arch
        /\ backup' = backup /\ l'[p].pc \notin PutPCs /\ \A q \in Proc : q # p => l'[q] = l[q]
    BY <1>13, DeleteCkIs DEF PutPCs, hist
  <2>2. ck \in [Thread -> Part(Id, Record)] /\ DOMAIN Empty = {}
    BY EmptyPart DEF TypeInv, Stores, CkT
  <2>3. Shrinks
    BY <2>1, <2>2 DEF Shrinks
  <2>. QED  BY <2>1, <2>3 DEF Calm
<1>. QED  BY <1>1, <1>2, <1>3, <1>4, <1>5, <1>6, <1>7, <1>8, <1>9, <1>10, <1>11, <1>12, <1>13

LEMMA NextCalm ==
  ASSUME TypeInv, Next
  PROVE  \E p \in Proc : Puts(p) \/ Calm(p)
  BY NextIs, CalmIs, Zenon DEF Puts

\* A put begins: a fresh id, and a record that continues a stored checkpoint.
LEMMA PutBeginsIs ==
  ASSUME TypeInv, NEW p \in Proc, PutBegins(p)
  PROVE  /\ Fresh(p) /\ "put" \in Ops[p] /\ UNCHANGED <<store, hints, backup, awr, done>>
         /\ l'[p].t \in Thread /\ l'[p].id \in Id /\ l'[p].id \notin UsedIds /\ l'[p].rec \in Record
         /\ l'[p].pc = (IF Publishes(SaverOf[p], l'[p].t, l'[p].id) THEN "put_hint" ELSE AfterHint)
         /\ l'[p].publish = Publishes(SaverOf[p], l'[p].t, l'[p].id)
         /\ l'[p].batch = Empty
         /\ InOrder => \A j \in Id \ UsedIds : l'[p].id <= j
         /\ arch'[l'[p].t] = Over(Row(l'[p].id, l'[p].rec), arch[l'[p].t])
         /\ \A u \in Thread : u # l'[p].t => arch'[u] = arch[u]
         /\ \E parent \in {None} \cup DOMAIN ck[l'[p].t], upd \in SUBSET Channel :
              \E snapped \in SUBSET (upd \cap Delta), run \in Run :
                /\ l'[p].rec = Continuation(l'[p].t, l'[p].id, parent, upd, snapped, run)
                /\ l'[p].todo = {<<c, l'[p].rec.vers[c]>> : c \in upd}
                /\ parent < l'[p].id /\ parent = None => upd = Channel
<1>1. PICK t \in Thread : \E parent \in Parents(t), run \in Run :
        \E id \in FreshIds(parent), upd \in Updates(parent) :
          \E snapped \in SUBSET (upd \cap Delta) : Put(p, t, id, parent, upd, snapped, run)
  BY DEF PutBegins
<1>2. PICK parent \in Parents(t), run \in Run :
        \E id \in FreshIds(parent), upd \in Updates(parent) :
          \E snapped \in SUBSET (upd \cap Delta) : Put(p, t, id, parent, upd, snapped, run)
  BY <1>1
<1>21. PICK id \in FreshIds(parent), upd \in Updates(parent) :
        \E snapped \in SUBSET (upd \cap Delta) : Put(p, t, id, parent, upd, snapped, run)
  BY <1>2
<1>3. PICK snapped \in SUBSET (upd \cap Delta) : Put(p, t, id, parent, upd, snapped, run)
  BY <1>21
<1>4. PICK r : r = Continuation(t, id, parent, upd, snapped, run)
  OBVIOUS
<1>5. /\ Fresh(p) /\ "put" \in Ops[p] /\ UNCHANGED <<store, hints, backup, awr, done>>
      /\ arch' = SetRows(arch, t, Row(id, r))
      /\ l'[p].batch = Empty /\ l'[p].t = t /\ l'[p].id = id /\ l'[p].rec = r
      /\ l'[p].pc = (IF Publishes(SaverOf[p], t, id) THEN "put_hint" ELSE AfterHint)
      /\ l'[p].publish = Publishes(SaverOf[p], t, id)
      /\ l'[p].todo = {<<c, r.vers[c]>> : c \in upd}
  BY <1>3, <1>4, PutStarts
<1>6. /\ id \in Id /\ id \notin UsedIds /\ id > parent /\ (InOrder => \A j \in Id \ UsedIds : id <= j)
      /\ parent \in {None} \cup DOMAIN ck[t] /\ upd \in SUBSET Channel /\ (parent = None => upd = Channel)
  BY DEF FreshIds, Parents, NewestOf, Updates
<1>7. parent \in Nat /\ id \in Nat /\ parent < id
  BY <1>6, ReadIs, IdIs
<1>8. r \in Record
  BY <1>4, <1>6, <1>7, ContinuationIs
<1>9. arch'[t] = Over(Row(id, r), arch[t]) /\ \A u \in Thread : u # t => arch'[u] = arch[u]
  <2>1. arch \in [Thread -> Part(Id, Record)] /\ Row(id, r) \in Part(Id, Record)
    BY <1>6, <1>8, RowPart DEF TypeInv, Archives, CkT
  <2>. QED  BY <1>5, <2>1 DEF SetRows
<1>. QED  BY <1>4, <1>5, <1>6, <1>7, <1>8, <1>9

\* What was put is never changed.
Later ==
  \A t \in Thread : /\ DOMAIN arch[t] \subseteq DOMAIN arch'[t]
                    /\ \A i \in DOMAIN arch[t] : arch'[t][i] = arch[t][i]

LEMMA CalmKeepsSame ==
  ASSUME TypeInv, Same, NEW p \in Proc, Calm(p)
  PROVE  Same'
<1>1. \A t \in Thread : \A i \in DOMAIN ck'[t] : ck'[t][i] = Stored(arch'[t][i])
  BY DEF Same, Calm, Shrinks
<1>2. ASSUME NEW q \in Proc, l'[q].pc \in PutPCs
      PROVE  l'[q].rec = arch'[l'[q].t][l'[q].id]
  <2>1. CASE q = p
    BY <1>2, <2>1 DEF Same, Calm, SamePut
  <2>2. CASE q # p
    BY <1>2, <2>2 DEF Same, Calm
  <2>. QED  BY <2>1, <2>2
<1>. QED  BY <1>1, <1>2 DEF Same, Calm

LEMMA PutBeginsKeepsSame ==
  ASSUME TypeInv, Same, NEW p \in Proc, PutBegins(p)
  PROVE  Same' /\ Later
<1>1. /\ l'[p].t \in Thread /\ l'[p].id \notin UsedIds
      /\ arch'[l'[p].t] = Over(Row(l'[p].id, l'[p].rec), arch[l'[p].t])
      /\ \A u \in Thread : u # l'[p].t => arch'[u] = arch[u]
      /\ ck' = ck /\ backup' = backup /\ \A q \in Proc : q # p => l'[q] = l[q]
  BY PutBeginsIs DEF store, Fresh
<1>21. PICK t \in Thread : t = l'[p].t
  BY <1>1
<1>2. PICK id, r : t = l'[p].t /\ id = l'[p].id /\ r = l'[p].rec
  BY <1>21
<1>3. /\ DOMAIN arch'[t] = DOMAIN arch[t] \cup {id} /\ arch'[t][id] = r
      /\ \A i \in DOMAIN arch[t] : i # id => arch'[t][i] = arch[t][i]
  BY <1>1, <1>2 DEF Over, Row
<1>4. \A u \in Thread : id \notin DOMAIN arch[u]
  BY <1>1, <1>2 DEF UsedIds
<1>5. Later
  BY <1>1, <1>2, <1>3, <1>4 DEF Later
<1>6. ASSUME NEW u \in Thread, NEW v \in Thread, NEW i \in DOMAIN arch'[u], i \in DOMAIN arch'[v]
      PROVE  arch'[u][i] = arch'[v][i]
  <2>1. CASE i = id
    BY <1>1, <1>2, <1>4, <1>6, <2>1
  <2>2. CASE i # id
    <3>1. i \in DOMAIN arch[u] /\ i \in DOMAIN arch[v]
      BY <1>1, <1>2, <1>3, <1>6, <2>2
    <3>. QED  BY <1>5, <3>1 DEF Later, Same
  <2>. QED  BY <2>1, <2>2
<1>7. \A u \in Thread : \A i \in DOMAIN ck'[u] : ck'[u][i] = Stored(arch'[u][i])
  BY <1>1, <1>5 DEF Later, Same, TypeInv, Known
<1>8. backup' # <<>> => \A u \in Thread : \A i \in DOMAIN backup'[1][u] : backup'[1][u][i] = Stored(arch'[u][i])
  BY <1>1, <1>5 DEF Later, Same, TypeInv, Known
<1>9. ASSUME NEW q \in Proc, l'[q].pc \in PutPCs
      PROVE  l'[q].rec = arch'[l'[q].t][l'[q].id]
  <2>1. CASE q = p
    BY <1>2, <1>3, <2>1
  <2>2. CASE q # p
    <3>1. l'[q] = l[q] /\ l[q].pc \in PutPCs
      BY <1>1, <1>9, <2>2
    <3>2. l[q].t \in Thread /\ l[q].id \in DOMAIN arch[l[q].t] /\ l[q].rec = arch[l[q].t][l[q].id]
      BY <3>1, PutIs DEF Same
    <3>. QED  BY <1>5, <3>1, <3>2 DEF Later
  <2>. QED  BY <2>1, <2>2
<1>. QED  BY <1>5, <1>6, <1>7, <1>8, <1>9 DEF Same

LEMMA PutRowsKeepsSame ==
  ASSUME TypeInv, Same, NEW p \in Proc, PutRows(p) \/ PutRest(p)
  PROVE  Same'
<1>1. /\ l[p].pc \in PutPCs /\ arch' = arch /\ backup' = backup /\ (PutCk(p) \/ ck' = ck)
      /\ \A q \in Proc : q # p => l'[q] = l[q]
      /\ l'[p].pc \in PutPCs => SamePut(p)
  BY PutRowsIs, PutRestIs DEF PutPCs, Ended
<1>2. l[p].t \in Thread /\ l[p].rec = arch[l[p].t][l[p].id]
  BY <1>1, PutIs DEF Same
<1>3. ASSUME NEW t \in Thread, NEW i \in DOMAIN ck'[t]
      PROVE  ck'[t][i] = Stored(arch'[t][i])
  <2>1. CASE ck' = ck
    BY <1>1, <1>3, <2>1 DEF Same
  <2>2. CASE PutCk(p)
    <3>1. /\ DOMAIN ck'[l[p].t] = DOMAIN ck[l[p].t] \cup {l[p].id}
          /\ ck'[l[p].t][l[p].id] = Stored(l[p].rec)
          /\ \A j \in DOMAIN ck[l[p].t] : j # l[p].id => ck'[l[p].t][j] = ck[l[p].t][j]
          /\ \A u \in Thread : u # l[p].t => ck'[u] = ck[u]
      BY <1>1, <2>2, PutCkIs
    <3>. QED  BY <1>1, <1>2, <1>3, <3>1 DEF Same
  <2>. QED  BY <1>1, <2>1, <2>2
<1>4. ASSUME NEW q \in Proc, l'[q].pc \in PutPCs
      PROVE  l'[q].rec = arch'[l'[q].t][l'[q].id]
  BY <1>1, <1>4 DEF Same, SamePut
<1>. QED  BY <1>1, <1>3, <1>4 DEF Same

LEMMA CopyCkKeepsSame ==
  ASSUME TypeInv, Same, NEW p \in Proc, CopyCk(p)
  PROVE  Same' /\ Later
<1>1. /\ l[p].pc = "copy_ck" /\ ck' = CopyRows(ck, l[p].t, Target(p))
      /\ arch' = SetRows(arch, Target(p), Only(arch[l[p].t], DOMAIN ck[l[p].t]))
      /\ backup' = backup /\ l'[p].pc = "copy_wr" /\ \A q \in Proc : q # p => l'[q] = l[q]
  BY CopyCkIs
<1>2. l[p].t \in Thread /\ Target(p) \in Thread
  BY <1>1, TargetIs DEF CopyPCs
<1>3. PICK t \in Thread : t = l[p].t
  BY <1>2
<1>4. PICK u \in Thread : u = Target(p)
  BY <1>2
<1>5. ck'[u] = Over(ck[t], ck[u]) /\ \A v \in Thread : v # u => ck'[v] = ck[v]
  <2>1. ck \in [Thread -> Part(Id, Record)]
    BY DEF TypeInv, Stores, CkT
  <2>. QED  BY <1>1, <1>3, <1>4, <2>1 DEF CopyRows
<1>6. /\ arch'[u] = Over(Only(arch[t], DOMAIN ck[t]), arch[u])
      /\ \A v \in Thread : v # u => arch'[v] = arch[v]
  <2>1. arch \in [Thread -> Part(Id, Record)]
    BY DEF TypeInv, Archives, CkT
  <2>. QED  BY <1>1, <1>3, <1>4, <2>1 DEF SetRows
<1>7. DOMAIN ck[t] \subseteq DOMAIN arch[t] /\ DOMAIN ck[u] \subseteq DOMAIN arch[u]
  BY DEF TypeInv, Known
<1>8. /\ DOMAIN arch'[u] = DOMAIN ck[t] \cup DOMAIN arch[u]
      /\ \A i \in DOMAIN ck[t] : arch'[u][i] = arch[t][i]
      /\ \A i \in DOMAIN arch[u] : i \notin DOMAIN ck[t] => arch'[u][i] = arch[u][i]
  BY <1>6, <1>7 DEF Over, Only
<1>9. /\ DOMAIN ck'[u] = DOMAIN ck[t] \cup DOMAIN ck[u]
      /\ \A i \in DOMAIN ck[t] : ck'[u][i] = ck[t][i]
      /\ \A i \in DOMAIN ck[u] : i \notin DOMAIN ck[t] => ck'[u][i] = ck[u][i]
  BY <1>5 DEF Over
<1>10. \A v, w \in Thread : \A i \in DOMAIN arch[v] : i \in DOMAIN arch[w] => arch[v][i] = arch[w][i]
  BY DEF Same
<1>11. Later
  <2>1. \A i \in DOMAIN arch[u] : arch'[u][i] = arch[u][i]
    BY <1>7, <1>8, <1>10
  <2>. QED  BY <1>6, <1>8, <2>1 DEF Later
<1>12. ASSUME NEW v \in Thread, NEW i \in DOMAIN arch'[v]
       PROVE  \E w \in Thread : i \in DOMAIN arch[w] /\ arch'[v][i] = arch[w][i]
  <2>1. CASE v # u
    BY <1>6, <1>12, <2>1
  <2>2. CASE v = u /\ i \in DOMAIN ck[t]
    BY <1>7, <1>8, <2>2
  <2>3. CASE v = u /\ i \notin DOMAIN ck[t]
    BY <1>8, <1>12, <2>3
  <2>. QED  BY <2>1, <2>2, <2>3
<1>13. \A v, w \in Thread : \A i \in DOMAIN arch'[v] : i \in DOMAIN arch'[w] => arch'[v][i] = arch'[w][i]
  BY <1>10, <1>12
<1>14. ASSUME NEW v \in Thread, NEW i \in DOMAIN ck'[v]
       PROVE  ck'[v][i] = Stored(arch'[v][i])
  <2>1. \A w \in Thread : \A j \in DOMAIN ck[w] : ck[w][j] = Stored(arch[w][j])
    BY DEF Same
  <2>. QED  BY <1>5, <1>6, <1>7, <1>8, <1>9, <1>14, <2>1
<1>15. backup' # <<>> => \A v \in Thread : \A i \in DOMAIN backup'[1][v] : backup'[1][v][i] = Stored(arch'[v][i])
  BY <1>1, <1>11 DEF Later, Same, TypeInv, Known
<1>16. ASSUME NEW q \in Proc, l'[q].pc \in PutPCs
       PROVE  l'[q].rec = arch'[l'[q].t][l'[q].id]
  <2>1. l'[q] = l[q] /\ l[q].pc \in PutPCs
    BY <1>1, <1>16 DEF PutPCs
  <2>2. l[q].t \in Thread /\ l[q].id \in DOMAIN arch[l[q].t] /\ l[q].rec = arch[l[q].t][l[q].id]
    BY <2>1, PutIs DEF Same
  <2>. QED  BY <1>11, <2>1, <2>2 DEF Later
<1>. QED  BY <1>11, <1>13, <1>14, <1>15, <1>16 DEF Same

LEMMA InitSame ==
  ASSUME Init
  PROVE  Same
<1>1. PICK old \in SUBSET Legacy :
       /\ ck = [t \in Thread |-> IF t \in old THEN Row(1, Stored(OldRow)) ELSE Empty]
       /\ arch = [t \in Thread |-> IF t \in old THEN Row(1, OldRow) ELSE Empty]
  BY DEF Init
<1>2. backup = <<>> /\ \A p \in Proc : l[p].pc = "idle"
  BY DEF Init, Locals0
<1>3. ASSUME NEW t \in Thread
      PROVE  /\ DOMAIN arch[t] \subseteq {1} /\ DOMAIN ck[t] = DOMAIN arch[t]
             /\ \A i \in DOMAIN arch[t] : arch[t][i] = OldRow /\ ck[t][i] = Stored(OldRow)
  <2>1. CASE t \in old
    BY <1>1, <2>1 DEF Row
  <2>2. CASE t \notin old
    BY <1>1, <2>2 DEF Empty
  <2>. QED  BY <2>1, <2>2
<1>. QED  BY <1>2, <1>3 DEF Same, PutPCs

LEMMA AlwaysSame ==
  Spec => [](TypeInv /\ Same)
<1>1. ASSUME TypeInv, Same, [Next]_vars
      PROVE  Same'
  <2>1. CASE Next
    <3>1. PICK p \in Proc : Puts(p) \/ Calm(p)
      BY <1>1, <2>1, NextCalm
    <3>2. CASE SnapshotStore(p)
      <4>1. backup' = <<ck, wr, bl, lt, awr>> /\ ck' = ck /\ arch' = arch /\ l' = l
        BY <3>2 DEF SnapshotStore, store, hist
      <4>2. backup'[1] = ck
        BY <4>1
      <4>. QED  BY <1>1, <4>1, <4>2 DEF Same
    <3>3. CASE RestoreStore(p)
      <4>1. backup' = backup /\ ck' = backup[1] /\ arch' = arch /\ l' = l /\ backup # <<>>
        BY <3>3 DEF RestoreStore
      <4>. QED  BY <1>1, <4>1 DEF Same
    <3>. QED  BY <1>1, <3>1, <3>2, <3>3, PutBeginsKeepsSame, PutRowsKeepsSame, CopyCkKeepsSame,
                 CalmKeepsSame DEF Puts
  <2>2. CASE UNCHANGED vars
    BY <1>1, <2>2 DEF vars, store, hist, Same
  <2>. QED  BY <1>1, <2>1, <2>2
<1>. QED  BY <1>1, InitSame, AlwaysTyped, PTL DEF Spec

\* No step changes what was put.
LEMMA NextLater ==
  ASSUME TypeInv, Same, Next
  PROVE  Later
<1>1. PICK p \in Proc : Puts(p) \/ Calm(p)
  BY NextCalm
<1>2. CASE arch' = arch
  BY <1>2 DEF Later
<1>3. CASE PutRows(p) \/ PutRest(p)
  BY <1>2, <1>3, PutRowsIs, PutRestIs
<1>4. CASE SnapshotStore(p) \/ RestoreStore(p)
  BY <1>2, <1>4 DEF SnapshotStore, RestoreStore, hist
<1>5. CASE Calm(p)
  BY <1>2, <1>5 DEF Calm
<1>. QED  BY <1>1, <1>3, <1>4, <1>5, PutBeginsKeepsSame, CopyCkKeepsSame DEF Puts

-----------------------------------------------------------------------------
(* Tuples: what get_tuple and list hand over *)

TuplePCs == BuildPCs \cup {"got"}

\* A step of another kind is no step of a caller that builds a tuple.
LEMMA NextReads ==
  ASSUME TypeInv, Next
  PROVE  \E p \in Proc : /\ Reading(p) \/ l'[p].pc \notin TuplePCs
                         /\ \A q \in Proc : q # p => l'[q] = l[q]
<1>1. PICK p \in Proc :
           \/ PutBegins(p) \/ WritesBegin(p) \/ Begins(p)
           \/ SnapshotStore(p) \/ RestoreStore(p)
           \/ PutHint(p) \/ PutBlobContains(p) \/ PutBlobs(p) \/ PutRows(p) \/ PutRest(p)
           \/ CheckWrites(p) \/ FlushWrites(p) \/ Reading(p) \/ GetPublish(p) \/ Surveys(p)
           \/ DropBlobs(p) \/ DropWrites(p) \/ DropCheckpoints(p) \/ DropFix(p) \/ Dropped(p)
           \/ DeleteCk(p) \/ DeleteWrites(p) \/ DeleteBlobs(p) \/ DeleteLatest(p)
           \/ CopyCk(p) \/ CopyWr(p) \/ CopyBl(p) \/ CopyLatest(p)
  BY NextIs
<1>2. CASE PutBegins(p)
  <2>1. l'[p].pc \in {"put_hint", "put_blobs", "put_rows"} /\ Fresh(p)
    BY <1>2, PutBeginsIs DEF AfterHint
  <2>. QED  BY <2>1 DEF TuplePCs, BuildPCs, Fresh
<1>3. CASE WritesBegin(p)
  <2>4. Fresh(p) /\ l'[p].pc = "write_check"
    BY <1>3, WritesBeginIs
  <2>. QED  BY <2>4 DEF TuplePCs, BuildPCs, Fresh
<1>4. CASE Begins(p)
  <2>1. Fresh(p)
    BY <1>4, BeginsIs
  <2>2. ASSUME NEW t \in Thread, NEW id \in {None} \cup DOMAIN ck[t], GetTuple(p, t, id)
        PROVE  l'[p].pc \notin TuplePCs
    <3>1. id \in IdOrNo
      BY ReadIs, IdIs
    <3>. QED  BY <2>2, <3>1, GetTupleStarts DEF TuplePCs, BuildPCs
  <2>3. l'[p].pc \notin TuplePCs
    BY <1>4, <2>2, BeginsIs DEF TuplePCs, BuildPCs
  <2>. QED  BY <2>1, <2>3 DEF Fresh
<1>5. CASE SnapshotStore(p) \/ RestoreStore(p)
  <2>1. l' = l /\ l[p].pc = "idle"
    BY <1>5 DEF SnapshotStore, RestoreStore, Call, At
  <2>. QED  BY <2>1 DEF TuplePCs, BuildPCs
<1>6. CASE PutHint(p) \/ PutBlobContains(p) \/ PutBlobs(p)
  BY <1>6, PutHintIs, PutBlobContainsIs, PutBlobsIs DEF TuplePCs, BuildPCs, AfterHint
<1>7. CASE PutRows(p) \/ PutRest(p)
  BY <1>7, PutRowsIs, PutRestIs DEF TuplePCs, BuildPCs, Ended
<1>8. CASE CheckWrites(p)
  BY <1>8, CheckWritesIs DEF TuplePCs, BuildPCs
<1>9. CASE FlushWrites(p) \/ DeleteLatest(p) \/ CopyLatest(p)
  <2>1. Step(p, Locals0)
    BY <1>9, FlushWritesIs, DeleteLatestIs, CopyLatestIs
  <2>. QED  BY <2>1, ReturnIs DEF TuplePCs, BuildPCs
<1>10. CASE Reading(p)
  BY <1>10, ReadingIs
<1>11. CASE GetPublish(p) \/ DropBlobs(p) \/ DropWrites(p) \/ DropFix(p)
  BY <1>11, GetPublishIs, DropBlobsIs, DropWritesIs, DropFixIs DEF TuplePCs, BuildPCs
<1>12. CASE Surveys(p)
  BY <1>12, SurveysIs DEF TuplePCs, BuildPCs, TrimPCs, DropPCs, RunPCs, DelPCs
<1>13. CASE DropCheckpoints(p) \/ Dropped(p)
  BY <1>13, DropCheckpointsIs, DroppedIs DEF TuplePCs, BuildPCs
<1>14. CASE DeleteCk(p) \/ DeleteWrites(p) \/ DeleteBlobs(p)
  BY <1>14, DeleteCkIs, DeleteWritesIs, DeleteBlobsIs DEF TuplePCs, BuildPCs
<1>15. CASE CopyCk(p) \/ CopyWr(p) \/ CopyBl(p)
  BY <1>15, CopyCkIs, CopyWrIs, CopyBlIs DEF TuplePCs, BuildPCs
<1>. QED  BY <1>1, <1>2, <1>3, <1>4, <1>5, <1>6, <1>7, <1>8, <1>9, <1>10, <1>11, <1>12, <1>13,
             <1>14, <1>15

\* A tuple under construction is the record that was put with its checkpoint.
RowsRead ==
  \A p \in Proc :
    /\ l[p].pc # "build_blobs"
    /\ l[p].pc \in TuplePCs /\ l[p].id # None =>
         l[p].id \in DOMAIN arch[l[p].t] /\ l[p].rec = arch[l[p].t][l[p].id]

LEMMA ReadsWhole ==
  ASSUME TypeInv, Same, RowsRead, ~Incremental, NEW p \in Proc, Reading(p),
         l'[p].pc \in TuplePCs, l'[p].id # None
  PROVE  /\ l'[p].t \in Thread /\ l'[p].id \in DOMAIN arch[l'[p].t]
         /\ l'[p].rec = arch[l'[p].t][l'[p].id]
<1>1. \A t \in Thread : \A i \in DOMAIN ck[t] :
        i \in DOMAIN arch[t] /\ ck[t][i] = arch[t][i]
  <2>1. ASSUME NEW t \in Thread, NEW i \in DOMAIN ck[t]
        PROVE  i \in DOMAIN arch[t] /\ ck[t][i] = arch[t][i]
    <3>1. i \in DOMAIN arch[t] /\ arch[t][i] \in Record /\ ck[t][i] = Stored(arch[t][i])
      BY ReadIs DEF TypeInv, Known, Same
    <3>. QED  BY <3>1, StoredIs
  <2>. QED  BY <2>1
<1>2. CASE GetMax(p) \/ GetLatest(p) \/ GetKeys(p)
  BY <1>2, GetMaxIs, GetLatestIs, GetKeysIs DEF TuplePCs, BuildPCs
<1>3. CASE GetPointed(p) \/ GetSaved(p)
  <2>1. PICK t \in Thread : t = l[p].t
    BY <1>3, GetPointedIs, GetSavedIs
  <2>2. /\ l'[p].t = t /\ l'[p].rec = Get(ck[t], l[p].id) /\ l'[p].id = l[p].id
        /\ Get(ck[t], l[p].id) # NoRow
    BY <1>3, <2>1, GetPointedIs, GetSavedIs DEF TuplePCs, BuildPCs
  <2>3. l[p].id \in DOMAIN ck[t] /\ l'[p].rec = ck[t][l[p].id]
    BY <2>2, GetIs
  <2>. QED  BY <1>1, <2>1, <2>2, <2>3
<1>4. CASE AttachValues(p)
  BY <1>4, AttachValuesIs DEF RowsRead
<1>5. CASE BuildKeys(p) \/ BuildWrites(p)
  BY <1>5, BuildKeysIs, BuildWritesIs DEF RowsRead, TuplePCs, BuildPCs
<1>6. CASE GetReturn(p) \/ ListKeys(p)
  BY <1>6, GetReturnIs, ListKeysIs DEF TuplePCs, BuildPCs
<1>7. CASE ListNext(p)
  BY <1>1, <1>7, ListNextIs DEF TuplePCs, BuildPCs
<1>. QED  BY <1>2, <1>3, <1>4, <1>5, <1>6, <1>7 DEF Reading

LEMMA NoBlobsRead ==
  ASSUME TypeInv, RowsRead, ~Incremental, NEW p \in Proc, Reading(p)
  PROVE  l'[p].pc # "build_blobs"
<1>1. Build = "build_keys"
  BY DEF Build
<1>2. CASE GetMax(p) \/ GetLatest(p) \/ GetKeys(p) \/ BuildKeys(p) \/ BuildWrites(p) \/ GetReturn(p) \/ ListKeys(p)
  BY <1>2, GetMaxIs, GetLatestIs, GetKeysIs, BuildKeysIs, BuildWritesIs, GetReturnIs, ListKeysIs
<1>3. CASE GetPointed(p) \/ GetSaved(p) \/ AttachValues(p) \/ ListNext(p)
  BY <1>1, <1>3, GetPointedIs, GetSavedIs, AttachValuesIs, ListNextIs
<1>. QED  BY <1>2, <1>3 DEF Reading

LEMMA NextRowsRead ==
  ASSUME TypeInv, Same, RowsRead, ~Incremental, Next
  PROVE  RowsRead'
<1>1. PICK p \in Proc : /\ Reading(p) \/ l'[p].pc \notin TuplePCs
                        /\ \A q \in Proc : q # p => l'[q] = l[q]
  BY NextReads
<1>2. Later
  BY NextLater
<1>3. ASSUME NEW q \in Proc
      PROVE  /\ l'[q].pc # "build_blobs"
             /\ l'[q].pc \in TuplePCs /\ l'[q].id # None =>
                  l'[q].id \in DOMAIN arch'[l'[q].t] /\ l'[q].rec = arch'[l'[q].t][l'[q].id]
  <2>1. CASE q # p
    <3>1. l'[q] = l[q] /\ (l[q].pc \in TuplePCs => l[q].t \in Thread)
      BY <1>1, <2>1 DEF TypeInv, Shape, TuplePCs, BuildPCs
    <3>. QED  BY <1>2, <3>1 DEF RowsRead, Later
  <2>2. CASE q = p /\ Reading(p)
    <3>1. l'[p].pc # "build_blobs"
      BY <2>2, NoBlobsRead
    <3>. QED  BY <1>2, <2>2, <3>1, ReadsWhole DEF Later
  <2>3. CASE q = p /\ l'[p].pc \notin TuplePCs
    BY <2>3 DEF TuplePCs, BuildPCs
  <2>. QED  BY <1>1, <2>1, <2>2, <2>3
<1>. QED  BY <1>3 DEF RowsRead

\* Whatever callers put, trim, copy, delete and roll back at the same time, a
\* tuple that get_tuple or list returns has the channel values that were put with
\* its checkpoint: _build_tuple takes them from the row, which is written once.
\* This is for savers that keep the values in the row (incremental is off).
THEOREM WholeTuples ==
  ASSUME ~Incremental
  PROVE  Spec => []TupleValues
<1>1. ASSUME TypeInv, Same, RowsRead, [Next]_vars
      PROVE  RowsRead'
  <2>1. CASE Next
    BY <1>1, <2>1, NextRowsRead
  <2>2. CASE UNCHANGED vars
    BY <1>1, <2>2 DEF vars, hist, RowsRead
  <2>. QED  BY <1>1, <2>1, <2>2
<1>2. ASSUME Init
      PROVE  RowsRead
  <2>1. \A p \in Proc : l[p].pc = "idle"
    BY <1>2 DEF Init, Locals0
  <2>. QED  BY <2>1 DEF RowsRead, TuplePCs, BuildPCs
<1>3. ASSUME TypeInv, RowsRead
      PROVE  TupleValues
  <2>1. ASSUME NEW p \in Proc, l[p].pc = "got", l[p].id \in DOMAIN ck[l[p].t]
        PROVE  l[p].rec.vals = arch[l[p].t][l[p].id].vals
    <3>1. l[p].t \in Thread
      BY <1>3, <2>1 DEF TypeInv, Shape
    <3>2. l[p].id # None
      BY <1>3, <2>1, <3>1, ReadIs, IdIs
    <3>. QED  BY <1>3, <2>1, <3>2 DEF RowsRead, TuplePCs
  <2>. QED  BY <2>1 DEF TupleValues, Stays, At
<1>. QED  BY <1>1, <1>2, <1>3, AlwaysSame, PTL DEF Spec

-----------------------------------------------------------------------------
(* Pending writes are written once *)

WrShrinks ==
  \A t \in Thread : /\ DOMAIN wr'[t] \subseteq DOMAIN wr[t]
                    /\ \A x \in DOMAIN wr'[t] : wr'[t][x] = wr[t][x]

\* A step that stores no pending write and is not part of a put_writes.
WrCalm(p) ==
  /\ WrShrinks
  /\ l'[p].pc \notin WritePCs
  /\ l'[p].pc \in CopyPCs => l[p].pc \in CopyPCs \/ "copy_thread" \in Ops[p]
  /\ \A q \in Proc : q # p => l'[q] = l[q]

LEMMA StillWr ==
  ASSUME wr' = wr
  PROVE  WrShrinks
  BY DEF WrShrinks

LEMMA DropShrinks ==
  ASSUME TypeInv, NEW t \in Thread, NEW D, wr' = DropRows(wr, t, D)
  PROVE  WrShrinks
<1>1. wr \in [Thread -> Part(Id \X WKey, WVal)]
  BY DEF TypeInv, Stores, WrT
<1>2. ASSUME NEW u \in Thread
      PROVE  DOMAIN wr'[u] \subseteq DOMAIN wr[u] /\ \A x \in DOMAIN wr'[u] : wr'[u][x] = wr[u][x]
  <2>1. CASE u = t
    <3>1. wr'[u] = Drop(wr[u], D)
      BY <1>1, <2>1 DEF DropRows
    <3>. QED  BY <3>1 DEF Drop
  <2>2. CASE u # t
    BY <1>1, <2>2 DEF DropRows
  <2>. QED  BY <2>1, <2>2
<1>. QED  BY <1>2 DEF WrShrinks

LEMMA NextWr ==
  ASSUME TypeInv, Next
  PROVE  \E p \in Proc : \/ WrCalm(p) \/ CheckWrites(p) \/ WritesBegin(p) \/ FlushWrites(p)
                         \/ CopyWr(p) \/ RestoreStore(p)
<1>1. PICK p \in Proc :
           \/ PutBegins(p) \/ WritesBegin(p) \/ Begins(p)
           \/ SnapshotStore(p) \/ RestoreStore(p)
           \/ PutHint(p) \/ PutBlobContains(p) \/ PutBlobs(p) \/ PutRows(p) \/ PutRest(p)
           \/ CheckWrites(p) \/ FlushWrites(p) \/ Reading(p) \/ GetPublish(p) \/ Surveys(p)
           \/ DropBlobs(p) \/ DropWrites(p) \/ DropCheckpoints(p) \/ DropFix(p) \/ Dropped(p)
           \/ DeleteCk(p) \/ DeleteWrites(p) \/ DeleteBlobs(p) \/ DeleteLatest(p)
           \/ CopyCk(p) \/ CopyWr(p) \/ CopyBl(p) \/ CopyLatest(p)
  BY NextIs
<1>. USE DEF WritePCs, CopyPCs
<1>2. CASE PutBegins(p)
  <2>1. l'[p].pc \in {"put_hint", "put_blobs", "put_rows"} /\ Fresh(p) /\ wr' = wr
    BY <1>2, PutBeginsIs DEF AfterHint, store
  <2>. QED  BY <2>1, StillWr DEF WrCalm, Fresh
<1>3. CASE Begins(p)
  <2>1. Fresh(p) /\ wr' = wr
    BY <1>3, BeginsIs DEF store
  <2>2. ASSUME NEW t \in Thread, NEW id \in {None} \cup DOMAIN ck[t], GetTuple(p, t, id)
        PROVE  l'[p].pc \notin WritePCs \cup CopyPCs
    <3>1. id \in IdOrNo
      BY ReadIs, IdIs
    <3>. QED  BY <2>2, <3>1, GetTupleStarts
  <2>3. l'[p].pc \notin WritePCs /\ (l'[p].pc \in CopyPCs => "copy_thread" \in Ops[p])
    BY <1>3, <2>2, BeginsIs
  <2>. QED  BY <2>1, <2>3, StillWr DEF Fresh, WrCalm
<1>4. CASE SnapshotStore(p)
  <2>1. l' = l /\ l[p].pc = "idle" /\ wr' = wr
    BY <1>4 DEF SnapshotStore, Call, At, store
  <2>. QED  BY <2>1, StillWr DEF WrCalm
<1>5. CASE PutHint(p) \/ PutBlobContains(p) \/ PutBlobs(p)
  <2>1. /\ wr' = wr /\ l'[p].pc \in {"put_blobs", "put_rows"}
        /\ \A q \in Proc : q # p => l'[q] = l[q]
    BY <1>5, PutHintIs, PutBlobContainsIs, PutBlobsIs, OnlyIs DEF AfterHint, store
  <2>. QED  BY <2>1, StillWr DEF WrCalm
<1>6. CASE PutRows(p) \/ PutRest(p)
  <2>1. /\ wr' = wr /\ l'[p].pc \in {"put_rest", "prune_keys", "idle"}
        /\ \A q \in Proc : q # p => l'[q] = l[q]
    BY <1>6, PutRowsIs, PutRestIs DEF Ended
  <2>. QED  BY <2>1, StillWr DEF WrCalm
<1>7. CASE DeleteLatest(p) \/ CopyLatest(p)
  <2>1. Step(p, Locals0) /\ wr' = wr
    BY <1>7, DeleteLatestIs, CopyLatestIs
  <2>. QED  BY <2>1, ReturnIs, StillWr DEF WrCalm
<1>8. CASE Reading(p) \/ Surveys(p)
  <2>1. /\ Only_l /\ l'[p].pc \notin WritePCs \cup CopyPCs
        /\ \A q \in Proc : q # p => l'[q] = l[q]
    BY <1>8, ReadingIs, SurveysIs DEF ReadPCs, TrimPCs, DropPCs, RunPCs, DelPCs
  <2>. QED  BY <2>1, StillWr, OnlyIs DEF WrCalm
<1>9. CASE GetPublish(p) \/ DropBlobs(p) \/ DropFix(p) \/ DropCheckpoints(p) \/ Dropped(p)
  <2>1. /\ wr' = wr /\ l'[p].pc \notin WritePCs \cup CopyPCs
        /\ \A q \in Proc : q # p => l'[q] = l[q]
    BY <1>9, GetPublishIs, DropBlobsIs, DropFixIs, DropCheckpointsIs, DroppedIs DEF store
  <2>. QED  BY <2>1, StillWr DEF WrCalm
<1>10. CASE DropWrites(p)
  <2>1. WrShrinks
    BY <1>10, DropWritesIs, DropShrinks
  <2>. QED  BY <1>10, <2>1, DropWritesIs DEF WrCalm
<1>11. CASE DeleteWrites(p)
  <2>1. PICK i : wr' = DropRows(wr, l[p].t, WritesNs(l[p].t, i))
    BY <1>11, DeleteWritesIs
  <2>2. WrShrinks
    BY <1>11, <2>1, DeleteWritesIs, DropShrinks
  <2>. QED  BY <1>11, <2>2, DeleteWritesIs DEF WrCalm
<1>12. CASE DeleteCk(p) \/ DeleteBlobs(p)
  <2>1. /\ wr' = wr /\ l'[p].pc \notin WritePCs \cup CopyPCs
        /\ \A q \in Proc : q # p => l'[q] = l[q]
    BY <1>12, DeleteCkIs, DeleteBlobsIs
  <2>. QED  BY <2>1, StillWr DEF WrCalm
<1>13. CASE CopyCk(p) \/ CopyBl(p)
  <2>1. /\ wr' = wr /\ l'[p].pc \notin WritePCs /\ l[p].pc \in CopyPCs
        /\ \A q \in Proc : q # p => l'[q] = l[q]
    BY <1>13, CopyCkIs, CopyBlIs
  <2>. QED  BY <2>1, StillWr DEF WrCalm
<1>. QED  BY <1>1, <1>2, <1>3, <1>4, <1>5, <1>6, <1>7, <1>8, <1>9, <1>10, <1>11, <1>12, <1>13

\* put_writes has asked the store for a positional write before it stores it, and
\* found none.
Asked ==
  \A p \in Proc :
    /\ l[p].pc \in WritePCs =>
         /\ "put_writes" \in Ops[p]
         /\ \A x \in DOMAIN l[p].batch \ l[p].todo : x[2] \notin Special => x \notin DOMAIN wr[l[p].t]
    /\ l[p].pc = "write_flush" => l[p].todo = {}
    /\ l[p].pc \in CopyPCs => "copy_thread" \in Ops[p]

OnceStep ==
  \A t \in Thread : \A x \in DOMAIN wr[t] \cap DOMAIN wr'[t] :
    x[2] \notin Special => wr'[t][x] = wr[t][x]

LEMMA CalmAsks ==
  ASSUME TypeInv, Asked, NEW p \in Proc, WrCalm(p)
  PROVE  Asked' /\ OnceStep
<1>1. OnceStep
  BY DEF WrCalm, WrShrinks, OnceStep
<1>2. ASSUME NEW q \in Proc
      PROVE  /\ l'[q].pc \in WritePCs =>
                  /\ "put_writes" \in Ops[q]
                  /\ \A x \in DOMAIN l'[q].batch \ l'[q].todo :
                       x[2] \notin Special => x \notin DOMAIN wr'[l'[q].t]
             /\ l'[q].pc = "write_flush" => l'[q].todo = {}
             /\ l'[q].pc \in CopyPCs => "copy_thread" \in Ops[q]
  <2>1. CASE q = p
    BY <2>1 DEF WrCalm, Asked, WritePCs
  <2>2. CASE q # p
    <3>1. l'[q] = l[q] /\ (l[q].pc \in WritePCs => l[q].t \in Thread)
      BY <2>2 DEF WrCalm, TypeInv, Shape, WritePCs
    <3>. QED  BY <3>1 DEF WrCalm, WrShrinks, Asked
  <2>. QED  BY <2>1, <2>2
<1>. QED  BY <1>1, <1>2 DEF Asked

LEMMA CheckAsks ==
  ASSUME TypeInv, Asked, NEW p \in Proc, CheckWrites(p)
  PROVE  Asked' /\ OnceStep
<1>1. /\ l[p].pc = "write_check" /\ wr' = wr /\ l'[p].t = l[p].t
      /\ l'[p].pc = IF l'[p].todo = {} THEN "write_flush" ELSE "write_check"
      /\ \A q \in Proc : q # p => l'[q] = l[q]
  BY CheckWritesIs, OnlyIs
<1>2. PICK S \in SUBSET l[p].todo :
        /\ l'[p].todo = l[p].todo \ S
        /\ l'[p].batch = Drop(l[p].batch, {x \in S : Skips(l[p].t, x)})
  BY CheckWritesIs
<1>3. DOMAIN l'[p].batch = DOMAIN l[p].batch \ {x \in S : Skips(l[p].t, x)}
  BY <1>2 DEF Drop
<1>4. ASSUME NEW x \in DOMAIN l'[p].batch \ l'[p].todo, x[2] \notin Special
      PROVE  x \notin DOMAIN wr'[l'[p].t]
  BY <1>1, <1>2, <1>3, <1>4 DEF Asked, WritePCs, Skips
<1>. QED  BY <1>1, <1>4 DEF Asked, WritePCs, CopyPCs, OnceStep

LEMMA BeginAsks ==
  ASSUME TypeInv, Asked, NEW p \in Proc, WritesBegin(p)
  PROVE  Asked' /\ OnceStep
<1>1. /\ l'[p].pc = "write_check" /\ "put_writes" \in Ops[p] /\ wr' = wr
      /\ l'[p].todo = DOMAIN l'[p].batch /\ \A q \in Proc : q # p => l'[q] = l[q]
  BY WritesBeginIs DEF store, Fresh
<1>. QED  BY <1>1 DEF Asked, WritePCs, CopyPCs, OnceStep

LEMMA FlushAsks ==
  ASSUME TypeInv, Asked, NEW p \in Proc, FlushWrites(p),
         \A q \in Proc : "put_writes" \in Ops[q] => q = p
  PROVE  Asked' /\ OnceStep
<1>1. /\ l[p].pc = "write_flush" /\ wr' = SetRows(wr, l[p].t, l[p].batch) /\ l'[p].pc = "idle"
      /\ \A q \in Proc : q # p => l'[q] = l[q]
  BY FlushWritesIs, ReturnIs
<1>2. PICK t \in Thread : t = l[p].t
  BY FlushWritesIs
<1>3. wr'[t] = Over(l[p].batch, wr[t]) /\ \A u \in Thread : u # t => wr'[u] = wr[u]
  <2>1. wr \in [Thread -> Part(Id \X WKey, WVal)]
    BY DEF TypeInv, Stores, WrT
  <2>. QED  BY <1>1, <1>2, <2>1 DEF SetRows
<1>4. \A x \in DOMAIN l[p].batch : x[2] \notin Special => x \notin DOMAIN wr[t]
  BY <1>1, <1>2 DEF Asked, WritePCs
<1>5. \A x \in DOMAIN wr[t] : x[2] \notin Special => wr'[t][x] = wr[t][x]
  BY <1>3, <1>4 DEF Over
<1>6. OnceStep
  BY <1>3, <1>5 DEF OnceStep
<1>. QED  BY <1>1, <1>6 DEF Asked, WritePCs, CopyPCs

\* Positional pending writes are write-once when one task at a time writes, which
\* is how LangGraph uses put_writes: no step of any caller, the trims and deletes
\* that run at the same time included, changes one that is stored.  Copies and
\* rollbacks are left out: they may bring an earlier value back.
THEOREM WritesStay ==
  ASSUME NEW w \in Proc,
         \A p \in Proc : /\ "put_writes" \in Ops[p] => p = w
                         /\ "copy_thread" \notin Ops[p] /\ "restore" \notin Ops[p]
  PROVE  Spec => WriteOnce
<1>1. ASSUME TypeInv, Asked, [Next]_vars
      PROVE  Asked' /\ OnceStep
  <2>1. CASE Next
    <3>1. PICK p \in Proc : \/ WrCalm(p) \/ CheckWrites(p) \/ WritesBegin(p) \/ FlushWrites(p)
                            \/ CopyWr(p) \/ RestoreStore(p)
      BY <1>1, <2>1, NextWr
    <3>2. ASSUME FlushWrites(p)
          PROVE  \A q \in Proc : "put_writes" \in Ops[q] => q = p
      BY <1>1, <3>2, FlushWritesIs DEF Asked, WritePCs
    <3>3. ~CopyWr(p)
      BY <1>1, CopyWrIs DEF Asked, CopyPCs
    <3>4. ~RestoreStore(p)
      BY DEF RestoreStore, Call
    <3>. QED  BY <1>1, <3>1, <3>2, <3>3, <3>4, CalmAsks, CheckAsks, BeginAsks, FlushAsks
  <2>2. CASE UNCHANGED vars
    BY <1>1, <2>2 DEF vars, store, Asked, OnceStep
  <2>. QED  BY <1>1, <2>1, <2>2
<1>2. ASSUME Init
      PROVE  Asked
  <2>1. \A p \in Proc : l[p].pc = "idle"
    BY <1>2 DEF Init, Locals0
  <2>. QED  BY <2>1 DEF Asked, WritePCs, CopyPCs
<1>. QED  BY <1>1, <1>2, AlwaysTyped, PTL DEF Spec, WriteOnce, OnceStep

-----------------------------------------------------------------------------
(* A read of the latest checkpoint is fresh, on a store that indexes max_key *)

\* The newest n of a set have its newest, and nothing older than one that is
\* left out.
Splits(ids, kept) ==
  kept \subseteq ids /\ Max(ids) \in kept /\ \A i \in ids \ kept, j \in kept : i < j

LEMMA NewestSplits ==
  ASSUME NEW S \in SUBSET Id, S # {}, NEW n \in Nat, n # 0
  PROVE  Splits(S, NewestOf(S, n))
<1>1. S \in SUBSET IdOrNo /\ IdOrNo \subseteq Nat
  BY IdIs
<1>2. Max(S) \in S /\ \A j \in S : j <= Max(S)
  BY <1>1, MaxIs
<1>3. Max(S) \in NewestOf(S, n)
  <2>1. {j \in S : j > Max(S)} = {}
    <3>1. PICK m \in S : m = Max(S)
      BY <1>2
    <3>2. m \in Nat /\ \A j \in S : j \in Nat /\ j <= m
      BY <1>1, <1>2, <3>1
    <3>3. \A j \in S : ~ (j > m)
      BY <3>2
    <3>. QED  BY <3>1, <3>3
  <2>2. Cardinality({j \in S : j > Max(S)}) = 0
    BY <2>1, FS_EmptySet
  <2>. QED  BY <1>2, <2>2 DEF NewestOf
<1>4. ASSUME NEW i \in S, i \notin NewestOf(S, n), NEW j \in NewestOf(S, n)
      PROVE  i < j
  <2>. DEFINE Above(k) == {m \in S : m > k}
  <2>1. j \in S /\ Cardinality(Above(j)) < n /\ ~ (Cardinality(Above(i)) < n)
    BY <1>4 DEF NewestOf
  <2>2. SUFFICES ASSUME ~ (i < j)
                 PROVE  FALSE
    OBVIOUS
  <2>3. i \in Nat /\ j \in Nat
    BY <1>1, <2>1
  <2>4. Above(i) \subseteq Above(j)
    <3>1. \A m \in S : m \in Nat
      BY <1>1
    <3>2. \A m \in S : m > i => m > j
      BY <2>2, <2>3, <3>1
    <3>. QED  BY <3>2
  <2>5. IsFiniteSet(Above(j)) /\ Cardinality(Above(j)) \in Nat /\ Cardinality(Above(i)) \in Nat
    <3>1. Above(i) \in SUBSET Id /\ Above(j) \in SUBSET Id
      OBVIOUS
    <3>. QED  BY <3>1, IdsFinite, IdIs
  <2>6. Cardinality(Above(i)) <= Cardinality(Above(j))
    BY <2>4, <2>5, FS_Subset
  <2>. QED  BY <2>1, <2>5, <2>6
<1>. QED  BY <1>3, <1>4 DEF Splits, NewestOf

Listing == {"trim_read", "trim_next"} \cup DropPCs

\* A trim listed the thread when its newest checkpoint was there: whatever it
\* listed and is still stored is the newest it listed, or there is a newer one.
Listed(me) ==
  /\ me.ids # {} /\ me.ids \subseteq done[me.t]
  /\ \A i \in me.ids \cap DOMAIN ck[me.t] : i = Max(me.ids) \/ \E j \in DOMAIN ck[me.t] : j > i

\* Where no caller is on an indexed store without delta channels.
Never == RunPCs \cup CopyPCs \cup {"put_rest", "get_lt", "get_row", "get_keys", "get_publish",
                                   "walk_row", "walk_vals"}

SoundPut(me) ==
  /\ me.pc \notin Never
  /\ me.pc \in PutPCs => ~me.publish /\ me.id \notin done[me.t]

SoundTrim(me) ==
  /\ me.pc \in Listing => Listed(me)
  /\ me.pc \in Listing \cup {"prune_keys", "trim_ids"} => me.op # "delete_for_runs"
  /\ me.pc \in {"prune_keys", "trim_ids", "trim_read"} => me.keep # 0
  /\ me.pc \in {"prune_keys", "trim_ids", "trim_read", "trim_next"} => me.needed = {}
  /\ me.pc \in DropPCs \cup {"trim_next"} => Splits(me.ids, me.kept)
  /\ me.pc \in DropPCs => me.doomed = me.ids \ me.kept

Latest == {"get_max", "get_saved"} \cup TuplePCs

SoundRead(me) ==
  /\ me.pc = "list_next" => me.op = "list"
  /\ me.pc \in Latest \cup {"list_next"} /\ me.op = "list" => me.bound = None
  /\ me.pc \in Latest => me.bound \in {None} \cup done[me.t]
  /\ me.pc = "get_saved" /\ me.bound \in DOMAIN ck[me.t] => me.id \in DOMAIN ck[me.t]
  /\ me.pc \in TuplePCs \cup {"get_saved"} /\ me.bound \in DOMAIN ck[me.t] => me.id >= me.bound

Sound(me) == SoundPut(me) /\ SoundTrim(me) /\ SoundRead(me)

\* Two puts have different ids; a trim that listed the checkpoint a reader is
\* about to read either listed the reader's bound too or keeps that checkpoint.
Apart(p, q) ==
  /\ p # q /\ l[p].pc \in PutPCs /\ l[q].pc \in PutPCs /\ l[p].t = l[q].t => l[p].id # l[q].id
  /\ /\ l[p].pc = "get_saved" /\ l[q].pc \in Listing /\ l[p].t = l[q].t
     /\ l[p].bound \in DOMAIN ck[l[p].t] /\ l[p].id \in l[q].ids
     => l[p].bound \in l[q].ids \/ l[p].id = Max(l[q].ids)

ReadInv ==
  /\ \A t \in Thread : DOMAIN ck[t] \subseteq done[t] /\ done[t] \subseteq DOMAIN arch[t]
  /\ \A p \in Proc : Sound(l[p])
  /\ \A p, q \in Proc : Apart(p, q)

\* What a step does to the rest of the store.
DoneGrows ==
  \A t \in Thread : /\ done[t] \subseteq done'[t] /\ done'[t] \subseteq DOMAIN arch'[t]
                    /\ DOMAIN ck'[t] \subseteq DOMAIN ck[t] \cup (done'[t] \ done[t])

TopStays ==
  \A t \in Thread : \A i \in DOMAIN ck[t] \cap DOMAIN ck'[t], j \in DOMAIN ck[t] :
    j > i => \E k \in DOMAIN ck'[t] : k > i

\* ... and to another caller's locals.
OthersGo(p) ==
  \A q \in Proc :
    q # p => /\ l'[q] = l[q]
             /\ l[q].pc \in PutPCs => l[q].id \notin done'[l[q].t]
             /\ l[q].pc = "get_saved" /\ l[q].bound \in DOMAIN ck[l[q].t] \cap DOMAIN ck'[l[q].t] =>
                  l[q].id \in DOMAIN ck'[l[q].t]

LEMMA DoneStill ==
  ASSUME TypeInv, ReadInv, ck' = ck, done' = done, Later
  PROVE  DoneGrows /\ TopStays
  BY DEF ReadInv, DoneGrows, TopStays, Later

LEMMA OthersStill ==
  ASSUME TypeInv, ReadInv, ck' = ck, done' = done, NEW p \in Proc,
         \A q \in Proc : q # p => l'[q] = l[q]
  PROVE  OthersGo(p)
  BY DEF ReadInv, Sound, SoundPut, SoundRead, OthersGo

LEMMA OthersSound ==
  ASSUME TypeInv, TypeInv', ReadInv, NEW p \in Proc, DoneGrows, TopStays, OthersGo(p), NEW q \in Proc, q # p
  PROVE  Sound(l[q])'
<1>1. PICK me : me = l[q] /\ me \in Local /\ Shape(me) /\ Sound(me)
  BY AtIs DEF ReadInv
<1>2. l'[q] = me
  BY <1>1 DEF OthersGo
<1>3. SoundPut(l[q])'
  BY <1>1, <1>2 DEF OthersGo, Sound, SoundPut
<1>4. SoundTrim(l[q])'
  <2>1. ASSUME me.pc \in Listing
        PROVE  Listed(l[q])'
    <3>1. me.t \in Thread
      BY <1>1, <2>1 DEF Shape, Listing, DropPCs
    <3>2. PICK t \in Thread : t = me.t
      BY <3>1
    <3>3. /\ me.ids # {} /\ me.ids \subseteq done[t]
          /\ \A i \in me.ids \cap DOMAIN ck[t] : i = Max(me.ids) \/ \E j \in DOMAIN ck[t] : j > i
      BY <1>1, <2>1, <3>2 DEF Sound, SoundTrim, Listed
    <3>4. ASSUME NEW i \in me.ids \cap DOMAIN ck'[t]
          PROVE  i = Max(me.ids) \/ \E j \in DOMAIN ck'[t] : j > i
      <4>1. i \in DOMAIN ck[t]
        BY <3>3, <3>4 DEF DoneGrows
      <4>. QED  BY <3>3, <3>4, <4>1 DEF TopStays
    <3>. QED  BY <1>2, <3>2, <3>3, <3>4 DEF Listed, DoneGrows
  <2>. QED  BY <1>1, <1>2, <2>1 DEF Sound, SoundTrim
<1>5. SoundRead(l[q])'
  <2>1. ASSUME me.pc \in Latest
        PROVE  /\ me.bound \in {None} \cup done'[me.t]
               /\ me.bound \in DOMAIN ck'[me.t] => me.bound \in DOMAIN ck[me.t]
    <3>1. me.t \in Thread /\ me.bound \in {None} \cup done[me.t]
      BY <1>1, <2>1 DEF Shape, Latest, TuplePCs, BuildPCs, Sound, SoundRead
    <3>2. None \notin done'[me.t]
      <4>1. done' \in [Thread -> SUBSET Id]
        BY DEF TypeInv, Archives
      <4>. QED  BY <3>1, <4>1, IdIs
    <3>. QED  BY <3>1, <3>2 DEF DoneGrows
  <2>. QED  BY <1>1, <1>2, <2>1 DEF Sound, SoundRead, Latest, OthersGo
<1>. QED  BY <1>3, <1>4, <1>5 DEF Sound

\* The caller that takes the step.
PutGoes(p) ==
  l'[p].pc \in PutPCs => \/ l[p].pc \in PutPCs /\ SamePut(p)
                         \/ l'[p].id \notin UsedIds
TrimGoes(p) ==
  l'[p].pc \in Listing => \/ l[p].pc \in Listing /\ l'[p].t = l[p].t /\ l'[p].ids = l[p].ids
                          \/ l'[p].ids = DOMAIN ck[l'[p].t] /\ ck' = ck
GetGoes(p) ==
  l'[p].pc = "get_saved" => \/ l'[p].bound = None
                            \/ /\ l'[p].t \in Thread /\ l'[p].id = Newest(DOMAIN ck[l'[p].t])
                               /\ ck' = ck
Goes(p) == Sound(l[p])' /\ PutGoes(p) /\ TrimGoes(p) /\ GetGoes(p)

LEMMA PutsApart ==
  ASSUME TypeInv, ReadInv, NEW p \in Proc, OthersGo(p), PutGoes(p), NEW q \in Proc, q # p,
         l'[p].pc \in PutPCs, l'[q].pc \in PutPCs, l'[p].t = l'[q].t
  PROVE  l'[p].id # l'[q].id
<1>1. l'[q] = l[q]
  BY DEF OthersGo
<1>2. l[q].t \in Thread /\ l[q].id \in DOMAIN arch[l[q].t]
  BY <1>1, PutIs
<1>3. CASE l[p].pc \in PutPCs /\ SamePut(p)
  BY <1>1, <1>3 DEF ReadInv, Apart, SamePut
<1>4. CASE l'[p].id \notin UsedIds
  BY <1>1, <1>2, <1>4 DEF UsedIds
<1>. QED  BY <1>3, <1>4 DEF PutGoes

LEMMA GetsApart ==
  ASSUME TypeInv, TypeInv', ReadInv, NEW p \in Proc, DoneGrows, OthersGo(p), Goes(p),
         NEW r \in Proc, NEW q \in Proc,
         l'[r].pc = "get_saved", l'[q].pc \in Listing, l'[r].t = l'[q].t,
         l'[r].bound \in DOMAIN ck'[l'[r].t], l'[r].id \in l'[q].ids
  PROVE  l'[r].bound \in l'[q].ids \/ l'[r].id = Max(l'[q].ids)
<1>1. PICK t \in Thread : t = l'[r].t
  BY DEF TypeInv, Shape
<1>2. r # q
  BY DEF Listing, DropPCs
<1>3. l'[r].bound # None
  <2>1. ck' \in [Thread -> Part(Id, Record)]
    BY DEF TypeInv, Stores, CkT
  <2>2. DOMAIN ck'[t] \subseteq Id
    BY <2>1, PartElim
  <2>. QED  BY <1>1, <2>2, IdIs
<1>4. CASE r = p
  <2>1. l'[p].id = Newest(DOMAIN ck[t]) /\ ck' = ck /\ l'[q] = l[q]
    BY <1>1, <1>2, <1>3, <1>4 DEF Goes, GetGoes, OthersGo
  <2>2. Listed(l[q])
    BY <2>1 DEF ReadInv, Sound, SoundTrim
  <2>3. DOMAIN ck[t] \in SUBSET Id /\ DOMAIN ck[t] # {}
    BY <1>1, <2>1, ReadIs
  <2>4. l'[p].id \in DOMAIN ck[t] /\ \A j \in DOMAIN ck[t] : j <= l'[p].id
    BY <2>1, <2>3, NewestIs
  <2>5. ~ \E j \in DOMAIN ck[t] : j > l'[p].id
    <3>1. PICK m \in DOMAIN ck[t] : m = l'[p].id
      BY <2>4
    <3>2. \A j \in DOMAIN ck[t] : j \in Nat /\ j <= m
      BY <2>3, <2>4, <3>1, IdIs
    <3>3. \A j \in DOMAIN ck[t] : ~ (j > m)
      BY <3>2
    <3>. QED  BY <3>1, <3>3
  <2>. QED  BY <1>1, <1>4, <2>1, <2>2, <2>4, <2>5 DEF Listed
<1>5. CASE r # p
  <2>1. l'[r] = l[r]
    BY <1>5 DEF OthersGo
  <2>2. l[r].bound \in DOMAIN ck[t]
    <3>1. l[r].bound \in done[t]
      BY <1>1, <1>3, <2>1 DEF ReadInv, Sound, SoundRead, Latest
    <3>. QED  BY <1>1, <2>1, <3>1 DEF DoneGrows
  <2>3. CASE q # p
    BY <1>1, <2>1, <2>2, <2>3 DEF OthersGo, ReadInv, Apart
  <2>4. CASE q = p /\ l'[q].ids = DOMAIN ck[t] /\ ck' = ck
    BY <2>1, <2>2, <2>4
  <2>5. CASE q = p /\ l[p].pc \in Listing /\ l'[p].t = l[p].t /\ l'[p].ids = l[p].ids
    BY <1>1, <2>1, <2>2, <2>5 DEF ReadInv, Apart
  <2>. QED  BY <1>1, <2>3, <2>4, <2>5 DEF Goes, TrimGoes
<1>. QED  BY <1>4, <1>5

LEMMA ReadInvStep ==
  ASSUME TypeInv, TypeInv', ReadInv, NEW p \in Proc, DoneGrows, TopStays, OthersGo(p), Goes(p)
  PROVE  ReadInv'
<1>1. \A t \in Thread : DOMAIN ck'[t] \subseteq done'[t] /\ done'[t] \subseteq DOMAIN arch'[t]
  BY DEF ReadInv, DoneGrows
<1>2. \A q \in Proc : Sound(l[q])'
  <2>1. ASSUME NEW q \in Proc
        PROVE  Sound(l[q])'
    BY OthersSound DEF Goes
  <2>. QED  BY <2>1
<1>3. ASSUME NEW r \in Proc, NEW q \in Proc
      PROVE  Apart(r, q)'
  <2>1. ASSUME r # q, l'[r].pc \in PutPCs, l'[q].pc \in PutPCs, l'[r].t = l'[q].t
        PROVE  l'[r].id # l'[q].id
    <3>1. CASE r = p
      BY <2>1, <3>1, PutsApart DEF Goes
    <3>2. CASE q = p
      BY <2>1, <3>2, PutsApart DEF Goes
    <3>3. CASE r # p /\ q # p
      BY <2>1, <3>3 DEF OthersGo, ReadInv, Apart
    <3>. QED  BY <3>1, <3>2, <3>3
  <2>. QED  BY <2>1, GetsApart DEF Apart
<1>. QED  BY <1>1, <1>2, <1>3 DEF ReadInv

\* The calls, and the store, that the argument is for.
Ordinary ==
  /\ Indexed /\ Delta = {}
  /\ \A p \in Proc : Ops[p] \cap {"delete_for_runs", "copy_thread", "restore"} = {}

LEMMA GoesElsewhere ==
  ASSUME NEW p \in Proc, l'[p].pc \in {"idle"} \cup WritePCs \cup DelPCs
  PROVE  Goes(p)
<1>1. l'[p].pc \notin Never \cup PutPCs \cup Listing \cup Latest \cup {"list_next", "prune_keys", "trim_ids"}
  BY DEF Never, PutPCs, Listing, Latest, TuplePCs, BuildPCs, DropPCs, RunPCs, CopyPCs, WritePCs, DelPCs
<1>2. l'[p].pc \notin DropPCs \cup TuplePCs \cup {"trim_next", "trim_read", "get_saved"}
  BY <1>1 DEF Listing, Latest
<1>. QED  BY <1>1, <1>2 DEF Goes, Sound, SoundPut, SoundTrim, SoundRead, PutGoes, TrimGoes, GetGoes

\* A step within get_tuple and list.
LEMMA GoesReading ==
  ASSUME NEW p \in Proc, SoundRead(l[p])', GetGoes(p), l'[p].pc \in Latest \cup {"list_next"}
  PROVE  Goes(p)
<1>1. l'[p].pc \notin Never \cup PutPCs \cup Listing \cup DropPCs
                       \cup {"prune_keys", "trim_ids", "trim_next", "trim_read"}
  BY DEF Never, PutPCs, Listing, Latest, TuplePCs, BuildPCs, DropPCs, RunPCs, CopyPCs
<1>. QED  BY <1>1 DEF Goes, Sound, SoundPut, SoundTrim, PutGoes, TrimGoes

LEMMA NoneStored ==
  ASSUME TypeInv, NEW t \in Thread
  PROVE  None \notin DOMAIN ck[t]
  BY ReadIs, IdIs

LEMMA GetMaxGoes ==
  ASSUME TypeInv, ReadInv, NEW p \in Proc, GetMax(p)
  PROVE  Goes(p)
<1>1. /\ l[p].pc = "get_max" /\ ck' = ck /\ done' = done /\ l'[p].t = l[p].t
      /\ l'[p].id = Newest(DOMAIN ck[l[p].t]) /\ l'[p].bound = l[p].bound /\ l'[p].op = l[p].op
      /\ l'[p].pc = (IF Newest(DOMAIN ck[l[p].t]) = None THEN "got" ELSE "get_saved")
  BY GetMaxIs, OnlyIs
<1>2. PICK t \in Thread : t = l[p].t
  BY GetMaxIs
<1>3. DOMAIN ck[t] \in SUBSET Id
  BY ReadIs
<1>4. (l[p].bound \in {None} \cup done[t]) /\ (l[p].op = "list" => l[p].bound = None)
  BY <1>1, <1>2 DEF ReadInv, Sound, SoundRead, Latest
<1>5. ASSUME l[p].bound \in DOMAIN ck[t]
      PROVE  /\ Newest(DOMAIN ck[t]) \in DOMAIN ck[t] /\ Newest(DOMAIN ck[t]) >= l[p].bound
             /\ Newest(DOMAIN ck[t]) # None
  <2>1. /\ Newest(DOMAIN ck[t]) \in DOMAIN ck[t] /\ l[p].bound <= Newest(DOMAIN ck[t])
    BY <1>3, <1>5, NewestIs
  <2>2. Newest(DOMAIN ck[t]) \in Nat /\ l[p].bound \in Nat /\ Newest(DOMAIN ck[t]) # None
    BY <1>3, <1>5, <2>1, IdIs
  <2>. QED  BY <2>1, <2>2
<1>6. SoundRead(l[p])'
  BY <1>1, <1>2, <1>4, <1>5 DEF SoundRead, Latest, TuplePCs, BuildPCs
<1>7. GetGoes(p)
  BY <1>1, <1>2 DEF GetGoes
<1>8. l'[p].pc \in Latest
  BY <1>1 DEF Latest, TuplePCs
<1>. QED  BY <1>6, <1>7, <1>8, GoesReading

LEMMA GetSavedGoes ==
  ASSUME TypeInv, ReadInv, NEW p \in Proc, GetSaved(p)
  PROVE  Goes(p)
<1>1. /\ l[p].pc = "get_saved" /\ ck' = ck /\ done' = done /\ l'[p].t = l[p].t
      /\ l'[p].bound = l[p].bound /\ l'[p].op = l[p].op
      /\ l'[p].id = (IF Get(ck[l[p].t], l[p].id) = NoRow THEN None ELSE l[p].id)
      /\ l'[p].pc = (IF Get(ck[l[p].t], l[p].id) = NoRow THEN "got" ELSE Build)
  BY GetSavedIs, OnlyIs
<1>2. PICK t \in Thread : t = l[p].t
  BY GetSavedIs
<1>3. Get(ck[t], l[p].id) = NoRow <=> l[p].id \notin DOMAIN ck[t]
  BY GetIs
<1>4. /\ (l[p].bound \in {None} \cup done[t]) /\ (l[p].op = "list" => l[p].bound = None)
      /\ l[p].bound \in DOMAIN ck[t] => l[p].id \in DOMAIN ck[t] /\ l[p].id >= l[p].bound
  BY <1>1, <1>2 DEF ReadInv, Sound, SoundRead, Latest
<1>5. l'[p].pc \in TuplePCs
  BY <1>1 DEF TuplePCs, BuildPCs, Build
<1>6. l'[p].pc \in Latest /\ l'[p].pc # "get_saved" /\ l'[p].pc # "list_next"
  BY <1>5 DEF Latest, TuplePCs, BuildPCs
<1>7. l'[p].bound \in DOMAIN ck[t] => l'[p].id >= l'[p].bound
  BY <1>1, <1>2, <1>3, <1>4
<1>8. SoundRead(l[p])' /\ GetGoes(p)
  BY <1>1, <1>2, <1>4, <1>5, <1>6, <1>7 DEF SoundRead, GetGoes
<1>. QED  BY <1>6, <1>8, GoesReading

LEMMA BuildGoes ==
  ASSUME TypeInv, ReadInv, NEW p \in Proc, AttachValues(p) \/ BuildKeys(p) \/ BuildWrites(p)
  PROVE  Goes(p)
<1>1. /\ l[p].pc \in BuildPCs /\ l'[p].pc \in TuplePCs /\ ck' = ck /\ done' = done
      /\ l'[p].t = l[p].t /\ l'[p].id = l[p].id /\ l'[p].bound = l[p].bound /\ l'[p].op = l[p].op
  BY AttachValuesIs, BuildKeysIs, BuildWritesIs, OnlyIs DEF BuildPCs, TuplePCs
<1>2. l'[p].pc \in Latest /\ l'[p].pc # "get_saved" /\ l'[p].pc # "list_next"
  BY <1>1 DEF Latest, TuplePCs, BuildPCs
<1>3. SoundRead(l[p])' /\ GetGoes(p)
  BY <1>1, <1>2 DEF ReadInv, Sound, SoundRead, Latest, TuplePCs, GetGoes
<1>. QED  BY <1>2, <1>3, GoesReading

LEMMA ListGoes ==
  ASSUME TypeInv, ReadInv, NEW p \in Proc, GetReturn(p) \/ ListKeys(p) \/ ListNext(p)
  PROVE  Goes(p)
<1>1. CASE l'[p].pc = "idle"
  BY <1>1, GoesElsewhere
<1>2. CASE l'[p].pc = "list_next"
  <2>1. l'[p].op = "list" /\ l'[p].bound = None
    BY <1>2, GetReturnIs, ListKeysIs, ListNextIs DEF ReadInv, Sound, SoundRead, Latest, TuplePCs
  <2>2. SoundRead(l[p])' /\ GetGoes(p)
    BY <1>2, <2>1 DEF SoundRead, GetGoes, Latest, TuplePCs, BuildPCs
  <2>. QED  BY <1>2, <2>2, GoesReading
<1>3. CASE ListNext(p) /\ l'[p].pc # "list_next"
  <2>1. /\ l'[p].pc = Build /\ l'[p].op = "list" /\ l'[p].bound = None /\ l'[p].t \in Thread
        /\ ck' = ck
    BY <1>3, ListNextIs, OnlyIs DEF ReadInv, Sound, SoundRead
  <2>2. l'[p].pc \in TuplePCs /\ l'[p].pc \in Latest /\ l'[p].pc \notin {"get_saved", "list_next"}
    BY <2>1 DEF Build, TuplePCs, BuildPCs, Latest
  <2>3. None \notin DOMAIN ck'[l'[p].t]
    BY <2>1, NoneStored
  <2>4. SoundRead(l[p])' /\ GetGoes(p)
    BY <2>1, <2>2, <2>3 DEF SoundRead, GetGoes
  <2>. QED  BY <2>2, <2>4, GoesReading
<1>. QED  BY <1>1, <1>2, <1>3, GetReturnIs, ListKeysIs

LEMMA ReadingGoes ==
  ASSUME TypeInv, ReadInv, NEW p \in Proc, Reading(p)
  PROVE  Goes(p)
<1>1. l[p].pc \notin {"get_lt", "get_row", "get_keys"}
  BY DEF ReadInv, Sound, SoundPut, Never
<1>2. ~ (GetLatest(p) \/ GetPointed(p) \/ GetKeys(p))
  BY <1>1, GetLatestIs, GetPointedIs, GetKeysIs
<1>. QED  BY <1>2, GetMaxGoes, GetSavedGoes, BuildGoes, ListGoes DEF Reading

LEMMA MaxOfTwo ==
  ASSUME NEW a \in Nat, NEW b \in Nat
  PROVE  Max({a, b}) \in {a, b} /\ Max({a, b}) >= a /\ Max({a, b}) >= b
<1>1. \E m \in {a, b} : \A y \in {a, b} : m >= y
  <2>1. CASE a >= b
    BY <2>1
  <2>2. CASE b >= a
    BY <2>2
  <2>. QED  BY <2>1, <2>2
<1>. QED  BY <1>1 DEF Max

\* A thread that is trimmed has checkpoints.
LEMMA OverFloorIs ==
  ASSUME TypeInv, NEW s \in Saver, NEW t \in Thread, NEW n \in Nat, OverFloor(s, t, n)
  PROVE  n > Limit
<1>1. prune_floor[s][t] \in Nat /\ Limit \in Nat /\ PruneSlack \in Nat
  <2>1. prune_floor[s][t] \in IdOrNo
    BY DEF TypeInv, Hints, LtT
  <2>. QED  BY <2>1, IdIs, ConstantsAssumption
<1>2. PICK last \in Nat : last = IF prune_floor[s][t] = 0 THEN Limit ELSE prune_floor[s][t]
  BY <1>1
<1>3. PICK floor \in Nat : floor = Max({Limit, last}) /\ floor >= Limit
  BY <1>1, MaxOfTwo
<1>4. floor \div 4 \in Nat
  BY <1>3
<1>5. PICK slack \in Nat : slack = Max({PruneSlack, floor \div 4})
  BY <1>1, <1>4, MaxOfTwo
<1>6. n > floor + slack
  BY <1>2, <1>3, <1>5 DEF OverFloor
<1>. QED  BY <1>1, <1>3, <1>5, <1>6

\* A step within a trim: what it listed stays listed.
LEMMA ListedStays ==
  ASSUME TypeInv, NEW p \in Proc, DoneGrows, TopStays, l[p].t \in Thread, Listed(l[p]),
         l'[p].t = l[p].t, l'[p].ids = l[p].ids
  PROVE  Listed(l[p])'
<1>1. PICK t \in Thread : t = l[p].t
  OBVIOUS
<1>2. ASSUME NEW i \in l[p].ids \cap DOMAIN ck'[t]
      PROVE  i = Max(l[p].ids) \/ \E j \in DOMAIN ck'[t] : j > i
  <2>1. i \in DOMAIN ck[t]
    BY <1>1, <1>2 DEF Listed, DoneGrows
  <2>. QED  BY <1>1, <1>2, <2>1 DEF Listed, TopStays
<1>. QED  BY <1>1, <1>2 DEF Listed, DoneGrows

LEMMA GoesTrimming ==
  ASSUME NEW p \in Proc, SoundTrim(l[p])', TrimGoes(p),
         l'[p].pc \in Listing \cup {"prune_keys", "trim_ids"}
  PROVE  Goes(p)
<1>1. l'[p].pc \notin Never \cup PutPCs \cup Latest \cup TuplePCs \cup {"list_next", "get_saved"}
  BY DEF Never, PutPCs, Listing, Latest, TuplePCs, BuildPCs, DropPCs, RunPCs, CopyPCs
<1>. QED  BY <1>1 DEF Goes, Sound, SoundPut, SoundRead, PutGoes, GetGoes

\* The trim lists the thread.
LEMMA ListingGoes ==
  ASSUME TypeInv, ReadInv, NEW p \in Proc, PruneKeys(p) \/ TrimIds(p), l'[p].pc # "idle"
  PROVE  Goes(p)
<1>1. CASE PruneKeys(p) /\ ~ OverFloor(SaverOf[p], l[p].t, Cardinality(DOMAIN ck[l[p].t]))
  BY <1>1, PruneKeysStops, ReturnIs
<1>2. CASE TrimIds(p) /\ DOMAIN ck[l[p].t] = {}
  BY <1>2, TrimIdsStops, ReturnIs
<1>3. CASE \/ PruneKeys(p) /\ OverFloor(SaverOf[p], l[p].t, Cardinality(DOMAIN ck[l[p].t]))
           \/ TrimIds(p) /\ DOMAIN ck[l[p].t] # {}
  <2>1. /\ l[p].pc \in {"prune_keys", "trim_ids"} /\ l[p].t \in Thread /\ Only_l
        /\ l'[p].pc = "trim_read" /\ l'[p].ids = DOMAIN ck[l[p].t] /\ l'[p].t = l[p].t
        /\ l'[p].op = l[p].op /\ l'[p].keep = l[p].keep /\ l'[p].needed = l[p].needed
    BY <1>3, PruneKeysIs, TrimIdsIs
  <2>2. PICK t \in Thread : t = l[p].t
    BY <2>1
  <2>3. ck' = ck /\ done' = done
    BY <2>1, OnlyIs
  <2>4. DOMAIN ck[t] \in SUBSET Id /\ DOMAIN ck[t] \in SUBSET IdOrNo
    BY ReadIs, IdIs
  <2>5. DOMAIN ck[t] # {}
    <3>1. SUFFICES ASSUME DOMAIN ck[t] = {}
                   PROVE  FALSE
      OBVIOUS
    <3>2. OverFloor(SaverOf[p], t, 0)
      BY <1>3, <2>2, <3>1, FS_EmptySet
    <3>3. 0 > Limit
      BY <3>2, OverFloorIs, ConstantsAssumption
    <3>. QED  BY <3>3, ConstantsAssumption
  <2>6. Max(DOMAIN ck[t]) \in DOMAIN ck[t] /\ \A j \in DOMAIN ck[t] : j <= Max(DOMAIN ck[t])
    BY <2>4, <2>5, MaxIs
  <2>7. \A i \in DOMAIN ck[t] : i = Max(DOMAIN ck[t]) \/ \E j \in DOMAIN ck[t] : j > i
    <3>1. PICK m \in DOMAIN ck[t] : m = Max(DOMAIN ck[t])
      BY <2>6
    <3>2. \A i \in DOMAIN ck[t] : i \in Nat /\ i <= m
      BY <2>4, <2>6, <3>1, IdIs
    <3>. QED  BY <3>1, <3>2
  <2>8. Listed(l[p])'
    BY <2>1, <2>2, <2>3, <2>5, <2>7 DEF Listed, ReadInv
  <2>9. l[p].op # "delete_for_runs" /\ l[p].keep # 0 /\ l[p].needed = {}
    BY <2>1 DEF ReadInv, Sound, SoundTrim
  <2>10. SoundTrim(l[p])' /\ TrimGoes(p)
    BY <2>1, <2>3, <2>8, <2>9 DEF SoundTrim, TrimGoes, DropPCs
  <2>. QED  BY <2>1, <2>10, GoesTrimming DEF Listing
<1>. QED  BY <1>1, <1>2, <1>3

LEMMA TrimReadGoes ==
  ASSUME TypeInv, ReadInv, NEW p \in Proc, TrimRead(p), DoneGrows, TopStays
  PROVE  Goes(p)
<1>1. /\ l[p].pc = "trim_read" /\ l[p].t \in Thread /\ l'[p].pc = "trim_next"
      /\ l'[p].kept = NewestOf(l[p].ids, l[p].keep) /\ l'[p].t = l[p].t /\ l'[p].op = l[p].op
      /\ l'[p].ids = l[p].ids /\ l'[p].needed = l[p].needed
  BY TrimReadIs
<1>2. /\ Listed(l[p]) /\ l[p].op # "delete_for_runs" /\ l[p].keep # 0 /\ l[p].needed = {}
  BY <1>1 DEF ReadInv, Sound, SoundTrim, Listing
<1>3. l[p].ids \in SUBSET Id /\ l[p].ids # {} /\ l[p].keep \in Nat
  BY <1>2, AtIs DEF Local, Listed
<1>4. Splits(l'[p].ids, l'[p].kept)
  BY <1>1, <1>2, <1>3, NewestSplits
<1>5. Listed(l[p])'
  BY <1>1, <1>2, ListedStays
<1>6. SoundTrim(l[p])' /\ TrimGoes(p)
  BY <1>1, <1>2, <1>4, <1>5 DEF SoundTrim, TrimGoes, DropPCs, Listing
<1>. QED  BY <1>1, <1>6, GoesTrimming DEF Listing

LEMMA TrimNextGoes ==
  ASSUME TypeInv, ReadInv, Delta = {}, NEW p \in Proc, TrimNext(p), DoneGrows, TopStays
  PROVE  Goes(p)
<1>1. /\ l[p].pc = "trim_next" /\ l[p].t \in Thread /\ l'[p].pc = "trim_next"
      /\ l'[p].kept = l[p].kept /\ l'[p].t = l[p].t /\ l'[p].op = l[p].op
      /\ l'[p].ids = l[p].ids /\ l'[p].needed = l[p].needed
  BY TrimNextIs
<1>2. /\ Listed(l[p]) /\ l[p].op # "delete_for_runs" /\ l[p].needed = {} /\ Splits(l[p].ids, l[p].kept)
  BY <1>1 DEF ReadInv, Sound, SoundTrim, Listing
<1>3. Listed(l[p])'
  BY <1>1, <1>2, ListedStays
<1>4. SoundTrim(l[p])' /\ TrimGoes(p)
  BY <1>1, <1>2, <1>3 DEF SoundTrim, TrimGoes, DropPCs, Listing
<1>. QED  BY <1>1, <1>4, GoesTrimming DEF Listing

LEMMA TrimEndGoes ==
  ASSUME TypeInv, ReadInv, NEW p \in Proc, TrimEnd(p), DoneGrows, TopStays
  PROVE  Goes(p)
<1>1. /\ l[p].pc = "trim_next" /\ l[p].t \in Thread
      /\ l'[p].pc = (IF l[p].ids \ (l[p].kept \cup l[p].needed) = {} THEN "dropped" ELSE DropStart)
      /\ l'[p].kept = l[p].kept \cup l[p].needed
      /\ l'[p].doomed = l[p].ids \ (l[p].kept \cup l[p].needed)
      /\ l'[p].t = l[p].t /\ l'[p].op = l[p].op /\ l'[p].ids = l[p].ids
  BY TrimEndIs
<1>2. /\ Listed(l[p]) /\ l[p].op # "delete_for_runs" /\ l[p].needed = {} /\ Splits(l[p].ids, l[p].kept)
  BY <1>1 DEF ReadInv, Sound, SoundTrim, Listing
<1>3. Listed(l[p])'
  BY <1>1, <1>2, ListedStays
<1>4. l'[p].pc \in DropPCs
  BY <1>1 DEF DropPCs, DropStart
<1>5. l'[p].kept = l[p].kept /\ l'[p].doomed = l'[p].ids \ l'[p].kept
  BY <1>1, <1>2
<1>6. l'[p].pc \notin {"prune_keys", "trim_ids", "trim_read", "trim_next"}
  BY <1>4 DEF DropPCs
<1>7. SoundTrim(l[p])' /\ TrimGoes(p)
  BY <1>1, <1>2, <1>3, <1>4, <1>5, <1>6 DEF SoundTrim, TrimGoes, Listing
<1>. QED  BY <1>4, <1>7, GoesTrimming DEF Listing

LEMMA DroppingGoes ==
  ASSUME TypeInv, ReadInv, NEW p \in Proc, DoneGrows, TopStays,
         \/ DropRefs(p) \/ DropBlobKeys(p) \/ DropLatest(p) \/ DropBlobs(p) \/ DropWrites(p)
         \/ DropCheckpoints(p) \/ DropFix(p)
  PROVE  Goes(p)
<1>1. /\ l[p].pc \in DropPCs /\ l[p].t \in Thread /\ l'[p].pc \in DropPCs
      /\ l'[p].kept = l[p].kept /\ l'[p].doomed = l[p].doomed
      /\ l'[p].t = l[p].t /\ l'[p].op = l[p].op /\ l'[p].ids = l[p].ids
  <2>1. CASE DropRefs(p)
    BY <2>1, DropRefsIs DEF DropPCs
  <2>2. CASE DropBlobKeys(p)
    BY <2>2, DropBlobKeysIs DEF DropPCs
  <2>3. CASE DropLatest(p)
    BY <2>3, DropLatestIs DEF DropPCs
  <2>4. CASE DropBlobs(p)
    BY <2>4, DropBlobsIs DEF DropPCs
  <2>5. CASE DropWrites(p)
    BY <2>5, DropWritesIs DEF DropPCs
  <2>6. CASE DropCheckpoints(p)
    BY <2>6, DropCheckpointsIs DEF DropPCs
  <2>7. CASE DropFix(p)
    BY <2>7, DropFixIs DEF DropPCs
  <2>. QED  BY <2>1, <2>2, <2>3, <2>4, <2>5, <2>6, <2>7
<1>2. /\ Listed(l[p]) /\ l[p].op # "delete_for_runs" /\ Splits(l[p].ids, l[p].kept)
      /\ l[p].doomed = l[p].ids \ l[p].kept
  BY <1>1 DEF ReadInv, Sound, SoundTrim, Listing
<1>3. Listed(l[p])'
  BY <1>1, <1>2, ListedStays
<1>4. l'[p].pc \notin {"prune_keys", "trim_ids", "trim_read", "trim_next"}
  BY <1>1 DEF DropPCs
<1>5. SoundTrim(l[p])' /\ TrimGoes(p)
  BY <1>1, <1>2, <1>3, <1>4 DEF SoundTrim, TrimGoes, Listing
<1>. QED  BY <1>1, <1>5, GoesTrimming DEF Listing

LEMMA DroppedGoes ==
  ASSUME TypeInv, ReadInv, NEW p \in Proc, Dropped(p)
  PROVE  Goes(p)
<1>1. l[p].op # "delete_for_runs"
  BY DroppedIs DEF ReadInv, Sound, SoundTrim, Listing, DropPCs
<1>2. l'[p].pc = "idle"
  BY <1>1, DroppedIs
<1>. QED  BY <1>2, GoesElsewhere

LEMMA SurveysGoes ==
  ASSUME TypeInv, ReadInv, Delta = {}, NEW p \in Proc, Surveys(p), DoneGrows, TopStays
  PROVE  Goes(p)
<1>1. l[p].pc \notin {"walk_row", "walk_vals", "runs_next", "runs_read"}
  BY DEF ReadInv, Sound, SoundPut, Never, RunPCs
<1>2. ~ (WalkRow(p) \/ WalkVals(p) \/ RunsKeys(p) \/ RunsRead(p))
  BY <1>1 DEF WalkRow, WalkVals, RunsKeys, RunsRead, ReadStep, At
<1>3. CASE l'[p].pc = "idle"
  BY <1>3, GoesElsewhere
<1>4. CASE DeleteListWrites(p)
  <2>1. l'[p].pc \in DelPCs
    BY <1>4, DeleteListWritesIs DEF DelPCs
  <2>. QED  BY <2>1, GoesElsewhere
<1>. QED  BY <1>2, <1>3, <1>4, ListingGoes, TrimReadGoes, TrimNextGoes, TrimEndGoes, DroppingGoes
             DEF Surveys

LEMMA GoesPutting ==
  ASSUME NEW p \in Proc, SoundPut(l[p])', PutGoes(p), l'[p].pc \in PutPCs
  PROVE  Goes(p)
<1>1. l'[p].pc \notin Listing \cup DropPCs \cup Latest \cup TuplePCs
                       \cup {"list_next", "get_saved", "prune_keys", "trim_ids", "trim_next", "trim_read"}
  BY DEF PutPCs, Listing, Latest, TuplePCs, BuildPCs, DropPCs
<1>. QED  BY <1>1 DEF Goes, Sound, SoundTrim, SoundRead, TrimGoes, GetGoes

LEMMA PutBeginsGoes ==
  ASSUME TypeInv, ReadInv, Indexed, NEW p \in Proc, PutBegins(p)
  PROVE  Goes(p)
<1>1. /\ l'[p].t \in Thread /\ l'[p].id \notin UsedIds /\ done' = done
      /\ ~l'[p].publish /\ l'[p].pc = AfterHint
  BY PutBeginsIs DEF Publishes
<1>2. l'[p].pc \in PutPCs /\ l'[p].pc \notin Never
  BY <1>1 DEF AfterHint, PutPCs, Never, RunPCs, CopyPCs
<1>3. l'[p].id \notin done'[l'[p].t]
  BY <1>1 DEF ReadInv, UsedIds
<1>. QED  BY <1>1, <1>2, <1>3, GoesPutting DEF SoundPut, PutGoes

LEMMA PuttingGoes ==
  ASSUME TypeInv, ReadInv, NEW p \in Proc, PutHint(p) \/ PutBlobContains(p) \/ PutBlobs(p)
  PROVE  Goes(p)
<1>1. /\ l[p].pc \in PutPCs /\ l'[p].pc \in {"put_blobs", "put_rows"} /\ SamePut(p) /\ done' = done
  <2>1. CASE PutHint(p)
    BY <2>1, PutHintIs DEF hist, AfterHint, PutPCs, SamePut
  <2>2. CASE PutBlobContains(p)
    BY <2>2, PutBlobContainsIs, OnlyIs DEF PutPCs
  <2>3. CASE PutBlobs(p)
    BY <2>3, PutBlobsIs DEF hist, PutPCs, SamePut
  <2>. QED  BY <2>1, <2>2, <2>3
<1>2. l'[p].pc \in PutPCs /\ l'[p].pc \notin Never
  BY <1>1 DEF PutPCs, Never, RunPCs, CopyPCs
<1>3. ~l[p].publish /\ l[p].id \notin done[l[p].t]
  BY <1>1 DEF ReadInv, Sound, SoundPut
<1>. QED  BY <1>1, <1>2, <1>3, GoesPutting DEF SoundPut, PutGoes, SamePut

LEMMA BeginsGoes ==
  ASSUME TypeInv, ReadInv, Ordinary, NEW p \in Proc, Begins(p)
  PROVE  Goes(p)
<1>1. ck' = ck /\ done' = done /\ l'[p].needed = {}
  BY BeginsIs DEF store, hist, Fresh
<1>2. CASE \E t \in Thread : \E id \in {None} \cup DOMAIN ck[t] : GetTuple(p, t, id)
  <2>1. PICK t \in Thread : \E id \in {None} \cup DOMAIN ck[t] : GetTuple(p, t, id)
    BY <1>2
  <2>2. PICK id \in {None} \cup DOMAIN ck[t] : GetTuple(p, t, id)
    BY <2>1
  <2>3. id \in IdOrNo
    BY <2>2, ReadIs, IdIs
  <2>4. /\ l'[p].op = "get" /\ l'[p].t = t
        /\ l'[p].pc = (CASE id # None -> "get_saved" [] id = None /\ Indexed -> "get_max" [] OTHER -> "get_lt")
        /\ l'[p].bound = (IF id # None THEN None ELSE Newest(done[t] \cap DOMAIN ck[t]))
    BY <2>2, <2>3, GetTupleStarts
  <2>5. None \notin DOMAIN ck[t]
    BY NoneStored
  <2>6. CASE id # None
    <3>1. l'[p].pc = "get_saved" /\ l'[p].bound = None
      BY <2>4, <2>6
    <3>2. SoundRead(l[p])' /\ GetGoes(p)
      BY <1>1, <2>4, <2>5, <3>1 DEF SoundRead, GetGoes
    <3>. QED  BY <3>1, <3>2, GoesReading DEF Latest
  <2>7. CASE id = None
    <3>1. l'[p].pc = "get_max" /\ l'[p].bound = Newest(done[t] \cap DOMAIN ck[t])
      BY <2>4, <2>7 DEF Ordinary
    <3>2. Newest(done[t] \cap DOMAIN ck[t]) \in {None} \cup done[t]
      <4>1. done[t] \cap DOMAIN ck[t] \in SUBSET Id
        BY ReadIs
      <4>. QED  BY <4>1, NewestIs
    <3>3. l'[p].pc \notin TuplePCs
      BY <3>1 DEF TuplePCs, BuildPCs
    <3>4. SoundRead(l[p])' /\ GetGoes(p)
      BY <1>1, <2>4, <3>1, <3>2, <3>3 DEF SoundRead, GetGoes
    <3>. QED  BY <3>1, <3>4, GoesReading DEF Latest
  <2>. QED  BY <2>6, <2>7
<1>3. CASE l'[p].pc = "list_next" /\ l'[p].op = "list" /\ l'[p].bound = None
  <2>1. SoundRead(l[p])' /\ GetGoes(p)
    BY <1>3 DEF SoundRead, GetGoes, Latest, TuplePCs, BuildPCs
  <2>. QED  BY <1>3, <2>1, GoesReading
<1>4. CASE l'[p].pc = "trim_ids" /\ l'[p].op = "prune" /\ l'[p].keep = 1
  <2>1. SoundTrim(l[p])' /\ TrimGoes(p)
    BY <1>1, <1>4 DEF SoundTrim, TrimGoes, DropPCs, Listing
  <2>. QED  BY <1>4, <2>1, GoesTrimming
<1>5. CASE l'[p].pc = "del_ck"
  BY <1>5, GoesElsewhere DEF DelPCs
<1>. QED  BY <1>2, <1>3, <1>4, <1>5, BeginsIs DEF Ordinary

\* The row of a put is stored: one more checkpoint, which no other caller has.
LEMMA PutRowsGoes ==
  ASSUME TypeInv, ReadInv, NEW p \in Proc, PutRows(p)
  PROVE  DoneGrows /\ TopStays /\ OthersGo(p) /\ Goes(p)
<1>1. PICK t \in Thread, i \in Id : t = l[p].t /\ i = l[p].id
  BY PutIs, PutRowsIs, AtIs DEF Shape, PutPCs
<1>2. ~l[p].publish /\ i \notin done[t] /\ l[p].pc \in PutPCs
  BY <1>1, PutRowsIs DEF ReadInv, Sound, SoundPut, PutPCs
<1>3. /\ PutCk(p) /\ Ended(p) /\ done' = [done EXCEPT ![t] = @ \cup {i}] /\ arch' = arch
  BY <1>1, <1>2, PutRowsIs
<1>4. /\ ck \in [Thread -> Part(Id, Record)] /\ done \in [Thread -> SUBSET Id]
  BY DEF TypeInv, Stores, CkT, Archives
<1>5. /\ ck'[t] = Over(Row(i, Stored(l[p].rec)), ck[t]) /\ done'[t] = done[t] \cup {i}
      /\ \A u \in Thread : u # t => ck'[u] = ck[u] /\ done'[u] = done[u]
  BY <1>1, <1>3, <1>4 DEF PutCk, SetRows
<1>6. DOMAIN ck'[t] = DOMAIN ck[t] \cup {i}
  BY <1>5 DEF Over, Row
<1>7. i \in DOMAIN arch[t]
  BY <1>1, <1>2, PutIs
<1>8. DoneGrows
  BY <1>2, <1>3, <1>5, <1>6, <1>7 DEF ReadInv, DoneGrows
<1>9. TopStays
  BY <1>5, <1>6 DEF TopStays
<1>10. OthersGo(p)
  <2>1. ASSUME NEW q \in Proc, q # p
        PROVE  /\ l'[q] = l[q]
               /\ l[q].pc \in PutPCs => l[q].id \notin done'[l[q].t]
               /\ l[q].pc = "get_saved" /\ l[q].bound \in DOMAIN ck[l[q].t] \cap DOMAIN ck'[l[q].t] =>
                    l[q].id \in DOMAIN ck'[l[q].t]
    <3>1. l'[q] = l[q]
      BY <1>3, <2>1 DEF Ended
    <3>2. ASSUME l[q].pc \in PutPCs
          PROVE  l[q].id \notin done'[l[q].t]
      <4>1. l[q].t \in Thread /\ l[q].id \notin done[l[q].t]
        BY <3>2, PutIs DEF ReadInv, Sound, SoundPut
      <4>2. l[q].t = t => l[q].id # i
        BY <1>1, <1>2, <2>1, <3>2 DEF ReadInv, Apart
      <4>. QED  BY <1>5, <4>1, <4>2
    <3>3. ASSUME l[q].pc = "get_saved", l[q].bound \in DOMAIN ck[l[q].t]
          PROVE  l[q].id \in DOMAIN ck'[l[q].t]
      <4>1. l[q].t \in Thread /\ l[q].id \in DOMAIN ck[l[q].t]
        BY <3>3, AtIs DEF Shape, ReadInv, Sound, SoundRead
      <4>. QED  BY <1>5, <1>6, <4>1
    <3>. QED  BY <3>1, <3>2, <3>3
  <2>. QED  BY <2>1 DEF OthersGo
<1>11. Goes(p)
  <2>1. CASE l'[p].pc = "idle"
    BY <2>1, GoesElsewhere
  <2>2. CASE l'[p].pc = "prune_keys"
    <3>1. l'[p].op = "put" /\ l'[p].keep # 0 /\ l'[p].needed = {}
      BY <1>3, <2>2 DEF Ended
    <3>2. SoundTrim(l[p])' /\ TrimGoes(p)
      BY <2>2, <3>1 DEF SoundTrim, TrimGoes, DropPCs, Listing
    <3>. QED  BY <2>2, <3>2, GoesTrimming
  <2>. QED  BY <1>3, <2>1, <2>2 DEF Ended
<1>. QED  BY <1>8, <1>9, <1>10, <1>11

\* The rows a trim drops are older than the newest stored checkpoint, and older
\* than what a reader that has its bound reads.
LEMMA DropCheckpointsGoes ==
  ASSUME TypeInv, ReadInv, NEW p \in Proc, DropCheckpoints(p)
  PROVE  DoneGrows /\ TopStays /\ OthersGo(p)
<1>1. PICK t \in Thread : t = l[p].t
  BY DropCheckpointsIs
<1>2. PICK me : me = l[p] /\ me \in Local /\ me.pc = "drop_rows" /\ me.t = t
  BY <1>1, DropCheckpointsIs, AtIs
<1>3. /\ ck' = DropRows(ck, t, me.doomed) /\ done' = done /\ arch' = arch
      /\ \A q \in Proc : q # p => l'[q] = l[q]
  BY <1>1, <1>2, DropCheckpointsIs DEF hist
<1>4. /\ DOMAIN ck'[t] = DOMAIN ck[t] \ me.doomed
      /\ \A u \in Thread : u # t => ck'[u] = ck[u]
  <2>1. ck \in [Thread -> Part(Id, Record)]
    BY DEF TypeInv, Stores, CkT
  <2>2. ck'[t] = Drop(ck[t], me.doomed) /\ \A u \in Thread : u # t => ck'[u] = ck[u]
    BY <1>3, <2>1 DEF DropRows
  <2>. QED  BY <2>2 DEF Drop
<1>5. Listed(me) /\ Splits(me.ids, me.kept) /\ me.doomed = me.ids \ me.kept
  BY <1>2 DEF ReadInv, Sound, SoundTrim, Listing, DropPCs
<1>6. DOMAIN ck[t] \in SUBSET Id /\ DOMAIN ck[t] \in SUBSET IdOrNo
  BY ReadIs, IdIs
<1>7. DoneGrows
  <2>1. \A u \in Thread : DOMAIN ck'[u] \subseteq DOMAIN ck[u]
    BY <1>4
  <2>. QED  BY <1>3, <2>1 DEF ReadInv, DoneGrows
<1>8. ASSUME NEW i \in DOMAIN ck[t], NEW j \in DOMAIN ck[t], j > i
      PROVE  \E k \in DOMAIN ck'[t] : k > i
  <2>1. PICK m \in DOMAIN ck[t] : m = Max(DOMAIN ck[t]) /\ \A k \in DOMAIN ck[t] : k <= m
    BY <1>6, MaxIs
  <2>2. \A k \in DOMAIN ck[t] : k \in Nat
    BY <1>6, IdIs
  <2>3. m > i
    BY <1>8, <2>1, <2>2
  <2>4. \A k \in DOMAIN ck[t] : ~ (k > m)
    BY <2>1, <2>2
  <2>5. m \notin me.doomed
    BY <1>2, <1>5, <2>1, <2>4 DEF Listed, Splits
  <2>. QED  BY <1>4, <2>1, <2>3, <2>5
<1>9. TopStays
  BY <1>4, <1>8 DEF TopStays
<1>10. ASSUME NEW q \in Proc, q # p, l[q].pc = "get_saved",
              l[q].bound \in DOMAIN ck[l[q].t] \cap DOMAIN ck'[l[q].t]
       PROVE  l[q].id \in DOMAIN ck'[l[q].t]
  <2>1. /\ l[q].t \in Thread /\ l[q].id \in DOMAIN ck[l[q].t] /\ l[q].id >= l[q].bound
    BY <1>10, AtIs DEF Shape, ReadInv, Sound, SoundRead
  <2>2. SUFFICES ASSUME l[q].t = t, l[q].id \in me.doomed
                 PROVE  FALSE
    BY <1>4, <2>1
  <2>3. l[q].bound \in me.ids \/ l[q].id = Max(me.ids)
    BY <1>2, <1>5, <1>10, <2>2 DEF ReadInv, Apart, Listing, DropPCs
  <2>4. l[q].bound \in me.kept
    BY <1>4, <1>5, <1>10, <2>2, <2>3 DEF Splits
  <2>5. l[q].id < l[q].bound
    BY <1>5, <2>2, <2>4 DEF Splits
  <2>6. l[q].id \in Nat /\ l[q].bound \in Nat
    BY <1>6, <1>10, <2>1, <2>2, IdIs
  <2>. QED  BY <2>1, <2>5, <2>6
<1>11. ASSUME NEW q \in Proc, q # p, l[q].pc \in PutPCs
       PROVE  l[q].id \notin done'[l[q].t]
  BY <1>3, <1>11 DEF ReadInv, Sound, SoundPut
<1>12. OthersGo(p)
  BY <1>3, <1>10, <1>11 DEF OthersGo
<1>. QED  BY <1>7, <1>9, <1>12

LEMMA DeleteCkGoes ==
  ASSUME TypeInv, ReadInv, NEW p \in Proc, DeleteCk(p)
  PROVE  DoneGrows /\ TopStays /\ OthersGo(p) /\ Goes(p)
<1>1. PICK t \in Thread : t = l[p].t
  BY DeleteCkIs
<1>2. /\ ck' = [ck EXCEPT ![t] = Empty] /\ done' = done /\ arch' = arch
      /\ l'[p].pc = "del_wr_list" /\ \A q \in Proc : q # p => l'[q] = l[q]
  BY <1>1, DeleteCkIs DEF hist
<1>3. DOMAIN ck'[t] = {} /\ \A u \in Thread : u # t => ck'[u] = ck[u]
  <2>1. ck \in [Thread -> Part(Id, Record)]
    BY DEF TypeInv, Stores, CkT
  <2>. QED  BY <1>2, <2>1 DEF Empty
<1>4. DoneGrows
  <2>1. \A u \in Thread : DOMAIN ck'[u] \subseteq DOMAIN ck[u]
    BY <1>3
  <2>. QED  BY <1>2, <2>1 DEF ReadInv, DoneGrows
<1>5. TopStays
  BY <1>3 DEF TopStays
<1>6. ASSUME NEW q \in Proc, q # p, l[q].pc = "get_saved",
              l[q].bound \in DOMAIN ck[l[q].t] \cap DOMAIN ck'[l[q].t]
       PROVE  l[q].id \in DOMAIN ck'[l[q].t]
  <2>1. l[q].t \in Thread /\ l[q].id \in DOMAIN ck[l[q].t]
    BY <1>6, AtIs DEF Shape, ReadInv, Sound, SoundRead
  <2>. QED  BY <1>3, <1>6, <2>1
<1>7. ASSUME NEW q \in Proc, q # p, l[q].pc \in PutPCs
      PROVE  l[q].id \notin done'[l[q].t]
  BY <1>2, <1>7 DEF ReadInv, Sound, SoundPut
<1>8. OthersGo(p)
  BY <1>2, <1>6, <1>7 DEF OthersGo
<1>9. Goes(p)
  BY <1>2, GoesElsewhere DEF DelPCs
<1>. QED  BY <1>4, <1>5, <1>8, <1>9

\* Every other step leaves the checkpoints and the finished puts alone.
Aside(p) ==
  \/ PutBegins(p) \/ WritesBegin(p) \/ Begins(p) \/ PutHint(p) \/ PutBlobContains(p) \/ PutBlobs(p)
  \/ CheckWrites(p) \/ FlushWrites(p) \/ Reading(p) \/ Surveys(p)
  \/ DropBlobs(p) \/ DropWrites(p) \/ DropFix(p) \/ Dropped(p)
  \/ DeleteWrites(p) \/ DeleteBlobs(p) \/ DeleteLatest(p)

LEMMA AsideStill ==
  ASSUME TypeInv, NEW p \in Proc, Aside(p)
  PROVE  ck' = ck /\ done' = done /\ \A q \in Proc : q # p => l'[q] = l[q]
<1>1. CASE PutBegins(p) \/ WritesBegin(p) \/ Begins(p)
  BY <1>1, PutBeginsIs, WritesBeginIs, BeginsIs DEF Fresh, store, hist
<1>2. CASE PutHint(p) \/ PutBlobContains(p) \/ PutBlobs(p)
  BY <1>2, PutHintIs, PutBlobContainsIs, PutBlobsIs, OnlyIs DEF store, hist
<1>3. CASE CheckWrites(p) \/ FlushWrites(p)
  BY <1>3, CheckWritesIs, FlushWritesIs, ReturnIs, OnlyIs DEF hist
<1>4. CASE Reading(p) \/ Surveys(p)
  BY <1>4, ReadingIs, SurveysIs, OnlyIs
<1>5. CASE DropBlobs(p) \/ DropWrites(p)
  BY <1>5, DropBlobsIs, DropWritesIs DEF hist
<1>6. CASE DropFix(p) \/ Dropped(p)
  BY <1>6, DropFixIs, DroppedIs DEF hist, store
<1>7. CASE DeleteWrites(p) \/ DeleteBlobs(p)
  BY <1>7, DeleteWritesIs, DeleteBlobsIs DEF hist
<1>8. CASE DeleteLatest(p)
  BY <1>8, DeleteLatestIs, ReturnIs DEF hist
<1>. QED  BY <1>1, <1>2, <1>3, <1>4, <1>5, <1>6, <1>7, <1>8 DEF Aside

LEMMA AsideGoes ==
  ASSUME TypeInv, ReadInv, Ordinary, NEW p \in Proc, Aside(p), DoneGrows, TopStays
  PROVE  Goes(p)
<1>0. Indexed /\ Delta = {}
  BY DEF Ordinary
<1>1. CASE WritesBegin(p) \/ CheckWrites(p) \/ FlushWrites(p)
  <2>1. l'[p].pc \in {"idle"} \cup WritePCs
    BY <1>1, WritesBeginIs, CheckWritesIs, FlushWritesIs, ReturnIs DEF WritePCs
  <2>. QED  BY <2>1, GoesElsewhere
<1>2. CASE DeleteWrites(p) \/ DeleteBlobs(p) \/ DeleteLatest(p)
  <2>1. l'[p].pc \in {"idle"} \cup DelPCs
    BY <1>2, DeleteWritesIs, DeleteBlobsIs, DeleteLatestIs, ReturnIs DEF DelPCs
  <2>. QED  BY <2>1, GoesElsewhere
<1>. QED  BY <1>0, <1>1, <1>2, PutBeginsGoes, PuttingGoes, BeginsGoes, ReadingGoes, SurveysGoes,
             DroppingGoes, DroppedGoes DEF Aside

LEMMA NextReadInv ==
  ASSUME TypeInv, TypeInv', Same, ReadInv, Ordinary, Next
  PROVE  ReadInv'
<1>1. PICK p \in Proc :
           \/ PutBegins(p) \/ WritesBegin(p) \/ Begins(p)
           \/ SnapshotStore(p) \/ RestoreStore(p)
           \/ PutHint(p) \/ PutBlobContains(p) \/ PutBlobs(p) \/ PutRows(p) \/ PutRest(p)
           \/ CheckWrites(p) \/ FlushWrites(p) \/ Reading(p) \/ GetPublish(p) \/ Surveys(p)
           \/ DropBlobs(p) \/ DropWrites(p) \/ DropCheckpoints(p) \/ DropFix(p) \/ Dropped(p)
           \/ DeleteCk(p) \/ DeleteWrites(p) \/ DeleteBlobs(p) \/ DeleteLatest(p)
           \/ CopyCk(p) \/ CopyWr(p) \/ CopyBl(p) \/ CopyLatest(p)
  BY NextIs
<1>2. ~ (PutRest(p) \/ GetPublish(p) \/ CopyCk(p) \/ CopyWr(p) \/ CopyBl(p) \/ CopyLatest(p))
  <2>1. l[p].pc \notin Never
    BY DEF ReadInv, Sound, SoundPut
  <2>2. l[p].pc \notin {"put_rest", "get_publish", "copy_ck", "copy_wr", "copy_bl", "copy_lt"}
    BY <2>1 DEF Never, CopyPCs
  <2>. QED  BY <2>2 DEF PutRest, GetPublish, CopyCk, CopyWr, CopyBl, CopyLatest, At
<1>3. ~ RestoreStore(p)
  BY DEF RestoreStore, Call, Ordinary
<1>4. CASE SnapshotStore(p)
  <2>1. ck' = ck /\ done' = done /\ arch' = arch /\ l' = l
    BY <1>4 DEF SnapshotStore, store, hist
  <2>2. \A q \in Proc : Sound(l[q])' = Sound(l[q])
    BY <2>1 DEF Sound, SoundPut, SoundTrim, SoundRead, Listed
  <2>. QED  BY <2>1, <2>2 DEF ReadInv, Apart
<1>5. CASE PutRows(p)
  BY <1>5, PutRowsGoes, ReadInvStep
<1>6. CASE DeleteCk(p)
  BY <1>6, DeleteCkGoes, ReadInvStep
<1>7. CASE DropCheckpoints(p)
  BY <1>7, DropCheckpointsGoes, DroppingGoes, ReadInvStep
<1>8. CASE Aside(p)
  <2>1. ck' = ck /\ done' = done /\ \A q \in Proc : q # p => l'[q] = l[q]
    BY <1>8, AsideStill
  <2>2. DoneGrows /\ TopStays
    BY <2>1, NextLater, DoneStill
  <2>3. OthersGo(p)
    BY <2>1, OthersStill
  <2>. QED  BY <1>8, <2>2, <2>3, AsideGoes, ReadInvStep
<1>. QED  BY <1>1, <1>2, <1>3, <1>4, <1>5, <1>6, <1>7, <1>8 DEF Aside

LEMMA InitReadInv ==
  ASSUME Init
  PROVE  ReadInv
<1>1. \A p \in Proc : l[p].pc = "idle"
  BY DEF Init, Locals0
<1>2. ASSUME NEW p \in Proc
      PROVE  Sound(l[p])
  <2>1. l[p].pc \notin Never \cup PutPCs \cup Listing \cup Latest \cup {"list_next", "prune_keys", "trim_ids"}
    BY <1>1 DEF Never, PutPCs, Listing, Latest, TuplePCs, BuildPCs, DropPCs, RunPCs, CopyPCs
  <2>2. l[p].pc \notin DropPCs \cup TuplePCs \cup {"trim_next", "trim_read", "get_saved"}
    BY <2>1 DEF Listing, Latest
  <2>. QED  BY <2>1, <2>2 DEF Sound, SoundPut, SoundTrim, SoundRead
<1>3. \A t \in Thread : DOMAIN ck[t] \subseteq done[t] /\ done[t] \subseteq DOMAIN arch[t]
  BY DEF Init, Row, Empty
<1>4. \A p, q \in Proc : Apart(p, q)
  BY <1>1 DEF Apart, PutPCs
<1>. QED  BY <1>2, <1>3, <1>4 DEF ReadInv

\* A get_tuple that asks for the latest checkpoint on a store that indexes
\* max_key is never older than a checkpoint whose put had returned, in any saver,
\* before the call began and that is still stored: however many callers put, trim,
\* prune and delete threads between the read of the newest id and the read of its
\* row.  The threads have plain channels, and no operator copies a thread, deletes
\* by run or rolls the store back at the same time.
THEOREM ReadsFresh ==
  ASSUME Indexed, Delta = {},
         \A p \in Proc : Ops[p] \cap {"delete_for_runs", "copy_thread", "restore"} = {}
  PROVE  Spec => []FreshRead
<1>0. Ordinary
  BY DEF Ordinary
<1>1. ASSUME TypeInv, TypeInv', Same, ReadInv, [Next]_vars
      PROVE  ReadInv'
  <2>1. CASE Next
    BY <1>0, <1>1, <2>1, NextReadInv
  <2>2. CASE UNCHANGED vars
    <3>1. ck' = ck /\ done' = done /\ arch' = arch /\ l' = l
      BY <2>2 DEF vars, store, hist
    <3>2. \A q \in Proc : Sound(l[q])' = Sound(l[q])
      BY <3>1 DEF Sound, SoundPut, SoundTrim, SoundRead, Listed
    <3>. QED  BY <1>1, <3>1, <3>2 DEF ReadInv, Apart
  <2>. QED  BY <1>1, <2>1, <2>2
<1>2. ASSUME ReadInv
      PROVE  FreshRead
  BY <1>2 DEF ReadInv, Sound, SoundRead, TuplePCs, FreshRead, At
<1>. QED  BY <1>1, <1>2, InitReadInv, AlwaysTyped, AlwaysSame, PTL DEF Spec

-----------------------------------------------------------------------------
(* Retention bounds a thread *)

\* The newest n are no more than n: all but the oldest of them are newer than it.
LEMMA NewestFew ==
  ASSUME NEW S \in SUBSET Id, NEW n \in Nat
  PROVE  Cardinality(NewestOf(S, n)) <= n /\ NewestOf(S, n) \in SUBSET S
<1>1. PICK N \in SUBSET S : N = NewestOf(S, n)
  BY DEF NewestOf
<1>2. CASE N = {}
  BY <1>1, <1>2, FS_EmptySet
<1>3. CASE N # {}
  <2>1. N \in SUBSET IdOrNo
    BY IdIs
  <2>2. PICK m \in N : \A j \in N : m <= j
    BY <1>3, <2>1, MaxIs
  <2>3. PICK A \in SUBSET S : A = {j \in S : j > m}
    OBVIOUS
  <2>4. Cardinality(A) < n
    BY <1>1, <2>2, <2>3 DEF NewestOf
  <2>5. N \subseteq A \cup {m}
    <3>1. \A j \in N : j \in Nat
      BY IdIs
    <3>2. \A j \in N : j = m \/ j > m
      BY <2>2, <3>1
    <3>. QED  BY <2>3, <3>2
  <2>6. IsFiniteSet(A) /\ Cardinality(A) \in Nat
    BY IdsFinite, IdIs
  <2>7. IsFiniteSet(A \cup {m}) /\ Cardinality(A \cup {m}) <= Cardinality(A) + 1
    <3>1. /\ IsFiniteSet(A \cup {m})
          /\ Cardinality(A \cup {m}) = IF m \in A THEN Cardinality(A) ELSE Cardinality(A) + 1
      BY <2>6, FS_AddElement
    <3>. QED  BY <2>6, <3>1
  <2>8. Cardinality(N) <= Cardinality(A \cup {m}) /\ Cardinality(N) \in Nat /\ Cardinality(A \cup {m}) \in Nat
    BY <2>5, <2>7, FS_Subset, FS_CardinalityType
  <2>. QED  BY <1>1, <2>4, <2>6, <2>7, <2>8
<1>. QED  BY <1>1, <1>2, <1>3

LEMMA FewerIs ==
  ASSUME NEW T \in SUBSET Id, NEW S \in SUBSET T
  PROVE  Cardinality(S) <= Cardinality(T) /\ Cardinality(S) \in Nat /\ Cardinality(T) \in Nat
<1>1. IsFiniteSet(T) /\ S \in SUBSET Id
  BY IdsFinite
<1>. QED  BY <1>1, FS_Subset, IdsFinite, IdIs

\* The limit and its slack.
Room == Limit + Max({PruneSlack, Limit \div 4})

LEMMA RoomIs == Room \in Nat /\ Limit <= Room
<1>1. Limit \in Nat /\ PruneSlack \in Nat /\ Limit \div 4 \in Nat
  BY ConstantsAssumption
<1>2. Max({PruneSlack, Limit \div 4}) \in Nat
  BY <1>1, MaxOfTwo
<1>. QED  BY <1>1, <1>2 DEF Room

\* A thread that is not trimmed fits, as no trim kept more than the limit.
LEMMA UnderFloorIs ==
  ASSUME TypeInv, NEW s \in Saver, NEW t \in Thread, NEW n \in Nat, ~ OverFloor(s, t, n),
         prune_floor[s][t] <= Limit
  PROVE  n <= Room
<1>1. prune_floor[s][t] \in Nat /\ Limit \in Nat /\ PruneSlack \in Nat
  <2>1. prune_floor[s][t] \in IdOrNo
    BY DEF TypeInv, Hints, LtT
  <2>. QED  BY <2>1, IdIs, ConstantsAssumption
<1>2. PICK last \in Nat : (last = IF prune_floor[s][t] = 0 THEN Limit ELSE prune_floor[s][t]) /\ last <= Limit
  BY <1>1
<1>3. Max({Limit, last}) = Limit
  <2>1. Max({Limit, last}) \in {Limit, last} /\ Max({Limit, last}) >= Limit
    BY <1>1, MaxOfTwo
  <2>. QED  BY <1>1, <1>2, <2>1
<1>4. ~ (n > Limit + Max({PruneSlack, Limit \div 4}))
  BY <1>2, <1>3 DEF OverFloor
<1>. QED  BY <1>4, RoomIs DEF Room

\* What each call does not do where there are no delta channels and no copies, and
\* what the trim after a put keeps.
Limited(me) ==
  /\ me.pc \notin CopyPCs \cup {"walk_row", "walk_vals"}
  /\ me.pc \in {"trim_ids"} \cup RunPCs => me.op # "put"
  /\ me.pc = "prune_keys" => me.op = "put"
  /\ me.pc \in {"prune_keys", "trim_ids", "trim_read", "trim_next"} => me.needed = {}
  /\ me.pc \in {"prune_keys", "trim_read"} /\ me.op = "put" => me.keep = Limit
  /\ me.pc \in {"trim_next"} \cup DropPCs /\ me.op = "put" => Cardinality(me.kept) <= Limit

\* The rows a trim is about to drop.
Going(me) ==
  CASE me.pc = "trim_read" -> me.ids \ NewestOf(me.ids, me.keep)
    [] me.pc = "trim_next" -> me.ids \ me.kept
    [] OTHER -> me.doomed

CaringPCs == {"trim_read", "trim_next", "drop_refs", "drop_blob_keys", "drop_blobs", "drop_writes",
              "drop_rows"}

\* A put that will look at how many checkpoints the thread has, or whose trim
\* leaves few enough.
Cares(q, t) ==
  /\ l[q].t = t
  /\ \/ l[q].pc \in {"put_rest", "prune_keys"}
     \/ l[q].pc \in CaringPCs /\ l[q].op = "put" /\ Cardinality(DOMAIN ck[t] \ Going(l[q])) <= Limit

Within(t) == Cardinality(DOMAIN ck[t]) <= Room

Floors == \A s \in Saver, t \in Thread : prune_floor[s][t] <= Limit

Restorable == backup # <<>> /\ \E p \in Proc : "restore" \in Ops[p]

RetInv ==
  /\ Floors
  /\ \A p \in Proc : Limited(l[p])
  /\ \A t \in Thread : Within(t) \/ \E q \in Proc : Cares(q, t)
  /\ Restorable => \A t \in Thread : Cardinality(DOMAIN backup[1][t]) <= Room

LEMMA LimitedElsewhere ==
  ASSUME NEW p \in Proc,
         l'[p].pc \notin CopyPCs \cup RunPCs \cup DropPCs \cup {"prune_keys", "trim_ids", "trim_read",
                            "trim_next", "walk_row", "walk_vals"}
  PROVE  Limited(l[p])'
  BY DEF Limited

\* While rows are only dropped a thread stays within its bound, and so does what
\* another caller's trim leaves.
LEMMA ShrinkWithin ==
  ASSUME TypeInv, Shrinks, NEW t \in Thread, Within(t)
  PROVE  Within(t)'
<1>1. DOMAIN ck[t] \in SUBSET Id /\ DOMAIN ck'[t] \in SUBSET DOMAIN ck[t]
  BY ReadIs DEF Shrinks
<1>2. PICK m, n \in Nat : m = Cardinality(DOMAIN ck'[t]) /\ n = Cardinality(DOMAIN ck[t]) /\ m <= n
  BY <1>1, FewerIs
<1>. QED  BY <1>2, RoomIs DEF Within, Room

LEMMA ShrinkCares ==
  ASSUME TypeInv, Shrinks, NEW t \in Thread, NEW q \in Proc, l'[q] = l[q], Cares(q, t)
  PROVE  Cares(q, t)'
<1>1. DOMAIN ck[t] \in SUBSET Id /\ DOMAIN ck'[t] \in SUBSET DOMAIN ck[t]
  BY ReadIs DEF Shrinks
<1>2. PICK G : G = Going(l[q]) /\ G = Going(l[q])'
  BY DEF Going
<1>3. DOMAIN ck[t] \ G \in SUBSET Id /\ DOMAIN ck'[t] \ G \in SUBSET (DOMAIN ck[t] \ G)
  BY <1>1
<1>4. PICK m, n \in Nat : m = Cardinality(DOMAIN ck'[t] \ G) /\ n = Cardinality(DOMAIN ck[t] \ G) /\ m <= n
  BY <1>3, FewerIs
<1>5. n <= Limit => m <= Limit
  BY <1>4, ConstantsAssumption
<1>. QED  BY <1>2, <1>4, <1>5 DEF Cares

\* A step that puts nothing: the caller that takes it goes on caring, or is done.
CaresGoes(p) == \A t \in Thread : Cares(p, t) => Cares(p, t)' \/ Within(t)'

LEMMA RetCalm ==
  ASSUME TypeInv, RetInv, NEW p \in Proc, Calm(p), CaresGoes(p), Limited(l[p])', Floors'
  PROVE  RetInv'
<1>1. \A q \in Proc : Limited(l[q])'
  <2>1. \A q \in Proc : q # p => l'[q] = l[q]
    BY DEF Calm
  <2>2. ASSUME NEW q \in Proc
        PROVE  Limited(l[q])'
    <3>1. CASE q = p
      BY <3>1
    <3>2. CASE q # p
      BY <2>1, <3>2 DEF RetInv, Limited
    <3>. QED  BY <3>1, <3>2
  <2>. QED  BY <2>2
<1>2. ASSUME NEW t \in Thread
      PROVE  Within(t)' \/ \E q \in Proc : Cares(q, t)'
  <2>1. CASE Within(t)
    BY <2>1, ShrinkWithin DEF Calm
  <2>2. ASSUME NEW q \in Proc, Cares(q, t)
        PROVE  Within(t)' \/ \E r \in Proc : Cares(r, t)'
    <3>1. CASE q = p
      BY <2>2, <3>1 DEF CaresGoes
    <3>2. CASE q # p
      BY <2>2, <3>2, ShrinkCares DEF Calm
    <3>. QED  BY <3>1, <3>2
  <2>. QED  BY <2>1, <2>2 DEF RetInv
<1>3. Restorable' => \A t \in Thread : Cardinality(DOMAIN backup'[1][t]) <= Room
  BY DEF RetInv, Restorable, Calm
<1>. QED  BY <1>1, <1>2, <1>3 DEF RetInv

LEMMA CaresNot ==
  ASSUME NEW p \in Proc, l[p].pc \notin CaringPCs \cup {"put_rest", "prune_keys"}
  PROVE  CaresGoes(p)
  BY DEF CaresGoes, Cares

LEMMA FloorsStay ==
  ASSUME Floors, prune_floor' = prune_floor
  PROVE  Floors'
  BY DEF Floors

\* Calls that neither put a row nor trim.
LEMMA RetElsewhere ==
  ASSUME TypeInv, RetInv, NEW p \in Proc,
         \/ WritesBegin(p) \/ PutHint(p) \/ PutBlobContains(p) \/ PutBlobs(p) \/ CheckWrites(p)
         \/ FlushWrites(p) \/ Reading(p) \/ GetPublish(p) \/ DeleteCk(p) \/ DeleteWrites(p)
         \/ DeleteBlobs(p) \/ DeleteLatest(p) \/ DeleteListWrites(p)
  PROVE  CaresGoes(p) /\ Limited(l[p])' /\ Floors'
<1>1. /\ l[p].pc \in {"idle"} \cup (PutPCs \ {"put_rest"}) \cup WritePCs \cup ReadPCs \cup {"get_publish"} \cup DelPCs
      /\ l'[p].pc \in {"idle"} \cup PutPCs \cup WritePCs \cup ReadPCs \cup {"get_publish"} \cup DelPCs
  <2>1. CASE WritesBegin(p)
    BY <2>1, WritesBeginIs DEF Fresh, WritePCs
  <2>2. CASE PutHint(p) \/ PutBlobContains(p) \/ PutBlobs(p)
    BY <2>2, PutHintIs, PutBlobContainsIs, PutBlobsIs DEF PutPCs, AfterHint
  <2>3. CASE CheckWrites(p) \/ FlushWrites(p)
    BY <2>3, CheckWritesIs, FlushWritesIs, ReturnIs DEF WritePCs
  <2>4. CASE Reading(p) \/ GetPublish(p)
    BY <2>4, ReadingIs, GetPublishIs DEF ReadPCs
  <2>5. CASE DeleteCk(p) \/ DeleteListWrites(p) \/ DeleteWrites(p)
    BY <2>5, DeleteCkIs, DeleteListWritesIs, DeleteWritesIs DEF DelPCs
  <2>6. CASE DeleteBlobs(p) \/ DeleteLatest(p)
    BY <2>6, DeleteBlobsIs, DeleteLatestIs, ReturnIs DEF DelPCs
  <2>. QED  BY <2>1, <2>2, <2>3, <2>4, <2>5, <2>6
<1>2. CaresGoes(p)
  <2>1. l[p].pc \notin CaringPCs \cup {"put_rest", "prune_keys"}
    BY <1>1 DEF PutPCs, WritePCs, ReadPCs, DelPCs, CaringPCs
  <2>. QED  BY <2>1, CaresNot
<1>3. Limited(l[p])'
  <2>1. l'[p].pc \notin CopyPCs \cup RunPCs \cup DropPCs \cup {"prune_keys", "trim_ids", "trim_read",
                            "trim_next", "walk_row", "walk_vals"}
    BY <1>1 DEF PutPCs, WritePCs, ReadPCs, DelPCs, CopyPCs, RunPCs, DropPCs
  <2>. QED  BY <2>1, LimitedElsewhere
<1>4. CASE DeleteLatest(p)
  <2>1. PICK s \in Saver, t \in Thread : prune_floor' = [prune_floor EXCEPT ![s][t] = 0]
    BY <1>4, DeleteLatestIs, ConstantsAssumption
  <2>2. prune_floor \in [Saver -> [Thread -> IdOrNo]]
    BY DEF TypeInv, Hints, LtT
  <2>3. \A r \in Saver, u \in Thread : prune_floor'[r][u] \in {0, prune_floor[r][u]}
    BY <2>1, <2>2
  <2>4. 0 <= Limit
    BY ConstantsAssumption
  <2>5. Floors'
    BY <2>3, <2>4 DEF RetInv, Floors
  <2>. QED  BY <1>2, <1>3, <2>5
<1>5. CASE ~DeleteLatest(p)
  <2>1. prune_floor' = prune_floor
    <3>1. CASE WritesBegin(p) \/ PutHint(p) \/ PutBlobContains(p) \/ PutBlobs(p)
      BY <3>1, WritesBeginIs, PutHintIs, PutBlobContainsIs, PutBlobsIs, OnlyIs DEF hints
    <3>2. CASE CheckWrites(p) \/ FlushWrites(p) \/ Reading(p) \/ GetPublish(p)
      BY <3>2, CheckWritesIs, FlushWritesIs, ReadingIs, GetPublishIs, OnlyIs DEF hints
    <3>3. CASE DeleteCk(p) \/ DeleteListWrites(p) \/ DeleteWrites(p) \/ DeleteBlobs(p)
      BY <3>3, DeleteCkIs, DeleteListWritesIs, DeleteWritesIs, DeleteBlobsIs, OnlyIs DEF hints
    <3>. QED  BY <1>5, <3>1, <3>2, <3>3
  <2>. QED  BY <1>2, <1>3, <2>1, FloorsStay DEF RetInv
<1>. QED  BY <1>4, <1>5

LEMMA RetBegins ==
  ASSUME TypeInv, RetInv, NEW p \in Proc, Begins(p), "copy_thread" \notin Ops[p]
  PROVE  CaresGoes(p) /\ Limited(l[p])' /\ Floors'
<1>1. l[p].pc = "idle" /\ l'[p].needed = {} /\ prune_floor' = prune_floor
  BY BeginsIs DEF Fresh, hints
<1>2. CaresGoes(p) /\ Floors'
  BY <1>1, CaresNot, FloorsStay DEF CaringPCs, RetInv
<1>3. CASE \E t \in Thread : \E id \in {None} \cup DOMAIN ck[t] : GetTuple(p, t, id)
  <2>1. PICK t \in Thread : \E id \in {None} \cup DOMAIN ck[t] : GetTuple(p, t, id)
    BY <1>3
  <2>2. PICK id \in {None} \cup DOMAIN ck[t] : GetTuple(p, t, id)
    BY <2>1
  <2>3. id \in IdOrNo
    BY <2>2, ReadIs, IdIs
  <2>4. l'[p].pc \in {"get_saved", "get_max", "get_lt"}
    BY <2>2, <2>3, GetTupleStarts
  <2>5. Limited(l[p])'
    BY <2>4, LimitedElsewhere DEF CopyPCs, RunPCs, DropPCs
  <2>. QED  BY <1>2, <2>5
<1>4. CASE l'[p].pc \in {"list_next", "del_ck"}
  BY <1>2, <1>4, LimitedElsewhere DEF CopyPCs, RunPCs, DropPCs
<1>5. CASE l'[p].pc = "trim_ids" /\ l'[p].op = "prune"
  BY <1>1, <1>2, <1>5 DEF Limited, CopyPCs, RunPCs, DropPCs
<1>6. CASE l'[p].pc = "runs_next" /\ l'[p].op = "delete_for_runs"
  BY <1>1, <1>2, <1>6 DEF Limited, CopyPCs, RunPCs, DropPCs
<1>. QED  BY <1>3, <1>4, <1>5, <1>6, BeginsIs

\* The trim counts and lists the thread ...
LEMMA RetPruneKeys ==
  ASSUME TypeInv, RetInv, NEW p \in Proc, PruneKeys(p)
  PROVE  CaresGoes(p) /\ Limited(l[p])'
<1>1. /\ l[p].pc = "prune_keys" /\ ck' = ck
  BY PruneKeysIs, PruneKeysStops, OnlyIs
<1>2. PICK t \in Thread : t = l[p].t
  BY <1>1, AtIs DEF Shape
<1>3. DOMAIN ck[t] \in SUBSET Id /\ Cardinality(DOMAIN ck[t]) \in Nat
  BY ReadIs, IdsFinite, IdIs
<1>4. CASE OverFloor(SaverOf[p], t, Cardinality(DOMAIN ck[t]))
  <2>1. /\ l'[p].pc = "trim_read" /\ l'[p].ids = DOMAIN ck[t] /\ l'[p].t = t
        /\ l'[p].op = l[p].op /\ l'[p].keep = l[p].keep /\ l'[p].needed = l[p].needed
    BY <1>2, <1>4, PruneKeysIs
  <2>2. Limited(l[p])'
    BY <1>1, <2>1 DEF RetInv, Limited, CopyPCs, RunPCs, DropPCs
  <2>3. CASE l[p].op = "put"
    <3>1. l'[p].keep = Limit
      BY <1>1, <2>1, <2>3 DEF RetInv, Limited
    <3>2. Going(l[p])' = DOMAIN ck[t] \ NewestOf(DOMAIN ck[t], Limit)
      BY <2>1, <3>1 DEF Going
    <3>3. DOMAIN ck'[t] \ Going(l[p])' = NewestOf(DOMAIN ck[t], Limit)
      BY <1>1, <3>2 DEF NewestOf
    <3>4. Cardinality(DOMAIN ck'[t] \ Going(l[p])') <= Limit
      BY <1>3, <3>3, NewestFew, ConstantsAssumption
    <3>5. Cares(p, t)'
      BY <2>1, <2>3, <3>4 DEF Cares, CaringPCs
    <3>. QED  BY <1>2, <2>2, <3>5 DEF CaresGoes, Cares
  <2>4. l[p].op = "put"
    BY <1>1 DEF RetInv, Limited
  <2>. QED  BY <2>3, <2>4
<1>5. CASE ~ OverFloor(SaverOf[p], t, Cardinality(DOMAIN ck[t]))
  <2>1. l'[p].pc = "idle"
    BY <1>2, <1>5, PruneKeysStops, ReturnIs
  <2>2. SaverOf[p] \in Saver /\ prune_floor[SaverOf[p]][t] <= Limit
    BY ConstantsAssumption DEF RetInv, Floors
  <2>3. Within(t)'
    BY <1>1, <1>3, <1>5, <2>2, UnderFloorIs DEF Within, Room
  <2>4. Limited(l[p])'
    BY <2>1, LimitedElsewhere DEF CopyPCs, RunPCs, DropPCs
  <2>. QED  BY <1>2, <2>3, <2>4 DEF CaresGoes, Cares
<1>. QED  BY <1>4, <1>5

\* ... chooses what stays ...
LEMMA RetTrims ==
  ASSUME TypeInv, RetInv, NEW p \in Proc, TrimIds(p) \/ TrimRead(p)
  PROVE  CaresGoes(p) /\ Limited(l[p])'
<1>1. CASE TrimIds(p)
  <2>1. l[p].pc = "trim_ids" /\ l[p].op # "put" /\ l[p].needed = {}
    BY <1>1, TrimIdsIs, TrimIdsStops DEF RetInv, Limited
  <2>2. CaresGoes(p)
    BY <2>1, CaresNot DEF CaringPCs
  <2>3. CASE l'[p].pc = "idle"
    BY <2>2, <2>3, LimitedElsewhere DEF CopyPCs, RunPCs, DropPCs
  <2>4. CASE l'[p].pc = "trim_read" /\ l'[p].op = l[p].op /\ l'[p].needed = l[p].needed
    BY <2>1, <2>2, <2>4 DEF Limited, CopyPCs, RunPCs, DropPCs
  <2>. QED  BY <1>1, <2>3, <2>4, TrimIdsIs, TrimIdsStops, ReturnIs
<1>2. CASE TrimRead(p)
  <2>1. /\ l[p].pc = "trim_read" /\ l'[p].pc = "trim_next" /\ ck' = ck /\ l'[p].ids = l[p].ids
        /\ l'[p].kept = NewestOf(l[p].ids, l[p].keep) /\ l'[p].t = l[p].t /\ l'[p].op = l[p].op
        /\ l'[p].needed = l[p].needed
    BY <1>2, TrimReadIs, OnlyIs
  <2>2. l[p].ids \in SUBSET Id /\ l[p].keep \in Nat
    BY AtIs DEF Local
  <2>3. (l[p].op = "put" => l[p].keep = Limit) /\ l[p].needed = {}
    BY <2>1 DEF RetInv, Limited
  <2>4. l[p].op = "put" => Cardinality(l'[p].kept) <= Limit
    BY <2>1, <2>2, <2>3, NewestFew
  <2>5. Limited(l[p])'
    BY <2>1, <2>3, <2>4 DEF Limited, CopyPCs, RunPCs, DropPCs
  <2>6. Going(l[p])' = Going(l[p])
    BY <2>1 DEF Going
  <2>7. CaresGoes(p)
    BY <2>1, <2>6 DEF CaresGoes, Cares, CaringPCs
  <2>. QED  BY <2>5, <2>7
<1>. QED  BY <1>1, <1>2

LEMMA RetTrimNext ==
  ASSUME TypeInv, RetInv, Delta = {}, NEW p \in Proc, TrimNext(p)
  PROVE  CaresGoes(p) /\ Limited(l[p])'
<1>1. /\ l[p].pc = "trim_next" /\ l'[p].pc = "trim_next" /\ ck' = ck /\ l'[p].ids = l[p].ids
      /\ l'[p].kept = l[p].kept /\ l'[p].t = l[p].t /\ l'[p].op = l[p].op
      /\ l'[p].needed = l[p].needed
  BY TrimNextIs, OnlyIs
<1>2. Limited(l[p])'
  BY <1>1 DEF RetInv, Limited, CopyPCs, RunPCs, DropPCs
<1>3. Going(l[p])' = Going(l[p])
  BY <1>1 DEF Going
<1>4. CaresGoes(p)
  BY <1>1, <1>3 DEF CaresGoes, Cares, CaringPCs
<1>. QED  BY <1>2, <1>4

LEMMA RetTrimEnd ==
  ASSUME TypeInv, RetInv, NEW p \in Proc, TrimEnd(p)
  PROVE  CaresGoes(p) /\ Limited(l[p])'
<1>1. /\ l[p].pc = "trim_next" /\ l[p].t \in Thread /\ ck' = ck /\ l'[p].t = l[p].t /\ l'[p].op = l[p].op
      /\ l'[p].pc = (IF l[p].ids \ (l[p].kept \cup l[p].needed) = {} THEN "dropped" ELSE DropStart)
      /\ l'[p].kept = l[p].kept \cup l[p].needed
      /\ l'[p].doomed = l[p].ids \ (l[p].kept \cup l[p].needed)
  BY TrimEndIs, OnlyIs
<1>2. l[p].needed = {} /\ (l[p].op = "put" => Cardinality(l[p].kept) <= Limit)
  BY <1>1 DEF RetInv, Limited
<1>3. l'[p].kept = l[p].kept /\ l'[p].doomed = l[p].ids \ l[p].kept
  BY <1>1, <1>2
<1>4. l'[p].pc \in {"dropped", "drop_refs", "drop_writes"}
  BY <1>1 DEF DropStart
<1>5. Limited(l[p])'
  BY <1>1, <1>2, <1>3, <1>4 DEF Limited, CopyPCs, RunPCs, DropPCs
<1>6. Going(l[p])' = Going(l[p])
  BY <1>1, <1>3, <1>4 DEF Going
<1>7. CASE l'[p].pc # "dropped"
  <2>1. l'[p].pc \in CaringPCs
    BY <1>4, <1>7 DEF CaringPCs
  <2>2. CaresGoes(p)
    BY <1>1, <1>6, <2>1 DEF CaresGoes, Cares
  <2>. QED  BY <1>5, <2>2
<1>8. CASE l'[p].pc = "dropped"
  <2>1. Going(l[p]) = {}
    BY <1>1, <1>2, <1>8 DEF Going, DropStart
  <2>2. ASSUME NEW t \in Thread, Cares(p, t)
        PROVE  Within(t)'
    <3>1. DOMAIN ck'[t] = DOMAIN ck[t] \ Going(l[p])
      BY <1>1, <2>1
    <3>2. Cardinality(DOMAIN ck'[t]) <= Limit
      BY <1>1, <2>2, <3>1 DEF Cares
    <3>3. Cardinality(DOMAIN ck'[t]) \in Nat
      BY <1>1, ReadIs, IdsFinite, IdIs
    <3>. QED  BY <3>2, <3>3, RoomIs, ConstantsAssumption DEF Within, Room
  <2>3. CaresGoes(p)
    BY <2>2 DEF CaresGoes
  <2>. QED  BY <1>5, <2>3
<1>. QED  BY <1>7, <1>8

\* ... and drops the rest, the rows near the end.
LEMMA RetDropping ==
  ASSUME TypeInv, RetInv, NEW p \in Proc,
         DropRefs(p) \/ DropBlobKeys(p) \/ DropBlobs(p) \/ DropWrites(p)
  PROVE  CaresGoes(p) /\ Limited(l[p])'
<1>1. /\ l[p].pc \in {"drop_refs", "drop_blob_keys", "drop_blobs", "drop_writes"}
      /\ l'[p].pc \in {"drop_blob_keys", "drop_blobs", "drop_writes", "drop_rows"}
      /\ ck' = ck /\ l'[p].t = l[p].t /\ l'[p].op = l[p].op /\ l'[p].kept = l[p].kept
      /\ l'[p].doomed = l[p].doomed
  <2>1. CASE DropRefs(p)
    BY <2>1, DropRefsIs, OnlyIs
  <2>2. CASE DropBlobKeys(p)
    BY <2>2, DropBlobKeysIs, OnlyIs
  <2>3. CASE DropBlobs(p)
    BY <2>3, DropBlobsIs
  <2>4. CASE DropWrites(p)
    BY <2>4, DropWritesIs
  <2>. QED  BY <2>1, <2>2, <2>3, <2>4
<1>2. Limited(l[p])'
  BY <1>1 DEF RetInv, Limited, CopyPCs, RunPCs, DropPCs
<1>3. Going(l[p])' = Going(l[p])
  BY <1>1 DEF Going
<1>4. CaresGoes(p)
  BY <1>1, <1>3 DEF CaresGoes, Cares, CaringPCs
<1>. QED  BY <1>2, <1>4

LEMMA RetDropCheckpoints ==
  ASSUME TypeInv, RetInv, NEW p \in Proc, DropCheckpoints(p)
  PROVE  CaresGoes(p) /\ Limited(l[p])'
<1>1. PICK t \in Thread : t = l[p].t
  BY DropCheckpointsIs
<1>2. /\ l[p].pc = "drop_rows" /\ l'[p].pc \in {"dropped", "drop_latest"}
      /\ ck' = DropRows(ck, t, l[p].doomed) /\ l'[p].op = l[p].op /\ l'[p].kept = l[p].kept
  BY <1>1, DropCheckpointsIs
<1>3. Limited(l[p])'
  BY <1>2 DEF RetInv, Limited, CopyPCs, RunPCs, DropPCs
<1>4. DOMAIN ck'[t] = DOMAIN ck[t] \ Going(l[p])
  <2>1. ck \in [Thread -> Part(Id, Record)] /\ Going(l[p]) = l[p].doomed
    BY <1>2 DEF TypeInv, Stores, CkT, Going
  <2>2. ck'[t] = Drop(ck[t], l[p].doomed)
    BY <1>2, <2>1 DEF DropRows
  <2>. QED  BY <2>1, <2>2 DEF Drop
<1>5. ASSUME NEW u \in Thread, Cares(p, u)
      PROVE  Within(u)'
  <2>1. u = t /\ Cardinality(DOMAIN ck'[t]) <= Limit
    BY <1>1, <1>2, <1>4, <1>5 DEF Cares
  <2>2. DOMAIN ck'[t] \in SUBSET Id
    BY <1>4, ReadIs
  <2>3. Cardinality(DOMAIN ck'[t]) \in Nat
    BY <2>2, IdsFinite, IdIs
  <2>. QED  BY <2>1, <2>3, RoomIs, ConstantsAssumption DEF Within, Room
<1>. QED  BY <1>3, <1>5 DEF CaresGoes

LEMMA RetAfter ==
  ASSUME TypeInv, RetInv, NEW p \in Proc, DropLatest(p) \/ DropFix(p) \/ RunsKeys(p) \/ RunsRead(p)
  PROVE  CaresGoes(p) /\ Limited(l[p])'
<1>1. CASE DropLatest(p) \/ DropFix(p)
  <2>1. /\ l[p].pc \in {"drop_latest", "drop_fix"} /\ l'[p].pc \in {"drop_fix", "dropped"}
        /\ l'[p].op = l[p].op /\ l'[p].kept = l[p].kept
    BY <1>1, DropLatestIs, DropFixIs
  <2>2. CaresGoes(p)
    BY <2>1, CaresNot DEF CaringPCs
  <2>3. Limited(l[p])'
    BY <2>1 DEF RetInv, Limited, CopyPCs, RunPCs, DropPCs
  <2>. QED  BY <2>2, <2>3
<1>2. CASE RunsKeys(p) \/ RunsRead(p)
  <2>1. /\ l[p].pc \in RunPCs
        /\ \/ l'[p].pc = "idle"
           \/ l'[p].pc \in {"runs_next", "runs_read", "drop_refs", "drop_writes"} /\ l'[p].op = l[p].op
    <3>1. CASE RunsKeys(p)
      BY <3>1, RunsKeysIs DEF RunPCs
    <3>2. CASE RunsRead(p)
      BY <3>2, RunsReadIs, RunsReadNone DEF RunPCs, DropStart
    <3>. QED  BY <1>2, <3>1, <3>2
  <2>2. CaresGoes(p)
    BY <2>1, CaresNot DEF CaringPCs, RunPCs
  <2>3. l[p].op # "put"
    BY <2>1 DEF RetInv, Limited
  <2>4. Limited(l[p])'
    <3>1. CASE l'[p].pc = "idle"
      BY <3>1, LimitedElsewhere DEF CopyPCs, RunPCs, DropPCs
    <3>2. CASE l'[p].pc \in {"runs_next", "runs_read", "drop_refs", "drop_writes"} /\ l'[p].op = l[p].op
      BY <2>3, <3>2 DEF Limited, CopyPCs, RunPCs, DropPCs
    <3>. QED  BY <2>1, <3>1, <3>2
  <2>. QED  BY <2>2, <2>4
<1>. QED  BY <1>1, <1>2

LEMMA RetDropped ==
  ASSUME TypeInv, RetInv, NEW p \in Proc, Dropped(p)
  PROVE  CaresGoes(p) /\ Limited(l[p])' /\ Floors'
<1>1. l[p].pc = "dropped" /\ CaresGoes(p)
  BY DroppedIs, CaresNot DEF CaringPCs
<1>2. Limited(l[p])'
  <2>1. CASE l'[p].pc = "idle"
    BY <2>1, LimitedElsewhere DEF CopyPCs, RunPCs, DropPCs
  <2>2. CASE l'[p].pc = "runs_next" /\ l'[p].op = "delete_for_runs"
    BY <2>2 DEF Limited, CopyPCs, RunPCs, DropPCs
  <2>. QED  BY <2>1, <2>2, DroppedIs
<1>3. CASE l[p].op # "put"
  BY <1>1, <1>2, <1>3, DroppedIs, FloorsStay DEF RetInv
<1>4. CASE l[p].op = "put"
  <2>1. PICK s \in Saver, t \in Thread : s = SaverOf[p] /\ t = l[p].t
    BY DroppedIs, ConstantsAssumption
  <2>2. PICK n \in IdOrNo : n = Cardinality(l[p].kept)
    <3>1. l[p].kept \in SUBSET Id
      BY AtIs DEF Local
    <3>. QED  BY <3>1, IdsFinite
  <2>3. n <= Limit
    BY <1>1, <1>4, <2>2 DEF RetInv, Limited, DropPCs
  <2>4. prune_floor' = [prune_floor EXCEPT ![s] = BoundedSet(@, t, n)]
    BY <1>4, <2>1, <2>2, DroppedIs
  <2>5. prune_floor \in [Saver -> LtT] /\ 0 <= Limit
    BY ConstantsAssumption DEF TypeInv, Hints
  <2>6. PICK h \in LtT : h = prune_floor[s]
    BY <2>5
  <2>7. \A u \in Thread : BoundedSet(h, t, n)[u] <= Limit
    <3>1. /\ BoundedSet(h, t, n)[t] = n
          /\ \A u \in Thread : u # t => BoundedSet(h, t, n)[u] \in {None, h[u]}
      BY BoundedSetIs
    <3>2. \A u \in Thread : h[u] <= Limit
      BY <2>6 DEF RetInv, Floors
    <3>. QED  BY <2>3, <2>5, <3>1, <3>2 DEF None
  <2>8. \A r \in Saver : prune_floor'[r] = IF r = s THEN BoundedSet(h, t, n) ELSE prune_floor[r]
    BY <2>4, <2>5, <2>6
  <2>9. Floors'
    BY <2>7, <2>8 DEF RetInv, Floors
  <2>. QED  BY <1>1, <1>2, <2>9
<1>. QED  BY <1>3, <1>4

LEMMA RetSurveys ==
  ASSUME TypeInv, RetInv, Delta = {}, NEW p \in Proc, Surveys(p)
  PROVE  CaresGoes(p) /\ Limited(l[p])' /\ Floors'
<1>1. Floors'
  BY SurveysIs, OnlyIs, FloorsStay DEF RetInv
<1>2. ~ (WalkRow(p) \/ WalkVals(p))
  <2>1. l[p].pc \notin {"walk_row", "walk_vals"}
    BY DEF RetInv, Limited
  <2>. QED  BY <2>1 DEF WalkRow, WalkVals, ReadStep, At
<1>. QED  BY <1>1, <1>2, RetPruneKeys, RetTrims, RetTrimNext, RetTrimEnd, RetDropping, RetAfter, RetElsewhere
             DEF Surveys

LEMMA RetDrops ==
  ASSUME TypeInv, RetInv, NEW p \in Proc,
         DropBlobs(p) \/ DropWrites(p) \/ DropCheckpoints(p) \/ DropFix(p)
  PROVE  CaresGoes(p) /\ Limited(l[p])' /\ Floors'
<1>1. prune_floor' = prune_floor
  BY DropBlobsIs, DropWritesIs, DropCheckpointsIs, DropFixIs DEF hints
<1>2. Floors'
  BY <1>1, FloorsStay DEF RetInv
<1>. QED  BY <1>2, RetDropping, RetDropCheckpoints, RetAfter

\* A put stores its row, and looks after the thread from then on.
LEMMA RetPutEnds ==
  ASSUME TypeInv, RetInv, Limit # 0, NEW p \in Proc, PutRows(p) \/ PutRest(p)
  PROVE  RetInv'
<1>1. /\ l[p].pc \in {"put_rows", "put_rest"} /\ prune_floor' = prune_floor /\ backup' = backup
      /\ PutCk(p) \/ ck' = ck
      /\ \/ l'[p].pc = "put_rest" /\ l'[p].t = l[p].t
         \/ /\ l'[p].pc = "prune_keys" /\ l'[p].t = l[p].t /\ l'[p].keep = Limit
            /\ l'[p].op = "put" /\ l'[p].needed = {}
      /\ \A q \in Proc : q # p => l'[q] = l[q]
  <2>1. CASE PutRows(p)
    BY <2>1, PutRowsIs DEF Ended, SamePut
  <2>2. CASE PutRest(p)
    BY <2>2, PutRestIs DEF Ended
  <2>. QED  BY <2>1, <2>2
<1>2. PICK t \in Thread : t = l[p].t
  BY <1>1, PutIs DEF PutPCs
<1>3. \A u \in Thread : u # t => ck'[u] = ck[u]
  <2>1. ck \in [Thread -> Part(Id, Record)]
    BY DEF TypeInv, Stores, CkT
  <2>. QED  BY <1>1, <1>2, <2>1 DEF PutCk, SetRows
<1>4. Floors'
  BY <1>1, FloorsStay DEF RetInv
<1>5. ASSUME NEW q \in Proc
      PROVE  Limited(l[q])'
  <2>1. CASE q # p
    BY <1>1, <2>1 DEF RetInv, Limited
  <2>2. CASE q = p
    BY <1>1, <2>2 DEF Limited, CopyPCs, RunPCs, DropPCs
  <2>. QED  BY <2>1, <2>2
<1>6. Cares(p, t)'
  BY <1>1, <1>2 DEF Cares
<1>7. ASSUME NEW u \in Thread, u # t
      PROVE  Within(u)' \/ \E q \in Proc : Cares(q, u)'
  <2>1. CASE Within(u)
    BY <1>3, <1>7, <2>1 DEF Within
  <2>2. ASSUME NEW q \in Proc, Cares(q, u)
        PROVE  Cares(q, u)'
    <3>1. q # p
      BY <1>2, <1>7, <2>2 DEF Cares
    <3>2. l'[q] = l[q] /\ ck'[u] = ck[u]
      BY <1>1, <1>3, <1>7, <3>1
    <3>3. Going(l[q])' = Going(l[q])
      BY <3>2 DEF Going
    <3>. QED  BY <2>2, <3>2, <3>3 DEF Cares
  <2>. QED  BY <2>1, <2>2 DEF RetInv
<1>8. Restorable' => \A u \in Thread : Cardinality(DOMAIN backup'[1][u]) <= Room
  BY <1>1 DEF RetInv, Restorable
<1>. QED  BY <1>4, <1>5, <1>6, <1>7, <1>8 DEF RetInv

LEMMA RetPutBegins ==
  ASSUME TypeInv, RetInv, NEW p \in Proc, PutBegins(p)
  PROVE  RetInv'
<1>1. /\ l[p].pc = "idle" /\ l'[p].pc \in {"put_hint", "put_blobs", "put_rows"} /\ ck' = ck
      /\ prune_floor' = prune_floor /\ backup' = backup /\ \A q \in Proc : q # p => l'[q] = l[q]
  BY PutBeginsIs DEF Fresh, store, hints, AfterHint
<1>2. Floors'
  BY <1>1, FloorsStay DEF RetInv
<1>3. ASSUME NEW q \in Proc
      PROVE  Limited(l[q])'
  <2>1. CASE q # p
    BY <1>1, <2>1 DEF RetInv, Limited
  <2>2. CASE q = p
    BY <1>1, <2>2, LimitedElsewhere DEF CopyPCs, RunPCs, DropPCs
  <2>. QED  BY <2>1, <2>2
<1>4. ASSUME NEW u \in Thread
      PROVE  Within(u)' \/ \E q \in Proc : Cares(q, u)'
  <2>1. CASE Within(u)
    BY <1>1, <2>1 DEF Within
  <2>2. ASSUME NEW q \in Proc, Cares(q, u)
        PROVE  Cares(q, u)'
    <3>1. q # p
      BY <1>1, <2>2 DEF Cares, CaringPCs
    <3>2. Shrinks
      BY <1>1, StillShrinks
    <3>. QED  BY <1>1, <2>2, <3>1, <3>2, ShrinkCares
  <2>. QED  BY <2>1, <2>2 DEF RetInv
<1>5. Restorable' => \A u \in Thread : Cardinality(DOMAIN backup'[1][u]) <= Room
  BY <1>1 DEF RetInv, Restorable
<1>. QED  BY <1>2, <1>3, <1>4, <1>5 DEF RetInv

\* A rollback by the only caller: the snapshot was taken between two calls.
LEMMA RetRollback ==
  ASSUME TypeInv, RetInv, \A p, q \in Proc : "restore" \in Ops[p] => q = p,
         NEW p \in Proc, SnapshotStore(p) \/ RestoreStore(p)
  PROVE  RetInv'
<1>1. l' = l /\ prune_floor' = prune_floor /\ l[p].pc = "idle"
  BY DEF SnapshotStore, RestoreStore, Call, At, hints
<1>2. Floors' /\ \A q \in Proc : Limited(l[q])'
  BY <1>1, FloorsStay DEF RetInv, Limited
<1>3. CASE SnapshotStore(p)
  <2>1. ck' = ck /\ backup' = <<ck, wr, bl, lt, awr>>
    BY <1>3 DEF SnapshotStore, store
  <2>2. \A t \in Thread : (Within(t)' <=> Within(t)) /\ \A q \in Proc : Cares(q, t)' <=> Cares(q, t)
    BY <1>1, <2>1 DEF Within, Cares, Going
  <2>3. ASSUME Restorable', NEW t \in Thread
        PROVE  Cardinality(DOMAIN backup'[1][t]) <= Room
    <3>1. \A q \in Proc : q = p
      BY <2>3 DEF Restorable
    <3>2. ~ \E q \in Proc : Cares(q, t)
      BY <1>1, <3>1 DEF Cares, CaringPCs
    <3>. QED  BY <2>1, <3>2 DEF RetInv, Within
  <2>. QED  BY <1>2, <2>2, <2>3 DEF RetInv
<1>4. CASE RestoreStore(p)
  <2>1. ck' = backup[1] /\ backup' = backup /\ backup # <<>> /\ "restore" \in Ops[p]
    BY <1>4 DEF RestoreStore, Call
  <2>2. \A t \in Thread : Within(t)'
    BY <2>1 DEF RetInv, Restorable, Within
  <2>. QED  BY <1>2, <2>1, <2>2 DEF RetInv, Restorable
<1>. QED  BY <1>3, <1>4

\* However many callers put into a thread and trim, prune and delete it at the same
\* time, through however many savers, and however the savers' hints come and go:
\* when no call is in progress a thread of plain channels has no more checkpoints
\* than max_checkpoints_per_thread and the slack.  Whoever stores the row that is
\* too many counts the thread afterwards.  Copies are left out, as they make a
\* thread longer without trimming it, and so are rollbacks while others work.
THEOREM RetentionHolds ==
  ASSUME \A p \in Proc : "copy_thread" \notin Ops[p],
         \A p, q \in Proc : "restore" \in Ops[p] => q = p
  PROVE  Spec => []RetentionBound
<1>. DEFINE Applies == Limit # 0 /\ Delta = {}
            Inv     == Applies => RetInv
<1>1. ASSUME TypeInv, Inv, [Next]_vars
      PROVE  Inv'
  <2>0. SUFFICES ASSUME Limit # 0, Delta = {}
                 PROVE  RetInv'
    OBVIOUS
  <2>. RetInv
    BY <1>1, <2>0
  <2>1. CASE Next
    <3>1. PICK p \in Proc :
           \/ PutBegins(p) \/ WritesBegin(p) \/ Begins(p)
           \/ SnapshotStore(p) \/ RestoreStore(p)
           \/ PutHint(p) \/ PutBlobContains(p) \/ PutBlobs(p) \/ PutRows(p) \/ PutRest(p)
           \/ CheckWrites(p) \/ FlushWrites(p) \/ Reading(p) \/ GetPublish(p) \/ Surveys(p)
           \/ DropBlobs(p) \/ DropWrites(p) \/ DropCheckpoints(p) \/ DropFix(p) \/ Dropped(p)
           \/ DeleteCk(p) \/ DeleteWrites(p) \/ DeleteBlobs(p) \/ DeleteLatest(p)
           \/ CopyCk(p) \/ CopyWr(p) \/ CopyBl(p) \/ CopyLatest(p)
      BY <1>1, <2>1, NextIs
    <3>2. ~ (CopyCk(p) \/ CopyWr(p) \/ CopyBl(p) \/ CopyLatest(p))
      <4>1. l[p].pc \notin CopyPCs
        BY DEF RetInv, Limited
      <4>. QED  BY <4>1 DEF CopyPCs, CopyCk, CopyWr, CopyBl, CopyLatest, At
    <3>3. CASE PutBegins(p)
      BY <1>1, <3>3, RetPutBegins
    <3>4. CASE SnapshotStore(p) \/ RestoreStore(p)
      BY <1>1, <3>4, RetRollback
    <3>5. CASE PutRows(p) \/ PutRest(p)
      BY <1>1, <2>0, <3>5, RetPutEnds
    <3>6. CASE Begins(p)
      BY <1>1, <3>6, RetBegins, CalmIs, RetCalm
    <3>7. CASE Surveys(p)
      BY <1>1, <2>0, <3>7, RetSurveys, CalmIs, RetCalm
    <3>8. CASE DropBlobs(p) \/ DropWrites(p) \/ DropCheckpoints(p) \/ DropFix(p)
      BY <1>1, <3>8, RetDrops, CalmIs, RetCalm
    <3>9. CASE Dropped(p)
      BY <1>1, <3>9, RetDropped, CalmIs, RetCalm
    <3>10. CASE \/ WritesBegin(p) \/ PutHint(p) \/ PutBlobContains(p) \/ PutBlobs(p) \/ CheckWrites(p)
                \/ FlushWrites(p) \/ Reading(p) \/ GetPublish(p) \/ DeleteCk(p) \/ DeleteWrites(p)
                \/ DeleteBlobs(p) \/ DeleteLatest(p)
      <4>1. CaresGoes(p) /\ Limited(l[p])' /\ Floors'
        BY <1>1, <3>10, RetElsewhere
      <4>2. Calm(p)
        BY <1>1, <3>10, CalmIs
      <4>. QED  BY <1>1, <4>1, <4>2, RetCalm
    <3>. QED  BY <3>1, <3>2, <3>3, <3>4, <3>5, <3>6, <3>7, <3>8, <3>9, <3>10
  <2>2. CASE UNCHANGED vars
    <3>1. ck' = ck /\ prune_floor' = prune_floor /\ backup' = backup /\ l' = l
      BY <2>2 DEF vars, store, hints
    <3>. QED  BY <3>1 DEF RetInv, Floors, Limited, Within, Cares, Going, Restorable
  <2>. QED  BY <1>1, <2>1, <2>2
<1>2. ASSUME Init
      PROVE  Inv
  <2>0. SUFFICES ASSUME Limit # 0
                 PROVE  RetInv
    OBVIOUS
  <2>1. \A p \in Proc : l[p].pc = "idle"
    BY <1>2 DEF Init, Locals0
  <2>2. Floors
    BY <1>2, ConstantsAssumption DEF Init, Floors
  <2>3. \A p \in Proc : Limited(l[p])
    BY <2>1 DEF Limited, CopyPCs, RunPCs, DropPCs
  <2>4. ASSUME NEW t \in Thread
        PROVE  Within(t)
    <3>1. DOMAIN ck[t] = {} \/ DOMAIN ck[t] = {1}
      BY <1>2 DEF Init, Row, Empty
    <3>2. Cardinality(DOMAIN ck[t]) \in {0, 1}
      BY <3>1, FS_EmptySet, FS_Singleton
    <3>3. Room >= 1
      BY <2>0, RoomIs, ConstantsAssumption
    <3>. QED  BY <3>2, <3>3, RoomIs DEF Within
  <2>5. ~ Restorable
    BY <1>2 DEF Init, Restorable
  <2>. QED  BY <2>2, <2>3, <2>4, <2>5 DEF RetInv
<1>3. ASSUME Inv
      PROVE  RetentionBound
  <2>1. ASSUME RetInv, Quiescent, NEW t \in Thread
        PROVE  Within(t)
    <3>1. ~ \E q \in Proc : Cares(q, t)
      BY <2>1 DEF Quiescent, At, Cares, CaringPCs
    <3>. QED  BY <2>1, <3>1 DEF RetInv
  <2>. QED  BY <1>3, <2>1 DEF RetentionBound, Within, Room
<1>. QED  BY <1>1, <1>2, <1>3, AlwaysTyped, PTL DEF Spec
=============================================================================

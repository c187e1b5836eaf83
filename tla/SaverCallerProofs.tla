-------------------------- MODULE SaverCallerProofs --------------------------
(***************************************************************************)
(* Theorems about Saver for a caller that is alone with the store: what it *)
(* leaves behind, what the latest pointer names, and what it reads back;   *)
(* and about the values of tuples when one caller alone changes            *)
(* checkpoints and the others read.                                        *)
(***************************************************************************)
EXTENDS SaverProofs

-----------------------------------------------------------------------------
(* Nothing outlives its checkpoint, with one caller *)

RefsOf(r) == {<<c, r.vers[c]>> : c \in Channel}
Refs(t)   == References(DOMAIN ck[t], ck[t])

CleanWr(t) == \A x \in DOMAIN wr[t] : x[1] \in DOMAIN ck[t]
CleanBl(t) == DOMAIN bl[t] \subseteq Refs(t)
CleanLt(t) == lt[t] \in {None} \cup DOMAIN ck[t]

\* Where a thread may hold writes or blobs without a checkpoint, or a pointer
\* to none.
DirtyWr == {"del_wr_list", "del_wr"}
DirtyBl == {"put_rows", "put_rest", "del_wr_list", "del_wr", "del_bl"}
DirtyLt == {"put_rest", "drop_latest", "drop_fix", "del_wr_list", "del_wr", "del_bl", "del_lt"}

Tidy(me) ==
  \A t \in Thread : /\ CleanWr(t) \/ (t = me.t /\ me.pc \in DirtyWr)
                    /\ CleanBl(t) \/ (t = me.t /\ me.pc \in DirtyBl)
                    /\ CleanLt(t) \/ (t = me.t /\ me.pc \in DirtyLt)

\* put: its blobs are those of its row, and where its row is.
TidyPut(me) ==
  /\ me.pc \in {"put_hint", "put_blobs"} => DOMAIN me.batch \cup me.todo \subseteq RefsOf(me.rec)
  /\ me.pc \in PutPCs /\ me.publish => ~Indexed
  /\ me.pc = "put_blobs" => Incremental
  /\ me.pc \in {"put_rows", "put_rest"} => DOMAIN bl[me.t] \subseteq Refs(me.t) \cup RefsOf(me.rec)
  /\ me.pc = "put_rest" =>
       /\ me.publish
       /\ IF RowOrder = "ck_first" THEN me.id \in DOMAIN ck[me.t] /\ CleanLt(me.t)
                                   ELSE lt[me.t] = me.id

TidyCall(me) ==
  /\ me.pc \in WritePCs => me.id \in DOMAIN ck[me.t] /\ \A x \in DOMAIN me.batch : x[1] = me.id
  /\ me.pc \in {"get_lt", "get_row", "get_keys", "get_publish", "drop_latest", "drop_fix"} => ~Indexed
  /\ me.pc = "get_publish" => me.id \in DOMAIN ck[me.t]
  /\ me.pc \in {"runs_next", "runs_read"} => me.recs = Empty
  /\ me.pc = "runs_read" => me.ids = DOMAIN ck[me.t]
  /\ me.pc \in CopyPCs => \E u \in Thread : /\ me.threads = {u} /\ u # me.t
                                            /\ me.pc # "copy_ck" => DOMAIN ck[me.t] \subseteq DOMAIN ck[u]

\* delete_thread: what is gone.
TidyDel(me) ==
  /\ me.pc \in DelPCs \ {"del_ck"} => DOMAIN ck[me.t] = {}
  /\ me.pc = "del_wr" => \A x \in DOMAIN wr[me.t] : x[1] \in me.todo

\* A trim: what it listed and read is what is stored.
TidyTrim(me) ==
  /\ me.pc \in {"trim_read", "trim_next", "walk_row", "walk_vals"} => me.ids = DOMAIN ck[me.t]
  /\ me.pc \in {"prune_keys", "trim_ids", "trim_read"} => me.needed = {}
  /\ me.pc \in {"trim_next", "walk_row", "walk_vals"} =>
       me.kept \subseteq me.ids /\ me.needed \subseteq me.ids
  /\ me.pc \in {"trim_next", "walk_row", "walk_vals", "drop_refs"} =>
       \A i \in DOMAIN me.recs : me.recs[i] = Get(ck[me.t], i)

\* _drop_checkpoints: what is referenced by what stays.
TidyDrop(me) ==
  /\ me.pc \in {"drop_refs", "drop_blob_keys", "drop_blobs", "drop_writes", "drop_rows"} =>
       me.kept \cup me.doomed = DOMAIN ck[me.t] /\ me.kept \cap me.doomed = {}
  /\ me.pc \in {"drop_refs", "drop_blob_keys", "drop_blobs"} => me.todo = me.doomed
  /\ me.pc \in {"drop_refs", "drop_blob_keys", "drop_blobs", "drop_writes"} => me.todo # {}
  /\ me.pc = "drop_blob_keys" => me.keys = References(me.kept, ck[me.t])
  /\ me.pc = "drop_blobs" => DOMAIN bl[me.t] \ me.keys \subseteq References(me.kept, ck[me.t])
  /\ me.pc \in {"drop_writes", "drop_rows"} => DOMAIN bl[me.t] \subseteq References(me.kept, ck[me.t])
  /\ me.pc = "drop_writes" => \A x \in DOMAIN wr[me.t] : x[1] \in me.kept \cup me.todo
  /\ me.pc = "drop_writes" => me.todo \subseteq me.doomed
  /\ me.pc = "drop_rows" => \A x \in DOMAIN wr[me.t] : x[1] \in me.kept
  /\ me.pc \in {"drop_latest", "drop_fix"} => DOMAIN ck[me.t] = me.kept
  /\ me.pc = "drop_latest" => lt[me.t] \in {None} \cup me.kept \cup me.doomed

\* The store and the snapshot of it: no pointer on an indexed store, no blobs
\* without incremental storage.
TidyBase ==
  /\ Indexed => \A t \in Thread : lt[t] = None
  /\ ~Incremental => \A t \in Thread : DOMAIN bl[t] = {}

TidyBackup ==
  backup # <<>> =>
    \A t \in Thread :
      /\ \A x \in DOMAIN backup[2][t] : x[1] \in DOMAIN backup[1][t]
      /\ DOMAIN backup[3][t] \subseteq References(DOMAIN backup[1][t], backup[1][t])
      /\ backup[4][t] \in {None} \cup DOMAIN backup[1][t]
      /\ Indexed => backup[4][t] = None
      /\ ~Incremental => DOMAIN backup[3][t] = {}

TidyInv(p) ==
  /\ Tidy(l[p]) /\ TidyPut(l[p]) /\ TidyCall(l[p]) /\ TidyDel(l[p]) /\ TidyTrim(l[p]) /\ TidyDrop(l[p])
  /\ TidyBase /\ TidyBackup

LEMMA NotPut ==
  ASSUME NEW p \in Proc, l'[p].pc \notin PutPCs
  PROVE  TidyPut(l[p])'
  BY DEF TidyPut, PutPCs

LEMMA NotCall ==
  ASSUME NEW p \in Proc,
         l'[p].pc \notin WritePCs \cup RunPCs \cup CopyPCs
                           \cup {"get_lt", "get_row", "get_keys", "get_publish", "drop_latest", "drop_fix"}
  PROVE  TidyCall(l[p])'
  BY DEF TidyCall, RunPCs

LEMMA NotDel ==
  ASSUME NEW p \in Proc, l'[p].pc \notin DelPCs \ {"del_ck"}
  PROVE  TidyDel(l[p])'
  BY DEF TidyDel, DelPCs

LEMMA NotTrim ==
  ASSUME NEW p \in Proc, l'[p].pc \notin TrimPCs \cup {"drop_refs"}
  PROVE  TidyTrim(l[p])'
  BY DEF TidyTrim, TrimPCs

LEMMA NotDrop ==
  ASSUME NEW p \in Proc, l'[p].pc \notin DropPCs \ {"dropped"}
  PROVE  TidyDrop(l[p])'
  BY DEF TidyDrop, DropPCs

\* The parts of a call that have no obligations.
RestPCs == {"idle", "get_max", "get_saved", "got", "list_next", "dropped", "del_ck"} \cup BuildPCs

Duties(me) == TidyPut(me) /\ TidyCall(me) /\ TidyDel(me) /\ TidyTrim(me) /\ TidyDrop(me)

LEMMA AtRest ==
  ASSUME NEW p \in Proc, l'[p].pc \in RestPCs
  PROVE  Duties(l[p])'
<1>1. /\ l'[p].pc \notin PutPCs /\ l'[p].pc \notin DelPCs \ {"del_ck"} /\ l'[p].pc \notin TrimPCs \cup {"drop_refs"}
      /\ l'[p].pc \notin DropPCs \ {"dropped"}
  BY DEF RestPCs, BuildPCs, PutPCs, DelPCs, TrimPCs, DropPCs
<1>2. TidyCall(l[p])'
  BY DEF RestPCs, BuildPCs, TidyCall, WritePCs, CopyPCs
<1>. QED  BY <1>1, <1>2, NotPut, NotDel, NotTrim, NotDrop DEF Duties

TidyStore(me) == Tidy(me) /\ TidyBase /\ TidyBackup

LEMMA TidyParts ==
  ASSUME NEW p \in Proc
  PROVE  /\ TidyInv(p) <=> TidyStore(l[p]) /\ Duties(l[p])
         /\ TidyInv(p)' <=> TidyStore(l[p])' /\ Duties(l[p])'
  BY DEF TidyInv, TidyStore, Duties

Dirty == DirtyWr \cup DirtyBl \cup DirtyLt

\* A step that leaves the store alone.
LEMMA StoreStill ==
  ASSUME NEW p \in Proc, TidyStore(l[p]), ck' = ck, wr' = wr, bl' = bl, lt' = lt, backup' = backup,
         \/ l[p].pc \notin Dirty
         \/ l'[p].t = l[p].t /\ l[p].pc \in DirtyBl \ DirtyLt /\ l'[p].pc \in DirtyBl
  PROVE  TidyStore(l[p])'
<1>1. TidyBase' /\ TidyBackup'
  BY DEF TidyStore, TidyBase, TidyBackup
<1>2. \A t \in Thread : /\ CleanWr(t)' = CleanWr(t) /\ CleanBl(t)' = CleanBl(t)
                        /\ CleanLt(t)' = CleanLt(t)
  BY DEF CleanWr, CleanBl, CleanLt, Refs
<1>3. Tidy(l[p])'
  <2>1. CASE l[p].pc \notin Dirty
    BY <1>2, <2>1 DEF TidyStore, Tidy, Dirty
  <2>2. CASE l'[p].t = l[p].t /\ l[p].pc \in DirtyBl \ DirtyLt /\ l'[p].pc \in DirtyBl
    <3>1. l[p].pc \notin DirtyWr \cup DirtyLt
      BY <2>2 DEF DirtyWr, DirtyBl, DirtyLt
    <3>. QED  BY <1>2, <2>2, <3>1 DEF TidyStore, Tidy
  <2>. QED  BY <2>1, <2>2
<1>. QED  BY <1>1, <1>3 DEF TidyStore

\* A step that changes the store of one thread.
LEMMA StoreAt ==
  ASSUME NEW p \in Proc, TidyStore(l[p]), backup' = backup, NEW t \in Thread, l[p].t = t,
         \A u \in Thread : u # t => ck'[u] = ck[u] /\ wr'[u] = wr[u] /\ bl'[u] = bl[u] /\ lt'[u] = lt[u],
         CleanWr(t)' \/ (l'[p].t = t /\ l'[p].pc \in DirtyWr),
         CleanBl(t)' \/ (l'[p].t = t /\ l'[p].pc \in DirtyBl),
         CleanLt(t)' \/ (l'[p].t = t /\ l'[p].pc \in DirtyLt),
         Indexed => lt'[t] = None, ~Incremental => DOMAIN bl'[t] = {}
  PROVE  TidyStore(l[p])'
<1>1. TidyBase' /\ TidyBackup'
  BY DEF TidyStore, TidyBase, TidyBackup
<1>2. \A u \in Thread : u # t => CleanWr(u)' /\ CleanBl(u)' /\ CleanLt(u)'
  <2>1. \A u \in Thread : u # t => CleanWr(u) /\ CleanBl(u) /\ CleanLt(u)
    BY DEF TidyStore, Tidy
  <2>. QED  BY <2>1 DEF CleanWr, CleanBl, CleanLt, Refs
<1>3. Tidy(l[p])'
  BY <1>2 DEF Tidy
<1>. QED  BY <1>1, <1>3 DEF TidyStore

LEMMA TidyGets ==
  ASSUME NEW p \in Proc, ~Indexed, l'[p].pc \in {"get_lt", "get_row", "get_keys", "get_publish"},
         l'[p].pc = "get_publish" => l'[p].id \in DOMAIN ck'[l'[p].t]
  PROVE  Duties(l[p])'
<1>1. /\ l'[p].pc \notin PutPCs /\ l'[p].pc \notin DelPCs \ {"del_ck"} /\ l'[p].pc \notin TrimPCs \cup {"drop_refs"}
      /\ l'[p].pc \notin DropPCs \ {"dropped"}
  BY DEF PutPCs, DelPCs, TrimPCs, DropPCs
<1>2. TidyCall(l[p])'
  BY DEF TidyCall, WritePCs, CopyPCs
<1>. QED  BY <1>1, <1>2, NotPut, NotDel, NotTrim, NotDrop DEF Duties

LEMMA TidyReading ==
  ASSUME TypeInv, NEW p \in Proc, TidyInv(p), Reading(p)
  PROVE  TidyInv(p)'
<1>1. TidyStore(l[p]) /\ Duties(l[p])
  BY TidyParts
<1>2. /\ Only_l /\ l[p].pc \in ReadPCs \ {"idle"} /\ ck' = ck /\ wr' = wr /\ bl' = bl /\ lt' = lt
      /\ backup' = backup
  BY ReadingIs, OnlyIs
<1>3. TidyStore(l[p])'
  <2>1. l[p].pc \notin Dirty
    BY <1>2 DEF ReadPCs, Dirty, DirtyWr, DirtyBl, DirtyLt
  <2>. QED  BY <1>1, <1>2, <2>1, StoreStill
<1>4. Build \in RestPCs
  BY DEF Build, RestPCs, BuildPCs
<1>5. Duties(l[p])'
  <2>1. CASE GetMax(p) \/ GetSaved(p)
    <3>1. l'[p].pc \in RestPCs
      BY <1>4, <2>1, GetMaxIs, GetSavedIs DEF RestPCs
    <3>. QED  BY <3>1, AtRest
  <2>2. CASE AttachValues(p) \/ BuildKeys(p) \/ BuildWrites(p) \/ GetReturn(p) \/ ListKeys(p)
    <3>1. l'[p].pc \in RestPCs
      BY <2>2, AttachValuesIs, BuildKeysIs, BuildWritesIs, GetReturnIs, ListKeysIs DEF RestPCs, BuildPCs
    <3>. QED  BY <3>1, AtRest
  <2>3. CASE ListNext(p)
    <3>1. l'[p].pc \in RestPCs
      BY <1>4, <2>3, ListNextIs DEF RestPCs
    <3>. QED  BY <3>1, AtRest
  <2>4. CASE GetLatest(p)
    <3>1. l'[p].pc \in {"get_keys", "get_row"} /\ l[p].pc = "get_lt"
      BY <2>4, GetLatestIs
    <3>2. ~Indexed
      BY <1>1, <3>1 DEF Duties, TidyCall
    <3>. QED  BY <3>1, <3>2, TidyGets
  <2>5. CASE GetPointed(p)
    <3>1. l'[p].pc \in {"get_keys", Build} /\ l[p].pc = "get_row"
      BY <2>5, GetPointedIs
    <3>2. ~Indexed
      BY <1>1, <3>1 DEF Duties, TidyCall
    <3>3. CASE l'[p].pc = Build
      BY <1>4, <3>3, AtRest
    <3>4. CASE l'[p].pc = "get_keys"
      BY <3>2, <3>4, TidyGets
    <3>. QED  BY <3>1, <3>3, <3>4
  <2>6. CASE GetKeys(p)
    <3>1. PICK t \in Thread : t = l[p].t
      BY <2>6, GetKeysIs
    <3>2. /\ l[p].pc = "get_keys" /\ l'[p].id = Newest(DOMAIN ck[t]) /\ l'[p].t = t
          /\ l'[p].pc = (IF Newest(DOMAIN ck[t]) = None THEN "got" ELSE "get_publish")
      BY <2>6, <3>1, GetKeysIs
    <3>3. ~Indexed
      BY <1>1, <3>2 DEF Duties, TidyCall
    <3>4. DOMAIN ck[t] \in SUBSET Id
      BY ReadIs
    <3>5. CASE Newest(DOMAIN ck[t]) = None
      <4>1. l'[p].pc \in RestPCs
        BY <3>2, <3>5 DEF RestPCs
      <4>. QED  BY <4>1, AtRest
    <3>6. CASE Newest(DOMAIN ck[t]) # None
      <4>1. DOMAIN ck[t] # {}
        BY <3>4, <3>6, NewestIs
      <4>2. l'[p].id \in DOMAIN ck'[l'[p].t]
        BY <1>2, <3>2, <3>4, <4>1, NewestIs
      <4>. QED  BY <3>2, <3>3, <3>6, <4>2, TidyGets
    <3>. QED  BY <3>5, <3>6
  <2>. QED  BY <2>1, <2>2, <2>3, <2>4, <2>5, <2>6 DEF Reading
<1>. QED  BY <1>3, <1>5, TidyParts

LEMMA TidyGetPublish ==
  ASSUME TypeInv, NEW p \in Proc, TidyInv(p), GetPublish(p)
  PROVE  TidyInv(p)'
<1>1. TidyStore(l[p]) /\ Duties(l[p])
  BY TidyParts
<1>2. PICK t \in Thread : t = l[p].t
  BY GetPublishIs
<1>3. /\ l[p].pc = "get_publish" /\ lt' = [lt EXCEPT ![t] = l[p].id] /\ ck' = ck /\ wr' = wr /\ bl' = bl
      /\ backup' = backup /\ l'[p].pc = "get_saved" /\ l'[p].t = t
  BY <1>2, GetPublishIs
<1>4. ~Indexed /\ l[p].id \in DOMAIN ck[t]
  BY <1>1, <1>2, <1>3 DEF Duties, TidyCall
<1>5. lt \in [Thread -> IdOrNo]
  BY DEF TypeInv, Stores, LtT
<1>6. lt'[t] = l[p].id /\ \A u \in Thread : u # t => lt'[u] = lt[u]
  BY <1>3, <1>5
<1>7. CleanWr(t) /\ CleanBl(t)
  BY <1>1, <1>3 DEF TidyStore, Tidy, DirtyWr, DirtyBl
<1>8. CleanWr(t)' /\ CleanBl(t)' /\ CleanLt(t)'
  BY <1>3, <1>4, <1>6, <1>7 DEF CleanWr, CleanBl, CleanLt, Refs
<1>9. ~Incremental => DOMAIN bl'[t] = {}
  BY <1>1, <1>3 DEF TidyStore, TidyBase
<1>10. TidyStore(l[p])'
  BY <1>1, <1>2, <1>3, <1>4, <1>6, <1>8, <1>9, StoreAt
<1>11. Duties(l[p])'
  BY <1>3, AtRest DEF RestPCs
<1>. QED  BY <1>10, <1>11, TidyParts

LEMMA TidyBegins ==
  ASSUME TypeInv, NEW p \in Proc, TidyInv(p), Begins(p)
  PROVE  TidyInv(p)'
<1>1. TidyStore(l[p]) /\ Duties(l[p])
  BY TidyParts
<1>2. /\ Fresh(p) /\ UNCHANGED <<store, hints, backup, hist>>
      /\ \/ \E t \in Thread : \E id \in {None} \cup DOMAIN ck[t] : GetTuple(p, t, id)
         \/ l'[p].pc \in {"list_next", "del_ck"} \/ l'[p].pc = "trim_ids" \/ l'[p].pc = "runs_next"
         \/ \E t, u \in Thread : /\ t # u /\ l'[p].pc = "copy_ck" /\ l'[p].t = t /\ l'[p].threads = {u}
  BY BeginsIs
<1>3. TidyStore(l[p])'
  <2>1. l[p].pc \notin Dirty
    BY <1>2 DEF Fresh, Dirty, DirtyWr, DirtyBl, DirtyLt
  <2>. QED  BY <1>1, <1>2, <2>1, StoreStill DEF store
<1>4. Duties(l[p])'
  <2>1. CASE \E t \in Thread : \E id \in {None} \cup DOMAIN ck[t] : GetTuple(p, t, id)
    <3>1. PICK t \in Thread : \E id \in {None} \cup DOMAIN ck[t] : GetTuple(p, t, id)
      BY <2>1
    <3>2. PICK id \in {None} \cup DOMAIN ck[t] : GetTuple(p, t, id)
      BY <3>1
    <3>3. id \in IdOrNo
      BY ReadIs, IdIs
    <3>4. l'[p].pc = (CASE id # None -> "get_saved" [] id = None /\ Indexed -> "get_max" [] OTHER -> "get_lt")
      BY <3>2, <3>3, GetTupleStarts, ZenonT(60)
    <3>5. l'[p].pc \in {"get_saved", "get_max"} \/ (l'[p].pc = "get_lt" /\ ~Indexed)
      BY <3>4
    <3>. QED  BY <3>5, AtRest, TidyGets DEF RestPCs
  <2>2. CASE l'[p].pc \in {"list_next", "del_ck"}
    BY <2>2, AtRest DEF RestPCs
  <2>3. CASE l'[p].pc = "trim_ids"
    <3>1. TidyTrim(l[p])'
      BY <1>2, <2>3 DEF TidyTrim, Fresh
    <3>2. /\ l'[p].pc \notin PutPCs /\ l'[p].pc \notin DelPCs \ {"del_ck"}
          /\ l'[p].pc \notin DropPCs \ {"dropped"}
          /\ l'[p].pc \notin WritePCs \cup RunPCs \cup CopyPCs
                           \cup {"get_lt", "get_row", "get_keys", "get_publish", "drop_latest", "drop_fix"}
      BY <2>3 DEF PutPCs, DelPCs, DropPCs, WritePCs, RunPCs, CopyPCs
    <3>. QED  BY <3>1, <3>2, NotPut, NotCall, NotDel, NotDrop DEF Duties
  <2>4. CASE l'[p].pc = "runs_next" \/ \E t, u \in Thread : /\ t # u /\ l'[p].pc = "copy_ck" /\ l'[p].t = t /\ l'[p].threads = {u}
    <3>1. TidyCall(l[p])'
      BY <1>2, <2>4 DEF TidyCall, Fresh, WritePCs, CopyPCs
    <3>2. /\ l'[p].pc \notin PutPCs /\ l'[p].pc \notin DelPCs \ {"del_ck"}
          /\ l'[p].pc \notin DropPCs \ {"dropped"} /\ l'[p].pc \notin TrimPCs \cup {"drop_refs"}
      BY <2>4 DEF PutPCs, DelPCs, DropPCs, TrimPCs
    <3>. QED  BY <3>1, <3>2, NotPut, NotTrim, NotDel, NotDrop DEF Duties
  <2>. QED  BY <1>2, <2>1, <2>2, <2>3, <2>4
<1>. QED  BY <1>3, <1>4, TidyParts

LEMMA PutDuties ==
  ASSUME NEW p \in Proc, l'[p].pc \in PutPCs, TidyPut(l[p])'
  PROVE  Duties(l[p])'
<1>1. /\ l'[p].pc \notin DelPCs \ {"del_ck"} /\ l'[p].pc \notin TrimPCs \cup {"drop_refs"}
      /\ l'[p].pc \notin DropPCs \ {"dropped"}
      /\ l'[p].pc \notin WritePCs \cup RunPCs \cup CopyPCs
                           \cup {"get_lt", "get_row", "get_keys", "get_publish", "drop_latest", "drop_fix"}
  BY DEF PutPCs, DelPCs, TrimPCs, DropPCs, WritePCs, RunPCs, CopyPCs
<1>. QED  BY <1>1, NotCall, NotDel, NotTrim, NotDrop DEF Duties

LEMMA TidyPutBegins ==
  ASSUME TypeInv, NEW p \in Proc, TidyInv(p), PutBegins(p)
  PROVE  TidyInv(p)'
<1>1. TidyStore(l[p]) /\ Duties(l[p])
  BY TidyParts
<1>2. /\ Fresh(p) /\ UNCHANGED <<store, hints, backup, awr, done>> /\ l'[p].t \in Thread
      /\ l'[p].pc = (IF Publishes(SaverOf[p], l'[p].t, l'[p].id) THEN "put_hint" ELSE AfterHint)
      /\ l'[p].publish = Publishes(SaverOf[p], l'[p].t, l'[p].id)
      /\ l'[p].batch = Empty
  BY PutBeginsIs
<1>3. PICK upd \in SUBSET Channel : l'[p].todo = {<<c, l'[p].rec.vers[c]>> : c \in upd}
  BY PutBeginsIs
<1>4. TidyStore(l[p])'
  <2>1. l[p].pc \notin Dirty
    BY <1>2 DEF Fresh, Dirty, DirtyWr, DirtyBl, DirtyLt
  <2>. QED  BY <1>1, <1>2, <2>1, StoreStill DEF store
<1>5. l'[p].publish => ~Indexed
  BY <1>2 DEF Publishes
<1>6. DOMAIN l'[p].batch \cup l'[p].todo \subseteq RefsOf(l'[p].rec)
  <2>1. DOMAIN l'[p].batch = {}
    BY <1>2 DEF Empty
  <2>2. l'[p].todo \subseteq RefsOf(l'[p].rec)
    BY <1>3 DEF RefsOf
  <2>. QED  BY <2>1, <2>2
<1>7. l'[p].pc \in {"put_hint", "put_blobs", "put_rows"}
  BY <1>2 DEF AfterHint
<1>8. /\ l'[p].pc = "put_blobs" => Incremental
      /\ l'[p].pc = "put_rows" => ~Incremental
  BY <1>2 DEF AfterHint
<1>9. l'[p].pc = "put_rows" => DOMAIN bl'[l'[p].t] = {}
  BY <1>2, <1>4, <1>8 DEF TidyStore, TidyBase
<1>10. TidyPut(l[p])'
  BY <1>5, <1>6, <1>7, <1>8, <1>9 DEF TidyPut, PutPCs
<1>11. Duties(l[p])'
  BY <1>7, <1>10, PutDuties DEF PutPCs
<1>. QED  BY <1>4, <1>11, TidyParts

LEMMA TidyPutHint ==
  ASSUME TypeInv, NEW p \in Proc, TidyInv(p), PutHint(p) \/ PutBlobContains(p)
  PROVE  TidyInv(p)'
<1>1. TidyStore(l[p]) /\ Duties(l[p])
  BY TidyParts
<1>2. /\ UNCHANGED <<store, backup>> /\ l[p].pc \in {"put_hint", "put_blobs"} /\ SamePut(p)
      /\ l[p].t \in Thread /\ l'[p].pc \in {"put_blobs", "put_rows"}
      /\ l'[p].pc = "put_blobs" => Incremental
      /\ l'[p].pc = "put_rows" => ~Incremental
      /\ DOMAIN l'[p].batch \cup l'[p].todo \subseteq RefsOf(l[p].rec)
  <2>1. CASE PutHint(p)
    <3>1. l[p].pc = "put_hint" /\ l'[p].pc = AfterHint /\ l'[p].todo = l[p].todo /\ l'[p].batch = l[p].batch
      BY <2>1, PutHintIs
    <3>2. DOMAIN l[p].batch \cup l[p].todo \subseteq RefsOf(l[p].rec)
      BY <1>1, <3>1 DEF Duties, TidyPut
    <3>3. UNCHANGED <<store, backup>> /\ SamePut(p) /\ l[p].t \in Thread
      BY <2>1, PutHintIs DEF SamePut
    <3>. QED  BY <3>1, <3>2, <3>3 DEF AfterHint
  <2>2. CASE PutBlobContains(p)
    <3>1. /\ l[p].pc = "put_blobs" /\ Only_l /\ l'[p].pc = "put_blobs" /\ SamePut(p)
      BY <2>2, PutBlobContainsIs
    <3>2. PICK b \in l[p].todo :
               /\ l'[p].todo = l[p].todo \ {b}
               /\ l'[p].batch = IF b \in DOMAIN bl[l[p].t] THEN l[p].batch
                                ELSE Over(Row(b, l[p].rec.vals[b[1]]), l[p].batch)
      BY <2>2, PutBlobContainsIs
    <3>3. DOMAIN l'[p].batch \subseteq DOMAIN l[p].batch \cup {b}
      BY <3>2 DEF Over, Row
    <3>4. DOMAIN l[p].batch \cup l[p].todo \subseteq RefsOf(l[p].rec) /\ Incremental
      BY <1>1, <3>1 DEF Duties, TidyPut
    <3>5. l[p].t \in Thread
      BY <3>1, PutIs DEF PutPCs
    <3>. QED  BY <3>1, <3>2, <3>3, <3>4, <3>5 DEF Only_l
  <2>. QED  BY <2>1, <2>2
<1>3. TidyStore(l[p])'
  <2>1. l[p].pc \notin Dirty
    BY <1>2 DEF Dirty, DirtyWr, DirtyBl, DirtyLt
  <2>. QED  BY <1>1, <1>2, <2>1, StoreStill DEF store
<1>4. l'[p].publish => ~Indexed
  BY <1>1, <1>2 DEF Duties, TidyPut, SamePut, PutPCs
<1>5. l'[p].pc = "put_rows" => DOMAIN bl'[l'[p].t] = {}
  BY <1>2, <1>3 DEF TidyStore, TidyBase, SamePut
<1>6. TidyPut(l[p])'
  BY <1>2, <1>4, <1>5 DEF TidyPut, PutPCs, SamePut
<1>7. Duties(l[p])'
  BY <1>2, <1>6, PutDuties DEF PutPCs
<1>. QED  BY <1>3, <1>7, TidyParts

LEMMA TidyPutBlobs ==
  ASSUME TypeInv, NEW p \in Proc, TidyInv(p), PutBlobs(p)
  PROVE  TidyInv(p)'
<1>1. TidyStore(l[p]) /\ Duties(l[p])
  BY TidyParts
<1>2. PICK t \in Thread : t = l[p].t
  BY PutBlobsIs
<1>3. /\ l[p].pc = "put_blobs" /\ bl' = SetRows(bl, t, l[p].batch) /\ ck' = ck /\ wr' = wr /\ lt' = lt
      /\ backup' = backup /\ l'[p].pc = "put_rows" /\ l'[p].t = t /\ l'[p].rec = l[p].rec
      /\ l'[p].publish = l[p].publish
  BY <1>2, PutBlobsIs
<1>4. DOMAIN l[p].batch \subseteq RefsOf(l[p].rec) /\ Incremental /\ (l[p].publish => ~Indexed)
  BY <1>1, <1>3 DEF Duties, TidyPut, PutPCs
<1>6. bl \in [Thread -> Part(Channel \X Id, IdOrNo)]
  BY DEF TypeInv, Stores, BlT
<1>7. bl'[t] = Over(l[p].batch, bl[t]) /\ \A u \in Thread : u # t => bl'[u] = bl[u]
  BY <1>3, <1>6 DEF SetRows
<1>8. CleanWr(t) /\ CleanBl(t) /\ CleanLt(t)
  BY <1>1, <1>3 DEF TidyStore, Tidy, DirtyWr, DirtyBl, DirtyLt
<1>9. DOMAIN bl'[t] \subseteq Refs(t)' \cup RefsOf(l[p].rec)
  BY <1>3, <1>4, <1>7, <1>8 DEF CleanBl, Refs, Over
<1>10. CleanWr(t)' /\ CleanLt(t)'
  BY <1>3, <1>8 DEF CleanWr, CleanLt
<1>11. Indexed => lt'[t] = None
  BY <1>1, <1>3 DEF TidyStore, TidyBase
<1>12. TidyStore(l[p])'
  BY <1>1, <1>2, <1>3, <1>4, <1>7, <1>10, <1>11, StoreAt DEF DirtyBl
<1>13. TidyPut(l[p])'
  BY <1>3, <1>4, <1>9 DEF TidyPut, PutPCs
<1>14. Duties(l[p])'
  BY <1>3, <1>13, PutDuties DEF PutPCs
<1>. QED  BY <1>12, <1>14, TidyParts

\* _referenced_blobs grows with the rows.
LEMMA MoreRefs ==
  ASSUME NEW f, NEW g, NEW K, NEW M, K \subseteq M, \A i \in K : g[i].vers = f[i].vers
  PROVE  References(K, f) \subseteq References(M, g)
<1>1. ASSUME NEW x \in References(K, f)
      PROVE  x \in References(M, g)
  <2>1. PICK i \in K : x \in {<<c, f[i].vers[c]>> : c \in Channel}
    BY DEF References
  <2>2. i \in M /\ x \in {<<c, g[i].vers[c]>> : c \in Channel}
    BY <2>1
  <2>. QED  BY <2>2 DEF References
<1>. QED  BY <1>1

LEMMA SameRefs ==
  ASSUME NEW f, NEW g, NEW K, \A i \in K : g[i].vers = f[i].vers
  PROVE  References(K, f) = References(K, g)
<1>1. References(K, f) \subseteq References(K, g) /\ References(K, g) \subseteq References(K, f)
  BY MoreRefs
<1>. QED  BY <1>1

LEMMA RowRefs ==
  ASSUME NEW f, NEW K, NEW i \in K, NEW r, f[i].vers = r.vers
  PROVE  RefsOf(r) \subseteq References(K, f)
  BY DEF RefsOf, References

\* The row of a put adds what it refers to.
LEMMA PutRefs ==
  ASSUME TypeInv, Same, NEW p \in Proc, l[p].pc \in PutPCs, PutCk(p), NEW t \in Thread, t = l[p].t
  PROVE  /\ DOMAIN ck'[t] = DOMAIN ck[t] \cup {l[p].id}
         /\ Refs(t) \cup RefsOf(l[p].rec) \subseteq Refs(t)'
         /\ \A u \in Thread : u # t => ck'[u] = ck[u]
<1>1. /\ DOMAIN ck'[t] = DOMAIN ck[t] \cup {l[p].id}
      /\ ck'[t][l[p].id] = Stored(l[p].rec)
      /\ \A i \in DOMAIN ck[t] : i # l[p].id => ck'[t][i] = ck[t][i]
      /\ \A u \in Thread : u # t => ck'[u] = ck[u]
  BY PutCkIs
<1>2. l[p].rec \in Record /\ l[p].rec = arch[t][l[p].id]
  BY PutIs DEF Same
<1>3. \A i \in DOMAIN ck[t] : ck[t][i] = Stored(arch[t][i])
  BY DEF Same
<1>4. \A i \in DOMAIN ck[t] : ck'[t][i].vers = ck[t][i].vers
  BY <1>1, <1>2, <1>3
<1>5. Refs(t) \subseteq Refs(t)'
  <2>1. DOMAIN ck[t] \subseteq DOMAIN ck'[t]
    BY <1>1
  <2>. QED  BY <1>4, <2>1, MoreRefs DEF Refs
<1>6. RefsOf(l[p].rec) \subseteq Refs(t)'
  <2>1. ck'[t][l[p].id].vers = l[p].rec.vers /\ l[p].id \in DOMAIN ck'[t]
    BY <1>1, <1>2, StoredIs
  <2>. QED  BY <2>1, RowRefs DEF Refs
<1>. QED  BY <1>1, <1>5, <1>6

LEMMA EndedDuties ==
  ASSUME NEW p \in Proc, Ended(p)
  PROVE  Duties(l[p])'
<1>1. CASE l'[p].pc = "idle"
  BY <1>1, AtRest DEF RestPCs
<1>2. CASE l'[p].pc = "prune_keys" /\ l'[p].needed = {}
  <2>1. TidyTrim(l[p])'
    BY <1>2 DEF TidyTrim
  <2>2. /\ l'[p].pc \notin PutPCs /\ l'[p].pc \notin DelPCs \ {"del_ck"}
        /\ l'[p].pc \notin DropPCs \ {"dropped"}
        /\ l'[p].pc \notin WritePCs \cup RunPCs \cup CopyPCs
                           \cup {"get_lt", "get_row", "get_keys", "get_publish", "drop_latest", "drop_fix"}
    BY <1>2 DEF PutPCs, DelPCs, DropPCs, WritePCs, RunPCs, CopyPCs
  <2>. QED  BY <2>1, <2>2, NotPut, NotCall, NotDel, NotDrop DEF Duties
<1>. QED  BY <1>1, <1>2 DEF Ended

LEMMA TidyPutRows ==
  ASSUME TypeInv, Same, NEW p \in Proc, TidyInv(p), PutRows(p)
  PROVE  TidyInv(p)'
<1>1. TidyStore(l[p]) /\ Duties(l[p])
  BY TidyParts
<1>2. l[p].pc = "put_rows" /\ l[p].pc \in PutPCs /\ wr' = wr /\ bl' = bl /\ backup' = backup
  BY PutRowsIs DEF PutPCs
<1>3. PICK t \in Thread : t = l[p].t
  BY <1>2, PutIs
<1>4. /\ DOMAIN bl[t] \subseteq Refs(t) \cup RefsOf(l[p].rec)
      /\ l[p].publish => ~Indexed
  BY <1>1, <1>2, <1>3 DEF Duties, TidyPut
<1>5. CleanWr(t) /\ CleanLt(t)
  BY <1>1, <1>2 DEF TidyStore, Tidy, DirtyWr, DirtyLt
<1>6. (Indexed => lt[t] = None) /\ (~Incremental => DOMAIN bl'[t] = {})
  BY <1>1, <1>2 DEF TidyStore, TidyBase
<1>7. ASSUME PutCk(p)
      PROVE  /\ DOMAIN ck'[t] = DOMAIN ck[t] \cup {l[p].id} /\ CleanWr(t)' /\ CleanBl(t)'
             /\ lt'[t] \in {lt[t], l[p].id} => CleanLt(t)'
             /\ \A u \in Thread : u # t => ck'[u] = ck[u]
  <2>1. /\ DOMAIN ck'[t] = DOMAIN ck[t] \cup {l[p].id}
        /\ Refs(t) \cup RefsOf(l[p].rec) \subseteq Refs(t)'
        /\ \A u \in Thread : u # t => ck'[u] = ck[u]
    BY <1>2, <1>3, <1>7, PutRefs
  <2>2. CleanWr(t)' /\ CleanBl(t)'
    BY <1>2, <1>4, <1>5, <2>1 DEF CleanWr, CleanBl
  <2>3. lt'[t] \in {lt[t], l[p].id} => CleanLt(t)'
    BY <1>5, <2>1 DEF CleanLt
  <2>. QED  BY <2>1, <2>2, <2>3
<1>8. ASSUME PutLt(p)
      PROVE  lt'[t] = l[p].id /\ \A u \in Thread : u # t => lt'[u] = lt[u]
  BY <1>3, <1>8, PutLtIs
<1>9. CASE l[p].publish /\ RowOrder = "ck_first" /\ PutCk(p) /\ lt' = lt /\ l'[p].pc = "put_rest" /\ SamePut(p)
  <2>1. TidyStore(l[p])'
    BY <1>1, <1>2, <1>3, <1>6, <1>7, <1>9, StoreAt
  <2>2. TidyPut(l[p])'
    BY <1>2, <1>3, <1>4, <1>7, <1>9 DEF TidyPut, PutPCs, SamePut, CleanBl
  <2>3. Duties(l[p])'
    BY <1>9, <2>2, PutDuties DEF PutPCs
  <2>. QED  BY <2>1, <2>3, TidyParts
<1>10. CASE l[p].publish /\ RowOrder # "ck_first" /\ PutLt(p) /\ ck' = ck /\ l'[p].pc = "put_rest" /\ SamePut(p)
  <2>1. CleanWr(t)'
    BY <1>2, <1>5, <1>10 DEF CleanWr
  <2>2. l'[p].t = t /\ l'[p].pc \in DirtyBl /\ l'[p].pc \in DirtyLt
    BY <1>3, <1>10 DEF SamePut, DirtyBl, DirtyLt
  <2>3. TidyStore(l[p])'
    BY <1>1, <1>2, <1>3, <1>4, <1>6, <1>8, <1>10, <2>1, <2>2, StoreAt
  <2>4. TidyPut(l[p])'
    BY <1>2, <1>3, <1>4, <1>8, <1>10 DEF TidyPut, PutPCs, SamePut, Refs
  <2>5. Duties(l[p])'
    BY <1>10, <2>4, PutDuties DEF PutPCs
  <2>. QED  BY <2>3, <2>5, TidyParts
<1>11. CASE /\ PutCk(p) /\ (l[p].publish => PutLt(p)) /\ (~l[p].publish => lt' = lt) /\ Ended(p)
  <2>1. lt'[t] \in {lt[t], l[p].id} /\ (\A u \in Thread : u # t => lt'[u] = lt[u]) /\ (Indexed => lt'[t] = None)
    BY <1>4, <1>6, <1>8, <1>11
  <2>2. TidyStore(l[p])'
    BY <1>1, <1>2, <1>3, <1>6, <1>7, <1>11, <2>1, StoreAt
  <2>. QED  BY <1>11, <2>2, EndedDuties, TidyParts
<1>. QED  BY <1>9, <1>10, <1>11, PutRowsIs

LEMMA TidyPutRest ==
  ASSUME TypeInv, Same, NEW p \in Proc, TidyInv(p), PutRest(p)
  PROVE  TidyInv(p)'
<1>1. TidyStore(l[p]) /\ Duties(l[p])
  BY TidyParts
<1>2. /\ l[p].pc = "put_rest" /\ l[p].pc \in PutPCs /\ wr' = wr /\ bl' = bl /\ backup' = backup
      /\ Ended(p)
  BY PutRestIs DEF PutPCs
<1>3. PICK t \in Thread : t = l[p].t
  BY <1>2, PutIs
<1>4. /\ DOMAIN bl[t] \subseteq Refs(t) \cup RefsOf(l[p].rec)
      /\ ~Indexed
      /\ IF RowOrder = "ck_first" THEN l[p].id \in DOMAIN ck[t] ELSE lt[t] = l[p].id
  BY <1>1, <1>2, <1>3 DEF Duties, TidyPut
<1>5. CleanWr(t)
  BY <1>1, <1>2 DEF TidyStore, Tidy, DirtyWr
<1>6. ~Incremental => DOMAIN bl'[t] = {}
  BY <1>1, <1>2 DEF TidyStore, TidyBase
<1>7. CASE RowOrder = "ck_first" /\ PutLt(p) /\ ck' = ck
  <2>1. lt'[t] = l[p].id /\ \A u \in Thread : u # t => lt'[u] = lt[u]
    BY <1>3, <1>7, PutLtIs
  <2>2. CleanWr(t)' /\ CleanLt(t)'
    BY <1>2, <1>4, <1>5, <1>7, <2>1 DEF CleanWr, CleanLt
  <2>3. CleanBl(t)'
    <3>1. l[p].rec \in Record /\ l[p].rec = arch[t][l[p].id]
      BY <1>2, <1>3, PutIs DEF Same
    <3>2. l[p].id \in DOMAIN ck[t] /\ ck[t][l[p].id] = Stored(arch[t][l[p].id])
      BY <1>4, <1>7 DEF Same
    <3>3. ck[t][l[p].id].vers = l[p].rec.vers
      BY <3>1, <3>2, StoredIs
    <3>4. RefsOf(l[p].rec) \subseteq Refs(t)
      BY <3>2, <3>3, RowRefs DEF Refs
    <3>. QED  BY <1>2, <1>4, <1>7, <3>4 DEF CleanBl, Refs
  <2>4. TidyStore(l[p])'
    BY <1>1, <1>2, <1>3, <1>4, <1>6, <1>7, <2>1, <2>2, <2>3, StoreAt
  <2>. QED  BY <1>2, <2>4, EndedDuties, TidyParts
<1>8. CASE RowOrder # "ck_first" /\ PutCk(p) /\ lt' = lt
  <2>1. /\ DOMAIN ck'[t] = DOMAIN ck[t] \cup {l[p].id}
        /\ Refs(t) \cup RefsOf(l[p].rec) \subseteq Refs(t)'
        /\ \A u \in Thread : u # t => ck'[u] = ck[u]
    BY <1>2, <1>3, <1>8, PutRefs
  <2>2. CleanWr(t)' /\ CleanBl(t)' /\ CleanLt(t)'
    BY <1>2, <1>4, <1>5, <1>8, <2>1 DEF CleanWr, CleanBl, CleanLt
  <2>3. TidyStore(l[p])'
    BY <1>1, <1>2, <1>3, <1>4, <1>6, <1>8, <2>1, <2>2, StoreAt
  <2>. QED  BY <1>2, <2>3, EndedDuties, TidyParts
<1>. QED  BY <1>7, <1>8, PutRestIs

LEMMA WriteDuties ==
  ASSUME NEW p \in Proc, l'[p].pc \in WritePCs, l'[p].id \in DOMAIN ck'[l'[p].t],
         \A x \in DOMAIN l'[p].batch : x[1] = l'[p].id
  PROVE  Duties(l[p])'
<1>1. /\ l'[p].pc \notin PutPCs /\ l'[p].pc \notin DelPCs \ {"del_ck"} /\ l'[p].pc \notin TrimPCs \cup {"drop_refs"}
      /\ l'[p].pc \notin DropPCs \ {"dropped"}
  BY DEF PutPCs, DelPCs, TrimPCs, DropPCs, WritePCs
<1>2. TidyCall(l[p])'
  BY DEF TidyCall, WritePCs, CopyPCs
<1>. QED  BY <1>1, <1>2, NotPut, NotDel, NotTrim, NotDrop DEF Duties

LEMMA TidyWrites ==
  ASSUME TypeInv, NEW p \in Proc, TidyInv(p), WritesBegin(p) \/ CheckWrites(p)
  PROVE  TidyInv(p)'
<1>1. TidyStore(l[p]) /\ Duties(l[p])
  BY TidyParts
<1>2. /\ UNCHANGED <<store, backup>> /\ l[p].pc \in {"idle", "write_check"} /\ l'[p].pc \in WritePCs
      /\ l'[p].id \in DOMAIN ck'[l'[p].t] /\ \A x \in DOMAIN l'[p].batch : x[1] = l'[p].id
  <2>1. CASE WritesBegin(p)
    BY <2>1, WritesBeginIs DEF Fresh, WritePCs, store
  <2>2. CASE CheckWrites(p)
    <3>1. /\ l[p].pc = "write_check" /\ Only_l /\ l'[p].t = l[p].t /\ l'[p].id = l[p].id
          /\ l'[p].pc \in {"write_flush", "write_check"}
      BY <2>2, CheckWritesIs
    <3>2. PICK S \in SUBSET l[p].todo : l'[p].batch = Drop(l[p].batch, {x \in S : Skips(l[p].t, x)})
      BY <2>2, CheckWritesIs
    <3>3. DOMAIN l'[p].batch \subseteq DOMAIN l[p].batch
      BY <3>2 DEF Drop
    <3>4. l[p].id \in DOMAIN ck[l[p].t] /\ \A x \in DOMAIN l[p].batch : x[1] = l[p].id
      BY <1>1, <3>1 DEF Duties, TidyCall, WritePCs
    <3>. QED  BY <3>1, <3>3, <3>4 DEF Only_l, store, WritePCs
  <2>. QED  BY <2>1, <2>2
<1>3. l[p].pc \notin Dirty
  BY <1>2 DEF Dirty, DirtyWr, DirtyBl, DirtyLt
<1>4. TidyStore(l[p])'
  BY <1>1, <1>2, <1>3, StoreStill DEF store
<1>5. Duties(l[p])'
  BY <1>2, WriteDuties
<1>. QED  BY <1>4, <1>5, TidyParts

LEMMA TidyFlush ==
  ASSUME TypeInv, NEW p \in Proc, TidyInv(p), FlushWrites(p)
  PROVE  TidyInv(p)'
<1>1. TidyStore(l[p]) /\ Duties(l[p])
  BY TidyParts
<1>2. PICK t \in Thread : t = l[p].t
  BY FlushWritesIs
<1>3. /\ l[p].pc = "write_flush" /\ wr' = SetRows(wr, t, l[p].batch) /\ ck' = ck /\ bl' = bl /\ lt' = lt
      /\ backup' = backup /\ l'[p].pc = "idle"
  BY <1>2, FlushWritesIs, ReturnIs
<1>4. l[p].id \in DOMAIN ck[t] /\ \A x \in DOMAIN l[p].batch : x[1] = l[p].id
  BY <1>1, <1>2, <1>3 DEF Duties, TidyCall, WritePCs
<1>5. wr \in [Thread -> Part(Id \X WKey, WVal)]
  BY DEF TypeInv, Stores, WrT
<1>6. wr'[t] = Over(l[p].batch, wr[t]) /\ \A u \in Thread : u # t => wr'[u] = wr[u]
  BY <1>3, <1>5 DEF SetRows
<1>7. CleanWr(t) /\ CleanBl(t) /\ CleanLt(t)
  BY <1>1, <1>3 DEF TidyStore, Tidy, DirtyWr, DirtyBl, DirtyLt
<1>8. CleanBl(t)' /\ CleanLt(t)'
  BY <1>3, <1>7 DEF CleanBl, CleanLt, Refs
<1>9. CleanWr(t)'
  BY <1>3, <1>4, <1>6, <1>7 DEF CleanWr, Over
<1>10. (Indexed => lt'[t] = None) /\ (~Incremental => DOMAIN bl'[t] = {})
  BY <1>1, <1>3 DEF TidyStore, TidyBase
<1>11. TidyStore(l[p])'
  BY <1>1, <1>2, <1>3, <1>6, <1>8, <1>9, <1>10, StoreAt
<1>12. Duties(l[p])'
  BY <1>3, AtRest DEF RestPCs
<1>. QED  BY <1>11, <1>12, TidyParts

\* A trim reads on.
LEMMA TrimDuties ==
  ASSUME NEW p \in Proc, l'[p].pc \in TrimPCs, TidyTrim(l[p])'
  PROVE  Duties(l[p])'
<1>1. /\ l'[p].pc \notin PutPCs /\ l'[p].pc \notin DelPCs \ {"del_ck"}
      /\ l'[p].pc \notin DropPCs \ {"dropped"}
      /\ l'[p].pc \notin WritePCs \cup RunPCs \cup CopyPCs
                         \cup {"get_lt", "get_row", "get_keys", "get_publish", "drop_latest", "drop_fix"}
  BY DEF TrimPCs, PutPCs, DelPCs, DropPCs, WritePCs, RunPCs, CopyPCs
<1>. QED  BY <1>1, NotPut, NotCall, NotDel, NotDrop DEF Duties

LEMMA TrimLists ==
  ASSUME TypeInv, NEW p \in Proc, TidyTrim(l[p]), PruneKeys(p) \/ TrimIds(p)
  PROVE  /\ l[p].pc \in TrimPCs /\ Only_l
         /\ Step(p, Locals0) \/ (TidyTrim(l[p])' /\ l'[p].pc = "trim_read")
<1>1. CASE PruneKeys(p) /\ OverFloor(SaverOf[p], l[p].t, Cardinality(DOMAIN ck[l[p].t]))
  <2>1. /\ l[p].pc = "prune_keys" /\ Only_l /\ l'[p].pc = "trim_read" /\ l'[p].ids = DOMAIN ck[l[p].t]
        /\ l'[p].t = l[p].t /\ l'[p].needed = l[p].needed
    BY <1>1, PruneKeysIs
  <2>2. TidyTrim(l[p])'
    BY <2>1, OnlyIs DEF TidyTrim
  <2>. QED  BY <2>1, <2>2 DEF TrimPCs
<1>2. CASE TrimIds(p) /\ DOMAIN ck[l[p].t] # {}
  <2>1. /\ l[p].pc = "trim_ids" /\ Only_l /\ l'[p].pc = "trim_read" /\ l'[p].ids = DOMAIN ck[l[p].t]
        /\ l'[p].t = l[p].t /\ l'[p].needed = l[p].needed
    BY <1>2, TrimIdsIs
  <2>2. TidyTrim(l[p])'
    BY <2>1, OnlyIs DEF TidyTrim
  <2>. QED  BY <2>1, <2>2 DEF TrimPCs
<1>. QED  BY <1>1, <1>2, PruneKeysStops, TrimIdsStops DEF TrimPCs

LEMMA TidyListing ==
  ASSUME TypeInv, NEW p \in Proc, Duties(l[p]), PruneKeys(p) \/ TrimIds(p)
  PROVE  Duties(l[p])'
<1>1. CASE TidyTrim(l[p])' /\ l'[p].pc = "trim_read"
  BY <1>1, TrimDuties DEF TrimPCs
<1>2. CASE Step(p, Locals0)
  BY <1>2, ReturnIs, AtRest DEF RestPCs
<1>. QED  BY <1>1, <1>2, TrimLists DEF Duties

LEMMA TrimReads ==
  ASSUME TypeInv, NEW p \in Proc, TidyTrim(l[p]), TrimRead(p)
  PROVE  TidyTrim(l[p])' /\ l[p].pc \in TrimPCs /\ l'[p].pc \in TrimPCs /\ Only_l
<1>1. /\ l[p].pc = "trim_read" /\ Only_l
      /\ l'[p].pc = "trim_next"
      /\ l'[p].kept = NewestOf(l[p].ids, l[p].keep)
      /\ l'[p].recs = [i \in NewestOf(l[p].ids, l[p].keep) |-> Get(ck[l[p].t], i)]
      /\ l'[p].t = l[p].t /\ l'[p].ids = l[p].ids /\ l'[p].needed = l[p].needed
  BY TrimReadIs
<1>2. l[p].ids = DOMAIN ck[l[p].t] /\ l[p].needed = {}
  BY <1>1 DEF TidyTrim
<1>3. ck' = ck
  BY <1>1, OnlyIs
<1>4. l'[p].kept \subseteq l'[p].ids
  BY <1>1 DEF NewestOf
<1>5. \A i \in DOMAIN l'[p].recs : l'[p].recs[i] = Get(ck'[l'[p].t], i)
  BY <1>1, <1>3
<1>6. TidyTrim(l[p])'
  BY <1>1, <1>2, <1>3, <1>4, <1>5 DEF TidyTrim
<1>. QED  BY <1>1, <1>6 DEF TrimPCs

LEMMA TrimWalks ==
  ASSUME TypeInv, NEW p \in Proc, TidyTrim(l[p]), TrimNext(p) \/ WalkRow(p) \/ WalkVals(p)
  PROVE  TidyTrim(l[p])' /\ l[p].pc \in TrimPCs /\ l'[p].pc \in TrimPCs /\ Only_l
<1>1. PICK t \in Thread : t = l[p].t
  BY TrimNextIs, WalkRowIs, WalkRowStops, WalkValsIs, WalkValsStops
<1>2. /\ l[p].pc \in WalkPCs /\ Only_l /\ l'[p].pc \in WalkPCs /\ l'[p].t = t /\ l'[p].ids = l[p].ids
      /\ l'[p].kept = l[p].kept
  BY <1>1, TrimNextIs, WalkRowIs, WalkRowStops, WalkValsIs, WalkValsStops DEF WalkPCs
<1>3. /\ l[p].ids = DOMAIN ck[t] /\ l[p].kept \subseteq l[p].ids /\ l[p].needed \subseteq l[p].ids
      /\ \A i \in DOMAIN l[p].recs : l[p].recs[i] = Get(ck[t], i)
  BY <1>1, <1>2 DEF TidyTrim, WalkPCs
<1>4. /\ l'[p].needed \subseteq l[p].ids
      /\ \A i \in DOMAIN l'[p].recs : l'[p].recs[i] = Get(ck[t], i)
  <2>1. CASE TrimNext(p)
    BY <1>3, <2>1, TrimNextIs
  <2>2. CASE WalkRow(p) /\ (l[p].missing = {} \/ l[p].cur = None)
    BY <1>3, <2>2, WalkRowStops
  <2>3. CASE WalkRow(p) /\ ~ (l[p].missing = {} \/ l[p].cur = None)
    <3>1. /\ l'[p].recs = Over(l[p].recs, Row(l[p].cur, Get(ck[t], l[p].cur)))
          /\ l'[p].needed = l[p].needed
      BY <1>1, <2>3, WalkRowIs
    <3>. QED  BY <1>3, <3>1 DEF Over, Row
  <2>4. CASE WalkVals(p) /\ l[p].recs[l[p].cur] = NoRow
    BY <1>3, <2>4, WalkValsStops
  <2>5. CASE WalkVals(p) /\ l[p].recs[l[p].cur] # NoRow
    <3>1. l[p].pc = "walk_vals" /\ l'[p].needed = l[p].needed \cup {l[p].cur} /\ l'[p].recs = l[p].recs
      BY <2>5, WalkValsIs
    <3>2. l[p].cur \in DOMAIN l[p].recs
      BY <3>1, AtIs DEF Shape
    <3>3. Get(ck[t], l[p].cur) # NoRow
      BY <1>3, <2>5, <3>2
    <3>4. l[p].cur \in DOMAIN ck[t]
      BY <3>3, GetIs
    <3>. QED  BY <1>3, <3>1, <3>4
  <2>. QED  BY <2>1, <2>2, <2>3, <2>4, <2>5
<1>5. ck' = ck
  BY <1>2, OnlyIs
<1>6. TidyTrim(l[p])'
  BY <1>2, <1>3, <1>4, <1>5 DEF TidyTrim, WalkPCs
<1>. QED  BY <1>2, <1>6 DEF TrimPCs, WalkPCs

LEMMA TidyWalk ==
  ASSUME TypeInv, NEW p \in Proc, Duties(l[p]),
         TrimRead(p) \/ TrimNext(p) \/ WalkRow(p) \/ WalkVals(p)
  PROVE  Duties(l[p])'
  BY TrimReads, TrimWalks, TrimDuties DEF Duties

LEMMA DropDuties ==
  ASSUME NEW p \in Proc, l'[p].pc \in DropPCs, TidyDrop(l[p])',
         l'[p].pc = "drop_refs" => \A i \in DOMAIN l'[p].recs : l'[p].recs[i] = Get(ck'[l'[p].t], i),
         l'[p].pc \in {"drop_latest", "drop_fix"} => ~Indexed
  PROVE  Duties(l[p])'
<1>1. l'[p].pc \notin PutPCs /\ l'[p].pc \notin DelPCs \ {"del_ck"}
  BY DEF DropPCs, PutPCs, DelPCs
<1>2. TidyCall(l[p])' /\ TidyTrim(l[p])'
  BY DEF TidyCall, TidyTrim, DropPCs, WritePCs, CopyPCs
<1>. QED  BY <1>1, <1>2, NotPut, NotDel DEF Duties

\* What a trim or delete_for_runs drops and keeps is what is stored.
LEMMA TidyDropStarts ==
  ASSUME TypeInv, NEW p \in Proc, TidyStore(l[p]), NEW t \in Thread, t = l[p].t,
         l[p].pc \in {"trim_next", "runs_read"}, Only_l, l'[p].pc = DropStart, l'[p].t = t,
         l'[p].kept \cup l'[p].doomed = DOMAIN ck[t], l'[p].kept \cap l'[p].doomed = {},
         l'[p].todo = l'[p].doomed, l'[p].doomed # {},
         \A i \in DOMAIN l'[p].recs : l'[p].recs[i] = Get(ck[t], i)
  PROVE  Duties(l[p])'
<1>1. ck' = ck /\ wr' = wr /\ bl' = bl
  BY OnlyIs
<1>2. CleanWr(t) /\ (~Incremental => DOMAIN bl[t] = {})
  BY DEF TidyStore, Tidy, TidyBase, DirtyWr
<1>3. TidyDrop(l[p])'
  <2>1. CASE Incremental
    <3>1. l'[p].pc = "drop_refs"
      BY <2>1 DEF DropStart
    <3>. QED  BY <1>1, <3>1 DEF TidyDrop
  <2>2. CASE ~Incremental
    <3>1. l'[p].pc = "drop_writes" /\ DOMAIN bl[t] = {}
      BY <1>2, <2>2 DEF DropStart
    <3>2. \A x \in DOMAIN wr[t] : x[1] \in l'[p].kept \cup l'[p].todo
      BY <1>2 DEF CleanWr
    <3>. QED  BY <1>1, <3>1, <3>2 DEF TidyDrop
  <2>. QED  BY <2>1, <2>2
<1>4. l'[p].pc \in {"drop_refs", "drop_writes"}
  BY DEF DropStart
<1>. QED  BY <1>1, <1>3, <1>4, DropDuties DEF DropPCs

LEMMA TidyTrimEnd ==
  ASSUME TypeInv, NEW p \in Proc, TidyStore(l[p]), Duties(l[p]), TrimEnd(p)
  PROVE  Duties(l[p])'
<1>1. PICK t \in Thread : t = l[p].t
  BY TrimEndIs
<1>2. /\ l[p].pc = "trim_next" /\ Only_l /\ l'[p].t = t /\ l'[p].recs = l[p].recs
      /\ l'[p].pc = (IF l'[p].doomed = {} THEN "dropped" ELSE DropStart)
      /\ l'[p].kept = (l[p].kept \cup l[p].needed)
      /\ l'[p].doomed = l[p].ids \ (l[p].kept \cup l[p].needed) /\ l'[p].todo = l'[p].doomed
  BY <1>1, TrimEndIs
<1>3. /\ l[p].ids = DOMAIN ck[t] /\ l[p].kept \subseteq l[p].ids /\ l[p].needed \subseteq l[p].ids
      /\ \A i \in DOMAIN l[p].recs : l[p].recs[i] = Get(ck[t], i)
  BY <1>1, <1>2 DEF Duties, TidyTrim
<1>4. CASE l'[p].doomed = {}
  BY <1>2, <1>4, AtRest DEF RestPCs
<1>5. CASE l'[p].doomed # {}
  <2>1. l'[p].kept \cup l'[p].doomed = DOMAIN ck[t] /\ l'[p].kept \cap l'[p].doomed = {}
    BY <1>2, <1>3
  <2>2. \A i \in DOMAIN l'[p].recs : l'[p].recs[i] = Get(ck[t], i)
    BY <1>2, <1>3
  <2>. QED  BY <1>1, <1>2, <1>5, <2>1, <2>2, TidyDropStarts
<1>. QED  BY <1>4, <1>5

\* The rows a trim did not read before are read now.
LEMMA RefsRead ==
  ASSUME TypeInv, NEW t \in Thread, NEW K, K \subseteq DOMAIN ck[t], NEW recs,
         \A i \in DOMAIN recs : recs[i] = Get(ck[t], i)
  PROVE  References(K, Over(recs, [i \in K |-> Get(ck[t], i)])) = References(K, ck[t])
<1>1. PICK all : all = Over(recs, [i \in K |-> Get(ck[t], i)])
  OBVIOUS
<1>2. \A i \in K : all[i] = Get(ck[t], i)
  BY <1>1 DEF Over
<1>3. \A i \in K : all[i].vers = ck[t][i].vers
  BY <1>2, GetIs
<1>. QED  BY <1>1, <1>3, SameRefs

LEMMA TidyDropRefs ==
  ASSUME TypeInv, NEW p \in Proc, Duties(l[p]), DropRefs(p)
  PROVE  Duties(l[p])'
<1>1. PICK t \in Thread : t = l[p].t
  BY DropRefsIs
<1>2. /\ l[p].pc = "drop_refs" /\ Only_l /\ l'[p].pc = "drop_blob_keys"
      /\ l'[p].keys = References(l[p].kept, Over(l[p].recs, [i \in l[p].kept |-> Get(ck[t], i)]))
      /\ l'[p].t = t /\ l'[p].kept = l[p].kept /\ l'[p].doomed = l[p].doomed /\ l'[p].todo = l[p].todo
  BY <1>1, DropRefsIs
<1>3. /\ \A i \in DOMAIN l[p].recs : l[p].recs[i] = Get(ck[t], i)
      /\ l[p].kept \cup l[p].doomed = DOMAIN ck[t] /\ l[p].kept \cap l[p].doomed = {}
      /\ l[p].todo = l[p].doomed /\ l[p].todo # {}
  BY <1>1, <1>2 DEF Duties, TidyTrim, TidyDrop
<1>4. l'[p].keys = References(l[p].kept, ck[t])
  BY <1>2, <1>3, RefsRead
<1>5. ck' = ck
  BY <1>2, OnlyIs
<1>6. TidyDrop(l[p])'
  BY <1>2, <1>3, <1>4, <1>5 DEF TidyDrop
<1>. QED  BY <1>2, <1>6, DropDuties DEF DropPCs

LEMMA TidyDropBlobKeys ==
  ASSUME TypeInv, NEW p \in Proc, Duties(l[p]), DropBlobKeys(p)
  PROVE  Duties(l[p])'
<1>1. PICK t \in Thread : t = l[p].t
  BY DropBlobKeysIs
<1>2. /\ l[p].pc = "drop_blob_keys" /\ Only_l /\ l'[p].pc = "drop_blobs"
      /\ l'[p].keys = DOMAIN bl[t] \ l[p].keys /\ l'[p].t = t /\ l'[p].kept = l[p].kept
      /\ l'[p].doomed = l[p].doomed /\ l'[p].todo = l[p].todo
  BY <1>1, DropBlobKeysIs
<1>3. /\ l[p].kept \cup l[p].doomed = DOMAIN ck[t] /\ l[p].kept \cap l[p].doomed = {}
      /\ l[p].todo = l[p].doomed /\ l[p].todo # {} /\ l[p].keys = References(l[p].kept, ck[t])
  BY <1>1, <1>2 DEF Duties, TidyDrop
<1>4. ck' = ck /\ bl' = bl
  BY <1>2, OnlyIs
<1>5. DOMAIN bl[t] \ l'[p].keys \subseteq References(l[p].kept, ck[t])
  BY <1>2, <1>3
<1>6. TidyDrop(l[p])'
  BY <1>2, <1>3, <1>4, <1>5 DEF TidyDrop
<1>. QED  BY <1>2, <1>6, DropDuties DEF DropPCs

LEMMA TidyRuns ==
  ASSUME TypeInv, NEW p \in Proc, TidyStore(l[p]), Duties(l[p]), RunsKeys(p) \/ RunsRead(p)
  PROVE  Duties(l[p])'
<1>1. ASSUME l'[p].pc \in RunPCs, l'[p].recs = Empty, l'[p].pc = "runs_read" => l'[p].ids = DOMAIN ck'[l'[p].t]
      PROVE  Duties(l[p])'
  <2>1. TidyCall(l[p])'
    BY <1>1 DEF TidyCall, RunPCs, WritePCs, CopyPCs
  <2>2. /\ l'[p].pc \notin PutPCs /\ l'[p].pc \notin DelPCs \ {"del_ck"}
        /\ l'[p].pc \notin DropPCs \ {"dropped"} /\ l'[p].pc \notin TrimPCs \cup {"drop_refs"}
    BY <1>1 DEF RunPCs, PutPCs, DelPCs, DropPCs, TrimPCs
  <2>. QED  BY <2>1, <2>2, NotPut, NotTrim, NotDel, NotDrop DEF Duties
<1>2. CASE RunsKeys(p)
  <2>1. l[p].recs = Empty /\ ck' = ck
    BY <1>2, RunsKeysIs, OnlyIs DEF Duties, TidyCall
  <2>2. CASE l'[p].pc = "idle"
    BY <2>2, AtRest DEF RestPCs
  <2>3. CASE l'[p].pc = "runs_read" /\ l'[p].ids = DOMAIN ck[l'[p].t] /\ l'[p].recs = l[p].recs
    BY <1>1, <2>1, <2>3 DEF RunPCs
  <2>. QED  BY <1>2, <2>2, <2>3, RunsKeysIs
<1>3. CASE RunsRead(p)
  <2>1. PICK t \in Thread : t = l[p].t
    BY <1>3, RunsReadIs, RunsReadNone
  <2>2. PICK doomed : doomed = {i \in l[p].ids \cap DOMAIN ck[t] : ck[t][i].run \in l[p].runs}
    OBVIOUS
  <2>3. l[p].pc = "runs_read" /\ Only_l
    BY <1>3, RunsReadIs, RunsReadNone
  <2>4. l[p].recs = Empty /\ l[p].ids = DOMAIN ck[t]
    BY <2>1, <2>3 DEF Duties, TidyCall
  <2>5. CASE doomed = {}
    <3>1. l'[p].pc = "runs_next" /\ l'[p].recs = l[p].recs
      BY <1>3, <2>1, <2>2, <2>5, RunsReadNone
    <3>. QED  BY <1>1, <2>4, <3>1 DEF RunPCs
  <2>6. CASE doomed # {}
    <3>1. /\ l'[p].pc = DropStart /\ l'[p].doomed = doomed /\ l'[p].todo = doomed
          /\ l'[p].kept = l[p].ids \ doomed /\ l'[p].t = t /\ l'[p].recs = l[p].recs
      BY <1>3, <2>1, <2>2, <2>6, RunsReadIs
    <3>2. l'[p].kept \cup l'[p].doomed = DOMAIN ck[t] /\ l'[p].kept \cap l'[p].doomed = {}
      BY <2>2, <2>4, <3>1
    <3>3. \A i \in DOMAIN l'[p].recs : l'[p].recs[i] = Get(ck[t], i)
      BY <2>4, <3>1 DEF Empty
    <3>. QED  BY <2>1, <2>3, <2>6, <3>1, <3>2, <3>3, TidyDropStarts
  <2>. QED  BY <2>5, <2>6
<1>. QED  BY <1>2, <1>3

LEMMA TidyDropLatest ==
  ASSUME TypeInv, NEW p \in Proc, TidyInv(p), DropLatest(p)
  PROVE  TidyInv(p)'
<1>1. TidyStore(l[p]) /\ Duties(l[p])
  BY TidyParts
<1>2. PICK t \in Thread : t = l[p].t
  BY DropLatestIs
<1>3. /\ l[p].pc = "drop_latest" /\ Only_l /\ l'[p].t = t /\ l'[p].kept = l[p].kept
      /\ l'[p].pc = (IF lt[t] \in l[p].doomed THEN "drop_fix" ELSE "dropped")
  BY <1>2, DropLatestIs
<1>4. ck' = ck /\ wr' = wr /\ bl' = bl /\ lt' = lt /\ backup' = backup
  BY <1>3, OnlyIs
<1>5. /\ ~Indexed /\ DOMAIN ck[t] = l[p].kept /\ lt[t] \in {None} \cup l[p].kept \cup l[p].doomed
  BY <1>1, <1>2, <1>3 DEF Duties, TidyCall, TidyDrop
<1>6. CleanWr(t)' /\ CleanBl(t)' /\ (~Incremental => DOMAIN bl'[t] = {})
  BY <1>1, <1>3, <1>4 DEF TidyStore, Tidy, TidyBase, DirtyWr, DirtyBl, CleanWr, CleanBl, Refs
<1>7. CleanLt(t)' \/ l'[p].pc \in DirtyLt
  BY <1>3, <1>4, <1>5 DEF CleanLt, DirtyLt
<1>8. TidyStore(l[p])'
  BY <1>1, <1>2, <1>3, <1>4, <1>5, <1>6, <1>7, StoreAt
<1>9. TidyDrop(l[p])'
  BY <1>3, <1>4, <1>5 DEF TidyDrop
<1>10. Duties(l[p])'
  BY <1>3, <1>5, <1>9, DropDuties DEF DropPCs
<1>. QED  BY <1>8, <1>10, TidyParts

LEMMA TidyDropBlobs ==
  ASSUME TypeInv, NEW p \in Proc, TidyInv(p), DropBlobs(p)
  PROVE  TidyInv(p)'
<1>1. TidyStore(l[p]) /\ Duties(l[p])
  BY TidyParts
<1>2. PICK t \in Thread : t = l[p].t
  BY DropBlobsIs
<1>3. /\ l[p].pc = "drop_blobs" /\ bl' = DropRows(bl, t, l[p].keys) /\ ck' = ck /\ wr' = wr /\ lt' = lt
      /\ backup' = backup /\ l'[p].pc = "drop_writes" /\ l'[p].t = t /\ l'[p].kept = l[p].kept
      /\ l'[p].doomed = l[p].doomed /\ l'[p].todo = l[p].todo
  BY <1>2, DropBlobsIs
<1>4. /\ l[p].kept \cup l[p].doomed = DOMAIN ck[t] /\ l[p].kept \cap l[p].doomed = {}
      /\ l[p].todo = l[p].doomed /\ l[p].todo # {}
      /\ DOMAIN bl[t] \ l[p].keys \subseteq References(l[p].kept, ck[t])
  BY <1>1, <1>2, <1>3 DEF Duties, TidyDrop
<1>5. bl \in [Thread -> Part(Channel \X Id, IdOrNo)]
  BY DEF TypeInv, Stores, BlT
<1>6. bl'[t] = Drop(bl[t], l[p].keys) /\ \A u \in Thread : u # t => bl'[u] = bl[u]
  BY <1>3, <1>5 DEF DropRows
<1>7. DOMAIN bl'[t] = DOMAIN bl[t] \ l[p].keys
  BY <1>6 DEF Drop
<1>8. CleanWr(t) /\ CleanBl(t) /\ CleanLt(t)
  BY <1>1, <1>3 DEF TidyStore, Tidy, DirtyWr, DirtyBl, DirtyLt
<1>9. CleanWr(t)' /\ CleanBl(t)' /\ CleanLt(t)'
  BY <1>3, <1>7, <1>8 DEF CleanWr, CleanBl, CleanLt, Refs
<1>10. (Indexed => lt'[t] = None) /\ (~Incremental => DOMAIN bl'[t] = {})
  BY <1>1, <1>3, <1>7 DEF TidyStore, TidyBase
<1>11. TidyStore(l[p])'
  BY <1>1, <1>2, <1>3, <1>6, <1>9, <1>10, StoreAt
<1>12. \A x \in DOMAIN wr[t] : x[1] \in l[p].kept \cup l[p].todo
  BY <1>4, <1>8 DEF CleanWr
<1>13. TidyDrop(l[p])'
  BY <1>3, <1>4, <1>7, <1>12 DEF TidyDrop
<1>14. Duties(l[p])'
  BY <1>3, <1>13, DropDuties DEF DropPCs
<1>. QED  BY <1>11, <1>14, TidyParts

LEMMA TidyDropWrites ==
  ASSUME TypeInv, NEW p \in Proc, TidyInv(p), DropWrites(p)
  PROVE  TidyInv(p)'
<1>1. TidyStore(l[p]) /\ Duties(l[p])
  BY TidyParts
<1>2. PICK t \in Thread : t = l[p].t
  BY DropWritesIs
<1>3. PICK i : i = Min(l[p].todo)
  OBVIOUS
<1>4. /\ l[p].pc = "drop_writes" /\ wr' = DropRows(wr, t, WritesNs(t, i)) /\ ck' = ck /\ bl' = bl /\ lt' = lt
      /\ backup' = backup /\ l'[p].t = t /\ l'[p].kept = l[p].kept /\ l'[p].doomed = l[p].doomed
      /\ l'[p].todo = l[p].todo \ {i}
      /\ l'[p].pc = (IF l[p].todo = {i} THEN "drop_rows" ELSE "drop_writes")
  BY <1>2, <1>3, DropWritesIs
<1>5. /\ l[p].kept \cup l[p].doomed = DOMAIN ck[t] /\ l[p].kept \cap l[p].doomed = {}
      /\ l[p].todo # {} /\ l[p].todo \subseteq l[p].doomed
      /\ DOMAIN bl[t] \subseteq References(l[p].kept, ck[t])
      /\ \A x \in DOMAIN wr[t] : x[1] \in l[p].kept \cup l[p].todo
  BY <1>1, <1>2, <1>4 DEF Duties, TidyDrop
<1>6. i \in l[p].todo
  <2>1. l[p].todo \in SUBSET IdOrNo
    BY <1>5, ReadIs, IdIs
  <2>. QED  BY <1>3, <1>5, <2>1, MaxIs
<1>7. wr \in [Thread -> Part(Id \X WKey, WVal)]
  BY DEF TypeInv, Stores, WrT
<1>8. wr'[t] = Drop(wr[t], WritesNs(t, i)) /\ \A u \in Thread : u # t => wr'[u] = wr[u]
  BY <1>4, <1>7 DEF DropRows
<1>9. \A x \in DOMAIN wr'[t] : x \in DOMAIN wr[t] /\ x[1] # i
  BY <1>8 DEF Drop, WritesNs
<1>10. CleanWr(t) /\ CleanBl(t) /\ CleanLt(t)
  BY <1>1, <1>4 DEF TidyStore, Tidy, DirtyWr, DirtyBl, DirtyLt
<1>11. CleanWr(t)' /\ CleanBl(t)' /\ CleanLt(t)'
  BY <1>4, <1>9, <1>10 DEF CleanWr, CleanBl, CleanLt, Refs
<1>12. (Indexed => lt'[t] = None) /\ (~Incremental => DOMAIN bl'[t] = {})
  BY <1>1, <1>4 DEF TidyStore, TidyBase
<1>13. TidyStore(l[p])'
  BY <1>1, <1>2, <1>4, <1>8, <1>11, <1>12, StoreAt
<1>14. \A x \in DOMAIN wr'[t] : x[1] \in l[p].kept \cup l'[p].todo
  BY <1>4, <1>5, <1>9
<1>15. l'[p].pc = "drop_rows" => l'[p].todo = {}
  BY <1>4
<1>16. l'[p].pc = "drop_writes" => l'[p].todo # {}
  BY <1>4, <1>6
<1>17. l'[p].pc \in {"drop_rows", "drop_writes"} /\ l'[p].todo \subseteq l[p].doomed
  BY <1>4, <1>5
<1>18. TidyDrop(l[p])'
  BY <1>4, <1>5, <1>14, <1>15, <1>16, <1>17 DEF TidyDrop
<1>19. Duties(l[p])'
  BY <1>17, <1>18, DropDuties DEF DropPCs
<1>. QED  BY <1>13, <1>19, TidyParts

LEMMA TidyDropCheckpoints ==
  ASSUME TypeInv, NEW p \in Proc, TidyInv(p), DropCheckpoints(p)
  PROVE  TidyInv(p)'
<1>1. TidyStore(l[p]) /\ Duties(l[p])
  BY TidyParts
<1>2. PICK t \in Thread : t = l[p].t
  BY DropCheckpointsIs
<1>3. /\ l[p].pc = "drop_rows" /\ ck' = DropRows(ck, t, l[p].doomed) /\ wr' = wr /\ bl' = bl /\ lt' = lt
      /\ backup' = backup /\ l'[p].t = t /\ l'[p].kept = l[p].kept /\ l'[p].doomed = l[p].doomed
      /\ l'[p].pc = (IF Indexed THEN "dropped" ELSE "drop_latest")
  BY <1>2, DropCheckpointsIs
<1>4. /\ l[p].kept \cup l[p].doomed = DOMAIN ck[t] /\ l[p].kept \cap l[p].doomed = {}
      /\ DOMAIN bl[t] \subseteq References(l[p].kept, ck[t])
      /\ \A x \in DOMAIN wr[t] : x[1] \in l[p].kept
  BY <1>1, <1>2, <1>3 DEF Duties, TidyDrop
<1>5. ck \in [Thread -> Part(Id, Record)]
  BY DEF TypeInv, Stores, CkT
<1>6. ck'[t] = Drop(ck[t], l[p].doomed) /\ \A u \in Thread : u # t => ck'[u] = ck[u]
  BY <1>3, <1>5 DEF DropRows
<1>7. DOMAIN ck'[t] = l[p].kept /\ \A i \in l[p].kept : ck'[t][i] = ck[t][i]
  BY <1>4, <1>6 DEF Drop
<1>8. References(l[p].kept, ck[t]) = Refs(t)'
  <2>1. \A i \in l[p].kept : ck'[t][i].vers = ck[t][i].vers
    BY <1>7
  <2>2. References(l[p].kept, ck[t]) = References(l[p].kept, ck'[t])
    BY <2>1, SameRefs
  <2>. QED  BY <1>7, <2>2 DEF Refs
<1>9. CleanLt(t) /\ (Indexed => lt[t] = None) /\ (~Incremental => DOMAIN bl[t] = {})
  BY <1>1, <1>3 DEF TidyStore, Tidy, TidyBase, DirtyLt
<1>10. CleanWr(t)' /\ CleanBl(t)'
  BY <1>3, <1>4, <1>7, <1>8 DEF CleanWr, CleanBl
<1>11. CleanLt(t)' \/ l'[p].pc \in DirtyLt
  BY <1>3, <1>9 DEF CleanLt, DirtyLt
<1>12. TidyStore(l[p])'
  BY <1>1, <1>2, <1>3, <1>6, <1>9, <1>10, <1>11, StoreAt
<1>13. lt'[t] \in {None} \cup l[p].kept \cup l[p].doomed
  BY <1>3, <1>4, <1>9 DEF CleanLt
<1>14. TidyDrop(l[p])'
  BY <1>3, <1>7, <1>13 DEF TidyDrop
<1>15. Duties(l[p])'
  BY <1>3, <1>14, DropDuties DEF DropPCs
<1>. QED  BY <1>12, <1>15, TidyParts

LEMMA TidyDropFix ==
  ASSUME TypeInv, NEW p \in Proc, TidyInv(p), DropFix(p)
  PROVE  TidyInv(p)'
<1>1. TidyStore(l[p]) /\ Duties(l[p])
  BY TidyParts
<1>2. PICK t \in Thread : t = l[p].t
  BY DropFixIs
<1>3. /\ l[p].pc = "drop_fix" /\ lt' = [lt EXCEPT ![t] = Newest(l[p].kept)] /\ ck' = ck /\ wr' = wr /\ bl' = bl
      /\ backup' = backup /\ l'[p].pc = "dropped"
  BY <1>2, DropFixIs
<1>4. ~Indexed /\ DOMAIN ck[t] = l[p].kept
  BY <1>1, <1>2, <1>3 DEF Duties, TidyCall, TidyDrop
<1>5. lt \in [Thread -> IdOrNo]
  BY DEF TypeInv, Stores, LtT
<1>6. lt'[t] = Newest(DOMAIN ck[t]) /\ \A u \in Thread : u # t => lt'[u] = lt[u]
  BY <1>3, <1>4, <1>5
<1>7. CleanLt(t)'
  <2>1. DOMAIN ck[t] \in SUBSET Id
    BY ReadIs
  <2>2. Newest(DOMAIN ck[t]) \in {None} \cup DOMAIN ck[t]
    BY <2>1, NewestIs
  <2>. QED  BY <1>3, <1>6, <2>2 DEF CleanLt
<1>8. CleanWr(t)' /\ CleanBl(t)' /\ (~Incremental => DOMAIN bl'[t] = {})
  BY <1>1, <1>3 DEF TidyStore, Tidy, TidyBase, DirtyWr, DirtyBl, CleanWr, CleanBl, Refs
<1>9. TidyStore(l[p])'
  BY <1>1, <1>2, <1>3, <1>4, <1>6, <1>7, <1>8, StoreAt
<1>10. Duties(l[p])'
  BY <1>3, AtRest DEF RestPCs
<1>. QED  BY <1>9, <1>10, TidyParts

LEMMA TidyDropped ==
  ASSUME TypeInv, NEW p \in Proc, TidyInv(p), Dropped(p)
  PROVE  TidyInv(p)'
<1>1. TidyStore(l[p]) /\ Duties(l[p])
  BY TidyParts
<1>2. /\ l[p].pc = "dropped" /\ UNCHANGED <<store, backup>> /\ l'[p].recs = Empty
      /\ l'[p].pc \in {"idle", "runs_next"}
  BY DroppedIs
<1>3. TidyStore(l[p])'
  BY <1>1, <1>2, StoreStill DEF store, Dirty, DirtyWr, DirtyBl, DirtyLt
<1>4. Duties(l[p])'
  <2>1. CASE l'[p].pc = "idle"
    BY <2>1, AtRest DEF RestPCs
  <2>2. CASE l'[p].pc = "runs_next"
    <3>1. TidyCall(l[p])'
      BY <1>2, <2>2 DEF TidyCall, WritePCs, CopyPCs
    <3>2. /\ l'[p].pc \notin PutPCs /\ l'[p].pc \notin DelPCs \ {"del_ck"}
          /\ l'[p].pc \notin DropPCs \ {"dropped"} /\ l'[p].pc \notin TrimPCs \cup {"drop_refs"}
      BY <2>2 DEF PutPCs, DelPCs, DropPCs, TrimPCs
    <3>. QED  BY <3>1, <3>2, NotPut, NotTrim, NotDel, NotDrop DEF Duties
  <2>. QED  BY <1>2, <2>1, <2>2
<1>. QED  BY <1>3, <1>4, TidyParts

LEMMA DelDuties ==
  ASSUME NEW p \in Proc, l'[p].pc \in DelPCs, TidyDel(l[p])'
  PROVE  Duties(l[p])'
<1>1. /\ l'[p].pc \notin PutPCs /\ l'[p].pc \notin TrimPCs \cup {"drop_refs"}
      /\ l'[p].pc \notin DropPCs \ {"dropped"}
      /\ l'[p].pc \notin WritePCs \cup RunPCs \cup CopyPCs
                         \cup {"get_lt", "get_row", "get_keys", "get_publish", "drop_latest", "drop_fix"}
  BY DEF DelPCs, PutPCs, TrimPCs, DropPCs, WritePCs, RunPCs, CopyPCs
<1>. QED  BY <1>1, NotPut, NotCall, NotTrim, NotDrop DEF Duties

LEMMA TidyDeleteCk ==
  ASSUME TypeInv, NEW p \in Proc, TidyInv(p), DeleteCk(p)
  PROVE  TidyInv(p)'
<1>1. TidyStore(l[p]) /\ Duties(l[p])
  BY TidyParts
<1>2. PICK t \in Thread : t = l[p].t
  BY DeleteCkIs
<1>3. /\ l[p].pc = "del_ck" /\ ck' = [ck EXCEPT ![t] = Empty] /\ wr' = wr /\ bl' = bl /\ lt' = lt
      /\ backup' = backup /\ l'[p].pc = "del_wr_list" /\ l'[p].t = t
  BY <1>2, DeleteCkIs
<1>4. ck \in [Thread -> Part(Id, Record)]
  BY DEF TypeInv, Stores, CkT
<1>5. DOMAIN ck'[t] = {} /\ \A u \in Thread : u # t => ck'[u] = ck[u]
  BY <1>3, <1>4 DEF Empty
<1>6. (Indexed => lt'[t] = None) /\ (~Incremental => DOMAIN bl'[t] = {})
  BY <1>1, <1>3 DEF TidyStore, TidyBase
<1>7. l'[p].pc \in DirtyWr /\ l'[p].pc \in DirtyBl /\ l'[p].pc \in DirtyLt
  BY <1>3 DEF DirtyWr, DirtyBl, DirtyLt
<1>8. TidyStore(l[p])'
  BY <1>1, <1>2, <1>3, <1>5, <1>6, <1>7, StoreAt
<1>9. TidyDel(l[p])'
  BY <1>3, <1>5 DEF TidyDel
<1>10. Duties(l[p])'
  BY <1>3, <1>9, DelDuties DEF DelPCs
<1>. QED  BY <1>8, <1>10, TidyParts

LEMMA TidyDeleteWrites ==
  ASSUME TypeInv, NEW p \in Proc, TidyInv(p), DeleteListWrites(p) \/ DeleteWrites(p)
  PROVE  TidyInv(p)'
<1>1. TidyStore(l[p]) /\ Duties(l[p])
  BY TidyParts
<1>2. PICK t \in Thread : t = l[p].t
  BY DeleteListWritesIs, DeleteWritesIs
<1>3. wr \in [Thread -> Part(Id \X WKey, WVal)]
  BY DEF TypeInv, Stores, WrT
<1>4. /\ l[p].pc \in {"del_wr_list", "del_wr"} /\ ck' = ck /\ bl' = bl /\ lt' = lt /\ backup' = backup
      /\ l'[p].t = t /\ l'[p].pc = (IF l'[p].todo = {} THEN "del_bl" ELSE "del_wr")
      /\ \A u \in Thread : u # t => wr'[u] = wr[u]
      /\ \A x \in DOMAIN wr'[t] : x[1] \in l'[p].todo
  <2>1. CASE DeleteListWrites(p)
    <3>1. /\ l[p].pc = "del_wr_list" /\ Only_l /\ l'[p].t = t
          /\ l'[p].todo = {x[1] : x \in DOMAIN wr[t]}
          /\ l'[p].pc = (IF l'[p].todo = {} THEN "del_bl" ELSE "del_wr")
      BY <1>2, <2>1, DeleteListWritesIs
    <3>. QED  BY <3>1, OnlyIs
  <2>2. CASE DeleteWrites(p)
    <3>1. /\ l[p].pc = "del_wr" /\ l'[p].t = t /\ ck' = ck /\ bl' = bl /\ lt' = lt /\ backup' = backup
      BY <1>2, <2>2, DeleteWritesIs
    <3>2. PICK i \in l[p].todo : /\ wr' = DropRows(wr, t, WritesNs(t, i))
                                 /\ l'[p].todo = l[p].todo \ {i}
                                 /\ l'[p].pc = (IF l'[p].todo = {} THEN "del_bl" ELSE "del_wr")
      BY <1>2, <2>2, DeleteWritesIs
    <3>3. wr'[t] = Drop(wr[t], WritesNs(t, i)) /\ \A u \in Thread : u # t => wr'[u] = wr[u]
      BY <1>3, <3>2 DEF DropRows
    <3>4. \A x \in DOMAIN wr[t] : x[1] \in l[p].todo
      BY <1>1, <1>2, <3>1 DEF Duties, TidyDel
    <3>5. \A x \in DOMAIN wr'[t] : x[1] \in l'[p].todo
      BY <3>2, <3>3, <3>4 DEF Drop, WritesNs
    <3>. QED  BY <3>1, <3>2, <3>3, <3>5
  <2>. QED  BY <2>1, <2>2
<1>5. DOMAIN ck[t] = {}
  BY <1>1, <1>2, <1>4 DEF Duties, TidyDel, DelPCs
<1>6. (Indexed => lt'[t] = None) /\ (~Incremental => DOMAIN bl'[t] = {})
  BY <1>1, <1>4 DEF TidyStore, TidyBase
<1>7. l'[p].pc \in DirtyBl /\ l'[p].pc \in DirtyLt
  BY <1>4 DEF DirtyBl, DirtyLt
<1>8. CleanWr(t)' \/ l'[p].pc \in DirtyWr
  BY <1>4 DEF CleanWr, DirtyWr
<1>9. TidyStore(l[p])'
  BY <1>1, <1>2, <1>4, <1>6, <1>7, <1>8, StoreAt
<1>10. TidyDel(l[p])'
  BY <1>4, <1>5 DEF TidyDel
<1>11. Duties(l[p])'
  BY <1>4, <1>10, DelDuties DEF DelPCs
<1>. QED  BY <1>9, <1>11, TidyParts

LEMMA TidyDeleteBlobs ==
  ASSUME TypeInv, NEW p \in Proc, TidyInv(p), DeleteBlobs(p)
  PROVE  TidyInv(p)'
<1>1. TidyStore(l[p]) /\ Duties(l[p])
  BY TidyParts
<1>2. PICK t \in Thread : t = l[p].t
  BY DeleteBlobsIs
<1>3. /\ l[p].pc = "del_bl" /\ bl' = [bl EXCEPT ![t] = Empty] /\ ck' = ck /\ wr' = wr /\ lt' = lt
      /\ backup' = backup /\ l'[p].pc = "del_lt" /\ l'[p].t = t
  BY <1>2, DeleteBlobsIs
<1>4. bl \in [Thread -> Part(Channel \X Id, IdOrNo)]
  BY DEF TypeInv, Stores, BlT
<1>5. DOMAIN bl'[t] = {} /\ \A u \in Thread : u # t => bl'[u] = bl[u]
  BY <1>3, <1>4 DEF Empty
<1>6. DOMAIN ck[t] = {}
  BY <1>1, <1>2, <1>3 DEF Duties, TidyDel, DelPCs
<1>7. CleanWr(t)' /\ CleanBl(t)' /\ l'[p].pc \in DirtyLt
  BY <1>1, <1>3, <1>5 DEF TidyStore, Tidy, DirtyWr, DirtyLt, CleanWr, CleanBl
<1>8. Indexed => lt'[t] = None
  BY <1>1, <1>3 DEF TidyStore, TidyBase
<1>9. TidyStore(l[p])'
  BY <1>1, <1>2, <1>3, <1>5, <1>7, <1>8, StoreAt
<1>10. TidyDel(l[p])'
  BY <1>3, <1>6 DEF TidyDel
<1>11. Duties(l[p])'
  BY <1>3, <1>10, DelDuties DEF DelPCs
<1>. QED  BY <1>9, <1>11, TidyParts

LEMMA TidyDeleteLatest ==
  ASSUME TypeInv, NEW p \in Proc, TidyInv(p), DeleteLatest(p)
  PROVE  TidyInv(p)'
<1>1. TidyStore(l[p]) /\ Duties(l[p])
  BY TidyParts
<1>2. PICK t \in Thread : t = l[p].t
  BY DeleteLatestIs
<1>3. /\ l[p].pc = "del_lt" /\ lt' = (IF Indexed THEN lt ELSE [lt EXCEPT ![t] = None]) /\ ck' = ck /\ wr' = wr
      /\ bl' = bl /\ backup' = backup /\ l'[p].pc = "idle"
  BY <1>2, DeleteLatestIs, ReturnIs
<1>4. lt \in [Thread -> IdOrNo]
  BY DEF TypeInv, Stores, LtT
<1>5. (Indexed => lt[t] = None) /\ (~Incremental => DOMAIN bl'[t] = {})
  BY <1>1, <1>3 DEF TidyStore, TidyBase
<1>6. lt'[t] = None /\ \A u \in Thread : u # t => lt'[u] = lt[u]
  BY <1>3, <1>4, <1>5
<1>7. CleanWr(t)' /\ CleanBl(t)' /\ CleanLt(t)'
  BY <1>1, <1>3, <1>6 DEF TidyStore, Tidy, DirtyWr, DirtyBl, CleanWr, CleanBl, CleanLt, Refs
<1>8. TidyStore(l[p])'
  BY <1>1, <1>2, <1>3, <1>5, <1>6, <1>7, StoreAt
<1>9. Duties(l[p])'
  BY <1>3, AtRest DEF RestPCs
<1>. QED  BY <1>8, <1>9, TidyParts

LEMMA TidySurveys ==
  ASSUME TypeInv, NEW p \in Proc, TidyInv(p), Surveys(p)
  PROVE  TidyInv(p)'
<1>1. CASE DropLatest(p) \/ DeleteListWrites(p)
  BY <1>1, TidyDropLatest, TidyDeleteWrites
<1>2. CASE ~ (DropLatest(p) \/ DeleteListWrites(p))
  <2>1. TidyStore(l[p]) /\ Duties(l[p])
    BY TidyParts
  <2>2. Duties(l[p])'
    BY <1>2, <2>1, TidyListing, TidyWalk, TidyTrimEnd, TidyDropRefs, TidyDropBlobKeys, TidyRuns
       DEF Surveys
  <2>3. l[p].pc \in TrimPCs \cup RunPCs \cup {"drop_refs", "drop_blob_keys"}
    <3>1. CASE PruneKeys(p) \/ TrimIds(p)
      BY <3>1, PruneKeysIs, PruneKeysStops, TrimIdsIs, TrimIdsStops DEF TrimPCs
    <3>2. CASE TrimRead(p) \/ TrimNext(p) \/ WalkRow(p) \/ WalkVals(p) \/ TrimEnd(p)
      BY <3>2, TrimReadIs, TrimNextIs, WalkRowIs, WalkRowStops, WalkValsIs, WalkValsStops, TrimEndIs DEF TrimPCs
    <3>3. CASE DropRefs(p) \/ DropBlobKeys(p) \/ RunsKeys(p) \/ RunsRead(p)
      BY <3>3, DropRefsIs, DropBlobKeysIs, RunsKeysIs, RunsReadIs, RunsReadNone DEF RunPCs
    <3>. QED  BY <1>2, <3>1, <3>2, <3>3 DEF Surveys
  <2>4. l[p].pc \notin Dirty
    BY <2>3 DEF TrimPCs, RunPCs, Dirty, DirtyWr, DirtyBl, DirtyLt
  <2>5. TidyStore(l[p])'
    BY <2>1, <2>4, SurveysIs, OnlyIs, StoreStill
  <2>. QED  BY <2>2, <2>5, TidyParts
<1>. QED  BY <1>1, <1>2

\* A step that changes the store of a thread the call is not working on.
LEMMA StoreElse ==
  ASSUME NEW p \in Proc, TidyStore(l[p]), l[p].pc \notin Dirty, backup' = backup, NEW u \in Thread,
         \A v \in Thread : v # u => ck'[v] = ck[v] /\ wr'[v] = wr[v] /\ bl'[v] = bl[v] /\ lt'[v] = lt[v],
         CleanWr(u)', CleanBl(u)', CleanLt(u)',
         Indexed => lt'[u] = None, ~Incremental => DOMAIN bl'[u] = {}
  PROVE  TidyStore(l[p])'
<1>1. TidyBase' /\ TidyBackup'
  BY DEF TidyStore, TidyBase, TidyBackup
<1>2. \A v \in Thread : v # u => CleanWr(v)' /\ CleanBl(v)' /\ CleanLt(v)'
  <2>1. \A v \in Thread : CleanWr(v) /\ CleanBl(v) /\ CleanLt(v)
    BY DEF TidyStore, Tidy, Dirty
  <2>. QED  BY <2>1 DEF CleanWr, CleanBl, CleanLt, Refs
<1>3. Tidy(l[p])'
  BY <1>2 DEF Tidy
<1>. QED  BY <1>1, <1>3 DEF TidyStore

LEMMA CopyDuties ==
  ASSUME NEW p \in Proc, l'[p].pc \in CopyPCs, NEW u \in Thread, l'[p].threads = {u}, u # l'[p].t,
         DOMAIN ck'[l'[p].t] \subseteq DOMAIN ck'[u]
  PROVE  Duties(l[p])'
<1>1. /\ l'[p].pc \notin PutPCs /\ l'[p].pc \notin DelPCs \ {"del_ck"} /\ l'[p].pc \notin TrimPCs \cup {"drop_refs"}
      /\ l'[p].pc \notin DropPCs \ {"dropped"}
  BY DEF PutPCs, DelPCs, TrimPCs, DropPCs, CopyPCs
<1>2. TidyCall(l[p])'
  BY DEF TidyCall, WritePCs, CopyPCs
<1>. QED  BY <1>1, <1>2, NotPut, NotDel, NotTrim, NotDrop DEF Duties

LEMMA CopyAt ==
  ASSUME TypeInv, NEW p \in Proc, TidyInv(p), l[p].pc \in CopyPCs
  PROVE  /\ l[p].t \in Thread /\ Target(p) \in Thread /\ l[p].threads = {Target(p)} /\ Target(p) # l[p].t
         /\ l[p].pc # "copy_ck" => DOMAIN ck[l[p].t] \subseteq DOMAIN ck[Target(p)]
         /\ TidyStore(l[p]) /\ l[p].pc \notin Dirty
         /\ \A v \in Thread : CleanWr(v) /\ CleanBl(v) /\ CleanLt(v)
<1>1. PICK u \in Thread : /\ l[p].threads = {u} /\ u # l[p].t
                          /\ l[p].pc # "copy_ck" => DOMAIN ck[l[p].t] \subseteq DOMAIN ck[u]
  BY DEF TidyInv, TidyCall
<1>2. l[p].t \in Thread /\ Target(p) \in l[p].threads
  BY TargetIs
<1>3. Target(p) = u
  BY <1>1, <1>2
<1>4. TidyStore(l[p])
  BY TidyParts
<1>5. l[p].pc \notin Dirty
  BY DEF CopyPCs, Dirty, DirtyWr, DirtyBl, DirtyLt
<1>6. \A v \in Thread : CleanWr(v) /\ CleanBl(v) /\ CleanLt(v)
  BY <1>4, <1>5 DEF TidyStore, Tidy, Dirty
<1>. QED  BY <1>1, <1>2, <1>3, <1>4, <1>5, <1>6

LEMMA TidyCopyCk ==
  ASSUME TypeInv, Same, NEW p \in Proc, TidyInv(p), CopyCk(p)
  PROVE  TidyInv(p)'
<1>1. l[p].pc = "copy_ck" /\ l[p].pc \in CopyPCs
  BY CopyCkIs DEF CopyPCs
<1>2. PICK t \in Thread, u \in Thread : t = l[p].t /\ u = Target(p)
  BY <1>1, CopyAt
<1>3. /\ l[p].threads = {u} /\ u # t /\ TidyStore(l[p]) /\ l[p].pc \notin Dirty
      /\ CleanWr(u) /\ CleanBl(u) /\ CleanLt(u)
  BY <1>1, <1>2, CopyAt
<1>4. /\ ck' = CopyRows(ck, t, u) /\ wr' = wr /\ bl' = bl /\ lt' = lt /\ backup' = backup
      /\ l'[p].pc = "copy_wr" /\ l'[p].t = t /\ l'[p].threads = l[p].threads
  BY <1>2, CopyCkIs
<1>5. ck \in [Thread -> Part(Id, Record)]
  BY DEF TypeInv, Stores, CkT
<1>6. ck'[u] = Over(ck[t], ck[u]) /\ \A v \in Thread : v # u => ck'[v] = ck[v]
  BY <1>4, <1>5 DEF CopyRows
<1>7. DOMAIN ck'[u] = DOMAIN ck[t] \cup DOMAIN ck[u]
  BY <1>6 DEF Over
<1>8. \A i \in DOMAIN ck[u] : ck'[u][i] = ck[u][i]
  <2>1. ASSUME NEW i \in DOMAIN ck[u], i \in DOMAIN ck[t]
        PROVE  ck[t][i] = ck[u][i]
    BY <2>1 DEF Same, TypeInv, Known
  <2>. QED  BY <1>6, <2>1 DEF Over
<1>9. Refs(u) \subseteq Refs(u)'
  <2>1. DOMAIN ck[u] \subseteq DOMAIN ck'[u] /\ \A i \in DOMAIN ck[u] : ck'[u][i].vers = ck[u][i].vers
    BY <1>7, <1>8
  <2>. QED  BY <2>1, MoreRefs DEF Refs
<1>10. CleanWr(u)' /\ CleanBl(u)' /\ CleanLt(u)'
  BY <1>3, <1>4, <1>7, <1>9 DEF CleanWr, CleanBl, CleanLt
<1>11. (Indexed => lt'[u] = None) /\ (~Incremental => DOMAIN bl'[u] = {})
  BY <1>3, <1>4 DEF TidyStore, TidyBase
<1>12. TidyStore(l[p])'
  BY <1>3, <1>4, <1>6, <1>10, <1>11, StoreElse
<1>13. Duties(l[p])'
  <2>1. DOMAIN ck'[t] \subseteq DOMAIN ck'[u]
    BY <1>3, <1>6, <1>7
  <2>. QED  BY <1>3, <1>4, <2>1, CopyDuties DEF CopyPCs
<1>. QED  BY <1>12, <1>13, TidyParts

LEMMA TidyCopyWr ==
  ASSUME TypeInv, NEW p \in Proc, TidyInv(p), CopyWr(p)
  PROVE  TidyInv(p)'
<1>1. l[p].pc = "copy_wr" /\ l[p].pc \in CopyPCs
  BY CopyWrIs DEF CopyPCs
<1>2. PICK t \in Thread, u \in Thread : t = l[p].t /\ u = Target(p)
  BY <1>1, CopyAt
<1>3. /\ l[p].threads = {u} /\ u # t /\ TidyStore(l[p]) /\ l[p].pc \notin Dirty
      /\ CleanWr(u) /\ CleanBl(u) /\ CleanLt(u) /\ CleanWr(t) /\ DOMAIN ck[t] \subseteq DOMAIN ck[u]
  BY <1>1, <1>2, CopyAt
<1>4. /\ wr' = CopyRows(wr, t, u) /\ ck' = ck /\ bl' = bl /\ lt' = lt /\ backup' = backup
      /\ l'[p].pc = "copy_bl" /\ l'[p].t = t /\ l'[p].threads = l[p].threads
  BY <1>2, CopyWrIs
<1>5. wr \in [Thread -> Part(Id \X WKey, WVal)]
  BY DEF TypeInv, Stores, WrT
<1>6. wr'[u] = Over(wr[t], wr[u]) /\ \A v \in Thread : v # u => wr'[v] = wr[v]
  BY <1>4, <1>5 DEF CopyRows
<1>7. CleanWr(u)'
  BY <1>3, <1>4, <1>6 DEF CleanWr, Over
<1>8. CleanBl(u)' /\ CleanLt(u)'
  BY <1>3, <1>4 DEF CleanBl, CleanLt, Refs
<1>9. (Indexed => lt'[u] = None) /\ (~Incremental => DOMAIN bl'[u] = {})
  BY <1>3, <1>4 DEF TidyStore, TidyBase
<1>10. TidyStore(l[p])'
  BY <1>3, <1>4, <1>6, <1>7, <1>8, <1>9, StoreElse
<1>11. Duties(l[p])'
  BY <1>3, <1>4, CopyDuties DEF CopyPCs
<1>. QED  BY <1>10, <1>11, TidyParts

LEMMA TidyCopyBl ==
  ASSUME TypeInv, Same, NEW p \in Proc, TidyInv(p), CopyBl(p)
  PROVE  TidyInv(p)'
<1>1. l[p].pc = "copy_bl" /\ l[p].pc \in CopyPCs
  BY CopyBlIs DEF CopyPCs
<1>2. PICK t \in Thread, u \in Thread : t = l[p].t /\ u = Target(p)
  BY <1>1, CopyAt
<1>3. /\ l[p].threads = {u} /\ u # t /\ TidyStore(l[p]) /\ l[p].pc \notin Dirty
      /\ CleanWr(u) /\ CleanBl(u) /\ CleanLt(u) /\ CleanBl(t) /\ DOMAIN ck[t] \subseteq DOMAIN ck[u]
  BY <1>1, <1>2, CopyAt
<1>4. /\ bl' = CopyRows(bl, t, u) /\ ck' = ck /\ wr' = wr /\ lt' = lt /\ backup' = backup
      /\ l'[p].pc = "copy_lt" /\ l'[p].t = t /\ l'[p].threads = l[p].threads
  BY <1>2, CopyBlIs
<1>5. bl \in [Thread -> Part(Channel \X Id, IdOrNo)]
  BY DEF TypeInv, Stores, BlT
<1>6. bl'[u] = Over(bl[t], bl[u]) /\ \A v \in Thread : v # u => bl'[v] = bl[v]
  BY <1>4, <1>5 DEF CopyRows
<1>7. Refs(t) \subseteq Refs(u)
  <2>1. \A i \in DOMAIN ck[t] : ck[u][i] = ck[t][i]
    BY <1>3 DEF Same, TypeInv, Known
  <2>2. \A i \in DOMAIN ck[t] : ck[u][i].vers = ck[t][i].vers
    BY <2>1
  <2>. QED  BY <1>3, <2>2, MoreRefs DEF Refs
<1>8. CleanBl(u)'
  BY <1>3, <1>4, <1>6, <1>7 DEF CleanBl, Over, Refs
<1>9. CleanWr(u)' /\ CleanLt(u)'
  BY <1>3, <1>4 DEF CleanWr, CleanLt
<1>10. (Indexed => lt'[u] = None) /\ (~Incremental => DOMAIN bl'[u] = {})
  BY <1>3, <1>4, <1>6 DEF TidyStore, TidyBase, Over
<1>11. TidyStore(l[p])'
  BY <1>3, <1>4, <1>6, <1>8, <1>9, <1>10, StoreElse
<1>12. Duties(l[p])'
  BY <1>3, <1>4, CopyDuties DEF CopyPCs
<1>. QED  BY <1>11, <1>12, TidyParts

LEMMA TidyCopyLatest ==
  ASSUME TypeInv, NEW p \in Proc, TidyInv(p), CopyLatest(p)
  PROVE  TidyInv(p)'
<1>1. l[p].pc = "copy_lt" /\ l[p].pc \in CopyPCs
  BY CopyLatestIs DEF CopyPCs
<1>2. PICK u \in Thread : u = Target(p)
  BY <1>1, CopyAt
<1>3. TidyStore(l[p]) /\ l[p].pc \notin Dirty /\ CleanWr(u) /\ CleanBl(u) /\ CleanLt(u)
  BY <1>1, <1>2, CopyAt
<1>4. /\ IF Indexed \/ Newest(DOMAIN ck[u]) = None THEN lt' = lt
         ELSE lt' = [lt EXCEPT ![u] = Newest(DOMAIN ck[u])]
      /\ ck' = ck /\ wr' = wr /\ bl' = bl /\ backup' = backup /\ l'[p].pc = "idle"
  BY <1>2, CopyLatestIs, ReturnIs
<1>5. lt \in [Thread -> IdOrNo]
  BY DEF TypeInv, Stores, LtT
<1>6. (Indexed => lt[u] = None) /\ (~Incremental => DOMAIN bl'[u] = {})
  BY <1>3, <1>4 DEF TidyStore, TidyBase
<1>7. /\ \A v \in Thread : v # u => lt'[v] = lt[v]
      /\ lt'[u] \in {lt[u], Newest(DOMAIN ck[u])} /\ (Indexed => lt'[u] = None)
  BY <1>4, <1>5, <1>6
<1>8. CleanLt(u)'
  <2>1. DOMAIN ck[u] \in SUBSET Id
    BY ReadIs
  <2>2. Newest(DOMAIN ck[u]) \in {None} \cup DOMAIN ck[u]
    BY <2>1, NewestIs
  <2>. QED  BY <1>3, <1>4, <1>7, <2>2 DEF CleanLt
<1>9. CleanWr(u)' /\ CleanBl(u)'
  BY <1>3, <1>4 DEF CleanWr, CleanBl, Refs
<1>10. TidyStore(l[p])'
  BY <1>3, <1>4, <1>6, <1>7, <1>8, <1>9, StoreElse
<1>11. Duties(l[p])'
  BY <1>4, AtRest DEF RestPCs
<1>. QED  BY <1>10, <1>11, TidyParts

LEMMA TidyRollback ==
  ASSUME TypeInv, NEW p \in Proc, TidyInv(p), SnapshotStore(p) \/ RestoreStore(p)
  PROVE  TidyInv(p)'
<1>1. TidyStore(l[p])
  BY TidyParts
<1>2. l[p].pc = "idle" /\ l' = l
  BY DEF SnapshotStore, RestoreStore, Call, At
<1>3. \A v \in Thread : CleanWr(v) /\ CleanBl(v) /\ CleanLt(v)
  BY <1>1, <1>2 DEF TidyStore, Tidy, DirtyWr, DirtyBl, DirtyLt
<1>4. TidyStore(l[p])'
  <2>1. CASE SnapshotStore(p)
    <3>1. backup' = <<ck, wr, bl, lt, awr>> /\ ck' = ck /\ wr' = wr /\ bl' = bl /\ lt' = lt
      BY <2>1 DEF SnapshotStore, store
    <3>2. TidyBase' /\ Tidy(l[p])'
      BY <1>1, <1>2, <3>1 DEF TidyStore, TidyBase, Tidy, CleanWr, CleanBl, CleanLt, Refs
    <3>3. TidyBackup'
      BY <1>1, <1>3, <3>1 DEF TidyStore, TidyBase, TidyBackup, CleanWr, CleanBl, CleanLt, Refs
    <3>. QED  BY <3>2, <3>3 DEF TidyStore
  <2>2. CASE RestoreStore(p)
    <3>1. /\ backup # <<>> /\ backup' = backup /\ ck' = backup[1] /\ wr' = backup[2] /\ bl' = backup[3]
          /\ lt' = backup[4]
      BY <2>2 DEF RestoreStore
    <3>2. TidyBackup
      BY <1>1 DEF TidyStore
    <3>3. \A t \in Thread : CleanWr(t)' /\ CleanBl(t)' /\ CleanLt(t)'
      BY <3>1, <3>2 DEF TidyBackup, CleanWr, CleanBl, CleanLt, Refs
    <3>4. TidyBase' /\ TidyBackup'
      BY <3>1, <3>2 DEF TidyBackup, TidyBase
    <3>. QED  BY <3>3, <3>4 DEF TidyStore, Tidy
  <2>. QED  BY <2>1, <2>2
<1>5. Duties(l[p])'
  BY <1>2, AtRest DEF RestPCs
<1>. QED  BY <1>4, <1>5, TidyParts

LEMMA InitTidy ==
  ASSUME NEW p \in Proc, Init
  PROVE  TidyInv(p)
<1>1. PICK old \in SUBSET Legacy :
        /\ ck = [t \in Thread |-> IF t \in old THEN Row(1, Stored(OldRow)) ELSE Empty]
        /\ bl = [t \in Thread |-> IF t \in old /\ Incremental
                                  THEN [x \in Channel \X {1} |-> 1] ELSE Empty]
  BY DEF Init
<1>2. /\ wr = [t \in Thread |-> Empty] /\ lt = [t \in Thread |-> None] /\ backup = <<>>
      /\ l[p].pc = "idle"
  BY DEF Init, Locals0
<1>3. DOMAIN Empty = {}
  BY DEF Empty
<1>4. ASSUME NEW t \in Thread
      PROVE  CleanWr(t) /\ CleanBl(t) /\ CleanLt(t) /\ lt[t] = None /\ (~Incremental => DOMAIN bl[t] = {})
  <2>1. DOMAIN wr[t] = {} /\ lt[t] = None
    BY <1>2, <1>3
  <2>2. CASE t \in old /\ Incremental
    <3>1. DOMAIN bl[t] = Channel \X {1} /\ DOMAIN ck[t] = {1} /\ ck[t][1] = Stored(OldRow)
      BY <1>1, <2>2 DEF Row
    <3>2. \A c \in Channel : ck[t][1].vers[c] = 1
      BY <3>1, OldRowIs, StoredIs
    <3>3. Channel \X {1} \subseteq {<<c, ck[t][1].vers[c]>> : c \in Channel}
      BY <3>2
    <3>4. {<<c, ck[t][1].vers[c]>> : c \in Channel} \subseteq Refs(t)
      BY <3>1 DEF Refs, References
    <3>. QED  BY <2>1, <2>2, <3>1, <3>3, <3>4 DEF CleanWr, CleanBl, CleanLt
  <2>3. CASE ~ (t \in old /\ Incremental)
    <3>1. DOMAIN bl[t] = {}
      BY <1>1, <1>3, <2>3
    <3>. QED  BY <2>1, <3>1 DEF CleanWr, CleanBl, CleanLt
  <2>. QED  BY <2>2, <2>3
<1>5. Tidy(l[p]) /\ TidyBase /\ TidyBackup
  BY <1>2, <1>4 DEF Tidy, TidyBase, TidyBackup
<1>6. TidyPut(l[p]) /\ TidyCall(l[p]) /\ TidyDel(l[p]) /\ TidyTrim(l[p]) /\ TidyDrop(l[p])
  BY <1>2 DEF TidyPut, TidyCall, TidyDel, TidyTrim, TidyDrop, PutPCs, WritePCs, CopyPCs, DelPCs
<1>. QED  BY <1>5, <1>6 DEF TidyInv

LEMMA NextTidy ==
  ASSUME TypeInv, Same, NEW p \in Proc, \A q \in Proc : q = p, TidyInv(p), Next
  PROVE  TidyInv(p)'
<1>1. \/ PutBegins(p) \/ WritesBegin(p) \/ Begins(p)
      \/ SnapshotStore(p) \/ RestoreStore(p)
      \/ PutHint(p) \/ PutBlobContains(p) \/ PutBlobs(p) \/ PutRows(p) \/ PutRest(p)
      \/ CheckWrites(p) \/ FlushWrites(p) \/ Reading(p) \/ GetPublish(p) \/ Surveys(p)
      \/ DropBlobs(p) \/ DropWrites(p) \/ DropCheckpoints(p) \/ DropFix(p) \/ Dropped(p)
      \/ DeleteCk(p) \/ DeleteWrites(p) \/ DeleteBlobs(p) \/ DeleteLatest(p)
      \/ CopyCk(p) \/ CopyWr(p) \/ CopyBl(p) \/ CopyLatest(p)
  BY NextIs
<1>2. CASE PutBegins(p) \/ WritesBegin(p) \/ Begins(p) \/ SnapshotStore(p) \/ RestoreStore(p)
  BY <1>2, TidyPutBegins, TidyWrites, TidyBegins, TidyRollback
<1>3. CASE PutHint(p) \/ PutBlobContains(p) \/ PutBlobs(p) \/ PutRows(p) \/ PutRest(p)
  BY <1>3, TidyPutHint, TidyPutBlobs, TidyPutRows, TidyPutRest
<1>4. CASE CheckWrites(p) \/ FlushWrites(p) \/ Reading(p) \/ GetPublish(p) \/ Surveys(p)
  BY <1>4, TidyWrites, TidyFlush, TidyReading, TidyGetPublish, TidySurveys
<1>5. CASE DropBlobs(p) \/ DropWrites(p) \/ DropCheckpoints(p) \/ DropFix(p) \/ Dropped(p)
  BY <1>5, TidyDropBlobs, TidyDropWrites, TidyDropCheckpoints, TidyDropFix, TidyDropped
<1>6. CASE DeleteCk(p) \/ DeleteWrites(p) \/ DeleteBlobs(p) \/ DeleteLatest(p)
  BY <1>6, TidyDeleteCk, TidyDeleteWrites, TidyDeleteBlobs, TidyDeleteLatest
<1>7. CASE CopyCk(p) \/ CopyWr(p) \/ CopyBl(p) \/ CopyLatest(p)
  BY <1>7, TidyCopyCk, TidyCopyWr, TidyCopyBl, TidyCopyLatest
<1>. QED  BY <1>1, <1>2, <1>3, <1>4, <1>5, <1>6, <1>7

LEMMA AlwaysTidy ==
  ASSUME NEW p \in Proc, \A q \in Proc : q = p
  PROVE  Spec => [](TypeInv /\ Same /\ TidyInv(p))
<1>1. ASSUME TypeInv, Same, TidyInv(p), [Next]_vars
      PROVE  TidyInv(p)'
  <2>1. CASE Next
    BY <1>1, <2>1, NextTidy
  <2>2. CASE UNCHANGED vars
    <3>1. ck' = ck /\ wr' = wr /\ bl' = bl /\ lt' = lt /\ backup' = backup /\ l' = l
      BY <2>2 DEF vars, store
    <3>. QED  BY <1>1, <3>1
         DEF TidyInv, Tidy, TidyPut, TidyCall, TidyDel, TidyTrim, TidyDrop, TidyBase, TidyBackup,
             CleanWr, CleanBl, CleanLt, Refs
  <2>. QED  BY <1>1, <2>1, <2>2
<1>2. Init => TidyInv(p)
  BY InitTidy
<1>. QED  BY <1>1, <1>2, AlwaysSame, PTL DEF Spec

\* Nothing outlives its checkpoint, for a caller that is alone with the store:
\* whatever it puts, trims, deletes, copies and rolls back, and however a put's
\* rows are applied, between its calls every pending write and every blob
\* belongs to a stored checkpoint and the latest pointer does not dangle.
THEOREM LeavesNothing ==
  ASSUME NEW p \in Proc, \A q \in Proc : q = p
  PROVE  Spec => []NoLeftovers
<1>1. ASSUME TidyInv(p)
      PROVE  NoLeftovers
  <2>1. SUFFICES ASSUME Quiescent, NEW t \in Thread
                 PROVE  CleanWr(t) /\ CleanBl(t) /\ CleanLt(t)
    BY DEF NoLeftovers, CleanWr, CleanBl, CleanLt, Refs
  <2>2. l[p].pc = "idle"
    BY <2>1 DEF Quiescent, At
  <2>. QED  BY <1>1, <2>2 DEF TidyInv, Tidy, DirtyWr, DirtyBl, DirtyLt
<1>. QED  BY <1>1, AlwaysTidy, PTL

-----------------------------------------------------------------------------
(* The latest pointer, with one caller that puts in order *)

NewestAt(t) == lt[t] \in DOMAIN ck[t] => lt[t] = Newest(DOMAIN ck[t])

\* Where a pointer may be behind: a put's row is in and its pointer is not, or
\* the rows of another thread were copied.
Behind(me, t) == \/ me.pc = "put_rest" /\ t = me.t
                 \/ me.pc \in CopyPCs \ {"copy_ck"} /\ t \in me.threads

\* Ids are used up in order, and the hints know only used ones: a put that does
\* not publish has no pointer to move.
InTurn == \A i \in UsedIds, j \in Id : j < i => j \in UsedIds
Seen   == \A s \in Saver, t \in Thread : max_seen[s][t] \in {None} \cup UsedIds

PointPut(me) == me.pc \in PutPCs => (\A j \in UsedIds : j <= me.id) /\ (~me.publish => Indexed)
PointGet(me) == me.pc = "get_publish" => me.id = Newest(DOMAIN ck[me.t])

PointBackup ==
  backup # <<>> => \A t \in Thread : backup[4][t] \in DOMAIN backup[1][t] =>
                                       backup[4][t] = Newest(DOMAIN backup[1][t])

PointInv(p) ==
  /\ InTurn /\ Seen /\ PointPut(l[p]) /\ PointGet(l[p]) /\ PointBackup
  /\ \A t \in Thread : NewestAt(t) \/ Behind(l[p], t)

LEMMA UsedStill ==
  ASSUME arch' = arch
  PROVE  UsedIds' = UsedIds
  BY DEF UsedIds

LEMMA UsedAre ==
  ASSUME TypeInv
  PROVE  /\ UsedIds \in SUBSET Id
         /\ \A t \in Thread : DOMAIN ck[t] \subseteq UsedIds /\ DOMAIN arch[t] \subseteq UsedIds
<1>1. \A t \in Thread : DOMAIN arch[t] \subseteq Id
  BY ReadIs
<1>2. \A t \in Thread : DOMAIN ck[t] \subseteq DOMAIN arch[t]
  BY DEF TypeInv, Known
<1>. QED  BY <1>1, <1>2 DEF UsedIds

LEMMA TopIs ==
  ASSUME NEW S \in SUBSET Id, NEW i \in S, \A j \in S : j <= i
  PROVE  Newest(S) = i
<1>1. Newest(S) \in S /\ i <= Newest(S)
  BY NewestIs
<1>2. Newest(S) <= i /\ Newest(S) \in Nat /\ i \in Nat
  BY <1>1, IdIs
<1>. QED  BY <1>1, <1>2

\* Dropping checkpoints, or the pointer, leaves no older one pointed to.
LEMMA NewestShrinks ==
  ASSUME TypeInv, NEW t \in Thread, NewestAt(t), DOMAIN ck'[t] \subseteq DOMAIN ck[t], lt'[t] \in {lt[t], None}
  PROVE  NewestAt(t)'
<1>1. SUFFICES ASSUME lt'[t] \in DOMAIN ck'[t]
               PROVE  lt'[t] = Newest(DOMAIN ck'[t])
  BY DEF NewestAt
<1>2. DOMAIN ck[t] \in SUBSET Id /\ DOMAIN ck'[t] \in SUBSET Id
  BY ReadIs
<1>3. lt'[t] = lt[t]
  BY <1>1, <1>2, IdIs
<1>4. lt[t] = Newest(DOMAIN ck[t])
  BY <1>1, <1>3 DEF NewestAt
<1>5. \A j \in DOMAIN ck'[t] : j <= lt'[t]
  BY <1>2, <1>3, <1>4, NewestIs
<1>. QED  BY <1>1, <1>2, <1>5, TopIs

LEMMA PointCalm ==
  ASSUME TypeInv, NEW p \in Proc, PointInv(p), Calm(p), \A t \in Thread : lt'[t] \in {lt[t], None}, Seen',
         l'[p].pc = "get_publish" => l'[p].id = Newest(DOMAIN ck'[l'[p].t]),
         \/ l[p].pc \notin {"put_rest"} \cup CopyPCs
         \/ /\ l[p].pc \in CopyPCs \ {"copy_ck"} /\ l'[p].pc \in CopyPCs \ {"copy_ck"}
            /\ l'[p].threads = l[p].threads
  PROVE  PointInv(p)'
<1>1. UsedIds' = UsedIds /\ backup' = backup
  BY UsedStill DEF Calm
<1>2. InTurn' /\ PointBackup'
  BY <1>1 DEF PointInv, InTurn, PointBackup
<1>3. PointPut(l[p])'
  BY <1>1 DEF PointInv, PointPut, Calm, SamePut
<1>4. PointGet(l[p])'
  BY DEF PointGet
<1>5. ASSUME NEW t \in Thread
      PROVE  NewestAt(t)' \/ Behind(l[p], t)'
  <2>1. DOMAIN ck'[t] \subseteq DOMAIN ck[t]
    BY DEF Calm, Shrinks
  <2>2. CASE NewestAt(t)
    BY <2>1, <2>2, NewestShrinks
  <2>3. CASE Behind(l[p], t)
    BY <2>3 DEF Behind, CopyPCs
  <2>. QED  BY <2>2, <2>3 DEF PointInv
<1>. QED  BY <1>2, <1>3, <1>4, <1>5 DEF PointInv

LEMMA SeenStill ==
  ASSUME NEW p \in Proc, PointInv(p), arch' = arch, max_seen' = max_seen
  PROVE  Seen'
  BY UsedStill DEF PointInv, Seen

\* A hint table after _bounded_set.
LEMMA SeenMore ==
  ASSUME TypeInv, NEW p \in Proc, PointInv(p), arch' = arch, NEW t \in Thread, NEW i \in UsedIds,
         max_seen' = [max_seen EXCEPT ![SaverOf[p]] = BoundedSet(@, t, i)]
  PROVE  Seen'
<1>1. max_seen \in [Saver -> LtT] /\ SaverOf[p] \in Saver
  BY ConstantsAssumption DEF TypeInv, Hints
<1>2. i \in IdOrNo /\ max_seen[SaverOf[p]] \in LtT
  BY <1>1, UsedAre, IdIs
<1>3. \A u \in Thread : BoundedSet(max_seen[SaverOf[p]], t, i)[u] \in {None, i, max_seen[SaverOf[p]][u]}
  BY <1>2, BoundedSetIs
<1>4. \A s \in Saver : max_seen'[s] = (IF s = SaverOf[p] THEN BoundedSet(max_seen[s], t, i) ELSE max_seen[s])
  BY <1>1
<1>5. \A s \in Saver, u \in Thread : max_seen[s][u] \in {None} \cup UsedIds
  BY DEF PointInv, Seen
<1>6. ASSUME NEW s \in Saver, NEW u \in Thread
      PROVE  max_seen'[s][u] \in {None} \cup UsedIds
  <2>1. CASE s = SaverOf[p]
    BY <1>3, <1>4, <1>5, <2>1
  <2>2. CASE s # SaverOf[p]
    BY <1>4, <1>5, <2>2
  <2>. QED  BY <2>1, <2>2
<1>. QED  BY <1>6, UsedStill DEF Seen

LEMMA SeenLess ==
  ASSUME TypeInv, NEW p \in Proc, PointInv(p), arch' = arch, NEW t \in Thread,
         max_seen' = [max_seen EXCEPT ![SaverOf[p]][t] = None]
  PROVE  Seen'
<1>1. max_seen \in [Saver -> [Thread -> IdOrNo]] /\ SaverOf[p] \in Saver
  BY ConstantsAssumption DEF TypeInv, Hints, LtT
<1>2. \A s \in Saver, u \in Thread : max_seen'[s][u] \in {None, max_seen[s][u]}
  BY <1>1
<1>. QED  BY <1>2, UsedStill DEF PointInv, Seen

\* A step that moves no pointer and no hint.
LEMMA PointStill ==
  ASSUME TypeInv, NEW p \in Proc, PointInv(p), Calm(p), lt' = lt, max_seen' = max_seen,
         l[p].pc \notin {"put_rest"} \cup CopyPCs, l'[p].pc # "get_publish"
  PROVE  PointInv(p)'
<1>1. Seen'
  BY SeenStill DEF Calm
<1>2. \A t \in Thread : lt'[t] \in {lt[t], None}
  OBVIOUS
<1>. QED  BY <1>1, <1>2, PointCalm

LEMMA PointCalls ==
  ASSUME TypeInv, NEW p \in Proc, PointInv(p),
         \/ WritesBegin(p) \/ Begins(p) \/ PutBlobContains(p) \/ PutBlobs(p)
         \/ CheckWrites(p) \/ FlushWrites(p)
  PROVE  PointInv(p)'
<1>1. Calm(p)
  BY CalmIs
<1>2. lt' = lt /\ max_seen' = max_seen /\ l[p].pc \in {"idle", "put_blobs", "write_check", "write_flush"}
  <2>1. CASE WritesBegin(p)
    BY <2>1, WritesBeginIs DEF store, hints, Fresh
  <2>2. CASE Begins(p)
    BY <2>2, BeginsIs DEF store, hints, Fresh
  <2>3. CASE PutBlobContains(p)
    BY <2>3, PutBlobContainsIs, OnlyIs
  <2>4. CASE PutBlobs(p)
    BY <2>4, PutBlobsIs DEF hints
  <2>5. CASE CheckWrites(p)
    BY <2>5, CheckWritesIs, OnlyIs
  <2>6. CASE FlushWrites(p)
    BY <2>6, FlushWritesIs DEF hints
  <2>. QED  BY <2>1, <2>2, <2>3, <2>4, <2>5, <2>6
<1>3. l'[p].pc # "get_publish"
  <2>1. CASE Begins(p)
    <3>1. CASE \E t \in Thread : \E id \in {None} \cup DOMAIN ck[t] : GetTuple(p, t, id)
      <4>1. PICK t \in Thread : \E id \in {None} \cup DOMAIN ck[t] : GetTuple(p, t, id)
        BY <3>1
      <4>2. PICK id \in {None} \cup DOMAIN ck[t] : GetTuple(p, t, id)
        BY <4>1
      <4>3. id \in IdOrNo
        BY ReadIs, IdIs
      <4>4. l'[p].pc = (CASE id # None -> "get_saved" [] id = None /\ Indexed -> "get_max" [] OTHER -> "get_lt")
        BY <4>2, <4>3, GetTupleStarts
      <4>. QED  BY <4>4
    <3>. QED  BY <2>1, <3>1, BeginsIs
  <2>2. CASE WritesBegin(p) \/ PutBlobContains(p) \/ PutBlobs(p)
    BY <2>2, WritesBeginIs, PutBlobContainsIs, PutBlobsIs
  <2>3. CASE CheckWrites(p)
    BY <2>3, CheckWritesIs
  <2>4. CASE FlushWrites(p)
    BY <2>4, FlushWritesIs, ReturnIs
  <2>. QED  BY <2>1, <2>2, <2>3, <2>4
<1>. QED  BY <1>1, <1>2, <1>3, PointStill DEF CopyPCs

LEMMA PointDrops ==
  ASSUME TypeInv, NEW p \in Proc, PointInv(p),
         \/ Surveys(p) \/ DropBlobs(p) \/ DropWrites(p) \/ DropCheckpoints(p) \/ Dropped(p)
         \/ DeleteCk(p) \/ DeleteWrites(p) \/ DeleteBlobs(p)
  PROVE  PointInv(p)'
<1>1. Calm(p)
  BY CalmIs
<1>2. /\ lt' = lt /\ max_seen' = max_seen
      /\ l[p].pc \in TrimPCs \cup DropPCs \cup RunPCs \cup DelPCs
      /\ l'[p].pc \in TrimPCs \cup DropPCs \cup RunPCs \cup DelPCs \cup {"idle"}
  <2>1. CASE Surveys(p)
    BY <2>1, SurveysIs, OnlyIs
  <2>2. CASE DropBlobs(p)
    BY <2>2, DropBlobsIs DEF hints, DropPCs
  <2>3. CASE DropWrites(p)
    BY <2>3, DropWritesIs DEF hints, DropPCs
  <2>4. CASE DropCheckpoints(p)
    BY <2>4, DropCheckpointsIs DEF hints, DropPCs
  <2>5. CASE Dropped(p)
    BY <2>5, DroppedIs DEF store, DropPCs, RunPCs
  <2>6. CASE DeleteCk(p)
    BY <2>6, DeleteCkIs DEF hints, DelPCs
  <2>7. CASE DeleteWrites(p)
    BY <2>7, DeleteWritesIs DEF hints, DelPCs
  <2>8. CASE DeleteBlobs(p)
    BY <2>8, DeleteBlobsIs DEF hints, DelPCs
  <2>. QED  BY <2>1, <2>2, <2>3, <2>4, <2>5, <2>6, <2>7, <2>8
<1>3. l[p].pc \notin {"put_rest"} \cup CopyPCs /\ l'[p].pc # "get_publish"
  BY <1>2 DEF TrimPCs, DropPCs, RunPCs, DelPCs, CopyPCs
<1>. QED  BY <1>1, <1>2, <1>3, PointStill

LEMMA PointReads ==
  ASSUME TypeInv, NEW p \in Proc, PointInv(p), Reading(p)
  PROVE  PointInv(p)'
<1>1. Calm(p)
  BY CalmIs
<1>2. ck' = ck /\ lt' = lt /\ max_seen' = max_seen /\ arch' = arch /\ l[p].pc \in ReadPCs
  BY ReadingIs, OnlyIs
<1>3. l[p].pc \notin {"put_rest"} \cup CopyPCs
  BY <1>2 DEF ReadPCs, CopyPCs
<1>4. l'[p].pc = "get_publish" => l'[p].id = Newest(DOMAIN ck'[l'[p].t])
  <2>1. CASE GetKeys(p)
    BY <1>2, <2>1, GetKeysIs
  <2>2. CASE ~GetKeys(p)
    <3>1. Build # "get_publish"
      BY DEF Build
    <3>2. CASE GetMax(p) \/ GetLatest(p) \/ GetPointed(p) \/ GetSaved(p)
      BY <3>1, <3>2, GetMaxIs, GetLatestIs, GetPointedIs, GetSavedIs
    <3>3. CASE AttachValues(p) \/ BuildKeys(p) \/ BuildWrites(p) \/ GetReturn(p) \/ ListKeys(p)
      BY <3>3, AttachValuesIs, BuildKeysIs, BuildWritesIs, GetReturnIs, ListKeysIs
    <3>4. CASE ListNext(p)
      BY <3>1, <3>4, ListNextIs
    <3>. QED  BY <2>2, <3>2, <3>3, <3>4 DEF Reading
  <2>. QED  BY <2>1, <2>2
<1>5. Seen'
  BY <1>2, SeenStill
<1>6. \A t \in Thread : lt'[t] \in {lt[t], None}
  BY <1>2
<1>. QED  BY <1>1, <1>3, <1>4, <1>5, <1>6, PointCalm

LEMMA PointHint ==
  ASSUME TypeInv, NEW p \in Proc, PointInv(p), PutHint(p)
  PROVE  PointInv(p)'
<1>1. Calm(p)
  BY CalmIs
<1>2. PICK t \in Thread : t = l[p].t
  BY PutHintIs
<1>3. /\ l[p].pc = "put_hint" /\ lt' = lt /\ l'[p].pc = AfterHint
      /\ max_seen' = [max_seen EXCEPT ![SaverOf[p]] = BoundedSet(@, t, l[p].id)]
  BY <1>2, PutHintIs DEF store
<1>4. l[p].id \in UsedIds
  BY <1>2, <1>3, PutIs, UsedAre DEF PutPCs
<1>5. Seen'
  BY <1>1, <1>3, <1>4, SeenMore DEF Calm
<1>6. l[p].pc \notin {"put_rest"} \cup CopyPCs /\ l'[p].pc # "get_publish"
  BY <1>3 DEF CopyPCs, AfterHint
<1>7. \A u \in Thread : lt'[u] \in {lt[u], None}
  BY <1>3
<1>. QED  BY <1>1, <1>5, <1>6, <1>7, PointCalm

LEMMA PointDeleteLatest ==
  ASSUME TypeInv, NEW p \in Proc, PointInv(p), DeleteLatest(p)
  PROVE  PointInv(p)'
<1>1. Calm(p)
  BY CalmIs
<1>2. PICK t \in Thread : t = l[p].t
  BY DeleteLatestIs
<1>3. /\ l[p].pc = "del_lt" /\ lt' = (IF Indexed THEN lt ELSE [lt EXCEPT ![t] = None])
      /\ max_seen' = [max_seen EXCEPT ![SaverOf[p]][t] = None] /\ l'[p].pc = "idle"
  BY <1>2, DeleteLatestIs, ReturnIs
<1>4. lt \in [Thread -> IdOrNo]
  BY DEF TypeInv, Stores, LtT
<1>5. \A u \in Thread : lt'[u] \in {lt[u], None}
  BY <1>3, <1>4
<1>6. Seen'
  BY <1>1, <1>3, SeenLess DEF Calm
<1>7. l[p].pc \notin {"put_rest"} \cup CopyPCs /\ l'[p].pc # "get_publish"
  BY <1>3 DEF CopyPCs
<1>. QED  BY <1>1, <1>5, <1>6, <1>7, PointCalm

LEMMA PointCopies ==
  ASSUME TypeInv, NEW p \in Proc, PointInv(p), CopyWr(p) \/ CopyBl(p)
  PROVE  PointInv(p)'
<1>1. Calm(p)
  BY CalmIs
<1>2. /\ lt' = lt /\ max_seen' = max_seen /\ l[p].pc \in {"copy_wr", "copy_bl"} /\ l'[p].pc \in {"copy_bl", "copy_lt"}
      /\ l'[p].threads = l[p].threads
  BY CopyWrIs, CopyBlIs DEF hints
<1>3. l[p].pc \in CopyPCs \ {"copy_ck"} /\ l'[p].pc \in CopyPCs \ {"copy_ck"} /\ l'[p].pc # "get_publish"
  BY <1>2 DEF CopyPCs
<1>4. Seen'
  BY <1>1, <1>2, SeenStill DEF Calm
<1>5. \A t \in Thread : lt'[t] \in {lt[t], None}
  BY <1>2
<1>. QED  BY <1>1, <1>2, <1>3, <1>4, <1>5, PointCalm

LEMMA PointGetPublish ==
  ASSUME TypeInv, NEW p \in Proc, PointInv(p), GetPublish(p)
  PROVE  PointInv(p)'
<1>1. PICK t \in Thread : t = l[p].t
  BY GetPublishIs
<1>2. /\ l[p].pc = "get_publish" /\ l'[p].pc = "get_saved" /\ ck' = ck /\ arch' = arch /\ max_seen' = max_seen
      /\ backup' = backup /\ lt' = [lt EXCEPT ![t] = l[p].id] /\ l[p].id = Newest(DOMAIN ck[t])
  BY <1>1, GetPublishIs DEF hist, hints, PointInv, PointGet
<1>3. UsedIds' = UsedIds /\ Seen'
  BY <1>2, UsedStill, SeenStill
<1>4. InTurn' /\ PointBackup' /\ PointPut(l[p])' /\ PointGet(l[p])'
  BY <1>2, <1>3 DEF PointInv, InTurn, PointBackup, PointPut, PointGet, PutPCs
<1>5. lt \in [Thread -> IdOrNo]
  BY DEF TypeInv, Stores, LtT
<1>6. \A u \in Thread : NewestAt(u)
  BY <1>2 DEF PointInv, Behind, CopyPCs
<1>7. \A u \in Thread : NewestAt(u)'
  BY <1>2, <1>5, <1>6 DEF NewestAt
<1>. QED  BY <1>3, <1>4, <1>7 DEF PointInv

LEMMA PointDropFix ==
  ASSUME TypeInv, NEW p \in Proc, TidyInv(p), PointInv(p), DropFix(p)
  PROVE  PointInv(p)'
<1>1. PICK t \in Thread : t = l[p].t
  BY DropFixIs
<1>2. /\ l[p].pc = "drop_fix" /\ l'[p].pc = "dropped" /\ ck' = ck /\ arch' = arch
      /\ max_seen' = [max_seen EXCEPT ![SaverOf[p]][t] = None]
      /\ backup' = backup /\ lt' = [lt EXCEPT ![t] = Newest(l[p].kept)]
  BY <1>1, DropFixIs DEF hist
<1>3. DOMAIN ck[t] = l[p].kept
  BY <1>1, <1>2 DEF TidyInv, TidyDrop
<1>4. UsedIds' = UsedIds /\ Seen'
  BY <1>2, UsedStill, SeenLess
<1>5. InTurn' /\ PointBackup' /\ PointPut(l[p])' /\ PointGet(l[p])'
  BY <1>2, <1>4 DEF PointInv, InTurn, PointBackup, PointPut, PointGet, PutPCs
<1>6. lt \in [Thread -> IdOrNo]
  BY DEF TypeInv, Stores, LtT
<1>7. \A u \in Thread : NewestAt(u)
  BY <1>2 DEF PointInv, Behind, CopyPCs
<1>8. \A u \in Thread : NewestAt(u)'
  BY <1>2, <1>3, <1>6, <1>7 DEF NewestAt
<1>. QED  BY <1>4, <1>5, <1>8 DEF PointInv

\* The next id is above every id used, so a saver whose hints know only used
\* ids publishes it.
LEMMA PointPutBegins ==
  ASSUME TypeInv, NEW p \in Proc, InOrder, PointInv(p), PutBegins(p)
  PROVE  PointInv(p)'
<1>1. PICK t \in Thread : t = l'[p].t
  BY PutBeginsIs
<1>2. PICK id \in Id : id = l'[p].id
  BY PutBeginsIs
<1>3. /\ l[p].pc = "idle" /\ ck' = ck /\ lt' = lt /\ max_seen' = max_seen /\ backup' = backup
      /\ id \notin UsedIds /\ (\A j \in Id \ UsedIds : id <= j)
      /\ l'[p].publish = Publishes(SaverOf[p], t, id)
      /\ l'[p].pc \in PutPCs \ {"put_rest"}
      /\ DOMAIN arch'[t] = DOMAIN arch[t] \cup {id} /\ \A u \in Thread : u # t => arch'[u] = arch[u]
  BY <1>1, <1>2, PutBeginsIs, ZenonT(60) DEF Fresh, store, hints, PutPCs, AfterHint, Over, Row
<1>4. UsedIds' = UsedIds \cup {id}
  BY <1>3 DEF UsedIds
<1>5. UsedIds \in SUBSET Id /\ Id \subseteq Nat
  BY UsedAre, IdIs
<1>6. ASSUME NEW j \in UsedIds
      PROVE  j < id
  <2>1. j \in Nat /\ id \in Nat /\ j # id /\ (id < j => id \in UsedIds)
    BY <1>3, <1>5 DEF PointInv, InTurn
  <2>. QED  BY <1>3, <2>1
<1>7. InTurn'
  <2>1. SUFFICES ASSUME NEW i \in UsedIds \cup {id}, NEW j \in Id, j < i
                 PROVE  j \in UsedIds \cup {id}
    BY <1>4 DEF InTurn
  <2>2. CASE i \in UsedIds
    BY <2>1, <2>2 DEF PointInv, InTurn
  <2>3. CASE i = id
    <3>1. j \in Nat /\ id \in Nat /\ ~ (id <= j)
      BY <1>5, <2>1, <2>3
    <3>. QED  BY <1>3, <3>1
  <2>. QED  BY <2>1, <2>2, <2>3
<1>8. Seen' /\ PointBackup'
  BY <1>3, <1>4 DEF PointInv, Seen, PointBackup
<1>9. PointPut(l[p])'
  <2>1. \A j \in UsedIds \cup {id} : j <= id
    BY <1>5, <1>6
  <2>2. max_seen[SaverOf[p]][t] \in {None} \cup UsedIds
    BY ConstantsAssumption DEF PointInv, Seen
  <2>3. max_seen[SaverOf[p]][t] \in UsedIds => id > max_seen[SaverOf[p]][t]
    BY <1>5, <1>6
  <2>4. ~Indexed => Publishes(SaverOf[p], t, id)
    BY <2>2, <2>3 DEF Publishes
  <2>. QED  BY <1>2, <1>3, <1>4, <2>1, <2>4 DEF PointPut
<1>10. PointGet(l[p])'
  BY <1>3 DEF PointGet, PutPCs
<1>11. \A u \in Thread : NewestAt(u)'
  BY <1>3 DEF PointInv, Behind, CopyPCs, NewestAt
<1>. QED  BY <1>7, <1>8, <1>9, <1>10, <1>11 DEF PointInv

LEMMA PointPutRows ==
  ASSUME TypeInv, NEW p \in Proc, TidyInv(p), PointInv(p), PutRows(p) \/ PutRest(p)
  PROVE  PointInv(p)'
<1>1. /\ l[p].pc \in {"put_rows", "put_rest"} /\ arch' = arch /\ max_seen' = max_seen /\ backup' = backup
      /\ PutRows(p) => l[p].pc = "put_rows"
      /\ PutRest(p) => l[p].pc = "put_rest"
  BY PutRowsIs, PutRestIs
<1>2. l[p].pc \in PutPCs
  BY <1>1 DEF PutPCs
<1>3. PICK t \in Thread : t = l[p].t
  BY <1>2, PutIs
<1>4. PICK id \in Id : id = l[p].id
  BY <1>2, PutIs
<1>5. UsedIds' = UsedIds /\ Seen'
  BY <1>1, UsedStill, SeenStill
<1>6. InTurn' /\ PointBackup'
  BY <1>1, <1>5 DEF PointInv, InTurn, PointBackup
<1>7. (\A j \in UsedIds : j <= id) /\ (~l[p].publish => Indexed)
  BY <1>2, <1>4 DEF PointInv, PointPut
<1>8. \/ l'[p].pc = "put_rest" /\ SamePut(p)
      \/ Ended(p)
  BY PutRowsIs, PutRestIs
<1>9. PointPut(l[p])' /\ PointGet(l[p])'
  BY <1>4, <1>5, <1>7, <1>8 DEF PointPut, PointGet, PutPCs, Ended, SamePut
<1>10. ASSUME NEW u \in Thread, u # t
       PROVE  NewestAt(u)'
  <2>1. NewestAt(u)
    BY <1>1, <1>3, <1>10 DEF PointInv, Behind, CopyPCs
  <2>2. ck'[u] = ck[u]
    BY <1>2, <1>3, <1>10, PutRowsIs, PutRestIs, PutCkIs
  <2>3. lt'[u] = lt[u]
    BY <1>2, <1>3, <1>10, PutRowsIs, PutRestIs, PutLtIs
  <2>. QED  BY <2>1, <2>2, <2>3 DEF NewestAt
<1>11. NewestAt(t)' \/ Behind(l[p], t)'
  <2>1. CASE l'[p].pc = "put_rest" /\ SamePut(p)
    BY <1>3, <2>1 DEF Behind, SamePut
  <2>2. CASE PutRows(p) /\ Ended(p)
    <3>1. PutCk(p) /\ (l[p].publish => PutLt(p)) /\ (~l[p].publish => lt' = lt)
      BY <2>2, PutRowsIs DEF Ended
    <3>2. DOMAIN ck'[t] = DOMAIN ck[t] \cup {id} /\ (l[p].publish => lt'[t] = id)
      BY <1>2, <1>3, <1>4, <3>1, PutCkIs, PutLtIs
    <3>3. ~l[p].publish => lt'[t] = None
      BY <1>7, <3>1 DEF TidyInv, TidyBase
    <3>4. DOMAIN ck'[t] \in SUBSET Id /\ \A j \in DOMAIN ck'[t] : j <= id
      BY <1>7, <3>2, UsedAre, IdIs
    <3>5. Newest(DOMAIN ck'[t]) = id /\ None \notin DOMAIN ck'[t]
      BY <3>2, <3>4, TopIs, IdIs
    <3>. QED  BY <3>2, <3>3, <3>5 DEF NewestAt
  <2>3. CASE PutRest(p)
    <3>1. \/ RowOrder = "ck_first" /\ PutLt(p) /\ ck' = ck
          \/ RowOrder # "ck_first" /\ PutCk(p) /\ lt' = lt
      BY <2>3, PutRestIs
    <3>2. IF RowOrder = "ck_first" THEN id \in DOMAIN ck[t] ELSE lt[t] = id
      BY <1>1, <1>3, <1>4, <2>3 DEF TidyInv, TidyPut
    <3>3. lt'[t] = id /\ DOMAIN ck'[t] = DOMAIN ck[t] \cup {id}
      BY <1>2, <1>3, <1>4, <3>1, <3>2, PutCkIs, PutLtIs
    <3>4. DOMAIN ck'[t] \in SUBSET Id /\ \A j \in DOMAIN ck'[t] : j <= id
      BY <1>7, <3>3, UsedAre, IdIs
    <3>5. Newest(DOMAIN ck'[t]) = id
      BY <3>3, <3>4, TopIs
    <3>. QED  BY <3>3, <3>5 DEF NewestAt
  <2>. QED  BY <1>8, <2>1, <2>2, <2>3
<1>. QED  BY <1>5, <1>6, <1>9, <1>10, <1>11 DEF PointInv

LEMMA PointCopyCk ==
  ASSUME TypeInv, NEW p \in Proc, TidyInv(p), PointInv(p), CopyCk(p)
  PROVE  PointInv(p)'
<1>1. /\ l[p].pc = "copy_ck" /\ lt' = lt /\ max_seen' = max_seen /\ backup' = backup
      /\ l'[p].pc = "copy_wr" /\ l'[p].threads = l[p].threads
  BY CopyCkIs DEF hints
<1>2. PICK t \in Thread : t = l[p].t
  BY CopyCkIs
<1>3. l[p].pc \in CopyPCs
  BY <1>1 DEF CopyPCs
<1>4. PICK u \in Thread : u = Target(p)
  BY <1>3, CopyAt
<1>5. l[p].threads = {u}
  BY <1>3, <1>4, CopyAt
<1>6. /\ ck' = CopyRows(ck, t, u)
      /\ arch' = SetRows(arch, u, Only(arch[t], DOMAIN ck[t]))
  BY <1>2, <1>4, CopyCkIs
<1>7. ck \in [Thread -> Part(Id, Record)] /\ arch \in [Thread -> Part(Id, Record)]
  BY DEF TypeInv, Stores, Archives, CkT
<1>8. \A v \in Thread : v # u => ck'[v] = ck[v] /\ arch'[v] = arch[v]
  BY <1>6, <1>7 DEF CopyRows, SetRows
<1>9. DOMAIN arch'[u] = DOMAIN arch[u] \cup (DOMAIN arch[t] \cap DOMAIN ck[t])
  BY <1>6, <1>7 DEF SetRows, Over, Only
<1>10. UsedIds' = UsedIds
  BY <1>8, <1>9 DEF UsedIds
<1>11. InTurn' /\ Seen' /\ PointBackup'
  BY <1>1, <1>10 DEF PointInv, InTurn, Seen, PointBackup
<1>12. PointPut(l[p])' /\ PointGet(l[p])'
  BY <1>1 DEF PointPut, PointGet, PutPCs
<1>13. ASSUME NEW v \in Thread
       PROVE  NewestAt(v)' \/ Behind(l[p], v)'
  <2>1. CASE v = u
    BY <1>1, <1>5, <2>1 DEF Behind, CopyPCs
  <2>2. CASE v # u
    <3>1. NewestAt(v)
      BY <1>1 DEF PointInv, Behind
    <3>. QED  BY <1>1, <1>8, <2>2, <3>1 DEF NewestAt
  <2>. QED  BY <2>1, <2>2
<1>. QED  BY <1>11, <1>12, <1>13 DEF PointInv

LEMMA PointCopyLatest ==
  ASSUME TypeInv, NEW p \in Proc, TidyInv(p), PointInv(p), CopyLatest(p)
  PROVE  PointInv(p)'
<1>1. /\ l[p].pc = "copy_lt" /\ Step(p, Locals0) /\ ck' = ck /\ arch' = arch /\ backup' = backup
  BY CopyLatestIs
<1>2. l[p].pc \in CopyPCs
  BY <1>1 DEF CopyPCs
<1>3. PICK u \in Thread : u = Target(p)
  BY <1>2, CopyAt
<1>4. l[p].threads = {u}
  BY <1>2, <1>3, CopyAt
<1>5. PICK top \in IdOrNo : top = Newest(DOMAIN ck[u])
  BY ReadIs, NewestIs
<1>6. IF Indexed \/ top = None
      THEN lt' = lt /\ max_seen' = max_seen
      ELSE /\ lt' = [lt EXCEPT ![u] = top]
           /\ max_seen' = [max_seen EXCEPT ![SaverOf[p]] = BoundedSet(@, u, top)]
  BY <1>3, <1>5, CopyLatestIs
<1>7. l'[p].pc = "idle"
  BY <1>1, ReturnIs DEF Return
<1>8. DOMAIN ck[u] \in SUBSET Id /\ (top # None => top \in DOMAIN ck[u]) /\ (top = None => DOMAIN ck[u] = {})
  <2>1. DOMAIN ck[u] \in SUBSET Id
    BY ReadIs
  <2>. QED  BY <1>5, <2>1, NewestIs, IdIs
<1>9. UsedIds' = UsedIds /\ Seen'
  <2>1. CASE Indexed \/ top = None
    BY <1>1, <1>6, <2>1, UsedStill, SeenStill
  <2>2. CASE ~ (Indexed \/ top = None)
    <3>1. top \in UsedIds
      BY <1>8, <2>2, UsedAre
    <3>. QED  BY <1>1, <1>6, <2>2, <3>1, UsedStill, SeenMore
  <2>. QED  BY <2>1, <2>2
<1>10. InTurn' /\ PointBackup' /\ PointPut(l[p])' /\ PointGet(l[p])'
  BY <1>1, <1>7, <1>9 DEF PointInv, InTurn, PointBackup, PointPut, PointGet, PutPCs
<1>11. lt \in [Thread -> IdOrNo]
  BY DEF TypeInv, Stores, LtT
<1>12. \A v \in Thread : v # u => NewestAt(v)
  BY <1>1, <1>4 DEF PointInv, Behind
<1>13. \A v \in Thread : v # u => NewestAt(v)'
  BY <1>1, <1>6, <1>11, <1>12 DEF NewestAt
<1>14. NewestAt(u)'
  <2>1. CASE Indexed
    <3>1. lt'[u] = None /\ None \notin DOMAIN ck[u]
      BY <1>6, <1>8, <2>1, IdIs DEF TidyInv, TidyBase
    <3>. QED  BY <1>1, <3>1 DEF NewestAt
  <2>2. CASE top = None
    BY <1>1, <1>8, <2>2 DEF NewestAt
  <2>3. CASE ~Indexed /\ top # None
    BY <1>1, <1>5, <1>6, <1>11, <2>3 DEF NewestAt
  <2>. QED  BY <2>1, <2>2, <2>3
<1>. QED  BY <1>9, <1>10, <1>13, <1>14 DEF PointInv

LEMMA PointRollback ==
  ASSUME TypeInv, NEW p \in Proc, PointInv(p), SnapshotStore(p) \/ RestoreStore(p)
  PROVE  PointInv(p)'
<1>1. l[p].pc = "idle" /\ l' = l /\ arch' = arch /\ max_seen' = max_seen
  BY DEF SnapshotStore, RestoreStore, Call, At, hist, hints
<1>2. UsedIds' = UsedIds /\ Seen'
  BY <1>1, UsedStill, SeenStill
<1>3. InTurn' /\ PointPut(l[p])' /\ PointGet(l[p])'
  BY <1>1, <1>2 DEF PointInv, InTurn, PointPut, PointGet, PutPCs
<1>4. \A t \in Thread : NewestAt(t)
  BY <1>1 DEF PointInv, Behind, CopyPCs
<1>5. (\A t \in Thread : NewestAt(t)') /\ PointBackup'
  <2>1. CASE SnapshotStore(p)
    <3>1. ck' = ck /\ lt' = lt /\ backup' = <<ck, wr, bl, lt, awr>>
      BY <2>1 DEF SnapshotStore, store
    <3>. QED  BY <1>4, <3>1 DEF NewestAt, PointBackup
  <2>2. CASE RestoreStore(p)
    <3>1. backup # <<>> /\ backup' = backup /\ ck' = backup[1] /\ lt' = backup[4]
      BY <2>2 DEF RestoreStore
    <3>. QED  BY <3>1 DEF PointInv, NewestAt, PointBackup
  <2>. QED  BY <2>1, <2>2
<1>. QED  BY <1>2, <1>3, <1>5 DEF PointInv

LEMMA InitPoint ==
  ASSUME NEW p \in Proc, Init
  PROVE  PointInv(p)
<1>1. PICK old \in SUBSET Legacy :
        /\ ck = [t \in Thread |-> IF t \in old THEN Row(1, Stored(OldRow)) ELSE Empty]
        /\ arch = [t \in Thread |-> IF t \in old THEN Row(1, OldRow) ELSE Empty]
  BY DEF Init
<1>2. /\ lt = [t \in Thread |-> None] /\ backup = <<>> /\ l[p].pc = "idle"
      /\ max_seen = [s \in Saver |-> [t \in Thread |-> None]]
  BY DEF Init, Locals0
<1>3. \A t \in Thread : DOMAIN ck[t] \subseteq {1} /\ DOMAIN arch[t] \subseteq {1}
  BY <1>1 DEF Row, Empty
<1>4. UsedIds \subseteq {1}
  BY <1>3 DEF UsedIds
<1>5. InTurn
  <2>1. \A j \in Id : ~ (j < 1)
    BY ConstantsAssumption DEF Id
  <2>. QED  BY <1>4, <2>1 DEF InTurn
<1>6. Seen /\ PointPut(l[p]) /\ PointGet(l[p]) /\ PointBackup
  BY <1>2 DEF Seen, PointPut, PointGet, PointBackup, PutPCs
<1>7. \A t \in Thread : NewestAt(t)
  BY <1>2, <1>3 DEF NewestAt, None
<1>. QED  BY <1>5, <1>6, <1>7 DEF PointInv

LEMMA NextPoint ==
  ASSUME TypeInv, NEW p \in Proc, \A q \in Proc : q = p, InOrder, TidyInv(p), PointInv(p), Next
  PROVE  PointInv(p)'
<1>1. \/ PutBegins(p) \/ WritesBegin(p) \/ Begins(p)
      \/ SnapshotStore(p) \/ RestoreStore(p)
      \/ PutHint(p) \/ PutBlobContains(p) \/ PutBlobs(p) \/ PutRows(p) \/ PutRest(p)
      \/ CheckWrites(p) \/ FlushWrites(p) \/ Reading(p) \/ GetPublish(p) \/ Surveys(p)
      \/ DropBlobs(p) \/ DropWrites(p) \/ DropCheckpoints(p) \/ DropFix(p) \/ Dropped(p)
      \/ DeleteCk(p) \/ DeleteWrites(p) \/ DeleteBlobs(p) \/ DeleteLatest(p)
      \/ CopyCk(p) \/ CopyWr(p) \/ CopyBl(p) \/ CopyLatest(p)
  BY NextIs
<1>2. CASE PutBegins(p) \/ WritesBegin(p) \/ Begins(p) \/ SnapshotStore(p) \/ RestoreStore(p)
  BY <1>2, PointPutBegins, PointCalls, PointRollback
<1>3. CASE PutHint(p) \/ PutBlobContains(p) \/ PutBlobs(p) \/ PutRows(p) \/ PutRest(p)
  BY <1>3, PointHint, PointCalls, PointPutRows
<1>4. CASE CheckWrites(p) \/ FlushWrites(p) \/ Reading(p) \/ GetPublish(p) \/ Surveys(p)
  BY <1>4, PointCalls, PointReads, PointGetPublish, PointDrops
<1>5. CASE DropBlobs(p) \/ DropWrites(p) \/ DropCheckpoints(p) \/ DropFix(p) \/ Dropped(p)
  BY <1>5, PointDrops, PointDropFix
<1>6. CASE DeleteCk(p) \/ DeleteWrites(p) \/ DeleteBlobs(p) \/ DeleteLatest(p)
  BY <1>6, PointDrops, PointDeleteLatest
<1>7. CASE CopyCk(p) \/ CopyWr(p) \/ CopyBl(p) \/ CopyLatest(p)
  BY <1>7, PointCopyCk, PointCopies, PointCopyLatest
<1>. QED  BY <1>1, <1>2, <1>3, <1>4, <1>5, <1>6, <1>7

\* `latest` is max(checkpoint_id), for a caller that is alone with the store and
\* puts ids in order: whatever it puts, trims, deletes, copies and rolls back,
\* however the rows of a put's set_many are applied and whatever its savers'
\* hints have forgotten, between its calls a pointer that is followed names the
\* newest stored checkpoint of its thread.
THEOREM LatestHolds ==
  ASSUME NEW p \in Proc, \A q \in Proc : q = p, InOrder
  PROVE  Spec => []LatestIsMax
<1>1. ASSUME TypeInv, TidyInv(p), PointInv(p), [Next]_vars
      PROVE  PointInv(p)'
  <2>1. CASE Next
    BY <1>1, <2>1, NextPoint
  <2>2. CASE UNCHANGED vars
    <3>1. ck' = ck /\ lt' = lt /\ max_seen' = max_seen /\ arch' = arch /\ backup' = backup /\ l' = l
      BY <2>2 DEF vars, store, hints, hist
    <3>2. UsedIds' = UsedIds
      BY <3>1, UsedStill
    <3>. QED  BY <1>1, <3>1, <3>2
         DEF PointInv, InTurn, Seen, PointPut, PointGet, PointBackup, NewestAt, Behind
  <2>. QED  BY <1>1, <2>1, <2>2
<1>2. Init => PointInv(p)
  BY InitPoint
<1>3. ASSUME PointInv(p)
      PROVE  LatestIsMax
  <2>1. SUFFICES ASSUME Quiescent, NEW t \in Thread
                 PROVE  NewestAt(t)
    BY DEF LatestIsMax, NewestAt
  <2>2. l[p].pc = "idle"
    BY <2>1 DEF Quiescent, At
  <2>. QED  BY <1>3, <2>2 DEF PointInv, Behind, CopyPCs
<1>. QED  BY <1>1, <1>2, <1>3, AlwaysTidy, PTL DEF Spec

-----------------------------------------------------------------------------
(* The pending writes of a tuple, with one caller that does not copy threads *)

\* The writes stored with checkpoint i are those it was given.
Agree(w, a, i) ==
  \A x \in DOMAIN w \cup DOMAIN a :
    x[1] = i => x \in DOMAIN w /\ x \in DOMAIN a /\ w[x] = a[x]

\* The checkpoints a call is about to give writes to, or to drop.
Busy(me) ==
  (IF me.pc \in WritePCs THEN {me.id} ELSE {})
    \cup (IF me.pc \in {"drop_writes", "drop_rows"} THEN me.doomed ELSE {})

\* Writes are given to checkpoints that were put, and never before their row.
GivenTo(me) ==
  /\ \A t \in Thread : \A x \in DOMAIN awr[t] \cup DOMAIN wr[t] : x[1] \in DOMAIN arch[t]
  /\ me.pc \in PutPCs => \A x \in DOMAIN awr[me.t] \cup DOMAIN wr[me.t] : x[1] # me.id

Given(me) ==
  \A t \in Thread : \A i \in DOMAIN ck[t] : (t = me.t /\ i \in Busy(me)) \/ Agree(wr[t], awr[t], i)

\* put_writes: what the checkpoint was given is stored, or in the batch.
Pending(me) ==
  LET w == wr[me.t]
      a == awr[me.t]
  IN  /\ \A x \in DOMAIN w \cup DOMAIN a \cup DOMAIN me.batch :
           x[1] = me.id =>
             /\ x \in DOMAIN a /\ x \in DOMAIN w \cup DOMAIN me.batch
             /\ a[x] = IF x \in DOMAIN me.batch /\ (x[2] \in Special \/ x \notin DOMAIN w)
                       THEN me.batch[x] ELSE w[x]
      /\ \A x \in DOMAIN me.batch \ me.todo : x[2] \notin Special => x \notin DOMAIN w
      /\ me.pc = "write_flush" => me.todo = {}

GivenCall(me) ==
  /\ me.pc \in WritePCs => Pending(me)
  /\ me.pc \in BuildPCs => me.id \in DOMAIN ck[me.t]
  /\ me.pc = "build_writes" => me.todo = WritesNs(me.t, me.id)
  /\ me.pc = "got" /\ me.id # None =>
       me.id \in DOMAIN ck[me.t] /\ me.batch = Only(wr[me.t], WritesNs(me.t, me.id))
  /\ me.pc \notin CopyPCs

GivenBackup ==
  backup # <<>> => \A t \in Thread :
    /\ \A x \in DOMAIN backup[5][t] \cup DOMAIN backup[2][t] : x[1] \in DOMAIN arch[t]
    /\ \A i \in DOMAIN backup[1][t] : Agree(backup[2][t], backup[5][t], i)

GivenInv(p) == GivenTo(l[p]) /\ Given(l[p]) /\ GivenCall(l[p]) /\ GivenBackup

\* A step that touches no writes and gives the call no new duty.
LEMMA GivenStill ==
  ASSUME TypeInv, NEW p \in Proc, GivenInv(p), Calm(p), wr' = wr, awr' = awr,
         l[p].pc \notin WritePCs \cup {"drop_writes", "drop_rows"},
         l'[p].pc \notin WritePCs \cup BuildPCs \cup CopyPCs \cup {"got"}
  PROVE  GivenInv(p)'
<1>1. arch' = arch /\ backup' = backup
  BY DEF Calm
<1>2. GivenTo(l[p])' /\ GivenBackup'
  BY <1>1 DEF GivenInv, GivenTo, GivenBackup, Calm, SamePut
<1>3. Given(l[p])'
  <2>1. Busy(l[p]) = {}
    BY DEF Busy
  <2>2. \A t \in Thread : DOMAIN ck'[t] \subseteq DOMAIN ck[t]
    BY DEF Calm, Shrinks
  <2>3. \A t \in Thread : \A i \in DOMAIN ck[t] : Agree(wr[t], awr[t], i)
    BY <2>1 DEF GivenInv, Given
  <2>4. \A t \in Thread : \A i \in DOMAIN ck'[t] : Agree(wr'[t], awr'[t], i)
    BY <2>2, <2>3
  <2>. QED  BY <2>4 DEF Given
<1>4. GivenCall(l[p])'
  BY DEF GivenCall, BuildPCs
<1>. QED  BY <1>2, <1>3, <1>4 DEF GivenInv

LEMMA GivenCalls ==
  ASSUME TypeInv, NEW p \in Proc, "copy_thread" \notin Ops[p], GivenInv(p),
         \/ Begins(p) \/ PutHint(p) \/ PutBlobContains(p) \/ PutBlobs(p) \/ GetPublish(p)
  PROVE  GivenInv(p)'
<1>1. Calm(p)
  BY CalmIs
<1>2. wr' = wr /\ awr' = awr /\ l[p].pc \in {"idle", "put_hint", "put_blobs", "get_publish"}
  BY BeginsIs, PutHintIs, PutBlobContainsIs, PutBlobsIs, GetPublishIs, OnlyIs DEF store, hist, Fresh
<1>3. l'[p].pc \notin WritePCs \cup BuildPCs \cup CopyPCs \cup {"got"}
  <2>1. CASE Begins(p)
    <3>1. CASE \E t \in Thread : \E id \in {None} \cup DOMAIN ck[t] : GetTuple(p, t, id)
      <4>1. PICK t \in Thread : \E id \in {None} \cup DOMAIN ck[t] : GetTuple(p, t, id)
        BY <3>1
      <4>2. PICK id \in {None} \cup DOMAIN ck[t] : GetTuple(p, t, id)
        BY <4>1
      <4>3. id \in IdOrNo
        BY ReadIs, IdIs
      <4>4. l'[p].pc \in {"get_saved", "get_max", "get_lt"}
        BY <4>2, <4>3, GetTupleStarts
      <4>. QED  BY <4>4 DEF WritePCs, BuildPCs, CopyPCs
    <3>2. CASE ~ \E t \in Thread : \E id \in {None} \cup DOMAIN ck[t] : GetTuple(p, t, id)
      <4>1. l'[p].pc \in {"list_next", "trim_ids", "del_ck", "runs_next"}
        BY <2>1, <3>2, BeginsIs
      <4>. QED  BY <4>1 DEF WritePCs, BuildPCs, CopyPCs
    <3>. QED  BY <3>1, <3>2
  <2>2. CASE ~Begins(p)
    BY <2>2, PutHintIs, PutBlobContainsIs, PutBlobsIs, GetPublishIs
       DEF WritePCs, BuildPCs, CopyPCs, AfterHint
  <2>. QED  BY <2>1, <2>2
<1>. QED  BY <1>1, <1>2, <1>3, GivenStill DEF WritePCs

LEMMA SurveysAt ==
  ASSUME TypeInv, NEW p \in Proc, Surveys(p)
  PROVE  l[p].pc \notin WritePCs \cup {"drop_writes", "drop_rows"}
<1>1. CASE PruneKeys(p) \/ TrimIds(p) \/ TrimRead(p) \/ TrimNext(p) \/ WalkRow(p) \/ WalkVals(p) \/ TrimEnd(p)
  BY <1>1 DEF PruneKeys, TrimIds, TrimRead, TrimNext, WalkRow, WalkVals, TrimEnd, ReadStep, At, WritePCs
<1>2. CASE DropRefs(p) \/ DropBlobKeys(p) \/ DropLatest(p) \/ DeleteListWrites(p)
  BY <1>2 DEF DropRefs, DropBlobKeys, DropLatest, DeleteListWrites, ReadStep, At, WritePCs
<1>3. CASE RunsKeys(p) \/ RunsRead(p)
  BY <1>3 DEF RunsKeys, RunsRead, ReadStep, At, WritePCs
<1>. QED  BY <1>1, <1>2, <1>3 DEF Surveys

LEMMA GivenDrops ==
  ASSUME TypeInv, NEW p \in Proc, GivenInv(p),
         \/ Surveys(p) \/ DropBlobs(p) \/ DropFix(p) \/ Dropped(p)
         \/ DeleteCk(p) \/ DeleteBlobs(p) \/ DeleteLatest(p)
  PROVE  GivenInv(p)'
<1>1. Calm(p)
  BY CalmIs
<1>2. wr' = wr /\ awr' = awr
  BY SurveysIs, OnlyIs, DropBlobsIs, DropFixIs, DroppedIs, DeleteCkIs, DeleteBlobsIs, DeleteLatestIs
     DEF store, hist
<1>3. l[p].pc \notin WritePCs \cup {"drop_writes", "drop_rows"}
  BY SurveysAt, DropBlobsIs, DropFixIs, DroppedIs, DeleteCkIs, DeleteBlobsIs, DeleteLatestIs
     DEF WritePCs
<1>4. l'[p].pc \in TrimPCs \cup DropPCs \cup RunPCs \cup DelPCs \cup {"idle"}
  <2>1. CASE Surveys(p)
    BY <2>1, SurveysIs
  <2>2. CASE ~Surveys(p)
    BY <2>2, DropBlobsIs, DropFixIs, DroppedIs, DeleteCkIs, DeleteBlobsIs, DeleteLatestIs, ReturnIs
       DEF DropPCs, RunPCs, DelPCs
  <2>. QED  BY <2>1, <2>2
<1>5. l'[p].pc \notin WritePCs \cup BuildPCs \cup CopyPCs \cup {"got"}
  BY <1>4 DEF TrimPCs, DropPCs, RunPCs, DelPCs, WritePCs, BuildPCs, CopyPCs
<1>. QED  BY <1>1, <1>2, <1>3, <1>5, GivenStill

LEMMA GivenPutBegins ==
  ASSUME TypeInv, NEW p \in Proc, GivenInv(p), PutBegins(p)
  PROVE  GivenInv(p)'
<1>1. PICK t \in Thread : t = l'[p].t
  BY PutBeginsIs
<1>2. PICK id \in Id : id = l'[p].id
  BY PutBeginsIs
<1>3. /\ l[p].pc = "idle" /\ ck' = ck /\ wr' = wr /\ awr' = awr /\ backup' = backup /\ id \notin UsedIds
      /\ l'[p].pc \in {"put_hint", "put_blobs", "put_rows"}
      /\ DOMAIN arch'[t] = DOMAIN arch[t] \cup {id} /\ \A u \in Thread : u # t => arch'[u] = arch[u]
  BY <1>1, <1>2, PutBeginsIs, ZenonT(60) DEF Fresh, store, AfterHint, Over, Row
<1>4. \A u \in Thread : DOMAIN arch[u] \subseteq DOMAIN arch'[u]
  BY <1>3
<1>5. id \notin DOMAIN arch[t]
  BY <1>3, UsedAre
<1>6. GivenTo(l[p])'
  BY <1>1, <1>2, <1>3, <1>4, <1>5 DEF GivenInv, GivenTo
<1>7. GivenBackup'
  BY <1>3, <1>4 DEF GivenInv, GivenBackup
<1>8. \A u \in Thread : \A i \in DOMAIN ck[u] : Agree(wr[u], awr[u], i)
  BY <1>3 DEF GivenInv, Given, Busy, WritePCs
<1>9. Given(l[p])'
  <2>1. \A u \in Thread : \A i \in DOMAIN ck'[u] : Agree(wr'[u], awr'[u], i)
    BY <1>3, <1>8
  <2>. QED  BY <2>1 DEF Given
<1>10. GivenCall(l[p])'
  BY <1>3 DEF GivenCall, WritePCs, BuildPCs, CopyPCs
<1>. QED  BY <1>6, <1>7, <1>9, <1>10 DEF GivenInv

LEMMA GivenPutRows ==
  ASSUME TypeInv, NEW p \in Proc, GivenInv(p), PutRows(p) \/ PutRest(p)
  PROVE  GivenInv(p)'
<1>1. l[p].pc \in {"put_rows", "put_rest"} /\ wr' = wr /\ awr' = awr /\ arch' = arch /\ backup' = backup
  BY PutRowsIs, PutRestIs
<1>2. l[p].pc \in PutPCs
  BY <1>1 DEF PutPCs
<1>3. PICK t \in Thread : t = l[p].t
  BY <1>2, PutIs
<1>4. \/ l'[p].pc = "put_rest" /\ SamePut(p)
      \/ Ended(p)
  BY PutRowsIs, PutRestIs
<1>5. l'[p].pc \in {"put_rest", "prune_keys", "idle"}
  BY <1>4 DEF Ended
<1>6. GivenTo(l[p])'
  BY <1>1, <1>2, <1>4, <1>5 DEF GivenInv, GivenTo, SamePut, Ended, PutPCs
<1>7. GivenBackup'
  BY <1>1 DEF GivenInv, GivenBackup
<1>8. ck' = ck \/ PutCk(p)
  BY PutRowsIs, PutRestIs
<1>9. /\ DOMAIN ck'[t] \subseteq DOMAIN ck[t] \cup {l[p].id}
      /\ \A u \in Thread : u # t => ck'[u] = ck[u]
  BY <1>2, <1>3, <1>8, PutCkIs
<1>10. \A u \in Thread : \A i \in DOMAIN ck[u] : Agree(wr[u], awr[u], i)
  BY <1>1 DEF GivenInv, Given, Busy, WritePCs
<1>11. Agree(wr[t], awr[t], l[p].id)
  BY <1>2, <1>3 DEF GivenInv, GivenTo, Agree
<1>12. Given(l[p])'
  <2>1. ASSUME NEW u \in Thread, NEW i \in DOMAIN ck'[u]
        PROVE  Agree(wr'[u], awr'[u], i)
    <3>1. CASE u = t
      <4>1. i \in DOMAIN ck[t] \/ i = l[p].id
        BY <1>9, <2>1, <3>1
      <4>2. Agree(wr[t], awr[t], i)
        BY <1>10, <1>11, <4>1
      <4>. QED  BY <1>1, <3>1, <4>2
    <3>2. CASE u # t
      <4>1. Agree(wr[u], awr[u], i)
        BY <1>9, <1>10, <2>1, <3>2
      <4>. QED  BY <1>1, <4>1
    <3>. QED  BY <3>1, <3>2
  <2>. QED  BY <2>1 DEF Given
<1>13. GivenCall(l[p])'
  BY <1>5 DEF GivenCall, WritePCs, BuildPCs, CopyPCs
<1>. QED  BY <1>6, <1>7, <1>12, <1>13 DEF GivenInv

LEMMA GivenWritesBegin ==
  ASSUME TypeInv, NEW p \in Proc, GivenInv(p), WritesBegin(p)
  PROVE  GivenInv(p)'
<1>1. PICK t \in Thread : t = l'[p].t
  BY WritesBeginIs
<1>2. PICK id \in DOMAIN ck[t] : id = l'[p].id
  BY <1>1, WritesBeginIs
<1>3. /\ l[p].pc = "idle" /\ l'[p].pc = "write_check" /\ ck' = ck /\ wr' = wr /\ arch' = arch
      /\ backup' = backup /\ l'[p].todo = DOMAIN l'[p].batch
      /\ \A x \in DOMAIN l'[p].batch : x[1] = id
  BY <1>2, WritesBeginIs DEF Fresh, store
<1>4. PICK b \in Part(Id \X WKey, WVal) : b = l'[p].batch
  BY WritesBeginIs
<1>5. awr' = [awr EXCEPT ![t] = Over(Only(b, {id} \X Special), Over(@, b))]
  BY <1>1, <1>2, <1>4, WritesBeginIs
<1>6. awr \in [Thread -> Part(Id \X WKey, WVal)] /\ DOMAIN b \subseteq Id \X WKey
  BY <1>4 DEF TypeInv, Archives, WrT, Part
<1>7. awr'[t] = Over(Only(b, {id} \X Special), Over(awr[t], b)) /\ \A u \in Thread : u # t => awr'[u] = awr[u]
  BY <1>5, <1>6
<1>8. \A x \in DOMAIN b : x \in {id} \X Special <=> x[2] \in Special
  BY <1>3, <1>4, <1>6
<1>9. /\ DOMAIN awr'[t] = DOMAIN awr[t] \cup DOMAIN b
      /\ \A x \in DOMAIN awr'[t] :
           awr'[t][x] = IF x \in DOMAIN b /\ (x[2] \in Special \/ x \notin DOMAIN awr[t]) THEN b[x] ELSE awr[t][x]
  <2>1. DOMAIN Only(b, {id} \X Special) = {x \in DOMAIN b : x[2] \in Special}
    BY <1>8 DEF Only
  <2>2. \A x \in DOMAIN Only(b, {id} \X Special) : Only(b, {id} \X Special)[x] = b[x]
    BY DEF Only
  <2>. QED  BY <1>7, <2>1, <2>2 DEF Over
<1>10. \A u \in Thread : \A i \in DOMAIN ck[u] : Agree(wr[u], awr[u], i)
  BY <1>3 DEF GivenInv, Given, Busy, WritePCs
<1>11. GivenTo(l[p])'
  <2>1. id \in DOMAIN arch[t]
    BY DEF TypeInv, Known
  <2>2. ASSUME NEW u \in Thread, NEW x \in DOMAIN awr'[u] \cup DOMAIN wr'[u]
        PROVE  x[1] \in DOMAIN arch'[u]
    <3>1. CASE x \in DOMAIN awr[u] \cup DOMAIN wr[u]
      BY <1>3, <3>1 DEF GivenInv, GivenTo
    <3>2. CASE x \notin DOMAIN awr[u] \cup DOMAIN wr[u]
      BY <1>3, <1>4, <1>7, <1>9, <2>1, <2>2, <3>2
    <3>. QED  BY <3>1, <3>2
  <2>. QED  BY <1>3, <2>2 DEF GivenTo, PutPCs
<1>12. Given(l[p])'
  <2>1. ASSUME NEW u \in Thread, NEW i \in DOMAIN ck'[u]
        PROVE  (u = t /\ i = id) \/ Agree(wr'[u], awr'[u], i)
    <3>1. Agree(wr[u], awr[u], i)
      BY <1>3, <1>10, <2>1
    <3>2. CASE u = t /\ i # id
      <4>1. \A x \in DOMAIN b : x[1] # i
        BY <1>3, <1>4, <3>2
      <4>. QED  BY <1>3, <1>9, <3>1, <3>2, <4>1 DEF Agree
    <3>3. CASE u # t
      BY <1>3, <1>7, <3>1, <3>3
    <3>. QED  BY <3>2, <3>3
  <2>2. Busy(l[p])' = {id}
    BY <1>2, <1>3 DEF Busy, WritePCs
  <2>. QED  BY <1>1, <2>1, <2>2 DEF Given
<1>13. Pending(l[p])'
  <2>1. Agree(wr[t], awr[t], id)
    BY <1>10
  <2>2. ASSUME NEW x \in DOMAIN wr[t] \cup DOMAIN awr'[t] \cup DOMAIN b, x[1] = id
        PROVE  /\ x \in DOMAIN awr'[t] /\ x \in DOMAIN wr[t] \cup DOMAIN b
               /\ awr'[t][x] = IF x \in DOMAIN b /\ (x[2] \in Special \/ x \notin DOMAIN wr[t]) THEN b[x] ELSE wr[t][x]
    <3>1. x \in DOMAIN wr[t] \cup DOMAIN awr[t] => x \in DOMAIN wr[t] /\ x \in DOMAIN awr[t] /\ wr[t][x] = awr[t][x]
      BY <2>1, <2>2 DEF Agree
    <3>. QED  BY <1>9, <2>2, <3>1
  <2>. QED  BY <1>1, <1>2, <1>3, <1>4, <2>2 DEF Pending
<1>14. GivenCall(l[p])' /\ GivenBackup'
  BY <1>3, <1>13 DEF GivenCall, BuildPCs, CopyPCs, GivenInv, GivenBackup
<1>. QED  BY <1>11, <1>12, <1>14 DEF GivenInv

LEMMA GivenCheck ==
  ASSUME TypeInv, NEW p \in Proc, GivenInv(p), CheckWrites(p)
  PROVE  GivenInv(p)'
<1>1. /\ l[p].pc = "write_check" /\ l'[p].pc \in WritePCs /\ l'[p].t = l[p].t /\ l'[p].id = l[p].id
      /\ l'[p].pc = "write_flush" => l'[p].todo = {}
  BY CheckWritesIs DEF WritePCs
<1>2. ck' = ck /\ wr' = wr /\ awr' = awr /\ arch' = arch /\ backup' = backup
  BY CheckWritesIs, OnlyIs
<1>3. PICK S \in SUBSET l[p].todo :
        /\ l'[p].todo = l[p].todo \ S
        /\ l'[p].batch = Drop(l[p].batch, {x \in S : Skips(l[p].t, x)})
  BY CheckWritesIs
<1>4. GivenTo(l[p])' /\ GivenBackup'
  BY <1>1, <1>2 DEF GivenInv, GivenTo, GivenBackup, PutPCs, WritePCs
<1>5. Given(l[p])'
  <2>1. Busy(l[p])' = Busy(l[p])
    BY <1>1 DEF Busy, WritePCs
  <2>2. \A u \in Thread : \A i \in DOMAIN ck[u] : (u = l[p].t /\ i \in Busy(l[p])) \/ Agree(wr[u], awr[u], i)
    BY DEF GivenInv, Given
  <2>3. \A u \in Thread : \A i \in DOMAIN ck'[u] : (u = l'[p].t /\ i \in Busy(l[p])') \/ Agree(wr'[u], awr'[u], i)
    BY <1>1, <1>2, <2>1, <2>2
  <2>. QED  BY <2>3 DEF Given
<1>6. Pending(l[p])'
  <2>1. Pending(l[p])
    BY <1>1 DEF GivenInv, GivenCall, WritePCs
  <2>2. /\ DOMAIN l'[p].batch = DOMAIN l[p].batch \ {x \in S : x[2] \notin Special /\ x \in DOMAIN wr[l[p].t]}
        /\ \A x \in DOMAIN l'[p].batch : l'[p].batch[x] = l[p].batch[x]
    BY <1>3 DEF Drop, Skips
  <2>. QED  BY <1>1, <1>2, <1>3, <2>1, <2>2 DEF Pending
<1>7. GivenCall(l[p])'
  BY <1>1, <1>6 DEF GivenCall, WritePCs, BuildPCs, CopyPCs
<1>. QED  BY <1>4, <1>5, <1>7 DEF GivenInv

LEMMA GivenFlush ==
  ASSUME TypeInv, NEW p \in Proc, TidyInv(p), GivenInv(p), FlushWrites(p)
  PROVE  GivenInv(p)'
<1>1. PICK t \in Thread : t = l[p].t
  BY FlushWritesIs
<1>2. /\ l[p].pc = "write_flush" /\ wr' = SetRows(wr, t, l[p].batch) /\ ck' = ck /\ awr' = awr
      /\ arch' = arch /\ backup' = backup /\ l'[p].pc = "idle"
  BY <1>1, FlushWritesIs, ReturnIs DEF hist
<1>3. wr \in [Thread -> Part(Id \X WKey, WVal)]
  BY DEF TypeInv, Stores, WrT
<1>4. wr'[t] = Over(l[p].batch, wr[t]) /\ \A u \in Thread : u # t => wr'[u] = wr[u]
  BY <1>2, <1>3 DEF SetRows
<1>5. /\ DOMAIN wr'[t] = DOMAIN l[p].batch \cup DOMAIN wr[t]
      /\ \A x \in DOMAIN wr'[t] : wr'[t][x] = IF x \in DOMAIN l[p].batch THEN l[p].batch[x] ELSE wr[t][x]
  BY <1>4 DEF Over
<1>6. l[p].id \in DOMAIN ck[t] /\ \A x \in DOMAIN l[p].batch : x[1] = l[p].id
  BY <1>1, <1>2 DEF TidyInv, TidyCall, WritePCs
<1>7. Pending(l[p]) /\ l[p].todo = {}
  BY <1>2 DEF GivenInv, GivenCall, WritePCs, Pending
<1>8. GivenTo(l[p])'
  <2>1. l[p].id \in DOMAIN arch[t]
    BY <1>6 DEF TypeInv, Known
  <2>2. \A u \in Thread : \A x \in DOMAIN awr[u] \cup DOMAIN wr[u] : x[1] \in DOMAIN arch[u]
    BY DEF GivenInv, GivenTo
  <2>3. \A u \in Thread : \A x \in DOMAIN awr'[u] \cup DOMAIN wr'[u] : x[1] \in DOMAIN arch'[u]
    BY <1>2, <1>4, <1>5, <1>6, <2>1, <2>2
  <2>. QED  BY <1>2, <2>3 DEF GivenTo, PutPCs
<1>9. Given(l[p])'
  <2>1. ASSUME NEW u \in Thread, NEW i \in DOMAIN ck[u], ~ (u = t /\ i = l[p].id)
        PROVE  Agree(wr[u], awr[u], i)
    BY <1>1, <1>2, <2>1 DEF GivenInv, Given, Busy, WritePCs
  <2>2. Agree(wr'[t], awr[t], l[p].id)
    BY <1>1, <1>5, <1>7 DEF Pending, Agree
  <2>3. ASSUME NEW u \in Thread, NEW i \in DOMAIN ck[u]
        PROVE  Agree(wr'[u], awr[u], i)
    <3>1. CASE u # t
      BY <1>4, <2>1, <3>1
    <3>2. CASE u = t /\ i # l[p].id
      <4>1. Agree(wr[t], awr[t], i) /\ \A x \in DOMAIN l[p].batch : x[1] # i
        BY <1>6, <2>1, <3>2
      <4>. QED  BY <1>5, <3>2, <4>1 DEF Agree
    <3>. QED  BY <2>2, <3>1, <3>2
  <2>4. \A u \in Thread : \A i \in DOMAIN ck'[u] : Agree(wr'[u], awr'[u], i)
    BY <1>2, <2>3
  <2>. QED  BY <2>4 DEF Given
<1>10. GivenCall(l[p])' /\ GivenBackup'
  BY <1>2 DEF GivenCall, WritePCs, BuildPCs, CopyPCs, GivenInv, GivenBackup
<1>. QED  BY <1>8, <1>9, <1>10 DEF GivenInv

LEMMA GivenReading ==
  ASSUME TypeInv, NEW p \in Proc, GivenInv(p), Reading(p)
  PROVE  GivenInv(p)'
<1>1. ck' = ck /\ wr' = wr /\ awr' = awr /\ arch' = arch /\ backup' = backup
  BY ReadingIs, OnlyIs
<1>2. l[p].pc \in ReadPCs /\ l'[p].pc \in ReadPCs \cup {"get_publish"}
  BY ReadingIs
<1>3. GivenTo(l[p])' /\ GivenBackup'
  BY <1>1, <1>2 DEF GivenInv, GivenTo, GivenBackup, PutPCs, ReadPCs
<1>4. Given(l[p])'
  <2>1. \A t \in Thread : \A i \in DOMAIN ck[t] : Agree(wr[t], awr[t], i)
    BY <1>2 DEF GivenInv, Given, Busy, WritePCs, ReadPCs
  <2>2. \A t \in Thread : \A i \in DOMAIN ck'[t] : Agree(wr'[t], awr'[t], i)
    BY <1>1, <2>1
  <2>. QED  BY <2>2 DEF Given
<1>5. /\ l'[p].pc \in BuildPCs => l'[p].id \in DOMAIN ck[l'[p].t]
      /\ l'[p].pc = "build_writes" => l'[p].todo = WritesNs(l'[p].t, l'[p].id)
      /\ l'[p].pc = "got" /\ l'[p].id # None =>
           l'[p].id \in DOMAIN ck[l'[p].t] /\ l'[p].batch = Only(wr[l'[p].t], WritesNs(l'[p].t, l'[p].id))
  <2>1. CASE GetMax(p) \/ GetLatest(p) \/ GetKeys(p)
    BY <2>1, GetMaxIs, GetLatestIs, GetKeysIs DEF BuildPCs
  <2>2. CASE GetPointed(p) \/ GetSaved(p)
    <3>1. PICK t \in Thread : t = l[p].t
      BY <2>2, GetPointedIs, GetSavedIs
    <3>2. Get(ck[t], l[p].id) # NoRow => l[p].id \in DOMAIN ck[t]
      BY GetIs
    <3>. QED  BY <2>2, <3>1, <3>2, GetPointedIs, GetSavedIs DEF BuildPCs, Build
  <2>3. CASE AttachValues(p) \/ BuildKeys(p) \/ BuildWrites(p)
    <3>1. /\ l[p].pc \in BuildPCs /\ l'[p].t = l[p].t /\ l'[p].id = l[p].id
          /\ l'[p].pc \in {"build_keys", "build_writes", "got"}
          /\ l'[p].pc = "build_writes" => l'[p].todo = WritesNs(l[p].t, l[p].id)
          /\ l'[p].pc = "got" => l[p].pc = "build_writes" /\ l'[p].batch = Only(wr[l[p].t], l[p].todo)
      BY <2>3, AttachValuesIs, BuildKeysIs, BuildWritesIs DEF BuildPCs
    <3>2. /\ l[p].id \in DOMAIN ck[l[p].t]
          /\ l[p].pc = "build_writes" => l[p].todo = WritesNs(l[p].t, l[p].id)
      BY <3>1 DEF GivenInv, GivenCall
    <3>. QED  BY <3>1, <3>2
  <2>4. CASE GetReturn(p) \/ ListKeys(p)
    BY <2>4, GetReturnIs, ListKeysIs DEF BuildPCs
  <2>5. CASE ListNext(p)
    BY <2>5, ListNextIs DEF BuildPCs, Build
  <2>. QED  BY <2>1, <2>2, <2>3, <2>4, <2>5 DEF Reading
<1>6. GivenCall(l[p])'
  BY <1>1, <1>2, <1>5 DEF GivenCall, WritesNs, WritePCs, CopyPCs, ReadPCs
<1>. QED  BY <1>3, <1>4, <1>6 DEF GivenInv

\* A step that only drops writes, of checkpoints that are going or gone.
LEMMA GivenLess ==
  ASSUME TypeInv, NEW p \in Proc, GivenInv(p), NEW t \in Thread, NEW i,
         wr' = DropRows(wr, t, WritesNs(t, i)), ck' = ck, awr' = awr, arch' = arch, backup' = backup,
         l'[p].pc \in {"drop_writes", "drop_rows", "del_wr", "del_bl"},
         \A u \in Thread : \A j \in DOMAIN ck[u] :
           (u = l'[p].t /\ j \in Busy(l[p])') \/ (Agree(wr[u], awr[u], j) /\ ~ (u = t /\ j = i))
  PROVE  GivenInv(p)'
<1>1. wr \in [Thread -> Part(Id \X WKey, WVal)]
  BY DEF TypeInv, Stores, WrT
<1>2. /\ \A u \in Thread : u # t => wr'[u] = wr[u]
      /\ DOMAIN wr'[t] = {x \in DOMAIN wr[t] : x[1] # i}
      /\ \A x \in DOMAIN wr'[t] : wr'[t][x] = wr[t][x]
  BY <1>1 DEF DropRows, Drop, WritesNs
<1>3. \A u \in Thread : DOMAIN wr'[u] \subseteq DOMAIN wr[u]
  BY <1>2
<1>4. GivenTo(l[p])' /\ GivenBackup'
  BY <1>3 DEF GivenInv, GivenTo, GivenBackup, PutPCs
<1>5. Given(l[p])'
  <2>1. ASSUME NEW u \in Thread, NEW j, Agree(wr[u], awr[u], j), ~ (u = t /\ j = i)
        PROVE  Agree(wr'[u], awr'[u], j)
    <3>1. CASE u = t
      BY <1>2, <2>1, <3>1 DEF Agree
    <3>2. CASE u # t
      BY <1>2, <2>1, <3>2
    <3>. QED  BY <3>1, <3>2
  <2>2. ASSUME NEW u \in Thread, NEW j \in DOMAIN ck'[u]
        PROVE  (u = l'[p].t /\ j \in Busy(l[p])') \/ Agree(wr'[u], awr'[u], j)
    BY <2>1
  <2>. QED  BY <2>2 DEF Given
<1>6. GivenCall(l[p])'
  BY DEF GivenCall, WritePCs, BuildPCs, CopyPCs
<1>. QED  BY <1>4, <1>5, <1>6 DEF GivenInv

LEMMA GivenDropWrites ==
  ASSUME TypeInv, NEW p \in Proc, TidyInv(p), GivenInv(p), DropWrites(p)
  PROVE  GivenInv(p)'
<1>1. PICK t \in Thread : t = l[p].t
  BY DropWritesIs
<1>2. PICK i : i = Min(l[p].todo)
  OBVIOUS
<1>3. /\ l[p].pc = "drop_writes" /\ wr' = DropRows(wr, t, WritesNs(t, i)) /\ ck' = ck /\ awr' = awr
      /\ arch' = arch /\ backup' = backup /\ l'[p].pc \in {"drop_writes", "drop_rows"}
      /\ l'[p].t = t /\ l'[p].doomed = l[p].doomed
  BY <1>1, <1>2, DropWritesIs DEF hist
<1>4. Busy(l[p]) = l[p].doomed /\ Busy(l[p])' = l[p].doomed
  BY <1>3 DEF Busy, WritePCs
<1>5. i \in l[p].doomed
  <2>1. l[p].todo # {} /\ l[p].todo \subseteq l[p].doomed
    BY <1>3 DEF TidyInv, TidyDrop
  <2>2. l[p].doomed \subseteq Id
    BY DEF TypeInv, Local
  <2>3. l[p].todo \in SUBSET IdOrNo
    BY <2>1, <2>2, IdIs
  <2>. QED  BY <1>2, <2>1, <2>3, MaxIs
<1>6. \A u \in Thread : \A j \in DOMAIN ck[u] :
        (u = l'[p].t /\ j \in Busy(l[p])') \/ (Agree(wr[u], awr[u], j) /\ ~ (u = t /\ j = i))
  BY <1>1, <1>3, <1>4, <1>5 DEF GivenInv, Given
<1>. QED  BY <1>3, <1>6, GivenLess

LEMMA GivenDeleteWrites ==
  ASSUME TypeInv, NEW p \in Proc, TidyInv(p), GivenInv(p), DeleteWrites(p)
  PROVE  GivenInv(p)'
<1>1. PICK t \in Thread : t = l[p].t
  BY DeleteWritesIs
<1>2. PICK i \in l[p].todo : /\ wr' = DropRows(wr, t, WritesNs(t, i))
                             /\ l'[p].pc = IF l'[p].todo = {} THEN "del_bl" ELSE "del_wr"
  BY <1>1, DeleteWritesIs
<1>3. /\ l[p].pc = "del_wr" /\ ck' = ck /\ awr' = awr /\ arch' = arch /\ backup' = backup
      /\ l'[p].pc \in {"del_bl", "del_wr"}
  BY <1>2, DeleteWritesIs DEF hist
<1>4. DOMAIN ck[t] = {}
  BY <1>1, <1>3 DEF TidyInv, TidyDel, DelPCs
<1>5. \A u \in Thread : \A j \in DOMAIN ck[u] : Agree(wr[u], awr[u], j) /\ ~ (u = t /\ j = i)
  BY <1>3, <1>4 DEF GivenInv, Given, Busy, WritePCs
<1>. QED  BY <1>2, <1>3, <1>5, GivenLess

LEMMA GivenDropCheckpoints ==
  ASSUME TypeInv, NEW p \in Proc, GivenInv(p), DropCheckpoints(p)
  PROVE  GivenInv(p)'
<1>1. PICK t \in Thread : t = l[p].t
  BY DropCheckpointsIs
<1>2. /\ l[p].pc = "drop_rows" /\ ck' = DropRows(ck, t, l[p].doomed) /\ wr' = wr /\ awr' = awr
      /\ arch' = arch /\ backup' = backup /\ l'[p].pc \in {"dropped", "drop_latest"}
  BY <1>1, DropCheckpointsIs DEF hist
<1>3. ck \in [Thread -> Part(Id, Record)]
  BY DEF TypeInv, Stores, CkT
<1>4. DOMAIN ck'[t] = DOMAIN ck[t] \ l[p].doomed /\ \A u \in Thread : u # t => ck'[u] = ck[u]
  BY <1>2, <1>3 DEF DropRows, Drop
<1>5. GivenTo(l[p])' /\ GivenBackup'
  BY <1>2 DEF GivenInv, GivenTo, GivenBackup, PutPCs
<1>6. Given(l[p])'
  <2>1. Busy(l[p]) = l[p].doomed
    BY <1>2 DEF Busy, WritePCs
  <2>2. \A u \in Thread : \A j \in DOMAIN ck'[u] : Agree(wr[u], awr[u], j)
    BY <1>1, <1>4, <2>1 DEF GivenInv, Given
  <2>3. \A u \in Thread : \A j \in DOMAIN ck'[u] : Agree(wr'[u], awr'[u], j)
    BY <1>2, <2>2
  <2>. QED  BY <2>3 DEF Given
<1>7. GivenCall(l[p])'
  BY <1>2 DEF GivenCall, WritePCs, BuildPCs, CopyPCs
<1>. QED  BY <1>5, <1>6, <1>7 DEF GivenInv

LEMMA GivenRollback ==
  ASSUME TypeInv, NEW p \in Proc, GivenInv(p), SnapshotStore(p) \/ RestoreStore(p)
  PROVE  GivenInv(p)'
<1>1. l[p].pc = "idle" /\ l' = l /\ arch' = arch
  BY DEF SnapshotStore, RestoreStore, Call, At, hist
<1>2. GivenCall(l[p])'
  BY <1>1 DEF GivenCall, WritePCs, BuildPCs, CopyPCs
<1>3. \A t \in Thread : \A i \in DOMAIN ck[t] : Agree(wr[t], awr[t], i)
  BY <1>1 DEF GivenInv, Given, Busy, WritePCs
<1>4. \A t \in Thread : \A x \in DOMAIN awr[t] \cup DOMAIN wr[t] : x[1] \in DOMAIN arch[t]
  BY DEF GivenInv, GivenTo
<1>5. CASE SnapshotStore(p)
  <2>1. ck' = ck /\ wr' = wr /\ awr' = awr /\ backup' = <<ck, wr, bl, lt, awr>>
    BY <1>5 DEF SnapshotStore, store, hist
  <2>2. GivenTo(l[p])'
    BY <1>1, <1>4, <2>1 DEF GivenTo, PutPCs
  <2>3. \A t \in Thread : \A i \in DOMAIN ck'[t] : Agree(wr'[t], awr'[t], i)
    BY <1>3, <2>1
  <2>4. Given(l[p])'
    BY <2>3 DEF Given
  <2>5. GivenBackup'
    BY <1>1, <1>3, <1>4, <2>1 DEF GivenBackup
  <2>. QED  BY <1>2, <2>2, <2>4, <2>5 DEF GivenInv
<1>6. CASE RestoreStore(p)
  <2>1. backup # <<>> /\ backup' = backup /\ ck' = backup[1] /\ wr' = backup[2] /\ awr' = backup[5]
    BY <1>6 DEF RestoreStore
  <2>2. GivenBackup
    BY DEF GivenInv
  <2>3. GivenTo(l[p])'
    BY <1>1, <2>1, <2>2 DEF GivenTo, GivenBackup, PutPCs
  <2>4. \A t \in Thread : \A i \in DOMAIN ck'[t] : Agree(wr'[t], awr'[t], i)
    BY <2>1, <2>2 DEF GivenBackup
  <2>5. Given(l[p])'
    BY <2>4 DEF Given
  <2>6. GivenBackup'
    BY <1>1, <2>1, <2>2 DEF GivenBackup
  <2>. QED  BY <1>2, <2>3, <2>5, <2>6 DEF GivenInv
<1>. QED  BY <1>5, <1>6

LEMMA NextGiven ==
  ASSUME TypeInv, NEW p \in Proc, \A q \in Proc : q = p, "copy_thread" \notin Ops[p],
         TidyInv(p), GivenInv(p), Next
  PROVE  GivenInv(p)'
<1>1. \/ PutBegins(p) \/ WritesBegin(p) \/ Begins(p)
      \/ SnapshotStore(p) \/ RestoreStore(p)
      \/ PutHint(p) \/ PutBlobContains(p) \/ PutBlobs(p) \/ PutRows(p) \/ PutRest(p)
      \/ CheckWrites(p) \/ FlushWrites(p) \/ Reading(p) \/ GetPublish(p) \/ Surveys(p)
      \/ DropBlobs(p) \/ DropWrites(p) \/ DropCheckpoints(p) \/ DropFix(p) \/ Dropped(p)
      \/ DeleteCk(p) \/ DeleteWrites(p) \/ DeleteBlobs(p) \/ DeleteLatest(p)
      \/ CopyCk(p) \/ CopyWr(p) \/ CopyBl(p) \/ CopyLatest(p)
  BY NextIs
<1>2. CASE PutBegins(p) \/ WritesBegin(p) \/ Begins(p) \/ SnapshotStore(p) \/ RestoreStore(p)
  BY <1>2, GivenPutBegins, GivenWritesBegin, GivenCalls, GivenRollback
<1>3. CASE PutHint(p) \/ PutBlobContains(p) \/ PutBlobs(p) \/ PutRows(p) \/ PutRest(p)
  BY <1>3, GivenCalls, GivenPutRows
<1>4. CASE CheckWrites(p) \/ FlushWrites(p) \/ Reading(p) \/ GetPublish(p) \/ Surveys(p)
  BY <1>4, GivenCheck, GivenFlush, GivenReading, GivenCalls, GivenDrops
<1>5. CASE DropBlobs(p) \/ DropWrites(p) \/ DropCheckpoints(p) \/ DropFix(p) \/ Dropped(p)
  BY <1>5, GivenDrops, GivenDropWrites, GivenDropCheckpoints
<1>6. CASE DeleteCk(p) \/ DeleteWrites(p) \/ DeleteBlobs(p) \/ DeleteLatest(p)
  BY <1>6, GivenDrops, GivenDeleteWrites
<1>7. ~ (CopyCk(p) \/ CopyWr(p) \/ CopyBl(p) \/ CopyLatest(p))
  <2>1. l[p].pc \notin CopyPCs
    BY DEF GivenInv, GivenCall
  <2>. QED  BY <2>1 DEF CopyCk, CopyWr, CopyBl, CopyLatest, At, CopyPCs
<1>. QED  BY <1>1, <1>2, <1>3, <1>4, <1>5, <1>6, <1>7

\* A tuple's pending writes, for a caller that is alone with the store and does
\* not copy threads: whatever it puts, trims, deletes and rolls back, the tuple
\* that get_tuple or list hands over has the first value given to each
\* positional write of its checkpoint, the last given to each special one
\* (put_writes skips what is stored, asked key by key or all at once), and none
\* of another checkpoint.
THEOREM WritesReturned ==
  ASSUME NEW p \in Proc, \A q \in Proc : q = p, "copy_thread" \notin Ops[p]
  PROVE  Spec => []TupleWrites
<1>1. ASSUME TypeInv, TidyInv(p), GivenInv(p), [Next]_vars
      PROVE  GivenInv(p)'
  <2>1. CASE Next
    BY <1>1, <2>1, NextGiven
  <2>2. CASE UNCHANGED vars
    <3>1. ck' = ck /\ wr' = wr /\ awr' = awr /\ arch' = arch /\ backup' = backup /\ l' = l
      BY <2>2 DEF vars, store, hist
    <3>. QED  BY <1>1, <3>1
         DEF GivenInv, GivenTo, Given, GivenCall, GivenBackup, Agree, Busy, Pending, WritesNs, Only
  <2>. QED  BY <1>1, <2>1, <2>2
<1>2. Init => GivenInv(p)
  <2>1. SUFFICES ASSUME Init PROVE GivenInv(p)
    OBVIOUS
  <2>2. /\ wr = [t \in Thread |-> Empty] /\ awr = [t \in Thread |-> Empty] /\ backup = <<>>
        /\ l[p].pc = "idle"
    BY <2>1 DEF Init, Locals0
  <2>3. \A t \in Thread : DOMAIN wr[t] = {} /\ DOMAIN awr[t] = {}
    BY <2>2 DEF Empty
  <2>. QED  BY <2>2, <2>3
       DEF GivenInv, GivenTo, Given, GivenCall, GivenBackup, Agree, WritePCs, BuildPCs, CopyPCs, PutPCs
<1>3. ASSUME TypeInv, GivenInv(p)
      PROVE  TupleWrites
  <2>1. SUFFICES ASSUME At(p, "got"), l[p].id # None
                 PROVE  l[p].batch = Only(awr[l[p].t], {x \in DOMAIN awr[l[p].t] : x[1] = l[p].id})
    BY DEF TupleWrites
  <2>2. PICK t \in Thread : t = l[p].t
    BY <1>3, <2>1 DEF At, TypeInv, Shape
  <2>3. l[p].id \in DOMAIN ck[t] /\ l[p].batch = Only(wr[t], WritesNs(t, l[p].id))
    BY <1>3, <2>1, <2>2 DEF At, GivenInv, GivenCall
  <2>4. Agree(wr[t], awr[t], l[p].id)
    BY <1>3, <2>1, <2>3 DEF At, GivenInv, Given, Busy, WritePCs
  <2>5. DOMAIN wr[t] \cap WritesNs(t, l[p].id) = DOMAIN awr[t] \cap {x \in DOMAIN awr[t] : x[1] = l[p].id}
    BY <2>4 DEF Agree, WritesNs
  <2>6. \A x \in DOMAIN wr[t] \cap WritesNs(t, l[p].id) : wr[t][x] = awr[t][x]
    BY <2>4 DEF Agree, WritesNs
  <2>7. Only(wr[t], WritesNs(t, l[p].id)) = Only(awr[t], {x \in DOMAIN awr[t] : x[1] = l[p].id})
    BY <2>5, <2>6 DEF Only
  <2>. QED  BY <2>2, <2>3, <2>7
<1>. QED  BY <1>1, <1>2, <1>3, AlwaysTidy, PTL DEF Spec

-----------------------------------------------------------------------------
(* Channel values in blobs: one caller changes checkpoints, others read *)

Changing == {"put", "prune", "delete_for_runs", "delete_thread", "copy_thread", "restore"}

\* Only w changes checkpoints.  If there are other callers, w brings no dropped
\* checkpoint back: it neither copies threads nor rolls the store back.
OneWriter(w) ==
  \A q \in Proc : q = w \/ (Ops[q] \cap Changing = {} /\ Ops[w] \cap {"copy_thread", "restore"} = {})

\* Every checkpoint that was put, in any thread.
AllPut == UNION {{arch[t][i] : i \in DOMAIN arch[t]} : t \in Thread}

\* A version of a channel stands for one value in all records A; U are the ids
\* that were used.
OneValue(A, U) ==
  \A r \in A, c \in Channel :
    r.vers[c] \in U /\ \A s \in A : r.vers[c] = s.vers[c] => r.vals[c] = s.vals[c]

\* The blobs b have the values of the records A.
Right(b, A, U) ==
  \A t \in Thread : \A x \in DOMAIN b[t] :
    x[2] \in U /\ \A r \in A : r.vers[x[1]] = x[2] => b[t][x] = r.vals[x[1]]

\* Checkpoints whose blobs may be missing: they are being dropped, or were
\* copied and their blobs are yet to be.
Dooming(me, t, i) == me.pc \in {"drop_writes", "drop_rows"} /\ t = me.t /\ i \in me.doomed
Copying(me, t, i) == me.pc \in {"copy_wr", "copy_bl"} /\ t \in me.threads /\ i \in DOMAIN ck[me.t]

Whole(me) ==
  \A t \in Thread : \A i \in DOMAIN ck[t] :
    RefsOf(ck[t][i]) \subseteq DOMAIN bl[t] \/ Dooming(me, t, i) \/ Copying(me, t, i)

BlobBackup(w) ==
  backup # <<>> /\ "restore" \in Ops[w] =>
    /\ Right(backup[3], AllPut, UsedIds)
    /\ \A t \in Thread : \A i \in DOMAIN backup[1][t] :
         RefsOf(backup[1][t][i]) \subseteq DOMAIN backup[3][t]

BlobStore(w) ==
  /\ OneValue(AllPut, UsedIds) /\ Right(bl, AllPut, UsedIds)
  /\ Whole(l[w]) /\ BlobBackup(w)

\* put: every blob of its row is stored, in its batch, or yet to be looked for.
BlobPut(me) ==
  /\ me.pc \in {"put_hint", "put_blobs"} =>
       /\ me.todo \cup DOMAIN me.batch \subseteq RefsOf(me.rec)
       /\ RefsOf(me.rec) \subseteq me.todo \cup DOMAIN me.batch \cup DOMAIN bl[me.t]
       /\ \A x \in DOMAIN me.batch : me.batch[x] = me.rec.vals[x[1]]
  /\ me.pc \in {"put_rows", "put_rest"} => RefsOf(me.rec) \subseteq DOMAIN bl[me.t]

\* _drop_checkpoints: no blob that a checkpoint refers to that stays is deleted.
BlobDrop(me) ==
  /\ TidyTrim(me)
  /\ me.pc \in RunPCs => me.recs = Empty
  /\ me.pc = "runs_read" => me.ids = DOMAIN ck[me.t]
  /\ me.pc \in {"drop_refs", "drop_blob_keys", "drop_blobs"} => me.kept \cup me.doomed = DOMAIN ck[me.t]
  /\ me.pc = "drop_blob_keys" => me.keys = References(me.kept, ck[me.t])
  /\ me.pc = "drop_blobs" => me.keys \cap References(me.kept, ck[me.t]) = {}
  /\ me.pc \in DelPCs \ {"del_ck"} => DOMAIN ck[me.t] = {}
  /\ me.pc \in CopyPCs => \E u \in Thread : me.threads = {u} /\ u # me.t

BlobCall(me) == BlobPut(me) /\ BlobDrop(me)

LEMMA RefsIn ==
  ASSUME NEW K, NEW recs, NEW i \in K
  PROVE  RefsOf(recs[i]) \subseteq References(K, recs)
  BY DEF RefsOf, References

\* A record that takes every channel from a record that was put, or has a
\* version that was not used yet.
LEMMA MoreValues ==
  ASSUME NEW A, NEW U, OneValue(A, U), NEW r, NEW id, id \notin U,
         \A c \in Channel : \/ r.vers[c] = id
                            \/ \E s \in A : r.vers[c] = s.vers[c] /\ r.vals[c] = s.vals[c]
  PROVE  OneValue(A \cup {r}, U \cup {id})
<1>1. ASSUME NEW c \in Channel, NEW s \in A
      PROVE  s.vers[c] \in U /\ (r.vers[c] = s.vers[c] => r.vals[c] = s.vals[c])
  BY DEF OneValue
<1>2. \A c \in Channel : r.vers[c] \in U \cup {id}
  BY <1>1
<1>. QED  BY <1>1, <1>2 DEF OneValue

LEMMA MoreRight ==
  ASSUME NEW A, NEW U, NEW r, NEW id, id \notin U, NEW b, Right(b, A, U),
         \A t \in Thread : DOMAIN b[t] \subseteq Channel \X Id,
         \A c \in Channel : \/ r.vers[c] = id
                            \/ \E s \in A : r.vers[c] = s.vers[c] /\ r.vals[c] = s.vals[c]
  PROVE  Right(b, A \cup {r}, U \cup {id})
<1>1. ASSUME NEW t \in Thread, NEW x \in DOMAIN b[t]
      PROVE  /\ x[2] \in U \cup {id}
             /\ \A s \in A \cup {r} : s.vers[x[1]] = x[2] => b[t][x] = s.vals[x[1]]
  <2>1. x[1] \in Channel /\ x[2] \in U
    BY DEF Right
  <2>2. r.vers[x[1]] = x[2] => b[t][x] = r.vals[x[1]]
    BY <2>1 DEF Right
  <2>. QED  BY <2>1, <2>2 DEF Right
<1>. QED  BY <1>1 DEF Right

LEMMA FewerRight ==
  ASSUME NEW A, NEW U, NEW B \in SUBSET A, NEW V, U \subseteq V
  PROVE  /\ OneValue(A, U) => OneValue(B, V)
         /\ \A b : Right(b, A, U) => Right(b, B, V)
  BY DEF OneValue, Right

\* A tuple that q builds while w goes on.  Its checkpoint was put and is not one
\* that w is yet to store; once the values are attached they are the ones that
\* were put, unless the checkpoint is gone or about to go.
Putting(me, t, i) == me.pc \in PutPCs /\ me.t = t /\ me.id = i

Tuple(w, me) ==
  me.pc \in TuplePCs /\ me.id # None =>
    /\ me.id \in DOMAIN arch[me.t]
    /\ Putting(l[w], me.t, me.id) => me.id \in DOMAIN ck[me.t]
    /\ IF me.pc = "build_blobs" THEN me.rec = Stored(arch[me.t][me.id])
       ELSE \/ me.rec.vals = arch[me.t][me.id].vals
            \/ me.id \notin DOMAIN ck[me.t]
            \/ Dooming(l[w], me.t, me.id)

ReaderPCs == ReadPCs \cup WritePCs \cup {"get_publish"}

Tuples(w) ==
  /\ \A q \in Proc : q # w => l[q].pc \in ReaderPCs
  /\ l[w].pc \in CopyPCs => "copy_thread" \in Ops[w]
  /\ \A q \in Proc : Tuple(w, l[q])

BlobInv(w) == BlobStore(w) /\ BlobCall(l[w]) /\ Tuples(w)

LEMMA PutSame ==
  ASSUME arch' = arch
  PROVE  AllPut' = AllPut /\ UsedIds' = UsedIds
  BY DEF AllPut, UsedIds

\* The parts of a call that the blobs do not depend on.
EasyPCs == ReaderPCs \cup {"del_ck", "drop_writes", "drop_rows", "drop_latest", "drop_fix", "dropped"}

LEMMA Easy ==
  ASSUME NEW w \in Proc, l'[w].pc \in EasyPCs
  PROVE  BlobCall(l[w])'
<1>1. /\ l'[w].pc \notin PutPCs /\ l'[w].pc \notin TrimPCs \cup {"drop_refs"}
      /\ l'[w].pc \notin RunPCs /\ l'[w].pc \notin {"drop_refs", "drop_blob_keys", "drop_blobs"}
      /\ l'[w].pc \notin DelPCs \ {"del_ck"} /\ l'[w].pc \notin CopyPCs
  BY DEF EasyPCs, ReaderPCs, ReadPCs, WritePCs, PutPCs, TrimPCs, RunPCs, DelPCs, CopyPCs
<1>2. BlobPut(l[w])'
  BY <1>1 DEF BlobPut, PutPCs
<1>3. TidyTrim(l[w])'
  BY <1>1, NotTrim
<1>4. BlobDrop(l[w])'
  BY <1>1, <1>3 DEF BlobDrop, RunPCs
<1>. QED  BY <1>2, <1>4 DEF BlobCall

LosePCs == {"drop_writes", "drop_rows", "copy_wr", "copy_bl"}

\* A step that leaves checkpoints and blobs alone.
LEMMA BlobsKept ==
  ASSUME NEW w \in Proc, BlobStore(w), ck' = ck, bl' = bl, arch' = arch, backup' = backup,
         \/ l[w].pc \notin LosePCs
         \/ \A t \in Thread : \A i \in DOMAIN ck[t] : /\ Dooming(l[w], t, i) => Dooming(l[w], t, i)'
                                                      /\ Copying(l[w], t, i) => Copying(l[w], t, i)'
  PROVE  BlobStore(w)'
<1>1. AllPut' = AllPut /\ UsedIds' = UsedIds
  BY PutSame
<1>2. OneValue(AllPut, UsedIds)' /\ Right(bl, AllPut, UsedIds)' /\ BlobBackup(w)'
  BY <1>1 DEF BlobStore, OneValue, Right, BlobBackup
<1>3. \A t \in Thread : \A i \in DOMAIN ck[t] : /\ Dooming(l[w], t, i) => Dooming(l[w], t, i)'
                                                /\ Copying(l[w], t, i) => Copying(l[w], t, i)'
  <2>1. CASE l[w].pc \notin LosePCs
    BY <2>1 DEF LosePCs, Dooming, Copying
  <2>. QED  BY <2>1
<1>4. Whole(l[w])'
  <2>1. ASSUME NEW t \in Thread, NEW i \in DOMAIN ck'[t]
        PROVE  RefsOf(ck'[t][i]) \subseteq DOMAIN bl'[t] \/ Dooming(l[w], t, i)' \/ Copying(l[w], t, i)'
    <3>1. RefsOf(ck[t][i]) \subseteq DOMAIN bl[t] \/ Dooming(l[w], t, i) \/ Copying(l[w], t, i)
      BY DEF BlobStore, Whole
    <3>2. RefsOf(ck'[t][i]) = RefsOf(ck[t][i])
      BY DEF RefsOf
    <3>. QED  BY <1>3, <3>1, <3>2
  <2>. QED  BY <2>1 DEF Whole, RefsOf
<1>. QED  BY <1>2, <1>4 DEF BlobStore

LEMMA WriteStarts ==
  ASSUME TypeInv, NEW w \in Proc, BlobStore(w), PutHint(w) \/ PutBlobContains(w), BlobPut(l[w]), Incremental
  PROVE  BlobStore(w)' /\ BlobCall(l[w])'
<1>1. PICK t \in Thread : t = l[w].t
  BY PutHintIs, PutBlobContainsIs, PutIs DEF PutPCs
<1>2. /\ l[w].pc \in {"put_hint", "put_blobs"} /\ l'[w].pc = "put_blobs"
      /\ ck' = ck /\ bl' = bl /\ arch' = arch /\ backup' = backup /\ l'[w].t = t /\ l'[w].rec = l[w].rec
  BY <1>1, PutHintIs, PutBlobContainsIs, OnlyIs DEF AfterHint, SamePut, store, hist
<1>3. BlobStore(w)'
  BY <1>2, BlobsKept DEF LosePCs
<1>4. /\ l[w].todo \cup DOMAIN l[w].batch \subseteq RefsOf(l[w].rec)
      /\ RefsOf(l[w].rec) \subseteq l[w].todo \cup DOMAIN l[w].batch \cup DOMAIN bl[t]
      /\ \A x \in DOMAIN l[w].batch : l[w].batch[x] = l[w].rec.vals[x[1]]
  BY <1>1, <1>2 DEF BlobPut
<1>5. /\ l'[w].todo \cup DOMAIN l'[w].batch \subseteq RefsOf(l[w].rec)
      /\ RefsOf(l[w].rec) \subseteq l'[w].todo \cup DOMAIN l'[w].batch \cup DOMAIN bl[t]
      /\ \A x \in DOMAIN l'[w].batch : l'[w].batch[x] = l[w].rec.vals[x[1]]
  <2>1. CASE PutHint(w)
    BY <1>4, <2>1, PutHintIs
  <2>2. CASE PutBlobContains(w)
    <3>1. PICK b \in l[w].todo :
            /\ l'[w].todo = l[w].todo \ {b}
            /\ l'[w].batch = IF b \in DOMAIN bl[t] THEN l[w].batch
                             ELSE Over(Row(b, l[w].rec.vals[b[1]]), l[w].batch)
      BY <1>1, <2>2, PutBlobContainsIs
    <3>2. CASE b \in DOMAIN bl[t]
      BY <1>4, <3>1, <3>2
    <3>3. CASE b \notin DOMAIN bl[t]
      <4>1. /\ DOMAIN l'[w].batch = {b} \cup DOMAIN l[w].batch
            /\ l'[w].batch[b] = l[w].rec.vals[b[1]]
            /\ \A x \in DOMAIN l[w].batch : x # b => l'[w].batch[x] = l[w].batch[x]
        BY <3>1, <3>3 DEF Over, Row
      <4>. QED  BY <1>4, <3>1, <4>1
    <3>. QED  BY <3>2, <3>3
  <2>. QED  BY <2>1, <2>2
<1>6. BlobPut(l[w])'
  BY <1>2, <1>5 DEF BlobPut, RefsOf
<1>7. BlobDrop(l[w])'
  BY <1>2 DEF BlobDrop, TidyTrim, RunPCs, DelPCs, CopyPCs
<1>. QED  BY <1>3, <1>6, <1>7 DEF BlobCall

\* A put takes every channel that it does not set from the checkpoint it continues.
LEMMA Continues ==
  ASSUME TypeInv, Same, Incremental, ~IntVersions, NEW w \in Proc, PutBegins(w), BlobStore(w)
  PROVE  /\ \A c \in Channel :
              \/ l'[w].rec.vers[c] = l'[w].id
              \/ \E s \in AllPut : l'[w].rec.vers[c] = s.vers[c] /\ l'[w].rec.vals[c] = s.vals[c]
         /\ l'[w].todo \subseteq RefsOf(l'[w].rec)
         /\ RefsOf(l'[w].rec) \subseteq l'[w].todo \cup DOMAIN bl[l'[w].t]
<1>1. PICK t \in Thread : t = l'[w].t
  BY PutBeginsIs
<1>2. PICK r \in Record : r = l'[w].rec
  BY PutBeginsIs
<1>3. PICK id \in Id : id = l'[w].id
  BY PutBeginsIs
<1>4. PICK parent \in {None} \cup DOMAIN ck[t], upd \in SUBSET Channel :
        \E snapped \in SUBSET (upd \cap Delta), run \in Run :
          /\ r = Continuation(t, id, parent, upd, snapped, run)
          /\ l'[w].todo = {<<c, r.vers[c]>> : c \in upd}
          /\ parent < id /\ parent = None => upd = Channel
  BY <1>1, <1>2, <1>3, PutBeginsIs
<1>5. PICK snapped \in SUBSET (upd \cap Delta), run \in Run : r = Continuation(t, id, parent, upd, snapped, run)
  BY <1>4
<1>6. l'[w].todo = {<<c, r.vers[c]>> : c \in upd} /\ (parent = None => upd = Channel)
  <2>1. None < id
    BY DEF None, Id
  <2>. QED  BY <1>4, <2>1
<1>7. \A c \in upd : r.vers[c] = id
  BY <1>5 DEF Continuation, NextVersion
<1>8. ASSUME NEW c \in Channel \ upd
      PROVE  /\ parent \in DOMAIN ck[t] /\ parent \in DOMAIN arch[t]
             /\ r.vers[c] = arch[t][parent].vers[c] /\ r.vals[c] = arch[t][parent].vals[c]
             /\ <<c, r.vers[c]>> \in DOMAIN bl[t] /\ arch[t][parent] \in AllPut
  <2>1. parent # None /\ parent \in DOMAIN ck[t] /\ parent \in DOMAIN arch[t]
    BY <1>6, <1>8, ReadIs, IdIs DEF TypeInv, Known
  <2>2. r.vers[c] = arch[t][parent].vers[c] /\ r.vals[c] = arch[t][parent].vals[c]
    BY <1>5, <1>8, <2>1 DEF Continuation
  <2>3. RefsOf(ck[t][parent]) \subseteq DOMAIN bl[t]
    <3>1. l[w].pc = "idle"
      BY PutBeginsIs DEF Fresh
    <3>. QED  BY <2>1, <3>1 DEF BlobStore, Whole, Dooming, Copying
  <2>4. ck[t][parent].vers[c] = arch[t][parent].vers[c]
    BY <2>1, ReadIs, StoredIs DEF Same
  <2>5. <<c, r.vers[c]>> \in DOMAIN bl[t]
    BY <2>2, <2>3, <2>4 DEF RefsOf
  <2>6. arch[t][parent] \in AllPut
    BY <2>1 DEF AllPut
  <2>. QED  BY <2>1, <2>2, <2>5, <2>6
<1>9. \A c \in Channel : r.vers[c] = id \/ \E s \in AllPut : r.vers[c] = s.vers[c] /\ r.vals[c] = s.vals[c]
  BY <1>7, <1>8
<1>10. {<<c, r.vers[c]>> : c \in upd} \subseteq RefsOf(r)
  BY DEF RefsOf
<1>11. RefsOf(r) \subseteq {<<c, r.vers[c]>> : c \in upd} \cup DOMAIN bl[t]
  BY <1>8 DEF RefsOf
<1>. QED  BY <1>1, <1>2, <1>3, <1>6, <1>9, <1>10, <1>11

LEMMA BlobsPutBegins ==
  ASSUME TypeInv, Same, Incremental, ~IntVersions, NEW w \in Proc, PutBegins(w), BlobStore(w)
  PROVE  BlobStore(w)' /\ BlobCall(l[w])'
<1>1. PICK t \in Thread : t = l'[w].t
  BY PutBeginsIs
<1>2. PICK r : r = l'[w].rec
  OBVIOUS
<1>3. PICK id : id = l'[w].id
  OBVIOUS
<1>4. /\ ck' = ck /\ bl' = bl /\ backup' = backup /\ l[w].pc = "idle" /\ id \notin UsedIds
      /\ l'[w].pc \in {"put_hint", "put_blobs"} /\ l'[w].batch = Empty
      /\ arch'[t] = Over(Row(id, r), arch[t]) /\ \A u \in Thread : u # t => arch'[u] = arch[u]
  BY <1>1, <1>2, <1>3, PutBeginsIs DEF Fresh, store, AfterHint
<1>5. DOMAIN arch'[t] = {id} \cup DOMAIN arch[t] /\ arch'[t][id] = r
  BY <1>4 DEF Over, Row
<1>6. \A i \in DOMAIN arch[t] : arch'[t][i] = IF i = id THEN r ELSE arch[t][i]
  BY <1>4 DEF Over, Row
<1>7. AllPut' \subseteq AllPut \cup {r}
  <2>1. ASSUME NEW u \in Thread, NEW i \in DOMAIN arch'[u]
        PROVE  arch'[u][i] = r \/ (i \in DOMAIN arch[u] /\ arch'[u][i] = arch[u][i])
    BY <1>4, <1>5, <1>6
  <2>. QED  BY <2>1 DEF AllPut
<1>8. UsedIds \cup {id} \subseteq UsedIds'
  <2>1. \A u \in Thread : DOMAIN arch[u] \subseteq DOMAIN arch'[u]
    BY <1>4, <1>5
  <2>. QED  BY <1>5, <2>1 DEF UsedIds
<1>9. /\ \A c \in Channel : r.vers[c] = id \/ \E s \in AllPut : r.vers[c] = s.vers[c] /\ r.vals[c] = s.vals[c]
      /\ l'[w].todo \subseteq RefsOf(r) /\ RefsOf(r) \subseteq l'[w].todo \cup DOMAIN bl[t]
  BY <1>1, <1>2, <1>3, Continues
<1>10. OneValue(AllPut, UsedIds)'
  <2>1. OneValue(AllPut \cup {r}, UsedIds \cup {id})
    BY <1>4, <1>9, MoreValues DEF BlobStore
  <2>2. OneValue(AllPut', UsedIds')
    BY <1>7, <1>8, <2>1, FewerRight
  <2>. QED  BY <2>2 DEF OneValue
<1>11. ASSUME NEW b, Right(b, AllPut, UsedIds), \A u \in Thread : DOMAIN b[u] \subseteq Channel \X Id
       PROVE  Right(b, AllPut', UsedIds')
  <2>1. Right(b, AllPut \cup {r}, UsedIds \cup {id})
    BY <1>4, <1>9, <1>11, MoreRight
  <2>. QED  BY <1>7, <1>8, <2>1, FewerRight
<1>12. Right(bl, AllPut, UsedIds)'
  <2>1. \A u \in Thread : DOMAIN bl[u] \subseteq Channel \X Id
    BY ReadIs
  <2>2. Right(bl, AllPut', UsedIds')
    BY <1>11, <2>1 DEF BlobStore
  <2>. QED  BY <1>4, <2>2 DEF Right
<1>13. BlobBackup(w)'
  <2>1. SUFFICES ASSUME backup # <<>>, "restore" \in Ops[w]
                 PROVE  /\ Right(backup[3], AllPut', UsedIds')
                        /\ \A u \in Thread : \A i \in DOMAIN backup[1][u] :
                             RefsOf(backup[1][u][i]) \subseteq DOMAIN backup[3][u]
    BY <1>4 DEF BlobBackup, Right, RefsOf
  <2>2. backup[3] \in BlT
    BY <2>1 DEF TypeInv, Backups
  <2>3. \A u \in Thread : DOMAIN backup[3][u] \subseteq Channel \X Id
    BY <2>2, PartElim DEF BlT
  <2>. QED  BY <1>11, <2>1, <2>3 DEF BlobStore, BlobBackup
<1>14. Whole(l[w])'
  <2>1. \A u \in Thread : \A i \in DOMAIN ck[u] : RefsOf(ck[u][i]) \subseteq DOMAIN bl[u]
    BY <1>4 DEF BlobStore, Whole, Dooming, Copying
  <2>. QED  BY <1>4, <2>1 DEF Whole, RefsOf
<1>15. BlobPut(l[w])'
  <2>1. DOMAIN l'[w].batch = {}
    BY <1>4 DEF Empty
  <2>. QED  BY <1>1, <1>2, <1>4, <1>9, <2>1 DEF BlobPut, RefsOf
<1>16. BlobDrop(l[w])'
  BY <1>4 DEF BlobDrop, TidyTrim, RunPCs, DelPCs, CopyPCs
<1>. QED  BY <1>10, <1>12, <1>13, <1>14, <1>15, <1>16 DEF BlobStore, BlobCall

LEMMA BlobsPutBlobs ==
  ASSUME TypeInv, Same, NEW w \in Proc, PutBlobs(w), BlobStore(w), BlobPut(l[w])
  PROVE  BlobStore(w)' /\ BlobCall(l[w])'
<1>1. PICK t \in Thread : t = l[w].t
  BY PutBlobsIs
<1>2. PICK r : r = l[w].rec
  OBVIOUS
<1>3. /\ l[w].pc = "put_blobs" /\ l[w].todo = {} /\ bl' = SetRows(bl, t, l[w].batch) /\ ck' = ck
      /\ arch' = arch /\ backup' = backup /\ l'[w].pc = "put_rows" /\ l'[w].t = t /\ l'[w].rec = r
  BY <1>1, <1>2, PutBlobsIs DEF hist
<1>4. /\ DOMAIN l[w].batch \subseteq RefsOf(r) /\ RefsOf(r) \subseteq DOMAIN l[w].batch \cup DOMAIN bl[t]
      /\ \A x \in DOMAIN l[w].batch : l[w].batch[x] = r.vals[x[1]]
  BY <1>1, <1>2, <1>3 DEF BlobPut
<1>5. bl \in [Thread -> Part(Channel \X Id, IdOrNo)]
  BY DEF TypeInv, Stores, BlT
<1>6. bl'[t] = Over(l[w].batch, bl[t]) /\ \A u \in Thread : u # t => bl'[u] = bl[u]
  BY <1>3, <1>5 DEF SetRows
<1>7. /\ DOMAIN bl'[t] = DOMAIN l[w].batch \cup DOMAIN bl[t]
      /\ \A x \in DOMAIN bl'[t] : bl'[t][x] = IF x \in DOMAIN l[w].batch THEN l[w].batch[x] ELSE bl[t][x]
  BY <1>6 DEF Over
<1>8. AllPut' = AllPut /\ UsedIds' = UsedIds
  BY <1>3, PutSame
<1>9. r \in AllPut
  BY <1>1, <1>2, <1>3, PutIs DEF Same, AllPut, PutPCs
<1>10. ASSUME NEW x \in DOMAIN l[w].batch
       PROVE  x[2] \in UsedIds /\ \A s \in AllPut : s.vers[x[1]] = x[2] => l[w].batch[x] = s.vals[x[1]]
  <2>1. PICK c \in Channel : x = <<c, r.vers[c]>>
    BY <1>4 DEF RefsOf
  <2>2. x[1] = c /\ x[2] = r.vers[c] /\ l[w].batch[x] = r.vals[c]
    BY <1>4, <2>1
  <2>3. r.vers[c] \in UsedIds /\ \A s \in AllPut : r.vers[c] = s.vers[c] => r.vals[c] = s.vals[c]
    BY <1>9 DEF BlobStore, OneValue
  <2>. QED  BY <2>2, <2>3
<1>11. Right(bl', AllPut, UsedIds)
  <2>1. ASSUME NEW u \in Thread, NEW x \in DOMAIN bl'[u]
        PROVE  x[2] \in UsedIds /\ \A s \in AllPut : s.vers[x[1]] = x[2] => bl'[u][x] = s.vals[x[1]]
    <3>1. CASE u = t /\ x \in DOMAIN l[w].batch
      BY <1>7, <1>10, <3>1
    <3>2. CASE ~ (u = t /\ x \in DOMAIN l[w].batch)
      <4>1. x \in DOMAIN bl[u] /\ bl'[u][x] = bl[u][x]
        BY <1>6, <1>7, <3>2
      <4>. QED  BY <4>1 DEF BlobStore, Right
    <3>. QED  BY <3>1, <3>2
  <2>. QED  BY <2>1 DEF Right
<1>12. Whole(l[w])'
  <2>1. \A u \in Thread : \A i \in DOMAIN ck[u] : RefsOf(ck[u][i]) \subseteq DOMAIN bl[u]
    BY <1>3 DEF BlobStore, Whole, Dooming, Copying
  <2>2. \A u \in Thread : DOMAIN bl[u] \subseteq DOMAIN bl'[u]
    BY <1>6, <1>7
  <2>. QED  BY <1>3, <2>1, <2>2 DEF Whole, RefsOf
<1>13. OneValue(AllPut, UsedIds)' /\ Right(bl, AllPut, UsedIds)' /\ BlobBackup(w)'
  BY <1>3, <1>8, <1>11 DEF BlobStore, OneValue, Right, BlobBackup
<1>14. BlobPut(l[w])'
  BY <1>3, <1>4, <1>7 DEF BlobPut, RefsOf
<1>15. BlobDrop(l[w])'
  BY <1>3 DEF BlobDrop, TidyTrim, RunPCs, DelPCs, CopyPCs
<1>. QED  BY <1>12, <1>13, <1>14, <1>15 DEF BlobStore, BlobCall

LEMMA BlobsPutRows ==
  ASSUME TypeInv, NEW w \in Proc, PutRows(w) \/ PutRest(w), BlobStore(w), BlobPut(l[w])
  PROVE  BlobStore(w)' /\ BlobCall(l[w])'
<1>1. l[w].pc \in {"put_rows", "put_rest"}
  BY PutRowsIs, PutRestIs
<1>2. PICK t \in Thread : t = l[w].t
  BY <1>1, PutIs DEF PutPCs
<1>3. RefsOf(l[w].rec) \subseteq DOMAIN bl[t] /\ l[w].rec \in Record
  BY <1>1, <1>2, PutIs DEF BlobPut, PutPCs
<1>4. bl' = bl /\ arch' = arch /\ backup' = backup /\ (ck' = ck \/ PutCk(w))
  BY PutRowsIs, PutRestIs
<1>5. \/ l'[w].pc = "put_rest" /\ l'[w].t = t /\ l'[w].rec = l[w].rec
      \/ l'[w].pc \in {"prune_keys", "idle"} /\ l'[w].needed = {}
  BY <1>2, PutRowsIs, PutRestIs DEF SamePut, Ended
<1>6. BlobStore(w)'
  <2>1. CASE ck' = ck
    BY <1>1, <1>4, <2>1, BlobsKept DEF LosePCs
  <2>2. CASE PutCk(w)
    <3>1. /\ DOMAIN ck'[t] = DOMAIN ck[t] \cup {l[w].id} /\ ck'[t][l[w].id] = Stored(l[w].rec)
          /\ \A i \in DOMAIN ck[t] : i # l[w].id => ck'[t][i] = ck[t][i]
          /\ \A u \in Thread : u # t => ck'[u] = ck[u]
      BY <1>1, <1>2, <2>2, PutCkIs DEF PutPCs
    <3>2. RefsOf(Stored(l[w].rec)) = RefsOf(l[w].rec)
      BY <1>3, StoredIs DEF RefsOf
    <3>3. \A u \in Thread : \A i \in DOMAIN ck[u] : RefsOf(ck[u][i]) \subseteq DOMAIN bl[u]
      BY <1>1 DEF BlobStore, Whole, Dooming, Copying
    <3>4. \A u \in Thread : \A i \in DOMAIN ck'[u] : RefsOf(ck'[u][i]) \subseteq DOMAIN bl[u]
      BY <1>3, <3>1, <3>2, <3>3
    <3>5. Whole(l[w])'
      BY <1>4, <3>4 DEF Whole, RefsOf
    <3>6. AllPut' = AllPut /\ UsedIds' = UsedIds
      BY <1>4, PutSame
    <3>7. OneValue(AllPut, UsedIds)' /\ Right(bl, AllPut, UsedIds)' /\ BlobBackup(w)'
      BY <1>4, <3>6 DEF BlobStore, OneValue, Right, BlobBackup
    <3>. QED  BY <3>5, <3>7 DEF BlobStore
  <2>. QED  BY <1>4, <2>1, <2>2
<1>7. BlobCall(l[w])'
  <2>1. BlobPut(l[w])'
    BY <1>3, <1>4, <1>5 DEF BlobPut, RefsOf
  <2>2. BlobDrop(l[w])'
    BY <1>5 DEF BlobDrop, TidyTrim, RunPCs, DelPCs, CopyPCs
  <2>. QED  BY <2>1, <2>2 DEF BlobCall
<1>. QED  BY <1>6, <1>7

LEMMA BlobsTrim ==
  ASSUME NEW w \in Proc, l'[w].pc \in TrimPCs, TidyTrim(l[w])'
  PROVE  BlobCall(l[w])'
<1>1. /\ l'[w].pc \notin PutPCs /\ l'[w].pc \notin RunPCs /\ l'[w].pc \notin DelPCs
      /\ l'[w].pc \notin CopyPCs /\ l'[w].pc \notin {"drop_refs", "drop_blob_keys", "drop_blobs"}
  BY DEF TrimPCs, PutPCs, RunPCs, DelPCs, CopyPCs
<1>2. BlobPut(l[w])'
  BY <1>1 DEF BlobPut, PutPCs
<1>3. BlobDrop(l[w])'
  BY <1>1 DEF BlobDrop, RunPCs
<1>. QED  BY <1>2, <1>3 DEF BlobCall

LEMMA BlobsDropStart ==
  ASSUME TypeInv, Incremental, NEW w \in Proc, NEW t \in Thread, ck' = ck, l'[w].pc = DropStart, l'[w].t = t,
         l'[w].kept \cup l'[w].doomed = DOMAIN ck[t],
         \A i \in DOMAIN l'[w].recs : l'[w].recs[i] = Get(ck[t], i)
  PROVE  BlobCall(l[w])'
<1>1. l'[w].pc = "drop_refs"
  BY DEF DropStart
<1>2. BlobPut(l[w])'
  BY <1>1 DEF BlobPut
<1>3. TidyTrim(l[w])'
  BY <1>1 DEF TidyTrim
<1>4. BlobDrop(l[w])'
  BY <1>1, <1>3 DEF BlobDrop, RunPCs, DelPCs, CopyPCs
<1>. QED  BY <1>2, <1>4 DEF BlobCall

LEMMA BlobsTrimEnd ==
  ASSUME TypeInv, Incremental, NEW w \in Proc, BlobDrop(l[w]), TrimEnd(w)
  PROVE  BlobCall(l[w])' /\ Only_l /\ l[w].pc \notin LosePCs
<1>1. PICK t \in Thread : t = l[w].t
  BY TrimEndIs
<1>2. /\ l[w].pc = "trim_next" /\ Only_l /\ l'[w].t = t /\ l'[w].recs = l[w].recs
      /\ l'[w].pc = (IF l'[w].doomed = {} THEN "dropped" ELSE DropStart)
      /\ l'[w].kept = (l[w].kept \cup l[w].needed)
      /\ l'[w].doomed = l[w].ids \ (l[w].kept \cup l[w].needed)
  BY <1>1, TrimEndIs
<1>3. /\ l[w].ids = DOMAIN ck[t] /\ l[w].kept \subseteq l[w].ids /\ l[w].needed \subseteq l[w].ids
      /\ \A i \in DOMAIN l[w].recs : l[w].recs[i] = Get(ck[t], i)
  BY <1>1, <1>2 DEF BlobDrop, TidyTrim
<1>4. CASE l'[w].doomed = {}
  BY <1>2, <1>4, Easy DEF EasyPCs, LosePCs
<1>5. CASE l'[w].doomed # {}
  <2>1. l'[w].kept \cup l'[w].doomed = DOMAIN ck[t]
    BY <1>2, <1>3
  <2>2. \A i \in DOMAIN l'[w].recs : l'[w].recs[i] = Get(ck[t], i)
    BY <1>2, <1>3
  <2>. QED  BY <1>2, <1>5, <2>1, <2>2, OnlyIs, BlobsDropStart DEF LosePCs
<1>. QED  BY <1>4, <1>5

LEMMA BlobsDropRefs ==
  ASSUME TypeInv, NEW w \in Proc, BlobDrop(l[w]), DropRefs(w) \/ DropBlobKeys(w)
  PROVE  BlobCall(l[w])' /\ Only_l /\ l[w].pc \notin LosePCs
<1>1. PICK t \in Thread : t = l[w].t
  BY DropRefsIs, DropBlobKeysIs
<1>2. /\ l[w].pc \in {"drop_refs", "drop_blob_keys"} /\ Only_l
      /\ l'[w].pc \in {"drop_blob_keys", "drop_blobs"}
      /\ l'[w].t = t /\ l'[w].kept = l[w].kept /\ l'[w].doomed = l[w].doomed
  BY <1>1, DropRefsIs, DropBlobKeysIs
<1>3. l[w].kept \cup l[w].doomed = DOMAIN ck[t] /\ ck' = ck
  BY <1>1, <1>2, OnlyIs DEF BlobDrop
<1>4. CASE DropRefs(w)
  <2>1. /\ l[w].pc = "drop_refs" /\ l'[w].pc = "drop_blob_keys"
        /\ l'[w].keys = References(l[w].kept, Over(l[w].recs, [i \in l[w].kept |-> Get(ck[t], i)]))
    BY <1>1, <1>4, DropRefsIs
  <2>2. \A i \in DOMAIN l[w].recs : l[w].recs[i] = Get(ck[t], i)
    BY <1>1, <2>1 DEF BlobDrop, TidyTrim
  <2>3. l'[w].keys = References(l[w].kept, ck[t])
    BY <1>3, <2>1, <2>2, RefsRead
  <2>4. BlobPut(l[w])' /\ TidyTrim(l[w])'
    BY <2>1 DEF BlobPut, TidyTrim
  <2>5. BlobDrop(l[w])'
    BY <1>2, <1>3, <2>1, <2>3, <2>4 DEF BlobDrop, RunPCs, DelPCs, CopyPCs
  <2>. QED  BY <1>2, <2>4, <2>5 DEF BlobCall, LosePCs
<1>5. CASE DropBlobKeys(w)
  <2>1. l[w].pc = "drop_blob_keys" /\ l'[w].pc = "drop_blobs" /\ l'[w].keys = DOMAIN bl[t] \ l[w].keys
    BY <1>1, <1>5, DropBlobKeysIs
  <2>2. l[w].keys = References(l[w].kept, ck[t])
    BY <1>1, <2>1 DEF BlobDrop
  <2>3. l'[w].keys \cap References(l'[w].kept, ck'[t]) = {}
    BY <1>2, <1>3, <2>1, <2>2
  <2>4. BlobPut(l[w])' /\ TidyTrim(l[w])'
    BY <2>1 DEF BlobPut, TidyTrim
  <2>5. BlobDrop(l[w])'
    BY <1>2, <1>3, <2>1, <2>3, <2>4 DEF BlobDrop, RunPCs, DelPCs, CopyPCs
  <2>. QED  BY <1>2, <2>4, <2>5 DEF BlobCall, LosePCs
<1>. QED  BY <1>4, <1>5

LEMMA BlobsRuns ==
  ASSUME TypeInv, Incremental, NEW w \in Proc, BlobDrop(l[w]), RunsKeys(w) \/ RunsRead(w)
  PROVE  BlobCall(l[w])' /\ Only_l /\ l[w].pc \notin LosePCs
<1>1. ASSUME l'[w].pc \in RunPCs, l'[w].recs = Empty, l'[w].pc = "runs_read" => l'[w].ids = DOMAIN ck'[l'[w].t]
      PROVE  BlobCall(l[w])'
  <2>1. BlobPut(l[w])' /\ TidyTrim(l[w])'
    BY <1>1 DEF BlobPut, TidyTrim, RunPCs
  <2>2. BlobDrop(l[w])'
    BY <1>1, <2>1 DEF BlobDrop, RunPCs, DelPCs, CopyPCs
  <2>. QED  BY <2>1, <2>2 DEF BlobCall
<1>2. Only_l /\ l[w].pc \in RunPCs /\ l[w].recs = Empty /\ ck' = ck
  BY RunsKeysIs, RunsReadIs, RunsReadNone, OnlyIs DEF BlobDrop, RunPCs
<1>3. CASE RunsKeys(w)
  <2>1. CASE l'[w].pc = "idle"
    BY <1>2, <2>1, Easy DEF EasyPCs, ReaderPCs, ReadPCs, LosePCs, RunPCs
  <2>2. CASE l'[w].pc = "runs_read" /\ l'[w].ids = DOMAIN ck[l'[w].t] /\ l'[w].recs = l[w].recs
    BY <1>1, <1>2, <2>2 DEF LosePCs, RunPCs
  <2>. QED  BY <1>3, <2>1, <2>2, RunsKeysIs
<1>4. CASE RunsRead(w)
  <2>1. PICK t \in Thread : t = l[w].t
    BY <1>4, RunsReadIs, RunsReadNone
  <2>2. PICK doomed : doomed = {i \in l[w].ids \cap DOMAIN ck[t] : ck[t][i].run \in l[w].runs}
    OBVIOUS
  <2>3. l[w].pc = "runs_read" /\ l[w].ids = DOMAIN ck[t]
    BY <1>4, <2>1, RunsReadIs, RunsReadNone DEF BlobDrop
  <2>4. CASE doomed = {}
    <3>1. l'[w].pc = "runs_next" /\ l'[w].recs = l[w].recs
      BY <1>4, <2>1, <2>2, <2>4, RunsReadNone
    <3>. QED  BY <1>1, <1>2, <2>3, <3>1 DEF RunPCs, LosePCs
  <2>5. CASE doomed # {}
    <3>1. /\ l'[w].pc = DropStart /\ l'[w].doomed = doomed
          /\ l'[w].kept = l[w].ids \ doomed /\ l'[w].t = t /\ l'[w].recs = l[w].recs
      BY <1>4, <2>1, <2>2, <2>5, RunsReadIs
    <3>2. l'[w].kept \cup l'[w].doomed = DOMAIN ck[t]
      BY <2>2, <2>3, <3>1
    <3>3. \A i \in DOMAIN l'[w].recs : l'[w].recs[i] = Get(ck[t], i)
      BY <1>2, <3>1 DEF Empty
    <3>. QED  BY <1>2, <2>3, <3>1, <3>2, <3>3, BlobsDropStart DEF LosePCs
  <2>. QED  BY <2>4, <2>5
<1>. QED  BY <1>3, <1>4

LEMMA BlobsSurveys ==
  ASSUME TypeInv, Incremental, NEW w \in Proc, BlobStore(w), BlobCall(l[w]), Surveys(w)
  PROVE  BlobStore(w)' /\ BlobCall(l[w])'
<1>1. BlobDrop(l[w]) /\ TidyTrim(l[w])
  BY DEF BlobCall, BlobDrop
<1>2. ASSUME Only_l, l[w].pc \notin LosePCs
      PROVE  BlobStore(w)'
  BY <1>2, OnlyIs, BlobsKept
<1>3. CASE PruneKeys(w) \/ TrimIds(w)
  <2>1. l[w].pc \notin LosePCs /\ Only_l
    BY <1>1, <1>3, TrimLists DEF TrimPCs, LosePCs
  <2>2. CASE Step(w, Locals0)
    BY <1>2, <2>1, <2>2, ReturnIs, Easy DEF EasyPCs, ReaderPCs, ReadPCs
  <2>3. CASE TidyTrim(l[w])' /\ l'[w].pc = "trim_read"
    BY <1>2, <2>1, <2>3, BlobsTrim DEF TrimPCs
  <2>. QED  BY <1>1, <1>3, <2>2, <2>3, TrimLists
<1>4. CASE TrimRead(w) \/ TrimNext(w) \/ WalkRow(w) \/ WalkVals(w)
  <2>1. l[w].pc \in TrimPCs /\ Only_l /\ TidyTrim(l[w])' /\ l'[w].pc \in TrimPCs
    BY <1>1, <1>4, TrimReads, TrimWalks
  <2>. QED  BY <1>2, <2>1, BlobsTrim DEF TrimPCs, LosePCs
<1>5. CASE TrimEnd(w) \/ DropRefs(w) \/ DropBlobKeys(w) \/ RunsKeys(w) \/ RunsRead(w)
  BY <1>1, <1>2, <1>5, BlobsTrimEnd, BlobsDropRefs, BlobsRuns
<1>6. CASE DropLatest(w)
  <2>1. l[w].pc = "drop_latest" /\ Only_l /\ l'[w].pc \in {"drop_fix", "dropped"}
    BY <1>6, DropLatestIs
  <2>. QED  BY <1>2, <2>1, Easy DEF EasyPCs, LosePCs
<1>7. CASE DeleteListWrites(w)
  <2>1. /\ l[w].pc = "del_wr_list" /\ l'[w].pc \in {"del_bl", "del_wr"} /\ Only_l /\ l'[w].t = l[w].t /\ ck' = ck
    BY <1>7, DeleteListWritesIs, OnlyIs
  <2>2. DOMAIN ck[l[w].t] = {}
    BY <1>1, <2>1 DEF BlobDrop, DelPCs
  <2>3. BlobPut(l[w])' /\ TidyTrim(l[w])'
    BY <2>1 DEF BlobPut, TidyTrim
  <2>4. BlobDrop(l[w])'
    BY <2>1, <2>2, <2>3 DEF BlobDrop, RunPCs, DelPCs, CopyPCs
  <2>. QED  BY <1>2, <2>1, <2>3, <2>4 DEF BlobCall, LosePCs
<1>. QED  BY <1>3, <1>4, <1>5, <1>6, <1>7 DEF Surveys

\* A step that deletes checkpoints or blobs.
LEMMA BlobsLess ==
  ASSUME NEW w \in Proc, BlobStore(w), arch' = arch, backup' = backup, Shrinks,
         \A u \in Thread : DOMAIN bl'[u] \subseteq DOMAIN bl[u] /\ \A x \in DOMAIN bl'[u] : bl'[u][x] = bl[u][x],
         \A u \in Thread : \A i \in DOMAIN ck'[u] :
           RefsOf(ck[u][i]) \subseteq DOMAIN bl'[u] \/ Dooming(l[w], u, i)'
  PROVE  BlobStore(w)'
<1>1. AllPut' = AllPut /\ UsedIds' = UsedIds
  BY PutSame
<1>2. OneValue(AllPut, UsedIds)' /\ BlobBackup(w)'
  BY <1>1 DEF BlobStore, OneValue, Right, BlobBackup
<1>3. Right(bl, AllPut, UsedIds)'
  BY <1>1 DEF BlobStore, Right
<1>4. \A u \in Thread : \A i \in DOMAIN ck'[u] : RefsOf(ck'[u][i]) = RefsOf(ck[u][i])
  BY DEF Shrinks, RefsOf
<1>5. Whole(l[w])'
  BY <1>4 DEF Whole, RefsOf
<1>. QED  BY <1>2, <1>3, <1>5 DEF BlobStore

LEMMA BlobsDropBlobs ==
  ASSUME TypeInv, NEW w \in Proc, BlobStore(w), BlobCall(l[w]), DropBlobs(w)
  PROVE  BlobStore(w)' /\ BlobCall(l[w])'
<1>1. PICK t \in Thread : t = l[w].t
  BY DropBlobsIs
<1>2. /\ l[w].pc = "drop_blobs" /\ bl' = DropRows(bl, t, l[w].keys) /\ ck' = ck
      /\ arch' = arch /\ backup' = backup /\ l'[w].pc = "drop_writes" /\ l'[w].t = t
      /\ l'[w].doomed = l[w].doomed
  BY <1>1, DropBlobsIs DEF hist
<1>3. l[w].kept \cup l[w].doomed = DOMAIN ck[t] /\ l[w].keys \cap References(l[w].kept, ck[t]) = {}
  BY <1>1, <1>2 DEF BlobCall, BlobDrop
<1>4. bl \in [Thread -> Part(Channel \X Id, IdOrNo)]
  BY DEF TypeInv, Stores, BlT
<1>5. /\ DOMAIN bl'[t] = DOMAIN bl[t] \ l[w].keys /\ \A x \in DOMAIN bl'[t] : bl'[t][x] = bl[t][x]
      /\ \A u \in Thread : u # t => bl'[u] = bl[u]
  BY <1>2, <1>4 DEF DropRows, Drop
<1>6. \A u \in Thread : \A i \in DOMAIN ck[u] : RefsOf(ck[u][i]) \subseteq DOMAIN bl[u]
  BY <1>2 DEF BlobStore, Whole, Dooming, Copying
<1>7. ASSUME NEW u \in Thread, NEW i \in DOMAIN ck'[u]
      PROVE  RefsOf(ck[u][i]) \subseteq DOMAIN bl'[u] \/ Dooming(l[w], u, i)'
  <2>1. RefsOf(ck[u][i]) \subseteq DOMAIN bl[u]
    BY <1>2, <1>6
  <2>2. CASE u # t
    BY <1>5, <2>1, <2>2
  <2>3. CASE u = t /\ i \in l[w].doomed
    BY <1>2, <2>3 DEF Dooming
  <2>4. CASE u = t /\ i \notin l[w].doomed
    <3>1. i \in l[w].kept
      BY <1>2, <1>3, <2>4
    <3>2. RefsOf(ck[t][i]) \cap l[w].keys = {}
      BY <1>3, <3>1, RefsIn
    <3>. QED  BY <1>5, <2>1, <2>4, <3>2
  <2>. QED  BY <2>2, <2>3, <2>4
<1>8. BlobStore(w)'
  BY <1>2, <1>5, <1>7, BlobsLess, StillShrinks
<1>9. BlobCall(l[w])'
  BY <1>2, Easy DEF EasyPCs
<1>. QED  BY <1>8, <1>9

LEMMA BlobsDropCheckpoints ==
  ASSUME TypeInv, NEW w \in Proc, BlobStore(w), DropCheckpoints(w)
  PROVE  BlobStore(w)' /\ BlobCall(l[w])'
<1>1. PICK t \in Thread : t = l[w].t
  BY DropCheckpointsIs
<1>2. /\ l[w].pc = "drop_rows" /\ ck' = DropRows(ck, t, l[w].doomed) /\ bl' = bl
      /\ arch' = arch /\ backup' = backup /\ l'[w].pc \in {"dropped", "drop_latest"}
  BY <1>1, DropCheckpointsIs DEF hist
<1>3. ck \in [Thread -> Part(Id, Record)]
  BY DEF TypeInv, Stores, CkT
<1>4. /\ DOMAIN ck'[t] = DOMAIN ck[t] \ l[w].doomed /\ \A i \in DOMAIN ck'[t] : ck'[t][i] = ck[t][i]
      /\ \A u \in Thread : u # t => ck'[u] = ck[u]
  BY <1>2, <1>3 DEF DropRows, Drop
<1>5. Shrinks
  BY <1>4 DEF Shrinks
<1>6. \A u \in Thread : \A i \in DOMAIN ck'[u] : RefsOf(ck[u][i]) \subseteq DOMAIN bl[u]
  BY <1>1, <1>2, <1>4 DEF BlobStore, Whole, Dooming, Copying
<1>7. BlobStore(w)'
  BY <1>2, <1>5, <1>6, BlobsLess
<1>8. BlobCall(l[w])'
  BY <1>2, Easy DEF EasyPCs
<1>. QED  BY <1>7, <1>8

LEMMA BlobsDeletes ==
  ASSUME TypeInv, NEW w \in Proc, BlobStore(w), BlobCall(l[w]),
         DeleteCk(w) \/ DeleteWrites(w) \/ DeleteBlobs(w)
  PROVE  BlobStore(w)' /\ BlobCall(l[w])'
<1>1. PICK t \in Thread : t = l[w].t
  BY DeleteCkIs, DeleteWritesIs, DeleteBlobsIs
<1>2. /\ l[w].pc \in {"del_ck", "del_wr", "del_bl"} /\ arch' = arch /\ backup' = backup
      /\ l'[w].pc \in DelPCs \ {"del_ck"} /\ l'[w].t = t
  BY <1>1, DeleteCkIs, DeleteWritesIs, DeleteBlobsIs DEF hist, DelPCs
<1>3. \A u \in Thread : \A i \in DOMAIN ck[u] : RefsOf(ck[u][i]) \subseteq DOMAIN bl[u]
  BY <1>2 DEF BlobStore, Whole, Dooming, Copying
<1>4. /\ DOMAIN ck'[t] = {} /\ \A u \in Thread : u # t => ck'[u] = ck[u] /\ bl'[u] = bl[u]
      /\ bl'[t] = bl[t] \/ DOMAIN bl'[t] = {}
  <2>1. CASE DeleteCk(w)
    <3>1. ck' = [ck EXCEPT ![t] = Empty] /\ bl' = bl
      BY <1>1, <2>1, DeleteCkIs
    <3>2. ck \in [Thread -> Part(Id, Record)]
      BY DEF TypeInv, Stores, CkT
    <3>. QED  BY <3>1, <3>2 DEF Empty
  <2>2. CASE DeleteWrites(w)
    <3>1. ck' = ck /\ bl' = bl /\ l[w].pc = "del_wr"
      BY <2>2, DeleteWritesIs
    <3>. QED  BY <1>1, <3>1 DEF BlobCall, BlobDrop, DelPCs
  <2>3. CASE DeleteBlobs(w)
    <3>1. ck' = ck /\ bl' = [bl EXCEPT ![t] = Empty] /\ l[w].pc = "del_bl"
      BY <1>1, <2>3, DeleteBlobsIs
    <3>2. DOMAIN ck[t] = {}
      BY <1>1, <3>1 DEF BlobCall, BlobDrop, DelPCs
    <3>3. bl \in [Thread -> Part(Channel \X Id, IdOrNo)]
      BY DEF TypeInv, Stores, BlT
    <3>. QED  BY <3>1, <3>2, <3>3 DEF Empty
  <2>. QED  BY <2>1, <2>2, <2>3
<1>5. Shrinks
  BY <1>4 DEF Shrinks
<1>6. \A u \in Thread : DOMAIN bl'[u] \subseteq DOMAIN bl[u] /\ \A x \in DOMAIN bl'[u] : bl'[u][x] = bl[u][x]
  BY <1>4
<1>7. \A u \in Thread : \A i \in DOMAIN ck'[u] : RefsOf(ck[u][i]) \subseteq DOMAIN bl'[u]
  BY <1>3, <1>4
<1>8. BlobStore(w)'
  BY <1>2, <1>5, <1>6, <1>7, BlobsLess
<1>9. BlobPut(l[w])' /\ TidyTrim(l[w])'
  BY <1>2 DEF BlobPut, TidyTrim, DelPCs
<1>10. BlobDrop(l[w])'
  BY <1>2, <1>4, <1>9 DEF BlobDrop, RunPCs, DelPCs, CopyPCs
<1>. QED  BY <1>8, <1>9, <1>10 DEF BlobCall

LEMMA BlobsDropWrites ==
  ASSUME TypeInv, NEW w \in Proc, BlobStore(w), DropWrites(w)
  PROVE  BlobStore(w)' /\ BlobCall(l[w])'
<1>1. /\ l[w].pc = "drop_writes" /\ l'[w].pc \in {"drop_rows", "drop_writes"} /\ l'[w].t = l[w].t
      /\ l'[w].doomed = l[w].doomed /\ ck' = ck /\ bl' = bl /\ arch' = arch /\ backup' = backup
  BY DropWritesIs DEF hist
<1>2. \A t \in Thread : \A i \in DOMAIN ck[t] : /\ Dooming(l[w], t, i) => Dooming(l[w], t, i)'
                                                /\ Copying(l[w], t, i) => Copying(l[w], t, i)'
  BY <1>1 DEF Dooming, Copying
<1>3. BlobStore(w)'
  BY <1>1, <1>2, BlobsKept
<1>4. BlobCall(l[w])'
  BY <1>1, Easy DEF EasyPCs
<1>. QED  BY <1>3, <1>4

\* Steps that do not touch checkpoints or blobs.
LEMMA BlobsQuiet ==
  ASSUME TypeInv, NEW w \in Proc, BlobStore(w),
         \/ WritesBegin(w) \/ CheckWrites(w) \/ FlushWrites(w) \/ Reading(w) \/ GetPublish(w)
         \/ DropFix(w) \/ Dropped(w) \/ DeleteLatest(w) \/ CopyLatest(w)
  PROVE  BlobStore(w)' /\ BlobCall(l[w])'
<1>1. ASSUME ck' = ck, bl' = bl, arch' = arch, backup' = backup, l[w].pc \notin LosePCs, l'[w].pc \in EasyPCs
      PROVE  BlobStore(w)' /\ BlobCall(l[w])'
  BY <1>1, BlobsKept, Easy
<1>2. CASE WritesBegin(w)
  <2>1. Fresh(w) /\ UNCHANGED <<store, backup, arch>> /\ l'[w].pc = "write_check"
    BY <1>2, WritesBeginIs
  <2>. QED  BY <1>1, <2>1 DEF Fresh, store, LosePCs, EasyPCs, ReaderPCs, WritePCs
<1>3. CASE CheckWrites(w)
  <2>1. l[w].pc = "write_check" /\ Only_l /\ l'[w].pc \in WritePCs
    BY <1>3, CheckWritesIs DEF WritePCs
  <2>. QED  BY <1>1, <2>1, OnlyIs DEF LosePCs, EasyPCs, ReaderPCs
<1>4. CASE FlushWrites(w) \/ DeleteLatest(w)
  <2>1. /\ l[w].pc \in {"write_flush", "del_lt"} /\ ck' = ck /\ bl' = bl /\ arch' = arch /\ backup' = backup
        /\ l'[w].pc = "idle"
    BY <1>4, FlushWritesIs, DeleteLatestIs, ReturnIs DEF hist
  <2>. QED  BY <1>1, <2>1 DEF LosePCs, EasyPCs, ReaderPCs, ReadPCs
<1>5. CASE CopyLatest(w)
  <2>1. /\ l[w].pc = "copy_lt" /\ ck' = ck /\ bl' = bl /\ arch' = arch /\ backup' = backup
        /\ l'[w].pc = "idle"
    BY <1>5, CopyLatestIs, ReturnIs
  <2>. QED  BY <1>1, <2>1 DEF LosePCs, EasyPCs, ReaderPCs, ReadPCs
<1>6. CASE Reading(w)
  <2>1. Only_l /\ l[w].pc \in ReadPCs /\ l'[w].pc \in ReaderPCs
    BY <1>6, ReadingIs DEF ReaderPCs
  <2>. QED  BY <1>1, <2>1, OnlyIs DEF LosePCs, EasyPCs, ReadPCs
<1>7. CASE GetPublish(w) \/ DropFix(w)
  <2>1. /\ l[w].pc \in {"get_publish", "drop_fix"} /\ ck' = ck /\ bl' = bl /\ arch' = arch
        /\ backup' = backup /\ l'[w].pc \in {"get_saved", "dropped"}
    BY <1>7, GetPublishIs, DropFixIs DEF hist
  <2>. QED  BY <1>1, <2>1 DEF LosePCs, EasyPCs, ReaderPCs, ReadPCs
<1>8. CASE Dropped(w)
  <2>1. /\ l[w].pc = "dropped" /\ ck' = ck /\ bl' = bl /\ arch' = arch /\ backup' = backup
        /\ l'[w].pc = "idle" \/ (l'[w].pc = "runs_next" /\ l'[w].recs = Empty)
    BY <1>8, DroppedIs DEF store, hist
  <2>2. CASE l'[w].pc = "idle"
    BY <1>1, <2>1, <2>2 DEF LosePCs, EasyPCs, ReaderPCs, ReadPCs
  <2>3. CASE l'[w].pc = "runs_next" /\ l'[w].recs = Empty
    <3>1. BlobPut(l[w])' /\ TidyTrim(l[w])'
      BY <2>3 DEF BlobPut, TidyTrim
    <3>2. BlobDrop(l[w])'
      BY <2>3, <3>1 DEF BlobDrop, RunPCs, DelPCs, CopyPCs
    <3>. QED  BY <2>1, <3>1, <3>2, BlobsKept DEF BlobCall, LosePCs
  <2>. QED  BY <2>1, <2>2, <2>3
<1>. QED  BY <1>2, <1>3, <1>4, <1>5, <1>6, <1>7, <1>8

LEMMA BlobsBegins ==
  ASSUME TypeInv, NEW w \in Proc, BlobStore(w), Begins(w)
  PROVE  BlobStore(w)' /\ BlobCall(l[w])'
<1>1. /\ Fresh(w) /\ UNCHANGED <<store, hints, backup, hist>>
      /\ \/ \E t \in Thread : \E id \in {None} \cup DOMAIN ck[t] : GetTuple(w, t, id)
         \/ l'[w].pc \in {"list_next", "del_ck"} \/ l'[w].pc = "trim_ids" \/ l'[w].pc = "runs_next"
         \/ \E t, u \in Thread : t # u /\ l'[w].pc = "copy_ck" /\ l'[w].t = t /\ l'[w].threads = {u}
  BY BeginsIs
<1>2. l[w].pc = "idle" /\ l'[w].recs = Empty /\ l'[w].needed = {}
  BY <1>1 DEF Fresh
<1>3. BlobStore(w)'
  BY <1>1, <1>2, BlobsKept DEF store, hist, LosePCs
<1>4. CASE \E t \in Thread : \E id \in {None} \cup DOMAIN ck[t] : GetTuple(w, t, id)
  <2>1. PICK t \in Thread : \E id \in {None} \cup DOMAIN ck[t] : GetTuple(w, t, id)
    BY <1>4
  <2>2. PICK id \in {None} \cup DOMAIN ck[t] : GetTuple(w, t, id)
    BY <2>1
  <2>3. id \in IdOrNo
    BY ReadIs, IdIs
  <2>4. l'[w].pc \in {"get_saved", "get_max", "get_lt"}
    BY <2>2, <2>3, GetTupleStarts
  <2>. QED  BY <1>3, <2>4, Easy DEF EasyPCs, ReaderPCs, ReadPCs
<1>5. CASE l'[w].pc \in {"list_next", "del_ck"}
  BY <1>3, <1>5, Easy DEF EasyPCs, ReaderPCs, ReadPCs
<1>6. CASE l'[w].pc = "trim_ids"
  <2>1. TidyTrim(l[w])'
    BY <1>2, <1>6 DEF TidyTrim
  <2>. QED  BY <1>3, <1>6, <2>1, BlobsTrim DEF TrimPCs
<1>7. CASE l'[w].pc = "runs_next"
  <2>1. BlobPut(l[w])' /\ TidyTrim(l[w])'
    BY <1>7 DEF BlobPut, TidyTrim
  <2>2. BlobDrop(l[w])'
    BY <1>2, <1>7, <2>1 DEF BlobDrop, RunPCs, DelPCs, CopyPCs
  <2>. QED  BY <1>3, <2>1, <2>2 DEF BlobCall
<1>8. CASE \E t, u \in Thread : t # u /\ l'[w].pc = "copy_ck" /\ l'[w].t = t /\ l'[w].threads = {u}
  <2>1. BlobPut(l[w])' /\ TidyTrim(l[w])'
    BY <1>8 DEF BlobPut, TidyTrim
  <2>2. BlobDrop(l[w])'
    BY <1>8, <2>1 DEF BlobDrop, RunPCs, DelPCs, CopyPCs
  <2>. QED  BY <1>3, <2>1, <2>2 DEF BlobCall
<1>. QED  BY <1>1, <1>4, <1>5, <1>6, <1>7, <1>8

\* The thread a copy goes to.
LEMMA CopyTo ==
  ASSUME TypeInv, NEW w \in Proc, BlobDrop(l[w]), l[w].pc \in CopyPCs
  PROVE  Target(w) \in Thread /\ l[w].threads = {Target(w)} /\ Target(w) # l[w].t /\ l[w].t \in Thread
  BY TargetIs DEF BlobDrop

LEMMA CopyCalls ==
  ASSUME NEW w \in Proc, NEW u \in Thread, l'[w].pc \in CopyPCs, l'[w].threads = {u}, u # l'[w].t
  PROVE  BlobCall(l[w])'
<1>1. BlobPut(l[w])' /\ TidyTrim(l[w])'
  BY DEF BlobPut, TidyTrim, CopyPCs
<1>2. BlobDrop(l[w])'
  BY <1>1 DEF BlobDrop, RunPCs, DelPCs, CopyPCs
<1>. QED  BY <1>1, <1>2 DEF BlobCall

LEMMA BlobsCopyCk ==
  ASSUME TypeInv, Same, NEW w \in Proc, BlobStore(w), BlobCall(l[w]), CopyCk(w)
  PROVE  BlobStore(w)' /\ BlobCall(l[w])'
<1>1. l[w].pc = "copy_ck"
  BY CopyCkIs
<1>2. PICK t \in Thread : t = l[w].t
  BY CopyCkIs
<1>3. PICK u \in Thread : u = Target(w) /\ l[w].threads = {u} /\ u # t
  BY <1>1, <1>2, CopyTo DEF BlobCall, CopyPCs
<1>4. /\ ck' = CopyRows(ck, t, u) /\ arch' = SetRows(arch, u, Only(arch[t], DOMAIN ck[t])) /\ bl' = bl
      /\ backup' = backup /\ l'[w].pc = "copy_wr" /\ l'[w].t = t /\ l'[w].threads = {u}
  BY <1>2, <1>3, CopyCkIs
<1>5. ck \in [Thread -> Part(Id, Record)] /\ arch \in [Thread -> Part(Id, Record)]
  BY DEF TypeInv, Stores, Archives, CkT
<1>6. /\ ck'[u] = Over(ck[t], ck[u]) /\ \A v \in Thread : v # u => ck'[v] = ck[v]
      /\ arch'[u] = Over(Only(arch[t], DOMAIN ck[t]), arch[u]) /\ \A v \in Thread : v # u => arch'[v] = arch[v]
  BY <1>4, <1>5 DEF CopyRows, SetRows
<1>7. \A i \in DOMAIN ck'[u] : i \notin DOMAIN ck[t] => i \in DOMAIN ck[u] /\ ck'[u][i] = ck[u][i]
  BY <1>6 DEF Over
<1>8. \A i \in DOMAIN arch'[u] : \/ i \in DOMAIN arch[t] /\ arch'[u][i] = arch[t][i]
                                 \/ i \in DOMAIN arch[u] /\ arch'[u][i] = arch[u][i]
  BY <1>6 DEF Over, Only
<1>9. AllPut' \subseteq AllPut
  <2>1. ASSUME NEW v \in Thread, NEW i \in DOMAIN arch'[v]
        PROVE  \E z \in Thread : i \in DOMAIN arch[z] /\ arch'[v][i] = arch[z][i]
    BY <1>6, <1>8
  <2>. QED  BY <2>1 DEF AllPut
<1>10. UsedIds \subseteq UsedIds'
  <2>1. \A v \in Thread : DOMAIN arch[v] \subseteq DOMAIN arch'[v]
    BY <1>6 DEF Over
  <2>. QED  BY <2>1 DEF UsedIds
<1>11. OneValue(AllPut, UsedIds)'
  <2>1. OneValue(AllPut', UsedIds')
    BY <1>9, <1>10, FewerRight DEF BlobStore
  <2>. QED  BY <2>1 DEF OneValue
<1>12. Right(bl, AllPut, UsedIds)'
  <2>1. Right(bl, AllPut', UsedIds')
    BY <1>9, <1>10, FewerRight DEF BlobStore
  <2>. QED  BY <1>4, <2>1 DEF Right
<1>13. BlobBackup(w)'
  <2>1. Right(backup[3], AllPut, UsedIds) => Right(backup[3], AllPut', UsedIds')
    BY <1>9, <1>10, FewerRight
  <2>. QED  BY <1>4, <2>1 DEF BlobStore, BlobBackup, Right, RefsOf
<1>14. Whole(l[w])'
  <2>1. \A v \in Thread : \A i \in DOMAIN ck[v] : RefsOf(ck[v][i]) \subseteq DOMAIN bl[v]
    BY <1>1 DEF BlobStore, Whole, Dooming, Copying
  <2>2. \A i \in DOMAIN ck[t] : Copying(l[w], u, i)'
    BY <1>3, <1>4, <1>6 DEF Copying
  <2>3. \A v \in Thread : \A i \in DOMAIN ck'[v] :
          RefsOf(ck'[v][i]) \subseteq DOMAIN bl[v] \/ Copying(l[w], v, i)'
    BY <1>6, <1>7, <2>1, <2>2
  <2>. QED  BY <1>4, <2>3 DEF Whole, RefsOf
<1>15. BlobCall(l[w])'
  BY <1>3, <1>4, CopyCalls DEF CopyPCs
<1>. QED  BY <1>11, <1>12, <1>13, <1>14, <1>15 DEF BlobStore

LEMMA BlobsCopyWr ==
  ASSUME TypeInv, NEW w \in Proc, BlobStore(w), BlobCall(l[w]), CopyWr(w)
  PROVE  BlobStore(w)' /\ BlobCall(l[w])'
<1>1. /\ l[w].pc = "copy_wr" /\ l'[w].pc = "copy_bl" /\ l'[w].t = l[w].t /\ l'[w].threads = l[w].threads
      /\ ck' = ck /\ bl' = bl /\ arch' = arch /\ backup' = backup
  BY CopyWrIs
<1>2. \A t \in Thread : \A i \in DOMAIN ck[t] : /\ Dooming(l[w], t, i) => Dooming(l[w], t, i)'
                                                /\ Copying(l[w], t, i) => Copying(l[w], t, i)'
  BY <1>1 DEF Dooming, Copying
<1>3. BlobStore(w)'
  BY <1>1, <1>2, BlobsKept
<1>4. BlobCall(l[w])'
  BY <1>1, CopyTo, CopyCalls DEF BlobCall, CopyPCs
<1>. QED  BY <1>3, <1>4

LEMMA BlobsCopyBl ==
  ASSUME TypeInv, Same, NEW w \in Proc, BlobStore(w), BlobCall(l[w]), CopyBl(w)
  PROVE  BlobStore(w)' /\ BlobCall(l[w])'
<1>1. l[w].pc = "copy_bl"
  BY CopyBlIs
<1>2. PICK t \in Thread : t = l[w].t
  BY CopyBlIs
<1>3. PICK u \in Thread : u = Target(w) /\ l[w].threads = {u} /\ u # t
  BY <1>1, <1>2, CopyTo DEF BlobCall, CopyPCs
<1>4. /\ bl' = CopyRows(bl, t, u) /\ ck' = ck /\ arch' = arch
      /\ backup' = backup /\ l'[w].pc = "copy_lt" /\ l'[w].t = t /\ l'[w].threads = {u}
  BY <1>2, <1>3, CopyBlIs DEF hist
<1>5. bl \in [Thread -> Part(Channel \X Id, IdOrNo)]
  BY DEF TypeInv, Stores, BlT
<1>6. bl'[u] = Over(bl[t], bl[u]) /\ \A v \in Thread : v # u => bl'[v] = bl[v]
  BY <1>4, <1>5 DEF CopyRows
<1>7. /\ DOMAIN bl'[u] = DOMAIN bl[t] \cup DOMAIN bl[u]
      /\ \A x \in DOMAIN bl'[u] : bl'[u][x] = IF x \in DOMAIN bl[t] THEN bl[t][x] ELSE bl[u][x]
  BY <1>6 DEF Over
<1>8. AllPut' = AllPut /\ UsedIds' = UsedIds
  BY <1>4, PutSame
<1>9. Right(bl', AllPut, UsedIds)
  BY <1>6, <1>7 DEF BlobStore, Right
<1>10. OneValue(AllPut, UsedIds)' /\ Right(bl, AllPut, UsedIds)' /\ BlobBackup(w)'
  BY <1>4, <1>8, <1>9 DEF BlobStore, OneValue, Right, BlobBackup
<1>11. \A i \in DOMAIN ck[t] : RefsOf(ck[t][i]) \subseteq DOMAIN bl[t]
  BY <1>1, <1>3 DEF BlobStore, Whole, Dooming, Copying
<1>12. ASSUME NEW v \in Thread, NEW i \in DOMAIN ck[v]
       PROVE  RefsOf(ck[v][i]) \subseteq DOMAIN bl'[v]
  <2>1. CASE v = u /\ i \in DOMAIN ck[t]
    <3>1. ck[u][i] = Stored(arch[u][i]) /\ ck[t][i] = Stored(arch[t][i]) /\ arch[t][i] = arch[u][i]
      BY <1>12, <2>1 DEF Same, TypeInv, Known
    <3>. QED  BY <1>7, <1>11, <2>1, <3>1
  <2>2. CASE ~ (v = u /\ i \in DOMAIN ck[t])
    <3>1. RefsOf(ck[v][i]) \subseteq DOMAIN bl[v]
      BY <1>1, <1>2, <1>3, <1>12, <2>2 DEF BlobStore, Whole, Dooming, Copying
    <3>. QED  BY <1>6, <1>7, <3>1
  <2>. QED  BY <2>1, <2>2
<1>13. Whole(l[w])'
  BY <1>4, <1>12 DEF Whole, RefsOf
<1>14. BlobCall(l[w])'
  BY <1>3, <1>4, CopyCalls DEF CopyPCs
<1>. QED  BY <1>10, <1>13, <1>14 DEF BlobStore

LEMMA BlobsRollback ==
  ASSUME TypeInv, NEW w \in Proc, BlobStore(w), SnapshotStore(w) \/ RestoreStore(w)
  PROVE  BlobStore(w)' /\ BlobCall(l[w])'
<1>1. l[w].pc = "idle" /\ l' = l /\ arch' = arch
  BY DEF SnapshotStore, RestoreStore, Call, At, hist
<1>2. AllPut' = AllPut /\ UsedIds' = UsedIds
  BY <1>1, PutSame
<1>3. BlobCall(l[w])'
  BY <1>1, Easy DEF EasyPCs, ReaderPCs, ReadPCs
<1>4. \A t \in Thread : \A i \in DOMAIN ck[t] : RefsOf(ck[t][i]) \subseteq DOMAIN bl[t]
  BY <1>1 DEF BlobStore, Whole, Dooming, Copying
<1>5. OneValue(AllPut, UsedIds)'
  BY <1>2 DEF BlobStore, OneValue
<1>6. CASE SnapshotStore(w)
  <2>1. ck' = ck /\ bl' = bl /\ backup' = <<ck, wr, bl, lt, awr>>
    BY <1>6 DEF SnapshotStore, store
  <2>2. Right(bl, AllPut, UsedIds)' /\ Whole(l[w])'
    BY <1>2, <1>4, <2>1 DEF BlobStore, Right, Whole, RefsOf
  <2>3. backup'[1] = ck /\ backup'[3] = bl
    BY <2>1
  <2>4. BlobBackup(w)'
    BY <1>2, <1>4, <2>3 DEF BlobStore, BlobBackup, Right, RefsOf
  <2>. QED  BY <1>3, <1>5, <2>2, <2>4 DEF BlobStore
<1>7. CASE RestoreStore(w)
  <2>1. /\ backup # <<>> /\ "restore" \in Ops[w] /\ ck' = backup[1] /\ bl' = backup[3] /\ backup' = backup
    BY <1>7 DEF RestoreStore, Call
  <2>2. /\ Right(backup[3], AllPut, UsedIds)
        /\ \A t \in Thread : \A i \in DOMAIN backup[1][t] :
             RefsOf(backup[1][t][i]) \subseteq DOMAIN backup[3][t]
    BY <2>1 DEF BlobStore, BlobBackup
  <2>3. Right(bl, AllPut, UsedIds)' /\ Whole(l[w])'
    BY <1>2, <2>1, <2>2 DEF Right, Whole, RefsOf
  <2>4. BlobBackup(w)'
    BY <1>2, <2>1, <2>2 DEF BlobBackup, Right, RefsOf
  <2>. QED  BY <1>3, <1>5, <2>3, <2>4 DEF BlobStore
<1>. QED  BY <1>6, <1>7

-----------------------------------------------------------------------------

\* The steps of one caller (NextIs).
Acts(p) ==
  \/ PutBegins(p) \/ WritesBegin(p) \/ Begins(p)
  \/ SnapshotStore(p) \/ RestoreStore(p)
  \/ PutHint(p) \/ PutBlobContains(p) \/ PutBlobs(p) \/ PutRows(p) \/ PutRest(p)
  \/ CheckWrites(p) \/ FlushWrites(p) \/ Reading(p) \/ GetPublish(p) \/ Surveys(p)
  \/ DropBlobs(p) \/ DropWrites(p) \/ DropCheckpoints(p) \/ DropFix(p) \/ Dropped(p)
  \/ DeleteCk(p) \/ DeleteWrites(p) \/ DeleteBlobs(p) \/ DeleteLatest(p)
  \/ CopyCk(p) \/ CopyWr(p) \/ CopyBl(p) \/ CopyLatest(p)

LEMMA BlobsWriter ==
  ASSUME TypeInv, Same, Incremental, ~IntVersions, NEW w \in Proc, Acts(w), BlobStore(w), BlobCall(l[w])
  PROVE  BlobStore(w)' /\ BlobCall(l[w])'
<1>1. BlobPut(l[w])
  BY DEF BlobCall
<1>2. CASE \/ PutBegins(w) \/ PutHint(w) \/ PutBlobContains(w) \/ PutBlobs(w) \/ PutRows(w) \/ PutRest(w)
  BY <1>1, <1>2, BlobsPutBegins, WriteStarts, BlobsPutBlobs, BlobsPutRows
<1>3. CASE \/ Surveys(w) \/ DropBlobs(w) \/ DropWrites(w) \/ DropCheckpoints(w)
           \/ DeleteCk(w) \/ DeleteWrites(w) \/ DeleteBlobs(w)
  BY <1>3, BlobsSurveys, BlobsDropBlobs, BlobsDropWrites, BlobsDropCheckpoints, BlobsDeletes
<1>4. CASE \/ Begins(w) \/ CopyCk(w) \/ CopyWr(w) \/ CopyBl(w) \/ SnapshotStore(w) \/ RestoreStore(w)
  BY <1>4, BlobsBegins, BlobsCopyCk, BlobsCopyWr, BlobsCopyBl, BlobsRollback
<1>5. CASE \/ WritesBegin(w) \/ CheckWrites(w) \/ FlushWrites(w) \/ Reading(w) \/ GetPublish(w)
           \/ DropFix(w) \/ Dropped(w) \/ DeleteLatest(w) \/ CopyLatest(w)
  BY <1>5, BlobsQuiet
<1>. QED  BY <1>2, <1>3, <1>4, <1>5 DEF Acts

\* A call that starts with reading, of a caller that changes no checkpoint.
LEMMA ReaderBegins ==
  ASSUME TypeInv, NEW p \in Proc, Begins(p), Ops[p] \cap Changing = {}
  PROVE  l'[p].pc \in ReaderPCs
<1>1. ASSUME NEW t \in Thread, NEW id \in {None} \cup DOMAIN ck[t], GetTuple(p, t, id)
      PROVE  l'[p].pc \in ReaderPCs
  <2>1. id \in IdOrNo
    BY ReadIs, IdIs
  <2>2. l'[p].pc \in {"get_saved", "get_max", "get_lt"}
    BY <1>1, <2>1, GetTupleStarts
  <2>. QED  BY <2>2 DEF ReaderPCs, ReadPCs
<1>2. ASSUME NEW T, NEW want, NEW before, NEW runs, NEW limit, List(p, T, want, before, runs, limit)
      PROVE  l'[p].pc \in ReaderPCs
  BY <1>2, ListStarts DEF ReaderPCs, ReadPCs
<1>3. ASSUME NEW t \in Thread
      PROVE  ~Prune(p, t) /\ ~DeleteThread(p, t) /\ \A u \in Thread : ~CopyThread(p, t, u)
  BY PruneStarts, DeleteThreadStarts, CopyThreadStarts DEF Changing
<1>4. \A runs : ~DeleteForRuns(p, runs)
  BY DeleteForRunsStarts DEF Changing
<1>. QED  BY <1>1, <1>2, <1>3, <1>4 DEF Begins

\* What another caller than w does.
LEMMA OthersRead ==
  ASSUME TypeInv, NEW p \in Proc, Acts(p), Ops[p] \cap Changing = {}, l[p].pc \in ReaderPCs
  PROVE  /\ ck' = ck /\ bl' = bl /\ arch' = arch /\ l'[p].pc \in ReaderPCs
         /\ \A q \in Proc : q # p => l'[q] = l[q]
<1>1. l[p].pc \notin PutPCs /\ l[p].pc \notin DropPCs \cup TrimPCs \cup RunPCs \cup DelPCs /\ l[p].pc \notin CopyPCs
  BY DEF ReaderPCs, ReadPCs, WritePCs, PutPCs, DropPCs, TrimPCs, RunPCs, DelPCs, CopyPCs
<1>2. CASE PutBegins(p) \/ RestoreStore(p)
  <2>1. "put" \in Ops[p] \/ "restore" \in Ops[p]
    BY <1>2, PutBeginsIs DEF RestoreStore, Call
  <2>. QED  BY <2>1 DEF Changing
<1>3. CASE WritesBegin(p)
  <2>1. Fresh(p) /\ UNCHANGED <<store, arch>> /\ l'[p].pc = "write_check"
    BY <1>3, WritesBeginIs
  <2>. QED  BY <2>1 DEF Fresh, store, ReaderPCs, WritePCs
<1>4. CASE Begins(p)
  <2>1. Fresh(p) /\ UNCHANGED <<store, hist>>
    BY <1>4, BeginsIs
  <2>. QED  BY <1>4, <2>1, ReaderBegins DEF Fresh, store, hist
<1>5. CASE SnapshotStore(p)
  BY <1>5 DEF SnapshotStore, store, hist
<1>6. CASE PutHint(p) \/ PutBlobContains(p) \/ PutBlobs(p) \/ PutRows(p) \/ PutRest(p)
  <2>1. l[p].pc \in PutPCs
    BY <1>6, PutHintIs, PutBlobContainsIs, PutBlobsIs, PutRowsIs, PutRestIs DEF PutPCs
  <2>. QED  BY <1>1, <2>1
<1>7. CASE \/ Surveys(p) \/ DropBlobs(p) \/ DropWrites(p) \/ DropCheckpoints(p) \/ DropFix(p) \/ Dropped(p)
           \/ DeleteCk(p) \/ DeleteWrites(p) \/ DeleteBlobs(p) \/ DeleteLatest(p)
  <2>1. CASE Surveys(p)
    BY <1>1, <2>1, SurveysIs
  <2>2. CASE DropBlobs(p) \/ DropWrites(p) \/ DropCheckpoints(p) \/ DropFix(p) \/ Dropped(p)
    <3>1. l[p].pc \in DropPCs
      BY <2>2, DropBlobsIs, DropWritesIs, DropCheckpointsIs, DropFixIs, DroppedIs DEF DropPCs
    <3>. QED  BY <1>1, <3>1
  <2>3. CASE DeleteCk(p) \/ DeleteWrites(p) \/ DeleteBlobs(p) \/ DeleteLatest(p)
    <3>1. l[p].pc \in DelPCs
      BY <2>3, DeleteCkIs, DeleteWritesIs, DeleteBlobsIs, DeleteLatestIs DEF DelPCs
    <3>. QED  BY <1>1, <3>1
  <2>. QED  BY <1>7, <2>1, <2>2, <2>3
<1>8. CASE CopyCk(p) \/ CopyWr(p) \/ CopyBl(p) \/ CopyLatest(p)
  <2>1. l[p].pc \in CopyPCs
    BY <1>8, CopyCkIs, CopyWrIs, CopyBlIs, CopyLatestIs DEF CopyPCs
  <2>. QED  BY <1>1, <2>1
<1>9. CASE CheckWrites(p)
  <2>1. Only_l /\ l'[p].pc \in WritePCs /\ \A q \in Proc : q # p => l'[q] = l[q]
    BY <1>9, CheckWritesIs DEF WritePCs
  <2>. QED  BY <2>1, OnlyIs DEF ReaderPCs
<1>10. CASE FlushWrites(p)
  <2>1. Step(p, Locals0) /\ ck' = ck /\ bl' = bl /\ arch' = arch
    BY <1>10, FlushWritesIs DEF hist
  <2>. QED  BY <2>1, ReturnIs DEF ReaderPCs, ReadPCs
<1>11. CASE Reading(p)
  BY <1>11, ReadingIs, OnlyIs DEF ReaderPCs
<1>12. CASE GetPublish(p)
  <2>1. /\ ck' = ck /\ bl' = bl /\ arch' = arch /\ l'[p].pc = "get_saved"
        /\ \A q \in Proc : q # p => l'[q] = l[q]
    BY <1>12, GetPublishIs DEF hist
  <2>. QED  BY <2>1 DEF ReaderPCs, ReadPCs
<1>. QED  BY <1>2, <1>3, <1>4, <1>5, <1>6, <1>7, <1>8, <1>9, <1>10, <1>11, <1>12 DEF Acts

\* A step of another caller: blobs and the writer's call are as they were.
LEMMA BlobsOthers ==
  ASSUME NEW w \in Proc, BlobStore(w), BlobCall(l[w]), ck' = ck, bl' = bl, arch' = arch, l'[w] = l[w],
         "restore" \notin Ops[w]
  PROVE  BlobStore(w)' /\ BlobCall(l[w])'
<1>1. AllPut' = AllPut /\ UsedIds' = UsedIds
  BY PutSame
<1>2. OneValue(AllPut, UsedIds)' /\ Right(bl, AllPut, UsedIds)' /\ BlobBackup(w)'
  BY <1>1 DEF BlobStore, OneValue, Right, BlobBackup
<1>3. Whole(l[w])'
  BY DEF BlobStore, Whole, Dooming, Copying, RefsOf
<1>4. BlobPut(l[w])'
  BY DEF BlobCall, BlobPut, RefsOf
<1>5. TidyTrim(l[w])'
  BY DEF BlobCall, BlobDrop, TidyTrim, Get
<1>6. BlobDrop(l[w])'
  BY <1>5 DEF BlobCall, BlobDrop, References
<1>. QED  BY <1>2, <1>3, <1>4, <1>6 DEF BlobStore, BlobCall

\* What a step of w does to a checkpoint i of thread t that was put.
Moves(w, t, i) ==
  /\ i \notin DOMAIN ck[t] /\ ~Putting(l[w], t, i) => i \notin DOMAIN ck'[t]
  /\ Dooming(l[w], t, i) => Dooming(l[w], t, i)' \/ i \notin DOMAIN ck'[t]
  /\ Putting(l[w], t, i)' => Putting(l[w], t, i) /\ (i \in DOMAIN ck[t] => i \in DOMAIN ck'[t])

LEMMA CalmMoves ==
  ASSUME TypeInv, NEW w \in Proc, NEW t \in Thread, NEW i,
         \/ WritesBegin(w) \/ Begins(w) \/ PutHint(w) \/ PutBlobContains(w) \/ PutBlobs(w)
         \/ CheckWrites(w) \/ FlushWrites(w) \/ Reading(w) \/ GetPublish(w) \/ Surveys(w)
         \/ DropBlobs(w) \/ DropFix(w) \/ Dropped(w)
         \/ DeleteWrites(w) \/ DeleteBlobs(w) \/ DeleteLatest(w)
         \/ CopyWr(w) \/ CopyBl(w) \/ CopyLatest(w)
  PROVE  Moves(w, t, i)
<1>1. Calm(w)
  BY CalmIs
<1>2. ASSUME ck' = ck, l[w].pc \notin {"drop_writes", "drop_rows"}
      PROVE  Moves(w, t, i)
  BY <1>1, <1>2 DEF Moves, Calm, SamePut, Putting, Dooming
<1>3. CASE WritesBegin(w) \/ Begins(w)
  <2>1. Fresh(w) /\ UNCHANGED store
    BY <1>3, WritesBeginIs, BeginsIs
  <2>. QED  BY <1>2, <2>1 DEF Fresh, store
<1>4. CASE PutHint(w) \/ PutBlobContains(w) \/ PutBlobs(w) \/ CheckWrites(w) \/ FlushWrites(w)
  <2>1. ck' = ck /\ l[w].pc \in {"put_hint", "put_blobs", "write_check", "write_flush"}
    BY <1>4, PutHintIs, PutBlobContainsIs, PutBlobsIs, CheckWritesIs, FlushWritesIs, OnlyIs DEF store
  <2>. QED  BY <1>2, <2>1
<1>5. CASE Reading(w)
  <2>1. ck' = ck /\ l[w].pc \in ReadPCs
    BY <1>5, ReadingIs, OnlyIs
  <2>. QED  BY <1>2, <2>1 DEF ReadPCs
<1>6. CASE Surveys(w)
  <2>1. ck' = ck
    BY <1>6, SurveysIs, OnlyIs
  <2>2. CASE \/ PruneKeys(w) \/ TrimIds(w) \/ TrimRead(w) \/ TrimNext(w) \/ WalkRow(w) \/ WalkVals(w) \/ TrimEnd(w)
    <3>1. l[w].pc \in TrimPCs
      <4>1. CASE PruneKeys(w) \/ TrimIds(w) \/ TrimRead(w) \/ TrimNext(w)
        BY <4>1, PruneKeysIs, PruneKeysStops, TrimIdsIs, TrimIdsStops, TrimReadIs, TrimNextIs DEF TrimPCs
      <4>2. CASE WalkRow(w) \/ WalkVals(w) \/ TrimEnd(w)
        BY <4>2, WalkRowIs, WalkRowStops, WalkValsIs, WalkValsStops, TrimEndIs DEF TrimPCs
      <4>. QED  BY <2>2, <4>1, <4>2
    <3>. QED  BY <1>2, <2>1, <3>1 DEF TrimPCs
  <2>3. CASE \/ DropRefs(w) \/ DropBlobKeys(w) \/ DropLatest(w) \/ RunsKeys(w) \/ RunsRead(w) \/ DeleteListWrites(w)
    <3>1. l[w].pc \notin {"drop_writes", "drop_rows"}
      BY <2>3, DropRefsIs, DropBlobKeysIs, DropLatestIs, RunsKeysIs, RunsReadIs, RunsReadNone, DeleteListWritesIs
    <3>. QED  BY <1>2, <2>1, <3>1
  <2>. QED  BY <1>6, <2>2, <2>3 DEF Surveys
<1>7. CASE GetPublish(w) \/ DropBlobs(w) \/ DropFix(w) \/ Dropped(w)
  <2>1. ck' = ck /\ l[w].pc \in {"get_publish", "drop_blobs", "drop_fix", "dropped"}
    BY <1>7, GetPublishIs, DropBlobsIs, DropFixIs, DroppedIs DEF store
  <2>. QED  BY <1>2, <2>1
<1>8. CASE DeleteWrites(w) \/ DeleteBlobs(w) \/ DeleteLatest(w) \/ CopyWr(w) \/ CopyBl(w) \/ CopyLatest(w)
  <2>1. ck' = ck /\ l[w].pc \in DelPCs \cup CopyPCs
    BY <1>8, DeleteWritesIs, DeleteBlobsIs, DeleteLatestIs, CopyWrIs, CopyBlIs, CopyLatestIs DEF DelPCs, CopyPCs
  <2>. QED  BY <1>2, <2>1 DEF DelPCs, CopyPCs
<1>. QED  BY <1>3, <1>4, <1>5, <1>6, <1>7, <1>8

LEMMA WriterMoves ==
  ASSUME TypeInv, NEW w \in Proc, Acts(w), Ops[w] \cap {"copy_thread", "restore"} = {},
         l[w].pc \in CopyPCs => "copy_thread" \in Ops[w], NEW t \in Thread, NEW i \in DOMAIN arch[t]
  PROVE  Moves(w, t, i)
<1>1. CASE PutBegins(w)
  <2>1. ck' = ck /\ l[w].pc = "idle" /\ l'[w].id \notin UsedIds
    BY <1>1, PutBeginsIs DEF Fresh, store
  <2>2. i # l'[w].id
    BY <2>1 DEF UsedIds
  <2>. QED  BY <2>1, <2>2 DEF Moves, Putting, Dooming
<1>2. CASE PutRows(w) \/ PutRest(w)
  <2>1. /\ l[w].pc \in {"put_rows", "put_rest"} /\ (ck' = ck \/ PutCk(w))
        /\ (l'[w].pc = "put_rest" /\ SamePut(w)) \/ l'[w].pc \in {"prune_keys", "idle"}
    BY <1>2, PutRowsIs, PutRestIs DEF Ended
  <2>2. l[w].pc \in PutPCs /\ l[w].t \in Thread
    BY <2>1, PutIs DEF PutPCs
  <2>3. /\ DOMAIN ck[t] \subseteq DOMAIN ck'[t]
        /\ i \in DOMAIN ck'[t] => i \in DOMAIN ck[t] \/ Putting(l[w], t, i)
    <3>1. CASE ck' = ck
      BY <3>1
    <3>2. CASE PutCk(w)
      BY <2>2, <3>2, PutCkIs DEF Putting
    <3>. QED  BY <2>1, <3>1, <3>2
  <2>4. Putting(l[w], t, i)' => Putting(l[w], t, i)
    BY <2>1, <2>2 DEF Putting, SamePut, PutPCs
  <2>5. ~Dooming(l[w], t, i)
    BY <2>1 DEF Dooming
  <2>. QED  BY <2>3, <2>4, <2>5 DEF Moves
<1>3. CASE SnapshotStore(w)
  BY <1>3 DEF SnapshotStore, store, Moves, Dooming, Putting
<1>4. CASE CopyCk(w) \/ RestoreStore(w)
  <2>1. "copy_thread" \in Ops[w] \/ "restore" \in Ops[w]
    BY <1>4, CopyCkIs DEF RestoreStore, Call, CopyPCs
  <2>. QED  BY <2>1
<1>5. CASE DropWrites(w)
  BY <1>5, DropWritesIs DEF Moves, Dooming, Putting, PutPCs
<1>6. CASE DropCheckpoints(w)
  <2>1. /\ ck' = DropRows(ck, l[w].t, l[w].doomed) /\ l[w].t \in Thread
        /\ l'[w].pc \in {"dropped", "drop_latest"}
    BY <1>6, DropCheckpointsIs
  <2>2. ck \in [Thread -> Part(Id, Record)]
    BY DEF TypeInv, Stores, CkT
  <2>3. /\ DOMAIN ck'[t] \subseteq DOMAIN ck[t]
        /\ t = l[w].t => DOMAIN ck'[t] = DOMAIN ck[t] \ l[w].doomed
    BY <2>1, <2>2 DEF DropRows, Drop
  <2>. QED  BY <2>1, <2>3 DEF Moves, Dooming, Putting, PutPCs
<1>7. CASE DeleteCk(w)
  <2>1. Calm(w) /\ l[w].pc = "del_ck" /\ l'[w].pc \notin PutPCs
    BY <1>7, CalmIs, DeleteCkIs DEF PutPCs
  <2>. QED  BY <2>1 DEF Moves, Calm, Shrinks, Dooming, Putting
<1>. QED  BY <1>1, <1>2, <1>3, <1>4, <1>5, <1>6, <1>7, CalmMoves DEF Acts

\* A tuple that is under construction stays right whatever the others do.
LEMMA TupleKept ==
  ASSUME TypeInv, Same, Next, NEW w \in Proc, NEW q \in Proc, Tuple(w, l[q]), l'[q] = l[q],
         \A t \in Thread : \A i \in DOMAIN arch[t] : Moves(w, t, i)
  PROVE  Tuple(w, l[q])'
<1>1. SUFFICES ASSUME l[q].pc \in TuplePCs, l[q].id # None
               PROVE  Tuple(w, l[q])'
  BY DEF Tuple
<1>20. PICK t \in Thread : t = l[q].t
  BY <1>1 DEF TypeInv, Shape, TuplePCs, BuildPCs
<1>2. PICK i : t = l[q].t /\ i = l[q].id
  BY <1>20
<1>3. i \in DOMAIN arch[t] /\ (Putting(l[w], t, i) => i \in DOMAIN ck[t])
  BY <1>1, <1>2 DEF Tuple
<1>4. Moves(w, t, i)
  BY <1>3
<1>5. i \in DOMAIN arch'[t] /\ arch'[t][i] = arch[t][i]
  BY <1>3, NextLater DEF Later
<1>6. Putting(l[w], t, i)' => i \in DOMAIN ck'[t]
  BY <1>3, <1>4 DEF Moves
<1>7. i \notin DOMAIN ck[t] \/ Dooming(l[w], t, i) => i \notin DOMAIN ck'[t] \/ Dooming(l[w], t, i)'
  BY <1>3, <1>4 DEF Moves
<1>8. IF l'[q].pc = "build_blobs" THEN l'[q].rec = Stored(arch'[t][i])
      ELSE \/ l'[q].rec.vals = arch'[t][i].vals
           \/ i \notin DOMAIN ck'[t]
           \/ Dooming(l[w], t, i)'
  <2>1. IF l[q].pc = "build_blobs" THEN l[q].rec = Stored(arch[t][i])
        ELSE \/ l[q].rec.vals = arch[t][i].vals
             \/ i \notin DOMAIN ck[t]
             \/ Dooming(l[w], t, i)
    BY <1>1, <1>2 DEF Tuple
  <2>. QED  BY <1>5, <1>7, <2>1
<1>9. t = l'[q].t /\ i = l'[q].id
  BY <1>2
<1>10. Dooming(l[w], l[q].t, l[q].id)' <=> Dooming(l[w], t, i)'
  BY <1>9 DEF Dooming
<1>11. Putting(l[w], l[q].t, l[q].id)' <=> Putting(l[w], t, i)'
  BY <1>9 DEF Putting
<1>. QED  BY <1>5, <1>6, <1>8, <1>9, <1>10, <1>11 DEF Tuple

\* _build_tuple finds every blob of a checkpoint that stays, with the value that
\* was put.
LEMMA ValuesFound ==
  ASSUME TypeInv, Same, Incremental, NEW w \in Proc, BlobStore(w), NEW t \in Thread, NEW i \in DOMAIN ck[t],
         ~Dooming(l[w], t, i), ~Copying(l[w], t, i)
  PROVE  [c \in Channel |-> ValueOf(t, Stored(arch[t][i]), c)] = arch[t][i].vals
<1>1. PICK r \in Record : r = arch[t][i] /\ i \in DOMAIN arch[t]
  BY ReadIs DEF TypeInv, Known
<1>2. ck[t][i] = Stored(r) /\ Stored(r).vers = r.vers
  BY <1>1, StoredIs DEF Same
<1>3. RefsOf(ck[t][i]) \subseteq DOMAIN bl[t]
  BY DEF BlobStore, Whole
<1>4. r \in AllPut
  BY <1>1 DEF AllPut
<1>5. ASSUME NEW c \in Channel
      PROVE  ValueOf(t, Stored(r), c) = r.vals[c]
  <2>1. PICK x : x = <<c, r.vers[c]>>
    OBVIOUS
  <2>2. x \in DOMAIN bl[t]
    BY <1>2, <1>3, <2>1 DEF RefsOf
  <2>3. x[1] = c /\ x[2] = r.vers[c]
    BY <2>1
  <2>4. bl[t][x] = r.vals[c]
    BY <1>4, <2>2, <2>3 DEF BlobStore, Right
  <2>. QED  BY <1>2, <2>1, <2>2, <2>4 DEF ValueOf
<1>6. r.vals \in [Channel -> IdOrNo]
  BY DEF Record, Values
<1>7. [c \in Channel |-> ValueOf(t, Stored(r), c)] = [c \in Channel |-> r.vals[c]]
  BY <1>5
<1>. QED  BY <1>1, <1>6, <1>7

LEMMA ReadsValues ==
  ASSUME TypeInv, Same, Incremental, NEW w \in Proc, OneWriter(w), BlobStore(w), Tuples(w),
         NEW q \in Proc, Reading(q)
  PROVE  Tuple(w, l[q])'
<1>1. /\ ck' = ck /\ arch' = arch /\ l[q].pc \in ReadPCs \ {"idle"} /\ l'[q].pc \in ReadPCs \cup {"get_publish"}
      /\ q # w => l'[w] = l[w]
  BY ReadingIs, OnlyIs
<1>2. ASSUME NEW t, NEW i
      PROVE  /\ Putting(l[w], t, i)' => Putting(l[w], t, i)
             /\ Dooming(l[w], t, i) => Dooming(l[w], t, i)'
             /\ ~Copying(l[w], t, i)
  <2>1. CASE q = w
    BY <1>1, <2>1 DEF Putting, Dooming, Copying, ReadPCs, PutPCs
  <2>2. CASE q # w
    <3>1. l[w].pc \notin CopyPCs
      BY <2>2 DEF OneWriter, Tuples
    <3>. QED  BY <1>1, <2>2, <3>1 DEF Putting, Dooming, Copying, CopyPCs
  <2>. QED  BY <2>1, <2>2
<1>3. \A t \in Thread : \A i \in DOMAIN ck[t] : i \in DOMAIN arch[t] /\ ck[t][i] = Stored(arch[t][i])
  BY DEF TypeInv, Known, Same
<1>4. CASE l'[q].pc \notin TuplePCs \/ l'[q].id = None
  BY <1>4 DEF Tuple
<1>5. CASE GetPointed(q) \/ GetSaved(q) \/ ListNext(q)
  <2>1. SUFFICES ASSUME l'[q].pc \in TuplePCs, l'[q].id # None
                 PROVE  Tuple(w, l[q])'
    BY <1>4
  <2>20. PICK t \in Thread : t = l'[q].t
    BY <1>5, GetPointedIs, GetSavedIs, ListNextIs
  <2>2. PICK i : t = l'[q].t /\ i = l'[q].id
    BY <2>20
  <2>3. Build = "build_blobs"
    BY DEF Build
  <2>4. l'[q].pc = "build_blobs" /\ i \in DOMAIN ck[t] /\ l'[q].rec = ck[t][i]
    <3>1. CASE GetPointed(q) \/ GetSaved(q)
      <4>1. /\ l[q].t = t /\ l'[q].rec = Get(ck[t], l[q].id) /\ Get(ck[t], l[q].id) # NoRow
            /\ i = l[q].id /\ l'[q].pc = "build_blobs"
        BY <2>1, <2>2, <2>3, <3>1, GetPointedIs, GetSavedIs DEF TuplePCs, BuildPCs
      <4>. QED  BY <4>1, GetIs
    <3>2. CASE ListNext(q)
      BY <2>1, <2>2, <2>3, <3>2, ListNextIs DEF TuplePCs, BuildPCs
    <3>. QED  BY <1>5, <3>1, <3>2
  <2>. QED  BY <1>1, <1>3, <2>2, <2>4 DEF Tuple
<1>6. CASE AttachValues(q) \/ BuildKeys(q) \/ BuildWrites(q)
  <2>1. SUFFICES ASSUME l'[q].id # None
                 PROVE  Tuple(w, l[q])'
    BY <1>4
  <2>20. PICK t \in Thread : t = l[q].t
    BY <1>6, AttachValuesIs, BuildKeysIs, BuildWritesIs
  <2>2. PICK i : t = l[q].t /\ i = l[q].id
    BY <2>20
  <2>3. /\ l[q].pc \in TuplePCs /\ l'[q].pc \in TuplePCs \ {"build_blobs"}
        /\ l'[q].t = t /\ l'[q].id = i /\ i # None
    <3>1. /\ l[q].pc \in BuildPCs /\ l'[q].pc \in {"build_keys", "build_writes", "got"}
          /\ l'[q].t = l[q].t /\ l'[q].id = l[q].id
      BY <1>6, AttachValuesIs, BuildKeysIs, BuildWritesIs DEF BuildPCs
    <3>. QED  BY <2>1, <2>2, <3>1 DEF TuplePCs, BuildPCs
  <2>4. /\ i \in DOMAIN arch[t] /\ (Putting(l[w], t, i) => i \in DOMAIN ck[t])
        /\ IF l[q].pc = "build_blobs" THEN l[q].rec = Stored(arch[t][i])
           ELSE \/ l[q].rec.vals = arch[t][i].vals
                \/ i \notin DOMAIN ck[t]
                \/ Dooming(l[w], t, i)
    BY <2>2, <2>3 DEF Tuples, Tuple
  <2>5. l'[q].rec.vals = arch[t][i].vals \/ i \notin DOMAIN ck[t] \/ Dooming(l[w], t, i)
    <3>1. CASE AttachValues(q)
      <4>1. l[q].rec = Stored(arch[t][i]) /\ l'[q].rec.vals = [c \in Channel |-> ValueOf(t, l[q].rec, c)]
        BY <2>2, <2>4, <3>1, AttachValuesIs
      <4>. QED  BY <1>2, <4>1, ValuesFound
    <3>2. CASE BuildKeys(q) \/ BuildWrites(q)
      BY <2>4, <3>2, BuildKeysIs, BuildWritesIs
    <3>. QED  BY <1>6, <3>1, <3>2
  <2>6. /\ Dooming(l[w], t, i)' <=> Dooming(l[w], l[q].t, l[q].id)'
        /\ Putting(l[w], t, i)' <=> Putting(l[w], l[q].t, l[q].id)'
    BY <2>3 DEF Dooming, Putting
  <2>. QED  BY <1>1, <1>2, <2>3, <2>4, <2>5, <2>6 DEF Tuple
<1>7. CASE GetMax(q) \/ GetLatest(q) \/ GetKeys(q) \/ GetReturn(q) \/ ListKeys(q)
  BY <1>4, <1>7, GetMaxIs, GetLatestIs, GetKeysIs, GetReturnIs, ListKeysIs DEF TuplePCs, BuildPCs
<1>. QED  BY <1>5, <1>6, <1>7 DEF Reading

LEMMA OneActs ==
  ASSUME TypeInv, NEW p \in Proc, Acts(p)
  PROVE  \A q \in Proc : q # p => l'[q] = l[q]
<1>1. CASE Calm(p)
  BY <1>1 DEF Calm
<1>2. CASE PutBegins(p) \/ CopyCk(p)
  BY <1>2, PutBeginsIs, CopyCkIs DEF Fresh
<1>3. CASE PutRows(p) \/ PutRest(p)
  BY <1>3, PutRowsIs, PutRestIs DEF Ended
<1>4. CASE SnapshotStore(p) \/ RestoreStore(p)
  BY <1>4 DEF SnapshotStore, RestoreStore
<1>. QED  BY <1>1, <1>2, <1>3, <1>4, CalmIs DEF Acts

\* The only step of a caller that builds a tuple is to go on with it.
LEMMA TupleActs ==
  ASSUME TypeInv, NEW p \in Proc, Acts(p), l[p].pc \in TuplePCs
  PROVE  Reading(p)
<1>1. /\ l[p].pc \notin PutPCs /\ l[p].pc \notin DropPCs \cup TrimPCs \cup RunPCs \cup DelPCs
      /\ l[p].pc \notin CopyPCs /\ l[p].pc \notin WritePCs \cup {"idle", "get_publish"}
  BY DEF TuplePCs, BuildPCs, PutPCs, DropPCs, TrimPCs, RunPCs, DelPCs, CopyPCs, WritePCs
<1>2. CASE PutBegins(p) \/ WritesBegin(p) \/ Begins(p) \/ SnapshotStore(p) \/ RestoreStore(p)
  <2>1. l[p].pc = "idle"
    BY <1>2, PutBeginsIs, WritesBeginIs, BeginsIs DEF Fresh, SnapshotStore, RestoreStore, Call, At
  <2>. QED  BY <1>1, <2>1
<1>3. CASE PutHint(p) \/ PutBlobContains(p) \/ PutBlobs(p) \/ PutRows(p) \/ PutRest(p)
  <2>1. l[p].pc \in PutPCs
    BY <1>3, PutHintIs, PutBlobContainsIs, PutBlobsIs, PutRowsIs, PutRestIs DEF PutPCs
  <2>. QED  BY <1>1, <2>1
<1>4. CASE CheckWrites(p) \/ FlushWrites(p) \/ GetPublish(p)
  BY <1>1, <1>4, CheckWritesIs, FlushWritesIs, GetPublishIs DEF WritePCs
<1>5. CASE Surveys(p)
  BY <1>1, <1>5, SurveysIs
<1>6. CASE DropBlobs(p) \/ DropWrites(p) \/ DropCheckpoints(p) \/ DropFix(p) \/ Dropped(p)
  <2>1. l[p].pc \in DropPCs
    BY <1>6, DropBlobsIs, DropWritesIs, DropCheckpointsIs, DropFixIs, DroppedIs DEF DropPCs
  <2>. QED  BY <1>1, <2>1
<1>7. CASE DeleteCk(p) \/ DeleteWrites(p) \/ DeleteBlobs(p) \/ DeleteLatest(p)
  <2>1. l[p].pc \in DelPCs
    BY <1>7, DeleteCkIs, DeleteWritesIs, DeleteBlobsIs, DeleteLatestIs DEF DelPCs
  <2>. QED  BY <1>1, <2>1
<1>8. CASE CopyCk(p) \/ CopyWr(p) \/ CopyBl(p) \/ CopyLatest(p)
  <2>1. l[p].pc \in CopyPCs
    BY <1>8, CopyCkIs, CopyWrIs, CopyBlIs, CopyLatestIs DEF CopyPCs
  <2>. QED  BY <1>1, <2>1
<1>. QED  BY <1>2, <1>3, <1>4, <1>5, <1>6, <1>7, <1>8 DEF Acts

LEMMA NextBlobs ==
  ASSUME TypeInv, Same, Incremental, ~IntVersions, NEW w \in Proc, OneWriter(w), BlobInv(w), Next
  PROVE  BlobInv(w)'
<1>1. PICK p \in Proc : Acts(p)
  BY NextIs DEF Acts
<1>2. BlobStore(w) /\ BlobCall(l[w]) /\ Tuples(w)
  BY DEF BlobInv
<1>3. ASSUME p # w
      PROVE  /\ Ops[p] \cap Changing = {} /\ Ops[w] \cap {"copy_thread", "restore"} = {}
             /\ ck' = ck /\ bl' = bl /\ arch' = arch /\ l'[w] = l[w] /\ l'[p].pc \in ReaderPCs
             /\ \A q \in Proc : q # p => l'[q] = l[q]
  <2>1. Ops[p] \cap Changing = {} /\ Ops[w] \cap {"copy_thread", "restore"} = {} /\ l[p].pc \in ReaderPCs
    BY <1>2, <1>3 DEF OneWriter, Tuples
  <2>. QED  BY <1>1, <1>3, <2>1, OthersRead
<1>4. BlobStore(w)' /\ BlobCall(l[w])'
  <2>1. CASE p = w
    BY <1>1, <1>2, <2>1, BlobsWriter
  <2>2. CASE p # w
    BY <1>2, <1>3, <2>2, BlobsOthers
  <2>. QED  BY <2>1, <2>2
<1>5. ASSUME NEW q \in Proc, q # w
      PROVE  l'[q].pc \in ReaderPCs
  <2>1. l[q].pc \in ReaderPCs
    BY <1>2, <1>5 DEF Tuples
  <2>2. CASE p = w
    <3>1. l'[q] = l[q]
      BY <1>1, <1>5, <2>2, OneActs
    <3>. QED  BY <2>1, <3>1
  <2>3. CASE p # w
    BY <1>3, <2>1, <2>3
  <2>. QED  BY <2>2, <2>3
<1>6. l'[w].pc \in CopyPCs => "copy_thread" \in Ops[w]
  <2>1. PICK q \in Proc : \/ WrCalm(q) \/ CheckWrites(q) \/ WritesBegin(q) \/ FlushWrites(q)
                          \/ CopyWr(q) \/ RestoreStore(q)
    BY NextWr
  <2>2. l[w].pc \in CopyPCs => "copy_thread" \in Ops[w]
    BY <1>2 DEF Tuples
  <2>3. CASE WrCalm(q)
    BY <2>2, <2>3 DEF WrCalm
  <2>4. CASE CheckWrites(q) \/ WritesBegin(q)
    BY <2>2, <2>4, CheckWritesIs, WritesBeginIs DEF Fresh, CopyPCs
  <2>5. CASE FlushWrites(q) \/ RestoreStore(q)
    BY <2>2, <2>5, FlushWritesIs, ReturnIs DEF RestoreStore, CopyPCs
  <2>6. CASE CopyWr(q)
    BY <2>2, <2>6, CopyWrIs DEF CopyPCs
  <2>. QED  BY <2>1, <2>3, <2>4, <2>5, <2>6
<1>7. ASSUME NEW q \in Proc
      PROVE  Tuple(w, l[q])'
  <2>1. PICK r \in Proc : /\ Reading(r) \/ l'[r].pc \notin TuplePCs
                          /\ \A s \in Proc : s # r => l'[s] = l[s]
    BY NextReads
  <2>2. CASE Reading(q)
    BY <1>2, <2>2, ReadsValues
  <2>3. CASE l'[q].pc \notin TuplePCs
    BY <2>3 DEF Tuple
  <2>4. CASE l'[q] = l[q] /\ l[q].pc \in TuplePCs /\ ~Reading(q)
    <3>1. ASSUME NEW t \in Thread, NEW i \in DOMAIN arch[t]
          PROVE  Moves(w, t, i)
      <4>1. CASE p # w
        BY <1>3, <4>1 DEF Moves, Dooming, Putting
      <4>2. CASE p = w /\ q # w
        <5>1. /\ Ops[w] \cap {"copy_thread", "restore"} = {}
              /\ l[w].pc \in CopyPCs => "copy_thread" \in Ops[w]
          BY <1>2, <4>2 DEF OneWriter, Tuples
        <5>. QED  BY <1>1, <4>2, <5>1, WriterMoves
      <4>3. CASE p = w /\ q = w
        BY <1>1, <2>4, <4>3, TupleActs
      <4>. QED  BY <4>1, <4>2, <4>3
    <3>2. Tuple(w, l[q])
      BY <1>2 DEF Tuples
    <3>. QED  BY <2>4, <3>1, <3>2, TupleKept
  <2>. QED  BY <2>1, <2>2, <2>3, <2>4
<1>. QED  BY <1>4, <1>5, <1>6, <1>7 DEF BlobInv, Tuples

LEMMA InitBlobs ==
  ASSUME Init, Incremental, NEW w \in Proc
  PROVE  BlobInv(w)
<1>1. PICK old \in SUBSET Legacy :
       /\ ck = [t \in Thread |-> IF t \in old THEN Row(1, Stored(OldRow)) ELSE Empty]
       /\ bl = [t \in Thread |-> IF t \in old /\ Incremental THEN [x \in Channel \X {1} |-> 1] ELSE Empty]
       /\ arch = [t \in Thread |-> IF t \in old THEN Row(1, OldRow) ELSE Empty]
  BY DEF Init
<1>2. backup = <<>> /\ \A p \in Proc : l[p].pc = "idle"
  BY DEF Init, Locals0
<1>3. /\ \A c \in Channel : OldRow.vers[c] = 1 /\ OldRow.vals[c] = 1 /\ Stored(OldRow).vers[c] = 1
      /\ DOMAIN Empty = {}
  BY EmptyPart DEF OldRow, Stored
<1>4. ASSUME NEW t \in Thread
      PROVE  /\ \A i \in DOMAIN arch[t] : i = 1 /\ arch[t][i] = OldRow
             /\ \A i \in DOMAIN ck[t] : RefsOf(ck[t][i]) \subseteq DOMAIN bl[t]
             /\ \A x \in DOMAIN bl[t] : x[1] \in Channel /\ x[2] = 1 /\ bl[t][x] = 1 /\ 1 \in DOMAIN arch[t]
  <2>1. CASE t \in old
    <3>1. ck[t] = Row(1, Stored(OldRow)) /\ arch[t] = Row(1, OldRow) /\ bl[t] = [x \in Channel \X {1} |-> 1]
      BY <1>1, <2>1
    <3>2. /\ DOMAIN ck[t] = {1} /\ ck[t][1] = Stored(OldRow) /\ DOMAIN arch[t] = {1} /\ arch[t][1] = OldRow
      BY <3>1 DEF Row
    <3>3. RefsOf(Stored(OldRow)) \subseteq DOMAIN bl[t]
      BY <1>3, <3>1 DEF RefsOf
    <3>. QED  BY <3>1, <3>2, <3>3
  <2>2. CASE t \notin old
    BY <1>1, <1>3, <2>2
  <2>. QED  BY <2>1, <2>2
<1>5. \A r \in AllPut : r = OldRow /\ 1 \in UsedIds
  BY <1>4 DEF AllPut, UsedIds
<1>6. OneValue(AllPut, UsedIds)
  BY <1>3, <1>5 DEF OneValue
<1>7. Right(bl, AllPut, UsedIds)
  <2>1. ASSUME NEW t \in Thread, NEW x \in DOMAIN bl[t]
        PROVE  x[2] \in UsedIds /\ \A r \in AllPut : r.vers[x[1]] = x[2] => bl[t][x] = r.vals[x[1]]
    <3>1. x[1] \in Channel /\ x[2] = 1 /\ bl[t][x] = 1 /\ 1 \in DOMAIN arch[t]
      BY <1>4
    <3>2. 1 \in UsedIds
      BY <3>1 DEF UsedIds
    <3>. QED  BY <1>3, <1>5, <3>1, <3>2
  <2>. QED  BY <2>1 DEF Right
<1>8. BlobStore(w)
  BY <1>2, <1>4, <1>6, <1>7 DEF BlobStore, Whole, BlobBackup
<1>9. BlobCall(l[w])
  BY <1>2 DEF BlobCall, BlobPut, BlobDrop, TidyTrim, RunPCs, DelPCs, CopyPCs
<1>10. Tuples(w)
  BY <1>2 DEF Tuples, Tuple, TuplePCs, BuildPCs, ReaderPCs, ReadPCs, CopyPCs
<1>. QED  BY <1>8, <1>9, <1>10 DEF BlobInv

\* With incremental on, where a row has no values and _build_tuple fetches them
\* from blobs that many checkpoints share: a tuple that get_tuple or list returns
\* has the values that were put with its checkpoint.  put writes every blob that a
\* row refers to and the store lacks before the row; the trim after it, prune and
\* delete_for_runs (_drop_checkpoints) delete no blob that a remaining row refers
\* to; delete_thread takes the rows first; copy_thread and a rollback bring blobs
\* back that agree with what was put.  One caller w changes checkpoints, with any
\* sequence of calls, while any number of others read, list, put writes and take
\* snapshots; if there are others, w neither copies nor restores.  Versions are
\* unique: with integer versions two branches give one version two values.
THEOREM BlobTuples ==
  ASSUME NEW w \in Proc, OneWriter(w), ~IntVersions
  PROVE  Spec => []TupleValues
<1>1. CASE ~Incremental
  BY <1>1, WholeTuples
<1>2. CASE Incremental
  <2>1. ASSUME TypeInv, Same, BlobInv(w), [Next]_vars
        PROVE  BlobInv(w)'
    <3>1. CASE Next
      BY <1>2, <2>1, <3>1, NextBlobs
    <3>2. CASE UNCHANGED vars
      <4>1. ck' = ck /\ bl' = bl /\ arch' = arch /\ backup' = backup /\ l' = l
        BY <3>2 DEF vars, store, hist
      <4>2. AllPut' = AllPut /\ UsedIds' = UsedIds
        BY <4>1, PutSame
      <4>3. BlobStore(w)'
        BY <2>1, <4>1, BlobsKept DEF BlobInv, Dooming, Copying
      <4>4. BlobCall(l[w])'
        BY <2>1, <4>1 DEF BlobInv, BlobCall, BlobPut, BlobDrop, TidyTrim, RefsOf, References, Get
      <4>5. Tuples(w)'
        BY <2>1, <4>1 DEF BlobInv, Tuples, Tuple, Putting, Dooming
      <4>. QED  BY <4>3, <4>4, <4>5 DEF BlobInv
    <3>. QED  BY <2>1, <3>1, <3>2
  <2>2. ASSUME TypeInv, BlobInv(w)
        PROVE  TupleValues
    <3>1. ASSUME NEW p \in Proc, l[p].pc = "got", Stays(l[p].t, l[p].id)
          PROVE  l[p].rec.vals = arch[l[p].t][l[p].id].vals
      <4>1. l[p].t \in Thread /\ l[p].id \in DOMAIN ck[l[p].t]
        BY <2>2, <3>1 DEF TypeInv, Shape, Stays
      <4>2. l[p].id # None
        BY <2>2, <4>1, ReadIs, IdIs
      <4>3. ~Dooming(l[w], l[p].t, l[p].id)
        BY <3>1 DEF Stays, Dooming
      <4>. QED  BY <2>2, <3>1, <4>1, <4>2, <4>3 DEF BlobInv, Tuples, Tuple, TuplePCs
    <3>. QED  BY <3>1 DEF TupleValues, At
  <2>. QED  BY <1>2, <2>1, <2>2, InitBlobs, AlwaysSame, PTL DEF Spec
<1>. QED  BY <1>1, <1>2

=============================================================================

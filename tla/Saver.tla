------------------------------- MODULE Saver -------------------------------
(***************************************************************************)
(* SwarmStateSaver (python/swarmstate/integrations/langgraph.py): callers  *)
(* that put, read, trim and delete the checkpoints of LangGraph threads    *)
(* through savers that share one store.  A step is one call of the store   *)
(* with the Python around it, so callers interleave between store calls;   *)
(* every store call is atomic, except that a set_many whose rows live in   *)
(* two shards of the in-memory store is one step per row.                  *)
(*                                                                         *)
(* Checkpoint ids are time-ordered and unique, so they are numbers; a      *)
(* channel's value is the id of the checkpoint that wrote it.  Each thread *)
(* has one checkpoint_ns.  Instrumentation and serialization are left out. *)
(***************************************************************************)
EXTENDS Integers, FiniteSets, FiniteSetsExt

CONSTANTS
  Proc, Saver,     \* callers, and the savers
  SaverOf,         \* the saver a caller uses
  Thread,          \* thread ids
  MaxId,           \* bound: checkpoint ids
  Plain, Delta,    \* channels: ordinary ones, and those kept as DeltaChannels
  Run,             \* run ids in checkpoint metadata
  Incremental,     \* incremental: channel values in blobs, once per version
  Limit,           \* max_checkpoints_per_thread, 0 for None
  PruneSlack,      \* _PRUNE_SLACK
  MaxHints,        \* _MAX_HINTS
  Indexed,         \* the store's indexed_max_key: no latest pointer is kept
  NativeAsync,     \* the store's supports_async
  RowOrder,        \* how set_many applies a put's rows
  IntVersions,     \* channel versions count up from the parent's (LangGraph's
                   \* default) or are unique (savers that override it)
  InOrder,         \* ids are put in increasing order
  Legacy,          \* threads an older version may have left a checkpoint in
  Window,          \* callers continue one of this many newest checkpoints
  WKey, Special,   \* keys of pending writes, and those with a negative index
  ChanOf,          \* the channel a pending write goes to
  WVal,            \* values of pending writes
  MaxCalls,        \* bound: calls per caller
  Ops              \* operations each caller uses

None    == 0
Id      == 1 .. MaxId
IdOrNo  == 0 .. MaxId
Channel == Plain \cup Delta
Values  == [Channel -> IdOrNo]
Record  == [parent: IdOrNo, vers: Values, vals: Values, run: Run]
NoVals  == [c \in Channel |-> None]
NoRow   == [parent |-> -1, vers |-> NoVals, vals |-> NoVals, run |-> None]
Empty   == [x \in {} |-> None]

\* One row, and the rows of f over those of g.
Row(x, v)  == [y \in {x} |-> v]
Over(f, g) == [x \in DOMAIN f \cup DOMAIN g |-> IF x \in DOMAIN f THEN f[x] ELSE g[x]]

OpNames == {"put", "put_writes", "get", "prune", "delete_for_runs",
            "list", "delete_thread", "copy_thread", "snapshot", "restore"}

ASSUME ConstantsAssumption ==
  /\ SaverOf \in [Proc -> Saver]
  /\ MaxId \in Nat \ {0}
  /\ Plain \cap Delta = {}
  /\ Window \in Nat \ {0}
  /\ Run # {}
  /\ Legacy \subseteq Thread
  /\ Limit \in Nat /\ PruneSlack \in Nat /\ MaxHints \in Nat \ {0}
  /\ RowOrder \in {"together", "ck_first", "lt_first"}
  /\ {Incremental, Indexed, NativeAsync, IntVersions, InOrder}
       \subseteq BOOLEAN
  /\ Special \subseteq WKey
  /\ ChanOf \in [WKey -> Channel]
  /\ MaxCalls \in Nat
  /\ Ops \in [Proc -> SUBSET OpNames]

VARIABLES
  ck,           \* thread -> id -> record             (namespace ck/thread/ns)
  wr,           \* thread -> <<id, key>> -> value     (namespaces wr/thread/ns/id)
  bl,           \* thread -> <<channel, version>> -> value, None for "empty"
  lt,           \* thread -> id of the latest pointer (namespace lt), or None
  max_seen,     \* saver -> thread -> id, None for no hint
  prune_floor,  \* saver -> thread -> checkpoints kept by the last trim, 0 for none
  backup,       \* a snapshot of the store an operator may restore
  arch, awr,    \* history: everything ever put, nothing deleted
  done,         \* history: thread -> ids whose put has returned
  l,            \* caller -> locals of its call
  calls         \* caller -> calls made

store == <<ck, wr, bl, lt>>
hints == <<max_seen, prune_floor>>
hist  == <<arch, awr, done>>
vars  == <<store, hints, backup, hist, l, calls>>

PCs == {"idle", "put_hint", "put_blobs", "put_rows", "put_rest",
        "write_check", "write_flush",
        "get_max", "get_lt", "get_row", "get_keys", "get_publish", "get_saved",
        "build_blobs", "build_keys", "build_writes", "got", "list_next",
        "prune_keys", "trim_ids", "trim_read", "trim_next", "walk_row", "walk_vals",
        "drop_refs", "drop_blob_keys", "drop_blobs", "drop_writes",
        "drop_rows", "drop_latest", "drop_fix", "dropped",
        "runs_next", "runs_keys", "runs_read",
        "del_ck", "del_wr_list", "del_wr", "del_bl", "del_lt",
        "copy_ck", "copy_wr", "copy_bl", "copy_lt"}

\* Locals: the call's thread and checkpoint, what it has read, what it works on.
Locals0 == [pc |-> "idle", op |-> "", t |-> None, id |-> None, rec |-> NoRow,
            publish |-> FALSE, keys |-> {}, todo |-> {}, batch |-> Empty,
            bound |-> None, ids |-> {}, recs |-> Empty, keep |-> 0, cur |-> None,
            missing |-> {}, needed |-> {}, doomed |-> {}, kept |-> {},
            threads |-> {}, runs |-> {}, want |-> None, before |-> None]

TypeOK ==
  /\ \A t \in Thread :
       /\ DOMAIN ck[t] \subseteq Id
       /\ \A i \in DOMAIN ck[t] : ck[t][i] \in Record
       /\ DOMAIN wr[t] \subseteq Id \X WKey
       /\ \A x \in DOMAIN wr[t] : wr[t][x] \in WVal
       /\ DOMAIN bl[t] \subseteq Channel \X Id
       /\ \A x \in DOMAIN bl[t] : bl[t][x] \in IdOrNo
  /\ lt \in [Thread -> IdOrNo]
  /\ max_seen \in [Saver -> [Thread -> IdOrNo]]
  /\ prune_floor \in [Saver -> [Thread -> 0 .. MaxId]]
  /\ \A p \in Proc : l[p].pc \in PCs
  /\ calls \in [Proc -> 0 .. MaxCalls]

\* The row as it is stored: without its values when they are in blobs.
Stored(r) == IF Incremental THEN [r EXCEPT !.vals = NoVals] ELSE r

\* Versions before the latest pointer wrote the same rows without it.
OldRow == [parent |-> None, run |-> CHOOSE r \in Run : TRUE,
           vers |-> [c \in Channel |-> 1], vals |-> [c \in Channel |-> 1]]

Init ==
  /\ \E old \in SUBSET Legacy :
       /\ ck = [t \in Thread |-> IF t \in old THEN Row(1, Stored(OldRow)) ELSE Empty]
       /\ bl = [t \in Thread |-> IF t \in old /\ Incremental
                                 THEN [x \in Channel \X {1} |-> 1] ELSE Empty]
       /\ arch = [t \in Thread |-> IF t \in old THEN Row(1, OldRow) ELSE Empty]
       /\ done = [t \in Thread |-> IF t \in old THEN {1} ELSE {}]
  /\ wr = [t \in Thread |-> Empty]
  /\ lt = [t \in Thread |-> None]
  /\ max_seen = [s \in Saver |-> [t \in Thread |-> None]]
  /\ prune_floor = [s \in Saver |-> [t \in Thread |-> 0]]
  /\ backup = <<>>
  /\ awr = [t \in Thread |-> Empty]
  /\ l = [p \in Proc |-> Locals0]
  /\ calls = [p \in Proc |-> 0]

-----------------------------------------------------------------------------
(* Rows, hints and steps *)

Drop(f, D) == [x \in DOMAIN f \ D |-> f[x]]
Only(f, D) == [x \in DOMAIN f \cap D |-> f[x]]
Get(f, x)  == IF x \in DOMAIN f THEN f[x] ELSE NoRow

SetRows(var, t, rows)  == [var EXCEPT ![t] = Over(rows, @)]
DropRows(var, t, D)    == [var EXCEPT ![t] = Drop(@, D)]
WritesNs(t, i)         == {x \in DOMAIN wr[t] : x[1] = i}

\* Store.keys of a thread's checkpoint namespace, and Store.namespaces: a
\* namespace is there as long as it holds a row.
Keys(t)    == DOMAIN ck[t]
Namespaces == {t \in Thread : Keys(t) # {}}

\* _bounded_set: a hint table that is full is dropped wholesale.
BoundedSet(h, t, v) ==
  IF Cardinality({u \in DOMAIN h : h[u] # None}) >= MaxHints
  THEN [u \in DOMAIN h |-> IF u = t THEN v ELSE None]
  ELSE [h EXCEPT ![t] = v]

At(p, label)  == l[p].pc = label
Step(p, r)    == l' = [l EXCEPT ![p] = r]
Return(p)     == Step(p, Locals0)
Call(p, op)   == /\ At(p, "idle")
                 /\ op \in Ops[p]
                 /\ calls[p] < MaxCalls
                 /\ calls' = [calls EXCEPT ![p] = @ + 1]
Started(p, op, t, label) ==
  [Locals0 EXCEPT !.pc = label, !.op = op, !.t = t]

-----------------------------------------------------------------------------
(* put: hint, blobs not stored yet, then the checkpoint row and the pointer *)

\* The checkpoint a caller hands to put: it continues `parent`, with new
\* versions for the channels in `upd`.  A delta channel has a value only where
\* it is snapshotted; between version changes every read gives the same value.
NextVersion(id, vers) ==
  IF IntVersions THEN 1 + Max({vers[c] : c \in Channel}) ELSE id

Continuation(t, id, parent, upd, snapped, run) ==
  LET before == IF parent = None THEN NoRow ELSE arch[t][parent]
  IN  [parent |-> parent,
       run    |-> run,
       vers   |-> [c \in Channel |-> IF c \in upd THEN NextVersion(id, before.vers)
                                     ELSE before.vers[c]],
       vals   |-> [c \in Channel |->
                     IF c \in upd THEN IF c \in Plain \cup snapped THEN id ELSE None
                     ELSE IF c \in Plain \/ Incremental THEN before.vals[c] ELSE None]]

\* An out-of-order put, as far as this saver knows, leaves the pointer alone.
Publishes(s, t, id) ==
  /\ ~Indexed
  /\ max_seen[s][t] = None \/ id > max_seen[s][t]

\* Mutant: the blobs are not written.
RowsOnly == "put_rows"

AfterHint == IF Incremental THEN "put_blobs" ELSE "put_rows"

Put(p, t, id, parent, upd, snapped, run) ==
  LET s   == SaverOf[p]
      r   == Continuation(t, id, parent, upd, snapped, run)
      pub == Publishes(s, t, id)
  IN  /\ Call(p, "put")
      /\ Step(p, [Started(p, "put", t, IF pub THEN "put_hint" ELSE AfterHint)
                    EXCEPT !.id = id, !.rec = r, !.publish = pub,
                           !.todo = {<<c, r.vers[c]>> : c \in upd}])
      /\ arch' = SetRows(arch, t, Row(id, r))
      /\ UNCHANGED <<store, hints, backup, awr, done>>

PutHint(p) ==
  LET me == l[p] IN
  /\ At(p, "put_hint")
  /\ max_seen' = [max_seen EXCEPT ![SaverOf[p]] = BoundedSet(@, me.t, me.id)]
  /\ Step(p, [me EXCEPT !.pc = AfterHint])
  /\ UNCHANGED <<store, prune_floor, backup, hist, calls>>

\* One contains() per candidate blob; a blob that is stored is not written.
PutBlobContains(p) ==
  LET me == l[p] IN
  /\ At(p, "put_blobs")
  /\ \E b \in me.todo :
       Step(p, [me EXCEPT
                  !.todo  = @ \ {b},
                  !.batch = IF b \in DOMAIN bl[me.t] THEN @
                            ELSE Over(Row(b, me.rec.vals[b[1]]), @)])
  /\ UNCHANGED <<store, hints, backup, hist, calls>>

PutBlobs(p) ==
  LET me == l[p] IN
  /\ At(p, "put_blobs")
  /\ me.todo = {}
  /\ bl' = SetRows(bl, me.t, me.batch)
  /\ Step(p, [me EXCEPT !.pc = "put_rows", !.batch = Empty])
  /\ UNCHANGED <<ck, wr, lt, hints, backup, hist, calls>>

PutCk(p) == ck' = SetRows(ck, l[p].t, Row(l[p].id, Stored(l[p].rec)))
PutLt(p) == lt' = [lt EXCEPT ![l[p].t] = l[p].id]

\* The put is in the store: trim if there is a limit, else return.
PutEnd(p) ==
  /\ done' = [done EXCEPT ![l[p].t] = @ \cup {l[p].id}]
  /\ IF Limit # 0
     THEN Step(p, [Started(p, "put", l[p].t, "prune_keys") EXCEPT !.keep = Limit])
     ELSE Return(p)

PutRows(p) ==
  /\ At(p, "put_rows")
  /\ \/ /\ l[p].publish /\ RowOrder # "together"
        /\ IF RowOrder = "ck_first" THEN PutCk(p) /\ UNCHANGED lt
                                    ELSE PutLt(p) /\ UNCHANGED ck
        /\ Step(p, [l[p] EXCEPT !.pc = "put_rest"])
        /\ UNCHANGED done
     \/ /\ ~l[p].publish \/ RowOrder = "together"
        /\ PutCk(p)
        /\ IF l[p].publish THEN PutLt(p) ELSE UNCHANGED lt
        /\ PutEnd(p)
  /\ UNCHANGED <<wr, bl, hints, backup, arch, awr, calls>>

PutRest(p) ==
  /\ At(p, "put_rest")
  /\ IF RowOrder = "ck_first" THEN PutLt(p) /\ UNCHANGED ck
                              ELSE PutCk(p) /\ UNCHANGED lt
  /\ PutEnd(p)
  /\ UNCHANGED <<wr, bl, hints, backup, arch, awr, calls>>

-----------------------------------------------------------------------------
(* put_writes: positional writes that are stored already are skipped *)

PutWrites(p, t, id, batch) ==
  /\ Call(p, "put_writes")
  /\ Step(p, [Started(p, "put_writes", t, "write_check")
                EXCEPT !.id = id, !.batch = batch, !.todo = DOMAIN batch])
  /\ awr' = [awr EXCEPT ![t] = Over(Only(batch, {id} \X Special), Over(@, batch))]
  /\ UNCHANGED <<store, hints, backup, arch, done>>

\* Mutants: nothing is skipped; whatever is stored is skipped.
SkipsNothing(t, x) == FALSE
SkipsStored(t, x)  == x \in DOMAIN wr[t]

Skips(t, x) == x[2] \notin Special /\ x \in DOMAIN wr[t]

\* The keys one read of the store covers: contains() looks at one write, and a
\* native async store is asked for the task's keys once.
Reads(S) == IF NativeAsync THEN {S} ELSE {{x} : x \in S}

CheckWrites(p) ==
  LET me == l[p] IN
  /\ At(p, "write_check")
  /\ \E S \in Reads(me.todo) :
       LET rest == me.todo \ S
       IN  Step(p, [me EXCEPT
                      !.batch = Drop(@, {x \in S : Skips(me.t, x)}),
                      !.todo  = rest,
                      !.pc    = IF rest = {} THEN "write_flush" ELSE @])
  /\ UNCHANGED <<store, hints, backup, hist, calls>>

FlushWrites(p) ==
  LET me == l[p] IN
  /\ At(p, "write_flush")
  /\ wr' = SetRows(wr, me.t, me.batch)
  /\ Return(p)
  /\ UNCHANGED <<ck, bl, lt, hints, backup, hist, calls>>

-----------------------------------------------------------------------------
(* get_tuple: resolve the checkpoint, then assemble the tuple *)

Newest(S) == IF S = {} THEN None ELSE Max(S)

\* `id` names a checkpoint, or None asks for the latest.  `bound` is history:
\* the newest checkpoint that was put before the call began.
GetTuple(p, t, id) ==
  /\ Call(p, "get")
  /\ Step(p, [Started(p, "get", t, CASE id # None -> "get_saved"
                                     [] id = None /\ Indexed -> "get_max"
                                     [] OTHER -> "get_lt")
                EXCEPT !.id = id,
                       !.bound = IF id # None THEN None
                                 ELSE Newest(done[t] \cap DOMAIN ck[t])])
  /\ UNCHANGED <<store, hints, backup, hist>>

\* A read step of a get: it changes the caller's locals only.
ReadStep(p, label, r) ==
  /\ At(p, label)
  /\ Step(p, r)
  /\ UNCHANGED <<store, hints, backup, hist, calls>>

\* Mutant: the wrong end of the index.
MinKey(t) == IF Keys(t) = {} THEN None ELSE Min(Keys(t))

\* max_key of the thread's checkpoint namespace.
MaxKey(t) == Newest(Keys(t))

GetMax(p) ==
  LET top == MaxKey(l[p].t)
  IN  ReadStep(p, "get_max",
        [l[p] EXCEPT !.id = top, !.pc = IF top = None THEN "got" ELSE "get_saved"])

GetLatest(p) ==
  LET at == lt[l[p].t]
  IN  ReadStep(p, "get_lt",
        [l[p] EXCEPT !.id = at, !.pc = IF at = None THEN "get_keys" ELSE "get_row"])

Build == IF Incremental THEN "build_blobs" ELSE "build_keys"

\* The pointer's checkpoint: reading it is the check that it still exists.
GetPointed(p) ==
  LET r == Get(ck[l[p].t], l[p].id)
  IN  ReadStep(p, "get_row",
        [l[p] EXCEPT !.rec = r, !.pc = IF r = NoRow THEN "get_keys" ELSE Build])

\* No pointer, or it dangles: scan the thread and republish.
GetKeys(p) ==
  LET top == Newest(Keys(l[p].t))
  IN  ReadStep(p, "get_keys",
        [l[p] EXCEPT !.id = top, !.pc = IF top = None THEN "got" ELSE "get_publish"])

GetPublish(p) ==
  /\ At(p, "get_publish")
  /\ PutLt(p)
  /\ Step(p, [l[p] EXCEPT !.pc = "get_saved"])
  /\ UNCHANGED <<ck, wr, bl, hints, backup, hist, calls>>

GetSaved(p) ==
  LET r == Get(ck[l[p].t], l[p].id)
  IN  ReadStep(p, "get_saved",
        [l[p] EXCEPT !.rec = r,
                     !.id = IF r = NoRow THEN None ELSE @,
                     !.pc = IF r = NoRow THEN "got" ELSE Build])

\* The value a stored record has for a channel; None when it has none.
ValueOf(t, r, c) ==
  IF Incremental
  THEN IF <<c, r.vers[c]>> \in DOMAIN bl[t] THEN bl[t][<<c, r.vers[c]>>] ELSE None
  ELSE r.vals[c]

AttachValues(p) ==
  ReadStep(p, "build_blobs",
    [l[p] EXCEPT !.pc = "build_keys",
                 !.rec.vals = [c \in Channel |-> ValueOf(l[p].t, l[p].rec, c)]])

BuildKeys(p) ==
  ReadStep(p, "build_keys",
    [l[p] EXCEPT !.pc = "build_writes", !.todo = WritesNs(l[p].t, l[p].id)])

BuildWrites(p) ==
  ReadStep(p, "build_writes",
    [l[p] EXCEPT !.pc = "got", !.todo = {}, !.batch = Only(wr[l[p].t], l[p].todo)])

\* The tuple is handed over: get_tuple returns, list goes on unless it reached
\* its limit (kept in `keep`, 0 for None).
GetReturn(p) ==
  LET me == l[p]
  IN  ReadStep(p, "got",
        IF me.op = "list" /\ me.keep # 1
        THEN [me EXCEPT !.pc = "list_next", !.id = None, !.rec = NoRow,
                        !.batch = Empty, !.keep = IF @ = 0 THEN 0 ELSE @ - 1]
        ELSE Locals0)

-----------------------------------------------------------------------------
(* list: thread after thread, newest checkpoint first; each record is read   *)
(* and its tuple built when the iterator gets there                          *)

List(p, threads, want, before, runs, limit) ==
  /\ Call(p, "list")
  /\ Step(p, [Started(p, "list", None, "list_next")
                EXCEPT !.threads = threads \cap Namespaces,
                       !.want = want, !.before = before, !.runs = runs,
                       !.keep = limit])
  /\ UNCHANGED <<store, hints, backup, hist>>

ListKeys(p) ==
  LET me       == l[p]
      Ids(t)   == IF me.want # None THEN {me.want} ELSE Keys(t)
  IN  /\ me.ids = {}
      /\ \/ /\ me.threads = {}
            /\ ReadStep(p, "list_next", Locals0)
         \/ \E t \in me.threads :
              ReadStep(p, "list_next",
                [me EXCEPT !.t = t, !.threads = @ \ {t},
                           !.ids = {i \in Ids(t) : me.before = None \/ i < me.before}])

\* A checkpoint that is gone by now, or that the filter does not match, is
\* passed over.
ListNext(p) ==
  LET me == l[p]
      i  == Max(me.ids)
      r  == Get(ck[me.t], i)
  IN  /\ me.ids # {}
      /\ ReadStep(p, "list_next",
           IF r = NoRow \/ (me.runs # {} /\ r.run \notin me.runs)
           THEN [me EXCEPT !.ids = @ \ {i}]
           ELSE [me EXCEPT !.ids = @ \ {i}, !.id = i, !.rec = r, !.pc = Build])

-----------------------------------------------------------------------------
(* Retention: _prune_thread after a put, prune(keep_latest), and the walk    *)
(* back along the parents that delta channels are rebuilt from               *)

Prune(p, t) ==
  /\ Call(p, "prune")
  /\ Step(p, [Started(p, "prune", t, "trim_ids") EXCEPT !.keep = 1])
  /\ UNCHANGED <<store, hints, backup, hist>>

\* Mutant: the checkpoint just put is not counted.
OverBeforePut(s, t, n) ==
  LET floor == Max({Limit, prune_floor[s][t]})
  IN  n - 1 > floor + Max({PruneSlack, floor \div 4})

\* A thread is trimmed once it is a slack, or a quarter, over what the last
\* trim of it kept.
OverFloor(s, t, n) ==
  LET last  == prune_floor[s][t]
      floor == Max({Limit, IF last = 0 THEN Limit ELSE last})
  IN  n > floor + Max({PruneSlack, floor \div 4})

PruneKeys(p) ==
  LET ids == Keys(l[p].t)
  IN  ReadStep(p, "prune_keys",
        IF OverFloor(SaverOf[p], l[p].t, Cardinality(ids))
        THEN [l[p] EXCEPT !.pc = "trim_read", !.ids = ids] ELSE Locals0)

TrimIds(p) ==
  LET ids == Keys(l[p].t)
  IN  ReadStep(p, "trim_ids",
        IF ids = {} THEN Locals0 ELSE [l[p] EXCEPT !.pc = "trim_read", !.ids = ids])

\* The newest n of a set of ids.
NewestOf(S, n) == {i \in S : Cardinality({j \in S : j > i}) < n}

TrimRead(p) ==
  LET t    == l[p].t
      surv == NewestOf(l[p].ids, l[p].keep)
  IN  ReadStep(p, "trim_read",
        [l[p] EXCEPT !.pc = "trim_next", !.todo = surv, !.kept = surv,
                     !.recs = [i \in surv |-> Get(ck[t], i)]])

\* Mutant: a survivor's own channels only, nothing it is rebuilt from.
HasAll(t, r, cs) == {}

\* The delta channels among cs that a record has no value for.
Lacks(t, r, cs) == {c \in cs : ValueOf(t, r, c) = None}

\* _drop_checkpoints: blobs first, when there are any.
DropStart == IF Incremental THEN "drop_refs" ELSE "drop_writes"

\* The next survivor, oldest first, and the delta channels it lacks.
TrimNext(p) ==
  LET me == l[p]
      i  == Min(me.todo)
      r  == me.recs[i]
  IN  /\ me.todo # {}
      /\ ReadStep(p, "trim_next",
           [me EXCEPT !.todo    = @ \ {i},
                      !.pc      = IF r = NoRow \/ Delta = {} THEN "trim_next"
                                  ELSE "walk_row",
                      !.missing = IF r = NoRow THEN {} ELSE Lacks(me.t, r, Delta),
                      !.cur     = IF r = NoRow THEN None ELSE r.parent])

\* One ancestor of the walk: its row, unless it was read before ...
WalkRow(p) ==
  LET me == l[p] IN
  ReadStep(p, "walk_row",
    IF me.missing = {} \/ me.cur = None
    THEN [me EXCEPT !.pc = "trim_next", !.missing = {}, !.cur = None]
    ELSE [me EXCEPT !.pc = "walk_vals",
                    !.recs = Over(@, Row(me.cur, Get(ck[me.t], me.cur)))])

\* ... then the values it has; a missing ancestor ends the walk.
WalkVals(p) ==
  LET me == l[p]
      r  == me.recs[me.cur]
  IN  ReadStep(p, "walk_vals",
        IF r = NoRow
        THEN [me EXCEPT !.pc = "trim_next", !.missing = {}, !.cur = None]
        ELSE [me EXCEPT !.pc = "walk_row", !.needed = @ \cup {me.cur},
                        !.missing = Lacks(me.t, r, @), !.cur = r.parent])

TrimEnd(p) ==
  LET me == l[p]
  IN  /\ me.todo = {}
      /\ LET kept   == me.kept \cup me.needed
             doomed == me.ids \ kept
         IN  ReadStep(p, "trim_next",
               [me EXCEPT !.kept = kept, !.doomed = doomed, !.todo = doomed,
                          !.pc = IF doomed = {} THEN "dropped" ELSE DropStart])

-----------------------------------------------------------------------------
(* _drop_checkpoints: orphaned blobs, writes, rows, then the pointer *)

\* Mutant: looks at the oldest checkpoint that stays only.
OldestReferences(kept, recs) ==
  IF kept = {} THEN {}
  ELSE {<<c, recs[Min(kept)].vers[c]>> : c \in Channel}

\* _referenced_blobs: the versions of every checkpoint that stays.
References(kept, recs) ==
  UNION {{<<c, recs[i].vers[c]>> : c \in Channel} : i \in kept}

\* Records the walk has not read yet are read in one get_many.
DropRefs(p) ==
  LET me   == l[p]
      recs == Over(me.recs, [i \in me.kept |-> Get(ck[me.t], i)])
  IN  ReadStep(p, "drop_refs",
        [me EXCEPT !.pc = "drop_blob_keys", !.keys = References(me.kept, recs)])

OrphanBlobs(t, keep) == DOMAIN bl[t] \ keep

DropBlobKeys(p) ==
  LET me == l[p]
  IN  ReadStep(p, "drop_blob_keys",
        [me EXCEPT !.pc = "drop_blobs", !.keys = OrphanBlobs(me.t, @)])

DropBlobs(p) ==
  LET me == l[p] IN
  /\ At(p, "drop_blobs")
  /\ bl' = DropRows(bl, me.t, me.keys)
  /\ Step(p, [me EXCEPT !.pc = "drop_writes", !.keys = {}])
  /\ UNCHANGED <<ck, wr, lt, hints, backup, hist, calls>>

\* Mutant: the writes of a dropped checkpoint stay.
KeepsWrites(t, i) == {}

WritesToDrop(t, i) == WritesNs(t, i)

\* delete_namespace for one doomed checkpoint after the other.
DropWrites(p) ==
  LET me == l[p]
      i  == Min(me.todo)
  IN  /\ At(p, "drop_writes")
      /\ wr' = DropRows(wr, me.t, WritesToDrop(me.t, i))
      /\ Step(p, [me EXCEPT !.todo = @ \ {i},
                            !.pc = IF me.todo = {i} THEN "drop_rows" ELSE "drop_writes"])
      /\ UNCHANGED <<ck, bl, lt, hints, backup, hist, calls>>

DropCheckpoints(p) ==
  LET me == l[p] IN
  /\ At(p, "drop_rows")
  /\ ck' = DropRows(ck, me.t, me.doomed)
  /\ Step(p, [me EXCEPT !.pc = IF Indexed THEN "dropped" ELSE "drop_latest"])
  /\ UNCHANGED <<wr, bl, lt, hints, backup, hist, calls>>

DropLatest(p) ==
  LET me == l[p]
  IN  ReadStep(p, "drop_latest",
        [me EXCEPT !.pc = IF lt[me.t] \in me.doomed THEN "drop_fix" ELSE "dropped"])

\* Mutants: the oldest that stays; -1 when nothing stays.
RepointOldest(kept)   == IF kept = {} THEN None ELSE Min(kept)
RepointMinusOne(kept) == Max(kept \cup {-1})

RepointTo(kept) == Newest(kept)

\* The pointer named a dropped checkpoint: move it to the newest that stays.
DropFix(p) ==
  LET me == l[p] IN
  /\ At(p, "drop_fix")
  /\ lt' = [lt EXCEPT ![me.t] = RepointTo(me.kept)]
  /\ max_seen' = [max_seen EXCEPT ![SaverOf[p]][me.t] = None]
  /\ Step(p, [me EXCEPT !.pc = "dropped"])
  /\ UNCHANGED <<ck, wr, bl, prune_floor, backup, hist, calls>>

\* Back in the caller: put records what the trim kept, prune returns, and
\* delete_for_runs goes on to the next thread.
Dropped(p) ==
  LET me == l[p] IN
  /\ At(p, "dropped")
  /\ prune_floor' = IF me.op # "put" THEN prune_floor
                    ELSE [prune_floor EXCEPT ![SaverOf[p]] =
                            BoundedSet(@, me.t, Cardinality(me.kept))]
  /\ IF me.op = "delete_for_runs"
     THEN Step(p, [Started(p, me.op, me.t, "runs_next")
                     EXCEPT !.threads = me.threads, !.runs = me.runs])
     ELSE Return(p)
  /\ UNCHANGED <<store, max_seen, backup, hist, calls>>

-----------------------------------------------------------------------------
(* delete_for_runs: thread after thread, the checkpoints of the given runs *)

DeleteForRuns(p, runs) ==
  /\ Call(p, "delete_for_runs")
  /\ runs # {}
  /\ Step(p, [Started(p, "delete_for_runs", None, "runs_next")
                EXCEPT !.runs = runs,
                       !.threads = Namespaces])
  /\ UNCHANGED <<store, hints, backup, hist>>

RunsKeys(p) ==
  LET me == l[p] IN
  \/ /\ me.threads = {}
     /\ ReadStep(p, "runs_next", Locals0)
  \/ \E t \in me.threads :
       ReadStep(p, "runs_next",
         [me EXCEPT !.pc = "runs_read", !.t = t, !.threads = @ \ {t},
                    !.ids = Keys(t)])

RunsRead(p) ==
  LET me     == l[p]
      doomed == {i \in me.ids \cap DOMAIN ck[me.t] : ck[me.t][i].run \in me.runs}
  IN  ReadStep(p, "runs_read",
        IF doomed = {} THEN [me EXCEPT !.pc = "runs_next"]
        ELSE [me EXCEPT !.pc = DropStart, !.doomed = doomed, !.todo = doomed,
                        !.kept = me.ids \ doomed])

-----------------------------------------------------------------------------
(* delete_thread: checkpoints, writes, blobs, the pointer, then the hints.   *)
(* Listing a namespace and deleting it is one step: only deleting shows.     *)

DeleteThread(p, t) ==
  /\ Call(p, "delete_thread")
  /\ Step(p, Started(p, "delete_thread", t, "del_ck"))
  /\ UNCHANGED <<store, hints, backup, hist>>

DeleteCk(p) ==
  /\ At(p, "del_ck")
  /\ ck' = [ck EXCEPT ![l[p].t] = Empty]
  /\ Step(p, [l[p] EXCEPT !.pc = "del_wr_list"])
  /\ UNCHANGED <<wr, bl, lt, hints, backup, hist, calls>>

DeleteListWrites(p) ==
  LET me  == l[p]
      nss == {x[1] : x \in DOMAIN wr[me.t]}
  IN  ReadStep(p, "del_wr_list",
        [me EXCEPT !.todo = nss, !.pc = IF nss = {} THEN "del_bl" ELSE "del_wr"])

DeleteWrites(p) ==
  LET me == l[p] IN
  /\ At(p, "del_wr")
  /\ \E i \in me.todo :
       /\ wr' = DropRows(wr, me.t, WritesNs(me.t, i))
       /\ Step(p, [me EXCEPT !.todo = @ \ {i},
                             !.pc = IF me.todo = {i} THEN "del_bl" ELSE "del_wr"])
  /\ UNCHANGED <<ck, bl, lt, hints, backup, hist, calls>>

\* Mutant: the channel blobs are left behind.
BlobsStay(t) == UNCHANGED bl

DropThreadBlobs(t) == bl' = [bl EXCEPT ![t] = Empty]

DeleteBlobs(p) ==
  /\ At(p, "del_bl")
  /\ DropThreadBlobs(l[p].t)
  /\ Step(p, [l[p] EXCEPT !.pc = "del_lt"])
  /\ UNCHANGED <<ck, wr, lt, hints, backup, hist, calls>>

DeleteLatest(p) ==
  LET t == l[p].t
      s == SaverOf[p]
  IN  /\ At(p, "del_lt")
      /\ lt' = IF Indexed THEN lt ELSE [lt EXCEPT ![t] = None]
      /\ max_seen' = [max_seen EXCEPT ![s][t] = None]
      /\ prune_floor' = [prune_floor EXCEPT ![s][t] = 0]
      /\ Return(p)
      /\ UNCHANGED <<ck, wr, bl, backup, hist, calls>>

-----------------------------------------------------------------------------
(* copy_thread: one step per kind of row, then the target's pointer.  `t` is *)
(* the source and `id` is not used; the target is kept in `threads`.         *)

CopyThread(p, from, to) ==
  /\ Call(p, "copy_thread")
  /\ from # to
  /\ Step(p, [Started(p, "copy_thread", from, "copy_ck") EXCEPT !.threads = {to}])
  /\ UNCHANGED <<store, hints, backup, hist>>

Target(p) == CHOOSE t \in l[p].threads : TRUE

CopyRows(var, from, to) == [var EXCEPT ![to] = Over(var[from], @)]

CopyCk(p) ==
  /\ At(p, "copy_ck")
  /\ ck' = CopyRows(ck, l[p].t, Target(p))
  /\ arch' = SetRows(arch, Target(p), Only(arch[l[p].t], DOMAIN ck[l[p].t]))
  /\ Step(p, [l[p] EXCEPT !.pc = "copy_wr"])
  /\ UNCHANGED <<wr, bl, lt, hints, backup, awr, done, calls>>

CopyWr(p) ==
  /\ At(p, "copy_wr")
  /\ wr' = CopyRows(wr, l[p].t, Target(p))
  /\ awr' = CopyRows(awr, l[p].t, Target(p))
  /\ Step(p, [l[p] EXCEPT !.pc = "copy_bl"])
  /\ UNCHANGED <<ck, bl, lt, hints, backup, arch, done, calls>>

\* Mutant: the blobs are not copied.
CopyNoBlobs(from, to) == UNCHANGED bl

CopyBlobs(from, to) == bl' = CopyRows(bl, from, to)

CopyBl(p) ==
  /\ At(p, "copy_bl")
  /\ CopyBlobs(l[p].t, Target(p))
  /\ Step(p, [l[p] EXCEPT !.pc = "copy_lt"])
  /\ UNCHANGED <<ck, wr, lt, hints, backup, hist, calls>>

\* Mutant: the source's newest checkpoint.
SourceTop(from, to) == MaxKey(from)

TopAfterCopy(from, to) == MaxKey(to)

CopyLatest(p) ==
  LET to  == Target(p)
      top == TopAfterCopy(l[p].t, to)
  IN  /\ At(p, "copy_lt")
      /\ IF Indexed \/ top = None
         THEN UNCHANGED <<lt, max_seen>>
         ELSE /\ lt' = [lt EXCEPT ![to] = top]
              /\ max_seen' = [max_seen EXCEPT ![SaverOf[p]] = BoundedSet(@, to, top)]
      /\ done' = [done EXCEPT ![to] = @ \cup DOMAIN ck[to]]
      /\ Return(p)
      /\ UNCHANGED <<ck, wr, bl, prune_floor, backup, arch, awr, calls>>

-----------------------------------------------------------------------------
(* An operator rolls the whole store back: Store.snapshot and Store.restore *)

SnapshotStore(p) ==
  /\ Call(p, "snapshot")
  /\ backup' = <<ck, wr, bl, lt, awr>>
  /\ UNCHANGED <<store, hints, hist, l>>

RestoreStore(p) ==
  /\ Call(p, "restore")
  /\ backup # <<>>
  /\ ck' = backup[1] /\ wr' = backup[2] /\ bl' = backup[3] /\ lt' = backup[4]
  /\ awr' = backup[5]
  /\ UNCHANGED <<hints, backup, arch, done, l>>

-----------------------------------------------------------------------------

\* The checkpoints LangGraph may put next: a fresh id, continuing a stored
\* checkpoint; the first one of a thread sets every channel.
Parents(t) ==
  IF DOMAIN ck[t] = {} THEN {None}
  ELSE NewestOf(DOMAIN ck[t], Window)
UsedIds == UNION {DOMAIN arch[t] : t \in Thread}
FreshIds(parent) ==
  {i \in Id \ UsedIds : i > parent /\ (InOrder => \A j \in Id \ UsedIds : i <= j)}
Updates(parent) == IF parent = None THEN {Channel} ELSE SUBSET Channel \ {{}}

Invoke(p) ==
  \E t \in Thread :
    \/ \E parent \in Parents(t), run \in Run :
         \E id \in FreshIds(parent), upd \in Updates(parent) :
           \E snapped \in SUBSET (upd \cap Delta) :
             Put(p, t, id, parent, upd, snapped, run)
    \/ \E id \in DOMAIN ck[t], K \in SUBSET WKey \ {{}} :
         \E b \in [{id} \X K -> WVal] : PutWrites(p, t, id, b)
    \/ \E id \in {None} \cup DOMAIN ck[t] : GetTuple(p, t, id)
    \/ \E id \in DOMAIN ck[t] : List(p, {t}, id, None, {}, 0)
    \/ \E before \in {None} \cup DOMAIN ck[t], limit \in {0, 1} :
         List(p, {t}, None, before, {}, limit)
    \/ Prune(p, t) \/ DeleteThread(p, t)
    \/ \E u \in Thread : CopyThread(p, t, u)

Administer(p) ==
  \/ \E runs \in SUBSET Run, limit \in {0, 1} :
       List(p, Thread, None, None, runs, limit)
  \/ \E runs \in SUBSET Run : DeleteForRuns(p, runs)
  \/ SnapshotStore(p) \/ RestoreStore(p)

Continue(p) ==
  \/ PutHint(p) \/ PutBlobContains(p) \/ PutBlobs(p) \/ PutRows(p) \/ PutRest(p)
  \/ CheckWrites(p) \/ FlushWrites(p)
  \/ GetMax(p) \/ GetLatest(p) \/ GetPointed(p) \/ GetKeys(p) \/ GetPublish(p)
  \/ GetSaved(p) \/ AttachValues(p) \/ BuildKeys(p) \/ BuildWrites(p)
  \/ GetReturn(p) \/ ListKeys(p) \/ ListNext(p)
  \/ PruneKeys(p) \/ TrimIds(p) \/ TrimRead(p) \/ TrimNext(p) \/ WalkRow(p)
  \/ WalkVals(p) \/ TrimEnd(p)
  \/ DropRefs(p) \/ DropBlobKeys(p) \/ DropBlobs(p) \/ DropWrites(p)
  \/ DropCheckpoints(p) \/ DropLatest(p) \/ DropFix(p) \/ Dropped(p)
  \/ RunsKeys(p) \/ RunsRead(p)
  \/ DeleteCk(p) \/ DeleteListWrites(p) \/ DeleteWrites(p) \/ DeleteBlobs(p)
  \/ DeleteLatest(p)
  \/ CopyCk(p) \/ CopyWr(p) \/ CopyBl(p) \/ CopyLatest(p)

Next == \E p \in Proc : Invoke(p) \/ Administer(p) \/ Continue(p)

Spec == Init /\ [][Next]_vars

-----------------------------------------------------------------------------
(* get_delta_channel_history, over any rows, writes and values *)

\* What channel c is rebuilt from at checkpoint i: the writes of its ancestors
\* back to the nearest one that has a value for it, and that value.
DeltaHistory(rows, writes, vals, i, c) ==
  LET Own(j) == {<<x, writes[x]>> :
                   x \in {y \in DOMAIN writes : y[1] = j /\ ChanOf[y[2]] = c}}
      From[j \in IdOrNo] ==
        IF j \notin DOMAIN rows THEN [seed |-> None, writes |-> {}]
        ELSE IF vals[j][c] # None THEN [seed |-> vals[j][c], writes |-> Own(j)]
        ELSE LET rest == From[rows[j].parent]
             IN  [rest EXCEPT !.writes = @ \cup Own(j)]
  IN  From[rows[i].parent]

-----------------------------------------------------------------------------
(* Properties *)

Quiescent == \A p \in Proc : At(p, "idle")

\* `latest` is max(checkpoint_id), whatever was put, trimmed, deleted, copied or
\* rolled back before: with no call in progress the pointer a reader follows
\* names the newest stored checkpoint (a dangling one is not followed).
LatestIsMax ==
  Quiescent => \A t \in Thread :
                 lt[t] \in DOMAIN ck[t] => lt[t] = Newest(DOMAIN ck[t])

\* A get_tuple for the latest checkpoint never returns one that is older than a
\* checkpoint whose put had returned before the call, in any saver.
FreshRead ==
  \A p \in Proc :
    LET me == l[p]
    IN  At(p, "got") /\ me.bound \in DOMAIN ck[me.t] => me.id >= me.bound

\* A stored checkpoint that no call is about to drop.
Stays(t, i) == i \in DOMAIN ck[t] /\ \A q \in Proc : l[q].t = t => i \notin l[q].doomed

\* A tuple that get_tuple returns has the channel values that were put with its
\* checkpoint, also while other callers put: a put stores its blobs before the
\* row that refers to them, and no trim, copy or rollback loses or mixes the
\* values of a checkpoint that stays.
TupleValues ==
  \A p \in Proc :
    At(p, "got") /\ Stays(l[p].t, l[p].id) =>
      l[p].rec.vals = arch[l[p].t][l[p].id].vals

\* The tuple also has exactly the pending writes the checkpoint was given: the
\* first value of each positional write, the last of each special one.
TupleWrites ==
  \A p \in Proc :
    LET given == awr[l[p].t]
    IN  At(p, "got") /\ l[p].id # None =>
          l[p].batch = Only(given, {x \in DOMAIN given : x[1] = l[p].id})

\* Retention is invisible to delta channels: for the newest checkpoints, what a
\* channel is rebuilt from is what it would be had nothing ever been dropped.
DeltaPreserved ==
  Quiescent =>
    \A t \in Thread : \A i \in NewestOf(DOMAIN ck[t], Window), c \in Delta :
      LET kept  == [j \in DOMAIN ck[t] |-> [e \in Delta |-> ValueOf(t, ck[t][j], e)]]
          given == [j \in DOMAIN arch[t] |-> arch[t][j].vals]
      IN  \/ kept[i][c] # None
          \/ DeltaHistory(ck[t], wr[t], kept, i, c)
               = DeltaHistory(arch[t], awr[t], given, i, c)

\* Nothing outlives its checkpoint: with no call in progress every pending
\* write and every blob belongs to a stored checkpoint and the pointer does not
\* dangle, so a deleted thread is really gone and a trimmed one does not leak.
NoLeftovers ==
  Quiescent =>
    \A t \in Thread :
      /\ \A x \in DOMAIN wr[t] : x[1] \in DOMAIN ck[t]
      /\ DOMAIN bl[t] \subseteq References(DOMAIN ck[t], ck[t])
      /\ lt[t] \in {None} \cup DOMAIN ck[t]

\* Retention bounds a thread of plain channels: no more checkpoints than the
\* limit and the slack, however the saver's hints come and go.
RetentionBound ==
  Quiescent /\ Limit # 0 /\ Delta = {} =>
    \A t \in Thread :
      Cardinality(DOMAIN ck[t]) <= Limit + Max({PruneSlack, Limit \div 4})

\* Positional writes are write-once: no step changes one that is stored.
WriteOnce ==
  [][\A t \in Thread : \A x \in DOMAIN wr[t] \cap DOMAIN wr'[t] :
       x[2] \notin Special => wr'[t][x] = wr[t][x]]_vars
=============================================================================

----------------------------- MODULE Backends ------------------------------
(***************************************************************************)
(* A store on one of the persistent backends, used by several callers at   *)
(* once, any of whose calls may fail at any point.                         *)
(***************************************************************************)
EXTENDS DiskStore, PostgresStore, RedisStore

DiskCall(c) ==
  \/ \E p \in Pair : Disk_set(c, p) \/ Disk_delete(c, p)
  \/ \E n \in NS : Disk_delete_namespace(c, n)
  \/ Disk_clear(c)
  \/ \E qs \in Lists : Disk_set_many(c, qs) \/ Disk_delete_many(c, qs)
  \/ Disk_get_many(c, Pair)
  \/ Disk_snapshot(c)
  \/ \E s \in snaps : Disk_restore(c, s)

\* What has an asynchronous twin, which sends the same statements.
PgTwins(c) ==
  \/ \E p \in Pair : Pg_set(c, p) \/ Pg_delete(c, p)
  \/ \E n \in NS : Pg_delete_namespace(c, n)
  \/ \E qs \in Lists : Pg_set_many(c, qs) \/ Pg_delete_many(c, qs)
  \/ Pg_get_many(c, Pair)

PgCall(c) ==
  \/ PgTwins(c)
  \/ /\ c \notin Task
     /\ Pg_clear(c) \/ Pg_snapshot(c) \/ \E s \in snaps : Pg_restore(c, s)

RedisTwins(c) ==
  \/ \E p \in Pair : Redis_set(c, p) \/ Redis_delete(c, p)
  \/ \E n \in NS : Redis_delete_namespace(c, n)
  \/ \E qs \in Lists : Redis_set_many(c, qs) \/ Redis_delete_many(c, qs)
  \/ Redis_get_many(c, Pair)

RedisCall(c) ==
  \/ RedisTwins(c)
  \/ /\ c \notin Task
     /\ Redis_clear(c) \/ Redis_snapshot(c) \/ \E s \in snaps : Redis_restore(c, s)

\* A step of the call under way.
Advance(c) ==
  \/ kind = "disk" /\ DiskStep(c)
  \/ kind = "postgres" /\ PgStep(c)
  \/ kind = "redis" /\ RedisStep(c)
  \/ Read(c)
  \/ Got(c)
  \/ Stamp(c)

Next ==
  \E c \in Client :
    \/ kind = "disk" /\ DiskCall(c)
    \/ kind = "postgres" /\ PgCall(c)
    \/ kind = "redis" /\ RedisCall(c)
    \/ Advance(c)
    \/ Fail(c)

Spec     == BackendInit /\ [][Next]_vars
FairSpec == Spec /\ \A c \in Client : WF_vars(Advance(c))

-----------------------------------------------------------------------------
(* Properties *)

\* The rows that only a wipe running elsewhere may have left alone: they were
\* not there at some moment since it looked.
MayMiss(c, p) ==
  /\ kind # "disk"
  /\ call[c].ask[p] = Nil
  /\ rows'[p] = rows[p]
  /\ \E r \in call[c].seen : r[p] = Nil

\* Whatever changes the rows is one call taking effect as a whole: a set_many
\* (disk.py:131, postgres.py:206, redis.py:153) lands with all its rows, a
\* restore leaves the snapshot, a clear nothing, and no other row is touched.
\* On Postgres and Redis, where the rows to delete are picked before they are
\* deleted, a row created in between may survive.
LandsWhole(c) ==
  /\ \A p \in Pair \ DOMAIN call[c].ask : rows'[p] = rows[p]
  /\ \A p \in DOMAIN call[c].ask : rows'[p] = call[c].ask[p] \/ MayMiss(c, p)

WholeWrites == [][\E c \in Client : call[c].pc # "idle" /\ LandsWhole(c)]_rows

\* The sets of rows that one read of a call must have seen at one moment.
Grains(op) ==
  CASE kind = "redis" /\ op = "get_many" -> {{p} : p \in Pair}
    [] kind = "redis" /\ op = "snapshot" -> {Of(n) : n \in NS}
    [] kind = "disk"  /\ op = "get_many" -> {Of(n) : n \in NS}
    [] OTHER -> {Pair}

\* What get_many and snapshot return was in the store while they ran: on the
\* SQL backends a snapshot is the store at one moment, on Redis each hash is;
\* get_many is coherent as a whole on Postgres, per namespace on SQLite, per
\* row on Redis.
ReadsCoherent ==
  \A c \in Client :
    call[c].op \in Reads /\ call[c].todo = <<>> /\ call[c].pc # "scan" =>
      \A g \in Grains(call[c].op) : \E r \in call[c].seen :
        \A p \in g : Overlay(Gone(Pair), call[c].work)[p] = r[p]

\* Every call returns or raises: no lock outlives the call that took it, and
\* batches that lock rows in opposite orders do not wait for each other forever.
CallsReturn == \A c \in Client : call[c].pc # "idle" ~> call[c].pc = "idle"

\* A snapshot is the store at one moment, whichever backend took it.
PointInTime ==
  \A c \in Client :
    call[c].pc = "stamp" => Overlay(Gone(Pair), call[c].work) \in call[c].seen

=============================================================================

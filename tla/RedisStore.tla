----------------------------- MODULE RedisStore -----------------------------
(***************************************************************************)
(* backends/redis.py: one hash per namespace.  A command, or a MULTI/EXEC  *)
(* pipeline, is one step of the server; a plain pipeline is one step per   *)
(* command.  The hashes of the store are found with SCAN, which returns    *)
(* what is there when it comes by: clear, snapshot and restore work from   *)
(* that list, after the fact.                                              *)
(***************************************************************************)
EXTENDS Backend

Redis_set(c, p)              == Call(c, "set", "exec", All({p}, ValOf[c]), <<>>)
Redis_delete(c, p)           == Call(c, "delete", "exec", Gone({p}), <<>>)
Redis_set_many(c, qs)        == Call(c, "set_many", "exec",
                                     All(Listed(qs), ValOf[c]), <<>>)
Redis_delete_many(c, qs)     == Call(c, "delete_many", "exec",
                                     Gone(Listed(qs)), <<>>)
Redis_delete_namespace(c, n) == Call(c, "delete_namespace", "exec", Gone(Of(n)), <<>>)

Redis_get_many(c, S) ==
  \E q \in Orders(S) :
    Call(c, "get_many", "read", NoRows, [i \in DOMAIN q |-> Send("read", {q[i]}, Nil)])

Redis_clear(c)      == Call(c, "clear", "scan", Gone(Pair), <<>>)
Redis_restore(c, s) == Call(c, "restore", "scan", s.rows, <<>>)
Redis_snapshot(c)   == MaySnap /\ Call(c, "snapshot", "scan", NoRows, <<>>)

\* Where a scanning call goes when r is what is left of its scan.
Scanned(r) ==
  IF r.left # {} \/ (r.op = "snapshot" /\ r.list # {}) THEN r
  ELSE [r EXCEPT !.pc = IF r.op = "snapshot" THEN "stamp" ELSE "exec"]

\* _iter_hkeys: SCAN comes by the hash of one more namespace.
RedisScan(c) ==
  LET me == call[c] IN
  /\ me.pc = "scan"
  /\ \E n \in me.left :
       LET there == \E p \in Of(n) : rows[p] # Nil
       IN  Go(c, Scanned([me EXCEPT !.left = @ \ {n},
                                    !.list = IF there THEN @ \cup {n} ELSE @]))

\* snapshot: HGETALL of a hash SCAN returned; empty if it is gone by now.
RedisHGetAll(c) ==
  LET me == call[c] IN
  /\ me.pc = "scan" /\ me.op = "snapshot"
  /\ \E n \in me.list :
       Go(c, Scanned([me EXCEPT !.list = @ \ {n},
                        !.work = Overlay(@, [p \in Of(n) |-> rows[p]])]))

\* The commands a call executes in one go: clear and restore delete the hashes
\* SCAN returned, restore then writes the rows of the snapshot.
Commands(me) ==
  IF me.op \in {"clear", "restore"}
  THEN Overlay(Gone(UNION {Of(n) : n \in me.list}),
               [p \in Present(me.ask) |-> me.ask[p]])
  ELSE me.ask

RedisExec(c) ==
  /\ call[c].pc = "exec"
  /\ Land(c, Overlay(rows, Commands(call[c])))

RedisStep(c) == RedisScan(c) \/ RedisHGetAll(c) \/ RedisExec(c)
=============================================================================

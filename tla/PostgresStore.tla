--------------------------- MODULE PostgresStore ---------------------------
(***************************************************************************)
(* backends/postgres.py: one table, autocommit connections from a pool,    *)
(* READ COMMITTED.  Rows are locked one by one as statements come to them  *)
(* and stay locked until the transaction ends; a DELETE picks its rows     *)
(* from what is committed when the statement starts, waits for each, and   *)
(* does not see rows inserted meanwhile.  The asynchronous twins send the  *)
(* same statements; clear, snapshot and restore have none.                 *)
(***************************************************************************)
EXTENDS Backend

PgUpsert(c, op, qs) ==
  Call(c, op, "rows", All(Listed(qs), ValOf[c]), Upserts(qs, ValOf[c]))

Pg_set(c, p)       == PgUpsert(c, "set", <<p>>)
Pg_set_many(c, qs) == PgUpsert(c, "set_many", qs)

PgDelete(c, op, S) == Call(c, op, "rows", Gone(S), <<Send("delete", S, Nil)>>)

Pg_delete(c, p)           == PgDelete(c, "delete", {p})
Pg_delete_many(c, qs)     == PgDelete(c, "delete_many", Listed(qs))
Pg_delete_namespace(c, n) == PgDelete(c, "delete_namespace", Of(n))
Pg_clear(c)               == PgDelete(c, "clear", Pair)

Pg_restore(c, s) ==
  \E qs \in Orders(Present(s.rows)) :
    Call(c, "restore", "rows", s.rows,
         <<Send("delete", Pair, Nil)>> \o Inserts(s.rows, qs))

Pg_get_many(c, S) == Call(c, "get_many", "read", NoRows, <<Send("read", S, Nil)>>)

Pg_snapshot(c) ==
  /\ MaySnap
  /\ Call(c, "snapshot", "read", NoRows, <<Send("read", Pair, Nil)>>)

\* A DELETE starts: its rows are fixed, in the order it will come to them.
PgPickRows(c) ==
  LET me == call[c]
      s  == Head(me.todo)
  IN  /\ me.pc = "rows" /\ me.todo # <<>> /\ s.do = "delete"
      /\ \E q \in Orders({p \in s.at : rows[p] # Nil}) :
           Go(c, [me EXCEPT !.seen = {rows},
                            !.todo = [i \in DOMAIN q |-> Send("drop", {q[i]}, Nil)]
                                     \o Tail(me.todo)])

\* The next row of the transaction, once nobody else has it locked.  A row
\* another transaction deleted meanwhile is passed over.
PgRow(c) ==
  LET me == call[c]
      s  == Head(me.todo)
  IN  /\ me.pc = "rows" /\ me.todo # <<>> /\ s.do # "delete"
      /\ ~ Locked(c, s.at)
      /\ ~ (s.do = "insert" /\ \E p \in s.at : Overlay(rows, me.work)[p] # Nil)
      /\ IF s.do = "drop" /\ \E p \in s.at : \E r \in me.seen : r[p] = Nil
         THEN Go(c, [me EXCEPT !.todo = Tail(@)])
         ELSE Go(c, [me EXCEPT !.todo = Tail(@), !.held = @ \cup s.at,
                               !.work = Overlay(@, [p \in s.at |-> s.v])])

\* INSERT (restore) meets a row committed since its DELETE: UniqueViolation,
\* the transaction is rolled back and restore raises.
PgUnique(c) ==
  LET me == call[c]
      s  == Head(me.todo)
  IN  /\ me.pc = "rows" /\ me.todo # <<>> /\ s.do = "insert"
      /\ ~ Locked(c, s.at)
      /\ \E p \in s.at : Overlay(rows, me.work)[p] # Nil
      /\ Go(c, Idle)

PgCommit(c) ==
  /\ call[c].pc = "rows" /\ call[c].todo = <<>>
  /\ Land(c, Overlay(rows, call[c].work))

\* The clients that hold the row c's transaction comes to next.
WaitsFor(c) ==
  IF call[c].pc = "rows" /\ call[c].todo # <<>> /\ Head(call[c].todo).do # "delete"
  THEN {d \in Client \ {c} : call[d].held \cap Head(call[c].todo).at # {}}
  ELSE {}

\* The server's deadlock detector: a transaction of the cycle is aborted.
PgDeadlock(c) ==
  /\ \E S \in SUBSET Client : c \in S /\ \A d \in S : WaitsFor(d) \cap S # {}
  /\ Go(c, Idle)

PgStep(c) == PgPickRows(c) \/ PgRow(c) \/ PgUnique(c) \/ PgCommit(c) \/ PgDeadlock(c)
=============================================================================

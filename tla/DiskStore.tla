----------------------------- MODULE DiskStore -----------------------------
(***************************************************************************)
(* backends/disk.py: one SQLite file in WAL mode, one connection per       *)
(* thread, autocommit.  A single statement is its own transaction; the     *)
(* batches and restore run between BEGIN IMMEDIATE and COMMIT, holding the *)
(* file's one write lock.  Readers see what is committed.                  *)
(***************************************************************************)
EXTENDS Backend

Disk_set(c, p)               == Call(c, "set", "auto", All({p}, ValOf[c]), <<>>)
Disk_delete(c, p)            == Call(c, "delete", "auto", Gone({p}), <<>>)
Disk_delete_namespace(c, n)  == Call(c, "delete_namespace", "auto", Gone(Of(n)), <<>>)
Disk_clear(c)                == Call(c, "clear", "auto", Gone(Pair), <<>>)

\* An autocommitted statement waits for the write lock and takes effect.
DiskAuto(c) ==
  /\ call[c].pc = "auto"
  /\ ~ Locked(c, Pair)
  /\ Land(c, Overlay(rows, call[c].ask))

Disk_set_many(c, qs) ==
  Call(c, "set_many", "begin", All(Listed(qs), ValOf[c]), Upserts(qs, ValOf[c]))

Disk_delete_many(c, qs) ==
  Call(c, "delete_many", "begin", Gone(Listed(qs)),
       [i \in DOMAIN qs |-> Send("delete", {qs[i]}, Nil)])

Disk_restore(c, s) ==
  \E qs \in Orders(Present(s.rows)) :
    Call(c, "restore", "begin", s.rows,
         <<Send("delete", Pair, Nil)>> \o Inserts(s.rows, qs))

\* _transaction: BEGIN IMMEDIATE ...
DiskBegin(c) ==
  /\ call[c].pc = "begin"
  /\ ~ Locked(c, Pair)
  /\ Go(c, [call[c] EXCEPT !.pc = "rows", !.held = Pair])

\* Mutant: no transaction, every statement commits on its own.
DiskRowAutocommit(c) ==
  LET me == call[c] IN
  /\ me.pc = "rows" /\ me.todo # <<>>
  /\ rows' = Overlay(rows, [p \in Head(me.todo).at |-> Head(me.todo).v])
  /\ call' = [call EXCEPT ![c] = [me EXCEPT !.todo = Tail(@)]]
  /\ UNCHANGED <<kind, calls, meta>>

\* ... one statement after the other, seen by nobody else ...
DiskRow(c) ==
  LET me == call[c] IN
  /\ me.pc = "rows" /\ me.todo # <<>>
  /\ Go(c, [me EXCEPT !.todo = Tail(@),
              !.work = Overlay(@, [p \in Head(me.todo).at |-> Head(me.todo).v])])

\* ... COMMIT.  (ROLLBACK is Fail.)
DiskCommit(c) ==
  /\ call[c].pc = "rows" /\ call[c].todo = <<>>
  /\ Land(c, Overlay(rows, call[c].work))

\* Mutant: one query per pair.
Disk_get_many_by_pair(c, S) ==
  \E q \in Orders(S) :
    Call(c, "get_many", "read", NoRows, [i \in DOMAIN q |-> Send("read", {q[i]}, Nil)])

\* One query per namespace, in the order the namespaces first occur.  (Up to
\* _MAX_PARAMS - 1 keys of a namespace go into one query.)
Disk_get_many(c, S) ==
  \E q \in Orders({p[1] : p \in S}) :
    Call(c, "get_many", "read", NoRows,
         [i \in DOMAIN q |-> Send("read", S \cap Of(q[i]), Nil)])

Disk_snapshot(c) ==
  /\ MaySnap
  /\ Call(c, "snapshot", "read", NoRows, <<Send("read", Pair, Nil)>>)

DiskStep(c) == DiskAuto(c) \/ DiskBegin(c) \/ DiskRow(c) \/ DiskCommit(c)
=============================================================================

------------------------------ MODULE Clients ------------------------------
(***************************************************************************)
(* Clients of one store at work at once: a process that copies, dumps and  *)
(* loads it (Portability), a crew's memory (CrewMemory), and a program     *)
(* that sets and deletes rows.                                             *)
(***************************************************************************)
EXTENDS Portability, CrewMemory

CONSTANTS
  Rows,    \* the contents to begin with
  Values   \* what the program writes

\* In the namespace of the crew are entries and None, under keys whose suffixes, if
\* they have any, will not be drawn again.
ASSUME RowsAssumption ==
  /\ IsFiniteSet(DOMAIN Rows)
  /\ DOMAIN Rows \subseteq Seq(Point) \X Seq(Nat)
  /\ \A r \in DOMAIN Rows : r[1] = CrewNs =>
       /\ Parses(r[2]) => r[2][2] \notin Suffix
       /\ Rows[r] # Null => Rows[r].value \in Text
  /\ "port" \notin Caller

vars == <<store, portvars, crewvars>>

Init ==
  /\ src = Rows
  /\ seen = [w \in Watcher |-> {}]
  /\ left \in Budgets
  /\ PortInit
  /\ CrewInit

\* External: a program that uses the store.
Write(r, v) ==
  /\ Calls("program")
  /\ Becomes(Merge(src, [x \in {r} |-> v]))

Delete(r) ==
  /\ r \in DOMAIN src
  /\ Calls("program")
  /\ Becomes(Without(src, {r}))

Next ==
  \/ PortNext /\ UNCHANGED crewvars
  \/ CrewNext /\ UNCHANGED portvars
  \/ \E r \in {q \in DOMAIN Rows : q[1] # CrewNs} :
       /\ (\E v \in Values : Write(r, v)) \/ Delete(r)
       /\ UNCHANGED <<portvars, crewvars>>

Spec == Init /\ [][Next]_vars
=============================================================================

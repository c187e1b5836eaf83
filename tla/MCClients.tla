----------------------------- MODULE MCClients -----------------------------
(***************************************************************************)
(* An instance of Clients.  Code points 0 .. 3, of which 2 is a surrogate. *)
(***************************************************************************)
EXTENDS Clients, TLC

CONSTANTS o1, o2, c1, c2, c3, a, b, x

MCWatcher  == {"port", c1, c2, c3}
MCObjOf    == (c1 :> o1) @@ (c2 :> o1) @@ (c3 :> o2)
MCCrewNs   == <<3>>
MCPrefixes == {<<>>, <<1>>, <<1, 3>>, <<3>>}
MCScore    == (a :> 1) @@ (b :> 2)

\* Two namespaces, one a prefix of the other, a stored None, and a foreign key
\* in the namespace of the crew.
MCRows == [r \in {<<<<1>>, <<1>>>>, <<<<1>>, <<2>>>>, <<<<1, 3>>, <<1>>>>, <<<<3>>, <<1>>>>} |->
             IF r[1] = <<1, 3>> THEN x ELSE Null]

\* Dumps, crashes and loads against a write or two, a copy against a crew,
\* a crew by itself.
MCBudgets == {[port |-> 3, crew |-> 0, program |-> 1],
              [port |-> 2, crew |-> 0, program |-> 2],
              [port |-> 1, crew |-> 2, program |-> 0],
              [port |-> 0, crew |-> 4, program |-> 0]}

\* The two threads of one object may be swapped.
Threads == Permutations({c1, c2})
=============================================================================

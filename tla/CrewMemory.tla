----------------------------- MODULE CrewMemory -----------------------------
(***************************************************************************)
(* integrations/crewai.py: SwarmStateStorage.  Several objects (threads    *)
(* share one, processes have their own) keep one memory in one namespace   *)
(* of a store.                                                             *)
(*                                                                         *)
(* A key "000000000007-1f2e3d4c" is <<7, suffix>>; the keys others wrote   *)
(* into the namespace do not parse and are no pairs.                       *)
(***************************************************************************)
EXTENDS SharedStore

CONSTANTS
  Caller,     \* threads that use the memory
  Object,     \* SwarmStateStorage objects
  ObjOf,      \* the object of each caller
  CrewNs,     \* self.namespace
  Suffix,     \* uuid4().hex[:8]
  Text,       \* what may be remembered
  Score,      \* of each text, for the query that is searched for
  Thresholds, \* score_threshold, as passed in
  Limit       \* limit

ASSUME CrewAssumption ==
  /\ Caller \subseteq Watcher
  /\ ObjOf \in [Caller -> Object]
  /\ CrewNs \in Seq(Point)
  /\ Suffix \subseteq Nat
  /\ Score \in [Text -> Nat]
  /\ Thresholds \subseteq Nat
  /\ Limit \in Nat

VARIABLES
  seqs,   \* _seq of each object; Unset before its first save
  used,   \* suffixes drawn so far
  crew    \* per caller, the call under way

crewvars == <<seqs, used, crew>>

Unset  == 0 - 1
Absent == [r \in {} |-> 0]
Idle   == [pc |-> "idle", key |-> <<>>, val |-> Null, min |-> 0, ks |-> {},
           got |-> Absent]

CrewInit ==
  /\ seqs = [o \in Object |-> Unset]
  /\ used = {}
  /\ crew = [c \in Caller |-> Idle]

CrewRows  == {r \in DOMAIN src : r[1] = CrewNs}
Parses(k) == Len(k) = 2

-----------------------------------------------------------------------------
\* Mutant: the counter starts from the number of entries.
HighestCounted == Cardinality(keys(CrewNs))

\* _highest_seq
Highest ==
  LET ns == {k[1] : k \in {l \in keys(CrewNs) : Parses(l)}} \cup {0}
  IN  CHOOSE n \in ns : \A m \in ns : m <= n

\* Mutant: the suffix tells nobody apart.
AnySuffix == {CHOOSE s \in Suffix : TRUE}

\* External: random suffixes do not repeat.
FreshSuffix == Suffix \ used

\* save(), first half: _next_key, under the object's lock.
SaveKey(c, text) ==
  LET o == ObjOf[c]
      n == (IF seqs[o] = Unset THEN Highest ELSE seqs[o]) + 1
  IN  /\ crew[c].pc = "idle"
      /\ Calls("crew")
      /\ \E s \in FreshSuffix :
           /\ used' = used \cup {s}
           /\ crew' = [crew EXCEPT ![c] = [Idle EXCEPT !.pc = "set", !.key = <<n, s>>,
                                             !.val = [value |-> text, metadata |-> o]]]
      /\ seqs' = [seqs EXCEPT ![o] = n]
      /\ UNCHANGED <<src, seen>>

\* save(), second half: store.set.
SaveSet(c) ==
  /\ crew[c].pc = "set"
  /\ Becomes(Merge(src, [r \in {<<CrewNs, crew[c].key>>} |-> crew[c].val]))
  /\ crew' = [crew EXCEPT ![c] = Idle]
  /\ UNCHANGED <<left, seqs, used>>

-----------------------------------------------------------------------------
\* search() and reset() list the keys first.
List(c, pc, min) ==
  /\ crew[c].pc = "idle"
  /\ Calls("crew")
  /\ Watch(c)
  /\ crew' = [crew EXCEPT ![c] = [Idle EXCEPT !.pc = pc, !.min = min, !.ks = keys(CrewNs)]]
  /\ UNCHANGED <<src, seqs, used>>

search(c, min) == List(c, "get", min)
reset(c)       == List(c, "delete", 0)

\* Mutant: a key that is gone ends the search.
KeepGoingNot(c, found, k) == IF found THEN crew[c].ks \ {k} ELSE {}

\* A key that is gone, or holds None, is skipped.
KeepGoing(c, found, k) == crew[c].ks \ {k}

SearchGet(c) ==
  /\ crew[c].pc = "get" /\ crew[c].ks # {}
  /\ LET k     == Least(crew[c].ks)
         r     == <<CrewNs, k>>
         found == r \in DOMAIN src /\ src[r] # Null
     IN  crew' = [crew EXCEPT
           ![c].ks  = KeepGoing(c, found, k),
           ![c].got = IF found /\ Score[src[r].value] >= crew[c].min
                      THEN Merge(@, [x \in {k} |-> src[r]]) ELSE @]
  /\ UNCHANGED <<store, seqs, used>>

\* Sorted by score, then by key, both descending.
Above(g, k, l) ==
  \/ Score[g[k].value] > Score[g[l].value]
  \/ Score[g[k].value] = Score[g[l].value] /\ Below(l, k)

Top(g) == {k \in DOMAIN g : Cardinality({l \in DOMAIN g : Above(g, l, k)}) < Limit}

SearchRank(c) ==
  /\ crew[c].pc = "get" /\ crew[c].ks = {}
  /\ crew' = [crew EXCEPT ![c].pc = "found", ![c].got = Only(@, Top(@))]
  /\ UNCHANGED <<store, seqs, used>>

ResetDelete(c) ==
  /\ crew[c].pc = "delete" /\ crew[c].ks # {}
  /\ LET k == Least(crew[c].ks)
     IN  /\ Becomes(Without(src, {<<CrewNs, k>>}))
         /\ crew' = [crew EXCEPT ![c].ks = @ \ {k}]
  /\ UNCHANGED <<left, seqs, used>>

Done(c) ==
  /\ crew[c].pc = "found" \/ (crew[c].pc = "delete" /\ crew[c].ks = {})
  /\ crew' = [crew EXCEPT ![c] = Idle]
  /\ Unwatch(c)
  /\ UNCHANGED <<src, left, seqs, used>>

\* The process of an object is started again: its calls are gone, a new object
\* takes its place over the same store.
Restart(o) ==
  /\ Calls("crew")
  /\ seqs' = [seqs EXCEPT ![o] = Unset]
  /\ crew' = [c \in Caller |-> IF ObjOf[c] = o THEN Idle ELSE crew[c]]
  /\ seen' = [w \in Watcher |-> IF w \in Caller /\ ObjOf[w] = o THEN {} ELSE seen[w]]
  /\ UNCHANGED <<src, used>>

CrewNext ==
  \/ \E c \in Caller :
       \/ \E text \in Text : SaveKey(c, text)
       \/ \E min \in Thresholds : search(c, min)
       \/ SaveSet(c) \/ SearchGet(c) \/ SearchRank(c)
       \/ reset(c) \/ ResetDelete(c) \/ Done(c)
  \/ \E o \in Object : Restart(o)

-----------------------------------------------------------------------------
(* Properties *)

\* A race costs ordering, never an entry (_next_key): whatever objects and
\* threads save at once, a stored memory keeps its text until a reset that is
\* under way deletes it.
EntryKept ==
  [][\A r \in CrewRows :
       \/ r \in DOMAIN src' /\ src'[r] = src[r]
       \/ \E c \in Caller : crew[c].pc = "delete" /\ r[2] \in crew[c].ks]_<<src, crew>>

\* A new key sorts after every stored memory of the same object, also after a
\* restart, and the first key of an object after all that is stored
\* (_next_key: "keys sort by insertion order").
KeysOrdered ==
  [][\A c \in Caller :
       crew[c].pc = "idle" /\ crew'[c].pc = "set" =>
         \A r \in CrewRows :
           /\ Parses(r[2])
           /\ seqs[ObjOf[c]] = Unset \/ src[r].metadata = ObjOf[c]
           => Below(r[2], crew'[c].key)]_<<src, seqs, crew>>

\* search() returns memories that were stored while it ran; one that was there
\* throughout, and scores high enough, is left out only for Limit others that
\* rank higher (crewai.py:108-119).
SearchFaithful ==
  \A c \in Caller : crew[c].pc = "found" =>
    LET g == crew[c].got IN
    /\ Cardinality(DOMAIN g) <= Limit
    /\ \A k \in DOMAIN g : Had(c, <<CrewNs, k>>, g[k])
    /\ \A r \in Always(c) \cap CrewRows :
         \/ r[2] \in DOMAIN g
         \/ src[r] = Null
         \/ Score[src[r].value] < crew[c].min
         \/ /\ Cardinality(DOMAIN g) = Limit
            /\ \A k \in DOMAIN g : Above(Merge(g, [x \in {r[2]} |-> src[r]]), k, r[2])
=============================================================================

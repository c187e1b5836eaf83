---------------------------- MODULE SharedStore ----------------------------
(***************************************************************************)
(* A store (python/swarmstate/protocols.py: StoreLike) as its clients see  *)
(* it: every operation on one row, and every listing, is one step.  The    *)
(* clients that read it in several steps are watched: for each one the     *)
(* contents the store has had since it began.                              *)
(*                                                                         *)
(* A namespace is a string: a sequence of code points.                     *)
(***************************************************************************)
EXTENDS Naturals, Sequences, FiniteSets

CONSTANTS
  Watcher,    \* clients that read in several steps
  TopPoint,   \* the greatest code point (_MAX_CODE_POINT)
  Surrogates, \* code points that no stored string holds
  Null,       \* a stored None
  Budgets     \* bound: the calls each kind of client makes in one run

\* The surrogates are a range of code points.
ASSUME PointAssumption ==
  /\ TopPoint \in Nat
  /\ Surrogates \subseteq Nat /\ IsFiniteSet(Surrogates)
  /\ \A p, q \in Surrogates : p .. q \subseteq Surrogates

\* The code points of stored strings.
Point == (0 .. TopPoint) \ Surrogates

VARIABLES
  src,    \* the rows: (namespace, key) -> value
  seen,   \* history: per watcher, the contents since its call began
  left    \* calls that each kind of client may still make

store == <<src, seen, left>>

Empty         == [r \in {} |-> Null]
Only(f, S)    == [x \in DOMAIN f \cap S |-> f[x]]
Merge(f, g)   == [x \in DOMAIN f \cup DOMAIN g |-> IF x \in DOMAIN g THEN g[x] ELSE f[x]]
Without(f, S) == [x \in DOMAIN f \ S |-> f[x]]

keys(n)     == {r[2] : r \in {q \in DOMAIN src : q[1] = n}}
Namespaces  == {r[1] : r \in DOMAIN src}

\* The rows become new; every call under way may have seen them.
Becomes(new) ==
  /\ src' = new
  /\ seen' = [w \in Watcher |-> IF seen[w] = {} THEN {} ELSE seen[w] \cup {new}]

Watch(w)   == seen' = [seen EXCEPT ![w] = {src}]
Unwatch(w) == seen' = [seen EXCEPT ![w] = {}]

Calls(kind) == left[kind] > 0 /\ left' = [left EXCEPT ![kind] = @ - 1]

\* Rows that were there, and rows that had this value, at some moment of w's call.
Always(w)    == {r \in DOMAIN src : \A s \in seen[w] : r \in DOMAIN s}
Had(w, r, v) == \E s \in seen[w] : r \in DOMAIN s /\ s[r] = v

-----------------------------------------------------------------------------
(* backends/_prefix.py, and the prefix filter of DiskStore.namespaces *)

\* The next code point, past the surrogates.
NextPoint(cp) ==
  IF cp + 1 \in Surrogates THEN (CHOOSE q \in Surrogates : \A x \in Surrogates : x <= q) + 1
                           ELSE cp + 1

\* Code-point order, as SQLite's BINARY collation compares.
Below(s, t) ==
  \/ Len(s) < Len(t) /\ SubSeq(t, 1, Len(s)) = s
  \/ \E i \in DOMAIN s \cap DOMAIN t :
       s[i] < t[i] /\ SubSeq(s, 1, i - 1) = SubSeq(t, 1, i - 1)

\* The order a scan of the primary key lists namespaces and keys in.
Least(S) == CHOOSE s \in S : \A t \in S \ {s} : Below(s, t)

StartsWith(s, prefix) == Len(prefix) <= Len(s) /\ SubSeq(s, 1, Len(prefix)) = prefix

\* Where a prefix can still be bumped: all but trailing TopPoints.
Bumpable(prefix) == {i \in DOMAIN prefix : NextPoint(prefix[i]) <= TopPoint}

LastBumpable(prefix) == CHOOSE j \in Bumpable(prefix) : \A k \in Bumpable(prefix) : k <= j

\* Mutant: the trailing code points at the top are not dropped.
UpperBoundKept(prefix) == [prefix EXCEPT ![LastBumpable(prefix)] = NextPoint(@)]

\* prefix_upper_bound, where there is one: drop what is at the top, bump the
\* last code point that is left.
UpperBound(prefix) ==
  LET i == LastBumpable(prefix) IN Append(SubSeq(prefix, 1, i - 1), NextPoint(prefix[i]))

\* namespaces(prefix): a range of the index, or an exact test if there is none.
NamespacesFrom(prefix) ==
  IF Bumpable(prefix) = {}
  THEN {n \in Namespaces : StartsWith(n, prefix)}
  ELSE {n \in Namespaces : ~ Below(n, prefix) /\ Below(n, UpperBound(prefix))}
=============================================================================

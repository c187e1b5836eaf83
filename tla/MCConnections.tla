--------------------------- MODULE MCConnections ---------------------------
(* Small instances of Connections for TLC. *)
EXTENDS Connections, TLC

CONSTANTS u1, u2, u3, k1, k2

Anyone == Permutations(User) \cup Permutations(Closer)
=============================================================================

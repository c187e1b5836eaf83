------------------------------ MODULE MCSaver ------------------------------
(* Instances of Saver: which caller uses which saver, and what each calls. *)
EXTENDS Saver, TLC

CONSTANTS p1, p2, s1, s2, x, d

OneEach   == p1 :> s1 @@ p2 :> s2
OneSaver  == p1 :> s1 @@ p2 :> s1
OneCaller == p1 :> s1

DeltaWrites == [k \in WKey |-> d]
PlainWrites == [k \in WKey |-> x]

SerialOps == p1 :> OpNames \ {"copy_thread"}
RetentionOps == p1 :> {"put", "put_writes", "get"}
ForkOps   == p1 :> {"put", "get"}
CopyOps   == p1 :> OpNames \ {"delete_for_runs", "list"}
PutOps    == p1 :> {"put"}
RunOps    == p1 :> {"put", "delete_for_runs"}
BlobOps   == p1 :> {"put", "copy_thread", "get"}

WriterReader  == p1 :> {"put"} @@ p2 :> {"get", "list", "put_writes"}
WriterPruner  == p1 :> {"put"} @@ p2 :> {"get", "prune", "put_writes"}
TwoWriters    == p1 :> {"put"} @@ p2 :> {"put"}
TwoTasks      == p1 :> {"put", "put_writes"} @@ p2 :> {"put_writes"}
=============================================================================

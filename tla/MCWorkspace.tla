----------------------------- MODULE MCWorkspace -----------------------------
(* Small instances of Workspace for TLC.                                   *)
EXTENDS Workspace, TLC

CONSTANTS w1, w2, i1, i2, s1

OwnIds == (w1 :> i1) @@ (w2 :> i2)
OneId  == w1 :> i1

\* A snapshot that may be declared empty.
Snapshots == {[mode |-> "full_snapshot", scope |-> s1, limit |-> None,
               emptyOk |-> TRUE, source |-> 1]}
=============================================================================

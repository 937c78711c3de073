---------------------------- MODULE MCGenerations ----------------------------
(* Small instances of Generations for TLC.                                 *)
EXTENDS Generations, TLC

CONSTANTS s1, s2

Want(mode, scope, limit, emptyOk, source) ==
  [mode |-> mode, scope |-> scope, limit |-> limit, emptyOk |-> emptyOk, source |-> source]

\* Every mode: snapshots of two scopes that may be declared empty, a delta
\* that must not change anything, and a removal list.
Mixed == {Want("full_snapshot", s1, None, TRUE, 1),
          Want("full_snapshot", s2, None, TRUE, 1),
          Want("incremental", s1, 0, FALSE, 1),
          Want("explicit_removal", s1, None, FALSE, 1)}

=============================================================================

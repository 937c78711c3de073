------------------------------ MODULE MCIntake -------------------------------
(* Small instances of what takes files in, for TLC: the inbox of a         *)
(* connection (Inbox), uploads and the source store (Storage) and the      *)
(* watch folder.  They share no state: a behavior is one of one of them.   *)
EXTENDS Inbox, Storage, WatchFolder, TLC

CONSTANTS p1, p2, feed, ack, r1, s1, s2, u1, u2, j1, whole

\* A feed and one rejection of it.
Texts     == 1 :> feed @@ 2 :> ack
Rejection == ack :> "rejected"
Refs      == feed :> {r1} @@ ack :> {r1}

\* Two uploads of one content and a job on it.
SameContent == u1 :> whole @@ u2 :> whole

VARIABLE side

InitAll == Init /\ StorageInit /\ FolderInit /\ side \in {"inbox", "store", "folder"}

NextAll ==
  /\ UNCHANGED side
  /\ \/ side = "inbox" /\ Next /\ UNCHANGED <<storageVars, folderVars>>
     \/ side = "store" /\ StorageNext /\ UNCHANGED <<vars, folderVars>>
     \/ side = "folder" /\ FolderNext /\ UNCHANGED <<vars, storageVars>>

SpecAll == InitAll /\ [][NextAll]_<<vars, storageVars, folderVars, side>>

Symmetry == Permutations({s1, s2}) \cup Permutations({u1, u2})
=============================================================================

---------------------------- MODULE MCWatchFolder ----------------------------
(* A folder with two files, of which one has a name that is too long for   *)
(* what is made of it.                                                     *)
EXTENDS WatchFolder, TLC
=============================================================================

---------------------------- MODULE MCFileStore ----------------------------
(* Finite instances of FileStore.  A file that an open refused and that no     *)
(* reader holds has no further step, so the runs do not check for deadlock.     *)
EXTENDS FileStore

CONSTANTS r1, k1
=============================================================================

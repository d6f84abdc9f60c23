----------------------------- MODULE MCGroupCommit -----------------------------
(* Small instances of GroupCommit. *)
EXTENDS GroupCommit

CONSTANTS t1, t2, o1, o2
==============================================================================

---------------------------- MODULE MCControlPlane ----------------------------
(* Small instances of ControlPlane. *)
EXTENDS ControlPlane

CONSTANTS t1, t2, k1, k2, v1, v2
==============================================================================

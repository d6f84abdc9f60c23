------------------------------ MODULE MCReclaim ------------------------------
(* Small instances of Reclaim: two roots that share a leaf. *)
EXTENDS Reclaim

CONSTANTS a, b, c

SharedLeaf == [o \in Objects |-> IF o = c THEN {} ELSE {c}]
==============================================================================

---------------------------- MODULE DurableCell ----------------------------
(* What committing to a `.loom` file promises: one cell that names a complete  *)
(* root set.  The value an open would adopt (visible) may run ahead of the one  *)
(* a power loss is certain to leave (durable); a power loss leaves one of the   *)
(* two; and nothing is acknowledged before it is durable.                       *)
EXTENDS Naturals

VARIABLES visible, durable, acked

cell == <<visible, durable, acked>>

Init == visible = 0 /\ durable = 0 /\ acked = 0

\* A new root set becomes the one an open would adopt.
Publish ==
    /\ visible' \in Nat /\ visible' > visible
    /\ UNCHANGED <<durable, acked>>

\* The commit point.
Persist ==
    /\ durable' = visible
    /\ UNCHANGED <<visible, acked>>

Lose ==
    /\ visible' \in {visible, durable}
    /\ durable' = visible'
    /\ UNCHANGED acked

Acknowledge ==
    /\ visible = durable
    /\ acked' = visible
    /\ UNCHANGED <<visible, durable>>

Next == Persist \/ Publish \/ Lose \/ Acknowledge

Spec == Init /\ [][Next]_cell
=============================================================================

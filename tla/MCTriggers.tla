----------------------------- MODULE MCTriggers -----------------------------
(* Bindings 1 and 2 watch main, which every fire runs on, so that what they     *)
(* commit triggers them again; binding 3 runs on a schedule.                    *)
EXTENDS Triggers

CONSTANTS main, clock

OnMain == [b \in Bindings |-> main]
OnMainOrTime == [b \in Bindings |-> IF b = 3 THEN clock ELSE main]
EveryInstant == [b \in Bindings |-> IF b = 3 THEN 1 .. MaxTime ELSE {}]
=============================================================================

------------------------ MODULE MCOverlayPublication ------------------------
EXTENDS OverlayPublication, TLC

CONSTANTS t1, t2, t3, k, l, n, m, s, x, o, p, kp

\* m and s write both keys, the others one.
Footprint == [r \in Requests |-> IF r \in {m, s} THEN {k, l} ELSE {k}]
Callers == Permutations(Threads)
=============================================================================

-------------------------- MODULE MCLocksAuthority --------------------------
(* Small instances of LocksAuthority for TLC. *)
EXTENDS LocksAuthority, TLC

\* The last one asks for more permits than the semaphore has: validate_mode refuses it.
FencingModes == {Exclusive, Shared, Semaphore(3, 2)}
ExclusiveOnly == {Exclusive}
WaitingModes == {Semaphore(1, 2), Semaphore(2, 3)}

OwnerSymmetry == Permutations(Owners)
=============================================================================

CONSTANTS
    r1 = r1
    k1 = k1
    RingSlots = 2
    CheckpointInterval = 2
    RefillThreshold = 0
    ReserveTarget = 1
    MaxPages = 3
    Readers = {r1}
    Rekeyers = {k1}
    MaxTxns = 3
    MaxWrites = 2
    MaxMeta = 1
    MaxLosses = 1
    Faults = {}
SPECIFICATION Spec
INVARIANTS AllOrNothing RekeyDurable ReaderSnapshot
PROPERTY ImplementsCell
CHECK_DEADLOCK FALSE

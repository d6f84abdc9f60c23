CONSTANTS
    r1 = r1
    k1 = k1
    RingSlots = 2
    CheckpointInterval = 2
    RefillThreshold = 0
    ReserveTarget = 1
    MaxPages = 3
    Readers = {}
    Rekeyers = {}
    MaxTxns = 2
    MaxWrites = 2
    MaxMeta = 0
    MaxLosses = 1
    Faults = {}
SPECIFICATION Spec
INVARIANT NeverRefused
CHECK_DEADLOCK FALSE

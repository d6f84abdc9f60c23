CONSTANTS
    r1 = r1
    k1 = k1
    RingSlots = 2
    CheckpointInterval = 2
    RefillThreshold = 0
    ReserveTarget = 1
    MaxPages = 3
    Readers = {}
    Rekeyers = {}
    MaxTxns = 4
    MaxWrites = 2
    MaxMeta = 0
    MaxLosses = 1
    Faults = {"tornSlot"}
SPECIFICATION Spec
PROPERTY ImplementsCell
CHECK_DEADLOCK FALSE

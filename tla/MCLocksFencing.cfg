CONSTANTS
    Keys = {k1}
    Owners = {a, b}
    Threads = {t1}
    Modes <- FencingModes
    Leases = {1}
    Waits = {0}
    FenceMax = 3
    TimeMax = 2
    ReentrancyMax = 2
    Horizon = 2
    MaxSkew = 0
SYMMETRY OwnerSymmetry
SPECIFICATION Spec
INVARIANTS
    TypeOK
    HoldersCompatible
    FenceNamesOneHolder
    ExclusiveHolderIsNewest
PROPERTY AckedWritesNeverRegress

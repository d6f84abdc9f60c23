CONSTANTS
    Keys = {k1}
    Owners = {a, b}
    Threads = {t1, t2}
    Modes <- ExclusiveOnly
    Leases = {2}
    Waits = {0, 1}
    FenceMax = 1
    TimeMax = 5
    ReentrancyMax = 1
    Horizon = 3
    MaxSkew = 1
SPECIFICATION Spec
INVARIANT SleeperIsBlocked

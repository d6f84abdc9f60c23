CONSTANTS
    Keys = {k1}
    Owners = {a, b}
    Threads = {t1, t2}
    Modes <- WaitingModes
    Leases = {1}
    Waits = {2}
    FenceMax = 1
    TimeMax = 4
    ReentrancyMax = 1
    Horizon = 3
    MaxSkew = 1
SPECIFICATION FairSpec
INVARIANTS
    SemaphoreWithinCapacity
    NoMissedNotification
PROPERTY AcquireReturnsEventually

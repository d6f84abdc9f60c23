CONSTANTS
    t1 = t1
    t2 = t2
    t3 = t3
    k = k
    l = l
    n = n
    m = m
    s = s
    x = x
    o = o
    p = p
    kp = kp
    Threads = {t1, t2}
    Keys = {k, l}
    Normal = {}
    Strict = {}
    Relaxed = {x}
    OwnerState = {}
    Puts = {}
    Keyed = {}
    Guarded = {x}
    Targets <- Footprint
    QueueLimit = 2
    RecordLimit = 5
    CommitFails = FALSE
    MaxCalls = 3
    MaxCrashes = 0
SPECIFICATION Spec
PROPERTY EveryReplayed
CHECK_DEADLOCK FALSE

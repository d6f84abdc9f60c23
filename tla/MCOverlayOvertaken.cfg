CONSTANTS
    t1 = t1
    t2 = t2
    t3 = t3
    k = k
    l = l
    n = n
    m = m
    s = s
    x = x
    o = o
    p = p
    kp = kp
    Threads = {t1, t2}
    Keys = {k, l}
    Normal = {n}
    Strict = {s}
    Relaxed = {}
    OwnerState = {}
    Puts = {}
    Keyed = {}
    Guarded = {}
    Targets <- Footprint
    QueueLimit = 1
    RecordLimit = 5
    CommitFails = FALSE
    MaxCalls = 2
    MaxCrashes = 0
SPECIFICATION Spec
INVARIANT AckedKept
CHECK_DEADLOCK FALSE

CONSTANTS
    t1 = t1
    t2 = t2
    t3 = t3
    k = k
    l = l
    n = n
    m = m
    s = s
    x = x
    o = o
    p = p
    kp = kp
    Threads = {t1, t2, t3}
    Keys = {k, l}
    Normal = {n, m}
    Strict = {s}
    Relaxed = {}
    OwnerState = {o}
    Puts = {p}
    Keyed = {}
    Guarded = {m}
    Targets <- Footprint
    QueueLimit = 2
    RecordLimit = 10
    CommitFails = TRUE
    MaxCalls = 3
    MaxCrashes = 1
SPECIFICATION Spec
SYMMETRY Callers
INVARIANTS ExactlyOnce MemoryAhead UpdatesKept
CHECK_DEADLOCK FALSE

CONSTANTS
    t1 = t1
    t2 = t2
    t3 = t3
    k = k
    l = l
    n = n
    m = m
    s = s
    x = x
    o = o
    p = p
    kp = kp
    Threads = {t1, t2}
    Keys = {k, l}
    Normal = {m}
    Strict = {s}
    Relaxed = {x}
    OwnerState = {o}
    Puts = {p, kp}
    Keyed = {kp}
    Guarded = {x}
    Targets <- Footprint
    QueueLimit = 2
    RecordLimit = 5
    CommitFails = TRUE
    MaxCalls = 3
    MaxCrashes = 1
SPECIFICATION FairSpec
INVARIANTS ExactlyOnce MemoryAhead UpdatesKept
PROPERTIES AckedReplayed WaitersAnswered
CHECK_DEADLOCK FALSE

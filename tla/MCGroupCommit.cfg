CONSTANTS
    t1 = t1
    t2 = t2
    o1 = o1
    o2 = o2
    Threads = {t1, t2}
    Objects = {o1, o2}
    EmptyBatches = FALSE
SPECIFICATION FairSpec
INVARIANTS AckedStored OneLeader NobodyStranded NoLostWakeup
PROPERTY WaitersReturn

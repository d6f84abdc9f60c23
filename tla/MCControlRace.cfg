CONSTANTS
    t1 = t1
    t2 = t2
    k1 = k1
    k2 = k2
    v1 = v1
    v2 = v2
    Threads = {t1, t2}
    Keys = {k1, k2}
    Values = {v1}
    Serialized = FALSE
    MaxCalls = 2
SPECIFICATION Spec
INVARIANT NoLostUpdate
CHECK_DEADLOCK FALSE

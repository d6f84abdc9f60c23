CONSTANTS
    t1 = t1
    t2 = t2
    k1 = k1
    k2 = k2
    v1 = v1
    v2 = v2
    Threads = {t1, t2}
    Keys = {k1, k2}
    Values = {v1, v2}
    Serialized = TRUE
    MaxCalls = 6
SPECIFICATION Spec
INVARIANTS AuditVerifies AuditsKept NoLostUpdate
CHECK_DEADLOCK FALSE

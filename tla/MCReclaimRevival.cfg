CONSTANTS
    a = a
    b = b
    c = c
    Objects = {a, b, c}
    Children <- SharedLeaf
    Roots = {a, b}
    MaxPages = 12
    SegmentPages = 3
    MaxSegments = 1
    PublicationPages = 1
    MinDebt = 3
    Repeats = TRUE
    MaxOps = 4
    MaxEpochs = 1
SPECIFICATION Spec
INVARIANTS LiveKept
CHECK_DEADLOCK FALSE

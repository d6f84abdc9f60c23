CONSTANTS
    a = a
    b = b
    c = c
    Objects = {a, b, c}
    Children <- SharedLeaf
    Roots = {a, b}
    MaxPages = 18
    SegmentPages = 3
    MaxSegments = 1
    PublicationPages = 1
    MinDebt = 3
    Repeats = FALSE
    MaxOps = 3
    MaxEpochs = 2
SPECIFICATION FairSpec
INVARIANTS LiveKept SnapshotMarked CapturedTreeKept FenceAgrees
PROPERTIES ReaderPagesKept EpochEnds
CHECK_DEADLOCK FALSE

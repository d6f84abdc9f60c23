CONSTANTS
    main = main
    clock = clock
    Bindings = {1, 2, 3}
    Branches = {main}
    Clock = clock
    Watch <- OnMainOrTime
    Schedule <- EveryInstant
    Target <- OnMain
    Direct = {1, 2}
    CatchUp = {1, 3}
    Backfill = {3}
    Skipping = {1}
    Queueing = {2}
    MaxFires = 2
    MaxCommits = 3
    MaxTime = 3
    MaxEdits = 3
    MaxRewrites = 1
SPECIFICATION FairSpec
INVARIANTS FiredOnce LogOrdered NothingPassed
PROPERTY CatchesUp
CHECK_DEADLOCK FALSE

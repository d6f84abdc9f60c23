CONSTANTS
    main = main
    clock = clock
    Bindings = {2}
    Branches = {main}
    Clock = clock
    Watch <- OnMainOrTime
    Schedule <- EveryInstant
    Target <- OnMain
    Direct = {}
    CatchUp = {}
    Backfill = {}
    Skipping = {}
    Queueing = {}
    MaxFires = 2
    MaxCommits = 2
    MaxTime = 0
    MaxEdits = 2
    MaxRewrites = 0
SPECIFICATION FairSpec
PROPERTY ChangesFire
CHECK_DEADLOCK FALSE

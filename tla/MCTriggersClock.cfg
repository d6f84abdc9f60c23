CONSTANTS
    main = main
    clock = clock
    Bindings = {3}
    Branches = {main}
    Clock = clock
    Watch <- OnMainOrTime
    Schedule <- EveryInstant
    Target <- OnMain
    Direct = {}
    CatchUp = {3}
    Backfill = {3}
    Skipping = {}
    Queueing = {}
    MaxFires = 2
    MaxCommits = 2
    MaxTime = 2
    MaxEdits = 2
    MaxRewrites = 0
SPECIFICATION FairSpec
PROPERTY InstantsFire
CHECK_DEADLOCK FALSE

CONSTANTS
    Nodes <- MC7
    Root = 1
    Up <- MC7Up
    Kids <- MC7Kids
    LeftKids <- MC7Left
    Sat <- MC7Sat
    Refutable <- MC7Refutable
    GivenUp = {}
    MaxRunning = 3
    NoTask = NoTask
    Cores = 1
    MaxSplits = 0
    DistCoords = 3
    OriginalGivenUp = TRUE
SPECIFICATION IsoFairSpec
INVARIANTS
    NeverPopsEmpty
    OfferedCovers
    OfferedAnnounced
    ModelCompleteInMain
PROPERTY PrePartitionEnds
CHECK_DEADLOCK FALSE

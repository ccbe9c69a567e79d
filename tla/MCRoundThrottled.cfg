CONSTANTS
    Nodes <- MC9
    Root = 1
    Up <- MC9Up
    Kids <- MC9Kids
    LeftKids <- MC9Left
    Sat = {}
    Refutable <- MC9Refutable
    GivenUp = {}
    MaxRunning = 1
    NoTask = NoTask
    Cores = 1
    MaxSplits = 1
SPECIFICATION FairSpec
PROPERTY RoundEnds
CHECK_DEADLOCK FALSE

CONSTANTS
    Nodes <- MCNodes
    Root = 1
    Up <- MCUpC
    Kids <- MCKidsC
    LeftKids <- MCLeftC
    Sat <- MCSatC
    Refutable <- MCRefutable
    MaxRunning = 1
    PipeRoom = {0}
    NoTask = NoTask
SPECIFICATION Spec
INVARIANTS
    TypeOK
    AliveCountsWaiting
    AliveBounded
    UnsolvedCoversOpen
    AnnouncedState
    ParentAnnouncedFirst
    AnnouncedOnce
PROPERTY NeverRevived
CHECK_DEADLOCK FALSE

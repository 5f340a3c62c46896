CONSTANTS
    LastSource = 1
    MaxTick = 1
    MaximumServices = 2
    Throwing = {0}
    Untracked = {1}
    Discarded = {0}
    NoService = NoService
    LoopHead = LoopHead
    MaxGeneration = 2
    MaxSequence = 3
    MaxLoads = 1
SPECIFICATION FairSpec
INVARIANTS
    TimelineConsistent
    StaleTokenNeverMatches
PROPERTIES
    BoundaryDrains
    ServedInOrder
    EventResolved
CHECK_DEADLOCK FALSE

CONSTANTS
    Capacity = 2
    PayloadCapacity = 2
    Sizes = {1, 3}
    MayThrow = {"Draw"}
    MaxTicket = 4
    MaxGeneration = 3
    MaxShutdowns = 2
SPECIFICATION FairSpec
INVARIANTS
    BudgetKept
    StreamKept
    FieldIdentity
    StoppedClean
PROPERTIES
    IsStream
    EveryCallEnds
CHECK_DEADLOCK FALSE

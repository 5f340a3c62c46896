CONSTANTS
    Capacity = 3
    Items = {a, b}
    Vacant = Vacant
SPECIFICATION FairSpec
INVARIANT ChecksPass
PROPERTIES
    IsFifo
    IsFairFifo

CONSTANTS
    Capacity = 2
    PayloadCapacity = 2
    Sizes = {1}
    MayThrow = {}
    MaxTicket = 3
    MaxGeneration = 3
    MaxShutdowns = 0
SPECIFICATION Spec
INVARIANT FloorAdmitsItsGeneration
CHECK_DEADLOCK FALSE

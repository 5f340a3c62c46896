CONSTANTS
    Chunks <- MCChunks
    Packets <- MCPackets
    MaxStream = 3
    MaxWords = 4
    MaxInvocations = 1
    MaxControls = 3
SPECIFICATION Spec
INVARIANTS
    StreamsExact
    HandedInOrder
CHECK_DEADLOCK FALSE

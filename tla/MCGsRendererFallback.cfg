CONSTANTS
    p = p
    q = q
    Pages <- MCPages
    Kinds <- AllKinds
    MaxBatch = 2
    MaxDeferred = 2
    MaxOperations = 3
    Serves = {0, 1, 2, 9}
SYMMETRY Symmetry
SPECIFICATION Spec
CHECK_DEADLOCK FALSE
INVARIANT ResolvesOnce

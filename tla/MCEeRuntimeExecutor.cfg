CONSTANTS
    MaxConsequences = 2
    MaxStep = 1
    MaxPublications = 3
    MaxControls = 2
    MaxTime = 1
SPECIFICATION Spec
INVARIANTS
    QueuesExact
    AppliedWhenDue
    HaltsCleanly
PROPERTY IsMailbox
CHECK_DEADLOCK FALSE

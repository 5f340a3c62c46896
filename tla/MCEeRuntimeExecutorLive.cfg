CONSTANTS
    MaxConsequences = 1
    MaxStep = 0
    MaxPublications = 1
    MaxControls = 2
    MaxTime = 1
SPECIFICATION FairSpec
INVARIANT ResumedMeansRunning
PROPERTY RequestsAnswered
CHECK_DEADLOCK FALSE

\* Failing writes and a cancelled writer task, with callers that record behind stop().
SPECIFICATION FairSpec
CONSTANTS
    LateSteps = TRUE
    Cancels = TRUE
    MaxSteps = 6
    MaxFaults = 1
INVARIANTS ExportIsWhole
PROPERTIES  StopEndsUndisturbed StepsAreStored
CHECK_DEADLOCK FALSE

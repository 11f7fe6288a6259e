\* Liveness, and crashes during recoveries, without exceptions; ids for all batches.
SPECIFICATION FairSpec
CONSTANTS
    r1 = r1
    r2 = r2
    Run = {r1, r2}
    Captured <- TwoRuns
    Direct <- NoDirect
    BatchId = {1, 2, 3, 4, 5}
    BatchSize = 2
    Crashes = TRUE
    MaxSends = 1
    MaxBoots = 3
    MaxFaults = 0
PROPERTIES StoreFairSpec QueuedIsStored StartupEnds
CHECK_DEADLOCK FALSE

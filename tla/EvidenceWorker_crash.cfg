\* Crashes, exceptions, resends and replays, with both threads storing events.
SPECIFICATION Spec
CONSTANTS
    r1 = r1
    r2 = r2
    Run = {r1}
    Captured <- OneRun
    Direct <- Approval
    BatchId = {1, 2, 3}
    BatchSize = 2
    Crashes = TRUE
    MaxSends = 2
    MaxBoots = 2
    MaxFaults = 1
INVARIANTS BatchesCommitWhole AcceptedIsKept UnfinishedRunStaysOpen
    ReplayLeavesNoBatch 
PROPERTIES StoreSpec OpensOnlyOnNewEvent StartupClosesOrphans
CHECK_DEADLOCK FALSE

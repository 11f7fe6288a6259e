\* Two loggers that outlive the session, an exception and a crash.
SPECIFICATION FairSpec
CONSTANTS
    Logger = {l1, l2}
    LateLoggers = TRUE
    Redact = TRUE
    AutoSign = TRUE
    Crashes = TRUE
    MaxLogs = 4
    MaxFaults = 1
INVARIANTS  ChainIntact RedactionAdjacent KeptUpToTheEnd
PROPERTY SessionEnds
CHECK_DEADLOCK FALSE

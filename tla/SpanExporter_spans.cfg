\* Three spans of two traces, a caller of force_flush beside daemon and shutdown.
SPECIFICATION Spec
CONSTANTS
    s1 = s1
    s2 = s2
    s3 = s3
    Span = {s1, s2, s3}
    TraceOf <- TwoAndOne
    FileOf <- OwnFiles
    Caller = {"main"}
    StrictModes = {TRUE, FALSE}
    AutoSign = TRUE
    MaxFaults = 1
INVARIANTS SpansKept ConsoleComesBack
CHECK_DEADLOCK FALSE

\* The default, strict export, with one exception.
SPECIFICATION Spec
CONSTANTS
    s1 = s1
    s2 = s2
    s3 = s3
    Span = {s1}
    TraceOf <- TwoAndOne
    FileOf <- OwnFiles
    Caller = {"main"}
    StrictModes = {TRUE}
    AutoSign = TRUE
    MaxFaults = 1
INVARIANTS NoSilentDrop
CHECK_DEADLOCK FALSE

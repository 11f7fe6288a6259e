\* Three calls on two threads, one step each.
SPECIFICATION Spec
CONSTANTS
    Task = {a, b, c}
    Thread = {loop, pool}
    None = None
    MaxSteps = 1
    MaxFaults = 1
    a = a
    b = b
    c = c
    loop = loop
    pool = pool
SYMMETRY Symmetry
INVARIANTS ResultsStayHome NoCallUnrecorded
CHECK_DEADLOCK FALSE

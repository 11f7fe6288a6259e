\* Any three commands, and two statements of others.
SPECIFICATION Spec
CONSTANTS
    Program = {p1, p2, p3}
    Command = {"review", "anchor", "register", "local", "refresh"}
    None = None
    Statement = {0, 1, 2, 3, s1, s2}
    Other = {s1, s2}
    MaxRetries = 2
SYMMETRY Alike
INVARIANTS ReceiptsProve ReceiptsHold TransparentIsLogged ReviewsHaveAncestors LoneReviewIsKept SerialChainIsValid
CHECK_DEADLOCK FALSE

\* Four events, two clicks, a crash.
SPECIFICATION Spec
CONSTANTS
    Action = {"pay", "prepay"}
    Within <- PayWithin
    Decisive = {"pay", "prepay"}
    Label = {"alice", "agent"}
    Roles = {}
    Minimum = 1
    Reviewer = {"alice"}
    Self = "agent"
    Horizon = 4
    MaxClicks = 2
    MaxBoots = 2
INVARIANTS LinkFindsRequest  
PROPERTY RequestIsAnnounced
CHECK_DEADLOCK FALSE

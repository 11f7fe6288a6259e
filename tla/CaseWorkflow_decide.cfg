\* An event of each kind, a review, two changes, a comment and crashes.
SPECIFICATION CaseSpec
CONSTANTS
    Routine = {step}
    Alarm = {error}
    Recovery = {recovered}
    Change <- Changes
    Crashes = TRUE
    MaxReviews = 1
    MaxPatches = 2
    MaxComments = 1
INVARIANTS RowShowsTables DecisionKept
CHECK_DEADLOCK FALSE

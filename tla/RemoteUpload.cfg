SPECIFICATION Spec
CONSTANTS
    Jobs = {j1, j2}
    Old = Old
    Partial = Partial
    None = None
    Start = Old
    MaxAttempts = 2
    Replaces = TRUE
    Lists = TRUE
INVARIANTS
    DestinationWhole
    CopySurvives
    PartsAccounted
CHECK_DEADLOCK FALSE

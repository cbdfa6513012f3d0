SPECIFICATION Spec
CONSTANTS
    Jobs = {j1}
    Old = Old
    Partial = Partial
    None = None
    Start = Old
    MaxAttempts = 2
    Replaces = TRUE
    Lists = TRUE
PROPERTY RetryOnlyWhenClean
CHECK_DEADLOCK FALSE

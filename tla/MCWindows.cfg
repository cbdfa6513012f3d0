SPECIFICATION Spec
CONSTANTS
    LinkClicks = 6
    Dirs = {"a", "b"}
    StartDir = "a"
    PaneClicks = 3
    MaxJobs = 2
    Limit = 1
    LogCap = 3
    LogKeep = 2
    Sizes = {2}
    MaxSeq = 7
    Deepest = 1
    MaxStarts = 4
    MaxGenerations = 4
    MaxMoves = 2
INVARIANTS SessionIsOwn  QueueIsReplayed OfferedActs
PROPERTIES OpenedTogether
CHECK_DEADLOCK FALSE

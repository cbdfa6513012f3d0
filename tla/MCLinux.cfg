SPECIFICATION Spec
CONSTANTS
    Servers = {"s", "t"}
    MaxSteps = 6
    Cap = 1
    FoundSearches = 2
    FoundCompares = 1
    PairSearches = 0
    PairCompares = 4
    MaxTasks = 2
    HistoryDirs = {"a", "b", "c"}
    ServerDirs = {"x", "y"}
    Relative = "rel"
    RelativeTo = "a"
    HistoryLimit = 3
    MarkNames = {1, 2}
    MaxSaves = 3
    RowCounts = {1, 2}
    Widths = {1180, 1181, 1187, 1280, 1366, 1921, 3840}
    Heights = {720, 721, 900, 1440}
    QueueJobs = 3
    Limit = 1
    LogCap = 1
    LogKeep = 1
    Sizes = {0}
    MaxSeq = 8
    RowLists <- PaneListings
    Queries = {{}, {"l"}, {"l", "m"}}
    MaxConnections = 2
    Default <- SearchDefault
    Hard <- SearchHard
    SearchOptions <- SearchAsked
    Tolerance = 2
    MaxDuration = 8
    Firsts <- DiffFirsts
    Extras <- DiffExtras
    MaxText = 6
INVARIANTS ModalHoldsWindow ActsWhereSeen RowsAreTrue
PROPERTIES StepsAsAsked
CHECK_DEADLOCK FALSE

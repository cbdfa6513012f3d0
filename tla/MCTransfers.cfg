SPECIFICATION Spec
CONSTANTS
    Old = Old
    Foreign = Foreign
    Sentinel = Sentinel
    Partial = Partial
    Missing = Missing
    Downloads = {d1, d2}
    DownloadAttempts = 2
    MaxForeign = 1
    HardLinks = TRUE
    Uploads = {job}
    UploadAttempts = 4
    Replaces = TRUE
    Lists = TRUE
    Blocks = 3
    MaxWrites = 3
    top = top
    outside = outside
    Items = {a, b, c}
    DeleteDepth = 1
    DeleteItems = 3
    TreeNodes = {"root", "a", "b", "f"}
    TreeRoot = "root"
    TreeParent <- SmallParent
    TreeDepth = 2
    TreeItems = 3
    Capacity = 2
    TreeOthers = 1
    Long = FALSE
    EditOthers = 2
    MaxEdits = 2
    MaxCalls = 3
    Tries = {s1, s2, s3}
    k1 = k1
    k2 = k2
    k3 = k3
    NoKey = NoKey
    HostKeys = {k1, k2, k3}
    KeyRank <- TwoRanks
    Sweeps = TRUE
    QueueJobs = {t1}
    MaxJobs = 1
    MaxParallelism = 1
    MaxRetries = 1
    MaxGeneration = 3
    MaxUnwinding = 1
    Attached = {e1, e2}
    Servers = {x, y}
    NoSession = NoSession
    NoAccount = NoAccount
    NoBlob = NoBlob
    ProfileBlob = ProfileBlob
    link = link
    user = user
    SftpSessions = {"s1", "s2"}
    FtpSessions = {"f1"}
    Helpers = {"h1"}
    Tokens = {1, 2}
    TTL = 1
    Limit = 2
    NoToken = 0
SYMMETRY Symmetry
INVARIANTS CopySurvives SentIsOneMoment TreeStaysInside SessionKeepsItsOwn
PROPERTIES NothingDropped SuccessIsTrue
CHECK_DEADLOCK FALSE

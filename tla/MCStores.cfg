SPECIFICATION Spec
CONSTANTS
    Profiles = {p1, p2}
    Keys = {key1, key2}
    NoFile = NoFile
    Broken = Broken
    Plain = Plain
    MaxDamages = 1
    ProfileFaults = 2
    Sites = {"i"}
    Hosts = {"host", "HOST", "other"}
    Canon <- OneEndpoint
    Users = {"u"}
    KeyFiles = {"k"}
    ShownKeys = {a, b}
    Missing = Missing
    Drafts <- SixDrafts
    Forms <- AllOrNothing
    Accounts = {"A", "B"}
    MaxBookmarks = 3
    MarkSaves = 4
    MarkFaults = 2
    VisitSaves = 2
    VisitConnections = 4
    PanelChoices = {"parallel", "upload"}
    PolicyChoices = {"policy", "confirm", "language"}
    WindowChanges = 4
    SiteChanges = 2
    WriteFaults = 2
    SetupFaults = 3
    SetupOthers = 2
    SetupCrashes = 2
    Links = {"desktop", "start"}
    MaxSetups = 3
    RemovalFaults = 2
    UserChanges = 3
INVARIANTS AcknowledgedIsKept SettingsAgree SecretsBelong RollbackRestores
PROPERTIES WritesOneChange OnlyTheProgram
SYMMETRY Symmetry
CHECK_DEADLOCK FALSE

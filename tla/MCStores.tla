------------------------------- MODULE MCStores -------------------------------
(* Accounts, stores and setup, side by side: each behaviour is about one component,
   on a small instance. *)
EXTENDS Naturals, FiniteSets, TLC

CONSTANTS Profiles, Keys, NoFile, Broken, Plain, MaxDamages, ProfileFaults, Sites,
    Hosts, Canon, Users, KeyFiles, ShownKeys, Missing, Drafts, Forms, Accounts, MaxBookmarks,
    MarkSaves, MarkFaults, VisitSaves, VisitConnections, PanelChoices, PolicyChoices,
    WindowChanges, SiteChanges, WriteFaults, SetupFaults, SetupOthers, SetupCrashes,
    Links, MaxSetups, RemovalFaults, UserChanges

VARIABLES
    part,  \* the component this behaviour is about
    sec, secMay, prev, prevMay, leg, legMay, key, keyMay, profilesPc, profilesCall, items,
    migrating, kept, gone, older, forgot, weak, damages,
    profileFaults,
    saved, locked, bindingPc, bindingCall, shown, asked, bindingSession,
    marksMain, marksPrevious, marksPending, marksIssued, marksAcknowledged, marksFaults,
    marksMissed, marksSession, marksNav,
    visitsMain, visitsPrevious, visitsPending, visitsIssued, visitsAcknowledged,
    visitsFaults, visitsMissed, visitsSession, visitsNav,
    rulesStored, rulesDraft, rulesEditor, rulesTouched,
    policyStored, policyDraft, policyEditor, policyTouched,
    writersDisk, writersCache, writersUi, writersCalls, writersEnabled, writersModal,
    writersDraft, writersBoxes, writersChanges, writersFaults,
    sitesDisk, sitesCache, sitesUi, sitesCalls, sitesEnabled, sitesModal, sitesDraft,
    sitesBoxes, sitesChanges, sitesFaults,
    file, bak, reg, installPc, at, existed, orig, activated, installed, snap, failed,
    broken, late, installFaults, others, crashes,
    exe, running, link, rec, keys, setup, parent, helper, todo, warned, setups,
    removalFaults, removalChanges

\* The keys a server may show are interchangeable, and so are profiles and drawn keys.
Symmetry == Permutations(ShownKeys) \cup Permutations(Profiles) \cup Permutations(Keys)

\* The values of Canon, Drafts and Forms.
OneEndpoint == [h \in Hosts |-> IF h = "HOST" THEN "host" ELSE h]
Draft(p, h, y) == [protocol |-> p, host |-> h, user |-> "u", key |-> y]
SixDrafts ==
    {Draft("sftp", "host", "k"), Draft("sftp", "HOST", "k"), Draft("sftp", "other", "k"),
     Draft("sftp", "host", Missing), Draft("ftp", "host", Missing), Draft("ftp", "HOST", "k")}
AllOrNothing == {<<"kept", "kept", "kept">>, <<"typed", "typed", "typed">>}

Profile == INSTANCE ProfileStore WITH
    Absent <- NoFile, MaxFaults <- ProfileFaults, pc <- profilesPc, call <- profilesCall,
    faults <- profileFaults
Binding == INSTANCE ProfileBinding WITH
    Ids <- Sites, Keys <- KeyFiles, HostKeys <- ShownKeys, None <- Missing,
    pc <- bindingPc, call <- bindingCall, session <- bindingSession
Marks == INSTANCE Bookmarks WITH
    MaxSaves <- MarkSaves, MaxFaults <- MarkFaults, MaxConnections <- 0,
    main <- marksMain, previous <- marksPrevious, pending <- marksPending,
    issued <- marksIssued, acknowledged <- marksAcknowledged, faults <- marksFaults,
    missed <- marksMissed, session <- marksSession, nav <- marksNav
Visits == INSTANCE Bookmarks WITH
    MaxSaves <- VisitSaves, MaxFaults <- 0, MaxConnections <- VisitConnections,
    main <- visitsMain, previous <- visitsPrevious, pending <- visitsPending,
    issued <- visitsIssued, acknowledged <- visitsAcknowledged, faults <- visitsFaults,
    missed <- visitsMissed, session <- visitsSession, nav <- visitsNav
Rules == INSTANCE SettingsRules WITH
    Edited <- PanelChoices, stored <- rulesStored, draft <- rulesDraft,
    editor <- rulesEditor, touched <- rulesTouched
Policy == INSTANCE SettingsRules WITH
    Edited <- PolicyChoices, stored <- policyStored, draft <- policyDraft,
    editor <- policyEditor, touched <- policyTouched
Writers == INSTANCE SettingsWriters WITH
    Entries <- {}, MaxChanges <- WindowChanges, MaxFaults <- WriteFaults,
    disk <- writersDisk, cache <- writersCache, ui <- writersUi, calls <- writersCalls,
    enabled <- writersEnabled, modal <- writersModal, draft <- writersDraft,
    boxes <- writersBoxes, changes <- writersChanges, faults <- writersFaults
SiteWriters == INSTANCE SettingsWriters WITH
    Entries <- {"site", "load"}, MaxChanges <- SiteChanges, MaxFaults <- WriteFaults,
    disk <- sitesDisk, cache <- sitesCache, ui <- sitesUi, calls <- sitesCalls,
    enabled <- sitesEnabled, modal <- sitesModal, draft <- sitesDraft,
    boxes <- sitesBoxes, changes <- sitesChanges, faults <- sitesFaults
Install == INSTANCE InstallTransaction WITH
    MaxFaults <- SetupFaults, MaxOthers <- SetupOthers, MaxCrashes <- SetupCrashes,
    Pinned <- TRUE, pc <- installPc, faults <- installFaults
Removal == INSTANCE AppRemoval WITH
    MaxFaults <- RemovalFaults, MaxUser <- UserChanges, faults <- removalFaults,
    changes <- removalChanges

ASSUME StoresAssumption ==
    /\ Profile!ProfileAssumption /\ Binding!BindingAssumption /\ Rules!EditedAssumption
    /\ Policy!EditedAssumption /\ Writers!WritersAssumption
    /\ SiteWriters!WritersAssumption /\ Install!InstallAssumption
    /\ Removal!RemovalAssumption

(* A component that this behaviour is not about does nothing. *)
Unused == 0
NoProfile ==
    /\ sec = Unused /\ secMay = Unused /\ prev = Unused /\ prevMay = Unused
    /\ leg = Unused /\ legMay = Unused
    /\ key = Unused /\ keyMay = Unused /\ profilesPc = Unused /\ profilesCall = Unused
    /\ items = Unused /\ migrating = Unused /\ kept = Unused /\ gone = Unused
    /\ older = Unused /\ forgot = Unused /\ weak = Unused /\ damages = Unused
    /\ profileFaults = Unused
ProfileVars == <<sec, secMay, prev, prevMay, leg, legMay, key, keyMay, profilesPc,
    profilesCall, items, migrating, kept, gone, older, forgot, weak, damages,
    profileFaults>>
NoBinding ==
    /\ saved = Unused /\ locked = Unused /\ bindingPc = Unused /\ bindingCall = Unused
    /\ shown = Unused /\ asked = Unused /\ bindingSession = Unused
BindingVars == <<saved, locked, bindingPc, bindingCall, shown, asked, bindingSession>>
NoMarks ==
    /\ marksMain = Unused /\ marksPrevious = Unused /\ marksPending = Unused
    /\ marksIssued = Unused /\ marksAcknowledged = Unused /\ marksFaults = Unused
    /\ marksMissed = Unused /\ marksSession = Unused /\ marksNav = Unused
MarksVars == <<marksMain, marksPrevious, marksPending, marksIssued, marksAcknowledged,
    marksFaults, marksMissed, marksSession, marksNav>>
NoVisits ==
    /\ visitsMain = Unused /\ visitsPrevious = Unused /\ visitsPending = Unused
    /\ visitsIssued = Unused /\ visitsAcknowledged = Unused /\ visitsFaults = Unused
    /\ visitsMissed = Unused /\ visitsSession = Unused /\ visitsNav = Unused
VisitsVars == <<visitsMain, visitsPrevious, visitsPending, visitsIssued,
    visitsAcknowledged, visitsFaults, visitsMissed, visitsSession, visitsNav>>
NoRules ==
    /\ rulesStored = Unused /\ rulesDraft = Unused /\ rulesEditor = Unused
    /\ rulesTouched = Unused
RulesVars == <<rulesStored, rulesDraft, rulesEditor, rulesTouched>>
NoPolicy ==
    /\ policyStored = Unused /\ policyDraft = Unused /\ policyEditor = Unused
    /\ policyTouched = Unused
PolicyVars == <<policyStored, policyDraft, policyEditor, policyTouched>>
NoWriters ==
    /\ writersDisk = Unused /\ writersCache = Unused /\ writersUi = Unused
    /\ writersCalls = Unused /\ writersEnabled = Unused /\ writersModal = Unused
    /\ writersDraft = Unused /\ writersBoxes = Unused /\ writersChanges = Unused
    /\ writersFaults = Unused
WritersVars == <<writersDisk, writersCache, writersUi, writersCalls, writersEnabled,
    writersModal, writersDraft, writersBoxes, writersChanges, writersFaults>>
NoSiteWriters ==
    /\ sitesDisk = Unused /\ sitesCache = Unused /\ sitesUi = Unused
    /\ sitesCalls = Unused /\ sitesEnabled = Unused /\ sitesModal = Unused
    /\ sitesDraft = Unused /\ sitesBoxes = Unused /\ sitesChanges = Unused
    /\ sitesFaults = Unused
SiteWritersVars == <<sitesDisk, sitesCache, sitesUi, sitesCalls, sitesEnabled,
    sitesModal, sitesDraft, sitesBoxes, sitesChanges, sitesFaults>>
NoInstall ==
    /\ file = Unused /\ bak = Unused /\ reg = Unused /\ installPc = Unused
    /\ at = Unused /\ existed = Unused /\ orig = Unused /\ activated = Unused
    /\ installed = Unused /\ snap = Unused /\ failed = Unused /\ broken = Unused
    /\ late = Unused /\ installFaults = Unused /\ others = Unused /\ crashes = Unused
InstallVars == <<file, bak, reg, installPc, at, existed, orig, activated, installed,
    snap, failed, broken, late, installFaults, others, crashes>>
NoRemoval ==
    /\ exe = Unused /\ running = Unused /\ link = Unused /\ rec = Unused
    /\ keys = Unused /\ setup = Unused /\ parent = Unused /\ helper = Unused
    /\ todo = Unused /\ warned = Unused /\ setups = Unused /\ removalFaults = Unused
    /\ removalChanges = Unused
RemovalVars == <<exe, running, link, rec, keys, setup, parent, helper, todo, warned,
    setups, removalFaults, removalChanges>>

Init ==
    \/ part = "profiles" /\ Profile!Init
       /\ NoBinding /\ NoMarks /\ NoVisits /\ NoRules /\ NoPolicy /\ NoWriters /\
       NoSiteWriters /\ NoInstall /\ NoRemoval
    \/ part = "binding" /\ Binding!Init
       /\ NoProfile /\ NoMarks /\ NoVisits /\ NoRules /\ NoPolicy /\ NoWriters /\
       NoSiteWriters /\ NoInstall /\ NoRemoval
    \/ part = "marks" /\ Marks!Init
       /\ NoProfile /\ NoBinding /\ NoVisits /\ NoRules /\ NoPolicy /\ NoWriters /\
       NoSiteWriters /\ NoInstall /\ NoRemoval
    \/ part = "visits" /\ Visits!Init
       /\ NoProfile /\ NoBinding /\ NoMarks /\ NoRules /\ NoPolicy /\ NoWriters /\
       NoSiteWriters /\ NoInstall /\ NoRemoval
    \/ part = "rules" /\ Rules!Init
       /\ NoProfile /\ NoBinding /\ NoMarks /\ NoVisits /\ NoPolicy /\ NoWriters /\
       NoSiteWriters /\ NoInstall /\ NoRemoval
    \/ part = "policy" /\ Policy!Init
       /\ NoProfile /\ NoBinding /\ NoMarks /\ NoVisits /\ NoRules /\ NoWriters /\
       NoSiteWriters /\ NoInstall /\ NoRemoval
    \/ part = "writers" /\ Writers!Init
       /\ NoProfile /\ NoBinding /\ NoMarks /\ NoVisits /\ NoRules /\ NoPolicy /\
       NoSiteWriters /\ NoInstall /\ NoRemoval
    \/ part = "sites" /\ SiteWriters!Init
       /\ NoProfile /\ NoBinding /\ NoMarks /\ NoVisits /\ NoRules /\ NoPolicy /\
       NoWriters /\ NoInstall /\ NoRemoval
    \/ part = "install" /\ Install!Init
       /\ NoProfile /\ NoBinding /\ NoMarks /\ NoVisits /\ NoRules /\ NoPolicy /\
       NoWriters /\ NoSiteWriters /\ NoRemoval
    \/ part = "removal" /\ Removal!Init
       /\ NoProfile /\ NoBinding /\ NoMarks /\ NoVisits /\ NoRules /\ NoPolicy /\
       NoWriters /\ NoSiteWriters /\ NoInstall

OnlyProfile ==
    /\ part = "profiles"
    /\ UNCHANGED <<part, BindingVars, MarksVars, VisitsVars, RulesVars, PolicyVars,
         WritersVars, SiteWritersVars, InstallVars, RemovalVars>>
OnlyBinding ==
    /\ part = "binding"
    /\ UNCHANGED <<part, ProfileVars, MarksVars, VisitsVars, RulesVars, PolicyVars,
         WritersVars, SiteWritersVars, InstallVars, RemovalVars>>
OnlyMarks ==
    /\ part = "marks"
    /\ UNCHANGED <<part, ProfileVars, BindingVars, VisitsVars, RulesVars, PolicyVars,
         WritersVars, SiteWritersVars, InstallVars, RemovalVars>>
OnlyVisits ==
    /\ part = "visits"
    /\ UNCHANGED <<part, ProfileVars, BindingVars, MarksVars, RulesVars, PolicyVars,
         WritersVars, SiteWritersVars, InstallVars, RemovalVars>>
OnlyRules ==
    /\ part = "rules"
    /\ UNCHANGED <<part, ProfileVars, BindingVars, MarksVars, VisitsVars, PolicyVars,
         WritersVars, SiteWritersVars, InstallVars, RemovalVars>>
OnlyPolicy ==
    /\ part = "policy"
    /\ UNCHANGED <<part, ProfileVars, BindingVars, MarksVars, VisitsVars, RulesVars,
         WritersVars, SiteWritersVars, InstallVars, RemovalVars>>
OnlyWriters ==
    /\ part = "writers"
    /\ UNCHANGED <<part, ProfileVars, BindingVars, MarksVars, VisitsVars, RulesVars,
         PolicyVars, SiteWritersVars, InstallVars, RemovalVars>>
OnlySiteWriters ==
    /\ part = "sites"
    /\ UNCHANGED <<part, ProfileVars, BindingVars, MarksVars, VisitsVars, RulesVars,
         PolicyVars, WritersVars, InstallVars, RemovalVars>>
OnlyInstall ==
    /\ part = "install"
    /\ UNCHANGED <<part, ProfileVars, BindingVars, MarksVars, VisitsVars, RulesVars,
         PolicyVars, WritersVars, SiteWritersVars, RemovalVars>>
OnlyRemoval ==
    /\ part = "removal"
    /\ UNCHANGED <<part, ProfileVars, BindingVars, MarksVars, VisitsVars, RulesVars,
         PolicyVars, WritersVars, SiteWritersVars, InstallVars>>

Next ==
    \/ OnlyProfile /\ Profile!Next
    \/ OnlyBinding /\ Binding!Next
    \/ OnlyMarks /\ Marks!Next
    \/ OnlyVisits /\ Visits!Next
    \/ OnlyRules /\ Rules!Next
    \/ OnlyPolicy /\ Policy!Next
    \/ OnlyWriters /\ Writers!Next
    \/ OnlySiteWriters /\ SiteWriters!Next
    \/ OnlyInstall /\ Install!Next
    \/ OnlyRemoval /\ Removal!Next

vars ==
    <<part, ProfileVars, BindingVars, MarksVars, VisitsVars, RulesVars, PolicyVars,
      WritersVars, SiteWritersVars, InstallVars, RemovalVars>>
Spec == Init /\ [][Next]_vars
-----------------------------------------------------------------------------
\* What was acknowledged is kept: profiles through crashes, damage and the
\* removal of the older file, which revives none, until something is written after a
\* read that missed the newest file or with a key that was never synced (profiles.go);
\* bookmarks through writes that fail (bookmarks.go).
AcknowledgedIsKept ==
    /\ part = "profiles" =>
          Profile!NothingLost /\ Profile!NothingRevived /\ Profile!TornKeyGuardsNothing
    /\ part = "marks" => Marks!SavedIsKept

\* Every write of a store is the change asked for: unreadable profiles are replaced
\* only where an older generation was read or they were kept as one, a write of
\* bookmarks changes one of them, settings are stored as accepted
\* and otherwise untouched, and what takes effect is on disk before.
WritesOneChange ==
    [][/\ part = "profiles" => Profile!UnreadableIsKeptStep
       /\ part = "marks" => Marks!OneChangeStep
       /\ part = "rules" => Rules!AcceptedIsStoredStep
       /\ part = "policy" => Policy!OnlyTouchedStep /\ Policy!AcceptedIsStoredStep
       /\ part = "writers" => Writers!InEffectIsOnDiskStep /\ Writers!NoStaleWriteStep
       /\ part = "sites" => SiteWriters!InEffectIsOnDiskStep]_vars

\* The settings the programs show, accept and store agree: every panel accepts
\* what another stored, a share of the rate stays within it, and the stored value
\* is canonical (settings.go).
SettingsAgree ==
    /\ part = "rules" => Rules!PanelAccepted /\ Rules!ShareWithinBudget /\ Rules!StepsReturn
    /\ part = "policy" => Policy!StoredCanonical /\ Policy!PanelAccepted
    /\ part = "writers" => Writers!WindowShowsStore

\* A secret, a pin and the bookmarks go with the account they were given for
\* (profiles.go, profile_bundle.go, bookmarks.go).
SecretsBelong ==
    /\ part = "binding" =>
          Binding!SecretsBelong /\ Binding!OwnSecretsOnly /\ Binding!PinHolds
    /\ part = "visits" => Visits!RowsOfAccount

\* Setup installs the whole program or leaves what was there (transaction.go), and a
\* removal begins at the registration and leaves no shortcut of the program.
RollbackRestores ==
    /\ part = "install" =>
          /\ Install!OriginalKept /\ Install!CommittedIsInstalled
          /\ Install!RollbackRestores /\ Install!ValuesRestored
    /\ part = "removal" => Removal!RegisteredUntilStarted /\ Removal!NoShortcutLeft

\* Setup and removal change only what is the program's own.
OnlyTheProgram ==
    [][/\ part = "install" => Install!ProgramStaysStep /\ Install!OthersKeptStep
       /\ part = "removal" => Removal!OnlyRecordedLinksStep /\ Removal!OnlyTheProgramStep]_vars
=============================================================================

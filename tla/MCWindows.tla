------------------------------ MODULE MCWindows ------------------------------
(* The components of the Windows window, side by side: each behaviour is about one
   of them. *)
EXTENDS Naturals

CONSTANTS LinkClicks, Dirs, StartDir, PaneClicks, MaxJobs, Limit, LogCap,
    LogKeep, Sizes, MaxSeq, Deepest, MaxStarts, MaxGenerations, MaxMoves

VARIABLES
    part,  \* the component this behaviour is about
    linkConnected, linkBusy, linkHealth, linkSaving, linkGen, linkDialog, linkTesting,
    linkClosed, linkSession, linkOwner, linkCalls, linkClicks, linkIds,
    taken, overlapped,
    panesCur, list, panesSeq, mutating, panesConnected, panesBusy, panesGen,
    panesDialog, panesCalls, ver, unseen, missed, failed, panesClicks,
    queueJobs, queueIds, paused, accepting, queueClosed, log, queueSeq, queueShown,
    since, uiPaused, filter, rows, seen, refreshed, due, queueLink, gap,
    compareLink, compareGen, compareCur, pane, moving, compareCmp, compareJobs, moves,
    controlsConnected, controlsBusy, lmut, rmut, pmut, lastRemote, lsel, rsel,
    controlsCmp, moved, controlsShown, enabled

Link == INSTANCE WindowsConnection WITH
    MaxClicks <- LinkClicks,
    connected <- linkConnected, busy <- linkBusy, health <- linkHealth,
    saving <- linkSaving, gen <- linkGen, dialog <- linkDialog, testing <- linkTesting,
    closed <- linkClosed, session <- linkSession, owner <- linkOwner,
    calls <- linkCalls, clicks <- linkClicks, ids <- linkIds
Panes == INSTANCE WindowsPanes WITH
    MaxClicks <- PaneClicks, Start <- StartDir, cur <- panesCur, seq <- panesSeq,
    connected <- panesConnected, busy <- panesBusy, gen <- panesGen,
    dialog <- panesDialog, calls <- panesCalls, clicks <- panesClicks
Queue == INSTANCE WindowsQueue WITH
    jobs <- queueJobs, ids <- queueIds, closed <- queueClosed, seq <- queueSeq,
    shown <- queueShown, link <- queueLink
Compare == INSTANCE WindowsCompare WITH
    link <- compareLink, gen <- compareGen, cur <- compareCur, cmp <- compareCmp,
    jobs <- compareJobs
Controls == INSTANCE WindowsControls WITH
    connected <- controlsConnected, busy <- controlsBusy, cmp <- controlsCmp,
    shown <- controlsShown

ASSUME WindowsAssumption ==
    /\ Link!WindowAssumption /\ Panes!PanesAssumption
    /\ Queue!FeedAssumption /\ Compare!WindowsCompareAssumption

(* A component that this behaviour is not about does nothing. *)
Unused == 0
NoLink ==
    /\ linkConnected = Unused /\ linkBusy = Unused /\ linkHealth = Unused
    /\ linkSaving = Unused /\ linkGen = Unused /\ linkDialog = Unused
    /\ linkTesting = Unused /\ linkClosed = Unused /\ linkSession = Unused
    /\ linkOwner = Unused /\ linkCalls = Unused /\ linkClicks = Unused
    /\ linkIds = Unused /\ taken = Unused /\ overlapped = Unused
LinkVars == <<linkConnected, linkBusy, linkHealth, linkSaving, linkGen, linkDialog,
    linkTesting, linkClosed, linkSession, linkOwner, linkCalls, linkClicks, linkIds,
    taken, overlapped>>
NoPanes ==
    /\ panesCur = Unused /\ list = Unused /\ panesSeq = Unused /\ mutating = Unused
    /\ panesConnected = Unused /\ panesBusy = Unused /\ panesGen = Unused
    /\ panesDialog = Unused /\ panesCalls = Unused /\ ver = Unused /\ unseen = Unused
    /\ missed = Unused /\ failed = Unused /\ panesClicks = Unused
PanesVars == <<panesCur, list, panesSeq, mutating, panesConnected, panesBusy, panesGen,
    panesDialog, panesCalls, ver, unseen, missed, failed, panesClicks>>
NoQueue ==
    /\ queueJobs = Unused /\ queueIds = Unused /\ paused = Unused /\ accepting = Unused
    /\ queueClosed = Unused /\ log = Unused /\ queueSeq = Unused /\ queueShown = Unused
    /\ since = Unused /\ uiPaused = Unused /\ filter = Unused /\ rows = Unused
    /\ seen = Unused /\ refreshed = Unused /\ due = Unused /\ queueLink = Unused
    /\ gap = Unused
QueueVars == <<queueJobs, queueIds, paused, accepting, queueClosed, log, queueSeq,
    queueShown, since, uiPaused, filter, rows, seen, refreshed, due, queueLink, gap>>
NoCompare ==
    /\ compareLink = Unused /\ compareGen = Unused /\ compareCur = Unused
    /\ pane = Unused /\ moving = Unused /\ compareCmp = Unused /\ compareJobs = Unused
    /\ moves = Unused
CompareVars == <<compareLink, compareGen, compareCur, pane, moving, compareCmp,
    compareJobs, moves>>
NoControls ==
    /\ controlsConnected = Unused /\ controlsBusy = Unused /\ lmut = Unused
    /\ rmut = Unused /\ pmut = Unused /\ lastRemote = Unused /\ lsel = Unused
    /\ rsel = Unused /\ controlsCmp = Unused /\ moved = Unused /\ controlsShown = Unused
    /\ enabled = Unused
ControlsVars == <<controlsConnected, controlsBusy, lmut, rmut, pmut, lastRemote, lsel,
    rsel, controlsCmp, moved, controlsShown, enabled>>

Init ==
    \/ part = "link" /\ Link!Init
       /\ NoPanes /\ NoQueue /\ NoCompare /\ NoControls
    \/ part = "panes" /\ Panes!Init
       /\ NoLink /\ NoQueue /\ NoCompare /\ NoControls
    \/ part = "queue" /\ Queue!Init
       /\ NoLink /\ NoPanes /\ NoCompare /\ NoControls
    \/ part = "compare" /\ Compare!Init
       /\ NoLink /\ NoPanes /\ NoQueue /\ NoControls
    \/ part = "controls" /\ Controls!Init
       /\ NoLink /\ NoPanes /\ NoQueue /\ NoCompare

OnlyLink ==
    /\ part = "link"
    /\ UNCHANGED <<part, PanesVars, QueueVars, CompareVars, ControlsVars>>
OnlyPanes ==
    /\ part = "panes"
    /\ UNCHANGED <<part, LinkVars, QueueVars, CompareVars, ControlsVars>>
OnlyQueue ==
    /\ part = "queue"
    /\ UNCHANGED <<part, LinkVars, PanesVars, CompareVars, ControlsVars>>
OnlyCompare ==
    /\ part = "compare"
    /\ UNCHANGED <<part, LinkVars, PanesVars, QueueVars, ControlsVars>>
OnlyControls ==
    /\ part = "controls"
    /\ UNCHANGED <<part, LinkVars, PanesVars, QueueVars, CompareVars>>

Next ==
    \/ OnlyLink /\ Link!Next
    \/ OnlyPanes /\ Panes!Next
    \/ OnlyQueue /\ Queue!Next
    \/ OnlyCompare /\ Compare!Next
    \/ OnlyControls /\ Controls!Next

vars ==
    <<part, LinkVars, PanesVars, QueueVars, CompareVars, ControlsVars>>
Spec == Init /\ [][Next]_vars
-----------------------------------------------------------------------------
\* The session of the window: the connection it shows is the session the engine
\* has (but for what overlapping Disconnects and connection tests take: see "Disagreements
\* found" in the README), it is busy only with something that will end, and a site is saved
\* neither under a connection nor under the end of the window
\* (connection_profiles_windows.go).
SessionIsOwn ==
    part = "link" =>
        /\ Link!ConnectedHasSession
        /\ Link!BusyHasReason /\ Link!NoSaveCut /\ Link!NoConnectInSave

\* The rows of the panes: a change acts in the directory it was asked in, on the
\* connection it was asked on, and one at a time; when nothing is under way a
\* pane shows what its directory holds, and nothing without a connection
\* (files_actions_windows.go).  The rows of a comparison are of the directories it
\* names (directory_compare_windows.go).
RowsAreCurrent ==
    /\ part = "panes" =>
          /\ Panes!ChangesWhereSeen /\ Panes!BeginsOnItsLink /\ Panes!OneChange
          /\ Panes!OfflineIsEmpty /\ Panes!LocalFresh /\ Panes!RemoteFresh
    /\ part = "compare" => Compare!PaneShowsAddress /\ Compare!RowsAreOfBases

\* The list of transfers: a window that has read all events shows the queue's own
\* jobs and its own pause, and has refreshed the panes once for each job it shows
\* as done; the counts of bytes are those of the attempt under way
\* (transfers_windows.go, progress.go).
QueueIsReplayed ==
    part = "queue" =>
        /\ Queue!Replayed /\ Queue!PausedShown /\ Queue!PanesOnce /\ Queue!DoneWasSeen
        /\ Queue!MetricsTrue

\* The controls: what is offered acts (but for Cancel, Sync and Up, see "Disagreements
\* found" in the README), a comparison covers the panes it is about,
\* and there is a way out of every state of the connection
\* (master_workspace_windows.go).
OfferedActs ==
    part = "controls" =>
        Controls!OfferedActs /\ Controls!ComparisonCovers /\ Controls!OneWayOut

\* A comparison that is opened one level deeper moves the panes behind it to the two
\* directories it then compares (directory_compare_windows.go).
OpenedTogether == [][part = "compare" => Compare!OpenedTogetherStep]_vars
=============================================================================

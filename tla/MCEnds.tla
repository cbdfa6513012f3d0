-------------------------------- MODULE MCEnds --------------------------------
(* What must come to an end, side by side: each behaviour is about one component, on a
   small instance, with the fairness of its own specification. *)
EXTENDS Naturals

VARIABLES
    part,  \* the component this behaviour is about
    linkConnected, linkBusy, health, saving, linkGen, linkDialog, testing, linkClosed,
    session, owner, linkCalls, linkClicks, linkIds, taken, overlapped,
    panesCur, list, panesSeq, mutating, panesConnected, panesBusy, panesGen,
    panesDialog, panesCalls, ver, unseen, missed, panesFailed, panesClicks,
    queueJobs, queueIds, paused, accepting, queueClosed, log, queueSeq, shown, since,
    uiPaused, filter, rows, seen, refreshed, due, queueLink, gap,
    compareLink, compareGen, compareCur, pane, moving, cmp, compareJobs, moves,
    win, work, queue, tasks, acted,
    tree, opt, ctx, w, searchTo,
    windows, editorFile, mode, call, workspaces, stuck, ui, asks, closeOk, reloadOk, doc,
    buffer, text, live, fresh, editorOthers, edits, made, typed,
    direction, source, picked, treePc, treeAt, dirs, files, known, held, queued, free,
    plain, treeGen, begun, dest, entries, handle, treeOthers,
    installFile, bak, reg, installPc, installAt, existed, orig, activated, installed,
    snap, installFailed, broken, late, faults, installOthers, crashes

TreeParent == [n \in {"a", "b", "f"} |-> IF n = "f" THEN "a" ELSE "root"]
SearchDefault == [depth |-> 2, visited |-> 6, results |-> 4, batch |-> 2]
SearchHard == [depth |-> 3, visited |-> 8, results |-> 7, batch |-> 3]
SearchAsked == {[depth |-> d, visited |-> v, results |-> r, batch |-> b] :
                   d \in {0, 4}, v \in {0}, r \in {0, 7}, b \in {1}}

Link == INSTANCE WindowsConnection WITH
    MaxClicks <- 4, connected <- linkConnected, busy <- linkBusy, gen <- linkGen,
    dialog <- linkDialog, closed <- linkClosed,
    calls <- linkCalls, clicks <- linkClicks, ids <- linkIds
Panes == INSTANCE WindowsPanes WITH
    Dirs <- {"a", "b"}, Start <- "a", MaxClicks <- 2, cur <- panesCur, seq <- panesSeq,
    connected <- panesConnected, busy <- panesBusy, gen <- panesGen,
    dialog <- panesDialog, calls <- panesCalls, failed <- panesFailed,
    clicks <- panesClicks
Queue == INSTANCE WindowsQueue WITH
    MaxJobs <- 1, Limit <- 1, LogCap <- 3, LogKeep <- 2, Sizes <- {0}, MaxSeq <- 5,
    jobs <- queueJobs, ids <- queueIds, closed <- queueClosed, seq <- queueSeq,
    link <- queueLink
Compare == INSTANCE WindowsCompare WITH
    Deepest <- 1, MaxStarts <- 2, MaxGenerations <- 3, MaxMoves <- 2,
    link <- compareLink, gen <- compareGen, cur <- compareCur, jobs <- compareJobs
Modal == INSTANCE LinuxModal WITH
    Cap <- 1, MaxSearch <- 0, MaxCompare <- 2, MaxTasks <- 1
Search == INSTANCE FileSearch WITH
    Default <- SearchDefault, Hard <- SearchHard, Asked <- SearchAsked,
    to <- searchTo
Editor == INSTANCE RemoteEdit WITH
    Long <- FALSE, MaxOthers <- 1, MaxEdits <- 2, MaxCalls <- 3, file <- editorFile,
    others <- editorOthers
Tree == INSTANCE TreeTransfer WITH
    Nodes <- {"root", "a", "b", "f"}, Root <- "root", Parent <- TreeParent,
    MaxDepth <- 2, MaxItems <- 3, Capacity <- 2, MaxOthers <- 1, pc <- treePc,
    at <- treeAt, gen <- treeGen, others <- treeOthers
Install == INSTANCE InstallTransaction WITH
    MaxFaults <- 2, MaxOthers <- 1, MaxCrashes <- 1, Pinned <- TRUE,
    file <- installFile, pc <- installPc, at <- installAt, failed <- installFailed,
    others <- installOthers

ASSUME EndsAssumption ==
    /\ Link!WindowAssumption /\ Panes!PanesAssumption /\ Queue!FeedAssumption
    /\ Compare!WindowsCompareAssumption /\ Modal!ModalAssumption
    /\ Search!SearchAssumption /\ Editor!EditAssumption /\ Tree!TreeAssumption
    /\ Install!InstallAssumption

(* A component that this behaviour is not about does nothing. *)
Unused == 0
NoLink ==
    /\ linkConnected = Unused /\ linkBusy = Unused /\ health = Unused /\ saving = Unused
    /\ linkGen = Unused /\ linkDialog = Unused /\ testing = Unused
    /\ linkClosed = Unused /\ session = Unused /\ owner = Unused /\ linkCalls = Unused
    /\ linkClicks = Unused /\ linkIds = Unused
    /\ taken = Unused /\ overlapped = Unused
LinkVars == <<linkConnected, linkBusy, health, saving, linkGen, linkDialog, testing,
    linkClosed, session, owner, linkCalls, linkClicks, linkIds, taken,
    overlapped>>
NoPanes ==
    /\ panesCur = Unused /\ list = Unused /\ panesSeq = Unused /\ mutating = Unused
    /\ panesConnected = Unused /\ panesBusy = Unused /\ panesGen = Unused
    /\ panesDialog = Unused /\ panesCalls = Unused /\ ver = Unused /\ unseen = Unused
    /\ missed = Unused /\ panesFailed = Unused /\ panesClicks = Unused
PanesVars == <<panesCur, list, panesSeq, mutating, panesConnected, panesBusy, panesGen,
    panesDialog, panesCalls, ver, unseen, missed, panesFailed, panesClicks>>
NoQueue ==
    /\ queueJobs = Unused /\ queueIds = Unused /\ paused = Unused /\ accepting = Unused
    /\ queueClosed = Unused /\ log = Unused /\ queueSeq = Unused /\ shown = Unused
    /\ since = Unused /\ uiPaused = Unused /\ filter = Unused /\ rows = Unused
    /\ seen = Unused /\ refreshed = Unused /\ due = Unused /\ queueLink = Unused
    /\ gap = Unused
QueueVars == <<queueJobs, queueIds, paused, accepting, queueClosed, log, queueSeq,
    shown, since, uiPaused, filter, rows, seen, refreshed, due, queueLink, gap>>
NoCompare ==
    /\ compareLink = Unused /\ compareGen = Unused /\ compareCur = Unused
    /\ pane = Unused /\ moving = Unused /\ cmp = Unused /\ compareJobs = Unused
    /\ moves = Unused
CompareVars == <<compareLink, compareGen, compareCur, pane, moving, cmp, compareJobs,
    moves>>
NoModal ==
    /\ win = Unused /\ work = Unused /\ queue = Unused /\ tasks = Unused
    /\ acted = Unused
ModalVars == <<win, work, queue, tasks, acted>>
NoSearch ==
    /\ tree = Unused /\ opt = Unused /\ ctx = Unused /\ w = Unused
    /\ searchTo = Unused
SearchVars == <<tree, opt, ctx, w, searchTo>>
NoEditor ==
    /\ windows = Unused /\ editorFile = Unused /\ mode = Unused /\ call = Unused
    /\ workspaces = Unused /\ stuck = Unused /\ ui = Unused /\ asks = Unused /\ closeOk = Unused
    /\ reloadOk = Unused /\ doc = Unused /\ buffer = Unused /\ text = Unused
    /\ live = Unused /\ fresh = Unused /\ editorOthers = Unused /\ edits = Unused
    /\ made = Unused /\ typed = Unused
EditorVars == <<windows, editorFile, mode, call, workspaces, stuck, ui, asks, closeOk,
    reloadOk, doc, buffer, text, live, fresh, editorOthers, edits, made, typed>>
NoTree ==
    /\ direction = Unused /\ source = Unused /\ picked = Unused /\ treePc = Unused
    /\ treeAt = Unused /\ dirs = Unused /\ files = Unused /\ known = Unused
    /\ held = Unused /\ queued = Unused /\ free = Unused /\ plain = Unused
    /\ treeGen = Unused /\ begun = Unused /\ dest = Unused /\ entries = Unused
    /\ handle = Unused /\ treeOthers = Unused
TreeVars == <<direction, source, picked, treePc, treeAt, dirs, files, known, held,
    queued, free, plain, treeGen, begun, dest, entries, handle, treeOthers>>
NoInstall ==
    /\ installFile = Unused /\ bak = Unused /\ reg = Unused /\ installPc = Unused
    /\ installAt = Unused /\ existed = Unused /\ orig = Unused /\ activated = Unused
    /\ installed = Unused /\ snap = Unused /\ installFailed = Unused /\ broken = Unused
    /\ late = Unused /\ faults = Unused /\ installOthers = Unused /\ crashes = Unused
InstallVars == <<installFile, bak, reg, installPc, installAt, existed, orig, activated,
    installed, snap, installFailed, broken, late, faults, installOthers, crashes>>

Init ==
    \/ part = "link" /\ Link!Init
       /\ NoPanes /\ NoQueue /\ NoCompare /\ NoModal /\ NoSearch /\ NoEditor /\ NoTree
       /\ NoInstall
    \/ part = "panes" /\ Panes!Init
       /\ NoLink /\ NoQueue /\ NoCompare /\ NoModal /\ NoSearch /\ NoEditor /\ NoTree /\
       NoInstall
    \/ part = "queue" /\ Queue!Init
       /\ NoLink /\ NoPanes /\ NoCompare /\ NoModal /\ NoSearch /\ NoEditor /\ NoTree /\
       NoInstall
    \/ part = "compare" /\ Compare!Init
       /\ NoLink /\ NoPanes /\ NoQueue /\ NoModal /\ NoSearch /\ NoEditor /\ NoTree /\
       NoInstall
    \/ part = "modal" /\ Modal!Init
       /\ NoLink /\ NoPanes /\ NoQueue /\ NoCompare /\ NoSearch /\ NoEditor /\ NoTree /\
       NoInstall
    \/ part = "search" /\ Search!Init
       /\ NoLink /\ NoPanes /\ NoQueue /\ NoCompare /\ NoModal /\ NoEditor /\ NoTree /\
       NoInstall
    \/ part = "editor" /\ Editor!Init
       /\ NoLink /\ NoPanes /\ NoQueue /\ NoCompare /\ NoModal /\ NoSearch /\ NoTree /\
       NoInstall
    \/ part = "tree" /\ Tree!Init
       /\ NoLink /\ NoPanes /\ NoQueue /\ NoCompare /\ NoModal /\ NoSearch /\ NoEditor
       /\ NoInstall
    \/ part = "install" /\ Install!Init
       /\ NoLink /\ NoPanes /\ NoQueue /\ NoCompare /\ NoModal /\ NoSearch /\ NoEditor
       /\ NoTree

OnlyLink ==
    /\ part = "link"
    /\ UNCHANGED <<part, PanesVars, QueueVars, CompareVars, ModalVars, SearchVars,
         EditorVars, TreeVars, InstallVars>>
OnlyPanes ==
    /\ part = "panes"
    /\ UNCHANGED <<part, LinkVars, QueueVars, CompareVars, ModalVars, SearchVars,
         EditorVars, TreeVars, InstallVars>>
OnlyQueue ==
    /\ part = "queue"
    /\ UNCHANGED <<part, LinkVars, PanesVars, CompareVars, ModalVars, SearchVars,
         EditorVars, TreeVars, InstallVars>>
OnlyCompare ==
    /\ part = "compare"
    /\ UNCHANGED <<part, LinkVars, PanesVars, QueueVars, ModalVars, SearchVars,
         EditorVars, TreeVars, InstallVars>>
OnlyModal ==
    /\ part = "modal"
    /\ UNCHANGED <<part, LinkVars, PanesVars, QueueVars, CompareVars, SearchVars,
         EditorVars, TreeVars, InstallVars>>
OnlySearch ==
    /\ part = "search"
    /\ UNCHANGED <<part, LinkVars, PanesVars, QueueVars, CompareVars, ModalVars,
         EditorVars, TreeVars, InstallVars>>
OnlyEditor ==
    /\ part = "editor"
    /\ UNCHANGED <<part, LinkVars, PanesVars, QueueVars, CompareVars, ModalVars,
         SearchVars, TreeVars, InstallVars>>
OnlyTree ==
    /\ part = "tree"
    /\ UNCHANGED <<part, LinkVars, PanesVars, QueueVars, CompareVars, ModalVars,
         SearchVars, EditorVars, InstallVars>>
OnlyInstall ==
    /\ part = "install"
    /\ UNCHANGED <<part, LinkVars, PanesVars, QueueVars, CompareVars, ModalVars,
         SearchVars, EditorVars, TreeVars>>

Next ==
    \/ OnlyLink /\ Link!Next
    \/ OnlyPanes /\ Panes!Next
    \/ OnlyQueue /\ Queue!Next
    \/ OnlyCompare /\ Compare!Next
    \/ OnlyModal /\ Modal!Next
    \/ OnlySearch /\ Search!Next
    \/ OnlyEditor /\ Editor!Next
    \/ OnlyTree /\ Tree!Next
    \/ OnlyInstall /\ Install!Next

vars ==
    <<part, LinkVars, PanesVars, QueueVars, CompareVars, ModalVars, SearchVars,
      EditorVars, TreeVars, InstallVars>>
\* Each component's own fairness: the first of its fair actions, and the second where
\* it has two.
Works ==
    \/ OnlyLink /\ Link!Work
    \/ OnlyPanes /\ Panes!Results
    \/ OnlyQueue /\ Queue!Refresh
    \/ OnlyCompare /\ Compare!Work
    \/ OnlyModal /\ Modal!Goroutines
    \/ OnlySearch /\ Search!Walk
    \/ OnlyEditor /\ Editor!Engine
    \/ OnlyTree /\ Tree!Step
    \/ OnlyInstall /\ (Install!Setup \/ Install!Rollback)
Answers ==
    \/ OnlyPanes /\ Panes!Declined
    \/ OnlyModal /\ Modal!HandleResult
    \/ OnlyEditor /\ Editor!Result

Spec == Init /\ [][Next]_vars /\ WF_vars(Works) /\ WF_vars(Answers)
-----------------------------------------------------------------------------
\* The windows: a busy connection becomes usable or asks, a pane is not marked for
\* ever, a transfer that is done comes to be shown, a comparison is loaded, a task of
\* the Linux window ends.  The calls: a search, an editor's call, the walk of a tree
\* and setup or its rollback end.
Pending(side) ==
    \/ part = "link" /\ Link!Waits
    \/ part = "panes" /\ mutating[side]
    \/ part = "queue" /\ Queue!Unshown(1)
    \/ part = "compare" /\ Compare!Loads
    \/ part = "modal" /\ Modal!Held
    \/ part = "search" /\ Search!Runs
    \/ part = "editor" /\ Editor!Waiting
    \/ part = "tree" /\ Tree!Goes
    \/ part = "install" /\ Install!Unfinished
NothingHangs == \A side \in {"local", "remote"} : Pending(side) ~> ~Pending(side)
=============================================================================

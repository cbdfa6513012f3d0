------------------------------- MODULE MCLinux -------------------------------
(* The components of the Linux window and what both windows share, side by side: each
   behaviour is about one of them, on a small instance. *)
EXTENDS Naturals

CONSTANTS Servers, MaxSteps, Cap, FoundSearches, FoundCompares, PairSearches,
    PairCompares, MaxTasks, HistoryDirs, ServerDirs, Relative, RelativeTo, HistoryLimit,
    MarkNames, MaxSaves, RowCounts, Widths, Heights, QueueJobs, Limit, LogCap, LogKeep,
    Sizes, MaxSeq, RowLists, Queries, MaxConnections, Default, Hard, SearchOptions,
    Tolerance, MaxDuration, Firsts, Extras, MaxText

VARIABLES
    part,  \* the component this behaviour is about
    mainWin, session, saved, done, steps,
    foundWin, foundWork, foundQueue, foundTasks, foundActed,
    pairsWin, pairsWork, pairsQueue, pairsTasks, pairsActed,
    cur, back, fwd, replay, job, connected, left,
    stored, issued, mode, items, marksSelected, first, marksRows, confirm, asks,
    question, stale,
    layoutW, h, view, overlay,
    jobs, ids, paused, accepting, closed, log, seq, shown, row, uiPaused, after, picked,
    queueLink,
    viewAll, viewOfNow, viewQuery, viewSort, viewRows, viewSelected, viewLink, viewMade,
    viewSearch,
    tableAll, tableOfNow, tableQuery, tableSort, tableRows, tableSelected, tableLink,
    tableMade, tableSearch,
    tree, opt, ctx, searchW, searchTo,
    in, out

Item(n, k, d, y, s, t, p, w) ==
    [name |-> n, key |-> k, dir |-> d, type |-> y, size |-> s, time |-> t, perm |-> p, words |-> w]
ItemA == Item("log", 1, FALSE, 3, 2, 0, 1, {"l"})
ItemB == Item("LOG", 1, FALSE, 2, 2, 5, 0, {"l"})
ItemC == Item("me", 2, FALSE, 2, 1, 4, 2, {"m"})
ItemD == Item("lm", 3, TRUE, 1, 0, 0, 0, {"l", "m"})
ItemE == Item("x", 4, TRUE, 1, 0, 3, 1, {})
PaneListings == {<<ItemA, ItemB, ItemC, ItemD>>, <<ItemE, ItemD, ItemB, ItemA>>, <<ItemC, ItemE>>}

Plain(n, d, l, s, t) == [name |-> n, dir |-> d, link |-> l, size |-> s, time |-> t]
DiffFirsts == {Plain(1, FALSE, FALSE, s, t) : s \in 0..2, t \in {0, 1, 3, 4, 12}}
              \cup {Plain(1, d, l, 0, 3) : d \in BOOLEAN, l \in BOOLEAN}
DiffExtras == {Plain(1, TRUE, FALSE, 0, 3), Plain(2, TRUE, FALSE, 0, 3), Plain(2, FALSE, FALSE, 1, 4)}

SearchDefault == [depth |-> 2, visited |-> 6, results |-> 4, batch |-> 2]
SearchHard == [depth |-> 3, visited |-> 8, results |-> 7, batch |-> 3]
SearchAsked == {[depth |-> d, visited |-> v, results |-> r, batch |-> b] :
                   d \in {0, 1, 4}, v \in {0, 3, 8}, r \in {0, 1, 7}, b \in {1, 3}}

Main == INSTANCE LinuxWindow WITH
    Servers <- Servers, MaxSteps <- MaxSteps, win <- mainWin
Found == INSTANCE LinuxModal WITH
    Cap <- Cap, MaxSearch <- FoundSearches, MaxCompare <- FoundCompares,
    MaxTasks <- MaxTasks, win <- foundWin, work <- foundWork, queue <- foundQueue,
    tasks <- foundTasks, acted <- foundActed
Pairs == INSTANCE LinuxModal WITH
    Cap <- Cap, MaxSearch <- PairSearches, MaxCompare <- PairCompares,
    MaxTasks <- MaxTasks, win <- pairsWin, work <- pairsWork, queue <- pairsQueue,
    tasks <- pairsTasks, acted <- pairsActed
History == INSTANCE LinuxHistory WITH
    LocalDirs <- HistoryDirs, RemoteDirs <- ServerDirs, Relative <- Relative,
    RelativeTo <- RelativeTo, Limit <- HistoryLimit
Marks == INSTANCE LinuxBookmarks WITH
    Names <- MarkNames, MaxSaves <- MaxSaves, Heights <- RowCounts,
    selected <- marksSelected, rows <- marksRows
Layout == INSTANCE LinuxLayout WITH
    Widths <- Widths, Heights <- Heights, w <- layoutW
Queue == INSTANCE LinuxQueue WITH
    MaxJobs <- QueueJobs, Limit <- Limit, LogCap <- LogCap, LogKeep <- LogKeep,
    Sizes <- Sizes, MaxSeq <- MaxSeq, link <- queueLink
View == INSTANCE PaneView WITH
    Listings <- RowLists, Queries <- Queries, Fields <- <<"key", "type", "size", "time",
    "perm">>, MaxConnections <- MaxConnections, Window <- "linux", all <- viewAll,
    ofNow <- viewOfNow, query <- viewQuery, sort <- viewSort, rows <- viewRows,
    selected <- viewSelected, link <- viewLink, made <- viewMade, search <- viewSearch
Table == INSTANCE PaneView WITH
    Listings <- RowLists, Queries <- Queries, Fields <- <<"key", "type", "size", "time",
    "perm">>, MaxConnections <- MaxConnections, Window <- "windows", all <- tableAll,
    ofNow <- tableOfNow, query <- tableQuery, sort <- tableSort, rows <- tableRows,
    selected <- tableSelected, link <- tableLink, made <- tableMade,
    search <- tableSearch
Search == INSTANCE FileSearch WITH
    Default <- Default, Hard <- Hard, Asked <- SearchOptions, w <- searchW,
    to <- searchTo
Shared == INSTANCE SharedAlgorithms WITH
    Tolerance <- Tolerance, MaxDuration <- MaxDuration, Firsts <- Firsts,
    Extras <- Extras, MaxText <- MaxText

ASSUME LinuxAssumption ==
    /\ Main!WindowAssumption /\ Found!ModalAssumption /\ Pairs!ModalAssumption
    /\ History!HistoryAssumption /\ Marks!BookmarkAssumption /\ Layout!LayoutAssumption
    /\ Queue!FeedAssumption /\ View!PaneAssumption /\ Table!PaneAssumption
    /\ Search!SearchAssumption /\ Shared!AlgorithmAssumption

(* A component that this behaviour is not about does nothing. *)
Unused == 0
NoMain ==
    /\ mainWin = Unused /\ session = Unused /\ saved = Unused /\ done = Unused
    /\ steps = Unused
MainVars == <<mainWin, session, saved, done, steps>>
NoFound ==
    /\ foundWin = Unused /\ foundWork = Unused /\ foundQueue = Unused
    /\ foundTasks = Unused /\ foundActed = Unused
FoundVars == <<foundWin, foundWork, foundQueue, foundTasks, foundActed>>
NoPairs ==
    /\ pairsWin = Unused /\ pairsWork = Unused /\ pairsQueue = Unused
    /\ pairsTasks = Unused /\ pairsActed = Unused
PairsVars == <<pairsWin, pairsWork, pairsQueue, pairsTasks, pairsActed>>
NoHistory ==
    /\ cur = Unused /\ back = Unused /\ fwd = Unused /\ replay = Unused /\ job = Unused
    /\ connected = Unused /\ left = Unused
HistoryVars == <<cur, back, fwd, replay, job, connected, left>>
NoMarks ==
    /\ stored = Unused /\ issued = Unused /\ mode = Unused /\ items = Unused
    /\ marksSelected = Unused /\ first = Unused /\ marksRows = Unused
    /\ confirm = Unused /\ asks = Unused /\ question = Unused /\ stale = Unused
MarksVars == <<stored, issued, mode, items, marksSelected, first, marksRows, confirm,
    asks, question, stale>>
NoLayout ==
    /\ layoutW = Unused /\ h = Unused /\ view = Unused /\ overlay = Unused
LayoutVars == <<layoutW, h, view, overlay>>
NoQueue ==
    /\ jobs = Unused /\ ids = Unused /\ paused = Unused /\ accepting = Unused
    /\ closed = Unused /\ log = Unused /\ seq = Unused /\ shown = Unused /\ row = Unused
    /\ uiPaused = Unused /\ after = Unused /\ picked = Unused /\ queueLink = Unused
QueueVars == <<jobs, ids, paused, accepting, closed, log, seq, shown, row, uiPaused,
    after, picked, queueLink>>
NoView ==
    /\ viewAll = Unused /\ viewOfNow = Unused /\ viewQuery = Unused /\ viewSort = Unused
    /\ viewRows = Unused /\ viewSelected = Unused /\ viewLink = Unused
    /\ viewMade = Unused /\ viewSearch = Unused
ViewVars == <<viewAll, viewOfNow, viewQuery, viewSort, viewRows, viewSelected, viewLink,
    viewMade, viewSearch>>
NoTable ==
    /\ tableAll = Unused /\ tableOfNow = Unused /\ tableQuery = Unused
    /\ tableSort = Unused /\ tableRows = Unused /\ tableSelected = Unused
    /\ tableLink = Unused /\ tableMade = Unused
    /\ tableSearch = Unused
TableVars == <<tableAll, tableOfNow, tableQuery, tableSort, tableRows, tableSelected,
    tableLink, tableMade, tableSearch>>
NoSearch ==
    /\ tree = Unused /\ opt = Unused /\ ctx = Unused /\ searchW = Unused /\ searchTo = Unused
SearchVars == <<tree, opt, ctx, searchW, searchTo>>
NoShared ==
    /\ in = Unused /\ out = Unused
SharedVars == <<in, out>>

Init ==
    \/ part = "main" /\ Main!Init
       /\ NoFound /\ NoPairs /\ NoHistory /\ NoMarks /\ NoLayout /\ NoQueue /\ NoView /\
       NoTable /\ NoSearch /\ NoShared
    \/ part = "found" /\ Found!Init
       /\ NoMain /\ NoPairs /\ NoHistory /\ NoMarks /\ NoLayout /\ NoQueue /\ NoView /\
       NoTable /\ NoSearch /\ NoShared
    \/ part = "pairs" /\ Pairs!Init
       /\ NoMain /\ NoFound /\ NoHistory /\ NoMarks /\ NoLayout /\ NoQueue /\ NoView /\
       NoTable /\ NoSearch /\ NoShared
    \/ part = "history" /\ History!Init
       /\ NoMain /\ NoFound /\ NoPairs /\ NoMarks /\ NoLayout /\ NoQueue /\ NoView /\
       NoTable /\ NoSearch /\ NoShared
    \/ part = "marks" /\ Marks!Init
       /\ NoMain /\ NoFound /\ NoPairs /\ NoHistory /\ NoLayout /\ NoQueue /\ NoView /\
       NoTable /\ NoSearch /\ NoShared
    \/ part = "layout" /\ Layout!Init
       /\ NoMain /\ NoFound /\ NoPairs /\ NoHistory /\ NoMarks /\ NoQueue /\ NoView /\
       NoTable /\ NoSearch /\ NoShared
    \/ part = "queue" /\ Queue!Init
       /\ NoMain /\ NoFound /\ NoPairs /\ NoHistory /\ NoMarks /\ NoLayout /\ NoView /\
       NoTable /\ NoSearch /\ NoShared
    \/ part = "view" /\ View!Init
       /\ NoMain /\ NoFound /\ NoPairs /\ NoHistory /\ NoMarks /\ NoLayout /\ NoQueue /\
       NoTable /\ NoSearch /\ NoShared
    \/ part = "table" /\ Table!Init
       /\ NoMain /\ NoFound /\ NoPairs /\ NoHistory /\ NoMarks /\ NoLayout /\ NoQueue /\
       NoView /\ NoSearch /\ NoShared
    \/ part = "search" /\ Search!Init
       /\ NoMain /\ NoFound /\ NoPairs /\ NoHistory /\ NoMarks /\ NoLayout /\ NoQueue /\
       NoView /\ NoTable /\ NoShared
    \/ part = "shared" /\ Shared!Init
       /\ NoMain /\ NoFound /\ NoPairs /\ NoHistory /\ NoMarks /\ NoLayout /\ NoQueue /\
       NoView /\ NoTable /\ NoSearch

OnlyMain ==
    /\ part = "main"
    /\ UNCHANGED <<part, FoundVars, PairsVars, HistoryVars, MarksVars, LayoutVars,
         QueueVars, ViewVars, TableVars, SearchVars, SharedVars>>
OnlyFound ==
    /\ part = "found"
    /\ UNCHANGED <<part, MainVars, PairsVars, HistoryVars, MarksVars, LayoutVars,
         QueueVars, ViewVars, TableVars, SearchVars, SharedVars>>
OnlyPairs ==
    /\ part = "pairs"
    /\ UNCHANGED <<part, MainVars, FoundVars, HistoryVars, MarksVars, LayoutVars,
         QueueVars, ViewVars, TableVars, SearchVars, SharedVars>>
OnlyHistory ==
    /\ part = "history"
    /\ UNCHANGED <<part, MainVars, FoundVars, PairsVars, MarksVars, LayoutVars,
         QueueVars, ViewVars, TableVars, SearchVars, SharedVars>>
OnlyMarks ==
    /\ part = "marks"
    /\ UNCHANGED <<part, MainVars, FoundVars, PairsVars, HistoryVars, LayoutVars,
         QueueVars, ViewVars, TableVars, SearchVars, SharedVars>>
OnlyLayout ==
    /\ part = "layout"
    /\ UNCHANGED <<part, MainVars, FoundVars, PairsVars, HistoryVars, MarksVars,
         QueueVars, ViewVars, TableVars, SearchVars, SharedVars>>
OnlyQueue ==
    /\ part = "queue"
    /\ UNCHANGED <<part, MainVars, FoundVars, PairsVars, HistoryVars, MarksVars,
         LayoutVars, ViewVars, TableVars, SearchVars, SharedVars>>
OnlyView ==
    /\ part = "view"
    /\ UNCHANGED <<part, MainVars, FoundVars, PairsVars, HistoryVars, MarksVars,
         LayoutVars, QueueVars, TableVars, SearchVars, SharedVars>>
OnlyTable ==
    /\ part = "table"
    /\ UNCHANGED <<part, MainVars, FoundVars, PairsVars, HistoryVars, MarksVars,
         LayoutVars, QueueVars, ViewVars, SearchVars, SharedVars>>
OnlySearch ==
    /\ part = "search"
    /\ UNCHANGED <<part, MainVars, FoundVars, PairsVars, HistoryVars, MarksVars,
         LayoutVars, QueueVars, ViewVars, TableVars, SharedVars>>
OnlyShared ==
    /\ part = "shared"
    /\ UNCHANGED <<part, MainVars, FoundVars, PairsVars, HistoryVars, MarksVars,
         LayoutVars, QueueVars, ViewVars, TableVars, SearchVars>>

Next ==
    \/ OnlyMain /\ Main!Next
    \/ OnlyFound /\ Found!Next
    \/ OnlyPairs /\ Pairs!Next
    \/ OnlyHistory /\ History!Next
    \/ OnlyMarks /\ Marks!Next
    \/ OnlyLayout /\ Layout!Next
    \/ OnlyQueue /\ Queue!Next
    \/ OnlyView /\ View!Next
    \/ OnlyTable /\ Table!Next
    \/ OnlySearch /\ Search!Next
    \/ OnlyShared /\ Shared!Next

vars ==
    <<part, MainVars, FoundVars, PairsVars, HistoryVars, MarksVars, LayoutVars,
      QueueVars, ViewVars, TableVars, SearchVars, SharedVars>>
Spec == Init /\ [][Next]_vars
-----------------------------------------------------------------------------
\* A search or a comparison holds the window while it is shown; a busy window has a
\* task; the two panes of a comparison go together (gui_linux.go,
\* recursive_search_linux.go, directory_compare_linux.go).
ModalHoldsWindow ==
    /\ part = "found" => Found!ModalHoldsWindow /\ Found!BusyHasOwner
    /\ part = "pairs" => /\ Pairs!ModalHoldsWindow /\ Pairs!BusyHasOwner
                         /\ Pairs!PairTogether /\ Pairs!ListingOfCurrent

\* The user acts on what is seen: on a question where it was asked, on a file where
\* its row is, unless a path was typed; on the bookmark and the transfer that were selected, although both
\* lists are replaced under the selection; and on a place of this server when going
\* back and forward (gui_linux.go, bookmark_linux.go, queue_actions_linux.go,
\* linux_master_rail.go).
ActsWhereSeen ==
    /\ part = "main" =>
          Main!TrustWhereShown /\ Main!RowsOfSession /\ Main!ChangedWhereSeen
    /\ part = "marks" => Marks!SelectionShown /\ Marks!RowsAreStored
    /\ part = "queue" => Queue!SelectionFollows
    /\ part = "history" => /\ History!Bounded /\ History!OwnServer
                           /\ History!ForwardReturns /\ History!ReplayEnds

\* What is computed is what it stands for: every control lies where a click finds
\* it, never hidden or under an overlay; a pane's rows are its listing, filtered and
\* in order, unless a search was closed or left since; a comparison names everything once and calls the same what is known to
\* be; a search is complete unless it says otherwise; the editor has the text of the
\* file, which a save without a change writes back as it was (gui_linux.go,
\* itemlist, directorycompare, filesearch, remote_edit_buffer.go).
RowsAreTrue ==
    /\ part = "layout" =>
          /\ Layout!InWindow /\ Layout!ReachedWhereDrawn /\ Layout!HiddenIsSilent
          /\ Layout!OverlayApart /\ Layout!RowUnderPointer
    /\ part = "view" => /\ View!RowsAreTheListing /\ View!NoRowsWhenDown
                        /\ View!KnownFirst /\ View!OrderIsFixed
    /\ part = "table" => /\ Table!RowsAreTheListing /\ Table!NoRowsWhenDown
                         /\ Table!KnownFirst /\ Table!OrderIsFixed
    /\ part = "search" => /\ Search!CompleteUnlessSaid /\ Search!OnceInOrder
                          /\ Search!Bounded /\ Search!CountIsShown
    /\ part = "shared" =>
          /\ Shared!EveryNameOnce /\ Shared!Symmetric /\ Shared!SameIsKnown
          /\ Shared!NewerIsKnown /\ Shared!OpensOneDirectory
          /\ Shared!Untouched /\ Shared!RefusedForReason

\* A step of the user does what it was asked to: deletes only what the question named,
\* while deletions are to be confirmed; keeps the selection when the rows change,
\* returns from a search to the window as it was, and loses no place of the history
\* when a visit fails; and a cancelled search shows nothing more in the Windows
\* window, and in the Linux one no more than it had found.
StepsAsAsked ==
    [][/\ part = "main" => Main!DeletedWasAskedStep
       /\ part = "found" => Found!CloseReturnsStep
       /\ part = "pairs" => Pairs!CloseReturnsStep
       /\ part = "marks" => Marks!RemovesTheNamedStep /\ Marks!SavedIsSelectedStep
       /\ part = "view" => View!SelectionStaysStep
       /\ part = "table" => Table!SelectionStaysStep
       /\ part = "history" => History!ReplayKeepsPlacesStep
       /\ part = "search" => Search!CancelIsQuietStep]_vars
=============================================================================

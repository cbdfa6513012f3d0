----------------------------- MODULE WindowsQueue -----------------------------
(***************************************************************************)
(* The transfer list of the Windows window (desktop/transfers_windows.go,  *)
(* queue_priority_windows.go): it polls the queue's events once a second,  *)
(* replays them on its copy of the list, shows the part of it its tab      *)
(* selects, keeps the selection by job and refreshes the file panes once   *)
(* for every job that is done.                                             *)
(*                                                                         *)
(* A handler of the UI thread that calls the engine and then refreshes is  *)
(* two steps, for the queue's goroutines run in between.                   *)
(***************************************************************************)
EXTENDS QueueFeed

VARIABLES
    shown,     \* transferJobs
    since,     \* transferSeq
    uiPaused,  \* queuePaused
    filter,    \* transferViewFilter
    rows,      \* rows of the list that are selected
    seen,      \* seenDone
    refreshed, \* for each id, how often its end refreshed the panes
    due,       \* a handler has called the engine and has still to refresh
    link,      \* "off", "connecting", "enabled", "on", "disconnecting", "disabled"
    gap        \* the first answer the window got began after the first event

win == <<shown, since, uiPaused, filter, rows, seen, refreshed, due, link, gap>>
vars == <<feed, win>>

Init ==
    /\ FeedInit
    /\ shown = <<>> /\ since = 0 /\ uiPaused = FALSE /\ filter = "all" /\ rows = {}
    /\ seen = {} /\ refreshed = [i \in 1..MaxJobs |-> 0] /\ due = FALSE
    /\ link = "off" /\ gap = FALSE

Filters == {"all", "uploading", "completed"}

\* transferMatchesView; every job is an upload.
Matches(j, f) ==
    CASE f = "all" -> TRUE
      [] f = "uploading" -> j.st \in {"queued", "running"}
      [] f = "completed" -> j.st \in {"done", "skipped"}

\* transferViewJobs.
View(list, f) == SelectSeq(list, LAMBDA j : Matches(j, f))

\* selectedTransferIDSet.
Chosen == {View(shown, filter)[r].id : r \in rows}

\* fullTransferSelectionIndices.
ChosenSlots == {i \in DOMAIN shown : shown[i].id \in Chosen}

\* restoreTransferSelection, after the list was filled anew.
Restored(view, S) == {r \in DOMAIN view : view[r].id \in S}

\* The seenDone part of refreshTransfers.
SeenAfter(list) == seen \cup {list[i].id : i \in {k \in DOMAIN list : list[k].st = "done"}}

\* The paused flag of the last state event.
PausedAfter(es) ==
    LET states == {k \in DOMAIN es : es[k].type = "state"}
        last == CHOOSE k \in states : \A n \in states : n <= k
    IN  IF states = {} THEN uiPaused ELSE es[last].paused

\* refreshTransfers, by the timer or at the end of a handler.
Refresh ==
    LET es == Events(since)
        list == Replay(shown, es)
        new == {i \in 1..MaxJobs : i \notin seen
                  /\ \E k \in DOMAIN list : list[k].id = i /\ list[k].st = "done"}
    IN  /\ ~closed
        /\ since' = seq /\ due' = FALSE
        /\ gap' = (gap \/ (since = 0 /\ seq > Len(log)))
        /\ IF es = <<>> THEN UNCHANGED <<shown, uiPaused, rows, seen, refreshed>>
           ELSE /\ shown' = list
                /\ uiPaused' = PausedAfter(es)
                /\ rows' = Restored(View(list, filter), Chosen)
                /\ seen' = SeenAfter(list)
                /\ refreshed' = [i \in 1..MaxJobs |->
                                   IF i \in new /\ refreshed[i] < 2 THEN refreshed[i] + 1
                                   ELSE refreshed[i]]
        /\ UNCHANGED <<feed, filter, link>>

\* setTransferViewFilter: filling the list drops the selection.
SetFilter(f) ==
    /\ ~due /\ filter' = f /\ rows' = {}
    /\ UNCHANGED <<feed, shown, since, uiPaused, seen, refreshed, due, link, gap>>

Select(S) ==
    /\ ~due /\ S \subseteq DOMAIN View(shown, filter)
    /\ rows' = S
    /\ UNCHANGED <<feed, shown, since, uiPaused, filter, seen, refreshed, due, link, gap>>

On == link = "on"
Busy == link \notin {"off", "on"}

\* The part of a handler that comes before its refresh.
Handler(paused2, seen2) ==
    /\ ~due /\ due' = TRUE
    /\ uiPaused' = paused2 /\ seen' = seen2
    /\ UNCHANGED <<shown, since, filter, rows, refreshed, link, gap>>

\* pauseTransfers, resumeTransfers.
PauseClick == On /\ CanPause(shown, On, uiPaused) /\ Pause /\ Handler(TRUE, seen)
ResumeClick == On /\ CanResume(shown, On, uiPaused) /\ Resume /\ Handler(FALSE, seen)

\* clearFinishedTransfers.
ClearClick == ~Busy /\ CanClear(shown) /\ ClearFinished /\ Handler(uiPaused, {})

\* moveSelectedTransfer; a refusal refreshes too.
MoveClick(to) ==
    /\ ~Busy /\ Cardinality(ChosenSlots) = 1
    /\ \E i \in ChosenSlots :
         /\ to \in Moves(shown, i)
         /\ IF Movable(shown[i].id) THEN Move(shown[i].id, to) ELSE UNCHANGED feed
    /\ Handler(uiPaused, seen)

\* cancelSelectedTransfer and retrySelectedTransfer; their goroutine calls the engine
\* and its result refreshes.
CancelClick == ~Busy /\ CanCancel(shown, ChosenSlots) /\ Cancel(Chosen) /\ Handler(uiPaused, seen)
RetryClick == On /\ CanRetry(shown, ChosenSlots, On) /\ Retry(Chosen) /\ Handler(uiPaused, seen)

\* addTransfer.
AddClick(n) == On /\ Add(n) /\ Handler(uiPaused, seen)

\* connectNow and disconnectNow, the engine's part of them, and their results
\* (onConnected, finishDisconnected).
Link(from, to) ==
    /\ link = from /\ link' = to
    /\ UNCHANGED <<shown, since, filter, rows, seen, refreshed, gap>>

Keep == UNCHANGED <<uiPaused, due>>

Connecting ==
    \/ ~due /\ Link("off", "connecting") /\ Keep /\ UNCHANGED feed
    \/ Link("connecting", "enabled") /\ Enable /\ Keep
    \/ ~due /\ Link("connecting", "off") /\ Keep /\ UNCHANGED feed
    \/ ~due /\ Link("enabled", "on") /\ uiPaused' = FALSE /\ due' = TRUE /\ UNCHANGED feed

Disconnecting ==
    \/ ~due /\ Link("on", "disconnecting") /\ Keep /\ UNCHANGED feed
    \/ Link("disconnecting", "disabled") /\ Disable /\ Keep
    \/ ~due /\ Link("disabled", "off") /\ uiPaused' = TRUE /\ due' = FALSE /\ UNCHANGED feed

Click ==
    /\ ~closed
    /\ \/ PauseClick \/ ResumeClick \/ ClearClick \/ CancelClick \/ RetryClick
       \/ \E n \in 1..2 : AddClick(n)
       \/ \E to \in {"top", "up", "down", "bottom"} : MoveClick(to)
       \/ \E f \in Filters : SetFilter(f)
       \/ \E S \in SUBSET (1..MaxJobs) : Select(S)

Next ==
    \/ Worker /\ UNCHANGED win
    \/ Shutdown /\ UNCHANGED win
    \/ Refresh \/ Click \/ Connecting \/ Disconnecting

\* The timer ticks for as long as the window is there.
Spec == Init /\ [][Next]_vars /\ WF_vars(Refresh)

-----------------------------------------------------------------------------
TypeOK ==
    /\ FeedTypeOK
    /\ since <= seq /\ filter \in Filters /\ rows \subseteq DOMAIN View(shown, filter)
    /\ seen \subseteq 1..MaxJobs /\ {uiPaused, due, gap} \subseteq BOOLEAN

CaughtUp == since = seq /\ ~due /\ ~gap /\ ~closed

\* A window that has seen the last event shows the queue's own list, whatever it
\* missed in between, was cut from the log or cleared (Events, refreshTransfers).
\* Not so when its first answer was already cut, and after Shutdown, which tells
\* nobody.
Replayed == CaughtUp => shown = jobs

\* ... and its pause and resume buttons go by the queue's own flag, although the
\* handlers set it themselves (pauseTransfers, onConnected, finishDisconnected).
PausedShown == CaughtUp => uiPaused = paused

\* Only the user changes which jobs are selected: whatever happens to the rows, a
\* refresh keeps the selected jobs that are still in view (restoreTransferSelection).
SelectionFollowsStep ==
    Refresh => Chosen' = Chosen \cap {View(shown, filter)[r].id : r \in DOMAIN View(shown, filter)}'
SelectionFollows == [][SelectionFollowsStep]_vars

\* The panes are refreshed once for a job that is done, however often its event is
\* replayed; and the jobs shown as done are those that were (seenDone).
PanesOnce == \A i \in 1..MaxJobs : refreshed[i] <= 1
DoneWasSeen ==
    ~due => \A k \in DOMAIN shown : shown[k].st = "done" =>
                shown[k].id \in seen /\ refreshed[shown[k].id] > 0

\* A job that is done comes to be shown so unless it was
\* cleared or the window closed (the one-second timer, refreshTransfers).
Done(i) == \E k \in DOMAIN jobs : jobs[k].id = i /\ jobs[k].st = "done"
Unshown(i) == Done(i) /\ i \notin seen /\ ~closed
=============================================================================

------------------------------ MODULE LinuxQueue ------------------------------
(***************************************************************************)
(* The transfer list of the Linux window (desktop/queue_actions_linux.go,  *)
(* queue_priority_linux.go and the ticker of gui_linux.go).  It takes the  *)
(* whole list from the queue every time, keeps one selected row and a      *)
(* paused flag of its own.                                                 *)
(*                                                                         *)
(* Commands run on the UI thread; the queue's goroutines run between the   *)
(* engine call of a command and the copy it takes afterwards.              *)
(***************************************************************************)
EXTENDS QueueFeed

VARIABLES
    shown,     \* transferJobs
    row,       \* selectedTransfer, 0 for none
    uiPaused,  \* queuePaused
    after,     \* the id a command restores the selection to, 0 when none is under way,
               \* MaxJobs + 1 for no id
    picked,    \* history: the id of the job the user selected
    link       \* "off", "connecting", "enabled", "on", "disconnecting", "disabled"

win == <<shown, row, uiPaused, after, picked, link>>
vars == <<feed, win>>

Init ==
    /\ FeedInit
    /\ shown = <<>> /\ row = 0 /\ uiPaused = FALSE /\ after = 0 /\ picked = 0 /\ link = "off"

On == link \in {"on", "disconnecting", "disabled"}  \* u.connected
Busy == link \notin {"off", "on"}                   \* u.busy

\* The ticker of the event loop.
Tick ==
    /\ after = 0 /\ shown # jobs
    /\ shown' = jobs /\ row' = IF row > Len(jobs) THEN 0 ELSE row
    /\ UNCHANGED <<feed, uiPaused, after, picked, link>>

\* A click on a row, and the rail's transfers button.
Select(i) ==
    /\ after = 0 /\ i \in DOMAIN shown
    /\ row' = i /\ picked' = shown[i].id
    /\ UNCHANGED <<feed, shown, uiPaused, after, link>>

RailTransfers == row = 0 /\ Select(1)

\* pauseTransfersLinux, resumeTransfersLinux.
PauseClick ==
    /\ ~Busy /\ after = 0 /\ CanPause(shown, On, uiPaused) /\ Pause /\ uiPaused' = TRUE
    /\ UNCHANGED <<shown, row, after, picked, link>>

ResumeClick ==
    /\ ~Busy /\ after = 0 /\ CanResume(shown, On, uiPaused) /\ Resume /\ uiPaused' = FALSE
    /\ UNCHANGED <<shown, row, after, picked, link>>

\* The engine call of a command on the selected job, which is remembered by its id.
Command(allowed, Call) ==
    /\ ~Busy /\ after = 0 /\ row # 0 /\ allowed /\ Call
    /\ after' = shown[row].id
    /\ UNCHANGED <<shown, row, uiPaused, picked, link>>

CancelClick == Command(CanCancel(shown, {row}), Cancel({shown[row].id}))
RetryClick == Command(CanRetry(shown, {row}, On), Retry({shown[row].id}))
MoveClick(to) == Command(to \in Moves(shown, row), Move(shown[row].id, to))

\* clearFinishedTransfersLinux with a row selected, and with none.
ClearClick ==
    \/ Command(CanClear(shown), ClearFinished)
    \/ /\ ~Busy /\ after = 0 /\ row = 0 /\ CanClear(shown) /\ ClearFinished
       /\ after' = MaxJobs + 1 /\ UNCHANGED <<shown, row, uiPaused, picked, link>>

\* Mutant: the row stays selected after the list has changed.
RestoreRow ==
    /\ after # 0 /\ after' = 0
    /\ shown' = jobs /\ row' = IF row > Len(jobs) THEN 0 ELSE row
    /\ UNCHANGED <<feed, uiPaused, picked, link>>

\* refreshLinuxTransfersPreservingSelection, restoreQueuePrioritySelection.
Restore ==
    /\ after # 0 /\ after' = 0
    /\ shown' = jobs
    /\ row' = IF \E i \in DOMAIN jobs : jobs[i].id = after
              THEN CHOOSE i \in DOMAIN jobs : jobs[i].id = after ELSE 0
    /\ UNCHANGED <<feed, uiPaused, picked, link>>

\* Transferring a file; the copy of the list follows with the ticker.
AddClick(n) == ~Busy /\ On /\ after = 0 /\ Add(n) /\ UNCHANGED win

Link(from, to) ==
    /\ link = from /\ link' = to /\ UNCHANGED <<shown, row, uiPaused, after, picked>>

\* connectToServer, disconnect, their goroutines and handleResult; a disconnect that
\* failed leaves the window connected.
Connecting ==
    \/ after = 0 /\ Link("off", "connecting") /\ UNCHANGED feed
    \/ Link("connecting", "enabled") /\ Enable
    \/ Link("connecting", "off") /\ UNCHANGED feed
    \/ Link("enabled", "on") /\ UNCHANGED feed

Disconnecting ==
    \/ after = 0 /\ Link("on", "disconnecting") /\ UNCHANGED feed
    \/ Link("disconnecting", "disabled") /\ Disable
    \/ Link("disabled", "off") /\ UNCHANGED feed
    \/ Link("disabled", "on") /\ UNCHANGED feed

Click ==
    /\ ~closed
    /\ \/ PauseClick \/ ResumeClick \/ ClearClick \/ CancelClick \/ RetryClick \/ RailTransfers
       \/ \E n \in 1..2 : AddClick(n)
       \/ \E to \in {"top", "up", "down", "bottom"} : MoveClick(to)
       \/ \E i \in 1..MaxJobs : Select(i)

Next ==
    \/ Worker /\ UNCHANGED win
    \/ Shutdown /\ UNCHANGED win
    \/ Tick \/ Click \/ Restore \/ Connecting \/ Disconnecting

Spec == Init /\ [][Next]_vars

-----------------------------------------------------------------------------
TypeOK ==
    /\ FeedTypeOK
    /\ row \in 0..Len(shown) /\ after \in 0..(MaxJobs + 1) /\ picked \in 0..MaxJobs
    /\ uiPaused \in BOOLEAN

\* The selected row is the job the user selected, although the list is replaced
\* under it by the ticker and by every command: no command ever acts on another job.
SelectionFollows == row # 0 => shown[row].id = picked

\* The window's controls go by the queue's paused flag when nothing is under way.
\* The code does not keep it: see "Disagreements found" in the README.
PausedShown == link = "on" /\ ~closed => uiPaused = paused
=============================================================================

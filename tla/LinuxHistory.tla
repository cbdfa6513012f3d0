---------------------------- MODULE LinuxHistory ----------------------------
(***************************************************************************)
(* Back and Forward of the Linux main window                               *)
(* (src/internal/desktop/linux_master_rail.go).                            *)
(*                                                                         *)
(* One pair of histories serves both panes.  A navigation is recorded when *)
(* its result arrives, not when it is asked for, and what is recorded is   *)
(* the text of the pane's path field at that moment: the field is the only *)
(* copy of the directory shown, the user types into it, and the directory  *)
(* comparison writes both fields without recording anything.  Back and     *)
(* Forward replay an entry: they ask for the directory and move the entry  *)
(* between the histories when the answer is the one they asked for.        *)
(*                                                                         *)
(* A local path is listed under its absolute form; a remote one under the  *)
(* text asked for.  One background action runs at a time (startAction).    *)
(***************************************************************************)
EXTENDS Integers, Sequences, Functions

CONSTANTS LocalDirs, RemoteDirs, \* directories, by their clean paths
          Relative,              \* a relative path for one of the local ones
          RelativeTo,            \*   ... which is this directory
          Limit                  \* linuxWorkspaceHistoryLimit

\* What every instance has to satisfy.
HistoryAssumption ==
    Limit \in Nat \ {0} /\ RelativeTo \in LocalDirs /\ Relative \notin LocalDirs

VARIABLES cur,        \* the text of the two path fields
          back, fwd,  \* workspaceBackHistory, workspaceForwardHistory
          replay,     \* the replay in progress, with its direction
          job,        \* the background action
          connected,
          left        \* ghost: the entry the last Back went away from

vars == <<cur, back, fwd, replay, job, connected, left>>

Panes == {"local", "remote"}
Dirs(pane) == IF pane = "local" THEN LocalDirs ELSE RemoteDirs
Texts(pane) == Dirs(pane) \cup (IF pane = "local" THEN {Relative} ELSE {})
Entry(pane, path) == [pane |-> pane, path |-> path]
NoReplay == [active |-> FALSE]
NoJob == [action |-> "none"]
NoEntry == [pane |-> "none"]

\* The base a listing answers with.
Base(pane, path) == IF path = Relative THEN RelativeTo ELSE path

(***************************************************************************)
(* Recording.                                                              *)
(***************************************************************************)

\* The newest entry of a history that has one.
Last(s) == s[Len(s)]

\* The newest Limit entries, and never the same one twice in a row.
appendLinuxWorkspaceHistory(history, entry) ==
  IF history # <<>> /\ Last(history) = entry THEN history
  ELSE LET longer == Append(history, entry)
       IN  IF Len(longer) > Limit THEN Tail(longer) ELSE longer

Popped(h, entry) == IF h # <<>> /\ Last(h) = entry THEN SubSeq(h, 1, Len(h) - 1) ELSE h

\* The entry is taken from its history and the place left joins the other.
ReplayAnswered(current, target) ==
  IF replay.back
  THEN /\ back' = Popped(back, target)
       /\ fwd' = appendLinuxWorkspaceHistory(fwd, current)
  ELSE /\ fwd' = Popped(fwd, target)
       /\ back' = appendLinuxWorkspaceHistory(back, current)

\* An answer that shows what the field already says records nothing.  The
\* answer to a replay moves its entry.  Any other answer records the place
\* left in the back history and forgets the forward one.
completeLinuxWorkspaceNavigation(pane, next) ==
  LET current == Entry(pane, cur[pane])
      target == Entry(pane, next)
      answered == replay.active /\ replay.target = target
  IN  /\ replay' = IF answered THEN NoReplay ELSE replay
      /\ CASE current = target -> UNCHANGED <<back, fwd, left>>
           [] current # target /\ answered ->
                /\ ReplayAnswered(current, target)
                /\ left' = IF replay.back THEN current ELSE NoEntry
           [] OTHER ->
                /\ back' = appendLinuxWorkspaceHistory(back, current)
                /\ fwd' = <<>> /\ left' = NoEntry

(***************************************************************************)
(* The user.                                                               *)
(***************************************************************************)
Refresh(pane, path) ==
  /\ job = NoJob /\ (pane = "remote" => connected)
  /\ job' = [action |-> "refresh", pane |-> pane, path |-> path]

\* A row, Up, Refresh or Return in the path field.
Navigate(pane) ==
  /\ \E path \in Dirs(pane) \cup {cur[pane]} : Refresh(pane, path)
  /\ UNCHANGED <<cur, back, fwd, replay, connected, left>>

History(goBack) == IF goBack THEN back ELSE fwd

linuxHistoryCan(goBack) ==
  /\ job = NoJob /\ History(goBack) # <<>>
  /\ Last(History(goBack)).pane = "remote" => connected

navigateLinuxWorkspaceHistory(goBack) ==
  /\ linuxHistoryCan(goBack)
  /\ LET target == Last(History(goBack))
     IN  /\ replay' = [active |-> TRUE, back |-> goBack, target |-> target]
         /\ Refresh(target.pane, target.path)
  /\ UNCHANGED <<cur, back, fwd, connected, left>>

\* A path field is edited, or a saved site or the comparison writes it.
SetPath(pane) ==
  /\ job = NoJob
  /\ \E text \in Texts(pane) : cur' = [cur EXCEPT ![pane] = text]
  /\ UNCHANGED <<back, fwd, replay, job, connected, left>>

Connect ==
  /\ job = NoJob /\ ~connected /\ connected' = TRUE
  /\ UNCHANGED <<cur, back, fwd, replay, job, left>>

disconnect ==
  /\ job = NoJob /\ connected /\ job' = [action |-> "disconnect"]
  /\ UNCHANGED <<cur, back, fwd, replay, connected, left>>

(***************************************************************************)
(* The results.                                                            *)
(***************************************************************************)

failLinuxWorkspaceReplay == replay' = NoReplay

Failed ==
  /\ job # NoJob /\ job' = NoJob
  /\ failLinuxWorkspaceReplay
  /\ UNCHANGED <<cur, back, fwd, connected, left>>

Listed ==
  /\ job.action = "refresh" /\ job' = NoJob
  /\ LET base == Base(job.pane, job.path)
     IN  /\ completeLinuxWorkspaceNavigation(job.pane, base)
         /\ cur' = [cur EXCEPT ![job.pane] = base]
  /\ UNCHANGED connected

\* Mutant: the history outlives the connection.
DisconnectedKept ==
  /\ job.action = "disconnect" /\ job' = NoJob
  /\ connected' = FALSE
  /\ replay' = NoReplay /\ left' = NoEntry
  /\ UNCHANGED <<cur, back, fwd>>

Disconnected ==
  /\ job.action = "disconnect" /\ job' = NoJob
  /\ connected' = FALSE
  /\ back' = <<>> /\ fwd' = <<>> /\ replay' = NoReplay /\ left' = NoEntry
  /\ UNCHANGED cur

Init ==
  /\ cur \in [Panes -> LocalDirs \cup RemoteDirs]
  /\ \A pane \in Panes : cur[pane] \in Dirs(pane)
  /\ back = <<>> /\ fwd = <<>> /\ replay = NoReplay /\ job = NoJob
  /\ connected = FALSE /\ left = NoEntry

Next ==
  \/ \E pane \in Panes : Navigate(pane) \/ SetPath(pane)
  \/ \E goBack \in BOOLEAN : navigateLinuxWorkspaceHistory(goBack)
  \/ Connect \/ disconnect
  \/ Failed \/ Listed \/ Disconnected

Spec == Init /\ [][Next]_vars

-----------------------------------------------------------------------------
\* The histories are bounded and hold no entry twice in a row.
Bounded ==
  \A h \in {back, fwd} :
    /\ Len(h) <= Limit
    /\ \A i \in 1..Len(h) - 1 : h[i] # h[i + 1]

\* The histories name no directory of a server the window is not connected
\* to, so Back never lists a path of the last server on the next one.
OwnServer ==
  ~connected => \A h \in {back, fwd} : \A i \in 1..Len(h) : h[i].pane = "local"

\* Forward right after Back returns to the directory Back went away from,
\* whichever pane the two were in and whatever was retried in between: the
\* entry is still the newest of the forward history.
ForwardReturns == left # NoEntry => fwd # <<>> /\ Last(fwd) = left

\* Back and Forward never lose a directory: a replay only ever moves entries
\* from one history to the other, and what it leaves joins them, until the
\* limit drops the oldest.
ReplayKeepsPlacesStep ==
    (job.action = "refresh" /\ job' = NoJob /\ replay.active /\ ~replay'.active
      /\ Len(back) < Limit /\ Len(fwd) < Limit) =>
      Range(back \o fwd) \subseteq
        Range(back' \o fwd') \cup {Entry(job.pane, cur'[job.pane])}

\* A replay is not left pending: when nothing runs none is, unless the entry
\* was text the listing answered under another name.
ReplayEnds ==
  job = NoJob /\ replay.active => Base(replay.target.pane, replay.target.path) # replay.target.path
=============================================================================

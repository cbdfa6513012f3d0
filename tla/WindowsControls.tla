-------------------------- MODULE WindowsControls --------------------------
(***************************************************************************)
(* The commands of the Windows main window: which controls are shown and   *)
(* enabled after every change of state, and what their handlers accept     *)
(* (src/internal/desktop/action_state_windows.go, commands_windows.go,     *)
(* master_workspace_windows.go, workspace_layout_windows.go).              *)
(*                                                                         *)
(* Two tables decide what a user can do.  updateActionControls derives the *)
(* enabled controls from the flags; the layout passes it ends with show    *)
(* and hide them, each overriding the ones before it.  The handlers do not *)
(* read either table: they test the flags again when the click arrives.    *)
(* `shown' and `enabled' are the two tables as the last update left them.  *)
(*                                                                         *)
(* The window is at least as wide as its minimum tracking size on a normal *)
(* screen, so the narrow early return of the layout is left out.  The      *)
(* recursive search of a pane is never active: only its own button, shown  *)
(* while it is active, starts it.  The queue's commands are in QueueFeed.  *)
(***************************************************************************)
EXTENDS Integers, FiniteSets

VARIABLES connected, busy,   \* a.connected, a.connectionBusy
          lmut, rmut, pmut,  \* the three mutation flags
          lastRemote,        \* a.lastFilePaneRemote
          lsel, rsel,        \* rows selected: how many local, which kinds remote
          cmp,               \* the directory comparison
          moved,             \* a pane was navigated to another directory
          shown, enabled     \* the controls as the last update left them

vars == <<connected, busy, lmut, rmut, pmut, lastRemote, lsel, rsel, cmp,
          moved, shown, enabled>>

Kinds == {"file", "directory", "link"}
FileCommands == {"upload", "download"}
PaneLists == {"localList", "remoteList"}
CompareLists == {"compareLocal", "compareRemote", "openBoth"}
Arrows == {"back", "forward"}
Hidden == {"saveProfile", "localMkdir", "localRename", "localDelete",
           "remoteMkdir", "remoteRename", "remoteDelete", "edit", "chmod"}

(***************************************************************************)
(* Enabling.  The flags are parameters: an update computes both tables     *)
(* from the values the event leaves.                                       *)
(***************************************************************************)
\* One ordinary file is selected and no other remote change is in progress.
remoteEditSelectionReady(c, b, rm, rs) == c /\ ~b /\ ~rm /\ rs = {"file"}

PaneCommands(c, b, lm, rm, ls, rs, cm) ==
  LET localReady == cm = "off"
      remoteReady == c /\ ~b /\ cm = "off"
      When(cond, S) == IF cond THEN S ELSE {}
  IN  UNION { When(localReady /\ ~lm, {"localMkdir"}),
              When(localReady /\ ~lm /\ ls = 1, {"localRename"}),
              When(localReady /\ ~lm /\ ls > 0, {"localDelete"}),
              When(localReady /\ c /\ ~b /\ ls > 0, {"upload"}),
              When(remoteReady /\ ~rm, {"remoteMkdir"}),
              When(remoteReady /\ ~rm /\ Cardinality(rs) = 1, {"remoteRename"}),
              When(remoteReady /\ ~rm /\ rs # {}, {"remoteDelete"}),
              When(remoteReady /\ rs # {}, {"download"}),
              When(remoteReady /\ remoteEditSelectionReady(c, b, rm, rs), {"edit"}),
              When(remoteReady /\ ~rm /\ rs \ {"link"} # {}, {"chmod"}) }

\* The connection, the saved sites and the settings.
ConnectionCommands(c, b, pm) ==
  LET idle == ~c /\ ~b /\ ~pm
  IN  (IF idle THEN {"siteManager", "saveProfile", "sidebarSite"} ELSE {})
        \cup (IF ~b /\ ~pm THEN {"settings"} ELSE {})

\* Mutant: Disconnect waits for the attempt to end.
ConnectVisualLate(c, b, pm) ==
  (IF ~pm /\ ~c THEN {"connect"} ELSE {}) \cup (IF c THEN {"disconnect"} ELSE {})

\* Connect is greyed only by a connection, not by an attempt: while one runs
\* the same control is drawn as a red Cancel.
updateMasterConnectVisual(c, b, pm) ==
  (IF ~pm /\ ~c THEN {"connect"} ELSE {}) \cup (IF c \/ b THEN {"disconnect"} ELSE {})

\* Nothing records a navigation, so both arrows stay without history.
updateMasterToolbarState(c, b, lm, rm, pm, last) ==
  {"refresh", "search", "bookmarks"}
    \cup (IF ~lm /\ (~last \/ (c /\ ~b /\ ~rm)) THEN {"newFolder"} ELSE {})
    \cup updateMasterConnectVisual(c, b, pm)

updateFileFilterControls(c, b) ==
  {"localFilter"} \cup (IF c /\ ~b THEN {"remoteFilter"} ELSE {})

\* Mutant: the bridge stays enabled while the connection is busy.
CompareWhileBusy(c, b, cm) ==
  (IF cm # "off" \/ c THEN {"compare"} ELSE {})
    \cup (IF cm = "chosen" /\ c THEN {"openBoth"} ELSE {})

\* The bridge between the panes starts a comparison, or closes the open one.
CompareCommands(c, b, cm) ==
  (IF cm # "off" \/ (c /\ ~b) THEN {"compare"} ELSE {})
    \cup (IF cm = "chosen" /\ c THEN {"openBoth"} ELSE {})

\* No pass ever disables the sidebar's Sync button and the panes' Up buttons.
NeverDisabled == {"sync", "localUp", "remoteUp"}

Enabled(c, b, lm, rm, pm, last, ls, rs, cm) ==
  NeverDisabled
    \cup PaneCommands(c, b, lm, rm, ls, rs, cm)
    \cup ConnectionCommands(c, b, pm)
    \cup updateMasterToolbarState(c, b, lm, rm, pm, last)
    \cup updateFileFilterControls(c, b)
    \cup CompareCommands(c, b, cm)

(***************************************************************************)
(* Showing.  The passes of refineWorkspaceLayout in their order.           *)
(***************************************************************************)
layoutSidebarRail(S) ==
  (S \cup {"siteManager", "sync", "settings", "sidebarSite"})
    \ {"bookmarks", "about", "diagnostics"}

layoutMasterWorkspaceChrome(S) ==
  (S \ (Hidden \cup {"localFilter"}))
    \cup {"connect", "disconnect", "newFolder", "refresh", "search", "remoteFilter",
          "localUp", "remoteUp"}
    \cup Arrows \cup PaneLists \cup FileCommands

\* A pane whose search is not active shows its list and none of the search's
\* own controls, the button that starts a search among them.
updateRecursiveSearchControls(S) ==
  (S \cup PaneLists) \ {"localSearch", "remoteSearch", "searchNavigate"}

\* An open comparison takes the place of the lists and of what acts on them.
updateDirectoryComparisonControls(S, cm) ==
  IF cm = "off"
  THEN (S \cup {"compare"} \cup PaneLists \cup FileCommands) \ CompareLists
  ELSE (S \cup {"compare"} \cup CompareLists)
         \ (PaneLists \cup FileCommands \cup {"localFilter", "remoteFilter"})

refineWorkspaceLayout(c, b, cm) ==
  LET side == layoutSidebarRail(IF c \/ b THEN {"disconnect"} ELSE {"connect"})
  IN  updateDirectoryComparisonControls(
        updateRecursiveSearchControls(layoutMasterWorkspaceChrome(side)), cm)

\* Every handler that changes a flag ends with the update of both tables.
updateActionControls ==
  /\ shown' = refineWorkspaceLayout(connected', busy', cmp')
  /\ enabled' = Enabled(connected', busy', lmut', rmut', pmut', lastRemote',
                        lsel', rsel', cmp')

Init ==
  /\ connected = FALSE /\ busy = FALSE /\ moved = FALSE
  /\ lmut = FALSE /\ rmut = FALSE /\ pmut = FALSE /\ lastRemote = FALSE
  /\ lsel = 0 /\ rsel = {} /\ cmp = "off"
  /\ shown = refineWorkspaceLayout(FALSE, FALSE, "off")
  /\ enabled = Enabled(FALSE, FALSE, FALSE, FALSE, FALSE, FALSE, 0, {}, "off")

Offered(c) == c \in shown /\ c \in enabled

(***************************************************************************)
(* What each handler accepts when its click arrives.                       *)
(***************************************************************************)
\* The pane New Folder works in: the remote one if it was used last and can
\* take a change, else the local one.
masterNewFolderAction ==
  IF lastRemote /\ connected /\ ~busy /\ ~rmut THEN "remote" ELSE "local"

Accepts(c) ==
  CASE c = "connect" -> ~busy /\ ~connected /\ ~pmut
    [] c = "disconnect" -> connected \/ busy
    [] c \in {"siteManager", "sidebarSite"} -> ~busy /\ ~connected
    [] c = "settings" -> ~busy
    [] c = "newFolder" -> masterNewFolderAction = "remote" \/ ~lmut
    [] c = "upload" -> lsel > 0 /\ connected
    [] c = "download" -> rsel # {} /\ connected
    [] c \in {"remoteFilter", "remoteUp"} -> connected /\ ~busy
    [] c \in {"compare", "sync"} -> cmp # "off" \/ (connected /\ ~busy)
    [] c = "openBoth" -> connected /\ cmp = "chosen"
    [] OTHER -> TRUE

(***************************************************************************)
(* The connection.  Each of its changes is a new generation, which closes  *)
(* a comparison of the one before.                                         *)
(***************************************************************************)
connectNow ==
  /\ Offered("connect") /\ Accepts("connect")
  /\ busy' = TRUE
  /\ UNCHANGED <<connected, lmut, rmut, pmut, lastRemote, lsel, rsel, cmp, moved>>
  /\ updateActionControls

setConnectionUI(c) ==
  /\ connected' = c /\ busy' = FALSE
  /\ rsel' = {} /\ cmp' = "off"
  /\ UNCHANGED <<lmut, rmut, pmut, lastRemote, lsel, moved>>
  /\ updateActionControls

AttemptEnds == busy /\ ~connected /\ \E ok \in BOOLEAN : setConnectionUI(ok)

disconnectNow ==
  /\ Offered("disconnect") /\ connected
  /\ busy' = TRUE /\ cmp' = "off"
  /\ UNCHANGED <<connected, lmut, rmut, pmut, lastRemote, lsel, rsel, moved>>
  /\ updateActionControls

DisconnectEnds == busy /\ connected /\ setConnectionUI(FALSE)
LostConnection == connected /\ ~busy /\ setConnectionUI(FALSE)

(***************************************************************************)
(* Changes of files and of saved sites.  A pane's keys reach it only while *)
(* its list is shown.                                                      *)
(***************************************************************************)

beginLocalMutation ==
  /\ ~lmut
  /\ \/ Offered("newFolder") /\ masterNewFolderAction = "local"
     \/ "localList" \in shown /\ lsel > 0             \* F2 and Delete
  /\ lmut' = TRUE
  /\ UNCHANGED <<connected, busy, rmut, pmut, lastRemote, lsel, rsel, cmp, moved>>
  /\ updateActionControls

beginRemoteMutation ==
  /\ connected /\ ~busy /\ ~rmut
  /\ \/ Offered("newFolder") /\ masterNewFolderAction = "remote"
     \/ "remoteList" \in shown /\ rsel # {}
  /\ rmut' = TRUE
  /\ UNCHANGED <<connected, busy, lmut, pmut, lastRemote, lsel, rsel, cmp, moved>>
  /\ updateActionControls

finishMutation ==
  /\ \/ lmut /\ lmut' = FALSE /\ UNCHANGED <<rmut, pmut>>
     \/ rmut /\ rmut' = FALSE /\ UNCHANGED <<lmut, pmut>>
     \/ pmut /\ pmut' = FALSE /\ UNCHANGED <<lmut, rmut>>
  /\ UNCHANGED <<connected, busy, lastRemote, lsel, rsel, cmp, moved>>
  /\ updateActionControls

\* Ctrl+S reaches the handler although its button is hidden.
setProfileMutationBusy ==
  /\ ~pmut /\ ~connected /\ ~busy
  /\ pmut' = TRUE
  /\ UNCHANGED <<connected, busy, lmut, rmut, lastRemote, lsel, rsel, cmp, moved>>
  /\ updateActionControls

(***************************************************************************)
(* The lists.                                                              *)
(***************************************************************************)

SelectLocal ==
  /\ "localList" \in shown
  /\ lsel' \in 0..2 /\ lastRemote' = FALSE
  /\ UNCHANGED <<connected, busy, lmut, rmut, pmut, rsel, cmp, moved>>
  /\ updateActionControls

SelectRemote ==
  /\ "remoteList" \in shown /\ connected
  /\ rsel' \in SUBSET Kinds /\ lastRemote' = TRUE
  /\ UNCHANGED <<connected, busy, lmut, rmut, pmut, lsel, cmp, moved>>
  /\ updateActionControls

\* Opening a directory lists another one, with nothing selected.
OpenDirectory ==
  /\ \/ "localList" \in shown /\ lsel = 1 /\ lsel' = 0 /\ UNCHANGED rsel
     \/ /\ "remoteList" \in shown /\ connected /\ ~busy
        /\ rsel = {"directory"} /\ rsel' = {} /\ UNCHANGED lsel
  /\ moved' = TRUE
  /\ UNCHANGED <<connected, busy, lmut, rmut, pmut, lastRemote, cmp>>
  /\ updateActionControls

\* The bridge and Sync send the same command, which opens a comparison or
\* closes it; the result arrives later and a row of it can be chosen.
directoryComparisonCommand ==
  /\ \E c \in {"compare", "sync"} : Offered(c) /\ Accepts(c)
  /\ cmp' = IF cmp = "off" THEN "loading" ELSE "off"
  /\ UNCHANGED <<connected, busy, lmut, rmut, pmut, lastRemote, lsel, rsel, moved>>
  /\ updateActionControls

Compared ==
  /\ \/ cmp = "loading" /\ cmp' = "ready"
     \/ cmp = "ready" /\ cmp' = "chosen"
  /\ UNCHANGED <<connected, busy, lmut, rmut, pmut, lastRemote, lsel, rsel, moved>>
  /\ updateActionControls

Next ==
  \/ connectNow \/ AttemptEnds \/ disconnectNow \/ DisconnectEnds \/ LostConnection
  \/ beginLocalMutation \/ beginRemoteMutation \/ finishMutation
  \/ setProfileMutationBusy
  \/ SelectLocal \/ SelectRemote \/ OpenDirectory
  \/ directoryComparisonCommand \/ Compared

Spec == Init /\ [][Next]_vars

-----------------------------------------------------------------------------
\* Every variable has its type.
TypeOK ==
  /\ {connected, busy, lmut, rmut, pmut, lastRemote, moved} \subseteq BOOLEAN
  /\ lsel \in 0..2 /\ rsel \subseteq Kinds
  /\ cmp \in {"off", "loading", "ready", "chosen"}

\* What is offered and has no effect, in each state: the red Cancel a running
\* attempt shows in the place of Connect, and without a connection ready for
\* use the sidebar's Sync (unless it closes a comparison) and the remote Up.
OfferedInVain ==
  (IF busy THEN {"connect"} ELSE {})
    \cup (IF connected /\ ~busy THEN {} ELSE {"remoteUp"})
    \cup (IF cmp # "off" \/ (connected /\ ~busy) THEN {} ELSE {"sync"})

\* The two tables and the handlers agree, but for these three controls: every
\* other control that is shown and enabled does something when it is clicked.
\* That all controls do is not so: see "Disagreements found" in the README.
OfferedActs == \A c \in (shown \cap enabled) \ OfferedInVain : Accepts(c)

\* While a comparison covers the panes, nothing that would act on the rows
\* underneath can be clicked or reached by a key.
ComparisonCovers ==
  cmp # "off" =>
    shown \cap (PaneLists \cup FileCommands \cup {"localFilter", "remoteFilter"}) = {}

\* There is always one way to go on: out of a connection or of an attempt by
\* Disconnect, and into one by Connect unless a saved site is being changed.
OneWayOut ==
  /\ connected \/ busy => Offered("disconnect")
  /\ ~connected /\ ~busy /\ ~pmut => Offered("connect")

\* README.md:90: remote edit and CHMOD are part of the main workspace.  The
\* layout hides both controls in every state, and no key starts either.
\* The code does not keep it: see "Disagreements found" in the README.
EditOffered ==
  (remoteEditSelectionReady(connected, busy, rmut, rsel) /\ cmp = "off")
    => Offered("edit")

\* README.md:91: recursive search and bookmarks are part of the main
\* workspace.  The button that starts a search is hidden until one runs, and
\* both bookmark buttons are hidden or never placed.
\* The code does not keep it: see "Disagreements found" in the README.
SearchOffered == (connected /\ ~busy /\ cmp = "off") => "remoteSearch" \in shown

\* master_workspace_windows.go:429: "both reference arrows remain functional".
\* No navigation is ever recorded, so Back is never enabled.
\* The code does not keep it: see "Disagreements found" in the README.
ArrowsWork == moved => "back" \in enabled
=============================================================================

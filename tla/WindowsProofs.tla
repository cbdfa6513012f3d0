---------------------------- MODULE WindowsProofs ----------------------------
(***************************************************************************)
(* Proofs about the Windows window: its connection, its panes, its list of *)
(* transfers, its comparison of directories and its controls.  Each        *)
(* component has an inductive invariant: its states satisfy it at the      *)
(* start (...Starts), every step keeps it (...Steps), and what the suite   *)
(* checks follows from it (...Implies).  The last section puts them        *)
(* together for a behaviour of MCWindows, for every value of its           *)
(* constants.                                                              *)
(***************************************************************************)
EXTENDS MCWindows, Sequences, SequenceTheorems, FiniteSetTheorems, NaturalsInduction,
        WellFoundedInduction, TLAPS

(***************************************************************************)
(* The controls: two tables made from the flags                            *)
(***************************************************************************)

\* The two tables are those of the flags.
ControlsInv ==
    /\ controlsShown = Controls!refineWorkspaceLayout(controlsConnected, controlsBusy,
         controlsCmp)
    /\ enabled = Controls!Enabled(controlsConnected, controlsBusy, lmut, rmut, pmut, lastRemote,
         lsel, rsel, controlsCmp)

\* The tables are made when the window is.
LEMMA ControlsStarts ==
    ASSUME Controls!Init
    PROVE  ControlsInv
  BY DEF Controls!Init, ControlsInv

\* Both tables are made anew from the flags.
LEMMA ControlsUpdates ==
    ASSUME Controls!updateActionControls
    PROVE  ControlsInv'
  BY DEF Controls!updateActionControls, ControlsInv

\* Every handler that changes a flag makes both tables anew.
LEMMA ControlsSteps ==
    ASSUME ControlsInv, [Controls!Next]_(Controls!vars)
    PROVE  ControlsInv'
<1>1. CASE UNCHANGED Controls!vars
  BY <1>1 DEF Controls!vars, ControlsInv
<1>2. CASE Controls!Next
  <2>1. Controls!updateActionControls
    BY <1>2 DEF Controls!Next, Controls!connectNow, Controls!AttemptEnds,
       Controls!disconnectNow, Controls!DisconnectEnds,
       Controls!LostConnection, Controls!beginLocalMutation, Controls!beginRemoteMutation,
       Controls!finishMutation,
       Controls!setProfileMutationBusy, Controls!SelectLocal, Controls!SelectRemote,
       Controls!OpenDirectory,
       Controls!directoryComparisonCommand, Controls!Compared, Controls!setConnectionUI
  <2> QED
    BY <2>1, ControlsUpdates
<1> QED
  BY <1>1, <1>2

\* What an enabled control says of the flags
LEMMA EnabledMeans ==
    ASSUME NEW c, NEW b, NEW lm, NEW rm, NEW pm, NEW last, NEW ls, NEW rs, NEW cm,
           NEW x \in Controls!Enabled(c, b, lm, rm, pm, last, ls, rs, cm)
    PROVE  /\ x = "connect" => ~pm /\ ~c
           /\ x = "disconnect" => c \/ b
           /\ x \in {"siteManager", "sidebarSite"} => ~c /\ ~b
           /\ x = "settings" => ~b
           /\ x = "newFolder" => ~lm
           /\ x = "upload" => c /\ ls > 0
           /\ x = "download" => c /\ rs # {}
           /\ x = "remoteFilter" => c /\ ~b
           /\ x = "compare" => cm # "off" \/ (c /\ ~b)
           /\ x = "openBoth" => cm = "chosen" /\ c
<1>1. CASE x \in Controls!PaneCommands(c, b, lm, rm, ls, rs, cm)
  <2>1. /\ x \in {"localMkdir", "localRename", "localDelete", "upload", "remoteMkdir",
             "remoteRename", "remoteDelete",
                  "download", "edit", "chmod"}
        /\ x = "upload" => c /\ ls > 0
        /\ x = "download" => c /\ rs # {}
    BY <1>1 DEF Controls!PaneCommands
  <2> QED
    BY <2>1
<1>2. CASE x \in Controls!ConnectionCommands(c, b, pm)
  BY <1>2 DEF Controls!ConnectionCommands
<1>3. CASE x \in Controls!updateMasterToolbarState(c, b, lm, rm, pm, last)
  BY <1>3 DEF Controls!updateMasterToolbarState, Controls!updateMasterConnectVisual
<1>4. CASE x \in Controls!updateFileFilterControls(c, b)
  BY <1>4 DEF Controls!updateFileFilterControls
<1>5. CASE x \in Controls!CompareCommands(c, b, cm)
  BY <1>5 DEF Controls!CompareCommands
<1>6. CASE x \in Controls!NeverDisabled
  BY <1>6 DEF Controls!NeverDisabled
<1> QED
  BY <1>1, <1>2, <1>3, <1>4, <1>5, <1>6 DEF Controls!Enabled

\* What is enabled acts, but for the Cancel an attempt shows in the place of Connect
\* and, without a connection to use, Sync and the remote Up.
LEMMA EnabledDoes ==
    ASSUME ControlsInv, NEW x \in enabled \ Controls!OfferedInVain
    PROVE  Controls!Accepts(x)
<1>1. /\ x = "connect" => ~pmut /\ ~controlsConnected
      /\ x = "disconnect" => controlsConnected \/ controlsBusy
      /\ x \in {"siteManager", "sidebarSite"} => ~controlsConnected /\ ~controlsBusy
      /\ x = "settings" => ~controlsBusy
      /\ x = "newFolder" => ~lmut
      /\ x = "upload" => controlsConnected /\ lsel > 0
      /\ x = "download" => controlsConnected /\ rsel # {}
      /\ x = "remoteFilter" => controlsConnected /\ ~controlsBusy
      /\ x = "compare" => controlsCmp # "off" \/ (controlsConnected /\ ~controlsBusy)
      /\ x = "openBoth" => controlsCmp = "chosen" /\ controlsConnected
  BY EnabledMeans DEF ControlsInv
<1>2. /\ x = "connect" => ~controlsBusy
      /\ x = "remoteUp" => controlsConnected /\ ~controlsBusy
      /\ x = "sync" => controlsCmp # "off" \/ (controlsConnected /\ ~controlsBusy)
  BY DEF Controls!OfferedInVain
<1> QED
  BY <1>1, <1>2 DEF Controls!Accepts

\* The connection's buttons and the bridge are always shown.
LEMMA AlwaysShown ==
    ASSUME NEW c, NEW b, NEW cm
    PROVE  {"connect", "disconnect"} \subseteq Controls!refineWorkspaceLayout(c, b, cm)
  BY DEF Controls!refineWorkspaceLayout, Controls!layoutSidebarRail,
     Controls!layoutMasterWorkspaceChrome,
     Controls!updateRecursiveSearchControls, Controls!updateDirectoryComparisonControls,
     Controls!PaneLists,
     Controls!FileCommands, Controls!Hidden, Controls!Arrows, Controls!CompareLists

\* A comparison hides the panes below it.
LEMMA CoveredPanes ==
    ASSUME NEW c, NEW b, NEW cm, cm # "off"
    PROVE  Controls!refineWorkspaceLayout(c, b, cm)
           \cap (Controls!PaneLists \cup Controls!FileCommands \cup {"localFilter",
             "remoteFilter"}) = {}
  BY DEF Controls!refineWorkspaceLayout, Controls!updateDirectoryComparisonControls

\* A connection and an attempt can be ended, and without one another begins.
LEMMA AlwaysEnabled ==
    ASSUME NEW c, NEW b, NEW lm, NEW rm, NEW pm, NEW last, NEW ls, NEW rs, NEW cm
    PROVE  /\ c \/ b => "disconnect" \in Controls!Enabled(c, b, lm, rm, pm, last, ls, rs, cm)
           /\ ~c /\ ~pm => "connect" \in Controls!Enabled(c, b, lm, rm, pm, last, ls, rs, cm)
<1>1. Controls!updateMasterConnectVisual(c, b, pm) \subseteq Controls!Enabled(c, b, lm, rm, pm,
        last, ls, rs, cm)
  BY DEF Controls!Enabled, Controls!updateMasterToolbarState
<1>2. /\ c \/ b => "disconnect" \in Controls!updateMasterConnectVisual(c, b, pm)
      /\ ~c /\ ~pm => "connect" \in Controls!updateMasterConnectVisual(c, b, pm)
  BY DEF Controls!updateMasterConnectVisual
<1> QED
  BY <1>1, <1>2

\* The invariant says what the suite checks of the controls (master_workspace_windows.go).
LEMMA ControlsImply ==
    ASSUME ControlsInv
    PROVE  Controls!OfferedActs /\ Controls!ComparisonCovers /\ Controls!OneWayOut
<1>1. Controls!OfferedActs
  BY EnabledDoes DEF Controls!OfferedActs
<1>2. Controls!ComparisonCovers
  BY CoveredPanes DEF ControlsInv, Controls!ComparisonCovers
<1>3. Controls!OneWayOut
  <2>1. {"connect", "disconnect"} \subseteq controlsShown
    BY AlwaysShown DEF ControlsInv
  <2>2. /\ controlsConnected \/ controlsBusy => "disconnect" \in enabled
        /\ ~controlsConnected /\ ~pmut => "connect" \in enabled
    BY AlwaysEnabled DEF ControlsInv
  <2> QED
    BY <2>1, <2>2 DEF Controls!OneWayOut, Controls!Offered
<1> QED
  BY <1>1, <1>2, <1>3

(***************************************************************************)
(* The connection: its calls, its questions, and saves                     *)
(***************************************************************************)

\* The calls that try to connect.
Attempts == {"connect", "trusted", "asks"}
\* The calls that change the connection.
Turns == Attempts \cup {"disconnect"}
\* The calls that leave the connection as it is.
Asides == {"probe", "save"}
\* The test of a site, from the form to its result.
TestOps == {"test", "trusted test", "tested"}
\* A call to the engine, under way or answered.
LinkCallSet == [id : Nat, op : Turns \cup Asides \cup TestOps, gen : Nat, state : {"runs", "ok",
  "failed", "trust"}]

\* What a call may be in an open window
LinkFits(c) ==
    /\ c.gen = linkGen /\ c.op \in Turns => linkBusy
    /\ c.gen = linkGen /\ c.op \in Attempts => ~linkConnected
    /\ c.op = "asks" => c.gen = linkGen /\ linkDialog = "trust"
    /\ c.op = "save" => linkSaving

\* The types: a number for each call, and no call of a later generation.
LinkTypes ==
    /\ linkGen \in Nat /\ linkIds \in Nat
    /\ linkCalls \subseteq LinkCallSet
    /\ \A c \in linkCalls : c.id <= linkIds /\ c.gen <= linkGen
    /\ \A c, d \in linkCalls : c.id = d.id => c = d

\* One call of the generation changes the connection.
LinkAlone == \A c, d \in linkCalls : c.gen = linkGen /\ d.gen = linkGen /\ c.op \in Turns
  /\ d.op \in Turns => c = d
\* One save is under way.
SavesAlone == \A c, d \in linkCalls : c.op = "save" /\ d.op = "save" => c = d
\* Nothing is saved under a connection, an attempt, or the end of the window.
SavesApart ==
    /\ linkDialog \in {"close", "leave"} => ~linkSaving
    /\ linkSaving => ~linkBusy /\ ~linkConnected

\* What holds as long as the window is there.
LinkOpen == LinkAlone /\ SavesAlone /\ SavesApart /\ Link!BusyHasReason
  /\ \A c \in linkCalls : LinkFits(c)

\* The inductive invariant of the connection where calls are repeated and sites tested.
LinkInv ==
    /\ LinkTypes
    /\ Link!NoSaveCut
    /\ ~linkClosed => LinkOpen

\* Nothing is under way at the start.
LEMMA LinkStarts ==
    ASSUME Link!Init
    PROVE  LinkInv
  BY DEF Link!Init, LinkInv, LinkTypes, LinkAlone, LinkFits, LinkOpen, SavesAlone,
     SavesApart, Link!NoSaveCut, Link!BusyHasReason

\* One call goes on: the engine's part of it
LEMMA LinkMoves ==
    ASSUME LinkInv, NEW c \in linkCalls, NEW k \in LinkCallSet, k.id = c.id, k.gen = c.gen,
           k.op = c.op \/ (c.op \in TestOps /\ k.op = "tested"), k.state = "runs"
             => c.state = "runs",
           linkCalls' = (linkCalls \ {c}) \cup {k},
           UNCHANGED <<linkConnected, linkBusy, linkSaving, linkGen, linkDialog,
             linkClosed, linkIds>>
    PROVE  LinkInv'
<1>1. LinkTypes'
  <2>1. \A d \in linkCalls' : d.id <= linkIds /\ d.gen <= linkGen
    BY DEF LinkInv, LinkTypes
  <2>2. \A d \in linkCalls \ {c} : d.id # k.id
    BY DEF LinkInv, LinkTypes
  <2>3. \A d, e \in linkCalls' : d.id = e.id => d = e
    BY <2>2 DEF LinkInv, LinkTypes
  <2> QED
    BY <2>1, <2>3 DEF LinkInv, LinkTypes
<1>2. Link!NoSaveCut'
  BY DEF LinkInv, Link!NoSaveCut, TestOps
<1>3. ASSUME ~linkClosed PROVE LinkOpen'
  <2>1. LinkAlone /\ SavesAlone /\ SavesApart /\ Link!BusyHasReason
          /\ \A d \in linkCalls : LinkFits(d)
    BY <1>3 DEF LinkInv, LinkOpen
  <2>2. LinkFits(k)'
    BY <2>1 DEF LinkFits, Turns, Attempts, TestOps
  <2>3. \A d \in linkCalls \ {c} : LinkFits(d)'
    BY <2>1 DEF LinkFits
  <2>4. LinkAlone'
    <3>1. \A d \in linkCalls \ {c} : ~(c.gen = linkGen /\ d.gen
            = linkGen /\ c.op \in Turns /\ d.op \in Turns)
      BY <2>1 DEF LinkAlone
    <3> QED
      BY <2>1, <3>1 DEF LinkAlone, Turns, Attempts
  <2>5. SavesAlone'
    <3>1. \A d \in linkCalls \ {c} : ~(c.op = "save" /\ d.op = "save")
      BY <2>1 DEF SavesAlone
    <3> QED
      BY <2>1, <3>1 DEF SavesAlone
  <2>6. SavesApart'
    BY <2>1 DEF SavesApart
  <2>7. Link!BusyHasReason'
    BY <2>1 DEF Link!BusyHasReason, TestOps
  <2> QED
    BY <2>2, <2>3, <2>4, <2>5, <2>6, <2>7 DEF LinkOpen
<1> QED
  BY <1>1, <1>2, <1>3 DEF LinkInv

\* The engine's part of a call leaves the window as it is.
LEMMA LinkEngine ==
    ASSUME NEW c \in linkCalls, LinkInv, Link!Engine(c)
    PROVE  LinkInv'
<1>1. UNCHANGED <<linkConnected, linkBusy, linkSaving, linkGen, linkDialog, linkClosed,
        linkIds>>
  BY DEF Link!Engine, Link!EngineConnect, Link!EngineDisconnect, Link!EngineProbe,
     Link!EngineSave, Link!TestDisconnects,
     Link!ui
<1>2. c \in LinkCallSet
  BY DEF LinkInv, LinkTypes
<1>3. CASE Link!TestDisconnects(c)
  <2>1. PICK k : k = [c EXCEPT !.op = "tested"]
    OBVIOUS
  <2>2. k \in LinkCallSet /\ k.id = c.id /\ k.gen = c.gen /\ k.op = "tested" /\ k.state = c.state
    BY <1>2, <2>1 DEF LinkCallSet, TestOps
  <2>3. linkCalls' = (linkCalls \ {c}) \cup {k} /\ c.op \in TestOps
    BY <1>3, <2>1 DEF Link!TestDisconnects, TestOps
  <2> QED
    BY <1>1, <2>2, <2>3, LinkMoves
<1>4. CASE ~Link!TestDisconnects(c)
  <2>1. PICK r \in {"ok", "failed",
          "trust"} : linkCalls' = (linkCalls \ {c}) \cup {[c EXCEPT !.state = r]}
    BY <1>4 DEF Link!Engine, Link!EngineConnect, Link!EngineDisconnect, Link!EngineProbe,
       Link!EngineSave, Link!Ends
  <2>2. PICK k : k = [c EXCEPT !.state = r]
    OBVIOUS
  <2>3. k \in LinkCallSet /\ k.id = c.id /\ k.gen = c.gen /\ k.op = c.op /\ k.state = r
    BY <1>2, <2>2 DEF LinkCallSet
  <2> QED
    BY <1>1, <2>1, <2>2, <2>3, LinkMoves
<1> QED
  BY <1>3, <1>4

\* A call is over.
LEMMA LinkTypesEnds ==
    ASSUME LinkTypes, NEW c, linkCalls' = linkCalls \ {c}, linkGen' \in Nat,
           linkGen' >= linkGen, linkIds' = linkIds
    PROVE  LinkTypes'
<1>1. \A d \in linkCalls' : d.id <= linkIds /\ d.gen <= linkGen'
  BY DEF LinkTypes, LinkCallSet
<1> QED
  BY <1>1 DEF LinkTypes

\* The calls stay as they are.
LEMMA LinkTypesStays ==
    ASSUME LinkTypes, linkCalls' = linkCalls, linkGen' \in Nat, linkGen' >= linkGen,
           linkIds' = linkIds
    PROVE  LinkTypes'
<1>1. \A d \in linkCalls' : d.id <= linkIds /\ d.gen <= linkGen'
  BY DEF LinkTypes, LinkCallSet
<1> QED
  BY <1>1 DEF LinkTypes

\* A call begins.
LEMMA LinkTypesGoes ==
    ASSUME LinkTypes, NEW op \in Turns \cup Asides \cup TestOps, NEW g \in Nat,
           NEW rest \in SUBSET linkCalls,
           Link!Go(op, g, rest), linkGen' \in Nat, linkGen' >= linkGen, g <= linkGen'
    PROVE  /\ LinkTypes'
           /\ \E k \in LinkCallSet : linkCalls' = rest \cup {k} /\ k.op = op /\ k.gen = g
<1>1. PICK k : k = [id |-> linkIds + 1, op |-> op, gen |-> g, state |-> "runs"]
  OBVIOUS
<1>2. linkCalls' = rest \cup {k} /\ linkIds' = linkIds + 1
  BY <1>1 DEF Link!Go, Link!Call
<1>3. k \in LinkCallSet /\ k.id = linkIds + 1 /\ k.op = op /\ k.gen = g
  BY <1>1 DEF LinkTypes, LinkCallSet
<1>4. \A d \in rest : d.id # k.id /\ d.id <= linkIds' /\ d.gen <= linkGen'
  BY <1>2, <1>3 DEF LinkTypes, LinkCallSet
<1>5. linkIds' \in Nat /\ k.id <= linkIds'
  BY <1>2, <1>3 DEF LinkTypes
<1>6. \A d, e \in linkCalls' : d.id = e.id => d = e
  BY <1>2, <1>4 DEF LinkTypes
<1>7. \A d \in linkCalls' : d.id <= linkIds' /\ d.gen <= linkGen'
  BY <1>2, <1>3, <1>4, <1>5
<1>8. LinkTypes'
  BY <1>2, <1>3, <1>5, <1>6, <1>7 DEF LinkTypes
<1> QED
  BY <1>2, <1>3, <1>8

\* A new generation has no call yet.
LEMMA LinkNewGeneration ==
    ASSUME LinkTypes, linkGen' = linkGen + 1
    PROVE  linkGen' \in Nat /\ linkGen' >= linkGen /\ \A d \in linkCalls : d.gen # linkGen'
  BY DEF LinkTypes, LinkCallSet

\* A call leaves without a word: a result that is dropped, or one that is not of a turn of
\* this generation.
LEMMA LinkDrops ==
    ASSUME NEW c \in linkCalls, LinkInv, linkCalls' = linkCalls \ {c},
           linkClosed \/ c.op \notin Turns \/ c.gen # linkGen,
           UNCHANGED <<linkConnected, linkBusy, linkGen, linkDialog, linkClosed, linkIds>>,
           linkSaving' = linkSaving \/ (c.op = "save" /\ ~linkSaving')
    PROVE  LinkInv'
<1>1. LinkTypes'
  BY LinkTypesEnds DEF LinkInv, LinkTypes
<1>2. Link!NoSaveCut'
  BY DEF LinkInv, Link!NoSaveCut
<1>3. ASSUME ~linkClosed PROVE LinkOpen'
  <2>1. LinkAlone /\ SavesAlone /\ SavesApart /\ Link!BusyHasReason
          /\ \A d \in linkCalls : LinkFits(d)
    BY <1>3 DEF LinkInv, LinkOpen
  <2>2. c.op = "save" => \A d \in linkCalls' : d.op # "save"
    BY <2>1 DEF SavesAlone
  <2>3. \A d \in linkCalls' : LinkFits(d)'
    BY <2>1, <2>2 DEF LinkFits
  <2>4. LinkAlone' /\ SavesAlone'
    BY <2>1 DEF LinkAlone, SavesAlone
  <2>5. SavesApart'
    BY <2>1 DEF SavesApart
  <2>6. Link!BusyHasReason'
    BY <1>3, <2>1 DEF Link!BusyHasReason, Turns, Attempts
  <2> QED
    BY <2>3, <2>4, <2>5, <2>6 DEF LinkOpen
<1> QED
  BY <1>1, <1>2, <1>3 DEF LinkInv

\* The one turn of the generation is over.
LEMMA LinkSettles ==
    ASSUME NEW c \in linkCalls, LinkInv, linkClosed \/ c.gen = linkGen, c.op \in Turns,
           linkCalls' = linkCalls \ {c}, ~linkBusy',
           linkConnected' => c.op \in Attempts,
           linkDialog' = linkDialog \/ (c.op = "asks" /\ linkDialog' = "none"),
           UNCHANGED <<linkSaving, linkGen, linkClosed, linkIds>>
    PROVE  LinkInv'
<1>1. LinkTypes'
  BY LinkTypesEnds DEF LinkInv, LinkTypes
<1>2. Link!NoSaveCut'
  BY DEF LinkInv, Link!NoSaveCut
<1>3. ASSUME ~linkClosed PROVE LinkOpen'
  <2>1. LinkAlone /\ SavesAlone /\ SavesApart /\ (\A d \in linkCalls : LinkFits(d))
          /\ c.gen = linkGen
    BY <1>3 DEF LinkInv, LinkOpen
  <2>2. \A d \in linkCalls' : d.gen = linkGen => d.op \notin Turns
    BY <2>1 DEF LinkAlone
  <2>3. \A d \in linkCalls' : LinkFits(d)'
    BY <2>1, <2>2 DEF LinkFits, Turns, Attempts
  <2>4. LinkAlone' /\ SavesAlone'
    BY <2>1 DEF LinkAlone, SavesAlone
  <2>5. ~linkSaving
    BY <2>1 DEF SavesApart, LinkFits
  <2>6. SavesApart'
    BY <2>5 DEF SavesApart
  <2>7. Link!BusyHasReason'
    BY DEF Link!BusyHasReason
  <2> QED
    BY <2>3, <2>4, <2>6, <2>7 DEF LinkOpen
<1> QED
  BY <1>1, <1>2, <1>3 DEF LinkInv

\* A turn of a new generation begins.
LEMMA LinkTurns ==
    ASSUME LinkInv, NEW op \in {"connect", "disconnect"}, NEW rest \in SUBSET linkCalls,
           Link!Go(op, linkGen + 1, rest),
           linkGen' = linkGen + 1, linkBusy', UNCHANGED <<linkConnected, linkSaving,
             linkClosed>>,
           ~linkClosed => ~linkSaving, op = "connect" => ~linkConnected,
           ~linkClosed => \A d \in rest : d.op # "asks",
           linkDialog' \in {"none", linkDialog}
    PROVE  LinkInv'
<1>1. linkGen' \in Nat /\ linkGen' >= linkGen /\ \A d \in linkCalls : d.gen # linkGen'
  BY LinkNewGeneration DEF LinkInv
<1>2. /\ LinkTypes'
      /\ \E k \in LinkCallSet : linkCalls' = rest \cup {k} /\ k.op = op /\ k.gen = linkGen'
  BY <1>1, LinkTypesGoes DEF LinkInv, Turns, Attempts
<1>3. PICK k \in LinkCallSet : linkCalls' = rest \cup {k} /\ k.op = op /\ k.gen = linkGen'
  BY <1>2
<1>4. Link!NoSaveCut'
  BY <1>3 DEF LinkInv, Link!NoSaveCut
<1>5. ASSUME ~linkClosed PROVE LinkOpen'
  <2>1. SavesAlone /\ (\A d \in linkCalls : LinkFits(d)) /\ ~linkSaving
    BY <1>5 DEF LinkInv, LinkOpen
  <2>2. \A d \in rest : LinkFits(d)'
    BY <1>1, <1>5, <2>1 DEF LinkFits
  <2>3. LinkFits(k)'
    BY <1>3 DEF LinkFits, Attempts
  <2>4. LinkAlone'
    BY <1>1, <1>3 DEF LinkAlone
  <2>5. SavesAlone'
    BY <1>3, <2>1 DEF SavesAlone
  <2>6. SavesApart'
    BY <2>1 DEF SavesApart
  <2>7. Link!BusyHasReason'
    BY <1>3 DEF Link!BusyHasReason
  <2> QED
    BY <1>3, <2>2, <2>3, <2>4, <2>5, <2>6, <2>7 DEF LinkOpen
<1> QED
  BY <1>2, <1>4, <1>5 DEF LinkInv

\* The answer of an attempt: connected, refused, or a question about the key.
LEMMA LinkConnectResult ==
    ASSUME NEW c \in linkCalls, LinkInv, Link!ConnectResult(c)
    PROVE  LinkInv'
<1>0. c.op \in {"connect", "trusted"} /\ c \in LinkCallSet
  BY DEF Link!ConnectResult, LinkInv, LinkTypes
<1>1. CASE ~Link!Current(c) /\ Link!Stale(c)
  BY <1>1, LinkDrops DEF Link!Stale, Link!ui, Link!Current
<1>2. CASE Link!Failed(c)
  BY <1>0, <1>2, LinkSettles DEF Link!Failed, Link!Current, Turns, Attempts
<1>3. CASE Link!OnConnected(c)
  BY <1>0, <1>3, LinkSettles DEF Link!OnConnected, Link!Current, Turns, Attempts
<1>4. CASE Link!AsksTrust(c)
  <2>1. PICK k : k = [c EXCEPT !.op = "asks"]
    OBVIOUS
  <2>2. k \in LinkCallSet /\ k.id = c.id /\ k.gen = c.gen /\ k.op = "asks"
    BY <1>0, <2>1 DEF LinkCallSet, Turns, Attempts
  <2>3. c.gen = linkGen /\ ~linkClosed /\ linkDialog = "none" /\ linkDialog' = "trust"
          /\ linkCalls' = (linkCalls \ {c}) \cup {k}
        /\ UNCHANGED <<linkConnected, linkBusy, linkSaving, linkGen, linkClosed, linkIds>>
    BY <1>4, <2>1 DEF Link!AsksTrust, Link!Current
  <2>4. LinkTypes'
    <3>1. \A d \in linkCalls' : d.id <= linkIds /\ d.gen <= linkGen
      BY <2>2, <2>3 DEF LinkInv, LinkTypes
    <3>2. \A d \in linkCalls \ {c} : d.id # k.id
      BY <2>2 DEF LinkInv, LinkTypes
    <3>3. \A d, e \in linkCalls' : d.id = e.id => d = e
      BY <2>3, <3>2 DEF LinkInv, LinkTypes
    <3> QED
      BY <2>2, <2>3, <3>1, <3>3 DEF LinkInv, LinkTypes
  <2>5. LinkAlone /\ SavesAlone /\ SavesApart /\ \A d \in linkCalls : LinkFits(d)
    BY <2>3 DEF LinkInv, LinkOpen
  <2>6. LinkFits(k)'
    BY <1>0, <2>2, <2>3, <2>5 DEF LinkFits, Turns, Attempts
  <2>7. \A d \in linkCalls \ {c} : LinkFits(d)'
    BY <2>3, <2>5 DEF LinkFits
  <2>8. \A d \in linkCalls \ {c} : d.gen = linkGen => d.op \notin Turns
    BY <1>0, <2>3, <2>5 DEF LinkAlone, Turns, Attempts
  <2>9. LinkAlone' /\ SavesAlone'
    BY <2>2, <2>3, <2>5, <2>8 DEF LinkAlone, SavesAlone
  <2>10. SavesApart' /\ Link!BusyHasReason' /\ Link!NoSaveCut'
    BY <2>2, <2>3, <2>5 DEF SavesApart, Link!BusyHasReason, Link!NoSaveCut
  <2> QED
    BY <2>3, <2>4, <2>6, <2>7, <2>9, <2>10 DEF LinkInv, LinkOpen
<1> QED
  BY <1>1, <1>2, <1>3, <1>4 DEF Link!ConnectResult

\* The end of a session.
LEMMA LinkDisconnectResult ==
    ASSUME NEW c \in linkCalls, LinkInv, Link!DisconnectResult(c)
    PROVE  LinkInv'
<1>1. CASE Link!Current(c)
  BY <1>1, LinkSettles DEF Link!DisconnectResult, Link!Current, Turns
<1>2. CASE ~Link!Current(c)
  BY <1>2, LinkDrops DEF Link!DisconnectResult, Link!Stale, Link!ui, Link!Current
<1> QED
  BY <1>1, <1>2

\* A check says whether the connection is still there; a lost one is ended.
LEMMA LinkProbeResult ==
    ASSUME NEW c \in linkCalls, LinkInv, Link!ProbeResult(c)
    PROVE  LinkInv'
<1>0. c.op = "probe" /\ c.op \notin Turns
  BY DEF Link!ProbeResult, Turns, Attempts
<1>1. CASE ~Link!Current(c) \/ ~linkConnected
  BY <1>0, <1>1, LinkDrops DEF Link!ProbeResult, Link!Stale, Link!ui
<1>2. CASE Link!Current(c) /\ linkConnected /\ c.state = "ok"
  BY <1>0, <1>2, LinkDrops DEF Link!ProbeResult
<1>3. CASE Link!Current(c) /\ linkConnected /\ c.state # "ok"
  <2>1. linkGen' = linkGen + 1 /\ linkBusy' = TRUE
          /\ Link!Go("disconnect", linkGen + 1, linkCalls \ {c})
        /\ UNCHANGED <<linkConnected, linkSaving, linkDialog, linkClosed>>
    BY <1>3 DEF Link!ProbeResult, Link!Transition
  <2>2. ~linkClosed /\ SavesApart /\ \A d \in linkCalls : LinkFits(d)
    BY <1>3 DEF LinkInv, LinkOpen, Link!Current
  <2>3. ~linkSaving /\ \A d \in linkCalls : d.op # "asks"
    BY <1>3, <2>2 DEF SavesApart, LinkFits, Attempts
  <2> QED
    BY <2>1, <2>3, LinkTurns
<1> QED
  BY <1>1, <1>2, <1>3

\* The save is over.
LEMMA LinkSaveResult ==
    ASSUME NEW c \in linkCalls, LinkInv, Link!SaveResult(c)
    PROVE  LinkInv'
  BY LinkDrops DEF Link!SaveResult, Turns, Attempts

\* The test of a site is over, or asks about the key.
LEMMA LinkTestResult ==
    ASSUME NEW c \in linkCalls, LinkInv, Link!TestResult(c)
    PROVE  LinkInv'
  BY LinkDrops DEF Link!TestResult, Turns, Attempts

\* A call that is not a turn begins, in the place of another such call or beside all.
LEMMA LinkAsides ==
    ASSUME LinkInv, NEW op \in Asides \cup TestOps, NEW g \in {0, linkGen},
           NEW rest \in SUBSET linkCalls, Link!Go(op, g, rest),
           \A d \in linkCalls \ rest : d.op \in TestOps,
           op = "save" => ~linkSaving /\ ~linkBusy /\ ~linkConnected /\ linkDialog = "none"
             /\ linkSaving' /\ ~linkClosed,
           op # "save" => UNCHANGED linkSaving,
           UNCHANGED <<linkConnected, linkBusy, linkGen, linkDialog, linkClosed>>
    PROVE  LinkInv'
<1>1. /\ LinkTypes'
      /\ \E k \in LinkCallSet : linkCalls' = rest \cup {k} /\ k.op = op /\ k.gen = g
  BY LinkTypesGoes DEF LinkInv, LinkTypes
<1>2. PICK k \in LinkCallSet : linkCalls' = rest \cup {k} /\ k.op = op
  BY <1>1
<1>3. Link!NoSaveCut'
  BY <1>2 DEF LinkInv, Link!NoSaveCut
<1>4. ASSUME ~linkClosed PROVE LinkOpen'
  <2>1. LinkAlone /\ SavesAlone /\ SavesApart /\ Link!BusyHasReason
          /\ \A d \in linkCalls : LinkFits(d)
    BY <1>4 DEF LinkInv, LinkOpen
  <2>2. op = "save" => \A d \in linkCalls : d.op # "save"
    BY <2>1 DEF LinkFits
  <2>3. \A d \in rest : LinkFits(d)'
    BY <2>1, <2>2 DEF LinkFits
  <2>4. LinkFits(k)'
    BY <1>2 DEF LinkFits, Asides, TestOps, Turns, Attempts
  <2>5. LinkAlone'
    BY <1>2, <2>1 DEF LinkAlone, Asides, TestOps, Turns, Attempts
  <2>6. SavesAlone'
    BY <1>2, <2>1, <2>2 DEF SavesAlone
  <2>7. SavesApart'
    BY <2>1 DEF SavesApart
  <2>8. Link!BusyHasReason'
    BY <1>2, <2>1 DEF Link!BusyHasReason, TestOps
  <2> QED
    BY <1>2, <2>3, <2>4, <2>5, <2>6, <2>7, <2>8 DEF LinkOpen
<1> QED
  BY <1>1, <1>3, <1>4 DEF LinkInv

\* The answer about the key of a tested site.
LEMMA LinkTestTrust ==
    ASSUME NEW c \in linkCalls, LinkInv, Link!TestTrust(c)
    PROVE  LinkInv'
<1>1. CASE linkTesting = c.id
  BY <1>1, LinkAsides DEF Link!TestTrust, TestOps
<1>2. CASE linkTesting # c.id
  BY <1>2, LinkDrops DEF Link!TestTrust, Turns, Attempts
<1> QED
  BY <1>1, <1>2

\* The answer about the host's key goes on with the attempt or ends it.
LEMMA LinkTrustAnswer ==
    ASSUME NEW c \in linkCalls, LinkInv, Link!TrustAnswer(c)
    PROVE  LinkInv'
<1>1. linkDialog = "trust" /\ c.op = "asks" /\ linkDialog' = "none"
      /\ UNCHANGED <<linkSaving, linkGen, linkClosed>>
  BY DEF Link!TrustAnswer
<1>2. ~linkClosed => c.gen = linkGen
  BY <1>1 DEF LinkInv, LinkOpen, LinkFits
<1>3. CASE linkCalls' = linkCalls \ {c} /\ linkBusy' = FALSE /\ linkConnected' = FALSE
           /\ UNCHANGED linkIds
  BY <1>1, <1>2, <1>3, LinkSettles DEF Turns, Attempts
<1>4. CASE Link!Go("trusted", c.gen, linkCalls \ {c}) /\ UNCHANGED <<linkConnected, linkBusy>>
  <2>1. c.gen \in Nat /\ c.gen <= linkGen /\ linkGen \in Nat
    BY DEF LinkInv, LinkTypes, LinkCallSet
  <2>2. /\ LinkTypes'
        /\ \E k \in LinkCallSet : linkCalls' = (linkCalls \ {c}) \cup {k} /\ k.op = "trusted"
             /\ k.gen = c.gen
    BY <1>1, <1>4, <2>1, LinkTypesGoes DEF LinkInv, Turns, Attempts
  <2>3. PICK k \in LinkCallSet : linkCalls' = (linkCalls \ {c}) \cup {k} /\ k.op = "trusted"
          /\ k.gen = c.gen
    BY <2>2
  <2>4. Link!NoSaveCut'
    BY <1>1, <2>3 DEF LinkInv, Link!NoSaveCut
  <2>5. ASSUME ~linkClosed PROVE LinkOpen'
    <3>1. LinkAlone /\ SavesAlone /\ SavesApart /\ (\A d \in linkCalls : LinkFits(d))
            /\ c.gen = linkGen
      BY <1>2, <2>5 DEF LinkInv, LinkOpen
    <3>2. \A d \in linkCalls \ {c} : d.gen = linkGen => d.op \notin Turns
      BY <1>1, <3>1 DEF LinkAlone, Turns, Attempts
    <3>3. \A d \in linkCalls \ {c} : LinkFits(d)'
      BY <1>1, <1>4, <3>1, <3>2 DEF LinkFits, Turns, Attempts
    <3>4. LinkFits(k)'
      BY <1>1, <1>4, <2>3, <3>1 DEF LinkFits, Turns, Attempts
    <3>5. LinkAlone' /\ SavesAlone'
      BY <1>1, <2>3, <3>1, <3>2 DEF LinkAlone, SavesAlone
    <3>6. SavesApart' /\ Link!BusyHasReason'
      BY <1>1, <1>4, <2>3, <3>1 DEF SavesApart, Link!BusyHasReason
    <3> QED
      BY <2>3, <3>3, <3>4, <3>5, <3>6 DEF LinkOpen
  <2> QED
    BY <1>1, <2>2, <2>4, <2>5 DEF LinkInv
<1> QED
  BY <1>3, <1>4 DEF Link!TrustAnswer

\* An attempt begins in a generation of its own.
LEMMA LinkConnectNow ==
    ASSUME LinkInv, Link!ConnectNow
    PROVE  LinkInv'
<1>1. linkDialog = "none" /\ ~linkBusy /\ ~linkConnected /\ ~linkSaving /\ ~linkClosed
      /\ linkGen' = linkGen + 1 /\ linkBusy' = TRUE
           /\ Link!Go("connect", linkGen + 1, linkCalls)
      /\ UNCHANGED <<linkConnected, linkSaving, linkDialog, linkClosed>>
  BY DEF Link!ConnectNow, Link!Click, Link!Transition
<1>2. \A d \in linkCalls : d.op # "asks"
  BY <1>1 DEF LinkInv, LinkOpen, LinkFits
<1> QED
  BY <1>1, <1>2, LinkTurns

\* A session is ended in a generation of its own.
LEMMA LinkDisconnectNow ==
    ASSUME LinkInv, Link!DisconnectNow
    PROVE  LinkInv'
<1>1. linkDialog \in {"none", "leave"} /\ (linkDialog = "none" => linkConnected)
        /\ linkDialog' = "none"
      /\ linkGen' = linkGen + 1 /\ linkBusy' = TRUE
           /\ Link!Go("disconnect", linkGen + 1, linkCalls)
      /\ UNCHANGED <<linkConnected, linkSaving, linkClosed>>
  BY DEF Link!DisconnectNow, Link!Leaves, Link!Transition
<1>2. ~linkClosed => ~linkSaving /\ \A d \in linkCalls : d.op # "asks"
  BY <1>1 DEF LinkInv, LinkOpen, LinkFits, SavesApart
<1> QED
  BY <1>1, <1>2, LinkTurns

\* The attempt under way is given up for a new generation.
LEMMA LinkCancelNow ==
    ASSUME LinkInv, Link!CancelNow
    PROVE  LinkInv'
<1>1. linkDialog = "none" /\ ~linkClosed
      /\ linkGen' = linkGen + 1 /\ linkBusy' = FALSE /\ linkConnected' = FALSE
      /\ UNCHANGED <<linkDialog, linkClosed, linkSaving, linkCalls, linkIds>>
  BY DEF Link!CancelNow, Link!Click, Link!Transition
<1>2. linkGen' \in Nat /\ linkGen' >= linkGen /\ \A d \in linkCalls : d.gen # linkGen'
  BY <1>1, LinkNewGeneration DEF LinkInv
<1>3. LinkTypes'
  BY <1>1, <1>2, LinkTypesStays DEF LinkInv
<1>4. SavesAlone /\ \A d \in linkCalls : LinkFits(d)
  BY <1>1 DEF LinkInv, LinkOpen
<1>5. \A d \in linkCalls : LinkFits(d)'
  BY <1>1, <1>2, <1>4 DEF LinkFits
<1>6. LinkAlone' /\ SavesAlone' /\ SavesApart' /\ Link!BusyHasReason' /\ Link!NoSaveCut'
  BY <1>1, <1>2, <1>4 DEF LinkAlone, SavesAlone, SavesApart, Link!BusyHasReason, Link!NoSaveCut
<1> QED
  BY <1>1, <1>3, <1>5, <1>6 DEF LinkInv, LinkOpen

\* Questions that are opened and closed
LEMMA LinkDialogs ==
    ASSUME LinkInv, Link!AskLeave \/ Link!StayConnected \/ Link!OpenSites \/ Link!LeaveSites
    PROVE  LinkInv'
<1>1. linkDialog # "trust" /\ (linkDialog' = "leave" => linkConnected /\ ~linkClosed)
        /\ linkDialog' \in {"none", "leave", "site"}
      /\ UNCHANGED <<linkConnected, linkBusy, linkGen, linkSaving, linkCalls, linkIds,
           linkClosed>>
  BY DEF Link!AskLeave, Link!StayConnected, Link!OpenSites, Link!LeaveSites, Link!Click
<1>2. LinkTypes' /\ Link!NoSaveCut'
  BY <1>1 DEF LinkInv, LinkTypes, Link!NoSaveCut
<1>3. ASSUME ~linkClosed PROVE LinkOpen'
  <2>1. LinkAlone /\ SavesAlone /\ SavesApart /\ Link!BusyHasReason
          /\ \A d \in linkCalls : LinkFits(d)
    BY <1>3 DEF LinkInv, LinkOpen
  <2>2. \A d \in linkCalls : LinkFits(d)'
    BY <1>1, <2>1 DEF LinkFits
  <2> QED
    BY <1>1, <2>1, <2>2 DEF LinkOpen, LinkAlone, SavesAlone, SavesApart, Link!BusyHasReason
<1> QED
  BY <1>1, <1>2, <1>3 DEF LinkInv

\* The window closes, or asks whether to.
LEMMA LinkClose ==
    ASSUME LinkInv, Link!Close
    PROVE  LinkInv'
<1>0. UNCHANGED <<linkConnected, linkBusy, linkGen, linkSaving, linkCalls, linkIds>>
  BY DEF Link!Close
<1>1. CASE linkDialog = "none" /\ ~linkClosed /\ Link!CloseAction = "ask"
           /\ linkDialog' = "close" /\ UNCHANGED linkClosed
  <2>1. ~linkSaving
    BY <1>1 DEF Link!CloseAction
  <2>2. LinkAlone /\ SavesAlone /\ SavesApart /\ Link!BusyHasReason
          /\ \A d \in linkCalls : LinkFits(d)
    BY <1>1 DEF LinkInv, LinkOpen
  <2>3. \A d \in linkCalls : LinkFits(d)'
    BY <1>0, <1>1, <2>2 DEF LinkFits
  <2> QED
    BY <1>0, <1>1, <2>1, <2>2, <2>3 DEF LinkInv, LinkTypes, Link!NoSaveCut, LinkOpen,
       LinkAlone, SavesAlone, SavesApart,
       Link!BusyHasReason
<1>2. CASE linkClosed' /\ (~linkClosed => ~linkSaving)
  <2>1. \A d \in linkCalls : d.op = "save" => d.state # "runs"
    BY <1>2 DEF LinkInv, LinkOpen, LinkFits, Link!NoSaveCut
  <2> QED
    BY <1>0, <1>2, <2>1 DEF LinkInv, LinkTypes, Link!NoSaveCut
<1>3. Link!CloseAction = "close" => ~linkSaving
  BY DEF Link!CloseAction
<1>4. linkDialog = "close" /\ ~linkClosed => ~linkSaving
  BY DEF LinkInv, LinkOpen, SavesApart
<1> QED
  BY <1>1, <1>2, <1>3, <1>4 DEF Link!Close, Link!CloseNow, Link!Click

\* A check, a save or a test begins.
LEMMA LinkBesides ==
    ASSUME LinkInv, Link!CheckConnection \/ Link!SaveNow \/ Link!Test
    PROVE  LinkInv'
<1>1. CASE Link!CheckConnection
  BY <1>1, LinkAsides DEF Link!CheckConnection, Asides
<1>2. CASE Link!SaveNow
  BY <1>2, LinkAsides DEF Link!SaveNow, Link!Click, Asides
<1>3. CASE Link!Test
  BY <1>3, LinkAsides DEF Link!Test, TestOps
<1> QED
  BY <1>1, <1>2, <1>3

\* Every step keeps the invariant.
LEMMA LinkSteps ==
    ASSUME LinkInv, [Link!Next]_(Link!vars)
    PROVE  LinkInv'
<1>1. CASE UNCHANGED Link!vars
  BY <1>1 DEF Link!vars, Link!ui, LinkInv, LinkTypes, LinkOpen, LinkAlone, SavesAlone,
     SavesApart, LinkFits,
     Link!NoSaveCut, Link!BusyHasReason
<1>2. CASE Link!User
  BY <1>2, LinkConnectNow, LinkCancelNow, LinkDisconnectNow, LinkDialogs, LinkClose,
     LinkBesides DEF Link!User
<1>3. CASE Link!Work
  <2>1. PICK c \in linkCalls : Link!Engine(c) \/ Link!Result(c)
    BY <1>3 DEF Link!Work
  <2> QED
    BY <2>1, LinkEngine, LinkConnectResult, LinkDisconnectResult, LinkProbeResult,
       LinkSaveResult, LinkTestTrust,
       LinkTestResult DEF Link!Result
<1>4. CASE \E c \in linkCalls : Link!TrustAnswer(c)
  BY <1>4, LinkTrustAnswer
<1> QED
  BY <1>1, <1>2, <1>3, <1>4 DEF Link!Next

\* The invariant says what the suite checks of busy windows and saves
\* (connection_profiles_windows.go).
LEMMA LinkImplies ==
    ASSUME LinkInv
    PROVE  Link!BusyHasReason /\ Link!NoSaveCut /\ Link!NoConnectInSave
  BY DEF LinkInv, LinkOpen, SavesApart, Link!BusyHasReason, Link!NoConnectInSave

(***************************************************************************)
(* The connection: what is shown is the session of the engine              *)
(***************************************************************************)

\* The session of call s is there, or was taken by a call that was not begun for it.
Holds(s) ==
    \/ s # 0 /\ linkSession = s
    \/ overlapped /\ s \in taken

\* What a call may be in an open window, for the session that is shown
OwnFits(c) ==
    /\ c.id # 0
    /\ c.gen = linkGen /\ c.op = "probe" => ~linkBusy
    /\ c.gen = linkGen /\ c.op \in {"connect", "trusted"} /\ c.state = "ok" => Holds(c.id)
    /\ c.op \in TestOps => overlapped
    /\ c.op = "disconnect" /\ c.state = "runs" => overlapped \/ (c.gen = linkGen /\ linkConnected)

\* A connection that is shown and not about to change holds its session.
Owned == linkConnected /\ ~linkBusy => Holds(linkOwner)

\* The inductive invariant of the session, beside LinkInv.
OwnInv == ~linkClosed => Owned /\ \A c \in linkCalls : OwnFits(c)

\* Nothing is shown at the start.
LEMMA OwnStarts ==
    ASSUME Link!Init
    PROVE  OwnInv
  BY DEF Link!Init, OwnInv, Owned

\* The engine's part of a call: a session begins where there was none.
LEMMA OwnEngineConnect ==
    ASSUME NEW c \in linkCalls, LinkInv, OwnInv, Link!EngineConnect(c)
    PROVE  OwnInv'
<1>1. PICK r \in {"failed", "trust", "ok"} :
         /\ linkCalls' = (linkCalls \ {c}) \cup {[c EXCEPT !.state = r]}
         /\ IF r = "ok" THEN linkSession = 0 /\ linkSession' = c.id ELSE UNCHANGED linkSession
  BY DEF Link!EngineConnect, Link!Ends
<1>2. PICK k : k = [c EXCEPT !.state = r]
  OBVIOUS
<1>3. k.id = c.id /\ k.gen = c.gen /\ k.op = c.op /\ k.state = r
  BY <1>2 DEF LinkInv, LinkTypes, LinkCallSet
<1>4. UNCHANGED <<linkConnected, linkBusy, linkGen, linkClosed, linkOwner, taken, overlapped>>
      /\ c.op \in {"connect", "trusted", "test", "trusted test"}
  BY DEF Link!EngineConnect, Link!ui, Link!history
<1>5. ASSUME ~linkClosed PROVE Owned' /\ \A d \in linkCalls' : OwnFits(d)'
  <2>1. Owned /\ \A d \in linkCalls : OwnFits(d)
    BY <1>5 DEF OwnInv
  <2>2. \A s : Holds(s) => Holds(s)'
    BY <1>1, <1>4 DEF Holds
  <2>3. ASSUME r = "ok" PROVE Holds(c.id)'
    <3>1. linkSession' = c.id /\ c.id # 0
      BY <1>1, <2>1, <2>3 DEF OwnFits
    <3> QED
      BY <3>1 DEF Holds
  <2>4. OwnFits(k)'
    BY <1>3, <1>4, <2>1, <2>3 DEF OwnFits
  <2>5. \A d \in linkCalls : OwnFits(d)'
    BY <1>4, <2>1, <2>2 DEF OwnFits
  <2>6. Owned'
    BY <1>4, <2>1, <2>2 DEF Owned
  <2> QED
    BY <1>1, <1>2, <2>4, <2>5, <2>6
<1> QED
  BY <1>4, <1>5 DEF OwnInv

\* The engine's part of a call: whatever session there is ends.
LEMMA OwnEnds ==
    ASSUME NEW c \in linkCalls, LinkInv, OwnInv, NEW meant, Link!EndsSession(meant),
           ~linkClosed /\ meant => linkBusy /\ \A d \in linkCalls : d.gen = linkGen =>
             d.op \notin {"connect", "trusted"},
           ~linkClosed /\ ~meant => overlapped,
           NEW k, k.id = c.id, k.gen = c.gen, k.op = c.op \/ (k.op = "tested" /\ c.op \in TestOps),
           c.op \notin Attempts, k.state # "runs",
           linkCalls' = (linkCalls \ {c}) \cup {k},
           UNCHANGED <<linkConnected, linkBusy, linkGen, linkClosed, linkOwner>>
    PROVE  OwnInv'
<1>1. linkSession' = 0 /\ overlapped' = overlapped
      /\ taken' = IF meant THEN taken ELSE taken \cup ({linkSession} \ {0})
  BY DEF Link!EndsSession
<1>2. ASSUME ~linkClosed PROVE Owned' /\ \A d \in linkCalls' : OwnFits(d)'
  <2>1. Owned /\ \A d \in linkCalls : OwnFits(d)
    BY <1>2 DEF OwnInv
  <2>2. ASSUME ~meant, NEW s, Holds(s) PROVE Holds(s)'
    BY <1>1, <1>2, <2>2 DEF Holds
  <2>3. Owned'
    BY <1>2, <2>1, <2>2 DEF Owned
  <2>4. OwnFits(k)'
    BY <1>1, <2>1 DEF OwnFits, TestOps, Attempts
  <2>5. \A d \in linkCalls : OwnFits(d)'
    BY <1>1, <1>2, <2>1, <2>2 DEF OwnFits
  <2> QED
    BY <2>3, <2>4, <2>5
<1> QED
  BY <1>2 DEF OwnInv

\* The engine's part of a call
LEMMA OwnEngine ==
    ASSUME NEW c \in linkCalls, LinkInv, OwnInv, Link!Engine(c)
    PROVE  OwnInv'
<1>0. c \in LinkCallSet
  BY DEF LinkInv, LinkTypes
<1>1. CASE Link!EngineDisconnect(c)
  <2>1. PICK k : k = [c EXCEPT !.state = "ok"]
    OBVIOUS
  <2>2. k.id = c.id /\ k.gen = c.gen /\ k.op = c.op /\ k.state = "ok"
    BY <1>0, <2>1 DEF LinkCallSet
  <2>3. c.op = "disconnect" /\ c.state = "runs" /\ Link!EndsSession(c.gen = linkGen)
        /\ linkCalls' = (linkCalls \ {c}) \cup {k}
        /\ UNCHANGED <<linkConnected, linkBusy, linkGen, linkClosed, linkOwner>>
    BY <1>1, <2>1 DEF Link!EngineDisconnect, Link!Ends, Link!ui
  <2>4. ASSUME ~linkClosed, c.gen = linkGen
        PROVE  linkBusy /\ \A d \in linkCalls : d.gen = linkGen => d.op \notin {"connect", "trusted"}
    BY <2>3, <2>4 DEF LinkInv, LinkOpen, LinkAlone, LinkFits, Turns, Attempts
  <2>5. ASSUME ~linkClosed, c.gen # linkGen PROVE overlapped
    BY <2>3, <2>5 DEF OwnInv, OwnFits
  <2> QED
    BY <2>2, <2>3, <2>4, <2>5, OwnEnds DEF Attempts
<1>2. CASE Link!TestDisconnects(c)
  <2>1. PICK k : k = [c EXCEPT !.op = "tested"]
    OBVIOUS
  <2>2. k.id = c.id /\ k.gen = c.gen /\ k.op = "tested" /\ k.state = c.state
    BY <1>0, <2>1 DEF LinkCallSet
  <2>3. c.op \in {"test", "trusted test"} /\ c.state # "runs" /\ Link!EndsSession(FALSE)
        /\ linkCalls' = (linkCalls \ {c}) \cup {k}
        /\ UNCHANGED <<linkConnected, linkBusy, linkGen, linkClosed, linkOwner>>
    BY <1>2, <2>1 DEF Link!TestDisconnects, Link!ui
  <2>4. ~linkClosed => overlapped
    BY <2>3 DEF OwnInv, OwnFits, TestOps
  <2> QED
    BY <2>2, <2>3, <2>4, OwnEnds DEF Attempts, TestOps
<1>3. CASE Link!EngineProbe(c) \/ Link!EngineSave(c)
  <2>1. PICK r : linkCalls' = (linkCalls \ {c}) \cup {[c EXCEPT !.state = r]} /\ r # "runs"
    BY <1>3 DEF Link!EngineProbe, Link!EngineSave, Link!Ends
  <2>2. PICK k : k = [c EXCEPT !.state = r]
    OBVIOUS
  <2>3. k.id = c.id /\ k.gen = c.gen /\ k.op = c.op /\ c.op \in {"probe", "save"}
    BY <1>0, <1>3, <2>2 DEF LinkCallSet, Link!EngineProbe, Link!EngineSave
  <2>4. UNCHANGED <<linkConnected, linkBusy, linkGen, linkClosed, linkOwner, linkSession, taken,
          overlapped>>
    BY <1>3 DEF Link!EngineProbe, Link!EngineSave, Link!ui, Link!history
  <2>5. ASSUME ~linkClosed PROVE Owned' /\ \A d \in linkCalls' : OwnFits(d)'
    <3>1. Owned' /\ \A d \in linkCalls : OwnFits(d)'
      BY <2>4, <2>5 DEF OwnInv, Owned, OwnFits, Holds
    <3>2. OwnFits(k)'
      BY <2>3, <2>4, <2>5 DEF OwnInv, OwnFits, TestOps
    <3> QED
      BY <2>1, <2>2, <3>1, <3>2
  <2> QED
    BY <2>4, <2>5 DEF OwnInv
<1> QED
  BY <1>1, <1>2, <1>3, OwnEngineConnect DEF Link!Engine

\* The turn of the generation is over, and shows what it holds.
LEMMA OwnSettles ==
    ASSUME NEW c \in linkCalls, LinkInv, OwnInv, c.gen = linkGen, c.op \in Turns, c.state # "runs"
             \/ c.op = "asks", ~linkClosed,
           linkCalls' = linkCalls \ {c}, ~linkBusy',
           linkConnected' => c.op \in {"connect", "trusted"} /\ c.state = "ok"
             /\ linkOwner' = c.id,
           UNCHANGED <<linkGen, linkClosed, linkSession, taken, overlapped>>
    PROVE  OwnInv'
<1>1. Owned /\ \A d \in linkCalls : OwnFits(d)
  BY DEF OwnInv
<1>2. \A d \in linkCalls' : d.gen = linkGen => d.op \notin Turns
  BY DEF LinkInv, LinkOpen, LinkAlone
<1>3. \A d \in linkCalls' : OwnFits(d)'
  BY <1>1, <1>2 DEF OwnFits, Holds, Turns, Attempts
<1>4. Owned'
  BY <1>1 DEF Owned, OwnFits, Holds
<1> QED
  BY <1>3, <1>4 DEF OwnInv

\* A call leaves without a word, or the window is closed.
LEMMA OwnDrops ==
    ASSUME OwnInv, ~linkClosed' => ~linkClosed /\ linkCalls' \subseteq linkCalls,
           UNCHANGED <<linkConnected, linkBusy, linkGen, linkOwner, linkSession, taken, overlapped>>
    PROVE  OwnInv'
  BY DEF OwnInv, Owned, OwnFits, Holds

\* A new generation begins, with a call or without.
LEMMA OwnTurns ==
    ASSUME LinkInv, OwnInv, linkGen' = linkGen + 1, ~linkClosed,
           linkBusy' \/ ~linkConnected',
           NEW rest \in SUBSET linkCalls,
           linkCalls' = rest \/ Link!Go("connect", linkGen + 1, rest)
             \/ (Link!Go("disconnect", linkGen + 1, rest) /\ (overlapped' \/ linkConnected')),
           overlapped => overlapped',
           ~overlapped' => \A d \in linkCalls : d.op = "disconnect" => d.state # "runs",
           UNCHANGED <<linkClosed, linkSession, taken>>
    PROVE  OwnInv'
<1>1. \A d \in linkCalls : d.gen # linkGen' /\ OwnFits(d)
  BY LinkNewGeneration DEF LinkInv, OwnInv
<1>2. \A d \in rest : OwnFits(d)'
  BY <1>1 DEF OwnFits, TestOps
<1>3. Owned'
  BY DEF Owned
<1>4. CASE linkCalls' = rest
  BY <1>2, <1>3, <1>4 DEF OwnInv
<1>5. ASSUME NEW op \in {"connect", "disconnect"}, Link!Go(op, linkGen + 1, rest),
             op = "disconnect" => overlapped' \/ linkConnected'
      PROVE  OwnInv'
  <2>1. PICK k : k = [id |-> linkIds + 1, op |-> op, gen |-> linkGen + 1, state |-> "runs"]
    OBVIOUS
  <2>2. linkCalls' = rest \cup {k} /\ k.id # 0
    BY <1>5, <2>1 DEF Link!Go, Link!Call, LinkInv, LinkTypes
  <2>3. OwnFits(k)'
    BY <1>5, <2>1, <2>2 DEF OwnFits, TestOps
  <2> QED
    BY <1>2, <1>3, <2>2, <2>3 DEF OwnInv
<1> QED
  BY <1>4, <1>5

\* A call that is no turn begins, in the place of another or beside all.
LEMMA OwnAsides ==
    ASSUME LinkInv, OwnInv, NEW op \in Asides \cup TestOps \cup {"trusted"}, NEW g,
           NEW rest \in SUBSET linkCalls,
           Link!Go(op, g, rest), op = "probe" => ~linkBusy,
           op \in TestOps /\ ~linkClosed => overlapped', overlapped => overlapped',
           UNCHANGED <<linkConnected, linkBusy, linkGen, linkClosed, linkOwner, linkSession, taken>>
    PROVE  OwnInv'
<1>1. PICK k : k = [id |-> linkIds + 1, op |-> op, gen |-> g, state |-> "runs"]
  OBVIOUS
<1>2. linkCalls' = rest \cup {k} /\ k.id # 0
  BY <1>1 DEF Link!Go, Link!Call, LinkInv, LinkTypes
<1>3. ASSUME ~linkClosed PROVE Owned' /\ \A d \in linkCalls' : OwnFits(d)'
  <2>1. Owned' /\ \A d \in linkCalls : OwnFits(d)'
    BY <1>3 DEF OwnInv, Owned, OwnFits, Holds
  <2>2. OwnFits(k)'
    BY <1>1, <1>2, <1>3 DEF OwnFits, Asides, TestOps
  <2> QED
    BY <1>2, <2>1, <2>2
<1> QED
  BY <1>3 DEF OwnInv

\* The answers of the calls
LEMMA OwnResult ==
    ASSUME NEW c \in linkCalls, LinkInv, OwnInv, Link!Result(c)
    PROVE  OwnInv'
<1>0. c \in LinkCallSet
  BY DEF LinkInv, LinkTypes
<1>1. CASE Link!ConnectResult(c)
  <2>0. c.op \in {"connect", "trusted"} /\ c.state # "runs"
        /\ UNCHANGED <<linkSession, taken, overlapped>>
    BY <1>1 DEF Link!ConnectResult, Link!history
  <2>1. CASE ~Link!Current(c) /\ Link!Stale(c)
    BY <2>0, <2>1, OwnDrops DEF Link!Stale, Link!ui
  <2>2. CASE Link!Failed(c)
    BY <2>0, <2>2, OwnSettles DEF Link!Failed, Link!Current, Turns, Attempts
  <2>3. CASE c.state = "ok" /\ Link!OnConnected(c)
    BY <2>0, <2>3, OwnSettles DEF Link!OnConnected, Link!Current, Turns, Attempts
  <2>4. CASE Link!AsksTrust(c)
    <3>1. PICK k : k = [c EXCEPT !.op = "asks"]
      OBVIOUS
    <3>2. k.id = c.id /\ k.op = "asks"
      BY <1>0, <3>1 DEF LinkCallSet
    <3>3. linkCalls' = (linkCalls \ {c}) \cup {k}
          /\ UNCHANGED <<linkConnected, linkBusy, linkGen, linkClosed, linkOwner>>
      BY <2>4, <3>1 DEF Link!AsksTrust
    <3>4. ASSUME ~linkClosed PROVE Owned' /\ \A d \in linkCalls' : OwnFits(d)'
      <4>1. Owned' /\ \A d \in linkCalls : OwnFits(d)'
        BY <2>0, <3>3, <3>4 DEF OwnInv, Owned, OwnFits, Holds
      <4>2. OwnFits(k)'
        BY <3>2, <3>4 DEF OwnInv, OwnFits, TestOps
      <4> QED
        BY <3>3, <4>1, <4>2
    <3> QED
      BY <3>3, <3>4 DEF OwnInv
  <2> QED
    BY <1>1, <2>1, <2>2, <2>3, <2>4 DEF Link!ConnectResult
<1>2. CASE Link!DisconnectResult(c)
  <2>0. c.op = "disconnect" /\ c.state # "runs" /\ UNCHANGED <<linkSession, taken, overlapped>>
    BY <1>2 DEF Link!DisconnectResult, Link!history
  <2>1. CASE Link!Current(c)
    BY <1>2, <2>0, <2>1, OwnSettles DEF Link!DisconnectResult, Link!Current, Turns
  <2>2. CASE ~Link!Current(c)
    BY <1>2, <2>0, <2>2, OwnDrops DEF Link!DisconnectResult, Link!Stale, Link!ui
  <2> QED
    BY <2>1, <2>2
<1>3. CASE Link!ProbeResult(c)
  <2>0. c.op = "probe" /\ UNCHANGED <<linkSession, taken, overlapped>>
    BY <1>3 DEF Link!ProbeResult, Link!history
  <2>1. CASE ~Link!Current(c) \/ ~linkConnected
    BY <1>3, <2>0, <2>1, OwnDrops DEF Link!ProbeResult, Link!Stale, Link!ui
  <2>2. CASE Link!Current(c) /\ linkConnected /\ c.state = "ok"
    BY <1>3, <2>0, <2>2, OwnDrops DEF Link!ProbeResult
  <2>3. CASE Link!Current(c) /\ linkConnected /\ c.state # "ok"
    <3>1. linkGen' = linkGen + 1 /\ linkBusy' /\ linkConnected' /\ ~linkClosed
          /\ Link!Go("disconnect", linkGen + 1, linkCalls \ {c}) /\ UNCHANGED linkClosed
      BY <1>3, <2>3 DEF Link!ProbeResult, Link!Transition, Link!Current
    <3>2. ~linkBusy
      BY <2>0, <2>3, <3>1 DEF OwnInv, OwnFits, Link!Current
    <3>3. \A d \in linkCalls : d.op = "disconnect" /\ d.gen = linkGen => FALSE
      BY <3>1, <3>2 DEF LinkInv, LinkOpen, LinkFits, Turns
    <3>4. ~overlapped' => \A d \in linkCalls : d.op = "disconnect" => d.state # "runs"
      BY <2>0, <3>1, <3>3 DEF OwnInv, OwnFits
    <3> QED
      BY <2>0, <3>1, <3>4, OwnTurns
  <2> QED
    BY <2>1, <2>2, <2>3
<1>4. CASE Link!SaveResult(c) \/ Link!TestResult(c)
  <2>1. linkCalls' \subseteq linkCalls
        /\ UNCHANGED <<linkConnected, linkBusy, linkGen, linkClosed, linkOwner, linkSession,
             taken, overlapped>>
    BY <1>4 DEF Link!SaveResult, Link!TestResult, Link!history
  <2> QED
    BY <2>1, OwnDrops
<1>5. CASE Link!TestTrust(c)
  <2>0. c.op = "test"
        /\ UNCHANGED <<linkConnected, linkBusy, linkGen, linkClosed, linkOwner, linkSession,
             taken, overlapped>>
    BY <1>5 DEF Link!TestTrust, Link!history
  <2>1. CASE linkTesting = c.id
    <3>1. (~linkClosed => overlapped') /\ (overlapped => overlapped')
      BY <2>0 DEF OwnInv, OwnFits, TestOps
    <3>2. Link!Go("trusted test", 0, linkCalls \ {c})
      BY <1>5, <2>1 DEF Link!TestTrust
    <3>3. "trusted test" \in Asides \cup TestOps \cup {"trusted"}
          /\ linkCalls \ {c} \in SUBSET linkCalls /\ "trusted test" # "probe"
      BY DEF TestOps
    <3>4. UNCHANGED <<linkConnected, linkBusy, linkGen, linkClosed, linkOwner, linkSession, taken>>
      BY <2>0
    <3> QED
      BY <3>1, <3>2, <3>3, <3>4, OwnAsides
  <2>2. CASE linkTesting # c.id
    BY <1>5, <2>0, <2>2, OwnDrops DEF Link!TestTrust
  <2> QED
    BY <2>1, <2>2
<1> QED
  BY <1>1, <1>2, <1>3, <1>4, <1>5 DEF Link!Result

\* The answer about the host's key goes on with the attempt or ends it.
LEMMA OwnTrustAnswer ==
    ASSUME NEW c \in linkCalls, LinkInv, OwnInv, Link!TrustAnswer(c)
    PROVE  OwnInv'
<1>0. c.op = "asks"
      /\ UNCHANGED <<linkGen, linkClosed, linkOwner, linkSession, taken, overlapped>>
  BY DEF Link!TrustAnswer, Link!history
<1>1. CASE Link!Go("trusted", c.gen, linkCalls \ {c}) /\ UNCHANGED <<linkConnected, linkBusy>>
  <2>1. linkCalls \ {c} \in SUBSET linkCalls /\ (overlapped => overlapped')
        /\ "trusted" \notin TestOps
    BY <1>0 DEF TestOps
  <2> QED
    BY <1>0, <1>1, <2>1, OwnAsides
<1>2. CASE linkCalls' = linkCalls \ {c} /\ linkBusy' = FALSE /\ linkConnected' = FALSE
  <2>1. CASE linkClosed
    BY <1>0, <2>1 DEF OwnInv
  <2>2. CASE ~linkClosed
    <3>1. c.gen = linkGen
      BY <1>0, <2>2 DEF LinkInv, LinkOpen, LinkFits
    <3> QED
      BY <1>0, <1>2, <2>2, <3>1, OwnSettles DEF Turns, Attempts
  <2> QED
    BY <2>1, <2>2
<1> QED
  BY <1>1, <1>2 DEF Link!TrustAnswer

\* What the user does
LEMMA OwnUser ==
    ASSUME LinkInv, OwnInv, Link!User
    PROVE  OwnInv'
<1>0. ASSUME ~linkClosed, ~linkBusy, ~overlapped
      PROVE  \A d \in linkCalls : d.op = "disconnect" => d.state # "runs"
  BY <1>0 DEF LinkInv, LinkOpen, LinkFits, OwnInv, OwnFits, Turns
<1>1. CASE Link!ConnectNow
  <2>1. ~linkClosed /\ ~linkBusy /\ linkBusy' /\ linkGen' = linkGen + 1
        /\ Link!Go("connect", linkGen + 1, linkCalls)
        /\ UNCHANGED <<linkClosed, linkSession, taken, overlapped>>
    BY <1>1 DEF Link!ConnectNow, Link!Click, Link!Transition, Link!history
  <2> QED
    BY <1>0, <2>1, OwnTurns
<1>2. CASE Link!CancelNow
  <2>1. ~linkClosed /\ ~linkConnected /\ linkConnected' = FALSE /\ linkGen' = linkGen + 1
        /\ UNCHANGED <<linkCalls, linkClosed, linkSession, taken, overlapped>>
    BY <1>2 DEF Link!CancelNow, Link!Click, Link!Transition, Link!history
  <2>2. ~overlapped => \A d \in linkCalls : d.op = "disconnect" => d.state # "runs"
    BY <2>1 DEF OwnInv, OwnFits
  <2> QED
    BY <2>1, <2>2, OwnTurns
<1>3. CASE Link!DisconnectNow
  <2>1. linkBusy' /\ linkGen' = linkGen + 1 /\ Link!Go("disconnect", linkGen + 1, linkCalls)
        /\ UNCHANGED <<linkConnected, linkClosed, linkSession, taken>>
    BY <1>3 DEF Link!DisconnectNow, Link!Leaves, Link!Transition
  <2>2. overlapped' = (overlapped \/ linkBusy \/ ~linkConnected)
    BY <1>3 DEF Link!DisconnectNow
  <2>3. CASE linkClosed
    BY <2>1, <2>3 DEF OwnInv
  <2>4. CASE ~linkClosed
    <3>1. ~overlapped' => ~overlapped /\ ~linkBusy /\ linkConnected
      BY <2>2
    <3>2. overlapped => overlapped'
      BY <2>2
    <3> QED
      BY <1>0, <2>1, <2>4, <3>1, <3>2, OwnTurns
  <2> QED
    BY <2>3, <2>4
<1>4. CASE Link!AskLeave \/ Link!StayConnected \/ Link!Close \/ Link!OpenSites \/ Link!LeaveSites
  <2>1. UNCHANGED <<linkConnected, linkBusy, linkGen, linkOwner, linkSession, taken, overlapped,
          linkCalls>>
    BY <1>4 DEF Link!AskLeave, Link!StayConnected, Link!Close, Link!OpenSites, Link!LeaveSites,
       Link!history
  <2>2. linkClosed' = linkClosed \/ linkClosed' = TRUE
    BY <1>4 DEF Link!AskLeave, Link!StayConnected, Link!Close, Link!CloseNow, Link!OpenSites,
       Link!LeaveSites
  <2> QED
    BY <2>1, <2>2 DEF OwnInv, Owned, OwnFits, Holds
<1>5. CASE Link!CheckConnection
  BY <1>5, OwnAsides DEF Link!CheckConnection, Link!history, Asides, TestOps
<1>6. CASE Link!SaveNow
  BY <1>6, OwnAsides DEF Link!SaveNow, Link!history, Asides, TestOps
<1>7. CASE Link!Test
  BY <1>7, OwnAsides DEF Link!Test, TestOps
<1> QED
  BY <1>1, <1>2, <1>3, <1>4, <1>5, <1>6, <1>7 DEF Link!User

\* Every step keeps the invariant of the session.
LEMMA OwnSteps ==
    ASSUME LinkInv, OwnInv, [Link!Next]_(Link!vars)
    PROVE  OwnInv'
<1>1. CASE UNCHANGED Link!vars
  BY <1>1 DEF Link!vars, Link!ui, Link!history, OwnInv, Owned, OwnFits, Holds
<1>2. CASE Link!Work
  BY <1>2, OwnEngine, OwnResult DEF Link!Work
<1> QED
  BY <1>1, <1>2, OwnUser, OwnTrustAnswer DEF Link!Next

\* The invariant says whose session a window shows (connection_profiles_windows.go).
LEMMA OwnImplies ==
    ASSUME OwnInv
    PROVE  Link!ConnectedHasSession
  BY DEF OwnInv, Owned, Holds, Link!ConnectedHasSession

(***************************************************************************)
(* The panes: changes and listings                                         *)
(***************************************************************************)

\* The two panes.
PaneSides == Panes!Sides
\* A listing of a directory, under way or answered.
NavSet == [op : {"nav"}, side : PaneSides, dir : Dirs, seq : Nat, gen : Nat, state : {"runs",
  "ok", "failed"}, ver : Nat]
\* A change of a file, under way, answered, or about to be finished.
ChangeSet == [op : {"mkdir", "rename", "delete", "chmod"}, side : PaneSides, dir : Dirs, from : Dirs,
  leaving : BOOLEAN, asked : Nat, seq : Nat, gen : Nat, linked : BOOLEAN,
  state : {"runs", "ok", "lost", "failed", "finish"}]
\* What the user is asked before a change.
Questions == [op : {"mkdir", "rename", "delete", "chmod"}, side : PaneSides, from : Dirs, gen : Nat,
  leaving : BOOLEAN]

\* The types of the panes and what is under way.
PanesTypes ==
    /\ panesCur \in [PaneSides -> Dirs] /\ list \in [PaneSides -> Nat]
         /\ panesSeq \in [PaneSides -> Nat]
    /\ mutating \in [PaneSides -> BOOLEAN] /\ panesGen \in Nat
         /\ ver \in [PaneSides -> [Dirs -> Nat]]
    /\ failed \in [PaneSides -> BOOLEAN]
    /\ panesDialog \in Questions \cup {Panes!None}
    /\ panesCalls \subseteq NavSet \cup ChangeSet
    /\ \A c \in panesCalls : c.seq <= panesSeq[c.side]

\* The user asks about the local pane.
AsksLocal == panesDialog # Panes!None /\ panesDialog.side = "local"
\* The connection is up and not about to change.
PanesReady == panesConnected /\ ~panesBusy
\* A change of a file in pane s.
IsChange(c, s) == c.op # "nav" /\ c.side = s

\* What holds of changes: each where and on the connection it was asked on, one at a time
\* in a pane, and the pane knows of it.
PanesChanges ==
    /\ Panes!BeginsOnItsLink
    /\ \A c, d \in panesCalls : c.op # "nav" /\ d.op # "nav" /\ c.side = d.side => c = d
    /\ AsksLocal => \A c \in panesCalls : ~IsChange(c, "local")
    /\ panesDialog # Panes!None /\ panesDialog.side = "remote" /\ PanesReady
         => panesDialog.gen = panesGen
    /\ \A s \in PaneSides : mutating[s] <=> (\E c \in panesCalls : IsChange(c, s))
         \/ (AsksLocal /\ s = "local")

\* A change that was made and not handled yet
Made == {"ok", "lost"}
\* The listing under way that the pane waits for
Awaited(c, s) == c.op = "nav" /\ c.side = s /\ c.seq = panesSeq[s]
\* The pane shows its directory, or something under way will make it.
Shows(s) ==
    \/ \E c \in panesCalls : IsChange(c, s) /\ c.state \in Made
    \/ /\ \A c \in panesCalls : Awaited(c, s) /\ c.state = "ok" => c.ver = ver[s][c.dir]
       /\ \/ \E c \in panesCalls : Awaited(c, s)
          \/ failed[s]
          \/ list[s] = ver[s][panesCur[s]]

\* What holds of listings: a pane shows its directory unless something is on its way.
PanesFresh ==
    /\ Panes!OfflineIsEmpty
    /\ \A c, d \in panesCalls : c.op = "nav" /\ d.op = "nav" /\ c.side = d.side /\ c.seq = d.seq
         => c = d
    /\ \A c \in panesCalls : Awaited(c, "remote") /\ PanesReady => c.gen = panesGen
    /\ ~unseen => Shows("local")
    /\ ~unseen /\ ~missed /\ PanesReady => Shows("remote")

\* The inductive invariant of the panes.
PanesInv == PanesTypes /\ PanesChanges /\ PanesFresh

\* The local pane shows its directory at the start, the remote one nothing.
LEMMA PanesStarts ==
    ASSUME Panes!Init
    PROVE  PanesInv
<1>1. StartDir \in Dirs
  BY WindowsAssumption DEF WindowsAssumption, Panes!PanesAssumption
<1>2. PanesTypes
  BY <1>1 DEF Panes!Init, PanesTypes, PaneSides
<1>3. PanesChanges
  BY DEF Panes!Init, PanesChanges, Panes!BeginsOnItsLink, AsksLocal,
     PaneSides
<1>4. PanesFresh
  BY <1>1 DEF Panes!Init, PanesFresh, Panes!OfflineIsEmpty, Shows, PanesReady, Panes!Sides
<1> QED
  BY <1>2, <1>3, <1>4 DEF PanesInv

\* The two of them.
LEMMA PanesSides ==
    PaneSides = {"local", "remote"}
  BY DEF PaneSides, Panes!Sides

\* The changes under way are as before.
LEMMA ChangesSame ==
    ASSUME PanesChanges, \A c : c \in panesCalls' /\ c.op # "nav" <=> c \in panesCalls
           /\ c.op # "nav",
           UNCHANGED <<panesDialog, mutating>>, PanesReady' => PanesReady /\ panesGen' = panesGen
    PROVE  PanesChanges'
<1>1. AsksLocal' <=> AsksLocal
  BY DEF AsksLocal
<1>2. \A s \in PaneSides : (\E c \in panesCalls' : IsChange(c,
        s)) <=> (\E c \in panesCalls : IsChange(c, s))
  BY DEF IsChange
<1>3. Panes!BeginsOnItsLink'
  BY DEF PanesChanges, Panes!BeginsOnItsLink
<1>4. \A c, d \in panesCalls' : c.op # "nav" /\ d.op # "nav" /\ c.side = d.side => c = d
  BY DEF PanesChanges
<1>5. AsksLocal' => \A c \in panesCalls' : ~IsChange(c, "local")
  BY <1>1 DEF PanesChanges, IsChange
<1> QED
  BY <1>1, <1>2, <1>3, <1>4, <1>5 DEF PanesChanges

\* One change goes on.
LEMMA ChangesMove ==
    ASSUME PanesChanges, NEW c \in panesCalls, NEW k, c.op # "nav", k.op = c.op, k.side = c.side,
           k.dir = c.dir,
           k.from = c.from, k.asked = c.asked, k.gen = c.gen, k.linked = c.linked,
           \A d : d \in panesCalls' /\ d.op # "nav" <=> d.op # "nav"
             /\ (d = k \/ d \in panesCalls \ {c}),
           UNCHANGED <<panesDialog, mutating, panesConnected, panesBusy, panesGen>>
    PROVE  PanesChanges'
<1>1. (AsksLocal' <=> AsksLocal) /\ (PanesReady' <=> PanesReady)
  BY DEF AsksLocal, PanesReady
<1>2. \A s \in PaneSides : (\E d \in panesCalls' : IsChange(d,
        s)) <=> (\E d \in panesCalls : IsChange(d, s))
  BY DEF IsChange
<1>3. Panes!BeginsOnItsLink'
  BY DEF PanesChanges, Panes!BeginsOnItsLink
<1>4. \A d, e \in panesCalls' : d.op # "nav" /\ e.op # "nav" /\ d.side = e.side => d = e
  BY DEF PanesChanges
<1>5. AsksLocal' => \A d \in panesCalls' : ~IsChange(d, "local")
  BY <1>1 DEF PanesChanges, IsChange
<1> QED
  BY <1>1, <1>2, <1>3, <1>4, <1>5 DEF PanesChanges

\* A side about which nothing changed
LEMMA ShowsSame ==
    ASSUME NEW s \in PaneSides, Shows(s), \A c : c \in panesCalls'
           /\ c.side = s <=> c \in panesCalls /\ c.side = s,
           panesSeq'[s] = panesSeq[s], ver'[s] = ver[s], failed'[s] = failed[s],
             list'[s] = list[s], panesCur'[s] = panesCur[s]
    PROVE  Shows(s)'
  BY DEF Shows, Awaited, IsChange

\* A pane that is listed again
LEMMA ShowsSoon ==
    ASSUME NEW s \in PaneSides, NEW k \in panesCalls', k.op = "nav", k.side = s,
           k.seq = panesSeq'[s], k.state = "runs",
           \A c \in panesCalls' : c = k \/ ~(c.op = "nav" /\ c.side = s /\ c.seq = panesSeq'[s])
    PROVE  Shows(s)'
  BY DEF Shows, Awaited

\* The pane is listed again on connection g, with what there was in rest.
Relisted(s, rest, g) ==
    /\ panesSeq' \in [PaneSides -> Nat] /\ panesSeq'[s] = panesSeq[s] + 1
    /\ \A t \in PaneSides : t # s => panesSeq'[t] = panesSeq[t]
    /\ panesCalls' \subseteq NavSet \cup ChangeSet
         /\ \A c \in panesCalls' : c.seq <= panesSeq'[c.side]
    /\ \A c \in rest : ~Awaited(c, s)'
    /\ Shows(s)'
    /\ \E k \in NavSet : panesCalls' = rest \cup {k} /\ k.side = s /\ k.gen = g /\ k.op = "nav"
         /\ k.seq = panesSeq[s] + 1

\* A refresh lists the pane again.
LEMMA ListsAgain ==
    ASSUME PanesTypes, NEW s \in PaneSides, NEW d \in Dirs, NEW g \in Nat,
           NEW rest, \A c \in rest : c \in NavSet \cup ChangeSet /\ c.seq <= panesSeq[c.side],
           Panes!Refresh(s, d, rest, g)
    PROVE  Relisted(s, rest, g)
<1>1. PICK k : k = [op |-> "nav", side |-> s, dir |-> d, seq |-> panesSeq[s] + 1, gen |-> g,
        state |-> "runs", ver |-> 0]
  OBVIOUS
<1>2. panesSeq' = [panesSeq EXCEPT ![s] = @ + 1] /\ panesCalls' = rest \cup {k}
  BY <1>1 DEF Panes!Refresh, Panes!Nav
<1>3. panesSeq \in [PaneSides -> Nat]
  BY DEF PanesTypes
<1>4. panesSeq[s] \in Nat /\ panesSeq[s] + 1 \in Nat
  BY <1>3
<1>5. panesSeq' \in [PaneSides -> Nat] /\ panesSeq'[s] = panesSeq[s] + 1
      /\ \A t \in PaneSides : t # s => panesSeq'[t] = panesSeq[t]
  BY <1>2, <1>3, <1>4
<1>6. k \in NavSet /\ k.side = s /\ k.seq = panesSeq'[s] /\ k.gen = g /\ k.op = "nav"
        /\ k.state = "runs" /\ k.seq = panesSeq[s] + 1
  BY <1>1, <1>4, <1>5 DEF NavSet
<1>7. \A c \in rest : c.side \in PaneSides /\ c.seq \in Nat /\ c.seq <= panesSeq[c.side]
  BY DEF NavSet, ChangeSet
<1>8. \A c \in rest : c.seq <= panesSeq'[c.side] /\ (c.side = s => c.seq # panesSeq'[s])
  <2> SUFFICES ASSUME NEW c \in rest
               PROVE  c.seq <= panesSeq'[c.side] /\ (c.side = s => c.seq # panesSeq'[s])
    OBVIOUS
  <2>1. CASE c.side = s
    BY <1>4, <1>5, <1>7, <2>1
  <2>2. CASE c.side # s
    BY <1>5, <1>7, <2>2
  <2> QED
    BY <2>1, <2>2
<1>9. \A c \in panesCalls' : c.seq <= panesSeq'[c.side]
  BY <1>2, <1>4, <1>5, <1>6, <1>8
<1>10. \A c \in rest : ~Awaited(c, s)'
  BY <1>8 DEF Awaited
<1>11. Shows(s)'
  BY <1>2, <1>6, <1>8, ShowsSoon
<1> QED
  BY <1>2, <1>5, <1>6, <1>9, <1>10, <1>11 DEF Relisted

\* Navigations stay apart when one begins.
LEMMA NavsApart ==
    ASSUME PanesTypes, PanesFresh, NEW s \in PaneSides, NEW rest, NEW k \in NavSet,
           panesCalls' = rest \cup {k},
           \A c \in rest : c.op = "nav" => c \in panesCalls, k.side = s, k.seq = panesSeq[s] + 1
    PROVE  \A c, d \in panesCalls' : c.op = "nav" /\ d.op = "nav" /\ c.side = d.side
           /\ c.seq = d.seq => c = d
<1>1. \A c \in rest : c.op = "nav" /\ c.side = s => c.seq # k.seq
  <2> SUFFICES ASSUME NEW c \in rest, c.op = "nav", c.side = s PROVE c.seq # k.seq
    OBVIOUS
  <2>1. c \in panesCalls /\ c.seq <= panesSeq[s] /\ panesSeq[s] \in Nat
    BY DEF PanesTypes
  <2>2. c.seq \in Nat
    BY <2>1 DEF PanesTypes, NavSet, ChangeSet
  <2> QED
    BY <2>1, <2>2
<1> QED
  BY <1>1 DEF PanesFresh

\* The user goes to another directory.
LEMMA PanesNavigate ==
    ASSUME PanesInv, NEW s \in PaneSides, NEW d \in Dirs, Panes!Navigate(s, d)
    PROVE  PanesInv'
<1>1. Panes!Refresh(s, d, panesCalls, panesGen) /\ (s = "remote" => PanesReady)
        /\ missed' = (missed /\ s = "local")
      /\ UNCHANGED <<panesCur, list, failed, panesConnected, panesBusy, panesGen, mutating,
           panesDialog, ver, unseen>>
  BY DEF Panes!Navigate, Panes!Refresh, Panes!link, Panes!RemoteReady, PanesReady
<1>2. \A c \in panesCalls : c \in NavSet \cup ChangeSet /\ c.seq <= panesSeq[c.side]
  BY DEF PanesInv, PanesTypes
<1>3. PanesTypes /\ PanesChanges /\ PanesFresh /\ panesGen \in Nat
  BY DEF PanesInv, PanesTypes
<1>4. Relisted(s, panesCalls, panesGen)
  BY <1>1, <1>2, <1>3, ListsAgain
<1>5. PICK k \in NavSet : panesCalls' = panesCalls \cup {k} /\ k.side = s /\ k.gen = panesGen
        /\ k.op = "nav"
                          /\ k.seq = panesSeq[s] + 1
  BY <1>4 DEF Relisted
<1>6. PanesTypes'
  BY <1>1, <1>3, <1>4 DEF PanesTypes, Relisted
<1>7. PanesChanges'
  BY <1>1, <1>3, <1>5, ChangesSame DEF PanesReady
<1>8. \A c, e \in panesCalls' : c.op = "nav" /\ e.op = "nav" /\ c.side = e.side /\ c.seq = e.seq
        => c = e
  BY <1>3, <1>5, NavsApart
<1>9. \A t \in PaneSides : t # s /\ Shows(t) => Shows(t)'
  BY <1>1, <1>4, <1>5, ShowsSame DEF Relisted
<1>10. \A c \in panesCalls' : Awaited(c, "remote")' /\ PanesReady' => c.gen = panesGen'
  BY <1>1, <1>3, <1>4, <1>5, PanesSides DEF PanesFresh, Awaited, PanesReady, Relisted
<1>11. PanesFresh'
  BY <1>1, <1>3, <1>4, <1>8, <1>9, <1>10, PanesSides DEF PanesFresh, Panes!OfflineIsEmpty,
     PanesReady, Relisted
<1> QED
  BY <1>6, <1>7, <1>11 DEF PanesInv

\* The engine lists a directory as it is at that moment.
LEMMA PanesListed ==
    ASSUME PanesInv, NEW c \in panesCalls, Panes!Listed(c)
    PROVE  PanesInv'
<1>1. PICK r \in {"ok", "failed"} :
          panesCalls' = (panesCalls \ {c}) \cup {[c EXCEPT !.state = r,
            !.ver = ver[c.side][c.dir]]}
  BY DEF Panes!Listed
<1>2. PICK k : k = [c EXCEPT !.state = r, !.ver = ver[c.side][c.dir]]
  OBVIOUS
<1>3. c.op = "nav" /\ c \in NavSet /\ ver[c.side][c.dir] \in Nat /\ c.seq <= panesSeq[c.side]
  <2>1. c.op = "nav" /\ c \in NavSet
    BY DEF Panes!Listed, PanesInv, PanesTypes, ChangeSet
  <2> QED
    BY <2>1 DEF PanesInv, PanesTypes, NavSet
<1>4. k \in NavSet /\ k.op = "nav" /\ k.side = c.side /\ k.dir = c.dir /\ k.seq = c.seq
        /\ k.gen = c.gen
      /\ k.ver = ver[c.side][c.dir]
  BY <1>2, <1>3 DEF NavSet
<1>5. panesCalls' = (panesCalls \ {c}) \cup {k}
  BY <1>1, <1>2
<1>6. UNCHANGED <<panesCur, list, panesSeq, failed, missed, panesConnected, panesBusy, panesGen,
        mutating, panesDialog, ver, unseen>>
  BY DEF Panes!Listed, Panes!panes, Panes!link
<1>7. PanesTypes'
  BY <1>3, <1>4, <1>5, <1>6 DEF PanesInv, PanesTypes
<1>8. PanesChanges'
  BY <1>3, <1>4, <1>5, <1>6, ChangesSame DEF PanesInv, PanesReady
<1>9. \A d, e \in panesCalls' : d.op = "nav" /\ e.op = "nav" /\ d.side = e.side /\ d.seq = e.seq
        => d = e
  <2>1. \A d \in panesCalls \ {c} : ~(d.op = "nav" /\ d.side = c.side /\ d.seq = c.seq)
    BY <1>3 DEF PanesInv, PanesFresh
  <2> QED
    BY <1>4, <1>5, <2>1 DEF PanesInv, PanesFresh
<1>10. \A s \in PaneSides : Shows(s) => Shows(s)'
  <2> SUFFICES ASSUME NEW s \in PaneSides, Shows(s) PROVE Shows(s)'
    OBVIOUS
  <2>1. CASE \E d \in panesCalls : IsChange(d, s) /\ d.state \in Made
    BY <1>3, <1>5, <2>1 DEF Shows, IsChange
  <2>2. CASE /\ \A d \in panesCalls : Awaited(d, s) /\ d.state = "ok" => d.ver = ver[s][d.dir]
             /\ \/ \E d \in panesCalls : Awaited(d, s)
                \/ failed[s]
                \/ list[s] = ver[s][panesCur[s]]
    <3>1. \A d \in panesCalls' : Awaited(d, s)' /\ d.state = "ok" => d.ver = ver'[s][d.dir]
      BY <1>4, <1>5, <1>6, <2>2 DEF Awaited
    <3>2. (\E d \in panesCalls : Awaited(d, s)) => \E d \in panesCalls' : Awaited(d, s)'
      BY <1>3, <1>4, <1>5, <1>6 DEF Awaited
    <3> QED
      BY <1>6, <2>2, <3>1, <3>2 DEF Shows
  <2> QED
    BY <2>1, <2>2 DEF Shows
<1>11. \A d \in panesCalls' : Awaited(d, "remote")' /\ PanesReady' => d.gen = panesGen'
  BY <1>3, <1>4, <1>5, <1>6 DEF PanesInv, PanesFresh, Awaited, PanesReady
<1>12. PanesFresh'
  BY <1>6, <1>9, <1>10, <1>11, PanesSides DEF PanesInv, PanesFresh, Panes!OfflineIsEmpty,
     PanesReady
<1> QED
  BY <1>7, <1>8, <1>12 DEF PanesInv

\* The listing that is awaited is shown; every other is dropped.
LEMMA PanesListResult ==
    ASSUME PanesInv, NEW c \in panesCalls, Panes!ListResult(c)
    PROVE  PanesInv'
<1>1. c.op = "nav" /\ c.state # "runs" /\ panesCalls' = panesCalls \ {c}
      /\ UNCHANGED <<panesSeq, missed, panesConnected, panesBusy, panesGen, mutating,
           panesDialog, ver, unseen>>
  BY DEF Panes!ListResult, Panes!link
<1>2. c \in NavSet /\ c.side \in PaneSides /\ c.dir \in Dirs /\ c.ver \in Nat
        /\ c.state \in {"ok", "failed"}
  BY <1>1 DEF PanesInv, PanesTypes, NavSet, ChangeSet
<1>3. PanesChanges'
  BY <1>1, ChangesSame DEF PanesInv, PanesReady
<1>4. \A d, e \in panesCalls' : d.op = "nav" /\ e.op = "nav" /\ d.side = e.side /\ d.seq = e.seq
        => d = e
  BY <1>1 DEF PanesInv, PanesFresh
<1>5. \A d \in panesCalls' : Awaited(d, "remote")' /\ PanesReady' => d.gen = panesGen'
  BY <1>1 DEF PanesInv, PanesFresh, Awaited, PanesReady
<1>6. CASE ~Panes!Wanted(c)
  <2>1. UNCHANGED <<panesCur, list, failed>>
    BY <1>6 DEF Panes!ListResult
  <2>2. PanesTypes'
    BY <1>1, <2>1 DEF PanesInv, PanesTypes
  <2>3. \A s \in PaneSides : ~Awaited(c, s) /\ Shows(s) => Shows(s)'
    <3> SUFFICES ASSUME NEW s \in PaneSides, ~Awaited(c, s), Shows(s) PROVE Shows(s)'
      OBVIOUS
    <3>1. CASE \E d \in panesCalls : IsChange(d, s) /\ d.state \in Made
      BY <1>1, <3>1 DEF Shows, IsChange
    <3>2. CASE ~\E d \in panesCalls : IsChange(d, s) /\ d.state \in Made
      BY <1>1, <2>1, <3>2 DEF Shows, Awaited
    <3> QED
      BY <3>1, <3>2
  <2>4. ~Awaited(c, "local")
    BY <1>6 DEF Awaited, Panes!Wanted
  <2>5. PanesReady => ~Awaited(c, "remote")
    BY <1>6 DEF Awaited, Panes!Wanted, PanesInv, PanesFresh, PanesReady
  <2>6. PanesFresh'
    BY <1>1, <1>4, <1>5, <2>1, <2>3, <2>4, <2>5, PanesSides DEF PanesInv, PanesFresh,
       Panes!OfflineIsEmpty, PanesReady
  <2> QED
    BY <1>3, <2>2, <2>6 DEF PanesInv
<1>7. CASE Panes!Wanted(c)
  <2> DEFINE s == c.side
  <2>1. Awaited(c, s) /\ (s = "remote" => panesConnected)
    BY <1>1, <1>7 DEF Awaited, Panes!Wanted
  <2>2. /\ failed' = [failed EXCEPT ![s] = (c.state = "failed")]
        /\ IF c.state = "ok"
           THEN panesCur' = [panesCur EXCEPT ![s] = c.dir] /\ list' = [list EXCEPT ![s] = c.ver]
           ELSE UNCHANGED <<panesCur, list>>
    BY <1>7 DEF Panes!ListResult
  <2>3. PanesTypes'
    BY <1>1, <1>2, <2>2 DEF PanesInv, PanesTypes
  <2>4. \A d \in panesCalls' : ~Awaited(d, s)
    BY <1>1, <2>1 DEF PanesInv, PanesFresh, Awaited
  <2>5. Shows(s) => Shows(s)'
    <3>1. CASE \E d \in panesCalls : IsChange(d, s) /\ d.state \in Made
      BY <1>1, <3>1 DEF Shows, IsChange
    <3>2. CASE Shows(s) /\ ~\E d \in panesCalls : IsChange(d, s) /\ d.state \in Made
      <4>1. c.state = "ok" => c.ver = ver[s][c.dir]
        BY <2>1, <3>2 DEF Shows
      <4>2. c.state = "ok" => list'[s] = ver'[s][panesCur'[s]]
        BY <1>1, <1>2, <2>2, <4>1 DEF PanesInv, PanesTypes
      <4>3. c.state = "failed" => failed'[s]
        BY <1>2, <2>2 DEF PanesInv, PanesTypes
      <4>4. \A d \in panesCalls' : ~Awaited(d, s)'
        BY <1>1, <2>4 DEF Awaited
      <4> QED
        BY <1>2, <4>2, <4>3, <4>4 DEF Shows
    <3> QED
      BY <3>1, <3>2
  <2>6. \A t \in PaneSides : t # s /\ Shows(t) => Shows(t)'
    <3> SUFFICES ASSUME NEW t \in PaneSides, t # s, Shows(t) PROVE Shows(t)'
      OBVIOUS
    <3>1. failed'[t] = failed[t] /\ list'[t] = list[t] /\ panesCur'[t] = panesCur[t]
      BY <1>2, <2>2 DEF PanesInv, PanesTypes
    <3>2. \A d : d \in panesCalls' /\ d.side = t <=> d \in panesCalls /\ d.side = t
      BY <1>1
    <3> QED
      BY <1>1, <3>1, <3>2, ShowsSame
  <2>7. ~panesConnected => list'["remote"] = list["remote"]
    BY <1>2, <2>1, <2>2, PanesSides DEF PanesInv, PanesTypes
  <2>8. PanesFresh'
    BY <1>1, <1>2, <1>4, <1>5, <2>5, <2>6, <2>7, PanesSides DEF PanesInv, PanesFresh,
       Panes!OfflineIsEmpty, PanesReady
  <2> QED
    BY <1>3, <2>3, <2>8 DEF PanesInv
<1> QED
  BY <1>6, <1>7

\* What the user is asked, and a transfer that ends, leave the listings alone.
LEMMA FreshSame ==
    ASSUME PanesFresh, PanesTypes, UNCHANGED <<panesCur, list, panesSeq, failed, missed,
           panesConnected, panesBusy, panesGen, panesCalls>>,
           unseen' \/ (unseen' = unseen /\ ver' = ver)
    PROVE  PanesFresh'
<1>1. ver' = ver => \A s \in PaneSides : Shows(s) => Shows(s)'
  BY DEF Shows, Awaited, IsChange
<1> QED
  BY <1>1, PanesSides DEF PanesFresh, Panes!OfflineIsEmpty, PanesReady, Awaited

\* The user asks for a change and is asked back.
LEMMA PanesAsk ==
    ASSUME PanesInv, NEW s \in PaneSides, NEW op \in {"mkdir", "rename", "delete", "chmod"},
           Panes!Ask(s, op)
    PROVE  PanesInv'
<1>1. /\ panesDialog = Panes!None /\ ~mutating[s] /\ (s = "remote" => PanesReady)
      /\ panesDialog' = [op |-> op, side |-> s, from |-> panesCur[s], gen |-> panesGen,
           leaving |-> Panes!Leaving(s)]
      /\ mutating' = [mutating EXCEPT ![s] = (s = "local")]
      /\ UNCHANGED <<panesCur, list, panesSeq, failed, missed, panesConnected, panesBusy,
           panesGen, panesCalls, ver, unseen>>
  BY DEF Panes!Ask, Panes!panes, Panes!link, Panes!RemoteReady, PanesReady
<1>2. PanesTypes /\ PanesChanges /\ PanesFresh
  BY DEF PanesInv
<1>3. panesDialog' \in Questions /\ panesDialog' # Panes!None /\ panesDialog'.side = s
        /\ panesDialog'.gen = panesGen
  <2>1. Panes!Leaving(s) \in BOOLEAN /\ panesCur[s] \in Dirs /\ panesGen \in Nat
    BY <1>2 DEF Panes!Leaving, PanesTypes
  <2> HIDE DEF Panes!Leaving
  <2>2. panesDialog' \in Questions
    BY <1>1, <2>1 DEF Questions
  <2>3. panesDialog'.op = op /\ panesDialog'.side = s /\ panesDialog'.gen = panesGen
    BY <1>1
  <2>4. op # "none"
    OBVIOUS
  <2>5. panesDialog' # Panes!None
    BY <2>3, <2>4 DEF Panes!None
  <2> QED
    BY <2>2, <2>3, <2>5
<1>4. PanesTypes'
  BY <1>1, <1>2, <1>3 DEF PanesTypes
<1>5. PanesFresh'
  BY <1>1, <1>2, FreshSame
<1>6. \A c \in panesCalls : ~IsChange(c, s)
  BY <1>1, <1>2 DEF PanesChanges
<1>7. ~AsksLocal /\ (AsksLocal' <=> s = "local")
  BY <1>1, <1>3 DEF AsksLocal
<1>8. mutating'[s] = (s = "local") /\ \A t \in PaneSides : t # s => mutating'[t] = mutating[t]
  BY <1>1, <1>2 DEF PanesTypes
<1>9. \A t \in PaneSides : mutating'[t] <=> (\E c \in panesCalls' : IsChange(c, t))
        \/ (AsksLocal' /\ t = "local")
  <2> SUFFICES ASSUME NEW t \in PaneSides
               PROVE  mutating'[t] <=> (\E c \in panesCalls' : IsChange(c, t))
                      \/ (AsksLocal' /\ t = "local")
    OBVIOUS
  <2>1. CASE t = s
    BY <1>1, <1>6, <1>7, <1>8, <2>1
  <2>2. CASE t # s
    <3>1. mutating'[t] <=> (\E c \in panesCalls : IsChange(c, t))
      BY <1>2, <1>7, <1>8, <2>2 DEF PanesChanges
    <3> QED
      BY <1>1, <1>7, <2>2, <3>1
  <2> QED
    BY <2>1, <2>2
<1>10. PanesChanges'
  BY <1>1, <1>2, <1>3, <1>6, <1>7, <1>9 DEF PanesChanges, Panes!BeginsOnItsLink
<1> QED
  BY <1>4, <1>5, <1>10 DEF PanesInv

\* The user thinks better of it.
LEMMA PanesDeclined ==
    ASSUME PanesInv, Panes!Declined
    PROVE  PanesInv'
<1>1. /\ panesDialog # Panes!None /\ panesDialog' = Panes!None
      /\ mutating' = [mutating EXCEPT ![panesDialog.side] = @ /\ panesDialog.side = "remote"]
      /\ UNCHANGED <<panesCur, list, panesSeq, failed, missed, panesConnected, panesBusy,
           panesGen, panesCalls, ver, unseen>>
  BY DEF Panes!Declined, Panes!panes, Panes!link
<1>2. PanesTypes /\ PanesChanges /\ PanesFresh
  BY DEF PanesInv
<1>3. panesDialog \in Questions /\ panesDialog.side \in PaneSides
  BY <1>1, <1>2 DEF PanesTypes, Questions
<1>4. PanesTypes'
  BY <1>1, <1>2, <1>3 DEF PanesTypes
<1>5. PanesFresh'
  BY <1>1, <1>2, FreshSame
<1>6. ~AsksLocal' /\ (AsksLocal <=> panesDialog.side = "local")
  BY <1>1 DEF AsksLocal
<1>7. CASE panesDialog.side = "remote"
  <2>1. mutating' = mutating
    BY <1>1, <1>2, <1>3, <1>7 DEF PanesTypes
  <2> QED
    BY <1>1, <1>2, <1>4, <1>5, <1>6, <1>7, <2>1 DEF PanesInv, PanesChanges,
       Panes!BeginsOnItsLink
<1>8. CASE panesDialog.side = "local"
  <2>1. ~mutating'["local"] /\ mutating'["remote"] = mutating["remote"]
    BY <1>1, <1>2, <1>3, <1>8, PanesSides DEF PanesTypes
  <2>2. \A c \in panesCalls : ~IsChange(c, "local")
    BY <1>2, <1>6, <1>8 DEF PanesChanges
  <2>3. mutating["remote"] <=> \E c \in panesCalls : IsChange(c, "remote")
    BY <1>2, PanesSides DEF PanesChanges
  <2>4. \A t \in PaneSides : mutating'[t] <=> (\E c \in panesCalls' : IsChange(c, t))
          \/ (AsksLocal' /\ t = "local")
    BY <1>1, <1>6, <2>1, <2>2, <2>3, PanesSides
  <2> QED
    BY <1>1, <1>2, <1>4, <1>5, <1>6, <2>4 DEF PanesInv, PanesChanges, Panes!BeginsOnItsLink
<1> QED
  BY <1>3, <1>7, <1>8, PanesSides

\* The change begins in the directory it was asked in.
LEMMA PanesConfirmed ==
    ASSUME PanesInv, Panes!Confirmed
    PROVE  PanesInv'
<1> DEFINE s == panesDialog.side
<1>1. PICK k : k = [op |-> panesDialog.op, side |-> s,
          dir |-> Panes!Base(panesDialog), from |-> panesDialog.from,
          leaving |-> panesDialog.leaving, asked |-> panesDialog.gen, seq |-> panesSeq[s], gen |-> panesGen, linked |-> PanesReady, state |-> "runs"]
  OBVIOUS
<1>2. /\ panesDialog # Panes!None /\ panesDialog' = Panes!None /\ Panes!Begins(panesDialog)
      /\ mutating' = [mutating EXCEPT ![s] = TRUE]
      /\ panesCalls' = panesCalls \cup {k}
      /\ UNCHANGED <<panesCur, list, panesSeq, failed, missed, panesConnected, panesBusy,
           panesGen, ver, unseen>>
  BY <1>1 DEF Panes!Confirmed, Panes!panes, Panes!link, Panes!RemoteReady, PanesReady
<1>3. PanesTypes /\ PanesChanges /\ PanesFresh
  BY DEF PanesInv
<1>4. panesDialog \in Questions /\ s \in PaneSides
  BY <1>2, <1>3 DEF PanesTypes, Questions
<1>5. Panes!Base(panesDialog) \in Dirs /\ panesSeq[s] \in Nat /\ panesGen \in Nat
  BY <1>3, <1>4 DEF PanesTypes, Questions, Panes!Base
<1>6. k \in ChangeSet
  BY <1>1, <1>4, <1>5 DEF ChangeSet, Questions, PanesReady
<1>7. k.op # "nav" /\ k.side = s /\ k.state = "runs" /\ k.seq = panesSeq[s]
      /\ (s = "remote" => k.asked = k.gen /\ k.linked)
  <2>1. s = "remote" => PanesReady /\ panesDialog.gen = panesGen
    BY <1>2, <1>3 DEF Panes!Begins, Panes!RemoteReady, PanesReady, PanesChanges
  <2>2. k.op # "nav" /\ k.side = s /\ k.state = "runs" /\ k.seq = panesSeq[s]
    BY <1>1, <1>4 DEF Questions
  <2>3. s = "remote" => k.asked = k.gen /\ k.linked
    BY <1>1, <2>1
  <2> QED
    BY <2>2, <2>3
<1>8. PanesTypes'
  <2>1. \A c \in panesCalls' : c.seq <= panesSeq'[c.side]
    BY <1>2, <1>3, <1>5, <1>7 DEF PanesTypes
  <2> QED
    BY <1>2, <1>3, <1>4, <1>6, <2>1 DEF PanesTypes
<1>9. \A c \in panesCalls : ~IsChange(c, s)
  <2>1. s = "remote" => ~mutating["remote"]
    BY <1>2 DEF Panes!Begins
  <2>2. s = "local" => AsksLocal
    BY <1>2 DEF AsksLocal
  <2> QED
    BY <1>3, <1>4, <2>1, <2>2, PanesSides DEF PanesChanges
<1>10. mutating'[s] /\ \A t \in PaneSides : t # s => mutating'[t] = mutating[t]
  BY <1>2, <1>3, <1>4 DEF PanesTypes
<1>11. ~AsksLocal' /\ (AsksLocal <=> s = "local")
  BY <1>2 DEF AsksLocal
<1>12. \A t \in PaneSides : mutating'[t] <=> (\E c \in panesCalls' : IsChange(c, t))
         \/ (AsksLocal' /\ t = "local")
  <2> SUFFICES ASSUME NEW t \in PaneSides
               PROVE  mutating'[t] <=> (\E c \in panesCalls' : IsChange(c, t))
                      \/ (AsksLocal' /\ t = "local")
    OBVIOUS
  <2>1. CASE t = s
    BY <1>2, <1>7, <1>10, <2>1 DEF IsChange
  <2>2. CASE t # s
    <3>1. mutating'[t] <=> \E c \in panesCalls : IsChange(c, t)
      BY <1>3, <1>10, <1>11, <2>2 DEF PanesChanges
    <3> QED
      BY <1>2, <1>7, <1>11, <2>2, <3>1 DEF IsChange
  <2> QED
    BY <2>1, <2>2
<1>13. \A c, d \in panesCalls' : c.op # "nav" /\ d.op # "nav" /\ c.side = d.side => c = d
  BY <1>2, <1>3, <1>7, <1>9 DEF PanesChanges, IsChange
<1>14. Panes!BeginsOnItsLink'
  BY <1>2, <1>3, <1>7 DEF PanesChanges, Panes!BeginsOnItsLink
<1>15. PanesChanges'
  BY <1>2, <1>11, <1>12, <1>13, <1>14 DEF PanesChanges
<1>16. \A t \in PaneSides : Shows(t) => Shows(t)'
  <2> SUFFICES ASSUME NEW t \in PaneSides, Shows(t) PROVE Shows(t)'
    OBVIOUS
  <2>1. CASE \E d \in panesCalls : IsChange(d, t) /\ d.state \in Made
    BY <1>2, <2>1 DEF Shows, IsChange
  <2>2. CASE ~\E d \in panesCalls : IsChange(d, t) /\ d.state \in Made
    BY <1>2, <1>7, <2>2 DEF Shows, Awaited
  <2> QED
    BY <2>1, <2>2
<1>17. PanesFresh'
  BY <1>2, <1>3, <1>7, <1>16, PanesSides DEF PanesFresh, Panes!OfflineIsEmpty, PanesReady, Awaited
<1> QED
  BY <1>8, <1>15, <1>17 DEF PanesInv

\* A change and what it becomes
LEMMA ChangeAs ==
    ASSUME PanesTypes, NEW c \in panesCalls, c.op # "nav", NEW r \in {"ok", "lost", "failed", "finish"}
    PROVE  /\ c \in ChangeSet /\ c.side \in PaneSides /\ c.dir \in Dirs
              /\ c.seq <= panesSeq[c.side]
           /\ [c EXCEPT !.state = r] \in ChangeSet
           /\ [c EXCEPT !.state = r].op = c.op /\ [c EXCEPT !.state = r].side = c.side
           /\ [c EXCEPT !.state = r].dir = c.dir /\ [c EXCEPT !.state = r].from = c.from
           /\ [c EXCEPT !.state = r].asked = c.asked /\ [c EXCEPT !.state = r].gen = c.gen
           /\ [c EXCEPT !.state = r].linked = c.linked /\ [c EXCEPT !.state = r].seq = c.seq
           /\ [c EXCEPT !.state = r].leaving = c.leaving
           /\ [c EXCEPT !.state = r].state = r
<1>1. c \in ChangeSet
  BY DEF PanesTypes, NavSet
<1> QED
  BY <1>1 DEF ChangeSet, PanesTypes

\* The engine changes the file, or fails to.
LEMMA PanesChange ==
    ASSUME PanesInv, NEW c \in panesCalls, Panes!Change(c)
    PROVE  PanesInv'
<1>1. PICK r \in {"ok", "lost", "failed"} :
         /\ panesCalls' = (panesCalls \ {c}) \cup {[c EXCEPT !.state = r]}
         /\ \/ r \in Made /\ ver' = [ver EXCEPT ![c.side][c.dir] = @ + 1]
            \/ r = "failed" /\ ver' = ver
  BY DEF Panes!Change, Made
<1>2. PICK k : k = [c EXCEPT !.state = r]
  OBVIOUS
<1>3. c.op # "nav" /\ c.state = "runs" /\ PanesTypes /\ PanesChanges /\ PanesFresh
      /\ UNCHANGED <<panesCur, list, panesSeq, failed, missed, panesConnected, panesBusy,
           panesGen, mutating, panesDialog, unseen>>
  BY DEF Panes!Change, Panes!panes, Panes!link, PanesInv
<1>4. c.side \in PaneSides /\ c.dir \in Dirs /\ c.seq <= panesSeq[c.side] /\ k \in ChangeSet
        /\ k.op = c.op /\ k.side = c.side
      /\ k.dir = c.dir /\ k.from = c.from /\ k.asked = c.asked /\ k.gen = c.gen
           /\ k.linked = c.linked /\ k.seq = c.seq
      /\ k.state = r
  <2>1. r \in {"ok", "lost", "failed", "finish"}
    OBVIOUS
  <2>2. [c EXCEPT !.state = r] \in ChangeSet
    BY <1>3, <2>1, ChangeAs
  <2> QED
    BY <1>2, <1>3, <2>1, <2>2, ChangeAs
<1>5. panesCalls' = (panesCalls \ {c}) \cup {k}
  BY <1>1, <1>2
<1>6. ver' \in [PaneSides -> [Dirs -> Nat]] /\ \A t \in PaneSides : t # c.side => ver'[t] = ver[t]
  <2>1. PICK w \in [Dirs -> Nat] : w = [ver[c.side] EXCEPT ![c.dir] = @ + 1]
    <3>1. ver[c.side] \in [Dirs -> Nat]
      BY <1>3, <1>4 DEF PanesTypes
    <3>2. ver[c.side][c.dir] + 1 \in Nat
      BY <1>4, <3>1
    <3> QED
      BY <1>4, <3>1, <3>2
  <2>2. ver' \in {ver, [ver EXCEPT ![c.side] = w]}
    BY <1>1, <2>1
  <2> QED
    BY <1>3, <1>4, <2>2 DEF PanesTypes
<1>7. PanesTypes'
  BY <1>3, <1>4, <1>5, <1>6 DEF PanesTypes
<1>8. PanesChanges'
  BY <1>3, <1>4, <1>5, ChangesMove
<1>9. \A d, e \in panesCalls' : d.op = "nav" /\ e.op = "nav" /\ d.side = e.side /\ d.seq = e.seq
        => d = e
  BY <1>3, <1>4, <1>5 DEF PanesFresh
<1>10. \A t \in PaneSides : t # c.side /\ Shows(t) => Shows(t)'
  BY <1>3, <1>4, <1>5, <1>6, ShowsSame
<1>11. Shows(c.side) => Shows(c.side)'
  <2>1. CASE r \in Made
    BY <1>3, <1>4, <1>5, <2>1 DEF Shows, IsChange
  <2>2. CASE r = "failed"
    <3>1. ver' = ver
      BY <1>1, <2>2 DEF Made
    <3>2. \A d : d.op = "nav" => (d \in panesCalls' <=> d \in panesCalls)
      BY <1>3, <1>4, <1>5
    <3>3. \A d \in panesCalls : IsChange(d, c.side) /\ d.state \in Made => d \in panesCalls'
      BY <1>3, <1>5 DEF Made
    <3> QED
      BY <1>3, <3>1, <3>2, <3>3 DEF Shows, Awaited
  <2> QED
    BY <2>1, <2>2 DEF Made
<1>12. \A d \in panesCalls' : Awaited(d, "remote")' /\ PanesReady' => d.gen = panesGen'
  BY <1>3, <1>4, <1>5 DEF PanesFresh, Awaited, PanesReady
<1>13. PanesFresh'
  BY <1>3, <1>4, <1>9, <1>10, <1>11, <1>12, PanesSides DEF PanesFresh, Panes!OfflineIsEmpty,
     PanesReady
<1> QED
  BY <1>7, <1>8, <1>13 DEF PanesInv

\* The result of a change is handled, and its pane is listed again or not.
LEMMA PanesHandled ==
    ASSUME PanesInv, NEW c \in panesCalls, c.op # "nav", NEW rest, NEW k,
           rest = (panesCalls \ {c}) \cup {k}, k = [c EXCEPT !.state = "finish"],
           \/ Panes!Refresh(c.side, panesCur[c.side], rest, panesGen)
                /\ (c.side = "remote" => PanesReady)
           \/ panesCalls' = rest /\ panesSeq' = panesSeq /\ (missed => missed')
              /\ (c.state \in Made => c.side = "remote" /\ missed'),
           UNCHANGED <<panesCur, list, failed, panesConnected, panesBusy, panesGen, mutating,
             panesDialog, ver, unseen>>
    PROVE  PanesInv'
<1>1. PanesTypes /\ PanesChanges /\ PanesFresh
  BY DEF PanesInv
<1>2. c \in ChangeSet /\ c.side \in PaneSides /\ c.seq <= panesSeq[c.side] /\ k \in ChangeSet
        /\ k.op = c.op /\ k.side = c.side
      /\ k.dir = c.dir /\ k.from = c.from /\ k.asked = c.asked /\ k.gen = c.gen
           /\ k.linked = c.linked /\ k.seq = c.seq
      /\ k.state = "finish"
  BY <1>1, ChangeAs
<1>3. \A d \in rest : d \in NavSet \cup ChangeSet /\ d.seq <= panesSeq[d.side]
  BY <1>1, <1>2 DEF PanesTypes
<1>4. panesCur[c.side] \in Dirs /\ panesGen \in Nat
  BY <1>1, <1>2 DEF PanesTypes
<1>5. \A d : d.op = "nav" => (d \in rest <=> d \in panesCalls)
  BY <1>2
<1>6. \A t \in PaneSides : t # c.side => \A d : d \in rest /\ d.side = t <=> d \in panesCalls
        /\ d.side = t
  BY <1>2
<1>7. CASE Panes!Refresh(c.side, panesCur[c.side], rest, panesGen)
           /\ (c.side = "remote" => PanesReady)
  <2>1. Relisted(c.side, rest, panesGen)
    BY <1>1, <1>2, <1>3, <1>4, <1>7, ListsAgain
  <2>2. PICK n \in NavSet : panesCalls' = rest \cup {n} /\ n.side = c.side /\ n.gen = panesGen
          /\ n.op = "nav"
                            /\ n.seq = panesSeq[c.side] + 1
    BY <2>1 DEF Relisted
  <2>3. missed' = (missed /\ c.side = "local")
    BY <1>7 DEF Panes!Refresh
  <2>4. PanesTypes'
    BY <1>1, <2>1 DEF PanesTypes, Relisted
  <2>5. PanesChanges'
    BY <1>1, <1>2, <2>2, ChangesMove
  <2>6. \A d, e \in panesCalls' : d.op = "nav" /\ e.op = "nav" /\ d.side = e.side
          /\ d.seq = e.seq => d = e
    BY <1>1, <1>2, <1>5, <2>2, NavsApart
  <2>7. \A t \in PaneSides : t # c.side /\ Shows(t) => Shows(t)'
    BY <1>6, <2>1, <2>2, ShowsSame DEF Relisted
  <2>8. Shows(c.side)'
    BY <2>1 DEF Relisted
  <2>9. \A d \in panesCalls' : Awaited(d, "remote")' /\ PanesReady' => d.gen = panesGen'
    <3> SUFFICES ASSUME NEW d \in panesCalls', Awaited(d, "remote")', PanesReady'
                 PROVE  d.gen = panesGen'
      OBVIOUS
    <3>1. CASE d = n
      BY <2>2, <3>1
    <3>2. CASE d # n
      <4>1. d \in rest /\ d.op = "nav" /\ d \in panesCalls
        BY <1>5, <2>2, <3>2 DEF Awaited
      <4>2. c.side # "remote"
        BY <2>1, <4>1 DEF Relisted
      <4>3. Awaited(d, "remote")
        BY <2>1, <4>2, PanesSides DEF Relisted, Awaited
      <4> QED
        BY <1>1, <4>1, <4>3 DEF PanesFresh, PanesReady
    <3> QED
      BY <3>1, <3>2
  <2>10. PanesFresh'
    BY <1>1, <1>2, <1>7, <2>3, <2>6, <2>7, <2>8, <2>9, PanesSides DEF PanesFresh,
       Panes!OfflineIsEmpty, PanesReady
  <2> QED
    BY <2>4, <2>5, <2>10 DEF PanesInv
<1>8. CASE panesCalls' = rest /\ panesSeq' = panesSeq /\ (missed => missed')
           /\ (c.state \in Made => c.side = "remote" /\ missed')
  <2>1. PanesTypes'
    BY <1>1, <1>3, <1>8 DEF PanesTypes
  <2>2. PanesChanges'
    <3>1. \A d : d \in panesCalls' /\ d.op # "nav" <=> d.op # "nav"
            /\ (d = k \/ d \in panesCalls \ {c})
      BY <1>8
    <3> QED
      BY <1>1, <1>2, <3>1, ChangesMove
  <2>3. \A d, e \in panesCalls' : d.op = "nav" /\ e.op = "nav" /\ d.side = e.side
          /\ d.seq = e.seq => d = e
    BY <1>1, <1>5, <1>8 DEF PanesFresh
  <2>4. \A t \in PaneSides : t # c.side /\ Shows(t) => Shows(t)'
    BY <1>6, <1>8, ShowsSame
  <2>5. c.state \notin Made /\ Shows(c.side) => Shows(c.side)'
    <3>1. c.state \notin Made => \A d \in panesCalls : IsChange(d, c.side) /\ d.state \in Made
            => d \in rest
      OBVIOUS
    <3> QED
      BY <1>5, <1>8, <3>1 DEF Shows, Awaited
  <2>6. \A d \in panesCalls' : Awaited(d, "remote")' /\ PanesReady' => d.gen = panesGen'
    BY <1>1, <1>5, <1>8 DEF PanesFresh, Awaited, PanesReady
  <2>7. ~unseen' => Shows("local")'
    BY <1>1, <1>2, <1>8, <2>4, <2>5, PanesSides DEF PanesFresh
  <2>8. ~unseen' /\ ~missed' /\ PanesReady' => Shows("remote")'
    BY <1>1, <1>2, <1>8, <2>4, <2>5, PanesSides DEF PanesFresh, PanesReady
  <2>9. PanesFresh'
    BY <1>1, <2>3, <2>6, <2>7, <2>8 DEF PanesFresh, Panes!OfflineIsEmpty
  <2> QED
    BY <2>1, <2>2, <2>9 DEF PanesInv
<1> QED
  BY <1>7, <1>8

\* The result of a change lists its pane again, if it is still shown.
LEMMA PanesResults ==
    ASSUME PanesInv, NEW c \in panesCalls, Panes!LocalResult(c) \/ Panes!RemoteResult(c)
    PROVE  PanesInv'
<1>1. PICK k : k = [c EXCEPT !.state = "finish"]
  OBVIOUS
<1>2. PICK rest : rest = (panesCalls \ {c}) \cup {k}
  OBVIOUS
<1>3. CASE Panes!LocalResult(c)
  <2>1. c.op # "nav" /\ c.side = "local"
        /\ UNCHANGED <<panesCur, list, failed, panesConnected, panesBusy, panesGen, mutating,
             panesDialog, ver, unseen>>
    BY <1>3 DEF Panes!LocalResult, Panes!link
  <2>2. \/ Panes!Refresh("local", panesCur["local"], rest, panesGen)
        \/ panesCalls' = rest /\ UNCHANGED <<panesSeq, missed>> /\ c.state \notin Made
    BY <1>1, <1>2, <1>3 DEF Panes!LocalResult, Made
  <2> QED
    BY <1>1, <1>2, <2>1, <2>2, PanesHandled
<1>4. CASE Panes!RemoteResult(c)
  <2>1. c.op # "nav" /\ c.side = "remote"
        /\ UNCHANGED <<panesCur, list, failed, panesConnected, panesBusy, panesGen, mutating,
             panesDialog, ver, unseen>>
    BY <1>4 DEF Panes!RemoteResult, Panes!link
  <2>2. \/ Panes!Refresh("remote", panesCur["remote"], rest, panesGen) /\ PanesReady
        \/ panesCalls' = rest /\ UNCHANGED panesSeq /\ missed' = (missed \/ c.state # "failed")
    BY <1>1, <1>2, <1>4 DEF Panes!RemoteResult, Panes!RemoteReady, PanesReady
  <2>3. CASE Panes!Refresh("remote", panesCur["remote"], rest, panesGen) /\ PanesReady
    BY <1>1, <1>2, <2>1, <2>3, PanesHandled
  <2>4. CASE panesCalls' = rest /\ UNCHANGED panesSeq /\ missed' = (missed \/ c.state # "failed")
    <3>1. CASE c.state # "failed"
      <4>1. missed'
        BY <2>4, <3>1
      <4> QED
        BY <1>1, <1>2, <2>1, <2>4, <4>1, PanesHandled
    <3>2. CASE c.state = "failed"
      <4>1. c.state \notin Made
        BY <3>2 DEF Made
      <4> QED
        BY <1>1, <1>2, <2>1, <2>4, <3>2, <4>1, PanesHandled
    <3> QED
      BY <3>1, <3>2
  <2> QED
    BY <2>2, <2>3, <2>4
<1> QED
  BY <1>3, <1>4

\* The pane may be changed again.
LEMMA PanesFinish ==
    ASSUME PanesInv, NEW c \in panesCalls, Panes!Finish(c)
    PROVE  PanesInv'
<1>1. c.op # "nav" /\ c.state = "finish" /\ mutating' = [mutating EXCEPT ![c.side] = FALSE]
        /\ panesCalls' = panesCalls \ {c}
      /\ UNCHANGED <<panesCur, list, panesSeq, failed, missed, panesConnected, panesBusy,
           panesGen, panesDialog, ver, unseen>>
      /\ PanesTypes /\ PanesChanges /\ PanesFresh
  BY DEF Panes!Finish, Panes!panes, Panes!link, PanesInv
<1>2. c.side \in PaneSides
  BY <1>1, ChangeAs
<1>3. PanesTypes'
  BY <1>1, <1>2 DEF PanesTypes
<1>4. \A d \in panesCalls' : ~IsChange(d, c.side)
  BY <1>1 DEF PanesChanges, IsChange
<1>5. ~mutating'[c.side] /\ \A t \in PaneSides : t # c.side => mutating'[t] = mutating[t]
  BY <1>1, <1>2 DEF PanesTypes
<1>6. ~(AsksLocal /\ c.side = "local") /\ (AsksLocal' <=> AsksLocal)
  BY <1>1 DEF PanesChanges, IsChange, AsksLocal
<1>7. \A t \in PaneSides : mutating'[t] <=> (\E d \in panesCalls' : IsChange(d, t))
        \/ (AsksLocal' /\ t = "local")
  <2> SUFFICES ASSUME NEW t \in PaneSides
               PROVE  mutating'[t] <=> (\E d \in panesCalls' : IsChange(d, t))
                      \/ (AsksLocal' /\ t = "local")
    OBVIOUS
  <2>1. CASE t = c.side
    BY <1>4, <1>5, <1>6, <2>1
  <2>2. CASE t # c.side
    <3>1. (\E d \in panesCalls' : IsChange(d, t)) <=> (\E d \in panesCalls : IsChange(d, t))
      BY <1>1, <2>2 DEF IsChange
    <3>2. mutating[t] <=> (\E d \in panesCalls : IsChange(d, t)) \/ (AsksLocal /\ t = "local")
      BY <1>1 DEF PanesChanges
    <3> QED
      BY <1>5, <1>6, <2>2, <3>1, <3>2
  <2> QED
    BY <2>1, <2>2
<1>8. PanesChanges'
  <2>1. Panes!BeginsOnItsLink'
    BY <1>1 DEF PanesChanges, Panes!BeginsOnItsLink
  <2>2. \A d, e \in panesCalls' : d.op # "nav" /\ e.op # "nav" /\ d.side = e.side => d = e
    BY <1>1 DEF PanesChanges
  <2>3. AsksLocal' => \A d \in panesCalls' : ~IsChange(d, "local")
    BY <1>1, <1>6 DEF PanesChanges
  <2>4. panesDialog' # Panes!None /\ panesDialog'.side = "remote" /\ PanesReady'
          => panesDialog'.gen = panesGen'
    BY <1>1 DEF PanesChanges, PanesReady
  <2> QED
    BY <1>7, <2>1, <2>2, <2>3, <2>4 DEF PanesChanges
<1>9. \A t \in PaneSides : Shows(t) => Shows(t)'
  <2> SUFFICES ASSUME NEW t \in PaneSides, Shows(t) PROVE Shows(t)'
    OBVIOUS
  <2>1. CASE \E d \in panesCalls : IsChange(d, t) /\ d.state \in Made
    BY <1>1, <2>1 DEF Shows, IsChange, Made
  <2>2. CASE ~\E d \in panesCalls : IsChange(d, t) /\ d.state \in Made
    BY <1>1, <2>2 DEF Shows, Awaited
  <2> QED
    BY <2>1, <2>2
<1>10. PanesFresh'
  BY <1>1, <1>9, PanesSides DEF PanesFresh, Panes!OfflineIsEmpty, PanesReady, Awaited
<1> QED
  BY <1>3, <1>8, <1>10 DEF PanesInv

\* A transfer changes a directory behind the window.
LEMMA PanesTransferDone ==
    ASSUME PanesInv, NEW s \in PaneSides, NEW d \in Dirs, Panes!TransferDone(s, d)
    PROVE  PanesInv'
<1>1. ver' = [ver EXCEPT ![s][d] = @ + 1] /\ unseen'
      /\ UNCHANGED <<panesCur, list, panesSeq, failed, missed, panesConnected, panesBusy,
           panesGen, panesDialog, mutating, panesCalls>>
      /\ PanesTypes /\ PanesChanges /\ PanesFresh
  BY DEF Panes!TransferDone, Panes!panes, Panes!link, PanesInv
<1>2. PanesTypes'
  BY <1>1 DEF PanesTypes
<1>3. PanesChanges'
  BY <1>1, ChangesSame DEF PanesReady
<1>4. PanesFresh'
  BY <1>1, FreshSame
<1> QED
  BY <1>2, <1>3, <1>4 DEF PanesInv

\* The window learns of finished transfers and lists both panes again.
LEMMA PanesRefreshTransfers ==
    ASSUME PanesInv, Panes!RefreshTransfers
    PROVE  PanesInv'
<1>1. ~unseen' /\ PanesTypes /\ PanesChanges /\ PanesFresh
      /\ UNCHANGED <<panesCur, list, failed, panesConnected, panesBusy, panesGen, panesDialog,
           mutating, ver>>
  BY DEF Panes!RefreshTransfers, Panes!link, PanesInv
<1>2. \A c \in panesCalls : c \in NavSet \cup ChangeSet /\ c.seq <= panesSeq[c.side]
        /\ c.side \in PaneSides /\ c.seq \in Nat
  BY <1>1 DEF PanesTypes, NavSet, ChangeSet
<1>3. panesCur["local"] \in Dirs /\ panesCur["remote"] \in Dirs /\ panesGen \in Nat
        /\ panesSeq \in [PaneSides -> Nat]
  BY <1>1, PanesSides DEF PanesTypes
<1>4. CASE ~PanesReady
  <2>1. Panes!Refresh("local", panesCur["local"], panesCalls, panesGen)
    BY <1>4 DEF Panes!RefreshTransfers, Panes!RemoteReady, PanesReady
  <2>2. Relisted("local", panesCalls, panesGen)
    BY <1>1, <1>2, <1>3, <2>1, PanesSides, ListsAgain
  <2>3. PICK n \in NavSet : panesCalls' = panesCalls \cup {n} /\ n.side = "local" /\ n.op = "nav"
                            /\ n.seq = panesSeq["local"] + 1
    BY <2>2 DEF Relisted
  <2>4. PanesTypes'
    BY <1>1, <2>2 DEF PanesTypes, Relisted
  <2>5. PanesChanges'
    BY <1>1, <2>3, ChangesSame DEF PanesReady
  <2>6. \A d, e \in panesCalls' : d.op = "nav" /\ e.op = "nav" /\ d.side = e.side
          /\ d.seq = e.seq => d = e
    BY <1>1, <2>3, PanesSides, NavsApart
  <2>7. PanesFresh'
    BY <1>1, <1>4, <2>2, <2>6 DEF PanesFresh, Panes!OfflineIsEmpty, PanesReady, Relisted
  <2> QED
    BY <2>4, <2>5, <2>7 DEF PanesInv
<1>5. CASE PanesReady
  <2>a. PICK l : l = Panes!Nav("local", panesCur["local"], panesGen)
    OBVIOUS
  <2>b. PICK r : r = Panes!Nav("remote", panesCur["remote"], panesGen)
    OBVIOUS
  <2>1. panesSeq' = [t \in PaneSides |-> panesSeq[t] + 1] /\ missed' = FALSE
        /\ panesCalls' = panesCalls \cup {Panes!Nav(t, panesCur[t], panesGen) : t \in PaneSides}
    BY <1>5 DEF Panes!RefreshTransfers, Panes!RemoteReady, PanesReady, PaneSides
  <2>2. panesCalls' = panesCalls \cup {l, r}
    BY <2>a, <2>b, <2>1, PanesSides
  <2>3. panesSeq' \in [PaneSides -> Nat] /\ \A t \in PaneSides : panesSeq'[t] = panesSeq[t] + 1
    BY <1>3, <2>1
  <2>4. l \in NavSet /\ l.side = "local" /\ l.op = "nav" /\ l.seq = panesSeq'["local"]
          /\ l.state = "runs"
    BY <1>3, <2>a, <2>3, PanesSides DEF Panes!Nav, NavSet
  <2>5. r \in NavSet /\ r.side = "remote" /\ r.op = "nav" /\ r.seq = panesSeq'["remote"]
          /\ r.state = "runs" /\ r.gen = panesGen
    BY <1>3, <2>b, <2>3, PanesSides DEF Panes!Nav, NavSet
  <2>6. \A c \in panesCalls : c.seq <= panesSeq'[c.side] /\ c.seq # panesSeq'[c.side]
    BY <1>2, <1>3, <2>3
  <2>7. PanesTypes'
    <3>1. \A c \in panesCalls' : c.seq <= panesSeq'[c.side]
      BY <2>2, <2>3, <2>4, <2>5, <2>6, PanesSides DEF NavSet
    <3> QED
      BY <1>1, <2>2, <2>3, <2>4, <2>5, <3>1 DEF PanesTypes
  <2>8. PanesChanges'
    BY <1>1, <2>2, <2>4, <2>5, ChangesSame DEF PanesReady
  <2>9. \A c \in panesCalls : ~Awaited(c, "local")' /\ ~Awaited(c, "remote")'
    BY <2>6 DEF Awaited
  <2>10. Shows("local")' /\ Shows("remote")'
    BY <2>2, <2>4, <2>5, <2>9, PanesSides, ShowsSoon DEF Awaited
  <2>11. \A d, e \in panesCalls' : d.op = "nav" /\ e.op = "nav" /\ d.side = e.side
           /\ d.seq = e.seq => d = e
    BY <1>1, <2>2, <2>4, <2>5, <2>6 DEF PanesFresh
  <2>12. PanesFresh'
    BY <1>1, <2>2, <2>4, <2>5, <2>9, <2>10, <2>11 DEF PanesFresh, Panes!OfflineIsEmpty,
       PanesReady, Awaited
  <2> QED
    BY <2>7, <2>8, <2>12 DEF PanesInv
<1> QED
  BY <1>4, <1>5

\* A new connection lists the remote pane.
LEMMA PanesOnConnected ==
    ASSUME PanesInv, Panes!OnConnected
    PROVE  PanesInv'
<1>1. panesDialog = Panes!None /\ ~panesConnected /\ panesConnected' /\ panesGen' = panesGen + 1
        /\ UNCHANGED panesBusy
      /\ Panes!Refresh("remote", StartDir, panesCalls, panesGen')
      /\ UNCHANGED <<panesCur, list, failed, panesDialog, mutating, ver, unseen>>
      /\ PanesTypes /\ PanesChanges /\ PanesFresh
  BY DEF Panes!OnConnected, PanesInv
<1>2. \A c \in panesCalls : c \in NavSet \cup ChangeSet /\ c.seq <= panesSeq[c.side]
  BY <1>1 DEF PanesTypes
<1>3. StartDir \in Dirs /\ panesGen' \in Nat
  BY <1>1, WindowsAssumption DEF WindowsAssumption, Panes!PanesAssumption, PanesTypes
<1>4. Relisted("remote", panesCalls, panesGen')
  <2>1. PICK g \in Nat : g = panesGen'
    BY <1>3
  <2>2. Relisted("remote", panesCalls, g)
    BY <1>1, <1>2, <1>3, <2>1, PanesSides, ListsAgain
  <2> QED
    BY <2>1, <2>2
<1>5. PICK n \in NavSet : panesCalls' = panesCalls \cup {n} /\ n.side = "remote" /\ n.op = "nav"
        /\ n.gen = panesGen'
                          /\ n.seq = panesSeq["remote"] + 1
  BY <1>4 DEF Relisted
<1>6. PanesTypes'
  BY <1>1, <1>3, <1>4 DEF PanesTypes, Relisted
<1>7. PanesChanges'
  <2>1. ~AsksLocal /\ ~AsksLocal'
    BY <1>1 DEF AsksLocal
  <2>2. \A c : c \in panesCalls' /\ c.op # "nav" <=> c \in panesCalls /\ c.op # "nav"
    BY <1>5
  <2>3. \A s \in PaneSides : (\E c \in panesCalls' : IsChange(c,
          s)) <=> (\E c \in panesCalls : IsChange(c, s))
    BY <2>2 DEF IsChange
  <2>4. Panes!BeginsOnItsLink'
    BY <1>1, <2>2 DEF PanesChanges, Panes!BeginsOnItsLink
  <2>5. \A c, d \in panesCalls' : c.op # "nav" /\ d.op # "nav" /\ c.side = d.side => c = d
    BY <1>1, <2>2 DEF PanesChanges
  <2> QED
    BY <1>1, <2>1, <2>3, <2>4, <2>5 DEF PanesChanges
<1>8. \A d, e \in panesCalls' : d.op = "nav" /\ e.op = "nav" /\ d.side = e.side /\ d.seq = e.seq
        => d = e
  BY <1>1, <1>5, PanesSides, NavsApart
<1>9. Shows("local") => Shows("local")'
  BY <1>1, <1>4, <1>5, PanesSides, ShowsSame DEF Relisted
<1>10. PanesFresh'
  BY <1>1, <1>4, <1>5, <1>8, <1>9 DEF PanesFresh, Panes!OfflineIsEmpty, PanesReady, Relisted
<1> QED
  BY <1>6, <1>7, <1>10 DEF PanesInv

\* The connection is about to end.
LEMMA PanesLeave ==
    ASSUME PanesInv, Panes!Leave
    PROVE  PanesInv'
<1>1. panesConnected /\ panesBusy' /\ panesGen' = panesGen + 1
      /\ UNCHANGED <<panesCur, list, panesSeq, failed, missed, panesConnected, panesDialog,
           mutating, panesCalls, ver, unseen>>
      /\ PanesTypes /\ PanesChanges /\ PanesFresh
  BY DEF Panes!Leave, Panes!panes, Panes!RemoteReady, PanesInv
<1>2. PanesTypes'
  BY <1>1 DEF PanesTypes
<1>3. PanesChanges'
  BY <1>1, ChangesSame DEF PanesReady
<1>4. Shows("local") => Shows("local")'
  BY <1>1, PanesSides, ShowsSame
<1>5. PanesFresh'
  BY <1>1, <1>4 DEF PanesFresh, Panes!OfflineIsEmpty, PanesReady
<1> QED
  BY <1>2, <1>3, <1>5 DEF PanesInv

\* The remote pane is emptied with the connection.
LEMMA PanesFinishDisconnected ==
    ASSUME PanesInv, Panes!FinishDisconnected
    PROVE  PanesInv'
<1>1. ~panesConnected' /\ panesSeq' = [panesSeq EXCEPT !["remote"] = @ + 1]
        /\ list' = [list EXCEPT !["remote"] = 0]
      /\ UNCHANGED <<panesCur, failed, missed, panesGen, panesDialog, mutating, panesCalls, ver,
           unseen>>
      /\ PanesTypes /\ PanesChanges /\ PanesFresh
  BY DEF Panes!FinishDisconnected, PanesInv
<1>2. panesSeq' \in [PaneSides -> Nat] /\ list' \in [PaneSides -> Nat] /\ list'["remote"] = 0
        /\ list'["local"] = list["local"]
      /\ panesSeq'["local"] = panesSeq["local"] /\ panesSeq'["remote"] = panesSeq["remote"] + 1
  BY <1>1, PanesSides DEF PanesTypes
<1>3. PanesTypes'
  <2>1. \A c \in panesCalls : c.side \in PaneSides /\ c.seq \in Nat /\ c.seq <= panesSeq[c.side]
    BY <1>1 DEF PanesTypes, NavSet, ChangeSet
  <2>2. \A c \in panesCalls : c.seq <= panesSeq'[c.side]
    <3> SUFFICES ASSUME NEW c \in panesCalls PROVE c.seq <= panesSeq'[c.side]
      OBVIOUS
    <3>1. CASE c.side = "local"
      BY <1>2, <2>1, <3>1
    <3>2. CASE c.side = "remote"
      <4>1. panesSeq["remote"] \in Nat
        BY <1>1, PanesSides DEF PanesTypes
      <4> QED
        BY <1>2, <2>1, <3>2, <4>1
    <3> QED
      BY <2>1, <3>1, <3>2, PanesSides
  <2> QED
    BY <1>1, <1>2, <2>2 DEF PanesTypes
<1>4. PanesChanges'
  BY <1>1, ChangesSame DEF PanesReady
<1>5. Shows("local") => Shows("local")'
  BY <1>1, <1>2, PanesSides, ShowsSame
<1>6. PanesFresh'
  BY <1>1, <1>2, <1>5 DEF PanesFresh, Panes!OfflineIsEmpty, PanesReady
<1> QED
  BY <1>3, <1>4, <1>6 DEF PanesInv

\* Every step keeps the invariant.
LEMMA PanesSteps ==
    ASSUME PanesInv, [Panes!Next]_(Panes!vars)
    PROVE  PanesInv'
<1>1. CASE UNCHANGED Panes!vars
  <2>1. UNCHANGED <<panesCur, list, panesSeq, failed, missed, panesConnected, panesBusy,
          panesGen, panesDialog, mutating,
                    panesCalls, ver, unseen>>
    BY <1>1 DEF Panes!vars, Panes!panes, Panes!link
  <2>2. PanesTypes' /\ PanesFresh'
    BY <2>1, FreshSame DEF PanesInv, PanesTypes
  <2>3. PanesChanges'
    BY <2>1, ChangesSame DEF PanesInv, PanesReady
  <2> QED
    BY <2>2, <2>3 DEF PanesInv
<1>2. CASE Panes!Next
  <2>1. CASE Panes!AskLocal \/ Panes!AskRemote \/ Panes!AskChmod
    BY <2>1, PanesSides, PanesAsk DEF Panes!AskLocal, Panes!AskRemote, Panes!AskChmod
  <2>2. CASE \E c \in panesCalls : Panes!Listed(c) \/ Panes!ListResult(c) \/ Panes!Change(c)
             \/ Panes!LocalResult(c)
                                   \/ Panes!RemoteResult(c) \/ Panes!Finish(c)
    BY <2>2, PanesListed, PanesListResult, PanesChange, PanesResults, PanesFinish
  <2>3. CASE \E s \in Panes!Sides, d \in Dirs : Panes!Navigate(s, d) \/ Panes!TransferDone(s, d)
    BY <2>3, PanesNavigate, PanesTransferDone DEF PaneSides
  <2> QED
    BY <1>2, <2>1, <2>2, <2>3, PanesConfirmed, PanesDeclined, PanesRefreshTransfers,
       PanesOnConnected, PanesLeave,
       PanesFinishDisconnected DEF Panes!Next
<1> QED
  BY <1>1, <1>2

\* There is at most one change in a pane, and the flag says so.
LEMMA PanesOneChange ==
    ASSUME PanesInv
    PROVE  Panes!OneChange
<1> SUFFICES ASSUME NEW s \in PaneSides, NEW out,
                    out = {c \in panesCalls : c.op # "nav" /\ c.side = s}
             PROVE /\ Panes!Cardinality(out) <= 1
                   /\ mutating[s] = (out # {} \/ (panesDialog # Panes!None /\ panesDialog.side
                        = "local" /\ s = "local"))
  BY DEF Panes!OneChange, PaneSides
<1>1. Cardinality(out) <= 1
  <2>1. CASE out = {}
    BY <2>1, FS_EmptySet
  <2>2. CASE out # {}
    <3>1. PICK c : c \in out
      BY <2>2
    <3>2. out = {c}
      BY <3>1 DEF PanesInv, PanesChanges
    <3> QED
      <4>1. Cardinality({c}) = 1
        BY FS_Singleton
      <4> QED
        BY <3>2, <4>1
  <2> QED
    BY <2>1, <2>2
<1>2. Panes!Cardinality(out) = Cardinality(out)
  BY DEF Panes!Cardinality, Cardinality
<1>3. mutating[s] <=> out # {}
        \/ (panesDialog # Panes!None /\ panesDialog.side = "local" /\ s = "local")
  BY DEF PanesInv, PanesChanges, IsChange, AsksLocal
<1>4. mutating[s] \in BOOLEAN
  BY DEF PanesInv, PanesTypes
<1> QED
  BY <1>1, <1>2, <1>3, <1>4

(***************************************************************************)
(* The panes: where a change is made                                       *)
(***************************************************************************)

\* A pane that was asked about with no other directory on its way stays where it is.
Stays ==
    panesDialog # Panes!None /\ ~panesDialog.leaving =>
        /\ panesCur[panesDialog.side] = panesDialog.from
        /\ \A c \in panesCalls : Awaited(c, panesDialog.side) => c.dir = panesDialog.from

\* What holds of the place of a change, beside PanesInv.
WhereInv == Stays /\ Panes!ChangesWhereSeen

\* Directory d is shown in pane s or on its way there.
Near(d, s) == d = panesCur[s] \/ \E c \in panesCalls : Awaited(c, s) /\ c.dir = d
\* Call c says of its change what a call of now says of it.
SameChange(c) ==
    \E d \in panesCalls : d.op = c.op /\ d.side = c.side /\ d.dir = c.dir /\ d.from = c.from
                         /\ d.leaving = c.leaving

\* No question and no change is there at the start.
LEMMA WhereStarts ==
    ASSUME Panes!Init
    PROVE  WhereInv
  BY DEF Panes!Init, WhereInv, Stays, Panes!ChangesWhereSeen

\* A step without a question that was open or opens, and without new changes, that
\* brings no directory from afar.
LEMMA WhereKept ==
    ASSUME PanesTypes, WhereInv, panesDialog' \in {panesDialog, Panes!None},
           \A t \in PaneSides : Near(panesCur'[t], t),
           \A t \in PaneSides : \A c \in panesCalls' : Awaited(c, t)' => Near(c.dir, t),
           \A c \in panesCalls' : c.op # "nav" => SameChange(c)
    PROVE  WhereInv'
<1>1. Panes!ChangesWhereSeen'
  BY DEF WhereInv, Panes!ChangesWhereSeen, SameChange
<1>2. ASSUME panesDialog' # Panes!None, ~panesDialog'.leaving
      PROVE  /\ panesCur'[panesDialog.side] = panesDialog.from
             /\ \A c \in panesCalls' : Awaited(c, panesDialog.side)' => c.dir = panesDialog.from
  <2>1. panesDialog' = panesDialog /\ panesDialog \in Questions /\ panesDialog.side \in PaneSides
    BY <1>2 DEF PanesTypes, Questions
  <2>2. \A d : Near(d, panesDialog.side) => d = panesDialog.from
    BY <1>2, <2>1 DEF WhereInv, Stays, Near
  <2> QED
    BY <2>1, <2>2
<1>3. Stays'
  <2>1. panesDialog' # Panes!None => panesDialog' = panesDialog
    OBVIOUS
  <2> QED
    BY <1>2, <2>1 DEF Stays, Awaited
<1> QED
  BY <1>1, <1>3 DEF WhereInv

\* The calls after a listing of directory d has begun in pane s, with what there was in rest
LEMMA WhereLists ==
    ASSUME PanesTypes, NEW s \in PaneSides, NEW d, NEW g, NEW rest, Panes!Refresh(s, d, rest, g),
           \A c \in rest : c.op = "nav" => c \in panesCalls,
           \A c \in rest : c.op # "nav" => SameChange(c)
    PROVE  /\ \A t \in PaneSides : \A c \in panesCalls' : Awaited(c, t)' =>
                Near(c.dir, t) \/ (t = s /\ c.dir = d)
           /\ \A c \in panesCalls' : c.op # "nav" => SameChange(c)
<1>1. PICK k : k = [op |-> "nav", side |-> s, dir |-> d, seq |-> panesSeq[s] + 1, gen |-> g,
        state |-> "runs", ver |-> 0]
  OBVIOUS
<1>2. panesSeq' = [panesSeq EXCEPT ![s] = @ + 1] /\ panesCalls' = rest \cup {k}
  BY <1>1 DEF Panes!Refresh, Panes!Nav
<1>3. k.op = "nav" /\ k.side = s /\ k.dir = d
  BY <1>1
<1>4. panesSeq'[s] = panesSeq[s] + 1 /\ panesSeq[s] \in Nat
      /\ \A t \in PaneSides : t # s => panesSeq'[t] = panesSeq[t]
  BY <1>2 DEF PanesTypes
<1>5. ASSUME NEW t \in PaneSides, NEW c \in rest, Awaited(c, t)'
      PROVE  Near(c.dir, t)
  <2>1. c \in panesCalls /\ c.op = "nav" /\ c.side = t /\ c.seq = panesSeq'[t]
    BY <1>5 DEF Awaited
  <2>2. c.seq \in Nat /\ c.seq <= panesSeq[t]
    BY <2>1 DEF PanesTypes, NavSet, ChangeSet
  <2>3. t # s
    BY <1>4, <2>1, <2>2
  <2> QED
    BY <1>4, <2>1, <2>3 DEF Near, Awaited
<1>6. \A t \in PaneSides : Awaited(k, t)' => t = s
  BY <1>3 DEF Awaited
<1> QED
  BY <1>2, <1>3, <1>5, <1>6

\* A call of a change, as it was or handled, says the same of it.
LEMMA SameChanges ==
    ASSUME PanesTypes
    PROVE  /\ \A c \in panesCalls : SameChange(c)
           /\ \A c \in panesCalls, r \in {"ok", "lost", "failed", "finish"} :
                c.op # "nav" => SameChange([c EXCEPT !.state = r])
                                /\ [c EXCEPT !.state = r].op # "nav"
<1>1. \A c \in panesCalls : SameChange(c)
  BY DEF SameChange
<1>2. ASSUME NEW c \in panesCalls, NEW r \in {"ok", "lost", "failed", "finish"}, c.op # "nav"
      PROVE  SameChange([c EXCEPT !.state = r]) /\ [c EXCEPT !.state = r].op # "nav"
  BY <1>2, ChangeAs DEF SameChange
<1> QED
  BY <1>1, <1>2

\* The user goes to another directory: nothing is asked.
LEMMA WhereNavigate ==
    ASSUME PanesInv, WhereInv, NEW s \in PaneSides, NEW d \in Dirs, Panes!Navigate(s, d)
    PROVE  WhereInv'
<1>1. panesDialog = Panes!None /\ panesDialog' = Panes!None
  BY DEF Panes!Navigate
<1>2. \A c \in panesCalls' : c.op # "nav" => SameChange(c)
  BY WhereLists, SameChanges DEF Panes!Navigate, PanesInv
<1>3. Panes!ChangesWhereSeen'
  BY <1>2 DEF WhereInv, Panes!ChangesWhereSeen, SameChange
<1> QED
  BY <1>1, <1>3 DEF WhereInv, Stays

\* The answers of listings and of changes
LEMMA WhereResults ==
    ASSUME PanesInv, WhereInv, NEW c \in panesCalls,
           \/ Panes!Listed(c) \/ Panes!ListResult(c) \/ Panes!Change(c)
           \/ Panes!LocalResult(c) \/ Panes!RemoteResult(c) \/ Panes!Finish(c)
    PROVE  WhereInv'
<1>0. PanesTypes /\ panesDialog' = panesDialog
  BY DEF PanesInv, Panes!Listed, Panes!ListResult, Panes!Change, Panes!LocalResult,
     Panes!RemoteResult, Panes!Finish
<1>1. CASE Panes!Listed(c)
  <2>1. PICK r \in {"ok", "failed"} :
          panesCalls' = (panesCalls \ {c}) \cup {[c EXCEPT !.state = r,
            !.ver = ver[c.side][c.dir]]}
    BY <1>1 DEF Panes!Listed
  <2>2. PICK k : k = [c EXCEPT !.state = r, !.ver = ver[c.side][c.dir]]
    OBVIOUS
  <2>3. c.op = "nav" /\ c \in NavSet /\ panesSeq' = panesSeq /\ panesCur' = panesCur
    BY <1>0, <1>1 DEF Panes!Listed, Panes!panes, PanesTypes, ChangeSet
  <2>4. k.op = "nav" /\ k.side = c.side /\ k.dir = c.dir /\ k.seq = c.seq
    BY <2>2, <2>3 DEF NavSet
  <2>5. panesCalls' = (panesCalls \ {c}) \cup {k}
    BY <2>1, <2>2
  <2>6. \A t \in PaneSides : \A d \in panesCalls' : Awaited(d, t)' => Near(d.dir, t)
    BY <2>3, <2>4, <2>5 DEF Near, Awaited
  <2>7. \A d \in panesCalls' : d.op # "nav" => SameChange(d)
    BY <1>0, <2>4, <2>5, SameChanges
  <2>8. \A t \in PaneSides : Near(panesCur'[t], t)
    BY <2>3 DEF Near
  <2> QED
    BY <1>0, <2>6, <2>7, <2>8, WhereKept
<1>2. CASE Panes!ListResult(c)
  <2>1. c.op = "nav" /\ panesCalls' = panesCalls \ {c} /\ panesSeq' = panesSeq
    BY <1>2 DEF Panes!ListResult
  <2>2. c.side \in PaneSides
    BY <1>0, <2>1 DEF PanesTypes, NavSet, ChangeSet
  <2>3. panesCur' = panesCur \/ (panesCur' = [panesCur EXCEPT ![c.side] = c.dir]
          /\ c.seq = panesSeq[c.side])
    BY <1>2 DEF Panes!ListResult, Panes!Wanted
  <2>4. \A t \in PaneSides : Near(panesCur'[t], t)
    <3> SUFFICES ASSUME NEW t \in PaneSides PROVE Near(panesCur'[t], t)
      OBVIOUS
    <3>1. CASE panesCur'[t] = panesCur[t]
      BY <3>1 DEF Near
    <3>2. CASE panesCur'[t] # panesCur[t]
      <4>1. t = c.side /\ panesCur'[t] = c.dir /\ c.seq = panesSeq[t]
        BY <1>0, <2>2, <2>3, <3>2 DEF PanesTypes
      <4> QED
        BY <2>1, <4>1 DEF Near, Awaited
    <3> QED
      BY <3>1, <3>2
  <2>5. \A t \in PaneSides : \A d \in panesCalls' : Awaited(d, t)' => Near(d.dir, t)
    BY <2>1 DEF Near, Awaited
  <2>6. \A d \in panesCalls' : d.op # "nav" => SameChange(d)
    BY <1>0, <2>1, SameChanges
  <2> QED
    BY <1>0, <2>4, <2>5, <2>6, WhereKept
<1>3. CASE Panes!Change(c) \/ Panes!Finish(c)
  <2>1. c.op # "nav" /\ panesSeq' = panesSeq /\ panesCur' = panesCur
    BY <1>3 DEF Panes!Change, Panes!Finish, Panes!panes
  <2>2. \A d \in panesCalls' : d \in panesCalls
          \/ \E r \in {"ok", "lost", "failed", "finish"} : d = [c EXCEPT !.state = r]
    BY <1>3 DEF Panes!Change, Panes!Finish
  <2>3. \A d \in panesCalls' : SameChange(d) /\ (d.op = "nav" => d \in panesCalls)
    BY <1>0, <2>1, <2>2, SameChanges
  <2>4. \A t \in PaneSides : \A d \in panesCalls' : Awaited(d, t)' => Near(d.dir, t)
    BY <2>1, <2>3 DEF Near, Awaited
  <2>5. \A t \in PaneSides : Near(panesCur'[t], t)
    BY <2>1 DEF Near
  <2> QED
    BY <1>0, <2>3, <2>4, <2>5, WhereKept
<1>4. CASE Panes!LocalResult(c) \/ Panes!RemoteResult(c)
  <2>1. PICK k : k = [c EXCEPT !.state = "finish"]
    OBVIOUS
  <2>2. PICK rest : rest = (panesCalls \ {c}) \cup {k}
    OBVIOUS
  <2>3. c.op # "nav" /\ panesCur' = panesCur /\ c.side \in PaneSides
    BY <1>0, <1>4, ChangeAs DEF Panes!LocalResult, Panes!RemoteResult
  <2>4. k.op # "nav" /\ SameChange(k)
    BY <1>0, <2>1, <2>3, SameChanges
  <2>5. (\A d \in rest : d.op = "nav" => d \in panesCalls) /\ \A d \in rest : SameChange(d)
    BY <1>0, <2>2, <2>4, SameChanges
  <2>6. \/ Panes!Refresh(c.side, panesCur[c.side], rest, panesGen)
        \/ panesCalls' = rest /\ panesSeq' = panesSeq
    BY <1>4, <2>1, <2>2 DEF Panes!LocalResult, Panes!RemoteResult
  <2>7. (\A t \in PaneSides : \A d \in panesCalls' : Awaited(d, t)' => Near(d.dir, t))
        /\ \A d \in panesCalls' : d.op # "nav" => SameChange(d)
    <3>1. CASE Panes!Refresh(c.side, panesCur[c.side], rest, panesGen)
      <4>1. /\ \A t \in PaneSides : \A d \in panesCalls' : Awaited(d, t)' =>
                 Near(d.dir, t) \/ (t = c.side /\ d.dir = panesCur[c.side])
            /\ \A d \in panesCalls' : d.op # "nav" => SameChange(d)
        BY <1>0, <2>3, <2>5, <3>1, WhereLists
      <4> QED
        BY <4>1 DEF Near
    <3>2. CASE panesCalls' = rest /\ panesSeq' = panesSeq
      BY <2>5, <3>2 DEF Near, Awaited
    <3> QED
      BY <2>6, <3>1, <3>2
  <2>8. \A t \in PaneSides : Near(panesCur'[t], t)
    BY <2>3 DEF Near
  <2> QED
    BY <1>0, <2>7, <2>8, WhereKept
<1> QED
  BY <1>1, <1>2, <1>3, <1>4

\* A question opens: it notes whether another directory is on its way.
LEMMA WhereAsk ==
    ASSUME PanesInv, WhereInv, NEW s \in PaneSides, NEW op, Panes!Ask(s, op)
    PROVE  WhereInv'
<1>1. panesDialog' = [op |-> op, side |-> s, from |-> panesCur[s], gen |-> panesGen,
           leaving |-> Panes!Leaving(s)]
      /\ UNCHANGED <<panesCur, panesSeq, panesCalls>>
  BY DEF Panes!Ask, Panes!panes
<1>2. panesDialog'.side = s /\ panesDialog'.from = panesCur[s]
      /\ panesDialog'.leaving = Panes!Leaving(s)
  BY <1>1
<1>3. ~Panes!Leaving(s) => \A c \in panesCalls : Awaited(c, s) => c.dir = panesCur[s]
  BY DEF Panes!Leaving, Awaited
<1>4. Stays'
  BY <1>1, <1>2, <1>3 DEF Stays, Awaited
<1> QED
  BY <1>1, <1>4 DEF WhereInv, Panes!ChangesWhereSeen

\* A question is answered: the change is of the directory it was asked in, or of the one
\* that came into the pane.
LEMMA WhereConfirmed ==
    ASSUME PanesInv, WhereInv, Panes!Confirmed
    PROVE  WhereInv'
<1>1. PICK k : k = [op |-> panesDialog.op, side |-> panesDialog.side,
          dir |-> Panes!Base(panesDialog), from |-> panesDialog.from,
          leaving |-> panesDialog.leaving, asked |-> panesDialog.gen,
          seq |-> panesSeq[panesDialog.side],
          gen |-> panesGen, linked |-> PanesReady, state |-> "runs"]
  OBVIOUS
<1>2. panesDialog # Panes!None /\ panesDialog' = Panes!None /\ panesCalls' = panesCalls \cup {k}
  BY <1>1 DEF Panes!Confirmed, Panes!RemoteReady, PanesReady
<1>3. k.dir # k.from => k.leaving /\ ~(k.side = "remote" /\ k.op \in {"rename", "chmod"})
  <2>1. k.op = panesDialog.op /\ k.side = panesDialog.side /\ k.from = panesDialog.from
        /\ k.dir = Panes!Base(panesDialog) /\ k.leaving = panesDialog.leaving
    BY <1>1
  <2>2. CASE k.side = "remote" /\ k.op \in {"rename", "chmod"}
    BY <2>1, <2>2 DEF Panes!Base
  <2>3. CASE ~(k.side = "remote" /\ k.op \in {"rename", "chmod"})
    <3>1. k.dir = panesCur[k.side]
      BY <2>1, <2>3 DEF Panes!Base
    <3> QED
      BY <1>2, <2>1, <2>3, <3>1 DEF WhereInv, Stays
  <2> QED
    BY <2>2, <2>3
<1>4. Panes!ChangesWhereSeen'
  BY <1>2, <1>3 DEF WhereInv, Panes!ChangesWhereSeen
<1> QED
  BY <1>2, <1>4 DEF WhereInv, Stays

\* The panes are listed again after transfers.
LEMMA WhereRefreshTransfers ==
    ASSUME PanesInv, WhereInv, Panes!RefreshTransfers
    PROVE  WhereInv'
<1>0. PanesTypes /\ panesDialog' = panesDialog /\ panesCur' = panesCur
  BY DEF Panes!RefreshTransfers, PanesInv
<1>1. CASE Panes!RemoteReady
  <2>1. panesSeq' = [s \in Panes!Sides |-> panesSeq[s] + 1]
        /\ panesCalls' = panesCalls \cup {Panes!Nav(t, panesCur[t], panesGen) : t \in Panes!Sides}
    BY <1>1 DEF Panes!RefreshTransfers
  <2>2. \A t \in Panes!Sides : /\ Panes!Nav(t, panesCur[t], panesGen).op = "nav"
                               /\ Panes!Nav(t, panesCur[t], panesGen).side = t
                               /\ Panes!Nav(t, panesCur[t], panesGen).dir = panesCur[t]
    BY DEF Panes!Nav
  <2>3. \A c \in panesCalls' : c.op # "nav" => SameChange(c)
    BY <1>0, <2>1, <2>2, SameChanges
  <2>4. ASSUME NEW t \in PaneSides, NEW c \in panesCalls', Awaited(c, t)'
        PROVE  Near(c.dir, t)
    <3>1. CASE c \in panesCalls
      <4>1. c.side = t /\ c.seq = panesSeq'[t] /\ c.seq <= panesSeq[t] /\ panesSeq[t] \in Nat
            /\ panesSeq'[t] = panesSeq[t] + 1 /\ c.seq \in Nat
        BY <1>0, <2>1, <2>4, <3>1 DEF PanesTypes, Awaited, PaneSides, NavSet, ChangeSet
      <4> QED
        BY <4>1
    <3>2. CASE c \notin panesCalls
      <4>1. PICK u \in Panes!Sides : c = Panes!Nav(u, panesCur[u], panesGen)
        BY <2>1, <3>2
      <4>2. u = t
        BY <2>2, <2>4, <4>1 DEF Awaited
      <4> QED
        BY <2>2, <4>1, <4>2 DEF Near
    <3> QED
      BY <3>1, <3>2
  <2>5. \A t \in PaneSides : Near(panesCur'[t], t)
    BY <1>0 DEF Near
  <2> QED
    BY <1>0, <2>3, <2>4, <2>5, WhereKept
<1>2. CASE ~Panes!RemoteReady
  <2>1. Panes!Refresh("local", panesCur["local"], panesCalls, panesGen)
    BY <1>2 DEF Panes!RefreshTransfers
  <2>2. /\ \A t \in PaneSides : \A d \in panesCalls' : Awaited(d, t)' =>
             Near(d.dir, t) \/ (t = "local" /\ d.dir = panesCur["local"])
        /\ \A d \in panesCalls' : d.op # "nav" => SameChange(d)
    BY <1>0, <2>1, PanesSides, SameChanges, WhereLists
  <2>3. \A t \in PaneSides : \A d \in panesCalls' : Awaited(d, t)' => Near(d.dir, t)
    BY <2>2 DEF Near
  <2>4. \A t \in PaneSides : Near(panesCur'[t], t)
    BY <1>0 DEF Near
  <2> QED
    BY <1>0, <2>2, <2>3, <2>4, WhereKept
<1> QED
  BY <1>1, <1>2

\* A connection opens its directory: nothing is asked.
LEMMA WhereOnConnected ==
    ASSUME PanesInv, WhereInv, Panes!OnConnected
    PROVE  WhereInv'
<1>1. panesDialog = Panes!None /\ panesDialog' = Panes!None
  BY DEF Panes!OnConnected
<1>2. \A c \in panesCalls' : c.op # "nav" => SameChange(c)
  BY WhereLists, SameChanges, PanesSides DEF Panes!OnConnected, PanesInv
<1>3. Panes!ChangesWhereSeen'
  BY <1>2 DEF WhereInv, Panes!ChangesWhereSeen, SameChange
<1> QED
  BY <1>1, <1>3 DEF WhereInv, Stays

\* The rest: a question is declined, a transfer ends, a connection is lost.
LEMMA WhereOthers ==
    ASSUME PanesInv, WhereInv, panesCalls' = panesCalls, panesCur' = panesCur,
           panesDialog' \in {panesDialog, Panes!None},
           panesSeq' = panesSeq \/ panesSeq' = [panesSeq EXCEPT !["remote"] = @ + 1]
    PROVE  WhereInv'
<1>1. PanesTypes
  BY DEF PanesInv
<1>2. \A t \in PaneSides : Near(panesCur'[t], t)
  BY DEF Near
<1>3. \A c \in panesCalls' : c.op # "nav" => SameChange(c)
  BY <1>1, SameChanges
<1>4. ASSUME NEW t \in PaneSides, NEW c \in panesCalls', Awaited(c, t)' PROVE Near(c.dir, t)
  <2>1. c.op = "nav" /\ c.side = t /\ c.seq = panesSeq'[t] /\ c.seq <= panesSeq[t]
        /\ panesSeq[t] \in Nat /\ c.seq \in Nat
    BY <1>1, <1>4 DEF PanesTypes, Awaited, NavSet, ChangeSet
  <2>2. panesSeq'[t] = panesSeq[t] \/ panesSeq'[t] = panesSeq[t] + 1
    BY <1>1 DEF PanesTypes
  <2>3. c.seq = panesSeq[t]
    BY <2>1, <2>2
  <2> QED
    BY <2>1, <2>3 DEF Near, Awaited
<1> QED
  BY <1>1, <1>2, <1>3, <1>4, WhereKept

\* Every step keeps the place of the changes.
LEMMA WhereSteps ==
    ASSUME PanesInv, WhereInv, [Panes!Next]_(Panes!vars)
    PROVE  WhereInv'
<1>1. CASE UNCHANGED Panes!vars
  BY <1>1, WhereOthers DEF Panes!vars, Panes!panes
<1>2. CASE Panes!Declined \/ Panes!Leave \/ Panes!FinishDisconnected
           \/ \E s \in Panes!Sides, d \in Dirs : Panes!TransferDone(s, d)
  <2>1. panesCalls' = panesCalls /\ panesCur' = panesCur
        /\ panesDialog' \in {panesDialog, Panes!None}
        /\ (panesSeq' = panesSeq \/ panesSeq' = [panesSeq EXCEPT !["remote"] = @ + 1])
    BY <1>2 DEF Panes!Declined, Panes!Leave, Panes!FinishDisconnected, Panes!TransferDone,
       Panes!panes
  <2> QED
    BY <2>1, WhereOthers
<1>3. CASE \E c \in panesCalls : \/ Panes!Listed(c) \/ Panes!ListResult(c) \/ Panes!Change(c)
             \/ Panes!LocalResult(c) \/ Panes!RemoteResult(c) \/ Panes!Finish(c)
  BY <1>3, WhereResults
<1>4. CASE Panes!AskLocal \/ Panes!AskRemote \/ Panes!AskChmod
  BY <1>4, WhereAsk, PanesSides DEF Panes!AskLocal, Panes!AskRemote, Panes!AskChmod
<1>5. CASE \E s \in Panes!Sides, d \in Dirs : Panes!Navigate(s, d)
  BY <1>5, WhereNavigate DEF PaneSides
<1> QED
  BY <1>1, <1>2, <1>3, <1>4, <1>5, WhereConfirmed, WhereRefreshTransfers, WhereOnConnected
  DEF Panes!Next

\* The invariant says what the suite checks of panes (files_actions_windows.go).
LEMMA PanesImply ==
    ASSUME PanesInv, WhereInv
    PROVE  /\ Panes!ChangesWhereSeen /\ Panes!BeginsOnItsLink /\ Panes!OneChange
           /\ Panes!OfflineIsEmpty /\ Panes!LocalFresh /\ Panes!RemoteFresh
<1>1. \A s \in PaneSides : Shows(s) /\ Panes!Quiet(s) /\ ~failed[s]
        => list[s] = ver[s][panesCur[s]]
  BY DEF Shows, Panes!Quiet, IsChange, Awaited
<1>2. Panes!LocalFresh /\ Panes!RemoteFresh
  BY <1>1, PanesSides DEF PanesInv, PanesFresh, Panes!LocalFresh, Panes!RemoteFresh,
     Panes!RemoteReady, PanesReady
<1> QED
  BY <1>2, PanesOneChange DEF PanesInv, PanesChanges, PanesFresh, WhereInv

(***************************************************************************)
(* The comparison of two directories                                       *)
(***************************************************************************)

\* How deep below the base of a comparison a directory may be.
Depths == 0..Deepest
\* Where the two panes, or the two sides of a comparison, are.
Places == [Compare!Sides -> Depths]
\* The same, for rows that may not be there.
MaybePlaces == [Compare!Sides -> Depths \cup {Compare!None}]
\* The states of a comparison.
Comparisons == [active : BOOLEAN, loading : BOOLEAN, base : Places, rows : MaybePlaces, of : Nat,
                opens : BOOLEAN, seq : Nat, gen : Nat]
\* A listing of the two directories, under way or answered.
CompareJobs == [seq : Nat, gen : Nat, base : Places, opens : BOOLEAN, state : {"new", "done",
  "failed"}, of : Nat]

\* A job under way
JobOk(j) ==
    /\ j.seq <= compareCmp.seq /\ j.gen <= compareGen
    /\ j.state # "new" => j.gen <= j.of /\ j.of <= compareGen
    /\ compareCmp.active /\ j.seq = compareCmp.seq /\ ~j.opens => compareCmp.base = j.base

\* The types of the panes, the connection and the comparison.
CompareTypes ==
    /\ compareLink \in {"up", "ending", "down"} /\ compareGen \in Nat /\ compareCur \in Places
    /\ pane \in MaybePlaces /\ moving \in MaybePlaces /\ compareCmp \in Comparisons
    /\ compareJobs \subseteq CompareJobs

\* The inductive invariant of the panes and the comparison above them: rows are of the
\* directories that are named, a comparison is of the connection that is up, and each
\* listing under way has its own number.
CompareInv ==
    /\ CompareTypes
    /\ Compare!PaneShowsAddress /\ Compare!RowsAreOfBases
    /\ compareCmp.active => compareLink = "up" /\ compareCmp.gen = compareGen
    /\ ~compareCmp.active => compareCmp.rows = Compare!Off.rows
    /\ compareLink # "up" => moving["remote"] = Compare!None
    /\ compareLink = "down" => pane["remote"] = Compare!None
    /\ \A j \in compareJobs : JobOk(j)
    /\ \A j, k \in compareJobs : j.seq = k.seq => j = k

\* The mark for no rows is not a depth.
LEMMA CompareNumbers ==
    ASSUME TRUE
    PROVE  Deepest \in Nat /\ 0 \in Depths /\ Compare!None \in Nat
           /\ Compare!None \notin Depths
  BY WindowsAssumption DEF WindowsAssumption, Compare!WindowsCompareAssumption, Compare!None,
     Depths

\* No comparison is a state of the comparison, too.
LEMMA OffIsComparison ==
    Compare!Off \in Comparisons /\ Compare!Off.active = FALSE
  BY CompareNumbers DEF Compare!Off, Comparisons, Places, MaybePlaces, Compare!Sides

\* Nothing is compared at the start.
LEMMA CompareStarts ==
    ASSUME Compare!Init
    PROVE  CompareInv
<1>1. CompareTypes
  BY OffIsComparison, CompareNumbers DEF Compare!Init, CompareTypes, Places, MaybePlaces,
     Compare!Sides
<1> QED
  BY <1>1, OffIsComparison DEF Compare!Init, CompareInv, Compare!PaneShowsAddress,
     Compare!RowsAreOfBases

\* The numbers of a comparison that the steps calculate with.
LEMMA CompareTyped ==
    ASSUME CompareInv
    PROVE  /\ compareCmp \in Comparisons /\ compareGen \in Nat /\ compareCur \in Places
           /\ compareCmp.seq \in Nat /\ compareCmp.seq + 1 \in Nat
           /\ compareCmp.gen \in Nat /\ compareCmp.base \in Places
           /\ \A j \in compareJobs : j \in CompareJobs
  BY DEF CompareInv, CompareTypes, Comparisons

\* A comparison that is closed takes the next number, so that no listing answers it.
LEMMA ClosedOk ==
    ASSUME CompareInv
    PROVE  /\ Compare!Closed \in Comparisons
           /\ Compare!Closed.active = FALSE /\ Compare!Closed.rows = Compare!Off.rows
           /\ Compare!Closed.seq = compareCmp.seq + 1
  BY OffIsComparison, CompareTyped DEF Compare!Closed, Comparisons

\* A comparison begins with a listing of what the panes show.
LEMMA CompareStart ==
    ASSUME CompareInv, Compare!Start
    PROVE  CompareInv' /\ Compare!OpenedTogetherStep
<1>1. PICK j : j = [seq |-> compareCmp'.seq, gen |-> compareGen, base |-> compareCur,
        opens |-> FALSE,
                    state |-> "new", of |-> 0]
  OBVIOUS
<1>2. compareCmp' \in Comparisons /\ compareCmp'.active /\ compareCmp'.base = compareCur
      /\ compareCmp'.rows = Compare!Off.rows /\ compareCmp'.seq = compareCmp.seq + 1
           /\ compareCmp'.gen = compareGen
  BY OffIsComparison, CompareTyped DEF Compare!Start, Comparisons
<1>3. compareJobs' = compareJobs \cup {j} /\ UNCHANGED <<compareLink, compareGen, compareCur,
        pane, moving>>
      /\ compareLink = "up" /\ ~compareCmp.active
  BY <1>1 DEF Compare!Start, Compare!Job
<1>4. j \in CompareJobs /\ j.seq = compareCmp'.seq
  BY <1>1, <1>2 DEF CompareJobs, CompareInv, CompareTypes, Comparisons
<1>5. CompareTypes'
  BY <1>2, <1>3, <1>4 DEF CompareInv, CompareTypes
<1>6. compareCmp'.rows["local"] = Compare!None
  BY <1>2 DEF Compare!Off, Compare!Sides
<1>7. JobOk(j)'
  BY <1>1, <1>2, <1>3, <1>4, CompareTyped DEF JobOk
<1>8. \A k \in compareJobs : JobOk(k)' /\ k.seq # j.seq
  BY <1>2, <1>3, <1>4 DEF JobOk, CompareInv, CompareTypes, Comparisons, CompareJobs
<1>9. \A i, k \in compareJobs' : i.seq = k.seq => i = k
  BY <1>3, <1>8 DEF CompareInv
<1>10. CompareInv'
  BY <1>2, <1>3, <1>5, <1>6, <1>7, <1>8, <1>9
     DEF CompareInv, Compare!PaneShowsAddress, Compare!RowsAreOfBases
<1> QED
  BY <1>2, <1>3, <1>10 DEF CompareInv, Compare!OpenedTogetherStep

\* The comparison is closed and its listing is no longer awaited.
LEMMA CompareClose ==
    ASSUME CompareInv, Compare!Close
    PROVE  CompareInv' /\ Compare!OpenedTogetherStep
<1>1. compareCmp' \in Comparisons /\ ~compareCmp'.active /\ compareCmp'.rows = Compare!Off.rows
      /\ compareCmp'.seq = compareCmp.seq + 1
      /\ UNCHANGED <<compareLink, compareGen, compareCur, pane, moving, compareJobs>>
  BY ClosedOk DEF Compare!Close
<1>2. \A k \in compareJobs : JobOk(k)'
  BY <1>1 DEF JobOk, CompareInv, CompareTypes, Comparisons, CompareJobs
<1>3. CompareTypes'
  BY <1>1 DEF CompareInv, CompareTypes
<1>4. CompareInv'
  BY <1>1, <1>2, <1>3 DEF CompareInv, Compare!PaneShowsAddress, Compare!RowsAreOfBases
<1> QED
  BY <1>1, <1>4 DEF Compare!OpenedTogetherStep

\* Both sides are listed one level deeper; the comparison stays where it is until then.
LEMMA CompareOpenBoth ==
    ASSUME CompareInv, Compare!OpenBoth
    PROVE  CompareInv' /\ Compare!OpenedTogetherStep
<1>a. PICK b : b = [s \in Compare!Sides |-> compareCmp.base[s] + 1]
  OBVIOUS
<1>1. PICK j : j = [seq |-> compareCmp'.seq, gen |-> compareGen, base |-> b, opens |-> TRUE,
                    state |-> "new", of |-> 0]
  OBVIOUS
<1>2. compareCmp' \in Comparisons /\ compareCmp'.active /\ compareCmp'.base = compareCmp.base
      /\ compareCmp'.rows = compareCmp.rows /\ compareCmp'.seq = compareCmp.seq + 1
           /\ compareCmp'.gen = compareCmp.gen
      /\ compareCmp'.of = compareCmp.of
  BY CompareTyped DEF Compare!OpenBoth, Comparisons
<1>3. compareJobs' = compareJobs \cup {j} /\ UNCHANGED <<compareLink, compareGen, compareCur,
        pane, moving>>
      /\ compareLink = "up" /\ compareCmp.active
  BY <1>a, <1>1 DEF Compare!OpenBoth, Compare!Job
<1>b. b \in Places
  <2>1. compareCmp.base \in Places /\ \A s \in Compare!Sides : compareCmp.base[s] < Deepest
    BY DEF CompareInv, CompareTypes, Comparisons, Compare!OpenBoth
  <2> QED
    BY <1>a, <2>1, CompareNumbers DEF Places, Depths
<1>4. j \in CompareJobs /\ j.seq = compareCmp'.seq
  BY <1>1, <1>b, <1>2 DEF CompareJobs, CompareInv, CompareTypes, Comparisons
<1>5. CompareTypes'
  BY <1>2, <1>3, <1>4 DEF CompareInv, CompareTypes
<1>7. JobOk(j)'
  BY <1>1, <1>2, <1>3, <1>4, CompareTyped DEF JobOk
<1>8. \A k \in compareJobs : JobOk(k)' /\ k.seq # j.seq
  BY <1>2, <1>3, <1>4 DEF JobOk, CompareInv, CompareTypes, Comparisons, CompareJobs
<1>9. \A i, k \in compareJobs' : i.seq = k.seq => i = k
  BY <1>3, <1>8 DEF CompareInv
<1>10. CompareInv'
  BY <1>2, <1>3, <1>5, <1>7, <1>8, <1>9
     DEF CompareInv, Compare!PaneShowsAddress, Compare!RowsAreOfBases
<1> QED
  BY <1>2, <1>3, <1>10 DEF CompareInv, Compare!OpenedTogetherStep

\* The engine lists both directories on the connection of the moment.
LEMMA CompareLists ==
    ASSUME NEW j \in compareJobs, CompareInv, Compare!Lists(j)
    PROVE  CompareInv' /\ Compare!OpenedTogetherStep
<1>1. PICK r \in {"done", "failed"} :
        compareJobs' = (compareJobs \ {j}) \cup {[j EXCEPT !.state = r, !.of = compareGen]}
  BY DEF Compare!Lists
<1>2. PICK k : k = [j EXCEPT !.state = r, !.of = compareGen]
  OBVIOUS
<1>3. UNCHANGED <<compareLink, compareGen, compareCur, pane, moving, compareCmp>>
  BY DEF Compare!Lists
<1>4. k \in CompareJobs /\ k.seq = j.seq /\ k.gen = j.gen /\ k.base = j.base
        /\ k.opens = j.opens /\ k.of = compareGen
  BY <1>2, CompareTyped DEF CompareJobs
<1>5. JobOk(k)'
  BY <1>3, <1>4 DEF JobOk, CompareInv, CompareTypes
<1>6. CompareTypes'
  BY <1>1, <1>2, <1>3, <1>4 DEF CompareInv, CompareTypes
<1>7. \A i \in compareJobs : JobOk(i)'
  BY <1>3 DEF CompareInv, JobOk
<1>8. \A i, h \in compareJobs' : i.seq = h.seq => i = h
  <2>1. \A i \in compareJobs \ {j} : i.seq # k.seq
    BY <1>4 DEF CompareInv
  <2> QED
    BY <1>1, <1>2, <2>1 DEF CompareInv
<1>9. CompareInv'
  BY <1>1, <1>2, <1>3, <1>5, <1>6, <1>7, <1>8
     DEF CompareInv, Compare!PaneShowsAddress, Compare!RowsAreOfBases
<1> QED
  BY <1>3, <1>9 DEF Compare!OpenedTogetherStep

\* An answer is taken only by the comparison that asked, and moves the panes with it.
LEMMA CompareResult ==
    ASSUME NEW j \in compareJobs, CompareInv, Compare!Result(j)
    PROVE  CompareInv' /\ Compare!OpenedTogetherStep
<1>1. compareJobs' = compareJobs \ {j} /\ UNCHANGED <<compareLink, compareGen, moving>>
        /\ j.state # "new"
      /\ j \in CompareJobs /\ JobOk(j)
  BY DEF Compare!Result, CompareInv, CompareTypes
<1>2. CASE ~Compare!Taken(j)
  <2>1. UNCHANGED <<compareCmp, compareCur, pane>>
    BY <1>2 DEF Compare!Result
  <2> QED
    BY <1>1, <2>1 DEF CompareInv, CompareTypes, JobOk, Compare!PaneShowsAddress,
       Compare!RowsAreOfBases,
       Compare!OpenedTogetherStep
<1>3. CASE Compare!Taken(j) /\ j.state = "failed"
  <2>1. compareCmp' = [compareCmp EXCEPT !.loading = FALSE] /\ UNCHANGED <<compareCur, pane>>
    BY <1>3 DEF Compare!Result
  <2>2. compareCmp' \in Comparisons /\ compareCmp'.active = compareCmp.active
          /\ compareCmp'.base = compareCmp.base
        /\ compareCmp'.rows = compareCmp.rows /\ compareCmp'.seq = compareCmp.seq
             /\ compareCmp'.gen = compareCmp.gen
        /\ compareCmp'.of = compareCmp.of
    BY <2>1, CompareTyped DEF Comparisons
  <2> QED
    BY <1>1, <2>1, <2>2 DEF CompareInv, CompareTypes, JobOk, Compare!PaneShowsAddress,
       Compare!RowsAreOfBases,
       Compare!OpenedTogetherStep
<1>4. CASE Compare!Taken(j) /\ j.state # "failed"
  <2>1. PICK o \in BOOLEAN : compareCmp' = [compareCmp EXCEPT !.loading = FALSE,
                   !.base = IF j.opens THEN j.base ELSE [@ EXCEPT !["local"] = j.base["local"]],
                   !.rows = j.base, !.of = j.of, !.opens = o]
    BY <1>4 DEF Compare!Result
  <2>2. pane' = j.base /\ compareCur' = IF j.opens THEN j.base ELSE compareCur
    BY <1>4 DEF Compare!Result, Compare!ShownBehind
  <2>3. compareCmp.active /\ compareCmp.seq = j.seq /\ j.gen = compareGen
        /\ (~j.opens => compareCur = j.base /\ compareCmp.base = j.base)
    BY <1>1, <1>4 DEF Compare!Taken, JobOk
  <2>4. j.of = compareGen
    BY <1>1, <2>3 DEF JobOk, CompareJobs, CompareInv, CompareTypes
  <2>5. ~j.opens => [compareCmp.base EXCEPT !["local"] = j.base["local"]] = j.base
    BY <1>1, <2>3 DEF CompareJobs, Places, Compare!Sides
  <2>6. compareCmp' = [compareCmp EXCEPT !.loading = FALSE, !.base = j.base, !.rows = j.base,
          !.of = j.of, !.opens = o]
    BY <2>1, <2>5
  <2>7. j.base \in Places /\ j.base \in MaybePlaces
    BY <1>1 DEF CompareJobs, Places, MaybePlaces
  <2>8. compareCmp' \in Comparisons /\ compareCmp'.active = compareCmp.active
          /\ compareCmp'.base = j.base
        /\ compareCmp'.rows = j.base /\ compareCmp'.seq = compareCmp.seq
             /\ compareCmp'.gen = compareCmp.gen
        /\ compareCmp'.of = j.of
    BY <1>1, <2>6, <2>7, CompareTyped DEF Comparisons, CompareJobs
  <2>9. compareCur' = j.base
    BY <2>2, <2>3
  <2>10. \A k \in compareJobs' : JobOk(k)'
    BY <1>1, <2>3, <2>8 DEF CompareInv, JobOk
  <2>11. CompareTypes'
    BY <1>1, <2>2, <2>7, <2>8, <2>9 DEF CompareInv, CompareTypes
  <2>12. compareLink = "up"
    BY <2>3 DEF CompareInv
  <2> QED
    BY <1>1, <2>2, <2>3, <2>4, <2>8, <2>9, <2>10, <2>11, <2>12 DEF CompareInv,
       Compare!PaneShowsAddress,
       Compare!RowsAreOfBases, Compare!OpenedTogetherStep
<1> QED
  BY <1>2, <1>3, <1>4

\* A pane sets out for another directory.
LEMMA CompareMove ==
    ASSUME NEW s \in Compare!Sides, NEW d \in 0..Deepest, CompareInv, Compare!Move(s, d)
    PROVE  CompareInv' /\ Compare!OpenedTogetherStep
<1>1. moving' = [moving EXCEPT ![s] = d] /\ (s = "remote" => compareLink = "up")
      /\ UNCHANGED <<compareLink, compareGen, compareCur, pane, compareCmp, compareJobs>>
  BY DEF Compare!Move
<1>2. moving' \in MaybePlaces
  BY <1>1 DEF CompareInv, CompareTypes, MaybePlaces, Depths
<1>3. compareLink # "up" => moving'["remote"] = Compare!None
  BY <1>1 DEF CompareInv, CompareTypes, MaybePlaces, Compare!Sides
<1> QED
  BY <1>1, <1>2, <1>3 DEF CompareInv, CompareTypes, JobOk, Compare!PaneShowsAddress,
     Compare!RowsAreOfBases,
     Compare!OpenedTogetherStep

\* A pane arrives, or its listing fails and it stays.
LEMMA CompareMoved ==
    ASSUME NEW s \in Compare!Sides, CompareInv, Compare!Moved(s)
    PROVE  CompareInv' /\ Compare!OpenedTogetherStep
<1>1. moving[s] # Compare!None /\ moving' = [moving EXCEPT ![s] = Compare!None]
      /\ UNCHANGED <<compareLink, compareGen, compareCmp, compareJobs>>
  BY DEF Compare!Moved
<1>2. moving' \in MaybePlaces /\ (compareLink # "up" => moving'["remote"] = Compare!None)
        /\ moving[s] \in Depths
  BY <1>1 DEF CompareInv, CompareTypes, MaybePlaces, Compare!Sides
<1>3. CASE UNCHANGED <<compareCur, pane>>
  BY <1>1, <1>2, <1>3 DEF CompareInv, CompareTypes, JobOk, Compare!PaneShowsAddress,
     Compare!RowsAreOfBases,
     Compare!OpenedTogetherStep
<1>4. CASE compareCur' = [compareCur EXCEPT ![s] = moving[s]]
           /\ pane' = [pane EXCEPT ![s] = moving[s]]
  <2>1. compareCur' \in Places /\ pane' \in MaybePlaces
    BY <1>2, <1>4 DEF CompareInv, CompareTypes, Places, MaybePlaces
  <2>2. Compare!PaneShowsAddress'
    BY <1>2, <1>4 DEF CompareInv, CompareTypes, Places, MaybePlaces, Compare!PaneShowsAddress
  <2>3. compareLink = "down" => s # "remote"
    BY <1>1 DEF CompareInv
  <2>4. compareLink = "down" => pane'["remote"] = Compare!None
    BY <1>4, <2>3 DEF CompareInv, CompareTypes, MaybePlaces, Compare!Sides
  <2> QED
    BY <1>1, <1>2, <2>1, <2>2, <2>4 DEF CompareInv, CompareTypes, JobOk, Compare!RowsAreOfBases,
       Compare!OpenedTogetherStep
<1> QED
  BY <1>3, <1>4 DEF Compare!Moved

\* A change of the generation
LEMMA NewGeneration ==
    ASSUME CompareInv, compareGen' = compareGen + 1, compareCmp' = Compare!Current(compareGen'),
           compareJobs' = compareJobs
    PROVE  /\ compareCmp' \in Comparisons /\ compareGen' \in Nat /\ ~compareCmp'.active
           /\ compareCmp'.rows = Compare!Off.rows
           /\ \A k \in compareJobs' : JobOk(k)'
           /\ \A j, k \in compareJobs' : j.seq = k.seq => j = k
<1>1. compareCmp' = IF compareCmp.active THEN Compare!Closed ELSE compareCmp
  BY DEF Compare!Current, CompareInv, CompareTypes
<1>2. compareCmp' \in Comparisons /\ compareGen' \in Nat /\ ~compareCmp'.active
           /\ compareCmp'.rows = Compare!Off.rows /\ compareCmp'.seq >= compareCmp.seq
  <2>1. CASE compareCmp.active
    <3>1. compareCmp' = Compare!Closed
      BY <1>1, <2>1
    <3>2. compareCmp.seq + 1 >= compareCmp.seq /\ compareGen + 1 \in Nat
      BY CompareTyped, SMT
    <3> QED
      BY <3>1, <3>2, ClosedOk
  <2>2. CASE ~compareCmp.active
    <3>1. compareCmp' = compareCmp /\ compareCmp.seq >= compareCmp.seq /\ compareGen + 1 \in Nat
      BY <1>1, <2>2, CompareTyped
    <3> QED
      BY <2>2, <3>1, CompareTyped DEF CompareInv
  <2> QED
    BY <2>1, <2>2
<1>3. \A k \in compareJobs : JobOk(k)'
  BY <1>2 DEF JobOk, CompareInv, CompareTypes, Comparisons, CompareJobs
<1> QED
  BY <1>2, <1>3 DEF CompareInv

\* The connection ends and the comparison with it.
LEMMA CompareDisconnect ==
    ASSUME CompareInv, Compare!Disconnect
    PROVE  CompareInv' /\ Compare!OpenedTogetherStep
<1>1. compareLink' = "ending" /\ compareGen' = compareGen + 1
        /\ compareCmp' = Compare!Current(compareGen')
      /\ moving' = [moving EXCEPT !["remote"] = Compare!None] /\ UNCHANGED <<compareCur, pane,
           compareJobs>>
  BY DEF Compare!Disconnect
<1>2. moving' \in MaybePlaces /\ moving'["remote"] = Compare!None
  BY <1>1 DEF CompareInv, CompareTypes, MaybePlaces, Compare!Sides
<1>3. CompareInv'
  BY <1>1, <1>2, NewGeneration DEF CompareInv, CompareTypes, Compare!PaneShowsAddress,
     Compare!RowsAreOfBases
<1> QED
  BY <1>1, <1>3, NewGeneration DEF Compare!OpenedTogetherStep

\* The remote pane is emptied.
LEMMA CompareDisconnected ==
    ASSUME CompareInv, Compare!Disconnected
    PROVE  CompareInv' /\ Compare!OpenedTogetherStep
<1>1. compareLink = "ending" /\ compareLink' = "down"
        /\ pane' = [pane EXCEPT !["remote"] = Compare!None]
      /\ UNCHANGED <<compareGen, compareCur, moving, compareCmp, compareJobs>>
  BY DEF Compare!Disconnected
<1>2. pane' \in MaybePlaces /\ pane'["remote"] = Compare!None /\ pane'["local"] = pane["local"]
  BY <1>1 DEF CompareInv, CompareTypes, MaybePlaces, Compare!Sides
<1>3. Compare!PaneShowsAddress'
  BY <1>1, <1>2 DEF CompareInv, Compare!PaneShowsAddress, Compare!Sides
<1> QED
  BY <1>1, <1>2, <1>3 DEF CompareInv, CompareTypes, JobOk, Compare!RowsAreOfBases,
     Compare!OpenedTogetherStep

\* A new connection begins with the remote pane at its start.
LEMMA CompareConnect ==
    ASSUME CompareInv, Compare!Connect
    PROVE  CompareInv' /\ Compare!OpenedTogetherStep
<1>1. compareLink = "down" /\ compareLink' = "up" /\ compareGen' = compareGen + 1
        /\ compareCmp' = Compare!Current(compareGen')
      /\ compareCur' = [compareCur EXCEPT !["remote"] = 0]
      /\ moving' = [moving EXCEPT !["remote"] = 0] /\ UNCHANGED <<pane, compareJobs>>
  BY DEF Compare!Connect
<1>2. moving' \in MaybePlaces /\ compareCur' \in Places
        /\ compareCur'["local"] = compareCur["local"]
  BY <1>1, CompareNumbers DEF CompareInv, CompareTypes, Places, MaybePlaces, Compare!Sides
<1>3. Compare!PaneShowsAddress'
  BY <1>1, <1>2 DEF CompareInv, Compare!PaneShowsAddress, Compare!Sides
<1>4. CompareInv'
  BY <1>1, <1>2, <1>3, NewGeneration DEF CompareInv, CompareTypes, Compare!RowsAreOfBases
<1> QED
  BY <1>1, <1>4, NewGeneration DEF Compare!OpenedTogetherStep

\* Every step keeps the invariant, and opens both sides together.
LEMMA CompareSteps ==
    ASSUME CompareInv, [Compare!Next]_(Compare!vars)
    PROVE  CompareInv' /\ Compare!OpenedTogetherStep
<1>1. CASE UNCHANGED Compare!vars
  BY <1>1 DEF Compare!vars, CompareInv, CompareTypes, JobOk, Compare!PaneShowsAddress,
     Compare!RowsAreOfBases,
     Compare!OpenedTogetherStep
<1>2. CASE Compare!Next
  BY <1>2, CompareStart, CompareClose, CompareOpenBoth, CompareLists, CompareResult,
     CompareMove, CompareMoved,
     CompareDisconnect, CompareDisconnected, CompareConnect DEF Compare!Next, Compare!User,
       Compare!Work
<1> QED
  BY <1>1, <1>2

(***************************************************************************)
(* The list of transfers: what a replay of events is                       *)
(***************************************************************************)

\* Every set of numbers that is not empty has a least.
LEMMA LeastOf ==
    ASSUME NEW T \in SUBSET Nat, T # {}
    PROVE  \E x \in T : \A y \in T : x <= y
<1> DEFINE R == OpToRel(<, Nat)
<1>1. IsWellFoundedOn(R, Nat)
    BY NatLessThanWellFounded
<1>2. \E x \in T : \A y \in T : ~ (<<y, x>> \in R)
  <2> HIDE DEF R
  <2> QED BY <1>1, WFMin
<1>3. \A x, y \in Nat : <<y, x>> \in R <=> y < x
    BY DEF OpToRel
<1> HIDE DEF R
<1>4. PICK x \in T : \A y \in T : ~ (<<y, x>> \in R)
    BY <1>2
<1>5. ASSUME NEW y \in T PROVE x <= y
  <2>1. x \in Nat /\ y \in Nat
      OBVIOUS
  <2>2. ~ (y < x)
      BY <1>3, <1>4, <2>1
  <2>3. QED
      BY <2>1, <2>2
<1>6. QED
    BY <1>5

\* What holds of 0 and of the next number holds of all, said of a set of numbers.
LEMMA Induction ==
    ASSUME NEW T \in SUBSET Nat, 0 \in T, \A n \in T : n + 1 \in T
    PROVE  T = Nat
<1> DEFINE U == Nat \ T
<1>1. ASSUME U # {} PROVE FALSE
  <2>1. PICK x \in U : \A y \in U : x <= y
    <3> HIDE DEF U
    <3> U \in SUBSET Nat BY DEF U
    <3> QED BY <1>1, LeastOf
  <2>2. x # 0 /\ x - 1 \in Nat /\ x - 1 \notin U
    BY <2>1
  <2>3. x - 1 \in T /\ (x - 1) + 1 = x
    BY <2>1, <2>2
  <2> QED BY <2>1, <2>3
<1> QED BY <1>1

\* The function a replay is defined by exists
LEMMA ReplayFunction ==
    ASSUME NEW l, NEW es, Len(es) \in Nat
    PROVE  \E f : f = [k \in 0..Len(es) |-> IF k = 0 THEN l ELSE Queue!Applied(f[k - 1], es[k])]
<1> DEFINE Up(f, n) == f = [k \in 0..n |-> IF k = 0 THEN l ELSE Queue!Applied(f[k - 1], es[k])]
           T == {n \in Nat : \E f : Up(f, n)}
<1>1. 0 \in T
  <2>1. Up([k \in 0..0 |-> l], 0)
    OBVIOUS
  <2> QED
    BY <2>1
<1>2. ASSUME NEW n \in T PROVE n + 1 \in T
  <2>1. PICK f : Up(f, n)
    OBVIOUS
  <2> DEFINE g == [k \in 0..(n + 1) |-> IF k = n + 1 THEN Queue!Applied(f[n],
        es[n + 1]) ELSE f[k]]
  <2>2. ASSUME NEW k \in 0..(n + 1)
        PROVE g[k] = IF k = 0 THEN l ELSE Queue!Applied(g[k - 1], es[k])
    <3>1. CASE k = n + 1
      BY <3>1
    <3>2. CASE k # n + 1
      <4>1. f[k] = IF k = 0 THEN l ELSE Queue!Applied(f[k - 1], es[k])
        BY <2>1, <3>2
      <4>2. k # 0 => g[k - 1] = f[k - 1]
        BY <3>2
      <4> QED
        BY <3>2, <4>1, <4>2
    <3> QED
      BY <3>1, <3>2
  <2>3. PICK h : h = g
    OBVIOUS
  <2>4. h = [k \in 0..(n + 1) |-> IF k = 0 THEN l ELSE Queue!Applied(g[k - 1], es[k])]
    BY <2>2, <2>3
  <2> HIDE DEF g
  <2>5. Up(h, n + 1)
    BY <2>3, <2>4
  <2>6. n + 1 \in Nat
    OBVIOUS
  <2> HIDE DEF Up
  <2> QED
    BY <2>5, <2>6
<1> HIDE DEF T
<1>3. T = Nat
  <2>1. T \in SUBSET Nat
    BY DEF T
  <2> QED
    BY <1>1, <1>2, <2>1, Induction
<1>4. Len(es) \in T
  BY <1>3
<1> QED
  BY <1>4 DEF T

\* what every replay goes through
LEMMA ReplaySteps ==
    ASSUME NEW l, NEW es, Len(es) \in Nat
    PROVE  \E f : /\ f[0] = l /\ f[Len(es)] = Queue!Replay(l, es)
                  /\ \A k \in 1..Len(es) : f[k] = Queue!Applied(f[k - 1], es[k])
<1> DEFINE Up(f) == f = [k \in 0..Len(es) |-> IF k = 0 THEN l ELSE Queue!Applied(f[k - 1], es[k])]
           c == CHOOSE f : Up(f)
<1>1. Up(c)
  BY ReplayFunction
<1>2. Queue!Replay(l, es) = c[Len(es)]
  BY DEF Queue!Replay
<1>3. PICK f : f = c
  OBVIOUS
<1> HIDE DEF c
<1>4. f[0] = l /\ \A k \in 1..Len(es) : f[k] = Queue!Applied(f[k - 1], es[k])
  BY <1>1, <1>3
<1> QED
  BY <1>2, <1>3, <1>4

\* Whatever goes through the events one by one ends where the replay does.
LEMMA ReplayIs ==
    ASSUME NEW l, NEW es, Len(es) \in Nat, NEW g, g[0] = l,
           \A k \in 1..Len(es) : g[k] = Queue!Applied(g[k - 1], es[k])
    PROVE  Queue!Replay(l, es) = g[Len(es)]
<1>1. PICK f : /\ f[0] = l /\ f[Len(es)] = Queue!Replay(l, es)
               /\ \A k \in 1..Len(es) : f[k] = Queue!Applied(f[k - 1], es[k])
  BY ReplaySteps
<1> DEFINE T == {n \in Nat : n <= Len(es) => f[n] = g[n]}
<1>2. 0 \in T
  BY <1>1
<1>3. ASSUME NEW n \in T PROVE n + 1 \in T
  <2>1. CASE n + 1 <= Len(es)
    <3>1. n + 1 \in 1..Len(es) /\ (n + 1) - 1 = n /\ f[n] = g[n]
      BY <2>1
    <3>2. f[n + 1] = Queue!Applied(f[n], es[n + 1]) /\ g[n + 1] = Queue!Applied(g[n], es[n + 1])
      BY <1>1, <3>1
    <3> QED
      BY <3>1, <3>2
  <2> QED
    BY <2>1
<1> HIDE DEF T
<1>4. T = Nat
  <2>1. T \in SUBSET Nat
    BY DEF T
  <2> QED
    BY <1>2, <1>3, <2>1, Induction
<1>5. f[Len(es)] = g[Len(es)]
  BY <1>4 DEF T
<1> QED
  BY <1>1, <1>5

(***************************************************************************)
(* What a replay shows                                                     *)
(***************************************************************************)

\* The states of a job.
QueueStates == {"queued", "running", "done", "failed", "cancelled", "skipped"}
\* A job as it is listed.
QueueJobs == [id : Nat, st : QueueStates, got : Nat, of : Nat]
\* What the queue says: of one job, or its whole list.
QueueEvents == [type : {"job"}, job : QueueJobs] \cup
               [type : {"state"}, jobs : Seq(QueueJobs), paused : BOOLEAN]
\* The jobs of a list.
Listed(l) == {l[i] : i \in DOMAIN l}

\* Without events the list stays.
LEMMA ReplayNothing ==
    ASSUME NEW l
    PROVE  Queue!Replay(l, <<>>) = l
<1>1. Len(<<>>) = 0
  OBVIOUS
<1>2. PICK f : /\ f[0] = l /\ f[Len(<<>>)] = Queue!Replay(l, <<>>)
  BY <1>1, ReplaySteps
<1> QED
  BY <1>1, <1>2

\* Events may be replayed in two parts.
LEMMA ReplayConcat ==
    ASSUME NEW l, NEW S, NEW a \in Seq(S), NEW b \in Seq(S)
    PROVE  Queue!Replay(l, a \o b) = Queue!Replay(Queue!Replay(l, a), b)
<1>0. PICK m : m = Queue!Replay(l, a)
  OBVIOUS
<1>1. Len(a) \in Nat /\ Len(b) \in Nat /\ Len(a \o b) = Len(a) + Len(b)
  OBVIOUS
<1>2. PICK f : /\ f[0] = l /\ f[Len(a)] = m
               /\ \A k \in 1..Len(a) : f[k] = Queue!Applied(f[k - 1], a[k])
  BY <1>0, <1>1, ReplaySteps
<1>3. PICK g : /\ g[0] = m /\ g[Len(b)] = Queue!Replay(m, b)
               /\ \A k \in 1..Len(b) : g[k] = Queue!Applied(g[k - 1], b[k])
  BY <1>1, ReplaySteps
<1> DEFINE h == [k \in 0..(Len(a) + Len(b)) |-> IF k <= Len(a) THEN f[k] ELSE g[k - Len(a)]]
<1>4. h[0] = l
  BY <1>1, <1>2
<1>5. ASSUME NEW k \in 1..Len(a \o b) PROVE h[k] = Queue!Applied(h[k - 1], (a \o b)[k])
  <2>1. CASE k <= Len(a)
    <3>1. (a \o b)[k] = a[k] /\ k \in 1..Len(a)
      BY <1>1, <2>1, ConcatProperties
    <3>2. h[k] = f[k] /\ h[k - 1] = f[k - 1]
      BY <1>1, <2>1
    <3> QED
      BY <1>2, <3>1, <3>2
  <2>2. CASE k > Len(a)
    <3>1. (a \o b)[k] = b[k - Len(a)] /\ k - Len(a) \in 1..Len(b)
      BY <1>1, <2>2, ConcatProperties
    <3>2. h[k] = g[k - Len(a)]
      BY <1>1, <2>2
    <3>3. h[k - 1] = g[(k - Len(a)) - 1]
      <4>1. CASE k - 1 = Len(a)
        <5>1. (k - Len(a)) - 1 = 0 /\ h[k - 1] = f[Len(a)]
          BY <1>1, <4>1
        <5> QED
          BY <1>2, <1>3, <5>1
      <4>2. CASE k - 1 > Len(a)
        <5>1. k - 1 \in 0..(Len(a) + Len(b)) /\ ~(k - 1 <= Len(a))
          BY <1>1, <4>2
        <5>2. (k - 1) - Len(a) = (k - Len(a)) - 1
          BY <1>1
        <5> QED
          BY <5>1, <5>2
      <4>3. k - 1 = Len(a) \/ k - 1 > Len(a)
        <5> HIDE DEF h
        <5> QED
          BY <1>1, <2>2
      <4> HIDE DEF h
      <4> QED
        BY <4>1, <4>2, <4>3
    <3> QED
      BY <1>3, <3>1, <3>2, <3>3
  <2> QED
    BY <1>1, <2>1, <2>2
<1>6. h[Len(a \o b)] = Queue!Replay(m, b)
  <2>1. CASE Len(b) = 0
    BY <1>1, <1>2, <1>3, <2>1
  <2>2. CASE Len(b) > 0
    BY <1>1, <1>3, <2>2
  <2> QED
    BY <1>1, <2>1, <2>2
<1>7. Queue!Replay(l, a \o b) = h[Len(a \o b)]
  <2>1. PICK i : i = h
    OBVIOUS
  <2>2. /\ Len(a \o b) \in Nat /\ i[0] = l
        /\ \A k \in 1..Len(a \o b) : i[k] = Queue!Applied(i[k - 1], (a \o b)[k])
    <3> HIDE DEF h
    <3> QED
      BY <1>1, <1>4, <1>5, <2>1
  <2> HIDE DEF h
  <2> QED
    BY <2>1, <2>2, ReplayIs
<1> QED
  BY <1>0, <1>6, <1>7

\* One event is applied to the list.
LEMMA ReplayOne ==
    ASSUME NEW l, NEW e
    PROVE  Queue!Replay(l, <<e>>) = Queue!Applied(l, e)
<1>1. Len(<<e>>) = 1 /\ <<e>>[1] = e
  OBVIOUS
<1>2. PICK s : s = <<e>>
  OBVIOUS
<1>3. Len(s) = 1 /\ s[1] = e
  BY <1>1, <1>2
<1>4. PICK f : /\ f[0] = l /\ f[Len(s)] = Queue!Replay(l, s)
               /\ \A k \in 1..Len(s) : f[k] = Queue!Applied(f[k - 1], s[k])
  BY <1>3, ReplaySteps
<1>5. f[1] = Queue!Applied(f[1 - 1], s[1])
  BY <1>3, <1>4
<1>6. Queue!Replay(l, s) = Queue!Applied(l, e)
  BY <1>3, <1>4, <1>5
<1> QED
  BY <1>2, <1>6

\* Whatever was there before, a state event brings its own list.
LEMMA ReplayState ==
    ASSUME NEW l, NEW S, NEW a \in Seq(S), NEW j, NEW p, Queue!StateEvent(j, p) \in S
    PROVE  Queue!Replay(l, a \o <<Queue!StateEvent(j, p)>>) = j
<1>0. PICK e : e = Queue!StateEvent(j, p)
  OBVIOUS
<1>1. Queue!Replay(l, a \o <<e>>) = Queue!Replay(Queue!Replay(l, a), <<e>>)
  <2>1. <<e>> \in Seq(S)
    BY <1>0
  <2>2. \A b \in Seq(S) : Queue!Replay(l, a \o b) = Queue!Replay(Queue!Replay(l, a), b)
    BY ReplayConcat
  <2> QED
    BY <2>1, <2>2
<1>2. e.type = "state" /\ e.jobs = j
  BY <1>0 DEF Queue!StateEvent
<1>3. Queue!Applied(Queue!Replay(l, a), e) = j
  BY <1>2 DEF Queue!Applied
<1> QED
  BY <1>0, <1>1, <1>3, ReplayOne

\* The list stays a list of jobs, one event after the other.
LEMMA AppliedTypes ==
    ASSUME NEW l \in Seq(QueueJobs), NEW e \in QueueEvents
    PROVE  Queue!Applied(l, e) \in Seq(QueueJobs)
<1>1. CASE e.type = "state"
  BY <1>1 DEF Queue!Applied, QueueEvents
<1>2. CASE e.type # "state"
  <2>1. e.job \in QueueJobs
    BY <1>2 DEF QueueEvents
  <2>2. [i \in DOMAIN l |-> IF l[i].id = e.job.id THEN e.job ELSE l[i]] \in Seq(QueueJobs)
    <3>1. DOMAIN l = 1..Len(l) /\ Len(l) \in Nat
      OBVIOUS
    <3> QED
      BY <2>1, <3>1
  <2>3. Append(l, e.job) \in Seq(QueueJobs)
    BY <2>1
  <2> QED
    BY <1>2, <2>2, <2>3 DEF Queue!Applied
<1> QED
  BY <1>1, <1>2

\* The jobs of the list after an event: that of the event, and the others.
LEMMA AppliedLists ==
    ASSUME NEW l \in Seq(QueueJobs), NEW e \in QueueEvents
    PROVE  Listed(Queue!Applied(l, e)) =
             IF e.type = "state" THEN Listed(e.jobs)
             ELSE {j \in Listed(l) : j.id # e.job.id} \cup {e.job}
<1>1. CASE e.type = "state"
  BY <1>1 DEF Queue!Applied
<1>2. CASE e.type # "state" /\ \E i \in DOMAIN l : l[i].id = e.job.id
  <2> DEFINE r == [i \in DOMAIN l |-> IF l[i].id = e.job.id THEN e.job ELSE l[i]]
  <2>1. Queue!Applied(l, e) = r
    BY <1>2 DEF Queue!Applied
  <2>2. Listed(r) \subseteq {j \in Listed(l) : j.id # e.job.id} \cup {e.job}
    BY DEF Listed
  <2>3. {j \in Listed(l) : j.id # e.job.id} \subseteq Listed(r)
    BY DEF Listed
  <2>4. e.job \in Listed(r)
    BY <1>2 DEF Listed
  <2> HIDE DEF r
  <2> QED
    BY <1>2, <2>1, <2>2, <2>3, <2>4
<1>3. CASE e.type # "state" /\ ~\E i \in DOMAIN l : l[i].id = e.job.id
  <2> DEFINE r == Append(l, e.job)
  <2>1. Queue!Applied(l, e) = r
    BY <1>3 DEF Queue!Applied
  <2>2. e.job \in QueueJobs /\ Len(l) \in Nat /\ DOMAIN l = 1..Len(l)
    BY <1>3 DEF QueueEvents
  <2>3. /\ DOMAIN r = 1..(Len(l) + 1) /\ r[Len(l) + 1] = e.job
        /\ \A i \in 1..Len(l) : r[i] = l[i]
    BY <2>2
  <2> HIDE DEF r
  <2>4. Listed(r) = Listed(l) \cup {e.job}
    BY <2>2, <2>3 DEF Listed
  <2>5. \A j \in Listed(l) : j.id # e.job.id
    BY <1>3 DEF Listed
  <2> QED
    BY <1>3, <2>1, <2>4, <2>5
<1> QED
  BY <1>1, <1>2, <1>3

\* A replay of events on a part of a list shows a part of what it shows on the list.
LEMMA ReplayShowsLess ==
    ASSUME NEW a \in Seq(QueueJobs), NEW b \in Seq(QueueJobs), Listed(a) \subseteq Listed(b),
           NEW es \in Seq(QueueEvents)
    PROVE  /\ Queue!Replay(a, es) \in Seq(QueueJobs) /\ Queue!Replay(b, es) \in Seq(QueueJobs)
           /\ Listed(Queue!Replay(a, es)) \subseteq Listed(Queue!Replay(b, es))
<1>1. Len(es) \in Nat
  OBVIOUS
<1>2. PICK f : /\ f[0] = a /\ f[Len(es)] = Queue!Replay(a, es)
               /\ \A k \in 1..Len(es) : f[k] = Queue!Applied(f[k - 1], es[k])
  BY <1>1, ReplaySteps
<1>3. PICK g : /\ g[0] = b /\ g[Len(es)] = Queue!Replay(b, es)
               /\ \A k \in 1..Len(es) : g[k] = Queue!Applied(g[k - 1], es[k])
  BY <1>1, ReplaySteps
<1> DEFINE Ok(n) == f[n] \in Seq(QueueJobs) /\ g[n] \in Seq(QueueJobs)
      /\ Listed(f[n]) \subseteq Listed(g[n])
           T == {n \in Nat : n <= Len(es) => Ok(n)}
<1>4. 0 \in T
  BY <1>2, <1>3
<1>5. ASSUME NEW n \in T PROVE n + 1 \in T
  <2>1. CASE n + 1 <= Len(es)
    <3>1. n + 1 \in 1..Len(es) /\ (n + 1) - 1 = n /\ Ok(n) /\ es[n + 1] \in QueueEvents
      BY <2>1
    <3>2. f[n + 1] = Queue!Applied(f[n], es[n + 1]) /\ g[n + 1] = Queue!Applied(g[n], es[n + 1])
      BY <1>2, <1>3, <3>1
    <3>3. f[n + 1] \in Seq(QueueJobs) /\ g[n + 1] \in Seq(QueueJobs)
      BY <3>1, <3>2, AppliedTypes
    <3>4. Listed(f[n + 1]) \subseteq Listed(g[n + 1])
      BY <3>1, <3>2, AppliedLists
    <3> QED
      BY <3>3, <3>4
  <2>2. CASE ~(n + 1 <= Len(es))
    BY <2>2
  <2> QED
    BY <2>1, <2>2
<1> HIDE DEF T
<1>6. T = Nat
  <2>1. T \in SUBSET Nat
    BY DEF T
  <2> QED
    BY <1>4, <1>5, <2>1, Induction
<1>7. Ok(Len(es))
  <2>1. Len(es) \in T
    BY <1>1, <1>6
  <2> HIDE DEF Ok
  <2> QED
    BY <1>1, <2>1 DEF T
<1> QED
  BY <1>2, <1>3, <1>7

(***************************************************************************)
(* The log, cut at its older end                                           *)
(***************************************************************************)

\* One part of the events after another.
Joined(a, b) == a \o b

\* Parts join to events, in whatever order they are joined.
LEMMA JoinedFacts ==
    /\ \A a, b \in Seq(QueueEvents) : Joined(a, b) \in Seq(QueueEvents)
         /\ Len(Joined(a, b)) = Len(a) + Len(b)
    /\ \A a, b, c \in Seq(QueueEvents) : Joined(Joined(a, b), c) = Joined(a, Joined(b, c))
    /\ \A a \in Seq(QueueEvents), e \in QueueEvents : Append(a, e) = Joined(a, <<e>>)
<1>1. \A a, b \in Seq(QueueEvents) : a \o b \in Seq(QueueEvents) /\ Len(a \o b) = Len(a) + Len(b)
  BY ConcatProperties
<1>2. \A a, b, c \in Seq(QueueEvents) : (a \o b) \o c = a \o (b \o c)
  BY ConcatAssociative
<1>3. \A a \in Seq(QueueEvents), e \in QueueEvents : Append(a, e) = a \o <<e>>
  BY AppendIsConcat
<1> QED
  BY <1>1, <1>2, <1>3, Zenon DEF Joined

\* Two ways to cut the same events: the longer end holds the shorter.
LEMMA CutConcat ==
    ASSUME NEW x \in Seq(QueueEvents), NEW y \in Seq(QueueEvents), NEW u \in Seq(QueueEvents),
           NEW v \in Seq(QueueEvents),
           Joined(x, y) = Joined(u, v), Len(y) <= Len(v)
    PROVE  \E t \in Seq(QueueEvents) : v = Joined(t, y) /\ x = Joined(u, t)
<1>0. x \o y = u \o v
  BY DEF Joined
<1> DEFINE n == Len(v) - Len(y)
           z == x \o y
<1>1. Len(x) \in Nat /\ Len(y) \in Nat /\ Len(u) \in Nat /\ Len(v) \in Nat
  OBVIOUS
<1>2. /\ Len(x) + Len(y) = Len(u) + Len(v)
      /\ \A i \in 1..(Len(x) + Len(y)) : z[i] = IF i <= Len(x) THEN x[i] ELSE y[i - Len(x)]
      /\ \A i \in 1..(Len(u) + Len(v)) : z[i] = IF i <= Len(u) THEN u[i] ELSE v[i - Len(u)]
  <2>1. /\ Len(z) = Len(x) + Len(y)
        /\ \A i \in 1..(Len(x) + Len(y)) : z[i] = IF i <= Len(x) THEN x[i] ELSE y[i - Len(x)]
    BY ConcatProperties
  <2>2. /\ Len(u \o v) = Len(u) + Len(v)
        /\ \A i \in 1..(Len(u) + Len(v)) : (u \o v)[i] = IF i <= Len(u) THEN u[i]
             ELSE v[i - Len(u)]
    BY ConcatProperties
  <2> QED
    BY <1>0, <2>1, <2>2
<1>3. PICK t : t = SubSeq(v, 1, n)
  OBVIOUS
<1>4. n \in Nat /\ n <= Len(v) /\ n = Len(x) - Len(u) /\ Len(u) <= Len(x)
  BY <1>1, <1>2
<1>5. t \in Seq(QueueEvents) /\ Len(t) = n /\ \A i \in 1..n : t[i] = v[i]
  <2>1. \A i \in 1..n : v[i] \in QueueEvents
    BY <1>1, <1>4
  <2>2. 1 \in Int /\ n \in Int
    BY <1>4
  <2>3. /\ SubSeq(v, 1, n) \in Seq(QueueEvents)
             /\ Len(SubSeq(v, 1, n)) = IF 1 <= n THEN n - 1 + 1 ELSE 0
        /\ \A i \in 1..(n - 1 + 1) : SubSeq(v, 1, n)[i] = v[1 + i - 1]
    <3> HIDE DEF n
    <3> QED
      BY <2>1, <2>2, SubSeqProperties
  <2> QED
    BY <1>3, <1>4, <2>3
<1> HIDE DEF n, z
<1>6. v = t \o y
  <2>1. /\ t \o y \in Seq(QueueEvents) /\ Len(t \o y) = Len(t) + Len(y)
        /\ \A i \in 1..(Len(t) + Len(y)) : (t \o y)[i] = IF i <= Len(t) THEN t[i]
             ELSE y[i - Len(t)]
    BY <1>5, ConcatProperties
  <2>2. Len(v) = Len(t \o y)
    BY <1>1, <1>5, <2>1 DEF n
  <2>3. ASSUME NEW i \in 1..Len(v) PROVE v[i] = (t \o y)[i]
    <3>1. CASE i <= n
      BY <1>1, <1>4, <1>5, <2>1, <2>2, <3>1
    <3>2. CASE i > n
      <4>1. /\ Len(u) + i \in 1..(Len(u) + Len(v)) /\ ~(Len(u) + i <= Len(u))
                 /\ (Len(u) + i) - Len(u) = i
            /\ ~(Len(u) + i <= Len(x)) /\ (Len(u) + i) - Len(x) = i - n
        BY <1>1, <1>4, <3>2
      <4>2. z[Len(u) + i] = v[i] /\ z[Len(u) + i] = y[i - n]
        BY <1>2, <4>1
      <4>3. (t \o y)[i] = y[i - n]
        BY <1>1, <1>4, <1>5, <2>1, <2>2, <3>2
      <4> QED
        BY <4>2, <4>3
    <3>3. i <= n \/ i > n
      BY <1>1, <1>4
    <3> QED
      BY <3>1, <3>2, <3>3
  <2> QED
    BY <2>1, <2>2, <2>3, SeqEqual
<1>7. x = u \o t
  <2>1. /\ u \o t \in Seq(QueueEvents) /\ Len(u \o t) = Len(u) + Len(t)
        /\ \A i \in 1..(Len(u) + Len(t)) : (u \o t)[i] = IF i <= Len(u) THEN u[i]
             ELSE t[i - Len(u)]
    BY <1>5, ConcatProperties
  <2>2. Len(x) = Len(u \o t)
    BY <1>1, <1>4, <1>5, <2>1
  <2>3. ASSUME NEW i \in 1..Len(x) PROVE x[i] = (u \o t)[i]
    <3>1. z[i] = x[i] /\ i \in 1..(Len(u) + Len(v))
      BY <1>1, <1>2
    <3>2. CASE i <= Len(u)
      BY <1>1, <1>2, <2>1, <2>2, <3>1, <3>2
    <3>3. CASE i > Len(u)
      <4>1. z[i] = v[i - Len(u)]
        BY <1>1, <1>2, <3>1, <3>3
      <4>2. i - Len(u) \in 1..n
        BY <1>1, <1>4, <3>3
      <4>3. (u \o t)[i] = t[i - Len(u)]
        BY <1>1, <2>1, <2>2, <3>3
      <4> QED
        BY <1>5, <3>1, <4>1, <4>2, <4>3
    <3>4. i <= Len(u) \/ i > Len(u)
      BY <1>1
    <3> QED
      BY <3>2, <3>3, <3>4
  <2> QED
    BY <2>1, <2>2, <2>3, SeqEqual
<1> QED
  BY <1>5, <1>6, <1>7, Zenon DEF Joined

\* The bounds are numbers, and the log keeps something.
LEMMA FeedNumbers ==
    /\ LogCap \in Nat /\ LogKeep \in Nat /\ MaxJobs \in Nat /\ MaxSeq \in Nat /\ Limit \in Nat
    /\ 0 < LogKeep /\ LogKeep <= LogCap /\ Sizes \subseteq Nat
  BY WindowsAssumption DEF WindowsAssumption, Queue!FeedAssumption

\* A log with one more event: at most its older part has gone.
LEMMA AppendedCuts ==
    ASSUME NEW l \in Seq(QueueEvents), NEW e \in QueueEvents, Len(l) <= LogCap
    PROVE  LET m == Queue!Appended(l, e) IN
           /\ m \in Seq(QueueEvents) /\ Len(m) \in 1..LogCap /\ Len(m) <= Len(l) + 1
           /\ \E c \in Seq(QueueEvents) : Append(l, e) = c \o m
<1> DEFINE a == Append(l, e)
<1>1. a \in Seq(QueueEvents) /\ Len(a) = Len(l) + 1 /\ Len(l) \in Nat
  OBVIOUS
<1>2. CASE Len(l) # LogCap
  <2>1. Queue!Appended(l, e) = a
    BY <1>2 DEF Queue!Appended
  <2>2. a = <<>> \o a /\ <<>> \in Seq(QueueEvents)
    BY <1>1
  <2>3. Len(a) \in 1..LogCap /\ Len(a) <= Len(l) + 1
    BY <1>1, <1>2, FeedNumbers
  <2>4. PICK b : b = a
    OBVIOUS
  <2>5. /\ b \in Seq(QueueEvents) /\ Len(b) \in 1..LogCap /\ Len(b) <= Len(l) + 1
        /\ \E c \in Seq(QueueEvents) : b = c \o b
    BY <1>1, <2>2, <2>3, <2>4
  <2> QED
    BY <2>1, <2>4, <2>5
<1>3. CASE Len(l) = LogCap
  <2> DEFINE k == Len(l) + 1 - LogKeep
  <2>1. Queue!Appended(l, e) = SubSeq(a, Len(l) + 2 - LogKeep, Len(l) + 1)
    BY <1>3 DEF Queue!Appended
  <2>2. k \in 0..Len(a) /\ Len(l) + 2 - LogKeep = k + 1 /\ Len(l) + 1 = Len(a) /\ k \in 1..Len(l)
    BY <1>1, <1>3, FeedNumbers
  <2> HIDE DEF a, k
  <2>3. SubSeq(a, 1, k) \o SubSeq(a, k + 1, Len(a)) = a
    <3>1. 1 \in 1..(Len(a) + 1) /\ k \in (1 - 1)..Len(a) /\ Len(a) \in k..Len(a)
      BY <1>1, <2>2
    <3>2. SubSeq(a, 1, k) \o SubSeq(a, k + 1, Len(a)) = SubSeq(a, 1, Len(a))
      BY <1>1, <3>1, ConcatAdjacentSubSeq
    <3> QED
      BY <1>1, <3>2, SubSeqFull
  <2>4. SubSeq(a, 1, k) \in Seq(QueueEvents) /\ SubSeq(a, k + 1, Len(a)) \in Seq(QueueEvents)
        /\ Len(SubSeq(a, k + 1, Len(a))) = Len(a) - k
    BY <1>1, <2>2
  <2>5. Len(a) - k = LogKeep
    BY <1>1, FeedNumbers DEF k
  <2>6. Queue!Appended(l, e) = SubSeq(a, k + 1, Len(a))
    BY <2>1, <2>2
  <2>7. Len(Queue!Appended(l, e)) = LogKeep
    BY <2>4, <2>5, <2>6
  <2>8. Append(l, e) = a
    BY DEF a
  <2>9. /\ Len(Queue!Appended(l, e)) \in 1..LogCap
        /\ Len(Queue!Appended(l, e)) <= Len(l) + 1
    BY <1>1, <1>3, <2>7, FeedNumbers
  <2> QED
    BY <2>3, <2>4, <2>6, <2>8, <2>9
<1> QED
  BY <1>2, <1>3

(***************************************************************************)
(* What is left of the log                                                 *)
(***************************************************************************)

\* The function a log is defined by exists.
LEMMA LoggedFunction ==
    ASSUME NEW l, NEW es, Len(es) \in Nat
    PROVE  \E f : f = [k \in 0..Len(es) |-> IF k = 0 THEN l ELSE Queue!Appended(f[k - 1], es[k])]
<1> DEFINE Up(f, n) == f = [k \in 0..n |-> IF k = 0 THEN l ELSE Queue!Appended(f[k - 1], es[k])]
           T == {n \in Nat : \E f : Up(f, n)}
<1>1. 0 \in T
  <2>1. Up([k \in 0..0 |-> l], 0)
    OBVIOUS
  <2> QED
    BY <2>1
<1>2. ASSUME NEW n \in T PROVE n + 1 \in T
  <2>1. PICK f : Up(f, n)
    OBVIOUS
  <2> DEFINE g == [k \in 0..(n + 1) |-> IF k = n + 1 THEN Queue!Appended(f[n],
        es[n + 1]) ELSE f[k]]
  <2>2. ASSUME NEW k \in 0..(n + 1)
        PROVE g[k] = IF k = 0 THEN l ELSE Queue!Appended(g[k - 1], es[k])
    <3>1. CASE k = n + 1
      BY <3>1
    <3>2. CASE k # n + 1
      <4>1. f[k] = IF k = 0 THEN l ELSE Queue!Appended(f[k - 1], es[k])
        BY <2>1, <3>2
      <4>2. k # 0 => g[k - 1] = f[k - 1]
        BY <3>2
      <4> QED
        BY <3>2, <4>1, <4>2
    <3> QED
      BY <3>1, <3>2
  <2>3. PICK h : h = g
    OBVIOUS
  <2>4. h = [k \in 0..(n + 1) |-> IF k = 0 THEN l ELSE Queue!Appended(g[k - 1], es[k])]
    BY <2>2, <2>3
  <2> HIDE DEF g
  <2>5. Up(h, n + 1)
    BY <2>3, <2>4
  <2>6. n + 1 \in Nat
    OBVIOUS
  <2> HIDE DEF Up
  <2> QED
    BY <2>5, <2>6
<1> HIDE DEF T
<1>3. T = Nat
  <2>1. T \in SUBSET Nat
    BY DEF T
  <2> QED
    BY <1>1, <1>2, <2>1, Induction
<1>4. Len(es) \in T
  BY <1>3
<1> QED
  BY <1>4 DEF T

\* What every log goes through.
LEMMA LoggedSteps ==
    ASSUME NEW l, NEW es, Len(es) \in Nat
    PROVE  \E f : /\ f[0] = l /\ f[Len(es)] = Queue!Logged(l, es)
                  /\ \A k \in 1..Len(es) : f[k] = Queue!Appended(f[k - 1], es[k])
<1> DEFINE Up(f) == f = [k \in 0..Len(es) |-> IF k = 0 THEN l ELSE Queue!Appended(f[k - 1],
      es[k])]
           c == CHOOSE f : Up(f)
<1>1. Up(c)
  BY LoggedFunction
<1>2. Queue!Logged(l, es) = c[Len(es)]
  BY DEF Queue!Logged
<1>3. PICK f : f = c
  OBVIOUS
<1> HIDE DEF c
<1>4. f[0] = l /\ \A k \in 1..Len(es) : f[k] = Queue!Appended(f[k - 1], es[k])
  BY <1>1, <1>3
<1> QED
  BY <1>2, <1>3, <1>4

\* What is left of s at its end.
EndsIn(s, m) == \E b \in Seq(QueueEvents) : s = Joined(b, m)

\* One event more: what was cut before joins what is cut now.
LEMMA LoggedOne ==
    ASSUME NEW l \in Seq(QueueEvents), NEW s \in Seq(QueueEvents),
           NEW m \in Seq(QueueEvents), NEW e \in QueueEvents, Len(m) <= LogCap,
             EndsIn(Joined(l, s), m)
    PROVE  EndsIn(Joined(l, Append(s, e)), Queue!Appended(m, e))
<1>1. PICK c \in Seq(QueueEvents) : Joined(l, s) = Joined(c, m)
  BY DEF EndsIn
<1>2. PICK a \in Seq(QueueEvents) : a = Queue!Appended(m, e)
  BY AppendedCuts
<1>3. PICK d \in Seq(QueueEvents) : Append(m, e) = Joined(d, a)
  BY <1>2, AppendedCuts DEF Joined
<1>9. <<e>> \in Seq(QueueEvents)
  OBVIOUS
<1>4. PICK w \in Seq(QueueEvents) : w = <<e>>
  BY <1>9, Zenon
<1>8. Append(s, e) = Joined(s, w) /\ Append(m, e) = Joined(m, w)
  BY <1>4, JoinedFacts
<1>5. Joined(l, Append(s, e)) = Joined(Joined(l, s), w)
  BY <1>8, JoinedFacts
<1>6. Joined(Joined(c, m), w) = Joined(Joined(c, d), a)
  <2>1. Joined(Joined(c, m), w) = Joined(c, Joined(m, w))
    BY JoinedFacts
  <2>2. Joined(Joined(c, d), a) = Joined(c, Joined(d, a))
    BY JoinedFacts
  <2> QED
    BY <1>3, <1>8, <2>1, <2>2, Zenon
<1>7. Joined(c, d) \in Seq(QueueEvents)
  BY JoinedFacts, Zenon
<1> QED
  BY <1>1, <1>2, <1>5, <1>6, <1>7, Zenon DEF EndsIn

\* The log after new events is what is left at the end of the old one and the new ones.
LEMMA LoggedCuts ==
    ASSUME NEW l \in Seq(QueueEvents), Len(l) <= LogCap, NEW es \in Seq(QueueEvents)
    PROVE  /\ Queue!Logged(l, es) \in Seq(QueueEvents) /\ Len(Queue!Logged(l, es)) <= LogCap
           /\ Len(Queue!Logged(l, es)) <= Len(l) + Len(es)
           /\ Len(l) > 0 \/ Len(es) > 0 => Len(Queue!Logged(l, es)) > 0
           /\ EndsIn(Joined(l, es), Queue!Logged(l, es))
<1>1. Len(es) \in Nat /\ Len(l) \in Nat /\ DOMAIN es = 1..Len(es)
  OBVIOUS
<1>2. PICK f : /\ f[0] = l /\ f[Len(es)] = Queue!Logged(l, es)
               /\ \A k \in 1..Len(es) : f[k] = Queue!Appended(f[k - 1], es[k])
  BY <1>1, LoggedSteps
<1> DEFINE Ok(n) == /\ f[n] \in Seq(QueueEvents) /\ Len(f[n]) <= LogCap /\ Len(f[n]) <= Len(l) + n
                    /\ Len(l) > 0 \/ n > 0 => Len(f[n]) > 0
                    /\ EndsIn(Joined(l, SubSeq(es, 1, n)), f[n])
           T == {n \in Nat : n <= Len(es) => Ok(n)}
<1>3. 0 \in T
  <2>1. SubSeq(es, 1, 0) = <<>> /\ <<>> \in Seq(QueueEvents)
    BY SubSeqEmpty
  <2>2. l \o <<>> = <<>> \o l
    OBVIOUS
  <2>3. Joined(l, SubSeq(es, 1, 0)) = Joined(<<>>, f[0])
    BY <1>2, <2>1, <2>2 DEF Joined
  <2>4. Len(f[0]) <= LogCap /\ Len(f[0]) <= Len(l) + 0 /\ f[0] \in Seq(QueueEvents)
    BY <1>1, <1>2, FeedNumbers
  <2>6. EndsIn(Joined(l, SubSeq(es, 1, 0)), f[0])
    BY <2>1, <2>3, Zenon DEF EndsIn
  <2>7. Len(l) > 0 \/ 0 > 0 => Len(f[0]) > 0
    BY <1>1, <1>2
  <2>5. Ok(0)
    BY <2>4, <2>6, <2>7
  <2> QED
    BY <2>5
<1>4. ASSUME NEW n \in T PROVE n + 1 \in T
  <2>1. CASE n + 1 <= Len(es)
    <3>1. n \in Nat /\ n + 1 \in 1..Len(es) /\ (n + 1) - 1 = n /\ es[n + 1] \in QueueEvents
      BY <1>1, <2>1
    <3>10. Ok(n)
      <4>1. n <= Len(es)
        BY <1>1, <2>1
      <4> HIDE DEF Ok
      <4> QED
        BY <4>1
    <3>2. PICK e, m, k, s : e = es[n + 1] /\ m = f[n] /\ k = f[n + 1] /\ s = SubSeq(es, 1, n)
      OBVIOUS
    <3>3. k = Queue!Appended(m, e) /\ e \in QueueEvents /\ m \in Seq(QueueEvents)
            /\ Len(m) <= LogCap
          /\ Len(m) <= Len(l) + n
      BY <1>2, <3>1, <3>2, <3>10
    <3>4. EndsIn(Joined(l, s), m)
      BY <3>2, <3>10
    <3>5. s \in Seq(QueueEvents) /\ SubSeq(es, 1, n + 1) = Append(s, e)
      <4>1. 1 \in 1..Len(es)
        BY <1>1, <3>1
      <4>2. n + 1 \in 1..Len(es)
        BY <3>1
      <4>3. SubSeq(es, 1, n + 1) = SubSeq(es, 1, (n + 1) - 1) \o <<es[n + 1]>>
        BY <4>1, <4>2, SubSeqRecursiveSecond
      <4>4. SubSeq(es, 1, n) \in Seq(QueueEvents)
        BY <1>1, <3>1
      <4>5. SubSeq(es, 1, n) \o <<e>> = Append(SubSeq(es, 1, n), e)
        BY <3>3, <4>4, AppendIsConcat
      <4> QED
        BY <3>1, <3>2, <4>3, <4>4, <4>5
    <3>6. /\ k \in Seq(QueueEvents) /\ Len(k) \in 1..LogCap /\ Len(k) <= Len(m) + 1
      BY <3>3, AppendedCuts
    <3>7. EndsIn(Joined(l, Append(s, e)), k)
      BY <3>3, <3>4, <3>5, LoggedOne
    <3>8. Len(k) <= LogCap /\ Len(k) <= Len(l) + (n + 1) /\ Len(k) > 0
      <4>1. Len(m) \in Nat
        BY <3>3
      <4> QED
        BY <1>1, <3>1, <3>3, <3>6, <4>1, FeedNumbers
    <3>9. Ok(n + 1)
      BY <3>2, <3>5, <3>6, <3>7, <3>8
    <3> HIDE DEF Ok
    <3> QED
      BY <3>1, <3>9
  <2>2. CASE ~(n + 1 <= Len(es))
    BY <2>2
  <2> QED
    BY <2>1, <2>2
<1> HIDE DEF T
<1>5. T = Nat
  <2>1. T \in SUBSET Nat
    BY DEF T
  <2> QED
    BY <1>3, <1>4, <2>1, Induction
<1>6. Ok(Len(es))
  <2>1. Len(es) \in T
    BY <1>1, <1>5
  <2> HIDE DEF Ok
  <2> QED
    BY <1>1, <2>1 DEF T
<1>7. SubSeq(es, 1, Len(es)) = es
  BY SubSeqFull
<1> QED
  BY <1>1, <1>2, <1>6, <1>7

(***************************************************************************)
(* The order in which the jobs are said                                    *)
(***************************************************************************)

\* Every set of slots has an order.
LEMMA OrderExists ==
    ASSUME NEW m \in Nat, NEW I \in SUBSET (1..m)
    PROVE  \E q \in [1..Cardinality(I) -> I] :
             Listed(q) = I /\ \A k, n \in DOMAIN q : k < n => q[k] < q[n]
<1> DEFINE Has(J) == \E q \in [1..Cardinality(J) -> J] :
                       Listed(q) = J /\ \A k, n \in DOMAIN q : k < n => q[k] < q[n]
           T == {n \in Nat : \A J \in SUBSET (1..m) : Cardinality(J) = n => Has(J)}
<1>1. \A J \in SUBSET (1..m) : IsFiniteSet(J) /\ Cardinality(J) \in Nat
  <2>1. IsFiniteSet(1..m)
    BY FS_Interval
  <2> QED
    BY <2>1, FS_Subset, FS_CardinalityType
<1>2. 0 \in T
  <2>1. ASSUME NEW J \in SUBSET (1..m), Cardinality(J) = 0 PROVE Has(J)
    <3>1. J = {}
      BY <1>1, <2>1, FS_EmptySet
    <3>2. PICK q : q = [k \in 1..0 |-> k]
      OBVIOUS
    <3>3. q \in [1..Cardinality(J) -> J] /\ Listed(q) = J /\ DOMAIN q = {}
      BY <2>1, <3>1, <3>2 DEF Listed
    <3> QED
      BY <3>3
  <2> HIDE DEF Has
  <2> QED
    BY <2>1
<1>3. ASSUME NEW n \in T PROVE n + 1 \in T
  <2>1. ASSUME NEW J \in SUBSET (1..m), Cardinality(J) = n + 1 PROVE Has(J)
    <3>1. J # {} /\ J \in SUBSET Nat
      BY <1>1, <2>1, FS_EmptySet
    <3>2. PICK x \in J : \A y \in J : x <= y
      BY <3>1, LeastOf
    <3>3. PICK K : K = J \ {x}
      OBVIOUS
    <3>4. K \in SUBSET (1..m) /\ Cardinality(K) = n
      <4>1. Cardinality(J \ {x}) = Cardinality(J) - 1
        BY <1>1, <3>2, FS_RemoveElement
      <4> QED
        BY <2>1, <3>3, <4>1
    <3>5. Has(K)
      <4> HIDE DEF Has
      <4> QED
        BY <3>4
    <3>6. PICK p \in [1..Cardinality(K) -> K] :
             Listed(p) = K /\ \A i, j \in DOMAIN p : i < j => p[i] < p[j]
      BY <3>5
    <3>7. PICK q : q = [k \in 1..(n + 1) |-> IF k = 1 THEN x ELSE p[k - 1]]
      OBVIOUS
    <3>8. n \in Nat /\ DOMAIN p = 1..n /\ \A i \in 1..n : p[i] \in K
      BY <3>4, <3>6
    <3>9. /\ DOMAIN q = 1..(n + 1) /\ q[1] = x
          /\ \A k \in 2..(n + 1) : k - 1 \in 1..n /\ q[k] = p[k - 1]
      BY <3>7, <3>8
    <3>10. q \in [1..Cardinality(J) -> J]
      <4>1. \A k \in 1..(n + 1) : (IF k = 1 THEN x ELSE p[k - 1]) \in J
        <5>1. \A k \in 1..(n + 1) : k # 1 => k - 1 \in 1..n
          BY <3>8
        <5> QED
          BY <3>2, <3>3, <3>8, <5>1
      <4>2. q \in [1..(n + 1) -> J]
        BY <3>7, <4>1
      <4> QED
        BY <2>1, <4>2
    <3>11. Listed(q) = J
      <4>1. \A i \in 1..n : i + 1 \in 2..(n + 1) /\ (i + 1) - 1 = i
        BY <3>8
      <4>2. K \subseteq Listed(q)
        BY <3>6, <3>8, <3>9, <4>1 DEF Listed
      <4>3. x \in Listed(q)
        BY <3>8, <3>9 DEF Listed
      <4>4. Listed(q) \subseteq J
        BY <3>10 DEF Listed
      <4> QED
        BY <3>3, <4>2, <4>3, <4>4
    <3>12. ASSUME NEW i \in DOMAIN q, NEW j \in DOMAIN q, i < j PROVE q[i] < q[j]
      <4>1. j \in 2..(n + 1) /\ j - 1 \in 1..n /\ q[j] = p[j - 1] /\ p[j - 1] \in K
        BY <3>8, <3>9, <3>12
      <4>2. CASE i = 1
        <5>1. p[j - 1] \in J /\ p[j - 1] # x /\ x \in Nat /\ p[j - 1] \in Nat
          BY <3>1, <3>2, <3>3, <4>1
        <5> QED
          BY <3>2, <3>9, <4>1, <4>2, <5>1
      <4>3. CASE i # 1
        <5>1. i \in 2..(n + 1) /\ i - 1 \in 1..n /\ q[i] = p[i - 1] /\ i - 1 < j - 1
          BY <3>8, <3>9, <3>12, <4>3
        <5> QED
          BY <3>6, <3>8, <4>1, <5>1
      <4> QED
        BY <4>2, <4>3
    <3> QED
      BY <3>10, <3>11, <3>12
  <2>2. n + 1 \in Nat
    OBVIOUS
  <2> HIDE DEF Has
  <2> QED
    BY <2>1, <2>2
<1> HIDE DEF T
<1>4. T = Nat
  <2>1. T \in SUBSET Nat
    BY DEF T
  <2> QED
    BY <1>2, <1>3, <2>1, Induction
<1>5. Cardinality(I) \in T
  BY <1>1, <1>4
<1> QED
  BY <1>5 DEF T

\* The slots in the order of the list: each once.
LEMMA OrderListed ==
    ASSUME NEW m \in Nat, NEW I \in SUBSET (1..m)
    PROVE  /\ Queue!InOrder(I) \in Seq(I) /\ Listed(Queue!InOrder(I)) = I
           /\ Queue!InOrder(I) \in Seq(1..m)
           /\ \A k, n \in DOMAIN Queue!InOrder(I) : Queue!InOrder(I)[k] = Queue!InOrder(I)[n]
                => k = n
<1> DEFINE Right(q) == Queue!Range(q) = I /\ \A k, n \in DOMAIN q : k < n => q[k] < q[n]
           F == [1..Queue!Cardinality(I) -> I]
           c == CHOOSE q \in F : Right(q)
<1>1. Queue!Cardinality(I) = Cardinality(I)
  BY DEF Queue!Cardinality, Cardinality
<1>2. \E q \in F : Right(q)
  BY <1>1, OrderExists DEF Listed, Queue!Range
<1>3. c \in F /\ Right(c)
  BY <1>2
<1>4. Queue!InOrder(I) = c
  BY DEF Queue!InOrder
<1>5. PICK q : q = c
  OBVIOUS
<1>6. Cardinality(I) \in Nat
  <2>1. IsFiniteSet(1..m)
    BY FS_Interval
  <2> QED
    BY <2>1, FS_Subset, FS_CardinalityType
<1> HIDE DEF c
<1>7. q \in [1..Cardinality(I) -> I] /\ Right(q) /\ DOMAIN q = 1..Cardinality(I)
  BY <1>1, <1>3, <1>5
<1>8. q \in Seq(I) /\ q \in Seq(1..m)
  <2> HIDE DEF Right
  <2>1. PICK n \in Nat : n = Cardinality(I)
    BY <1>6
  <2>2. q \in [1..n -> I] /\ q \in [1..n -> 1..m]
    BY <1>7, <2>1
  <2> QED
    BY <2>2
<1>9. \A k, n \in DOMAIN q : q[k] = q[n] => k = n
  <2>1. ASSUME NEW k \in DOMAIN q, NEW n \in DOMAIN q, q[k] = q[n], k # n PROVE FALSE
    <3>1. k < n \/ n < k
      BY <1>6, <1>7, <2>1
    <3>2. q[k] \in I /\ q[n] \in I
      BY <1>7
    <3>3. q[k] < q[n] \/ q[n] < q[k]
      BY <1>7, <2>1, <3>1
    <3> QED
      <4>1. q[k] \in Nat /\ q[k] = q[n]
        <5>1. \A i \in I : i \in Nat
          OBVIOUS
        <5> QED
          BY <2>1, <3>2, <5>1, Zenon
      <4> QED
        BY <3>3, <4>1
  <2> QED
    BY <2>1
<1>10. Listed(q) = I
  BY <1>7 DEF Listed, Queue!Range
<1>11. Queue!InOrder(I) = q
  BY <1>4, <1>5
<1> HIDE DEF Right
<1> QED
  BY <1>8, <1>9, <1>10, <1>11

(***************************************************************************)
(* The end of the log, and the flag it brings                              *)
(***************************************************************************)

\* What is left of old and new events, if it is at least the new ones, ends in them.
LEMMA EndsWith ==
    ASSUME NEW x \in Seq(QueueEvents), NEW y \in Seq(QueueEvents), NEW m \in Seq(QueueEvents),
           NEW v \in Seq(QueueEvents), EndsIn(Joined(x, y), m), EndsIn(m, v), Len(y) <= Len(v)
    PROVE  \E t \in Seq(QueueEvents) :
             EndsIn(x, t) /\ v = Joined(t, y) /\ Len(t) = Len(v) - Len(y)
<1>1. PICK c \in Seq(QueueEvents) : Joined(x, y) = Joined(c, m)
  BY DEF EndsIn
<1>2. PICK d \in Seq(QueueEvents) : m = Joined(d, v)
  BY DEF EndsIn
<1>3. PICK u \in Seq(QueueEvents) : u = Joined(c, d)
  BY JoinedFacts, Zenon
<1>4. Joined(x, y) = Joined(u, v)
  BY <1>1, <1>2, <1>3, JoinedFacts
<1>5. PICK t \in Seq(QueueEvents) : v = Joined(t, y) /\ x = Joined(u, t)
  BY <1>4, CutConcat
<1>6. EndsIn(x, t)
  BY <1>5, Zenon DEF EndsIn
<1>7. Len(t) \in Nat /\ Len(y) \in Nat /\ Len(v) = Len(t) + Len(y)
  <2>1. Len(Joined(t, y)) = Len(t) + Len(y)
    BY JoinedFacts
  <2>2. Len(t) \in Nat /\ Len(y) \in Nat
    OBVIOUS
  <2> QED
    BY <1>5, <2>1, <2>2
<1> QED
  BY <1>5, <1>6, <1>7

\* The last n events are an end of the log.
LEMMA LastOnes ==
    ASSUME NEW l \in Seq(QueueEvents), NEW n \in 0..Len(l)
    PROVE  LET t == SubSeq(l, Len(l) + 1 - n, Len(l)) IN
           t \in Seq(QueueEvents) /\ Len(t) = n /\ EndsIn(l, t)
<1>1. Len(l) \in Nat
  OBVIOUS
<1>2. PICK k \in Nat : k = Len(l) - n
  BY <1>1
<1>3. Len(l) + 1 - n = k + 1 /\ k <= Len(l)
  BY <1>1, <1>2
<1>4. SubSeq(l, 1, k) \o SubSeq(l, k + 1, Len(l)) = l
  <2>1. 1 \in 1..(Len(l) + 1) /\ k \in (1 - 1)..Len(l) /\ Len(l) \in k..Len(l)
    BY <1>1, <1>3
  <2>2. SubSeq(l, 1, k) \o SubSeq(l, k + 1, Len(l)) = SubSeq(l, 1, Len(l))
    BY <2>1, ConcatAdjacentSubSeq
  <2> QED
    BY <2>2, SubSeqFull
<1>5. SubSeq(l, 1, k) \in Seq(QueueEvents) /\ SubSeq(l, k + 1, Len(l)) \in Seq(QueueEvents)
      /\ Len(SubSeq(l, k + 1, Len(l))) = Len(l) - k
  BY <1>1, <1>3
<1>6. Len(l) - k = n
  BY <1>1, <1>2
<1>7. EndsIn(l, SubSeq(l, k + 1, Len(l)))
  BY <1>4, <1>5, Zenon DEF EndsIn, Joined
<1> QED
  BY <1>3, <1>5, <1>6, <1>7

\* A log that was cut shows no job that the whole would not show.
LEMMA CutShowsLess ==
    ASSUME NEW s \in Seq(QueueEvents), NEW m \in Seq(QueueEvents), EndsIn(s, m)
    PROVE  Listed(Queue!Replay(<<>>, m)) \subseteq Listed(Queue!Replay(<<>>, s))
<1>1. PICK c \in Seq(QueueEvents) : s = c \o m
  BY DEF EndsIn, Joined
<1>2. Queue!Replay(<<>>, c \o m) = Queue!Replay(Queue!Replay(<<>>, c), m)
  BY ReplayConcat
<1>3. <<>> \in Seq(QueueJobs)
  OBVIOUS
<1>4. Queue!Replay(<<>>, c) \in Seq(QueueJobs)
  BY <1>3, ReplayShowsLess
<1>5. Listed(<<>>) \subseteq Listed(Queue!Replay(<<>>, c))
  BY DEF Listed
<1>6. Listed(Queue!Replay(<<>>, m)) \subseteq Listed(Queue!Replay(Queue!Replay(<<>>, c), m))
  BY <1>3, <1>4, <1>5, ReplayShowsLess
<1> QED
  BY <1>1, <1>2, <1>6, Zenon

\* The flag of the last state event among es, or p.
PausedBy(p, es) ==
    LET states == {k \in DOMAIN es : es[k].type = "state"}
        last == CHOOSE k \in states : \A n \in states : n <= k
    IN  IF states = {} THEN p ELSE es[last].paused

\* A state event at the end has the last word.
LEMMA PausedLast ==
    ASSUME NEW p, NEW a \in Seq(QueueEvents), NEW j \in Seq(QueueJobs), NEW r \in BOOLEAN
    PROVE  PausedBy(p, a \o <<Queue!StateEvent(j, r)>>) = r
<1>7. PICK e : e = Queue!StateEvent(j, r)
  OBVIOUS
<1>8. e \in QueueEvents
  BY <1>7 DEF Queue!StateEvent, QueueEvents
<1>0. e.type = "state" /\ e.paused = r
  BY <1>7 DEF Queue!StateEvent
<1>9. a \o <<e>> \in Seq(QueueEvents)
  BY <1>8
<1>1. PICK es \in Seq(QueueEvents) : es = a \o <<e>>
  BY <1>9, Zenon
<1>2. /\ Len(es) = Len(a) + 1 /\ DOMAIN es = 1..(Len(a) + 1) /\ Len(a) \in Nat
      /\ es[Len(a) + 1] = e
  BY <1>1
<1> DEFINE states == {k \in DOMAIN es : es[k].type = "state"}
<1>3. Len(a) + 1 \in states /\ \A n \in states : n <= Len(a) + 1 /\ n \in Nat
  BY <1>0, <1>2
<1> HIDE DEF states
<1>4. (CHOOSE k \in states : \A n \in states : n <= k) = Len(a) + 1
  BY <1>2, <1>3
<1>5. PausedBy(p, es) = es[Len(a) + 1].paused
  BY <1>3, <1>4 DEF PausedBy, states
<1> QED
  BY <1>0, <1>1, <1>2, <1>5, <1>7

\* Events about jobs say nothing of the flag.
LEMMA PausedBefore ==
    ASSUME NEW p, NEW a \in Seq(QueueEvents), NEW b \in Seq(QueueEvents),
           \A k \in DOMAIN b : b[k].type = "job"
    PROVE  PausedBy(p, a \o b) = PausedBy(p, a)
<1>7. a \o b \in Seq(QueueEvents)
  OBVIOUS
<1>1. PICK es \in Seq(QueueEvents) : es = a \o b
  BY <1>7, Zenon
<1>2. /\ DOMAIN es = 1..(Len(a) + Len(b)) /\ Len(a) \in Nat /\ Len(b) \in Nat
      /\ DOMAIN a = 1..Len(a) /\ DOMAIN b = 1..Len(b)
      /\ \A i \in 1..(Len(a) + Len(b)) : es[i] = IF i <= Len(a) THEN a[i] ELSE b[i - Len(a)]
  BY <1>1, ConcatProperties
<1> DEFINE states == {k \in DOMAIN es : es[k].type = "state"}
           first == {k \in DOMAIN a : a[k].type = "state"}
<1>3. states = first
  <2>1. first \subseteq states
    BY <1>2
  <2>2. ASSUME NEW k \in states PROVE k \in first
    <3>1. k <= Len(a)
      <4>1. ASSUME ~(k <= Len(a)) PROVE FALSE
        <5>1. k - Len(a) \in DOMAIN b /\ es[k] = b[k - Len(a)]
          BY <1>2, <4>1
        <5> QED
          BY <5>1
      <4> QED
        BY <4>1
    <3> QED
      BY <1>2, <3>1
  <2> QED
    BY <2>1, <2>2
<1>4. \A k \in first : es[k] = a[k]
  BY <1>2
<1> HIDE DEF states, first
<1>5. CASE first = {}
  <2>1. PausedBy(p, es) = p
    BY <1>3, <1>5 DEF PausedBy, states
  <2>2. PausedBy(p, a) = p
    BY <1>5 DEF PausedBy, first
  <2> QED
    BY <1>1, <2>1, <2>2
<1>6. CASE first # {}
  <2> DEFINE last == CHOOSE k \in first : \A n \in first : n <= k
  <2>1. last \in first
    <3>1. \E k \in first : \A n \in first : n <= k
      <4> DEFINE D == {Len(a) - k : k \in first}
      <4>1. D \in SUBSET Nat /\ D # {}
        BY <1>2, <1>6 DEF first
      <4>2. PICK x \in D : \A y \in D : x <= y
        <5> HIDE DEF D
        <5> QED
          BY <4>1, LeastOf
      <4>3. PICK k \in first : x = Len(a) - k
        OBVIOUS
      <4>4. ASSUME NEW n \in first PROVE n <= k
        <5>1. Len(a) - n \in D
          OBVIOUS
        <5>2. Len(a) - k <= Len(a) - n
          BY <4>2, <4>3, <5>1
        <5>3. k \in Nat /\ n \in Nat
          BY <1>2 DEF first
        <5> QED
          BY <1>2, <5>2, <5>3
      <4> QED
        BY <4>4
    <3> QED
      BY <3>1
  <2>2. PausedBy(p, es) = es[last].paused
    BY <1>3, <1>6 DEF PausedBy, states
  <2>3. PausedBy(p, a) = a[last].paused
    BY <1>6 DEF PausedBy, first
  <2>4. es[last] = a[last]
    <3> HIDE DEF last
    <3> QED
      BY <1>4, <2>1
  <2> HIDE DEF last
  <2> QED
    BY <1>1, <2>2, <2>3, <2>4
<1> QED
  BY <1>5, <1>6

\* Nothing said, nothing changed.
LEMMA PausedNothing ==
    ASSUME NEW p
    PROVE  PausedBy(p, <<>>) = p
  BY DEF PausedBy

\* A window that has set the flag to what the events bring it to.
LEMMA PausedEither ==
    ASSUME NEW p, NEW r, NEW es
    PROVE  r = PausedBy(p, es) => PausedBy(r, es) = r
  BY DEF PausedBy

(***************************************************************************)
(* The queue: every method says what it does                               *)
(***************************************************************************)

\* The bytes of a job fit its state.
JobTrue(j) ==
    /\ j.st = "queued" => j.got = 0 /\ j.of = 0
    /\ j.of > 0 => j.got <= j.of
    /\ j.st = "done" /\ j.of > 0 => j.got = j.of

\* The list of a queue that has given out n numbers: each job once, and true.
ListOK(l, n) ==
    /\ l \in Seq(QueueJobs)
    /\ \A i \in DOMAIN l : l[i].id \in 1..n /\ JobTrue(l[i])
    /\ \A i, k \in DOMAIN l : l[i].id = l[k].id => i = k

\* A later list: a job that is done is not undone.
Follows(new, old, n) ==
    \A i \in DOMAIN new :
        \/ new[i].id > n
        \/ \E k \in DOMAIN old : old[k].id = new[i].id
             /\ (old[k].st = "done" => new[i].st = "done")

\* The log is bounded, counts what was said, and holds the last of it.
LogOK ==
    /\ log \in Seq(QueueEvents) /\ queueSeq \in Nat
    /\ Len(log) <= LogCap /\ Len(log) <= queueSeq
    /\ queueSeq > 0 => Len(log) > 0

\* The inductive invariant of the queue and its log: what is left of the log shows only
\* jobs of the queue as they are.
FeedInv ==
    /\ ListOK(queueJobs, queueIds) /\ queueIds \in 0..MaxJobs
    /\ paused \in BOOLEAN /\ accepting \in BOOLEAN /\ queueClosed \in BOOLEAN
    /\ LogOK
    /\ ~queueClosed => Listed(Queue!Replay(<<>>, log)) \subseteq Listed(queueJobs)

\* The events es are said.
LogStep(es) ==
    /\ es \in Seq(QueueEvents) /\ queueSeq' = queueSeq + Len(es)
    /\ LogOK'
    /\ EndsIn(Joined(log, es), log')

\* A replay of es brings the list before the step to the one after it: each change of a
\* job is said, or the whole list is.
Says(es) ==
    \/ /\ \A k \in DOMAIN es : es[k].type = "job"
       /\ paused' = paused /\ Queue!Replay(queueJobs, es) = queueJobs'
    \/ \E a \in Seq(QueueEvents) : es = Joined(a, <<Queue!StateEvent(queueJobs', paused')>>)

\* The list and the flags after the step.
JobsStep ==
    /\ ListOK(queueJobs', queueIds') /\ queueIds' \in 0..MaxJobs /\ queueIds <= queueIds'
    /\ Follows(queueJobs', queueJobs, queueIds)
    /\ paused' \in BOOLEAN /\ accepting' \in BOOLEAN /\ queueClosed' \in BOOLEAN
    /\ queueClosed => queueClosed'

\* What every method of the queue does: it changes the list and says so.
FeedStep(es) == LogStep(es) /\ JobsStep /\ (queueClosed' \/ Says(es))

\* A list whose jobs change in place.
LEMMA ListKept ==
    ASSUME NEW n \in Nat, NEW l, ListOK(l, n), NEW new \in [DOMAIN l -> QueueJobs],
           \A i \in DOMAIN l : /\ new[i].id = l[i].id /\ JobTrue(new[i])
                               /\ l[i].st = "done" => new[i].st = "done"
    PROVE  ListOK(new, n) /\ Follows(new, l, n)
  <1>1. PICK m \in Nat : DOMAIN l = 1..m /\ l \in [1..m -> QueueJobs]
    BY DEF ListOK
  <1>2. new \in Seq(QueueJobs) /\ DOMAIN new = DOMAIN l
    BY <1>1, SeqDef
  <1>3. ListOK(new, n)
    BY <1>2 DEF ListOK
  <1>4. Follows(new, l, n)
    BY <1>2 DEF Follows
  <1> QED BY <1>3, <1>4

\* A list follows itself.
LEMMA ListSame ==
    ASSUME NEW n \in Nat, NEW l, ListOK(l, n)
    PROVE  Follows(l, l, n)
  BY DEF Follows

\* Saying the changed jobs, in whatever order, brings the old list to the new.
LEMMA ReplayUpdates ==
    ASSUME NEW n \in Nat, NEW l, ListOK(l, n), NEW new, ListOK(new, n), DOMAIN new = DOMAIN l,
           \A i \in DOMAIN l : new[i].id = l[i].id,
           NEW q \in Seq(DOMAIN l), \A i \in DOMAIN l : i \notin Listed(q) => new[i] = l[i],
           NEW es, es = [k \in DOMAIN q |-> Queue!JobEvent(new[q[k]])]
    PROVE  /\ es \in Seq(QueueEvents) /\ \A k \in DOMAIN es : es[k].type = "job"
           /\ Queue!Replay(l, es) = new
  <1>1. PICK m \in Nat : DOMAIN q = 1..m /\ Len(q) = m /\ \A k \in 1..m : q[k] \in DOMAIN l
    BY ElementOfSeq, LenProperties
  <1>2. \A i \in DOMAIN l : new[i] \in QueueJobs /\ l[i] \in QueueJobs
    BY ElementOfSeq DEF ListOK
  <1>3. \A k \in 1..m : es[k] \in QueueEvents /\ es[k].type = "job" /\ es[k].job = new[q[k]]
    <2> TAKE k \in 1..m
    <2>1. es[k] = [type |-> "job", job |-> new[q[k]]] /\ new[q[k]] \in QueueJobs
      BY <1>1, <1>2 DEF Queue!JobEvent
    <2> QED BY <2>1 DEF QueueEvents
  <1>4. es \in Seq(QueueEvents) /\ Len(es) = m /\ DOMAIN es = 1..m
    <2>1. es \in [1..m -> QueueEvents]
      BY <1>1, <1>3
    <2>2. DOMAIN es = 1..m
      BY <2>1
    <2>3. es \in Seq(QueueEvents)
      BY <2>1, SeqDef
    <2> QED BY <2>2, <2>3
  <1>5. PICK g : g = [k \in 0..m |-> [i \in DOMAIN l |->
                        IF \E x \in 1..k : q[x] = i THEN new[i] ELSE l[i]]]
    OBVIOUS
  <1>6. g[0] = l
    <2>1. g[0] = [i \in DOMAIN l |-> l[i]]
      BY <1>1, <1>5
    <2>2. l = [i \in DOMAIN l |-> l[i]]
      BY DEF ListOK
    <2> QED BY <2>1, <2>2
  <1>7. \A k \in 1..m : g[k] = Queue!Applied(g[k - 1], es[k])
    <2> TAKE k \in 1..m
    <2>1. k - 1 \in 0..m /\ k \in 0..m /\ \A x : x \in 1..k <=> x \in 1..(k - 1) \/ x = k
      BY <1>1
    <2>2. PICK b : b = g[k - 1]
      OBVIOUS
    <2>3. b = [i \in DOMAIN l |-> IF \E x \in 1..(k - 1) : q[x] = i THEN new[i] ELSE l[i]]
      BY <2>1, <2>2, <1>5
    <2>4. PICK p \in DOMAIN l : p = q[k] /\ es[k].job = new[p]
      BY <1>1, <1>3
    <2>5. DOMAIN b = DOMAIN l /\ \A i \in DOMAIN l : b[i].id = l[i].id
      BY <2>3
    <2>6. \A i \in DOMAIN l : b[i].id = es[k].job.id <=> i = p
      BY <2>4, <2>5 DEF ListOK
    <2>7. Queue!Applied(b, es[k]) = [i \in DOMAIN l |-> IF i = p THEN new[p] ELSE b[i]]
      BY <2>4, <2>5, <2>6, <1>3 DEF Queue!Applied
    <2>8. \A i \in DOMAIN l : (\E x \in 1..k : q[x] = i) <=> (\E x \in 1..(k - 1) : q[x] = i)
            \/ i = p
      BY <2>1, <2>4
    <2>9. g[k] = [i \in DOMAIN l |-> IF \E x \in 1..k : q[x] = i THEN new[i] ELSE l[i]]
      BY <2>1, <1>5
    <2>10. \A i \in DOMAIN l : (IF \E x \in 1..k : q[x] = i THEN new[i] ELSE l[i])
                              = (IF i = p THEN new[p] ELSE b[i])
      BY <2>3, <2>8
    <2> QED BY <2>2, <2>7, <2>9, <2>10
  <1>8. Queue!Replay(l, es) = g[Len(es)]
    <2>1. Len(es) = m /\ Len(es) \in Nat
      BY <1>1, <1>4
    <2>2. \A k \in 1..Len(es) : g[k] = Queue!Applied(g[k - 1], es[k])
      BY ONLY <1>7, <2>1
    <2> QED
      BY ONLY <1>6, <2>1, <2>2, ReplayIs
  <1>9. g[m] = new
    <2>1. g[m] = [i \in DOMAIN l |-> IF \E x \in 1..m : q[x] = i THEN new[i] ELSE l[i]]
      BY <1>1, <1>5
    <2>2. \A i \in DOMAIN l : (IF \E x \in 1..m : q[x] = i THEN new[i] ELSE l[i]) = new[i]
      BY <1>1 DEF Listed
    <2>3. new = [i \in DOMAIN l |-> new[i]]
      BY DEF ListOK
    <2> QED BY <2>1, <2>2, <2>3
  <1> QED BY <1>3, <1>4, <1>8, <1>9

\* What is emitted is said.
LEMMA EmitSteps ==
    ASSUME LogOK, NEW es \in Seq(QueueEvents), Queue!Emit(es)
    PROVE  LogStep(es)
  <1>1. Len(es) \in Nat /\ Len(log) \in Nat
    BY LenProperties DEF LogOK
  <1>2. queueSeq' = queueSeq + Len(es) /\ log' = Queue!Logged(log, es)
    BY DEF Queue!Emit
  <1>3. /\ log' \in Seq(QueueEvents) /\ Len(log') <= LogCap
        /\ Len(log') <= Len(log) + Len(es)
        /\ Len(log) > 0 \/ Len(es) > 0 => Len(log') > 0
        /\ EndsIn(Joined(log, es), log')
    BY <1>2, LoggedCuts DEF LogOK
  <1>4. Len(log') \in Nat
    BY <1>3, LenProperties
  <1>5. Len(log) <= queueSeq /\ (queueSeq > 0 => Len(log) > 0) /\ queueSeq \in Nat
    BY DEF LogOK
  <1>6. queueSeq' \in Nat /\ Len(log') <= queueSeq' /\ (queueSeq' > 0 => Len(log') > 0)
    BY <1>1, <1>2, <1>3, <1>4, <1>5
  <1> QED BY <1>2, <1>3, <1>6 DEF LogStep, LogOK

\* A step that emits nothing says nothing.
LEMMA NothingLogged ==
    ASSUME LogOK, UNCHANGED <<log, queueSeq>>
    PROVE  LogStep(<<>>)
  <1>1. <<>> \in Seq(QueueEvents) /\ Len(<<>>) = 0
    OBVIOUS
  <1>2. Joined(<<>>, log) = log /\ Joined(log, <<>>) = log
    BY DEF LogOK, Joined
  <1>3. EndsIn(Joined(log, <<>>), log')
    BY <1>1, <1>2 DEF EndsIn
  <1>4. LogOK'
    BY DEF LogOK
  <1>5. queueSeq' = queueSeq + Len(<<>>)
    BY <1>1 DEF LogOK
  <1> QED BY <1>1, <1>3, <1>4, <1>5 DEF LogStep

(***************************************************************************)
(* The queue: jobs that change in place                                    *)
(***************************************************************************)

\* Some method of the queue.
FeedMoves == \E es : FeedStep(es)

\* Jobs change in place and each is said.
LEMMA UpdateSteps ==
    ASSUME FeedInv, NEW I \in SUBSET DOMAIN queueJobs,
           queueJobs' \in [DOMAIN queueJobs -> QueueJobs],
           \A i \in DOMAIN queueJobs :
               /\ queueJobs'[i].id = queueJobs[i].id /\ JobTrue(queueJobs'[i])
               /\ queueJobs[i].st = "done" => queueJobs'[i].st = "done"
               /\ i \notin I => queueJobs'[i] = queueJobs[i],
           NEW es, es = [k \in DOMAIN Queue!InOrder(I) |->
                           Queue!JobEvent(queueJobs'[Queue!InOrder(I)[k]])],
           Queue!Emit(es), UNCHANGED <<queueIds, paused, accepting, queueClosed>>
    PROVE  FeedStep(es)
  <1>1. ListOK(queueJobs, queueIds) /\ queueIds \in Nat /\ LogOK /\ queueIds \in 0..MaxJobs
    BY FeedNumbers DEF FeedInv
  <1>2. ListOK(queueJobs', queueIds) /\ Follows(queueJobs', queueJobs, queueIds)
    BY <1>1, ListKept
  <1>3. PICK m \in Nat : DOMAIN queueJobs = 1..m
    BY <1>1 DEF ListOK
  <1>4. PICK q : q = Queue!InOrder(I)
    OBVIOUS
  <1>5. q \in Seq(DOMAIN queueJobs) /\ Listed(q) = I
    BY <1>3, <1>4, OrderListed
  <1>6. es = [k \in DOMAIN q |-> Queue!JobEvent(queueJobs'[q[k]])]
    BY <1>4
  <1>7. PICK old, new : old = queueJobs /\ new = queueJobs'
    OBVIOUS
  <1>8. /\ es \in Seq(QueueEvents) /\ \A k \in DOMAIN es : es[k].type = "job"
        /\ Queue!Replay(queueJobs, es) = queueJobs'
    <2>1. /\ ListOK(old, queueIds) /\ ListOK(new, queueIds) /\ DOMAIN new = DOMAIN old
          /\ \A i \in DOMAIN old : new[i].id = old[i].id
          /\ q \in Seq(DOMAIN old) /\ \A i \in DOMAIN old : i \notin Listed(q) => new[i] = old[i]
          /\ es = [k \in DOMAIN q |-> Queue!JobEvent(new[q[k]])]
      BY <1>1, <1>2, <1>5, <1>6, <1>7
    <2>2. /\ es \in Seq(QueueEvents) /\ \A k \in DOMAIN es : es[k].type = "job"
          /\ Queue!Replay(old, es) = new
      BY <1>1, <2>1, ReplayUpdates
    <2> QED BY <2>2, <1>7
  <1>9. LogStep(es)
    BY <1>1, <1>8, EmitSteps
  <1>10. Says(es)
    BY <1>8 DEF Says
  <1>11. JobsStep
    BY <1>1, <1>2 DEF JobsStep, FeedInv
  <1> QED BY <1>9, <1>10, <1>11 DEF FeedStep

\* What the list says of a single job.
LEMMA JobFacts ==
    ASSUME FeedInv
    PROVE  \A i \in DOMAIN queueJobs :
               /\ queueJobs[i] \in QueueJobs /\ JobTrue(queueJobs[i])
               /\ queueJobs[i].id \in 1..queueIds
  <1>1. queueJobs \in Seq(QueueJobs)
    BY DEF FeedInv, ListOK
  <1> QED BY <1>1, ElementOfSeq DEF FeedInv, ListOK

\* One change of several jobs, as the methods make it.
LEMMA ChangeSteps ==
    ASSUME FeedInv, NEW I \in SUBSET DOMAIN queueJobs, NEW op,
           \A i \in I : /\ op[i] \in QueueJobs /\ JobTrue(op[i])
                        /\ op[i].id = queueJobs[i].id /\ queueJobs[i].st # "done",
           queueJobs' = [i \in DOMAIN queueJobs |-> IF i \in I THEN op[i] ELSE queueJobs[i]],
           Queue!Emit([k \in DOMAIN Queue!InOrder(I) |-> Queue!JobEvent(op[Queue!InOrder(I)[k]])]),
           UNCHANGED <<queueIds, paused, accepting, queueClosed>>
    PROVE  FeedMoves
  <1>1. PICK es : es = [k \in DOMAIN Queue!InOrder(I) |-> Queue!JobEvent(op[Queue!InOrder(I)[k]])]
    OBVIOUS
  <1>2. \A i \in DOMAIN queueJobs : queueJobs[i] \in QueueJobs /\ JobTrue(queueJobs[i])
    BY JobFacts
  <1>3. queueJobs' \in [DOMAIN queueJobs -> QueueJobs]
    BY <1>2
  <1>4. \A i \in DOMAIN queueJobs :
               /\ queueJobs'[i].id = queueJobs[i].id /\ JobTrue(queueJobs'[i])
               /\ queueJobs[i].st = "done" => queueJobs'[i].st = "done"
               /\ i \notin I => queueJobs'[i] = queueJobs[i]
    <2> TAKE i \in DOMAIN queueJobs
    <2>1. CASE i \in I
      <3>1. queueJobs'[i] = op[i]
        BY <2>1
      <3> QED BY <2>1, <3>1
    <2>2. CASE i \notin I
      <3>1. queueJobs'[i] = queueJobs[i]
        BY <2>2
      <3> QED BY <2>2, <3>1, <1>2
    <2> QED BY <2>1, <2>2
  <1>5. PICK m \in Nat : DOMAIN queueJobs = 1..m
    BY DEF FeedInv, ListOK
  <1>6. PICK q : q = Queue!InOrder(I)
    OBVIOUS
  <1>7. \A k \in DOMAIN q : q[k] \in I
    <2>1. Listed(q) = I
      BY <1>5, <1>6, OrderListed
    <2> QED BY <2>1 DEF Listed
  <1>8. \A k \in DOMAIN q : queueJobs'[q[k]] = op[q[k]]
    BY <1>7
  <1>9. es = [k \in DOMAIN q |-> Queue!JobEvent(queueJobs'[q[k]])]
    <2>1. es = [k \in DOMAIN q |-> Queue!JobEvent(op[q[k]])]
      BY <1>1, <1>6
    <2> QED BY <2>1, <1>8
  <1>10. es = [k \in DOMAIN Queue!InOrder(I) |-> Queue!JobEvent(queueJobs'[Queue!InOrder(I)[k]])]
    BY <1>6, <1>9
  <1>11. Queue!Emit(es)
    BY <1>1
  <1>12. FeedStep(es)
    BY <1>3, <1>4, <1>10, <1>11, UpdateSteps
  <1> QED BY <1>12 DEF FeedMoves

\* The order is one of these slots.
LEMMA OrderedSlots ==
    ASSUME FeedInv, NEW I \in SUBSET DOMAIN queueJobs
    PROVE  \A k \in DOMAIN Queue!InOrder(I) : Queue!InOrder(I)[k] \in I
  <1>1. PICK m \in Nat : DOMAIN queueJobs = 1..m
    BY DEF FeedInv, ListOK
  <1>2. Listed(Queue!InOrder(I)) = I
    BY <1>1, OrderListed
  <1> QED BY <1>2 DEF Listed

\* Waiting jobs start as long as there is room (queue.go).
LEMMA PumpSteps ==
    ASSUME FeedInv, Queue!Pump
    PROVE  FeedMoves
  <1>1. PICK I : /\ I = {i \in Queue!Slots({"queued"}) :
                       Cardinality({k \in Queue!Slots({"queued"}) : k < i})
                         < Limit - Cardinality(Queue!Slots({"running"}))}
                 /\ Queue!Update(I, Queue!Started)
                 /\ UNCHANGED <<queueIds, paused, accepting, queueClosed>>
    BY DEF Queue!Pump, Queue!Cardinality, Cardinality
  <1>2. I \in SUBSET DOMAIN queueJobs /\ \A i \in I : queueJobs[i].st = "queued"
    BY <1>1 DEF Queue!Slots
  <1>3. PICK op : op = [i \in I |-> Queue!Started(queueJobs[i])]
    OBVIOUS
  <1>4. /\ queueJobs' = [i \in DOMAIN queueJobs |-> IF i \in I THEN op[i] ELSE queueJobs[i]]
        /\ Queue!Emit([k \in DOMAIN Queue!InOrder(I) |-> Queue!JobEvent(op[Queue!InOrder(I)[k]])])
    BY <1>1, <1>2, <1>3, OrderedSlots DEF Queue!Update, Queue!Changed, Queue!EmitJobs
  <1>5. \A i \in I : /\ op[i] \in QueueJobs /\ JobTrue(op[i])
                     /\ op[i].id = queueJobs[i].id /\ queueJobs[i].st # "done"
    BY <1>2, <1>3, JobFacts DEF Queue!Started, Queue!Reset, QueueJobs, QueueStates, JobTrue
  <1> QED BY <1>1, <1>2, <1>4, <1>5, ChangeSteps

(***************************************************************************)
(* The queue: its workers                                                  *)
(***************************************************************************)

\* A job whose bytes are counted from nothing again.
LEMMA ResetFacts ==
    ASSUME NEW j \in QueueJobs
    PROVE  /\ Queue!Reset(j) \in QueueJobs /\ Queue!Reset(j).id = j.id
           /\ j.st = "running" => JobTrue(Queue!Reset(j))
           /\ Queue!Requeued(j) \in QueueJobs /\ Queue!Requeued(j).id = j.id
           /\ JobTrue(Queue!Requeued(j))
  <1>1. Queue!Reset(j) \in QueueJobs
    BY DEF Queue!Reset, QueueJobs
  <1>2. /\ Queue!Reset(j).id = j.id /\ Queue!Reset(j).st = j.st
        /\ Queue!Reset(j).got = 0 /\ Queue!Reset(j).of = 0
    BY DEF Queue!Reset, QueueJobs
  <1>3. Queue!Requeued(j) \in QueueJobs
    BY DEF Queue!Requeued, Queue!Reset, QueueJobs, QueueStates
  <1>4. /\ Queue!Requeued(j).id = j.id /\ Queue!Requeued(j).st = "queued"
        /\ Queue!Requeued(j).got = 0 /\ Queue!Requeued(j).of = 0
    BY DEF Queue!Requeued, Queue!Reset, QueueJobs
  <1>5. JobTrue(Queue!Requeued(j))
    BY <1>4 DEF JobTrue
  <1>6. j.st = "running" => JobTrue(Queue!Reset(j))
    BY <1>2 DEF JobTrue
  <1> QED BY <1>1, <1>2, <1>3, <1>4, <1>5, <1>6

\* A running job with its bytes.
LEMMA MeasuredFacts ==
    ASSUME NEW j \in QueueJobs, j.st = "running", NEW got \in Nat, NEW of \in Nat
    PROVE  /\ Queue!Measured(j, got, of) \in QueueJobs /\ Queue!Measured(j, got, of).id = j.id
           /\ JobTrue(Queue!Measured(j, got, of))
  <1>1. Queue!Measured(j, got, of) \in QueueJobs
    BY DEF Queue!Measured, QueueJobs
  <1>2. /\ Queue!Measured(j, got, of).id = j.id /\ Queue!Measured(j, got, of).st = "running"
        /\ Queue!Measured(j, got, of).of = of
        /\ Queue!Measured(j, got, of).got = (IF of > 0 /\ got > of THEN of ELSE got)
    BY DEF Queue!Measured, QueueJobs
  <1>3. JobTrue(Queue!Measured(j, got, of))
    BY <1>2 DEF JobTrue
  <1> QED BY <1>1, <1>2, <1>3

\* A job that is over, in whichever way.
LEMMA FinishedFacts ==
    ASSUME NEW j \in QueueJobs, JobTrue(j), NEW st \in QueueStates \ {"queued"}
    PROVE  /\ Queue!Finished(j, st) \in QueueJobs /\ Queue!Finished(j, st).id = j.id
           /\ JobTrue(Queue!Finished(j, st))
  <1>1. Queue!Finished(j, st) \in QueueJobs
    BY DEF Queue!Finished, QueueJobs
  <1>2. /\ Queue!Finished(j, st).id = j.id /\ Queue!Finished(j, st).st = st
        /\ Queue!Finished(j, st).of = j.of
        /\ Queue!Finished(j, st).got = (IF st = "done" /\ j.of > 0 THEN j.of ELSE j.got)
    BY DEF Queue!Finished, QueueJobs
  <1>3. j.got \in Nat /\ j.of \in Nat /\ (j.of > 0 => j.got <= j.of)
    BY DEF QueueJobs, JobTrue
  <1>4. JobTrue(Queue!Finished(j, st))
    BY <1>2, <1>3 DEF JobTrue
  <1> QED BY <1>1, <1>2, <1>4

\* An attempt begins, the first or another one.
LEMMA AttemptSteps ==
    ASSUME FeedInv, NEW i \in DOMAIN queueJobs, NEW again \in BOOLEAN, Queue!Attempt(i, again)
    PROVE  FeedMoves
  <1>1. PICK I : I = {i}
    OBVIOUS
  <1>2. PICK op : op = [n \in I |-> IF again THEN Queue!Reset(queueJobs[n]) ELSE queueJobs[n]]
    OBVIOUS
  <1>3. /\ queueJobs' = [n \in DOMAIN queueJobs |-> IF n \in I THEN op[n] ELSE queueJobs[n]]
        /\ Queue!Emit([k \in DOMAIN Queue!InOrder(I) |-> Queue!JobEvent(op[Queue!InOrder(I)[k]])])
        /\ UNCHANGED <<queueIds, paused, accepting, queueClosed>>
    BY <1>1, <1>2, OrderedSlots DEF Queue!Attempt, Queue!Update, Queue!Changed, Queue!EmitJobs
  <1>4. queueJobs[i].st = "running"
    BY DEF Queue!Attempt
  <1>5. \A n \in I : /\ op[n] \in QueueJobs /\ JobTrue(op[n])
                     /\ op[n].id = queueJobs[n].id /\ queueJobs[n].st # "done"
    BY <1>1, <1>2, <1>4, JobFacts, ResetFacts
  <1> QED BY <1>1, <1>3, <1>5, ChangeSteps

\* A running job reports its bytes.
LEMMA ProgressSteps ==
    ASSUME FeedInv, NEW i \in DOMAIN queueJobs, NEW of \in Sizes, NEW got \in 0..2,
           Queue!Progress(i, got, of)
    PROVE  FeedMoves
  <1>1. PICK I : I = {i}
    OBVIOUS
  <1>2. PICK op : op = [n \in I |-> Queue!Measured(queueJobs[n], got, of)]
    OBVIOUS
  <1>3. /\ queueJobs' = [n \in DOMAIN queueJobs |-> IF n \in I THEN op[n] ELSE queueJobs[n]]
        /\ Queue!Emit([k \in DOMAIN Queue!InOrder(I) |-> Queue!JobEvent(op[Queue!InOrder(I)[k]])])
        /\ UNCHANGED <<queueIds, paused, accepting, queueClosed>>
    BY <1>1, <1>2, OrderedSlots DEF Queue!Progress, Queue!Update, Queue!Changed, Queue!EmitJobs
  <1>4. queueJobs[i].st = "running" /\ of \in Nat /\ got \in Nat
    BY FeedNumbers DEF Queue!Progress
  <1>5. \A n \in I : /\ op[n] \in QueueJobs /\ JobTrue(op[n])
                     /\ op[n].id = queueJobs[n].id /\ queueJobs[n].st # "done"
    BY <1>1, <1>2, <1>4, JobFacts, MeasuredFacts
  <1> QED BY <1>1, <1>3, <1>5, ChangeSteps

\* A running job is over.
LEMMA FinishSteps ==
    ASSUME FeedInv, NEW i \in DOMAIN queueJobs, NEW st \in Queue!Settled, Queue!Finish(i, st)
    PROVE  FeedMoves
  <1>1. PICK I : I = {i}
    OBVIOUS
  <1>2. PICK op : op = [n \in I |-> Queue!Finished(queueJobs[n], st)]
    OBVIOUS
  <1>3. /\ queueJobs' = [n \in DOMAIN queueJobs |-> IF n \in I THEN op[n] ELSE queueJobs[n]]
        /\ Queue!Emit([k \in DOMAIN Queue!InOrder(I) |-> Queue!JobEvent(op[Queue!InOrder(I)[k]])])
        /\ UNCHANGED <<queueIds, paused, accepting, queueClosed>>
    BY <1>1, <1>2, OrderedSlots DEF Queue!Finish, Queue!Update, Queue!Changed, Queue!EmitJobs
  <1>4. queueJobs[i].st = "running" /\ st \in QueueStates /\ st # "queued"
    BY DEF Queue!Finish, Queue!Settled, Queue!Statuses, QueueStates
  <1>5. \A n \in I : /\ op[n] \in QueueJobs /\ JobTrue(op[n])
                     /\ op[n].id = queueJobs[n].id /\ queueJobs[n].st # "done"
    BY <1>1, <1>2, <1>4, JobFacts, FinishedFacts
  <1> QED BY <1>1, <1>3, <1>5, ChangeSteps

\* Jobs are cancelled.
LEMMA CancelSteps ==
    ASSUME FeedInv, NEW S, Queue!Cancel(S)
    PROVE  FeedMoves
  <1>1. PICK I : /\ I = {i \in DOMAIN queueJobs : queueJobs[i].id \in S}
                      \cap Queue!Slots({"queued"})
                 /\ Queue!Update(I, Queue!Cancelled)
                 /\ UNCHANGED <<queueIds, paused, accepting, queueClosed>>
    BY DEF Queue!Cancel
  <1>2. I \in SUBSET DOMAIN queueJobs /\ \A i \in I : queueJobs[i].st = "queued"
    BY <1>1 DEF Queue!Slots
  <1>3. PICK op : op = [i \in I |-> Queue!Cancelled(queueJobs[i])]
    OBVIOUS
  <1>4. /\ queueJobs' = [i \in DOMAIN queueJobs |-> IF i \in I THEN op[i] ELSE queueJobs[i]]
        /\ Queue!Emit([k \in DOMAIN Queue!InOrder(I) |-> Queue!JobEvent(op[Queue!InOrder(I)[k]])])
    BY <1>1, <1>2, <1>3, OrderedSlots DEF Queue!Update, Queue!Changed, Queue!EmitJobs
  <1>5. \A i \in I : /\ op[i] \in QueueJobs /\ JobTrue(op[i])
                     /\ op[i].id = queueJobs[i].id /\ queueJobs[i].st # "done"
    BY <1>2, <1>3, JobFacts DEF Queue!Cancelled, QueueJobs, QueueStates, JobTrue
  <1> QED BY <1>1, <1>2, <1>4, <1>5, ChangeSteps

\* Jobs that ended are queued again.
LEMMA RetrySteps ==
    ASSUME FeedInv, NEW S, Queue!Retry(S)
    PROVE  FeedMoves
  <1>1. PICK I : /\ I = {i \in DOMAIN queueJobs : queueJobs[i].id \in S}
                 /\ I \subseteq Queue!Slots({"failed", "cancelled"})
                 /\ Queue!Update(I, Queue!Requeued)
                 /\ UNCHANGED <<queueIds, paused, accepting, queueClosed>>
    BY DEF Queue!Retry
  <1>2. I \in SUBSET DOMAIN queueJobs /\ \A i \in I : queueJobs[i].st # "done"
    BY <1>1 DEF Queue!Slots
  <1>3. PICK op : op = [i \in I |-> Queue!Requeued(queueJobs[i])]
    OBVIOUS
  <1>4. /\ queueJobs' = [i \in DOMAIN queueJobs |-> IF i \in I THEN op[i] ELSE queueJobs[i]]
        /\ Queue!Emit([k \in DOMAIN Queue!InOrder(I) |-> Queue!JobEvent(op[Queue!InOrder(I)[k]])])
    BY <1>1, <1>2, <1>3, OrderedSlots DEF Queue!Update, Queue!Changed, Queue!EmitJobs
  <1>5. \A i \in I : /\ op[i] \in QueueJobs /\ JobTrue(op[i])
                     /\ op[i].id = queueJobs[i].id /\ queueJobs[i].st # "done"
    BY <1>2, <1>3, JobFacts, ResetFacts
  <1> QED BY <1>1, <1>2, <1>4, <1>5, ChangeSteps

\* Whatever the workers do.
LEMMA WorkerSteps ==
    ASSUME FeedInv, Queue!Worker
    PROVE  FeedMoves
  BY PumpSteps, AttemptSteps, ProgressSteps, FinishSteps DEF Queue!Worker

(***************************************************************************)
(* The queue: new jobs                                                     *)
(***************************************************************************)

\* The length of a list of jobs with n places.
LEMMA LenOf ==
    ASSUME NEW s \in Seq(QueueJobs), NEW n \in Nat, DOMAIN s = 1..n
    PROVE  Len(s) = n
  OBVIOUS

\* The new jobs come to the end of the list, one by one.
Lengthened(both, l, m, new, n) ==
    /\ l \in [1..m -> QueueJobs] /\ new \in [1..n -> QueueJobs]
    /\ both \in [1..(m + n) -> QueueJobs]
    /\ \A i \in 1..m : both[i] = l[i]
    /\ \A k \in 1..n : both[m + k] = new[k]
    /\ \A i, k \in 1..(m + n) : both[i].id = both[k].id => i = k
\* One event for each of the new jobs.
TellsOf(new, n) == [k \in 1..n |-> Queue!JobEvent(new[k])]

\* Saying the new jobs brings the old list to the longer one.
LEMMA ReplayAdds ==
    ASSUME NEW l, NEW m \in Nat, NEW n \in Nat, NEW new, NEW es, NEW both,
           Lengthened(both, l, m, new, n), es = TellsOf(new, n)
    PROVE  /\ es \in Seq(QueueEvents) /\ \A k \in DOMAIN es : es[k].type = "job"
           /\ Queue!Replay(l, es) = both
  <1>1. \A k \in 1..n : es[k] \in QueueEvents /\ es[k].type = "job" /\ es[k].job = new[k]
    <2> TAKE k \in 1..n
    <2>1. es[k] = [type |-> "job", job |-> new[k]] /\ new[k] \in QueueJobs
      BY DEF Queue!JobEvent, TellsOf, Lengthened
    <2> QED BY <2>1 DEF QueueEvents
  <1>2. DOMAIN es = 1..n /\ Len(es) = n /\ es \in Seq(QueueEvents)
    <2>1. es \in [1..n -> QueueEvents]
      BY <1>1 DEF TellsOf
    <2>2. es \in Seq(QueueEvents)
      BY <2>1, SeqDef
    <2>3. DOMAIN es = 1..n
      BY <2>1
    <2> QED BY <2>2, <2>3
  <1>3. PICK g : g = [k \in 0..n |-> [i \in 1..(m + k) |-> both[i]]]
    OBVIOUS
  <1>4. g[0] = l
    <2>1. g[0] = [i \in 1..m |-> both[i]]
      BY <1>3
    <2>2. l = [i \in 1..m |-> l[i]] /\ \A i \in 1..m : both[i] = l[i]
      BY DEF Lengthened
    <2> QED BY <2>1, <2>2
  <1>5. \A k \in 1..n : g[k] = Queue!Applied(g[k - 1], es[k])
    <2> TAKE k \in 1..n
    <2>1. PICK b : b = g[k - 1]
      OBVIOUS
    <2>2. b = [i \in 1..(m + k - 1) |-> both[i]]
      BY <2>1, <1>3
    <2>3. es[k].job = both[m + k] /\ es[k].type # "state"
      BY <1>1 DEF Lengthened
    <2>4. ~\E i \in DOMAIN b : b[i].id = es[k].job.id
      <3> SUFFICES ASSUME NEW i \in DOMAIN b, b[i].id = es[k].job.id
                   PROVE  FALSE
        OBVIOUS
      <3>1. i \in 1..(m + k - 1) /\ b[i] = both[i]
        BY <2>2
      <3>2. i \in 1..(m + n) /\ m + k \in 1..(m + n) /\ i # m + k
        BY <3>1
      <3>3. both[i].id = both[m + k].id
        BY <3>1, <2>3
      <3> QED BY <3>2, <3>3 DEF Lengthened
    <2>5. Queue!Applied(b, es[k]) = Append(b, both[m + k])
      BY <2>3, <2>4 DEF Queue!Applied
    <2>6. \A i \in 1..(m + k - 1) : i \in 1..(m + n) /\ both[i] \in QueueJobs
      BY DEF Lengthened
    <2>7. b \in [1..(m + k - 1) -> QueueJobs] /\ m + k - 1 \in Nat
      BY <2>2, <2>6
    <2>8. b \in Seq(QueueJobs) /\ Len(b) = m + k - 1
      <3>1. b \in Seq(QueueJobs)
        BY <2>7, SeqDef
      <3>2. DOMAIN b = 1..(m + k - 1)
        BY <2>7
      <3> QED BY <3>1, <3>2, <2>7
    <2>9. PICK x : x = both[m + k] /\ x \in QueueJobs
      BY DEF Lengthened
    <2>10. Append(b, x) = [i \in 1..(m + k) |-> both[i]]
      <3>1. PICK y : y = Append(b, x)
        OBVIOUS
      <3>2. y \in Seq(QueueJobs) /\ Len(y) = m + k /\ y[m + k] = x
            /\ \A i \in 1..(m + k - 1) : y[i] = b[i]
        <4>1. PICK c \in Nat : c = m + k - 1 /\ Len(b) = c /\ c + 1 = m + k
          BY <2>7, <2>8
        <4>2. /\ Append(b, x) \in Seq(QueueJobs) /\ Len(Append(b, x)) = c + 1
              /\ \A i \in 1..c : Append(b, x)[i] = b[i]
              /\ Append(b, x)[c + 1] = x
          BY <4>1, <2>8, <2>9, AppendProperties
        <4> QED BY <4>1, <4>2, <3>1
      <3>3. \A i \in 1..(m + k) : (IF i = m + k THEN x ELSE b[i]) = both[i]
        <4> TAKE i \in 1..(m + k)
        <4>1. i = m + k \/ i \in 1..(m + k - 1)
          OBVIOUS
        <4> QED BY <4>1, <2>2, <2>9
      <3>4. y = [i \in 1..(m + k) |-> IF i = m + k THEN x ELSE b[i]]
        <4>1. DOMAIN y = 1..(m + k) /\ y = [i \in DOMAIN y |-> y[i]]
          BY <3>2
        <4>2. \A i \in 1..(m + k) : y[i] = (IF i = m + k THEN x ELSE b[i])
          BY <3>2
        <4> QED BY <4>1, <4>2
      <3> QED BY <3>1, <3>3, <3>4
    <2>11. g[k] = [i \in 1..(m + k) |-> both[i]]
      BY <1>3
    <2> QED BY <2>1, <2>5, <2>9, <2>10, <2>11
  <1>6. Queue!Replay(l, es) = g[Len(es)]
    <2>1. Len(es) \in Nat /\ \A k \in 1..Len(es) : g[k] = Queue!Applied(g[k - 1], es[k])
      BY <1>2, <1>5
    <2> QED BY <1>4, <2>1, ReplayIs
  <1>7. g[n] = both
    <2>1. g[n] = [i \in 1..(m + n) |-> both[i]]
      BY <1>3
    <2> QED BY <2>1 DEF Lengthened
  <1> QED BY <1>1, <1>2, <1>6, <1>7

\* Jobs are added.
LEMMA AddSteps ==
    ASSUME FeedInv, NEW n \in Nat, Queue!Add(n)
    PROVE  FeedMoves
  <1>1. PICK m \in Nat : m = Len(queueJobs) /\ queueJobs \in [1..m -> QueueJobs]
          /\ DOMAIN queueJobs = 1..m
    <2>1. queueJobs \in Seq(QueueJobs)
      BY DEF FeedInv, ListOK
    <2> QED BY <2>1, LenProperties
  <1>2. PICK new : new = [k \in 1..n |-> Queue!New(queueIds + k)]
    OBVIOUS
  <1>3. queueIds \in Nat /\ queueIds \in 0..MaxJobs /\ MaxJobs \in Nat
          /\ queueIds' = queueIds + n /\ queueIds + n <= MaxJobs
    BY FeedNumbers DEF FeedInv, Queue!Add
  <1>4. \A k \in 1..n : /\ new[k] \in QueueJobs /\ JobTrue(new[k]) /\ new[k].id = queueIds + k
    BY <1>2, <1>3 DEF Queue!New, QueueJobs, QueueStates, JobTrue
  <1>5. new \in [1..n -> QueueJobs]
    <2>1. \A k \in 1..n : new[k] \in QueueJobs
      BY <1>4
    <2> QED BY <1>2, <2>1
  <1>6. new \in Seq(QueueJobs) /\ Len(new) = n
    <2>1. new \in Seq(QueueJobs)
      BY <1>5, SeqDef
    <2>2. DOMAIN new = 1..n
      BY <1>5
    <2> QED BY <2>1, <2>2
  <1>7. PICK both : both = queueJobs'
    OBVIOUS
  <1>8. both = queueJobs \o new
    BY <1>2, <1>7 DEF Queue!Add
  <1>9. /\ both \in Seq(QueueJobs) /\ Len(both) = m + n
        /\ \A i \in 1..m : both[i] = queueJobs[i]
        /\ \A k \in 1..n : both[m + k] = new[k]
    <2>1. queueJobs \in Seq(QueueJobs)
      BY DEF FeedInv, ListOK
    <2>2. Len(queueJobs) = m /\ Len(new) = n /\ new \in Seq(QueueJobs)
      BY <1>1, <1>6
    <2>3. /\ queueJobs \o new \in Seq(QueueJobs) /\ Len(queueJobs \o new) = m + n
          /\ \A i \in 1..(m + n) : (queueJobs \o new)[i] =
                IF i <= m THEN queueJobs[i] ELSE new[i - m]
      BY <2>1, <2>2, ConcatProperties
    <2>4. /\ both \in Seq(QueueJobs) /\ Len(both) = m + n
          /\ \A i \in 1..(m + n) : both[i] = IF i <= m THEN queueJobs[i] ELSE new[i - m]
      BY <1>8, <2>3, Zenon
    <2>5. \A i \in 1..m : i \in 1..(m + n) /\ i <= m
      BY <1>1
    <2>6. \A k \in 1..n : m + k \in 1..(m + n) /\ ~(m + k <= m) /\ m + k - m = k
      BY <1>1
    <2>7. \A i \in 1..m : both[i] = queueJobs[i]
      BY <2>4, <2>5
    <2>8. \A k \in 1..n : both[m + k] = new[k]
      BY <2>4, <2>6
    <2> QED BY <2>4, <2>7, <2>8
  <1>10. both \in [1..(m + n) -> QueueJobs] /\ DOMAIN both = 1..(m + n)
    BY <1>9, LenProperties
  <1>11. \A i \in 1..(m + n) : i \in 1..m \/ (i - m \in 1..n /\ i = m + (i - m))
    OBVIOUS
  <1>12. \A i \in 1..m : queueJobs[i].id \in 1..queueIds /\ JobTrue(queueJobs[i])
    BY <1>1, JobFacts
  <1>13. \A i \in 1..(m + n) : /\ both[i].id \in 1..(queueIds + n) /\ JobTrue(both[i])
                               /\ i \in 1..m => both[i] = queueJobs[i] /\ both[i].id <= queueIds
                               /\ i \notin 1..m => both[i].id = queueIds + (i - m)
    <2> TAKE i \in 1..(m + n)
    <2>1. CASE i \in 1..m
      BY <2>1, <1>3, <1>9, <1>12
    <2>2. CASE i \notin 1..m
      <3>1. PICK k \in 1..n : k = i - m /\ i = m + k
        BY <2>2, <1>11
      <3>2. both[i] = new[k]
        BY <3>1, <1>9
      <3>3. both[i].id = queueIds + k /\ JobTrue(both[i])
        BY <3>2, <1>4
      <3>4. queueIds + k \in 1..(queueIds + n) /\ k = i - m
        BY <1>3, <3>1
      <3> QED BY <2>2, <3>3, <3>4
    <2> QED BY <2>1, <2>2
  <1>14. \A i, k \in 1..(m + n) : both[i].id = both[k].id => i = k
    <2> TAKE i, k \in 1..(m + n)
    <2> HAVE both[i].id = both[k].id
    <2>1. CASE i \in 1..m /\ k \in 1..m
      <3>1. queueJobs[i].id = queueJobs[k].id
        BY <2>1, <1>13
      <3> QED BY <3>1, <2>1, <1>1 DEF FeedInv, ListOK
    <2>2. CASE i \in 1..m /\ k \notin 1..m
      BY <2>2, <1>11, <1>13, <1>3, <1>12
    <2>3. CASE i \notin 1..m /\ k \in 1..m
      BY <2>3, <1>11, <1>13, <1>3, <1>12
    <2>4. CASE i \notin 1..m /\ k \notin 1..m
      BY <2>4, <1>13, <1>3
    <2> QED BY <2>1, <2>2, <2>3, <2>4
  <1>15. PICK es : es = [k \in 1..n |-> Queue!JobEvent(new[k])]
    OBVIOUS
  <1>16. /\ es \in Seq(QueueEvents) /\ \A k \in DOMAIN es : es[k].type = "job"
         /\ Queue!Replay(queueJobs, es) = both
    <2>1. queueJobs \in [1..m -> QueueJobs] /\ m \in Nat
      BY <1>1
    <2>2. PICK l : l = queueJobs
      OBVIOUS
    <2>3. /\ es \in Seq(QueueEvents) /\ \A k \in DOMAIN es : es[k].type = "job"
          /\ Queue!Replay(l, es) = both
      <3>1. Lengthened(both, l, m, new, n)
        BY <2>1, <2>2, <1>5, <1>9, <1>10, <1>14 DEF Lengthened
      <3>2. es = TellsOf(new, n)
        BY <1>15 DEF TellsOf
      <3>3. m \in Nat /\ n \in Nat
        BY <2>1
      <3> QED BY <3>1, <3>2, <3>3, ReplayAdds
    <2> QED BY <2>2, <2>3
  <1>17. Queue!Emit(es)
    <2>1. DOMAIN new = 1..n
      BY <1>5
    <2> QED BY <2>1, <1>2, <1>15 DEF Queue!Add, Queue!EmitJobs
  <1>18. LogStep(es)
    BY <1>16, <1>17, EmitSteps DEF FeedInv
  <1>19. UNCHANGED <<paused, accepting, queueClosed>>
    BY DEF Queue!Add
  <1>20. Says(es)
    BY <1>7, <1>16, <1>19 DEF Says
  <1>21. ListOK(both, queueIds + n)
    BY <1>9, <1>10, <1>13, <1>14 DEF ListOK
  <1>22. Follows(both, queueJobs, queueIds)
    <2> SUFFICES ASSUME NEW i \in 1..(m + n)
                 PROVE  \/ both[i].id > queueIds
                        \/ \E k \in DOMAIN queueJobs : queueJobs[k].id = both[i].id
                             /\ (queueJobs[k].st = "done" => both[i].st = "done")
      BY <1>10 DEF Follows
    <2>1. CASE i \in 1..m
      BY <2>1, <1>1, <1>13
    <2>2. CASE i \notin 1..m
      BY <2>2, <1>11, <1>13, <1>3
    <2> QED BY <2>1, <2>2
  <1>23. JobsStep
    BY <1>3, <1>7, <1>19, <1>21, <1>22 DEF JobsStep, FeedInv
  <1> QED BY <1>18, <1>20, <1>23 DEF FeedStep, FeedMoves

(***************************************************************************)
(* The queue: its flags                                                    *)
(***************************************************************************)

\* A state event is an event.
LEMMA StateEventFacts ==
    ASSUME NEW j \in Seq(QueueJobs), NEW p \in BOOLEAN
    PROVE  /\ Queue!StateEvent(j, p) \in QueueEvents
           /\ <<Queue!StateEvent(j, p)>> \in Seq(QueueEvents)
           /\ <<>> \in Seq(QueueEvents)
           /\ Joined(<<>>, <<Queue!StateEvent(j, p)>>) = <<Queue!StateEvent(j, p)>>
           /\ Len(<<Queue!StateEvent(j, p)>>) = 1
  <1>1. Queue!StateEvent(j, p) = [type |-> "state", jobs |-> j, paused |-> p]
    BY DEF Queue!StateEvent
  <1>2. Queue!StateEvent(j, p) \in QueueEvents
    BY <1>1 DEF QueueEvents
  <1>3. PICK e : e = Queue!StateEvent(j, p)
    OBVIOUS
  <1>4. <<e>> \in Seq(QueueEvents) /\ <<>> \in Seq(QueueEvents) /\ Len(<<e>>) = 1
    BY <1>2, <1>3
  <1>5. Joined(<<>>, <<e>>) = <<e>>
    BY <1>4, ConcatEmptySeq DEF Joined
  <1> QED BY <1>2, <1>3, <1>4, <1>5

\* The whole list is said after the change.
LEMMA StateSteps ==
    ASSUME FeedInv, JobsStep, Queue!Emit(<<Queue!StateEvent(queueJobs', paused')>>)
    PROVE  FeedStep(<<Queue!StateEvent(queueJobs', paused')>>)
  <1>1. queueJobs' \in Seq(QueueJobs) /\ paused' \in BOOLEAN
    BY DEF JobsStep, ListOK
  <1>2. PICK j, p : j = queueJobs' /\ p = paused'
    OBVIOUS
  <1>3. PICK es : es = <<Queue!StateEvent(j, p)>>
    OBVIOUS
  <1>4. es \in Seq(QueueEvents) /\ <<>> \in Seq(QueueEvents) /\ es = Joined(<<>>, es)
    BY <1>1, <1>2, <1>3, StateEventFacts
  <1>5. Queue!Emit(es)
    BY <1>2, <1>3
  <1>6. LogStep(es)
    BY <1>4, <1>5, EmitSteps DEF FeedInv
  <1>7. Says(es)
    BY <1>2, <1>3, <1>4 DEF Says
  <1>8. FeedStep(es)
    BY <1>6, <1>7 DEF FeedStep
  <1> QED BY <1>2, <1>3, <1>8

\* The list stays, the flags change.
LEMMA JobsSame ==
    ASSUME FeedInv, UNCHANGED <<queueJobs, queueIds>>,
           paused' \in BOOLEAN, accepting' \in BOOLEAN, queueClosed' = queueClosed
    PROVE  JobsStep
  <1>1. ListOK(queueJobs, queueIds) /\ queueIds \in Nat
    BY FeedNumbers DEF FeedInv
  <1>2. Follows(queueJobs, queueJobs, queueIds)
    BY <1>1, ListSame
  <1> QED BY <1>1, <1>2 DEF JobsStep, FeedInv

\* Nothing happens in the queue.
LEMMA IdleSteps ==
    ASSUME FeedInv, UNCHANGED Queue!feed
    PROVE  FeedStep(<<>>)
  <1>1. UNCHANGED <<queueJobs, queueIds, paused, accepting, queueClosed, log, queueSeq>>
    BY DEF Queue!feed
  <1>2. LogStep(<<>>)
    BY <1>1, NothingLogged DEF FeedInv
  <1>3. JobsStep
    BY <1>1, JobsSame DEF FeedInv
  <1>4. Queue!Replay(queueJobs, <<>>) = queueJobs'
    BY <1>1, ReplayNothing
  <1>5. Says(<<>>)
    BY <1>1, <1>4 DEF Says
  <1> QED BY <1>2, <1>3, <1>5 DEF FeedStep

\* The queue pauses and says so.
LEMMA PauseSteps ==
    ASSUME FeedInv, Queue!Pause
    PROVE  FeedMoves /\ (queueClosed' \/ paused')
  <1>1. CASE queueClosed \/ paused
    BY <1>1, IdleSteps DEF Queue!Pause, FeedMoves, Queue!feed
  <1>2. CASE ~(queueClosed \/ paused)
    <2>1. /\ paused' = TRUE /\ Queue!Emit(<<Queue!StateEvent(queueJobs, TRUE)>>)
          /\ UNCHANGED <<queueJobs, queueIds, accepting, queueClosed>>
      BY <1>2 DEF Queue!Pause
    <2>2. Queue!Emit(<<Queue!StateEvent(queueJobs', paused')>>)
      BY <2>1
    <2>3. JobsStep
      BY <2>1, JobsSame DEF FeedInv
    <2> QED BY <2>1, <2>2, <2>3, StateSteps DEF FeedMoves
  <1> QED BY <1>1, <1>2

\* The queue resumes, if it takes jobs at all.
LEMMA ResumeSteps ==
    ASSUME FeedInv, Queue!Resume
    PROVE  FeedMoves /\ (queueClosed \/ ~accepting \/ ~paused') /\ accepting' = accepting
  <1>1. CASE queueClosed \/ ~accepting \/ ~paused
    BY <1>1, IdleSteps DEF Queue!Resume, FeedMoves, Queue!feed
  <1>2. CASE ~(queueClosed \/ ~accepting \/ ~paused)
    <2>1. /\ paused' = FALSE /\ Queue!Emit(<<Queue!StateEvent(queueJobs, FALSE)>>)
          /\ UNCHANGED <<queueJobs, queueIds, accepting, queueClosed>>
      BY <1>2 DEF Queue!Resume
    <2>2. Queue!Emit(<<Queue!StateEvent(queueJobs', paused')>>)
      BY <2>1
    <2>3. JobsStep
      BY <2>1, JobsSame DEF FeedInv
    <2> QED BY <2>1, <2>2, <2>3, StateSteps DEF FeedMoves
  <1> QED BY <1>1, <1>2

\* The queue takes jobs again and is not paused.
LEMMA EnableSteps ==
    ASSUME FeedInv, Queue!Enable
    PROVE  FeedMoves /\ accepting' = TRUE /\ paused' = FALSE
  <1>1. /\ paused' = FALSE /\ Queue!Emit(<<Queue!StateEvent(queueJobs, FALSE)>>)
        /\ accepting' = TRUE /\ UNCHANGED <<queueJobs, queueIds, queueClosed>>
    BY DEF Queue!Enable
  <1>2. Queue!Emit(<<Queue!StateEvent(queueJobs', paused')>>)
    BY <1>1
  <1>3. JobsStep
    BY <1>1, JobsSame DEF FeedInv
  <1> QED BY <1>1, <1>2, <1>3, StateSteps DEF FeedMoves

\* All waiting jobs are cancelled and the others stay.
LEMMA CancelledFacts ==
    ASSUME FeedInv, queueJobs' = Queue!Changed(Queue!Slots({"queued"}), Queue!Cancelled)
    PROVE  /\ ListOK(queueJobs', queueIds) /\ Follows(queueJobs', queueJobs, queueIds)
           /\ \A i \in DOMAIN queueJobs :
                 i \in Queue!Slots({"queued"}) => queueJobs'[i] = Queue!Cancelled(queueJobs[i])
           /\ \A i \in DOMAIN queueJobs :
                 i \notin Queue!Slots({"queued"}) => queueJobs'[i] = queueJobs[i]
           /\ DOMAIN queueJobs' = DOMAIN queueJobs
           /\ \A i \in DOMAIN queueJobs : queueJobs'[i].id = queueJobs[i].id
  <1>1. ListOK(queueJobs, queueIds) /\ queueIds \in Nat
    BY FeedNumbers DEF FeedInv
  <1>2. PICK new : /\ new = [i \in DOMAIN queueJobs |->
                               IF queueJobs[i].st = "queued" THEN Queue!Cancelled(queueJobs[i])
                               ELSE queueJobs[i]]
                   /\ new = queueJobs'
    BY DEF Queue!Changed, Queue!Slots
  <1>3. \A i \in DOMAIN queueJobs : /\ queueJobs[i] \in QueueJobs /\ JobTrue(queueJobs[i])
    BY JobFacts
  <1>4. \A j \in QueueJobs : /\ Queue!Cancelled(j) \in QueueJobs
    BY DEF Queue!Cancelled, QueueJobs, QueueStates
  <1>5. \A j \in QueueJobs : /\ Queue!Cancelled(j).id = j.id
          /\ Queue!Cancelled(j).st = "cancelled"
                             /\ Queue!Cancelled(j).got = j.got /\ Queue!Cancelled(j).of = j.of
    BY DEF Queue!Cancelled, QueueJobs
  <1>6. \A j \in QueueJobs : JobTrue(j) => JobTrue(Queue!Cancelled(j))
    BY <1>5 DEF JobTrue
  <1>7. new \in [DOMAIN queueJobs -> QueueJobs]
    BY <1>2, <1>3, <1>4
  <1>8. \A i \in DOMAIN queueJobs : /\ new[i].id = queueJobs[i].id /\ JobTrue(new[i])
                                    /\ queueJobs[i].st = "done" => new[i].st = "done"
    BY <1>2, <1>3, <1>5, <1>6
  <1>9. ListOK(new, queueIds) /\ Follows(new, queueJobs, queueIds)
    BY <1>1, <1>7, <1>8, ListKept
  <1> QED BY <1>2, <1>8, <1>9 DEF Queue!Slots

\* The queue is closed.
LEMMA ShutdownSteps ==
    ASSUME FeedInv, Queue!Shutdown
    PROVE  FeedMoves /\ queueClosed'
  <1>1. /\ queueClosed' = TRUE /\ accepting' = FALSE /\ paused' = TRUE
        /\ queueJobs' = Queue!Changed(Queue!Slots({"queued"}), Queue!Cancelled)
        /\ UNCHANGED <<queueIds, log, queueSeq>>
    BY DEF Queue!Shutdown
  <1>2. ListOK(queueJobs', queueIds) /\ Follows(queueJobs', queueJobs, queueIds)
    BY <1>1, CancelledFacts
  <1>3. LogStep(<<>>)
    BY <1>1, NothingLogged DEF FeedInv
  <1>4. JobsStep
    <2>1. queueIds' = queueIds /\ queueIds' \in 0..MaxJobs /\ queueIds <= queueIds'
      BY <1>1, FeedNumbers DEF FeedInv
    <2>2. ListOK(queueJobs', queueIds') /\ Follows(queueJobs', queueJobs, queueIds)
      BY <1>2, <2>1
    <2>3. /\ paused' \in BOOLEAN /\ accepting' \in BOOLEAN /\ queueClosed' \in BOOLEAN
          /\ queueClosed => queueClosed'
      BY <1>1 DEF FeedInv
    <2> QED BY <2>1, <2>2, <2>3 DEF JobsStep
  <1> QED BY <1>1, <1>3, <1>4 DEF FeedStep, FeedMoves

\* The queue takes no jobs, is paused, and its waiting ones are cancelled.
LEMMA DisableSteps ==
    ASSUME FeedInv, Queue!Disable
    PROVE  FeedMoves /\ paused' = TRUE
  <1>1. PICK q : q = Queue!InOrder(Queue!Slots({"queued"}))
    OBVIOUS
  <1>2. /\ accepting' = FALSE /\ paused' = TRUE
        /\ queueJobs' = Queue!Changed(Queue!Slots({"queued"}), Queue!Cancelled)
        /\ UNCHANGED <<queueIds, queueClosed>>
    BY DEF Queue!Disable
  <1>3. PICK a : a = [k \in DOMAIN q |-> Queue!JobEvent(Queue!Cancelled(queueJobs[q[k]]))]
    OBVIOUS
  <1>4. PICK es : es = Joined(a, <<Queue!StateEvent(queueJobs', TRUE)>>)
    OBVIOUS
  <1>5. Queue!Emit(es)
    BY <1>1, <1>3, <1>4 DEF Queue!Disable, Joined
  <1>6. ListOK(queueJobs', queueIds) /\ Follows(queueJobs', queueJobs, queueIds)
        /\ DOMAIN queueJobs' = DOMAIN queueJobs
    BY <1>2, CancelledFacts
  <1>7. a \in Seq(QueueEvents)
    <2>1. PICK m \in Nat : DOMAIN queueJobs = 1..m /\ \A i \in 1..m : queueJobs[i] \in QueueJobs
      BY JobFacts DEF FeedInv, ListOK
    <2>2. q \in Seq(1..m)
      <3>1. Queue!Slots({"queued"}) \in SUBSET (1..m)
        BY <2>1 DEF Queue!Slots
      <3> QED BY <1>1, <3>1, OrderListed
    <2>3. PICK n \in Nat : DOMAIN q = 1..n /\ \A k \in 1..n : q[k] \in 1..m
      BY <2>2, ElementOfSeq, LenProperties
    <2>4. \A j \in QueueJobs : Queue!JobEvent(Queue!Cancelled(j)) \in QueueEvents
      <3> TAKE j \in QueueJobs
      <3>1. Queue!Cancelled(j) \in QueueJobs
        BY DEF Queue!Cancelled, QueueJobs, QueueStates
      <3> QED BY <3>1 DEF Queue!JobEvent, QueueEvents
    <2>5. a \in [1..n -> QueueEvents]
      BY <1>3, <2>1, <2>3, <2>4
    <2> QED BY <2>5, SeqDef
  <1>8. es \in Seq(QueueEvents)
    <2>1. PICK j : j = queueJobs' /\ j \in Seq(QueueJobs)
      BY <1>6 DEF ListOK
    <2>2. <<Queue!StateEvent(j, TRUE)>> \in Seq(QueueEvents)
      BY <2>1, StateEventFacts
    <2> QED BY <1>4, <1>7, <2>1, <2>2, JoinedFacts
  <1>9. LogStep(es)
    BY <1>5, <1>8, EmitSteps DEF FeedInv
  <1>10. Says(es)
    BY <1>2, <1>4, <1>7 DEF Says
  <1>11. JobsStep
    <2>1. queueIds' = queueIds /\ queueIds' \in 0..MaxJobs /\ queueIds <= queueIds'
      BY <1>2, FeedNumbers DEF FeedInv
    <2>2. ListOK(queueJobs', queueIds') /\ Follows(queueJobs', queueJobs, queueIds)
      BY <1>6, <2>1
    <2>3. /\ paused' \in BOOLEAN /\ accepting' \in BOOLEAN /\ queueClosed' \in BOOLEAN
          /\ queueClosed => queueClosed'
      BY <1>2 DEF FeedInv
    <2> QED BY <2>1, <2>2, <2>3 DEF JobsStep
  <1> QED BY <1>2, <1>9, <1>10, <1>11 DEF FeedStep, FeedMoves

(***************************************************************************)
(* The queue: another order, and finished jobs that leave                  *)
(***************************************************************************)

\* A list with the jobs of another, from the places p.
Taken(l, p, c) == [i \in 1..c |-> l[p[i]]]
\* No place is taken twice.
Once(p, c) == \A i, k \in 1..c : p[i] = p[k] => i = k

\* A list taken from another, each of its jobs once.
LEMMA TakenFrom ==
    ASSUME NEW n \in Nat, NEW l, ListOK(l, n), NEW c \in Nat, NEW new, NEW p,
           p \in [1..c -> DOMAIN l], Once(p, c), new = Taken(l, p, c)
    PROVE  ListOK(new, n) /\ Follows(new, l, n)
  <1>1. \A i \in DOMAIN l : l[i] \in QueueJobs /\ l[i].id \in 1..n /\ JobTrue(l[i])
    BY ElementOfSeq DEF ListOK
  <1>2. new \in Seq(QueueJobs) /\ DOMAIN new = 1..c
    <2>1. new \in [1..c -> QueueJobs]
      BY <1>1 DEF Taken
    <2> QED BY <2>1, SeqDef
  <1>3. \A i \in 1..c : new[i].id \in 1..n /\ JobTrue(new[i])
    BY <1>1 DEF Taken
  <1>4. \A i, k \in 1..c : new[i].id = new[k].id => i = k
    <2> TAKE i, k \in 1..c
    <2>1. p[i] \in DOMAIN l /\ p[k] \in DOMAIN l /\ new[i] = l[p[i]] /\ new[k] = l[p[k]]
      BY DEF Taken
    <2> QED BY <2>1 DEF ListOK, Once
  <1>5. ListOK(new, n)
    BY <1>2, <1>3, <1>4 DEF ListOK
  <1>6. Follows(new, l, n)
    BY <1>2 DEF Follows, Taken
  <1> QED BY <1>5, <1>6

\* One of the places is taken, the ones in between move over.
Shifted(k, d, n) ==
    IF n = d THEN k
    ELSE IF d <= n /\ n <= k THEN n - 1
    ELSE IF k <= n /\ n <= d THEN n + 1 ELSE n

\* No two end up in the same place.
LEMMA ShiftedFacts ==
    ASSUME NEW c \in Nat, NEW k \in 1..c, NEW d \in 1..c
    PROVE  /\ \A n \in 1..c : Shifted(k, d, n) \in 1..c
           /\ \A n, x \in 1..c : Shifted(k, d, n) = Shifted(k, d, x) => n = x
  BY DEF Shifted

\* Where the job of each slot comes from when the waiting ones move among themselves.
NewPlaces(q, m, k, d) ==
    [i \in 1..m |-> IF i \in Queue!Range(q)
                    THEN q[Shifted(k, d, CHOOSE n \in DOMAIN q : q[n] = i)] ELSE i]

\* Every slot is taken once.
LEMMA PlacesFacts ==
    ASSUME NEW m \in Nat, NEW c \in Nat, NEW q \in [1..c -> 1..m], Once(q, c),
           NEW k \in 1..c, NEW d \in 1..c, NEW p, p = NewPlaces(q, m, k, d)
    PROVE  p \in [1..m -> 1..m] /\ Once(p, m)
  <1>1. PICK at : at = [i \in 1..m |-> CHOOSE n \in DOMAIN q : q[n] = i]
    OBVIOUS
  <1>2. \A i \in 1..m : i \in Queue!Range(q) => at[i] \in 1..c /\ q[at[i]] = i
    BY <1>1 DEF Queue!Range
  <1>3. \A i \in 1..m : p[i] = IF i \in Queue!Range(q) THEN q[Shifted(k, d, at[i])] ELSE i
    BY <1>1 DEF NewPlaces
  <1>4. \A i \in 1..m : i \in Queue!Range(q) =>
            Shifted(k, d, at[i]) \in 1..c /\ p[i] \in Queue!Range(q) /\ p[i] \in 1..m
    <2> SUFFICES ASSUME NEW i \in 1..m, i \in Queue!Range(q)
                 PROVE  Shifted(k, d, at[i]) \in 1..c /\ p[i] \in Queue!Range(q) /\ p[i] \in 1..m
      OBVIOUS
    <2>1. PICK s \in 1..c : s = Shifted(k, d, at[i])
      BY <1>2, ShiftedFacts
    <2>2. p[i] = q[s]
      BY <1>3, <2>1
    <2> QED BY <2>1, <2>2 DEF Queue!Range
  <1>5. \A i \in 1..m : i \notin Queue!Range(q) => p[i] = i
    BY <1>3
  <1>6. p \in [1..m -> 1..m]
    BY <1>4, <1>5 DEF NewPlaces
  <1>7. \A i, x \in 1..m : p[i] = p[x] => i = x
    <2> TAKE i, x \in 1..m
    <2> HAVE p[i] = p[x]
    <2>1. CASE i \in Queue!Range(q) /\ x \in Queue!Range(q)
      <3>1. PICK s, t \in 1..c : s = Shifted(k, d, at[i]) /\ t = Shifted(k, d, at[x])
        BY <1>4, <2>1
      <3>2. q[s] = q[t]
        BY <1>3, <2>1, <3>1
      <3>3. s = t
        BY <3>1, <3>2 DEF Once
      <3>4. at[i] \in 1..c /\ at[x] \in 1..c
        BY <1>2, <2>1
      <3>5. at[i] = at[x]
        <4>1. PICK n, y \in 1..c : n = at[i] /\ y = at[x]
          BY <3>4
        <4>2. Shifted(k, d, n) = Shifted(k, d, y)
          BY <3>1, <3>3, <4>1
        <4>3. n = y
          BY <4>2, ShiftedFacts
        <4> QED BY <4>1, <4>3
      <3> QED BY <3>5, <1>2, <2>1
    <2>2. CASE i \notin Queue!Range(q) \/ x \notin Queue!Range(q)
      BY <2>2, <1>4, <1>5
    <2> QED BY <2>1, <2>2
  <1> QED BY <1>6, <1>7 DEF Once

\* The slots of the waiting jobs, in their order.
Waiting == Queue!InOrder(Queue!Slots({"queued"}))
\* Where a job waits.
PlaceOf(id) == CHOOSE n \in {k \in DOMAIN Waiting : queueJobs[Waiting[k]].id = id} : TRUE
\* Where it is to wait.
PlaceFor(k, c, to) ==
    CASE to = "top" -> 1 [] to = "bottom" -> c
      [] to = "up" -> IF k = 1 THEN 1 ELSE k - 1
      [] to = "down" -> IF k = c THEN k ELSE k + 1

\* What a move of the k-th waiting job to the d-th place does.
Moved(q, k, d) ==
    IF d = k THEN UNCHANGED <<queueJobs, log, queueSeq>>
    ELSE /\ queueJobs' = [i \in DOMAIN queueJobs |->
                IF i \in Queue!Range(q)
                THEN queueJobs[q[Shifted(k, d, CHOOSE n \in DOMAIN q : q[n] = i)]]
                ELSE queueJobs[i]]
         /\ Queue!Emit(<<Queue!StateEvent(queueJobs', paused)>>)

\* A move, said with these names.
LEMMA MoveExpands ==
    ASSUME NEW id, NEW to, Queue!Move(id, to)
    PROVE  Moved(Waiting, PlaceOf(id), PlaceFor(PlaceOf(id), Len(Waiting), to))
  BY DEF Queue!Move, Shifted, Waiting, PlaceOf, PlaceFor, Moved

\* The same, with the places as given numbers.
LEMMA MoveMeans ==
    ASSUME NEW id, NEW to, Queue!Move(id, to), NEW q, q = Waiting, NEW k, k = PlaceOf(id),
           NEW d, d = PlaceFor(k, Len(q), to)
    PROVE  Moved(q, k, d)
  BY MoveExpands

\* A job moves among the waiting ones and the new order is said.
LEMMA MoveSteps ==
    ASSUME FeedInv, NEW id, NEW to \in {"top", "up", "down", "bottom"}, Queue!Move(id, to)
    PROVE  FeedMoves
  <1>1. UNCHANGED <<queueIds, paused, accepting, queueClosed>> /\ Queue!Movable(id)
    BY DEF Queue!Move
  <1>2. PICK q : q = Waiting
    OBVIOUS
  <1>3. PICK m \in Nat : /\ DOMAIN queueJobs = 1..m /\ queueJobs \in [1..m -> QueueJobs]
    BY DEF FeedInv, ListOK
  <1>4. /\ q \in Seq(1..m) /\ Listed(q) = Queue!Slots({"queued"})
        /\ \A x, n \in DOMAIN q : q[x] = q[n] => x = n
    <2>1. Queue!Slots({"queued"}) \in SUBSET (1..m)
      BY <1>3 DEF Queue!Slots
    <2> QED BY <1>2, <2>1, OrderListed DEF Waiting
  <1>5. PICK c \in Nat : c = Len(q) /\ DOMAIN q = 1..c /\ q \in [1..c -> 1..m]
    BY <1>4, LenProperties
  <1>6. PICK at : at = {x \in DOMAIN q : queueJobs[q[x]].id = id}
    OBVIOUS
  <1>7. PICK k : k = PlaceOf(id) /\ (at # {} => k \in at)
    <2>1. PlaceOf(id) = CHOOSE n \in at : TRUE
      BY <1>2, <1>6 DEF PlaceOf
    <2> QED BY <2>1
  <1>8. k \in 1..c
    <2>1. \E i \in Queue!Slots({"queued"}) : queueJobs[i].id = id
      BY <1>1 DEF Queue!Movable
    <2>2. at # {}
      BY <2>1, <1>4, <1>6 DEF Listed
    <2> QED BY <2>2, <1>5, <1>6, <1>7
  <1>9. PICK d : d = PlaceFor(k, c, to)
    OBVIOUS
  <1>10. d \in 1..c
    BY <1>8, <1>9 DEF PlaceFor
  <1>11. Moved(q, k, d)
    <2>1. d = PlaceFor(k, Len(q), to)
      BY <1>5, <1>9
    <2> QED BY <1>2, <1>7, <2>1, MoveMeans
  <1>12. CASE d = k
    <2>1. UNCHANGED Queue!feed
      BY <1>1, <1>11, <1>12 DEF Queue!feed, Moved
    <2> QED BY <2>1, IdleSteps DEF FeedMoves
  <1>13. CASE d # k
    <2>1. PICK p : p = NewPlaces(q, m, k, d)
      OBVIOUS
    <2>2. p \in [1..m -> 1..m] /\ Once(p, m)
      <3>1. Once(q, c)
        BY <1>4, <1>5 DEF Once
      <3> QED BY <1>5, <1>8, <1>10, <2>1, <3>1, PlacesFacts
    <2>3. PICK new : new = queueJobs'
      OBVIOUS
    <2>4. new = [i \in 1..m |-> queueJobs[p[i]]]
      <3>1. new = [i \in 1..m |->
                     IF i \in Queue!Range(q)
                     THEN queueJobs[q[Shifted(k, d, CHOOSE n \in DOMAIN q : q[n] = i)]]
                     ELSE queueJobs[i]]
        BY <1>3, <1>11, <1>13, <2>3 DEF Moved
      <3>2. \A i \in 1..m : queueJobs[p[i]] =
                     IF i \in Queue!Range(q)
                     THEN queueJobs[q[Shifted(k, d, CHOOSE n \in DOMAIN q : q[n] = i)]]
                     ELSE queueJobs[i]
        BY <2>1 DEF NewPlaces
      <3> QED BY <3>1, <3>2
    <2>5. ListOK(queueJobs, queueIds) /\ queueIds \in Nat
      BY FeedNumbers DEF FeedInv
    <2>6. ListOK(new, queueIds) /\ Follows(new, queueJobs, queueIds)
      <3>1. new = Taken(queueJobs, p, m) /\ p \in [1..m -> DOMAIN queueJobs]
        BY <1>3, <2>2, <2>4 DEF Taken
      <3> QED BY <2>2, <2>5, <3>1, TakenFrom
    <2>7. queueIds' = queueIds /\ queueIds' \in 0..MaxJobs /\ queueIds <= queueIds'
      BY <1>1, FeedNumbers DEF FeedInv
    <2>8. ListOK(queueJobs', queueIds') /\ Follows(queueJobs', queueJobs, queueIds)
      BY <2>3, <2>6, <2>7
    <2>9. JobsStep
      BY <1>1, <2>7, <2>8 DEF JobsStep, FeedInv
    <2>10. Queue!Emit(<<Queue!StateEvent(queueJobs', paused')>>)
      BY <1>1, <1>11, <1>13 DEF Moved
    <2> QED BY <2>9, <2>10, StateSteps DEF FeedMoves
  <1> QED BY <1>12, <1>13

\* Finished jobs leave the list.
LEMMA ClearSteps ==
    ASSUME FeedInv, Queue!ClearFinished
    PROVE  /\ FeedMoves /\ queueSeq' = queueSeq + 1 /\ queueClosed' = queueClosed
           /\ \A k \in DOMAIN queueJobs' : queueJobs'[k].st # "done"
  <1>1. PICK I : I = Queue!Slots(Queue!Statuses \ Queue!Settled)
    OBVIOUS
  <1>2. PICK q : q = Queue!InOrder(I)
    OBVIOUS
  <1>3. /\ queueJobs' = [k \in DOMAIN q |-> queueJobs[q[k]]]
        /\ queueSeq' = queueSeq + 1
        /\ log' = <<Queue!StateEvent(queueJobs', paused)>>
        /\ UNCHANGED <<queueIds, paused, accepting, queueClosed>>
    BY <1>1, <1>2 DEF Queue!ClearFinished
  <1>4. PICK m \in Nat : DOMAIN queueJobs = 1..m
    BY DEF FeedInv, ListOK
  <1>5. I \in SUBSET (1..m) /\ \A i \in I : queueJobs[i].st # "done"
    BY <1>1, <1>4 DEF Queue!Slots, Queue!Statuses, Queue!Settled
  <1>6. /\ q \in Seq(1..m) /\ Listed(q) = I
        /\ \A x, n \in DOMAIN q : q[x] = q[n] => x = n
    BY <1>2, <1>5, OrderListed
  <1>7. PICK c \in Nat : DOMAIN q = 1..c /\ q \in [1..c -> 1..m]
    BY <1>6, LenProperties
  <1>8. ListOK(queueJobs, queueIds) /\ queueIds \in Nat /\ paused \in BOOLEAN
    BY FeedNumbers DEF FeedInv
  <1>9. PICK new : new = queueJobs' /\ new = [k \in 1..c |-> queueJobs[q[k]]]
    BY <1>3, <1>7
  <1>10. ListOK(new, queueIds) /\ Follows(new, queueJobs, queueIds)
    <2>1. new = Taken(queueJobs, q, c) /\ q \in [1..c -> DOMAIN queueJobs] /\ Once(q, c)
      BY <1>4, <1>6, <1>7, <1>9 DEF Taken, Once
    <2> QED BY <1>8, <2>1, TakenFrom
  <1>11. \A k \in DOMAIN new : new[k].st # "done"
    BY <1>5, <1>6, <1>7, <1>9 DEF Listed
  <1>12. queueIds' = queueIds /\ queueIds' \in 0..MaxJobs /\ queueIds <= queueIds'
    BY <1>3, FeedNumbers DEF FeedInv
  <1>13. ListOK(queueJobs', queueIds') /\ Follows(queueJobs', queueJobs, queueIds)
    BY <1>9, <1>10, <1>12
  <1>14. JobsStep
    BY <1>3, <1>12, <1>13 DEF JobsStep, FeedInv
  <1>15. PICK es : es = log' /\ es = <<Queue!StateEvent(new, paused)>>
    BY <1>3, <1>9
  <1>16. es \in Seq(QueueEvents) /\ Len(es) = 1 /\ es = Joined(<<>>, es)
           /\ <<>> \in Seq(QueueEvents)
    <2>1. new \in Seq(QueueJobs)
      BY <1>10 DEF ListOK
    <2> QED BY <1>8, <1>15, <2>1, StateEventFacts
  <1>17. LogOK /\ log \in Seq(QueueEvents) /\ queueSeq \in Nat
    BY DEF FeedInv, LogOK
  <1>18. EndsIn(Joined(log, es), log')
    BY <1>15, <1>17 DEF EndsIn
  <1>19. LogOK'
    BY <1>3, <1>15, <1>16, <1>17, FeedNumbers DEF LogOK
  <1>20. LogStep(es)
    BY <1>3, <1>16, <1>18, <1>19 DEF LogStep
  <1>21. Says(es)
    <2>1. es = <<Queue!StateEvent(queueJobs', paused')>>
      BY <1>3, <1>9, <1>15
    <2> QED BY <1>16, <2>1 DEF Says
  <1> QED BY <1>3, <1>9, <1>11, <1>14, <1>20, <1>21 DEF FeedStep, FeedMoves

(***************************************************************************)
(* The queue: its invariant                                                *)
(***************************************************************************)

\* What the events say, said to a list.
LEMMA SaysFacts ==
    ASSUME FeedInv, NEW es, FeedStep(es), ~queueClosed',
           NEW t \in Seq(QueueEvents), NEW l \in Seq(QueueJobs)
    PROVE  /\ Queue!Replay(l, Joined(t, es)) \in Seq(QueueJobs)
           /\ Listed(Queue!Replay(l, t)) \subseteq Listed(queueJobs)
                => Listed(Queue!Replay(l, Joined(t, es))) \subseteq Listed(queueJobs')
           /\ Queue!Replay(l, t) = queueJobs => Queue!Replay(l, Joined(t, es)) = queueJobs'
           /\ \A p : PausedBy(p, t) = paused => PausedBy(p, Joined(t, es)) = paused'
  <1>1. es \in Seq(QueueEvents) /\ Says(es)
    BY DEF FeedStep, LogStep
  <1>2. queueJobs \in Seq(QueueJobs) /\ queueJobs' \in Seq(QueueJobs)
    BY DEF FeedInv, FeedStep, JobsStep, ListOK
  <1>3. Queue!Replay(l, t) \in Seq(QueueJobs)
    BY ReplayShowsLess
  <1>4. Joined(t, es) \in Seq(QueueEvents)
    BY <1>1, JoinedFacts
  <1>5. Queue!Replay(l, Joined(t, es)) \in Seq(QueueJobs)
    BY <1>4, ReplayShowsLess
  <1>6. Queue!Replay(l, Joined(t, es)) = Queue!Replay(Queue!Replay(l, t), es)
    BY <1>1, ReplayConcat DEF Joined
  <1>7. CASE /\ \A k \in DOMAIN es : es[k].type = "job"
             /\ paused' = paused /\ Queue!Replay(queueJobs, es) = queueJobs'
    <2>1. Listed(Queue!Replay(l, t)) \subseteq Listed(queueJobs)
            => Listed(Queue!Replay(Queue!Replay(l, t),
              es)) \subseteq Listed(Queue!Replay(queueJobs, es))
      BY <1>1, <1>2, <1>3, ReplayShowsLess
    <2>2. \A p : PausedBy(p, Joined(t, es)) = PausedBy(p, t)
      BY <1>1, <1>7, PausedBefore DEF Joined
    <2> QED BY <1>5, <1>6, <1>7, <2>1, <2>2
  <1>8. CASE \E a \in Seq(QueueEvents) : es = Joined(a, <<Queue!StateEvent(queueJobs', paused')>>)
    <2>1. PICK j \in Seq(QueueJobs), r \in BOOLEAN : j = queueJobs' /\ r = paused'
      BY <1>2 DEF FeedStep, JobsStep
    <2>2. PICK a \in Seq(QueueEvents) : es = Joined(a, <<Queue!StateEvent(j, r)>>)
      BY <1>8, <2>1
    <2>3. <<Queue!StateEvent(j, r)>> \in Seq(QueueEvents)
            /\ Queue!StateEvent(j, r) \in QueueEvents
      BY StateEventFacts
    <2>4. PICK b \in Seq(QueueEvents) : b = Joined(t, a)
      BY JoinedFacts
    <2>5. Joined(t, es) = Joined(b, <<Queue!StateEvent(j, r)>>)
      BY <2>2, <2>3, <2>4, JoinedFacts
    <2>6. Queue!Replay(l, Joined(b, <<Queue!StateEvent(j, r)>>)) = j
      BY <2>3, ReplayState DEF Joined
    <2>7. \A p : PausedBy(p, Joined(b, <<Queue!StateEvent(j, r)>>)) = r
      BY PausedLast DEF Joined
    <2> QED BY <1>5, <2>1, <2>5, <2>6, <2>7
  <1> QED BY <1>1, <1>7, <1>8 DEF Says

\* Every method of the queue keeps the queue's invariant.
LEMMA FeedKept ==
    ASSUME FeedInv, NEW es, FeedStep(es)
    PROVE  FeedInv'
  <1>1. LogStep(es) /\ JobsStep
    BY DEF FeedStep
  <1>2. ~queueClosed' => Listed(Queue!Replay(<<>>, log')) \subseteq Listed(queueJobs')
    <2> HAVE ~queueClosed'
    <2>1. ~queueClosed
      BY <1>1 DEF JobsStep
    <2>2. log \in Seq(QueueEvents) /\ log' \in Seq(QueueEvents) /\ es \in Seq(QueueEvents)
          /\ EndsIn(Joined(log, es), log')
      BY <1>1 DEF FeedInv, LogOK, LogStep
    <2>3. Listed(Queue!Replay(<<>>, log)) \subseteq Listed(queueJobs)
      BY <2>1 DEF FeedInv
    <2>4. <<>> \in Seq(QueueJobs)
      OBVIOUS
    <2>5. Listed(Queue!Replay(<<>>, Joined(log, es))) \subseteq Listed(queueJobs')
      BY <2>2, <2>3, <2>4, SaysFacts
    <2>6. Joined(log, es) \in Seq(QueueEvents)
      BY <2>2, JoinedFacts
    <2>7. PICK s, m : s = Joined(log, es) /\ m = log'
      OBVIOUS
    <2>8. Listed(Queue!Replay(<<>>, m)) \subseteq Listed(Queue!Replay(<<>>, s))
      BY <2>2, <2>6, <2>7, CutShowsLess
    <2> QED BY <2>5, <2>7, <2>8
  <1>3. ListOK(queueJobs', queueIds') /\ queueIds' \in 0..MaxJobs
        /\ paused' \in BOOLEAN /\ accepting' \in BOOLEAN /\ queueClosed' \in BOOLEAN
    BY <1>1 DEF JobsStep
  <1>4. LogOK'
    BY <1>1 DEF LogStep
  <1> QED BY <1>2, <1>3, <1>4 DEF FeedInv

(***************************************************************************)
(* The list: a window that has still to read                               *)
(***************************************************************************)

\* A window with list l and flag p that reads the events t: it shows only jobs of the
\* queue, and the queue's own list if it has missed none.
Caught(l, p, t) ==
    /\ Listed(Queue!Replay(l, t)) \subseteq Listed(queueJobs)
    /\ ~gap => Queue!Replay(l, t) = queueJobs /\ PausedBy(p, t) = paused

\* The window's list and the events it has still to read.
ShowsInv ==
    /\ queueShown \in Seq(QueueJobs) /\ since \in Nat /\ since <= queueSeq
    /\ since = 0 => queueShown = <<>>
    /\ gap \in BOOLEAN
    /\ ~queueClosed =>
         \A t \in Seq(QueueEvents) :
            EndsIn(log, t) /\ Len(t) = queueSeq - since => Caught(queueShown, uiPaused, t)

\* The finished jobs of a list are among S.
DoneAre(S, l) == \A k \in DOMAIN l : l[k].st = "done" => l[k].id \in S

\* The panes are refreshed once for each job that is shown as done.
SeenInv ==
    /\ seen \subseteq 1..MaxJobs /\ refreshed \in [1..MaxJobs -> 0..1]
    /\ \A i \in seen : /\ refreshed[i] = 1
                       /\ \A k \in DOMAIN queueJobs : queueJobs[k].id = i
                            => queueJobs[k].st = "done"
    /\ \A i \in 1..MaxJobs : refreshed[i] = 1 =>
          i <= queueIds /\ (i \in seen \/ \A k \in DOMAIN queueJobs : queueJobs[k].id # i)
    /\ (due /\ since < queueSeq) \/ DoneAre(seen, queueShown)

\* The queue takes jobs as long as the window is connected.
JoinInv ==
    ~queueClosed =>
        /\ queueLink \in {"enabled", "on", "disconnecting"} => accepting
        /\ queueLink = "enabled" => ~paused
        /\ queueLink = "disabled" => paused

\* The inductive invariant of the window's list of transfers.
WinInv == ShowsInv /\ SeenInv /\ JoinInv /\ due \in BOOLEAN

\* Whatever the queue does and says, the window can still catch up.
LEMMA ShowsKept ==
    ASSUME FeedInv, ShowsInv, NEW es, FeedStep(es),
           UNCHANGED <<queueShown, since, gap>>,
           queueClosed' \/ uiPaused' = uiPaused \/ uiPaused' = paused'
    PROVE  ShowsInv'
  <1>1. /\ es \in Seq(QueueEvents) /\ queueSeq' = queueSeq + Len(es) /\ Len(es) \in Nat
        /\ log' \in Seq(QueueEvents) /\ log \in Seq(QueueEvents) /\ queueSeq \in Nat
        /\ EndsIn(Joined(log, es), log')
    BY LenProperties DEF FeedStep, LogStep, LogOK, FeedInv
  <1>2. since' = since /\ since' \in Nat /\ since' <= queueSeq'
    BY <1>1 DEF ShowsInv
  <1>3. ~queueClosed' =>
         \A t \in Seq(QueueEvents) :
            EndsIn(log', t) /\ Len(t) = queueSeq' - since' => Caught(queueShown, uiPaused, t)'
    <2> SUFFICES ASSUME ~queueClosed', NEW t \in Seq(QueueEvents),
                        EndsIn(log', t), Len(t) = queueSeq' - since'
                 PROVE  Caught(queueShown, uiPaused, t)'
      OBVIOUS
    <2>1. ~queueClosed
      BY DEF FeedStep, JobsStep
    <2>2. Len(es) <= Len(t) /\ Len(t) - Len(es) = queueSeq - since
      BY <1>1, <1>2 DEF ShowsInv
    <2>3. PICK m : m = log' /\ m \in Seq(QueueEvents) /\ EndsIn(Joined(log, es), m)
            /\ EndsIn(m, t)
      BY <1>1
    <2>4. PICK b \in Seq(QueueEvents) :
             EndsIn(log, b) /\ t = Joined(b, es) /\ Len(b) = Len(t) - Len(es)
      BY <1>1, <2>2, <2>3, EndsWith
    <2>5. Caught(queueShown, uiPaused, b)
      BY <2>1, <2>2, <2>4 DEF ShowsInv
    <2>6. queueShown \in Seq(QueueJobs)
      BY DEF ShowsInv
    <2>7. /\ Listed(Queue!Replay(queueShown, t)) \subseteq Listed(queueJobs')
          /\ ~gap => Queue!Replay(queueShown, t) = queueJobs' /\ PausedBy(uiPaused, t) = paused'
      BY <2>4, <2>5, <2>6, SaysFacts DEF Caught
    <2>8. ~gap => PausedBy(uiPaused', t) = paused'
      BY <2>7, PausedEither
    <2>9. PICK l : l = queueShown /\ l = queueShown'
      OBVIOUS
    <2>10. /\ Listed(Queue!Replay(l, t)) \subseteq Listed(queueJobs')
           /\ ~gap' => Queue!Replay(l, t) = queueJobs' /\ PausedBy(uiPaused', t) = paused'
      BY <2>7, <2>8, <2>9
    <2> QED BY <2>9, <2>10 DEF Caught
  <1>4. /\ queueShown' \in Seq(QueueJobs) /\ (since' = 0 => queueShown' = <<>>)
        /\ gap' \in BOOLEAN
    BY DEF ShowsInv
  <1> QED BY <1>2, <1>3, <1>4 DEF ShowsInv

\* The queue does something and the window has not looked.
LEMMA SeenKept ==
    ASSUME FeedInv, ShowsInv, SeenInv, NEW es, FeedStep(es),
           UNCHANGED <<queueShown, since, refreshed, seen>>, due => due'
    PROVE  SeenInv'
  <1>1. /\ queueIds \in Nat /\ queueIds' \in Nat /\ queueIds <= queueIds'
        /\ Follows(queueJobs', queueJobs, queueIds)
        /\ \A k \in DOMAIN queueJobs' : queueJobs'[k].id \in 1..queueIds'
    BY FeedNumbers DEF FeedInv, FeedStep, JobsStep, ListOK
  <1>2. /\ seen \subseteq 1..MaxJobs /\ refreshed \in [1..MaxJobs -> 0..1] /\ MaxJobs \in Nat
        /\ \A i \in seen : /\ refreshed[i] = 1
                           /\ \A k \in DOMAIN queueJobs : queueJobs[k].id = i
                                => queueJobs[k].st = "done"
        /\ \A i \in 1..MaxJobs : refreshed[i] = 1 =>
              i <= queueIds /\ (i \in seen \/ \A k \in DOMAIN queueJobs : queueJobs[k].id # i)
        /\ (due /\ since < queueSeq) \/ DoneAre(seen, queueShown)
    BY FeedNumbers DEF SeenInv
  <1>3. ASSUME NEW i \in seen, NEW k \in DOMAIN queueJobs', queueJobs'[k].id = i
        PROVE  queueJobs'[k].st = "done"
    <2>1. i \in 1..MaxJobs /\ i <= queueIds
      BY <1>2
    <2>2. ~(queueJobs'[k].id > queueIds)
      BY <2>1, <1>1, <1>2, <1>3
    <2>3. PICK n \in DOMAIN queueJobs :
             queueJobs[n].id = i /\ (queueJobs[n].st = "done" => queueJobs'[k].st = "done")
      BY <2>2, <1>1, <1>3 DEF Follows
    <2> QED BY <2>3, <1>2
  <1>4. ASSUME NEW i \in 1..MaxJobs, refreshed[i] = 1, i \notin seen,
               NEW k \in DOMAIN queueJobs', queueJobs'[k].id = i
        PROVE  FALSE
    <2>1. i <= queueIds /\ \A n \in DOMAIN queueJobs : queueJobs[n].id # i
      BY <1>2, <1>4
    <2>2. ~(queueJobs'[k].id > queueIds)
      BY <2>1, <1>1, <1>2, <1>4
    <2> QED BY <2>1, <2>2, <1>1, <1>4 DEF Follows
  <1>5. \A i \in 1..MaxJobs : refreshed[i] = 1 => i <= queueIds'
    BY <1>1, <1>2
  <1>6. queueSeq \in Nat /\ queueSeq' \in Nat /\ queueSeq <= queueSeq' /\ since \in Nat
    <2>1. es \in Seq(QueueEvents)
      BY DEF FeedStep, LogStep
    <2>2. Len(es) \in Nat
      BY <2>1, LenProperties
    <2> QED BY <2>2 DEF FeedStep, LogStep, FeedInv, LogOK, ShowsInv
  <1>7. since < queueSeq => since' < queueSeq'
    BY <1>6
  <1>8. (due' /\ since' < queueSeq') \/ DoneAre(seen', queueShown')
    BY <1>2, <1>7
  <1>9. seen' = seen /\ refreshed' = refreshed
    OBVIOUS
  <1>10. /\ \A i \in seen' : /\ refreshed'[i] = 1
                       /\ \A k \in DOMAIN queueJobs' : queueJobs'[k].id = i
                            => queueJobs'[k].st = "done"
    BY <1>2, <1>3, <1>9
  <1>11. \A i \in 1..MaxJobs : refreshed'[i] = 1 =>
          i <= queueIds' /\ (i \in seen' \/ \A k \in DOMAIN queueJobs' : queueJobs'[k].id # i)
    BY <1>4, <1>5, <1>9
  <1>12. seen' \subseteq 1..MaxJobs /\ refreshed' \in [1..MaxJobs -> 0..1]
    BY <1>2, <1>9
  <1> QED BY <1>8, <1>10, <1>11, <1>12 DEF SeenInv

\* All finished jobs have left the list.
LEMMA SeenCleared ==
    ASSUME FeedInv, ShowsInv, SeenInv, NEW es, FeedStep(es), queueSeq' = queueSeq + 1,
           \A k \in DOMAIN queueJobs' : queueJobs'[k].st # "done",
           UNCHANGED <<queueShown, since, refreshed>>, seen' = {}, due'
    PROVE  SeenInv'
  <1>1. /\ queueIds \in Nat /\ queueIds' \in Nat /\ queueIds <= queueIds'
        /\ Follows(queueJobs', queueJobs, queueIds)
        /\ \A k \in DOMAIN queueJobs' : queueJobs'[k].id \in 1..queueIds'
    BY FeedNumbers DEF FeedInv, FeedStep, JobsStep, ListOK
  <1>2. /\ refreshed \in [1..MaxJobs -> 0..1] /\ MaxJobs \in Nat
        /\ \A i \in seen :
              \A k \in DOMAIN queueJobs : queueJobs[k].id = i => queueJobs[k].st = "done"
        /\ \A i \in 1..MaxJobs : refreshed[i] = 1 =>
              i <= queueIds /\ (i \in seen \/ \A k \in DOMAIN queueJobs : queueJobs[k].id # i)
    BY FeedNumbers DEF SeenInv
  <1>3. ASSUME NEW i \in 1..MaxJobs, refreshed[i] = 1,
               NEW k \in DOMAIN queueJobs', queueJobs'[k].id = i
        PROVE  FALSE
    <2>1. i <= queueIds
      BY <1>2, <1>3
    <2>2. ~(queueJobs'[k].id > queueIds)
      BY <2>1, <1>1, <1>2, <1>3
    <2>3. PICK n \in DOMAIN queueJobs :
             queueJobs[n].id = i /\ (queueJobs[n].st = "done" => queueJobs'[k].st = "done")
      BY <2>2, <1>1, <1>3 DEF Follows
    <2>4. i \in seen
      BY <2>3, <1>2, <1>3
    <2> QED BY <2>3, <2>4, <1>2
  <1>4. since' < queueSeq'
    BY DEF FeedInv, LogOK, ShowsInv
  <1>5. \A i \in 1..MaxJobs : refreshed[i] = 1 => i <= queueIds'
    BY <1>1, <1>2
  <1>6. refreshed' = refreshed
    OBVIOUS
  <1> QED BY <1>2, <1>3, <1>4, <1>5, <1>6 DEF SeenInv

(***************************************************************************)
(* The list: a window that reads                                           *)
(***************************************************************************)

\* What a refresh shows.
Shown(l) ==
    /\ l \in Seq(QueueJobs) /\ l = queueShown' /\ since' = queueSeq
    /\ Listed(l) \subseteq Listed(queueJobs)
    /\ ~gap' => l = queueJobs /\ uiPaused' = paused
    /\ queueSeq = 0 => l = <<>>

\* What the answer to a refresh brings, whether or not the log still reaches back.
LEMMA AnswerFacts ==
    ASSUME FeedInv, ShowsInv, ~queueClosed, NEW es, es = Queue!Events(since),
           NEW l, l = Queue!Replay(queueShown, es), NEW p, p = PausedBy(uiPaused, es)
    PROVE  /\ l \in Seq(QueueJobs) /\ Listed(l) \subseteq Listed(queueJobs)
           /\ ~(gap \/ (since = 0 /\ queueSeq > Len(log))) => l = queueJobs /\ p = paused
           /\ es = <<>> => since = queueSeq /\ l = queueShown /\ p = uiPaused
           /\ queueSeq = 0 => es = <<>>
  <1>1. /\ log \in Seq(QueueEvents) /\ queueSeq \in Nat /\ Len(log) \in Nat
        /\ Len(log) <= queueSeq /\ (queueSeq > 0 => Len(log) > 0)
    BY LenProperties DEF FeedInv, LogOK
  <1>2. /\ queueShown \in Seq(QueueJobs) /\ since \in Nat /\ since <= queueSeq
        /\ (since = 0 => queueShown = <<>>)
    BY DEF ShowsInv
  <1>3. PICK n \in Nat : n = queueSeq - since
    BY <1>1, <1>2
  <1>4. es = <<>> => l = queueShown /\ p = uiPaused
    BY ReplayNothing, PausedNothing
  <1>5. CASE since > 0 /\ Len(log) > 0 /\ n > Len(log)
    <2>1. es = <<Queue!StateEvent(queueJobs, paused)>>
      BY <1>3, <1>5 DEF Queue!Events
    <2>2. PICK j \in Seq(QueueJobs), r \in BOOLEAN : j = queueJobs /\ r = paused
      BY DEF FeedInv, ListOK
    <2>3. /\ Queue!StateEvent(j, r) \in QueueEvents /\ <<>> \in Seq(QueueEvents)
          /\ <<Queue!StateEvent(j, r)>> \in Seq(QueueEvents)
          /\ <<Queue!StateEvent(j, r)>> = Joined(<<>>, <<Queue!StateEvent(j, r)>>)
          /\ Len(<<Queue!StateEvent(j, r)>>) = 1
      BY StateEventFacts
    <2>4. Queue!Replay(queueShown, Joined(<<>>, <<Queue!StateEvent(j, r)>>)) = j
      BY <2>3, ReplayState DEF Joined
    <2>5. PausedBy(uiPaused, Joined(<<>>, <<Queue!StateEvent(j, r)>>)) = r
      BY <2>3, PausedLast DEF Joined
    <2>6. l = queueJobs /\ p = paused
      BY <2>1, <2>2, <2>3, <2>4, <2>5
    <2>7. es # <<>>
      BY <2>1, <2>2, <2>3
    <2>8. queueSeq # 0
      BY <1>1, <1>5
    <2> QED BY <2>2, <2>6, <2>7, <2>8
  <1>6. CASE n <= Len(log)
    <2>1. es = SubSeq(log, Len(log) + 1 - n, Len(log))
      BY <1>1, <1>3, <1>6 DEF Queue!Events
    <2>2. es \in Seq(QueueEvents) /\ Len(es) = n /\ EndsIn(log, es)
      BY <1>1, <1>6, <2>1, LastOnes
    <2>3. Caught(queueShown, uiPaused, es)
      BY <1>3, <2>2 DEF ShowsInv
    <2>4. l \in Seq(QueueJobs)
      BY <1>2, <2>2, ReplayShowsLess
    <2>5. es = <<>> => since = queueSeq
      <3>1. es = <<>> => n = 0
        BY <2>2
      <3> QED BY <3>1, <1>1, <1>2, <1>3
    <2>6. queueSeq = 0 => es = <<>>
      <3>1. queueSeq = 0 => n = 0
        BY <1>1, <1>2, <1>3
      <3> QED BY <3>1, <2>2
    <2> QED BY <1>4, <2>3, <2>4, <2>5, <2>6 DEF Caught
  <1>7. CASE n > Len(log) /\ ~(since > 0 /\ Len(log) > 0)
    <2>1. since = 0 /\ queueSeq > Len(log) /\ queueSeq # 0
      BY <1>1, <1>2, <1>3, <1>7
    <2>2. es = SubSeq(log, 1, Len(log)) /\ Len(log) > 0
      BY <1>1, <1>3, <1>7, <2>1 DEF Queue!Events
    <2>3. es = log
      <3>1. SubSeq(log, 1, Len(log)) = log
        BY <1>1
      <3> QED BY <2>2, <3>1
    <2>4. l = Queue!Replay(<<>>, log)
      BY <1>2, <2>1, <2>3
    <2>5. Listed(l) \subseteq Listed(queueJobs)
      BY <2>4 DEF FeedInv
    <2>6. l \in Seq(QueueJobs)
      BY <1>1, <1>2, <2>3, ReplayShowsLess
    <2>7. es # <<>>
      <3>1. Len(es) > 0
        BY <2>2, <2>3
      <3>2. Len(<<>>) = 0
        OBVIOUS
      <3> QED BY <3>1, <3>2
    <2> QED BY <2>1, <2>5, <2>6, <2>7
  <1> QED BY <1>1, <1>3, <1>5, <1>6, <1>7

\* The panes are refreshed for the jobs that are shown as done for the first time.
Marked(l) ==
    LET new == {i \in 1..MaxJobs : i \notin seen
                  /\ \E k \in DOMAIN l : l[k].id = i /\ l[k].st = "done"}
    IN  /\ seen' = seen \cup {l[k].id : k \in {n \in DOMAIN l : l[n].st = "done"}}
        /\ refreshed' = [i \in 1..MaxJobs |-> IF i \in new /\ refreshed[i] < 2
                                              THEN refreshed[i] + 1 ELSE refreshed[i]]

\* What a refresh does.
LEMMA RefreshMeans ==
    ASSUME FeedInv, ShowsInv, Queue!Refresh
    PROVE  /\ UNCHANGED Queue!feed /\ UNCHANGED queueLink /\ ~queueClosed /\ due' = FALSE
           /\ gap' \in BOOLEAN
           /\ \E l : /\ Shown(l)
                     /\ \/ Marked(l)
                        \/ since = queueSeq /\ l = queueShown /\ UNCHANGED <<seen, refreshed>>
  <1>1. PICK es : es = Queue!Events(since)
    OBVIOUS
  <1>2. PICK l : l = Queue!Replay(queueShown, es)
    OBVIOUS
  <1>3. PICK p : p = PausedBy(uiPaused, es)
    OBVIOUS
  <1>4. /\ ~queueClosed /\ since' = queueSeq /\ due' = FALSE
        /\ gap' = (gap \/ (since = 0 /\ queueSeq > Len(log)))
        /\ UNCHANGED <<Queue!feed, queueLink>>
    BY DEF Queue!Refresh
  <1>5. es = <<>> => UNCHANGED <<queueShown, uiPaused, seen, refreshed>>
    BY <1>1 DEF Queue!Refresh
  <1>6. es # <<>> => queueShown' = l
    BY <1>1, <1>2 DEF Queue!Refresh
  <1>7. es # <<>> => uiPaused' = p
    BY <1>1, <1>3 DEF Queue!Refresh, Queue!PausedAfter, PausedBy
  <1>8. es # <<>> => Marked(l)
    BY <1>1, <1>2 DEF Queue!Refresh, Queue!SeenAfter, Marked
  <1>9. /\ l \in Seq(QueueJobs) /\ Listed(l) \subseteq Listed(queueJobs)
        /\ ~(gap \/ (since = 0 /\ queueSeq > Len(log))) => l = queueJobs /\ p = paused
        /\ es = <<>> => since = queueSeq /\ l = queueShown /\ p = uiPaused
        /\ queueSeq = 0 => es = <<>>
    BY <1>1, <1>2, <1>3, <1>4, AnswerFacts
  <1>10. queueShown' = l /\ uiPaused' = p
    BY <1>5, <1>6, <1>7, <1>9
  <1>11. queueSeq = 0 => l = <<>>
    BY <1>9 DEF ShowsInv
  <1>12. Shown(l)
    <2>1. ~gap' => ~(gap \/ (since = 0 /\ queueSeq > Len(log)))
      BY <1>4
    <2> QED BY <1>4, <1>9, <1>10, <1>11, <2>1 DEF Shown
  <1>13. gap' \in BOOLEAN
    BY <1>4 DEF ShowsInv
  <1>14. Marked(l) \/ (since = queueSeq /\ l = queueShown /\ UNCHANGED <<seen, refreshed>>)
    BY <1>5, <1>8, <1>9
  <1> QED BY <1>4, <1>12, <1>13, <1>14

\* After a refresh nothing is left to read.
LEMMA ShowsRefreshed ==
    ASSUME FeedInv, UNCHANGED Queue!feed, gap' \in BOOLEAN, NEW l, Shown(l)
    PROVE  ShowsInv'
  <1>1. UNCHANGED <<queueJobs, queueIds, paused, accepting, queueClosed, log, queueSeq>>
    BY DEF Queue!feed
  <1>2. queueSeq \in Nat
    BY DEF FeedInv, LogOK
  <1>3. since' \in Nat /\ since' <= queueSeq' /\ queueSeq' - since' = 0
          /\ (since' = 0 => l = <<>>)
    BY <1>1, <1>2 DEF Shown
  <1>4. ASSUME NEW t \in Seq(QueueEvents), Len(t) = queueSeq' - since'
        PROVE  Caught(queueShown, uiPaused, t)'
    <2>1. t = <<>>
      BY <1>3, <1>4
    <2>2. Queue!Replay(l, t) = l /\ \A p : PausedBy(p, t) = p
      BY <2>1, ReplayNothing, PausedNothing
    <2>3. /\ Listed(Queue!Replay(l, t)) \subseteq Listed(queueJobs)
          /\ ~gap' => Queue!Replay(l, t) = queueJobs /\ PausedBy(uiPaused', t) = paused
      BY <2>2 DEF Shown
    <2>4. l = queueShown'
      BY DEF Shown
    <2> QED BY <1>1, <2>3, <2>4 DEF Caught
  <1>5. l \in Seq(QueueJobs) /\ l = queueShown'
    BY DEF Shown
  <1> QED BY <1>3, <1>4, <1>5 DEF ShowsInv

\* After a refresh all that is shown as done has been seen.
LEMMA SeenRefreshed ==
    ASSUME FeedInv, ShowsInv, SeenInv, UNCHANGED Queue!feed, NEW l, Shown(l), due' = FALSE,
           \/ Marked(l)
           \/ since = queueSeq /\ l = queueShown /\ UNCHANGED <<seen, refreshed>>
    PROVE  SeenInv'
  <1>1. UNCHANGED <<queueJobs, queueIds, paused, accepting, queueClosed, log, queueSeq>>
    BY DEF Queue!feed
  <1>2. /\ seen \subseteq 1..MaxJobs /\ refreshed \in [1..MaxJobs -> 0..1] /\ MaxJobs \in Nat
        /\ \A i \in seen : /\ refreshed[i] = 1
                           /\ \A k \in DOMAIN queueJobs : queueJobs[k].id = i
                                => queueJobs[k].st = "done"
        /\ \A i \in 1..MaxJobs : refreshed[i] = 1 =>
              i <= queueIds /\ (i \in seen \/ \A k \in DOMAIN queueJobs : queueJobs[k].id # i)
        /\ (due /\ since < queueSeq) \/ DoneAre(seen, queueShown)
    BY FeedNumbers DEF SeenInv
  <1>3. since \in Nat /\ queueSeq \in Nat
    BY DEF ShowsInv, FeedInv, LogOK
  <1>4. CASE since = queueSeq /\ l = queueShown /\ UNCHANGED <<seen, refreshed>>
    <2>1. DoneAre(seen, queueShown)
      BY <1>2, <1>3, <1>4
    <2>2. queueShown' = queueShown
      BY <1>4 DEF Shown
    <2> QED BY <1>1, <1>2, <1>4, <2>1, <2>2 DEF SeenInv
  <1>5. CASE Marked(l)
    <2>1. PICK new : new = {i \in 1..MaxJobs : i \notin seen
                       /\ \E k \in DOMAIN l : l[k].id = i /\ l[k].st = "done"}
      OBVIOUS
    <2>2. /\ seen' = seen \cup {l[k].id : k \in {n \in DOMAIN l : l[n].st = "done"}}
          /\ refreshed' = [i \in 1..MaxJobs |-> IF i \in new /\ refreshed[i] < 2
                                              THEN refreshed[i] + 1 ELSE refreshed[i]]
      BY <1>5, <2>1 DEF Marked
    <2>3. \A k \in DOMAIN l : \E n \in DOMAIN queueJobs : queueJobs[n] = l[k]
      BY DEF Shown, Listed
    <2>4. /\ \A n \in DOMAIN queueJobs : queueJobs[n].id \in 1..queueIds
          /\ \A n, k \in DOMAIN queueJobs : queueJobs[n].id = queueJobs[k].id => n = k
          /\ queueIds \in 0..MaxJobs
      BY DEF FeedInv, ListOK
    <2>5. \A k \in DOMAIN l : l[k].id \in 1..MaxJobs /\ l[k].id <= queueIds
      BY <1>2, <2>3, <2>4
    <2>6. seen' = seen \cup new
      BY <2>1, <2>2, <2>5
    <2>7. \A i \in new : \E n \in DOMAIN queueJobs :
             queueJobs[n].id = i /\ queueJobs[n].st = "done"
      BY <2>1, <2>3
    <2>8. \A i \in new : i \in 1..MaxJobs /\ i \notin seen /\ i <= queueIds
      BY <2>1, <2>5
    <2>9. \A i \in new : refreshed[i] = 0
      BY <1>2, <2>7, <2>8
    <2>10. \A i \in 1..MaxJobs : refreshed'[i] = IF i \in new THEN 1 ELSE refreshed[i]
      BY <1>2, <2>2, <2>9
    <2>11. refreshed' \in [1..MaxJobs -> 0..1]
      BY <1>2, <2>2, <2>10
    <2>12. \A i \in seen' : /\ refreshed'[i] = 1
             /\ \A k \in DOMAIN queueJobs : queueJobs[k].id = i => queueJobs[k].st = "done"
      <3> TAKE i \in seen'
      <3>1. CASE i \in seen
        <4>1. i \in 1..MaxJobs /\ refreshed[i] = 1
          BY <1>2, <3>1
        <4> QED BY <3>1, <4>1, <1>2, <2>10
      <3>2. CASE i \in new
        BY <3>2, <2>4, <2>7, <2>8, <2>10
      <3> QED BY <3>1, <3>2, <2>6
    <2>13. \A i \in 1..MaxJobs : refreshed'[i] = 1 =>
              i <= queueIds /\ (i \in seen' \/ \A k \in DOMAIN queueJobs : queueJobs[k].id # i)
      BY <1>2, <2>6, <2>8, <2>10
    <2>14. DoneAre(seen', l)
      BY <2>2 DEF DoneAre
    <2>15. l = queueShown' /\ seen' \subseteq 1..MaxJobs
      BY <1>2, <2>6, <2>8 DEF Shown
    <2> QED BY <1>1, <2>11, <2>12, <2>13, <2>14, <2>15 DEF SeenInv
  <1> QED BY <1>4, <1>5

\* The window looks.
LEMMA RefreshSteps ==
    ASSUME FeedInv, WinInv, Queue!Refresh
    PROVE  FeedInv' /\ WinInv'
  <1>1. ShowsInv /\ SeenInv /\ JoinInv
    BY DEF WinInv
  <1>2. /\ UNCHANGED Queue!feed /\ UNCHANGED queueLink /\ ~queueClosed /\ due' = FALSE
        /\ gap' \in BOOLEAN
    BY <1>1, RefreshMeans
  <1>3. PICK l : /\ Shown(l)
                 /\ \/ Marked(l)
                    \/ since = queueSeq /\ l = queueShown /\ UNCHANGED <<seen, refreshed>>
    BY <1>1, RefreshMeans
  <1>4. ShowsInv'
    BY <1>2, <1>3, ShowsRefreshed
  <1>5. SeenInv'
    BY <1>1, <1>2, <1>3, SeenRefreshed
  <1>6. JoinInv'
    BY <1>1, <1>2 DEF JoinInv, Queue!feed
  <1>7. FeedInv'
    <2>1. FeedStep(<<>>)
      BY <1>2, IdleSteps
    <2> QED BY <2>1, FeedKept
  <1> QED BY <1>2, <1>4, <1>5, <1>6, <1>7 DEF WinInv

(***************************************************************************)
(* The list: every step of the queue and its window                        *)
(***************************************************************************)

\* The inductive invariant of the queue and its window.
QueueInv == FeedInv /\ WinInv

\* A step that is not a refresh: what the feed does, and what the window sets.
LEMMA WindowKept ==
    ASSUME FeedInv, WinInv, NEW es, FeedStep(es),
           UNCHANGED <<queueShown, since, gap, refreshed, seen>>,
           queueClosed' \/ uiPaused' = uiPaused \/ uiPaused' = paused',
           due => due', due' \in BOOLEAN, JoinInv'
    PROVE  QueueInv'
  <1>1. ShowsInv'
    BY ShowsKept DEF WinInv
  <1>2. SeenInv'
    BY SeenKept DEF WinInv
  <1>3. FeedInv'
    BY FeedKept
  <1> QED BY <1>1, <1>2, <1>3 DEF QueueInv, WinInv

\* Neither the connection nor the flags change.
LEMMA JoinSame ==
    ASSUME JoinInv, UNCHANGED <<paused, accepting, queueClosed, queueLink>>
    PROVE  JoinInv'
  BY DEF JoinInv

\* The workers set no flag.
LEMMA WorkerFlags ==
    ASSUME Queue!Worker
    PROVE  UNCHANGED <<paused, accepting, queueClosed>>
  BY DEF Queue!Worker, Queue!Pump, Queue!Attempt, Queue!Progress, Queue!Finish

\* The workers go on, and the window does not look.
LEMMA WorkerKeeps ==
    ASSUME QueueInv, Queue!Worker, UNCHANGED Queue!win
    PROVE  QueueInv'
  <1>1. PICK es : FeedStep(es)
    BY WorkerSteps DEF QueueInv, FeedMoves
  <1>2. /\ UNCHANGED <<queueShown, since, gap, refreshed, seen>> /\ uiPaused' = uiPaused
        /\ due' = due /\ queueLink' = queueLink
    BY DEF Queue!win
  <1>3. JoinInv' /\ due' \in BOOLEAN
    BY <1>2, WorkerFlags, JoinSame DEF QueueInv, WinInv
  <1> QED BY <1>1, <1>2, <1>3, WindowKept DEF QueueInv

\* The queue is closed, and the window does not look.
LEMMA ShutdownKeeps ==
    ASSUME QueueInv, Queue!Shutdown, UNCHANGED Queue!win
    PROVE  QueueInv'
  <1>1. (\E es : FeedStep(es)) /\ queueClosed'
    BY ShutdownSteps DEF QueueInv, FeedMoves
  <1>2. /\ UNCHANGED <<queueShown, since, gap, refreshed, seen>> /\ uiPaused' = uiPaused
        /\ due' = due
    BY DEF Queue!win
  <1>3. JoinInv' /\ due' \in BOOLEAN
    BY <1>1, <1>2 DEF QueueInv, WinInv, JoinInv
  <1> QED BY <1>1, <1>2, <1>3, WindowKept DEF QueueInv

\* The queue does nothing.
LEMMA IdleKeeps ==
    ASSUME QueueInv, UNCHANGED Queue!feed, UNCHANGED <<queueShown, since, gap, refreshed, seen>>,
           queueClosed \/ uiPaused' = uiPaused \/ uiPaused' = paused,
           due => due', due' \in BOOLEAN, JoinInv'
    PROVE  QueueInv'
  <1>1. FeedStep(<<>>)
    BY IdleSteps DEF QueueInv
  <1>2. paused' = paused /\ queueClosed' = queueClosed
    BY DEF Queue!feed
  <1> QED BY <1>1, <1>2, WindowKept DEF QueueInv

\* The end of every handler: what it sets, and that it asks for a refresh.
LEMMA HandlerMeans ==
    ASSUME NEW p, NEW s, Queue!Handler(p, s)
    PROVE  /\ ~due /\ due' = TRUE /\ uiPaused' = p /\ seen' = s
           /\ UNCHANGED <<queueShown, since, refreshed, queueLink, gap>>
  BY DEF Queue!Handler

\* The calls that change neither flag.
LEMMA CallFlags ==
    /\ \A S : Queue!Cancel(S) => UNCHANGED <<paused, accepting, queueClosed>>
    /\ \A S : Queue!Retry(S) => UNCHANGED <<paused, accepting, queueClosed>>
    /\ \A n : Queue!Add(n) => UNCHANGED <<paused, accepting, queueClosed>>
    /\ \A id, to : Queue!Move(id, to) => UNCHANGED <<paused, accepting, queueClosed>>
    /\ Queue!ClearFinished => UNCHANGED <<paused, accepting, queueClosed>>
  BY DEF Queue!Cancel, Queue!Retry, Queue!Add, Queue!Move, Queue!ClearFinished

\* A call that changes neither flag, then the end of the handler.
LEMMA CallKeeps ==
    ASSUME QueueInv, FeedMoves, UNCHANGED <<paused, accepting, queueClosed>>,
           Queue!Handler(uiPaused, seen)
    PROVE  QueueInv'
  <1>1. PICK es : FeedStep(es)
    BY DEF FeedMoves
  <1>2. /\ ~due /\ due' = TRUE /\ uiPaused' = uiPaused /\ seen' = seen
        /\ UNCHANGED <<queueShown, since, refreshed, queueLink, gap>>
    BY HandlerMeans
  <1>3. JoinInv'
    BY <1>2, JoinSame DEF QueueInv, WinInv
  <1> QED BY <1>1, <1>2, <1>3, WindowKept DEF QueueInv

\* The user pauses.
LEMMA PauseKeeps ==
    ASSUME QueueInv, ~queueClosed, Queue!PauseClick
    PROVE  QueueInv'
  <1>1. queueLink = "on" /\ Queue!Pause /\ Queue!Handler(TRUE, seen)
    BY DEF Queue!PauseClick, Queue!On
  <1>2. PICK es : FeedStep(es)
    BY <1>1, PauseSteps DEF QueueInv, FeedMoves
  <1>3. queueClosed' \/ paused' = TRUE
    <2>1. queueClosed' \/ paused'
      BY <1>1, PauseSteps DEF QueueInv
    <2>2. paused' \in BOOLEAN
      BY <1>2 DEF FeedStep, JobsStep
    <2> QED BY <2>1, <2>2
  <1>4. /\ ~due /\ due' = TRUE /\ uiPaused' = TRUE /\ seen' = seen
        /\ UNCHANGED <<queueShown, since, refreshed, queueLink, gap>>
    BY <1>1, HandlerMeans
  <1>5. accepting' = accepting
    BY <1>1 DEF Queue!Pause, Queue!feed
  <1>6. JoinInv'
    BY <1>1, <1>4, <1>5 DEF QueueInv, WinInv, JoinInv
  <1>7. queueClosed' \/ uiPaused' = uiPaused \/ uiPaused' = paused'
    BY <1>3, <1>4
  <1> QED BY <1>2, <1>4, <1>6, <1>7, WindowKept DEF QueueInv

\* The user resumes.
LEMMA ResumeKeeps ==
    ASSUME QueueInv, ~queueClosed, Queue!ResumeClick
    PROVE  QueueInv'
  <1>1. queueLink = "on" /\ Queue!Resume /\ Queue!Handler(FALSE, seen)
    BY DEF Queue!ResumeClick, Queue!On
  <1>2. PICK es : FeedStep(es)
    BY <1>1, ResumeSteps DEF QueueInv, FeedMoves
  <1>3. accepting /\ accepting' = accepting
    BY <1>1, ResumeSteps DEF QueueInv, WinInv, JoinInv
  <1>4. paused' = FALSE
    <2>1. ~paused'
      BY <1>1, <1>3, ResumeSteps DEF QueueInv
    <2>2. paused' \in BOOLEAN
      BY <1>2 DEF FeedStep, JobsStep
    <2> QED BY <2>1, <2>2
  <1>5. /\ ~due /\ due' = TRUE /\ uiPaused' = FALSE /\ seen' = seen
        /\ UNCHANGED <<queueShown, since, refreshed, queueLink, gap>>
    BY <1>1, HandlerMeans
  <1>6. JoinInv'
    BY <1>1, <1>3, <1>5 DEF QueueInv, WinInv, JoinInv
  <1>7. queueClosed' \/ uiPaused' = uiPaused \/ uiPaused' = paused'
    BY <1>4, <1>5
  <1> QED BY <1>2, <1>5, <1>6, <1>7, WindowKept DEF QueueInv

\* The user clears the finished jobs.
LEMMA ClearKeeps ==
    ASSUME QueueInv, Queue!ClearClick
    PROVE  QueueInv'
  <1>1. Queue!ClearFinished /\ Queue!Handler(uiPaused, {})
    BY DEF Queue!ClearClick
  <1>2. PICK es : FeedStep(es)
    BY <1>1, ClearSteps DEF QueueInv, FeedMoves
  <1>3. queueSeq' = queueSeq + 1 /\ \A k \in DOMAIN queueJobs' : queueJobs'[k].st # "done"
    BY <1>1, ClearSteps DEF QueueInv
  <1>4. /\ due' = TRUE /\ uiPaused' = uiPaused /\ seen' = {}
        /\ UNCHANGED <<queueShown, since, refreshed, queueLink, gap>>
    BY <1>1, HandlerMeans
  <1>5. FeedInv /\ ShowsInv /\ SeenInv /\ JoinInv
    BY DEF QueueInv, WinInv
  <1>6. ShowsInv'
    BY <1>2, <1>4, <1>5, ShowsKept
  <1>7. SeenInv'
    BY <1>2, <1>3, <1>4, <1>5, SeenCleared
  <1>8. JoinInv'
    BY <1>1, <1>4, <1>5, CallFlags, JoinSame
  <1>9. FeedInv'
    BY <1>2, <1>5, FeedKept
  <1> QED BY <1>4, <1>6, <1>7, <1>8, <1>9 DEF QueueInv, WinInv

\* The user moves a waiting job.
LEMMA MoveKeeps ==
    ASSUME QueueInv, NEW to \in {"top", "up", "down", "bottom"}, Queue!MoveClick(to)
    PROVE  QueueInv'
  <1>1. PICK i \in Queue!ChosenSlots :
           IF Queue!Movable(queueShown[i].id) THEN Queue!Move(queueShown[i].id, to)
           ELSE UNCHANGED Queue!feed
    BY DEF Queue!MoveClick
  <1>2. Queue!Handler(uiPaused, seen)
    BY DEF Queue!MoveClick
  <1>3. FeedMoves /\ UNCHANGED <<paused, accepting, queueClosed>>
    <2>1. CASE Queue!Movable(queueShown[i].id)
      BY <1>1, <2>1, MoveSteps, CallFlags DEF QueueInv
    <2>2. CASE ~Queue!Movable(queueShown[i].id)
      BY <1>1, <2>2, IdleSteps DEF QueueInv, FeedMoves, Queue!feed
    <2> QED BY <2>1, <2>2
  <1> QED BY <1>2, <1>3, CallKeeps

\* Whatever the user clicks.
LEMMA ClickKeeps ==
    ASSUME QueueInv, Queue!Click
    PROVE  QueueInv'
  <1>0. ~queueClosed
    BY DEF Queue!Click
  <1>1. CASE Queue!PauseClick
    BY <1>0, <1>1, PauseKeeps
  <1>2. CASE Queue!ResumeClick
    BY <1>0, <1>2, ResumeKeeps
  <1>3. CASE Queue!ClearClick
    BY <1>3, ClearKeeps
  <1>4. CASE Queue!CancelClick
    <2>1. Queue!Cancel(Queue!Chosen) /\ Queue!Handler(uiPaused, seen)
      BY <1>4 DEF Queue!CancelClick
    <2> QED BY <2>1, CancelSteps, CallFlags, CallKeeps DEF QueueInv
  <1>5. CASE Queue!RetryClick
    <2>1. Queue!Retry(Queue!Chosen) /\ Queue!Handler(uiPaused, seen)
      BY <1>5 DEF Queue!RetryClick
    <2> QED BY <2>1, RetrySteps, CallFlags, CallKeeps DEF QueueInv
  <1>6. CASE \E n \in 1..2 : Queue!AddClick(n)
    <2>1. PICK n \in Nat : Queue!Add(n) /\ Queue!Handler(uiPaused, seen)
      BY <1>6 DEF Queue!AddClick
    <2> QED BY <2>1, AddSteps, CallFlags, CallKeeps DEF QueueInv
  <1>7. CASE \E to \in {"top", "up", "down", "bottom"} : Queue!MoveClick(to)
    BY <1>7, MoveKeeps
  <1>8. CASE \E f \in Queue!Filters : Queue!SetFilter(f)
    <2>1. /\ UNCHANGED Queue!feed
          /\ UNCHANGED <<queueShown, since, gap, refreshed, seen, uiPaused, due, queueLink>>
      BY <1>8 DEF Queue!SetFilter
    <2>2. JoinInv' /\ due' \in BOOLEAN
      BY <2>1, JoinSame DEF QueueInv, WinInv, Queue!feed
    <2> QED BY <2>1, <2>2, IdleKeeps
  <1>9. CASE \E S \in SUBSET (1..MaxJobs) : Queue!Select(S)
    <2>1. /\ UNCHANGED Queue!feed
          /\ UNCHANGED <<queueShown, since, gap, refreshed, seen, uiPaused, due, queueLink>>
      BY <1>9 DEF Queue!Select
    <2>2. JoinInv' /\ due' \in BOOLEAN
      BY <2>1, JoinSame DEF QueueInv, WinInv, Queue!feed
    <2> QED BY <2>1, <2>2, IdleKeeps
  <1> QED BY <1>1, <1>2, <1>3, <1>4, <1>5, <1>6, <1>7, <1>8, <1>9 DEF Queue!Click

\* The connection goes on, and the list stays.
LEMMA LinkMeans ==
    ASSUME NEW from, NEW to, Queue!Link(from, to)
    PROVE  /\ queueLink = from /\ queueLink' = to
           /\ UNCHANGED <<queueShown, since, refreshed, seen, gap>>
  BY DEF Queue!Link

\* The window connects, and the queue takes jobs.
LEMMA ConnectingKeeps ==
    ASSUME QueueInv, Queue!Connecting
    PROVE  QueueInv'
  <1>0. JoinInv /\ FeedInv /\ due \in BOOLEAN /\ accepting \in BOOLEAN /\ paused \in BOOLEAN
    BY DEF QueueInv, WinInv, FeedInv
  <1>1. CASE ~due /\ Queue!Link("off", "connecting") /\ Queue!Keep /\ UNCHANGED Queue!feed
    <2>1. JoinInv' /\ due' = due /\ uiPaused' = uiPaused
      BY <1>0, <1>1, LinkMeans DEF Queue!Keep, JoinInv, Queue!feed
    <2> QED BY <1>0, <1>1, <2>1, LinkMeans, IdleKeeps
  <1>2. CASE Queue!Link("connecting", "enabled") /\ Queue!Enable /\ Queue!Keep
    <2>1. PICK es : FeedStep(es)
      BY <1>0, <1>2, EnableSteps DEF FeedMoves
    <2>2. accepting' = TRUE /\ paused' = FALSE
      BY <1>0, <1>2, EnableSteps
    <2>3. /\ queueLink' = "enabled" /\ UNCHANGED <<queueShown, since, refreshed, seen, gap>>
          /\ due' = due /\ uiPaused' = uiPaused
      BY <1>2, LinkMeans DEF Queue!Keep
    <2>4. JoinInv'
      BY <2>2, <2>3 DEF JoinInv
    <2> QED BY <1>0, <2>1, <2>3, <2>4, WindowKept DEF QueueInv
  <1>3. CASE ~due /\ Queue!Link("connecting", "off") /\ Queue!Keep /\ UNCHANGED Queue!feed
    <2>1. JoinInv' /\ due' = due /\ uiPaused' = uiPaused
      BY <1>0, <1>3, LinkMeans DEF Queue!Keep, JoinInv, Queue!feed
    <2> QED BY <1>0, <1>3, <2>1, LinkMeans, IdleKeeps
  <1>4. CASE ~due /\ Queue!Link("enabled", "on") /\ uiPaused' = FALSE /\ due' = TRUE
             /\ UNCHANGED Queue!feed
    <2>1. queueLink = "enabled" /\ queueLink' = "on"
      BY <1>4, LinkMeans
    <2>2. queueClosed \/ (accepting /\ ~paused)
      BY <1>0, <2>1 DEF JoinInv
    <2>3. queueClosed \/ uiPaused' = paused
      BY <1>0, <1>4, <2>2
    <2>4. JoinInv'
      BY <1>4, <2>1, <2>2 DEF JoinInv, Queue!feed
    <2> QED BY <1>0, <1>4, <2>3, <2>4, LinkMeans, IdleKeeps
  <1> QED BY <1>1, <1>2, <1>3, <1>4 DEF Queue!Connecting

\* The window disconnects, and the queue takes none.
LEMMA DisconnectingKeeps ==
    ASSUME QueueInv, Queue!Disconnecting
    PROVE  QueueInv'
  <1>0. JoinInv /\ FeedInv /\ due \in BOOLEAN /\ accepting \in BOOLEAN /\ paused \in BOOLEAN
    BY DEF QueueInv, WinInv, FeedInv
  <1>1. CASE ~due /\ Queue!Link("on", "disconnecting") /\ Queue!Keep /\ UNCHANGED Queue!feed
    <2>1. JoinInv' /\ due' = due /\ uiPaused' = uiPaused
      BY <1>0, <1>1, LinkMeans DEF Queue!Keep, JoinInv, Queue!feed
    <2> QED BY <1>0, <1>1, <2>1, LinkMeans, IdleKeeps
  <1>2. CASE Queue!Link("disconnecting", "disabled") /\ Queue!Disable /\ Queue!Keep
    <2>1. PICK es : FeedStep(es)
      BY <1>0, <1>2, DisableSteps DEF FeedMoves
    <2>2. paused' = TRUE
      BY <1>0, <1>2, DisableSteps
    <2>3. /\ queueLink' = "disabled" /\ UNCHANGED <<queueShown, since, refreshed, seen, gap>>
          /\ due' = due /\ uiPaused' = uiPaused
      BY <1>2, LinkMeans DEF Queue!Keep
    <2>4. JoinInv'
      BY <2>2, <2>3 DEF JoinInv
    <2> QED BY <1>0, <2>1, <2>3, <2>4, WindowKept DEF QueueInv
  <1>3. CASE ~due /\ Queue!Link("disabled", "off") /\ uiPaused' = TRUE /\ due' = FALSE
             /\ UNCHANGED Queue!feed
    <2>1. queueLink = "disabled" /\ queueLink' = "off"
      BY <1>3, LinkMeans
    <2>2. queueClosed \/ paused
      BY <1>0, <2>1 DEF JoinInv
    <2>3. queueClosed \/ uiPaused' = paused
      BY <1>0, <1>3, <2>2
    <2>4. JoinInv'
      BY <2>1 DEF JoinInv
    <2> QED BY <1>0, <1>3, <2>3, <2>4, LinkMeans, IdleKeeps
  <1> QED BY <1>1, <1>2, <1>3 DEF Queue!Disconnecting

\* An empty queue, and a window that shows it.
LEMMA QueueStarts ==
    ASSUME Queue!Init
    PROVE  QueueInv
  <1>1. /\ queueJobs = <<>> /\ queueIds = 0 /\ log = <<>> /\ queueSeq = 0
        /\ paused = FALSE /\ accepting = TRUE /\ queueClosed = FALSE
        /\ queueShown = <<>> /\ since = 0 /\ uiPaused = FALSE
        /\ seen = {} /\ refreshed = [i \in 1..MaxJobs |-> 0] /\ due = FALSE
        /\ queueLink = "off" /\ gap = FALSE
    BY DEF Queue!Init, Queue!FeedInit
  <1>2. <<>> \in Seq(QueueJobs) /\ <<>> \in Seq(QueueEvents) /\ Len(<<>>) = 0 /\ DOMAIN <<>> = {}
    OBVIOUS
  <1>3. Queue!Replay(<<>>, <<>>) = <<>> /\ PausedBy(FALSE, <<>>) = FALSE
    BY ReplayNothing, PausedNothing
  <1>4. ListOK(queueJobs, queueIds) /\ LogOK /\ queueIds \in 0..MaxJobs
    BY <1>1, <1>2, FeedNumbers DEF ListOK, LogOK
  <1>5. FeedInv
    BY <1>1, <1>3, <1>4 DEF FeedInv
  <1>6. ShowsInv
    <2>1. ASSUME NEW t \in Seq(QueueEvents), Len(t) = queueSeq - since
          PROVE  Caught(queueShown, uiPaused, t)
      <3>1. t = <<>>
        BY <1>1, <2>1
      <3> QED BY <1>1, <1>3, <3>1 DEF Caught
    <2>2. since \in Nat /\ since <= queueSeq
      BY <1>1
    <2> QED BY <1>1, <1>2, <2>1, <2>2 DEF ShowsInv
  <1>7. SeenInv
    <2>1. DoneAre(seen, queueShown)
      BY <1>1, <1>2 DEF DoneAre
    <2>2. refreshed \in [1..MaxJobs -> 0..1] /\ \A i \in 1..MaxJobs : refreshed[i] # 1
      BY <1>1
    <2> QED BY <1>1, <2>1, <2>2 DEF SeenInv
  <1>8. JoinInv
    BY <1>1 DEF JoinInv
  <1> QED BY <1>1, <1>5, <1>6, <1>7, <1>8 DEF QueueInv, WinInv

\* Every step keeps the invariant.
LEMMA QueueSteps ==
    ASSUME QueueInv, Queue!Next
    PROVE  QueueInv'
  <1>1. CASE Queue!Refresh
    BY <1>1, RefreshSteps DEF QueueInv
  <1> QED BY <1>1, WorkerKeeps, ShutdownKeeps, ClickKeeps, ConnectingKeeps, DisconnectingKeeps
          DEF Queue!Next

\* The invariant says what the suite checks of the list of transfers
\* (transfers_windows.go, progress.go).
LEMMA QueueImplies ==
    ASSUME QueueInv
    PROVE  /\ Queue!Replayed /\ Queue!PausedShown /\ Queue!PanesOnce /\ Queue!DoneWasSeen
           /\ Queue!MetricsTrue
  <1>1. FeedInv /\ ShowsInv /\ SeenInv
    BY DEF QueueInv, WinInv
  <1>2. Queue!CaughtUp => queueShown = queueJobs /\ uiPaused = paused
    <2> SUFFICES ASSUME since = queueSeq, ~gap, ~queueClosed
                 PROVE  queueShown = queueJobs /\ uiPaused = paused
      BY DEF Queue!CaughtUp
    <2>1. <<>> \in Seq(QueueEvents) /\ Len(<<>>) = queueSeq - since
      BY <1>1 DEF FeedInv, LogOK
    <2>2. EndsIn(log, <<>>)
      <3>1. log \in Seq(QueueEvents)
        BY <1>1 DEF FeedInv, LogOK
      <3>2. log = Joined(log, <<>>)
        BY <3>1, ConcatEmptySeq DEF Joined
      <3> QED BY <3>1, <3>2 DEF EndsIn
    <2>3. Caught(queueShown, uiPaused, <<>>)
      BY <1>1, <2>1, <2>2 DEF ShowsInv
    <2> QED BY <2>3, ReplayNothing, PausedNothing DEF Caught
  <1>3. Queue!PanesOnce
    BY <1>1 DEF SeenInv, Queue!PanesOnce
  <1>4. Queue!DoneWasSeen
    <2> SUFFICES ASSUME ~due, NEW k \in DOMAIN queueShown, queueShown[k].st = "done"
                 PROVE  queueShown[k].id \in seen /\ refreshed[queueShown[k].id] > 0
      BY DEF Queue!DoneWasSeen
    <2>1. queueShown[k].id \in seen
      BY <1>1 DEF SeenInv, DoneAre
    <2>2. refreshed[queueShown[k].id] = 1
      BY <1>1, <2>1 DEF SeenInv
    <2> QED BY <2>1, <2>2
  <1>5. Queue!MetricsTrue
    BY <1>1, JobFacts DEF JobTrue, Queue!MetricsTrue
  <1> QED BY <1>2, <1>3, <1>4, <1>5 DEF Queue!Replayed, Queue!PausedShown

\* Every step of the queue and its window, and every step of others.
LEMMA QueueKeeps ==
    ASSUME QueueInv, [Queue!Next]_(Queue!vars)
    PROVE  QueueInv'
<1>1. CASE Queue!Next
  BY <1>1, QueueSteps
<1>2. CASE UNCHANGED Queue!vars
  <2>1. UNCHANGED Queue!feed /\ UNCHANGED <<queueShown, since, gap, refreshed, seen>>
    BY <1>2 DEF Queue!vars, Queue!win
  <2>2. uiPaused' = uiPaused /\ due' = due /\ UNCHANGED queueLink
    BY <1>2 DEF Queue!vars, Queue!win
  <2>3. due \in BOOLEAN /\ JoinInv
    BY DEF QueueInv, WinInv
  <2>4. UNCHANGED <<paused, accepting, queueClosed>>
    BY <2>1 DEF Queue!feed
  <2>5. JoinInv'
    BY <2>2, <2>3, <2>4, JoinSame
  <2>6. (due => due') /\ due' \in BOOLEAN
    BY <2>2, <2>3
  <2> QED
    BY <2>1, <2>2, <2>5, <2>6, IdleKeeps
<1> QED
  BY <1>1, <1>2

(***************************************************************************)
(* The suite                                                               *)
(***************************************************************************)

\* The component a behaviour is about begins in its own initial states.
LEMMA PartStarts ==
    ASSUME Init
    PROVE  /\ part = "link" => Link!Init
           /\ part = "panes" => Panes!Init
           /\ part = "queue" => Queue!Init
           /\ part = "compare" => Compare!Init
           /\ part = "controls" => Controls!Init
  BY DEF Init

\* A step is one of the component the behaviour is about.
LEMMA PartMoves ==
    ASSUME Next
    PROVE  /\ part' = part
           /\ part = "link" => Link!Next
           /\ part = "panes" => Panes!Next
           /\ part = "queue" => Queue!Next
           /\ part = "compare" => Compare!Next
           /\ part = "controls" => Controls!Next
  BY DEF Next, OnlyLink, OnlyPanes, OnlyQueue, OnlyCompare, OnlyControls

\* Every step is one of that component, or leaves its variables alone.
LEMMA PartSteps ==
    ASSUME [Next]_vars
    PROVE  /\ part' = part
           /\ part = "link" => [Link!Next]_(Link!vars)
           /\ part = "panes" => [Panes!Next]_(Panes!vars)
           /\ part = "queue" => [Queue!Next]_(Queue!vars)
           /\ part = "compare" => [Compare!Next]_(Compare!vars)
           /\ part = "controls" => [Controls!Next]_(Controls!vars)
<1>1. CASE Next
  BY <1>1, PartMoves
<1>2. CASE UNCHANGED vars
  <2>1. UNCHANGED Link!vars
    BY <1>2 DEF vars, LinkVars, Link!vars, Link!ui, Link!history
  <2>3. UNCHANGED Panes!vars
    BY <1>2 DEF vars, PanesVars, Panes!vars, Panes!panes, Panes!link
  <2>4. UNCHANGED Queue!vars
    BY <1>2 DEF vars, QueueVars, Queue!vars, Queue!win, Queue!feed
  <2>5. UNCHANGED Compare!vars
    BY <1>2 DEF vars, CompareVars, Compare!vars
  <2>6. UNCHANGED Controls!vars
    BY <1>2 DEF vars, ControlsVars, Controls!vars
  <2>7. part' = part
    BY <1>2 DEF vars
  <2> QED
    BY <2>1, <2>3, <2>4, <2>5, <2>6, <2>7
<1> QED
  BY <1>1, <1>2

\* The inductive invariant of a behaviour: that of the component it is about.
WindowsInv ==
    /\ part = "link" => LinkInv /\ OwnInv
    /\ part = "panes" => PanesInv /\ WhereInv
    /\ part = "queue" => QueueInv
    /\ part = "compare" => CompareInv
    /\ part = "controls" => ControlsInv

\* Every behaviour begins in it.
LEMMA WindowsStart ==
    ASSUME Init
    PROVE  WindowsInv
  BY PartStarts, LinkStarts, OwnStarts, PanesStarts, WhereStarts, QueueStarts, CompareStarts,
     ControlsStarts DEF WindowsInv

\* Every step stays in it.
LEMMA WindowsStep ==
    ASSUME WindowsInv, [Next]_vars
    PROVE  WindowsInv'
<1>1. part' = part
  BY PartSteps
<1>2. part = "link" => LinkInv' /\ OwnInv'
  BY PartSteps, LinkSteps, OwnSteps DEF WindowsInv
<1>4. part = "panes" => PanesInv' /\ WhereInv'
  BY PartSteps, PanesSteps, WhereSteps DEF WindowsInv
<1>5. part = "queue" => QueueInv'
  BY PartSteps, QueueKeeps DEF WindowsInv
<1>6. part = "compare" => CompareInv'
  BY PartSteps, CompareSteps DEF WindowsInv
<1>7. part = "controls" => ControlsInv'
  BY PartSteps, ControlsSteps DEF WindowsInv
<1> QED
  BY <1>1, <1>2, <1>4, <1>5, <1>6, <1>7 DEF WindowsInv

\* A behaviour of the suite keeps the inductive invariant of its component.
THEOREM WindowsInvariant == Spec => []WindowsInv
  BY WindowsStart, WindowsStep, PTL DEF Spec

\* What the window shows as connected is the session of the engine, unless Disconnects
\* overlapped or a connection was tested and one of these calls has taken it; it is
\* busy only with a call that is under way, and no save is cut off or joined by a
\* connection.  For any number of clicks and calls (connection_profiles_windows.go).
THEOREM TheSessionIsOwn == Spec => []SessionIsOwn
<1>1. WindowsInv => SessionIsOwn
  BY LinkImplies, OwnImplies DEF WindowsInv, SessionIsOwn
<1> QED
  BY <1>1, WindowsInvariant, PTL

\* A change acts on the connection it was asked on, one at a time in a pane, and where it
\* was asked, unless another directory was already on its way into the pane then (a remote
\* rename or permission change acts there even so).  A pane with nothing under way shows
\* its directory, the remote one but for a change it missed; the rows of a comparison are of the
\* directories it names.  For every set of directories and any number of clicks,
\* changes, moves and generations (files_actions_windows.go,
\* directory_compare_windows.go).
THEOREM RowsStayCurrent == Spec => []RowsAreCurrent
<1>1. WindowsInv => RowsAreCurrent
  BY PanesImply DEF WindowsInv, RowsAreCurrent, CompareInv
<1> QED
  BY <1>1, WindowsInvariant, PTL

\* A window that has read all events shows the queue's own jobs and pause, although the
\* log it reads is cut; it refreshes the panes once for each job it shows as done, and
\* the bytes of a job fit its state.  For any number of jobs, any limit of parallel
\* ones, and any two sizes of the log (transfers_windows.go, queue.go, progress.go).
THEOREM TheQueueIsReplayed == Spec => []QueueIsReplayed
<1>1. WindowsInv => QueueIsReplayed
  BY QueueImplies DEF WindowsInv, QueueIsReplayed
<1> QED
  BY <1>1, WindowsInvariant, PTL

\* What is offered acts, a comparison covers the panes it is about, and every state of the
\* connection has a way out (master_workspace_windows.go).
THEOREM OfferedAlwaysActs == Spec => []OfferedActs
<1>1. WindowsInv => OfferedActs
  BY ControlsImply DEF WindowsInv, OfferedActs
<1> QED
  BY <1>1, WindowsInvariant, PTL

\* A comparison that is opened one level deeper moves the panes behind it with it, however
\* deep it goes and whatever else is under way (directory_compare_windows.go).
THEOREM PanesOpenTogether == Spec => OpenedTogether
<1> DEFINE Step == part = "compare" => Compare!OpenedTogetherStep
<1>1. ASSUME WindowsInv, Next
      PROVE  Step
  BY <1>1, PartMoves, CompareSteps DEF WindowsInv
<1>2. WindowsInv /\ [Next]_vars => [Step]_vars
  BY <1>1
<1>3. []WindowsInv /\ [][Next]_vars => [][Step]_vars
  BY <1>2, PTL
<1> QED
  BY <1>3, WindowsInvariant, PTL DEF Spec, OpenedTogether
=============================================================================

------------------------------ MODULE LinuxLayout ------------------------------
(***************************************************************************)
(* Where the Linux window draws its controls and which of them a click     *)
(* reaches: internal/desktop/gui_linux.go, linux_master_rail.go and the    *)
(* rectangles of the files beside them.  X11 knows one window, so drawing  *)
(* and hit testing agree only if every rectangle is computed alike.        *)
(*                                                                         *)
(* Sizes are at least premiumMinWidth by premiumMinHeight.                 *)
(***************************************************************************)
EXTENDS Integers, Sequences, Functions, TLC

CONSTANTS Widths, Heights  \* sizes the X server may report (bound)

\* What every instance has to satisfy.
LayoutAssumption == Widths \subseteq 1180..8192 /\ Heights \subseteq 720..8192

VARIABLES w, h,    \* u.width and u.height
          view,    \* masterConnectionsVisible
          overlay  \* what lies over the window, "none" for nothing

vars == <<w, h, view, overlay>>

Least(a, b) == IF a < b THEN a ELSE b
Most(a, b) == IF a > b THEN a ELSE b

\* linuxRectWH and linuxRect.contains
Rect(x, y, width, height) == [l |-> x, t |-> y, r |-> x + width, b |-> y + height]
Holds(q, x, y) == x >= q.l /\ x < q.r /\ y >= q.t /\ y < q.b

Gap == 14             \* premiumOuterGap
ContentLeft == 204    \* linuxMasterContentLeft

-----------------------------------------------------------------------------
(* The workspace *)

buildLinuxDesktopLayout(W, H) ==
    LET cw == W - (2 * Gap)
        host == Most(260, cw - 634)
        second == 130
        key == Most(150, (cw - 680) \div 2)
        pw == (cw - 12) \div 2
        right == Gap + pw + 12
        bottom == Most(H - 226, 404)
        Path(x) == Rect(x, 218, pw - 148, 28)
        Tool(x, i) == Rect(x + (88 * i), 254, 80, 28)
        Pane(x) == [l |-> x, t |-> 290, r |-> x + pw, b |-> bottom - 44]
        After(q, width) == Rect(q.r + 8, q.t, width, q.b - q.t)
        queueTop == bottom + 12
    IN [protocol |-> Rect(Gap, 92, 88, 30),
        host |-> Rect(110, 92, host, 30),
        port |-> Rect(118 + host, 92, 66, 30),
        user |-> Rect(192 + host, 92, 172, 30),
        password |-> Rect(372 + host, 92, 160, 30),
        connect |-> Rect(540 + host, 92, 108, 30),
        profile |-> Rect(Gap, second, 150, 30),
        saveProfile |-> Rect(172, second, 118, 30),
        removeProfile |-> Rect(298, second, 118, 30),
        key |-> Rect(424, second, key, 30),
        passphrase |-> Rect(432 + key, second, key, 30),
        disconnect |-> Rect(440 + (2 * key), second, 118, 30),
        localPath |-> Path(Gap),
        localUp |-> After(Path(Gap), 66),
        localRefresh |-> After(After(Path(Gap), 66), 66),
        remotePath |-> Path(right),
        remoteUp |-> After(Path(right), 66),
        remoteRefresh |-> After(After(Path(right), 66), 66),
        localNew |-> Tool(Gap, 0), localRename |-> Tool(Gap, 1), localDelete |-> Tool(Gap, 2),
        remoteNew |-> Tool(right, 0), remoteRename |-> Tool(right, 1),
        remoteDelete |-> Tool(right, 2), remoteChmod |-> Tool(right, 3),
        localList |-> Pane(Gap), remoteList |-> Pane(right),
        upload |-> Rect(Gap + pw - 112, bottom - 34, 112, 30),
        download |-> Rect(right, bottom - 34, 112, 30),
        pause |-> Rect(104, queueTop, 74, 28), resume |-> Rect(186, queueTop, 74, 28),
        cancelJob |-> Rect(268, queueTop, 82, 28), retryJob |-> Rect(358, queueTop, 74, 28),
        clearQueue |-> Rect(440, queueTop, 110, 28),
        queue |-> [l |-> Gap, t |-> queueTop + 36, r |-> W - Gap, b |-> H - 56]]

\* linuxAffineRect, to the column beside the rail.
AffineRect(q, W) ==
    LET X(v) == ContentLeft + (((v - Gap) * (W - Gap - ContentLeft)) \div (W - (2 * Gap)))
    IN [q EXCEPT !.l = X(q.l), !.r = Most(X(q.r), X(q.l) + 1)]

\* applyLinuxMasterLayoutTransform, which several hooks of one frame reach.
Moved(L, W) ==
    IF L.localPath.l >= ContentLeft /\ L.remotePath.l >= ContentLeft THEN L
    ELSE [c \in DOMAIN L |-> AffineRect(L[c], W)]

Workspace == Moved(Moved(buildLinuxDesktopLayout(w, h), w), w)

-----------------------------------------------------------------------------
(* The controls beside the lists and the queue *)

Half(p) == (p.r - p.l - 8) \div 2
SortWidth(p) == Least(118, (Half(p) - 8) \div 2)
recursiveSearchButtonRect(p) == Rect(p.l + Half(p) + 8, p.t, Half(p), 28)

fileFilterPromptControlRect(p) == Rect(p.l, p.t, Half(p) - SortWidth(p) - 8, 28)
fileSortControlRect(p) == Rect(p.l + Half(p) - SortWidth(p), p.t, SortWidth(p), 28)
fileFilterListRect(p) == [p EXCEPT !.t = Least(p.t + 34, p.b)]

directoryComparisonButtonRect(L) ==
    LET right == L.upload.l - 8
    IN [l |-> L.localList.l, t |-> L.upload.t, b |-> L.upload.b,
        r |-> IF right - L.localList.l < 120 THEN L.localList.l + 120 ELSE right]

remoteEditButtonRect(L) ==
    LET left == L.download.r + 8
    IN Rect(IF left + 92 > L.remoteList.r THEN L.remoteList.r - 92 ELSE left,
            L.download.t, 92, L.download.b - L.download.t)

queuePriorityRects(L) ==
    LET x == L.clearQueue.r + 6
        y == L.clearQueue.t
    IN [top |-> Rect(x, y, 82, 28), up |-> Rect(x + 88, y, 92, 28),
        down |-> Rect(x + 186, y, 104, 28), bottom |-> Rect(x + 296, y, 88, 28)]

Beside(L) ==
    [compare |-> directoryComparisonButtonRect(L), edit |-> remoteEditButtonRect(L),
     localFilter |-> fileFilterPromptControlRect(L.localList),
     remoteFilter |-> fileFilterPromptControlRect(L.remoteList),
     localSort |-> fileSortControlRect(L.localList), remoteSort |-> fileSortControlRect(L.remoteList),
     localSearch |-> recursiveSearchButtonRect(L.localList),
     remoteSearch |-> recursiveSearchButtonRect(L.remoteList),
     localRows |-> fileFilterListRect(L.localList), remoteRows |-> fileFilterListRect(L.remoteList)]

-----------------------------------------------------------------------------
(* The rail and the toolbar *)

\* buildLinuxMasterRailLayout
Rail ==
    LET Card(i) == Rect(14, 64 + (54 * i), 166, 46)
        utility == Most(h - 170, 290)
        Small(i) == Rect(14, utility + (45 * i), 166, 38)
    IN [files |-> Card(0), connections |-> Card(1), transfers |-> Card(2), settings |-> Card(3),
        bookmarks |-> Small(0), diagnostics |-> Small(1), about |-> Small(2)]

ToolbarRegion == [l |-> ContentLeft, t |-> 72, r |-> w, b |-> 171]
ToolbarRow == <<"back", "forward", "refresh", "newFolder", "uploadBar", "downloadBar",
                "bookmarksBar", "more">>

\* buildLinuxMasterToolbarLayout, the badge that shows the state left out.
Toolbar ==
    LET left == ContentLeft + 10
        cw == w - Gap - left
        connection == Most(260, cw - 284)
        button == Most(74, (cw - 49) \div 8)
        Place(c) == CHOOSE i \in 1..8 : ToolbarRow[i] = c
    IN [c \in Range(ToolbarRow) |-> Rect(left + ((Place(c) - 1) * (button + 7)), 124, button, 38)]
       @@ [connection |-> Rect(left, 78, connection, 34),
           quick |-> Rect(left + connection + 152, 78, 132, 34)]

Fields == <<"protocol", "host", "port", "user", "password", "key", "passphrase", "localPath",
            "remotePath">>
RailOrder == <<"files", "connections", "transfers", "settings", "bookmarks", "diagnostics", "about">>
ToolbarOrder == <<"connection", "quick">> \o ToolbarRow
PaneOrder == <<"compare", "localSearch", "remoteSearch", "localSort", "localFilter", "remoteSort",
               "remoteFilter">>
SwitchOrder == <<"connect", "disconnect", "profile", "saveProfile", "removeProfile", "localUp",
    "localRefresh", "remoteUp", "remoteRefresh", "localNew", "localRename", "localDelete",
    "remoteNew", "remoteRename", "remoteDelete", "remoteChmod", "edit", "localRows", "remoteRows",
    "upload", "download", "pause", "resume", "cancelJob", "retryJob", "clearQueue", "queue">>

Controls == Toolbar @@ Rail @@ queuePriorityRects(Workspace) @@ Beside(Workspace) @@ Workspace

\* The order in which handleMouse asks.  The toolbar answers for its whole
\* region while the files are shown, and for nothing otherwise.
Order ==
    (IF view = "files" THEN ToolbarOrder ELSE <<>>)
    \o Fields \o RailOrder \o <<"top", "up", "down", "bottom">> \o PaneOrder \o SwitchOrder

\* What a click at x, y reaches, of the controls R in the order O.
Reached(R, O, x, y) ==
    LET hit == {i \in DOMAIN O : Holds(R[O[i]], x, y)}
        first == IF hit = {} THEN "nothing" ELSE O[CHOOSE i \in hit : \A j \in hit : i <= j]
    IN IF view = "files" /\ Holds(ToolbarRegion, x, y) /\ first \notin Range(ToolbarOrder)
       THEN "region" ELSE first

-----------------------------------------------------------------------------
(* Overlays *)

Middle(width, height) == Rect((w - width) \div 2, (h - height) \div 2, width, height)

\* buildLinuxInfoOverlayLayout
InfoPanel(height) == Middle(Most(560, Least(760, w - 80)), Most(260, Least(height, h - 80)))
Info(p) == [panel |-> p, close |-> Rect(p.r - 124, p.b - 52, 104, 32)]

remoteEditLayout ==
    LET p == Middle(Most(520, Least(980, w - 64)), Most(360, Least(700, h - 64)))
    IN [panel |-> p,
        editor |-> [l |-> p.l + 20, t |-> p.t + 76, r |-> p.r - 20, b |-> p.b - 92],
        save |-> Rect(p.r - 332, p.b - 48, 96, 32), reload |-> Rect(p.r - 226, p.b - 48, 96, 32),
        close |-> Rect(p.r - 120, p.b - 48, 96, 32)]

\* renderTrustOverlay
Trust ==
    LET p == Middle(Least(720, w - 80), 150)
    IN [panel |-> p, trust |-> Rect(p.r - 230, p.b - 42, 96, 28),
        close |-> Rect(p.r - 124, p.b - 42, 96, 28)]

\* renderPromptOverlay
Prompt ==
    LET p == Middle(Least(620, w - 80), 158)
    IN [panel |-> p, input |-> Rect(p.l + 20, p.t + 52, (p.r - p.l) - 40, 32),
        ok |-> Rect(p.r - 224, p.t + 108, 94, 30), close |-> Rect(p.r - 120, p.t + 108, 94, 30)]

\* renderSettingsOverlay
Minus == <<"parallelMinus", "uploadMinus", "downloadMinus", "retriesMinus", "delayMinus", "timeoutMinus">>
Plus == <<"parallelPlus", "uploadPlus", "downloadPlus", "retriesPlus", "delayPlus", "timeoutPlus">>
Settings ==
    LET width == Least(860, w - 100)
        p == Middle(width, 675)
        choice == IF width >= 820 THEN 280 ELSE 230
        Choice(y) == Rect(p.r - choice - 16, p.t + y, choice, 30)
        Steppers(names, x) ==
            [c \in Range(names) |->
                Rect(p.r - x, p.t + 105 + (45 * (CHOOSE i \in 1..6 : names[i] = c)), 48, 30)]
        utility == (width - 72) \div 4
        Utility(i) == Rect(p.l + 24 + (i * (utility + 8)), p.b - 92, utility, 30)
    IN Steppers(Minus, 120) @@ Steppers(Plus, 64)
       @@ [panel |-> p, language |-> Choice(60), appearance |-> Choice(105), conflict |-> Choice(423),
           confirmDelete |-> Rect(p.r - 156, p.t + 467, 140, 30),
           update |-> Utility(0), latest |-> Utility(1), premium |-> Utility(2), website |-> Utility(3),
           reset |-> Rect(p.l + 24, p.b - 48, Least(220, Most(150, width - 470)), 30),
           save |-> Rect(p.r - 226, p.b - 48, 98, 30), close |-> Rect(p.r - 118, p.b - 48, 98, 30)]

Overlay == CASE overlay = "info" -> Info(InfoPanel(330))
             [] overlay = "about" -> Info(InfoPanel(360))
             [] overlay = "editor" -> remoteEditLayout
             [] overlay = "trust" -> Trust
             [] overlay = "prompt" -> Prompt
             [] overlay = "settings" -> Settings

-----------------------------------------------------------------------------
(* Rows *)

\* Go divides towards zero.
Quotient(a, b) == IF a < 0 THEN -((-a) \div b) ELSE a \div b

\* renderItemRows: how many rows it draws, and the box of row i.
MaxRows(p) == Most(0, (p.b - p.t - 26) \div 24)
RowBox(p, i) == Rect(p.l + 1, p.t + 11 + (24 * i), (p.r - p.l) - 2, 24)

\* Mutant: the heading's offset is forgotten.
selectRowFlat(p, y) == Quotient(y - p.t, 24)

selectRow(p, y) == Quotient(y - p.t - 11, 24)

\* renderQueue and the last case of handleMouse: the text of row i, and the row
\* a click selects.
MaxJobs(q) == (q.b - q.t - 28) \div 22
JobText(q, i) == Rect(q.l + 8, q.t + 17 + (22 * i), 100, 11)

selectJob(q, y) == Quotient(y - q.t - 11, 22)

-----------------------------------------------------------------------------

Init == w \in Widths /\ h \in Heights /\ view = "files" /\ overlay = "none"

\* ConfigureNotify
Configure == w' \in Widths /\ h' \in Heights /\ UNCHANGED <<view, overlay>>

Center(q) == <<(q.l + q.r) \div 2, (q.t + q.b) \div 2>>

\* A click on a control as it is drawn.  What opens an overlay needs more than
\* the click; here it may.
Click ==
    /\ overlay = "none"
    /\ \E c \in {"files", "connections", "connection", "settings", "diagnostics", "more", "about",
                 "localNew", "edit", "connect"} :
        LET R == Controls
            p == Center(R[c])
            hit == Reached(R, Order, p[1], p[2])
        IN /\ view' = CASE hit = "files" -> "files"
                        [] hit \in {"connections", "connection"} -> "connections"
                        [] OTHER -> view
           /\ overlay' = CASE hit = "settings" -> "settings"
                           [] hit \in {"diagnostics", "more"} -> "info"
                           [] hit = "about" -> "about"
                           [] hit = "localNew" -> "prompt"
                           [] hit = "edit" -> "editor"
                           [] hit = "connect" -> "trust"
                           [] OTHER -> "none"
    /\ UNCHANGED <<w, h>>

CloseOverlay == overlay # "none" /\ overlay' = "none" /\ UNCHANGED <<w, h, view>>

Next == Configure \/ Click \/ CloseOverlay

Spec == Init /\ [][Next]_vars

-----------------------------------------------------------------------------

Window == Rect(0, 0, w, h)
Within(q, p) == q.l >= p.l /\ q.t >= p.t /\ q.r <= p.r /\ q.b <= p.b /\ q.l < q.r /\ q.t < q.b

\* The controls a view leaves undrawn, or paints over.
Hidden == IF view = "files"
          THEN {"protocol", "host", "port", "user", "password", "connect", "profile", "saveProfile",
                "removeProfile", "key", "passphrase", "disconnect"}
          ELSE Range(ToolbarOrder)
Drawn == Range(Order \o ToolbarOrder) \ Hidden

Points(q) == {<<q.l, q.t>>, <<q.r - 1, q.t>>, <<q.l, q.b - 1>>, <<q.r - 1, q.b - 1>>, Center(q)}

\* At every size every control lies in the window, whole.
InWindow == LET R == Controls IN \A c \in Drawn : Within(R[c], Window)

\* A click on a control that is drawn reaches that control, at its corners as in
\* the middle: no other one, shown or not, lies over it.
ReachedWhereDrawn ==
    LET R == Controls
        O == Order
    IN \A c \in Drawn : \A p \in Points(R[c]) : Reached(R, O, p[1], p[2]) = c

\* A control that is painted over takes no click.
HiddenIsSilent ==
    LET R == Controls
        O == Order
    IN \A c \in Hidden : \A p \in Points(R[c]) : Reached(R, O, p[1], p[2]) # c

\* An overlay lies in the window, its controls lie in it, and no two of them
\* share a point.
OverlayApart ==
    overlay # "none" =>
        LET O == Overlay
        IN /\ Within(O.panel, Window)
           /\ \A c \in DOMAIN O \ {"panel"} :
                /\ Within(O[c], O.panel)
                /\ \A d \in DOMAIN O \ {"panel", c} :
                    O[c].r <= O[d].l \/ O[d].r <= O[c].l \/ O[c].b <= O[d].t \/ O[d].b <= O[c].t

\* A click on a row selects that row: anywhere in its box in the file lists,
\* on its text in the queue.
RowUnderPointer ==
    LET R == Controls
        Sample(q) == {q.t, q.t + 1, q.b - 1}
    IN /\ \A s \in {"localRows", "remoteRows"} : \A i \in 0..MaxRows(R[s]) - 1 :
            /\ Within(RowBox(R[s], i), R[s])
            /\ \A y \in Sample(RowBox(R[s], i)) : selectRow(R[s], y) = i
       /\ \A i \in 0..MaxJobs(R.queue) - 1 : \A y \in Sample(JobText(R.queue, i)) :
            selectJob(R.queue, y) = i
=============================================================================

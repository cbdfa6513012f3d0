----------------------------- MODULE LinuxWindow -----------------------------
(***************************************************************************)
(* The Linux window: internal/desktop/gui_linux.go, gui_linux_actions.go,  *)
(* profile_start_linux.go and the toolbar of linux_master_rail.go.         *)
(*                                                                         *)
(* One goroutine at a time works for the window (startAction); its result  *)
(* is handled later.  The text of a path field and the directory of a pane *)
(* are one variable.  Every step of the window ends with a frame, which    *)
(* enforces the start directories of the selected profile.                 *)
(***************************************************************************)
EXTENDS Naturals, FiniteSets

CONSTANTS Servers,    \* the hosts of accounts
          MaxSteps    \* what the user does (bound)

\* What every instance has to satisfy.
WindowAssumption == MaxSteps \in Nat /\ "none" \notin Servers

VARIABLES
    win,      \* the linuxDesktop; `typed` (history) is set where a path was put into the
              \* field and not listed since, `asks` is the engine's setting ConfirmDelete
    session,  \* the server the engine is connected to
    saved,    \* the stored profiles
    done,     \* the last change of a file and where its row was seen
    steps

vars == <<win, session, saved, done, steps>>

Sides == {"local", "remote"}
Ids == {"p", "q"}
None == "none"
LocalDirs == {"home", "work"}
RemoteDirs == {"/", "/x"}
NoRows == [server |-> None, dir |-> None]
NoTask == [kind |-> None]
NoProfile == [host |-> None]
NothingDone == [op |-> None]

\* The window after its first local listing.
NewWindow(host) ==
    [busy |-> FALSE, task |-> NoTask, connected |-> FALSE, pending |-> None, last |-> host,
     host |-> host, secret |-> FALSE, prof |-> None,
     cur |-> [local |-> "home", remote |-> "/"], owner |-> None,
     rows |-> [local |-> [server |-> None, dir |-> "home"], remote |-> NoRows],
     sel |-> [s \in Sides |-> FALSE], prompt |-> NothingDone, confirm |-> NothingDone,
     typed |-> [s \in Sides |-> FALSE], asks |-> TRUE,
     start |-> [prof |-> None, key |-> host, verified |-> "home"]]

Init ==
    /\ \E h \in Servers :
         /\ win = NewWindow(h)
         /\ saved = [i \in Ids |-> IF i = "p" THEN [host |-> h, local |-> "work", remote |-> "/x"]
                                   ELSE NoProfile]
    /\ session = None /\ done = NothingDone /\ steps = 0

-----------------------------------------------------------------------------
(* Goroutines and frames *)

Start(w, t) == [w EXCEPT !.busy = TRUE, !.task = t]
List(side, dir) == [kind |-> "list", side |-> side, dir |-> dir, state |-> "runs"]

Refresh(w, side, dir) ==
    IF w.busy \/ (side = "remote" /\ ~w.connected) THEN w ELSE Start(w, List(side, dir))

\* The local start of a newly selected profile is listed first and the pane
\* stays where it was; the remote start is installed once, and an account
\* edited afterwards starts at the default.
EnforceStart(w, profiles) ==
    LET new == w.prof # w.start.prof
        p == IF w.prof = None THEN NoProfile ELSE profiles[w.prof]
        w1 == IF ~new THEN w
              ELSE [w EXCEPT !.start.prof = w.prof, !.start.key = w.host]
        w2 == IF new /\ w.prof # None /\ w.cur.local = p.local
              THEN Refresh([w1 EXCEPT !.cur.local = w.start.verified, !.sel["local"] = FALSE],
                           "local", p.local)
              ELSE w1
        w3 == IF new /\ w.prof # None THEN [w2 EXCEPT !.cur.remote = p.remote, !.owner = None] ELSE w2
        w4 == IF w3.prof # None /\ ~w3.connected /\ w3.host # w3.start.key
              THEN [w3 EXCEPT !.cur.remote = "/", !.owner = None, !.start.key = w3.host] ELSE w3
    IN IF new /\ w.prof = None THEN w1
       ELSE [w4 EXCEPT !.start.verified = IF w4.busy THEN @ ELSE w4.cur.local]

Step(w, profiles) ==
    /\ win' = EnforceStart(w, profiles) /\ saved' = profiles

User == steps < MaxSteps /\ steps' = steps + 1

\* No prompt is open; the trust question takes the mouse but not the keys.
Keys == User /\ win.prompt = NothingDone
Mouse == Keys /\ (win.pending = None \/ win.connected)

-----------------------------------------------------------------------------
(* Fields, rows and profiles *)

Edit ==
    /\ Keys /\ UNCHANGED <<session, done>>
    /\ \/ \E h \in Servers : Step([win EXCEPT !.host = h], saved)
       \/ \E d \in LocalDirs :
            Step([win EXCEPT !.cur["local"] = d, !.typed["local"] = TRUE], saved)
       \/ \E d \in RemoteDirs :
            Step([win EXCEPT !.cur["remote"] = d, !.typed["remote"] = TRUE, !.owner = None], saved)
       \/ Step([win EXCEPT !.secret = ~@], saved)

SelectRow(side) ==
    /\ Mouse /\ win.rows[side] # NoRows
    /\ Step([win EXCEPT !.sel[side] = ~@], saved)
    /\ UNCHANGED <<session, done>>

\* The settings are changed in a view of their own and saved.
SetConfirmDelete ==
    /\ Mouse /\ ~win.busy /\ win.pending = None
    /\ Step([win EXCEPT !.asks = ~@], saved) /\ UNCHANGED <<session, done>>

\* A profile that is selected already leaves its local path in the field.
CycleProfile ==
    /\ Mouse /\ ~win.busy /\ ~win.connected /\ UNCHANGED <<session, done>>
    /\ \E i \in Ids :
         /\ saved[i] # NoProfile
         /\ Step([win EXCEPT !.prof = i, !.host = saved[i].host, !.secret = FALSE,
                             !.cur.local = saved[i].local, !.cur.remote = saved[i].remote,
                             !.typed["local"] = @ \/ i = win.prof,
                             !.owner = None, !.pending = None], saved)

\* Entered credentials are saved on a second click within eight seconds.
SaveProfile ==
    /\ Mouse /\ ~win.busy /\ UNCHANGED <<session, done>>
    /\ IF win.secret /\ win.confirm.op # "save"
       THEN Step([win EXCEPT !.confirm = [op |-> "save"]], saved)
       ELSE \E i \in IF win.prof # None THEN {win.prof} ELSE {j \in Ids : saved[j] = NoProfile} :
              LET w == [win EXCEPT !.confirm = IF win.secret THEN NothingDone ELSE @, !.secret = FALSE] IN
              Step([w EXCEPT !.prof = i],
                   [saved EXCEPT ![i] = [host |-> win.host, local |-> win.cur.local,
                                         remote |-> win.cur.remote]])

RemoveProfile ==
    /\ Mouse /\ ~win.busy /\ win.prof # None /\ UNCHANGED <<session, done>>
    /\ Step([win EXCEPT !.prof = None], [saved EXCEPT ![win.prof] = NoProfile])

\* Eight seconds pass.
Expire ==
    /\ win.confirm # NothingDone /\ win' = [win EXCEPT !.confirm = NothingDone]
    /\ UNCHANGED <<session, saved, done, steps>>

-----------------------------------------------------------------------------
(* Connecting *)

\* Mutant: the trusted connection takes the fields as they are.
ConnectFields(w, trust) ==
    IF w.busy \/ w.connected THEN w
    ELSE Start([w EXCEPT !.last = w.host, !.secret = FALSE],
               [kind |-> "connect", server |-> w.host, trust |-> trust, state |-> "runs"])

\* connectToServer: the answer to the question connects what it was about.
ConnectTo(w, trust) ==
    LET server == IF trust # None THEN w.last ELSE w.host IN
    IF w.busy \/ w.connected THEN w
    ELSE Start([w EXCEPT !.last = server, !.secret = FALSE],
               [kind |-> "connect", server |-> server, trust |-> trust, state |-> "runs"])

ConnectClick == Mouse /\ Step(ConnectTo(win, None), saved) /\ UNCHANGED <<session, done>>

\* Return, or the button of the question.
TrustOrConnect ==
    /\ Keys /\ ~win.connected /\ Step(ConnectTo(win, win.pending), saved)
    /\ UNCHANGED <<session, done>>

\* Escape or Cancel; the call waits for the connection under way.
CancelTrust ==
    /\ Keys /\ win.pending # None /\ ~win.connected
    /\ ~(win.task.kind = "connect" /\ win.task.state = "runs")
    /\ Step([win EXCEPT !.pending = None], saved) /\ UNCHANGED <<session, done>>

Disconnect ==
    /\ Mouse /\ ~win.busy /\ win.connected
    /\ Step(Start(win, [kind |-> "leave", state |-> "runs"]), saved)
    /\ UNCHANGED <<session, done>>

RefreshClick(side) ==
    /\ Mouse /\ \E d \in IF side = "local" THEN LocalDirs ELSE RemoteDirs :
                  Step(Refresh(win, side, d), saved)
    /\ UNCHANGED <<session, done>>

-----------------------------------------------------------------------------
(* Changes *)

Seen(side) == [server |-> win.rows[side].server, dir |-> win.rows[side].dir]
Change(op, side, dir, seen) ==
    [op |-> op, side |-> side, server |-> IF side = "local" THEN None ELSE session,
     dir |-> dir, seen |-> seen, typed |-> win.typed[side]]

\* A local change is made at once and the pane listed again; a failed one
\* leaves everything.
LocalChange(op, w) ==
    \/ /\ done' = Change(op, "local", w.cur["local"], Seen("local"))
       /\ Step(Refresh(w, "local", w.cur["local"]), saved)
    \/ done' = done /\ Step(w, saved)

\* remoteMutation: its goroutine reads the directory itself, the listing
\* after it has the directory of the click.
RemoteChange(op, w) ==
    /\ Step(IF w.busy \/ ~w.connected THEN w
            ELSE Start(w, [kind |-> "change", op |-> op, dir |-> w.cur.remote, seen |-> Seen("remote"),
                           state |-> "runs"]), saved)
    /\ done' = done

Apply(op, side, w) ==
    IF side = "local" THEN LocalChange(op, w) ELSE RemoteChange(op, w)

OpenPrompt(op, side) ==
    /\ Mouse /\ ~win.busy /\ (op # "mkdir" => win.sel[side]) /\ (op = "chmod" => side = "remote")
    /\ Step([win EXCEPT !.prompt = [op |-> op, side |-> side]], saved)
    /\ UNCHANGED <<session, done>>

SubmitPrompt ==
    LET q == win.prompt  w == [win EXCEPT !.prompt = NothingDone] IN
    /\ User /\ q # NothingDone /\ ~win.busy /\ session' = session
    /\ IF q.op # "mkdir" /\ ~win.sel[q.side] THEN Step(w, saved) /\ done' = done
       ELSE Apply(q.op, q.side, w)

CancelPrompt ==
    /\ User /\ win.prompt # NothingDone /\ Step([win EXCEPT !.prompt = NothingDone], saved)
    /\ UNCHANGED <<session, done>>

\* Mutant: the confirmation does not say which directory.
KeyName(side, on) == [op |-> "delete", side |-> side, on |-> on]

\* destructiveConfirmed compares the directory and the name; the server it was
\* asked on (history) is not compared.
Key(side, on) == [op |-> "delete", side |-> side, dir |-> win.cur[side], on |-> on]

Asked(side) == \E on \in Servers \cup {None} : win.confirm = Key(side, on)

\* The first click asks, the second one on the same item deletes; with the
\* setting off the first click deletes, unless the settings cannot be read.
Delete(side) ==
    /\ Mouse /\ ~win.busy /\ win.sel[side] /\ (side = "remote" => win.connected) /\ session' = session
    /\ \/ /\ ~win.asks \/ Asked(side)
          /\ Apply("delete", side, [win EXCEPT !.confirm = NothingDone])
       \/ /\ ~Asked(side) /\ done' = done
          /\ Step([win EXCEPT !.confirm = Key(side, IF side = "local" THEN None ELSE session)], saved)

-----------------------------------------------------------------------------
(* What the goroutine does, and its result *)

Ended(t, r) == win' = [win EXCEPT !.task = [t EXCEPT !.state = r]] /\ UNCHANGED <<saved, steps>>

Connects(t) ==
    /\ t.kind = "connect" /\ done' = done
    /\ \/ /\ t.trust \in {None, t.server} /\ Ended(t, "ok") /\ session' = t.server
       \/ /\ t.trust = None /\ Ended(t, "trust") /\ session' = session
       \/ /\ Ended(t, "failed") /\ session' = session

\* A failed disconnect may have closed the session.
Leaves(t) ==
    /\ t.kind = "leave" /\ done' = done
    /\ \/ Ended(t, "ok") /\ session' = None
       \/ Ended(t, "failed") /\ session' \in {None, session}

Lists(t) ==
    /\ t.kind = "list" /\ UNCHANGED <<session, done>>
    /\ \E r \in {"failed"} \cup IF t.side = "local" \/ session # None THEN {"ok"} ELSE {} : Ended(t, r)

\* The change is made in the directory the field holds now; the listing that
\* follows may fail although it was made.
Changes(t) ==
    /\ t.kind = "change" /\ session' = session
    /\ \/ /\ session # None /\ done' = Change(t.op, "remote", win.cur.remote, t.seen)
          /\ \E r \in {"ok", "failed"} : Ended(t, r)
       \/ done' = done /\ Ended(t, "failed")

Works == win.task # NoTask /\ win.task.state = "runs"
         /\ (Connects(win.task) \/ Leaves(win.task) \/ Lists(win.task) \/ Changes(win.task))

Listed(w, side, dir) ==
    [w EXCEPT !.cur[side] = dir, !.sel[side] = FALSE, !.typed[side] = FALSE,
              !.owner = IF side = "remote" THEN session ELSE @,
              !.rows[side] = [server |-> IF side = "remote" THEN session ELSE None, dir |-> dir]]

Left(w) == [w EXCEPT !.connected = FALSE, !.pending = None, !.rows["remote"] = NoRows,
                     !.sel["remote"] = FALSE]

\* A new connection lists the remote directory the field holds.
Accepted(w, t) ==
    CASE t.kind = "connect" /\ t.state = "trust" -> [w EXCEPT !.pending = t.server]
      [] t.kind = "connect" /\ t.state = "ok"    -> Refresh([w EXCEPT !.connected = TRUE],
                                                            "remote", w.cur.remote)
      [] t.kind = "leave"  /\ t.state = "ok"     -> Left(w)
      [] t.kind = "list"   /\ t.state = "ok"     -> Listed(w, t.side, t.dir)
      [] t.kind = "change" /\ t.state = "ok"     -> Listed(w, "remote", t.dir)
      [] OTHER                                   -> w

HandleResult ==
    /\ win.task # NoTask /\ win.task.state # "runs"
    /\ Step(Accepted([win EXCEPT !.busy = FALSE, !.task = NoTask], win.task), saved)
    /\ UNCHANGED <<session, done, steps>>

Clicks ==
    \/ SetConfirmDelete \/ CycleProfile \/ SaveProfile \/ RemoveProfile \/ ConnectClick \/ Disconnect
    \/ \E side \in Sides : \/ SelectRow(side) \/ RefreshClick(side) \/ Delete(side)
                           \/ \E op \in {"mkdir", "rename", "chmod"} : OpenPrompt(op, side)

Keyboard == Edit \/ TrustOrConnect \/ CancelTrust \/ SubmitPrompt \/ CancelPrompt

Next == Clicks \/ Keyboard \/ Expire \/ Works \/ HandleResult

Spec == Init /\ [][Next]_vars

-----------------------------------------------------------------------------
TypeOK ==
    /\ win.busy \in BOOLEAN /\ win.connected \in BOOLEAN /\ win.host \in Servers
    /\ win.pending \in Servers \cup {None} /\ win.prof \in Ids \cup {None}
    /\ session \in Servers \cup {None} /\ (win.busy <=> win.task # NoTask)

\* A connection that trusts a fingerprint goes to the server that showed it,
\* whatever was typed into the fields while the question stood open.
TrustWhereShown ==
    win.task.kind = "connect" => win.task.trust \in {None, win.task.server}

\* The remote rows are those of the server the engine is connected to.
RowsOfSession ==
    win.rows["remote"] # NoRows /\ session # None => win.rows["remote"].server = session

\* A file is changed in the directory, and on the server, whose rows the user
\* saw: failing listings, reconnects and another profile do not separate the
\* path from the rows, unless a path was put into the field since they were
\* listed (gui_linux.go, setFieldValue).  Then the server is still theirs.
ChangedWhereSeen ==
    done.op \in {"rename", "chmod", "delete"} =>
        /\ done.seen.server = done.server
        /\ done.typed \/ done.seen.dir = done.dir

\* The same whatever is typed.
\* The code does not keep it: see "Disagreements found" in the README.
ChangedWhereSeenTyped ==
    done.op \in {"rename", "chmod", "delete"} => done.seen.dir = done.dir

\* profile_start_linux.go: the local base the profile start falls back to is
\* one that was listed.
\* The code does not keep it: see "Disagreements found" in the README.
VerifiedIsListed == win.start.verified = win.rows["local"].dir

\* A deletion is started: a local one is made, a remote one gets its goroutine.
DeletesLocal == done' # done /\ done'.op = "delete" /\ done'.side = "local"
DeletesRemote == win.task = NoTask /\ win'.task.kind = "change" /\ win'.task.op = "delete"

\* While deletions are to be confirmed, a click deletes only what an earlier
\* click asked about, on the same side and in the same directory, and the
\* confirmation is used up (destructiveConfirmed).
DeletedWasAskedStep ==
    /\ DeletesLocal /\ win.asks =>
          /\ \E on \in Servers \cup {None} :
               win.confirm = [op |-> "delete", side |-> "local", dir |-> done'.dir, on |-> on]
          /\ win'.confirm = NothingDone
    /\ DeletesRemote /\ win.asks =>
          /\ \E on \in Servers \cup {None} :
               win.confirm = [op |-> "delete", side |-> "remote", dir |-> win'.task.dir, on |-> on]
          /\ win'.confirm = NothingDone

\* A remote deletion is made on the server it was asked on.
\* The code does not keep it: see "Disagreements found" in the README.
DeletedOnAskedServerStep == DeletesRemote /\ win.asks => win.confirm.on = session

\* With a profile selected a session starts at a path of that profile or at
\* the default, not where another server was left.
\* The code does not keep it: see "Disagreements found" in the README.
ProfileStartsOwn ==
    win.prof # None /\ win.task.kind = "list" /\ win.task.side = "remote" /\ win.rows["remote"] = NoRows
    => win.owner \in {None, session}
=============================================================================

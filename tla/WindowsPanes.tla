----------------------------- MODULE WindowsPanes -----------------------------
(***************************************************************************)
(* The two file panes of the Windows window:                               *)
(* internal/desktop/files_actions_windows.go, with the parts of            *)
(* connection_profiles_windows.go that open and clear the remote pane, the *)
(* bookmark navigation of bookmark_manager_windows.go and the queue's poll *)
(* of transfers_windows.go.                                                *)
(*                                                                         *)
(* A listing or a change runs in a goroutine; its result is handled on the *)
(* UI thread later, in any order, also under a modal dialog.  What a       *)
(* directory holds is a version number; a successful change raises it.     *)
(***************************************************************************)
EXTENDS Naturals, FiniteSets

CONSTANTS Dirs,     \* directories, the same names on both sides
          Start,    \* the directory a connection opens
          MaxClicks \* what the user does, and transfers that finish (bound)

\* What every instance has to satisfy.
PanesAssumption == Start \in Dirs /\ MaxClicks \in Nat

VARIABLES
    cur,        \* localCurrent, remoteCurrent
    list,       \* the version of the listed items, 0 when the list is empty
    seq,        \* localNavSeq, remoteNavSeq
    mutating,   \* localMutationBusy, remoteMutationBusy
    connected, busy, gen,
    dialog,     \* the question open for a change, None when there is none
    calls,      \* goroutines with what is left of them
    ver,        \* what the directories hold
    unseen,     \* a finished transfer the window has not polled (seenDone)
    missed,     \* the remote list was not refreshed after a change that was made
    failed,     \* the last navigation of the pane failed
    clicks

panes == <<cur, list, seq, failed, missed>>
link == <<connected, busy, gen>>
vars == <<panes, link, mutating, dialog, calls, ver, unseen, clicks>>

Sides == {"local", "remote"}
None == [op |-> "none"]

Init ==
    /\ cur = [s \in Sides |-> Start] /\ list = [s \in Sides |-> IF s = "local" THEN 1 ELSE 0]
    /\ seq = [s \in Sides |-> 0] /\ mutating = [s \in Sides |-> FALSE]
    /\ connected = FALSE /\ busy = FALSE /\ gen = 0
    /\ dialog = None /\ calls = {} /\ unseen = FALSE /\ missed = FALSE
    /\ ver = [s \in Sides |-> [d \in Dirs |-> 1]]
    /\ failed = [s \in Sides |-> FALSE] /\ clicks = 0

Click == clicks < MaxClicks /\ clicks' = clicks + 1

-----------------------------------------------------------------------------
(* Navigation *)

Nav(s, d, g) == [op |-> "nav", side |-> s, dir |-> d, seq |-> seq[s] + 1,
                 gen |-> g, state |-> "runs", ver |-> 0]

\* refreshLocal, refreshRemote: a new sequence number makes the listing under
\* way an old one.
Refresh(s, d, rest, g) ==
    /\ seq' = [seq EXCEPT ![s] = @ + 1]
    /\ calls' = rest \cup {Nav(s, d, g)}
    /\ missed' = (missed /\ s = "local")

RemoteReady == connected /\ ~busy

\* Mutant: directories are opened under a question as well.
NavigateAnytime(s, d) ==
    /\ Click /\ (s = "remote" => RemoteReady)
    /\ Refresh(s, d, calls, gen)
    /\ UNCHANGED <<cur, list, failed, link, mutating, dialog, ver, unseen>>

\* The user opens a directory, its parent, a bookmark or the same one again.
Navigate(s, d) ==
    /\ Click /\ dialog = None /\ (s = "remote" => RemoteReady)
    /\ Refresh(s, d, calls, gen)
    /\ UNCHANGED <<cur, list, failed, link, mutating, dialog, ver, unseen>>

\* LocalList, RemoteList: the moment the directory is read.
Listed(c) ==
    /\ c.op = "nav" /\ c.state = "runs"
    /\ \E r \in {"ok", "failed"} :
         calls' = (calls \ {c}) \cup {[c EXCEPT !.state = r, !.ver = ver[c.side][c.dir]]}
    /\ UNCHANGED <<panes, link, mutating, dialog, ver, unseen, clicks>>

\* A result of an older navigation, or of an earlier connection, is dropped.
Wanted(c) ==
    /\ c.seq = seq[c.side]
    /\ c.side = "remote" => c.gen = gen /\ connected

ListResult(c) ==
    /\ c.op = "nav" /\ c.state # "runs" /\ calls' = calls \ {c}
    /\ IF Wanted(c)
       THEN /\ failed' = [failed EXCEPT ![c.side] = (c.state = "failed")]
            /\ IF c.state = "ok"
               THEN /\ cur' = [cur EXCEPT ![c.side] = c.dir]
                    /\ list' = [list EXCEPT ![c.side] = c.ver]
               ELSE UNCHANGED <<cur, list>>
       ELSE UNCHANGED <<cur, list, failed>>
    /\ UNCHANGED <<seq, missed, link, mutating, dialog, ver, unseen, clicks>>

-----------------------------------------------------------------------------
(* Changes: new folder, rename, delete, permissions *)

\* Another directory is on its way into the pane.
Leaving(s) == \E c \in calls : c.op = "nav" /\ c.side = s /\ c.seq = seq[s] /\ c.dir # cur[s]

\* The user asks; the selected items are those listed now.  A local change
\* marks the pane before the question, a remote one after it.
Ask(s, op) ==
    /\ Click /\ dialog = None /\ ~mutating[s] /\ (s = "remote" => RemoteReady)
    /\ dialog' = [op |-> op, side |-> s, from |-> cur[s], gen |-> gen, leaving |-> Leaving(s)]
    /\ mutating' = [mutating EXCEPT ![s] = (s = "local")]
    /\ UNCHANGED <<panes, link, calls, ver, unseen>>

AskLocal == \E op \in {"mkdir", "rename", "delete"} : Ask("local", op)
AskRemote == \E op \in {"mkdir", "rename", "delete"} : Ask("remote", op)
AskChmod == Ask("remote", "chmod")

\* Mutant: the directory is taken after every question.
BaseAfter(q) == cur[q.side]

\* remoteRenameAction and remoteChmodAction take the directory before the
\* question; the others, after it.
Base(q) == IF q.side = "remote" /\ q.op \in {"rename", "chmod"} THEN q.from ELSE cur[q.side]

\* beginRemoteMutation: refused when the connection was lost under the question.
Begins(q) == q.side = "remote" => RemoteReady /\ ~mutating["remote"]

\* runRemoteMutation, runLocalMutation: the change goes to a goroutine.
Confirmed ==
    /\ dialog # None /\ Begins(dialog) /\ dialog' = None
    /\ mutating' = [mutating EXCEPT ![dialog.side] = TRUE]
    /\ calls' = calls \cup {[op |-> dialog.op, side |-> dialog.side,
          dir |-> Base(dialog), from |-> dialog.from, leaving |-> dialog.leaving,
          asked |-> dialog.gen, seq |-> seq[dialog.side], gen |-> gen,
          linked |-> RemoteReady, state |-> "runs"]}
    /\ UNCHANGED <<panes, link, ver, unseen, clicks>>

\* The answer is no, or cannot be followed.
Declined ==
    /\ dialog # None /\ dialog' = None
    /\ mutating' = [mutating EXCEPT ![dialog.side] = @ /\ dialog.side = "remote"]
    /\ UNCHANGED <<panes, link, calls, ver, unseen, clicks>>

\* The engine makes the change, on whatever connection it has now.  The answer of a
\* server may be lost ("lost"), and some of a local deletion be made before it fails.
Change(c) ==
    /\ c.op # "nav" /\ c.state = "runs"
    /\ \/ /\ c.side = "remote" => connected
          /\ ver' = [ver EXCEPT ![c.side][c.dir] = @ + 1]
          /\ \E r \in {"ok", "lost"} :
               /\ r = "lost" => c.side = "remote" \/ c.op = "delete"
               /\ calls' = (calls \ {c}) \cup {[c EXCEPT !.state = r]}
       \/ UNCHANGED ver /\ calls' = (calls \ {c}) \cup {[c EXCEPT !.state = "failed"]}
    /\ UNCHANGED <<panes, link, mutating, dialog, unseen, clicks>>

\* The result in the local pane: it is listed again, after a deletion that failed
\* as well, for some of the items may be gone.
LocalResult(c) ==
    /\ c.op # "nav" /\ c.side = "local" /\ c.state \in {"ok", "lost", "failed"}
    /\ LET rest == (calls \ {c}) \cup {[c EXCEPT !.state = "finish"]}
       IN IF c.state # "failed" \/ c.op = "delete"
          THEN Refresh("local", cur["local"], rest, gen)
          ELSE calls' = rest /\ UNCHANGED <<seq, missed>>
    /\ UNCHANGED <<cur, list, failed, link, mutating, dialog, ver, unseen, clicks>>

\* In the remote pane: listed again when it is the same connection, nothing was
\* opened since the change began, and it was answered.
RemoteResult(c) ==
    /\ c.op # "nav" /\ c.side = "remote" /\ c.state \in {"ok", "lost", "failed"}
    /\ LET rest == (calls \ {c}) \cup {[c EXCEPT !.state = "finish"]}
       IN IF c.state = "ok" /\ c.gen = gen /\ RemoteReady /\ c.seq = seq["remote"]
          THEN Refresh("remote", cur["remote"], rest, gen)
          ELSE calls' = rest /\ missed' = (missed \/ c.state # "failed") /\ UNCHANGED seq
    /\ UNCHANGED <<cur, list, failed, link, mutating, dialog, ver, unseen, clicks>>

\* Mutant: the pane is released only on the connection of the change.
FinishOnSameLink(c) ==
    /\ c.op # "nav" /\ c.state = "finish"
    /\ mutating' = [mutating EXCEPT ![c.side] = @ /\ c.side = "remote" /\ c.gen # gen]
    /\ calls' = calls \ {c}
    /\ UNCHANGED <<panes, link, dialog, ver, unseen, clicks>>

\* finishLocalMutation, finishRemoteMutation: dispatched when the goroutine
\* ends, whatever became of the connection.
Finish(c) ==
    /\ c.op # "nav" /\ c.state = "finish"
    /\ mutating' = [mutating EXCEPT ![c.side] = FALSE] /\ calls' = calls \ {c}
    /\ UNCHANGED <<panes, link, dialog, ver, unseen, clicks>>

-----------------------------------------------------------------------------
(* Transfers and the connection *)

\* A transfer ends in one of the directories.
TransferDone(s, d) ==
    /\ Click /\ ver' = [ver EXCEPT ![s][d] = @ + 1] /\ unseen' = TRUE
    /\ UNCHANGED <<panes, link, mutating, dialog, calls>>

\* refreshTransfers lists both panes when it sees a job done for the first time.
RefreshTransfers ==
    /\ unseen /\ unseen' = FALSE
    /\ IF RemoteReady
       THEN /\ seq' = [s \in Sides |-> seq[s] + 1] /\ missed' = FALSE
            /\ calls' = calls \cup {Nav(t, cur[t], gen) : t \in Sides}
       ELSE Refresh("local", cur["local"], calls, gen)
    /\ UNCHANGED <<cur, list, failed, link, mutating, dialog, ver, clicks>>

\* onConnected opens the directory of the profile.
OnConnected ==
    /\ Click /\ dialog = None /\ ~connected
    /\ connected' = TRUE /\ gen' = gen + 1 /\ UNCHANGED busy
    /\ Refresh("remote", Start, calls, gen')
    /\ UNCHANGED <<cur, list, failed, mutating, dialog, ver, unseen>>

\* A disconnect begins: by the user, or by the health check under a question.
Leave ==
    /\ RemoteReady /\ busy' = TRUE /\ gen' = gen + 1
    /\ UNCHANGED <<panes, connected, mutating, dialog, calls, ver, unseen, clicks>>

FinishDisconnected ==
    /\ busy /\ busy' = FALSE /\ connected' = FALSE
    /\ seq' = [seq EXCEPT !["remote"] = @ + 1] /\ list' = [list EXCEPT !["remote"] = 0]
    /\ UNCHANGED <<cur, failed, missed, gen, mutating, dialog, calls, ver, unseen, clicks>>

Results == \E c \in calls : \/ Listed(c) \/ ListResult(c) \/ Change(c)
                            \/ LocalResult(c) \/ RemoteResult(c) \/ Finish(c)

Next ==
    \/ \E c \in calls : Listed(c)
    \/ \E c \in calls : ListResult(c)
    \/ \E c \in calls : Change(c)
    \/ \E c \in calls : LocalResult(c)
    \/ \E c \in calls : RemoteResult(c)
    \/ \E c \in calls : Finish(c)
    \/ \E s \in Sides, d \in Dirs : Navigate(s, d)
    \/ AskLocal
    \/ AskRemote
    \/ AskChmod
    \/ Confirmed
    \/ Declined
    \/ \E s \in Sides, d \in Dirs : TransferDone(s, d)
    \/ RefreshTransfers
    \/ OnConnected
    \/ Leave
    \/ FinishDisconnected

\* Goroutines end by their timeouts, dispatched results are handled, and a
\* question is closed.
Spec == Init /\ [][Next]_vars /\ WF_vars(Results) /\ WF_vars(Declined)

-----------------------------------------------------------------------------
(* Properties *)

\* The types of the window's fields.
TypeOK ==
    /\ cur \in [Sides -> Dirs] /\ list \in [Sides -> Nat] /\ seq \in [Sides -> Nat]
    /\ mutating \in [Sides -> BOOLEAN] /\ {connected, busy, unseen, missed} \subseteq BOOLEAN
    /\ \A c \in calls : c.side \in Sides /\ c.dir \in Dirs /\ c.seq <= seq[c.side]

\* A change is made in the directory whose items the user picked, and a remote rename
\* or permission change is whatever listing was handled under the question.
\* The code does not keep it for a new folder, a deletion or a local rename that is
\* asked for while another directory is on its way into the pane: these take the
\* directory after the question (see "Disagreements found" in the README).  So this
\* says that nothing but such a listing leads a change elsewhere.
ChangesWhereSeen ==
    \A c \in calls : c.op # "nav" /\ c.dir # c.from =>
        c.leaving /\ ~(c.side = "remote" /\ c.op \in {"rename", "chmod"})

\* A remote change begins only on the connection the user asked for it on: one
\* lost under the question refuses the answer.
BeginsOnItsLink ==
    \A c \in calls : c.op # "nav" /\ c.side = "remote" =>
        c.asked = c.gen /\ c.linked

\* Nothing is listed in the remote pane without a connection.
OfflineIsEmpty == ~connected => list["remote"] = 0

\* One change at a time for each pane, and the pane is marked while one is out.
OneChange ==
    \A s \in Sides : LET out == {c \in calls : c.op # "nav" /\ c.side = s} IN
        /\ Cardinality(out) <= 1
        /\ mutating[s] = (out # {} \/ (dialog # None /\ dialog.side = "local" /\ s = "local"))

Quiet(s) == \A c \in calls : c.side # s

\* When nothing is out for the local pane and its last listing did not fail, it
\* shows its directory after every change and every transfer of the window.
LocalFresh == Quiet("local") /\ ~unseen /\ ~failed["local"] =>
                  list["local"] = ver["local"][cur["local"]]

\* The same of the remote pane of a live connection.
\* The code does not keep it after a change whose answer was lost, or whose result found
\* that something else had been opened (missed; see "Disagreements found" in the README).
RemoteFresh == Quiet("remote") /\ ~unseen /\ ~failed["remote"] /\ ~missed /\ RemoteReady =>
                   list["remote"] = ver["remote"][cur["remote"]]
=============================================================================

--------------------------- MODULE WindowsConnection ---------------------------
(***************************************************************************)
(* The connection as the Windows window runs it:                           *)
(* internal/desktop/connection_profiles_windows.go, the health check of    *)
(* files_actions_windows.go, the connection test of                        *)
(* site_manager_windows.go and the closing of the window in windows.go.    *)
(*                                                                         *)
(* Each engine call runs in a goroutine and its result is handled on the   *)
(* UI thread later, in any order; a modal dialog takes the user's input    *)
(* but results are still handled under it.  The engine's Connect,          *)
(* Disconnect and Probe happen at one moment each (SessionManager has them *)
(* step by step).                                                          *)
(***************************************************************************)
EXTENDS Naturals, FiniteSets

CONSTANT MaxClicks  \* what the user does (bound)

\* What every instance has to satisfy.
WindowAssumption == MaxClicks \in Nat

VARIABLES
    connected, busy,  \* connectionBusy
    health,           \* healthCheckRunning
    saving,           \* profileMutationBusy
    gen,              \* connectionGeneration
    dialog,           \* the modal window open: "none", "trust", "leave", "close", "site"
    testing,          \* the call of the site manager's connection test, 0 for none
    closed,           \* closing: the window is gone
    session,          \* the call whose session the engine has, 0 for none
    owner,            \* the call whose result made the window connected
    calls,            \* engine calls under way or with a result not handled
    clicks, ids,      \* counts
    \* Two histories that only ConnectedHasSession reads.
    taken,            \* sessions that another call ended than the Disconnect waited for
    overlapped        \* TRUE once a Disconnect was begun while another was under way or
                      \* after the connection was lost, or a connection was tested

ui == <<connected, busy, health, saving, gen, dialog, testing, closed, owner>>
history == <<taken, overlapped>>
vars == <<ui, session, calls, clicks, ids, history>>

Init ==
    /\ connected = FALSE /\ busy = FALSE /\ health = FALSE /\ saving = FALSE
    /\ gen = 0 /\ dialog = "none" /\ testing = 0 /\ closed = FALSE
    /\ session = 0 /\ owner = 0 /\ calls = {} /\ clicks = 0 /\ ids = 0
    /\ taken = {} /\ overlapped = FALSE

Call(op, g) == [id |-> ids + 1, op |-> op, gen |-> g, state |-> "runs"]

\* goSafe: the call begins.
Go(op, g, rest) == calls' = rest \cup {Call(op, g)} /\ ids' = ids + 1

Click == clicks < MaxClicks /\ clicks' = clicks + 1 /\ ~closed

-----------------------------------------------------------------------------
(* The engine *)

\* One call ends with one of the results res.
Ends(c, res) == \E r \in res : calls' = (calls \ {c}) \cup {[c EXCEPT !.state = r]}

\* Connect is refused while there is a session.  A cancelled context does not
\* end a call that has passed its last use of it.
EngineConnect(c) ==
    /\ c.op \in {"connect", "trusted", "test", "trusted test"} /\ c.state = "runs"
    /\ \/ Ends(c, {"failed"}) /\ UNCHANGED session
       \/ session = 0 /\ c.op \in {"connect", "test"} /\ Ends(c, {"trust"}) /\ UNCHANGED session
       \/ session = 0 /\ Ends(c, {"ok"}) /\ session' = c.id
    /\ UNCHANGED <<ui, clicks, ids, history>>

\* A call ends whatever session there is; meant: the window waits for just this.
EndsSession(meant) ==
    /\ session' = 0
    /\ taken' = IF meant THEN taken ELSE taken \cup ({session} \ {0})
    /\ UNCHANGED overlapped

\* Disconnect takes whatever session there is, be the window past it or not.
EngineDisconnect(c) ==
    /\ c.op = "disconnect" /\ c.state = "runs"
    /\ EndsSession(c.gen = gen) /\ Ends(c, {"ok"})
    /\ UNCHANGED <<ui, clicks, ids>>

EngineProbe(c) ==
    /\ c.op = "probe" /\ c.state = "runs"
    /\ Ends(c, IF session = 0 THEN {"failed"} ELSE {"ok", "failed"})
    /\ UNCHANGED <<ui, session, clicks, ids, history>>

\* SaveProfile and RemoveProfile.
EngineSave(c) ==
    /\ c.op = "save" /\ c.state = "runs"
    /\ Ends(c, {"ok", "failed"}) /\ UNCHANGED <<ui, session, clicks, ids, history>>

\* A test that was answered probes, then disconnects whatever the result; the
\* first attempt disconnects only when it has connected.
TestDisconnects(c) ==
    /\ \/ c.op = "test" /\ c.state = "ok"
       \/ c.op = "trusted test" /\ c.state \in {"ok", "failed"}
    /\ EndsSession(FALSE)
    /\ calls' = (calls \ {c}) \cup {[c EXCEPT !.op = "tested"]}
    /\ UNCHANGED <<ui, clicks, ids>>

-----------------------------------------------------------------------------
(* The UI thread: results *)

\* A result whose generation is over is dropped.
Current(c) == c.gen = gen /\ ~closed
Stale(c) == calls' = calls \ {c} /\ UNCHANGED <<ui, ids>>

\* beginConnectionTransition.
Transition == gen' = gen + 1 /\ health' = FALSE

\* setConnectionUI(false) after a failure.
Failed(c) ==
    /\ Current(c)
    /\ busy' = FALSE /\ connected' = FALSE /\ calls' = calls \ {c}
    /\ UNCHANGED <<health, saving, gen, dialog, testing, closed, owner, ids>>

\* onConnected.
OnConnected(c) ==
    /\ Current(c)
    /\ busy' = FALSE /\ connected' = TRUE /\ owner' = c.id /\ calls' = calls \ {c}
    /\ UNCHANGED <<health, saving, gen, dialog, testing, closed, ids>>

\* The user is asked to trust the key; the call stays until the answer.
AsksTrust(c) ==
    /\ Current(c) /\ dialog = "none"
    /\ dialog' = "trust" /\ calls' = (calls \ {c}) \cup {[c EXCEPT !.op = "asks"]}
    /\ UNCHANGED <<connected, busy, health, saving, gen, testing, closed, owner, ids>>

ConnectResult(c) ==
    /\ c.op \in {"connect", "trusted"} /\ c.state # "runs"
    /\ \/ ~Current(c) /\ Stale(c)
       \/ c.state = "failed" /\ Failed(c)
       \/ c.state = "ok" /\ OnConnected(c)
       \/ c.state = "trust" /\ AsksTrust(c)
    /\ UNCHANGED <<session, clicks, history>>

\* The answer: connectTrusted in the same generation, or cancelled.
TrustAnswer(c) ==
    /\ dialog = "trust" /\ c.op = "asks" /\ dialog' = "none"
    /\ \/ Go("trusted", c.gen, calls \ {c}) /\ UNCHANGED <<connected, busy>>
       \/ calls' = calls \ {c} /\ busy' = FALSE /\ connected' = FALSE /\ UNCHANGED ids
    /\ UNCHANGED <<health, saving, gen, testing, closed, owner, session, clicks, history>>

DisconnectResult(c) ==
    /\ c.op = "disconnect" /\ c.state # "runs"
    /\ IF Current(c)
       THEN /\ busy' = FALSE /\ connected' = FALSE /\ calls' = calls \ {c}
            /\ UNCHANGED <<health, saving, gen, dialog, testing, closed, owner, ids>>
       ELSE Stale(c)
    /\ UNCHANGED <<session, clicks, history>>

\* The probe after an error: a connection that is lost is disconnected.
ProbeResult(c) ==
    /\ c.op = "probe" /\ c.state # "runs"
    /\ CASE ~Current(c) \/ ~connected -> Stale(c)
         [] Current(c) /\ connected /\ c.state = "ok" ->
              /\ health' = FALSE /\ calls' = calls \ {c}
              /\ UNCHANGED <<connected, busy, saving, gen, dialog, testing, closed, owner, ids>>
         [] OTHER ->
              /\ Transition /\ busy' = TRUE /\ Go("disconnect", gen + 1, calls \ {c})
              /\ UNCHANGED <<connected, saving, dialog, testing, closed, owner>>
    /\ UNCHANGED <<session, clicks, history>>

SaveResult(c) ==
    /\ c.op = "save" /\ c.state # "runs" /\ calls' = calls \ {c}
    /\ saving' = IF closed THEN saving ELSE FALSE
    /\ UNCHANGED <<connected, busy, health, gen, dialog, testing, closed, owner, session, clicks, ids, history>>

-----------------------------------------------------------------------------
(* The UI thread: the user *)

\* connectNow.
ConnectNow ==
    /\ Click /\ dialog = "none" /\ ~busy /\ ~connected /\ ~saving
    /\ Transition /\ busy' = TRUE /\ Go("connect", gen + 1, calls)
    /\ UNCHANGED <<connected, saving, dialog, testing, closed, owner, session, history>>

\* disconnectNow while an attempt is pending: its result will be dropped.
CancelNow ==
    /\ Click /\ dialog = "none" /\ busy /\ ~connected
    /\ Transition /\ busy' = FALSE /\ connected' = FALSE
    /\ UNCHANGED <<saving, dialog, testing, closed, owner, session, calls, ids, history>>

\* disconnectNow with active transfers asks first, and results go on meanwhile.
AskLeave ==
    /\ Click /\ dialog = "none" /\ connected /\ dialog' = "leave"
    /\ UNCHANGED <<connected, busy, health, saving, gen, testing, closed, owner, session, calls, ids, history>>

\* Mutant: the window is not busy while it disconnects.
LeavesIdle == Transition /\ Go("disconnect", gen + 1, calls) /\ UNCHANGED <<busy, connected>>

Leaves == Transition /\ busy' = TRUE /\ Go("disconnect", gen + 1, calls) /\ UNCHANGED connected

\* Nothing looks again at what was under way, or at the connection, after the question.
DisconnectNow ==
    /\ \/ Click /\ dialog = "none" /\ connected
       \/ dialog = "leave" /\ UNCHANGED clicks
    /\ overlapped' = (overlapped \/ busy \/ ~connected)
    /\ dialog' = "none" /\ Leaves
    /\ UNCHANGED <<saving, testing, closed, owner, session, taken>>

StayConnected ==
    /\ dialog \in {"leave", "close"} /\ dialog' = "none"
    /\ UNCHANGED <<connected, busy, health, saving, gen, testing, closed, owner, session, calls, clicks, ids, history>>

\* checkConnectionAfterError, after any remote call that failed.
CheckConnection ==
    /\ Click /\ ~health /\ connected /\ ~busy
    /\ health' = TRUE /\ Go("probe", gen, calls)
    /\ UNCHANGED <<connected, busy, saving, gen, dialog, testing, closed, owner, session, history>>

\* saveCurrentProfile and removeCurrentProfile, after their dialogs.
SaveNow ==
    /\ Click /\ dialog = "none" /\ ~saving /\ ~connected /\ ~busy
    /\ saving' = TRUE /\ Go("save", 0, calls)
    /\ UNCHANGED <<connected, busy, health, gen, dialog, testing, closed, owner, session, history>>

\* deriveWindowCloseAction.
CloseAction ==
    CASE saving -> "wait" [] ~saving /\ (connected \/ busy) -> "ask" [] OTHER -> "close"

CloseNow ==
    \/ /\ Click /\ dialog = "none" /\ CloseAction = "ask" /\ dialog' = "close"
       /\ UNCHANGED closed
    \/ /\ Click /\ dialog = "none" /\ CloseAction = "close" /\ closed' = TRUE /\ UNCHANGED dialog
    \/ /\ dialog = "close" /\ dialog' = "none" /\ closed' = TRUE /\ UNCHANGED clicks

\* WM_CLOSE and WM_DESTROY.
Close ==
    /\ CloseNow
    /\ UNCHANGED <<connected, busy, health, saving, gen, testing, owner, session, calls, ids, history>>

-----------------------------------------------------------------------------
(* The site manager's connection test *)

OpenSites ==
    /\ Click /\ dialog = "none" /\ ~busy /\ ~connected /\ dialog' = "site"
    /\ UNCHANGED <<connected, busy, health, saving, gen, testing, closed, owner, session, calls, ids, history>>

\* testCurrentConnection.
Test ==
    /\ Click /\ dialog = "site" /\ testing = 0 /\ ~connected /\ ~busy
    /\ testing' = ids + 1 /\ Go("test", 0, calls) /\ overlapped' = TRUE
    /\ UNCHANGED <<connected, busy, health, saving, gen, dialog, closed, owner, session, taken>>

\* runConnectionTest after the key of the test was trusted.
TestTrust(c) ==
    /\ c.op = "test" /\ c.state = "trust"
    /\ IF testing = c.id
       THEN Go("trusted test", 0, calls \ {c}) /\ testing' = ids + 1
       ELSE calls' = calls \ {c} /\ UNCHANGED <<testing, ids>>
    /\ UNCHANGED <<connected, busy, health, saving, gen, dialog, closed, owner, session, clicks, history>>

\* finishConnectionTest; nothing to do when the window is gone.
TestResult(c) ==
    /\ \/ c.op = "tested"
       \/ c.op = "test" /\ c.state = "failed"
    /\ calls' = calls \ {c} /\ testing' = IF testing = c.id THEN 0 ELSE testing
    /\ UNCHANGED <<connected, busy, health, saving, gen, dialog, closed, owner, session, clicks, ids, history>>

\* The site manager is left by its navigation, also while a test runs, whose
\* context is cancelled; a double click on a site goes on to connectNow.
LeaveSites ==
    /\ dialog = "site" /\ dialog' = "none" /\ testing' = 0
    /\ UNCHANGED <<connected, busy, health, saving, gen, closed, owner, session, calls, clicks, ids, history>>

User ==
    \/ ConnectNow \/ CancelNow \/ AskLeave \/ DisconnectNow \/ StayConnected
    \/ CheckConnection \/ SaveNow \/ Close \/ OpenSites \/ Test \/ LeaveSites

Engine(c) == EngineConnect(c) \/ EngineDisconnect(c) \/ EngineProbe(c) \/ EngineSave(c) \/ TestDisconnects(c)
Result(c) ==
    \/ ConnectResult(c) \/ DisconnectResult(c) \/ ProbeResult(c) \/ SaveResult(c)
    \/ TestTrust(c) \/ TestResult(c)

Work == \E c \in calls : Engine(c) \/ Result(c)

Next == User \/ Work \/ \E c \in calls : TrustAnswer(c)

\* Every engine call has a timeout and the UI thread handles what is posted;
\* nothing makes the user answer.
Fairness == WF_vars(Work)
Spec == Init /\ [][Next]_vars /\ Fairness

-----------------------------------------------------------------------------
(* Properties *)

\* At most one probe runs for the window, and only as long as it waits for it.
TypeOK ==
    /\ {connected, busy, health, saving, closed} \subseteq BOOLEAN /\ testing \in 0..ids
    /\ dialog \in {"none", "trust", "leave", "close", "site"}
    /\ \A c \in calls : c.id \in 1..ids /\ c.state \in {"runs", "ok", "failed", "trust"}
    /\ Cardinality({c \in calls : c.op = "probe" /\ c.gen = gen}) <= 1

\* A window that shows a connection, and is not just ending it, has the
\* session it shows: no call that was given up has taken it away.
\* The code does not keep it when Disconnects overlap or a connection was tested: of two
\* Disconnects the one that is late takes the next session (see "Disagreements found"
\* in the README).  So this says that nothing else ends it: only a Disconnect of an
\* earlier generation or the end of a test, and only once one of these was begun.
ConnectedHasSession ==
    connected /\ ~busy /\ ~closed =>
        \/ session # 0 /\ session = owner
        \/ overlapped /\ owner \in taken

\* A busy window is busy with something that will end: a call of the current
\* generation, or a question to the user.
BusyHasReason ==
    busy /\ ~closed => \E c \in calls : c.gen = gen /\ c.op \in {"connect", "trusted", "asks", "disconnect"}

\* The window does not close in the middle of a save.
NoSaveCut == closed => \A c \in calls : c.op = "save" => c.state # "runs"

\* No connection is made with a site while it is being saved.
NoConnectInSave ==
    saving /\ ~closed => ~busy /\ ~connected

\* A window that is busy becomes usable again by itself or asks the user.
Waits == busy /\ ~closed /\ dialog \notin {"trust", "leave", "close"}
BusyEnds == Waits ~> ~Waits

\* The comment on the cancel control: cancelling is safe, users are never
\* trapped.  A window at rest that shows no connection has none, or every
\* later attempt would be refused.
\* The code does not keep it: see "Disagreements found" in the README.
NeverTrapped == ~connected /\ ~busy /\ calls = {} /\ dialog = "none" => session = 0

\* The test's text: an isolated temporary login.  It does not end
\* the session the window shows.
\* The code does not keep it: see "Disagreements found" in the README.
TestIsIsolated ==
    [][\A c \in calls : TestDisconnects(c) => ~(connected /\ session = owner)]_vars
=============================================================================

---------------------------- MODULE SessionManager ----------------------------
(***************************************************************************)
(* The connection of internal/remote/manager.go: type Manager with its one *)
(* session, the secrets a Connect carries through the host-key prompt, and *)
(* the operations that use the session while it may be disconnected.       *)
(*                                                                         *)
(* opMu is held during a whole Connect, Disconnect or CancelPendingTrust,  *)
(* so one program counter stands for its holder, "idle" when it is free.   *)
(* Operations and the goroutine that closes a session run beside it.       *)
(***************************************************************************)
EXTENDS Naturals, FiniteSets, TLC

CONSTANTS Sessions,    \* the sessions that can be built (bound)
          Ops,         \* goroutines calling Operation
          Accounts,    \* endpoint, user name and private key path of a connection
          Sftp,        \* the accounts reached over SFTP; the others use FTP or FTPS
          Keys,        \* host keys a server can present
          Blobs,       \* handles of protected secrets
          ProfileBlob, \* a handle that belongs to a saved profile
          NoSession, NoAccount, NoKey, NoBlob

ASSUME SessionAssumption ==
    /\ IsFiniteSet(Ops)
    /\ Sftp \subseteq Accounts
    /\ NoSession \notin Sessions
    /\ NoAccount \notin Accounts
    /\ NoKey \notin Keys
    /\ ProfileBlob \notin Blobs /\ NoBlob \notin Blobs \cup {ProfileBlob}

\* Sessions, operations, handles and keys are interchangeable.
Symmetry == Permutations(Sessions) \cup Permutations(Ops) \cup Permutations(Blobs)
              \cup Permutations(Keys)

Kinds == {"password", "passphrase"}
Handles == Blobs \cup {ProfileBlob, NoBlob}

VARIABLES
    pc,        \* where the holder of opMu is
    call,      \* the arguments of its Connect, and the host key it accepted
    rBlob,     \* resolvedConnection: the secret handles ...
    rOwned,    \*   ... and which of them it must forget
    pending,   \* m.pendingTrust: account and key it is for
    pBlob, pOwned,
    pin,       \* the fingerprint saved in the profile of each account
    session,   \* m.session
    closing,   \* m.closing, named by the session that is being closed
    waitsFor,  \* the sessionCloseState a Disconnect waits on
    life,      \* what has become of each session
    acct, key, \* the account and host key of a session, m.cfg
    sBlob, sOwned,
    ctxDone,   \* sessions whose sessionCtx has been cancelled
    closer,    \* where finishSessionClose is for each session
    active,    \* m.activeOps
    opSession, \* the session an operation holds
    opStopped, \* operations whose context has been cancelled
    stored,    \* the secrets the broker was given and not told to forget
    boundTo    \* history: the account each of them was entered for

callVars    == <<call, rBlob, rOwned>>
pendingVars == <<pending, pBlob, pOwned>>
sessVars    == <<session, closing, life, acct, key, sBlob, sOwned, ctxDone, closer>>
opVars      == <<active, opSession, opStopped>>
secretVars  == <<stored, boundTo>>
vars == <<pc, callVars, pendingVars, pin, waitsFor, sessVars, opVars, secretVars>>

NoBlobs   == [k \in Kinds |-> NoBlob]
NoCall    == [acct |-> NoAccount, typed |-> {}, trust |-> NoKey, profile |-> FALSE,
              remember |-> FALSE, fingerprint |-> NoKey, key |-> NoKey]
NoPending == [acct |-> NoAccount, key |-> NoKey]

\* The arguments of Connect.  What is typed is sanitized by the protocol.
Calls ==
    {c \in [acct : Accounts, typed : SUBSET Kinds, trust : Keys \cup {NoKey}, profile : BOOLEAN,
            remember : BOOLEAN, fingerprint : Keys \cup {NoKey}, key : {NoKey}] :
        /\ c.acct \notin Sftp => c.typed \subseteq {"password"} /\ c.fingerprint = NoKey
        /\ c.remember => c.profile}

Init ==
    /\ pc = "idle" /\ call = NoCall
    /\ rBlob = NoBlobs /\ rOwned = {}
    /\ pending = NoPending /\ pBlob = NoBlobs /\ pOwned = {}
    /\ pin = [a \in Accounts |-> NoKey]
    /\ session = NoSession /\ closing = NoSession /\ waitsFor = NoSession
    /\ life = [s \in Sessions |-> "none"]
    /\ acct = [s \in Sessions |-> NoAccount]
    /\ key = [s \in Sessions |-> NoKey]
    /\ sBlob = [s \in Sessions |-> NoBlobs]
    /\ sOwned = [s \in Sessions |-> {}]
    /\ ctxDone = {}
    /\ closer = [s \in Sessions |-> "none"]
    /\ active = 0
    /\ opSession = [o \in Ops |-> NoSession]
    /\ opStopped = {}
    /\ stored = {ProfileBlob}
    /\ boundTo = [b \in Blobs |-> NoAccount]

-----------------------------------------------------------------------------
(* Secrets *)

\* ForgetProtectedSecret of every handle in H.
Forget(H) ==
    /\ stored' = stored \ H
    /\ boundTo' = [b \in Blobs |-> IF b \in H THEN NoAccount ELSE boundTo[b]]

\* ProtectString of the secrets of kinds K, typed for account a: f are the new
\* handles.  Handles in H are forgotten in the same step.
Protect(f, K, a, H) ==
    /\ \A k \in K : f[k] \in Blobs \ stored
    /\ \A k, l \in K : f[k] = f[l] => k = l
    /\ stored' = (stored \ H) \cup {f[k] : k \in K}
    /\ boundTo' = [b \in Blobs |-> IF \E k \in K : f[k] = b THEN a
                                   ELSE IF b \in H THEN NoAccount ELSE boundTo[b]]

OwnedOf(blob, owned) == {blob[k] : k \in owned}
Resolved == OwnedOf(rBlob, rOwned)
Pending  == OwnedOf(pBlob, pOwned)

NoPendingTrust == pending' = NoPending /\ pBlob' = NoBlobs /\ pOwned' = {}
EndCall == pc' = "idle" /\ call' = NoCall /\ rBlob' = NoBlobs /\ rOwned' = {}

\* Every return of Connect but the prompt: what resolved still owns is
\* forgotten, then what m.pendingTrust owns.
ReturnFromConnect ==
    /\ EndCall /\ NoPendingTrust
    /\ Forget(Resolved \cup Pending)
    /\ UNCHANGED <<waitsFor, opVars>>

-----------------------------------------------------------------------------
(* Connect *)

\* Connect takes opMu and looks at m.session and m.closing.
ConnectBegin(c) ==
    /\ pc = "idle"
    /\ session = NoSession /\ closing = NoSession
    /\ pc' = "resolve" /\ call' = c
    /\ UNCHANGED <<rBlob, rOwned, pendingVars, pin, waitsFor, sessVars, opVars, secretVars>>

\* It is connected, or the last session is still closing.
ConnectRefused ==
    /\ pc = "idle"
    /\ session # NoSession \/ closing # NoSession
    /\ ReturnFromConnect
    /\ UNCHANGED <<pin, sessVars>>

\* Resolve finds saved secrets of kinds S in the profile, for what was not
\* typed; an attempt that confirms no key drops the pending prompt.
Resolve(S) ==
    /\ pc = "resolve"
    /\ S \subseteq Kinds \ call.typed
    /\ S # {} => call.profile
    /\ call.acct \notin Sftp => S \subseteq {"password"}
    /\ rBlob' = [k \in Kinds |-> IF k \in S THEN ProfileBlob ELSE NoBlob]
    /\ rOwned' = {}
    /\ pc' = IF call.acct \in Sftp THEN "scan" ELSE "open"
    /\ IF call.trust = NoKey
       THEN Forget(Pending) /\ NoPendingTrust
       ELSE UNCHANGED <<pendingVars, secretVars>>
    /\ UNCHANGED <<call, pin, waitsFor, sessVars, opVars>>

\* An error of Resolve, of the key scan, of a temporary file, of the profile
\* store, of the secret store or of the constructor of the session.
ConnectFails ==
    /\ pc \in {"resolve", "scan", "open"}
    /\ ReturnFromConnect
    /\ UNCHANGED <<pin, sessVars>>

\* The key this connection has to present, NoKey when nothing says so.
Expected == IF call.profile /\ pin[call.acct] # NoKey THEN pin[call.acct] ELSE call.fingerprint

\* The server presents another key than expected, or than the user confirmed.
KeyRefused(k) ==
    /\ pc = "scan"
    /\ Expected \notin {NoKey, k} \/ call.trust \notin {NoKey, k}
    /\ ReturnFromConnect
    /\ UNCHANGED <<pin, sessVars>>

\* Nothing vouches for the key: the attempt and its secrets wait for the user
\* (stashPendingTrust), and Connect returns RequiresTrust.
AskForTrust(k, f) ==
    /\ pc = "scan"
    /\ Expected = NoKey /\ call.trust = NoKey
    /\ Protect(f, call.typed, call.acct, Pending)
    /\ pending' = [acct |-> call.acct, key |-> k]
    /\ pBlob' = [i \in Kinds |-> IF i \in call.typed THEN f[i] ELSE rBlob[i]]
    /\ pOwned' = call.typed \cup rOwned
    /\ EndCall
    /\ UNCHANGED <<pin, waitsFor, sessVars, opVars>>

\* Mutant: the prompt's account is not compared with the account of this call.
PendingMatchesKeyOnly(k) == pending.key = k

PendingMatches(k) == pending.acct = call.acct /\ pending.key = k

\* Mutant: the handles the pending prompt owns are dropped, not forgotten.
ApplyPendingTrustLeaking(k, expired) ==
    LET Taken == IF PendingMatches(k) /\ ~expired
                 THEN {i \in Kinds \ call.typed : pBlob[i] # NoBlob} ELSE {} IN
    /\ rBlob' = [i \in Kinds |-> IF i \in Taken THEN pBlob[i] ELSE rBlob[i]]
    /\ rOwned' = (rOwned \ Taken) \cup (pOwned \cap Taken)
    /\ NoPendingTrust
    /\ Forget(OwnedOf(rBlob, rOwned \cap Taken))

\* applyPendingTrust: the secrets of the prompt replace those of this call that
\* were not typed; whatever else the prompt owned is forgotten.
ApplyPendingTrust(k, expired) ==
    LET Taken == IF PendingMatches(k) /\ ~expired
                 THEN {i \in Kinds \ call.typed : pBlob[i] # NoBlob} ELSE {} IN
    /\ rBlob' = [i \in Kinds |-> IF i \in Taken THEN pBlob[i] ELSE rBlob[i]]
    /\ rOwned' = (rOwned \ Taken) \cup (pOwned \cap Taken)
    /\ NoPendingTrust
    /\ Forget(OwnedOf(rBlob, rOwned \cap Taken) \cup OwnedOf(pBlob, pOwned \ Taken))

\* Mutant: a key the user confirms is accepted whatever the profile has pinned.
KeyAcceptedByTrust(k) == call.trust = k \/ (call.trust = NoKey /\ Expected = k)

KeyAccepted(k) ==
    /\ Expected \in {NoKey, k} /\ call.trust \in {NoKey, k}
    /\ Expected = k \/ call.trust = k

\* The scanned key is the expected or the confirmed one; remembering it writes
\* the profile.
KeyTrusted(k, expired) ==
    /\ pc = "scan"
    /\ KeyAccepted(k)
    /\ IF call.trust # NoKey
       THEN ApplyPendingTrust(k, expired)
       ELSE UNCHANGED <<rBlob, rOwned, pendingVars, secretVars>>
    /\ pin' = IF call.remember THEN [pin EXCEPT ![call.acct] = k] ELSE pin
    /\ call' = [call EXCEPT !.key = k]
    /\ pc' = "open"
    /\ UNCHANGED <<waitsFor, sessVars, opVars>>

\* newSFTPWithProtectedSecrets or newCurlFTPWithProtectedSecret protects what
\* was typed; the session takes over the handles that resolved owned.
OpenSession(s, f) ==
    /\ pc = "open"
    /\ life[s] = "none"
    /\ Protect(f, call.typed, call.acct, {})
    /\ life' = [life EXCEPT ![s] = "probing"]
    /\ acct' = [acct EXCEPT ![s] = call.acct]
    /\ key' = [key EXCEPT ![s] = call.key]
    /\ sBlob' = [sBlob EXCEPT ![s] = [i \in Kinds |-> IF i \in call.typed THEN f[i] ELSE rBlob[i]]]
    /\ sOwned' = [sOwned EXCEPT ![s] = call.typed \cup rOwned]
    /\ rOwned' = rOwned \cap call.typed
    /\ pc' = "probe"
    /\ UNCHANGED <<call, rBlob, pendingVars, pin, waitsFor, session, closing, ctxDone, closer,
                   opVars>>

\* Close of session s, which forgets the secrets it owns.
CloseSession(s) ==
    /\ life' = [life EXCEPT ![s] = "closed"]
    /\ sBlob' = [sBlob EXCEPT ![s] = NoBlobs]
    /\ sOwned' = [sOwned EXCEPT ![s] = {}]

\* The first listing of the new session fails, and it is closed.
ProbeFails(s) ==
    /\ pc = "probe" /\ life[s] = "probing"
    /\ CloseSession(s)
    /\ EndCall /\ NoPendingTrust
    /\ Forget(Resolved \cup Pending \cup OwnedOf(sBlob[s], sOwned[s]))
    /\ UNCHANGED <<pin, waitsFor, session, closing, acct, key, ctxDone, closer, opVars>>

\* It succeeds: the session becomes m.session.
Publish(s) ==
    /\ pc = "probe" /\ life[s] = "probing"
    /\ session' = s
    /\ life' = [life EXCEPT ![s] = "live"]
    /\ ReturnFromConnect
    /\ UNCHANGED <<pin, closing, acct, key, sBlob, sOwned, ctxDone, closer>>

CancelPendingTrust ==
    /\ pc = "idle"
    /\ Forget(Pending) /\ NoPendingTrust
    /\ UNCHANGED <<pc, callVars, pin, waitsFor, sessVars, opVars>>

-----------------------------------------------------------------------------
(* Disconnect *)

\* Disconnect takes m.session away; whoever asks for an operation now is refused.
DisconnectBegin ==
    /\ pc = "idle" /\ session # NoSession
    /\ Forget(Pending) /\ NoPendingTrust
    /\ session' = NoSession /\ closing' = session /\ waitsFor' = session
    /\ life' = [life EXCEPT ![session] = "detached"]
    /\ pc' = "cancel"
    /\ UNCHANGED <<callVars, pin, acct, key, sBlob, sOwned, ctxDone, closer, opVars>>

\* It cancels the context of the session and starts finishSessionClose.
DisconnectCancel ==
    /\ pc = "cancel"
    /\ ctxDone' = ctxDone \cup {waitsFor}
    /\ closer' = [closer EXCEPT ![waitsFor] = "waitOps"]
    /\ pc' = "waiting"
    /\ UNCHANGED <<callVars, pendingVars, pin, waitsFor, session, closing, life, acct, key, sBlob,
                   sOwned, opVars, secretVars>>

\* Mutant: without a session Disconnect reports success at once.
DisconnectAgainAtOnce ==
    /\ pc = "idle" /\ session = NoSession
    /\ Forget(Pending) /\ NoPendingTrust
    /\ pc' = "disconnected"
    /\ UNCHANGED <<callVars, pin, waitsFor, sessVars, opVars>>

\* Disconnect without a session waits for the close in progress, if any.
DisconnectAgain ==
    /\ pc = "idle" /\ session = NoSession
    /\ Forget(Pending) /\ NoPendingTrust
    /\ waitsFor' = closing
    /\ pc' = IF closing = NoSession THEN "disconnected" ELSE "waiting"
    /\ UNCHANGED <<callVars, pin, sessVars, opVars>>

\* waitForSessionClose: the done channel is closed.
WaitDone ==
    /\ pc = "waiting" /\ closer[waitsFor] = "done"
    /\ pc' = "disconnected"
    /\ UNCHANGED <<callVars, pendingVars, pin, waitsFor, sessVars, opVars, secretVars>>

LeaveDisconnect ==
    /\ pc' = "idle" /\ waitsFor' = NoSession
    /\ UNCHANGED <<callVars, pendingVars, pin, sessVars, opVars, secretVars>>

\* The caller's context ends first: ErrDisconnectTimeout, or Canceled.
WaitTimesOut == pc = "waiting" /\ LeaveDisconnect
DisconnectReturns == pc = "disconnected" /\ LeaveDisconnect

\* Mutant: the session is closed under the operations that use it.
CloserClosesAtOnce(s) ==
    /\ closer[s] = "waitOps"
    /\ closer' = [closer EXCEPT ![s] = "closed"]
    /\ CloseSession(s)
    /\ Forget(OwnedOf(sBlob[s], sOwned[s]))
    /\ UNCHANGED <<pc, callVars, pendingVars, pin, waitsFor, session, closing, acct, key, ctxDone,
                   opVars>>

\* finishSessionClose waits for the operations, then closes the session.
CloserCloses(s) ==
    /\ closer[s] = "waitOps" /\ active = 0
    /\ closer' = [closer EXCEPT ![s] = "closed"]
    /\ CloseSession(s)
    /\ Forget(OwnedOf(sBlob[s], sOwned[s]))
    /\ UNCHANGED <<pc, callVars, pendingVars, pin, waitsFor, session, closing, acct, key, ctxDone,
                   opVars>>

CloserClears(s) ==
    /\ closer[s] = "closed"
    /\ closer' = [closer EXCEPT ![s] = "cleared"]
    /\ closing' = IF closing = s THEN NoSession ELSE closing
    /\ UNCHANGED <<pc, callVars, pendingVars, pin, waitsFor, session, life, acct, key, sBlob,
                   sOwned, ctxDone, opVars, secretVars>>

\* Mutant: the done channel is closed only by a closer that m.closing still names.
CloserDoneIfNamed(s) ==
    /\ closer[s] = "cleared" /\ closing = s
    /\ closer' = [closer EXCEPT ![s] = "done"]
    /\ UNCHANGED <<pc, callVars, pendingVars, pin, waitsFor, session, closing, life, acct, key,
                   sBlob, sOwned, ctxDone, opVars, secretVars>>

CloserDone(s) ==
    /\ closer[s] = "cleared"
    /\ closer' = [closer EXCEPT ![s] = "done"]
    /\ UNCHANGED <<pc, callVars, pendingVars, pin, waitsFor, session, closing, life, acct, key,
                   sBlob, sOwned, ctxDone, opVars, secretVars>>

-----------------------------------------------------------------------------
(* Operations *)

\* Mutant: an operation does not count itself.
OperationBeginUncounted(o) ==
    /\ opSession[o] = NoSession
    /\ session # NoSession
    /\ opSession' = [opSession EXCEPT ![o] = session]
    /\ UNCHANGED <<pc, callVars, pendingVars, pin, waitsFor, sessVars, active, opStopped,
                   secretVars>>

\* Operation: the session and its context are read, and activeOps counted,
\* under one read lock of m.mu.
OperationBegin(o) ==
    /\ opSession[o] = NoSession
    /\ session # NoSession
    /\ opSession' = [opSession EXCEPT ![o] = session]
    /\ active' = active + 1
    /\ UNCHANGED <<pc, callVars, pendingVars, pin, waitsFor, sessVars, opStopped, secretVars>>

\* context.AfterFunc runs: the session's context cancels the operation's.
OperationCancelled(o) ==
    /\ opSession[o] \in ctxDone
    /\ o \notin opStopped
    /\ opStopped' = opStopped \cup {o}
    /\ UNCHANGED <<pc, callVars, pendingVars, pin, waitsFor, sessVars, active, opSession,
                   secretVars>>

\* The operation ends and calls release.
OperationEnd(o) ==
    /\ opSession[o] # NoSession
    /\ opSession' = [opSession EXCEPT ![o] = NoSession]
    /\ opStopped' = opStopped \ {o}
    /\ active' = active - 1
    /\ UNCHANGED <<pc, callVars, pendingVars, pin, waitsFor, sessVars, secretVars>>

-----------------------------------------------------------------------------
NewHandles == [call.typed -> Blobs]

ConnectStep ==
    \/ \E c \in Calls : ConnectBegin(c)
    \/ ConnectRefused \/ ConnectFails
    \/ \E S \in SUBSET Kinds : Resolve(S)
    \/ \E k \in Keys :
          \/ KeyRefused(k)
          \/ \E f \in NewHandles : AskForTrust(k, f)
          \/ \E expired \in BOOLEAN : KeyTrusted(k, expired)
    \/ \E s \in Sessions :
          \/ \E f \in NewHandles : OpenSession(s, f)
          \/ ProbeFails(s) \/ Publish(s)
    \/ CancelPendingTrust

DisconnectStep ==
    \/ DisconnectBegin \/ DisconnectCancel \/ DisconnectAgain
    \/ WaitDone \/ WaitTimesOut \/ DisconnectReturns

CloserStep(s) == CloserCloses(s) \/ CloserClears(s) \/ CloserDone(s)

OperationStep(o) == OperationBegin(o) \/ OperationCancelled(o) \/ OperationEnd(o)

Next ==
    \/ ConnectStep \/ DisconnectStep
    \/ \E s \in Sessions : CloserStep(s)
    \/ \E o \in Ops : OperationStep(o)

Spec == Init /\ [][Next]_vars

(* Goroutines run; the transports end an operation once its context is        *)
(* cancelled.  Nothing is assumed of the user, the network or the timeouts.   *)
Fairness ==
    /\ WF_vars(DisconnectCancel) /\ WF_vars(WaitDone) /\ WF_vars(DisconnectReturns)
    /\ \A s \in Sessions : WF_vars(CloserStep(s))
    /\ \A o \in Ops : WF_vars(OperationCancelled(o)) /\ WF_vars(o \in opStopped /\ OperationEnd(o))

FairSpec == Spec /\ Fairness

-----------------------------------------------------------------------------
(* What must hold *)

Places == {"idle", "resolve", "scan", "open", "probe", "cancel", "waiting", "disconnected"}

\* The types of the Manager's fields and of what its goroutines hold.
TypeOK ==
    /\ pc \in Places
    /\ call \in [acct : Accounts \cup {NoAccount}, typed : SUBSET Kinds, trust : Keys \cup {NoKey},
                 profile : BOOLEAN, remember : BOOLEAN, fingerprint : Keys \cup {NoKey},
                 key : Keys \cup {NoKey}]
    /\ pending \in [acct : Accounts \cup {NoAccount}, key : Keys \cup {NoKey}]
    /\ rBlob \in [Kinds -> Handles] /\ rOwned \in SUBSET Kinds
    /\ pBlob \in [Kinds -> Handles] /\ pOwned \in SUBSET Kinds
    /\ pin \in [Accounts -> Keys \cup {NoKey}]
    /\ session \in Sessions \cup {NoSession}
    /\ closing \in Sessions \cup {NoSession}
    /\ waitsFor \in Sessions \cup {NoSession}
    /\ life \in [Sessions -> {"none", "probing", "live", "detached", "closed"}]
    /\ acct \in [Sessions -> Accounts \cup {NoAccount}]
    /\ key \in [Sessions -> Keys \cup {NoKey}]
    /\ sBlob \in [Sessions -> [Kinds -> Handles]]
    /\ sOwned \in [Sessions -> SUBSET Kinds]
    /\ ctxDone \in SUBSET Sessions
    /\ closer \in [Sessions -> {"none", "waitOps", "closed", "cleared", "done"}]
    /\ active \in Nat
    /\ opSession \in [Ops -> Sessions \cup {NoSession}]
    /\ opStopped \in SUBSET Ops
    /\ stored \in SUBSET (Blobs \cup {ProfileBlob})
    /\ boundTo \in [Blobs -> Accounts \cup {NoAccount}]

Open == {s \in Sessions : life[s] \in {"probing", "live", "detached"}}
Users(s) == {o \in Ops : opSession[o] = s}

\* No operation uses a session that Close has been called on: disconnecting
\* never pulls the known-hosts file, the key copy or the password away from a
\* transfer that still runs.
NoUseAfterClose == \A o \in Ops : opSession[o] # NoSession => life[opSession[o]] \in {"live", "detached"}

\* There is never a second session beside one that still closes, and m.session
\* and m.closing name it.
OneSession ==
    /\ \A s, t \in Open : s = t
    /\ \A s \in Sessions : /\ life[s] = "live" <=> session = s
                           /\ life[s] = "detached" => closing = s

\* activeOps counts the operations that hold a session, and no operation can
\* begin (WaitGroup.Add) while finishSessionClose waits for zero.
OperationsCounted ==
    /\ active = Cardinality({o \in Ops : opSession[o] # NoSession})
    /\ (\E s \in Sessions : closer[s] = "waitOps") => session = NoSession

\* The session of the Manager is used by one caller's operations at a time: never
\* two sessions, never one that is closed, and its users are counted.
OneLiveSession == NoUseAfterClose /\ OneSession /\ OperationsCounted

\* A Disconnect that reports success leaves nothing open behind it.
DisconnectMeansClosed == pc = "disconnected" => Open = {} /\ active = 0

\* Every secret the manager protected is owned by exactly one of the running
\* Connect, the pending prompt and an open session, and an owned secret has not
\* been forgotten: none leaks on any error path, none is forgotten twice.
SecretsOwnedOnce ==
    LET OfSessions == UNION {OwnedOf(sBlob[s], sOwned[s]) : s \in Open} IN
    /\ stored \cap Blobs = Resolved \cup Pending \cup OfSessions
    /\ Resolved \cap Pending = {} /\ OfSessions \cap (Resolved \cup Pending) = {}

\* No step of the manager makes the broker forget a secret that an open session
\* still uses, or one that a profile lends.  (The broker of dpapi_other.go also
\* drops a secret nobody asked for in two hours; that is not a step here.)
SecretsUsable ==
    /\ ProfileBlob \in stored
    /\ \A s \in Open, k \in Kinds : sBlob[s][k] # NoBlob => sBlob[s][k] \in stored

\* A secret the user typed for one account is never sent to another, even when
\* it has waited at the host-key prompt.
SecretsBound ==
    \A s \in Open, k \in Kinds : sBlob[s][k] \in Blobs => boundTo[sBlob[s][k]] = acct[s]

\* What an open session uses is there, and was given for its account.
SecretsFollow == SecretsUsable /\ SecretsBound

\* Connecting never replaces the host key a profile has pinned.
PinIsKept == [][\A a \in Accounts : pin[a] # NoKey => pin'[a] = pin[a]]_vars

\* A session taken away by Disconnect is closed, whatever the operations on it do;
\* and a Disconnect comes back, even with a context that never ends.
DisconnectEnds ==
    /\ \A s \in Sessions : life[s] = "detached" ~> life[s] = "closed"
    /\ pc \in {"cancel", "waiting"} ~> pc = "idle"
=============================================================================

------------------------- MODULE SessionManagerProofs -------------------------
(***************************************************************************)
(* Theorems about SessionManager, for every set of sessions, operations,   *)
(* accounts, host keys and secrets.                                        *)
(***************************************************************************)
EXTENDS SessionManager, FiniteSetTheorems, TLAPS

-----------------------------------------------------------------------------
(* Types *)

\* The operations that hold a session.
Busy == {o \in Ops : opSession[o] # NoSession}

\* activeOps stays a natural number because it counts them, and a Disconnect
\* has a session to cancel.
Typed ==
    /\ TypeOK
    /\ active = Cardinality(Busy)
    /\ pc = "cancel" => waitsFor \in Sessions

LEMMA FiniteOps ==
  ASSUME NEW S \in SUBSET Ops
  PROVE  IsFiniteSet(S) /\ Cardinality(S) \in Nat /\ (Cardinality(S) = 0 <=> S = {})
BY SessionAssumption, FS_Subset, FS_CardinalityType, FS_EmptySet DEF SessionAssumption

LEMMA TypeInit == Init => Typed
<1> SUFFICES ASSUME Init PROVE Typed
  OBVIOUS
<1>1. TypeOK
  BY SessionAssumption
  DEF Init, TypeOK, SessionAssumption, Places, NoCall, NoPending, NoBlobs, Handles
<1>2. Busy = {} /\ active = 0 /\ pc = "idle"
  BY DEF Init, Busy
<1>. QED
  BY <1>1, <1>2, FS_EmptySet DEF Typed

LEMMA ConnectTypes == TypeOK /\ ConnectStep => TypeOK'
<1> SUFFICES ASSUME TypeOK, ConnectStep PROVE TypeOK'
  OBVIOUS
<1> USE SessionAssumption DEF SessionAssumption, TypeOK, Places, NoCall, NoPending, NoBlobs,
        Handles, callVars, pendingVars, sessVars, opVars, secretVars, Forget, Protect,
        NoPendingTrust, EndCall, ReturnFromConnect, CloseSession
<1>1. ASSUME NEW c \in Calls, ConnectBegin(c) PROVE TypeOK'
  BY <1>1 DEF ConnectBegin, Calls
<1>2. CASE ConnectRefused
  BY <1>2 DEF ConnectRefused
<1>3. CASE ConnectFails
  BY <1>3 DEF ConnectFails
<1>4. ASSUME NEW S \in SUBSET Kinds, Resolve(S) PROVE TypeOK'
  BY <1>4 DEF Resolve
<1>5. ASSUME NEW k \in Keys, KeyRefused(k) PROVE TypeOK'
  BY <1>5 DEF KeyRefused
<1>6. ASSUME NEW k \in Keys, NEW f \in NewHandles, AskForTrust(k, f) PROVE TypeOK'
  BY <1>6 DEF AskForTrust, NewHandles
<1>7. ASSUME NEW k \in Keys, NEW expired \in BOOLEAN, KeyTrusted(k, expired) PROVE TypeOK'
  <2>1. /\ rBlob' \in [Kinds -> Handles] /\ rOwned' \in SUBSET Kinds
        /\ pending' \in [acct : Accounts \cup {NoAccount}, key : Keys \cup {NoKey}]
        /\ pBlob' \in [Kinds -> Handles] /\ pOwned' \in SUBSET Kinds
        /\ stored' \in SUBSET (Blobs \cup {ProfileBlob})
        /\ boundTo' \in [Blobs -> Accounts \cup {NoAccount}]
    <3>1. CASE call.trust # NoKey
      <4>1. ApplyPendingTrust(k, expired)
        BY <1>7, <3>1 DEF KeyTrusted
      <4>2. /\ rBlob' \in [Kinds -> Handles] /\ rOwned' \in SUBSET Kinds
            /\ pending' \in [acct : Accounts \cup {NoAccount}, key : Keys \cup {NoKey}]
            /\ pBlob' \in [Kinds -> Handles] /\ pOwned' \in SUBSET Kinds
        BY <4>1 DEF ApplyPendingTrust
      <4>. QED
        BY <4>1, <4>2 DEF ApplyPendingTrust
    <3>2. CASE call.trust = NoKey
      BY <1>7, <3>2 DEF KeyTrusted
    <3>. QED
      BY <3>1, <3>2
  <2>2. pin' \in [Accounts -> Keys \cup {NoKey}]
    BY <1>7 DEF KeyTrusted
  <2>3. call' \in [acct : Accounts \cup {NoAccount}, typed : SUBSET Kinds,
                   trust : Keys \cup {NoKey}, profile : BOOLEAN, remember : BOOLEAN,
                   fingerprint : Keys \cup {NoKey}, key : Keys \cup {NoKey}]
    BY <1>7 DEF KeyTrusted
  <2>. QED
    BY <1>7, <2>1, <2>2, <2>3 DEF KeyTrusted
<1>8. ASSUME NEW s \in Sessions, NEW f \in NewHandles, OpenSession(s, f) PROVE TypeOK'
  BY <1>8 DEF OpenSession, NewHandles
<1>9. ASSUME NEW s \in Sessions, ProbeFails(s) PROVE TypeOK'
  BY <1>9 DEF ProbeFails
<1>10. ASSUME NEW s \in Sessions, Publish(s) PROVE TypeOK'
  BY <1>10 DEF Publish
<1>11. CASE CancelPendingTrust
  BY <1>11 DEF CancelPendingTrust
<1>. QED
  BY <1>1, <1>2, <1>3, <1>4, <1>5, <1>6, <1>7, <1>8, <1>9, <1>10, <1>11 DEF ConnectStep

LEMMA DisconnectTypes ==
  ASSUME Typed, DisconnectStep \/ (\E s \in Sessions : CloserStep(s))
  PROVE  TypeOK' /\ (pc' = "cancel" => waitsFor' \in Sessions)
<1> USE SessionAssumption DEF Typed, SessionAssumption, TypeOK, Places, NoCall, NoPending, NoBlobs,
        Handles, callVars, pendingVars, sessVars, opVars, secretVars, Forget, NoPendingTrust,
        CloseSession
<1> DEFINE Goal == TypeOK' /\ (pc' = "cancel" => waitsFor' \in Sessions)
<1>1. CASE DisconnectBegin
  BY <1>1 DEF DisconnectBegin
<1>2. CASE DisconnectCancel
  BY <1>2 DEF DisconnectCancel
<1>3. CASE DisconnectAgain
  BY <1>3 DEF DisconnectAgain
<1>4. CASE WaitDone \/ WaitTimesOut \/ DisconnectReturns
  BY <1>4 DEF WaitDone, WaitTimesOut, DisconnectReturns, LeaveDisconnect
<1>5. ASSUME NEW s \in Sessions, CloserCloses(s) PROVE Goal
  BY <1>5 DEF CloserCloses
<1>6. ASSUME NEW s \in Sessions, CloserClears(s) \/ CloserDone(s) PROVE Goal
  <2>1. closer' \in [Sessions -> {"none", "waitOps", "closed", "cleared", "done"}]
    BY <1>6 DEF CloserClears, CloserDone
  <2>2. closing' \in Sessions \cup {NoSession}
    BY <1>6 DEF CloserClears, CloserDone
  <2>. QED
    BY <1>6, <2>1, <2>2 DEF CloserClears, CloserDone
<1>. QED
  BY <1>1, <1>2, <1>3, <1>4, <1>5, <1>6 DEF DisconnectStep, CloserStep

LEMMA OperationTypes ==
  ASSUME Typed, NEW o \in Ops, OperationStep(o)
  PROVE  Typed'
<1> USE SessionAssumption DEF SessionAssumption, callVars, pendingVars, sessVars, opVars,
        secretVars
<1>0. /\ Busy \in SUBSET Ops
      /\ IsFiniteSet(Busy)
      /\ Cardinality(Busy) \in Nat
  BY FiniteOps DEF Busy
<1>1. CASE OperationBegin(o)
  <2>1. o \notin Busy /\ Busy' = Busy \cup {o}
    BY <1>1 DEF OperationBegin, Busy, Typed, TypeOK
  <2>2. Cardinality(Busy') = Cardinality(Busy) + 1
    BY <1>0, <2>1, FS_AddElement
  <2>. QED
    BY <1>0, <1>1, <2>2 DEF OperationBegin, Typed, TypeOK
<1>2. CASE OperationCancelled(o)
  BY <1>2 DEF OperationCancelled, Typed, TypeOK, Busy
<1>3. CASE OperationEnd(o)
  <2>1. o \in Busy /\ Busy' = Busy \ {o}
    BY <1>3 DEF OperationEnd, Busy, Typed, TypeOK
  <2>2. Cardinality(Busy') = Cardinality(Busy) - 1 /\ Cardinality(Busy \ {o}) \in Nat
    <3>1. Busy \ {o} \in SUBSET Ops
      BY <1>0
    <3>. QED
      BY <1>0, <2>1, <3>1, FS_RemoveElement, FiniteOps
  <2>. QED
    BY <1>0, <1>3, <2>1, <2>2 DEF OperationEnd, Typed, TypeOK
<1>. QED
  BY <1>1, <1>2, <1>3 DEF OperationStep

LEMMA TypeNext == Typed /\ [Next]_vars => Typed'
<1> SUFFICES ASSUME Typed, [Next]_vars PROVE Typed'
  OBVIOUS
<1> USE DEF callVars, pendingVars, sessVars, opVars, secretVars
<1>1. CASE ConnectStep
  <2>1. UNCHANGED <<active, opSession>> /\ pc' # "cancel"
    BY <1>1
    DEF ConnectStep, ConnectBegin, ConnectRefused, ConnectFails, Resolve, KeyRefused, AskForTrust,
        KeyTrusted, OpenSession, ProbeFails, Publish, CancelPendingTrust, ReturnFromConnect,
        EndCall
  <2>. QED
    BY <1>1, <2>1, ConnectTypes DEF Typed, Busy
<1>2. CASE DisconnectStep \/ \E s \in Sessions : CloserStep(s)
  <2>1. UNCHANGED <<active, opSession>>
    BY <1>2
    DEF DisconnectStep, DisconnectBegin, DisconnectCancel, DisconnectAgain, WaitDone, WaitTimesOut,
        DisconnectReturns, LeaveDisconnect, CloserStep, CloserCloses, CloserClears, CloserDone
  <2>. QED
    BY <1>2, <2>1, DisconnectTypes DEF Typed, Busy
<1>3. CASE UNCHANGED vars
  BY <1>3 DEF vars, Typed, TypeOK, Busy
<1>. QED
  BY <1>1, <1>2, <1>3, OperationTypes DEF Next

LEMMA TypedInvariant == Spec => []Typed
BY TypeInit, TypeNext, PTL DEF Spec

\* Every field of the Manager keeps its type; activeOps never goes negative.
THEOREM SessionTypes == Spec => []TypeOK
BY TypedInvariant, PTL DEF Typed

-----------------------------------------------------------------------------
(* The life of a session *)

\* m.session names the published session; m.closing names the one taken away
\* until its closer clears it, which is after Close.
Named ==
    /\ \A s \in Sessions : life[s] = "live" <=> session = s
    /\ \A s \in Sessions : life[s] = "detached" <=> closing = s /\ closer[s] \in {"none", "waitOps"}
    /\ \A s \in Sessions : closer[s] = "waitOps" => closing = s
    /\ \A s \in Sessions : closer[s] # "none" => life[s] \in {"detached", "closed"}
    /\ \A s \in Sessions : closing = s => closer[s] \in {"none", "waitOps", "closed"}
    /\ session # NoSession => closing = NoSession

\* What the holder of opMu relies on: a Connect runs without a session and
\* without one that closes, and builds at most one.
Held ==
    /\ pc \in {"resolve", "scan", "open", "probe"} => session = NoSession /\ closing = NoSession
    /\ \A s, t \in Sessions : life[s] = "probing" => pc = "probe" /\ (life[t] = "probing" => s = t)
    /\ pc = "cancel" => waitsFor = closing /\ closer[waitsFor] = "none"
    /\ pc \in {"waiting", "disconnected"} => session = NoSession
    /\ pc = "waiting" => waitsFor \in Sessions /\ closing \in {waitsFor, NoSession}
    /\ pc = "disconnected" => closing = NoSession

LifeInv == Named /\ Held /\ NoUseAfterClose

LEMMA LifeInit == Init => LifeInv
BY SessionAssumption DEF Init, LifeInv, Named, Held, NoUseAfterClose, SessionAssumption

LEMMA LifeConnect == ASSUME Typed, LifeInv, ConnectStep PROVE LifeInv'
<1> USE SessionAssumption DEF SessionAssumption, Typed, TypeOK, callVars, pendingVars, sessVars, opVars,
        ReturnFromConnect, EndCall, CloseSession
<1>1. ASSUME UNCHANGED <<sessVars, opVars>>,
             pc' \in {"resolve", "scan", "open"} => session = NoSession /\ closing = NoSession,
             pc' \in {"idle", "resolve", "scan", "open"}, pc # "probe"
      PROVE  LifeInv'
  BY <1>1 DEF LifeInv, Named, Held, NoUseAfterClose
<1>2. ASSUME NEW c \in Calls, ConnectBegin(c) PROVE LifeInv'
  BY <1>1, <1>2 DEF ConnectBegin
<1>3. ASSUME NEW k \in Keys, KeyRefused(k) \/ \E f \in NewHandles : AskForTrust(k, f) PROVE LifeInv'
  BY <1>1, <1>3 DEF KeyRefused, AskForTrust
<1>4. ASSUME NEW k \in Keys, NEW expired \in BOOLEAN, KeyTrusted(k, expired) PROVE LifeInv'
  BY <1>1, <1>4 DEF KeyTrusted, LifeInv, Held
<1>5. CASE ConnectRefused \/ ConnectFails \/ CancelPendingTrust \/ \E S \in SUBSET Kinds : Resolve(S)
  BY <1>1, <1>5 DEF ConnectRefused, ConnectFails, CancelPendingTrust, Resolve, LifeInv, Held
<1>6. ASSUME NEW s \in Sessions, NEW f \in NewHandles, OpenSession(s, f) PROVE LifeInv'
  BY <1>6 DEF OpenSession, LifeInv, Named, Held, NoUseAfterClose
<1>7. ASSUME NEW s \in Sessions, ProbeFails(s) PROVE LifeInv'
  BY <1>7 DEF ProbeFails, LifeInv, Named, Held, NoUseAfterClose
<1>8. ASSUME NEW s \in Sessions, Publish(s) PROVE LifeInv'
  BY <1>8 DEF Publish, LifeInv, Named, Held, NoUseAfterClose
<1>. QED
  BY <1>2, <1>3, <1>4, <1>5, <1>6, <1>7, <1>8 DEF ConnectStep

LEMMA LifeDisconnect == ASSUME Typed, LifeInv, DisconnectStep PROVE LifeInv'
<1> USE SessionAssumption DEF SessionAssumption, Typed, TypeOK, callVars, pendingVars, sessVars, opVars,
        LifeInv, Named, Held, NoUseAfterClose
<1>1. CASE DisconnectBegin
  BY <1>1 DEF DisconnectBegin
<1>2. CASE DisconnectCancel
  BY <1>2 DEF DisconnectCancel
<1>3. CASE DisconnectAgain
  BY <1>3 DEF DisconnectAgain
<1>4. CASE WaitDone
  BY <1>4 DEF WaitDone
<1>5. CASE WaitTimesOut \/ DisconnectReturns
  BY <1>5 DEF WaitTimesOut, DisconnectReturns, LeaveDisconnect
<1>. QED
  BY <1>1, <1>2, <1>3, <1>4, <1>5 DEF DisconnectStep

LEMMA LifeCloser == ASSUME Typed, LifeInv, NEW s \in Sessions, CloserStep(s) PROVE LifeInv'
<1> USE SessionAssumption DEF SessionAssumption, Typed, TypeOK, callVars, pendingVars, sessVars, opVars,
        LifeInv, Named, Held, NoUseAfterClose
<1>1. CASE CloserCloses(s)
  <2>1. \A o \in Ops : opSession[o] = NoSession
    <3>1. Busy \in SUBSET Ops /\ Cardinality(Busy) = 0
      BY <1>1 DEF CloserCloses, Busy
    <3>2. Busy = {}
      BY <3>1, FiniteOps
    <3>. QED
      BY <3>2 DEF Busy
  <2>. QED
    BY <1>1, <2>1 DEF CloserCloses, CloseSession
<1>2. CASE CloserClears(s)
  BY <1>2 DEF CloserClears
<1>3. CASE CloserDone(s)
  BY <1>3 DEF CloserDone
<1>. QED
  BY <1>1, <1>2, <1>3 DEF CloserStep

LEMMA LifeOperation == ASSUME Typed, LifeInv, NEW o \in Ops, OperationStep(o) PROVE LifeInv'
<1> USE SessionAssumption DEF SessionAssumption, Typed, TypeOK, callVars, pendingVars, sessVars
<1>1. UNCHANGED <<pc, waitsFor, sessVars>>
  BY DEF OperationStep, OperationBegin, OperationCancelled, OperationEnd
<1>2. Named' /\ Held'
  BY <1>1 DEF LifeInv, Named, Held
<1>3. NoUseAfterClose'
  <2>1. CASE OperationBegin(o)
    BY <1>1, <2>1 DEF OperationBegin, LifeInv, Named, NoUseAfterClose
  <2>2. CASE OperationCancelled(o)
    BY <1>1, <2>2 DEF OperationCancelled, LifeInv, NoUseAfterClose
  <2>3. CASE OperationEnd(o)
    BY <1>1, <2>3 DEF OperationEnd, LifeInv, NoUseAfterClose
  <2>. QED
    BY <2>1, <2>2, <2>3 DEF OperationStep
<1>. QED
  BY <1>2, <1>3 DEF LifeInv

LEMMA LifeInvariant == Spec => []LifeInv
<1>1. Typed /\ LifeInv /\ [Next]_vars => LifeInv'
  <2>1. ASSUME Typed, LifeInv, UNCHANGED vars PROVE LifeInv'
    BY <2>1 DEF vars, sessVars, opVars, LifeInv, Named, Held, NoUseAfterClose
  <2>. QED
    BY <2>1, LifeConnect, LifeDisconnect, LifeCloser, LifeOperation DEF Next
<1>. QED
  BY <1>1, LifeInit, TypedInvariant, PTL DEF Spec

\* Close is never called on a session that an operation still uses.
THEOREM SessionOutlivesItsUsers == Spec => []NoUseAfterClose
BY LifeInvariant, PTL DEF LifeInv

\* There is one session at a time, and m.session and m.closing tell which.
THEOREM AtMostOneSession == Spec => []OneSession
<1>1. Typed /\ LifeInv => OneSession
  BY SessionAssumption DEF SessionAssumption, Typed, TypeOK, LifeInv, Named, Held, OneSession, Open
<1>. QED
  BY <1>1, LifeInvariant, TypedInvariant, PTL

\* activeOps is what finishSessionClose believes it is, and no Add meets its Wait.
THEOREM OperationCount == Spec => []OperationsCounted
<1>1. Typed /\ LifeInv => OperationsCounted
  BY SessionAssumption DEF SessionAssumption, Typed, TypeOK, LifeInv, Named, Busy, OperationsCounted
<1>. QED
  BY <1>1, LifeInvariant, TypedInvariant, PTL

\* One session at a time, open as long as it has users, who are counted.
THEOREM SessionIsExclusive == Spec => []OneLiveSession
<1>1. NoUseAfterClose /\ OneSession /\ OperationsCounted => OneLiveSession
  BY DEF OneLiveSession
<1>. QED
  BY <1>1, SessionOutlivesItsUsers, AtMostOneSession, OperationCount, PTL

\* A Disconnect that returns nil leaves no session open and no operation running.
THEOREM DisconnectIsHonest == Spec => []DisconnectMeansClosed
<1>1. Typed /\ LifeInv => DisconnectMeansClosed
  <2> SUFFICES ASSUME Typed, LifeInv, pc = "disconnected" PROVE Open = {} /\ active = 0
    BY DEF DisconnectMeansClosed
  <2>1. Open = {}
    BY SessionAssumption DEF SessionAssumption, Typed, TypeOK, LifeInv, Named, Held, Open
  <2>2. Busy = {}
    BY <2>1 DEF Busy, Open, LifeInv, NoUseAfterClose, Typed, TypeOK
  <2>. QED
    BY <2>1, <2>2, FS_EmptySet DEF Typed
<1>. QED
  BY <1>1, LifeInvariant, TypedInvariant, PTL

-----------------------------------------------------------------------------
(* Secrets *)

\* What a Connect in progress holds: handles of its own only once the host key
\* is accepted, none of a kind that was typed, and the session takes them over.
ResolvedSecrets ==
    /\ rOwned # {} => pc = "open"
    /\ \A k \in Kinds : rBlob[k] \in Blobs => pc \in {"open", "probe"}
    /\ \A k \in Kinds : pc = "open" /\ rBlob[k] \in Blobs => k \in rOwned
    /\ \A k \in rOwned : /\ rBlob[k] \in Blobs \cap stored
                          /\ boundTo[rBlob[k]] = call.acct
                          /\ k \notin call.typed
    /\ \A k, l \in rOwned : rBlob[k] = rBlob[l] => k = l

\* What the pending prompt holds.
PromptSecrets ==
    /\ \A k \in Kinds : pBlob[k] \in Blobs <=> k \in pOwned
    /\ \A k \in pOwned : pBlob[k] \in stored /\ boundTo[pBlob[k]] = pending.acct
    /\ \A k, l \in pOwned : pBlob[k] = pBlob[l] => k = l

\* What the sessions hold.
SessionSecrets ==
    /\ \A s \in Sessions, k \in Kinds : sBlob[s][k] \in Blobs <=> k \in sOwned[s]
    /\ \A s \in Sessions : sOwned[s] # {} => s \in Open
    /\ \A s \in Sessions : \A k \in sOwned[s] :
          sBlob[s][k] \in stored /\ boundTo[sBlob[s][k]] = acct[s]
    /\ \A s \in Sessions : \A k, l \in sOwned[s] : sBlob[s][k] = sBlob[s][l] => k = l
    /\ \A s, t \in Sessions : \A k \in sOwned[s], l \in sOwned[t] : sBlob[s][k] = sBlob[t][l] => s = t

\* No handle has two holders, and every stored one has a holder.
OneHolder ==
    /\ \A k \in rOwned, l \in pOwned : rBlob[k] # pBlob[l]
    /\ \A s \in Sessions : \A k \in sOwned[s] :
          /\ \A l \in rOwned : sBlob[s][k] # rBlob[l]
          /\ \A l \in pOwned : sBlob[s][k] # pBlob[l]
    /\ \A b \in Blobs \cap stored :
          \/ \E k \in rOwned : rBlob[k] = b
          \/ \E k \in pOwned : pBlob[k] = b
          \/ \E s \in Sessions : \E k \in sOwned[s] : sBlob[s][k] = b

SecretInv ==
    /\ ProfileBlob \in stored
    /\ ResolvedSecrets /\ PromptSecrets /\ SessionSecrets /\ OneHolder

LEMMA SecretInit == Init => SecretInv
BY SessionAssumption
DEF Init, SecretInv, ResolvedSecrets, PromptSecrets, SessionSecrets, OneHolder, NoBlobs,
    SessionAssumption

LEMMA OnlySessionsHold ==
  ASSUME rOwned' = {}, pOwned' = {},
         \A b \in Blobs \cap stored' : \E s \in Sessions : \E k \in sOwned'[s] : sBlob'[s][k] = b
  PROVE  OneHolder'
BY DEF OneHolder

\* Returning from Connect or cancelling the prompt forgets what they own and
\* leaves the sessions their secrets.
LEMMA ForgettingKeepsSecrets ==
  ASSUME Typed, SecretInv, NoPendingTrust, Forget(Resolved \cup Pending),
         rBlob' = NoBlobs /\ rOwned' = {},
         UNCHANGED <<acct, sBlob, sOwned>>,
         \A s \in Open : s \in Open'
  PROVE  SecretInv'
<1> USE SessionAssumption DEF SessionAssumption, Typed, TypeOK, SecretInv, NoPendingTrust, Forget,
        NoBlobs, Resolved, Pending, OwnedOf
<1>1. ProfileBlob \in stored'
  BY DEF ResolvedSecrets, PromptSecrets
<1>2. ResolvedSecrets' /\ PromptSecrets'
  BY DEF ResolvedSecrets, PromptSecrets
<1>3. \A s \in Sessions : \A k \in sOwned[s] : sBlob[s][k] \in Blobs /\ sBlob[s][k] \notin Resolved \cup Pending
  BY DEF SessionSecrets, OneHolder
<1>4. SessionSecrets'
  BY <1>3 DEF SessionSecrets
<1>5. OneHolder'
  <2>1. ASSUME NEW b \in Blobs, b \in stored'
        PROVE  \E s \in Sessions : \E k \in sOwned[s] : sBlob[s][k] = b
    <3>1. b \in stored /\ (\A k \in rOwned : rBlob[k] # b) /\ (\A k \in pOwned : pBlob[k] # b)
      BY <2>1
    <3>. QED
      BY <3>1 DEF OneHolder
  <2>2. rOwned' = {} /\ pOwned' = {} /\ UNCHANGED <<sBlob, sOwned>>
    OBVIOUS
  <2>. QED
    BY <2>1, <2>2, OnlySessionsHold
<1>. QED
  BY <1>1, <1>2, <1>4, <1>5

\* Dropping the prompt outside a Connect, or in one that holds nothing yet.
LEMMA DroppingPromptKeepsSecrets ==
  ASSUME Typed, SecretInv, NoPendingTrust, Forget(Pending),
         rOwned = {}, \A k \in Kinds : rBlob[k] \notin Blobs,
         UNCHANGED <<rBlob, rOwned, acct, sBlob, sOwned>>,
         \A s \in Open : s \in Open'
  PROVE  SecretInv'
<1> USE SessionAssumption DEF SessionAssumption, Typed, TypeOK, SecretInv, NoPendingTrust, Forget,
        NoBlobs, Pending, OwnedOf
<1>1. ProfileBlob \in stored'
  BY DEF PromptSecrets
<1>2. ResolvedSecrets' /\ PromptSecrets'
  BY DEF ResolvedSecrets, PromptSecrets
<1>3. \A s \in Sessions : \A k \in sOwned[s] : sBlob[s][k] \in Blobs /\ sBlob[s][k] \notin Pending
  BY DEF SessionSecrets, OneHolder
<1>4. SessionSecrets'
  BY <1>3 DEF SessionSecrets
<1>5. OneHolder'
  <2>1. ASSUME NEW b \in Blobs, b \in stored'
        PROVE  \E s \in Sessions : \E k \in sOwned[s] : sBlob[s][k] = b
    <3>1. b \in stored /\ (\A k \in pOwned : pBlob[k] # b)
      BY <2>1
    <3>. QED
      BY <3>1 DEF OneHolder
  <2>2. rOwned' = {} /\ pOwned' = {} /\ UNCHANGED <<sBlob, sOwned>>
    OBVIOUS
  <2>. QED
    BY <2>1, <2>2, OnlySessionsHold
<1>. QED
  BY <1>1, <1>2, <1>4, <1>5

\* A step that leaves every holder and the store alone.
LEMMA SecretsUntouched ==
  ASSUME Typed, SecretInv, UNCHANGED <<rBlob, rOwned, pendingVars, acct, sBlob, sOwned, secretVars>>,
         rOwned = {}, \A k \in Kinds : rBlob[k] \notin Blobs,
         \A s \in Open : s \in Open'
  PROVE  SecretInv'
<1> USE DEF pendingVars, secretVars, SecretInv
<1>1. ResolvedSecrets' /\ PromptSecrets'
  BY DEF ResolvedSecrets, PromptSecrets
<1>2. SessionSecrets'
  BY DEF SessionSecrets, Typed, TypeOK
<1>3. OneHolder'
  BY DEF OneHolder
<1>. QED
  BY <1>1, <1>2, <1>3

LEMMA SecretsResolve ==
  ASSUME Typed, LifeInv, SecretInv, NEW S \in SUBSET Kinds, Resolve(S)
  PROVE  SecretInv'
<1> USE SessionAssumption DEF SessionAssumption, Resolve, Typed, TypeOK, sessVars, pendingVars, secretVars
<1>0. rOwned = {} /\ rOwned' = {} /\ (\A k \in Kinds : rBlob[k] \notin Blobs /\ rBlob'[k] \notin Blobs)
  BY DEF SecretInv, ResolvedSecrets
<1>1. CASE call.trust # NoKey
  <2>1. UNCHANGED <<pendingVars, acct, sBlob, sOwned, secretVars, life>>
    BY <1>1
  <2>2. ResolvedSecrets' /\ PromptSecrets' /\ SessionSecrets' /\ OneHolder'
    BY <1>0, <2>1 DEF SecretInv, ResolvedSecrets, PromptSecrets, SessionSecrets, OneHolder, Open
  <2>. QED
    BY <2>1, <2>2 DEF SecretInv
<1>2. CASE call.trust = NoKey
  <2>1. /\ NoPendingTrust /\ Forget(Pending)
        /\ UNCHANGED <<acct, sBlob, sOwned, life>>
    BY <1>2
  <2> USE DEF NoPendingTrust, Forget, NoBlobs, Pending, OwnedOf
  <2>2. ProfileBlob \in stored'
    BY <2>1 DEF SecretInv, PromptSecrets
  <2>3. ResolvedSecrets' /\ PromptSecrets'
    BY <1>0, <2>1 DEF ResolvedSecrets, PromptSecrets
  <2>4. SessionSecrets'
    <3>1. \A s \in Sessions : \A k \in sOwned[s] : sBlob[s][k] \in Blobs /\ sBlob[s][k] \notin Pending
      BY DEF SecretInv, SessionSecrets, OneHolder
    <3>. QED
      BY <2>1, <3>1 DEF SecretInv, SessionSecrets, Open
  <2>5. OneHolder'
    <3>1. ASSUME NEW b \in Blobs, b \in stored'
          PROVE  \E s \in Sessions : \E k \in sOwned[s] : sBlob[s][k] = b
      <4>1. b \in stored /\ ~\E k \in pOwned : pBlob[k] = b
        BY <2>1, <3>1
      <4>. QED
        BY <1>0, <4>1 DEF SecretInv, OneHolder
    <3>2. rOwned' = {} /\ pOwned' = {} /\ UNCHANGED <<sBlob, sOwned>>
      BY <1>0, <2>1
    <3>. QED
      BY <3>1, <3>2, OnlySessionsHold
  <2>. QED
    BY <2>2, <2>3, <2>4, <2>5 DEF SecretInv
<1>. QED
  BY <1>1, <1>2

LEMMA SecretsAskForTrust ==
  ASSUME Typed, LifeInv, SecretInv, NEW k \in Keys, NEW f \in NewHandles, AskForTrust(k, f)
  PROVE  SecretInv'
<1> USE SessionAssumption DEF SessionAssumption, AskForTrust, Protect, EndCall, NoBlobs, NewHandles,
        Typed, TypeOK, sessVars
<1>0. rOwned = {} /\ rOwned' = {} /\ (\A i \in Kinds : rBlob[i] \notin Blobs /\ rBlob'[i] \notin Blobs)
  BY DEF SecretInv, ResolvedSecrets
<1>. /\ ProfileBlob \notin Pending
    /\ \A s \in Sessions : \A i \in sOwned[s] : sBlob[s][i] \in Blobs \cap stored /\ sBlob[s][i] \notin Pending
  BY DEF SecretInv, PromptSecrets, SessionSecrets, OneHolder, Pending, OwnedOf
<1>1. ProfileBlob \in stored'
  BY DEF SecretInv
<1>2. ResolvedSecrets'
  BY <1>0 DEF ResolvedSecrets
<1>3. pOwned' = call.typed /\ \A i \in call.typed : pBlob'[i] = f[i] /\ f[i] \in Blobs \ stored
  BY <1>0
<1>4. PromptSecrets'
  BY <1>0, <1>3 DEF PromptSecrets
<1>5. SessionSecrets'
  BY DEF SecretInv, SessionSecrets, Open
<1>6. OneHolder'
  <2>1. \A s \in Sessions : \A i \in sOwned[s] : sBlob[s][i] \in stored
    BY DEF SecretInv, SessionSecrets
  <2>2. UNCHANGED <<sBlob, sOwned>>
    OBVIOUS
  <2>3. ASSUME NEW b \in Blobs, b \in stored'
        PROVE  \/ \E i \in pOwned' : pBlob'[i] = b
               \/ \E s \in Sessions : \E i \in sOwned[s] : sBlob[s][i] = b
    <3>1. CASE b \in stored \ Pending
      <4>1. b \in stored /\ (\A i \in pOwned : pBlob[i] # b)
        BY <3>1 DEF Pending, OwnedOf
      <4>. QED
        BY <1>0, <4>1 DEF SecretInv, OneHolder
    <3>2. CASE b \notin stored \ Pending
      BY <1>3, <2>3, <3>2
    <3>. QED
      BY <3>1, <3>2
  <2>4. \A s \in Sessions : \A i \in sOwned'[s], l \in pOwned' : sBlob'[s][i] # pBlob'[l]
    BY <1>3, <2>1, <2>2
  <2>. HIDE DEF AskForTrust
  <2>. QED
    BY <1>0, <2>2, <2>3, <2>4 DEF OneHolder
<1>. QED
  BY <1>1, <1>2, <1>4, <1>5, <1>6 DEF SecretInv

LEMMA SecretsKeyTrusted ==
  ASSUME Typed, LifeInv, SecretInv, NEW k \in Keys, NEW expired \in BOOLEAN, KeyTrusted(k, expired)
  PROVE  SecretInv'
<1>0. rOwned = {} /\ (\A i \in Kinds : rBlob[i] \notin Blobs)
  BY DEF KeyTrusted, SecretInv, ResolvedSecrets
<1>1. /\ UNCHANGED <<acct, sBlob, sOwned, life>>
      /\ pc' = "open" /\ call'.acct = call.acct /\ call'.typed = call.typed
  BY DEF KeyTrusted, sessVars, Typed, TypeOK
<1>2. CASE call.trust = NoKey
  <2>1. UNCHANGED <<rBlob, rOwned, pBlob, pOwned, pending, stored, boundTo>>
    BY <1>2 DEF KeyTrusted, pendingVars, secretVars
  <2>. QED
    BY <1>0, <1>1, <2>1
    DEF SecretInv, ResolvedSecrets, PromptSecrets, SessionSecrets, OneHolder, Open
<1>3. CASE call.trust # NoKey
  <2> DEFINE Taken == IF PendingMatches(k) /\ ~expired
                      THEN {i \in Kinds \ call.typed : pBlob[i] # NoBlob} ELSE {}
             Kept == pOwned \cap Taken
             Lost == OwnedOf(pBlob, pOwned \ Taken)
  <2>1. /\ rBlob' = [i \in Kinds |-> IF i \in Taken THEN pBlob[i] ELSE rBlob[i]]
        /\ rOwned' = Kept
        /\ NoPendingTrust /\ Forget(Lost)
    <3>1. OwnedOf(rBlob, rOwned \cap Taken) = {}
      BY <1>0 DEF OwnedOf
    <3>. QED
      BY <1>0, <1>3, <3>1 DEF KeyTrusted, ApplyPendingTrust
  <2>2. \A i \in Kept : i \in Kinds \ call.typed /\ rBlob'[i] = pBlob[i] /\ pending.acct = call.acct
    BY <2>1 DEF PendingMatches, Typed, TypeOK
  <2>3. \A i \in pOwned : pBlob[i] \in Blobs \cap stored /\ boundTo[pBlob[i]] = pending.acct
    BY DEF SecretInv, PromptSecrets, Typed, TypeOK
  <2>4. \A i \in Kept : pBlob[i] \notin Lost
    BY DEF SecretInv, PromptSecrets, OwnedOf
  <2>5. /\ stored' = stored \ Lost
        /\ \A b \in Blobs \ Lost : boundTo'[b] = boundTo[b]
        /\ pOwned' = {} /\ \A i \in Kinds : pBlob'[i] = NoBlob
    BY <2>1 DEF Forget, NoPendingTrust, NoBlobs
  <2>6. ResolvedSecrets'
    <3>1. \A i \in Kinds : rBlob'[i] \in Blobs => i \in rOwned'
      BY <1>0, <2>1 DEF SecretInv, PromptSecrets, Typed, TypeOK
    <3>2. \A i \in rOwned' : /\ rBlob'[i] \in Blobs \cap stored'
                            /\ boundTo'[rBlob'[i]] = call'.acct
                            /\ i \notin call'.typed
      BY <1>1, <2>1, <2>2, <2>3, <2>4, <2>5
    <3>3. \A i, l \in rOwned' : rBlob'[i] = rBlob'[l] => i = l
      BY <2>1, <2>2 DEF SecretInv, PromptSecrets
    <3>. QED
      BY <1>1, <3>1, <3>2, <3>3 DEF ResolvedSecrets
  <2>7. PromptSecrets'
    BY <2>5, SessionAssumption DEF PromptSecrets, SessionAssumption
  <2>8. \A s \in Sessions : \A i \in sOwned[s] : sBlob[s][i] \in Blobs \cap stored'
                                             /\ boundTo'[sBlob[s][i]] = boundTo[sBlob[s][i]]
    <3>1. \A s \in Sessions : \A i \in sOwned[s] : sBlob[s][i] \in (Blobs \cap stored) \ Lost
      BY DEF SecretInv, SessionSecrets, OneHolder, OwnedOf, Typed, TypeOK
    <3>. QED
      BY <2>5, <3>1
  <2>9. SessionSecrets'
    BY <1>1, <2>8 DEF SecretInv, SessionSecrets, Open
  <2>10. OneHolder'
    <3>1. \A s \in Sessions : \A i \in sOwned'[s], l \in rOwned' : sBlob'[s][i] # rBlob'[l]
      BY <1>1, <2>1, <2>2 DEF SecretInv, OneHolder
    <3>2. ASSUME NEW b \in Blobs, b \in stored'
          PROVE  \/ \E i \in rOwned' : rBlob'[i] = b
                 \/ \E s \in Sessions : \E i \in sOwned[s] : sBlob[s][i] = b
      <4>1. b \in stored /\ \A i \in pOwned \ Taken : pBlob[i] # b
        BY <2>5, <3>2 DEF OwnedOf
      <4>2. CASE \E i \in pOwned : pBlob[i] = b
        BY <2>1, <2>2, <4>1, <4>2
      <4>3. CASE ~\E i \in pOwned : pBlob[i] = b
        BY <1>0, <4>1, <4>3 DEF SecretInv, OneHolder
      <4>. QED
        BY <4>2, <4>3
    <3>. HIDE DEF Taken, Kept, Lost
    <3>. QED
      BY <1>1, <2>5, <3>1, <3>2 DEF OneHolder
  <2>11. ProfileBlob \in stored'
    BY <2>3, <2>5, SessionAssumption DEF SecretInv, OwnedOf, SessionAssumption
  <2>. QED
    BY <2>6, <2>7, <2>9, <2>10, <2>11 DEF SecretInv
<1>. QED
  BY <1>2, <1>3

LEMMA SecretsOpen ==
  ASSUME Typed, LifeInv, SecretInv, NEW s \in Sessions, NEW f \in NewHandles, OpenSession(s, f)
  PROVE  SecretInv'
<1>1. /\ pc = "open" /\ pc' = "probe" /\ life[s] = "none"
      /\ call.typed \in SUBSET Kinds
      /\ \A i \in call.typed : f[i] \in Blobs \ stored
      /\ \A i, l \in call.typed : f[i] = f[l] => i = l
      /\ stored' = stored \cup {f[i] : i \in call.typed}
      /\ \A i \in call.typed : boundTo'[f[i]] = call.acct
      /\ \A b \in Blobs \cap stored : boundTo'[b] = boundTo[b]
      /\ UNCHANGED <<rBlob, pending, pBlob, pOwned>>
  BY DEF OpenSession, Protect, Typed, TypeOK, pendingVars
<1>2. /\ rOwned' = {}
      /\ sOwned[s] = {}
      /\ sOwned'[s] = call.typed \cup rOwned
      /\ \A i \in Kinds : sBlob'[s][i] = IF i \in call.typed THEN f[i] ELSE rBlob[i]
      /\ acct'[s] = call.acct /\ s \in Open'
      /\ \A t \in Sessions \ {s} : /\ sOwned'[t] = sOwned[t] /\ sBlob'[t] = sBlob[t]
                                   /\ acct'[t] = acct[t] /\ (t \in Open => t \in Open')
  <2>1. rOwned' = {}
    BY DEF OpenSession, SecretInv, ResolvedSecrets
  <2>2. sOwned[s] = {}
    BY <1>1 DEF SecretInv, SessionSecrets, Open, Typed, TypeOK
  <2>3. /\ sOwned'[s] = call.typed \cup rOwned
        /\ sBlob'[s] = [i \in Kinds |-> IF i \in call.typed THEN f[i] ELSE rBlob[i]]
        /\ acct'[s] = call.acct /\ life'[s] = "probing"
    BY DEF OpenSession, Typed, TypeOK
  <2>4. \A t \in Sessions \ {s} : /\ sOwned'[t] = sOwned[t] /\ sBlob'[t] = sBlob[t]
                                 /\ acct'[t] = acct[t] /\ life'[t] = life[t]
    BY DEF OpenSession, Typed, TypeOK
  <2>. QED
    BY <2>1, <2>2, <2>3, <2>4 DEF Open
<1>3. /\ rOwned \in SUBSET (Kinds \ call.typed)
      /\ \A i \in Kinds : rBlob[i] \in Blobs => i \in rOwned
      /\ \A i \in rOwned : rBlob[i] \in Blobs \cap stored /\ boundTo[rBlob[i]] = call.acct
      /\ \A i, l \in rOwned : rBlob[i] = rBlob[l] => i = l
      /\ \A i \in pOwned : pBlob[i] \in Blobs \cap stored
      /\ \A t \in Sessions : \A i \in sOwned[t] : i \in Kinds /\ sBlob[t][i] \in Blobs \cap stored
  BY <1>1 DEF SecretInv, ResolvedSecrets, PromptSecrets, SessionSecrets, Typed, TypeOK
<1>4. ProfileBlob \in stored' /\ ResolvedSecrets' /\ PromptSecrets'
  BY <1>1, <1>2, <1>3 DEF SecretInv, ResolvedSecrets, PromptSecrets
<1>5. SessionSecrets'
  <2>1. \A i \in Kinds : sBlob'[s][i] \in Blobs <=> i \in sOwned'[s]
    BY <1>1, <1>2, <1>3
  <2>2. \A i \in sOwned'[s] : sBlob'[s][i] \in stored' /\ boundTo'[sBlob'[s][i]] = acct'[s]
    BY <1>1, <1>2, <1>3
  <2>3. \A i, l \in sOwned'[s] : sBlob'[s][i] = sBlob'[s][l] => i = l
    BY <1>1, <1>2, <1>3
  <2>4. \A t \in Sessions \ {s} : \A i \in sOwned'[s], l \in sOwned'[t] : sBlob'[s][i] # sBlob'[t][l]
    BY <1>1, <1>2, <1>3 DEF SecretInv, OneHolder
  <2>. QED
    BY <1>1, <1>2, <1>3, <2>1, <2>2, <2>3, <2>4 DEF SecretInv, SessionSecrets
<1>6. OneHolder'
  <2>1. \A i \in sOwned'[s], l \in pOwned' : sBlob'[s][i] # pBlob'[l]
    BY <1>1, <1>2, <1>3 DEF SecretInv, OneHolder
  <2>2. \A t \in Sessions \ {s} : \A i \in sOwned'[t], l \in pOwned' : sBlob'[t][i] # pBlob'[l]
    BY <1>1, <1>2 DEF SecretInv, OneHolder
  <2>3. ASSUME NEW b \in Blobs, b \in stored'
        PROVE  \/ \E i \in pOwned' : pBlob'[i] = b
               \/ \E t \in Sessions : \E i \in sOwned'[t] : sBlob'[t][i] = b
    <3>1. CASE b \in stored
      <4>1. CASE \E i \in rOwned : rBlob[i] = b
        BY <1>2, <1>3, <4>1
      <4>2. CASE ~\E i \in rOwned : rBlob[i] = b
        <5>1. \/ \E i \in pOwned : pBlob[i] = b
              \/ \E t \in Sessions : \E i \in sOwned[t] : sBlob[t][i] = b
          BY <3>1, <4>2 DEF SecretInv, OneHolder
        <5>. QED
          BY <1>1, <1>2, <5>1
      <4>. QED
        BY <4>1, <4>2
    <3>2. CASE b \notin stored
      BY <1>1, <1>2, <2>3, <3>2
    <3>. QED
      BY <3>1, <3>2
  <2>. QED
    BY <1>2, <2>1, <2>2, <2>3 DEF OneHolder
<1>. QED
  BY <1>4, <1>5, <1>6 DEF SecretInv

\* Close of a session forgets what it owns; a Connect that ends so drops the
\* prompt as well.
LEMMA ClosingKeepsSecrets ==
  ASSUME Typed, SecretInv, NEW s \in Sessions,
         rOwned = {}, rOwned' = {}, \A i \in Kinds : rBlob'[i] \in Blobs => pc' = "probe",
         CloseSession(s), acct' = acct,
         \/ Forget(OwnedOf(sBlob[s], sOwned[s])) /\ UNCHANGED <<pBlob, pOwned, pending>>
         \/ Forget(Pending \cup OwnedOf(sBlob[s], sOwned[s])) /\ NoPendingTrust
  PROVE  SecretInv'
<1> DEFINE Lost == OwnedOf(sBlob[s], sOwned[s])
<1>1. PICK G : /\ Forget(G)
               /\ \/ G = Lost /\ UNCHANGED <<pBlob, pOwned, pending>>
                  \/ /\ G = Pending \cup Lost
                     /\ pOwned' = {} /\ \A i \in Kinds : pBlob'[i] \notin Blobs
  BY SessionAssumption DEF SessionAssumption, NoPendingTrust, NoBlobs
<1>2. /\ sOwned'[s] = {} /\ \A i \in Kinds : sBlob'[s][i] \notin Blobs
      /\ \A t \in Sessions \ {s} : /\ sOwned'[t] = sOwned[t] /\ sBlob'[t] = sBlob[t]
                                   /\ (t \in Open => t \in Open')
  BY SessionAssumption DEF SessionAssumption, CloseSession, Open, NoBlobs, Typed, TypeOK
<1>3. /\ \A t \in Sessions : \A i \in sOwned[t] : i \in Kinds /\ sBlob[t][i] \in Blobs \cap stored
      /\ \A i \in pOwned : i \in Kinds /\ pBlob[i] \in Blobs \cap stored
  BY DEF SecretInv, SessionSecrets, PromptSecrets, Typed, TypeOK
<1>4. /\ \A t \in Sessions \ {s} : \A i \in sOwned[t] : sBlob[t][i] \notin G
      /\ ProfileBlob \notin G
      /\ \A i \in sOwned[s] : sBlob[s][i] \in G
      /\ \/ /\ UNCHANGED <<pBlob, pOwned, pending>>
            /\ \A i \in pOwned : pBlob[i] \notin G
         \/ /\ pOwned' = {} /\ \A i \in Kinds : pBlob'[i] \notin Blobs
            /\ \A i \in pOwned : pBlob[i] \in G
  <2>1. CASE G = Lost /\ UNCHANGED <<pBlob, pOwned, pending>>
    BY <1>3, <2>1, SessionAssumption
    DEF SecretInv, SessionSecrets, OneHolder, OwnedOf, SessionAssumption
  <2>2. CASE /\ G = Pending \cup Lost
             /\ pOwned' = {} /\ \A i \in Kinds : pBlob'[i] \notin Blobs
    BY <1>3, <2>2, SessionAssumption
    DEF SecretInv, SessionSecrets, OneHolder, OwnedOf, Pending, SessionAssumption
  <2>. QED
    BY <1>1, <2>1, <2>2
<1>9. /\ \A b : b \in stored' <=> b \in stored /\ b \notin G
      /\ \A b \in Blobs : b \notin G => boundTo'[b] = boundTo[b]
      /\ \A b \in G : \/ b \in Lost
                      \/ b \in Pending /\ pOwned' = {} /\ \A i \in Kinds : pBlob'[i] \notin Blobs
  BY <1>1 DEF Forget
<1>. HIDE DEF Lost
<1>5. ProfileBlob \in stored' /\ ResolvedSecrets'
  BY <1>4, <1>9 DEF SecretInv, ResolvedSecrets
<1>6. PromptSecrets'
  <2>1. CASE pOwned' = {} /\ \A i \in Kinds : pBlob'[i] \notin Blobs
    BY <2>1 DEF PromptSecrets
  <2>2. CASE UNCHANGED <<pBlob, pOwned, pending>> /\ \A i \in pOwned : pBlob[i] \notin G
    BY <1>3, <1>9, <2>2 DEF SecretInv, PromptSecrets
  <2>. QED
    BY <1>4, <2>1, <2>2
<1>7. SessionSecrets'
  <2>1. \A t \in Sessions, i \in Kinds : sBlob'[t][i] \in Blobs <=> i \in sOwned'[t]
    BY <1>2 DEF SecretInv, SessionSecrets
  <2>2. \A t \in Sessions : sOwned'[t] # {} => t \in Open'
    BY <1>2 DEF SecretInv, SessionSecrets
  <2>3. \A t \in Sessions : \A i \in sOwned'[t] :
           sBlob'[t][i] \in stored' /\ boundTo'[sBlob'[t][i]] = acct'[t]
    BY <1>2, <1>3, <1>4, <1>9 DEF SecretInv, SessionSecrets
  <2>4. /\ \A t \in Sessions : \A i, l \in sOwned'[t] : sBlob'[t][i] = sBlob'[t][l] => i = l
        /\ \A t, u \in Sessions : \A i \in sOwned'[t], l \in sOwned'[u] :
               sBlob'[t][i] = sBlob'[u][l] => t = u
    BY <1>2 DEF SecretInv, SessionSecrets
  <2>. QED
    BY <2>1, <2>2, <2>3, <2>4 DEF SessionSecrets
<1>8. OneHolder'
  <2>1. \A t \in Sessions : \A i \in sOwned'[t], l \in pOwned' : sBlob'[t][i] # pBlob'[l]
    BY <1>2, <1>4 DEF SecretInv, OneHolder
  <2>2. ASSUME NEW b \in Blobs, b \in stored'
        PROVE  \/ \E i \in pOwned' : pBlob'[i] = b
               \/ \E t \in Sessions : \E i \in sOwned'[t] : sBlob'[t][i] = b
    <3>1. b \in stored /\ \A i \in sOwned[s] : sBlob[s][i] # b
      BY <1>4, <1>9, <2>2
    <3>2. \/ \E i \in pOwned : pBlob[i] = b
          \/ \E t \in Sessions \ {s} : \E i \in sOwned[t] : sBlob[t][i] = b
      BY <3>1 DEF SecretInv, OneHolder
    <3>3. CASE \E i \in pOwned : pBlob[i] = b
      BY <1>4, <1>9, <2>2, <3>3
    <3>. QED
      BY <1>2, <3>2, <3>3
  <2>. QED
    BY <2>1, <2>2 DEF OneHolder
<1>. QED
  BY <1>5, <1>6, <1>7, <1>8 DEF SecretInv

LEMMA SecretsConnect == ASSUME Typed, LifeInv, SecretInv, ConnectStep PROVE SecretInv'
<1>1. ASSUME ReturnFromConnect, UNCHANGED sessVars PROVE SecretInv'
  BY <1>1, ForgettingKeepsSecrets DEF ReturnFromConnect, EndCall, sessVars, Open
<1>2. ASSUME NEW c \in Calls, ConnectBegin(c) PROVE SecretInv'
  <2>1. rOwned = {} /\ \A k \in Kinds : rBlob[k] \notin Blobs
    BY <1>2 DEF ConnectBegin, SecretInv, ResolvedSecrets
  <2>. QED
    BY <1>2, <2>1, SecretsUntouched DEF ConnectBegin, sessVars, Open
<1>3. CASE ConnectRefused \/ ConnectFails \/ \E k \in Keys : KeyRefused(k)
  BY <1>1, <1>3 DEF ConnectRefused, ConnectFails, KeyRefused
<1>4. ASSUME NEW s \in Sessions, ProbeFails(s) PROVE SecretInv'
  <2>1. rOwned = {} /\ Resolved = {}
    BY <1>4 DEF ProbeFails, SecretInv, ResolvedSecrets, Resolved, OwnedOf
  <2>2. /\ rOwned' = {} /\ CloseSession(s) /\ acct' = acct /\ NoPendingTrust
        /\ Forget(Pending \cup OwnedOf(sBlob[s], sOwned[s]))
        /\ \A i \in Kinds : rBlob'[i] \notin Blobs
    BY <1>4, <2>1, SessionAssumption DEF ProbeFails, EndCall, NoBlobs, SessionAssumption
  <2>. QED
    BY <2>1, <2>2, ClosingKeepsSecrets
<1>5. ASSUME NEW s \in Sessions, Publish(s) PROVE SecretInv'
  <2>1. \A t \in Open : t \in Open'
    BY <1>5 DEF Publish, Open, Typed, TypeOK
  <2>. QED
    BY <1>5, <2>1, ForgettingKeepsSecrets DEF Publish, ReturnFromConnect, EndCall
<1>6. CASE CancelPendingTrust
  <2>1. Resolved = {} /\ rOwned = {} /\ \A k \in Kinds : rBlob[k] \notin Blobs
    BY <1>6 DEF CancelPendingTrust, SecretInv, ResolvedSecrets, Resolved, OwnedOf
  <2>. QED
    BY <1>6, <2>1, DroppingPromptKeepsSecrets DEF CancelPendingTrust, callVars, sessVars, Open
<1>. QED
  BY <1>2, <1>3, <1>4, <1>5, <1>6, SecretsResolve, SecretsAskForTrust, SecretsKeyTrusted, SecretsOpen
  DEF ConnectStep

LEMMA SecretsDisconnect == ASSUME Typed, LifeInv, SecretInv, DisconnectStep PROVE SecretInv'
<1>1. Resolved = {} /\ rOwned = {} /\ \A k \in Kinds : rBlob[k] \notin Blobs
  BY DEF DisconnectStep, DisconnectBegin, DisconnectCancel, DisconnectAgain, WaitDone,
         WaitTimesOut, DisconnectReturns, SecretInv, ResolvedSecrets, Resolved, OwnedOf
<1>2. CASE DisconnectBegin
  <2>1. /\ Forget(Pending) /\ NoPendingTrust
        /\ UNCHANGED <<rBlob, rOwned, acct, sBlob, sOwned>>
        /\ \A s \in Open : s \in Open'
    BY <1>2 DEF DisconnectBegin, Open, Typed, TypeOK, callVars
  <2>. QED
    BY <1>1, <2>1, DroppingPromptKeepsSecrets
<1>3. CASE DisconnectAgain
  BY <1>1, <1>3, DroppingPromptKeepsSecrets DEF DisconnectAgain, callVars, sessVars, Open
<1>4. CASE DisconnectCancel \/ WaitDone \/ WaitTimesOut \/ DisconnectReturns
  BY <1>1, <1>4, SecretsUntouched
  DEF DisconnectCancel, WaitDone, WaitTimesOut, DisconnectReturns, LeaveDisconnect, callVars,
      sessVars, Open
<1>. QED
  BY <1>2, <1>3, <1>4 DEF DisconnectStep

\* A step that leaves secrets, holders and the holder of opMu alone.
LEMMA SecretsElsewhere ==
  ASSUME Typed, SecretInv, life' = life,
         UNCHANGED <<pc, callVars, pendingVars, acct, sBlob, sOwned, secretVars>>
  PROVE  SecretInv'
BY DEF SecretInv, ResolvedSecrets, PromptSecrets, SessionSecrets, OneHolder, Open, callVars,
       pendingVars, secretVars

LEMMA SecretsCloser == ASSUME Typed, LifeInv, SecretInv, NEW s \in Sessions, CloserStep(s) PROVE SecretInv'
<1>1. CASE CloserCloses(s)
  <2>1. s \in Sessions /\ session = NoSession /\ closing # NoSession
    BY <1>1, SessionAssumption DEF CloserCloses, LifeInv, Named, SessionAssumption
  <2>2. rOwned = {} /\ \A k \in Kinds : rBlob[k] \notin Blobs
    BY <2>1 DEF LifeInv, Held, SecretInv, ResolvedSecrets
  <2>. QED
    BY <1>1, <2>2, ClosingKeepsSecrets DEF CloserCloses, callVars, pendingVars
<1>2. CASE CloserClears(s) \/ CloserDone(s)
  BY <1>2, SecretsElsewhere DEF CloserClears, CloserDone
<1>. QED
  BY <1>1, <1>2 DEF CloserStep

LEMMA SecretInvariant == Spec => []SecretInv
<1>1. Typed /\ LifeInv /\ SecretInv /\ [Next]_vars => SecretInv'
  <2>1. ASSUME Typed, SecretInv, UNCHANGED vars PROVE SecretInv'
    BY <2>1, SecretsElsewhere DEF vars, sessVars
  <2>2. ASSUME Typed, SecretInv, NEW o \in Ops, OperationStep(o) PROVE SecretInv'
    BY <2>2, SecretsElsewhere
    DEF OperationStep, OperationBegin, OperationCancelled, OperationEnd, sessVars
  <2>. QED
    BY <2>1, <2>2, SecretsConnect, SecretsDisconnect, SecretsCloser DEF Next
<1>. QED
  BY <1>1, SecretInit, LifeInvariant, TypedInvariant, PTL DEF Spec

\* Every protected secret has exactly one owner and none is left behind.
THEOREM NoSecretLeaks == Spec => []SecretsOwnedOnce
<1>1. Typed /\ SecretInv => SecretsOwnedOnce
  <2> SUFFICES ASSUME Typed, SecretInv PROVE SecretsOwnedOnce
    OBVIOUS
  <2> USE DEF SecretInv, Typed, TypeOK, Resolved, Pending, OwnedOf
  <2>1. Resolved \cap Pending = {}
    BY DEF OneHolder
  <2> DEFINE OfSessions == UNION {OwnedOf(sBlob[s], sOwned[s]) : s \in Open}
  <2>2. OfSessions \cap (Resolved \cup Pending) = {}
    BY DEF OneHolder, Open
  <2>3. ASSUME NEW b \in stored \cap Blobs PROVE b \in Resolved \cup Pending \cup OfSessions
    <3>1. CASE (\E k \in rOwned : rBlob[k] = b) \/ (\E k \in pOwned : pBlob[k] = b)
      BY <3>1
    <3>2. CASE \E s \in Sessions : \E k \in sOwned[s] : sBlob[s][k] = b
      <4>1. PICK s \in Sessions : \E k \in sOwned[s] : sBlob[s][k] = b
        BY <3>2
      <4>2. s \in Open /\ b \in OwnedOf(sBlob[s], sOwned[s])
        BY <4>1 DEF SessionSecrets
      <4>. QED
        BY <4>2
    <3>. QED
      BY <3>1, <3>2 DEF OneHolder
  <2>4. Resolved \subseteq stored \cap Blobs /\ Pending \subseteq stored \cap Blobs
    BY DEF ResolvedSecrets, PromptSecrets
  <2>5. OfSessions \subseteq stored \cap Blobs
    BY DEF SessionSecrets, Open
  <2>. QED
    BY <2>1, <2>2, <2>3, <2>4, <2>5 DEF SecretsOwnedOnce
<1>. QED
  BY <1>1, SecretInvariant, TypedInvariant, PTL

\* An open session can use its secrets; the profile's are never forgotten.
THEOREM SecretsStayUsable == Spec => []SecretsUsable
<1>1. Typed /\ SecretInv => SecretsUsable
  BY DEF SecretsUsable, SecretInv, SessionSecrets, Open, Typed, TypeOK, Handles
<1>. QED
  BY <1>1, SecretInvariant, TypedInvariant, PTL

\* A typed secret reaches the account it was typed for and no other.
THEOREM SecretsStayBound == Spec => []SecretsBound
<1>1. Typed /\ SecretInv => SecretsBound
  BY DEF SecretsBound, SecretInv, SessionSecrets, Open, Typed, TypeOK
<1>. QED
  BY <1>1, SecretInvariant, TypedInvariant, PTL

\* The secrets of an open session are there and are its account's.
THEOREM SecretsStayWithSession == Spec => []SecretsFollow
<1>1. SecretsUsable /\ SecretsBound => SecretsFollow
  BY DEF SecretsFollow
<1>. QED
  BY <1>1, SecretsStayUsable, SecretsStayBound, PTL

-----------------------------------------------------------------------------
(* The pinned host key *)

\* Remembering a key means that the profile was consulted for the expected one.
RemembersProfile == call.remember => call.profile

LEMMA RememberInvariant == Spec => []RemembersProfile
<1>1. Init => RemembersProfile
  BY DEF Init, RemembersProfile, NoCall
<1>2. Typed /\ RemembersProfile /\ [Next]_vars => RemembersProfile'
  <2> SUFFICES ASSUME Typed, RemembersProfile, [Next]_vars PROVE RemembersProfile'
    OBVIOUS
  <2>1. ASSUME NEW c \in Calls, ConnectBegin(c) PROVE RemembersProfile'
    BY <2>1 DEF ConnectBegin, RemembersProfile, Calls
  <2>2. ASSUME NEW k \in Keys, NEW expired \in BOOLEAN, KeyTrusted(k, expired) PROVE RemembersProfile'
    BY <2>2 DEF KeyTrusted, RemembersProfile, Typed, TypeOK
  <2>3. CASE call' = call \/ call' = NoCall
    BY <2>3 DEF RemembersProfile, NoCall
  <2>. QED
    BY <2>1, <2>2, <2>3
    DEF Next, ConnectStep, DisconnectStep, CloserStep, OperationStep, ConnectRefused, ConnectFails,
        Resolve, KeyRefused, AskForTrust, OpenSession, ProbeFails, Publish, CancelPendingTrust,
        DisconnectBegin, DisconnectCancel, DisconnectAgain, WaitDone, WaitTimesOut,
        DisconnectReturns, LeaveDisconnect, CloserCloses, CloserClears, CloserDone,
        OperationBegin, OperationCancelled, OperationEnd, ReturnFromConnect, EndCall, callVars, vars
<1>. QED
  BY <1>1, <1>2, TypedInvariant, PTL DEF Spec

\* A pinned host key is never replaced by connecting, whatever key the server
\* shows and whatever key the user confirms.
THEOREM PinnedKeyStays == Spec => PinIsKept
<1>1. Typed /\ RemembersProfile /\ [Next]_vars
        => [\A a \in Accounts : pin[a] # NoKey => pin'[a] = pin[a]]_vars
  <2> SUFFICES ASSUME Typed, RemembersProfile, Next, NEW a \in Accounts, pin[a] # NoKey
               PROVE  pin'[a] = pin[a]
    OBVIOUS
  <2>1. ASSUME NEW k \in Keys, NEW expired \in BOOLEAN, KeyTrusted(k, expired) PROVE pin'[a] = pin[a]
    <3>1. CASE call.remember /\ call.acct = a
      <4>1. Expected = pin[a] /\ k = pin[a]
        BY <2>1, <3>1 DEF RemembersProfile, KeyTrusted, KeyAccepted, Expected
      <4>. QED
        BY <2>1, <3>1, <4>1 DEF KeyTrusted, Typed, TypeOK
    <3>2. CASE ~(call.remember /\ call.acct = a)
      BY <2>1, <3>2 DEF KeyTrusted, Typed, TypeOK
    <3>. QED
      BY <3>1, <3>2
  <2>2. CASE pin' = pin
    BY <2>2
  <2>. QED
    BY <2>1, <2>2
    DEF Next, ConnectStep, DisconnectStep, CloserStep, OperationStep, ConnectBegin, ConnectRefused,
        ConnectFails, Resolve, KeyRefused, AskForTrust, OpenSession, ProbeFails, Publish,
        CancelPendingTrust, DisconnectBegin, DisconnectCancel, DisconnectAgain, WaitDone,
        WaitTimesOut, DisconnectReturns, LeaveDisconnect, CloserCloses, CloserClears, CloserDone,
        OperationBegin, OperationCancelled, OperationEnd
<1>. QED
  BY <1>1, TypedInvariant, RememberInvariant, PTL DEF Spec, PinIsKept
=============================================================================

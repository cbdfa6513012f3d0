------------------------------- MODULE Engine -------------------------------
(***************************************************************************)
(* api/engine.go over its two managers: Connect, Disconnect and Close call *)
(* the session manager and the transfer queue one after the other, and the *)
(* workers of the queue use whatever session is attached when they begin   *)
(* an attempt.  The steps are those of TransferQueue and SessionManager;   *)
(* a worker of the queue is an operation of the session manager.           *)
(*                                                                         *)
(* Of the queue's other callers there is one, the user's transfers.        *)
(* Pausing, reordering and settings touch no session and are left to       *)
(* TransferQueue; host keys and secrets are left to SessionManager.        *)
(***************************************************************************)
EXTENDS Naturals, FiniteSets

CONSTANTS Jobs, MaxJobs, MaxParallelism, MaxRetries, MaxGeneration, MaxUnwinding,
          Sessions, Accounts, NoSession, NoAccount, NoKey, NoBlob, ProfileBlob,
          Links,  \* goroutines that call Connect, Disconnect and Close
          User    \* the goroutine that asks for transfers

\* What every instance has to satisfy.
EngineAssumption ==
    /\ IsFiniteSet(Jobs) /\ User \notin Links
    /\ NoAccount \notin Accounts /\ NoSession \notin Sessions

VARIABLES
    status, slot, jobConn, born, paused, accepting, closed, generation, reserved, running,
    workers, cancels, parallelism, epoch, wpc, left, err, stopped, unwinding, exiting, cpc,
    cgen, cepoch, cbatch, cconn,
    pc, call, rBlob, rOwned, pending, pBlob, pOwned, pin, session, closing, waitsFor, life,
    acct, key, sBlob, sOwned, ctxDone, closer, active, opSession, opStopped, stored, boundTo,
    epc,   \* where each engine call is
    once   \* closeOnce has been used

queueVars ==
    <<status, slot, jobConn, born, paused, accepting, closed, generation, reserved, running,
      workers, cancels, parallelism, epoch, wpc, left, err, stopped, unwinding, exiting, cpc,
      cgen, cepoch, cbatch, cconn>>
sessionVars ==
    <<pc, call, rBlob, rOwned, pending, pBlob, pOwned, pin, session, closing, waitsFor, life,
      acct, key, sBlob, sOwned, ctxDone, closer, active, opSession, opStopped, stored, boundTo>>
vars == <<queueVars, sessionVars, epc, once>>

Q == INSTANCE TransferQueue WITH
    Callers <- Links \cup {User}, Conns <- Accounts, NoConn <- NoAccount
R == INSTANCE SessionManager WITH Ops <- Jobs, Sftp <- {}, Keys <- {}, Blobs <- {}

Init ==
    /\ Q!Init /\ R!Init
    /\ epc = [l \in Links |-> "idle"]
    /\ once = FALSE

Goto(l, from, to) == epc[l] = from /\ epc' = [epc EXCEPT ![l] = to]

\* A password that is typed or saved makes no difference here.
CallTo(a) == [R!NoCall EXCEPT !.acct = a]

-----------------------------------------------------------------------------
(* Connect *)

Connect(l, a) ==
    /\ Goto(l, "idle", "connect")
    /\ R!ConnectBegin(CallTo(a))
    /\ UNCHANGED <<queueVars, once>>

\* The session manager's part of a Connect that goes on.
Connecting ==
    /\ R!Resolve({}) \/ \E s \in Sessions : R!OpenSession(s, <<>>)
    /\ UNCHANGED <<queueVars, epc, once>>

ConnectFails(l) ==
    /\ Goto(l, "connect", "idle")
    /\ R!ConnectFails \/ \E s \in Sessions : R!ProbeFails(s)
    /\ UNCHANGED <<queueVars, once>>

Connected(l) ==
    /\ Goto(l, "connect", "enable")
    /\ \E s \in Sessions : R!Publish(s)
    /\ UNCHANGED <<queueVars, once>>

\* transfers.Enable() after a Connect that has attached its session.
Enable(l) ==
    /\ Goto(l, "enable", "idle")
    /\ IF closed THEN UNCHANGED queueVars ELSE Q!Enable(l)
    /\ UNCHANGED <<sessionVars, once>>

-----------------------------------------------------------------------------
(* Disconnect and Close *)

\* Mutant: Disconnect leaves the queue alone.
DisconnectOnly(l) ==
    /\ Goto(l, "idle", "leave")
    /\ UNCHANGED <<queueVars, sessionVars, once>>

Disconnect(l) ==
    /\ Goto(l, "idle", "drain")
    /\ Q!DisableAndCancel(l)
    /\ UNCHANGED <<sessionVars, once>>

Close(l) ==
    /\ ~once /\ once' = TRUE
    /\ Goto(l, "idle", "drain")
    /\ Q!Shutdown(l)
    /\ UNCHANGED sessionVars

\* waitWorkers looks at the workers.
Drain(l) ==
    /\ epc[l] = "drain"
    /\ Q!WaitCheck(l)
    /\ UNCHANGED <<sessionVars, epc, once>>

\* Drained or out of time: either way the session is disconnected.
Drained(l) ==
    /\ Goto(l, "drain", "leave")
    /\ Q!WaitReturns(l) \/ Q!WaitTimesOut(l)
    /\ UNCHANGED <<sessionVars, once>>

Leave(l) ==
    /\ Goto(l, "leave", "leaving")
    /\ R!DisconnectBegin \/ R!DisconnectAgain
    /\ UNCHANGED <<queueVars, once>>

Leaving ==
    /\ R!DisconnectCancel \/ R!WaitDone
    /\ UNCHANGED <<queueVars, epc, once>>

Left(l) ==
    /\ Goto(l, "leaving", "idle")
    /\ R!WaitTimesOut \/ R!DisconnectReturns
    /\ UNCHANGED <<queueVars, once>>

-----------------------------------------------------------------------------
(* Transfers *)

\* ConnectionIdentity reads the session that is attached now.
LookUp ==
    /\ IF session = NoSession THEN Q!LookupFails(User) ELSE Q!LookupIdentity(User, acct[session])
    /\ UNCHANGED <<sessionVars, epc, once>>

\* What the user asks of the queue, and the queue's own steps.
QueueSteps ==
    /\ \/ Q!ReserveBegin(User) \/ Q!RetryBegin(User)
       \/ \E B \in SUBSET Q!WithStatus({"fresh"}) \ {{}} :
             Q!Reserve(User, B) \/ Q!ReserveRefused(User, B)
       \/ Q!DropReservation(User) \/ Q!Commit(User)
       \/ \E S \in SUBSET Jobs \ {{}} : Q!Retry(User, S) \/ Q!RetryRefused(User, S)
       \/ \E S \in SUBSET (Q!Queued \cup Q!Running) \ {{}} : Q!CancelBatch(S)
       \/ \E c \in Links \cup {User} : Q!CallerPump(c)
       \/ \E j \in Jobs : Q!ExecuteBegin(j) \/ Q!RetryDelay(j) \/ Q!FinishJob(j)
       \/ Q!WorkerPump \/ Q!WorkerExited
    /\ UNCHANGED <<sessionVars, epc, once>>

\* runAttempt: Operation gives the attached session, or there is none or the
\* local path has left its root.
Attempt(j) ==
    /\ \/ Q!Acquire(j) /\ R!OperationBegin(j)
       \/ Q!AcquireFails(j) /\ UNCHANGED sessionVars
    /\ UNCHANGED <<epc, once>>

\* The transfer returns and releases its operation.
AttemptEnds(j) ==
    /\ \E e \in Q!Errors : Q!TransferEnds(j, e)
    /\ R!OperationEnd(j)
    /\ UNCHANGED <<epc, once>>

\* The session's own goroutines: AfterFunc and finishSessionClose.
SessionSteps ==
    /\ (\E j \in Jobs : R!OperationCancelled(j)) \/ \E s \in Sessions : R!CloserStep(s)
    /\ UNCHANGED <<queueVars, epc, once>>

-----------------------------------------------------------------------------
Next ==
    \/ \E l \in Links :
          \/ \E a \in Accounts : Connect(l, a)
          \/ ConnectFails(l) \/ Connected(l) \/ Enable(l)
          \/ Disconnect(l) \/ Close(l) \/ Drain(l) \/ Drained(l) \/ Leave(l) \/ Left(l)
    \/ Connecting \/ Leaving
    \/ LookUp \/ QueueSteps
    \/ \E j \in Jobs : Attempt(j) \/ AttemptEnds(j)
    \/ SessionSteps

Spec == Init /\ [][Next]_vars

-----------------------------------------------------------------------------
(* What must hold *)

\* A transfer that has not been told to stop uses a session of the account it was
\* asked for, although a worker takes whatever session is attached and compares
\* nothing (runAttempt): the order of Engine's calls keeps them together.
OwnSession ==
    \A j \in Jobs : wpc[j] = "transfer" /\ j \notin stopped => acct[opSession[j]] = jobConn[j]

\* A queue that was enabled by a Connect has the session of that Connect until a
\* Disconnect or Close begins.
EnabledHasSession ==
    accepting /\ generation > 0 => session # NoSession

\* When a Disconnect has drained the queue no operation of a transfer is left on
\* the session that it then takes away.
DrainedLeavesNobody ==
    \A l \in Links : epc[l] = "drain" /\ cpc[l] = "drained" /\ cgen[l] = generation
                        => \A j \in Jobs : opSession[j] = NoSession
=============================================================================

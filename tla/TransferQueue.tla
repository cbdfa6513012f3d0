--------------------------- MODULE TransferQueue ---------------------------
(***************************************************************************)
(* The transfer queue of internal/transfer/manager.go: type Manager, every *)
(* method of it that changes state, and the goroutine pump() starts for    *)
(* each running transfer.  One action is one critical section of m.mu.     *)
(*                                                                         *)
(* Callers are the goroutines that enter the public API.  A method that    *)
(* releases m.mu and takes it again (ReserveBatch, RetryBatch, Commit,     *)
(* Resume, Enable, SettingsChanged, DisableAndCancel, Shutdown) leaves its *)
(* caller at a program counter between two actions.                        *)
(***************************************************************************)
EXTENDS Naturals, FiniteSets, TLC

CONSTANTS Jobs,           \* transfer ids; an id no data refers to is reused as a new random id
          Callers,        \* goroutines calling the Manager
          Conns,          \* connection identities ConnectionIdentity() can return
          NoConn,         \* no identity: the entry is absent from jobConnections
          MaxJobs,        \* maxTransferJobs
          MaxParallelism, \* config.MaxParallelism
          MaxRetries,     \* config.MaxAutoRetryCount
          MaxGeneration,  \* bound: number of Enable, DisableAndCancel and Shutdown calls
          MaxUnwinding    \* bound: goroutines past finishJob that have not gone yet

ASSUME ConstantsAssumption ==
    /\ IsFiniteSet(Jobs)
    /\ NoConn \notin Conns
    /\ MaxJobs \in Nat
    /\ MaxJobs < Cardinality(Jobs)   \* new ids never run out
    /\ MaxParallelism \in Nat \ {0}
    /\ MaxRetries \in Nat
    /\ MaxGeneration \in Nat
    /\ MaxUnwinding \in Nat

VARIABLES
    status,      \* job.Status, or "fresh" (unknown id) or "minted" (held by a reservation)
    slot,        \* index of the job in m.jobs, 0 when it is not there
    jobConn,     \* m.jobConnections
    born,        \* history: number of disconnects before the call that queued the job began
    paused, accepting, closed, generation,
    reserved,    \* m.reserved
    running, workers, cancels,
    parallelism, \* settings.Effective().Parallelism
    epoch,       \* history: number of DisableAndCancel and Shutdown calls so far
    wpc,         \* where the goroutine executing the job is, "idle" when there is none
    left,        \* automatic retries that goroutine may still make
    err,         \* its runErr
    stopped,     \* jobs whose context has been cancelled
    unwinding,   \* goroutines past finishJob that have still to call pump
    exiting,     \* goroutines past that pump that have still to call workerExited
    cpc,         \* where the caller is
    cgen,        \* the generation it captured
    cepoch,      \* history: epoch when it captured it
    cbatch,      \* the jobs of the reservation it holds
    cconn        \* the connection identity it looked up

jobVars  == <<status, slot, jobConn, born>>
ctlVars  == <<paused, accepting, closed, generation, epoch>>
poolVars == <<running, workers, cancels>>
workVars == <<wpc, left, err, stopped>>
tailVars == <<unwinding, exiting>>
callVars == <<cpc, cgen, cepoch, cbatch, cconn>>
vars == <<jobVars, ctlVars, reserved, poolVars, parallelism, workVars, tailVars, callVars>>

\* Jobs and callers are interchangeable.
Symmetry == Permutations(Jobs) \cup Permutations(Callers)

Terminal == {"done", "failed", "cancelled", "skipped"}
Listed   == {"queued", "running"} \cup Terminal
Errors   == {"none", "skip", "uncertain", "cancel", "retryable", "plain"}

WithStatus(S) == {j \in Jobs : status[j] \in S}
InQueue == WithStatus(Listed)
Queued  == WithStatus({"queued"})
Running == WithStatus({"running"})
Minted  == WithStatus({"minted"})

Init ==
    /\ status = [j \in Jobs |-> "fresh"]
    /\ slot = [j \in Jobs |-> 0]
    /\ jobConn = [j \in Jobs |-> NoConn]
    /\ born = [j \in Jobs |-> 0]
    /\ paused = FALSE /\ accepting = TRUE /\ closed = FALSE
    /\ generation = 0 /\ epoch = 0
    /\ reserved = 0
    /\ running = 0 /\ workers = 0 /\ cancels = {}
    /\ parallelism \in 1..MaxParallelism
    /\ wpc = [j \in Jobs |-> "idle"]
    /\ left = [j \in Jobs |-> 0]
    /\ err = [j \in Jobs |-> "none"]
    /\ stopped = {}
    /\ unwinding = 0 /\ exiting = 0
    /\ cpc = [c \in Callers |-> "idle"]
    /\ cgen = [c \in Callers |-> 0]
    /\ cepoch = [c \in Callers |-> 0]
    /\ cbatch = [c \in Callers |-> {}]
    /\ cconn = [c \in Callers |-> NoConn]

Goto(c, from, to) == cpc[c] = from /\ cpc' = [cpc EXCEPT ![c] = to]

-----------------------------------------------------------------------------
(* Reserving and committing a batch *)

\* The first critical section of ReserveBatch and of RetryBatch.
CaptureGeneration(c, lookup) ==
    /\ ~closed /\ accepting
    /\ Goto(c, "idle", lookup)
    /\ cgen' = [cgen EXCEPT ![c] = generation]
    /\ cepoch' = [cepoch EXCEPT ![c] = epoch]
    /\ UNCHANGED <<jobVars, ctlVars, reserved, poolVars, parallelism, workVars, tailVars,
                   cbatch, cconn>>

ReserveBegin(c) == CaptureGeneration(c, "reserveLookup")
RetryBegin(c)   == CaptureGeneration(c, "retryLookup")

\* ConnectionIdentity() answers id, without m.mu.
LookupIdentity(c, id) ==
    /\ \/ Goto(c, "reserveLookup", "reserveCheck")
       \/ Goto(c, "retryLookup", "retryCheck")
    /\ cconn' = [cconn EXCEPT ![c] = id]
    /\ UNCHANGED <<jobVars, ctlVars, reserved, poolVars, parallelism, workVars, tailVars,
                   cgen, cepoch, cbatch>>

\* The caller's method returns an error and leaves no trace of the call.
Fail(c, from) ==
    /\ Goto(c, from, "idle")
    /\ cconn' = [cconn EXCEPT ![c] = NoConn]
    /\ cgen' = [cgen EXCEPT ![c] = 0]
    /\ cepoch' = [cepoch EXCEPT ![c] = 0]
    /\ UNCHANGED <<jobVars, ctlVars, reserved, poolVars, parallelism, workVars, tailVars, cbatch>>

\* ConnectionIdentity() fails: there is no session.
LookupFails(c) == Fail(c, "reserveLookup") \/ Fail(c, "retryLookup")

\* Mutant: the generation is not compared again after the identity lookup.
StillCurrentNoGeneration(c) == ~closed /\ accepting

\* What both second critical sections require before they change anything.
StillCurrent(c) == cgen[c] = generation /\ ~closed /\ accepting

Room(B) == Cardinality(InQueue) + reserved + Cardinality(B) <= MaxJobs

\* The second critical section of ReserveBatch, for the jobs B.
Reserve(c, B) ==
    /\ Goto(c, "reserveCheck", "held")
    /\ StillCurrent(c)
    /\ Room(B)
    /\ status' = [j \in Jobs |-> IF j \in B THEN "minted" ELSE status[j]]
    /\ cbatch' = [cbatch EXCEPT ![c] = B]
    /\ reserved' = reserved + Cardinality(B)
    /\ UNCHANGED <<slot, jobConn, born, ctlVars, poolVars, parallelism, workVars, tailVars,
                   cgen, cepoch, cconn>>

ReserveRefused(c, B) ==
    /\ ~StillCurrent(c) \/ ~Room(B)
    /\ Fail(c, "reserveCheck")

\* m.reserved -= len(b.jobs), clamped at zero, and b.done = true.
Release(c) ==
    /\ reserved' = IF Cardinality(cbatch[c]) <= reserved
                   THEN reserved - Cardinality(cbatch[c]) ELSE 0
    /\ cbatch' = [cbatch EXCEPT ![c] = {}]
    /\ cgen' = [cgen EXCEPT ![c] = 0]
    /\ cepoch' = [cepoch EXCEPT ![c] = 0]
    /\ cconn' = [cconn EXCEPT ![c] = NoConn]

\* BatchReservation.Cancel, and Commit of a reservation that is no longer current.
DropReservation(c) ==
    /\ Goto(c, "held", "idle")
    /\ Release(c)
    /\ status' = [j \in Jobs |-> IF j \in cbatch[c] THEN "fresh" ELSE status[j]]
    /\ UNCHANGED <<slot, jobConn, born, ctlVars, poolVars, parallelism, workVars, tailVars>>

\* The orders in which the jobs of B can follow each other in a request.
Orders(B) == {f \in [B -> 1..Cardinality(B)] : \A a, b \in B : f[a] = f[b] => a = b}

\* BatchReservation.Commit of a current reservation, up to its pump().
Commit(c) ==
    /\ Goto(c, "held", "pump")
    /\ StillCurrent(c)
    /\ Release(c)
    /\ LET B == cbatch[c] IN
       /\ status' = [j \in Jobs |-> IF j \in B THEN "queued" ELSE status[j]]
       /\ jobConn' = [j \in Jobs |-> IF j \in B THEN cconn[c] ELSE jobConn[j]]
       /\ born' = [j \in Jobs |-> IF j \in B THEN cepoch[c] ELSE born[j]]
       /\ \E f \in Orders(B) :
             slot' = [j \in Jobs |-> IF j \in B THEN Cardinality(InQueue) + f[j] ELSE slot[j]]
    /\ UNCHANGED <<ctlVars, poolVars, parallelism, workVars, tailVars>>

-----------------------------------------------------------------------------
(* Changing listed jobs *)

\* Mutant: any settled job can be retried.
RetryAnySettled(c, S) ==
    /\ Goto(c, "retryCheck", "pump")
    /\ StillCurrent(c)
    /\ \A j \in S : status[j] \in Terminal /\ jobConn[j] = cconn[c]
    /\ status' = [j \in Jobs |-> IF j \in S THEN "queued" ELSE status[j]]
    /\ born' = [j \in Jobs |-> IF j \in S THEN cepoch[c] ELSE born[j]]
    /\ cgen' = [cgen EXCEPT ![c] = 0]
    /\ cepoch' = [cepoch EXCEPT ![c] = 0]
    /\ cconn' = [cconn EXCEPT ![c] = NoConn]
    /\ UNCHANGED <<slot, jobConn, ctlVars, reserved, poolVars, parallelism, workVars, tailVars,
                   cbatch>>

\* The second critical section of RetryBatch, for the jobs S.
Retry(c, S) ==
    /\ Goto(c, "retryCheck", "pump")
    /\ StillCurrent(c)
    /\ \A j \in S : status[j] \in {"failed", "cancelled"} /\ jobConn[j] = cconn[c]
    /\ status' = [j \in Jobs |-> IF j \in S THEN "queued" ELSE status[j]]
    /\ born' = [j \in Jobs |-> IF j \in S THEN cepoch[c] ELSE born[j]]
    /\ cgen' = [cgen EXCEPT ![c] = 0]
    /\ cepoch' = [cepoch EXCEPT ![c] = 0]
    /\ cconn' = [cconn EXCEPT ![c] = NoConn]
    /\ UNCHANGED <<slot, jobConn, ctlVars, reserved, poolVars, parallelism, workVars, tailVars,
                   cbatch>>

RetryRefused(c, S) ==
    /\ \/ ~StillCurrent(c)
       \/ \E j \in S : status[j] \notin {"failed", "cancelled"} \/ jobConn[j] # cconn[c]
    /\ Fail(c, "retryCheck")

\* CancelBatch: all of S is active, or nothing happens.
CancelBatch(S) ==
    /\ S \subseteq Queued \cup Running
    /\ status' = [j \in Jobs |-> IF j \in S \cap Queued THEN "cancelled" ELSE status[j]]
    /\ stopped' = stopped \cup (S \cap Running \cap cancels)
    /\ UNCHANGED <<slot, jobConn, born, ctlVars, reserved, poolVars, parallelism, wpc, left, err,
                   tailVars, callVars>>

\* ClearFinished: the jobs that stay keep their order and close the gaps.
ClearFinished ==
    LET Kept == InQueue \ WithStatus(Terminal) IN
    /\ status' = [j \in Jobs |-> IF status[j] \in Terminal THEN "fresh" ELSE status[j]]
    /\ slot' = [j \in Jobs |-> IF j \in Kept
                               THEN Cardinality({k \in Kept : slot[k] <= slot[j]}) ELSE 0]
    /\ jobConn' = [j \in Jobs |-> IF status[j] \in Terminal THEN NoConn ELSE jobConn[j]]
    /\ born' = [j \in Jobs |-> IF status[j] \in Terminal THEN 0 ELSE born[j]]
    /\ UNCHANGED <<ctlVars, reserved, poolVars, parallelism, workVars, tailVars, callVars>>

\* The queued job on one side of j that no other queued job separates from it.
Before(j, k) == /\ slot[k] < slot[j]
                /\ \A q \in Queued : ~(slot[k] < slot[q] /\ slot[q] < slot[j])
After(j, k)  == Before(k, j)

\* The destinations of MoveQueuedTop, Up, Down and Bottom.
Destinations(j) ==
    {d \in Queued : \/ \A q \in Queued : slot[d] <= slot[q]
                    \/ Before(j, d)
                    \/ After(j, d)
                    \/ \A q \in Queued : slot[q] <= slot[d]}

\* moveQueued: j takes the slot of d, the other queued jobs keep their order in
\* the queued slots that remain, and no other slot is touched.
MoveQueued(j) ==
    /\ ~closed
    /\ status[j] = "queued"
    /\ \E d \in Destinations(j) \ {j}, f \in [Queued -> {slot[q] : q \in Queued}] :
          /\ f[j] = slot[d]
          /\ \A p, q \in Queued : f[p] = f[q] => p = q
          /\ \A p, q \in Queued \ {j} : f[p] < f[q] <=> slot[p] < slot[q]
          /\ slot' = [q \in Jobs |-> IF q \in Queued THEN f[q] ELSE slot[q]]
    /\ UNCHANGED <<status, jobConn, born, ctlVars, reserved, poolVars, parallelism, workVars,
                   tailVars, callVars>>

-----------------------------------------------------------------------------
(* pump() and the goroutines it starts *)

\* S is what the loop of pump() takes: the first queued jobs, as many as fit.
Takes(S) ==
    /\ Cardinality(S) <= (IF running < parallelism THEN parallelism - running ELSE 0)
    /\ \A j \in S, k \in Queued \ S : slot[j] < slot[k]
    /\ S = Queued \/ running + Cardinality(S) >= parallelism

Start(S) ==
    /\ status' = [j \in Jobs |-> IF j \in S THEN "running" ELSE status[j]]
    /\ wpc' = [j \in Jobs |-> IF j \in S THEN "start" ELSE wpc[j]]
    /\ running' = running + Cardinality(S)
    /\ workers' = workers + Cardinality(S)
    /\ cancels' = cancels \cup S

PumpEffect ==
    /\ IF paused \/ closed \/ ~accepting
       THEN UNCHANGED <<status, wpc, poolVars>>
       ELSE \E S \in SUBSET Queued : Takes(S) /\ Start(S)
    /\ UNCHANGED <<slot, jobConn, born, ctlVars, reserved, parallelism, left, err, stopped>>

CallerPump(c) ==
    /\ Goto(c, "pump", "idle")
    /\ PumpEffect
    /\ UNCHANGED <<tailVars, cgen, cepoch, cbatch, cconn>>

WorkerStep(j, from, to) == wpc[j] = from /\ wpc' = [wpc EXCEPT ![j] = to]

WorkerUnchanged == UNCHANGED <<jobVars, ctlVars, reserved, poolVars, parallelism, stopped,
                               tailVars, callVars>>

\* The head of the loop, reached with n automatic retries left: a cancelled
\* context ends the loop, otherwise setAttempt precedes the attempt.
AttemptBegin(j, from, n) ==
    /\ IF j \in stopped
       THEN WorkerStep(j, from, "finish") /\ err' = [err EXCEPT ![j] = "cancel"]
       ELSE WorkerStep(j, from, "acquire") /\ UNCHANGED err
    /\ left' = [left EXCEPT ![j] = n]
    /\ WorkerUnchanged

\* execute() reads AutoRetryCount from the settings once, before its loop.
ExecuteBegin(j) == \E n \in 0..MaxRetries : AttemptBegin(j, "start", n)

\* waitRetryDelay ends, by its timer or by the context, and the loop continues.
RetryDelay(j) == AttemptBegin(j, "delay", left[j])

\* runAttempt obtains the session with Operation(ctx).
Acquire(j) ==
    /\ WorkerStep(j, "acquire", "transfer")
    /\ UNCHANGED <<left, err>>
    /\ WorkerUnchanged

\* What the loop does with the error e of an attempt.
AttemptEnds(j, from, e) ==
    /\ IF e = "retryable" /\ j \notin stopped /\ left[j] > 0
       THEN WorkerStep(j, from, "delay") /\ left' = [left EXCEPT ![j] = left[j] - 1]
       ELSE WorkerStep(j, from, "finish") /\ UNCHANGED left
    /\ err' = [err EXCEPT ![j] = e]
    /\ WorkerUnchanged

\* No session, or the local path has left its root: neither error is retryable.
AcquireFails(j) == AttemptEnds(j, "acquire", "plain")

\* Upload or Download returns; a panic is recovered as a plain error.
TransferEnds(j, e) == AttemptEnds(j, "transfer", e)

\* The status finishJob derives from the error, in its order of precedence.
FinalStatus(j) ==
    CASE err[j] = "uncertain" -> "failed"
      [] err[j] = "skip" -> "skipped"
      [] err[j] = "none" -> "done"
      [] err[j] = "cancel" -> "cancelled"
      [] OTHER -> IF j \in stopped THEN "cancelled" ELSE "failed"

\* Mutant: a cancelled transfer keeps its slot.
FinishJobLeakingSlot(j) ==
    /\ unwinding + exiting < MaxUnwinding
    /\ WorkerStep(j, "finish", "idle")
    /\ status' = [status EXCEPT ![j] = FinalStatus(j)]
    /\ cancels' = cancels \ {j}
    /\ running' = IF running > 0 /\ j \notin stopped THEN running - 1 ELSE running
    /\ stopped' = stopped \ {j}
    /\ left' = [left EXCEPT ![j] = 0]
    /\ err' = [err EXCEPT ![j] = "none"]
    /\ unwinding' = unwinding + 1
    /\ UNCHANGED <<slot, jobConn, born, ctlVars, reserved, workers, parallelism, exiting, callVars>>

\* Mutant: finishJob leaves a job whose context is cancelled as it is.
FinishJobUnlessStopped(j) ==
    /\ j \notin stopped
    /\ FinishJobLeakingSlot(j)

FinishJob(j) ==
    /\ unwinding + exiting < MaxUnwinding
    /\ WorkerStep(j, "finish", "idle")
    /\ status' = [status EXCEPT ![j] = FinalStatus(j)]
    /\ cancels' = cancels \ {j}
    /\ running' = IF running > 0 THEN running - 1 ELSE 0
    /\ stopped' = stopped \ {j}
    /\ left' = [left EXCEPT ![j] = 0]
    /\ err' = [err EXCEPT ![j] = "none"]
    /\ unwinding' = unwinding + 1
    /\ UNCHANGED <<slot, jobConn, born, ctlVars, reserved, workers, parallelism, exiting, callVars>>

\* The pump() a goroutine calls after finishJob.
WorkerPump ==
    /\ unwinding > 0
    /\ PumpEffect
    /\ unwinding' = unwinding - 1
    /\ exiting' = exiting + 1
    /\ UNCHANGED callVars

\* Mutant: workerExited looks for zero before it decrements, so nobody is released.
WorkerExitedSilent ==
    /\ exiting > 0
    /\ exiting' = exiting - 1
    /\ workers' = IF workers > 0 THEN workers - 1 ELSE 0
    /\ cpc' = [c \in Callers |-> IF workers = 0 /\ cpc[c] = "waiting" THEN "drained" ELSE cpc[c]]
    /\ UNCHANGED <<jobVars, ctlVars, reserved, running, cancels, parallelism, workVars, unwinding,
                   cgen, cepoch, cbatch, cconn>>

\* workerExited; closing workersIdle releases every caller that waits on it.
WorkerExited ==
    /\ exiting > 0
    /\ exiting' = exiting - 1
    /\ workers' = IF workers > 0 THEN workers - 1 ELSE 0
    /\ cpc' = [c \in Callers |-> IF workers = 1 /\ cpc[c] = "waiting" THEN "drained" ELSE cpc[c]]
    /\ UNCHANGED <<jobVars, ctlVars, reserved, running, cancels, parallelism, workVars, unwinding,
                   cgen, cepoch, cbatch, cconn>>

-----------------------------------------------------------------------------
(* Pausing, settings, connecting and disconnecting *)

Pause ==
    /\ ~closed /\ ~paused
    /\ paused' = TRUE
    /\ UNCHANGED <<jobVars, accepting, closed, generation, epoch, reserved, poolVars, parallelism,
                   workVars, tailVars, callVars>>

Resume(c) ==
    /\ ~closed /\ accepting /\ paused
    /\ paused' = FALSE
    /\ Goto(c, "idle", "pump")
    /\ UNCHANGED <<jobVars, accepting, closed, generation, epoch, reserved, poolVars, parallelism,
                   workVars, tailVars, cgen, cepoch, cbatch, cconn>>

\* Mutant: nobody is told that the settings changed.
ChangeSettingsSilently(c) ==
    /\ parallelism' \in (1..MaxParallelism) \ {parallelism}
    /\ cpc[c] = "idle"
    /\ UNCHANGED <<jobVars, ctlVars, reserved, poolVars, workVars, tailVars, callVars>>

\* Engine.SetSettings: the store changes, then SettingsChanged calls pump().
ChangeSettings(c) ==
    /\ parallelism' \in (1..MaxParallelism) \ {parallelism}
    /\ Goto(c, "idle", "pump")
    /\ UNCHANGED <<jobVars, ctlVars, reserved, poolVars, workVars, tailVars,
                   cgen, cepoch, cbatch, cconn>>

\* Mutant: a connect reopens a queue that was shut down.
EnableReopening(c) ==
    /\ generation < MaxGeneration
    /\ generation' = generation + 1
    /\ accepting' = TRUE /\ paused' = FALSE /\ closed' = FALSE
    /\ Goto(c, "idle", "pump")
    /\ UNCHANGED <<jobVars, epoch, reserved, poolVars, parallelism, workVars, tailVars,
                   cgen, cepoch, cbatch, cconn>>

Enable(c) ==
    /\ generation < MaxGeneration
    /\ ~closed
    /\ generation' = generation + 1
    /\ accepting' = TRUE /\ paused' = FALSE
    /\ Goto(c, "idle", "pump")
    /\ UNCHANGED <<jobVars, closed, epoch, reserved, poolVars, parallelism, workVars, tailVars,
                   cgen, cepoch, cbatch, cconn>>

\* The critical section DisableAndCancel and Shutdown share; S are the running
\* jobs whose cancel function it calls.
StopAll(c, S) ==
    /\ generation < MaxGeneration
    /\ generation' = generation + 1
    /\ epoch' = epoch + 1
    /\ accepting' = FALSE /\ paused' = TRUE
    /\ status' = [j \in Jobs |-> IF status[j] = "queued" THEN "cancelled" ELSE status[j]]
    /\ stopped' = stopped \cup S
    /\ Goto(c, "idle", "waitCheck")
    /\ cgen' = [cgen EXCEPT ![c] = generation + 1]
    /\ UNCHANGED <<slot, jobConn, born, reserved, poolVars, parallelism, wpc, left, err, tailVars,
                   cepoch, cbatch, cconn>>

DisableAndCancel(c) == StopAll(c, Running \cap cancels) /\ UNCHANGED closed
Shutdown(c) == StopAll(c, cancels) /\ closed' = TRUE

\* Mutant: the wait looks at running transfers instead of live goroutines.
WaitCheckRunning(c) ==
    /\ Goto(c, "waitCheck", IF running = 0 THEN "drained" ELSE "waiting")
    /\ UNCHANGED <<jobVars, ctlVars, reserved, poolVars, parallelism, workVars, tailVars,
                   cgen, cepoch, cbatch, cconn>>

\* waitWorkers: no worker now, or wait on the current workersIdle channel.
WaitCheck(c) ==
    /\ Goto(c, "waitCheck", IF workers = 0 THEN "drained" ELSE "waiting")
    /\ UNCHANGED <<jobVars, ctlVars, reserved, poolVars, parallelism, workVars, tailVars,
                   cgen, cepoch, cbatch, cconn>>

\* The caller's context ends first: waitWorkers returns its error.
WaitTimesOut(c) == Fail(c, "waiting")
\* waitWorkers returns nil.
WaitReturns(c) == Fail(c, "drained")

-----------------------------------------------------------------------------
CallerStep(c) ==
    \/ ReserveBegin(c) \/ RetryBegin(c) \/ LookupFails(c)
    \/ \E id \in Conns : LookupIdentity(c, id)
    \/ \E B \in SUBSET WithStatus({"fresh"}) \ {{}} : Reserve(c, B) \/ ReserveRefused(c, B)
    \/ DropReservation(c) \/ Commit(c)
    \/ \E S \in SUBSET Jobs \ {{}} : Retry(c, S) \/ RetryRefused(c, S)
    \/ CallerPump(c)
    \/ Resume(c) \/ ChangeSettings(c) \/ Enable(c)
    \/ DisableAndCancel(c) \/ Shutdown(c)
    \/ WaitCheck(c) \/ WaitTimesOut(c) \/ WaitReturns(c)

JobStep(j) ==
    \/ MoveQueued(j)
    \/ ExecuteBegin(j)
    \/ Acquire(j) \/ AcquireFails(j)
    \/ \E e \in Errors : TransferEnds(j, e)
    \/ RetryDelay(j) \/ FinishJob(j)

QueueStep ==
    \/ \E S \in SUBSET (Queued \cup Running) \ {{}} : CancelBatch(S)
    \/ ClearFinished \/ Pause
    \/ WorkerPump \/ WorkerExited

Next == (\E c \in Callers : CallerStep(c)) \/ (\E j \in Jobs : JobStep(j)) \/ QueueStep

Spec == Init /\ [][Next]_vars

(* The goroutines run: each worker, each pending pump and each caller inside a *)
(* method takes its next step.  A transfer is only assumed to end once its    *)
(* context is cancelled, since the transports watch it.                       *)
Fairness ==
    /\ \A j \in Jobs :
          /\ WF_vars(ExecuteBegin(j))
          /\ WF_vars(Acquire(j) \/ AcquireFails(j))
          /\ WF_vars(j \in stopped /\ \E e \in Errors : TransferEnds(j, e))
          /\ WF_vars(RetryDelay(j)) /\ WF_vars(FinishJob(j))
    /\ WF_vars(WorkerPump) /\ WF_vars(WorkerExited)
    /\ \A c \in Callers :
          /\ WF_vars(CallerPump(c)) /\ WF_vars(WaitCheck(c)) /\ WF_vars(WaitReturns(c))

FairSpec == Spec /\ Fairness

-----------------------------------------------------------------------------
(* What must hold *)

Places == {"idle", "start", "acquire", "transfer", "delay", "finish"}
CallerPlaces == {"idle", "reserveLookup", "reserveCheck", "held", "retryLookup", "retryCheck",
                 "pump", "waitCheck", "waiting", "drained"}

\* The types of the Manager's fields and of its goroutines' program counters.
TypeOK ==
    /\ status \in [Jobs -> {"fresh", "minted"} \cup Listed]
    /\ slot \in [Jobs -> Nat]
    /\ jobConn \in [Jobs -> Conns \cup {NoConn}]
    /\ born \in [Jobs -> Nat]
    /\ paused \in BOOLEAN /\ accepting \in BOOLEAN /\ closed \in BOOLEAN
    /\ generation \in Nat /\ epoch \in Nat
    /\ reserved \in Nat /\ running \in Nat /\ workers \in Nat
    /\ cancels \in SUBSET Jobs /\ stopped \in SUBSET Jobs
    /\ parallelism \in 1..MaxParallelism
    /\ wpc \in [Jobs -> Places]
    /\ left \in [Jobs -> 0..MaxRetries]
    /\ err \in [Jobs -> Errors]
    /\ unwinding \in Nat /\ exiting \in Nat
    /\ cpc \in [Callers -> CallerPlaces]
    /\ cgen \in [Callers -> Nat] /\ cepoch \in [Callers -> Nat]
    /\ cbatch \in [Callers -> SUBSET Jobs]
    /\ cconn \in [Callers -> Conns \cup {NoConn}]

\* m.running counts exactly the jobs shown as running, each of them has one
\* goroutine executing it and a cancel function, and no more than the largest
\* Parallelism run: no slot leaks on a panic, a cancellation or a retry.
SlotsAccounted ==
    /\ running = Cardinality(Running)
    /\ \A j \in Jobs : wpc[j] # "idle" <=> j \in Running
    /\ cancels = Running
    /\ running <= MaxParallelism

\* m.workers counts the live goroutines: those executing a job and those past
\* finishJob, so workersIdle closes exactly when the last of them leaves.
WorkersAccounted == workers = Cardinality(Running) + unwinding + exiting

\* m.reserved is the number of jobs in reservations that are still open, no two
\* reservations share a job, and queue plus reservations never exceed the limit.
CapacityRespected ==
    /\ reserved = Cardinality(Minted)
    /\ \A j \in Jobs : j \in Minted <=> \E c \in Callers : j \in cbatch[c]
    /\ \A c, d \in Callers : c # d => cbatch[c] \cap cbatch[d] = {}
    /\ Cardinality(InQueue) + reserved <= MaxJobs

\* The three counters a pump, a capacity check and waitWorkers go by are exact
\* together, on every path a job takes.
CountersExact == SlotsAccounted /\ WorkersAccounted /\ CapacityRespected

\* While the queue does not accept work nothing waits in it and everything that
\* still runs has been told to stop.
QuietWhenDisabled ==
    ~accepting => Queued = {} /\ Running \subseteq stopped

\* Work asked for before a disconnect is never runnable after it: a job that is
\* queued, or runs with a live context, was requested after the last
\* DisableAndCancel, whatever reservation, retry or reconnect came between.
NoWorkSurvivesDisconnect ==
    \A j \in Jobs : j \in Queued \cup (Running \ stopped) => born[j] = epoch

\* A disconnect ends all work of its connection.
DisconnectIsFinal == QuietWhenDisabled /\ NoWorkSurvivesDisconnect

\* No lost wake-up: if a queued job could start, some goroutine is about to pump.
NoLostPump ==
    (~paused /\ ~closed /\ accepting /\ Queued # {} /\ running < parallelism)
        => unwinding > 0 \/ \E c \in Callers : cpc[c] = "pump"

\* A nil result of waitWorkers is true when it is given: until the next Enable,
\* DisableAndCancel or Shutdown no goroutine of the queue is alive.
DrainedIsIdle ==
    \A c \in Callers : cpc[c] = "drained" /\ cgen[c] = generation => workers = 0

\* A settled transfer is history: it keeps its result until it is cleared or,
\* if failed or cancelled, retried; nothing but clearing moves it; and after Shutdown
\* nothing is queued or started again.
HistoryIsKept ==
    [][/\ \A j \in WithStatus(Terminal) :
             /\ status'[j] # status[j] =>
                   \/ status'[j] = "fresh"
                   \/ status[j] \in {"failed", "cancelled"} /\ status'[j] = "queued"
             /\ slot'[j] # slot[j] => \A k \in WithStatus(Terminal) : status'[k] = "fresh"
       /\ closed => closed' /\ Queued' = {} /\ Running' \subseteq Running]_vars

\* A transfer told to stop leaves the running state.
StopIsHonoured ==
    \A j \in Jobs : (j \in Running /\ j \in stopped) ~> (j \notin Running)

\* Disconnecting drains the workers unless a connect enables the queue meanwhile.
DisconnectDrains ==
    \A c \in Callers : (cpc[c] \in {"waitCheck", "waiting"}) ~> (cpc[c] = "idle" \/ accepting)
=============================================================================

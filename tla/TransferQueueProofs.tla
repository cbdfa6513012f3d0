------------------------ MODULE TransferQueueProofs ------------------------
(***************************************************************************)
(* Theorems about TransferQueue, for any number of jobs, callers, slots,   *)
(* retries and generations.                                                *)
(***************************************************************************)
EXTENDS TransferQueue, FiniteSetTheorems, TLAPS

LEMMA TypeInit == Init => TypeOK
<1> SUFFICES ASSUME Init PROVE TypeOK
  OBVIOUS
<1> USE ConstantsAssumption DEF ConstantsAssumption, Init
<1>1. /\ status \in [Jobs -> {"fresh", "minted"} \cup Listed]
      /\ slot \in [Jobs -> Nat]
      /\ jobConn \in [Jobs -> Conns \cup {NoConn}]
      /\ born \in [Jobs -> Nat]
  OBVIOUS
<1>2. /\ wpc \in [Jobs -> Places]
      /\ left \in [Jobs -> 0..MaxRetries]
      /\ err \in [Jobs -> Errors]
      /\ cancels \in SUBSET Jobs /\ stopped \in SUBSET Jobs
  BY DEF Places, Errors
<1>3. /\ cpc \in [Callers -> CallerPlaces]
      /\ cgen \in [Callers -> Nat] /\ cepoch \in [Callers -> Nat]
      /\ cbatch \in [Callers -> SUBSET Jobs]
      /\ cconn \in [Callers -> Conns \cup {NoConn}]
  BY DEF CallerPlaces
<1>. QED
  BY <1>1, <1>2, <1>3 DEF TypeOK

\* pump() starts finitely many jobs, all of them queued, and changes nothing else.
LEMMA PumpTypes ==
  ASSUME TypeOK, PumpEffect
  PROVE  /\ status' \in [Jobs -> {"fresh", "minted"} \cup Listed]
         /\ wpc' \in [Jobs -> Places]
         /\ running' \in Nat /\ workers' \in Nat /\ cancels' \in SUBSET Jobs
         /\ UNCHANGED <<slot, jobConn, born, ctlVars, reserved, parallelism, left, err, stopped>>
<1>1. CASE paused \/ closed \/ ~accepting
  BY <1>1 DEF PumpEffect, TypeOK, poolVars
<1>2. CASE ~(paused \/ closed \/ ~accepting)
  <2>1. PICK S \in SUBSET Queued : Start(S)
    BY <1>2 DEF PumpEffect
  <2>2. Cardinality(S) \in Nat
    BY FS_Subset, FS_CardinalityType, ConstantsAssumption
    DEF ConstantsAssumption, Queued, WithStatus
  <2>. QED
    BY <2>1, <2>2 DEF Start, PumpEffect, TypeOK, Listed, Places, Queued, WithStatus
<1>. QED
  BY <1>1, <1>2

LEMMA TypeNext == TypeOK /\ [Next]_vars => TypeOK'
<1> SUFFICES ASSUME TypeOK, [Next]_vars PROVE TypeOK'
  OBVIOUS
<1> USE ConstantsAssumption
    DEF ConstantsAssumption, TypeOK, Listed, Terminal, Errors, Places, CallerPlaces, Goto,
        jobVars, ctlVars, poolVars, workVars, tailVars, callVars
<1>1. ASSUME NEW c \in Callers, CallerStep(c) PROVE TypeOK'
  <2>1. CASE ReserveBegin(c) \/ RetryBegin(c)
    BY <2>1 DEF ReserveBegin, RetryBegin, CaptureGeneration
  <2>2. ASSUME NEW from \in CallerPlaces, Fail(c, from) PROVE TypeOK'
    BY <2>2 DEF Fail
  <2>3. ASSUME NEW id \in Conns, LookupIdentity(c, id) PROVE TypeOK'
    BY <2>3 DEF LookupIdentity
  <2>4. ASSUME NEW B \in SUBSET Jobs, Reserve(c, B) PROVE TypeOK'
    <3>1. Cardinality(B) \in Nat
      BY FS_Subset, FS_CardinalityType
    <3>. QED
      BY <2>4, <3>1 DEF Reserve
  <2>5. /\ Cardinality(cbatch[c]) \in Nat
        /\ Cardinality(InQueue) \in Nat
    BY FS_Subset, FS_CardinalityType DEF InQueue, WithStatus
  <2>6. CASE DropReservation(c)
    <3>1. reserved' \in Nat
      BY <2>5, <2>6 DEF DropReservation, Release
    <3>2. status' \in [Jobs -> {"fresh", "minted"} \cup Listed]
      BY <2>6 DEF DropReservation
    <3>. QED
      BY <2>6, <3>1, <3>2 DEF DropReservation, Release
  <2>7. CASE Commit(c)
    <3>1. reserved' \in Nat
      BY <2>5, <2>7 DEF Commit, Release
    <3>2. status' \in [Jobs -> {"fresh", "minted"} \cup Listed]
      BY <2>7 DEF Commit
    <3>3. slot' \in [Jobs -> Nat]
      BY <2>5, <2>7 DEF Commit, Orders
    <3>4. jobConn' \in [Jobs -> Conns \cup {NoConn}] /\ born' \in [Jobs -> Nat]
      BY <2>7 DEF Commit
    <3>. QED
      BY <2>7, <3>1, <3>2, <3>3, <3>4 DEF Commit, Release
  <2>8. ASSUME NEW S \in SUBSET Jobs, Retry(c, S) PROVE TypeOK'
    BY <2>8 DEF Retry
  <2>9. CASE CallerPump(c)
    BY <2>9, PumpTypes DEF CallerPump
  <2>10. CASE Resume(c) \/ ChangeSettings(c) \/ Enable(c)
    <3>1. CASE Resume(c)
      BY <3>1 DEF Resume
    <3>2. CASE ChangeSettings(c)
      BY <3>2 DEF ChangeSettings
    <3>3. CASE Enable(c)
      <4>1. paused' \in BOOLEAN /\ accepting' \in BOOLEAN /\ closed' \in BOOLEAN
        BY <3>3 DEF Enable
      <4>2. generation' \in Nat /\ cpc' \in [Callers -> CallerPlaces]
        BY <3>3 DEF Enable
      <4>. QED
        BY <3>3, <4>1, <4>2 DEF Enable
    <3>. QED
      BY <2>10, <3>1, <3>2, <3>3
  <2>11. CASE DisableAndCancel(c) \/ Shutdown(c)
    <3>1. closed' \in BOOLEAN
      BY <2>11 DEF DisableAndCancel, Shutdown
    <3>2. PICK S \in SUBSET Jobs : StopAll(c, S)
      BY <2>11 DEF DisableAndCancel, Shutdown, Running, WithStatus
    <3>. QED
      <4>1. paused' \in BOOLEAN /\ accepting' \in BOOLEAN
        BY <3>2 DEF StopAll
      <4>2. /\ generation' \in Nat /\ epoch' \in Nat /\ stopped' \in SUBSET Jobs
            /\ status' \in [Jobs -> {"fresh", "minted"} \cup Listed]
        BY <3>2 DEF StopAll
      <4>3. cpc' \in [Callers -> CallerPlaces] /\ cgen' \in [Callers -> Nat]
        BY <3>2 DEF StopAll
      <4>. QED
        BY <3>1, <3>2, <4>1, <4>2, <4>3 DEF StopAll
  <2>12. CASE WaitCheck(c)
    BY <2>12 DEF WaitCheck
  <2>. QED
    BY <1>1, <2>1, <2>2, <2>3, <2>4, <2>6, <2>7, <2>8, <2>9, <2>10, <2>11, <2>12
    DEF CallerStep, LookupFails, ReserveRefused, RetryRefused, WaitTimesOut, WaitReturns,
        WithStatus
<1>2. ASSUME NEW j \in Jobs, JobStep(j) PROVE TypeOK'
  <2>1. CASE MoveQueued(j)
    <3>1. PICK f \in [Queued -> {slot[q] : q \in Queued}] :
            slot' = [q \in Jobs |-> IF q \in Queued THEN f[q] ELSE slot[q]]
      BY <2>1 DEF MoveQueued
    <3>2. {slot[q] : q \in Queued} \subseteq Nat
      BY DEF Queued, WithStatus
    <3>. QED
      BY <2>1, <3>1, <3>2 DEF MoveQueued
  <2>2. ASSUME NEW from \in Places, NEW n \in 0..MaxRetries, AttemptBegin(j, from, n)
        PROVE TypeOK'
    BY <2>2 DEF AttemptBegin, WorkerStep, WorkerUnchanged
  <2>3. CASE RetryDelay(j)
    BY <2>2, <2>3 DEF RetryDelay
  <2>4. ASSUME NEW from \in Places, NEW e \in Errors, AttemptEnds(j, from, e) PROVE TypeOK'
    BY <2>4 DEF AttemptEnds, WorkerStep, WorkerUnchanged
  <2>5. CASE Acquire(j)
    BY <2>5 DEF Acquire, WorkerStep, WorkerUnchanged
  <2>6. CASE FinishJob(j)
    BY <2>6 DEF FinishJob, WorkerStep, FinalStatus
  <2>. QED
    BY <1>2, <2>1, <2>2, <2>3, <2>4, <2>5, <2>6
    DEF JobStep, ExecuteBegin, AcquireFails, TransferEnds
<1>3. ASSUME NEW S \in SUBSET Jobs, CancelBatch(S) PROVE TypeOK'
  BY <1>3 DEF CancelBatch
<1>4. CASE ClearFinished
  <2>1. \A j \in Jobs : Cardinality({k \in InQueue \ WithStatus(Terminal) : slot[k] <= slot[j]}) \in Nat
    BY FS_Subset, FS_CardinalityType DEF InQueue, WithStatus
  <2>. QED
    BY <1>4, <2>1 DEF ClearFinished
<1>5. CASE Pause
  BY <1>5 DEF Pause
<1>6. CASE WorkerPump
  BY <1>6, PumpTypes DEF WorkerPump
<1>7. CASE WorkerExited
  BY <1>7 DEF WorkerExited
<1>8. CASE UNCHANGED vars
  BY <1>8 DEF vars
<1>. QED
  BY <1>1, <1>2, <1>3, <1>4, <1>5, <1>6, <1>7, <1>8 DEF Next, QueueStep, Queued, Running, WithStatus

\* Every field of the Manager and every program counter keeps its type.
THEOREM TypeInvariant == Spec => []TypeOK
  BY TypeInit, TypeNext, PTL DEF Spec

-----------------------------------------------------------------------------
(* Capacity and slots *)

LEMMA FiniteParts ==
  ASSUME NEW S \in SUBSET Jobs
  PROVE  IsFiniteSet(S) /\ Cardinality(S) \in Nat
BY ConstantsAssumption, FS_Subset, FS_CardinalityType DEF ConstantsAssumption

LEMMA DisjointSum ==
  ASSUME NEW S \in SUBSET Jobs, NEW T \in SUBSET Jobs, S \cap T = {}
  PROVE  Cardinality(S \cup T) = Cardinality(S) + Cardinality(T)
<1>1. Cardinality(S \cup T) = Cardinality(S) + Cardinality(T) - Cardinality(S \cap T)
  BY FiniteParts, FS_Union
<1>2. Cardinality(S \cap T) = 0
  BY FS_EmptySet
<1>. QED
  BY <1>1, <1>2, FiniteParts

LEMMA Shrinks ==
  ASSUME NEW T \in SUBSET Jobs, NEW S \in SUBSET T
  PROVE  /\ Cardinality(S) <= Cardinality(T)
         /\ Cardinality(T \ S) = Cardinality(T) - Cardinality(S)
<1>1. Cardinality(S) <= Cardinality(T)
  BY FiniteParts, FS_Subset
<1>2. Cardinality(T) = Cardinality(S) + Cardinality(T \ S)
  <2>1. T = S \cup (T \ S) /\ S \in SUBSET Jobs /\ T \ S \in SUBSET Jobs
    OBVIOUS
  <2>. QED
    BY <2>1, DisjointSum
<1>. QED
  BY <1>1, <1>2, FiniteParts

\* The reservations that are open hold what is minted, and nothing twice.
BatchesAreMinted ==
    /\ \A j \in Jobs : j \in Minted <=> \E c \in Callers : j \in cbatch[c]
    /\ \A c, d \in Callers : c # d => cbatch[c] \cap cbatch[d] = {}
    /\ \A c \in Callers : cpc[c] # "held" => cbatch[c] = {}

\* The goroutines, the cancel functions and the cancelled contexts belong to
\* running jobs.  This is what the counters of the Manager count.
Ownership ==
    /\ BatchesAreMinted
    /\ \A j \in Jobs : wpc[j] # "idle" <=> j \in Running
    /\ cancels = Running
    /\ stopped \subseteq Running

LEMMA OwnershipInit == Init => Ownership
BY DEF Init, Ownership, BatchesAreMinted, Minted, Running, WithStatus

LEMMA OwnershipNext == TypeOK /\ Ownership /\ [Next]_vars => Ownership'
<1> SUFFICES ASSUME TypeOK, Ownership, [Next]_vars PROVE Ownership'
  OBVIOUS
<1> USE DEF Goto, WorkerStep, jobVars, ctlVars, poolVars, workVars, tailVars, callVars,
            Minted, Running, Queued, WithStatus
\* Most steps change none of the sets that Ownership relates.
<1> DEFINE Same == /\ \A j \in Jobs : (j \in Minted)' <=> j \in Minted
                   /\ \A j \in Jobs : (j \in Running)' <=> j \in Running
                   /\ \A j \in Jobs : wpc'[j] = "idle" <=> wpc[j] = "idle"
                   /\ UNCHANGED <<cbatch, cancels>>
                   /\ \A c \in Callers : cpc[c] = "held" => cpc'[c] = "held"
                   /\ stopped' \subseteq Running
<1>1. Same => Ownership'
  BY DEF Ownership, BatchesAreMinted, TypeOK
<1>2. ASSUME PumpEffect, cbatch' = cbatch,
             \A c \in Callers : cpc[c] = "held" => cpc'[c] = "held"
      PROVE  Ownership'
  <2>1. CASE paused \/ closed \/ ~accepting
    BY <1>1, <1>2, <2>1 DEF PumpEffect, Ownership
  <2>2. CASE ~(paused \/ closed \/ ~accepting)
    <3>1. PICK S \in SUBSET Queued : Start(S)
      BY <1>2, <2>2 DEF PumpEffect
    <3>2. /\ Running' = Running \cup S
          /\ Minted' = Minted
          /\ stopped' = stopped
      BY <1>2, <3>1 DEF PumpEffect, Start, TypeOK
    <3>. QED
      BY <1>2, <3>1, <3>2 DEF Start, Ownership, BatchesAreMinted, TypeOK
  <2>. QED
    BY <2>1, <2>2
<1>3. ASSUME NEW c \in Callers, CallerStep(c) PROVE Ownership'
  <2>1. ASSUME NEW from, from # "held", Fail(c, from) PROVE Ownership'
    BY <1>1, <2>1 DEF Fail, Ownership, TypeOK
  <2>2. ASSUME NEW B \in SUBSET WithStatus({"fresh"}), Reserve(c, B) PROVE Ownership'
    <3>1. /\ Minted' = Minted \cup B /\ Running' = Running /\ Minted \cap B = {}
          /\ UNCHANGED <<wpc, cancels, stopped>>
      BY <2>2 DEF Reserve, TypeOK
    <3>2. /\ cbatch' = [cbatch EXCEPT ![c] = B] /\ cbatch[c] = {}
          /\ cpc' = [cpc EXCEPT ![c] = "held"]
      BY <2>2 DEF Reserve, Ownership, BatchesAreMinted
    <3>3. \A j \in Jobs : j \in Minted' <=> \E d \in Callers : j \in cbatch'[d]
      BY <3>1, <3>2 DEF Ownership, BatchesAreMinted, TypeOK
    <3>4. \A d \in Callers : cbatch[d] \cap B = {}
      BY <3>1 DEF Ownership, BatchesAreMinted, TypeOK
    <3>5. \A a, d \in Callers : a # d => cbatch'[a] \cap cbatch'[d] = {}
      BY <3>2, <3>4 DEF Ownership, BatchesAreMinted, TypeOK
    <3>6. \A d \in Callers : cpc'[d] # "held" => cbatch'[d] = {}
      BY <3>2 DEF Ownership, BatchesAreMinted, TypeOK
    <3>. QED
      BY <3>1, <3>3, <3>5, <3>6 DEF Ownership, BatchesAreMinted
  <2>3. CASE DropReservation(c) \/ Commit(c)
    <3>1. cbatch[c] \subseteq Minted
      BY DEF Ownership, BatchesAreMinted, TypeOK
    <3>2. /\ Minted' = Minted \ cbatch[c] /\ Running' = Running
          /\ UNCHANGED <<wpc, cancels, stopped>>
      BY <2>3, <3>1 DEF DropReservation, Commit, TypeOK
    <3>3. cbatch' = [cbatch EXCEPT ![c] = {}] /\ \A d \in Callers \ {c} : cpc'[d] = cpc[d]
      BY <2>3 DEF DropReservation, Commit, Release, TypeOK
    <3>4. BatchesAreMinted'
      BY <3>2, <3>3 DEF Ownership, BatchesAreMinted, TypeOK
    <3>. QED
      BY <3>2, <3>4 DEF Ownership
  <2>4. ASSUME NEW S \in SUBSET Jobs, Retry(c, S) PROVE Ownership'
    BY <1>1, <2>4 DEF Retry, Ownership, TypeOK
  <2>5. CASE CallerPump(c)
    BY <1>2, <2>5 DEF CallerPump, TypeOK
  <2>6. CASE DisableAndCancel(c) \/ Shutdown(c)
    <3>1. PICK S \in SUBSET cancels : StopAll(c, S)
      BY <2>6 DEF DisableAndCancel, Shutdown
    <3>2. Same
      BY <3>1 DEF StopAll, Ownership, TypeOK
    <3>. QED
      BY <1>1, <3>2
  <2>7. CASE ReserveBegin(c) \/ RetryBegin(c) \/ WaitCheck(c)
    BY <1>1, <2>7 DEF ReserveBegin, RetryBegin, CaptureGeneration, WaitCheck, Ownership, TypeOK
  <2>8. CASE Resume(c) \/ ChangeSettings(c) \/ Enable(c)
    BY <1>1, <2>8 DEF Resume, ChangeSettings, Enable, Ownership, TypeOK
  <2>9. ASSUME NEW id \in Conns, LookupIdentity(c, id) PROVE Ownership'
    BY <1>1, <2>9 DEF LookupIdentity, Ownership, TypeOK
  <2>. QED
    BY <1>3, <2>1, <2>2, <2>3, <2>4, <2>5, <2>6, <2>7, <2>8, <2>9
    DEF CallerStep, LookupFails, ReserveRefused, RetryRefused, WaitTimesOut, WaitReturns
<1>4. ASSUME NEW j \in Jobs, JobStep(j) PROVE Ownership'
  <2>1. CASE FinishJob(j)
    <3>1. j \in Running
      BY <2>1 DEF FinishJob, Ownership
    <3>2. /\ Running' = Running \ {j} /\ Minted' = Minted
          /\ cancels' = cancels \ {j} /\ stopped' = stopped \ {j} /\ UNCHANGED <<cbatch, cpc>>
          /\ wpc' = [wpc EXCEPT ![j] = "idle"]
      BY <2>1, <3>1 DEF FinishJob, FinalStatus, TypeOK
    <3>. QED
      BY <3>2 DEF Ownership, BatchesAreMinted, TypeOK
  <2>2. ASSUME NEW from, NEW n, from # "idle", AttemptBegin(j, from, n) PROVE Ownership'
    BY <1>1, <2>2 DEF AttemptBegin, WorkerUnchanged, Ownership, TypeOK
  <2>3. ASSUME NEW from, NEW e, from # "idle", AttemptEnds(j, from, e) PROVE Ownership'
    BY <1>1, <2>3 DEF AttemptEnds, WorkerUnchanged, Ownership, TypeOK
  <2>4. CASE MoveQueued(j)
    BY <1>1, <2>4 DEF MoveQueued, Ownership
  <2>5. CASE Acquire(j)
    BY <1>1, <2>5 DEF Acquire, WorkerUnchanged, Ownership, TypeOK
  <2>. QED
    BY <1>4, <2>1, <2>2, <2>3, <2>4, <2>5
    DEF JobStep, ExecuteBegin, RetryDelay, AcquireFails, TransferEnds
<1>5. ASSUME NEW S, CancelBatch(S) PROVE Ownership'
  BY <1>1, <1>5 DEF CancelBatch, Ownership, TypeOK
<1>6. CASE ClearFinished \/ Pause \/ WorkerExited
  BY <1>1, <1>6 DEF ClearFinished, Pause, WorkerExited, Ownership, TypeOK, Terminal
<1>7. CASE WorkerPump
  BY <1>2, <1>7 DEF WorkerPump, TypeOK
<1>8. CASE UNCHANGED vars
  BY <1>1, <1>8 DEF vars, Ownership
<1>. QED
  BY <1>3, <1>4, <1>5, <1>6, <1>7, <1>8 DEF Next, QueueStep

LEMMA OwnershipInvariant == Spec => [](TypeOK /\ Ownership)
BY TypeInit, TypeNext, OwnershipInit, OwnershipNext, PTL DEF Spec

-----------------------------------------------------------------------------
(* What a step does to the pool: nothing, a pump, a job's end, or a goroutine's *)

\* No goroutine comes or goes, though one may have made its last pump.
TailsKept ==
    \/ unwinding' = unwinding /\ exiting' = exiting
    \/ unwinding > 0 /\ unwinding' = unwinding - 1 /\ exiting' = exiting + 1

PoolKept ==
    /\ Running' = Running
    /\ UNCHANGED poolVars
    /\ TailsKept

PoolPumped == \E S \in SUBSET Queued :
    /\ Takes(S)
    /\ Running' = Running \cup S
    /\ running' = running + Cardinality(S)
    /\ workers' = workers + Cardinality(S)
    /\ TailsKept

PoolFinished == \E j \in Running : FinishJob(j) /\ Running' = Running \ {j}

LEMMA PumpPool ==
  ASSUME TypeOK, PumpEffect
  PROVE  \/ Running' = Running /\ UNCHANGED poolVars
         \/ \E S \in SUBSET Queued :
               /\ Takes(S)
               /\ Running' = Running \cup S
               /\ running' = running + Cardinality(S)
               /\ workers' = workers + Cardinality(S)
<1> USE DEF Running, Queued, WithStatus
<1>1. CASE paused \/ closed \/ ~accepting
  BY <1>1 DEF PumpEffect
<1>2. CASE ~(paused \/ closed \/ ~accepting)
  <2>1. PICK S \in SUBSET Queued : Takes(S) /\ Start(S)
    BY <1>2 DEF PumpEffect
  <2>2. Running' = Running \cup S
    BY <2>1 DEF Start, TypeOK
  <2>. QED
    BY <2>1, <2>2 DEF Start
<1>. QED
  BY <1>1, <1>2

LEMMA PoolSteps ==
  ASSUME TypeOK, Ownership, [Next]_vars
  PROVE  \/ PoolKept \/ PoolPumped \/ PoolFinished
         \/ WorkerExited /\ Running' = Running
<1> USE DEF Goto, WorkerStep, jobVars, ctlVars, poolVars, workVars, tailVars, callVars,
            Running, Queued, WithStatus, TailsKept
<1>1. ASSUME NEW c \in Callers, CallerStep(c) PROVE PoolKept \/ PoolPumped
  <2> USE DEF PoolKept
  <2>1. ASSUME NEW from, Fail(c, from) PROVE PoolKept
    BY <2>1 DEF Fail
  <2>2. ASSUME NEW B \in SUBSET WithStatus({"fresh"}), Reserve(c, B) PROVE PoolKept
    BY <2>2 DEF Reserve, TypeOK
  <2>3. CASE DropReservation(c) \/ Commit(c)
    <3>1. cbatch[c] \subseteq Minted
      BY DEF Ownership, BatchesAreMinted, TypeOK
    <3>. QED
      BY <2>3, <3>1 DEF DropReservation, Commit, TypeOK, Minted
  <2>4. ASSUME NEW S \in SUBSET Jobs, Retry(c, S) PROVE PoolKept
    BY <2>4 DEF Retry, TypeOK
  <2>5. CASE CallerPump(c)
    BY <2>5, PumpPool DEF CallerPump, PoolPumped, TypeOK
  <2>6. ASSUME NEW S, StopAll(c, S) PROVE PoolKept
    BY <2>6 DEF StopAll, TypeOK
  <2>7. CASE ReserveBegin(c) \/ RetryBegin(c) \/ WaitCheck(c)
    BY <2>7 DEF ReserveBegin, RetryBegin, CaptureGeneration, WaitCheck
  <2>8. CASE Resume(c) \/ ChangeSettings(c) \/ Enable(c)
    BY <2>8 DEF Resume, ChangeSettings, Enable
  <2>9. ASSUME NEW id \in Conns, LookupIdentity(c, id) PROVE PoolKept
    BY <2>9 DEF LookupIdentity
  <2>. QED
    BY <1>1, <2>1, <2>2, <2>3, <2>4, <2>5, <2>6, <2>7, <2>8, <2>9
    DEF CallerStep, LookupFails, ReserveRefused, RetryRefused, WaitTimesOut, WaitReturns,
        DisableAndCancel, Shutdown
<1>2. ASSUME NEW j \in Jobs, JobStep(j) PROVE PoolKept \/ PoolFinished
  <2>1. CASE FinishJob(j)
    <3>1. j \in Running
      BY <2>1 DEF FinishJob, Ownership
    <3>2. Running' = Running \ {j}
      BY <2>1, <3>1 DEF FinishJob, FinalStatus, TypeOK
    <3>. QED
      BY <2>1, <3>1, <3>2 DEF PoolFinished
  <2>2. ASSUME NEW from, NEW n, AttemptBegin(j, from, n) PROVE PoolKept
    BY <2>2 DEF AttemptBegin, WorkerUnchanged, PoolKept
  <2>3. ASSUME NEW from, NEW e, AttemptEnds(j, from, e) PROVE PoolKept
    BY <2>3 DEF AttemptEnds, WorkerUnchanged, PoolKept
  <2>4. CASE MoveQueued(j) \/ Acquire(j)
    BY <2>4 DEF MoveQueued, Acquire, WorkerUnchanged, PoolKept
  <2>. QED
    BY <1>2, <2>1, <2>2, <2>3, <2>4
    DEF JobStep, ExecuteBegin, RetryDelay, AcquireFails, TransferEnds
<1>3. ASSUME NEW S, CancelBatch(S) PROVE PoolKept
  BY <1>3 DEF CancelBatch, PoolKept, TypeOK
<1>4. CASE ClearFinished \/ Pause \/ UNCHANGED vars
  BY <1>4 DEF ClearFinished, Pause, vars, PoolKept, Terminal, TypeOK
<1>5. CASE WorkerExited
  BY <1>5 DEF WorkerExited
<1>6. CASE WorkerPump
  BY <1>6, PumpPool DEF WorkerPump, PoolPumped, PoolKept, TypeOK
<1>. QED
  BY <1>1, <1>2, <1>3, <1>4, <1>5, <1>6 DEF Next, QueueStep

LEMMA SlotsNext ==
  ASSUME TypeOK, Ownership, SlotsAccounted, WorkersAccounted, [Next]_vars, Ownership', TypeOK'
  PROVE  SlotsAccounted' /\ WorkersAccounted'
<1>. /\ Running \in SUBSET Jobs /\ Cardinality(Running) \in Nat
     /\ Running' \in SUBSET Jobs /\ Cardinality(Running') \in Nat
  BY FiniteParts DEF Running, WithStatus
<1>0. /\ unwinding \in Nat /\ exiting \in Nat /\ unwinding' \in Nat /\ exiting' \in Nat
      /\ workers \in Nat /\ running \in Nat /\ workers' \in Nat /\ running' \in Nat
  BY DEF TypeOK
<1>1. CASE PoolKept
  BY <1>0, <1>1 DEF PoolKept, TailsKept, poolVars, SlotsAccounted, WorkersAccounted, Ownership
<1>2. CASE PoolPumped
  <2>1. PICK S \in SUBSET Queued :
          /\ Takes(S)
          /\ Running' = Running \cup S
          /\ running' = running + Cardinality(S)
          /\ workers' = workers + Cardinality(S)
          /\ TailsKept
    BY <1>2 DEF PoolPumped
  <2>2. S \in SUBSET Jobs /\ Running \cap S = {} /\ Cardinality(S) \in Nat
    BY FiniteParts DEF Queued, Running, WithStatus
  <2>3. Cardinality(Running') = Cardinality(Running) + Cardinality(S)
    BY <2>1, <2>2, DisjointSum
  <2>4. running' <= MaxParallelism
    BY <2>1, <2>2, ConstantsAssumption
    DEF Takes, TypeOK, SlotsAccounted, ConstantsAssumption
  <2>. QED
    <3>1. SlotsAccounted'
      BY <2>1, <2>3, <2>4 DEF SlotsAccounted, Ownership
    <3>2. WorkersAccounted'
      <4>1. /\ workers' = workers + Cardinality(S)
            /\ TailsKept
        BY <2>1
      <4>. QED
        BY <1>0, <2>2, <2>3, <4>1 DEF WorkersAccounted, TailsKept
    <3>. QED
      BY <3>1, <3>2
<1>3. CASE PoolFinished
  <2>1. PICK j \in Running : FinishJob(j) /\ Running' = Running \ {j}
    BY <1>3 DEF PoolFinished
  <2>2. Cardinality(Running') = Cardinality(Running) - 1
    BY <2>1, FS_RemoveElement, FiniteParts
  <2>3. running > 0 /\ Cardinality(Running') \in Nat
    BY <2>1, <2>2, FiniteParts, FS_EmptySet DEF SlotsAccounted
  <2>4. running' = running - 1 /\ workers' = workers /\ unwinding' = unwinding + 1 /\ exiting' = exiting
    BY <2>1, <2>3 DEF FinishJob, TypeOK
  <2>. QED
    <3>1. SlotsAccounted'
      BY <2>2, <2>3, <2>4, ConstantsAssumption DEF SlotsAccounted, Ownership, ConstantsAssumption
    <3>2. WorkersAccounted'
      BY <1>0, <2>2, <2>4 DEF WorkersAccounted
    <3>. QED
      BY <3>1, <3>2
<1>4. CASE WorkerExited /\ Running' = Running
  <2>1. workers > 0
    BY <1>4 DEF WorkersAccounted, WorkerExited, TypeOK
  <2>. QED
    BY <1>4, <2>1 DEF WorkerExited, SlotsAccounted, WorkersAccounted, Ownership, TypeOK
<1>. QED
  BY <1>1, <1>2, <1>3, <1>4, PoolSteps

\* Every parallelism slot in use is held by a running job with one live
\* goroutine and a cancel function, and m.workers counts the live goroutines.
THEOREM SlotAccounting == Spec => [](SlotsAccounted /\ WorkersAccounted)
<1>1. Init => SlotsAccounted /\ WorkersAccounted
  <2>1. Init => Running = {}
    BY DEF Init, Running, WithStatus
  <2>. QED
    BY <2>1, FS_EmptySet, ConstantsAssumption
    DEF Init, SlotsAccounted, WorkersAccounted, ConstantsAssumption
<1>. QED
  BY <1>1, OwnershipInvariant, SlotsNext, PTL DEF Spec

-----------------------------------------------------------------------------
(* No lost wake-up *)

LEMMA PumpNotLost ==
  ASSUME TypeOK, PumpEffect
  PROVE  \/ paused' \/ closed' \/ ~accepting'
         \/ Queued' = {} \/ running' >= parallelism'
<1> USE DEF Queued, WithStatus, ctlVars
<1>1. CASE paused \/ closed \/ ~accepting
  BY <1>1 DEF PumpEffect
<1>2. CASE ~(paused \/ closed \/ ~accepting)
  <2>1. PICK S \in SUBSET Queued : Takes(S) /\ Start(S)
    BY <1>2 DEF PumpEffect
  <2>2. CASE S = Queued
    BY <2>1, <2>2 DEF Start, TypeOK
  <2>3. CASE running + Cardinality(S) >= parallelism
    BY <2>1, <2>3 DEF Start, PumpEffect
  <2>. QED
    BY <2>1, <2>2, <2>3 DEF Takes
<1>. QED
  BY <1>1, <1>2

LEMMA PumpNext == TypeOK /\ NoLostPump /\ [Next]_vars => NoLostPump'
<1> SUFFICES ASSUME TypeOK, NoLostPump, [Next]_vars PROVE NoLostPump'
  OBVIOUS
<1> USE DEF Goto, WorkerStep, jobVars, ctlVars, poolVars, workVars, tailVars, callVars,
            Queued, WithStatus
\* A step that makes no job eligible and takes no pump away.
<1> DEFINE Harmless == /\ \A j \in Jobs : (j \in Queued)' => j \in Queued
                       /\ UNCHANGED <<paused, closed, accepting, running, parallelism>>
                       /\ unwinding' = unwinding
                       /\ \A c \in Callers : cpc[c] = "pump" => cpc'[c] = "pump"
<1>1. Harmless => NoLostPump'
  BY DEF NoLostPump, TypeOK
<1>2. ASSUME NEW c \in Callers, cpc' = [cpc EXCEPT ![c] = "pump"] PROVE NoLostPump'
  BY <1>2 DEF NoLostPump, TypeOK
<1>3. ASSUME PumpEffect PROVE NoLostPump'
  <2>1. running' \in Nat /\ parallelism' \in Nat
    BY <1>3, PumpTypes, ConstantsAssumption DEF TypeOK, ConstantsAssumption
  <2>. QED
    BY <1>3, <2>1, PumpNotLost DEF NoLostPump
<1>4. ASSUME NEW c \in Callers, CallerStep(c) PROVE NoLostPump'
  <2>1. ASSUME NEW from, from # "pump", Fail(c, from) PROVE NoLostPump'
    BY <1>1, <2>1 DEF Fail, TypeOK
  <2>2. ASSUME NEW B \in SUBSET Jobs, Reserve(c, B) PROVE NoLostPump'
    BY <1>1, <2>2 DEF Reserve, TypeOK
  <2>3. CASE DropReservation(c)
    BY <1>1, <2>3 DEF DropReservation, Release, TypeOK
  <2>4. CASE Commit(c) \/ \E S \in SUBSET Jobs : Retry(c, S)
    BY <1>2, <2>4 DEF Commit, Retry
  <2>5. CASE Resume(c) \/ ChangeSettings(c) \/ Enable(c)
    BY <1>2, <2>5 DEF Resume, ChangeSettings, Enable
  <2>6. ASSUME NEW S, StopAll(c, S) PROVE NoLostPump'
    BY <2>6 DEF StopAll, NoLostPump
  <2>7. CASE ReserveBegin(c) \/ RetryBegin(c) \/ WaitCheck(c)
    BY <1>1, <2>7 DEF ReserveBegin, RetryBegin, CaptureGeneration, WaitCheck, TypeOK
  <2>8. ASSUME NEW id \in Conns, LookupIdentity(c, id) PROVE NoLostPump'
    BY <1>1, <2>8 DEF LookupIdentity, TypeOK
  <2>9. CASE CallerPump(c)
    BY <1>3, <2>9 DEF CallerPump
  <2>. QED
    BY <1>4, <2>1, <2>2, <2>3, <2>4, <2>5, <2>6, <2>7, <2>8, <2>9
    DEF CallerStep, LookupFails, ReserveRefused, RetryRefused, WaitTimesOut, WaitReturns,
        DisableAndCancel, Shutdown
<1>5. ASSUME NEW j \in Jobs, JobStep(j) PROVE NoLostPump'
  <2>1. CASE FinishJob(j)
    BY <2>1 DEF FinishJob, NoLostPump, TypeOK
  <2>2. ASSUME NEW from, NEW n, AttemptBegin(j, from, n) PROVE NoLostPump'
    BY <1>1, <2>2 DEF AttemptBegin, WorkerUnchanged
  <2>3. ASSUME NEW from, NEW e, AttemptEnds(j, from, e) PROVE NoLostPump'
    BY <1>1, <2>3 DEF AttemptEnds, WorkerUnchanged
  <2>4. CASE MoveQueued(j) \/ Acquire(j)
    BY <1>1, <2>4 DEF MoveQueued, Acquire, WorkerUnchanged
  <2>. QED
    BY <1>5, <2>1, <2>2, <2>3, <2>4
    DEF JobStep, ExecuteBegin, RetryDelay, AcquireFails, TransferEnds
<1>6. ASSUME NEW S, CancelBatch(S) PROVE NoLostPump'
  BY <1>1, <1>6 DEF CancelBatch, TypeOK
<1>7. CASE ClearFinished \/ WorkerExited \/ UNCHANGED vars
  BY <1>1, <1>7 DEF ClearFinished, WorkerExited, vars, TypeOK
<1>8. CASE Pause
  BY <1>8 DEF Pause, NoLostPump
<1>9. CASE WorkerPump
  BY <1>3, <1>9 DEF WorkerPump
<1>. QED
  BY <1>4, <1>5, <1>6, <1>7, <1>8, <1>9 DEF Next, QueueStep

\* Whenever a queued job could start, a goroutine that will call pump() exists,
\* whatever combination of commits, retries, resumes, reconnects, settings
\* changes and finished jobs led there.
THEOREM NoLostWakeup == Spec => []NoLostPump
<1>1. Init => NoLostPump
  BY DEF Init, NoLostPump, Queued, WithStatus
<1>. QED
  BY <1>1, TypeInvariant, PumpNext, PTL DEF Spec

-----------------------------------------------------------------------------
(* Disconnecting *)

\* A caller between its two critical sections whose generation is still the
\* current one has seen no disconnect in between.
GenerationBindsEpoch ==
    \A c \in Callers :
        cpc[c] \in {"reserveLookup", "reserveCheck", "held", "retryLookup", "retryCheck"} =>
            /\ cgen[c] <= generation
            /\ cgen[c] = generation => cepoch[c] = epoch

Binding == QuietWhenDisabled /\ NoWorkSurvivesDisconnect /\ GenerationBindsEpoch

LEMMA BindingNext ==
  TypeOK /\ Ownership /\ Binding /\ [Next]_vars => Binding'
<1> SUFFICES ASSUME TypeOK, Ownership, Binding, [Next]_vars PROVE Binding'
  OBVIOUS
<1> USE DEF Goto, WorkerStep, jobVars, ctlVars, poolVars, workVars, tailVars, callVars,
            Queued, Running, WithStatus
\* A step after which no more is queued, running or alive than before.
<1> DEFINE Harmless ==
      /\ \A j \in Jobs : /\ (j \in Queued)' => j \in Queued
                         /\ (j \in Running)' => j \in Running /\ (j \in stopped => j \in stopped')
                         /\ j \in (Queued \cup Running)' => born'[j] = born[j]
      /\ UNCHANGED <<accepting, generation, epoch>>
    Bound(c) == cpc'[c] \in {"reserveLookup", "reserveCheck", "held", "retryLookup", "retryCheck"}
                   => /\ cpc[c] \in {"reserveLookup", "reserveCheck", "held",
                                     "retryLookup", "retryCheck"}
                      /\ cgen'[c] = cgen[c] /\ cepoch'[c] = cepoch[c]
<1>1. ASSUME Harmless PROVE QuietWhenDisabled' /\ NoWorkSurvivesDisconnect'
  BY <1>1 DEF Binding, QuietWhenDisabled, NoWorkSurvivesDisconnect
<1>2. ASSUME \A c \in Callers : Bound(c), UNCHANGED <<generation, epoch>>
      PROVE  GenerationBindsEpoch'
  BY <1>2 DEF Binding, GenerationBindsEpoch
<1>3. ASSUME PumpEffect PROVE QuietWhenDisabled' /\ NoWorkSurvivesDisconnect'
  <2>1. CASE paused \/ closed \/ ~accepting
    BY <1>1, <1>3, <2>1 DEF PumpEffect
  <2>2. CASE ~(paused \/ closed \/ ~accepting)
    <3>1. PICK S \in SUBSET Queued : Start(S)
      BY <1>3, <2>2 DEF PumpEffect
    <3>. QED
      BY <1>3, <2>2, <3>1
      DEF Start, PumpEffect, TypeOK, Binding, QuietWhenDisabled, NoWorkSurvivesDisconnect
  <2>. QED
    BY <2>1, <2>2
<1>4. ASSUME NEW c \in Callers, CallerStep(c) PROVE Binding'
  <2>1. ASSUME NEW from, Fail(c, from) PROVE Binding'
    BY <1>1, <1>2, <2>1 DEF Fail, TypeOK, Binding
  <2>2. ASSUME NEW B \in SUBSET WithStatus({"fresh"}), Reserve(c, B) PROVE Binding'
    BY <1>1, <1>2, <2>2 DEF Reserve, TypeOK, Binding
  <2>3. CASE DropReservation(c)
    BY <1>1, <1>2, <2>3 DEF DropReservation, Release, TypeOK, Binding
  <2>4. CASE Commit(c)
    <3>1. GenerationBindsEpoch'
      BY <1>2, <2>4 DEF Commit, Release, TypeOK
    <3>2. cepoch[c] = epoch
      BY <2>4 DEF Commit, StillCurrent, Binding, GenerationBindsEpoch
    <3>3. QuietWhenDisabled' /\ NoWorkSurvivesDisconnect'
      BY <2>4, <3>2
      DEF Commit, StillCurrent, TypeOK, Binding, QuietWhenDisabled, NoWorkSurvivesDisconnect
    <3>. QED
      BY <3>1, <3>3 DEF Binding
  <2>5. ASSUME NEW S \in SUBSET Jobs, Retry(c, S) PROVE Binding'
    <3>1. GenerationBindsEpoch'
      BY <1>2, <2>5 DEF Retry, TypeOK
    <3>2. cepoch[c] = epoch
      BY <2>5 DEF Retry, StillCurrent, Binding, GenerationBindsEpoch
    <3>3. QuietWhenDisabled' /\ NoWorkSurvivesDisconnect'
      BY <2>5, <3>2
      DEF Retry, StillCurrent, TypeOK, Binding, QuietWhenDisabled, NoWorkSurvivesDisconnect
    <3>. QED
      BY <3>1, <3>3 DEF Binding
  <2>6. CASE Resume(c) \/ ChangeSettings(c)
    BY <1>1, <1>2, <2>6 DEF Resume, ChangeSettings, TypeOK, Binding
  <2>7. CASE Enable(c)
    BY <2>7 DEF Enable, TypeOK, Binding, QuietWhenDisabled, NoWorkSurvivesDisconnect,
                GenerationBindsEpoch
  <2>8. CASE DisableAndCancel(c) \/ Shutdown(c)
    <3>1. PICK S : StopAll(c, S) /\ S = Running
      BY <2>8 DEF DisableAndCancel, Shutdown, Ownership
    <3>2. Queued' = {} /\ Running' = Running /\ Running \subseteq stopped'
      BY <3>1 DEF StopAll, TypeOK
    <3>3. GenerationBindsEpoch'
      BY <3>1 DEF StopAll, TypeOK, Binding, GenerationBindsEpoch
    <3>. QED
      BY <3>2, <3>3 DEF Binding, QuietWhenDisabled, NoWorkSurvivesDisconnect
  <2>9. CASE ReserveBegin(c) \/ RetryBegin(c)
    BY <1>1, <2>9 DEF ReserveBegin, RetryBegin, CaptureGeneration, TypeOK, Binding,
                      GenerationBindsEpoch
  <2>10. CASE WaitCheck(c)
    BY <1>1, <1>2, <2>10 DEF WaitCheck, TypeOK, Binding
  <2>11. ASSUME NEW id \in Conns, LookupIdentity(c, id) PROVE Binding'
    BY <1>1, <1>2, <2>11 DEF LookupIdentity, TypeOK, Binding
  <2>12. CASE CallerPump(c)
    BY <1>2, <1>3, <2>12 DEF CallerPump, PumpEffect, TypeOK, Binding
  <2>. QED
    BY <1>4, <2>1, <2>2, <2>3, <2>4, <2>5, <2>6, <2>7, <2>8, <2>9, <2>10, <2>11, <2>12
    DEF CallerStep, LookupFails, ReserveRefused, RetryRefused, WaitTimesOut, WaitReturns
<1>5. ASSUME NEW j \in Jobs, JobStep(j) PROVE Binding'
  <2>1. CASE FinishJob(j)
    BY <1>1, <1>2, <2>1 DEF FinishJob, FinalStatus, TypeOK, Binding
  <2>2. ASSUME NEW from, NEW n, AttemptBegin(j, from, n) PROVE Binding'
    BY <1>1, <1>2, <2>2 DEF AttemptBegin, WorkerUnchanged, Binding
  <2>3. ASSUME NEW from, NEW e, AttemptEnds(j, from, e) PROVE Binding'
    BY <1>1, <1>2, <2>3 DEF AttemptEnds, WorkerUnchanged, Binding
  <2>4. CASE MoveQueued(j) \/ Acquire(j)
    BY <1>1, <1>2, <2>4 DEF MoveQueued, Acquire, WorkerUnchanged, Binding
  <2>. QED
    BY <1>5, <2>1, <2>2, <2>3, <2>4
    DEF JobStep, ExecuteBegin, RetryDelay, AcquireFails, TransferEnds
<1>6. ASSUME NEW S, CancelBatch(S) PROVE Binding'
  BY <1>1, <1>2, <1>6 DEF CancelBatch, TypeOK, Binding
<1>7. CASE ClearFinished \/ Pause \/ WorkerExited \/ UNCHANGED vars
  BY <1>1, <1>2, <1>7 DEF ClearFinished, Pause, WorkerExited, vars, TypeOK, Binding, Terminal
<1>8. CASE WorkerPump
  BY <1>2, <1>3, <1>8 DEF WorkerPump, PumpEffect, Binding
<1>. QED
  BY <1>4, <1>5, <1>6, <1>7, <1>8 DEF Next, QueueStep

\* A disabled queue is quiet, and no work asked for before a disconnect becomes
\* or stays runnable after it: the generation check of ReserveBatch, Commit and
\* RetryBatch is enough, whatever happens between their critical sections.
THEOREM DisconnectEndsWork == Spec => []DisconnectIsFinal
<1>1. Init => Binding
  BY DEF Init, Binding, QuietWhenDisabled, NoWorkSurvivesDisconnect, GenerationBindsEpoch,
         Queued, Running, WithStatus
<1>2. Binding => DisconnectIsFinal
  BY DEF Binding, DisconnectIsFinal
<1>. QED
  BY <1>1, <1>2, OwnershipInvariant, BindingNext, PTL DEF Spec

-----------------------------------------------------------------------------
(* Capacity *)

\* A step that leaves the reservations alone and lists no new job.
SameLoad ==
    /\ \A j \in Jobs : (j \in Minted)' <=> j \in Minted
    /\ \A j \in Jobs : (j \in InQueue)' => j \in InQueue
    /\ UNCHANGED reserved

LEMMA SameLoadKeepsCapacity ==
  ASSUME TypeOK, CapacityRespected, SameLoad, Ownership'
  PROVE  CapacityRespected'
<1>1. Minted' = Minted /\ InQueue' \subseteq InQueue /\ InQueue \subseteq Jobs
  BY DEF SameLoad, Minted, InQueue, WithStatus
<1>2. Cardinality(InQueue') <= Cardinality(InQueue)
  BY <1>1, Shrinks
<1>3. Cardinality(InQueue) \in Nat /\ Cardinality(InQueue') \in Nat
  BY <1>1, FiniteParts
<1>4. reserved' = Cardinality(Minted') /\ reserved' = reserved
  BY <1>1 DEF CapacityRespected, SameLoad
<1>5. Cardinality(InQueue') + reserved' <= MaxJobs
  BY <1>2, <1>3, <1>4, ConstantsAssumption
  DEF CapacityRespected, TypeOK, ConstantsAssumption
<1>. QED
  BY <1>4, <1>5 DEF CapacityRespected, Ownership, BatchesAreMinted

LEMMA CapacityNext ==
  ASSUME TypeOK, Ownership, CapacityRespected, [Next]_vars, Ownership'
  PROVE  CapacityRespected'
<1> USE DEF Goto, WorkerStep, jobVars, ctlVars, poolVars, workVars, tailVars, callVars
<1>0. /\ Minted \in SUBSET Jobs /\ InQueue \in SUBSET Jobs
      /\ Cardinality(Minted) \in Nat /\ Cardinality(InQueue) \in Nat
  BY FiniteParts DEF Minted, InQueue, WithStatus
<1>1. ASSUME NEW c \in Callers, NEW B \in SUBSET WithStatus({"fresh"}), Reserve(c, B)
      PROVE  CapacityRespected'
  <2>1. /\ Minted' = Minted \cup B /\ InQueue' = InQueue
        /\ Minted \cap B = {} /\ B \in SUBSET Jobs
    BY <1>1 DEF Reserve, Minted, InQueue, WithStatus, TypeOK, Listed, Terminal
  <2>2. Cardinality(Minted') = Cardinality(Minted) + Cardinality(B) /\ Cardinality(B) \in Nat
    BY <1>0, <2>1, DisjointSum, FiniteParts
  <2>3. reserved' = reserved + Cardinality(B) /\ Room(B)
    BY <1>1 DEF Reserve
  <2>4. reserved' = Cardinality(Minted')
    BY <2>2, <2>3 DEF CapacityRespected
  <2>5. Cardinality(InQueue') + reserved' <= MaxJobs
    BY <1>0, <2>1, <2>2, <2>3 DEF CapacityRespected, Room
  <2>. QED
    BY <2>4, <2>5 DEF CapacityRespected, Ownership, BatchesAreMinted
<1>2. ASSUME NEW c \in Callers, DropReservation(c) \/ Commit(c)
      PROVE  CapacityRespected'
  <2> DEFINE B == cbatch[c]
  <2>1. B \in SUBSET Minted /\ B \in SUBSET Jobs
    BY DEF Ownership, BatchesAreMinted, TypeOK
  <2>2. /\ Minted' = Minted \ B
        /\ InQueue' = InQueue \/ InQueue' = InQueue \cup B
        /\ InQueue \cap B = {}
    BY <1>2, <2>1 DEF DropReservation, Commit, Minted, InQueue, WithStatus, TypeOK, Listed, Terminal
  <2>3. /\ Cardinality(Minted') = Cardinality(Minted) - Cardinality(B)
        /\ Cardinality(B) <= Cardinality(Minted)
        /\ Cardinality(B) \in Nat
    BY <1>0, <2>1, <2>2, Shrinks, FiniteParts
  <2>4. \/ Cardinality(InQueue') = Cardinality(InQueue)
        \/ Cardinality(InQueue') = Cardinality(InQueue) + Cardinality(B)
    BY <1>0, <2>1, <2>2, DisjointSum
  <2>5. reserved' = reserved - Cardinality(B)
    BY <1>2, <2>3 DEF DropReservation, Commit, Release, CapacityRespected
  <2>6. reserved' = Cardinality(Minted')
    BY <2>3, <2>5 DEF CapacityRespected
  <2>7. Cardinality(InQueue') + reserved' <= MaxJobs
    BY <1>0, <2>3, <2>4, <2>5, ConstantsAssumption DEF CapacityRespected, ConstantsAssumption
  <2>. QED
    BY <2>6, <2>7 DEF CapacityRespected, Ownership, BatchesAreMinted
<1>3. ASSUME PumpEffect PROVE SameLoad
  BY <1>3 DEF PumpEffect, Start, SameLoad, Minted, InQueue, Queued, WithStatus, TypeOK, Listed,
              Terminal
<1>4. ASSUME NEW c \in Callers, CallerStep(c) PROVE CapacityRespected'
  <2> USE DEF SameLoad, Minted, InQueue, WithStatus, Listed, Terminal
  <2>1. ASSUME NEW from, Fail(c, from) PROVE SameLoad
    BY <2>1 DEF Fail
  <2>2. ASSUME NEW S \in SUBSET Jobs, Retry(c, S) PROVE SameLoad
    BY <2>2 DEF Retry, TypeOK
  <2>3. CASE CallerPump(c)
    BY <1>3, <2>3, SameLoadKeepsCapacity DEF CallerPump
  <2>4. ASSUME NEW S, StopAll(c, S) PROVE SameLoad
    BY <2>4 DEF StopAll, TypeOK
  <2>5. CASE ReserveBegin(c) \/ RetryBegin(c) \/ WaitCheck(c)
    BY <2>5, SameLoadKeepsCapacity DEF ReserveBegin, RetryBegin, CaptureGeneration, WaitCheck
  <2>6. CASE Resume(c) \/ ChangeSettings(c) \/ Enable(c)
    BY <2>6, SameLoadKeepsCapacity DEF Resume, ChangeSettings, Enable
  <2>7. ASSUME NEW id \in Conns, LookupIdentity(c, id) PROVE SameLoad
    BY <2>7 DEF LookupIdentity
  <2>. QED
    BY <1>1, <1>2, <1>4, <2>1, <2>2, <2>3, <2>4, <2>5, <2>6, <2>7, SameLoadKeepsCapacity
    DEF CallerStep, LookupFails, ReserveRefused, RetryRefused, WaitTimesOut, WaitReturns,
        DisableAndCancel, Shutdown
<1>5. ASSUME NEW j \in Jobs, JobStep(j) PROVE SameLoad
  <2> USE DEF SameLoad, Minted, InQueue, WithStatus, Listed, Terminal
  <2>1. CASE FinishJob(j)
    <3>1. j \in Running
      BY <2>1 DEF FinishJob, Ownership
    <3>. QED
      BY <2>1, <3>1 DEF FinishJob, FinalStatus, TypeOK, Running
  <2>2. ASSUME NEW from, NEW n, AttemptBegin(j, from, n) PROVE SameLoad
    BY <2>2 DEF AttemptBegin, WorkerUnchanged
  <2>3. ASSUME NEW from, NEW e, AttemptEnds(j, from, e) PROVE SameLoad
    BY <2>3 DEF AttemptEnds, WorkerUnchanged
  <2>4. CASE MoveQueued(j) \/ Acquire(j)
    BY <2>4 DEF MoveQueued, Acquire, WorkerUnchanged
  <2>. QED
    BY <1>5, <2>1, <2>2, <2>3, <2>4
    DEF JobStep, ExecuteBegin, RetryDelay, AcquireFails, TransferEnds
<1>6. ASSUME NEW S, CancelBatch(S) PROVE SameLoad
  BY <1>6 DEF CancelBatch, SameLoad, Minted, InQueue, Queued, WithStatus, Listed, Terminal, TypeOK
<1>7. CASE ClearFinished \/ Pause \/ WorkerExited \/ UNCHANGED vars
  BY <1>7, SameLoadKeepsCapacity
  DEF ClearFinished, Pause, WorkerExited, vars, SameLoad, Minted, InQueue, WithStatus, Listed,
      Terminal, TypeOK
<1>8. CASE WorkerPump
  BY <1>3, <1>8, SameLoadKeepsCapacity DEF WorkerPump
<1>. QED
  BY <1>4, <1>5, <1>6, <1>7, <1>8, SameLoadKeepsCapacity DEF Next, QueueStep

\* Listed jobs and open reservations together never exceed maxTransferJobs, and
\* m.reserved is exactly what the open reservations hold.
THEOREM CapacityInvariant == Spec => []CapacityRespected
<1>1. Init => CapacityRespected
  <2>1. Init => Minted = {} /\ InQueue = {}
    BY DEF Init, Minted, InQueue, WithStatus, Listed, Terminal
  <2>2. Cardinality({}) = 0
    BY FS_EmptySet
  <2>3. Init => reserved = Cardinality(Minted)
    BY <2>1, <2>2 DEF Init
  <2>4. Init => Cardinality(InQueue) + reserved <= MaxJobs
    BY <2>1, <2>2, ConstantsAssumption DEF Init, ConstantsAssumption
  <2>5. Init => \A c \in Callers : cbatch[c] = {}
    BY DEF Init
  <2>. QED
    BY <2>1, <2>3, <2>4, <2>5 DEF CapacityRespected
<1>. QED
  BY <1>1, OwnershipInvariant, CapacityNext, PTL DEF Spec

\* The counters of the queue are exact, all three at once.
THEOREM CountersAreExact == Spec => []CountersExact
<1>1. SlotsAccounted /\ WorkersAccounted /\ CapacityRespected => CountersExact
  BY DEF CountersExact
<1>. QED
  BY <1>1, SlotAccounting, CapacityInvariant, PTL

-----------------------------------------------------------------------------
(* Draining *)

\* A caller that waits for the workers, and whose generation is current, waits
\* in a queue that starts nothing; once released it has seen the last one go.
DrainStays ==
    \A c \in Callers :
        cpc[c] \in {"waitCheck", "waiting", "drained"} =>
            /\ cgen[c] <= generation
            /\ cgen[c] = generation => ~accepting
            /\ cgen[c] = generation /\ cpc[c] = "drained" => workers = 0

LEMMA PumpIdle ==
  ASSUME PumpEffect
  PROVE  /\ ~accepting => workers' = workers
         /\ UNCHANGED <<accepting, generation>>
BY DEF PumpEffect, poolVars, ctlVars

LEMMA DrainNext == TypeOK /\ DrainStays /\ [Next]_vars => DrainStays'
<1> SUFFICES ASSUME TypeOK, DrainStays, [Next]_vars PROVE DrainStays'
  OBVIOUS
<1> USE DEF Goto, WorkerStep, jobVars, ctlVars, poolVars, workVars, tailVars, callVars
<1> DEFINE Waits(c) == cpc[c] \in {"waitCheck", "waiting", "drained"}
    Harmless == /\ UNCHANGED <<accepting, generation>>
                /\ ~accepting => workers' = workers
                /\ \A c \in Callers :
                     cpc'[c] \in {"waitCheck", "waiting", "drained"} =>
                        cpc'[c] = cpc[c] /\ cgen'[c] = cgen[c]
<1>1. Harmless => DrainStays'
  BY DEF DrainStays, TypeOK
<1>2. ASSUME NEW c \in Callers, CallerStep(c) PROVE DrainStays'
  <2>1. ASSUME NEW from, Fail(c, from) PROVE DrainStays'
    BY <1>1, <2>1 DEF Fail, TypeOK
  <2>2. ASSUME NEW B, Reserve(c, B) PROVE DrainStays'
    BY <1>1, <2>2 DEF Reserve, TypeOK
  <2>3. CASE DropReservation(c) \/ Commit(c)
    BY <1>1, <2>3 DEF DropReservation, Commit, Release, TypeOK
  <2>4. ASSUME NEW S, Retry(c, S) PROVE DrainStays'
    BY <1>1, <2>4 DEF Retry, TypeOK
  <2>5. CASE CallerPump(c)
    BY <1>1, <2>5, PumpIdle DEF CallerPump, TypeOK
  <2>6. CASE Resume(c) \/ ChangeSettings(c)
    BY <1>1, <2>6 DEF Resume, ChangeSettings, TypeOK
  <2>7. CASE Enable(c)
    BY <2>7 DEF Enable, DrainStays, TypeOK
  <2>8. ASSUME NEW S, StopAll(c, S) PROVE DrainStays'
    BY <2>8 DEF StopAll, DrainStays, TypeOK
  <2>9. CASE ReserveBegin(c) \/ RetryBegin(c)
    BY <1>1, <2>9 DEF ReserveBegin, RetryBegin, CaptureGeneration, TypeOK
  <2>10. CASE WaitCheck(c)
    BY <2>10 DEF WaitCheck, DrainStays, TypeOK
  <2>11. ASSUME NEW id \in Conns, LookupIdentity(c, id) PROVE DrainStays'
    BY <1>1, <2>11 DEF LookupIdentity, TypeOK
  <2>. QED
    BY <1>2, <2>1, <2>2, <2>3, <2>4, <2>5, <2>6, <2>7, <2>8, <2>9, <2>10, <2>11
    DEF CallerStep, LookupFails, ReserveRefused, RetryRefused, WaitTimesOut, WaitReturns,
        DisableAndCancel, Shutdown
<1>3. ASSUME NEW j \in Jobs, JobStep(j) PROVE Harmless
  <2>1. ASSUME NEW from, NEW n, AttemptBegin(j, from, n) PROVE Harmless
    BY <2>1 DEF AttemptBegin, WorkerUnchanged
  <2>2. ASSUME NEW from, NEW e, AttemptEnds(j, from, e) PROVE Harmless
    BY <2>2 DEF AttemptEnds, WorkerUnchanged
  <2>. QED
    BY <1>3, <2>1, <2>2
    DEF JobStep, ExecuteBegin, RetryDelay, AcquireFails, TransferEnds, FinishJob, MoveQueued,
        Acquire, WorkerUnchanged
<1>4. CASE ClearFinished \/ Pause \/ UNCHANGED vars \/ \E S : CancelBatch(S)
  BY <1>1, <1>4 DEF ClearFinished, Pause, vars, CancelBatch
<1>5. CASE WorkerExited
  BY <1>5 DEF WorkerExited, DrainStays, TypeOK
<1>6. CASE WorkerPump
  BY <1>1, <1>6, PumpIdle DEF WorkerPump
<1>. QED
  BY <1>1, <1>2, <1>3, <1>4, <1>5, <1>6 DEF Next, QueueStep

\* A nil result of DisableAndCancel or Shutdown means that no goroutine of the
\* queue is left, and none appears before the next change of generation.
THEOREM DrainedMeansIdle == Spec => []DrainedIsIdle
<1>1. Init => DrainStays
  BY DEF Init, DrainStays
<1>2. DrainStays => DrainedIsIdle
  BY DEF DrainStays, DrainedIsIdle
<1>. QED
  BY <1>1, <1>2, TypeInvariant, DrainNext, PTL DEF Spec

-----------------------------------------------------------------------------
(* What is settled *)

\* A queue that was shut down does not accept work, and nothing is queued in it.
ShutIsQuiet == closed => ~accepting /\ Queued = {}

LEMMA ShutNext == TypeOK /\ ShutIsQuiet /\ [Next]_vars => ShutIsQuiet'
<1> SUFFICES ASSUME TypeOK, ShutIsQuiet, [Next]_vars PROVE ShutIsQuiet'
  OBVIOUS
<1> USE DEF jobVars, ctlVars, poolVars, workVars, tailVars, callVars, Queued, WithStatus
\* Most steps queue nothing and neither shut down nor enable.
<1> DEFINE Same == /\ UNCHANGED <<closed, accepting>>
                   /\ \A j \in Jobs : status'[j] = "queued" => status[j] = "queued"
<1>1. Same => ShutIsQuiet'
  BY DEF ShutIsQuiet
<1>2. ASSUME PumpEffect PROVE Same
  <2>1. CASE paused \/ closed \/ ~accepting
    BY <1>2, <2>1 DEF PumpEffect
  <2>2. CASE ~(paused \/ closed \/ ~accepting)
    BY <1>2, <2>2 DEF PumpEffect, Start, TypeOK
  <2>. QED
    BY <2>1, <2>2
<1>3. ASSUME NEW c \in Callers, CallerStep(c) PROVE ShutIsQuiet'
  <2>1. ASSUME NEW from, Fail(c, from) PROVE ShutIsQuiet'
    BY <1>1, <2>1 DEF Fail
  <2>2. ASSUME NEW B \in SUBSET Jobs, Reserve(c, B) PROVE ShutIsQuiet'
    BY <1>1, <2>2 DEF Reserve, TypeOK
  <2>3. CASE DropReservation(c)
    BY <1>1, <2>3 DEF DropReservation, TypeOK
  <2>4. CASE Commit(c)
    BY <2>4 DEF Commit, StillCurrent, ShutIsQuiet
  <2>5. ASSUME NEW S \in SUBSET Jobs, Retry(c, S) PROVE ShutIsQuiet'
    BY <2>5 DEF Retry, StillCurrent, ShutIsQuiet
  <2>6. CASE CallerPump(c)
    BY <1>1, <1>2, <2>6 DEF CallerPump
  <2>7. CASE Resume(c) \/ ChangeSettings(c)
    BY <1>1, <2>7 DEF Resume, ChangeSettings
  <2>8. CASE Enable(c)
    BY <2>8 DEF Enable, ShutIsQuiet
  <2>9. CASE DisableAndCancel(c) \/ Shutdown(c)
    <3>1. PICK S : StopAll(c, S)
      BY <2>9 DEF DisableAndCancel, Shutdown
    <3>2. ~accepting' /\ \A j \in Jobs : status'[j] # "queued"
      BY <3>1 DEF StopAll, TypeOK
    <3>. QED
      BY <3>2 DEF ShutIsQuiet
  <2>10. CASE ReserveBegin(c) \/ RetryBegin(c) \/ WaitCheck(c)
    BY <1>1, <2>10 DEF ReserveBegin, RetryBegin, CaptureGeneration, WaitCheck
  <2>11. ASSUME NEW id \in Conns, LookupIdentity(c, id) PROVE ShutIsQuiet'
    BY <1>1, <2>11 DEF LookupIdentity
  <2>. QED
    BY <1>3, <2>1, <2>2, <2>3, <2>4, <2>5, <2>6, <2>7, <2>8, <2>9, <2>10, <2>11
    DEF CallerStep, LookupFails, ReserveRefused, RetryRefused, WaitTimesOut, WaitReturns
<1>4. ASSUME NEW j \in Jobs, JobStep(j) PROVE ShutIsQuiet'
  <2>1. CASE FinishJob(j)
    BY <1>1, <2>1 DEF FinishJob, FinalStatus, TypeOK
  <2>2. CASE MoveQueued(j)
    BY <1>1, <2>2 DEF MoveQueued
  <2>. QED
    BY <1>1, <1>4, <2>1, <2>2
    DEF JobStep, ExecuteBegin, RetryDelay, AttemptBegin, Acquire, AcquireFails, TransferEnds,
        AttemptEnds, WorkerUnchanged
<1>5. ASSUME NEW S, CancelBatch(S) PROVE ShutIsQuiet'
  BY <1>1, <1>5 DEF CancelBatch, TypeOK
<1>6. CASE ClearFinished \/ Pause \/ WorkerExited \/ UNCHANGED vars
  BY <1>1, <1>6 DEF ClearFinished, Pause, WorkerExited, vars, TypeOK
<1>7. CASE WorkerPump
  BY <1>1, <1>2, <1>7 DEF WorkerPump
<1>. QED
  BY <1>3, <1>4, <1>5, <1>6, <1>7 DEF Next, QueueStep

\* One step of the queue as HistoryIsKept wants it.
HistoryStep ==
    /\ \A j \in WithStatus(Terminal) :
          /\ status'[j] # status[j] =>
                \/ status'[j] = "fresh"
                \/ status[j] \in {"failed", "cancelled"} /\ status'[j] = "queued"
          /\ slot'[j] # slot[j] => \A k \in WithStatus(Terminal) : status'[k] = "fresh"
    /\ closed => closed' /\ Queued' = {} /\ Running' \subseteq Running

LEMMA HistoryNext ==
    TypeOK /\ Ownership /\ ShutIsQuiet /\ ShutIsQuiet' /\ [Next]_vars => HistoryStep \/ UNCHANGED vars
<1> SUFFICES ASSUME TypeOK, Ownership, ShutIsQuiet, ShutIsQuiet', [Next]_vars
             PROVE  HistoryStep \/ UNCHANGED vars
  OBVIOUS
<1> USE DEF jobVars, ctlVars, poolVars, workVars, tailVars, callVars, Queued, Running, WithStatus,
            Terminal
\* Most steps touch no settled job, start none and do not end a shutdown.
<1> DEFINE Still == /\ \A j \in WithStatus(Terminal) : status'[j] = status[j] /\ slot'[j] = slot[j]
                    /\ closed => closed'
                    /\ closed => \A j \in Jobs : status'[j] = "running" => status[j] = "running"
<1>1. Still => HistoryStep
  BY DEF HistoryStep, ShutIsQuiet
<1>2. ASSUME PumpEffect PROVE Still
  <2>1. CASE paused \/ closed \/ ~accepting
    BY <1>2, <2>1 DEF PumpEffect
  <2>2. CASE ~(paused \/ closed \/ ~accepting)
    <3>1. PICK S \in SUBSET Queued : Start(S)
      BY <1>2, <2>2 DEF PumpEffect
    <3>. QED
      BY <1>2, <2>2, <3>1 DEF PumpEffect, Start, TypeOK
  <2>. QED
    BY <2>1, <2>2
<1>3. ASSUME NEW c \in Callers, CallerStep(c) PROVE HistoryStep
  <2>1. ASSUME NEW from, Fail(c, from) PROVE HistoryStep
    BY <1>1, <2>1 DEF Fail
  <2>2. ASSUME NEW B \in SUBSET WithStatus({"fresh"}), Reserve(c, B) PROVE HistoryStep
    BY <1>1, <2>2 DEF Reserve, TypeOK
  <2>3. CASE DropReservation(c) \/ Commit(c)
    <3>1. \A j \in cbatch[c] : j \in Jobs /\ status[j] = "minted"
      BY DEF Ownership, BatchesAreMinted, Minted, TypeOK
    <3>2. CASE DropReservation(c)
      BY <1>1, <3>1, <3>2 DEF DropReservation, TypeOK
    <3>3. CASE Commit(c)
      BY <1>1, <3>1, <3>3 DEF Commit, StillCurrent, TypeOK
    <3>. QED
      BY <2>3, <3>2, <3>3
  <2>4. ASSUME NEW S \in SUBSET Jobs, Retry(c, S) PROVE HistoryStep
    BY <2>4 DEF Retry, StillCurrent, HistoryStep, TypeOK
  <2>5. CASE CallerPump(c)
    BY <1>1, <1>2, <2>5 DEF CallerPump
  <2>6. CASE Resume(c) \/ ChangeSettings(c) \/ Enable(c)
    BY <1>1, <2>6 DEF Resume, ChangeSettings, Enable
  <2>7. CASE DisableAndCancel(c) \/ Shutdown(c)
    <3>1. PICK S : StopAll(c, S)
      BY <2>7 DEF DisableAndCancel, Shutdown
    <3>. QED
      BY <1>1, <2>7, <3>1 DEF StopAll, DisableAndCancel, Shutdown, TypeOK
  <2>8. CASE ReserveBegin(c) \/ RetryBegin(c) \/ WaitCheck(c)
    BY <1>1, <2>8 DEF ReserveBegin, RetryBegin, CaptureGeneration, WaitCheck
  <2>9. ASSUME NEW id \in Conns, LookupIdentity(c, id) PROVE HistoryStep
    BY <1>1, <2>9 DEF LookupIdentity
  <2>. QED
    BY <1>3, <2>1, <2>2, <2>3, <2>4, <2>5, <2>6, <2>7, <2>8, <2>9
    DEF CallerStep, LookupFails, ReserveRefused, RetryRefused, WaitTimesOut, WaitReturns
<1>4. ASSUME NEW j \in Jobs, JobStep(j) PROVE HistoryStep
  <2>1. CASE FinishJob(j)
    <3>1. status[j] = "running"
      BY <2>1 DEF FinishJob, WorkerStep, Ownership
    <3>. QED
      BY <1>1, <2>1, <3>1 DEF FinishJob, FinalStatus, TypeOK
  <2>2. CASE MoveQueued(j)
    BY <1>1, <2>2 DEF MoveQueued, TypeOK
  <2>. QED
    BY <1>1, <1>4, <2>1, <2>2
    DEF JobStep, ExecuteBegin, RetryDelay, AttemptBegin, Acquire, AcquireFails, TransferEnds,
        AttemptEnds, WorkerUnchanged
<1>5. ASSUME NEW S, CancelBatch(S) PROVE HistoryStep
  BY <1>1, <1>5 DEF CancelBatch, TypeOK
<1>6. CASE ClearFinished
  BY <1>6 DEF ClearFinished, HistoryStep, ShutIsQuiet, TypeOK
<1>7. CASE Pause \/ WorkerExited
  BY <1>1, <1>7 DEF Pause, WorkerExited
<1>8. CASE WorkerPump
  BY <1>1, <1>2, <1>8 DEF WorkerPump
<1>. QED
  BY <1>3, <1>4, <1>5, <1>6, <1>7, <1>8 DEF Next, QueueStep

\* No transition of the Manager touches a settled job but ClearFinished and, for failed
\* and cancelled ones, RetryBatch; and after Shutdown no call brings work back.
THEOREM SettledStaysSettled == Spec => HistoryIsKept
<1>1. Init => ShutIsQuiet
  BY DEF Init, ShutIsQuiet
<1>2. Spec => [](TypeOK /\ Ownership /\ ShutIsQuiet)
  BY <1>1, OwnershipInvariant, ShutNext, PTL DEF Spec
<1>3. TypeOK /\ Ownership /\ ShutIsQuiet /\ ShutIsQuiet' /\ [Next]_vars => [HistoryStep]_vars
  BY HistoryNext
<1>4. Spec => [][HistoryStep]_vars
  BY <1>2, <1>3, PTL DEF Spec
<1>. QED
  BY <1>4 DEF HistoryIsKept, HistoryStep
=============================================================================

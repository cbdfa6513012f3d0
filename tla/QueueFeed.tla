------------------------------ MODULE QueueFeed ------------------------------
(***************************************************************************)
(* What the transfer queue tells the windows: the list of jobs and the     *)
(* paused flag of internal/transfer/manager.go, the bounded log of events  *)
(* its methods append to (emitLocked) and what Events(since) answers from  *)
(* it.  An action is one critical section of m.mu and appends what the     *)
(* code appends; TransferQueue has the goroutines around them.             *)
(*                                                                         *)
(* The events of the log are numbered without gaps, so seq and the length  *)
(* of the log give the number of each.                                     *)
(***************************************************************************)
EXTENDS Naturals, Sequences, FiniteSets, Functions

CONSTANTS MaxJobs,   \* ids that can be made (bound)
          Limit,     \* settings.Effective().Parallelism
          LogCap,    \* 1000: a longer log is cut
          LogKeep,   \* 500: to its last events
          Sizes,     \* sizes a transport may report, 0 for unknown
          MaxSeq     \* events (bound)

\* What every instance has to satisfy.
FeedAssumption ==
    /\ {MaxJobs, Limit, LogCap, LogKeep, MaxSeq} \subseteq Nat
    /\ 0 < LogKeep /\ LogKeep <= LogCap
    /\ Sizes \subseteq Nat

VARIABLES jobs,      \* m.jobs
          ids,       \* ids given out
          paused, accepting, closed,
          log, seq   \* m.events, m.seq

feed == <<jobs, ids, paused, accepting, closed, log, seq>>

Statuses == {"queued", "running", "done", "failed", "cancelled", "skipped"}
Settled == Statuses \ {"queued", "running"}

FeedInit ==
    /\ jobs = <<>> /\ ids = 0 /\ log = <<>> /\ seq = 0
    /\ paused = FALSE /\ accepting = TRUE /\ closed = FALSE

New(i) == [id |-> i, st |-> "queued", got |-> 0, of |-> 0]
\* Mutant: the metrics of the attempt before stay.
ResetNothing(j) == j

Reset(j) == [j EXCEPT !.got = 0, !.of = 0]

JobEvent(j) == [type |-> "job", job |-> j]
StateEvent(list, p) == [type |-> "state", jobs |-> list, paused |-> p]

Appended(l, e) ==
    IF Len(l) = LogCap THEN SubSeq(Append(l, e), Len(l) + 2 - LogKeep, Len(l) + 1)
    ELSE Append(l, e)

\* The log l after the events es, one by one.
Logged(l, es) ==
    LET of[k \in 0..Len(es)] == IF k = 0 THEN l ELSE Appended(of[k - 1], es[k])
    IN  of[Len(es)]

\* emitLocked, once for each of the events es.
Emit(es) ==
    /\ seq + Len(es) <= MaxSeq
    /\ seq' = seq + Len(es)
    /\ log' = Logged(log, es)

EmitJobs(js) == Emit([i \in DOMAIN js |-> JobEvent(js[i])])

Slots(S) == {i \in DOMAIN jobs : jobs[i].st \in S}
Changed(I, Op(_)) == [i \in DOMAIN jobs |-> IF i \in I THEN Op(jobs[i]) ELSE jobs[i]]

\* The slots I in the order of the list.
InOrder(I) ==
    CHOOSE q \in [1..Cardinality(I) -> I] :
        Range(q) = I /\ \A m, n \in DOMAIN q : m < n => q[m] < q[n]

\* The jobs in the slots I become Op(job), each with an event, in the order of the list.
Update(I, Op(_)) ==
    /\ jobs' = Changed(I, Op)
    /\ LET q == InOrder(I) IN EmitJobs([k \in DOMAIN q |-> Op(jobs[q[k]])])

-----------------------------------------------------------------------------
(* The methods *)

\* Commit of a reservation for n jobs.
Add(n) ==
    /\ ~closed /\ accepting /\ ids + n <= MaxJobs
    /\ LET new == [k \in 1..n |-> New(ids + k)] IN
       jobs' = jobs \o new /\ EmitJobs(new)
    /\ ids' = ids + n
    /\ UNCHANGED <<paused, accepting, closed>>

Started(j) == [Reset(j) EXCEPT !.st = "running"]
Cancelled(j) == [j EXCEPT !.st = "cancelled"]
Requeued(j) == [Reset(j) EXCEPT !.st = "queued"]

\* pump: the first queued jobs, as many as there is room for.
Pump ==
    LET free == Limit - Cardinality(Slots({"running"}))
        first == {i \in Slots({"queued"}) :
                    Cardinality({k \in Slots({"queued"}) : k < i}) < free}
    IN  /\ ~paused /\ ~closed /\ accepting /\ free > 0 /\ first # {}
        /\ Update(first, Started)
        /\ UNCHANGED <<ids, paused, accepting, closed>>

\* setAttempt: an attempt after the first begins with no metrics.
Attempt(i, again) ==
    /\ jobs[i].st = "running"
    /\ Update({i}, LAMBDA j : IF again THEN Reset(j) ELSE j)
    /\ UNCHANGED <<ids, paused, accepting, closed>>

\* updateProgress: the sample is cut to the size, when that is known.
Measured(j, got, of) ==
    [j EXCEPT !.got = IF of > 0 /\ got > of THEN of ELSE got, !.of = of]

Progress(i, got, of) ==
    /\ jobs[i].st = "running"
    /\ Update({i}, LAMBDA j : Measured(j, got, of))
    /\ UNCHANGED <<ids, paused, accepting, closed>>

\* finishJob.
Finished(j, st) ==
    [j EXCEPT !.st = st, !.got = IF st = "done" /\ j.of > 0 THEN j.of ELSE @]

Finish(i, st) ==
    /\ jobs[i].st = "running"
    /\ Update({i}, LAMBDA j : Finished(j, st))
    /\ UNCHANGED <<ids, paused, accepting, closed>>

\* CancelBatch of the jobs whose ids are in S: nothing changes when one of them is
\* not active; the running ones are told to stop, which Finish shows later.
Cancel(S) ==
    LET I == {i \in DOMAIN jobs : jobs[i].id \in S} IN
    /\ I \subseteq Slots({"queued", "running"}) /\ Cardinality(I) = Cardinality(S)
    /\ Update(I \cap Slots({"queued"}), Cancelled)
    /\ UNCHANGED <<ids, paused, accepting, closed>>

\* RetryBatch of jobs of this connection (TransferQueue tells them apart).
Retry(S) ==
    LET I == {i \in DOMAIN jobs : jobs[i].id \in S} IN
    /\ ~closed /\ accepting
    /\ I \subseteq Slots({"failed", "cancelled"}) /\ Cardinality(I) = Cardinality(S)
    /\ Update(I, Requeued)
    /\ UNCHANGED <<ids, paused, accepting, closed>>

Movable(id) == ~closed /\ \E i \in Slots({"queued"}) : jobs[i].id = id

\* moveQueued: the job with the id goes to the place `to` names among the queued
\* slots; the ones it passes move over, every other slot stays.
Move(id, to) ==
    LET q == InOrder(Slots({"queued"}))
        at == {k \in DOMAIN q : jobs[q[k]].id = id}
    IN  /\ Movable(id)
        /\ LET k == CHOOSE n \in at : TRUE
               d == CASE to = "top" -> 1 [] to = "bottom" -> Len(q)
                      [] to = "up" -> IF k = 1 THEN 1 ELSE k - 1
                      [] to = "down" -> IF k = Len(q) THEN k ELSE k + 1
               from(n) == IF n = d THEN k
                          ELSE IF d <= n /\ n <= k THEN n - 1
                          ELSE IF k <= n /\ n <= d THEN n + 1 ELSE n
           IN  IF d = k THEN UNCHANGED <<jobs, log, seq>>
               ELSE /\ jobs' = [i \in DOMAIN jobs |->
                                  IF i \in Range(q)
                                  THEN jobs[q[from(CHOOSE n \in DOMAIN q : q[n] = i)]]
                                  ELSE jobs[i]]
                    /\ Emit(<<StateEvent(jobs', paused)>>)
        /\ UNCHANGED <<ids, paused, accepting, closed>>

\* ClearFinished: the log goes with the jobs.
ClearFinished ==
    /\ LET q == InOrder(Slots(Statuses \ Settled)) IN
       jobs' = [k \in DOMAIN q |-> jobs[q[k]]]
    /\ seq < MaxSeq /\ seq' = seq + 1
    /\ log' = <<StateEvent(jobs', paused)>>
    /\ UNCHANGED <<ids, paused, accepting, closed>>

Pause ==
    IF closed \/ paused THEN UNCHANGED feed
    ELSE /\ paused' = TRUE /\ Emit(<<StateEvent(jobs, TRUE)>>)
         /\ UNCHANGED <<jobs, ids, accepting, closed>>

Resume ==
    IF closed \/ ~accepting \/ ~paused THEN UNCHANGED feed
    ELSE /\ paused' = FALSE /\ Emit(<<StateEvent(jobs, FALSE)>>)
         /\ UNCHANGED <<jobs, ids, accepting, closed>>

Enable ==
    /\ ~closed
    /\ accepting' = TRUE /\ paused' = FALSE
    /\ Emit(<<StateEvent(jobs, FALSE)>>) /\ UNCHANGED <<jobs, ids, closed>>

\* DisableAndCancel.
Disable ==
    LET I == Slots({"queued"})
        q == InOrder(I)
    IN
    /\ accepting' = FALSE /\ paused' = TRUE
    /\ jobs' = Changed(I, Cancelled)
    /\ Emit([k \in DOMAIN q |-> JobEvent(Cancelled(jobs[q[k]]))]
            \o <<StateEvent(jobs', TRUE)>>)
    /\ UNCHANGED <<ids, closed>>

\* Shutdown: the queued jobs are cancelled and nobody is told.
Shutdown ==
    /\ ~closed
    /\ closed' = TRUE /\ accepting' = FALSE /\ paused' = TRUE
    /\ jobs' = Changed(Slots({"queued"}), Cancelled)
    /\ UNCHANGED <<ids, log, seq>>

\* What the queue does by itself.
Worker ==
    \/ Pump
    \/ \E i \in DOMAIN jobs :
         \/ \E again \in BOOLEAN : Attempt(i, again)
         \/ \E of \in Sizes, got \in 0..2 : Progress(i, got, of)
         \/ \E st \in Settled : Finish(i, st)

-----------------------------------------------------------------------------
(* Events(since), and a client replaying the answer *)

\* Mutant: a client that is behind the log gets its tail.
EventsTail(since) ==
    LET fresh == seq - since IN
    SubSeq(log, IF fresh >= Len(log) THEN 1 ELSE Len(log) + 1 - fresh, Len(log))

\* Events: a client that is behind the log gets one state event, unless it has
\* never seen an event.
Events(since) ==
    LET fresh == seq - since IN
    IF since > 0 /\ Len(log) > 0 /\ fresh > Len(log)
    THEN <<StateEvent(jobs, paused)>>
    ELSE SubSeq(log, IF fresh >= Len(log) THEN 1 ELSE Len(log) + 1 - fresh, Len(log))

\* applyTransferEventsToJobs, for one event.
Applied(list, e) ==
    IF e.type = "state" THEN e.jobs
    ELSE IF \E i \in DOMAIN list : list[i].id = e.job.id
    THEN [i \in DOMAIN list |-> IF list[i].id = e.job.id THEN e.job ELSE list[i]]
    ELSE Append(list, e.job)

\* The list after the events es, one by one.
Replay(list, es) ==
    LET of[k \in 0..Len(es)] == IF k = 0 THEN list ELSE Applied(of[k - 1], es[k])
    IN  of[Len(es)]

\* deriveTransferActionState, for the commands on the whole queue.
CanPause(list, on, p) == on /\ (\E i \in DOMAIN list : list[i].st \notin Settled) /\ ~p
CanResume(list, on, p) == on /\ (\E i \in DOMAIN list : list[i].st \notin Settled) /\ p
CanClear(list) == \E i \in DOMAIN list : list[i].st \in Settled
\* and on the jobs in the slots I of the list.
CanCancel(list, I) == I # {} /\ \A i \in I : list[i].st \notin Settled
CanRetry(list, I, on) == on /\ I # {} /\ \A i \in I : list[i].st \in {"failed", "cancelled"}

\* deriveQueuePriorityState: the moves offered for the job in slot i of the list.
Moves(list, i) ==
    IF list[i].st # "queued" THEN {}
    ELSE (IF \E k \in 1..(i - 1) : list[k].st = "queued" THEN {"top", "up"} ELSE {})
         \cup (IF \E k \in (i + 1)..Len(list) : list[k].st = "queued"
               THEN {"down", "bottom"} ELSE {})

-----------------------------------------------------------------------------
\* Type invariant: the ids of the list differ, the log holds the last events and
\* never more than LogCap of them.
FeedTypeOK ==
    /\ \A i \in DOMAIN jobs : jobs[i].id \in 1..ids /\ jobs[i].st \in Statuses
    /\ \A i, k \in DOMAIN jobs : jobs[i].id = jobs[k].id => i = k
    /\ {paused, accepting, closed} \subseteq BOOLEAN
    /\ Len(log) <= LogCap /\ Len(log) <= seq /\ seq <= MaxSeq

\* The counters of a job are those of the attempt they belong to: a job that waits
\* has none, no job has more bytes than its size, and one that is done has all of
\* them when the size is known (resetTransferMetrics, updateProgress, finishJob).
MetricsTrue ==
    \A i \in DOMAIN jobs :
        /\ jobs[i].st = "queued" => jobs[i].got = 0 /\ jobs[i].of = 0
        /\ jobs[i].of > 0 => jobs[i].got <= jobs[i].of
        /\ jobs[i].st = "done" /\ jobs[i].of > 0 => jobs[i].got = jobs[i].of
=============================================================================

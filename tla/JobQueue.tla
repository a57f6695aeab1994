------------------------------- MODULE JobQueue ------------------------------
(***************************************************************************)
(* The job queue of packages/queue (SqliteQueue), the table `jobs' of      *)
(* packages/database (repositories/jobs.ts) and the loop of apps/worker    *)
(* (loop.ts) that consumes it.                                             *)
(*                                                                         *)
(* Every SQL statement or transaction of the repository is one step, as    *)
(* SQLite runs it; a worker is a process that takes several such steps in  *)
(* a turn of its loop, and another process may take one in between.        *)
(*                                                                         *)
(* Time.  The code compares timestamps with the current time only, so a    *)
(* row keeps them relative to now: `wait' is available_at - now, `due' is  *)
(* scheduled_for - now, `lease' is lease_expires_at - now.  Tick is one    *)
(* unit of time.  What is overdue ages down to -AgeCap and no further,     *)
(* what is expired stays at 0: a bound on how far back FIFO order is       *)
(* remembered, in exchange for behaviours of any length.                   *)
(***************************************************************************)
EXTENDS Integers, FiniteSets, RetryPolicy

CONSTANTS
    Jobs,            \* the rows that may ever be inserted
    Workers,         \* the worker processes
    None,            \* SQL null
    DedupeKey,       \* [Jobs -> keys or None]: (type, dedupe_key) of the row
    MaxAttempts,     \* [Jobs -> Nat]: definition.maxAttempts
    JobLease,        \* [Jobs -> Nat]: definition.leaseMs
    Priority,        \* [Jobs -> Nat]: 1 is urgent, 9 is batch
    NeedsNetwork,    \* [Jobs -> BOOLEAN]: requires_network
    Unreadable,      \* jobs whose type or input the workers cannot read
    Offline,         \* workers started with OFFLINE_MODE
    QueueLease,      \* JOB_LEASE_MS
    HeartbeatEvery,  \* JOB_HEARTBEAT_MS
    PollEvery,       \* WORKER_POLL_MS
    BatchSize,       \* QUEUE_CONCURRENCY
    Delays,          \* the delays an enqueue or a backoff may give
    Raised,          \* the error categories the handlers may raise
    Cancellable,     \* jobs some caller may cancel
    AgeCap,          \* bound: how long an overdue row is told from an older one
    MaxOutages       \* bound: crashes and stop requests in one behaviour

ASSUME ConstantsAssumption ==
    /\ IsFiniteSet(Jobs)
    /\ None \notin Int \cup Jobs \cup Workers
    /\ MaxAttempts \in [Jobs -> Nat \ {0, 1}]
    /\ JobLease \in [Jobs -> Nat]
    /\ Priority \in [Jobs -> Nat]
    /\ NeedsNetwork \in [Jobs -> BOOLEAN]
    /\ QueueLease \in Nat /\ HeartbeatEvery \in Nat /\ BatchSize \in Nat
    /\ PollEvery \in Nat
    /\ HeartbeatEvery < QueueLease
    /\ \A j \in Jobs : HeartbeatEvery < JobLease[j]
    /\ Delays \subseteq Nat
    /\ Raised \subseteq Categories
    /\ AgeCap \in Nat /\ MaxOutages \in Nat

VARIABLES
    jobs,      \* the table: one record per row, NoRow before its insertion
    pc,        \* where each worker is in its loop
    held,      \* claimed rows a worker has in memory and has not started
    current,   \* the job whose handler a worker is running, or None
    timer,     \* time until the heartbeat of the running job, or the next turn
    stopping,  \* workers that received SIGINT or SIGTERM
    outages,   \* crashes and stop requests so far
    \* observation of the behaviour, read by no action
    embargo,   \* time during which a row must not be executed
    returned   \* times a row went back to the queue without any failure

workerVars == <<pc, held, current, timer, stopping>>
vars == <<jobs, pc, held, current, timer, stopping, outages, embargo, returned>>

Active   == {"queued", "running"}
Terminal == {"completed", "failed", "cancelled"}

Row == [status : Active \cup Terminal \cup {"absent"}, attempt : Nat,
        wait : Int, due : Int, lease : Nat \cup {None},
        worker : Workers \cup {None}, error : Categories \cup {None}]

RowOf(status, attempt, wait, due, lease, worker, error) ==
    [status |-> status, attempt |-> attempt, wait |-> wait, due |-> due,
     lease |-> lease, worker |-> worker, error |-> error]

NoRow == RowOf("absent", 0, 0, 0, None, None, None)

------------------------------------------------------------------------------
(* The statements of repositories/jobs.ts, as functions of the row.  An     *)
(* operator whose name holds an underscore is a mistake one could make in  *)
(* the code: no action uses it, the mutants of PROJECT.json do.            *)

Inserted(delay) == RowOf("queued", 0, delay, delay, None, None, None)

\* claimNextJobs, then the heartbeat that gives a longer lease to its type.
Claimed(j, w) ==
    RowOf("running", jobs[j].attempt + 1, jobs[j].wait, jobs[j].due,
          IF JobLease[j] > QueueLease THEN JobLease[j] ELSE QueueLease,
          w, jobs[j].error)

Completed(row) ==
    RowOf("completed", row.attempt, row.wait, row.due, None, None, row.error)

MarkedForRetry_KeepsDue(row, delay, category) ==
    RowOf("queued", row.attempt, delay, row.due, None, None, category)

\* scheduled_for follows available_at, or promoteDueJobs would undo the wait.
MarkedForRetry(row, delay, category) ==
    RowOf("queued", row.attempt, delay, delay, None, None, category)

MarkedFailed(row, status, category) ==
    RowOf(status, row.attempt, row.wait, row.due, None, None, category)

Requeued_KeepsOwner(row) ==
    RowOf("queued", row.attempt, 0, row.due, row.lease, row.worker, row.error)

\* reclaimExpiredJobs and releaseJobLease: `attempt' and `due' are left alone.
Requeued(row) ==
    RowOf("queued", row.attempt, 0, row.due, None, None, row.error)

Promoted(row) ==
    RowOf(row.status, row.attempt, 0, row.due, row.lease, row.worker, row.error)

Prolonged_Nothing(row, lease) == row

Prolonged(row, lease) ==
    RowOf(row.status, row.attempt, row.wait, row.due, lease, row.worker, row.error)

Expired_AnyRunning(j) == jobs[j].status = "running"

Expired_Unowned(j) == jobs[j].worker = None /\ jobs[j].lease = 0

Expired(j) == jobs[j].status = "running" /\ jobs[j].lease = 0

Due(j) == jobs[j].status = "queued" /\ jobs[j].due <= 0 /\ jobs[j].wait >= 0

IndexAllows_QueuedOnly(j) ==
    \A i \in Jobs \ {j} :
        DedupeKey[j] # None /\ DedupeKey[i] = DedupeKey[j]
            => jobs[i].status # "queued"

\* The unique index uq_jobs_dedupe lets j be queued or running.
IndexAllows(j) ==
    \A i \in Jobs \ {j} :
        DedupeKey[j] # None /\ DedupeKey[i] = DedupeKey[j]
            => jobs[i].status \notin Active

------------------------------------------------------------------------------
Init ==
    /\ jobs = [j \in Jobs |-> NoRow]
    /\ pc = [w \in Workers |-> "down"]
    /\ held = [w \in Workers |-> {}]
    /\ current = [w \in Workers |-> None]
    /\ timer = [w \in Workers |-> 0]
    /\ stopping = {}
    /\ outages = 0
    /\ embargo = [j \in Jobs |-> 0]
    /\ returned = [j \in Jobs |-> 0]

(* enqueue: an active row with the same key is returned as it is and nothing
   is written; the lookup and the INSERT of two processes may cross, and the
   unique index then rejects the second: no row either.                    *)
Enqueue(j, delay) ==
    /\ jobs[j].status = "absent"
    /\ IndexAllows(j)
    /\ jobs' = [jobs EXCEPT ![j] = Inserted(delay)]
    /\ embargo' = [embargo EXCEPT ![j] = delay]
    /\ UNCHANGED <<workerVars, outages, returned>>

\* cancel: refused for a completed or a cancelled job, and only for them.
Cancel(j) ==
    /\ j \in Cancellable
    /\ jobs[j].status \notin {"absent", "completed", "cancelled"}
    /\ jobs' = [jobs EXCEPT ![j] = MarkedFailed(@, "cancelled", "conflict")]
    /\ UNCHANGED <<workerVars, outages, embargo, returned>>

------------------------------------------------------------------------------
(* One turn of the loop: reclaim, promote, claim, then run the batch.      *)

\* start() after a launch of the process: stopping is a fresh local variable.
Start(w) ==
    /\ pc[w] = "down"
    /\ pc' = [pc EXCEPT ![w] = "idle"]
    /\ stopping' = stopping \ {w}
    /\ UNCHANGED <<jobs, held, current, timer, outages, embargo, returned>>

(* reclaimExpiredJobs and claimNextJobs hand db.transaction a callback that
   only returns the function doing the work: the transaction is over before
   that function runs, and its statements take effect one by one.          *)
SelectExpired(w) ==
    /\ pc[w] = "idle" /\ timer[w] = 0 /\ w \notin stopping
    /\ held' = [held EXCEPT ![w] = {j \in Jobs : Expired(j)}]
    /\ pc' = [pc EXCEPT ![w] = "reclaim"]
    /\ UNCHANGED <<jobs, current, timer, stopping, outages, embargo, returned>>

\* The UPDATE asks again for a running row, not for an expired lease.
ReclaimExpired(w) ==
    LET expired == {j \in held[w] : jobs[j].status = "running"} IN
    /\ pc[w] = "reclaim"
    /\ jobs' = [j \in Jobs |-> IF j \in expired THEN Requeued(jobs[j]) ELSE jobs[j]]
    /\ returned' = [j \in Jobs |-> IF j \in expired THEN returned[j] + 1 ELSE returned[j]]
    /\ held' = [held EXCEPT ![w] = {}]
    /\ pc' = [pc EXCEPT ![w] = "promote"]
    /\ UNCHANGED <<current, timer, stopping, outages, embargo>>

PromoteScheduled(w) ==
    /\ pc[w] = "promote"
    /\ jobs' = [j \in Jobs |-> IF Due(j) THEN Promoted(jobs[j]) ELSE jobs[j]]
    /\ pc' = [pc EXCEPT ![w] = "claim"]
    /\ UNCHANGED <<held, current, timer, stopping, outages, embargo, returned>>

Eligible_FailedToo(w) ==
    {j \in Jobs : /\ jobs[j].status \in {"queued", "failed"}
                  /\ jobs[j].wait <= 0
                  /\ w \in Offline => ~NeedsNetwork[j]}

Eligible(w) ==
    {j \in Jobs : /\ jobs[j].status = "queued"
                  /\ jobs[j].wait <= 0
                  /\ w \in Offline => ~NeedsNetwork[j]}

\* ORDER BY priority, available_at; a tie (created_at) is left open.
Precedes(i, j) ==
    \/ Priority[i] < Priority[j]
    \/ Priority[i] = Priority[j] /\ jobs[i].wait < jobs[j].wait

Batches(w) ==
    {B \in SUBSET Eligible(w) :
        /\ Cardinality(B) <= BatchSize
        /\ B # Eligible(w) => Cardinality(B) = BatchSize
        /\ \A i \in B, j \in Eligible(w) \ B : ~Precedes(j, i)}

Select(w) ==
    /\ pc[w] = "claim"
    /\ \E B \in Batches(w) :
        /\ held' = [held EXCEPT ![w] = B]
        /\ IF B = {}
           THEN /\ pc' = [pc EXCEPT ![w] = "idle"]
                /\ timer' = [timer EXCEPT ![w] = PollEvery]
           ELSE pc' = [pc EXCEPT ![w] = "take"] /\ UNCHANGED timer
    /\ UNCHANGED <<jobs, current, stopping, outages, embargo, returned>>

Taken_Again(j, w) == Claimed(j, w)

\* A row that is no longer queued is not updated, but may get a longer lease.
Taken(j, w) ==
    IF jobs[j].status = "queued" THEN Claimed(j, w)
    ELSE IF jobs[j].status = "running" /\ JobLease[j] > QueueLease
    THEN Prolonged(jobs[j], JobLease[j])
    ELSE jobs[j]

(* Every selected row is returned, taken or not, and will be run; a row the
   worker cannot read is failed at once, retry forbidden.                  *)
Claim(w) ==
    /\ pc[w] = "take"
    /\ jobs' = [j \in Jobs |->
                   IF j \notin held[w] THEN jobs[j]
                   ELSE IF j \in Unreadable
                   THEN MarkedFailed(Taken(j, w), "failed", "validation")
                   ELSE Taken(j, w)]
    /\ held' = [held EXCEPT ![w] = @ \ Unreadable]
    /\ IF held[w] \subseteq Unreadable
       THEN /\ pc' = [pc EXCEPT ![w] = "idle"]
            /\ timer' = [timer EXCEPT ![w] = PollEvery]
       ELSE pc' = [pc EXCEPT ![w] = "run"] /\ UNCHANGED timer
    /\ UNCHANGED <<current, stopping, outages, embargo, returned>>

(* The batch is read back by a SELECT without ORDER BY: any row may be next.
   Nothing is checked again before its handler starts.                     *)
Run(w, j) ==
    /\ pc[w] = "run" /\ w \notin stopping
    /\ j \in held[w]
    /\ held' = [held EXCEPT ![w] = @ \ {j}]
    /\ current' = [current EXCEPT ![w] = j]
    /\ timer' = [timer EXCEPT ![w] = HeartbeatEvery]
    /\ pc' = [pc EXCEPT ![w] = "exec"]
    /\ UNCHANGED <<jobs, stopping, outages, embargo, returned>>

\* A stop was requested during the batch: releaseJobLease on what remains.
Release(w, j) ==
    /\ pc[w] = "run" /\ w \in stopping
    /\ j \in held[w]
    /\ held' = [held EXCEPT ![w] = @ \ {j}]
    /\ pc' = [pc EXCEPT ![w] = IF held[w] = {j} THEN "idle" ELSE "run"]
    /\ IF jobs[j].status = "running"
       THEN /\ jobs' = [jobs EXCEPT ![j] = Requeued(@)]
            /\ returned' = [returned EXCEPT ![j] = @ + 1]
       ELSE UNCHANGED <<jobs, returned>>
    /\ UNCHANGED <<current, timer, stopping, outages, embargo>>

\* heartbeatJob asks for a running row, not for a row of this worker.
Heartbeat(w) ==
    /\ pc[w] = "exec" /\ timer[w] = 0
    /\ timer' = [timer EXCEPT ![w] = HeartbeatEvery]
    /\ jobs' = [jobs EXCEPT ![current[w]] =
                   IF @.status = "running"
                   THEN Prolonged(@, JobLease[current[w]]) ELSE @]
    /\ UNCHANGED <<pc, held, current, stopping, outages, embargo, returned>>

NextOfBatch_Endless(w) ==
    /\ pc' = [pc EXCEPT ![w] = "run"]
    /\ current' = [current EXCEPT ![w] = None]
    /\ timer' = [timer EXCEPT ![w] = 0]
    /\ UNCHANGED <<held, stopping, outages>>

\* The handler of w is over and the loop goes on with the rest of the batch.
NextOfBatch(w) ==
    /\ pc' = [pc EXCEPT ![w] = IF held[w] = {} THEN "idle" ELSE "run"]
    /\ current' = [current EXCEPT ![w] = None]
    /\ timer' = [timer EXCEPT ![w] = 0]
    /\ UNCHANGED <<held, stopping, outages>>

\* An exception leaves the loop: the rest of the batch is forgotten.
AbandonBatch(w) ==
    /\ pc' = [pc EXCEPT ![w] = "idle"]
    /\ current' = [current EXCEPT ![w] = None]
    /\ held' = [held EXCEPT ![w] = {}]
    /\ timer' = [timer EXCEPT ![w] = PollEvery]
    /\ UNCHANGED <<stopping, outages>>

\* complete: UPDATE by id, whatever the row has become meanwhile.
Complete(w) ==
    /\ pc[w] = "exec"
    /\ jobs' = [jobs EXCEPT ![current[w]] = Completed(@)]
    /\ NextOfBatch(w)
    /\ UNCHANGED <<embargo, returned>>

\* fail with a new attempt; `attempt' is read from the row, not from the claim.
Retry(w, category, delay) ==
    LET j == current[w] IN
    /\ pc[w] = "exec"
    /\ ShouldRetry(category, "decide", jobs[j].attempt, MaxAttempts[j])
    /\ IF IndexAllows(j)
       THEN /\ jobs' = [jobs EXCEPT ![j] = MarkedForRetry(@, delay, category)]
            /\ embargo' = [embargo EXCEPT ![j] = delay]
            /\ NextOfBatch(w)
       ELSE AbandonBatch(w) /\ UNCHANGED <<jobs, embargo>>
    /\ UNCHANGED returned

Fail(w, category) ==
    LET j == current[w] IN
    /\ pc[w] = "exec"
    /\ ~ShouldRetry(category, "decide", jobs[j].attempt, MaxAttempts[j])
    /\ jobs' = [jobs EXCEPT ![j] = MarkedFailed(@, "failed", category)]
    /\ NextOfBatch(w)
    /\ UNCHANGED <<embargo, returned>>

------------------------------------------------------------------------------
(* Shutdown, crash and time.                                               *)

\* Node delivers a signal between two turns of its event loop: while the worker
\* waits for its next poll or for a handler.
RequestStop(w) ==
    /\ pc[w] \in {"idle", "exec"} /\ w \notin stopping
    /\ outages < MaxOutages
    /\ outages' = outages + 1
    /\ stopping' = stopping \cup {w}
    /\ UNCHANGED <<jobs, pc, held, current, timer, embargo, returned>>

\* The process is gone: what it had in memory is lost, its rows stay running.
Vanish(w) ==
    /\ pc' = [pc EXCEPT ![w] = "down"]
    /\ held' = [held EXCEPT ![w] = {}]
    /\ current' = [current EXCEPT ![w] = None]
    /\ timer' = [timer EXCEPT ![w] = 0]
    /\ UNCHANGED <<jobs, stopping, embargo, returned>>

\* stop() returns when the handler ends or after the grace period; the base is
\* closed and the process exits, with whatever it was doing left as it is: a
\* handler past its grace, or the releases of a large batch not all written.
Exit(w) ==
    /\ pc[w] \in {"idle", "run", "exec"} /\ w \in stopping
    /\ Vanish(w)
    /\ UNCHANGED outages

Crash(w) ==
    /\ pc[w] # "down"
    /\ outages < MaxOutages
    /\ outages' = outages + 1
    /\ Vanish(w)

\* One unit of time never fits inside a turn of the loop that runs no handler,
\* nor before a timer that has fired (the event loop is not blocked).
Prompt(w) ==
    \/ pc[w] = "down"
    \/ pc[w] \in {"idle", "exec"} /\ timer[w] > 0

Older(x) == IF x > -AgeCap THEN x - 1 ELSE x

Sooner(n) == IF n \in Nat /\ n > 0 THEN n - 1 ELSE n

Aged(row) ==
    RowOf(row.status, row.attempt, Older(row.wait), Older(row.due),
          Sooner(row.lease), row.worker, row.error)

Tick ==
    /\ \A w \in Workers : Prompt(w)
    /\ jobs' = [j \in Jobs |->
                   IF jobs[j].status \in Active THEN Aged(jobs[j]) ELSE jobs[j]]
    /\ timer' = [w \in Workers |-> Sooner(timer[w])]
    /\ embargo' = [j \in Jobs |-> Sooner(embargo[j])]
    /\ UNCHANGED <<pc, held, current, stopping, outages, returned>>

LoopStep(w) ==
    SelectExpired(w) \/ ReclaimExpired(w) \/ PromoteScheduled(w) \/ Select(w) \/ Claim(w)

BatchStep(w) == \E j \in Jobs : Run(w, j) \/ Release(w, j)

HandlerEnd(w) ==
    \/ Complete(w)
    \/ \E category \in Raised : Fail(w, category)
    \/ \E category \in Raised, delay \in Delays : Retry(w, category, delay)

WorkerStep(w) ==
    \/ Start(w) \/ LoopStep(w) \/ BatchStep(w) \/ Heartbeat(w)
    \/ HandlerEnd(w) \/ RequestStop(w) \/ Exit(w) \/ Crash(w)

Next ==
    \/ \E j \in Jobs, delay \in Delays : Enqueue(j, delay)
    \/ \E j \in Jobs : Cancel(j)
    \/ \E w \in Workers : WorkerStep(w)
    \/ Tick

Spec == Init /\ [][Next]_vars

(* A stopped worker is started again, its timers fire, its handlers end and a
   stop request ends with the process; nobody owes an enqueue, a cancel or a
   crash.                                                                  *)
Fairness ==
    /\ WF_vars(Tick)
    /\ \A w \in Workers : /\ WF_vars(Start(w)) /\ WF_vars(LoopStep(w))
                          /\ WF_vars(BatchStep(w)) /\ WF_vars(Heartbeat(w))
                          /\ WF_vars(HandlerEnd(w)) /\ WF_vars(Exit(w))

FairSpec == Spec /\ Fairness
==============================================================================

---------------------------- MODULE JobQueueProps ----------------------------
(***************************************************************************)
(* The correctness properties of the job queue.                            *)
(***************************************************************************)
EXTENDS JobQueue

\* The types of the table, of the workers' memory and of the observers.
TypeOK ==
    /\ jobs \in [Jobs -> Row]
    /\ pc \in [Workers -> {"down", "idle", "reclaim", "promote", "claim", "take", "run", "exec"}]
    /\ held \in [Workers -> SUBSET Jobs]
    /\ current \in [Workers -> Jobs \cup {None}]
    /\ timer \in [Workers -> Nat]
    /\ stopping \subseteq Workers
    /\ outages \in Nat
    /\ embargo \in [Jobs -> Nat]
    /\ returned \in [Jobs -> Nat]
    /\ \A w \in Workers : pc[w] = "exec" <=> current[w] # None
    /\ \A w \in Workers : pc[w] = "run" => held[w] # {}
    /\ \A w \in Workers : held[w] # {} => pc[w] \in {"reclaim", "take", "run", "exec"}

\* A running row has an owner and a lease, which reclaimExpired needs to find
\* it, and no other row keeps one: whatever the order in which workers, late
\* completions, cancels and crashes rewrite it, no row is stuck or half freed.
RowConsistent ==
    \A j \in Jobs :
        /\ jobs[j].status = "running" <=> jobs[j].worker # None
        /\ jobs[j].status = "running" <=> jobs[j].lease # None

\* Ten clicks cost one job: no two active rows share a deduplication key, even
\* when a late failure sends an old row back to the queue.
OneActivePerKey ==
    \A i, j \in Jobs :
        /\ i # j /\ DedupeKey[i] # None /\ DedupeKey[i] = DedupeKey[j]
        /\ jobs[i].status \in Active
        => jobs[j].status \notin Active

\* "Pas de retry infini": attempts exceed max_attempts only by what crashes,
\* expired leases and released batches took, whoever reports the failures.
RetriesBounded ==
    \A j \in Jobs :
        /\ jobs[j].attempt <= MaxAttempts[j] + returned[j]
        /\ jobs[j].status = "queued" => jobs[j].attempt < MaxAttempts[j] + returned[j]

\* The delay asked at enqueue, and the backoff after a failure, elapse before
\* the job runs: neither promoteScheduled nor a reclaim cuts them short.
DelayHonoured ==
    \A j \in Jobs : jobs[j].status = "running" => embargo[j] = 0

\* An ambiguous outcome is never replayed: the row that records it stays as it
\* is, no late worker, reclaim or promotion brings it back, and only a cancel
\* may set it aside.
AmbiguousIsFinal ==
    [][\A j \in Jobs :
          jobs[j].status = "failed" /\ jobs[j].error = "ambiguous"
              => jobs'[j] = jobs[j] \/ Cancel(j)]_vars

\* What the submitter is told of each job, and the workers that run it.
PhaseOf(status) ==
    CASE status = "absent"   -> "absent"
      [] status \in Active   -> "pending"
      [] status \in Terminal -> "settled"

JobPhase == [j \in Jobs |-> PhaseOf(jobs[j].status)]

JobRunners == [j \in Jobs |-> {w \in Workers : current[w] = j}]

\* The queue implements its contract: one runner at a time, only for a pending
\* job, and no way back from a settled one.
Contract == INSTANCE JobContract WITH phase <- JobPhase, runners <- JobRunners

ImplementsContract == Contract!Spec

\* "Un crash ne perd aucun job": whatever crashed or was stopped, a job once
\* queued ends, provided a worker that may run it is started again.
EveryJobSettles ==
    \A j \in Jobs : jobs[j].status = "queued" ~> jobs[j].status \in Terminal

------------------------------------------------------------------------------
(* What the documentation says and the code does not do.                   *)

\* sqlite-queue.ts: with the heartbeat nobody steals the job.
OneRunner ==
    \A v, w \in Workers : v # w /\ current[v] # None => current[v] # current[w]
==============================================================================

---------------------------- MODULE SystemHealth -----------------------------
(***************************************************************************)
(* What the dashboard says of the system                                   *)
(* (packages/core/src/system/health.ts): the worker, judged by the         *)
(* heartbeats of the running rows of table jobs (repositories/jobs.ts),    *)
(* the budget (packages/analytics/src/spend.ts), and the worst of the      *)
(* checks.  One worker, that claims a batch and runs it job after job, its *)
(* timer beating for the job at work only (apps/worker/src/loop.ts).       *)
(***************************************************************************)
EXTENDS Integers, Sequences, FiniteSets

CONSTANTS
    Rank,       \* the jobs 1 .. Rank, from the oldest
    BatchSize,  \* QUEUE_CONCURRENCY
    Interval,   \* JOB_HEARTBEAT_MS
    Silence,    \* DEFAULT_WORKER_SILENCE_MS
    Lease,      \* JOB_LEASE_MS
    LastTime,   \* bound: the clock
    MaxDeaths,  \* bound: deaths of the worker
    DailyMax,   \* the daily and the monthly limit, above zero
    MonthlyMax

HealthAssumption ==
    /\ Rank \in Nat /\ LastTime \in Nat
    /\ Interval \in Nat \ {0} /\ Silence \in Nat /\ Silence >= Interval
    /\ Lease \in Nat /\ Lease > Silence
    /\ DailyMax \in Nat \ {0} /\ MonthlyMax \in Nat \ {0}

VARIABLES
    now,    \* the clock
    table,  \* the rows of jobs: their status and heartbeat_at
    worker, \* whether it lives, the batch it has claimed, the last tick of its timer
    since,  \* when the job at work began
    deaths  \* the times of its deaths, for a property

healthVars == <<now, table, worker, since, deaths>>

Rows == 1 .. Rank

Init ==
    /\ now = 0
    /\ table = [j \in Rows |-> [status |-> "queued", beat |-> 0]]
    /\ worker = [alive |-> TRUE, batch |-> <<>>, timer |-> 0]
    /\ since = 0 /\ deaths = <<>>

With(status) == {j \in Rows : table[j].status = status}

------------------------------------------------------------------------------
(* The worker.                                                             *)

Working == worker.alive /\ worker.batch # <<>>

\* The rows whose lease is over, and those a turn of the loop may claim.
Expired == {j \in With("running") : table[j].beat + Lease <= now}
Claimable == With("queued") \cup Expired
Claimed == {j \in Claimable : Cardinality({k \in Claimable : k <= j}) <= BatchSize}

\* reclaimExpired and claim: the heartbeats of the whole batch are those of
\* the claim.
Claim ==
    /\ worker.alive /\ worker.batch = <<>> /\ Claimable # {}
    /\ table' = [j \in Rows |->
         IF j \in Claimed THEN [status |-> "running", beat |-> now]
         ELSE IF j \in Expired THEN [table[j] EXCEPT !.status = "queued"] ELSE table[j]]
    /\ worker' = [worker EXCEPT !.timer = now, !.batch =
         [n \in 1 .. Cardinality(Claimed) |->
             CHOOSE j \in Claimed : Cardinality({k \in Claimed : k <= j}) = n]]
    /\ since' = now
    /\ UNCHANGED <<now, deaths>>

\* The timer of the job at work.
Beat ==
    /\ Working /\ now = worker.timer + Interval
    /\ table' = [table EXCEPT ![Head(worker.batch)].beat = now]
    /\ worker' = [worker EXCEPT !.timer = now]
    /\ UNCHANGED <<now, since, deaths>>

\* A job ends and the next of the batch begins, with a timer of its own.
Finish ==
    /\ Working
    /\ table' = [table EXCEPT ![Head(worker.batch)].status = "done"]
    /\ worker' = [worker EXCEPT !.batch = Tail(@), !.timer = now]
    /\ since' = now
    /\ UNCHANGED <<now, deaths>>

Die ==
    /\ worker.alive /\ Len(deaths) < MaxDeaths
    /\ worker' = [worker EXCEPT !.alive = FALSE, !.batch = <<>>]
    /\ deaths' = Append(deaths, now)
    /\ UNCHANGED <<now, table, since>>

Restart ==
    /\ ~worker.alive
    /\ worker' = [worker EXCEPT !.alive = TRUE, !.timer = now]
    /\ UNCHANGED <<now, table, since, deaths>>

\* Time passes, no timer of a living worker being late.
Tick ==
    /\ now < LastTime
    /\ Working => now < worker.timer + Interval
    /\ now' = now + 1
    /\ UNCHANGED <<table, worker, since, deaths>>

Next == Claim \/ Beat \/ Finish \/ Die \/ Restart \/ Tick

------------------------------------------------------------------------------
(* The dashboard.                                                          *)

Beats == {table[j].beat : j \in With("running")}

\* The first heartbeat that is found: a mutant of Latest.
Latest_Oldest == CHOOSE beat \in Beats : \A other \in Beats : beat <= other

\* latestHeartbeatAt: of the running rows only.
Latest == CHOOSE beat \in Beats : \A other \in Beats : other <= beat

\* A heartbeat is a heartbeat: a mutant of WorkerActive.
WorkerActive_Any == Beats # {}

\* workerActive: with nothing running there is no heartbeat to read.
WorkerActive == Beats # {} /\ now - Latest <= Silence

\* stateFromRatio, on hundredths of a limit.
StateFromRatio(ratio) ==
    IF ratio >= 100 THEN "hard_stop"
    ELSE IF ratio >= 95 THEN "economy"
    ELSE IF ratio >= 80 THEN "vigilance"
    ELSE "ok"

\* The day hides the month: a mutant of BudgetState.
BudgetState_Day(sums) == StateFromRatio((100 * sums.day) \div DailyMax)

\* budgetStatus: the more constraining of the day and of the month.
BudgetState(sums) ==
    LET day == (100 * sums.day) \div DailyMax
        month == (100 * sums.month) \div MonthlyMax
    IN StateFromRatio(IF day >= month THEN day ELSE month)

\* snapshot: what the veto leaves to a call.
Remaining(sums) ==
    LET day == IF sums.day < DailyMax THEN DailyMax - sums.day ELSE 0
        month == IF sums.month < MonthlyMax THEN MonthlyMax - sums.month ELSE 0
    IN IF BudgetState(sums) = "hard_stop" THEN 0 ELSE IF day < month THEN day ELSE month

\* getSystemHealth: the checks, from what was found, and the worst of them.
Checks(found) ==
    {<<"database", IF found.tables THEN "ok" ELSE "error">>,
     <<"wal", IF found.wal THEN "ok" ELSE "warn">>,
     <<"worker", IF found.active THEN "ok" ELSE "warn">>,
     <<"llm", IF found.key THEN "ok" ELSE "warn">>,
     <<"budget", CASE BudgetState(found.sums) = "ok" -> "ok"
                   [] BudgetState(found.sums) = "hard_stop" -> "error"
                   [] OTHER -> "warn">>,
     <<"prompts", IF found.prompts THEN "ok" ELSE "warn">>}
      \cup (IF found.secret THEN {} ELSE {<<"secrets", "error">>})

Status(found) ==
    LET statuses == {check[2] : check \in Checks(found)}
    IN IF "error" \in statuses THEN "blocked"
       ELSE IF "warn" \in statuses THEN "degraded" ELSE "ok"

------------------------------------------------------------------------------
TypeOK ==
    /\ now \in 0 .. LastTime
    /\ table \in [Rows -> [status : {"queued", "running", "done"}, beat : 0 .. LastTime]]
    /\ worker.alive \in BOOLEAN /\ worker.batch \in Seq(Rows)

\* A worker at work is shown at work, whatever the batch and its interruptions
\* left behind - but for the first beats of a job that has waited in the batch.
BusyIsShown == Working /\ now - since > Interval => WorkerActive

\* "Le worker est-il vivant ?": a worker that has died with a job in hand is
\* shown silent once its last heartbeat is old enough, and until another one
\* takes the job over.
DeathIsShown ==
    ~worker.alive /\ now - deaths[Len(deaths)] > Silence => ~WorkerActive

\* The status is true: blocked exactly when something is missing or no call
\* may pass any more, and ok only when a worker answers and a call may pass.
StatusIsTrue(found) ==
    /\ Status(found) = "blocked" <=>
         ~found.tables \/ ~found.secret \/ Remaining(found.sums) = 0
    /\ Status(found) = "ok" => found.active /\ Remaining(found.sums) > 0

\* "Aucun job en cours": a worker that lives and waits is shown alive.
IdleIsShown == worker.alive => WorkerActive
==============================================================================

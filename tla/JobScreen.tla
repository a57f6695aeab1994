------------------------------- MODULE JobScreen ------------------------------
(***************************************************************************)
(* The screens of the web application that start a job and follow it: the  *)
(* editorial plan, the review of the contents, the editing of videos       *)
(* (apps/web/src/features), with the stream each follows a job by          *)
(* (useJobStream) and the cached answers it shows.  A message of the       *)
(* stream, its render and the effect that follows are one action.          *)
(*                                                                         *)
(* The stream numbers no event: a browser that comes back is sent the      *)
(* state and the whole journal again (module JobEvents has the streams of  *)
(* a client that counts).                                                  *)
(***************************************************************************)
EXTENDS Naturals, Sequences

CONSTANTS
    Projects,  \* the projects the user goes between
    Nobody,    \* no project
    MaxJobs,   \* bound: jobs
    MaxFaults, \* bound: connections lost and streams ended by the server
    Full       \* the progress of a job at its end (100)

ScreenAssumption == Nobody \notin Projects /\ Full \in Nat \ {0} /\ MaxJobs \in Nat

VARIABLES
    view,     \* "none", "editorial", "review" or "video"
    project,  \* the project chosen
    jobs,     \* the jobs started from the screen, and how far each has come
    cache,    \* the answers on each project, and the jobs whose writings they show
    request,  \* the project of the mutation that is pending
    jobId,    \* the job followed, or 0
    source,   \* its EventSource: "off", "opening", "open" or "ended"
    progress, \* what the bar shows; of job 0, nothing
    settled,  \* the job whose end has been told
    told,     \* how many times, since the job is followed
    faults    \* counted for their bound

screenVars == <<view, project, jobs, cache, request, jobId, source, progress, settled, told, faults>>

Terminal == {"completed", "failed", "cancelled", "dead"}
NoProgress == [job |-> 0, status |-> "queued", bar |-> 0, closed |-> FALSE]
Absent == [stale |-> TRUE, seen |-> {}]

Init ==
    /\ view = "none"
    /\ project = Nobody /\ jobs = <<>>
    /\ cache = [p \in Projects |-> Absent]
    /\ request = Nobody /\ jobId = 0 /\ source = "off" /\ progress = NoProgress
    /\ settled = 0 /\ told = 0 /\ faults = 0

Written(p) == {j \in DOMAIN jobs : jobs[j].project = p /\ jobs[j].status \in Terminal}

------------------------------------------------------------------------------
(* The worker.                                                             *)

\* A step of the handler, which may name no progress and write none: 0.
Step(j, reached) ==
    /\ jobs[j].status \in {"queued", "running"}
    /\ jobs' = [jobs EXCEPT ![j].status = "running", ![j].at = reached,
                            ![j].top = IF reached > @ THEN reached ELSE @]
    /\ jobs' # jobs
    /\ UNCHANGED <<view, project, cache, request, jobId, source, progress, settled, told, faults>>

\* The end of a job: what it writes is written before.
Finish(j, how) ==
    /\ jobs[j].status = "running"
    /\ jobs' = [jobs EXCEPT ![j].status = how, ![j].at = IF how = "completed" THEN Full ELSE @]
    /\ UNCHANGED <<view, project, cache, request, jobId, source, progress, settled, told, faults>>

------------------------------------------------------------------------------
(* The cache.                                                              *)

\* invalidateQueries, on the queries of a project.
Invalidated(p) == [cache EXCEPT ![p].stale = TRUE]

\* The request of a query that is on the screen, and its answer.
Fetch(p) ==
    /\ p = project /\ cache[p].stale
    /\ cache' = [cache EXCEPT ![p] = [stale |-> FALSE, seen |-> Written(p)]]
    /\ UNCHANGED <<view, project, jobs, request, jobId, source, progress, settled, told, faults>>

\* Another project is chosen, the job followed staying what it is; an answer
\* older than staleTime is asked for again.
Choose(p, aged) ==
    /\ p # project /\ view # "none"
    /\ project' = p
    /\ cache' = [cache EXCEPT ![p].stale = @ \/ aged]
    /\ UNCHANGED <<view, jobs, request, jobId, source, progress, settled, told, faults>>

------------------------------------------------------------------------------
(* The job.                                                                *)

\* The effect of useJobStream on the job it is given.
Follow(j) ==
    IF j = jobId THEN UNCHANGED <<jobId, source, progress, settled, told>>
    ELSE /\ jobId' = j /\ progress' = NoProgress /\ told' = 0
         /\ source' = IF j = 0 THEN "off" ELSE "opening"
         /\ settled' = IF j = 0 THEN settled ELSE 0

\* One of the screens is opened.
Open ==
    /\ view = "none"
    /\ view' \in {"editorial", "review", "video"}
    /\ UNCHANGED <<project, jobs, cache, request, jobId, source, progress, settled, told, faults>>

\* The click that starts a job: the button waits for the answer.
Ask ==
    /\ request = Nobody /\ project \in Projects
    /\ request' = project
    /\ UNCHANGED <<view, project, jobs, cache, jobId, source, progress, settled, told, faults>>

Running(p) == {j \in DOMAIN jobs : jobs[j].project = p /\ jobs[j].status \notin Terminal}

\* The answer of the route: the job of that project that is active, or a new
\* one.  Whatever project is chosen by then, it is the job now followed.
Answer ==
    /\ request \in Projects
    /\ request' = Nobody
    /\ cache' = IF view = "editorial" \/ project = Nobody THEN cache ELSE Invalidated(project)
    /\ IF Running(request) # {}
       THEN /\ \E j \in Running(request) : Follow(j)
            /\ UNCHANGED jobs
       ELSE /\ Len(jobs) < MaxJobs
            /\ jobs' = Append(jobs, [project |-> request, status |-> "queued", at |-> 0, top |-> 0])
            /\ Follow(Len(jobs) + 1)
    /\ UNCHANGED <<view, project, faults>>

Refused ==
    /\ request \in Projects
    /\ request' = Nobody
    /\ UNCHANGED <<view, project, jobs, cache, jobId, source, progress, settled, told, faults>>

------------------------------------------------------------------------------
(* The stream.                                                             *)

\* The bar shows what comes: a mutant of Higher.
Higher_Last(bar, next) == next

Higher(bar, next) == IF next > bar THEN next ELSE bar

\* applyJobProgress, on a state of the job, an event of its journal, or the
\* end of the stream.
Applied(kind, at) ==
    LET bar == IF kind = "closed" THEN progress.bar ELSE Higher(progress.bar, at)
        status == IF kind \in {"snapshot", "done"} THEN jobs[jobId].status ELSE progress.status
    IN [job |-> jobId, status |-> status, bar |-> bar,
        closed |-> CASE kind = "snapshot" -> status \in Terminal
                     [] kind \in {"done", "closed"} -> TRUE
                     [] OTHER -> progress.closed]

\* Every message of the end is told: a mutant of MustTell.
MustTell_Always(state) == state.closed /\ state.job # 0

\* The condition of the effect that calls onSettled, once for a job.
MustTell(state) == state.closed /\ state.job # 0 /\ settled # state.job

\* The answers are kept: a mutant of Told.
Told_Nothing == UNCHANGED cache

\* onSettled: the answers of the project chosen by then are asked for again.
Told == cache' = IF project = Nobody THEN cache ELSE Invalidated(project)

\* A message, its render and the effect; two of the screens then let the job go.
Receive(state) ==
    IF ~MustTell(state)
    THEN /\ progress' = state
         /\ UNCHANGED <<cache, jobId, settled, told>>
    ELSE /\ Told
         /\ settled' = state.job /\ told' = told + 1
         /\ IF view = "video" THEN progress' = state /\ UNCHANGED jobId
            ELSE progress' = NoProgress /\ jobId' = 0

Leaves(next) == source' = IF jobId' = 0 THEN "off" ELSE next

\* The stream opens: the state of the job first.
Snapshot ==
    /\ source = "opening"
    /\ Receive(Applied("snapshot", jobs[jobId].at)) /\ Leaves("open")
    /\ UNCHANGED <<view, project, jobs, request, faults>>

\* An event of the journal, an old one when the stream has been opened again.
Event(at) ==
    /\ source = "open" /\ at <= jobs[jobId].top
    /\ Receive(Applied("event", at)) /\ Leaves("open")
    /\ progress' # progress
    /\ UNCHANGED <<view, project, jobs, request, faults>>

Done ==
    /\ source = "open" /\ jobs[jobId].status \in Terminal
    /\ Receive(Applied("done", jobs[jobId].at)) /\ Leaves("ended")
    /\ UNCHANGED <<view, project, jobs, request, faults>>

\* The server fails on the stream and ends it, the job going on.
Closed ==
    /\ source = "open" /\ faults < MaxFaults
    /\ faults' = faults + 1
    /\ Receive(Applied("closed", 0)) /\ Leaves("ended")
    /\ UNCHANGED <<view, project, jobs, request>>

\* A browser opens again a stream that ended, unless its source was closed.
Reopen ==
    /\ source = "ended"
    /\ source' = "opening"
    /\ UNCHANGED <<view, project, jobs, cache, request, jobId, progress, settled, told, faults>>

Lose ==
    /\ source = "open" /\ faults < MaxFaults
    /\ faults' = faults + 1 /\ source' = "ended"
    /\ UNCHANGED <<view, project, jobs, cache, request, jobId, progress, settled, told>>

------------------------------------------------------------------------------
Begins(j) == jobs[j].status = "queued" /\ Step(j, 0)

Works(j) == \E how \in {"completed", "failed"} : Finish(j, how)

Streams == Snapshot \/ Done \/ Reopen

Next ==
    \/ \E j \in DOMAIN jobs : Works(j) \/ \E reached \in 0 .. Full : Step(j, reached)
    \/ \E p \in Projects : Fetch(p) \/ \E aged \in BOOLEAN : Choose(p, aged)
    \/ Open \/ Ask \/ Answer \/ Refused
    \/ Streams \/ Closed \/ Lose \/ \E at \in 0 .. Full : Event(at)

\* A job goes on, to its end.
Proceeds(j) == j \in DOMAIN jobs /\ (Works(j) \/ Begins(j))

\* A job that runs ends, a stream is served, a query of the screen answered.
Fair ==
    /\ \A j \in 1 .. MaxJobs : WF_screenVars(Proceeds(j))
    /\ WF_screenVars(Streams)
    /\ \A p \in Projects : WF_screenVars(Fetch(p))

Spec == Init /\ [][Next]_screenVars /\ Fair

------------------------------------------------------------------------------
TypeOK ==
    /\ project \in Projects \cup {Nobody} /\ request \in Projects \cup {Nobody}
    /\ jobId \in 0 .. Len(jobs) /\ source \in {"off", "opening", "open", "ended"}
    /\ progress.bar \in 0 .. Full /\ (source = "off" <=> jobId = 0)
    /\ \A p \in Projects : cache[p].seen \subseteq DOMAIN jobs

\* "onSettled ne doit etre appele qu'une fois par job": through the streams
\* that end, come back and say the end of the job again.
ToldOnce == told <= 1

\* "La progression ne recule jamais": not when the stream comes back and
\* replays its journal, nor when a step of the job writes no progress.
BarNeverGoesBack ==
    [][jobId' = jobId /\ jobId # 0 => progress'.bar >= progress.bar]_screenVars

\* "A la fin du job, on relit les contenus": a screen that stays on the
\* project of the job it follows comes to show what the job wrote, unless it
\* follows another one or the server ends the stream before the job.  (One
\* that was on another project when the job ended asks for the answers of
\* that one: back within staleTime, it shows the old ones.)
CatchesUp(j) ==
    (j \in DOMAIN jobs /\ jobId = j /\ settled # j /\ project = jobs[j].project)
        ~> /\ j \in DOMAIN jobs
           /\ \/ j \in cache[jobs[j].project].seen
              \/ project # jobs[j].project
              \/ jobId \notin {j, 0}
              \/ settled = j /\ jobs[j].status \notin Terminal

------------------------------------------------------------------------------
(* What the code says of itself and does not do.                           *)

\* EditorialView: "la generation s'est arretee avant la fin" is said of a job
\* that ended; it is also said of one whose stream alone did.
NoticeIsTrue == settled # 0 => jobs[settled].status \in Terminal

\* EditorialView: "le detail est ci-dessus" - the bar that showed it goes with
\* the job.
FailureIsShown ==
    told > 0 /\ settled # 0 /\ jobs[settled].status = "failed" => progress.job = settled
==============================================================================

----------------------------- MODULE VideoRender -----------------------------
(***************************************************************************)
(* The rendering of videos: the row of a render and its state machine      *)
(* (repositories/renders.ts), the requests that create, resume and         *)
(* validate it (apps/api/src/features/media.ts) and the job render_video   *)
(* (apps/worker/src/handlers/render-video.ts), which encodes a file next   *)
(* to its place, renames it, records the asset, completes the row and then *)
(* hears of its job again: steps that another run of the same job, a       *)
(* resumption or a crash may separate.  The queue is module JobQueue's:    *)
(* one active job for a render, a lease that may expire while its run goes *)
(* on, an end that is written whoever has the job.  The number of its job  *)
(* in a row is left out: no run reads it.                                  *)
(***************************************************************************)
EXTENDS RetryPolicy, Sequences, FiniteSets

CONSTANTS
    Renders,      \* the renders that may be asked for, all of the same project
    Runners,      \* the workers; each holds one place of its own semaphore
    Outputs,      \* the bytes an encoding may produce
    OutputOf,     \* the bytes each render may produce: its plan fixes its arguments
    MaxJobs,      \* bound: jobs
    MaxFaults,    \* bound: crashes and expired leases
    MaxAttempts   \* max_attempts of render_video

RenderAssumption ==
    /\ MaxJobs \in Nat /\ MaxFaults \in Nat
    /\ MaxAttempts \in Nat \ {0, 1}  \* an internal error is tried twice, whatever this bound
    /\ OutputOf \in [Renders -> SUBSET Outputs] /\ "none" \notin Outputs

VARIABLES
    rows,     \* video_renders
    assets,   \* the rows of media_assets a render produced
    files,    \* what lies under the storage key of each render
    jobs,     \* the jobs render_video
    runs,     \* the execution each worker is in
    unqueued, \* renders whose row says "queued" before their request has enqueued a job
    faults,   \* crashes and expired leases so far, counted for their bound
    untold    \* renders that a run or a request has left without writing their row

vars == <<rows, assets, files, jobs, runs, unqueued, faults, untold>>

NoAsset == [render |-> "none", bytes |-> "none"]
Idle == [pc |-> "idle", job |-> 0, bytes |-> "none", error |-> "none"]

Statuses == {"absent", "queued", "preparing", "rendering", "completed", "failed", "cancelled"}

\* A row of video_renders.
RenderRow == [status : Statuses, asset : [render : Renders, bytes : Outputs] \cup {NoAsset},
              validated : BOOLEAN]

Absent == [status |-> "absent", asset |-> NoAsset, validated |-> FALSE]

JobIds == DOMAIN jobs
Active(j) == jobs[j].status \in {"queued", "running"}
ActiveJobs(r) == {j \in JobIds : jobs[j].render = r /\ Active(j)}

Init ==
    /\ rows = [r \in Renders |-> Absent]
    /\ assets = {}
    /\ files = [r \in Renders |-> "none"]
    /\ jobs = <<>>
    /\ runs = [w \in Runners |-> Idle]
    /\ unqueued = {}
    /\ faults = 0
    /\ untold = {}

------------------------------------------------------------------------------
(* The row.                                                                *)

\* A second run may take a completed row again: a mutant of From.
From_Completed(to) ==
    CASE to = "preparing" -> Statuses \ {"absent", "cancelled"}
      [] to = "rendering" -> {"preparing", "rendering"}
      [] to = "completed" -> {"preparing", "rendering"}
      [] to = "failed"    -> {"queued", "preparing", "rendering", "failed"}
      [] to = "queued"    -> {"queued", "preparing", "rendering", "failed", "cancelled"}

\* The rows each transition of the store accepts.  Nothing calls cancel.
From(to) ==
    CASE to = "preparing" -> {"queued", "preparing", "rendering", "failed"}
      [] to = "rendering" -> {"preparing", "rendering"}
      [] to = "completed" -> {"preparing", "rendering"}
      [] to = "failed"    -> {"queued", "preparing", "rendering", "failed"}
      [] to = "queued"    -> {"queued", "preparing", "rendering", "failed", "cancelled"}

Accepts(r, to) == rows[r].status \in From(to)

Move(r, to) == rows' = [rows EXCEPT ![r].status = to]

------------------------------------------------------------------------------
(* The requests.                                                           *)

\* The API has one thread: nothing is awaited between a row and the INSERT of
\* its job, so two requests do not cross there.  A request waits for its bound.
Asks(r) ==
    /\ unqueued = {} /\ Len(jobs) < MaxJobs
    /\ unqueued' = {r}
    /\ UNCHANGED <<assets, files, jobs, runs, faults>>

\* createVideoRender: the row.
Create(r) ==
    /\ rows[r].status = "absent"
    /\ rows' = [rows EXCEPT ![r] = [Absent EXCEPT !.status = "queued"]]
    /\ UNCHANGED untold
    /\ Asks(r)

\* resumeVideoRender: the row of any render that is not completed, even while
\* it runs.
Requeue(r) ==
    /\ rows[r].status \notin {"absent", "completed"}
    /\ Accepts(r, "queued")
    /\ Move(r, "queued")
    /\ untold' = untold \ {r}
    /\ Asks(r)

\* validateVideoRender.
Validate(r) ==
    /\ rows[r].status = "completed" /\ ~rows[r].validated
    /\ rows' = [rows EXCEPT ![r].validated = TRUE]
    /\ UNCHANGED <<assets, files, jobs, runs, unqueued, faults, untold>>

------------------------------------------------------------------------------
(* The run.                                                                *)

Render(w) == jobs[runs[w].job].render
At(w, pc) == runs[w].pc = pc
Step(w, pc) == runs' = [runs EXCEPT ![w].pc = pc]
Holds(w, j) == jobs[j].status = "running" /\ jobs[j].by = w

\* The claim of a worker that is in no other run.
Claim(w, j) ==
    /\ At(w, "idle") /\ jobs[j].status = "queued"
    /\ jobs' = [jobs EXCEPT ![j].status = "running", ![j].attempt = @ + 1, ![j].by = w]
    /\ runs' = [runs EXCEPT ![w] = [Idle EXCEPT !.pc = "load", !.job = j]]
    /\ UNCHANGED <<rows, assets, files, unqueued, faults, untold>>

\* The run is over: it goes back to the loop, which tells the queue.
Throws(w, category) == runs' = [runs EXCEPT ![w].pc = "raise", ![w].error = category]

\* The error is kept to the job: a mutant of Fail.
Fail_Silent(w, category) ==
    /\ UNCHANGED rows
    /\ Throws(w, category)

\* recordRenderFailure, then the error goes on: a row that somebody completed
\* meanwhile stays as it is.
Fail(w, category) ==
    /\ IF Accepts(Render(w), "failed") THEN Move(Render(w), "failed") ELSE UNCHANGED rows
    /\ Throws(w, category)

\* The run ends before recordRenderFailure may hear of it.
Refuse(w, category) ==
    /\ untold' = untold \cup {Render(w)}
    /\ UNCHANGED rows
    /\ Throws(w, category)

\* load_render: a completed render is not made again.
LoadDone(w) ==
    /\ At(w, "load") /\ rows[Render(w)].status = "completed"
    /\ Step(w, "done")
    /\ UNCHANGED <<rows, assets, files, jobs, unqueued, faults, untold>>

\* The plan, the source, the transcript and FFmpeg are there, or the run is
\* refused before anything looks after the row.
Load(w) ==
    /\ At(w, "load") /\ rows[Render(w)].status # "completed"
    /\ \/ Step(w, "prepare") /\ UNCHANGED <<rows, untold>>
       \/ Refuse(w, "validation")
    /\ UNCHANGED <<assets, files, jobs, unqueued, faults>>

\* markPreparing, once the place of the semaphore is taken; its refusal is
\* not caught either.
Prepare(w) ==
    /\ At(w, "prepare")
    /\ IF Accepts(Render(w), "preparing")
       THEN /\ Move(Render(w), "preparing")
            /\ untold' = untold \ {Render(w)}
            /\ Step(w, "mark")
       ELSE Refuse(w, "conflict")
    /\ UNCHANGED <<assets, files, jobs, unqueued, faults>>

\* The subtitles, the arguments, and markRendering; before them a directory is
\* made, outside the reach of recordRenderFailure.
Mark(w) ==
    /\ At(w, "mark")
    /\ \/ /\ Accepts(Render(w), "rendering")
          /\ Move(Render(w), "rendering")
          /\ Step(w, "encode") /\ UNCHANGED untold
       \/ ~Accepts(Render(w), "rendering") /\ Fail(w, "conflict") /\ UNCHANGED untold
       \/ Fail(w, "validation") /\ UNCHANGED untold
       \/ Refuse(w, "internal")
    /\ UNCHANGED <<assets, files, jobs, unqueued, faults>>

\* FFmpeg writes a file of its own, which is looked at before it is moved; it
\* fails, or is aborted when the worker is told to stop.
Encode(w) ==
    /\ At(w, "encode")
    /\ \/ \E bytes \in OutputOf[Render(w)] :
            /\ runs' = [runs EXCEPT ![w].pc = "rename", ![w].bytes = bytes]
            /\ UNCHANGED rows
       \/ \E category \in {"transient", "capability"} : Fail(w, category)
    /\ UNCHANGED <<assets, files, jobs, unqueued, faults, untold>>

\* The finished file stays under its own name: a mutant of Rename.
Rename_Left(w) ==
    /\ At(w, "rename")
    /\ Step(w, "record")
    /\ UNCHANGED <<rows, assets, files, jobs, unqueued, faults, untold>>

\* The finished file takes its place.
Rename(w) ==
    /\ At(w, "rename")
    /\ files' = [files EXCEPT ![Render(w)] = runs[w].bytes]
    /\ Step(w, "record")
    /\ UNCHANGED <<rows, assets, jobs, unqueued, faults, untold>>

\* uq_asset_hash: the same bytes are recorded once for the project.
Recorded(bytes) == \E a \in assets : a.bytes = bytes

\* createVideoAsset, on the hash of the file as it is.
Record(w) ==
    /\ At(w, "record")
    /\ LET asset == [render |-> Render(w), bytes |-> files[Render(w)]] IN
       IF Recorded(asset.bytes)
       THEN Fail(w, "internal") /\ UNCHANGED assets
       ELSE /\ assets' = assets \cup {asset}
            /\ runs' = [runs EXCEPT ![w].pc = "complete", ![w].bytes = asset.bytes]
            /\ UNCHANGED rows
    /\ UNCHANGED <<files, jobs, unqueued, faults, untold>>

\* complete: refused when the row was resumed or failed meanwhile.
Complete(w) ==
    /\ At(w, "complete")
    /\ IF Accepts(Render(w), "completed")
       THEN /\ rows' = [rows EXCEPT ![Render(w)].status = "completed",
                          ![Render(w)].asset = [render |-> Render(w), bytes |-> runs[w].bytes]]
            /\ Step(w, "done")
       ELSE Fail(w, "conflict")
    /\ UNCHANGED <<assets, files, jobs, unqueued, faults, untold>>

------------------------------------------------------------------------------
(* The end of the job, which the loop writes once the handler has returned *)
(* and removed its files: another process may come before.  The updates    *)
(* look at the identifier only, whoever has the job by now.                *)

Over(w) ==
    /\ runs' = [runs EXCEPT ![w] = Idle]
    /\ UNCHANGED <<rows, assets, files, unqueued, faults, untold>>

\* queue.complete.
Done(w) ==
    /\ At(w, "done")
    /\ jobs' = [jobs EXCEPT ![runs[w].job].status = "done", ![runs[w].job].by = "none"]
    /\ Over(w)

After(j, category) ==
    IF DecideRetry(category, jobs[j].attempt, MaxAttempts) THEN "queued" ELSE "failed"

\* The unique index on the active jobs of a render.
IndexAllows(j) == ActiveJobs(jobs[j].render) \subseteq {j}

\* queue.fail: a job that is to be tried again while its render has another
\* one is left as it is, and the error goes up to the loop.
Raise(w) ==
    LET j == runs[w].job
        status == After(j, runs[w].error)
    IN  /\ At(w, "raise")
        /\ jobs' = IF status = "queued" /\ ~IndexAllows(j) THEN jobs
                   ELSE [jobs EXCEPT ![j].status = status, ![j].by = "none"]
        /\ Over(w)

\* A job that is on its way to its end: a run of it has thrown or returned.
Ending(j) == \E w \in Runners : runs[w].job = j /\ runs[w].pc \in {"raise", "done"}

\* The request goes on: enqueue with the key of the render gives its active
\* job, or a new one.  An active job may be on its way to its end: the render
\* has nothing more to come from it.
Attach(r) ==
    /\ r \in unqueued
    /\ jobs' = IF ActiveJobs(r) # {} THEN jobs
               ELSE Append(jobs, [render |-> r, status |-> "queued", attempt |-> 0, by |-> "none"])
    /\ untold' = IF \E j \in ActiveJobs(r) : Ending(j) THEN untold \cup {r} ELSE untold
    /\ unqueued' = unqueued \ {r}
    /\ UNCHANGED <<rows, assets, files, runs, faults>>

------------------------------------------------------------------------------
Fault == faults < MaxFaults /\ faults' = faults + 1

\* reclaimExpiredJobs: the lease of the job has ended, and it is queued again
\* whatever its attempts.
Expired(j) == [jobs EXCEPT ![j].by = "none", ![j].status = "queued"]

\* No other run is on the job of this one.
Alone(w) == \A other \in Runners \ {w} : At(other, "idle") \/ runs[other].job # runs[w].job

\* The worker dies.  What its render was at is left to the next run of the
\* job, unless another run has the job, or may end it.
Crash(w) ==
    /\ Fault /\ ~At(w, "idle")
    /\ jobs' = IF Holds(w, runs[w].job) THEN Expired(runs[w].job) ELSE jobs
    /\ runs' = [runs EXCEPT ![w] = Idle]
    /\ untold' = IF Holds(w, runs[w].job) /\ Alone(w) THEN untold ELSE untold \cup {Render(w)}
    /\ UNCHANGED <<rows, assets, files, unqueued>>

\* The machine slept: the job goes to another worker and the run goes on.
Expire(w) ==
    /\ Fault /\ ~At(w, "idle") /\ Holds(w, runs[w].job)
    /\ jobs' = Expired(runs[w].job)
    /\ UNCHANGED <<rows, assets, files, runs, unqueued, untold>>

\* The API dies between the row of a render and its job.
ApiDies ==
    /\ Fault /\ unqueued # {}
    /\ unqueued' = {} /\ untold' = untold \cup unqueued
    /\ UNCHANGED <<rows, assets, files, jobs, runs>>

------------------------------------------------------------------------------
Request(r) == Create(r) \/ Requeue(r) \/ Attach(r) \/ Validate(r)

Work(w) ==
    \/ LoadDone(w) \/ Load(w) \/ Prepare(w) \/ Mark(w) \/ Encode(w) \/ Rename(w)
    \/ Record(w) \/ Complete(w) \/ Done(w) \/ Raise(w)

Next ==
    \/ \E r \in Renders : Request(r)
    \/ \E w \in Runners : \/ Work(w) \/ Crash(w) \/ Expire(w)
                          \/ \E j \in JobIds : Claim(w, j)
    \/ ApiDies

Spec == Init /\ [][Next]_vars

\* The workers poll and carry on with their runs.
Polls(w) == Work(w) \/ \E j \in JobIds : Claim(w, j)

------------------------------------------------------------------------------
TypeOK ==
    /\ rows \in [Renders -> RenderRow]
    /\ assets \subseteq [render : Renders, bytes : Outputs]
    /\ files \in [Renders -> Outputs \cup {"none"}]
    /\ \A j \in JobIds : jobs[j].render \in Renders /\ jobs[j].attempt \in Nat
    /\ \A w \in Runners : /\ ~At(w, "idle") => runs[w].job \in JobIds
                          /\ At(w, "raise") => runs[w].error \in Categories
    /\ unqueued \subseteq Renders /\ untold \subseteq Renders

\* What a screen shows as completed, or as validated by a human, can be
\* watched: its file is in place and its asset recorded, whatever runs,
\* resumptions and crashes crossed its encoding.
CompletedIsWatchable ==
    \A r \in Renders :
        /\ rows[r].status = "completed" => rows[r].asset \in assets /\ files[r] # "none"
        /\ rows[r].validated => rows[r].status = "completed"

InProgress(r) == rows[r].status \in {"queued", "preparing", "rendering"}

\* The row tells the truth of the job: a render shown in progress has a job
\* or a run that is not on its way to its end, or a request about to enqueue
\* one.  (recordRenderFailure: without it the render "resterait affiché
\* encodage indéfiniment".)  The exceptions are `untold': a run that was
\* refused before it could write the row, one that died while another run was
\* on its job, an API that died before it enqueued, and a resumption that came
\* after a run had written its failure and before its job had heard of it.
InProgressHasRun ==
    \A r \in Renders : InProgress(r) =>
        \/ r \in unqueued \cup untold
        \/ \E j \in ActiveJobs(r) : ~Ending(j)
        \/ \E w \in Runners : runs[w].pc \notin {"idle", "raise", "done"} /\ Render(w) = r

\* A completed render stays what it is: neither a second run of its job nor
\* a request takes it back or changes its asset.
CompletedIsFinal ==
    [][\A r \in Renders : rows[r].status = "completed" =>
         rows'[r].status = "completed" /\ rows'[r].asset = rows[r].asset]_rows

\* A render that was asked for comes to rest: completed, failed, cancelled,
\* or left by one of the exceptions of InProgressHasRun.
Settles(r) ==
    (rows[r].status = "queued") ~>
        (rows[r].status \in {"completed", "failed", "cancelled"} \/ r \in untold)

\* What requeue keeps for: a resumed render may finish, since its bytes are
\* not recorded yet.  It is not so once the worker died between the asset and
\* the row, or two renders have one plan: the index refuses every later run.
ResumedMayFinish ==
    \A r \in Renders :
        rows[r].status = "queued" => \E bytes \in OutputOf[r] : ~Recorded(bytes)
==============================================================================

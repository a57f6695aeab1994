-------------------------- MODULE ContentGeneration --------------------------
(***************************************************************************)
(* The writing of contents: the routes that create, edit, review, approve  *)
(* and reject a content item (packages/core/src/editorial/content.ts), and *)
(* the job `generate_content' of the worker, which reads an item, awaits   *)
(* the model and writes what it read (handlers/generate-content.ts).       *)
(*                                                                         *)
(* One angle of one project; what the angle and the brief refuse (module   *)
(* EditorialPlan) they may refuse at any time.  The worker and the API are *)
(* two processes on one database: an action of a route is one synchronous  *)
(* handler; a draft is written in two steps, the version and then the row  *)
(* of its item, which is where a crash may fall.                           *)
(***************************************************************************)
EXTENDS ContentStates, Sequences, FiniteSets

CONSTANTS
    Targets,     \* the targets of a lot, numbers in the order of their table
    MaxItems,    \* bound: rows of content_items
    MaxJobs,     \* bound: jobs
    MaxWork,     \* bound: rows times jobs
    MaxEvents,   \* bound: clicks of humans and faults, taken together
    MaxAttempts, \* max_attempts of generate_content
    MaxRegen,    \* MAX_REGENERATIONS_PER_ITEM
    Retries      \* REGENERATION_ATTEMPTS_PER_TARGET

ASSUME GenerationAssumption ==
    /\ Targets \subseteq Nat /\ IsFiniteSet(Targets)
    /\ MaxItems \in Nat /\ MaxJobs \in Nat /\ MaxWork \in Nat /\ MaxEvents \in Nat
    /\ MaxAttempts \in Nat \ {0} /\ MaxRegen \in Nat /\ Retries \in Nat

VARIABLES
    items,     \* content_items, in the order of their creation
    versions,  \* content_versions of each item, with their notes and claims
    jobs,      \* the jobs generate_content
    runs,      \* the memory of the execution of each job
    events,    \* clicks and faults so far, counted for their bound
    reviews,   \* reviews awaiting their agents: <<item, version>>
    orphans,   \* versions left behind by a refused move or a crash
    overtaken  \* items written by somebody while a run held a copy of them

vars == <<items, versions, jobs, runs, events, reviews, orphans, overtaken>>

User == 0
Reviewers == {"critic", "fact_checker"}
ItemIds == DOMAIN items
JobIds == DOMAIN jobs
Idle == [pc |-> "idle", entries |-> <<>>, bad |-> {}, todo |-> {}, pass |-> 0]

\* A row of content_items.
ItemRow == [target : Targets, state : ContentState, current : Nat, approved : Nat, regen : Nat]

\* A row of content_versions, with what its notes and claims say.
VersionRow == [by : Nat, bad : BOOLEAN, notes : SUBSET Reviewers, risky : BOOLEAN]

\* A job and its input.
JobRow == [status : {"queued", "running", "done", "failed"}, attempt : Nat,
           mode : {"initial", "regenerated"}, item : Nat, targets : SUBSET Targets]

NewItem(target) ==
    [target |-> target, state |-> "draft", current |-> 0, approved |-> 0, regen |-> 0]

NewVersion(author, bad) ==
    [by |-> author, bad |-> bad, notes |-> {}, risky |-> FALSE]

\* Nothing written yet, or one text of a human on an item of the angle.
Init ==
    /\ \/ items = <<>> /\ versions = <<>>
       \/ \E t \in Targets :
            /\ items = <<[NewItem(t) EXCEPT !.state = "generated", !.current = 1]>>
            /\ versions = <<<<NewVersion(User, FALSE)>>>>
    /\ jobs = <<>> /\ runs = <<>>
    /\ events = 0 /\ reviews = {} /\ orphans = {} /\ overtaken = {}

------------------------------------------------------------------------------
(* The store.                                                              *)

AddVersion(all, i, author, bad) ==
    [all EXCEPT ![i] = Append(@, NewVersion(author, bad))]

\* The approval of the former text is kept: a mutant of DraftColumns.
DraftColumns_Keep(row, copy, generation, number) ==
    [row EXCEPT !.current = number,
                !.regen = IF generation = "regenerated" THEN copy.regen + 1 ELSE @]

\* The columns a draft rewrites, over whatever the row has become: those of
\* the approval only when the copy that was read carried one.
DraftColumns(row, copy, generation, number) ==
    [row EXCEPT !.current = number,
                !.approved = IF copy.approved # 0 THEN 0 ELSE @,
                !.regen = IF generation = "regenerated" THEN copy.regen + 1 ELSE @]

\* The state a draft leads to.
DraftState(copy, generation) ==
    IF generation = "initial" THEN "generated"
    ELSE AfterRewrite(copy.state, copy.approved # 0)

\* recordDraft once the version exists: the move is judged on the copy and
\* written on the row, and not written at all when the copy is already there.
RecordDraft(row, copy, generation, number) ==
    LET to == DraftState(copy, generation) IN
    DraftColumns(IF copy.state = to THEN row ELSE [row EXCEPT !.state = to],
                 copy, generation, number)

\* The runs that hold a copy of an item.
Holders(i) ==
    {j \in JobIds : \E t \in DOMAIN runs[j].entries : runs[j].entries[t].item = i}

Overtakes(i, others) == overtaken' = IF others = {} THEN overtaken ELSE overtaken \cup {i}

------------------------------------------------------------------------------
(* The routes.                                                             *)

Active(j) == jobs[j].status \in {"queued", "running"}

Events(n) == events + n <= MaxEvents /\ events' = events + n
Event == Events(1)

\* dedupeKey of generate_content: the item when the job names one.
Key(mode, item, targets) == IF item # 0 THEN <<mode, item>> ELSE <<mode, targets>>

KeyOf(job) == Key(job.mode, job.item, job.targets)

Enqueue(mode, item, targets) ==
    IF \E j \in JobIds : Active(j) /\ KeyOf(jobs[j]) = Key(mode, item, targets)
    THEN UNCHANGED <<jobs, runs>>
    ELSE /\ Len(jobs) < MaxJobs /\ (Len(jobs) + 1) * Len(items') <= MaxWork
         /\ jobs' = Append(jobs, [status |-> "queued", mode |-> mode, item |-> item,
                                  targets |-> targets, attempt |-> 0])
         /\ runs' = Append(runs, Idle)

Rank(t, targets) == Cardinality({u \in targets : u <= t})

\* createContentItems: one row for each target, in the order of the targets.
NewItems(targets) ==
    [n \in 1 .. Cardinality(targets) |-> NewItem(CHOOSE t \in targets : Rank(t, targets) = n)]

\* POST /projects/:id/content: one row for each target, and one job.
Generate(targets) ==
    /\ targets # {} /\ Events(Cardinality(targets))
    /\ Len(items) + Cardinality(targets) <= MaxItems
    /\ items' = items \o NewItems(targets)
    /\ versions' = versions \o [n \in 1 .. Cardinality(targets) |-> <<>>]
    /\ Enqueue("initial", IF Cardinality(targets) = 1 THEN Len(items) + 1 ELSE 0, targets)
    /\ UNCHANGED <<reviews, orphans, overtaken>>

\* One rewriting more than allowed: a mutant of MayRegenerate.
MayRegenerate_OneMore(row) == row.state # "archived" /\ row.regen <= MaxRegen

\* assertRegenerationAllowed.
MayRegenerate(row) == row.state # "archived" /\ row.regen < MaxRegen

\* POST /content/:contentId/regenerate.
Regenerate(i) ==
    /\ Event /\ MayRegenerate(items[i])
    /\ UNCHANGED items
    /\ Enqueue("regenerated", i, {items[i].target})
    /\ UNCHANGED <<versions, reviews, orphans, overtaken>>

\* PATCH /content/:contentId: a human writes a version of his own.  It is
\* added before the move of the item is tried, and stays when that is refused.
Edit(i) ==
    /\ Event
    /\ items[i].state # "archived"
    /\ versions' = AddVersion(versions, i, User, FALSE)
    /\ IF MayAdvance(items[i].state, DraftState(items[i], "edited"))
       THEN /\ items' = [items EXCEPT ![i] =
                           RecordDraft(@, @, "edited", Len(versions[i]) + 1)]
            /\ Overtakes(i, Holders(i))
            /\ UNCHANGED orphans
       ELSE /\ orphans' = orphans \cup {<<i, Len(versions'[i])>>}
            /\ UNCHANGED <<items, overtaken>>
    /\ UNCHANGED <<jobs, runs, reviews>>

\* POST /content/:contentId/review, up to the agents: the item is in review.
OpenReview(i) ==
    /\ Event
    /\ MayMove(items[i].state, "in_review")
    /\ items' = [items EXCEPT ![i].state = "in_review"]
    /\ reviews' = reviews \cup
         (IF items[i].current = 0 THEN {} ELSE {<<i, items[i].current>>})
    /\ Overtakes(i, IF items[i].state = "in_review" THEN {} ELSE Holders(i))
    /\ UNCHANGED <<versions, jobs, runs, orphans>>

\* replaceNotes of both authors and replaceClaims, on one version.
Noted(version, risky) == [version EXCEPT !.notes = @ \cup Reviewers, !.risky = risky]

\* The agents have answered: the notes and the claims of the version that was
\* read, whatever the item has become.
CloseReview(i, v, risky) ==
    /\ <<i, v>> \in reviews
    /\ reviews' = reviews \ {<<i, v>>}
    /\ versions' = [versions EXCEPT ![i][v] = Noted(@, risky)]
    /\ UNCHANGED <<items, jobs, runs, orphans, overtaken, events>>

\* An agent fails: the request is answered with an error, nothing is written.
AbandonReview(i, v) ==
    /\ <<i, v>> \in reviews
    /\ reviews' = reviews \ {<<i, v>>}
    /\ UNCHANGED <<items, versions, jobs, runs, orphans, overtaken, events>>

\* A control of any version will do: a mutant of Approvable.
Approvable_AnyVersion(row, texts) ==
    /\ row.current # 0
    /\ \E v \in DOMAIN texts : Reviewers \subseteq texts[v].notes
    /\ ~texts[row.current].risky

\* What approveContent asks of the text: both controls on this very version,
\* and no critical claim left without evidence.
Approvable(row, texts) ==
    /\ row.current # 0
    /\ Reviewers \subseteq texts[row.current].notes
    /\ ~texts[row.current].risky

\* POST /content/:contentId/approve.
Approve(i) ==
    /\ Event
    /\ MayMove(items[i].state, "approved")
    /\ Approvable(items[i], versions[i])
    /\ items' = [items EXCEPT ![i].state = "approved", ![i].approved = items[i].current]
    /\ Overtakes(i, Holders(i))
    /\ UNCHANGED <<versions, jobs, runs, reviews, orphans>>

\* POST /content/:contentId/reject: the reason is a note of the version, and
\* the item is archived.
Reject(i) ==
    /\ Event
    /\ MayMove(items[i].state, "archived")
    /\ items' = [items EXCEPT ![i].state = "archived"]
    /\ Overtakes(i, Holders(i))
    /\ UNCHANGED <<versions, jobs, runs, reviews, orphans>>

\* The publication of an approved item, or what a human says of it.
Publish(i) ==
    /\ Event
    /\ items[i].state = "approved"
    /\ items' = [items EXCEPT ![i].state = "published"]
    /\ Overtakes(i, Holders(i))
    /\ UNCHANGED <<versions, jobs, runs, reviews, orphans>>

------------------------------------------------------------------------------
(* The job.                                                                *)

\* batchItems: the newest row of the target that is not archived.
Candidates(t) == {i \in ItemIds : items[i].target = t /\ items[i].state # "archived"}
Newest(t) == CHOOSE i \in Candidates(t) : \A k \in Candidates(t) : k <= i

Entry(i) == [item |-> i, copy |-> items[i], bad |-> FALSE]

\* The rows the job will write, as it reads them before it calls the model.
Entries(j) ==
    [t \in jobs[j].targets |-> Entry(IF jobs[j].mode = "regenerated" THEN jobs[j].item
                                     ELSE Newest(t))]

\* regenerationTarget, or a row for every target of the lot.
Found(j) == jobs[j].mode = "regenerated" \/ \A t \in jobs[j].targets : Candidates(t) # {}

\* What a run finds around its rows: the brief, the angle and its subject, the
\* prompts (modules Conversation, EditorialPlan and PromptSync).
Surroundings ==
    [brief : {"none", "draft", "validated"}, angle : {"missing", "open", "selected"},
     subject : {"missing", "foreign", "own"}, prompts : BOOLEAN]

\* assertBriefApproved.
BriefApproved(found) == found.brief = "validated"

\* contentContext: the angle was chosen, and its subject is of this project.
AngleUsable(found) == found.angle = "selected" /\ found.subject = "own"

Writable(found) == BriefApproved(found) /\ AngleUsable(found) /\ found.prompts

\* build_context: the rows are found and copied.
Start(j) ==
    /\ jobs[j].status = "queued" /\ Found(j)
    /\ \E found \in Surroundings : Writable(found)
    /\ jobs' = [jobs EXCEPT ![j].status = "running", ![j].attempt = @ + 1]
    /\ runs' = [runs EXCEPT ![j] = [Idle EXCEPT !.pc = "call", !.entries = Entries(j)]]
    /\ UNCHANGED <<items, versions, reviews, orphans, overtaken, events>>

\* The brief, the angle, a prompt or a row is missing: the job is refused
\* before anything is paid.
Refuse(j) ==
    /\ jobs[j].status = "queued"
    /\ ~Found(j) \/ \E found \in Surroundings : ~Writable(found)
    /\ jobs' = [jobs EXCEPT ![j].status = "failed", ![j].attempt = @ + 1]
    /\ UNCHANGED <<items, versions, runs, reviews, orphans, overtaken, events>>

\* Where a run leaves its job: a transient error leaves attempts to the queue
\* (markJobForRetry), and the lease of a worker that died gives the job back
\* whatever its attempts (reclaimExpiredJobs).
Left(j, outcome) ==
    CASE outcome = "lost" -> "queued"
      [] outcome = "transient" -> IF jobs[j].attempt < MaxAttempts THEN "queued" ELSE "failed"
      [] OTHER -> outcome

\* The memory of the run is kept: a mutant of End.
End_Kept(j, outcome) ==
    /\ jobs' = [jobs EXCEPT ![j].status = Left(j, outcome)]
    /\ UNCHANGED runs

\* A job that lost its worker stays with it: a mutant of End.
End_Stuck(j, outcome) ==
    /\ jobs' = [jobs EXCEPT ![j].status = IF outcome = "lost" THEN @ ELSE Left(j, outcome)]
    /\ runs' = [runs EXCEPT ![j] = Idle]

\* The run is over.
End(j, outcome) ==
    /\ jobs' = [jobs EXCEPT ![j].status = Left(j, outcome)]
    /\ runs' = [runs EXCEPT ![j] = Idle]

Quality == {"good", "bad", "missing"}

\* Each draft is looked for when its turn comes: a mutant of Answered.
Answered_OneByOne(j, targets, answer) ==
    /\ runs' = [runs EXCEPT ![j].pc = "write", ![j].pass = @ + 1,
                            ![j].todo = {t \in targets : answer[t] # "missing"},
                            ![j].bad = {t \in targets : answer[t] = "bad"}]
    /\ UNCHANGED jobs

\* pickDraft on every target the pass has to write: one is missing and the
\* run fails before it writes anything.
Answered(j, targets, answer) ==
    IF \E t \in targets : answer[t] = "missing"
    THEN End(j, "failed")
    ELSE /\ runs' = [runs EXCEPT ![j].pc = "write", ![j].pass = @ + 1, ![j].todo = targets,
                                 ![j].bad = {t \in targets : answer[t] = "bad"}]
         /\ UNCHANGED jobs

\* write_initial: the call that is paid, and its answer.
Call(j) ==
    /\ runs[j].pc = "call"
    /\ \E answer \in [jobs[j].targets -> Quality] : Answered(j, jobs[j].targets, answer)
    /\ UNCHANGED <<items, versions, reviews, orphans, overtaken, events>>

\* The provider does not answer, or no budget is left.
CallFails(j) ==
    /\ Event /\ runs[j].pc \in {"call", "retry"}
    /\ \E outcome \in {"transient", "failed"} : End(j, outcome)
    /\ UNCHANGED <<items, versions, reviews, orphans, overtaken>>

NextTarget(j) == CHOOSE t \in runs[j].todo : \A u \in runs[j].todo : t <= u
Generation(j) == IF runs[j].pass = 1 THEN jobs[j].mode ELSE "regenerated"

\* A job that does not know its own texts: a mutant of WrittenByJob.
WrittenByJob_Never(j, entry) == FALSE

\* writtenByJob, on the version the copy of the item points to.
WrittenByJob(j, entry) ==
    entry.copy.current # 0 /\ versions[entry.item][entry.copy.current].by = j

\* writeDraft on a text of this job: nothing is written.
Keep(j) ==
    /\ runs[j].pc = "write" /\ runs[j].todo # {}
    /\ LET t == NextTarget(j)
           e == runs[j].entries[t]
       IN /\ WrittenByJob(j, e)
          /\ runs' = [runs EXCEPT
               ![j].todo = @ \ {t},
               ![j].entries[t].bad = versions[e.item][e.copy.current].bad]
    /\ UNCHANGED <<items, versions, jobs, reviews, orphans, overtaken, events>>

\* writeDraft, the version and its notes.
WriteVersion(j) ==
    /\ runs[j].pc = "write" /\ runs[j].todo # {}
    /\ LET t == NextTarget(j)
           e == runs[j].entries[t]
       IN /\ ~WrittenByJob(j, e)
          /\ versions' = AddVersion(versions, e.item, j, t \in runs[j].bad)
          /\ runs' = [runs EXCEPT ![j].pc = "advance"]
    /\ UNCHANGED <<items, jobs, reviews, orphans, overtaken, events>>

\* The version just written: the last one of this job.
Written(j, i) ==
    LET mine == {v \in DOMAIN versions[i] : versions[i][v].by = j}
    IN CHOOSE v \in mine : \A u \in mine : u <= v

\* writeDraft, the row of the item: the move is refused on the copy that was
\* read, and the version stays behind; or it is written over the row.
Advance(j) ==
    /\ runs[j].pc = "advance"
    /\ LET t == NextTarget(j)
           e == runs[j].entries[t]
           v == Written(j, e.item)
           row == RecordDraft(items[e.item], e.copy, Generation(j), v)
       IN IF MayAdvance(e.copy.state, DraftState(e.copy, Generation(j)))
          THEN /\ items' = [items EXCEPT ![e.item] = row]
               /\ runs' = [runs EXCEPT
                    ![j].pc = "write", ![j].todo = @ \ {t},
                    ![j].entries[t] = [@ EXCEPT !.copy = row,
                                                !.bad = versions[e.item][v].bad]]
               /\ Overtakes(e.item, Holders(e.item) \ {j})
               /\ UNCHANGED <<jobs, orphans>>
          ELSE /\ End(j, "failed")
               /\ orphans' = orphans \cup {<<e.item, v>>}
               /\ UNCHANGED <<items, overtaken>>
    /\ UNCHANGED <<versions, reviews, events>>

Failing(j) == {t \in DOMAIN runs[j].entries : runs[j].entries[t].bad}

\* planRegeneration, on the row as it is now.
Replanned(j) == {t \in Failing(j) : MayRegenerate(items[runs[j].entries[t].item])}

MorePasses(j) == runs[j].pass <= Retries /\ Replanned(j) # {}

\* Everything of the pass is written: rewrite what fails, or report.
Settle(j) ==
    /\ runs[j].pc = "write" /\ runs[j].todo = {}
    /\ IF MorePasses(j)
       THEN runs' = [runs EXCEPT ![j].pc = "retry"] /\ UNCHANGED jobs
       ELSE End(j, "done")
    /\ UNCHANGED <<items, versions, reviews, orphans, overtaken, events>>

\* write_retry: the second call names the targets that may be rewritten; a
\* draft is expected for every failing one.
Retry(j) ==
    /\ runs[j].pc = "retry"
    /\ \E answer \in [Failing(j) -> Quality] : Answered(j, Failing(j), answer)
    /\ UNCHANGED <<items, versions, reviews, orphans, overtaken, events>>

\* The worker dies: its memory is lost, and its lease gives the job back, as
\* often as it dies: only failures are counted against max_attempts.
Crash(j) ==
    /\ Event /\ jobs[j].status = "running"
    /\ orphans' = orphans \cup
         IF runs[j].pc # "advance" THEN {}
         ELSE LET i == runs[j].entries[NextTarget(j)].item IN {<<i, Written(j, i)>>}
    /\ End(j, "lost")
    /\ UNCHANGED <<items, versions, reviews, overtaken>>

------------------------------------------------------------------------------
Route ==
    \/ \E targets \in SUBSET Targets : Generate(targets)
    \/ \E i \in ItemIds : \/ Regenerate(i) \/ Edit(i) \/ Approve(i) \/ Reject(i)
                          \/ OpenReview(i) \/ Publish(i)
    \/ \E r \in reviews : \/ \E risky \in BOOLEAN : CloseReview(r[1], r[2], risky)
                          \/ AbandonReview(r[1], r[2])

Work(j) ==
    \/ Start(j) \/ Refuse(j) \/ Call(j) \/ CallFails(j) \/ Keep(j) \/ WriteVersion(j)
    \/ Advance(j) \/ Settle(j) \/ Retry(j)

Next == Route \/ \E j \in JobIds : Work(j) \/ Crash(j)

Spec == Init /\ [][Next]_vars

\* The worker keeps running its jobs.
Fairness == \A j \in 1 .. MaxJobs : WF_vars(j \in JobIds /\ Work(j))

FairSpec == Spec /\ Fairness
==============================================================================

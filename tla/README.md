# Verification of automatisaton-ia

TLA+ specifications of the parts of this monorepo whose correctness depends on the *order* of
events, the TLC configurations that check them on small instances, and TLAPS proofs, for every
instance, of what the job queue, the publications and the writing of contents promise. The source
code is the reference: every definition is translated from it, and `PROJECT.json` ("map") names the lines each
one stands for. Documents, comments and tests are read as statements of what the program promises;
where the code does something else, section 9 says so, and a run shows it when it matters most.

1. Inventory of the system
2. Plan
3. How the modules are written
4. The job queue
5. Publications
6. Contents, interviews, memory, money (runs `generation` and `editing`)
7. What moves while somebody watches (run `runtime`)
8. What is proved
9. Disagreements between the code, its documentation and what one would expect
10. What is not modelled, and how to run everything

---

## 1. Inventory

The program is a personal content pipeline: an interview with the user feeds a project memory, a
master brief is derived from it, subjects and angles are planned, texts are written by a worker,
reviewed and approved by a human, and published on platforms; films are imported and cut into
shorts. Three processes share one SQLite database: the API (`apps/api`), one or more workers
(`apps/worker`), a browser (`apps/web`) that only talks to the API. Single statements, and the few
callbacks that really run inside a transaction, are the only synchronisation between processes;
within a process, every `await` is a point where another request or callback runs.

**A fact about this code that decides many models.** `store.transaction` and the claim of the queue
hand drizzle's `db.transaction` a callback that *returns a function* doing the work; the driver
commits when the callback returns, and the work then runs statement by statement outside of it
(`repositories/jobs.ts:124`, `:289`, `job-events.ts:31`, `conversation.ts:540`,
`project-memory.ts:660`). `publishing.ts:414` and `media.ts:175` are real transactions. Whatever the
first five do is therefore several steps here.

| component | state | what is hard | what makes it correct | modules |
|---|---|---|---|---|
| **Job queue, worker loop** `packages/queue`, `repositories/jobs.ts`, `apps/worker/src/loop.ts` | table `jobs`, claimed batch, timer | leases, crashes, two processes, late answers, retries | nothing lost, one active row per key, bounded retries, delays honoured, a doubtful result never replayed | `JobQueue`, `JobContract`, `JobQueueProps`, `JobQueueProofs`, `RetryPolicy` |
| **Publication** `handlers/publish-content.ts`, `repositories/publishing.ts`, `routes/publishing.ts` | publications, attempts, accounts, the handler's variables | a POST whose fate is unknown, a crash between send and record, a human in parallel | never posted twice, doubt goes to a human, nothing stays in flight | `Publication`, `PublicationContract`, `PublicationProps`, `PublicationProofs`, `PlatformReply`, `ContentStates` |
| **Accounts and publication by hand** `routes/publishing.ts` | accounts, default, packages | the package awaits a connector, two writes without a transaction | what is said to be posted is what was approved | `PlatformAccounts` |
| **Platform client and connectors** `packages/publishing` | one call; promises per account | an error that may mean success; a lock that changes hands | a post without a key leaves once; what is accepted can be written | `HttpClient`, `EditorialRules`, `AccountLocks` |
| **Contents** `core/src/editorial/content.ts`, `handlers/generate-content.ts` | items, versions, notes, jobs | stale item after a model call, resumption, second rewriting | what is approved was reviewed and is current; a lot is whole; nothing is written twice | `ContentGeneration`, `ContentContract`, `ContentGenerationProps`, `ContentGenerationProofs`, `ContentStates` |
| **Conversation, master brief, edit plan** `core/src/conversation` | stage, messages, plans, chain of briefs | model call between two steps, cut between two statements | one living brief, a closed conversation stays closed, a proposal is written once | `Conversation` |
| **Project memory, profiles** `core/src/projects` | facts and their chains, skills, audiences, styles | chains of replacement, writes in any order | a replaced fact is dead, levels rise | `ProjectMemory`, `ProjectProfiles` |
| **Selection of the context** `projects/selection.ts`, `ai/src/memory-pack.ts` | none | total order, budget | no fact is left out for a worse one | `FactSelection` |
| **Editorial plan, local rules** `core/src/editorial` | subjects, angles | facts read before an awaited call | grounded, one selected angle | `EditorialPlan`, `EditorialRules` |
| **Recordings, retention** `routes/media.ts`, `repositories/media.ts`, `media/src/retention.ts` | assets, files, transcripts | file and row apart, deletion against a message being sent | one row per sound, evidence is kept | `Recordings` |
| **Films** `apps/api/src/features/media.ts`, `handlers/render-video.ts` | assets, renders, files | rename, asset and completion apart; resumption during an encoding | a row has its file; a completed render too | `VideoImport`, `VideoRender`, `Semaphore` |
| **Media tools** `packages/media` | an external process; none | timer, abort and exit race; roundings | an interrupted process is retried; cues follow the speech | `ProcessRun`, `ClipPlan`, `MediaRules` |
| **Model calls, budget** `packages/ai`, `packages/analytics` | `llm_calls`, limits | check and record are apart, midnight | overspending is what was in flight | `Spending`, `ModelAnswer` |
| **Prompts** `ai/src/prompts/sync.ts` | `prompt_versions` | two processes start at once | the version inserted last is served | `PromptSync` |
| **Job events, streams** `job-events.ts`, `routes/jobs.ts` | numbered journal, cursor | two runs append, pages, resumption | numbered without a gap, received in order, once | `JobEvents` |
| **System health** `core/src/system/health.ts` | heartbeats | batch, stolen lease, death | a busy worker is not shown silent | `SystemHealth` |
| **Web** `apps/web` | reducers, polling, EventSource | answers out of order, replayed journal | the end is told once, a correction is kept, the card opens what the routes accept | `JobScreen`, `ConversationScreen`, `VoiceInput`, `VideoScreen`, `ContentGenerationProps` (the card) |
| **Configuration, logging, database client, agents' texts, simulated connector, scripts** | – | – | pure I/O, formats and text | not modelled |

All components with their sources and status are in `PROJECT.json` ("components"). The hazards of
the code, each at the line where it bites, are under "hazards" with the properties that would catch
them; a hazard with a property and a note is met only as far as the note says.

## 2. Plan

Done, in this order: the queue (1), the publications (2), the contents (3), renders and recordings
(4), conversations (5), memory, selection and budget (6), journal, streams and locks (7), then the
screens, the health, the prompts, the imports and the pure rules (8).

The proofs went the same way: the queue, the publications and their contracts, the contents, what
runs beside the queue, and what is written before anything is published (section 8).

Left, in order of interest:

1. **More of the pure rules for every input** (`RulesHold`): the limits of the budget, the ratio of an
   edition and the subtitles, which compute with folds.
2. The formula of the backoff and its jitter; alerts and forecasts of the budget, if they are ever
   used by the program.

## 3. How the modules are written

Every module is parameterised by constants with a named assumption, declares its variables, and has
one action per statement, synchronous handler or step between two awaits. A synchronous handler of
the API is one action: a process runs it to its end, and what another process may do between two of
its statements is a step of its own where a property can see it. Crashes are actions that fall
between any two steps. Pure algorithms are operators, checked against a second definition over all
their bounded inputs.

Components that do not interact are checked in one instance each but in two runs: `MCEditing` and
`MCRuntime` instantiate them side by side, a variable `part` (chosen in `Init`) says which one moves,
and the rest keeps still. A behaviour is thus a behaviour of one component and the state space is the
sum of theirs, not the product. The pure operators are the part "rules" of `MCEditing`, whose initial
states are the inputs. The properties of these runs are conjunctions, one per concern, of the
properties of the modules; each conjunct has its own mutant. `part` and `input` are instance
machinery and model nothing.

A definition whose name holds an underscore (`Requeued_KeepsOwner`) is a plausible mistake: no action
uses it; `PROJECT.json` ("mutants") names the property that reveals it. `MC…` names are instance data.

The runs, all with two TLC workers, take between one second and about three minutes:

| run | what moves | properties |
|---|---|---|
| `queue_single` | 1 worker, batch of 2, 3 jobs | `TypeOK` `RetriesBounded` `DelayHonoured` `AmbiguousIsFinal` `ImplementsContract` |
| `queue_two` | 2 workers, 3 jobs, a cancel | `OneActivePerKey` `EveryJobSettles` |
| `queue_reserved` | 2 workers, no fault | `OneRunner` is **violated** |
| `publication_once` | 1 runner, every answer and error | `TypeOK` `NoDuplicate` `AmbiguousWaitsForHuman` `ImplementsContract` |
| `publication_two` | 2 runners, 2 crashes, a human | `OneSender` `SendingIsResolved` |
| `publication_item` | 2 accounts | `PublishedMeansSettled` |
| `publication_stolen` | 2 runners, expired leases | `DuplicateNeedsRetry` |
| `publication_unavailable` | 1 runner, a 503 after an accepted post | `NoDuplicate` is **violated** |
| `publication_unapproved` | an edit after the request | `NothingSentUnapproved` is **violated** |
| `generation` | 2 targets, 2 items, 2 jobs, 4 clicks or faults | `TypeOK` `ApprovalHolds` `LotIsWhole` `WritingIsBounded` `CardIsHonest` `ImplementsContract` `JobEnds` |
| `editing` | eleven components in turn, and the rules | `TypeOK` `InterviewHolds` `MemoryIsSound` `PlanIsSound` `StoredOnce` `SpendingIsBounded` `PublishedAsApproved` `MontageFits` `RulesHold` `HealthIsTrue` `NothingIsUndone` |
| `runtime` | nine components in turn | `TypeOK` `JournalIsWhole` `RendersAreTrue` `TurnsAreKept` `AnswersAreMatched` `NothingGoesBack` `WaitsEnd` |

Deadlock is checked for the queue only: a settled publication, an archived item, a journal that has
ended or a program that has exited are legitimate ends.

## 4. The job queue

### Correspondence

`JobQueue` has one variable for the table (`jobs`, one record per row), and for each worker the local
state of its loop: `pc`, `held` (rows selected or claimed), `current`, `timer` (the heartbeat's or
the poll's), `stopping`. A statement of `repositories/jobs.ts` is one operator on a row (`Inserted`,
`Claimed`, `Completed`, `MarkedForRetry`, `MarkedFailed`, `Requeued`, `Promoted`, `Prolonged`) and
each method of `SqliteQueue` or step of `loop.ts` is one action:

| action | code |
|---|---|
| `Enqueue`, `Cancel` | `SqliteQueue.enqueue` (lookup, insert, unique index), `cancel` |
| `SelectExpired`, `ReclaimExpired` | the SELECT and the UPDATE of `reclaimExpiredJobs` |
| `PromoteScheduled` | `promoteDueJobs`, one statement |
| `Select`, `Claim` | the SELECT of `claimNextJobs`, then its UPDATEs and the rows it returns; `Claim` also fails the rows that no handler can read |
| `Run`, `Release` | the batch, one row after the other; what is left when a stop arrives |
| `Heartbeat` | the interval of the *running* job only |
| `Complete`, `Retry`, `Fail` | `queue.complete` and `queue.fail`; `Retry` with an index conflict throws out of the loop (`AbandonBatch`) |
| `RequestStop`, `Exit`, `Crash`, `Start` | signals, grace period, death, relaunch |
| `Tick` | one unit of time |

The claim is two steps because its transaction is over before its statements run (section 1): every
selected row is returned and run, updated or not. With one worker this changes nothing; with two,
`queue_reserved` shows the same job in both.

Time is relative: the code only ever compares a timestamp with the present, so a row stores
`available_at - now`, `scheduled_for - now` and `lease_expires_at - now`. Overdue rows are told apart
down to `-AgeCap`, enough to keep FIFO order among the rows of an instance, and behaviours are of any
length. `Tick` waits for workers in the middle of a turn and for timers that have fired: the event
loop is not blocked for longer than a unit (a heartbeat period, ten seconds by default).
`embargo` and `returned` observe the behaviour and no action reads them: the time during which a row
must not run, and how often it went back to the queue without a failure.

### Runs

| run | instance | what it shows |
|---|---|---|
| `queue_single` | 1 worker, batch of 2, 3 jobs (two share a key), transient, internal and ambiguous errors, delays 0 and 2, 1 crash or stop | the documented deployment keeps delays and attempt bounds, never replays a doubtful result, and implements `JobContract` |
| `queue_two` | 2 workers (one offline), batch of 1, an unreadable job, a cancel, 1 crash or stop | one active row per key even when both run one job; every queued job ends |
| `queue_reserved` | 2 workers, 2 jobs, nothing fails | `OneRunner` is violated |

`ImplementsContract` is the refinement of `JobContract`: to whoever submits a job it is absent,
pending or settled, runs in one worker at a time and only while pending, and never leaves "settled".
It holds with one worker; `queue_reserved` is why it does not with two.

Bounds. Two attempts per job make the first failure retried and the second final; three jobs are one
pair in competition for a key plus one bystander; two workers are a thief and a victim. A lease of
two or three units against a heartbeat of one leaves room for a beat and for an expiry. `MaxOutages`
counts crashes and stop requests together.

Fairness (`queue_two`): weak fairness of time, of each worker's restart, loop, batch, heartbeat, end
of handler and exit. The code justifies it: the loop polls on a timer for as long as the process
lives, a supervisor restarts the process, and handlers end or are cut (`ctx.signal`, HTTP and ffmpeg
timeouts). Enqueues, cancels, crashes and stops are not owed to anyone.

`RowConsistent` (a row is running exactly when it has an owner and a lease) is in no run: it is proved.

## 5. Publications

### Correspondence

`Publication` follows one content item with several versions and accounts. A publication is the row
of one version on one account (unique index `uq_publication_version_account`), hence its name
`<<version, account>>`. Variables: the item (`state`, `current`, `approved`), `connection` of each
account, the row (`status`, `human` = needs_human_decision, `stamped` = published_at is set, `logged`
= an attempt 1 exists), the queue seen from the key `publish:<id>` (`job`, `tries`), each runner of
the handler (`pc`, `on`, `level`, `told`, `error`, and `stale` when somebody else ended its job row),
and the world, which no code reads: `online` (posts visible) and `retried` (what a human sent again).

| action | code |
|---|---|
| `Take`, `Expire`, `End` | claim of the job, expiry of its lease, complete or fail with `RetryPolicy` |
| `Load`, `Hold`, `Claim` | the three locks of the handler: settled rows, budget brake, conditional update |
| `Reject`, `Handover`, `ThrowBeforeSend`, `Send` | validation, level C, errors raised before the request, the request |
| `Land` | the platform accepts the post; it is not known to the code |
| `Answer` | wire event → `HttpOutcome` → `LinkedInOutcome` → `ReactionFor` → one branch of the handler's switch |
| `Verdict` | `resolveAmbiguity` with `verifyPublished` |
| `Postpone`, `Settle` | `reschedule`, and `onSettled` (`applyPublicationOutcome`), each a transaction of its own |
| `RequestPublication`, `Decide`, `MarkPublished`, `Authorize` | the routes of the API |
| `Edit`, `Review`, `Approve`, `Archive` | the operations on the item, by the table of `ContentStates` |
| `Crash` | the worker dies between any two of the above |

`PlatformReply` keeps eleven wire events, one per branch of the HTTP client and of the LinkedIn
interpreter. `Lands` says after which of them the post may be online; the passing runs use
`MCHonestLands`, what the comments of the client claim (201 with or without identifier, an unreadable
2xx, a timeout). What happens when a 503 follows an accepted post is the run `publication_unavailable`.

Assumptions on the environment: the human tells the truth (looks at the platform before deciding),
`verifyPublished` may fail to answer but does not lie, no post lands after it has been verified
absent, and request plus enqueue of the route is one step (its crash window is listed as a hazard).
Delays are abstracted: a queued job may be taken at any time, which covers every delay.

### Runs

| run | instance | what it shows |
|---|---|---|
| `publication_once` | 1 account of level A that can be verified, 2 versions, 1 runner, 1 crash, every wire event, every early error, brake, reconnection | whatever happens a version is posted at most once, doubt ends by the truth or by a human, and the pipeline implements its contract |
| `publication_two` | 2 runners, 2 crashes, brake, human publishing by hand | one sender at a time; under fairness nothing stays in flight |
| `publication_item` | 2 accounts (levels A and B), every event, 1 crash | the item is published only when no target is pending, and stays truthful |
| `publication_stolen` | 2 runners, leases expire under live handlers, 1 crash, no brake | without exclusivity a version is still posted twice only if a human asked for another attempt |
| `publication_unavailable`, `publication_unapproved` | smallest instances | one violation each (section 9) |

`PublicationContract` abstracts a publication to absent, pending, doubtful, done or closed plus the
number of posts: a post is made only while pending with nothing online, "done" only when something is
online, doubt ends by the truth or by a human, and "done" is final.

Bounds. Two versions are needed for an edit to cross a publication; two accounts for an item to wait
for its other target; one crash can fall between any two steps, and in `publication_two` the second
can hit the run that repairs the first. `online` saturates at 2, which is already a duplicate, and
`tries` at the two attempts of the specification of the job.

`publication_two` leaves out the category "internal" from `Throws`: an internal error on the last
attempt, raised after the claim and before the request, ends the job and leaves the row `publishing`
with nothing to resolve it (the next request enqueues a job that does). `publication_stolen` leaves
out the brake, whose unconditional write of `planned` can undo another runner's claim. Both are
listed as hazards.

Fairness: weak on every runner's step, since a handler goes on by itself; weak on the expiry of a
dead worker's lease, found by the next turn of any loop; strong on the taking of a queued job,
because the queue serves the oldest first, so a job that keeps coming back is taken. Humans and the
platform owe nothing, except that a request ends in some wire event (the client has a timeout).

## 6. Contents, interviews, memory, money

### Contents (run `generation`)

`ContentGeneration` has the rows of `content_items` and `content_versions` (with their notes), the
jobs `generate_content`, and the memory of each execution (`runs`: where it is, which targets are
left, which pass, and the copy of the item it read). A transient failure leaves attempts to the queue;
a lease that expires gives the job back whatever its attempts (`Left`), so crashes are bounded by
`MaxEvents` only. The routes are `Generate`, `Regenerate`, edit,
review in two steps around its agents, approve, reject and archive; the handler reads, refuses, pays
a call, checks that a lot covers its targets, and writes each draft in two steps, the version then
the item, between which a crash may fall. `overtaken` holds the items that somebody wrote while a run
held a copy: what the code does not promise for them (section 9) is excluded by name, and nothing
else is. The card of `ContentGenerationProps` (`Bundle` to `Compared`) computes what the screen shows
and opens from the same rows, by the screen's own rules.

- `ApprovalHolds`: what an item says is approved is the text it shows, and both agents have read
  that very version.
- `LotIsWhole`: a job that ends well has written every target, through crashes and rewritings.
- `WritingIsBounded`: a resumed job follows one of its texts by another only when a crash had kept
  the first from its item; an item is beyond its limit of rewritings only by the further executions of
  one rewriting, one for each (`StartedOver`), which a worker that dies again and again may add to.
- `CardIsHonest`: the buttons agree with the routes and the approval shown is the true one.
- `ImplementsContract`: `ContentContract` is what the human who answers for a content may rely on, and
  knows of no job, no copy and no crash. Of each content it keeps the stage, the text shown, the one
  approved, and the texts that were read or found risky. A text is approved only when both controls
  have read that very text and found no open risk; it is published only while it is the one approved
  and shown; another text (`Write`) is later than the one before, unread, and takes the approval away;
  nothing is written on what is archived or published; a control that comes back late (`Control`)
  speaks of a text that is or was shown. Every step of the routes, of the job and of its crashes is one
  of these or changes nothing that it sees. The mapping, `ContentOf`, calls an item of `overtaken`
  `raced`, and of those the contract promises nothing: what section 9 says of a stale copy is there.
- Under weak fairness of every job's steps, `JobEnds` (the worker restarts and an execution ends: the
  model calls have a timeout).

Two targets and two items make a lot that can be half written; two jobs cross each other; `MaxEvents`
= 4 clicks and faults are enough for a review, an approval, an edit and a crash in any order.

### Interviews, memory, plan (run `editing`)

| module | variables ↔ code | actions ↔ code |
|---|---|---|
| `Conversation` | `conv` (stage, gaps, count, closed), `messages`, `plans`, `briefs` (statuses of the chain), `turns` (requests awaiting a model) | `Turn` in its two halves around the interviewer, `Generation`, correction and validation of a brief, close, reopen, acceptance of a plan, and for each request that writes more than one statement its `...Cut`, which stops between two of them; `halted` remembers the conversations left in "brief_ready" by such a cut and not refreshed since |
| `ProjectMemory` | status of a project, `facts` with their verification and links | project and fact routes; `ReplaceCut` separates the two updates of a replacement |
| `ProjectProfiles` | skills, audiences, styles as upserts leave them | `UpsertSkill`, `AddAudience`, `AddStyle`, `Archive` |
| `EditorialPlan` | facts, brief, subjects with their angles, snapshots of requests, `halved` (subjects whose rows a death cut) | `Planning` in its two halves, selection and rejection of angles, facts forgotten and briefs rewritten meanwhile; `AnswerCut` and `SelectCut`: the API dies between two rows of a plan or two updates of a selection |
| `EditorialRules`, `FactSelection` | – | the table of the targets, the validation of a draft, the ratio of an edition, the scores, the levels and refusals of the connectors; the filter, score, order, limit and budget of the facts |
| `Recordings` | `assets`, `keys` (files), `texts`, `messages`, `sweep` | upload, sending and deletion in their steps, transcription, ageing, the sweep and its death |
| `VideoImport` | rows, files, `*.part` files, requests | receive, probe, rename, insert; death of the API anywhere |
| `PromptSync` | file, rows, synchronisations | find, insert, deactivate of two starting processes |
| `Spending` | sums, charges, calls in flight, rows | veto, answer, correction, failure, record, midnight, death; and, as pure operators, the writing and reading of `budget_limits`, the limit that holds an action, and the day, the week and the month of a zone that an instant belongs to |
| `ModelAnswer` | – | cost or error of an exchange, correction of an answer, row of `llm_calls`, and (with `RetryPolicy`) whether the queue tries again |
| `VideoScreen` | the choice, the bounds, the plan shown, the request awaited | choose, ask, answer, edit, launch, transcription changing meanwhile |
| `SystemHealth` | clock, rows, batch and timer of one worker, deaths | claim, beat, finish, die, restart, tick |
| `PlatformAccounts` | accounts, defaults, the content, the copy a run of the worker holds (`draft`), packages, publications | creation (whole or cut), edition, a rewriting of the worker that reads, awaits the model and writes version and row from its copy, ask/build of a package around the connector, confirmation (whole or cut) |
| `ClipPlan`, `MediaRules` | – | plan and cues of a clip; formats, probes, progress; ranges |

What the umbrella properties gather:

- `InterviewHolds`: one version of a brief is alive unless a request was cut; the stage is that of
  the first gap, or "brief_ready" where a reopening or a generation was cut between that stage and its
  refresh (`halted`) and nothing has refreshed the row since; no message is lost from the count, and
  what is accepted twice is written once, but for the cuts.
- `MemoryIsSound`: the two links of a replacement agree, what was replaced is dead, what a prompt may
  quote was confirmed by a human; a skill aims at something exactly while it is being learnt, a name
  has one profile.
- `PlanIsSound`: no invented quotation enters the plan; a subject has an angle unless its creation
  was cut, and one selected angle, with a selected subject, unless its last selection was.
- `StoredOnce`: one row per sound and per film whatever uploads cross; a listed film has its file;
  the version of a prompt inserted last is the one served.
- `SpendingIsBounded`: a limit is passed by the calls in flight only, a call that is over has a row,
  no cost is counted twice.
- `PublishedAsApproved`: what is said to be posted by hand is what was approved, unless the API died
  between two statements or the worker wrote a draft over a content that was no longer the one it had
  read (`overtaken`); the default account is the last one.
- `MontageFits`: the plan shown fits the video it was asked for; it is shown, and launched, for the
  content and the video it was asked for unless a choice changed while it was awaited (`moved`); of the
  bounds the form lets out the API refuses those of a clip too short or silent, and no others; the name
  of the agent is given to bounds it proposed for the video of its plan.
- `RulesHold`: the pure rules, each on every input of its set. *Costs*: an action is held exactly when a hard limit would be passed, whatever
  soft limit is met first (every pair of limits, every period and scope); the day and the week summed
  are those of the zone but for the hour its clocks changed by, once they have changed in them, and
  the month is exact. (Zones that change within two hours after midnight are excluded:
  there the start of a month may be an hour off.)
  The cost of an answer is that of the exchanges it took, an exchange within its estimate costs no
  more than it (all roundings), and an error is tried again exactly when that may help.
  *Editorial*: the rules of a target do not contradict each other, the ratio of an edition counts
  the words changed, more skills never hurt a subject, no fact is left out for a worse one; no level
  is above what an account may do; a draft that keeps to its aim can be published by hand; what the
  LinkedIn connector accepts it can write.
  *Media*: the default plan is valid, cues follow the speech; an imported film can be cut or was said
  to be too long; progress is time; an announced range is inside.
- `HealthIsTrue`: a worker at work is not shown silent, one that died there is, and the worst check
  is what is shown.
- `NothingIsUndone` (action property): a closed conversation is left by a reopening or a brief only,
  an archived project is frozen, levels rise, a recording that a message holds is kept.

Bounds. Two requests, two uploaders, two starters, two payers: every hazard listed here is a race of
two. One cut or one death per behaviour can fall between any two statements. Three facts are the
shortest chain of replacements with a middle. Times of clips, texts and byte ranges are in units
chosen so that each limit has a value on either side of it (`Clips`, `Posts`, `Probed`, `Findings`
in `MCEditing` list them). Two accounts are a default and another. About 0.8 million states, a quarter
of them rules.

## 7. What moves while somebody watches

| module | variables ↔ code | actions ↔ code |
|---|---|---|
| `JobEvents` | the job, its journal, two workers, the streams | append in its two statements, refused by the unique index or not; claim, expiry; open, page, drop and close of a stream |
| `VideoRender` | `video_renders`, assets, files, jobs, runs, renders whose request has yet to enqueue (`unqueued`) | create or resume the row, then enqueue its job (`Attach`); validate; encode, rename, asset, complete as four steps; the failure of the row (`Fail`), then that of the job (`Raise`), written by the identifier whoever holds it; crash of a worker or of the API, expired lease |
| `Semaphore` | places, queue, woken, running | arrive, leave, and the microtask of a woken waiter as a step of its own |
| `AccountLocks` | the chain of promises of each account | a task takes its place, starts, ends or throws |
| `ProcessRun` | the child, its signals, timers, outcome | exit with any code, delay, abort, kill |
| `HttpClient` | sends, what arrived, the outcome | send, time out, break, answer, try again when replayable |
| `JobScreen` | the view, cached answers, job followed, its stream and bar | start, follow, event, loss and replay, end, refetch |
| `ConversationScreen` | messages on either side, stream, cache, ticks | choose, send, answer, stream, loss, refetch |
| `VoiceInput` | microphone, upload, job, text, correction | record, upload, poll twice, type, send, cancel |

- `JournalIsWhole`: numbered without a gap though two runs append at once; a client receives it in
  order, each event once, wherever its connection drops.
- `RendersAreTrue`: a completed render has the file it names; one shown in progress has a job or a run
  that is not about to end, or a request about to enqueue one, or is `untold`: left so by a run that was
  refused before it could write the row, by one that died beside another run of its job, by an API that
  died before it enqueued, or by a resumption between a failed row and its failed job (section 9).
- `TurnsAreKept`: never more tasks than places, nobody waits beside a free place or is overtaken, one
  task per account.
- `AnswersAreMatched`: a post without a key reaches the platform once, an interrupted encoding is
  tried again whatever code it exits with, the end of a job is told once, the ticked boxes are of the
  plan displayed.
- `NothingGoesBack` (action property): completed jobs and renders stay so, a bar never goes back, no
  transcript overwrites a correction.
- `WaitsEnd` (liveness): a connected stream ends, a render comes to rest, the line of an account
  empties, a program that heeds its signal ends, a screen comes to show what its job wrote and every
  message of its interview, a recording becomes readable or is said to have failed.

Fairness (`MCRuntime!Fairness`, all weak): the worker that is appending or may claim, and each
stream's poll, which are loops on timers; each render worker's loop, and the request that has written the row of a render and enqueues its job
in the same synchronous stretch; each task that holds or heads a
lock, which ends or throws; the end of a program, its delay and its second signal, which are timers;
the jobs a screen waits for, the delivery of its stream (a browser reopens an EventSource) and its
refetches; the server side of a recording and the two polls of the voice input. Nothing is owed by a
user, and drops, crashes and failures are bounded (`MaxExpiries`, `MaxFaults`), as a connection that
drops for ever delivers nothing.

Bounds. Two writers collide; a page of one and a first page of two cut the journal on both sides of
its end. Four callers for two places are the least for a newcomer to meet a woken waiter with
another still waiting; four tasks, one of them alone on its account. Three sends are the retries of
the client. Two projects, two conversations and two recordings are what an answer can be mistaken for. One render
with two jobs and two workers is a render resumed once it has failed, with a run of each job.

## 8. What is proved

TLAPS checks the following for every value of the constants. Each theorem has the shape
`Init => IInv`, `IInv /\ [Next]_vars => IInv'`, `IInv => Property`, with one lemma per action.

**`JobQueueProofs`**, from `ConstantsAssumption` alone (any finite set of jobs, any workers, batch
size, leases, delays, number of crashes): `TypeCorrect` (`TypeOK`), `RowsAreConsistent`
(`RowConsistent`), `KeysAreUnique` (`OneActivePerKey`), `RetriesAreBounded` (`RetriesBounded`); and
`DelaysAreHonoured`, which says `Alone => DelayHonoured`: with one worker, since between the SELECT
and the UPDATE of a claim another may run and retry the selected job.

The inductive invariant is `TypeOK /\ RowsInv /\ OneActivePerKey /\ SelectedInv`; the last says that
what a claim has selected exists and, for a worker that is alone, is out of its embargo. `RowsInv` is a statement about one row, its observers and its bound
(`RowInv`), so each SQL statement is one lemma about one record (`InsertedRow`, `FreedRow`,
`RetriedRow`, `RequeuedRow`, `PromotedRow`, `ProlongedRow`, `ClaimedRow`, `AgedRow`), and the action
lemmas only say which rows a step rewrites. The part `DelayHonoured` needs beyond itself is that the
remaining embargo of a waiting row is covered by `wait` *and* by `due`: `promoteDueJobs` resets the
first when the second has passed, which is only safe because a retry moves both.

Two theorems say more than an invariant, and need to know what a worker holds. `KnownInv`: from its
SELECT to the end of the handler, a row that a lone worker holds has the status it was selected or
claimed with, or was cancelled. From it, `AmbiguousStays` (`AmbiguousIsFinal`): an outcome nobody
knows, once recorded, is changed by a cancel only; and `QueueImplementsContract`
(`ImplementsContract`): each step is a step or a stutter of `JobContract`, with `JobPhase` and
`JobRunners` as the refinement mapping. Both suppose one worker (`Alone`), and the refinement that nobody cancels:
`queue_reserved` has the behaviour of two, and `SqliteQueue.cancel` settles a job while its handler
still runs.

**`PublicationProofs`**. `WellTyped` (`TypeOK`) holds unconditionally. Under `HonestWorld` — leases
outlast posts, nobody publishes by hand, and a post only comes with one of the answers of
`MCHonestLands` — and for any accounts, levels, wire events, runners, versions and crashes:
`PostedAtMostOnce` (`NoDuplicate`), `SendableIsNotOnline` (`SendableIsOffline`) and
`SendersHoldTheirRow` (`LockedWhileSending` and `OneSender`). The three hypotheses are necessary:
sections 5 and 9 have the behaviours without each of them.

The inductive invariant is `TypeOK /\ OneRunPerRow /\ RowsInv /\ RunsInv`. `RowsInv`: a row that
waits for a human is ambiguous, at most one post is online, and none is in a status from which the
handler could send. `RunsInv`: what a runner at each step knows of its row (it is `publishing` from
the claim to the answer, offline until the post lands). `OneRunPerRow`: the queue gives a row to one
runner. A step of the handler touches its own row only (`Local`) and leaves it `Sound`, so by
`LocalStep` one argument covers every other row and runner; `Take`, `End`, `Crash` and `Expire`
move rows between runners; routes and humans (`OutsideInv`) only touch rows nobody is sending. The
heart is `LandedReaction`: an answer that may come with a post is read as published, as something to
verify, or as a draft, never as a failure to send.

`Sound` also says what the contract lets a row become (`Promised`), so that the same walk through
the handler proves that each of its steps is one of `PublicationContract`
(`PublicationImplementsContract`), and that a doubtful row is moved by `Decide` alone (`DoubtWaits`,
for `AmbiguousWaitsForHuman`). `PublishedItemIsSettled` (`PublishedMeansSettled`) rests on two facts:
an item becomes published in the step that finds no target pending (`BecomesPublished`), and no step
makes a row of a published item pending again (`RowsStaySettled`).

`DuplicateIsAskedFor` (`DuplicateNeedsRetry`) does without exclusive leases: any number of runners
may hold one job. What keeps senders apart is then the conditional update of the row, and the
invariant `BusyInv` says it: a row nobody asked to send again has one sender at most, and while it has
one, or once it is online, its status is not one that a fresh claim accepts. Its hypothesis
`BusyWorld` names what writes the status without that condition: the budget brake, a verification
that answers "absent", a publication by hand. They are hazards of the list, not of this theorem.

`OneRunPerRow` rests on `Take`, which gives a queued job to one runner: `queue_reserved` shows that
two workers on one database do not always get that from the queue. What a version still keeps when
two runners hold one publication is the run `publication_stolen`.

**`ContentGenerationProofs`**, with no hypothesis but the named assumption on the constants: any set
of targets, any numbers of items, versions and jobs, any limits of attempts, rewritings, clicks and
faults. `TablesKeepTheirTypes` (`TypeOK`), `ApprovalStands` (`ApprovalHolds`), `LotsAreWhole`
(`LotIsWhole`), `CardsAreHonest` (`CardIsHonest`), `WritingStaysBounded` (`WritingIsBounded`),
`ContentImplementsContract` (`ImplementsContract`) and `ArchiveStands` (`ArchivedIsFinal`, which no
run checks apart: of an item nobody overtakes, the contract says as much).

The inductive invariant is `Base /\ Counted /\ Placed`, each part proved from the ones before it.

- `Base` relates the three tables to the memory of the runs. Of an item: its pointers name versions
  it has, and what it shows as approved was read by both agents. Of a run: its copy of an item is the
  item, unless somebody wrote it since (`Fresh`, which is what `overtaken` stands for); what is left
  to do and what is written make up the lot (`Covered`), so that "done" means whole (`Whole`); between
  the two writes of a draft its version is there and ahead of its item (`Ahead`). A frame, `Step(A)`,
  says what an action of the runs `A` leaves to the others: versions are only added, an item that
  another run holds is marked `overtaken` when it is written, no other job or run moves, and a new
  job is queued and empty. Lemmas turn the frame into `Base'` for the items and jobs outside of it,
  so that each action accounts for its own item and its own job only.
- `Counted`: one rewriting of an item at a time, and while it lasts the counter of the item is below
  the limit plus the attempts the job has had (`Within`), as many as its workers die: an attempt
  counts once, even when a crash between the version and the item makes the next one count again.
- `Placed`: the last version of an item nobody overtook is the current one, or was left behind by a
  crash, or is on its way (`LastPlaced`). That is why a job finds its own text when it comes back, and
  writes a second one only over a version left behind (`Once`).

The refinement rests on `Base` and on one more invariant, `AllUnread`: the texts of an item beyond the
one shown, which a run has added and not yet placed or a crash has left behind, were read by nobody,
carry no risk, and no review of them is open. Without it a job could show a text whose notes are
older than its showing, and a review could end on a text the contract has never seen. The steps then
go by what they write: the row of an item over versions that stay (`RowMoves`: `ApproveIsContract`,
`OpenReviewIsContract`, `RejectIsContract`, `PublishIsContract`), a text at the end
(`AddedKeepsUnread`), another text shown, by an edit or by the second write of a draft
(`ShownIsContract`), the notes of one text (`CloseReviewIsContract`), new rows (`GenerateIsContract`);
`OnlyRaced` settles each of them for an item that the step overtakes.

The rules of the screen are proved for any row and any history: the button shown is one
the routes accept, the version marked approved is the approved one. `FirstExists` and `LastExists`
carry what the code computes with a sort or a `find`: the next target of a lot, the newest version.
TLC checks `Base`, `Counted`, `Placed` and `AllUnread` on the instance of `generation` as well.

**`RuntimeProofs`**, about the nine components of section 7, from `RuntimeAssumption` alone: any
writers, streams and page sizes, any renders, workers and bytes, any callers, places, tasks, projects,
conversations and recordings, any number of faults. `RuntimeTypes` (`TypeOK`), `JournalStaysWhole`
(`JournalIsWhole`), `RendersStayTrue` (`RendersAreTrue`), `TurnsStayKept` (`TurnsAreKept`),
`AnswersStayMatched` (`AnswersAreMatched`) and `WhatIsOverStays` (`NothingGoesBack`).

The inductive invariant is one conjunct per component, proved apart: `RuntimeApart` says that a step
of `MCRuntime` is, for each of them, a step of its own or none. What each adds to its properties:

- `GateInv`: `active` counts who runs and the one, at most, that is woken; who waits are the last
  that came, in their order, so that serving the head overtakes nobody.
- `LocksInv`: the code keeps a chain of promises and no number, so the invariant says that numbers
  exist: each task of an account has a place of its own, the map holds the last, and all before one
  that has started are over.
- `EventsInv`: the numbers of the journal are those up to its length; a run that has read the last
  number still inserts the next one, or is refused. A page is what follows the last number a stream
  has, in order, which `PageCounts` computes for any page size by counting.
- `VideoInv`: a run knows a job that exists; from its rename on its file is in place, from its record
  on its asset is; nothing is asked of who holds the job, since its end is written by any run of it. Every step concerns one render, and `VideoMoves` says what it owes to it
  (`Watchable`, `Carried`) and to the others.
- `ProcessInv`, `ClientInv`, `ScreenInv`, `ChatInv`, `InputInv`: what has been told, sent or typed is
  still remembered where the code looks before it does so again. `ChatInv` needs that all that reaches
  the screen exists already, so that a row being written cannot change the plan displayed; `InputInv`
  that a text without a recording is blank, which is why "Recommencer" loses nothing.

Two constants are restricted by what the code fixes: `render_video` has more than one attempt
(`MaxAttempts`: an internal error is tried twice whatever the bound), and one interview exists before
its screen is opened.

**`EditingProofs`**, about what is written before anything is published (the components of the run
`editing`), from `EditingAssumption` alone: any conversations, requests, senders, uploaders and
starters, any numbers of messages, plans, briefs, facts, levels and cuts, any batch, lease and
silence with `Interval <= Silence < Lease`, any limits, estimates and calls, any accounts and
versions, any length of a clip. `EditingTypes` (`TypeOK`), `BroughtOnceStoredOnce` (`StoredOnce`),
`PlanStaysSound` (`PlanIsSound`), `MemoryStaysSound` (`MemoryIsSound`), `InterviewStaysCoherent`
(`InterviewHolds`), `HealthStaysTrue` (`HealthIsTrue`), `SpendingStaysBounded`
(`SpendingIsBounded`), `PostedByHandIsApproved` (`PublishedAsApproved`), `MontageStaysFit`
(`MontageFits`) and `WhatWasDoneStays` (`NothingIsUndone`). The small data of `MCEditing` (the
contents and videos of the montage, its answers, the facts of the plan, the places of an account) are
definitions of that module and stay those of the run.

Again one conjunct per component, proved apart (`EditingApart`). What each adds to its properties:

- `InterviewInv`: the row of a conversation shows its gaps with the stage that the first of them
  gives, unless it is `halted`, in "brief_ready" (`RowIsFit`, `RowHalted`): a refresh writes both in one
  update, a turn, a plan or a brief that finishes late writes what is missing *now*, and any refresh
  ends the exception. The other parts bound what a cut can leave
  behind, by the cuts themselves: messages ahead of the count (`CountsAreFit`), entries written of
  which the plan does not know (`PlanFits`), living versions beyond one (`VersionsFit`, where the
  last version is always alive, so that what supersedes the others never kills the brief).
- `MemoryInv`: the links of two facts agree in both directions except for a replacement cut between
  its two updates (`LinksAgree`); the facts that were replaced and still live are at most the cuts,
  which is a count, so the step that adds a fact and the one that rewrites two are each shown to add
  none to them (`MemoryGrows`, `MemoryRewrites`).
- `PlanInv`: what is quoted was grounded in the facts *of the request*; `MoreFactsGround` and
  `AcceptedRowIsSound` carry it through facts forgotten while the agent answers. A row that was cut keeps
  only some of its angles, each of them grounded (`RowCut`). Selecting rewrites all the angles of a
  subject, which is why a selection that is not cut leaves one, whatever was left before (`RowIsSettled`).
- `VoiceInv`, `ImportInv`, `PromptInv`: whoever is between its two writes still has what it needs:
  a row that goes was marked first (`DeletionsAreDecided`), a film about to get its row was found fit
  and has its file (`FilmsAreMeasured`), a starter about to insert comes after every row but its own
  (`ReadersAreYounger`), so that the last inserted is the latest created (`NewestIsLast`).
- `HealthInv`: the rows of a batch are distinct and running (`BatchRuns`), the timer of the job at
  work is late by an interval at most and has written its last tick (`TimerIsOnTime`), and nothing
  beats after a death (`DeadIsStill`), so that what a dead worker left ages.
  `RanksAreFilled`, `LeastExists` and `GreatestExists` are the facts about finite sets of naturals
  that the claim of a batch and the last beat need.
- `HandInv`: while the API did not die between two writes and no stale draft was written, the content
  itself says whether a package of it was posted (`PostedIsShown`): what the confirmation accepts is therefore a first posting, of
  the version that is approved.
- `CostsInv`: the sums of the month, with what the calls in flight have paid and is in no row yet, are
  at most what was billed. That sum over the callers is not computed but witnessed (`Unrecorded`):
  some line of all the callers with the totals up to each of them, which `CallSteps` shows to follow
  the step of any caller. That no call is counted twice is then that a row moves an amount from the
  line to the sums.
- `MontageInv`: a plan, shown or awaited, remembers the choice it was asked for, whose video has a
  transcript; a choice not known to have moved is that one, and so is that of a launch. `DefaultFits` and `ProposalFitsItsVideo`
  show, for any times, that the plan computed without an agent and the one taken from it are valid.

Twelve of the rules that TLC reads on the inputs of `MCEditing` are proved for any input, of which these
theorems state the types: the cost and the retry of an answer (`AnyAnswerCostsItsExchanges`,
`AnyFailureIsRetriedWhenUseful`, from `CallCases`, which sorts every exchange), the rounding of an
estimate (`AnyEstimateCovers`, under the one condition on prices that the table of the code meets: the
cache is not dearer than the input), the plan by default (`AnyDefaultPlanIsValid`), the ranges of a
file (`AnyRangeIsInside`), the import of a film (`AnyImportCanBeCut`), the level of an account
(`AnyLevelIsEarned`), the periods of the costs (`AnyClockKeepsItsPeriods`, for days, weeks and months of
any length; `DatesBegin` gives the first hour of every date, and `ZoneIsFit` says which zones: those whose
clocks neither go back to the day before nor jump over the beginning of the next), the rank of the facts
(`AnyFactsAreRanked`, where the scores are naturals: the provers cannot type a power of two, and
`QuotientsChain` compares quotients by their products), the scores of a plan (`AnyScoresRank`), what the
LinkedIn connector accepts (`AnyAcceptedCanBeWritten`) and what can be published by hand
(`AnyAimedDraftIsPackaged`, from the tables of the targets and of the packages).

**Only model-checked**, and why: liveness (`EveryJobSettles`, `SendingIsResolved`, `JobEnds`,
`WaitsEnd`), outside the prover; and `RulesHold` as a whole: its other rules compute over sequences of
any length with folds or a sort (an induction the provers cannot instantiate) or are finite tables, which
TLC reads whole.

## 9. Disagreements between the code, its documentation and what one would expect

With a run, as findings in `PROJECT.json`:

- `queue_reserved` — the claim is called a `BEGIN IMMEDIATE` transaction by `docs/11` line 153 and
  by `jobs.ts` line 116; its statements run after the commit, and two workers get the same job.
- `publication_unavailable` — a 5xx answer to a POST without idempotency key is called uncertain in
  the comment and read as "nothing was sent" by the connector: the retry can post twice.
- `publication_unapproved` — approval is checked at the request, not at the send.

Found with the same modules and confirmed by TLC. Those that have a name are definitions kept in
their module, in no run: they state what does *not* hold.

*Queue and journal.*
- An interrupted job *does* consume an attempt (`docs/08` line 148 says not); nothing bounds a job
  that kills its worker, `max_attempts` being compared only when a handler raises (`docs/08` 79–81).
- A job cancelled while it runs is rewritten by the end of its handler (`docs/08` line 143); a stop
  past its grace period leaves the current job leased (`docs/08` 103–105).
- The loop beats only for the job it runs: the lease of the next ones of its batch may expire, and
  they are run all the same (`loop.ts:138`).
- A completed job is failed, or sent back to the queue, when the event appended after its completion
  is refused (`loop.ts:149`); a stream may close before the last event (`EndsWithTheLastEvent`).
- What `generate-content.ts:551-554` and `edit-plan.ts:304-313` call one transaction are separate
  statements, as every `store.transaction` of section 1.

*Publications.*
- A held or postponed publication is enqueued again under the key of the job that still runs: it
  stays planned without a job (`PlannedHasJob`; `bootstrap.ts:555` against 444–445). So does one
  whose API dies between `ensurePublication` and `enqueue`.
- A failed publication cannot be relaunched: the claim excludes `failed` and no caller passes
  `allowRetryOfFailed`, while `idempotency.ts` lines 115 and 125 tell the user to.
- An account marked `rate_limited` or `expired` never becomes connected again by itself
  (`publish-content.ts:598`; `docs/06` section 10.1: it only postpones).
- A human decision does not reach the item, which stays `publish_ambiguous` (`docs/03` 861–864). "Mark
  as published" never updates a row that exists, and with an attempt recorded its insert violates
  `uq_attempt_number`; an active job may then post what was posted by hand. The manual route writes
  `published` whatever the other targets are (`bootstrap.ts:172-174`).
- A crash between the settlement and the update of the item is never repaired (`bootstrap.ts:568`).
- When a lease expires under a live handler, the second run declares ambiguous what is being sent; a
  post still in flight when `verifyPublished` finds nothing lands afterwards (`publish-content.ts:271`).
- `NetworkErrorMeansUnsent` does not hold of the client; `PostedOnce` of `PlatformAccounts` neither:
  a crash between `markPublished` and the item lets a second account get a second row.
- A 2xx other than 201 is a rejection (`linkedin.ts:265`), so that a post accepted with a 202 would be
  shown as failed; the platform documents 201 only, and no run lets it land.
- Accounts created by the route keep level C and "disconnected", and nothing marks them connected:
  levels A and B are out of reach through the program's own routes. Recreating an account with the
  same remote identifier violates `uq_platform_account`; `default_account_id` is read by nothing.
- An approved `youtube_long` text in a wide script may exceed 5000 bytes and be refused as a package
  (`ApprovedDraftIsPackaged`); the comment of `linkedInCommentary` names a hook it does not include.
- The map of the account locks never shrinks (`MapShrinks`); the lock covers the decryption only, and
  `needsRefresh` is ignored.

*Contents.*
- A worker's write with an item it read before undoes what happened meanwhile: an archived item
  returns, an approval covers another text (`NoUnnoticedRewriting`; `content.ts:430-433`).
- Two clicks may pay twice (`TwoClicksPayOnce`); the limit of rewritings is not rechecked by the job,
  and since a reclaim asks for no attempt, each further death of its worker may count one more.
- The draft of a rewriting may be written over a content posted by hand since it was read: the row
  names another version, unapproved, while its publication names the old one (`content.ts:504-519`;
  the exception `overtaken` of `PostedIsApproved`).
- The draft of the retry pass is always discarded though `retried` reports it.
- A refused edit leaves an orphan version; a second review after approval may block an approved version.
- `validateContent` counts body and hashtags over 3000 as a warning only.
- The card shows the number of the current version as the approved one in some states, opens edition
  of a published item and rejection in "publishing", and approves the server's current version from a
  card that shows an older one.

*Interview and memory.*
- A generation or a reopening cut before its refresh shows "brief_ready" beside its gaps
  (`service.ts:544-549`, `446-452`; `features/conversation.ts:253`) until something refreshes it.
- The rows of a plan and the updates of a selection are in no transaction (`repositories/editorial.ts:513-573`,
  `616-634`; `plan.ts:356-357`): a death leaves a subject without angles, two selected angles, or a
  selected angle under a proposed subject.
- A brief reopens a closed conversation (`OnlyReopenedLeaves`); project edits of a plan are applied
  again by a second acceptance.
- `validatePlan`'s recent subjects include the subject itself (a malus of 3); grounding is a
  substring of characters; a subject stays "selected" when its angle is rejected.
- The comment of `service.ts:483-509` says a style profile is replaced; the existing one is returned.
- `used_count` of a fact is never incremented (`selection.ts:13`, `:156`).

*Recordings and films.*
- A message may name a recording that was deleted while it was being sent (`ReferencedIsKept`).
- An upload whose enqueue fails deletes its row even when another upload created it
  (`routes/media.ts:95-98`); a duplicate upload leaves a stray file (`OneFilePerRow`).
- A render resumed while it encodes may not finish (`ResumedMayFinish`). One resumed after its run has
  failed the row (`render-video.ts:327`) and before the loop has failed its job (`loop.ts:153`) is given
  that ending job, and stays "queued" without one: what the comment of `recordRenderFailure` says it
  prevents. So does one whose run is refused by `load_render`, and one whose API dies before `enqueue`.
- A program that ignores SIGTERM is never killed: the SIGKILL of `exec.ts` is not sent
  (`EveryProcessEnds`).
- A film between 15 and 30 minutes is imported without a word and then refused (`TooLongIsSaid`).
- Cues may overlap or last nothing at the end of a window; the default plan of a source under one
  second is invalid; a text of braces only disappears.
- A suffix range `bytes=-N` is served from byte 0, and an out-of-range start is answered 200, whole.

*Money, prompts, health.*
- Concurrent calls may overspend; an estimate of 0 passes a spent budget; unusable or failed answers
  that were charged are recorded at 0 (`BilledIsCounted`); a call is recorded twice when `onCost` throws.
- Limits of a task or a project are compared with the global spending; month tokens with the daily
  limit (`limits.ts`, `spend.ts`).
- No row of `llm_calls` has the status "rate_limited": a 429 is transient first (`RateLimitIsTold`;
  `recording-provider.ts:170`). An agent is given a signal (`agent.ts:23`) and hands it to nobody: a
  stop never cuts a model call. Were one handed on, the call would lose its timeout
  (`openai-compatible.ts:209`).
- Skills "are never sacrificed" to the budget of a prompt (`memory-pack.ts:13`), and `trimToBudget`
  cuts them (line 102), counting their names only.
- Two processes that insert the same new prompt: the second fails on `uq_prompt_hash` and does not
  start; a death between two statements may leave no active version or a call naming another text
  (`SomeIsActive`, `CallNamesItsText`).
- A worker that waits is always shown inactive (`IdleIsShown`); `JOB_HEARTBEAT_MS` may be set above
  the silence; a limit of 0 is shown ok with nothing remaining.

*Screens.*
- Streams carry no `id:`, so a browser replays the whole journal; the video view never closes the
  stream of an ended job. A notice may outlive what it says and a failure may not be shown
  (`NoticeIsTrue`, `FailureIsShown`): the editorial view keeps its job when the project changes, the
  first of two generations in a row is no longer followed.
- A message or a plan of another conversation may be shown (`ForeignStaysOut`); a draft typed during
  a turn is erased; unticked boxes are ticked again when the stream reopens.
- The text of a first recording may be sent as the second's, a recording may be lost
  (`SentIsItsOwn`, `NoneIsLost`); the microphone may stay open.
- A plan awaited for one video lands on the next choice and is launched for it, under the name of the
  agent (`moved`); an untouched plan
  whose bounds are not on a tenth goes out as "manual" or is refused (`UntouchedKeepsLabel`);
  `formatTimecodeInput` can write "0:60.0".

## 10. What is not modelled, and how to run

Not modelled: configuration, redaction and logging; the wiring of the API and its error plugins; the
database client and migrations; the simulated connector, the diagnostic job, the news, users and
settings; scripts and tests. Their behaviour over time is either none or that of SQLite.

Left out of the modelled components: the columns that decide nothing (progress text, costs of a job,
parents), the listings that only read, prompts and the assembly of texts by the agents, prices and
the parsing of an answer, filter graphs and subtitle formats, encryption of tokens and the OAuth
exchange, the texts of notes, packages and errors, forms and dashboards of the browser. `forecastSpend`,
`holdReasonForBudget`, `render.cancel` and the writing of limits are used by no running code; of these
only the writing of limits is modelled, as the order of the rows matters to the brake.
`JobScreen` is one visit of one view. The formula of the backoff is left out: any delay is a choice.

`tlc -config JobQueue_single.cfg MCJobQueue` runs one configuration, `tlapm JobQueueProofs.tla`
checks one module of proofs.

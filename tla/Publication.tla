----------------------------- MODULE Publication -----------------------------
(***************************************************************************)
(* The publication of one content item: the API that requests it, the job  *)
(* publish_content that performs it (apps/worker/src/handlers/             *)
(* publish-content.ts), the rows of publications and platform_accounts     *)
(* (packages/database/src/repositories/publishing.ts), the platform behind *)
(* the wire, the human who settles what nobody knows, and the state of the *)
(* content item that must follow.                                          *)
(*                                                                         *)
(* A publication is the row of one version of the item on one account: the *)
(* unique index uq_publication_version_account gives it its name <<v, a>>. *)
(* The job queue is JobQueue seen from one deduplication key: at most one  *)
(* active row per publication.  Delays are abstracted: a queued job may be *)
(* taken at any time.                                                      *)
(***************************************************************************)
EXTENDS ContentStates, PlatformReply, RetryPolicy, FiniteSets

CONSTANTS
    Accounts,      \* platform accounts of the project, on the item's platform
    ApiLevel,      \* what the recorded capabilities of an account allow: A, B or C
    Verifiable,    \* accounts whose platform can say whether a post exists
    Runners,       \* workers
    Wire,          \* what a POST may end with
    Lands,         \* the wire events after which the post may be online
    Throws,        \* categories of the errors a connector raises before sending
    MayHold,       \* whether the budget brake may hold a publication
    LeasesExpire,  \* whether a lease may expire while its handler still runs
    ByHand,        \* whether the human also publishes with the manual package
    Reconnects,    \* whether someone completes the authorization of an account
    MaxVersions,   \* bound on the versions of the item
    MaxOutages,    \* bound on the crashes of workers
    None

ASSUME PublicationAssumption ==
    /\ ApiLevel \in [Accounts -> {"A", "B", "C"}]
    /\ Verifiable \subseteq Accounts
    /\ Wire \subseteq Events
    /\ SurelyOnline \subseteq Lands /\ Lands \subseteq PerhapsOnline
    /\ Throws \subseteq {"auth", "capability", "internal"}
    /\ MayHold \in BOOLEAN /\ LeasesExpire \in BOOLEAN /\ ByHand \in BOOLEAN
    /\ Reconnects \in BOOLEAN
    /\ MaxVersions \in Nat \ {0}
    /\ MaxOutages \in Nat
    /\ None \notin Runners /\ None \notin Categories
    /\ None \notin (1..MaxVersions) \X Accounts

Pubs == (1..MaxVersions) \X Accounts

\* publishContentSpec.maxAttempts.
PublishAttempts == 2

VARIABLES
    state, current, approved,  \* the item: its state, current_version_id and
                               \* approved_version_id (0: none)
    connection,                \* connection_state of each account
    status, human,             \* publications.status and needs_human_decision
    stamped,                   \* published_at is set
    logged,                    \* an attempt number 1 is recorded
    job, tries,                \* the active publish_content job of a publication
    pc, on, level, told, error,\* a runner: its step, its publication, the level
                               \* of its connector, what it tells the item, and
                               \* the category of the error it raises
    stale,                     \* runners whose job row somebody else has ended
    outages,                   \* crashes so far
    \* observation of the world, read by no code
    online,                    \* posts visible on the platform: 0, 1 or more
    retried                    \* publications a human asked to send again

itemVars == <<state, current, approved>>
rowVars  == <<status, human, stamped, logged>>
jobVars  == <<job, tries, stale>>
runVars  == <<pc, on, level, told, error>>
world    == <<online, retried>>
vars == <<itemVars, connection, rowVars, jobVars, runVars, outages, world>>

Status == {"absent", "planned", "queued", "publishing", "published",
           "manual_required", "failed", "ambiguous", "cancelled"}

Settled == {"published", "manual_required", "cancelled"}

Init ==
    /\ state = "in_review" /\ current = 1 /\ approved = 0
    /\ connection \in [Accounts -> {"connected", "disconnected"}]
    /\ status = [p \in Pubs |-> "absent"]
    /\ human = [p \in Pubs |-> FALSE]
    /\ stamped = [p \in Pubs |-> FALSE]
    /\ logged = [p \in Pubs |-> FALSE]
    /\ job = [p \in Pubs |-> "none"]
    /\ tries = [p \in Pubs |-> 0]
    /\ pc = [r \in Runners |-> "idle"]
    /\ on = [r \in Runners |-> None]
    /\ level = [r \in Runners |-> "C"]
    /\ told = [r \in Runners |-> None]
    /\ error = [r \in Runners |-> None]
    /\ stale = {}
    /\ outages = 0
    /\ online = [p \in Pubs |-> 0]
    /\ retried = {}

------------------------------------------------------------------------------
(* What the statements of the store write.  An operator whose name holds   *)
(* an underscore is a mistake one could make: only the mutants use it.     *)

\* settlePublication: unconditional, whatever the row has become; `flag' is
\* human[p] where the patch leaves needs_human_decision alone.
Settlement(p, new, flag) ==
    /\ status' = [status EXCEPT ![p] = new]
    /\ human' = [human EXCEPT ![p] = flag]
    /\ stamped' = [stamped EXCEPT ![p] = @ \/ new = "published"]

\* recordAttempt: count + 1, so number 1 exists from the first one on.
RecordAttempt(p) == logged' = [logged EXCEPT ![p] = TRUE]

Enqueue_Always(p) ==
    /\ job' = [job EXCEPT ![p] = "queued"]
    /\ tries' = [tries EXCEPT ![p] = 0]

\* queue.enqueue: an active job with the same key is returned as it is.
Enqueue(p) ==
    IF job[p] = "none"
    THEN /\ job' = [job EXCEPT ![p] = "queued"]
         /\ tries' = [tries EXCEPT ![p] = 0]
    ELSE UNCHANGED <<job, tries>>

Claimable_InFlightToo(p) == status[p] \in {"planned", "queued", "publishing"}

\* claimForPublish, without allowRetryOfFailed that no caller passes.
Claimable(p) == status[p] \in {"planned", "queued"} /\ ~human[p]

\* resolveConnectorForAccount.
ResolvedLevel(a) == IF connection[a] = "connected" THEN ApiLevel[a] ELSE "C"

Goto(r, step) == pc' = [pc EXCEPT ![r] = step]

ItemTarget_Raw(outcome) == outcome

\* Where a settled publication moves its item.
ItemTarget(outcome) ==
    CASE outcome = "published" -> "published"
      [] outcome = "ambiguous" -> "publish_ambiguous"
      [] outcome = "failed"    -> "publish_failed"
      [] OTHER                 -> None

Unsettled_None == {}

\* countUnsettledByItem.
Unsettled == {p \in Pubs : status[p] \notin Settled \cup {"absent"}}

------------------------------------------------------------------------------
(* The job row: claimed, expired, ended.                                   *)

\* `tries' is only compared with PublishAttempts: it saturates there.
Take(r, p) ==
    /\ pc[r] = "idle" /\ job[p] = "queued"
    /\ job' = [job EXCEPT ![p] = "running"]
    /\ tries' = [tries EXCEPT ![p] = IF @ < PublishAttempts THEN @ + 1 ELSE @]
    /\ on' = [on EXCEPT ![r] = p]
    /\ Goto(r, "load")
    /\ UNCHANGED <<itemVars, connection, rowVars, stale, level, told, error, outages, world>>

\* The lease of a dead worker expires.  That of a live one may too: a job in
\* the batch of a busy worker has no heartbeat.
Expire(p) ==
    /\ job[p] = "running"
    /\ LeasesExpire \/ \A r \in Runners \ stale : on[r] # p
    /\ job' = [job EXCEPT ![p] = "queued"]
    /\ UNCHANGED <<itemVars, connection, rowVars, tries, stale, runVars, outages, world>>

\* The runner leaves its publication.
Leave(r) ==
    /\ Goto(r, "idle")
    /\ on' = [on EXCEPT ![r] = None]
    /\ level' = [level EXCEPT ![r] = "C"]
    /\ told' = [told EXCEPT ![r] = None]
    /\ error' = [error EXCEPT ![r] = None]

(* complete or fail of the queue.  A stale runner writes to a row that is
   over: as two runners have claimed that row, it has no attempt left.     *)
End(r) ==
    LET p == on[r]
        again == error[r] # None /\ ShouldRetry(error[r], "decide", tries[p], PublishAttempts)
    IN
    /\ pc[r] = "end"
    /\ IF r \in stale
       THEN /\ stale' = stale \ {r}
            /\ UNCHANGED job
       ELSE /\ job' = [job EXCEPT ![p] = IF again THEN "queued" ELSE "none"]
            /\ stale' = IF again THEN stale
                        ELSE stale \cup {q \in Runners \ {r} : on[q] = p}
    /\ Leave(r)
    /\ UNCHANGED <<itemVars, connection, rowVars, tries, outages, world>>

Crash(r) ==
    /\ pc[r] # "idle" /\ outages < MaxOutages
    /\ outages' = outages + 1
    /\ stale' = stale \ {r}
    /\ Leave(r)
    /\ UNCHANGED <<itemVars, connection, rowVars, job, tries, world>>

------------------------------------------------------------------------------
(* The handler.                                                            *)

Load_SkipsPublishing(r) ==
    LET p == on[r] IN
    /\ pc[r] = "load"
    /\ Goto(r, IF status[p] = "publishing" \/ ForbidsRemoteCall(status[p], human[p])
               THEN "end" ELSE "claim")
    /\ UNCHANGED <<itemVars, connection, rowVars, jobVars, on, level, told, error, outages, world>>

\* First lock: what is already settled is not asked again.
Load(r) ==
    LET p == on[r] IN
    /\ pc[r] = "load"
    /\ Goto(r, IF status[p] = "publishing" THEN "verify"
               ELSE IF ForbidsRemoteCall(status[p], human[p]) THEN "end"
               ELSE "claim")
    /\ UNCHANGED <<itemVars, connection, rowVars, jobVars, on, level, told, error, outages, world>>

\* Second lock: the budget brake holds the publication, a failed one included.
Hold(r) ==
    LET p == on[r] IN
    /\ pc[r] = "claim" /\ MayHold
    /\ Settlement(p, "planned", human[p])
    /\ Goto(r, "postpone")
    /\ UNCHANGED <<itemVars, connection, logged, jobVars, on, level, told, error, outages, world>>

\* Third lock: claimForPublish, then the connector is chosen.
Claim(r) ==
    LET p == on[r] IN
    /\ pc[r] = "claim"
    /\ IF Claimable(p)
       THEN /\ Settlement(p, "publishing", human[p])
            /\ level' = [level EXCEPT ![r] = ResolvedLevel(p[2])]
            /\ Goto(r, "ready")
       ELSE /\ Goto(r, IF status[p] = "publishing" THEN "verify" ELSE "end")
            /\ UNCHANGED <<status, human, stamped, level>>
    /\ UNCHANGED <<itemVars, connection, logged, jobVars, on, told, error, outages, world>>

\* The publication is settled; the item is told next, the handler then
\* returns or raises `category'.
SettleAndTell(r, new, flag, category) ==
    /\ Settlement(on[r], new, flag)
    /\ RecordAttempt(on[r])
    /\ told' = [told EXCEPT ![r] = new]
    /\ error' = [error EXCEPT ![r] = category]
    /\ Goto(r, "settle")

\* validateContent finds a blocking issue.
Reject(r) ==
    /\ pc[r] = "ready"
    /\ SettleAndTell(r, "failed", human[on[r]], "validation")
    /\ UNCHANGED <<itemVars, connection, jobVars, on, level, outages, world>>

\* Level C: the manual connector answers manual_required without any call.
Handover(r) ==
    /\ pc[r] = "ready" /\ level[r] = "C"
    /\ SettleAndTell(r, "manual_required", FALSE, None)
    /\ UNCHANGED <<itemVars, connection, jobVars, on, level, outages, world>>

\* The connector raises before it sends: no token, no API version, no key.
ThrowBeforeSend(r, category) ==
    LET p == on[r] IN
    /\ pc[r] = "ready" /\ level[r] # "C" /\ category \in Throws
    /\ connection' = IF category = "auth"
                     THEN [connection EXCEPT ![p[2]] = "expired"] ELSE connection
    /\ IF category = "internal"
       THEN /\ RecordAttempt(p)
            /\ error' = [error EXCEPT ![r] = category]
            /\ Goto(r, "end")
            /\ UNCHANGED <<status, human, stamped, told>>
       ELSE SettleAndTell(r, "failed", human[p], category)
    /\ UNCHANGED <<itemVars, jobVars, on, level, outages, world>>

Send(r) ==
    /\ pc[r] = "ready" /\ level[r] # "C"
    /\ Goto(r, "sending")
    /\ UNCHANGED <<itemVars, connection, rowVars, jobVars, on, level, told, error, outages, world>>

Posted(p) == online' = [online EXCEPT ![p] = IF @ = 0 THEN 1 ELSE 2]

\* The platform accepts the post; a draft (level B) is not visible.
Land(r) ==
    /\ pc[r] = "sending"
    /\ Wire \cap Lands # {}
    /\ IF level[r] = "A" THEN Posted(on[r]) ELSE UNCHANGED online
    /\ Goto(r, "landed")
    /\ UNCHANGED <<itemVars, connection, rowVars, jobVars, on, level, told, error, outages, retried>>

Reaction_RetriesDoubt(r, event) ==
    LET outcome == LinkedInOutcome(event, level[r] = "B") IN
    ReactionFor(IF outcome = "ambiguous" THEN "server_error" ELSE outcome)

Reaction(r, event) == ReactionFor(LinkedInOutcome(event, level[r] = "B"))

\* The handler goes on after a settlement that the item is not told of.
Park(r, new, category, step) ==
    /\ Settlement(on[r], new, human[on[r]])
    /\ RecordAttempt(on[r])
    /\ error' = [error EXCEPT ![r] = category]
    /\ Goto(r, step)
    /\ UNCHANGED told

(* What comes back over the wire, and the reaction of the decision table.  *)
Answer(r, event) ==
    LET p == on[r]
        reaction == Reaction(r, event)
        mark(s) == connection' = [connection EXCEPT ![p[2]] = s]
    IN
    /\ \/ pc[r] = "sending" /\ event \in Wire \ SurelyOnline
       \/ pc[r] = "landed" /\ event \in Wire \cap Lands
    /\ \/ /\ reaction = "settle_published"
          /\ SettleAndTell(r, "published", FALSE, None) /\ UNCHANGED connection
       \/ /\ reaction = "settle_draft"
          /\ SettleAndTell(r, "manual_required", FALSE, None) /\ UNCHANGED connection
       \/ /\ reaction = "verify_then_decide"
          /\ RecordAttempt(p) /\ Goto(r, "verify")
          /\ UNCHANGED <<connection, status, human, stamped, told, error>>
       \/ /\ reaction = "postpone"
          /\ mark("rate_limited") /\ Park(r, "planned", None, "postpone")
       \/ /\ reaction = "expire_account"
          /\ mark("expired") /\ SettleAndTell(r, "failed", human[p], None)
       \/ /\ reaction = "fail_definitive"
          /\ SettleAndTell(r, "failed", human[p], None) /\ UNCHANGED connection
       \/ /\ reaction = "retry_transient"
          /\ Park(r, "queued", "transient", "end") /\ UNCHANGED connection
    /\ UNCHANGED <<itemVars, jobVars, on, level, outages, world>>

\* verifyPublished: what the platform can tell of a publication.  It may always
\* fail to answer, and it does not lie.
Verdicts(p) ==
    {"unknown"} \cup
    (IF p[2] \in Verifiable /\ ResolvedLevel(p[2]) # "C"
     THEN {IF online[p] > 0 THEN "found" ELSE "absent"} ELSE {})

Verdict_Guesses(r, verdict) ==
    /\ pc[r] = "verify" /\ verdict \in Verdicts(on[r])
    /\ IF verdict = "found"
       THEN SettleAndTell(r, "published", FALSE, None)
       ELSE /\ Settlement(on[r], "planned", FALSE)
            /\ RecordAttempt(on[r])
            /\ Goto(r, "postpone")
            /\ UNCHANGED <<told, error>>
    /\ UNCHANGED <<itemVars, connection, jobVars, on, level, outages, world>>

\* resolveAmbiguity: confirmed, known absent and planned again, or left to a
\* human.
Verdict(r, verdict) ==
    /\ pc[r] = "verify" /\ verdict \in Verdicts(on[r])
    /\ \/ verdict = "found"   /\ SettleAndTell(r, "published", FALSE, None)
       \/ verdict = "unknown" /\ SettleAndTell(r, "ambiguous", TRUE, None)
       \/ /\ verdict = "absent"
          /\ Settlement(on[r], "planned", FALSE)
          /\ RecordAttempt(on[r])
          /\ Goto(r, "postpone")
          /\ UNCHANGED <<told, error>>
    /\ UNCHANGED <<itemVars, connection, jobVars, on, level, outages, world>>

\* reschedule, called while the job of the runner itself is still active.
Postpone(r) ==
    /\ pc[r] = "postpone"
    /\ Enqueue(on[r])
    /\ Goto(r, "end")
    /\ UNCHANGED <<itemVars, connection, rowVars, stale, on, level, told, error, outages, world>>

\* onSettled: the item follows when its table allows it, and is published only
\* when no other publication is pending.
Settle(r) ==
    LET target == ItemTarget(told[r]) IN
    /\ pc[r] = "settle"
    /\ state' = IF /\ target # None
                   /\ target = "published" => Unsettled = {}
                   /\ {target, "publishing"} \cap Transitions(state) # {}
                THEN target ELSE state
    /\ Goto(r, "end")
    /\ UNCHANGED <<current, approved, connection, rowVars, jobVars, on, level, told, error,
                   outages, world>>

------------------------------------------------------------------------------
(* The routes of the API.                                                  *)

ApprovedNow == state = "approved" /\ approved = current

RequestPublication_Replans(a) ==
    LET p == <<current, a>> IN
    /\ ApprovedNow
    /\ status' = [status EXCEPT ![p] = "planned"]
    /\ Enqueue(p)
    /\ UNCHANGED <<itemVars, connection, human, stamped, logged, stale, runVars, outages, world>>

\* POST /content/:id/publications: ensurePublication, then enqueue.
RequestPublication(a) ==
    LET p == <<current, a>> IN
    /\ ApprovedNow
    /\ status' = [status EXCEPT ![p] = IF @ = "absent" THEN "planned" ELSE @]
    /\ Enqueue(p)
    /\ UNCHANGED <<itemVars, connection, human, stamped, logged, stale, runVars, outages, world>>

Decisions == {"published", "retry", "cancel"}

\* POST /publications/:id/decision.  The human looked at the platform and tells
\* the truth; the item is not told.
Decide(p, decision) ==
    /\ human[p]
    /\ \/ /\ decision = "published" /\ online[p] > 0
          /\ Settlement(p, "published", FALSE) /\ UNCHANGED <<job, tries>>
       \/ /\ decision = "retry" /\ online[p] = 0
          /\ Settlement(p, "planned", FALSE) /\ Enqueue(p)
       \/ /\ decision = "cancel"
          /\ Settlement(p, "cancelled", FALSE) /\ UNCHANGED <<job, tries>>
    /\ retried' = IF decision = "retry" THEN retried \cup {p} ELSE retried
    /\ UNCHANGED <<itemVars, connection, logged, stale, runVars, outages, online>>

(* POST /manual-packages/:id/published: the human has posted by hand, unless
   it was online already.  A row that exists without published_at
   gets an attempt number 1 and keeps its status; when it has one already the
   unique index uq_attempt_number rejects the transaction.                 *)
MarkPublished(a) ==
    LET p == <<current, a>>
        refused == status[p] # "absent" /\ ~stamped[p] /\ logged[p]
    IN
    /\ ByHand /\ ApprovedNow
    /\ online' = [online EXCEPT ![p] = IF @ = 0 THEN 1 ELSE @]
    /\ IF status[p] = "absent"
       THEN /\ status' = [status EXCEPT ![p] = "published"]
            /\ stamped' = [stamped EXCEPT ![p] = TRUE]
       ELSE UNCHANGED <<status, stamped>>
    /\ IF stamped[p] THEN UNCHANGED logged ELSE RecordAttempt(p)
    /\ state' = IF refused THEN state ELSE "published"
    /\ UNCHANGED <<current, approved, connection, human, jobVars, runVars, outages, retried>>

\* saveAccountAuthorization.
Authorize(a) ==
    /\ Reconnects
    /\ connection' = [connection EXCEPT ![a] = "connected"]
    /\ UNCHANGED <<itemVars, rowVars, jobVars, runVars, outages, world>>

------------------------------------------------------------------------------
(* The operations on the content item (packages/core/src/editorial/        *)
(* content.ts).                                                            *)

ItemOnly == UNCHANGED <<connection, rowVars, jobVars, runVars, outages, world>>

\* editContent: a new version, and the approval falls.
Edit ==
    LET after == AfterRewrite(state, approved # 0) IN
    /\ current < MaxVersions
    /\ state # "archived" /\ MayAdvance(state, after)
    /\ state' = after /\ current' = current + 1 /\ approved' = 0
    /\ ItemOnly

Review ==
    /\ MayMove(state, "in_review")
    /\ state' = "in_review"
    /\ UNCHANGED <<current, approved>> /\ ItemOnly

Approve ==
    /\ MayMove(state, "approved")
    /\ state' = "approved" /\ approved' = current
    /\ UNCHANGED current /\ ItemOnly

Archive ==
    /\ MayMove(state, "archived")
    /\ state' = "archived"
    /\ UNCHANGED <<current, approved>> /\ ItemOnly

------------------------------------------------------------------------------
Step(r) ==
    \/ Load(r) \/ Hold(r) \/ Claim(r) \/ Reject(r) \/ Handover(r)
    \/ \E category \in Throws : ThrowBeforeSend(r, category)
    \/ Send(r) \/ Land(r)
    \/ \E event \in Wire : Answer(r, event)
    \/ \E verdict \in {"found", "absent", "unknown"} : Verdict(r, verdict)
    \/ Postpone(r) \/ Settle(r) \/ End(r)

Next ==
    \/ \E r \in Runners : Step(r) \/ Crash(r)
    \/ \E r \in Runners, p \in Pubs : Take(r, p)
    \/ \E p \in Pubs : Expire(p)
    \/ \E a \in Accounts : RequestPublication(a) \/ MarkPublished(a) \/ Authorize(a)
    \/ \E p \in Pubs, decision \in Decisions : Decide(p, decision)
    \/ Edit \/ Review \/ Approve \/ Archive

(* Workers keep running: a handler goes on, an expired lease is found at the
   next turn of a loop, and the queue serves the oldest job first, so a job
   that keeps coming back is taken again.  Nobody promises that a human acts. *)
Fairness ==
    /\ \A r \in Runners : WF_vars(Step(r))
    /\ \A p \in Pubs : WF_vars(Expire(p)) /\ SF_vars(\E r \in Runners : Take(r, p))

Spec == Init /\ [][Next]_vars /\ Fairness
==============================================================================

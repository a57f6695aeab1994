-------------------------- MODULE PublicationProofs --------------------------
(***************************************************************************)
(* Proofs about publications, for every set of accounts, workers and wire  *)
(* events, any number of versions and of crashes.                          *)
(***************************************************************************)
EXTENDS PublicationProps, TLAPS

USE DEF Goto, SettleAndTell, Park, Settlement, RecordAttempt, Leave, ItemOnly, Posted,
        itemVars, rowVars, jobVars, runVars, world

------------------------------------------------------------------------------
(* Types.                                                                  *)

LEMMA LevelType ==
    ASSUME TypeOK, NEW p \in Pubs
    PROVE  ResolvedLevel(p[2]) \in {"A", "B", "C"}
BY PublicationAssumption DEF ResolvedLevel, Pubs

LEMMA TargetType ==
    ASSUME NEW outcome
    PROVE  ItemTarget(outcome) \in {"published", "publish_ambiguous", "publish_failed", None}
BY DEF ItemTarget

LEMMA InitType == Init => TypeOK
<1> SUFFICES ASSUME Init PROVE TypeOK
  OBVIOUS
<1>1. 1 \in 1..MaxVersions /\ 0 \in 0..MaxVersions /\ 0 \in 0..MaxOutages
  BY PublicationAssumption
<1> QED
  BY <1>1 DEF Init, TypeOK, ContentState, Status, PublishAttempts

LEMMA EnqueueType ==
    ASSUME TypeOK, NEW p \in Pubs, Enqueue(p)
    PROVE  /\ job' \in [Pubs -> {"none", "queued", "running"}]
           /\ tries' \in [Pubs -> 0..PublishAttempts]
BY DEF TypeOK, Enqueue, PublishAttempts

PcType == [Runners -> {"idle", "load", "claim", "ready", "sending", "landed", "verify",
                       "settle", "postpone", "end"}]

RowTypes ==
    /\ status \in [Pubs -> Status]
    /\ human \in [Pubs -> BOOLEAN]
    /\ stamped \in [Pubs -> BOOLEAN]
    /\ logged \in [Pubs -> BOOLEAN]

ReportTypes ==
    /\ pc \in PcType
    /\ told \in [Runners -> Status \cup {None}]
    /\ error \in [Runners -> Categories \cup {None}]

LEMMA SettledType ==
    ASSUME TypeOK, NEW r \in Runners, pc[r] # "idle", NEW new \in Status,
           NEW flag \in BOOLEAN, NEW category \in Categories \cup {None},
           SettleAndTell(r, new, flag, category)
    PROVE  RowTypes' /\ ReportTypes' /\ \A q \in Runners : pc'[q] = "idle" <=> pc[q] = "idle"
<1>1. on[r] \in Pubs
  BY DEF TypeOK
<1>2. RowTypes'
  BY <1>1 DEF TypeOK, RowTypes
<1>3. ReportTypes'
  BY DEF TypeOK, ReportTypes, PcType
<1>4. \A q \in Runners : pc'[q] = "idle" <=> pc[q] = "idle"
  BY DEF TypeOK
<1> QED
  BY <1>2, <1>3, <1>4

LEMMA ParkedType ==
    ASSUME TypeOK, NEW r \in Runners, pc[r] # "idle", NEW new \in Status,
           NEW category \in Categories \cup {None}, NEW step \in {"postpone", "end"},
           Park(r, new, category, step)
    PROVE  RowTypes' /\ ReportTypes' /\ \A q \in Runners : pc'[q] = "idle" <=> pc[q] = "idle"
<1>1. on[r] \in Pubs /\ human[on[r]] \in BOOLEAN
  BY DEF TypeOK
<1>2. RowTypes'
  BY <1>1 DEF TypeOK, RowTypes
<1>3. ReportTypes'
  BY DEF TypeOK, ReportTypes, PcType
<1>4. \A q \in Runners : pc'[q] = "idle" <=> pc[q] = "idle"
  BY DEF TypeOK
<1> QED
  BY <1>2, <1>3, <1>4

LEMMA HandlerType ==
    ASSUME TypeOK, NEW r \in Runners, Step(r)
    PROVE  TypeOK'
<1>0. pc[r] # "idle" => on[r] \in Pubs
  BY DEF TypeOK
<1>1. CASE Load(r)
  BY <1>1, <1>0 DEF Load, TypeOK
<1>2. CASE Hold(r)
  BY <1>2, <1>0 DEF Hold, TypeOK, Status
<1>3. CASE Claim(r)
  <2>1. on[r] \in Pubs /\ ResolvedLevel(on[r][2]) \in {"A", "B", "C"}
    BY <1>3, <1>0, LevelType DEF Claim
  <2>2. CASE Claimable(on[r])
    <3>1. RowTypes'
      BY <1>3, <2>1, <2>2 DEF Claim, TypeOK, RowTypes, Status
    <3> QED
      BY <1>3, <2>1, <2>2, <3>1 DEF Claim, TypeOK, RowTypes
  <2>3. CASE ~Claimable(on[r])
    BY <1>3, <2>1, <2>3 DEF Claim, TypeOK
  <2> QED
    BY <2>2, <2>3
<1>4. CASE Reject(r)
  BY <1>4, <1>0 DEF Reject, TypeOK, Status, Categories
<1>5. CASE Handover(r)
  BY <1>5, <1>0 DEF Handover, TypeOK, Status
<1>6. ASSUME NEW category \in Throws, ThrowBeforeSend(r, category)
      PROVE  TypeOK'
  <2>1. category \in Categories /\ on[r] \in Pubs
    BY <1>6, <1>0, PublicationAssumption DEF ThrowBeforeSend, Categories
  <2>2. connection' \in [Accounts -> {"disconnected", "connected", "expired", "rate_limited"}]
    BY <1>6 DEF ThrowBeforeSend, TypeOK
  <2>3. CASE category = "internal"
    BY <1>6, <2>1, <2>2, <2>3 DEF ThrowBeforeSend, TypeOK
  <2>4. CASE category # "internal"
    <3>1. /\ pc[r] # "idle" /\ "failed" \in Status /\ human[on[r]] \in BOOLEAN
          /\ SettleAndTell(r, "failed", human[on[r]], category)
      BY <1>6, <2>1, <2>4 DEF ThrowBeforeSend, Status, TypeOK
    <3>2. RowTypes' /\ ReportTypes' /\ \A q \in Runners : pc'[q] = "idle" <=> pc[q] = "idle"
      BY <2>1, <3>1, SettledType
    <3> QED
      BY <1>6, <2>2, <2>4, <3>2 DEF ThrowBeforeSend, TypeOK, RowTypes, ReportTypes, PcType
  <2> QED
    BY <2>3, <2>4
<1>7. CASE Send(r)
  BY <1>7, <1>0 DEF Send, TypeOK
<1>8. CASE Land(r)
  BY <1>8, <1>0 DEF Land, TypeOK
<1>9. ASSUME NEW event \in Wire, Answer(r, event)
      PROVE  TypeOK'
  <2>1. on[r] \in Pubs /\ pc[r] # "idle"
    BY <1>9, <1>0 DEF Answer
  <2>2. connection' \in [Accounts -> {"disconnected", "connected", "expired", "rate_limited"}]
    BY <1>9 DEF Answer, TypeOK
  <2>3. RowTypes' /\ ReportTypes' /\ \A q \in Runners : pc'[q] = "idle" <=> pc[q] = "idle"
    <3>1. /\ {"published", "manual_required", "failed", "planned", "queued"} \subseteq Status
          /\ human[on[r]] \in BOOLEAN /\ "transient" \in Categories
      BY <2>1 DEF Status, Categories, TypeOK
    <3>2. \/ SettleAndTell(r, "published", FALSE, None)
          \/ SettleAndTell(r, "manual_required", FALSE, None)
          \/ /\ RecordAttempt(on[r]) /\ Goto(r, "verify")
             /\ UNCHANGED <<status, human, stamped, told, error>>
          \/ Park(r, "planned", None, "postpone")
          \/ SettleAndTell(r, "failed", human[on[r]], None)
          \/ Park(r, "queued", "transient", "end")
      BY <1>9 DEF Answer
    <3>3. CASE RecordAttempt(on[r]) /\ Goto(r, "verify")
               /\ UNCHANGED <<status, human, stamped, told, error>>
      BY <2>1, <3>3 DEF TypeOK, RowTypes, ReportTypes, PcType
    <3> HIDE DEF SettleAndTell, Park
    <3> QED
      BY <2>1, <3>1, <3>2, <3>3, SettledType, ParkedType
  <2> QED
    BY <1>9, <2>1, <2>2, <2>3 DEF Answer, TypeOK, RowTypes, ReportTypes, PcType
<1>10. ASSUME NEW verdict \in {"found", "absent", "unknown"}, Verdict(r, verdict)
       PROVE  TypeOK'
  <2>1. /\ on[r] \in Pubs /\ pc[r] # "idle"
        /\ {"published", "ambiguous", "planned"} \subseteq Status
    BY <1>10, <1>0 DEF Verdict, Status
  <2>2. RowTypes' /\ ReportTypes' /\ \A q \in Runners : pc'[q] = "idle" <=> pc[q] = "idle"
    <3>1. \/ SettleAndTell(r, "published", FALSE, None)
          \/ SettleAndTell(r, "ambiguous", TRUE, None)
          \/ /\ Settlement(on[r], "planned", FALSE) /\ RecordAttempt(on[r])
             /\ Goto(r, "postpone") /\ UNCHANGED <<told, error>>
      BY <1>10 DEF Verdict
    <3>2. CASE /\ Settlement(on[r], "planned", FALSE) /\ RecordAttempt(on[r])
               /\ Goto(r, "postpone") /\ UNCHANGED <<told, error>>
      BY <2>1, <3>2 DEF TypeOK, RowTypes, ReportTypes, PcType
    <3> HIDE DEF SettleAndTell
    <3> QED
      BY <2>1, <3>1, <3>2, SettledType
  <2> QED
    BY <1>10, <2>1, <2>2 DEF Verdict, TypeOK, RowTypes, ReportTypes, PcType
<1>11. CASE Postpone(r)
  <2>1. on[r] \in Pubs
    BY <1>11, <1>0 DEF Postpone
  <2>2. /\ job' \in [Pubs -> {"none", "queued", "running"}]
        /\ tries' \in [Pubs -> 0..PublishAttempts]
    BY <1>11, <2>1, EnqueueType DEF Postpone
  <2> QED
    BY <1>11, <2>1, <2>2 DEF Postpone, TypeOK
<1>12. CASE Settle(r)
  <2>1. state' \in ContentState
    BY <1>12, TargetType DEF Settle, TypeOK, ContentState
  <2> QED
    BY <1>12, <1>0, <2>1 DEF Settle, TypeOK
<1>13. CASE End(r)
  BY <1>13, <1>0 DEF End, TypeOK
<1> QED
  BY <1>1, <1>2, <1>3, <1>4, <1>5, <1>6, <1>7, <1>8, <1>9, <1>10, <1>11, <1>12, <1>13
     DEF Step

LEMMA TakeType ==
    ASSUME TypeOK, NEW r \in Runners, NEW p \in Pubs, Take(r, p)
    PROVE  TypeOK'
<1>1. tries' \in [Pubs -> 0..PublishAttempts]
  <2>1. tries[p] \in 0..2
    BY DEF TypeOK, PublishAttempts
  <2>2. (IF tries[p] < 2 THEN tries[p] + 1 ELSE tries[p]) \in 0..2
    BY <2>1
  <2> QED
    BY <2>2 DEF Take, TypeOK, PublishAttempts
<1>2. job' \in [Pubs -> {"none", "queued", "running"}]
  BY DEF Take, TypeOK
<1>3. /\ pc' \in PcType /\ on' \in [Runners -> Pubs \cup {None}]
      /\ \A q \in Runners : pc'[q] = "idle" <=> on'[q] = None
  BY PublicationAssumption DEF Take, TypeOK, PcType, Pubs
<1> QED
  BY <1>1, <1>2, <1>3 DEF Take, TypeOK, PcType

LEMMA ExpireType ==
    ASSUME TypeOK, NEW p \in Pubs, Expire(p)
    PROVE  TypeOK'
BY DEF Expire, TypeOK

LEMMA CrashType ==
    ASSUME TypeOK, NEW r \in Runners, Crash(r)
    PROVE  TypeOK'
BY PublicationAssumption DEF Crash, TypeOK

LEMMA RouteType ==
    ASSUME TypeOK, NEW a \in Accounts,
           RequestPublication(a) \/ MarkPublished(a) \/ Authorize(a)
    PROVE  TypeOK'
<1>1. <<current, a>> \in Pubs
  BY DEF TypeOK, Pubs
<1>2. CASE RequestPublication(a)
  <2>1. /\ job' \in [Pubs -> {"none", "queued", "running"}]
        /\ tries' \in [Pubs -> 0..PublishAttempts]
    BY <1>1, <1>2, EnqueueType DEF RequestPublication
  <2> QED
    BY <1>1, <1>2, <2>1 DEF RequestPublication, TypeOK, Status
<1>3. CASE MarkPublished(a)
  <2>1. online' \in [Pubs -> 0..2]
    BY <1>1, <1>3 DEF MarkPublished, TypeOK
  <2>2. status' \in [Pubs -> Status] /\ stamped' \in [Pubs -> BOOLEAN]
    BY <1>1, <1>3 DEF MarkPublished, TypeOK, Status
  <2>3. state' \in ContentState /\ logged' \in [Pubs -> BOOLEAN]
    BY <1>1, <1>3 DEF MarkPublished, TypeOK, ContentState
  <2> QED
    BY <1>3, <2>1, <2>2, <2>3 DEF MarkPublished, TypeOK
<1>4. CASE Authorize(a)
  BY <1>4 DEF Authorize, TypeOK
<1> QED
  BY <1>2, <1>3, <1>4

LEMMA DecisionType ==
    ASSUME TypeOK, NEW p \in Pubs, NEW decision \in Decisions, Decide(p, decision)
    PROVE  TypeOK'
<1>1. /\ job' \in [Pubs -> {"none", "queued", "running"}]
      /\ tries' \in [Pubs -> 0..PublishAttempts]
  <2>1. UNCHANGED <<job, tries>> \/ Enqueue(p)
    BY DEF Decide
  <2> QED
    BY <2>1, EnqueueType DEF TypeOK
<1>2. /\ status' \in [Pubs -> Status]
      /\ human' \in [Pubs -> BOOLEAN]
      /\ stamped' \in [Pubs -> BOOLEAN]
  BY DEF Decide, TypeOK, Status
<1> QED
  BY <1>1, <1>2 DEF Decide, TypeOK

LEMMA ItemType ==
    ASSUME TypeOK, Edit \/ Review \/ Approve \/ Archive
    PROVE  TypeOK'
<1>1. CASE Edit
  <2>1. AfterRewrite(state, approved # 0) \in ContentState /\ current + 1 \in 1..MaxVersions
    BY <1>1, PublicationAssumption DEF Edit, AfterRewrite, ContentState, TypeOK
  <2>2. 0 \in 0..MaxVersions
    BY PublicationAssumption
  <2> QED
    BY <1>1, <2>1, <2>2 DEF Edit, TypeOK
<1>2. CASE Review \/ Archive
  BY <1>2 DEF Review, Archive, TypeOK, ContentState
<1>3. CASE Approve
  <2>1. current \in 0..MaxVersions
    BY PublicationAssumption DEF TypeOK
  <2> QED
    BY <1>3, <2>1 DEF Approve, TypeOK, ContentState
<1> QED
  BY <1>1, <1>2, <1>3

LEMMA StutterType == TypeOK /\ UNCHANGED vars => TypeOK'
BY DEF TypeOK, vars

LEMMA NextType == TypeOK /\ [Next]_vars => TypeOK'
<1> SUFFICES ASSUME TypeOK, [Next]_vars PROVE TypeOK'
  OBVIOUS
<1>1. CASE \E r \in Runners : Step(r) \/ Crash(r)
  BY <1>1, HandlerType, CrashType
<1>2. CASE \E r \in Runners, p \in Pubs : Take(r, p)
  BY <1>2, TakeType
<1>3. CASE \E p \in Pubs : Expire(p)
  BY <1>3, ExpireType
<1>4. CASE \E a \in Accounts : RequestPublication(a) \/ MarkPublished(a) \/ Authorize(a)
  BY <1>4, RouteType
<1>5. CASE \E p \in Pubs, decision \in Decisions : Decide(p, decision)
  BY <1>5, DecisionType
<1> QED
  BY <1>1, <1>2, <1>3, <1>4, <1>5, ItemType, StutterType DEF Next

\* Every variable keeps its type, whatever handlers, crashes, routes and humans do.
THEOREM WellTyped == Spec => []TypeOK
BY InitType, NextType, PTL DEF Spec

------------------------------------------------------------------------------
(* At most one post.  The hypotheses, on the constants alone: a worker     *)
(* heartbeats as long as its handler runs, nobody publishes by hand beside *)
(* the job, and after a reply that lets the handler try again nothing is   *)
(* online.                                                                 *)

QuietReplies == Lands \subseteq {"created", "created_no_id", "unreadable", "timeout"}

HonestWorld == ~LeasesExpire /\ ~ByHand /\ QuietReplies

\* A row: what waits for a human is ambiguous, and a post is online only in a
\* status no path leads back from without an answer of the platform.
RowOk(s, h, n) ==
    /\ h => s = "ambiguous"
    /\ n \in {0, 1}
    /\ n = 1 => s \in {"publishing", "published", "ambiguous", "cancelled"}

\* A runner at step x with a connector of level l, on such a row.
RunOk(x, s, n, l) ==
    /\ s # "absent"
    /\ x = "claim" => s \in {"planned", "queued", "failed"}
    /\ x \in {"ready", "sending", "landed", "verify"} => s = "publishing"
    /\ x \in {"ready", "sending"} => n = 0
    /\ x \in {"sending", "landed"} => l # "C"
    /\ x = "landed" => (n = 1 <=> l = "A")

OneRunPerRow ==
    /\ stale = {}
    /\ \A r \in Runners : pc[r] # "idle" => job[on[r]] = "running"
    /\ \A q, r \in Runners : q # r /\ pc[q] # "idle" /\ pc[r] # "idle" => on[q] # on[r]

RowsInv == \A p \in Pubs : RowOk(status[p], human[p], online[p])

RunsInv ==
    \A r \in Runners :
        pc[r] # "idle" => RunOk(pc[r], status[on[r]], online[on[r]], level[r])

\* A job is enqueued for a row that exists.
JobsHaveRows == \A p \in Pubs : job[p] # "none" => status[p] # "absent"

IInv == TypeOK /\ OneRunPerRow /\ JobsHaveRows /\ RowsInv /\ RunsInv

LEMMA InitInv == Init => IInv
<1> SUFFICES ASSUME Init PROVE IInv
  OBVIOUS
<1>1. TypeOK
  BY InitType
<1> QED
  BY <1>1 DEF Init, IInv, OneRunPerRow, JobsHaveRows, RowsInv, RunsInv, RowOk

\* What a step of a handler leaves alone: every other runner and every other row.
Local(r) ==
    /\ on' = on /\ stale' = stale /\ job' = job
    /\ pc[r] # "idle" /\ pc'[r] # "idle"
    /\ \A q \in Runners \ {r} : pc'[q] = pc[q] /\ level'[q] = level[q]
    /\ \A p \in Pubs \ {on[r]} :
          status'[p] = status[p] /\ human'[p] = human[p] /\ online'[p] = online[p]

\* What the contract lets a row do, from status s with n posts to t with m.
Promised(s, n, t, m) ==
    \/ PhaseOf(t) = PhaseOf(s) /\ m = n
    \/ s = "absent" /\ PhaseOf(t) = "pending" /\ m = n
    \/ PhaseOf(s) = "pending" /\ t = s /\ n = 0 /\ m = 1
    \/ PhaseOf(s) \in {"pending", "doubtful"} /\ t = "published" /\ n = 1 /\ m = n
    \/ PhaseOf(s) = "pending" /\ t = "ambiguous" /\ m = n
    \/ /\ PhaseOf(s) = "doubtful" \/ (PhaseOf(s) = "pending" /\ n = 0)
       /\ PhaseOf(t) = "closed" /\ m = n
    \/ PhaseOf(s) \in {"doubtful", "closed"} /\ n = 0 /\ PhaseOf(t) = "pending" /\ m = n

\* What a step of a handler leaves to its own row and runner.
Sound(r) ==
    /\ RowOk(status'[on[r]], human'[on[r]], online'[on[r]])
    /\ RunOk(pc'[r], status'[on[r]], online'[on[r]], level'[r])
    /\ human[on[r]] => status'[on[r]] = status[on[r]] /\ human'[on[r]]
    /\ status[on[r]] \in Settled => status'[on[r]] = status[on[r]]
    /\ Promised(status[on[r]], online[on[r]], status'[on[r]], online'[on[r]])

\* A step that touches only its own row is safe when it leaves that row and its
\* runner sound.
LEMMA LocalStep ==
    ASSUME IInv, TypeOK', NEW r \in Runners, Local(r), Sound(r)
    PROVE  IInv'
<1>1. on[r] \in Pubs
  BY DEF IInv, TypeOK, Local
<1>2. OneRunPerRow'
  BY DEF IInv, OneRunPerRow, Local
<1>3. RowsInv' /\ JobsHaveRows'
  BY DEF IInv, RowsInv, JobsHaveRows, Local, Sound, RunOk
<1>4. RunsInv'
  <2> SUFFICES ASSUME NEW q \in Runners, pc'[q] # "idle"
               PROVE  RunOk(pc'[q], status'[on[q]], online'[on[q]], level'[q])
    BY DEF RunsInv, Local
  <2>1. CASE q = r
    BY <2>1 DEF Sound
  <2>2. CASE q # r
    <3>1. pc'[q] = pc[q] /\ level'[q] = level[q]
      BY <2>2 DEF Local
    <3>2. on[q] # on[r] /\ on[q] \in Pubs
      BY <2>2, <3>1 DEF IInv, OneRunPerRow, TypeOK, Local
    <3> QED
      BY <3>1, <3>2 DEF IInv, RunsInv, Local
  <2> QED
    BY <2>1, <2>2
<1> QED
  BY <1>2, <1>3, <1>4 DEF IInv

\* What is known of a runner at work: its row, and the facts about both.
LEMMA Facts ==
    ASSUME IInv, NEW r \in Runners, pc[r] # "idle"
    PROVE  /\ on[r] \in Pubs /\ job[on[r]] = "running" /\ r \notin stale
           /\ RowOk(status[on[r]], human[on[r]], online[on[r]])
           /\ RunOk(pc[r], status[on[r]], online[on[r]], level[r])
           /\ human[on[r]] \in BOOLEAN
<1>1. on[r] \in Pubs
  BY DEF IInv, TypeOK
<1> QED
  BY <1>1 DEF IInv, OneRunPerRow, RowsInv, RunsInv, TypeOK

LEMMA SettleIsLocal ==
    ASSUME IInv, NEW r \in Runners, pc[r] # "idle", NEW new \in Status \ {"absent"},
           NEW flag \in BOOLEAN, NEW category, SettleAndTell(r, new, flag, category),
           UNCHANGED <<on, stale, job, level, online>>,
           status[on[r]] = "publishing", RowOk(new, flag, online[on[r]]),
           Promised("publishing", online[on[r]], new, online[on[r]])
    PROVE  Local(r) /\ Sound(r)
<1>1. on[r] \in Pubs /\ ~human[on[r]]
  BY Facts DEF RowOk
<1>2. status'[on[r]] = new /\ human'[on[r]] = flag /\ pc'[r] = "settle"
  BY <1>1 DEF IInv, TypeOK
<1>3. Local(r)
  BY <1>1, <1>2 DEF Local, IInv, TypeOK
<1> QED
  BY <1>1, <1>2, <1>3 DEF Sound, RunOk, Settled

LEMMA ParkIsLocal ==
    ASSUME IInv, NEW r \in Runners, pc[r] # "idle", NEW new \in Status \ {"absent"},
           NEW step \in {"postpone", "end"}, NEW category, Park(r, new, category, step),
           UNCHANGED <<on, stale, job, level, online>>,
           status[on[r]] = "publishing", RowOk(new, human[on[r]], online[on[r]]),
           Promised("publishing", online[on[r]], new, online[on[r]])
    PROVE  Local(r) /\ Sound(r)
<1>1. on[r] \in Pubs /\ human[on[r]] \in BOOLEAN /\ ~human[on[r]]
  BY Facts DEF RowOk
<1>2. status'[on[r]] = new /\ human'[on[r]] = human[on[r]] /\ pc'[r] = step
  BY <1>1 DEF IInv, TypeOK
<1>3. Local(r)
  BY <1>1, <1>2 DEF Local, IInv, TypeOK
<1> QED
  BY <1>1, <1>2, <1>3 DEF Sound, RunOk, Settled

\* A runner that only moves on needs the facts of its next step.
LEMMA GotoIsLocal ==
    ASSUME IInv, NEW r \in Runners, pc[r] # "idle",
           NEW step \in {"load", "claim", "ready", "sending", "landed", "verify",
                         "settle", "postpone", "end"},
           Goto(r, step), UNCHANGED <<on, stale, job, level, status, human, online>>,
           RunOk(step, status[on[r]], online[on[r]], level[r])
    PROVE  Local(r) /\ Sound(r)
<1>1. on[r] \in Pubs /\ RowOk(status[on[r]], human[on[r]], online[on[r]])
  BY Facts
<1>2. pc'[r] = step
  BY DEF IInv, TypeOK
<1>3. Local(r)
  BY <1>2 DEF Local, IInv, TypeOK
<1> QED
  BY <1>1, <1>2, <1>3 DEF Sound, Promised

\* The replies after which a post may be online settle it or ask to verify it;
\* only a draft is settled as not visible.
LEMMA LandedReaction ==
    ASSUME QuietReplies, NEW r \in Runners, NEW event \in Lands
    PROVE  /\ Reaction(r, event) \in {"settle_published", "settle_draft", "verify_then_decide"}
           /\ Reaction(r, event) = "settle_draft" => level[r] = "B"
           /\ Reaction(r, event) = "settle_published" => level[r] # "B"
<1>1. event \in {"created", "created_no_id", "unreadable", "timeout"}
  BY DEF QuietReplies
<1>2. CASE event = "created"
  BY <1>2 DEF Reaction, LinkedInOutcome, HttpOutcome, ReactionFor
<1>3. CASE event \in {"created_no_id", "unreadable", "timeout"}
  <2>1. LinkedInOutcome(event, level[r] = "B") = "ambiguous"
    BY <1>3 DEF LinkedInOutcome, HttpOutcome
  <2> QED
    BY <2>1 DEF Reaction, ReactionFor
<1> QED
  BY <1>1, <1>2, <1>3

\* A reply that does not say the post is online never settles it as published.
LEMMA SentReaction ==
    ASSUME NEW r \in Runners, NEW event, event \notin SurelyOnline
    PROVE  Reaction(r, event) # "settle_published"
<1>1. LinkedInOutcome(event, level[r] = "B")
        \in {"ambiguous", "server_error", "rate_limited", "auth_error", "rejected"}
  BY DEF LinkedInOutcome, HttpOutcome, SurelyOnline
<1> QED
  BY <1>1 DEF Reaction, ReactionFor

LEMMA AnswerIsLocal ==
    ASSUME IInv, HonestWorld, NEW r \in Runners, NEW event \in Wire, Answer(r, event)
    PROVE  Local(r) /\ Sound(r)
<1>0. pc[r] \in {"sending", "landed"}
  BY DEF Answer
<1>1. /\ on[r] \in Pubs /\ status[on[r]] = "publishing" /\ ~human[on[r]]
      /\ human[on[r]] \in BOOLEAN /\ online[on[r]] \in {0, 1}
      /\ (pc[r] = "sending" \/ level[r] = "B") => online[on[r]] = 0
      /\ pc[r] = "landed" /\ level[r] # "B" => online[on[r]] = 1
  BY <1>0, Facts DEF RunOk, RowOk, IInv, TypeOK
<1>2. \/ pc[r] = "sending" /\ Reaction(r, event) # "settle_published"
      \/ /\ pc[r] = "landed"
         /\ Reaction(r, event) \in {"settle_published", "settle_draft", "verify_then_decide"}
         /\ Reaction(r, event) = "settle_draft" => level[r] = "B"
         /\ Reaction(r, event) = "settle_published" => level[r] # "B"
  BY LandedReaction, SentReaction DEF Answer, HonestWorld
<1>3. /\ UNCHANGED <<on, stale, job, level, online>>
      /\ {"published", "manual_required", "failed", "planned", "queued"} \subseteq Status
  BY DEF Answer, Status
<1>4. \/ SettleAndTell(r, "published", FALSE, None) /\ online[on[r]] = 1
      \/ SettleAndTell(r, "manual_required", FALSE, None) /\ online[on[r]] = 0
      \/ Goto(r, "verify") /\ UNCHANGED <<status, human>>
      \/ Park(r, "planned", None, "postpone") /\ online[on[r]] = 0
      \/ SettleAndTell(r, "failed", human[on[r]], None) /\ online[on[r]] = 0
      \/ Park(r, "queued", "transient", "end") /\ online[on[r]] = 0
  <2> HIDE DEF SettleAndTell, Park, Goto
  <2> QED
    BY <1>0, <1>1, <1>2 DEF Answer
<1>5. CASE Goto(r, "verify") /\ UNCHANGED <<status, human>>
  <2>1. RunOk("verify", status[on[r]], online[on[r]], level[r])
    BY <1>1 DEF RunOk
  <2> HIDE DEF Goto
  <2> QED
    BY <1>0, <1>3, <1>5, <2>1, GotoIsLocal
<1>6. /\ RowOk("published", FALSE, online[on[r]])
      /\ online[on[r]] = 0 =>
           /\ RowOk("manual_required", FALSE, online[on[r]])
           /\ \A new \in {"planned", "failed", "queued"} :
                 RowOk(new, human[on[r]], online[on[r]])
  BY <1>1 DEF RowOk
<1>7. /\ online[on[r]] = 1 => Promised("publishing", online[on[r]], "published", online[on[r]])
      /\ online[on[r]] = 0 =>
           \A new \in {"manual_required", "planned", "failed", "queued"} :
              Promised("publishing", online[on[r]], new, online[on[r]])
  BY DEF Promised, PhaseOf
<1> HIDE DEF SettleAndTell, Park
<1> QED
  BY <1>0, <1>1, <1>3, <1>4, <1>5, <1>6, <1>7, SettleIsLocal, ParkIsLocal

LEMMA VerdictIsLocal ==
    ASSUME IInv, NEW r \in Runners, NEW verdict \in {"found", "absent", "unknown"},
           Verdict(r, verdict)
    PROVE  Local(r) /\ Sound(r)
<1>0. pc[r] = "verify" /\ verdict \in Verdicts(on[r])
  BY DEF Verdict
<1>1. /\ on[r] \in Pubs /\ status[on[r]] = "publishing" /\ ~human[on[r]]
      /\ online[on[r]] \in {0, 1}
      /\ verdict = "absent" => online[on[r]] = 0
      /\ verdict = "found" => online[on[r]] = 1
  BY <1>0, Facts DEF RunOk, RowOk, Verdicts
<1>2. /\ UNCHANGED <<on, stale, job, level, online>>
      /\ {"published", "ambiguous", "planned"} \subseteq Status
  BY DEF Verdict, Status
<1>3. /\ RowOk("published", FALSE, online[on[r]]) /\ RowOk("ambiguous", TRUE, online[on[r]])
      /\ Promised("publishing", online[on[r]], "ambiguous", online[on[r]])
      /\ online[on[r]] = 1 => Promised("publishing", online[on[r]], "published", online[on[r]])
  BY <1>1 DEF RowOk, Promised, PhaseOf
<1>4. \/ SettleAndTell(r, "published", FALSE, None) /\ online[on[r]] = 1
      \/ SettleAndTell(r, "ambiguous", TRUE, None)
      \/ /\ Settlement(on[r], "planned", FALSE) /\ Goto(r, "postpone")
         /\ online[on[r]] = 0
  <2> HIDE DEF SettleAndTell, Settlement, Goto
  <2> QED
    BY <1>1 DEF Verdict
<1>5. CASE /\ Settlement(on[r], "planned", FALSE) /\ Goto(r, "postpone")
           /\ online[on[r]] = 0
  <2>1. status'[on[r]] = "planned" /\ human'[on[r]] = FALSE /\ pc'[r] = "postpone"
    BY <1>1, <1>5 DEF IInv, TypeOK
  <2>2. Local(r)
    BY <1>0, <1>1, <1>2, <1>5, <2>1 DEF Local, IInv, TypeOK
  <2> QED
    BY <1>1, <1>2, <1>5, <2>1, <2>2 DEF Sound, RowOk, RunOk, Promised, PhaseOf, Settled
<1> HIDE DEF SettleAndTell
<1> QED
  BY <1>0, <1>1, <1>2, <1>3, <1>4, <1>5, SettleIsLocal

LEMMA HandlerIsLocal ==
    ASSUME IInv, HonestWorld, NEW r \in Runners, Step(r), ~End(r)
    PROVE  Local(r) /\ Sound(r)
<1>0. /\ pc[r] # "idle"
      /\ on[r] \in Pubs /\ human[on[r]] \in BOOLEAN /\ job[on[r]] = "running"
      /\ RowOk(status[on[r]], human[on[r]], online[on[r]])
      /\ RunOk(pc[r], status[on[r]], online[on[r]], level[r])
  <2>1. pc[r] # "idle"
    BY DEF Step, Load, Hold, Claim, Reject, Handover, ThrowBeforeSend, Send, Land, Answer,
           Verdict, Postpone, Settle
  <2> QED
    BY <2>1, Facts
<1>1. CASE Load(r)
  <2>1. PICK step \in {"verify", "end", "claim"} :
          /\ Goto(r, step)
          /\ step = "verify" => status[on[r]] = "publishing"
          /\ step = "claim" => ~ForbidsRemoteCall(status[on[r]], human[on[r]])
                               /\ status[on[r]] # "publishing"
    BY <1>1 DEF Load
  <2>2. status[on[r]] \in Status
    BY <1>0 DEF IInv, TypeOK
  <2>3. RunOk(step, status[on[r]], online[on[r]], level[r])
    BY <1>0, <2>1, <2>2 DEF RunOk, ForbidsRemoteCall, Status
  <2>4. UNCHANGED <<on, stale, job, level, status, human, online>>
    BY <1>1 DEF Load
  <2> HIDE DEF Goto
  <2> QED
    BY <1>0, <2>1, <2>3, <2>4, GotoIsLocal
<1>2. CASE Hold(r)
  <2>1. pc[r] = "claim" /\ UNCHANGED <<on, stale, job, level, online>>
    BY <1>2 DEF Hold
  <2>2. status'[on[r]] = "planned" /\ human'[on[r]] = human[on[r]] /\ pc'[r] = "postpone"
    BY <1>0, <1>2 DEF Hold, IInv, TypeOK
  <2>3. Local(r)
    BY <1>0, <1>2, <2>1, <2>2 DEF Hold, Local, IInv, TypeOK
  <2> QED
    BY <1>0, <2>1, <2>2, <2>3 DEF Sound, RowOk, RunOk, Promised, PhaseOf, Settled
<1>3. CASE Claim(r)
  <2>1. pc[r] = "claim" /\ UNCHANGED <<on, stale, job, online>>
    BY <1>3 DEF Claim
  <2>2. CASE Claimable(on[r])
    <3>1. /\ status'[on[r]] = "publishing" /\ human'[on[r]] = human[on[r]]
          /\ pc'[r] = "ready"
      BY <1>0, <1>3, <2>2 DEF Claim, IInv, TypeOK
    <3>2. Local(r)
      BY <1>0, <1>3, <2>1, <2>2, <3>1 DEF Claim, Local, IInv, TypeOK
    <3> QED
      BY <1>0, <2>1, <2>2, <3>1, <3>2
         DEF Sound, RowOk, RunOk, Promised, PhaseOf, Claimable, Settled
  <2>3. CASE ~Claimable(on[r])
    <3>1. /\ UNCHANGED <<on, stale, job, level, status, human, online>>
          /\ Goto(r, "end")
      BY <1>0, <1>3, <2>1, <2>3 DEF Claim, RunOk
    <3>2. RunOk("end", status[on[r]], online[on[r]], level[r])
      BY <1>0 DEF RunOk
    <3> HIDE DEF Goto
    <3> QED
      BY <1>0, <3>1, <3>2, GotoIsLocal
  <2> QED
    BY <2>2, <2>3
<1>4. CASE Reject(r)
  <2>1. /\ SettleAndTell(r, "failed", human[on[r]], "validation") /\ "failed" \in Status
        /\ UNCHANGED <<on, stale, job, level, online>>
        /\ pc[r] = "ready"
    BY <1>4 DEF Reject, Status
  <2>2. /\ RowOk("failed", human[on[r]], online[on[r]])
        /\ status[on[r]] = "publishing"
        /\ Promised("publishing", online[on[r]], "failed", online[on[r]])
    BY <1>0, <2>1 DEF RowOk, RunOk, Promised, PhaseOf
  <2> HIDE DEF SettleAndTell
  <2> QED
    BY <1>0, <2>1, <2>2, SettleIsLocal
<1>5. CASE Handover(r)
  <2>1. /\ SettleAndTell(r, "manual_required", FALSE, None) /\ "manual_required" \in Status
        /\ UNCHANGED <<on, stale, job, level, online>>
        /\ pc[r] = "ready"
    BY <1>5 DEF Handover, Status
  <2>2. /\ RowOk("manual_required", FALSE, online[on[r]])
        /\ status[on[r]] = "publishing"
        /\ Promised("publishing", online[on[r]], "manual_required", online[on[r]])
    BY <1>0, <2>1 DEF RowOk, RunOk, Promised, PhaseOf
  <2> HIDE DEF SettleAndTell
  <2> QED
    BY <1>0, <2>1, <2>2, SettleIsLocal
<1>6. ASSUME NEW category \in Throws, ThrowBeforeSend(r, category)
      PROVE  Local(r) /\ Sound(r)
  <2>1. /\ UNCHANGED <<on, stale, job, level, online>>
        /\ pc[r] = "ready" /\ "failed" \in Status
    BY <1>6 DEF ThrowBeforeSend, Status
  <2>2. /\ RowOk("failed", human[on[r]], online[on[r]])
        /\ RunOk("end", status[on[r]], online[on[r]], level[r])
        /\ status[on[r]] = "publishing"
        /\ Promised("publishing", online[on[r]], "failed", online[on[r]])
    BY <1>0, <2>1 DEF RowOk, RunOk, Promised, PhaseOf
  <2>3. \/ Goto(r, "end") /\ UNCHANGED <<status, human>>
        \/ SettleAndTell(r, "failed", human[on[r]], category)
    BY <1>6 DEF ThrowBeforeSend
  <2> HIDE DEF SettleAndTell, Goto
  <2> QED
    BY <1>0, <2>1, <2>2, <2>3, SettleIsLocal, GotoIsLocal
<1>7. CASE Send(r)
  <2>1. /\ UNCHANGED <<on, stale, job, level, status, human, online>>
        /\ pc[r] = "ready" /\ level[r] # "C" /\ Goto(r, "sending")
    BY <1>7 DEF Send
  <2>2. RunOk("sending", status[on[r]], online[on[r]], level[r])
    BY <1>0, <2>1 DEF RunOk
  <2> HIDE DEF Goto
  <2> QED
    BY <1>0, <2>1, <2>2, GotoIsLocal
<1>8. CASE Land(r)
  <2>1. /\ UNCHANGED <<on, stale, job, level, status, human>>
        /\ pc[r] = "sending" /\ pc'[r] = "landed"
    BY <1>8 DEF Land, IInv, TypeOK
  <2>2. /\ online[on[r]] = 0
        /\ online'[on[r]] = IF level[r] = "A" THEN 1 ELSE 0
        /\ level[r] # "C" /\ ~human[on[r]]
    BY <1>0, <1>8, <2>1 DEF Land, IInv, TypeOK, RunOk, RowOk
  <2>3. Local(r)
    BY <1>0, <1>8, <2>1 DEF Land, Local, IInv, TypeOK
  <2> QED
    BY <1>0, <2>1, <2>2, <2>3 DEF Sound, RowOk, RunOk, Promised, PhaseOf, Settled
<1>9. CASE Postpone(r)
  <2>1. /\ UNCHANGED <<on, stale, job, level, status, human, online>>
        /\ Goto(r, "end")
    BY <1>0, <1>9 DEF Postpone, Enqueue
  <2>2. RunOk("end", status[on[r]], online[on[r]], level[r])
    BY <1>0 DEF RunOk
  <2> HIDE DEF Goto
  <2> QED
    BY <1>0, <2>1, <2>2, GotoIsLocal
<1>10. CASE Settle(r)
  <2>1. /\ UNCHANGED <<on, stale, job, level, status, human, online>>
        /\ Goto(r, "end")
    BY <1>10 DEF Settle
  <2>2. RunOk("end", status[on[r]], online[on[r]], level[r])
    BY <1>0 DEF RunOk
  <2> HIDE DEF Goto
  <2> QED
    BY <1>0, <2>1, <2>2, GotoIsLocal
<1> QED
  BY <1>1, <1>2, <1>3, <1>4, <1>5, <1>6, <1>7, <1>8, <1>9, <1>10, AnswerIsLocal,
     VerdictIsLocal DEF Step

------------------------------------------------------------------------------
(* The queue, the routes and the humans.                                   *)

\* A runner that leaves its row takes its facts with it.
LEMMA LeaveInv ==
    ASSUME IInv, TypeOK', NEW r \in Runners, End(r) \/ Crash(r)
    PROVE  IInv'
<1>1. on[r] \in Pubs /\ r \notin stale /\ pc[r] # "idle"
  BY Facts DEF End, Crash
<1>2. /\ pc' = [pc EXCEPT ![r] = "idle"] /\ on' = [on EXCEPT ![r] = None]
      /\ level' = [level EXCEPT ![r] = "C"]
      /\ UNCHANGED <<status, human, online>>
      /\ stale' = {}
      /\ \A p \in Pubs \ {on[r]} : job'[p] = job[p]
  BY <1>1 DEF End, Crash, IInv, OneRunPerRow, TypeOK
<1>3. \A q \in Runners :
        pc'[q] # "idle" => q # r /\ pc[q] # "idle" /\ pc'[q] = pc[q] /\ on'[q] = on[q]
                           /\ level'[q] = level[q] /\ on[q] # on[r] /\ on[q] \in Pubs
  BY <1>1, <1>2 DEF IInv, TypeOK, OneRunPerRow
<1>4. OneRunPerRow'
  BY <1>2, <1>3 DEF IInv, OneRunPerRow
<1>5. RowsInv' /\ RunsInv'
  BY <1>2, <1>3 DEF IInv, RowsInv, RunsInv
<1>6. JobsHaveRows'
  BY <1>1, <1>2, Facts DEF IInv, JobsHaveRows, RunOk
<1> QED
  BY <1>4, <1>5, <1>6 DEF IInv

LEMMA TakeInv ==
    ASSUME IInv, TypeOK', NEW r \in Runners, NEW p \in Pubs, Take(r, p)
    PROVE  IInv'
<1>1. /\ pc'[r] = "load" /\ on'[r] = p /\ job'[p] = "running" /\ job[p] = "queued"
      /\ \A q \in Runners \ {r} : pc'[q] = pc[q] /\ on'[q] = on[q]
      /\ \A o \in Pubs \ {p} : job'[o] = job[o]
      /\ UNCHANGED <<level, stale, status, human, online>>
  BY DEF Take, IInv, TypeOK
<1>2. \A q \in Runners \ {r} : pc[q] # "idle" => on[q] \in Pubs \ {p}
  BY DEF Take, IInv, TypeOK, OneRunPerRow
<1>3. OneRunPerRow'
  BY <1>1, <1>2 DEF IInv, OneRunPerRow
<1>4. RowsInv' /\ JobsHaveRows'
  BY <1>1 DEF IInv, RowsInv, JobsHaveRows
<1>5. RunsInv'
  BY <1>1, <1>2 DEF IInv, RunsInv, JobsHaveRows, RunOk
<1> QED
  BY <1>3, <1>4, <1>5 DEF IInv

LEMMA ExpireInv ==
    ASSUME IInv, HonestWorld, TypeOK', NEW p \in Pubs, Expire(p)
    PROVE  IInv'
<1>1. /\ \A r \in Runners : on[r] # p
      /\ \A o \in Pubs \ {p} : job'[o] = job[o]
      /\ job[p] = "running"
      /\ UNCHANGED <<pc, on, level, stale, status, human, online>>
  BY DEF Expire, HonestWorld, IInv, OneRunPerRow
<1>2. OneRunPerRow'
  BY <1>1 DEF IInv, OneRunPerRow, TypeOK
<1>3. RowsInv' /\ RunsInv' /\ JobsHaveRows'
  BY <1>1 DEF IInv, RowsInv, RunsInv, JobsHaveRows
<1> QED
  BY <1>2, <1>3 DEF IInv

\* Routes and humans only touch rows that no runner is about to send.
LEMMA OutsideInv ==
    ASSUME IInv, TypeOK', NEW p \in Pubs,
           UNCHANGED <<pc, on, level, stale>>,
           job[p] = "running" => job'[p] = "running",
           \A o \in Pubs \ {p} :
              /\ status'[o] = status[o] /\ human'[o] = human[o] /\ online'[o] = online[o]
              /\ job'[o] = job[o],
           status'[p] # "absent", RowOk(status'[p], human'[p], online'[p]),
           \A r \in Runners : on[r] = p => RunOk(pc[r], status'[p], online'[p], level[r])
    PROVE  IInv'
<1>1. \A r \in Runners : pc[r] # "idle" => on[r] \in Pubs
  BY DEF IInv, TypeOK
<1>2. OneRunPerRow'
  BY <1>1 DEF IInv, OneRunPerRow
<1>3. RowsInv' /\ JobsHaveRows'
  BY DEF IInv, RowsInv, JobsHaveRows
<1>4. RunsInv'
  BY <1>1 DEF IInv, RunsInv
<1> QED
  BY <1>2, <1>3, <1>4 DEF IInv

LEMMA RequestInv ==
    ASSUME IInv, TypeOK', NEW a \in Accounts, RequestPublication(a)
    PROVE  IInv'
<1> DEFINE p == <<current, a>>
<1>1. p \in Pubs
  BY DEF IInv, TypeOK, Pubs
<1> HIDE DEF p
<1>2. /\ status' = [status EXCEPT ![p] = IF @ = "absent" THEN "planned" ELSE @]
      /\ Enqueue(p) /\ UNCHANGED <<pc, on, level, stale, human, online>>
  BY DEF RequestPublication, p
<1>3. /\ job[p] = "running" => job'[p] = "running"
      /\ \A o \in Pubs \ {p} : status'[o] = status[o] /\ job'[o] = job[o]
      /\ status'[p] = IF status[p] = "absent" THEN "planned" ELSE status[p]
  BY <1>1, <1>2 DEF Enqueue, IInv, TypeOK
<1>4. /\ status'[p] # "absent" /\ RowOk(status'[p], human'[p], online'[p])
      /\ \A r \in Runners : on[r] = p => RunOk(pc[r], status'[p], online'[p], level[r])
  BY <1>1, <1>2, <1>3 DEF IInv, TypeOK, RowsInv, RunsInv, RowOk, RunOk
<1> QED
  BY <1>1, <1>2, <1>3, <1>4, OutsideInv

LEMMA DecideInv ==
    ASSUME IInv, TypeOK', NEW p \in Pubs, NEW decision \in Decisions, Decide(p, decision)
    PROVE  IInv'
<1>1. /\ UNCHANGED <<pc, on, level, stale, online>>
      /\ human[p] /\ status[p] = "ambiguous"
      /\ UNCHANGED <<job, tries>> \/ Enqueue(p)
  BY DEF Decide, IInv, RowsInv, RowOk
<1>2. /\ job[p] = "running" => job'[p] = "running"
      /\ \A o \in Pubs \ {p} : job'[o] = job[o]
  BY <1>1 DEF Enqueue, IInv, TypeOK
<1>3. /\ \A o \in Pubs \ {p} : status'[o] = status[o] /\ human'[o] = human[o]
      /\ human'[p] = FALSE
      /\ \/ status'[p] \in {"published", "cancelled"}
         \/ status'[p] = "planned" /\ online[p] = 0
  BY DEF Decide, IInv, TypeOK
<1>4. /\ status'[p] # "absent" /\ RowOk(status'[p], human'[p], online'[p])
      /\ \A r \in Runners : on[r] = p => RunOk(pc[r], status'[p], online'[p], level[r])
  BY <1>1, <1>3 DEF IInv, TypeOK, RowsInv, RunsInv, RowOk, RunOk
<1> QED
  BY <1>1, <1>2, <1>3, <1>4, OutsideInv

LEMMA ElsewhereInv ==
    ASSUME IInv, TypeOK', UNCHANGED <<pc, on, level, stale, status, human, online, job>>
    PROVE  IInv'
BY DEF IInv, OneRunPerRow, JobsHaveRows, RowsInv, RunsInv

LEMMA NextInv == HonestWorld /\ IInv /\ [Next]_vars => IInv'
<1> SUFFICES ASSUME HonestWorld, IInv, [Next]_vars PROVE IInv'
  OBVIOUS
<1>0. TypeOK'
  BY NextType DEF IInv
<1>1. CASE \E r \in Runners : Step(r) \/ Crash(r)
  BY <1>0, <1>1, HandlerIsLocal, LocalStep, LeaveInv
<1>2. CASE \E r \in Runners, p \in Pubs : Take(r, p)
  BY <1>0, <1>2, TakeInv
<1>3. CASE \E p \in Pubs : Expire(p)
  BY <1>0, <1>3, ExpireInv
<1>4. CASE \E a \in Accounts : RequestPublication(a) \/ MarkPublished(a) \/ Authorize(a)
  <2>1. ASSUME NEW a \in Accounts, MarkPublished(a) PROVE FALSE
    BY <2>1 DEF MarkPublished, HonestWorld
  <2>2. ASSUME NEW a \in Accounts, Authorize(a) PROVE IInv'
    BY <1>0, <2>2, ElsewhereInv DEF Authorize
  <2> QED
    BY <1>0, <1>4, <2>1, <2>2, RequestInv
<1>5. CASE \E p \in Pubs, decision \in Decisions : Decide(p, decision)
  BY <1>0, <1>5, DecideInv
<1>6. CASE Edit \/ Review \/ Approve \/ Archive
  BY <1>0, <1>6, ElsewhereInv DEF Edit, Review, Approve, Archive
<1>7. CASE UNCHANGED vars
  BY <1>0, <1>7, ElsewhereInv DEF vars
<1> QED
  BY <1>1, <1>2, <1>3, <1>4, <1>5, <1>6, <1>7 DEF Next

\* Whatever is lost, retried, restarted or asked again, a version is visible at
\* most once on an account: the handler, the store and the decision table of
\* publish-content.ts keep it, for every number of workers and of crashes.
THEOREM PostedAtMostOnce == ASSUME HonestWorld PROVE Spec => []NoDuplicate
<1>1. Init => IInv
  BY InitInv
<1>2. IInv /\ [Next]_vars => IInv'
  BY NextInv
<1>3. IInv => NoDuplicate
  BY DEF IInv, RowsInv, RowOk, NoDuplicate
<1> QED
  BY <1>1, <1>2, <1>3, PTL DEF Spec

\* A publication that may still be sent is not online: no path leads from a
\* post back to a claimable status unless the platform or a human said that
\* nothing was there.
THEOREM SendableIsNotOnline == ASSUME HonestWorld PROVE Spec => []SendableIsOffline
<1>1. Init => IInv
  BY InitInv
<1>2. IInv /\ [Next]_vars => IInv'
  BY NextInv
<1>3. IInv => SendableIsOffline
  BY DEF IInv, TypeOK, RowsInv, RowOk, SendableIsOffline, Claimable
<1> QED
  BY <1>1, <1>2, <1>3, PTL DEF Spec

\* A runner between its claim and its answer holds the lock of its row, and no
\* other runner sends the same publication.
THEOREM SendersHoldTheirRow ==
    ASSUME HonestWorld PROVE Spec => []LockedWhileSending /\ []OneSender
<1>1. Init => IInv
  BY InitInv
<1>2. IInv /\ [Next]_vars => IInv'
  BY NextInv
<1>3. IInv => LockedWhileSending
  BY DEF IInv, TypeOK, RowsInv, RunsInv, RowOk, RunOk, LockedWhileSending, Sending
<1>4. IInv => OneSender
  BY DEF IInv, OneRunPerRow, OneSender, Sending
<1> QED
  BY <1>1, <1>2, <1>3, <1>4, PTL DEF Spec

------------------------------------------------------------------------------
(* What waits for a human, and what the publication promises.              *)

\* No step of a worker and no request touches a row that waits for a human.
LEMMA StepKeepsDoubt ==
    ASSUME HonestWorld, IInv, [Next]_vars, NEW p \in Pubs, human[p],
           ~\E decision \in Decisions : Decide(p, decision)
    PROVE  status'[p] = status[p] /\ human'[p]
<1>0. status[p] = "ambiguous"
  BY DEF IInv, RowsInv, RowOk
<1>1. ASSUME NEW r \in Runners, Step(r), ~End(r)
      PROVE  status'[p] = status[p] /\ human'[p]
  BY <1>1, HandlerIsLocal DEF Local, Sound
<1>2. ASSUME NEW r \in Runners, End(r) \/ Crash(r)
      PROVE  status'[p] = status[p] /\ human'[p]
  BY <1>2 DEF End, Crash
<1>3. CASE \/ \E r \in Runners, o \in Pubs : Take(r, o)
           \/ \E o \in Pubs : Expire(o)
           \/ \E a \in Accounts : Authorize(a)
           \/ Edit \/ Review \/ Approve \/ Archive \/ UNCHANGED vars
  BY <1>3 DEF Take, Expire, Authorize, Edit, Review, Approve, Archive, vars
<1>4. ASSUME NEW a \in Accounts, RequestPublication(a)
      PROVE  status'[p] = status[p] /\ human'[p]
  BY <1>0, <1>4 DEF RequestPublication, IInv, TypeOK
<1>5. ASSUME NEW a \in Accounts, MarkPublished(a) PROVE FALSE
  BY <1>5 DEF MarkPublished, HonestWorld
<1>6. ASSUME NEW o \in Pubs, NEW decision \in Decisions, Decide(o, decision)
      PROVE  status'[p] = status[p] /\ human'[p]
  <2>1. o # p
    BY <1>6
  <2> QED
    BY <1>6, <2>1 DEF Decide, IInv, TypeOK
<1> QED
  BY <1>1, <1>2, <1>3, <1>4, <1>5, <1>6 DEF Next

\* A doubtful publication is moved by a decision and by nothing else: no job,
\* retry, restart, budget brake or second click takes it from the human.
THEOREM DoubtWaits == ASSUME HonestWorld PROVE Spec => AmbiguousWaitsForHuman
<1>1. Init => IInv
  BY InitInv
<1>2. IInv /\ [Next]_vars => IInv'
  BY NextInv
<1>3. IInv /\ [Next]_vars =>
        [\A p \in Pubs : human[p] =>
            \/ \E decision \in Decisions : Decide(p, decision)
            \/ status'[p] = status[p] /\ human'[p]]_vars
  BY StepKeepsDoubt
<1> QED
  BY <1>1, <1>2, <1>3, PTL DEF Spec, AmbiguousWaitsForHuman

\* One row changes as promised: the contract allows the step.
LEMMA OneRowIsContract ==
    ASSUME IInv, TypeOK', NEW p \in Pubs,
           \A o \in Pubs \ {p} : status'[o] = status[o] /\ online'[o] = online[o],
           Promised(status[p], online[p], status'[p], online'[p])
    PROVE  Contract!Next \/ UNCHANGED <<PubPhase, online>>
<1>1. /\ PubPhase' = [PubPhase EXCEPT ![p] = PhaseOf(status'[p])]
      /\ PubPhase[p] = PhaseOf(status[p])
  BY DEF PubPhase
<1>2. online \in [Pubs -> 0..2] /\ online' \in [Pubs -> 0..2]
  BY DEF IInv, TypeOK
<1>3. online' = [online EXCEPT ![p] = online'[p]]
  BY <1>2
<1>4. /\ PhaseOf("absent") = "absent" /\ PhaseOf("published") = "done"
      /\ PhaseOf("ambiguous") = "doubtful"
  BY DEF PhaseOf
<1>5. CASE PhaseOf(status'[p]) = PhaseOf(status[p]) /\ online'[p] = online[p]
  <2>1. PubPhase' = PubPhase
    BY <1>1, <1>5 DEF PubPhase
  <2>2. online' = online
    BY <1>2, <1>3, <1>5
  <2> QED
    BY <2>1, <2>2
<1>6. CASE /\ PhaseOf(status[p]) = "pending" /\ status'[p] = status[p]
           /\ online[p] = 0 /\ online'[p] = 1
  <2>1. PubPhase' = PubPhase
    BY <1>1, <1>6 DEF PubPhase
  <2> QED
    BY <1>1, <1>3, <1>6, <2>1 DEF Contract!Post, Contract!Next
<1>7. CASE online'[p] = online[p] /\ PhaseOf(status'[p]) # PhaseOf(status[p])
  <2>1. online' = online
    BY <1>2, <1>3, <1>7
  <2>2. \/ Contract!Request(p) \/ Contract!Confirm(p) \/ Contract!Doubt(p)
        \/ Contract!Close(p) \/ Contract!Reopen(p)
    BY <1>1, <1>4, <1>7, <2>1
       DEF Promised, Contract!Request, Contract!Confirm, Contract!Doubt, Contract!Close,
           Contract!Reopen
  <2> QED
    BY <2>2 DEF Contract!Next
<1> QED
  BY <1>5, <1>6, <1>7 DEF Promised

LEMMA StepIsContract ==
    ASSUME HonestWorld, IInv, [Next]_vars
    PROVE  Contract!Next \/ UNCHANGED <<PubPhase, online>>
<1>0. TypeOK'
  BY NextType DEF IInv
<1>1. ASSUME NEW r \in Runners, Step(r), ~End(r)
      PROVE  Contract!Next \/ UNCHANGED <<PubPhase, online>>
  <2>1. on[r] \in Pubs
    BY <1>1, HandlerIsLocal DEF Local, IInv, TypeOK
  <2> QED
    BY <1>0, <1>1, <2>1, HandlerIsLocal, OneRowIsContract DEF Local, Sound
<1>2. CASE \/ \E r \in Runners : End(r) \/ Crash(r)
           \/ \E r \in Runners, o \in Pubs : Take(r, o)
           \/ \E o \in Pubs : Expire(o)
           \/ \E a \in Accounts : Authorize(a)
           \/ Edit \/ Review \/ Approve \/ Archive \/ UNCHANGED vars
  BY <1>2 DEF End, Crash, Take, Expire, Authorize, Edit, Review, Approve, Archive, vars,
              PubPhase
<1>3. ASSUME NEW a \in Accounts, RequestPublication(a)
      PROVE  Contract!Next \/ UNCHANGED <<PubPhase, online>>
  <2> DEFINE p == <<current, a>>
  <2>1. p \in Pubs
    BY DEF IInv, TypeOK, Pubs
  <2>2. /\ status' = [status EXCEPT ![p] = IF @ = "absent" THEN "planned" ELSE @]
        /\ UNCHANGED online
    BY <1>3 DEF RequestPublication
  <2> HIDE DEF p
  <2>3. /\ \A o \in Pubs \ {p} : status'[o] = status[o] /\ online'[o] = online[o]
        /\ status'[p] = IF status[p] = "absent" THEN "planned" ELSE status[p]
    BY <2>1, <2>2 DEF IInv, TypeOK
  <2>4. Promised(status[p], online[p], status'[p], online'[p])
    BY <2>2, <2>3 DEF Promised, PhaseOf
  <2> QED
    BY <1>0, <2>1, <2>3, <2>4, OneRowIsContract
<1>4. ASSUME NEW a \in Accounts, MarkPublished(a) PROVE FALSE
  BY <1>4 DEF MarkPublished, HonestWorld
<1>5. ASSUME NEW p \in Pubs, NEW decision \in Decisions, Decide(p, decision)
      PROVE  Contract!Next \/ UNCHANGED <<PubPhase, online>>
  <2>1. status[p] = "ambiguous" /\ online[p] \in {0, 1} /\ UNCHANGED online
    BY <1>5 DEF Decide, IInv, RowsInv, RowOk
  <2>2. /\ \A o \in Pubs \ {p} : status'[o] = status[o]
        /\ \/ status'[p] = "published" /\ online[p] = 1
           \/ status'[p] = "planned" /\ online[p] = 0
           \/ status'[p] = "cancelled"
    BY <1>5, <2>1 DEF Decide, IInv, TypeOK
  <2>3. Promised(status[p], online[p], status'[p], online'[p])
    BY <2>1, <2>2 DEF Promised, PhaseOf
  <2> QED
    BY <1>0, <2>1, <2>2, <2>3, OneRowIsContract
<1> QED
  BY <1>1, <1>2, <1>3, <1>4, <1>5 DEF Next

\* To whoever requests it, a publication is PublicationContract: it posts only
\* while it is pending and nothing is online, is done only when something is,
\* and leaves doubt through the truth or a human, for every number of versions,
\* accounts, workers and crashes.
THEOREM PublicationImplementsContract ==
    ASSUME HonestWorld PROVE Spec => ImplementsContract
<1>1. Init => IInv /\ Contract!Init
  <2> SUFFICES ASSUME Init PROVE Contract!Init
    BY InitInv
  <2>1. PubPhase = [p \in Pubs |-> "absent"]
    BY DEF Init, PubPhase, PhaseOf
  <2> QED
    BY <2>1 DEF Init, Contract!Init
<1>2. IInv /\ [Next]_vars => IInv'
  BY NextInv
<1>3. IInv /\ [Next]_vars => [Contract!Next]_(Contract!vars)
  BY StepIsContract DEF Contract!vars
<1> QED
  BY <1>1, <1>2, <1>3, PTL DEF Spec, ImplementsContract, Contract!Spec

------------------------------------------------------------------------------
(* The item that is declared published.                                    *)

\* While an item is published no row becomes unsettled: no job runs on a
\* settled row, nobody requests a publication and nobody waits for a decision.
LEMMA RowsStaySettled ==
    ASSUME HonestWorld, IInv, [Next]_vars, state = "published", PublishedMeansSettled,
           NEW p \in Pubs
    PROVE  status'[p] \in Settled \cup {"absent"}
<1>0. status[p] \in Settled \cup {"absent"}
  BY DEF PublishedMeansSettled
<1>1. ASSUME NEW r \in Runners, Step(r), ~End(r)
      PROVE  status'[p] \in Settled \cup {"absent"}
  <2>1. CASE on[r] = p
    <3>1. status[p] # "absent"
      BY <1>1, <2>1, HandlerIsLocal, Facts DEF Local, RunOk
    <3> QED
      BY <1>0, <1>1, <2>1, <3>1, HandlerIsLocal DEF Sound
  <2>2. CASE on[r] # p
    BY <1>0, <1>1, <2>2, HandlerIsLocal DEF Local
  <2> QED
    BY <2>1, <2>2
<1>2. CASE \/ \E r \in Runners : End(r) \/ Crash(r)
           \/ \E r \in Runners, o \in Pubs : Take(r, o)
           \/ \E o \in Pubs : Expire(o)
           \/ \E a \in Accounts : Authorize(a)
           \/ Edit \/ Review \/ Approve \/ Archive \/ UNCHANGED vars
  BY <1>0, <1>2 DEF End, Crash, Take, Expire, Authorize, Edit, Review, Approve, Archive, vars
<1>3. ASSUME NEW a \in Accounts, RequestPublication(a) \/ MarkPublished(a) PROVE FALSE
  BY <1>3 DEF RequestPublication, ApprovedNow, MarkPublished, HonestWorld
<1>4. ASSUME NEW o \in Pubs, NEW decision \in Decisions, Decide(o, decision) PROVE FALSE
  <2>1. status[o] = "ambiguous"
    BY <1>4 DEF Decide, IInv, RowsInv, RowOk
  <2> QED
    BY <2>1 DEF PublishedMeansSettled, Settled
<1> QED
  BY <1>1, <1>2, <1>3, <1>4 DEF Next

\* Only onSettled declares an item published, and only when nothing is pending.
LEMMA BecomesPublished ==
    ASSUME HonestWorld, IInv, [Next]_vars, state # "published", state' = "published"
    PROVE  Unsettled = {} /\ status' = status
<1>1. ASSUME NEW r \in Runners, Settle(r) PROVE Unsettled = {} /\ status' = status
  <2>1. ItemTarget(told[r]) = "published"
    BY <1>1 DEF Settle
  <2> QED
    BY <1>1, <2>1 DEF Settle
<1>2. ASSUME NEW r \in Runners, Step(r) \/ Crash(r), ~Settle(r) PROVE FALSE
  BY <1>2 DEF Step, Load, Hold, Claim, Reject, Handover, ThrowBeforeSend, Send, Land, Answer,
              Verdict, Postpone, End, Crash
<1>3. ASSUME NEW a \in Accounts, RequestPublication(a) \/ MarkPublished(a) \/ Authorize(a)
      PROVE  FALSE
  BY <1>3 DEF RequestPublication, MarkPublished, Authorize, HonestWorld
<1>4. CASE Edit \/ Review \/ Approve \/ Archive
  BY <1>4 DEF Edit, Review, Approve, Archive, AfterRewrite
<1>5. CASE \/ \E r \in Runners, p \in Pubs : Take(r, p)
           \/ \E p \in Pubs : Expire(p)
           \/ \E p \in Pubs, decision \in Decisions : Decide(p, decision)
           \/ UNCHANGED vars
  BY <1>5 DEF Take, Expire, Decide, vars
<1> QED
  BY <1>1, <1>2, <1>3, <1>4, <1>5 DEF Next

\* An item is declared published when none of its publications, of any version
\* on any account, is still pending, and none becomes pending afterwards.
THEOREM PublishedItemIsSettled ==
    ASSUME HonestWorld PROVE Spec => []PublishedMeansSettled
<1>1. Init => IInv /\ PublishedMeansSettled
  BY InitInv DEF Init, PublishedMeansSettled
<1>2. IInv /\ [Next]_vars => IInv'
  BY NextInv
<1>3. IInv /\ PublishedMeansSettled /\ [Next]_vars => PublishedMeansSettled'
  <2> SUFFICES ASSUME IInv, PublishedMeansSettled, [Next]_vars, state' = "published",
                      NEW p \in Pubs
               PROVE  status'[p] \in Settled \cup {"absent"}
    BY DEF PublishedMeansSettled
  <2>1. CASE state = "published"
    BY <2>1, RowsStaySettled
  <2>2. CASE state # "published"
    BY <2>2, BecomesPublished DEF Unsettled
  <2> QED
    BY <2>1, <2>2
<1> QED
  BY <1>1, <1>2, <1>3, PTL DEF Spec

------------------------------------------------------------------------------
(* Leases that expire under live workers: several runners of one job.      *)

\* Nothing holds or replans a row while somebody else may be sending it: no
\* budget brake, no platform that says "absent", nobody posting by hand.
BusyWorld == ~MayHold /\ ~ByHand /\ Verifiable = {} /\ QuietReplies

Fresh == {"absent", "planned", "queued"}

\* A row nobody asked to send again has one sender at most; while it has one,
\* and once it is online, no other runner can claim it.
OneSend(p) ==
    /\ online[p] \in {0, 1}
    /\ online[p] = 1 => status[p] \notin Fresh
    /\ \A r \in Runners :
          Sending(r) /\ on[r] = p =>
             /\ status[p] \notin Fresh
             /\ pc[r] # "landed" => online[p] = 0
             /\ \A q \in Runners : Sending(q) /\ on[q] = p => q = r

BusyInv == \A p \in Pubs \ retried : OneSend(p)

\* A row that stays as it is, with the senders it has or fewer.
LEMMA NoNewSender ==
    ASSUME NEW p \in Pubs, OneSend(p), online'[p] = online[p],
           status'[p] = status[p] \/ status'[p] \notin Fresh,
           \A r \in Runners : Sending(r)' /\ on'[r] = p =>
              /\ Sending(r) /\ on[r] = p
              /\ pc'[r] = pc[r] \/ (pc[r] = "ready" /\ pc'[r] = "sending")
    PROVE  OneSend(p)'
<1>1. online'[p] = 1 => status'[p] \notin Fresh
  BY DEF OneSend
<1>2. ASSUME NEW r \in Runners, Sending(r)', on'[r] = p
      PROVE  /\ status'[p] \notin Fresh /\ (pc'[r] # "landed" => online'[p] = 0)
             /\ \A q \in Runners : Sending(q)' /\ on'[q] = p => q = r
  BY <1>2 DEF OneSend
<1> QED
  BY <1>1, <1>2 DEF OneSend

\* What a step of a handler leaves alone: every other runner and every other row.
Confined(r) ==
    /\ on' = on /\ retried' = retried
    /\ \A q \in Runners \ {r} : pc'[q] = pc[q]
    /\ \A o \in Pubs \ {on[r]} : status'[o] = status[o] /\ online'[o] = online[o]

LEMMA ConfinedStep ==
    ASSUME BusyInv, NEW r \in Runners, Confined(r),
           on[r] \in Pubs \ retried => OneSend(on[r])'
    PROVE  BusyInv'
<1> SUFFICES ASSUME NEW p \in Pubs \ retried PROVE OneSend(p)'
  BY DEF BusyInv, Confined
<1>1. CASE p = on[r]
  <2>1. p = on'[r]
    BY <1>1 DEF Confined
  <2> QED
    BY <1>1, <2>1 DEF OneSend, Sending
<1>2. CASE p # on[r]
  <2>1. OneSend(p) /\ status'[p] = status[p] /\ online'[p] = online[p]
    BY <1>2 DEF BusyInv, Confined
  <2>2. \A q \in Runners : on'[q] = p => q # r /\ pc'[q] = pc[q] /\ on[q] = p
    BY <1>2 DEF Confined
  <2> QED
    BY <2>1, <2>2, NoNewSender DEF Sending
<1> QED
  BY <1>1, <1>2

\* A runner that sends nothing, and leaves its row out of the fresh ones.
LEMMA QuietStep ==
    ASSUME BusyInv, NEW r \in Runners, Confined(r), on[r] \in Pubs,
           online'[on[r]] = online[on[r]],
           status'[on[r]] = status[on[r]] \/ status'[on[r]] \notin Fresh,
           \/ pc'[r] \notin {"ready", "sending", "landed"}
           \/ pc[r] = "ready" /\ pc'[r] = "sending"
    PROVE  BusyInv'
<1>1. ASSUME on[r] \notin retried PROVE OneSend(on[r])'
  <2>1. OneSend(on[r])
    BY <1>1 DEF BusyInv
  <2>2. \A q \in Runners : Sending(q)' /\ on'[q] = on[r] =>
           /\ Sending(q) /\ on[q] = on[r]
           /\ pc'[q] = pc[q] \/ (pc[q] = "ready" /\ pc'[q] = "sending")
    BY DEF Confined, Sending
  <2> QED
    BY <2>1, <2>2, NoNewSender DEF Confined
<1> QED
  BY <1>1, ConfinedStep

LEMMA BusyHandler ==
    ASSUME BusyWorld, TypeOK, BusyInv, NEW r \in Runners, Step(r), ~End(r)
    PROVE  BusyInv'
<1>0. /\ pc[r] # "idle" /\ on[r] \in Pubs
      /\ on[r] \notin retried => OneSend(on[r])
      /\ status \in [Pubs -> Status] /\ online \in [Pubs -> 0..2] /\ pc \in PcType
  <2>1. pc[r] # "idle"
    BY DEF Step, Load, Hold, Claim, Reject, Handover, ThrowBeforeSend, Send, Land, Answer,
           Verdict, Postpone, Settle
  <2> QED
    BY <2>1 DEF TypeOK, BusyInv, PcType
<1>1. CASE Load(r) \/ Postpone(r) \/ Settle(r) \/ Send(r)
  <2>1. /\ UNCHANGED <<on, retried, status, online>>
        /\ \A q \in Runners \ {r} : pc'[q] = pc[q]
        /\ pc'[r] \notin {"ready", "sending", "landed"} \/ (pc[r] = "ready" /\ pc'[r] = "sending")
    BY <1>0, <1>1 DEF Load, Postpone, Settle, Send, PcType
  <2> QED
    BY <1>0, <2>1, QuietStep DEF Confined
<1>2. CASE Reject(r) \/ Handover(r) \/ \E category \in Throws : ThrowBeforeSend(r, category)
  <2>1. /\ UNCHANGED <<on, retried, online>>
        /\ \A q \in Runners \ {r} : pc'[q] = pc[q]
        /\ pc'[r] \in {"settle", "end"}
        /\ \A o \in Pubs \ {on[r]} : status'[o] = status[o]
        /\ status'[on[r]] \in {status[on[r]], "failed", "manual_required"}
    BY <1>0, <1>2 DEF Reject, Handover, ThrowBeforeSend, PcType
  <2> QED
    BY <1>0, <2>1, QuietStep DEF Confined, Fresh
<1>3. ASSUME NEW verdict \in {"found", "absent", "unknown"}, Verdict(r, verdict)
      PROVE  BusyInv'
  <2>1. verdict # "absent"
    BY <1>3 DEF Verdict, Verdicts, BusyWorld
  <2>2. /\ UNCHANGED <<on, retried, online>>
        /\ \A q \in Runners \ {r} : pc'[q] = pc[q]
        /\ pc'[r] = "settle"
        /\ \A o \in Pubs \ {on[r]} : status'[o] = status[o]
        /\ status'[on[r]] \in {"published", "ambiguous"}
    BY <1>0, <1>3, <2>1 DEF Verdict, PcType
  <2> QED
    BY <1>0, <2>2, QuietStep DEF Confined, Fresh
<1>4. CASE Claim(r)
  <2>1. /\ UNCHANGED <<on, retried, online>>
        /\ \A q \in Runners \ {r} : pc'[q] = pc[q]
        /\ \A o \in Pubs \ {on[r]} : status'[o] = status[o]
    BY <1>0, <1>4 DEF Claim, PcType
  <2>2. CASE ~Claimable(on[r])
    <3>1. pc'[r] \in {"verify", "end"} /\ status' = status
      BY <1>0, <1>4, <2>2 DEF Claim, PcType
    <3> QED
      BY <1>0, <2>1, <3>1, QuietStep DEF Confined
  <2>3. CASE Claimable(on[r])
    <3>1. pc'[r] = "ready" /\ status'[on[r]] = "publishing"
      BY <1>0, <1>4, <2>3 DEF Claim, PcType
    <3>2. ASSUME on[r] \notin retried PROVE OneSend(on[r])'
      <4>1. /\ online[on[r]] = 0
            /\ \A q \in Runners : on[q] = on[r] => ~Sending(q)
        BY <1>0, <2>3, <3>2 DEF OneSend, Claimable, Fresh
      <4>2. \A q \in Runners : Sending(q)' /\ on'[q] = on[r] => q = r
        BY <2>1, <4>1 DEF Sending
      <4> QED
        BY <2>1, <3>1, <4>1, <4>2 DEF OneSend, Fresh
    <3> QED
      BY <2>1, <3>2, ConfinedStep DEF Confined
  <2> QED
    BY <2>2, <2>3
<1>5. CASE Land(r)
  <2>1. /\ UNCHANGED <<on, retried, status>>
        /\ \A q \in Runners \ {r} : pc'[q] = pc[q]
        /\ \A o \in Pubs \ {on[r]} : online'[o] = online[o]
        /\ pc[r] = "sending" /\ pc'[r] = "landed"
        /\ online'[on[r]] = online[on[r]] \/
             online'[on[r]] = IF online[on[r]] = 0 THEN 1 ELSE 2
    BY <1>0, <1>5 DEF Land, PcType
  <2>2. ASSUME on[r] \notin retried PROVE OneSend(on[r])'
    <3>1. /\ status'[on[r]] \notin Fresh /\ online'[on[r]] \in {0, 1}
          /\ \A q \in Runners : Sending(q) /\ on[q] = on[r] => q = r
      BY <1>0, <2>1, <2>2 DEF OneSend, Sending
    <3>2. \A q \in Runners : Sending(q)' /\ on'[q] = on[r] => q = r
      BY <2>1, <3>1 DEF Sending
    <3> QED
      BY <2>1, <3>1, <3>2 DEF OneSend
  <2> QED
    BY <2>1, <2>2, ConfinedStep DEF Confined
<1>6. ASSUME NEW event \in Wire, Answer(r, event) PROVE BusyInv'
  <2>1. /\ UNCHANGED <<on, retried, online>>
        /\ \A q \in Runners \ {r} : pc'[q] = pc[q]
        /\ pc'[r] \in {"settle", "verify", "postpone", "end"}
        /\ \A o \in Pubs \ {on[r]} : status'[o] = status[o]
    BY <1>0, <1>6 DEF Answer, PcType
  <2>2. CASE Reaction(r, event) \in {"postpone", "retry_transient"}
    <3>1. pc[r] = "sending"
      BY <1>6, <2>2, LandedReaction DEF Answer, BusyWorld
    <3>2. ASSUME on[r] \notin retried PROVE OneSend(on[r])'
      <4>1. /\ online[on[r]] = 0
            /\ \A q \in Runners : Sending(q) /\ on[q] = on[r] => q = r
        BY <1>0, <3>1, <3>2 DEF OneSend, Sending
      <4>2. \A q \in Runners : ~(Sending(q)' /\ on'[q] = on[r])
        BY <2>1, <4>1 DEF Sending
      <4> QED
        BY <2>1, <4>1, <4>2 DEF OneSend
    <3> QED
      BY <2>1, <3>2, ConfinedStep DEF Confined
  <2>3. CASE Reaction(r, event) \notin {"postpone", "retry_transient"}
    <3>1. status'[on[r]] \in {status[on[r]], "published", "manual_required", "failed"}
      BY <1>0, <1>6, <2>3 DEF Answer
    <3> QED
      BY <1>0, <2>1, <3>1, QuietStep DEF Confined, Fresh
  <2> QED
    BY <2>2, <2>3
<1>7. ASSUME Hold(r) PROVE FALSE
  BY <1>7 DEF Hold, BusyWorld
<1> QED
  BY <1>1, <1>2, <1>3, <1>4, <1>5, <1>6, <1>7 DEF Step

LEMMA BusyStep == BusyWorld /\ TypeOK /\ BusyInv /\ [Next]_vars => BusyInv'
<1> SUFFICES ASSUME BusyWorld, TypeOK, BusyInv, [Next]_vars PROVE BusyInv'
  OBVIOUS
<1>0. /\ pc \in PcType /\ status \in [Pubs -> Status] /\ online \in [Pubs -> 0..2]
      /\ current \in 1..MaxVersions /\ on \in [Runners -> Pubs \cup {None}]
  BY DEF TypeOK, PcType
<1>1. ASSUME UNCHANGED <<status, online, retried>>,
             \A r \in Runners : Sending(r)' => pc'[r] = pc[r] /\ on'[r] = on[r]
      PROVE  BusyInv'
  BY <1>1, NoNewSender DEF BusyInv, Sending
<1>2. ASSUME NEW r \in Runners, End(r) \/ Crash(r) PROVE BusyInv'
  <2>1. /\ UNCHANGED <<status, online, retried>> /\ pc'[r] = "idle"
        /\ \A q \in Runners \ {r} : pc'[q] = pc[q] /\ on'[q] = on[q]
    BY <1>0, <1>2 DEF End, Crash, PcType
  <2> QED
    BY <1>1, <2>1 DEF Sending
<1>3. ASSUME NEW r \in Runners, NEW p \in Pubs, Take(r, p) PROVE BusyInv'
  <2>1. /\ UNCHANGED <<status, online, retried>> /\ pc'[r] = "load"
        /\ \A q \in Runners \ {r} : pc'[q] = pc[q] /\ on'[q] = on[q]
    BY <1>0, <1>3 DEF Take, PcType
  <2> QED
    BY <1>1, <2>1 DEF Sending
<1>4. CASE \/ \E p \in Pubs : Expire(p)
           \/ \E a \in Accounts : Authorize(a)
           \/ Edit \/ Review \/ Approve \/ Archive \/ UNCHANGED vars
  <2>1. UNCHANGED <<status, online, retried, pc, on>>
    BY <1>4 DEF Expire, Authorize, Edit, Review, Approve, Archive, vars
  <2> QED
    BY <1>1, <2>1
<1>5. ASSUME NEW a \in Accounts, RequestPublication(a) PROVE BusyInv'
  <2> DEFINE p == <<current, a>>
  <2>1. p \in Pubs
    BY <1>0 DEF Pubs
  <2>2. /\ status' = [status EXCEPT ![p] = IF @ = "absent" THEN "planned" ELSE @]
        /\ UNCHANGED <<online, retried, pc, on>>
    BY <1>5 DEF RequestPublication
  <2> HIDE DEF p
  <2>3. ASSUME NEW o \in Pubs \ retried PROVE OneSend(o)'
    <3>1. OneSend(o)
      BY DEF BusyInv
    <3>2. status'[o] = status[o] \/ (status[o] \in Fresh /\ status'[o] \in Fresh)
      BY <1>0, <2>1, <2>2 DEF Fresh
    <3> QED
      BY <2>2, <3>1, <3>2 DEF OneSend, Sending
  <2> QED
    BY <2>2, <2>3 DEF BusyInv
<1>6. ASSUME NEW a \in Accounts, MarkPublished(a) PROVE FALSE
  BY <1>6 DEF MarkPublished, BusyWorld
<1>7. ASSUME NEW p \in Pubs, NEW decision \in Decisions, Decide(p, decision) PROVE BusyInv'
  <2>1. /\ UNCHANGED <<online, pc, on>> /\ retried \subseteq retried'
        /\ \A o \in Pubs \ {p} : status'[o] = status[o]
        /\ p \in retried' \/ status'[p] \in {"published", "cancelled"}
    BY <1>0, <1>7 DEF Decide
  <2>2. ASSUME NEW o \in Pubs \ retried' PROVE OneSend(o)'
    <3>1. OneSend(o)
      BY <2>1 DEF BusyInv
    <3>2. status'[o] = status[o] \/ status'[o] \notin Fresh
      BY <2>1 DEF Fresh
    <3> QED
      BY <2>1, <3>1, <3>2, NoNewSender DEF Sending
  <2> QED
    BY <2>2 DEF BusyInv
<1>8. CASE \E r \in Runners : Step(r) \/ Crash(r)
  BY <1>2, <1>8, BusyHandler
<1> QED
  BY <1>3, <1>4, <1>5, <1>6, <1>7, <1>8 DEF Next

\* Even when a job has several runners at once, because its lease expired under
\* a live worker, a version is posted twice only where a human asked for it: the
\* conditional claim of the row, not the lease, is what keeps senders apart.
THEOREM DuplicateIsAskedFor == ASSUME BusyWorld PROVE Spec => []DuplicateNeedsRetry
<1>1. Init => TypeOK /\ BusyInv
  <2>1. Init => BusyInv
    BY DEF Init, BusyInv, OneSend, Sending
  <2> QED
    BY <2>1, InitType
<1>2. TypeOK /\ BusyInv /\ [Next]_vars => (TypeOK /\ BusyInv)'
  BY NextType, BusyStep
<1>3. TypeOK /\ BusyInv => DuplicateNeedsRetry
  BY DEF BusyInv, OneSend, DuplicateNeedsRetry
<1> QED
  BY <1>1, <1>2, <1>3, PTL DEF Spec
==============================================================================

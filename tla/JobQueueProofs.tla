---------------------------- MODULE JobQueueProofs ---------------------------
(***************************************************************************)
(* Proofs about the job queue, for every set of jobs and workers, every    *)
(* lease, delay and batch size.                                            *)
(***************************************************************************)
EXTENDS JobQueueProps, TLAPS

(* Between the SELECT and the UPDATE of a claim another worker may run and
   retry the selected job: delays are honoured by a worker that is alone.  *)
Alone == \A v, w \in Workers : v = w

(* What one row must satisfy for the invariants to be inductive: a queued
   row is out of reach for as long as its embargo, whichever of the two
   timestamps the next turn of the loop looks at.                          *)
RowInv(row, max, back, hold) ==
    /\ row.status = "running" <=> row.worker # None
    /\ row.status = "running" <=> row.lease # None
    /\ row.attempt <= max + back
    /\ row.status = "queued" => row.attempt < max + back
    /\ Alone => /\ row.status = "running" => hold = 0
                /\ row.status = "queued" => hold = 0 \/ (hold <= row.wait /\ hold <= row.due)

RowsInv == \A j \in Jobs : RowInv(jobs[j], MaxAttempts[j], returned[j], embargo[j])

\* What the claim of a worker that is alone selected is still out of embargo.
Selected(w) ==
    pc[w] = "take" =>
        \A j \in held[w] : /\ jobs[j].status # "absent"
                           /\ Alone /\ jobs[j].status = "queued" => embargo[j] = 0

SelectedInv == \A w \in Workers : Selected(w)

Core == TypeOK /\ RowsInv /\ OneActivePerKey

IInv == Core /\ SelectedInv

(* Each statement of the repository, applied to a row that satisfies the
   invariant, gives such a row.                                            *)
LEMMA InsertedRow ==
    ASSUME NEW n \in Nat, NEW m \in Nat \ {0, 1}, NEW b \in Nat
    PROVE  Inserted(n) \in Row /\ RowInv(Inserted(n), m, b, n)
BY ConstantsAssumption DEF Inserted, RowOf, Row, RowInv, Active, Terminal

LEMMA FreedRow ==
    ASSUME NEW r \in Row, NEW m \in Nat, NEW b \in Nat, NEW h \in Nat,
           RowInv(r, m, b, h), NEW c \in Categories, NEW s \in Terminal
    PROVE  /\ Completed(r) \in Row /\ RowInv(Completed(r), m, b, h)
           /\ MarkedFailed(r, s, c) \in Row /\ RowInv(MarkedFailed(r, s, c), m, b, h)
BY ConstantsAssumption DEF Completed, MarkedFailed, RowOf, Row, RowInv, Active, Terminal

LEMMA RetriedRow ==
    ASSUME NEW r \in Row, NEW m \in Nat, NEW b \in Nat, NEW h \in Nat,
           RowInv(r, m, b, h), NEW c \in Categories, NEW n \in Nat,
           r.attempt < m + b
    PROVE  MarkedForRetry(r, n, c) \in Row /\ RowInv(MarkedForRetry(r, n, c), m, b, n)
BY ConstantsAssumption DEF MarkedForRetry, RowOf, Row, RowInv, Active, Terminal

LEMMA RequeuedRow ==
    ASSUME NEW r \in Row, NEW m \in Nat, NEW b \in Nat, NEW h \in Nat,
           RowInv(r, m, b, h), r.status = "running"
    PROVE  Requeued(r) \in Row /\ RowInv(Requeued(r), m, b + 1, h)
<1>1. Requeued(r) \in Row
  BY DEF Requeued, RowOf, Row, Active, Terminal
<1>2. r.attempt \in Nat /\ r.attempt <= m + b /\ (Alone => h = 0)
  BY DEF Row, RowInv
<1>3. RowInv(Requeued(r), m, b + 1, h)
  BY <1>2 DEF Requeued, RowOf, RowInv
<1> QED
  BY <1>1, <1>3

LEMMA PromotedRow ==
    ASSUME NEW r \in Row, NEW m \in Nat, NEW b \in Nat, NEW h \in Nat,
           RowInv(r, m, b, h), r.status = "queued", r.due <= 0
    PROVE  Promoted(r) \in Row /\ RowInv(Promoted(r), m, b, h)
BY ConstantsAssumption DEF Promoted, RowOf, Row, RowInv, Active, Terminal

LEMMA ProlongedRow ==
    ASSUME NEW r \in Row, NEW m \in Nat, NEW b \in Nat, NEW h \in Nat,
           RowInv(r, m, b, h), r.status = "running", NEW l \in Nat
    PROVE  Prolonged(r, l) \in Row /\ RowInv(Prolonged(r, l), m, b, h)
BY ConstantsAssumption DEF Prolonged, RowOf, Row, RowInv, Active, Terminal

LEMMA AgedRow ==
    ASSUME NEW r \in Row, NEW m \in Nat, NEW b \in Nat, NEW h \in Nat,
           RowInv(r, m, b, h)
    PROVE  Aged(r) \in Row /\ RowInv(Aged(r), m, b, Sooner(h))
<1>1. /\ Older(r.wait) \in Int /\ Older(r.due) \in Int
      /\ Sooner(r.lease) \in Nat \cup {None}
      /\ r.lease # None <=> Sooner(r.lease) # None
  BY ConstantsAssumption DEF Row, Older, Sooner
<1>2. Aged(r) \in Row
  BY <1>1 DEF Aged, RowOf, Row
<1>3. h <= r.wait /\ h <= r.due =>
          Sooner(h) = 0 \/ (Sooner(h) <= Older(r.wait) /\ Sooner(h) <= Older(r.due))
  BY ConstantsAssumption DEF Row, Older, Sooner
<1>4. h = 0 => Sooner(h) = 0
  BY DEF Sooner
<1>5. RowInv(Aged(r), m, b, Sooner(h))
  BY <1>1, <1>3, <1>4 DEF Aged, RowOf, Row, RowInv
<1> QED
  BY <1>2, <1>5

\* An observer that goes on alone never blocks a row it does not govern.
LEMMA IdleRow ==
    ASSUME NEW r \in Row, NEW m \in Nat, NEW b \in Nat, NEW h \in Nat,
           RowInv(r, m, b, h), r.status \notin Active
    PROVE  RowInv(r, m, b, Sooner(h))
BY DEF RowInv, Active, Sooner

LEMMA ClaimedRow ==
    ASSUME NEW w \in Workers, NEW j \in Jobs, NEW b \in Nat, NEW h \in Nat,
           jobs[j] \in Row, jobs[j].status = "queued",
           RowInv(jobs[j], MaxAttempts[j], b, h), Alone => h = 0
    PROVE  /\ Claimed(j, w) \in Row
           /\ RowInv(Claimed(j, w), MaxAttempts[j], b, h)
           /\ Claimed(j, w).status = "running"
<1> DEFINE r == jobs[j]
<1>1. r \in Row /\ MaxAttempts[j] \in Nat /\ JobLease[j] \in Nat
  BY ConstantsAssumption
<1> HIDE DEF r
<1>2. Claimed(j, w) = RowOf("running", r.attempt + 1, r.wait, r.due,
          IF JobLease[j] > QueueLease THEN JobLease[j] ELSE QueueLease, w, r.error)
  BY DEF Claimed, r
<1>3. r.status = "queued" /\ RowInv(r, MaxAttempts[j], b, h)
  BY DEF r
<1> QED
  BY <1>1, <1>2, <1>3, ConstantsAssumption DEF RowOf, Row, RowInv, Active, Terminal

\* What the UPDATE of a claim makes of a selected row, whatever it has become.
LEMMA TakenRow ==
    ASSUME NEW w \in Workers, NEW j \in Jobs, NEW b \in Nat, NEW h \in Nat,
           jobs[j] \in Row, RowInv(jobs[j], MaxAttempts[j], b, h),
           Alone /\ jobs[j].status = "queued" => h = 0
    PROVE  /\ Taken(j, w) \in Row
           /\ RowInv(Taken(j, w), MaxAttempts[j], b, h)
           /\ Taken(j, w).status \in Active => jobs[j].status \in Active
<1>1. MaxAttempts[j] \in Nat /\ JobLease[j] \in Nat
  BY ConstantsAssumption
<1>2. CASE jobs[j].status = "queued"
  BY <1>2, ClaimedRow DEF Taken, Active
<1>3. CASE jobs[j].status = "running"
  <2>1. /\ Prolonged(jobs[j], JobLease[j]) \in Row
        /\ RowInv(Prolonged(jobs[j], JobLease[j]), MaxAttempts[j], b, h)
    BY <1>1, <1>3, ProlongedRow
  <2> QED
    BY <1>3, <2>1 DEF Taken, Active
<1>4. CASE jobs[j].status \notin {"queued", "running"}
  BY <1>4 DEF Taken
<1> QED
  BY <1>2, <1>3, <1>4

(* How a step that rewrites one row, or several, keeps the invariants of the
   table; the lemmas below are about the table only.                       *)
LEMMA OneRow ==
    ASSUME TypeOK, RowsInv, NEW j \in Jobs, NEW r \in Row,
           jobs' = [jobs EXCEPT ![j] = r],
           RowInv(r, MaxAttempts[j], returned'[j], embargo'[j]),
           \A i \in Jobs \ {j} : returned'[i] = returned[i] /\ embargo'[i] = embargo[i]
    PROVE  jobs' \in [Jobs -> Row] /\ RowsInv'
BY DEF TypeOK, RowsInv

LEMMA NoNewActive ==
    ASSUME OneActivePerKey,
           \A j \in Jobs : jobs'[j].status \in Active => jobs[j].status \in Active
    PROVE  OneActivePerKey'
BY DEF OneActivePerKey

LEMMA IndexKept ==
    ASSUME OneActivePerKey, NEW j \in Jobs, IndexAllows(j),
           \A i \in Jobs \ {j} : jobs'[i] = jobs[i]
    PROVE  OneActivePerKey'
<1> SUFFICES ASSUME NEW a \in Jobs, NEW b \in Jobs, a # b,
                    DedupeKey[a] # None, DedupeKey[a] = DedupeKey[b],
                    jobs'[a].status \in Active, jobs'[b].status \in Active
             PROVE  FALSE
  BY DEF OneActivePerKey
<1>1. CASE a = j
  BY <1>1 DEF IndexAllows
<1>2. CASE b = j
  BY <1>2 DEF IndexAllows
<1>3. CASE a # j /\ b # j
  BY <1>3 DEF OneActivePerKey
<1> QED
  BY <1>1, <1>2, <1>3

LEMMA InitInv == Init => IInv
<1> SUFFICES ASSUME Init PROVE IInv
  OBVIOUS
<1>1. NoRow \in Row
  BY DEF NoRow, RowOf, Row
<1>2. TypeOK
  BY <1>1 DEF Init, TypeOK
<1>3. RowsInv
  BY ConstantsAssumption DEF Init, RowsInv, RowInv, NoRow, RowOf
<1>4. OneActivePerKey
  BY DEF Init, OneActivePerKey, NoRow, RowOf, Active
<1>5. SelectedInv
  BY DEF Init, SelectedInv, Selected
<1> QED
  BY <1>2, <1>3, <1>4, <1>5 DEF Core, IInv

LEMMA EnqueueInv ==
    ASSUME Core, NEW j \in Jobs, NEW delay \in Delays, Enqueue(j, delay)
    PROVE  Core'
<1> USE DEF Core
<1>1. delay \in Nat /\ MaxAttempts[j] \in Nat \ {0, 1} /\ returned[j] \in Nat
  BY ConstantsAssumption DEF TypeOK
<1>2. Inserted(delay) \in Row /\ RowInv(Inserted(delay), MaxAttempts[j], returned[j], delay)
  BY <1>1, InsertedRow
<1>3. jobs' \in [Jobs -> Row] /\ RowsInv'
  BY <1>1, <1>2, OneRow DEF Enqueue, TypeOK
<1>4. TypeOK'
  BY <1>1, <1>3 DEF Enqueue, TypeOK, workerVars
<1>5. OneActivePerKey'
  BY IndexKept DEF Enqueue, TypeOK
<1> QED
  BY <1>3, <1>4, <1>5

LEMMA CancelInv ==
    ASSUME Core, NEW j \in Jobs, Cancel(j)
    PROVE  Core'
<1> USE DEF Core
<1> DEFINE r == MarkedFailed(jobs[j], "cancelled", "conflict")
<1>1. /\ jobs[j] \in Row /\ MaxAttempts[j] \in Nat /\ returned[j] \in Nat /\ embargo[j] \in Nat
      /\ RowInv(jobs[j], MaxAttempts[j], returned[j], embargo[j])
  BY ConstantsAssumption DEF TypeOK, RowsInv
<1>2. r \in Row /\ RowInv(r, MaxAttempts[j], returned[j], embargo[j])
  BY <1>1, FreedRow DEF Terminal, Categories
<1>3. jobs' \in [Jobs -> Row] /\ RowsInv'
  BY <1>2, OneRow DEF Cancel, TypeOK
<1>4. TypeOK'
  BY <1>3 DEF Cancel, TypeOK, workerVars
<1>5. OneActivePerKey'
  BY NoNewActive DEF Cancel, TypeOK, MarkedFailed, RowOf, Active
<1> QED
  BY <1>3, <1>4, <1>5

\* The steps of a worker that leave the table and its observers as they are.
LEMMA SameTable ==
    ASSUME Core, UNCHANGED <<jobs, embargo, returned>>
    PROVE  jobs' \in [Jobs -> Row] /\ RowsInv' /\ OneActivePerKey'
BY DEF Core, TypeOK, RowsInv, OneActivePerKey

LEMMA ProcessInv ==
    ASSUME Core, NEW w \in Workers,
           Start(w) \/ RequestStop(w) \/ Exit(w) \/ Crash(w)
    PROVE  Core'
<1>1. jobs' \in [Jobs -> Row] /\ RowsInv' /\ OneActivePerKey'
  BY SameTable DEF Start, RequestStop, Exit, Crash, Vanish
<1>2. CASE Start(w)
  BY <1>1, <1>2 DEF Core, TypeOK, Start
<1>3. CASE RequestStop(w)
  BY <1>1, <1>3 DEF Core, TypeOK, RequestStop
<1>4. CASE Exit(w) \/ Crash(w)
  <2>1. TypeOK'
    BY <1>1, <1>4 DEF Core, TypeOK, Exit, Crash, Vanish
  <2> QED
    BY <1>1, <2>1 DEF Core
<1> QED
  BY <1>2, <1>3, <1>4

\* The two SELECTs of a turn of the loop write nothing.
LEMMA SelectInv ==
    ASSUME Core, NEW w \in Workers, SelectExpired(w) \/ Select(w)
    PROVE  Core'
<1>1. jobs' \in [Jobs -> Row] /\ RowsInv' /\ OneActivePerKey'
  BY SameTable DEF SelectExpired, Select
<1>2. CASE SelectExpired(w)
  <2>1. TypeOK'
    BY <1>1, <1>2 DEF Core, TypeOK, SelectExpired
  <2> QED
    BY <1>1, <2>1 DEF Core
<1>3. CASE Select(w)
  <2>1. PICK B \in Batches(w) :
          /\ held' = [held EXCEPT ![w] = B]
          /\ IF B = {}
             THEN /\ pc' = [pc EXCEPT ![w] = "idle"]
                  /\ timer' = [timer EXCEPT ![w] = PollEvery]
             ELSE pc' = [pc EXCEPT ![w] = "take"] /\ UNCHANGED timer
    BY <1>3 DEF Select
  <2>2. B \subseteq Jobs
    BY DEF Batches, Eligible
  <2>3. TypeOK'
    BY <1>1, <1>3, <2>1, <2>2, ConstantsAssumption DEF Core, TypeOK, Select
  <2> QED
    BY <1>1, <2>3 DEF Core
<1> QED
  BY <1>2, <1>3

LEMMA ReclaimInv ==
    ASSUME Core, NEW w \in Workers, ReclaimExpired(w)
    PROVE  Core'
<1> USE DEF Core
<1>1. ASSUME NEW j \in Jobs
      PROVE  /\ jobs'[j] \in Row
             /\ returned'[j] \in Nat
             /\ RowInv(jobs'[j], MaxAttempts[j], returned'[j], embargo'[j])
             /\ jobs'[j].status \in Active => jobs[j].status \in Active
  <2>1. /\ jobs[j] \in Row /\ MaxAttempts[j] \in Nat /\ returned[j] \in Nat
        /\ embargo[j] \in Nat /\ embargo'[j] = embargo[j]
        /\ RowInv(jobs[j], MaxAttempts[j], returned[j], embargo[j])
    BY ConstantsAssumption DEF TypeOK, RowsInv, ReclaimExpired
  <2>2. CASE j \in held[w] /\ jobs[j].status = "running"
    <3>1. jobs'[j] = Requeued(jobs[j]) /\ returned'[j] = returned[j] + 1
      BY <2>2 DEF ReclaimExpired
    <3> QED
      BY <2>1, <2>2, <3>1, RequeuedRow DEF Active
  <2>3. CASE ~(j \in held[w] /\ jobs[j].status = "running")
    BY <2>1, <2>3 DEF ReclaimExpired
  <2> QED
    BY <2>2, <2>3
<1>2. jobs' \in [Jobs -> Row] /\ returned' \in [Jobs -> Nat]
  BY <1>1 DEF ReclaimExpired
<1>3. TypeOK'
  BY <1>2 DEF ReclaimExpired, TypeOK
<1>4. RowsInv' /\ OneActivePerKey'
  BY <1>1, NoNewActive DEF RowsInv
<1> QED
  BY <1>3, <1>4

LEMMA PromoteInv ==
    ASSUME Core, NEW w \in Workers, PromoteScheduled(w)
    PROVE  Core'
<1> USE DEF Core
<1>1. ASSUME NEW j \in Jobs
      PROVE  /\ jobs'[j] \in Row
             /\ RowInv(jobs'[j], MaxAttempts[j], returned'[j], embargo'[j])
             /\ jobs'[j].status = jobs[j].status
  <2>1. /\ jobs[j] \in Row /\ MaxAttempts[j] \in Nat /\ returned[j] \in Nat
        /\ embargo[j] \in Nat /\ embargo'[j] = embargo[j] /\ returned'[j] = returned[j]
        /\ RowInv(jobs[j], MaxAttempts[j], returned[j], embargo[j])
    BY ConstantsAssumption DEF TypeOK, RowsInv, PromoteScheduled
  <2>2. CASE Due(j)
    <3>1. /\ jobs'[j] = Promoted(jobs[j])
          /\ jobs[j].status = "queued" /\ jobs[j].due <= 0
      BY <2>2 DEF PromoteScheduled, Due
    <3>2. Promoted(jobs[j]).status = jobs[j].status
      BY DEF Promoted, RowOf
    <3> QED
      BY <2>1, <3>1, <3>2, PromotedRow
  <2>3. CASE ~Due(j)
    BY <2>1, <2>3 DEF PromoteScheduled
  <2> QED
    BY <2>2, <2>3
<1>2. jobs' \in [Jobs -> Row]
  BY <1>1 DEF PromoteScheduled
<1>3. TypeOK'
  BY <1>2 DEF PromoteScheduled, TypeOK
<1>4. RowsInv' /\ OneActivePerKey'
  BY <1>1, NoNewActive DEF RowsInv
<1> QED
  BY <1>3, <1>4

LEMMA ClaimInv ==
    ASSUME Core, NEW w \in Workers, Selected(w), Claim(w)
    PROVE  Core'
<1> USE DEF Core
<1>1. ASSUME NEW j \in Jobs
      PROVE  /\ jobs'[j] \in Row
             /\ RowInv(jobs'[j], MaxAttempts[j], returned'[j], embargo'[j])
             /\ jobs'[j].status \in Active => jobs[j].status \in Active
  <2>1. /\ jobs[j] \in Row /\ MaxAttempts[j] \in Nat /\ returned[j] \in Nat
        /\ embargo[j] \in Nat /\ embargo'[j] = embargo[j] /\ returned'[j] = returned[j]
        /\ RowInv(jobs[j], MaxAttempts[j], returned[j], embargo[j])
    BY ConstantsAssumption DEF TypeOK, RowsInv, Claim
  <2>2. CASE j \notin held[w]
    BY <2>1, <2>2 DEF Claim
  <2>3. CASE j \in held[w]
    <3>1. Alone /\ jobs[j].status = "queued" => embargo[j] = 0
      BY <2>3 DEF Selected, Claim
    <3>2. /\ Taken(j, w) \in Row
          /\ RowInv(Taken(j, w), MaxAttempts[j], returned[j], embargo[j])
          /\ Taken(j, w).status \in Active => jobs[j].status \in Active
      BY <2>1, <3>1, TakenRow
    <3>3. /\ MarkedFailed(Taken(j, w), "failed", "validation") \in Row
          /\ RowInv(MarkedFailed(Taken(j, w), "failed", "validation"),
                    MaxAttempts[j], returned[j], embargo[j])
          /\ MarkedFailed(Taken(j, w), "failed", "validation").status \notin Active
      BY <2>1, <3>2, FreedRow DEF Terminal, Categories, Active, MarkedFailed, RowOf
    <3> QED
      BY <2>1, <2>3, <3>2, <3>3 DEF Claim
  <2> QED
    BY <2>2, <2>3
<1>2. jobs' \in [Jobs -> Row]
  BY <1>1 DEF Claim
<1>3. TypeOK'
  BY <1>2, ConstantsAssumption DEF Claim, TypeOK
<1>4. RowsInv' /\ OneActivePerKey'
  BY <1>1, NoNewActive DEF RowsInv
<1> QED
  BY <1>3, <1>4

LEMMA RunInv ==
    ASSUME Core, NEW w \in Workers, NEW j \in Jobs, Run(w, j)
    PROVE  Core'
<1>1. jobs' \in [Jobs -> Row] /\ RowsInv' /\ OneActivePerKey'
  BY SameTable DEF Run
<1>2. TypeOK'
  BY <1>1, ConstantsAssumption DEF Core, TypeOK, Run
<1> QED
  BY <1>1, <1>2 DEF Core

LEMMA ReleaseInv ==
    ASSUME Core, NEW w \in Workers, NEW j \in Jobs, Release(w, j)
    PROVE  Core'
<1> USE DEF Core
<1>1. CASE jobs[j].status = "running"
  <2>1. /\ jobs[j] \in Row /\ MaxAttempts[j] \in Nat /\ returned[j] \in Nat
        /\ embargo[j] \in Nat /\ RowInv(jobs[j], MaxAttempts[j], returned[j], embargo[j])
    BY ConstantsAssumption DEF TypeOK, RowsInv
  <2>2. /\ jobs' = [jobs EXCEPT ![j] = Requeued(jobs[j])]
        /\ returned' = [returned EXCEPT ![j] = @ + 1]
        /\ embargo' = embargo
    BY <1>1 DEF Release
  <2>3. /\ Requeued(jobs[j]) \in Row
        /\ RowInv(Requeued(jobs[j]), MaxAttempts[j], returned[j] + 1, embargo[j])
    BY <1>1, <2>1, RequeuedRow
  <2>4. /\ returned' \in [Jobs -> Nat] /\ returned'[j] = returned[j] + 1
        /\ \A i \in Jobs \ {j} : returned'[i] = returned[i]
    BY <2>1, <2>2 DEF TypeOK
  <2>5. jobs' \in [Jobs -> Row] /\ RowsInv'
    BY <2>2, <2>3, <2>4, OneRow
  <2>6. OneActivePerKey'
    BY <1>1, <2>2, NoNewActive DEF TypeOK, Active
  <2>7. TypeOK'
    BY <2>4, <2>5 DEF Release, TypeOK
  <2> QED
    BY <2>5, <2>6, <2>7
<1>2. CASE jobs[j].status # "running"
  <2>1. jobs' \in [Jobs -> Row] /\ RowsInv' /\ OneActivePerKey'
    BY <1>2, SameTable DEF Release
  <2>2. TypeOK'
    BY <1>2, <2>1 DEF Release, TypeOK
  <2> QED
    BY <2>1, <2>2
<1> QED
  BY <1>1, <1>2

\* What a worker that runs a handler knows of its job.
LEMMA CurrentRow ==
    ASSUME Core, NEW w \in Workers, pc[w] = "exec"
    PROVE  LET j == current[w] IN
             /\ j \in Jobs /\ jobs[j] \in Row /\ JobLease[j] \in Nat
             /\ MaxAttempts[j] \in Nat /\ returned[j] \in Nat /\ embargo[j] \in Nat
             /\ RowInv(jobs[j], MaxAttempts[j], returned[j], embargo[j])
BY ConstantsAssumption DEF Core, TypeOK, RowsInv

LEMMA HeartbeatInv ==
    ASSUME Core, NEW w \in Workers, Heartbeat(w)
    PROVE  Core'
<1> DEFINE j == current[w]
<1>1. /\ j \in Jobs /\ jobs[j] \in Row /\ JobLease[j] \in Nat
      /\ MaxAttempts[j] \in Nat /\ returned[j] \in Nat /\ embargo[j] \in Nat
      /\ RowInv(jobs[j], MaxAttempts[j], returned[j], embargo[j])
  BY CurrentRow DEF Heartbeat
<1> USE DEF Core
<1>2. jobs' \in [Jobs -> Row] /\ RowsInv' /\ OneActivePerKey'
  <2>1. CASE jobs[j].status = "running"
    <3>1. /\ jobs' = [jobs EXCEPT ![j] = Prolonged(jobs[j], JobLease[j])]
          /\ embargo' = embargo /\ returned' = returned
      BY <2>1 DEF Heartbeat
    <3>2. /\ Prolonged(jobs[j], JobLease[j]) \in Row
          /\ RowInv(Prolonged(jobs[j], JobLease[j]), MaxAttempts[j], returned[j], embargo[j])
      BY <1>1, <2>1, ProlongedRow
    <3>3. jobs' \in [Jobs -> Row] /\ RowsInv'
      BY <1>1, <3>1, <3>2, OneRow
    <3>4. OneActivePerKey'
      BY <1>1, <2>1, <3>1, NoNewActive DEF TypeOK, Active
    <3> QED
      BY <3>3, <3>4
  <2>2. CASE jobs[j].status # "running"
    <3>1. jobs' = jobs /\ embargo' = embargo /\ returned' = returned
      BY <1>1, <2>2 DEF Heartbeat, TypeOK
    <3> QED
      BY <3>1, SameTable
  <2> QED
    BY <2>1, <2>2
<1>3. TypeOK'
  BY <1>2, ConstantsAssumption DEF Heartbeat, TypeOK
<1> QED
  BY <1>2, <1>3

LEMMA CompleteInv ==
    ASSUME Core, NEW w \in Workers, Complete(w)
    PROVE  Core'
<1> DEFINE j == current[w]
<1>1. /\ j \in Jobs /\ jobs[j] \in Row /\ MaxAttempts[j] \in Nat
      /\ returned[j] \in Nat /\ embargo[j] \in Nat
      /\ RowInv(jobs[j], MaxAttempts[j], returned[j], embargo[j])
  BY CurrentRow DEF Complete
<1> USE DEF Core
<1>2. Completed(jobs[j]) \in Row /\ RowInv(Completed(jobs[j]), MaxAttempts[j], returned[j], embargo[j])
  BY <1>1, FreedRow DEF Terminal, Categories
<1>3. /\ jobs' = [jobs EXCEPT ![j] = Completed(jobs[j])]
      /\ embargo' = embargo /\ returned' = returned
  BY DEF Complete
<1>4. jobs' \in [Jobs -> Row] /\ RowsInv'
  BY <1>1, <1>2, <1>3, OneRow
<1>5. OneActivePerKey'
  BY <1>1, <1>3, NoNewActive DEF TypeOK, Completed, RowOf, Active
<1>6. TypeOK'
  BY <1>3, <1>4 DEF Complete, NextOfBatch, TypeOK
<1> QED
  BY <1>4, <1>5, <1>6

LEMMA FailInv ==
    ASSUME Core, NEW w \in Workers, NEW category \in Raised, Fail(w, category)
    PROVE  Core'
<1> DEFINE j == current[w]
<1> DEFINE r == MarkedFailed(jobs[j], "failed", category)
<1>1. /\ j \in Jobs /\ jobs[j] \in Row /\ MaxAttempts[j] \in Nat
      /\ returned[j] \in Nat /\ embargo[j] \in Nat
      /\ RowInv(jobs[j], MaxAttempts[j], returned[j], embargo[j])
  BY CurrentRow DEF Fail
<1> USE DEF Core
<1>2. r \in Row /\ RowInv(r, MaxAttempts[j], returned[j], embargo[j])
  BY <1>1, FreedRow, ConstantsAssumption DEF Terminal
<1>3. /\ jobs' = [jobs EXCEPT ![j] = r]
      /\ embargo' = embargo /\ returned' = returned
  BY DEF Fail
<1>4. jobs' \in [Jobs -> Row] /\ RowsInv'
  BY <1>1, <1>2, <1>3, OneRow
<1>5. OneActivePerKey'
  BY <1>1, <1>3, NoNewActive DEF TypeOK, MarkedFailed, RowOf, Active
<1>6. TypeOK'
  BY <1>3, <1>4 DEF Fail, NextOfBatch, TypeOK
<1> QED
  BY <1>4, <1>5, <1>6

(* The only place where the retry table matters: a retry is decided at an
   attempt below max_attempts, since max_attempts is at least two.         *)
LEMMA RetryBelowMax ==
    ASSUME NEW category \in Categories, NEW a \in Nat, NEW m \in Nat \ {0, 1},
           ShouldRetry(category, "decide", a, m)
    PROVE  a < m
BY DEF ShouldRetry, DecideRetry

LEMMA RetryInv ==
    ASSUME Core, NEW w \in Workers, NEW category \in Raised, NEW delay \in Delays,
           Retry(w, category, delay)
    PROVE  Core'
<1> DEFINE j == current[w]
<1> DEFINE r == MarkedForRetry(jobs[j], delay, category)
<1>1. /\ j \in Jobs /\ jobs[j] \in Row /\ MaxAttempts[j] \in Nat \ {0, 1}
      /\ returned[j] \in Nat /\ embargo[j] \in Nat
      /\ RowInv(jobs[j], MaxAttempts[j], returned[j], embargo[j])
  BY CurrentRow, ConstantsAssumption DEF Retry
<1>2. delay \in Nat /\ category \in Categories /\ PollEvery \in Nat
  BY ConstantsAssumption
<1> USE DEF Core
<1>3. CASE IndexAllows(j)
  <2>1. /\ jobs' = [jobs EXCEPT ![j] = r]
        /\ embargo' = [embargo EXCEPT ![j] = delay] /\ returned' = returned
    BY <1>3 DEF Retry
  <2>2. jobs[j].attempt \in Nat
    BY <1>1 DEF Row
  <2>3. jobs[j].attempt < MaxAttempts[j]
    BY <1>1, <1>2, <2>2, RetryBelowMax DEF Retry
  <2>4. r \in Row /\ RowInv(r, MaxAttempts[j], returned[j], delay)
    BY <1>1, <1>2, <2>2, <2>3, RetriedRow
  <2>5. /\ embargo' \in [Jobs -> Nat] /\ embargo'[j] = delay
        /\ \A i \in Jobs \ {j} : embargo'[i] = embargo[i]
    BY <1>1, <1>2, <2>1 DEF TypeOK
  <2>6. jobs' \in [Jobs -> Row] /\ RowsInv'
    BY <1>1, <2>1, <2>4, <2>5, OneRow
  <2>7. OneActivePerKey'
    BY <1>1, <1>3, <2>1, IndexKept DEF TypeOK
  <2>8. TypeOK'
    BY <1>3, <2>1, <2>5, <2>6 DEF Retry, NextOfBatch, TypeOK
  <2> QED
    BY <2>6, <2>7, <2>8
<1>4. CASE ~IndexAllows(j)
  <2>1. jobs' \in [Jobs -> Row] /\ RowsInv' /\ OneActivePerKey'
    BY <1>4, SameTable DEF Retry
  <2>2. TypeOK'
    BY <1>2, <1>4, <2>1 DEF Retry, AbandonBatch, TypeOK
  <2> QED
    BY <2>1, <2>2
<1> QED
  BY <1>3, <1>4

LEMMA TickInv == ASSUME Core, Tick PROVE Core'
<1> USE DEF Core
<1>1. ASSUME NEW j \in Jobs
      PROVE  /\ jobs'[j] \in Row
             /\ embargo'[j] \in Nat
             /\ RowInv(jobs'[j], MaxAttempts[j], returned'[j], embargo'[j])
             /\ jobs'[j].status = jobs[j].status
  <2>1. /\ jobs[j] \in Row /\ MaxAttempts[j] \in Nat /\ returned[j] \in Nat
        /\ embargo[j] \in Nat /\ embargo'[j] = Sooner(embargo[j])
        /\ returned'[j] = returned[j]
        /\ RowInv(jobs[j], MaxAttempts[j], returned[j], embargo[j])
    BY ConstantsAssumption DEF TypeOK, RowsInv, Tick
  <2>2. Sooner(embargo[j]) \in Nat
    BY <2>1 DEF Sooner
  <2>3. CASE jobs[j].status \in Active
    <3>1. jobs'[j] = Aged(jobs[j])
      BY <2>3 DEF Tick
    <3>2. Aged(jobs[j]).status = jobs[j].status
      BY DEF Aged, RowOf
    <3> QED
      BY <2>1, <2>2, <3>1, <3>2, AgedRow
  <2>4. CASE jobs[j].status \notin Active
    BY <2>1, <2>2, <2>4, IdleRow DEF Tick
  <2> QED
    BY <2>3, <2>4
<1>2. jobs' \in [Jobs -> Row] /\ embargo' \in [Jobs -> Nat]
  BY <1>1 DEF Tick
<1>3. timer' \in [Workers -> Nat]
  BY DEF Tick, TypeOK, Sooner
<1>4. TypeOK'
  BY <1>2, <1>3 DEF Tick, TypeOK
<1>5. RowsInv' /\ OneActivePerKey'
  BY <1>1, NoNewActive DEF RowsInv
<1> QED
  BY <1>4, <1>5

LEMMA CoreStep == IInv /\ [Next]_vars => Core'
<1> SUFFICES ASSUME IInv, [Next]_vars PROVE Core'
  OBVIOUS
<1> USE DEF IInv
<1>1. ASSUME NEW j \in Jobs, NEW delay \in Delays, Enqueue(j, delay) PROVE Core'
  BY <1>1, EnqueueInv
<1>2. ASSUME NEW j \in Jobs, Cancel(j) PROVE Core'
  BY <1>2, CancelInv
<1>3. ASSUME NEW w \in Workers, WorkerStep(w) PROVE Core'
  <2>1. CASE Start(w) \/ RequestStop(w) \/ Exit(w) \/ Crash(w)
    BY <2>1, ProcessInv
  <2>2. CASE LoopStep(w)
    BY <2>2, SelectInv, ReclaimInv, PromoteInv, ClaimInv DEF LoopStep, SelectedInv
  <2>3. CASE BatchStep(w)
    BY <2>3, RunInv, ReleaseInv DEF BatchStep
  <2>4. CASE Heartbeat(w)
    BY <2>4, HeartbeatInv
  <2>5. CASE HandlerEnd(w)
    BY <2>5, CompleteInv, FailInv, RetryInv DEF HandlerEnd
  <2> QED
    BY <1>3, <2>1, <2>2, <2>3, <2>4, <2>5 DEF WorkerStep
<1>4. CASE Tick
  BY <1>4, TickInv
<1>5. CASE UNCHANGED vars
  <2>1. jobs' \in [Jobs -> Row] /\ RowsInv' /\ OneActivePerKey'
    BY <1>5, SameTable DEF vars
  <2>2. TypeOK'
    BY <1>5 DEF Core, TypeOK, vars
  <2> QED
    BY <2>1, <2>2 DEF Core
<1> QED
  BY <1>1, <1>2, <1>3, <1>4, <1>5 DEF Next

\* A row once inserted stays: no step of a worker removes one.
LEMMA RowsStay ==
    ASSUME Core, NEW w \in Workers, WorkerStep(w),
           NEW j \in Jobs, jobs[j].status # "absent"
    PROVE  jobs'[j].status # "absent"
<1>1. jobs \in [Jobs -> Row]
  BY DEF Core, TypeOK
<1>2. CASE Start(w) \/ RequestStop(w) \/ Exit(w) \/ Crash(w) \/ SelectExpired(w) \/ Select(w)
  BY <1>2 DEF Start, RequestStop, Exit, Crash, Vanish, SelectExpired, Select
<1>3. CASE ReclaimExpired(w)
  BY <1>1, <1>3 DEF ReclaimExpired, Requeued, RowOf
<1>4. CASE PromoteScheduled(w)
  BY <1>1, <1>4 DEF PromoteScheduled, Promoted, RowOf
<1>5. CASE Claim(w)
  <2>1. Taken(j, w).status # "absent"
    BY DEF Taken, Claimed, Prolonged, RowOf
  <2>2. MarkedFailed(Taken(j, w), "failed", "validation").status # "absent"
    BY DEF MarkedFailed, RowOf
  <2> QED
    BY <1>5, <2>1, <2>2 DEF Claim
<1>6. CASE BatchStep(w)
  BY <1>1, <1>6 DEF BatchStep, Run, Release, Requeued, RowOf
<1>7. CASE Heartbeat(w)
  BY <1>1, <1>7 DEF Heartbeat, Prolonged, RowOf
<1>8. CASE Complete(w)
  BY <1>1, <1>8 DEF Complete, Completed, RowOf
<1>9. ASSUME NEW category \in Raised, Fail(w, category)
      PROVE  jobs'[j].status # "absent"
  BY <1>1, <1>9 DEF Fail, MarkedFailed, RowOf
<1>10. ASSUME NEW category \in Raised, NEW delay \in Delays, Retry(w, category, delay)
       PROVE  jobs'[j].status # "absent"
  BY <1>1, <1>10 DEF Retry, MarkedForRetry, RowOf
<1> QED
  BY <1>2, <1>3, <1>4, <1>5, <1>6, <1>7, <1>8, <1>9, <1>10
     DEF WorkerStep, LoopStep, HandlerEnd

\* Only Select leads a worker to its "take", and a worker moves no other one.
LEMMA OwnSteps ==
    ASSUME Core, NEW v \in Workers, WorkerStep(v)
    PROVE  /\ pc'[v] = "take" => Select(v)
           /\ \A w \in Workers \ {v} : pc'[w] = pc[w] /\ held'[w] = held[w]
<1>1. /\ pc \in [Workers -> {"down", "idle", "reclaim", "promote", "claim", "take", "run", "exec"}]
      /\ held \in [Workers -> SUBSET Jobs]
  BY DEF Core, TypeOK
<1>2. CASE Start(v) \/ RequestStop(v) \/ Exit(v) \/ Crash(v)
  BY <1>1, <1>2 DEF Start, RequestStop, Exit, Crash, Vanish
<1>3. CASE SelectExpired(v) \/ ReclaimExpired(v) \/ PromoteScheduled(v)
  BY <1>1, <1>3 DEF SelectExpired, ReclaimExpired, PromoteScheduled
<1>4. CASE Select(v)
  BY <1>1, <1>4 DEF Select
<1>5. CASE Claim(v)
  BY <1>1, <1>5 DEF Claim
<1>6. CASE BatchStep(v)
  BY <1>1, <1>6 DEF BatchStep, Run, Release
<1>7. CASE Heartbeat(v)
  BY <1>1, <1>7 DEF Heartbeat
<1>8. CASE HandlerEnd(v)
  BY <1>1, <1>8 DEF HandlerEnd, Complete, Fail, Retry, NextOfBatch, AbandonBatch
<1> QED
  BY <1>2, <1>3, <1>4, <1>5, <1>6, <1>7, <1>8 DEF WorkerStep, LoopStep

LEMMA SelectedStep == IInv /\ [Next]_vars => SelectedInv'
<1> SUFFICES ASSUME IInv, [Next]_vars, NEW w \in Workers, pc'[w] = "take",
                    NEW j \in held'[w]
             PROVE  /\ jobs'[j].status # "absent"
                    /\ Alone /\ jobs'[j].status = "queued" => embargo'[j] = 0
  BY DEF SelectedInv, Selected
<1> USE DEF IInv
<1>1. /\ jobs \in [Jobs -> Row] /\ held \in [Workers -> SUBSET Jobs]
      /\ embargo \in [Jobs -> Nat]
  BY DEF Core, TypeOK
<1>2. ASSUME pc[w] = "take", held'[w] = held[w]
      PROVE  /\ j \in Jobs /\ jobs[j].status # "absent"
             /\ Alone /\ jobs[j].status = "queued" => embargo[j] = 0
  BY <1>1, <1>2 DEF SelectedInv, Selected
<1>3. ASSUME NEW i \in Jobs, NEW delay \in Delays, Enqueue(i, delay)
      PROVE  /\ jobs'[j].status # "absent"
             /\ Alone /\ jobs'[j].status = "queued" => embargo'[j] = 0
  BY <1>1, <1>2, <1>3 DEF Enqueue, workerVars
<1>4. ASSUME NEW i \in Jobs, Cancel(i)
      PROVE  /\ jobs'[j].status # "absent"
             /\ Alone /\ jobs'[j].status = "queued" => embargo'[j] = 0
  BY <1>1, <1>2, <1>4 DEF Cancel, workerVars, MarkedFailed, RowOf
<1>5. ASSUME NEW v \in Workers, WorkerStep(v)
      PROVE  /\ jobs'[j].status # "absent"
             /\ Alone /\ jobs'[j].status = "queued" => embargo'[j] = 0
  <2>1. CASE v = w
    <3>1. Select(w)
      BY <1>5, <2>1, OwnSteps
    <3>2. PICK B \in Batches(w) : held' = [held EXCEPT ![w] = B]
      BY <3>1 DEF Select
    <3>3. j \in Eligible(w)
      BY <1>1, <3>2 DEF Batches
    <3>4. j \in Jobs /\ jobs[j].status = "queued" /\ jobs[j].wait <= 0
      BY <3>3 DEF Eligible
    <3>5. RowInv(jobs[j], MaxAttempts[j], returned[j], embargo[j])
      BY <3>4 DEF Core, RowsInv
    <3>6. jobs[j].wait \in Int /\ embargo[j] \in Nat
      BY <1>1, <3>4 DEF Row
    <3>7. Alone => embargo[j] = 0
      BY <3>4, <3>5, <3>6 DEF RowInv
    <3>8. jobs' = jobs /\ embargo' = embargo
      BY <3>1 DEF Select
    <3> QED
      BY <3>4, <3>7, <3>8
  <2>2. CASE v # w
    <3>1. pc[w] = "take" /\ held'[w] = held[w]
      BY <1>5, <2>2, OwnSteps
    <3>2. jobs'[j].status # "absent"
      BY <1>2, <1>5, <3>1, RowsStay
    <3>3. ~Alone
      BY <2>2 DEF Alone
    <3> QED
      BY <3>2, <3>3
  <2> QED
    BY <2>1, <2>2
<1>6. CASE Tick
  BY <1>6 DEF Tick, Prompt
<1>7. CASE UNCHANGED vars
  BY <1>2, <1>7 DEF vars, workerVars
<1> QED
  BY <1>3, <1>4, <1>5, <1>6, <1>7 DEF Next

LEMMA Inductive == Spec => []IInv
<1>1. IInv /\ [Next]_vars => IInv'
  BY CoreStep, SelectedStep DEF IInv
<1> QED
  BY InitInv, <1>1, PTL DEF Spec

\* Type correctness of the table, of the workers' memory and of the observers.
THEOREM TypeCorrect == Spec => []TypeOK
<1>1. IInv => TypeOK
  BY DEF IInv, Core
<1> QED
  BY Inductive, <1>1, PTL

\* No interleaving of workers, late answers, cancels and crashes leaves a row
\* running without an owner or a lease, or another row with one.
THEOREM RowsAreConsistent == Spec => []RowConsistent
<1>1. IInv => RowConsistent
  BY DEF IInv, Core, RowsInv, RowInv, RowConsistent
<1> QED
  BY Inductive, <1>1, PTL

\* At most one queued or running row per deduplication key.
THEOREM KeysAreUnique == Spec => []OneActivePerKey
<1>1. IInv => OneActivePerKey
  BY DEF IInv, Core
<1> QED
  BY Inductive, <1>1, PTL

\* Attempts are bounded by max_attempts and the returns to the queue.
THEOREM RetriesAreBounded == Spec => []RetriesBounded
<1>1. IInv => RetriesBounded
  BY DEF IInv, Core, RowsInv, RowInv, RetriesBounded
<1> QED
  BY Inductive, <1>1, PTL

\* With one worker, the documented deployment, no job runs before the delay or
\* the backoff it was given has elapsed.
THEOREM DelaysAreHonoured == Spec => [](Alone => DelayHonoured)
<1>1. IInv => (Alone => DelayHonoured)
  BY DEF IInv, Core, RowsInv, RowInv, DelayHonoured
<1> QED
  BY Inductive, <1>1, PTL

------------------------------------------------------------------------------
(* A worker that is alone knows its rows: from the SELECT of a claim to the *)
(* end of the handler, nothing but a cancel changes their status.          *)

Known(j, s) == jobs[j].status \in {s} \cup (IF j \in Cancellable THEN {"cancelled"} ELSE {})

Knows(w) ==
    /\ pc[w] = "take" => \A j \in held[w] : Known(j, "queued")
    /\ pc[w] \in {"run", "exec"} => \A j \in held[w] : Known(j, "running")
    /\ pc[w] = "exec" => Known(current[w], "running") /\ current[w] \notin held[w]

KnownInv == Alone => \A w \in Workers : Knows(w)

\* A step of the only worker, which is then at none of its rows any more.
LEMMA KnownAtRest ==
    ASSUME NEW w \in Workers, pc'[w] \notin {"take", "run", "exec"}
    PROVE  Knows(w)'
BY DEF Knows

LEMMA KnownWorkerStep ==
    ASSUME Alone, TypeOK, NEW w \in Workers, Knows(w), WorkerStep(w)
    PROVE  Knows(w)'
<1>1. /\ jobs \in [Jobs -> Row] /\ held \in [Workers -> SUBSET Jobs]
      /\ pc \in [Workers -> {"down", "idle", "reclaim", "promote", "claim", "take", "run", "exec"}]
      /\ current \in [Workers -> Jobs \cup {None}]
      /\ pc[w] = "exec" => current[w] \in Jobs
      /\ held[w] # {} => pc[w] \in {"reclaim", "take", "run", "exec"}
  BY ConstantsAssumption DEF TypeOK
<1>2. CASE Start(w) \/ Exit(w) \/ Crash(w)
  BY <1>1, <1>2, KnownAtRest DEF Start, Exit, Crash, Vanish
<1>3. CASE RequestStop(w)
  BY <1>3 DEF RequestStop, Knows, Known
<1>4. CASE SelectExpired(w) \/ ReclaimExpired(w) \/ PromoteScheduled(w)
  BY <1>1, <1>4, KnownAtRest DEF SelectExpired, ReclaimExpired, PromoteScheduled
<1>5. CASE Select(w)
  <2>1. PICK B \in Batches(w) : held' = [held EXCEPT ![w] = B]
    BY <1>5 DEF Select
  <2>2. held'[w] = B /\ B \subseteq Eligible(w) /\ jobs' = jobs
    BY <1>1, <1>5, <2>1 DEF Select, Batches
  <2>3. \A j \in held'[w] : Known(j, "queued")'
    BY <2>2 DEF Eligible, Known
  <2>4. pc'[w] \in {"idle", "take"}
    BY <1>1, <1>5 DEF Select
  <2> QED
    BY <2>3, <2>4 DEF Knows
<1>6. CASE Claim(w)
  <2>1. CASE held[w] \subseteq Unreadable
    BY <1>1, <1>6, <2>1, KnownAtRest DEF Claim
  <2>2. CASE ~(held[w] \subseteq Unreadable)
    <3>1. pc'[w] = "run" /\ held'[w] = held[w] \ Unreadable
      BY <1>1, <1>6, <2>2 DEF Claim
    <3>2. ASSUME NEW j \in held'[w] PROVE Known(j, "running")'
      <4>1. j \in Jobs /\ j \in held[w] /\ j \notin Unreadable /\ jobs'[j] = Taken(j, w)
        BY <1>1, <1>6, <3>1, <3>2 DEF Claim
      <4>2. Known(j, "queued")
        BY <1>6, <4>1 DEF Claim, Knows
      <4> QED
        BY <4>1, <4>2 DEF Known, Taken, Claimed, RowOf
    <3> QED
      BY <3>1, <3>2 DEF Knows
  <2> QED
    BY <2>1, <2>2
<1>7. CASE BatchStep(w)
  <2>1. ASSUME NEW j \in Jobs, Run(w, j) PROVE Knows(w)'
    BY <1>1, <2>1 DEF Run, Knows, Known
  <2>2. ASSUME NEW j \in Jobs, Release(w, j) PROVE Knows(w)'
    BY <1>1, <2>2 DEF Release, Knows, Known
  <2> QED
    BY <1>7, <2>1, <2>2 DEF BatchStep
<1>8. CASE Heartbeat(w)
  BY <1>1, <1>8 DEF Heartbeat, Prolonged, RowOf, Knows, Known
<1>9. CASE HandlerEnd(w)
  <2>1. CASE Complete(w)
    BY <1>1, <2>1 DEF Complete, NextOfBatch, Knows, Known
  <2>2. ASSUME NEW category \in Raised, Fail(w, category) PROVE Knows(w)'
    BY <1>1, <2>2 DEF Fail, NextOfBatch, Knows, Known
  <2>3. ASSUME NEW category \in Raised, NEW delay \in Delays, Retry(w, category, delay)
        PROVE  Knows(w)'
    BY <1>1, <2>3 DEF Retry, NextOfBatch, AbandonBatch, Knows, Known
  <2> QED
    BY <1>9, <2>1, <2>2, <2>3 DEF HandlerEnd
<1> QED
  BY <1>2, <1>3, <1>4, <1>5, <1>6, <1>7, <1>8, <1>9 DEF WorkerStep, LoopStep

LEMMA KnownStep == IInv /\ KnownInv /\ [Next]_vars => KnownInv'
<1> SUFFICES ASSUME IInv, KnownInv, [Next]_vars, Alone, NEW w \in Workers
             PROVE  Knows(w)'
  BY DEF KnownInv, Alone
<1>1. TypeOK /\ Knows(w) /\ jobs \in [Jobs -> Row] /\ held[w] \subseteq Jobs
  BY DEF IInv, Core, TypeOK, KnownInv
<1>2. pc[w] = "exec" => current[w] \in Jobs
  BY ConstantsAssumption DEF IInv, Core, TypeOK
<1>3. ASSUME NEW j \in Jobs, NEW delay \in Delays, Enqueue(j, delay) PROVE Knows(w)'
  BY <1>1, <1>2, <1>3 DEF Enqueue, workerVars, Knows, Known
<1>4. ASSUME NEW j \in Jobs, Cancel(j) PROVE Knows(w)'
  BY <1>1, <1>2, <1>4 DEF Cancel, MarkedFailed, RowOf, workerVars, Knows, Known
<1>5. ASSUME NEW v \in Workers, WorkerStep(v) PROVE Knows(w)'
  BY <1>1, <1>5, KnownWorkerStep DEF Alone
<1>6. CASE Tick
  BY <1>1, <1>2, <1>6 DEF Tick, Aged, RowOf, Knows, Known
<1>7. CASE UNCHANGED vars
  BY <1>1, <1>7 DEF vars, workerVars, Knows, Known
<1> QED
  BY <1>3, <1>4, <1>5, <1>6, <1>7 DEF Next

LEMMA RowsAreKnown == Spec => []KnownInv
<1>1. Init => KnownInv
  BY DEF Init, KnownInv, Knows
<1> QED
  BY <1>1, KnownStep, Inductive, PTL DEF Spec

\* With one worker an ambiguous outcome stays as it was recorded, whatever is
\* late, reclaimed or promoted: only a cancel may set it aside.
THEOREM AmbiguousStays == Alone => (Spec => AmbiguousIsFinal)
<1> SUFFICES ASSUME Alone PROVE Spec => AmbiguousIsFinal
  OBVIOUS
<1> DEFINE Final == \A j \in Jobs :
              jobs[j].status = "failed" /\ jobs[j].error = "ambiguous"
                  => jobs'[j] = jobs[j] \/ Cancel(j)
<1>1. IInv /\ KnownInv /\ [Next]_vars => [Final]_vars
  <2> SUFFICES ASSUME IInv, KnownInv, [Next]_vars, NEW j \in Jobs,
                      jobs[j].status = "failed", ~Cancel(j)
               PROVE  jobs'[j] = jobs[j]
    BY DEF vars
  <2>1. jobs \in [Jobs -> Row] /\ TypeOK
    BY DEF IInv, Core, TypeOK
  <2>2. ASSUME NEW i \in Jobs, NEW delay \in Delays, Enqueue(i, delay)
        PROVE  jobs'[j] = jobs[j]
    BY <2>1, <2>2 DEF Enqueue
  <2>3. ASSUME NEW i \in Jobs, Cancel(i) PROVE jobs'[j] = jobs[j]
    BY <2>1, <2>3 DEF Cancel
  <2>4. ASSUME NEW w \in Workers, WorkerStep(w) PROVE jobs'[j] = jobs[j]
    <3>1. Knows(w) /\ held[w] \subseteq Jobs
      BY <2>1 DEF KnownInv, TypeOK
    <3>2. CASE pc[w] \in {"take", "run"}
      <4>1. pc[w] = "run" => UNCHANGED jobs \/ \E i \in Jobs : Release(w, i)
        BY <2>4, <3>2 DEF WorkerStep, Start, LoopStep, SelectExpired, ReclaimExpired,
           PromoteScheduled, Select, Claim, BatchStep, Run, Heartbeat, HandlerEnd, Complete,
           Fail, Retry, RequestStop, Exit, Crash, Vanish
      <4>2. pc[w] = "take" => UNCHANGED jobs \/ Claim(w)
        BY <2>4, <3>2 DEF WorkerStep, Start, LoopStep, SelectExpired, ReclaimExpired,
           PromoteScheduled, Select, BatchStep, Run, Release, Heartbeat, HandlerEnd, Complete,
           Fail, Retry, RequestStop, Exit, Crash, Vanish
      <4>3. j \notin held[w]
        BY <3>1, <3>2 DEF Knows, Known
      <4> QED
        BY <2>1, <3>2, <4>1, <4>2, <4>3 DEF Release, Claim
    <3>3. CASE pc[w] = "exec"
      <4>1. j # current[w] /\ current[w] \in Jobs
        BY <2>1, <3>1, <3>3, ConstantsAssumption DEF Knows, Known, TypeOK
      <4> QED
        BY <2>1, <2>4, <3>3, <4>1 DEF WorkerStep, Start, LoopStep, SelectExpired,
           ReclaimExpired, PromoteScheduled, Select, Claim, BatchStep, Run, Release, Heartbeat,
           HandlerEnd, Complete, Fail, Retry, RequestStop, Exit, Crash, Vanish
    <3>4. CASE pc[w] \notin {"take", "run", "exec"}
      BY <2>1, <2>4, <3>4 DEF WorkerStep, Start, LoopStep, SelectExpired, ReclaimExpired, Due,
         PromoteScheduled, Select, Claim, BatchStep, Run, Release, Heartbeat, HandlerEnd,
         Complete, Fail, Retry, RequestStop, Exit, Crash, Vanish
    <3> QED
      BY <3>2, <3>3, <3>4
  <2>5. CASE Tick
    BY <2>1, <2>5 DEF Tick, Active
  <2>6. CASE UNCHANGED vars
    BY <2>6 DEF vars
  <2> QED
    BY <2>2, <2>3, <2>4, <2>5, <2>6 DEF Next
<1>2. [][Final]_vars => AmbiguousIsFinal
  BY DEF AmbiguousIsFinal
<1> HIDE DEF Final
<1> QED
  BY <1>1, <1>2, Inductive, RowsAreKnown, PTL DEF Spec

------------------------------------------------------------------------------
(* The refinement of JobContract, step by step.                            *)

\* The handler of the only worker, as the contract sees it.
LEMMA OnlyRunner ==
    ASSUME Alone, NEW w \in Workers
    PROVE  /\ JobRunners = [j \in Jobs |-> IF current[w] = j THEN {w} ELSE {}]
           /\ JobRunners' = [j \in Jobs |-> IF current'[w] = j THEN {w} ELSE {}]
<1>1. \A v \in Workers : v = w
  BY DEF Alone
<1>2. \A j \in Jobs : {v \in Workers : current[v] = j} = IF current[w] = j THEN {w} ELSE {}
  BY <1>1
<1>3. \A j \in Jobs : {v \in Workers : current'[v] = j} = IF current'[w] = j THEN {w} ELSE {}
  BY <1>1
<1> QED
  BY <1>2, <1>3 DEF JobRunners

\* What the submitter sees of a row is its status.
LEMMA PhaseOfRow ==
    ASSUME NEW j \in Jobs
    PROVE  /\ jobs[j].status = "absent" => JobPhase[j] = "absent"
           /\ jobs[j].status \in Active => JobPhase[j] = "pending"
           /\ jobs[j].status \in Terminal => JobPhase[j] = "settled"
           /\ jobs'[j].status = "absent" => JobPhase'[j] = "absent"
           /\ jobs'[j].status \in Active => JobPhase'[j] = "pending"
           /\ jobs'[j].status \in Terminal => JobPhase'[j] = "settled"
BY DEF JobPhase, PhaseOf, Active, Terminal

\* A step that moves no row into or out of the queue is not seen.
LEMMA PhasesStay ==
    ASSUME TypeOK,
           \A j \in Jobs : jobs'[j].status = jobs[j].status
                           \/ (jobs[j].status \in Active /\ jobs'[j].status \in Active)
    PROVE  JobPhase' = JobPhase
<1>1. \A j \in Jobs : jobs[j].status \in Active \cup Terminal \cup {"absent"}
  BY DEF TypeOK, Row
<1>2. \A j \in Jobs : JobPhase'[j] = JobPhase[j]
  BY <1>1, PhaseOfRow
<1> QED
  BY <1>2 DEF JobPhase

\* A step that moves one row.
LEMMA OnePhase ==
    ASSUME NEW i \in Jobs, \A j \in Jobs \ {i} : jobs'[j] = jobs[j]
    PROVE  JobPhase' = [JobPhase EXCEPT ![i] = JobPhase'[i]]
<1>1. DOMAIN JobPhase = Jobs /\ DOMAIN JobPhase' = Jobs
  BY DEF JobPhase
<1>2. \A j \in Jobs \ {i} : JobPhase'[j] = JobPhase[j]
  BY DEF JobPhase
<1>3. JobPhase = [j \in Jobs |-> JobPhase[j]] /\ JobPhase' = [j \in Jobs |-> JobPhase'[j]]
  BY DEF JobPhase
<1> QED
  BY <1>1, <1>2, <1>3

LEMMA HandlerEndStep ==
    ASSUME Alone, TypeOK, NEW w \in Workers, Knows(w), Cancellable = {}, HandlerEnd(w)
    PROVE  Contract!Next
<1> DEFINE j == current[w]
<1>1. /\ jobs \in [Jobs -> Row] /\ current \in [Workers -> Jobs \cup {None}]
      /\ pc[w] = "exec" /\ j \in Jobs /\ j # None /\ current'[w] = None
      /\ None \notin Jobs
  BY ConstantsAssumption DEF TypeOK, HandlerEnd, Complete, Fail, Retry, NextOfBatch, AbandonBatch
<1>2. jobs[j].status = "running"
  BY <1>1 DEF Knows, Known
<1>3. JobPhase[j] = "pending" /\ JobRunners[j] # {}
  <2>1. JobRunners[j] = {w}
    BY <1>1, OnlyRunner
  <2> QED
    BY <1>1, <1>2, <2>1, PhaseOfRow DEF Active
<1>4. JobRunners' = [JobRunners EXCEPT ![j] = {}]
  BY <1>1, OnlyRunner
<1>5. ASSUME jobs'[j].status \in Terminal, \A i \in Jobs \ {j} : jobs'[i] = jobs[i]
      PROVE  Contract!Settle(j)
  BY <1>1, <1>3, <1>4, <1>5, PhaseOfRow, OnePhase DEF Contract!Settle
<1>6. ASSUME jobs'[j].status \in Active, \A i \in Jobs \ {j} : jobs'[i] = jobs[i]
      PROVE  Contract!Lose(j)
  <2>1. JobPhase' = JobPhase
    BY <1>2, <1>6, PhasesStay DEF Active
  <2> QED
    BY <1>3, <1>4, <2>1 DEF Contract!Lose
<1>7. CASE Complete(w)
  BY <1>1, <1>5, <1>7 DEF Complete, Completed, RowOf, Terminal, Contract!Next
<1>8. ASSUME NEW category \in Raised, Fail(w, category) PROVE Contract!Next
  BY <1>1, <1>5, <1>8 DEF Fail, MarkedFailed, RowOf, Terminal, Contract!Next
<1>9. ASSUME NEW category \in Raised, NEW delay \in Delays, Retry(w, category, delay)
      PROVE  Contract!Next
  <2>1. CASE IndexAllows(j)
    BY <1>1, <1>6, <1>9, <2>1 DEF Retry, MarkedForRetry, RowOf, Active, Contract!Next
  <2>2. CASE ~IndexAllows(j)
    BY <1>1, <1>2, <1>6, <1>9, <2>2 DEF Retry, Active, Contract!Next
  <2> QED
    BY <2>1, <2>2
<1> QED
  BY <1>7, <1>8, <1>9 DEF HandlerEnd

LEMMA ClaimStep ==
    ASSUME Alone, TypeOK, NEW w \in Workers, Knows(w), Cancellable = {}, Claim(w)
    PROVE  Contract!Next \/ UNCHANGED <<JobPhase, JobRunners>>
<1> DEFINE J == held[w] \cap Unreadable
<1>1. /\ jobs \in [Jobs -> Row] /\ held[w] \subseteq Jobs /\ pc[w] = "take"
      /\ current[w] = None /\ current' = current /\ None \notin Jobs
  BY ConstantsAssumption DEF TypeOK, Claim
<1>2. \A j \in held[w] : jobs[j].status = "queued"
  BY <1>1 DEF Knows, Known
<1>3. JobRunners' = JobRunners /\ \A j \in Jobs : JobRunners[j] = {}
  BY <1>1, OnlyRunner
<1>4. \A j \in J : jobs'[j].status \in Terminal
  BY <1>1 DEF Claim, MarkedFailed, RowOf, Terminal
<1>5. \A j \in Jobs \ J : jobs'[j].status = jobs[j].status
                             \/ (jobs[j].status \in Active /\ jobs'[j].status \in Active)
  BY <1>1, <1>2 DEF Claim, Taken, Claimed, RowOf, Active
<1>6. CASE J = {}
  BY <1>3, <1>5, <1>6, PhasesStay
<1>7. CASE J # {}
  <2>1. \A j \in J : JobPhase[j] = "pending" /\ JobPhase'[j] = "settled"
    BY <1>1, <1>2, <1>4, PhaseOfRow DEF Active
  <2>2. \A j \in Jobs \ J : JobPhase'[j] = JobPhase[j]
    <3>1. \A j \in Jobs : jobs[j].status \in Active \cup Terminal \cup {"absent"}
      BY <1>1 DEF Row
    <3> QED
      BY <1>5, <3>1, PhaseOfRow
  <2>3. JobPhase' = [j \in Jobs |-> IF j \in J THEN "settled" ELSE JobPhase[j]]
    <3>1. JobPhase' = [j \in Jobs |-> JobPhase'[j]]
      BY DEF JobPhase
    <3> QED
      BY <2>1, <2>2, <3>1
  <2>4. Contract!Refuse(J)
    BY <1>1, <1>3, <1>7, <2>1, <2>3 DEF Contract!Refuse
  <2> QED
    BY <1>1, <2>4 DEF Contract!Next
<1> QED
  BY <1>6, <1>7

\* The only worker: its steps that start or end no handler are not seen.
LEMMA WorkerIsContract ==
    ASSUME Alone, TypeOK, NEW w \in Workers, Knows(w), Cancellable = {}, WorkerStep(w)
    PROVE  Contract!Next \/ UNCHANGED <<JobPhase, JobRunners>>
<1>1. /\ jobs \in [Jobs -> Row] /\ held \in [Workers -> SUBSET Jobs]
      /\ current \in [Workers -> Jobs \cup {None}] /\ None \notin Jobs
      /\ pc[w] = "exec" <=> current[w] # None
  BY ConstantsAssumption DEF TypeOK
<1>2. ASSUME current' = current, 
             \A j \in Jobs : jobs'[j].status = jobs[j].status
                             \/ (jobs[j].status \in Active /\ jobs'[j].status \in Active)
      PROVE  UNCHANGED <<JobPhase, JobRunners>>
  BY <1>2, PhasesStay DEF JobRunners
<1>3. CASE Start(w) \/ RequestStop(w) \/ SelectExpired(w) \/ Select(w)
  BY <1>2, <1>3 DEF Start, RequestStop, SelectExpired, Select
<1>4. CASE ReclaimExpired(w)
  BY <1>1, <1>2, <1>4 DEF ReclaimExpired, Requeued, RowOf, Active
<1>5. CASE PromoteScheduled(w)
  BY <1>1, <1>2, <1>5 DEF PromoteScheduled, Promoted, RowOf
<1>6. CASE Claim(w)
  BY <1>6, ClaimStep
<1>7. ASSUME NEW j \in Jobs, Run(w, j) PROVE Contract!Next
  <2>1. j \in held[w] /\ pc[w] = "run" /\ current'[w] = j /\ jobs' = jobs
    BY <1>1, <1>7 DEF Run
  <2>2. JobPhase[j] = "pending" /\ JobPhase' = JobPhase
    BY <2>1, PhaseOfRow DEF Knows, Known, Active, JobPhase
  <2>3. JobRunners[j] = {} /\ JobRunners' = [JobRunners EXCEPT ![j] = {w}]
    <3>1. current[w] = None
      BY <1>1, <2>1
    <3>2. JobRunners = [i \in Jobs |-> {}]
      BY <1>1, <3>1, OnlyRunner
    <3>3. JobRunners' = [i \in Jobs |-> IF i = j THEN {w} ELSE {}]
      BY <2>1, OnlyRunner
    <3> QED
      BY <3>2, <3>3
  <2> QED
    BY <2>2, <2>3 DEF Contract!Begin, Contract!Next
<1>8. ASSUME NEW j \in Jobs, Release(w, j) PROVE UNCHANGED <<JobPhase, JobRunners>>
  BY <1>1, <1>2, <1>8 DEF Release, Requeued, RowOf, Active
<1>9. CASE Heartbeat(w)
  BY <1>1, <1>2, <1>9 DEF Heartbeat, Prolonged, RowOf
<1>10. CASE HandlerEnd(w)
  BY <1>10, HandlerEndStep
<1>11. CASE Exit(w) \/ Crash(w)
  <2>1. current'[w] = None /\ jobs' = jobs
    BY <1>1, <1>11 DEF Exit, Crash, Vanish
  <2>2. JobPhase' = JobPhase
    BY <2>1 DEF JobPhase
  <2>3. CASE pc[w] = "exec"
    <3>1. current[w] \in Jobs /\ jobs[current[w]].status = "running"
      BY <1>1, <2>3 DEF Knows, Known
    <3>2. JobPhase[current[w]] = "pending"
      BY <3>1, PhaseOfRow DEF Active
    <3>3. /\ JobRunners[current[w]] = {w}
          /\ JobRunners' = [JobRunners EXCEPT ![current[w]] = {}]
      BY <1>1, <2>1, <3>1, OnlyRunner
    <3> QED
      BY <2>2, <3>1, <3>2, <3>3 DEF Contract!Lose, Contract!Next
  <2>4. CASE pc[w] # "exec"
    <3>1. current[w] = None /\ current'[w] = None
      BY <1>1, <2>1, <2>4
    <3>2. JobRunners = [i \in Jobs |-> {}] /\ JobRunners' = [i \in Jobs |-> {}]
      BY <1>1, <3>1, OnlyRunner
    <3> QED
      BY <2>2, <3>2
  <2> QED
    BY <2>3, <2>4
<1> QED
  BY <1>3, <1>4, <1>5, <1>6, <1>7, <1>8, <1>9, <1>10, <1>11
     DEF WorkerStep, LoopStep, BatchStep

LEMMA StepIsContract ==
    ASSUME Alone, Cancellable = {}, IInv, KnownInv, [Next]_vars
    PROVE  Contract!Next \/ UNCHANGED <<JobPhase, JobRunners>>
<1>1. TypeOK /\ jobs \in [Jobs -> Row]
  BY DEF IInv, Core, TypeOK
<1>2. ASSUME NEW j \in Jobs, NEW delay \in Delays, Enqueue(j, delay) PROVE Contract!Next
  <2>1. /\ jobs[j].status = "absent" /\ jobs'[j].status = "queued" /\ current' = current
        /\ \A i \in Jobs \ {j} : jobs'[i] = jobs[i]
    BY <1>1, <1>2 DEF Enqueue, Inserted, RowOf, workerVars
  <2>2. /\ JobPhase[j] = "absent" /\ JobPhase' = [JobPhase EXCEPT ![j] = "pending"]
        /\ JobRunners' = JobRunners
    BY <2>1, PhaseOfRow, OnePhase DEF Active, JobRunners
  <2> QED
    BY <2>2 DEF Contract!Submit, Contract!Next
<1>3. ASSUME NEW j \in Jobs, Cancel(j) PROVE FALSE
  BY <1>3 DEF Cancel
<1>4. ASSUME NEW w \in Workers, WorkerStep(w)
      PROVE  Contract!Next \/ UNCHANGED <<JobPhase, JobRunners>>
  BY <1>1, <1>4, WorkerIsContract DEF KnownInv
<1>5. CASE Tick
  <2>1. \A j \in Jobs : jobs'[j].status = jobs[j].status
    BY <1>1, <1>5 DEF Tick, Aged, RowOf
  <2> QED
    BY <1>1, <1>5, <2>1, PhasesStay DEF Tick, JobRunners
<1>6. CASE UNCHANGED vars
  BY <1>6 DEF vars, workerVars, JobPhase, JobRunners
<1> QED
  BY <1>2, <1>3, <1>4, <1>5, <1>6 DEF Next

\* One worker, no caller that cancels: to whoever submits a job, the queue is
\* JobContract. A handler runs in one worker at a time, only while its job is
\* pending, and what is settled stays settled, through leases, reclaims,
\* retries, stops and crashes.
THEOREM QueueImplementsContract ==
    Alone /\ Cancellable = {} => (Spec => ImplementsContract)
<1> SUFFICES ASSUME Alone, Cancellable = {} PROVE Spec => ImplementsContract
  OBVIOUS
<1>1. Init => Contract!Init
  <2> SUFFICES ASSUME Init PROVE Contract!Init
    OBVIOUS
  <2>1. \A j \in Jobs : jobs[j].status = "absent"
    BY DEF Init, NoRow, RowOf
  <2>2. JobPhase = [j \in Jobs |-> "absent"]
    BY <2>1, PhaseOfRow DEF JobPhase
  <2>3. JobRunners = [j \in Jobs |-> {}]
    BY ConstantsAssumption DEF Init, JobRunners
  <2> QED
    BY <2>2, <2>3 DEF Contract!Init
<1>2. IInv /\ KnownInv /\ [Next]_vars => [Contract!Next]_(Contract!vars)
  BY StepIsContract DEF Contract!vars
<1> QED
  BY <1>1, <1>2, Inductive, RowsAreKnown, PTL DEF Spec, ImplementsContract, Contract!Spec
==============================================================================

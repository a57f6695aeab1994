------------------------------- MODULE JobEvents -----------------------------
(***************************************************************************)
(* The journal of a job and the streams that follow it.  An event takes    *)
(* the number after the last one, which is read by one statement and       *)
(* inserted by another (repositories/job-events.ts: the operation runs     *)
(* once its transaction is over): two runs of the job, each in a worker of *)
(* its own, may read the same, and the unique index then refuses the       *)
(* second, whose error reaches whoever appended it (sqlite-queue.ts,       *)
(* loop.ts).  A stream polls what follows the last number it has sent and  *)
(* ends with the job (apps/api/src/routes/jobs.ts).                        *)
(* One job; module JobQueue has the rest of its life.                      *)
(***************************************************************************)
EXTENDS Naturals, Sequences, FiniteSets

CONSTANTS
    Writers,     \* the workers
    Streams,     \* the streams of clients
    MaxAttempts, \* max_attempts of the job
    MaxExpiries, \* bound: leases that end while their run goes on
    MaxLog,      \* bound: events after which a handler logs nothing
    FirstPage,   \* the events of the opening of a stream (500)
    Page         \* the events of a poll (200)

EventsAssumption ==
    /\ FirstPage \in Nat \ {0} /\ Page \in Nat \ {0} /\ MaxLog \in Nat
    /\ MaxAttempts \in Nat \ {0} /\ MaxExpiries \in Nat

VARIABLES
    status,   \* jobs.status
    attempt,  \* jobs.attempt
    log,      \* job_events: the number of each event, in the order of insertion
    runs,     \* what each worker is doing with the job
    streams,  \* each stream: what it does, what it has sent, over all its connections
    expiries, \* leases ended so far, counted for their bound
    collided  \* a run was refused its event

eventsVars == <<status, attempt, log, runs, streams, expiries, collided>>

Kinds == {"log", "done", "retry", "failed", "reclaim"}
Terminal == {"completed", "failed"}

\* left: others took or ended the job, and the run does not know.
Idle == [pc |-> "idle", kind |-> "log", number |-> 0, left |-> FALSE]

Init ==
    /\ status = "queued" /\ attempt = 0
    /\ log = <<>>
    /\ runs = [w \in Writers |-> Idle]
    /\ streams = [s \in Streams |-> [pc |-> "new", fresh |-> 0, sent |-> <<>>]]
    /\ expiries = 0 /\ collided = FALSE

At(w, pc) == runs[w].pc = pc

\* The event of a run that took the job from the others, or ended it for them.
Leaves(w, kind) ==
    runs' = [v \in Writers |->
               IF v = w THEN [runs[w] EXCEPT !.pc = "read", !.kind = kind]
               ELSE [runs[v] EXCEPT !.left = runs[v].pc # "idle"]]

\* The append of an event begins: its two statements follow.
Appends(w, kind) == runs' = [runs EXCEPT ![w] = [@ EXCEPT !.pc = "read", !.kind = kind]]

------------------------------------------------------------------------------
(* The runs.                                                               *)

Claim(w) ==
    /\ At(w, "idle") /\ status = "queued"
    /\ status' = "running" /\ attempt' = attempt + 1
    /\ runs' = [runs EXCEPT ![w].pc = "work"]
    /\ UNCHANGED <<log, streams, expiries, collided>>

\* context.log, and the steps of a handler.
Log(w) ==
    /\ At(w, "work") /\ Len(log) < MaxLog
    /\ Appends(w, "log")
    /\ UNCHANGED <<status, attempt, log, streams, expiries, collided>>

\* complete: the status, then the event.
Complete(w) ==
    /\ At(w, "work")
    /\ status' = "completed"
    /\ Leaves(w, "done")
    /\ UNCHANGED <<attempt, log, streams, expiries, collided>>

\* fail, of a run that threw: the status, whatever it is by then, and the event.
Fails(w) ==
    LET again == attempt < MaxAttempts
    IN /\ status' = IF again THEN "queued" ELSE "failed"
       /\ Appends(w, IF again THEN "retry" ELSE "failed")

Throw(w) ==
    /\ At(w, "work")
    /\ Fails(w)
    /\ UNCHANGED <<attempt, log, streams, expiries, collided>>

\* Any job that is not queued is taken back: a mutant of Expirable.
Expirable_Any(state) == state # "queued"

Expirable(state) == state = "running"

\* reclaimExpired, by a worker that is free: the run of the other goes on.
Reclaim(w) ==
    /\ At(w, "idle") /\ Expirable(status) /\ expiries < MaxExpiries
    /\ expiries' = expiries + 1
    /\ status' = "queued"
    /\ Leaves(w, "reclaim")
    /\ UNCHANGED <<attempt, log, streams, collided>>

------------------------------------------------------------------------------
(* The journal.                                                            *)

\* Its first statement: max(sequence) + 1.
Read(w) ==
    /\ At(w, "read")
    /\ runs' = [runs EXCEPT ![w].pc = "insert", ![w].number = Len(log) + 1]
    /\ UNCHANGED <<status, attempt, log, streams, expiries, collided>>

\* The journal has no unique index: a mutant of Free.
Free_Always(number, journal) == TRUE

\* uq_job_sequence.
Free(number, journal) == \A n \in DOMAIN journal : journal[n] # number

\* Its second statement.
Insert(w) ==
    /\ At(w, "insert") /\ Free(runs[w].number, log)
    /\ log' = Append(log, runs[w].number)
    /\ runs' = [runs EXCEPT ![w] = IF runs[w].kind = "log" THEN [@ EXCEPT !.pc = "work"] ELSE Idle]
    /\ UNCHANGED <<status, attempt, streams, expiries, collided>>

\* The error of a refused event fails the handler that logs, and even the job
\* that is complete; that of a failure or a reclaim ends the turn of the loop.
Refused(w) ==
    /\ At(w, "insert") /\ ~Free(runs[w].number, log)
    /\ collided' = TRUE
    /\ IF runs[w].kind \in {"log", "done"} THEN Fails(w)
       ELSE runs' = [runs EXCEPT ![w] = Idle] /\ UNCHANGED status
    /\ UNCHANGED <<attempt, log, streams, expiries>>

------------------------------------------------------------------------------
(* The streams.                                                            *)

Last(s) == IF streams[s].sent = <<>> THEN 0 ELSE streams[s].sent[Len(streams[s].sent)]

Later(journal, after) == {journal[n] : n \in {n \in DOMAIN journal : journal[n] > after}}

Nth(numbers, k) == CHOOSE number \in numbers : Cardinality({m \in numbers : m < number}) = k - 1

PageOf(numbers, limit) == IF Cardinality(numbers) <= limit THEN Cardinality(numbers) ELSE limit

\* The latest page instead of the next one: a mutant of Listed.
Listed_Latest(journal, after, limit) ==
    LET next == Later(journal, after)
        skipped == Cardinality(next) - PageOf(next, limit)
    IN [k \in 1 .. PageOf(next, limit) |-> Nth(next, skipped + k)]

\* listJobEvents: what follows, in the order of the numbers, a page at most.
Listed(journal, after, limit) ==
    LET next == Later(journal, after)
    IN [k \in 1 .. PageOf(next, limit) |-> Nth(next, k)]

Sends(s, pc, limit) ==
    LET next == Listed(log, Last(s), limit)
    IN streams' = [streams EXCEPT ![s] = [pc |-> pc, fresh |-> Len(next), sent |-> @.sent \o next]]

\* A connection: the snapshot, and what follows the last number received.
Open(s) ==
    /\ streams[s].pc = "new"
    /\ Sends(s, "open", FirstPage)
    /\ UNCHANGED <<status, attempt, log, runs, expiries, collided>>

Poll(s) ==
    /\ streams[s].pc = "open"
    /\ Sends(s, "look", Page)
    /\ UNCHANGED <<status, attempt, log, runs, expiries, collided>>

\* A job that fails never ends: a mutant of Over.
Over_Completed(state, fresh) == state = "completed" /\ fresh = 0

\* The job has ended, and the poll brought nothing.
Over(state, fresh) == state \in Terminal /\ fresh = 0

\* Then the status, read after the events.
Look(s) ==
    /\ streams[s].pc = "look"
    /\ streams' = [streams EXCEPT ![s].pc = IF Over(status, streams[s].fresh) THEN "done" ELSE "open"]
    /\ UNCHANGED <<status, attempt, log, runs, expiries, collided>>

\* The connection drops, and the client comes back with the last number it has.
Drop(s) ==
    /\ streams[s].pc = "open"
    /\ streams' = [streams EXCEPT ![s].pc = "new", ![s].fresh = 0]
    /\ UNCHANGED <<status, attempt, log, runs, expiries, collided>>

------------------------------------------------------------------------------
Writes(w) == Complete(w) \/ Throw(w) \/ Read(w) \/ Insert(w) \/ Refused(w)

Follows(s) == Poll(s) \/ Look(s)

Next ==
    \/ \E w \in Writers : Claim(w) \/ Log(w) \/ Reclaim(w) \/ Writes(w)
    \/ \E s \in Streams : Open(s) \/ Drop(s) \/ Follows(s)

\* The handlers end, the workers poll, and so do the streams.
Fair == \A w \in Writers : WF_eventsVars(Writes(w)) /\ WF_eventsVars(Claim(w))

Spec == Init /\ [][Next]_eventsVars

------------------------------------------------------------------------------
TypeOK ==
    /\ status \in {"queued", "running"} \cup Terminal
    /\ attempt \in 0 .. MaxAttempts + MaxExpiries
    /\ \A w \in Writers : runs[w].pc \in {"idle", "work", "read", "insert"} /\ runs[w].kind \in Kinds
    /\ \A s \in Streams : streams[s].pc \in {"new", "open", "look", "done"}

\* "Strictement croissant par job": whichever runs append at once, the
\* numbers are those of a count without gap.
JournalCounts == \A n \in DOMAIN log : log[n] = n

\* "C'est ce qui rend le flux reprenable": over all its connections a client
\* has received a prefix of the journal, in order, nothing lost, nothing twice.
StreamIsPrefix ==
    \A s \in Streams : streams[s].sent = SubSeq(log, 1, Len(streams[s].sent))

\* A job that is completed stays so, unless its own event is refused, or a run
\* that lost its lease, or whose job another run completed, ends after it.
CompletedStays ==
    [][status = "completed" =>
         status' = "completed" \/ collided' \/ \E w \in Writers : runs[w].left]_eventsVars

\* Taken at its word, a stream that ends has shown the last event: it has not
\* when the job ends between its two readings.
EndsWithTheLastEvent ==
    \A s \in Streams : streams[s].pc = "done" /\ status = "completed" /\ expiries = 0 =>
        Len(streams[s].sent) = Len(log) /\ \A w \in Writers : runs[w].pc = "idle"

\* A stream that stays connected ends once its job has.
StreamEnds(s) == (streams[s].pc # "new") ~> (streams[s].pc \in {"done", "new"})
==============================================================================

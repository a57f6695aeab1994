----------------------------- MODULE JobContract -----------------------------
(***************************************************************************)
(* What the queue promises to whoever submits a job, without tables,       *)
(* leases, batches or time: the handler of a job runs in one worker at a   *)
(* time, only while the job is pending, and a settled job stays settled.   *)
(* A run may be lost with its worker, the job is then pending as before.   *)
(***************************************************************************)
EXTENDS Naturals

CONSTANTS Jobs, Workers

VARIABLES
    phase,    \* what the submitter is told of each job
    runners   \* the workers whose process is running the job's handler

vars == <<phase, runners>>

Init ==
    /\ phase = [j \in Jobs |-> "absent"]
    /\ runners = [j \in Jobs |-> {}]

Submit(j) ==
    /\ phase[j] = "absent"
    /\ phase' = [phase EXCEPT ![j] = "pending"]
    /\ UNCHANGED runners

Begin(j, w) ==
    /\ phase[j] = "pending" /\ runners[j] = {}
    /\ runners' = [runners EXCEPT ![j] = {w}]
    /\ UNCHANGED phase

\* The handler ends for good, with a result or with a final error.
Settle(j) ==
    /\ phase[j] = "pending" /\ runners[j] # {}
    /\ phase' = [phase EXCEPT ![j] = "settled"]
    /\ runners' = [runners EXCEPT ![j] = {}]

\* A retry is due, or the worker is gone.
Lose(j) ==
    /\ phase[j] = "pending" /\ runners[j] # {}
    /\ runners' = [runners EXCEPT ![j] = {}]
    /\ UNCHANGED phase

\* Jobs no worker can read are settled as failures without being run.
Refuse(J) ==
    /\ J # {} /\ \A j \in J : phase[j] = "pending" /\ runners[j] = {}
    /\ phase' = [j \in Jobs |-> IF j \in J THEN "settled" ELSE phase[j]]
    /\ UNCHANGED runners

Next ==
    \/ \E j \in Jobs : Submit(j) \/ Settle(j) \/ Lose(j)
    \/ \E j \in Jobs, w \in Workers : Begin(j, w)
    \/ \E J \in SUBSET Jobs : Refuse(J)

Spec == Init /\ [][Next]_vars
==============================================================================

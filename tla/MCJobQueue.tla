------------------------------ MODULE MCJobQueue -----------------------------
(***************************************************************************)
(* Small instances of the job queue for TLC.  One unit of time is the      *)
(* heartbeat period (10 s in production), leases last two or three units   *)
(* instead of six or more.                                                 *)
(***************************************************************************)
EXTENDS JobQueueProps, TLC

CONSTANTS j1, j2, j3, k1

MCJobs2 == {j1, j2}
MCJobs3 == {j1, j2, j3}

\* j1 and j2 are the same click twice, j3 has no key.
MCKeys == j1 :> k1 @@ j2 :> k1 @@ j3 :> None
MCNoKeys == [j \in Jobs |-> None]

MCAttempts == [j \in Jobs |-> 2]
MCLeases == [j \in Jobs |-> IF j = j1 THEN 2 ELSE 3]
MCPriorities == [j \in Jobs |-> IF j = j3 THEN 3 ELSE 8]
MCNetwork == [j \in Jobs |-> j = j1]

\* Jobs without a key are interchangeable when nothing else tells them apart.
MCSymmetry == Permutations(Workers)
==============================================================================

------------------------- MODULE PublicationContract -------------------------
(***************************************************************************)
(* What the publication of one version on one account promises, whatever   *)
(* the platform answers: a post is made only while the publication is      *)
(* pending and nothing is online; it is declared done only when something  *)
(* is; what is in doubt leaves doubt through the truth or through a human; *)
(* and what is done stays done.                                            *)
(***************************************************************************)
EXTENDS Naturals

CONSTANT Pubs

VARIABLES phase, posts

vars == <<phase, posts>>

Phase == {"absent", "pending", "doubtful", "done", "closed"}

Init ==
    /\ phase = [p \in Pubs |-> "absent"]
    /\ posts = [p \in Pubs |-> 0]

Request(p) ==
    /\ phase[p] = "absent"
    /\ phase' = [phase EXCEPT ![p] = "pending"]
    /\ UNCHANGED posts

Post(p) ==
    /\ phase[p] = "pending" /\ posts[p] = 0
    /\ posts' = [posts EXCEPT ![p] = 1]
    /\ UNCHANGED phase

Confirm(p) ==
    /\ phase[p] \in {"pending", "doubtful"} /\ posts[p] = 1
    /\ phase' = [phase EXCEPT ![p] = "done"]
    /\ UNCHANGED posts

Doubt(p) ==
    /\ phase[p] = "pending"
    /\ phase' = [phase EXCEPT ![p] = "doubtful"]
    /\ UNCHANGED posts

\* Closed without a post, or by the human who was in doubt.
Close(p) ==
    /\ \/ phase[p] = "pending" /\ posts[p] = 0
       \/ phase[p] = "doubtful"
    /\ phase' = [phase EXCEPT ![p] = "closed"]
    /\ UNCHANGED posts

\* Tried again: only when nothing is online.
Reopen(p) ==
    /\ phase[p] \in {"doubtful", "closed"} /\ posts[p] = 0
    /\ phase' = [phase EXCEPT ![p] = "pending"]
    /\ UNCHANGED posts

Next ==
    \E p \in Pubs : \/ Request(p) \/ Post(p) \/ Confirm(p)
                    \/ Doubt(p) \/ Close(p) \/ Reopen(p)

Spec == Init /\ [][Next]_vars
==============================================================================

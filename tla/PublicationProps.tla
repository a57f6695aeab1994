--------------------------- MODULE PublicationProps ---------------------------
(***************************************************************************)
(* The correctness properties of publications.                             *)
(***************************************************************************)
EXTENDS Publication

\* The types of the rows, of the runners and of the observers.
TypeOK ==
    /\ state \in ContentState
    /\ current \in 1..MaxVersions /\ approved \in 0..MaxVersions
    /\ connection \in [Accounts -> {"disconnected", "connected", "expired", "rate_limited"}]
    /\ status \in [Pubs -> Status]
    /\ human \in [Pubs -> BOOLEAN]
    /\ stamped \in [Pubs -> BOOLEAN]
    /\ logged \in [Pubs -> BOOLEAN]
    /\ job \in [Pubs -> {"none", "queued", "running"}]
    /\ tries \in [Pubs -> 0..PublishAttempts]
    /\ pc \in [Runners -> {"idle", "load", "claim", "ready", "sending", "landed", "verify",
                           "settle", "postpone", "end"}]
    /\ on \in [Runners -> Pubs \cup {None}]
    /\ level \in [Runners -> {"A", "B", "C"}]
    /\ told \in [Runners -> Status \cup {None}]
    /\ error \in [Runners -> Categories \cup {None}]
    /\ stale \subseteq Runners
    /\ outages \in 0..MaxOutages
    /\ online \in [Pubs -> 0..2]
    /\ retried \subseteq Pubs
    /\ \A r \in Runners : pc[r] = "idle" <=> on[r] = None

\* "une 20e reprise ne produit toujours qu'une publication distante": whatever
\* is lost, retried, restarted or asked again, one version is visible at most
\* once on one account.
NoDuplicate == \A p \in Pubs : online[p] <= 1

\* A publication that may be sent is not online: the one dangerous status after
\* a post is `publishing', and no path leads from it back to a claimable status
\* unless the platform or a human said that nothing was there.
SendableIsOffline ==
    \A p \in Pubs : Claimable(p) \/ status[p] \in {"absent", "failed", "manual_required"}
                        => online[p] = 0

Sending(r) == pc[r] \in {"ready", "sending", "landed"}

\* A runner between its claim and its answer holds the lock of the row: nothing
\* (decision, second click, manual confirmation, edit) takes it away.
LockedWhileSending ==
    \A r \in Runners :
        Sending(r) => status[on[r]] = "publishing" /\ ~human[on[r]]

\* "deux jobs concurrents ne peuvent pas publier tous les deux".
OneSender ==
    \A q, r \in Runners : q # r /\ Sending(q) /\ Sending(r) => on[q] # on[r]

\* Even when leases expire under live workers and several of them run the same
\* job, a version is posted twice only where a human asked for a new attempt.
DuplicateNeedsRetry == \A p \in Pubs : online[p] > 1 => p \in retried

\* What waits for a human waits: no job, retry or restart moves a doubtful
\* publication, only a decision does.
AmbiguousWaitsForHuman ==
    [][\A p \in Pubs : human[p] =>
          \/ \E decision \in Decisions : Decide(p, decision)
          \/ status'[p] = status[p] /\ human'[p]]_vars

\* "un contenu ne passe a published que si aucune autre publication n'est
\* encore en suspens": the item does not lie about its targets, now or later.
PublishedMeansSettled ==
    state = "published" => \A p \in Pubs : status[p] \in Settled \cup {"absent"}

\* How far a publication is, for whoever asked for it.
PhaseOf(s) ==
    CASE s = "absent"    -> "absent"
      [] s = "published" -> "done"
      [] s = "ambiguous" -> "doubtful"
      [] s \in {"planned", "queued", "publishing"} -> "pending"
      [] OTHER -> "closed"

PubPhase == [p \in Pubs |-> PhaseOf(status[p])]

Contract == INSTANCE PublicationContract WITH phase <- PubPhase, posts <- online

\* The handler, the store and the routes implement the contract.
ImplementsContract == Contract!Spec

\* No publication stays in flight: after a crash in the middle of a send the
\* job comes back, and the outcome is known or handed to a human.
SendingIsResolved ==
    \A p \in Pubs : status[p] = "publishing" ~> status[p] # "publishing"

------------------------------------------------------------------------------
(* What the documentation says and the code does not do.                   *)

\* publish-content.ts: a held or postponed publication is put back in the
\* queue, never destroyed.
PlannedHasJob == \A p \in Pubs : status[p] = "planned" => job[p] # "none"

\* README.md: no code path publishes without `approved'.
NothingSentUnapproved ==
    [][\A r \in Runners : Send(r) => state = "approved" /\ approved = on[r][1]]_vars
==============================================================================

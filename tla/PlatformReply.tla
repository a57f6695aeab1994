---------------------------- MODULE PlatformReply ----------------------------
(***************************************************************************)
(* What one POST to a platform may end with, and what the code makes of    *)
(* it: the shared HTTP client (packages/publishing/src/http-client.ts)     *)
(* turns a wire event into an outcome, the connector (linkedin.ts) turns   *)
(* the outcome into a business result, and the decision table              *)
(* (idempotency.ts) turns the result into a reaction of the handler.       *)
(***************************************************************************)
EXTENDS Naturals

\* What comes back: 201 with or without an identifier, another 2xx, a 2xx
\* nobody can read, nothing in time, a broken connection, 500-504/522/524, 409
\* or another 5xx, 429, 401/403, any other 4xx.
Events == {"created", "created_no_id", "accepted", "unreadable", "timeout", "reset",
           "unavailable", "conflict", "throttled", "unauthorized", "refused"}

\* The content is online for sure, or perhaps: after these replies only.
SurelyOnline == {"created", "created_no_id"}
PerhapsOnline ==
    SurelyOnline \cup {"unreadable", "timeout", "reset", "unavailable", "accepted"}

\* HttpClient.send after its last attempt.  A request is replayable when it is
\* a GET or carries an idempotency key.
HttpOutcome(event, replayable) ==
    CASE event = "timeout"     -> "ambiguous"
      [] event = "unreadable"  -> "ambiguous"
      [] event = "unavailable" -> IF replayable THEN "ambiguous" ELSE "network_error"
      [] event = "reset"       -> "network_error"
      [] OTHER                 -> "response"

PublishOutcomes == {"published", "draft_created", "scheduled", "rejected",
                    "rate_limited", "auth_error", "server_error", "ambiguous",
                    "manual_required"}

\* A name with an underscore is a mistake one could make; only the mutants of
\* PROJECT.json use it.
LinkedInOutcome_TrustsAny2xx(event, draft) ==
    CASE event \in SurelyOnline -> IF draft THEN "draft_created" ELSE "published"
      [] event \in {"timeout", "unreadable", "reset", "unavailable"} -> "server_error"
      [] event = "conflict"     -> "server_error"
      [] event = "throttled"    -> "rate_limited"
      [] event = "unauthorized" -> "auth_error"
      [] OTHER                  -> "rejected"

\* interpretLinkedInResponse; the POST carries no idempotency key.  A 2xx other
\* than 201 is read like a refusal.
LinkedInOutcome(event, draft) ==
    LET http == HttpOutcome(event, FALSE) IN
    CASE http = "ambiguous"     -> "ambiguous"
      [] http = "network_error" -> "server_error"
      [] event = "created"      -> IF draft THEN "draft_created" ELSE "published"
      [] event = "created_no_id" -> "ambiguous"
      [] event = "conflict"     -> "server_error"
      [] event = "throttled"    -> "rate_limited"
      [] event = "unauthorized" -> "auth_error"
      [] OTHER                  -> "rejected"

\* PUBLISH_REACTIONS.
ReactionFor(outcome) ==
    CASE outcome \in {"published", "scheduled"}           -> "settle_published"
      [] outcome \in {"draft_created", "manual_required"} -> "settle_draft"
      [] outcome = "ambiguous"                            -> "verify_then_decide"
      [] outcome = "rate_limited"                         -> "postpone"
      [] outcome = "auth_error"                           -> "expire_account"
      [] outcome = "server_error"                         -> "retry_transient"
      [] outcome = "rejected"                             -> "fail_definitive"

ForbidsRemoteCall_StatusOnly(status, needsHuman) ==
    status \in {"published", "manual_required", "cancelled"}

\* forbidsRemoteCall.
ForbidsRemoteCall(status, needsHuman) ==
    needsHuman \/ status \in {"published", "manual_required", "cancelled", "ambiguous"}
==============================================================================

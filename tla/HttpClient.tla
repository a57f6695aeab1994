------------------------------- MODULE HttpClient -----------------------------
(***************************************************************************)
(* One call of the client that the connectors share                        *)
(* (packages/publishing/src/http-client.ts): a request leaves, times out,  *)
(* breaks or is answered, and leaves again when it is a GET or carries an  *)
(* idempotency key.  What a connector makes of the outcome is module       *)
(* PlatformReply, whose names of what comes back are used here.            *)
(***************************************************************************)
EXTENDS PlatformReply

CONSTANT MaxSends  \* maxAttempts

ClientAssumption == MaxSends \in Nat \ {0}

VARIABLES
    replayable, \* a GET, or a key
    sends,      \* attempts
    doing,      \* "ready", "waiting", "sleeping" or "done"
    arrived,    \* how many times the platform has had the request
    result      \* the outcome, or "none"

clientVars == <<replayable, sends, doing, arrived, result>>

Init ==
    /\ replayable = FALSE
    /\ sends = 0 /\ doing = "ready" /\ arrived = 0 /\ result = "none"

\* fetch, the first time or once the backoff is over.
Send ==
    /\ doing \in {"ready", "sleeping"}
    /\ IF doing = "ready" THEN replayable' \in BOOLEAN ELSE UNCHANGED replayable
    /\ sends' = sends + 1 /\ doing' = "waiting"
    /\ UNCHANGED <<arrived, result>>

\* The platform has it, once for an attempt, perhaps after its delay.
Arrive ==
    /\ arrived < sends
    /\ arrived' = arrived + 1
    /\ UNCHANGED <<replayable, sends, doing, result>>

\* Every request is sent again: a mutant of MayRetry.
MayRetry_All(event) == event \in {"timeout", "reset", "unavailable"} /\ sends < MaxSends

\* The answers and errors after which another attempt is made.
MayRetry(event) ==
    replayable /\ event \in {"timeout", "reset", "unavailable"} /\ sends < MaxSends

\* An answer, or an error; an answer comes from a platform that had the request.
Hear(event) ==
    /\ doing = "waiting"
    /\ event \notin {"timeout", "reset"} => arrived > 0
    /\ IF MayRetry(event) THEN doing' = "sleeping" /\ UNCHANGED result
       ELSE doing' = "done" /\ result' = HttpOutcome(event, replayable)
    /\ UNCHANGED <<replayable, sends, arrived>>

Hears == \E event \in Events : Hear(event)

Next == Send \/ Arrive \/ Hears

Spec == Init /\ [][Next]_clientVars

------------------------------------------------------------------------------
TypeOK ==
    /\ replayable \in BOOLEAN /\ sends \in 0 .. MaxSends /\ arrived \in 0 .. sends
    /\ result \in {"none", "response", "ambiguous", "network_error"}
    /\ doing = "done" <=> result # "none"

\* "On ne rejoue pas un effet de bord non confirme": a post without a key
\* reaches the platform once, whatever errors come back.
PostedOnce == ~replayable => arrived <= 1

------------------------------------------------------------------------------
(* What the code says of itself and does not do.                           *)

\* linkedin.ts: "Rien n'a ete envoye" when the outcome is a network error.
NetworkErrorMeansUnsent == result = "network_error" => arrived = 0
==============================================================================

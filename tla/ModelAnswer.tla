------------------------------ MODULE ModelAnswer -----------------------------
(***************************************************************************)
(* What becomes of the answer of a model provider                          *)
(* (packages/ai/src/providers/openai-compatible.ts, pricing.ts): its cost  *)
(* or its error, the one correction of an answer that is no use, and the   *)
(* row of llm_calls (recording-provider.ts).  Pure operators; module       *)
(* Spending has the calls that cross each other.                           *)
(*                                                                         *)
(* An exchange is a record: `net' ("answered", "cut" or "late"), `status'  *)
(* of HTTP, `payload' -- "unreadable", "filtered", "empty", or a content   *)
(* that is "json" of the schema, the same "fenced", "unfit" for the schema *)
(* or "garbled" -- and the tokens `usage'.  Prices are in cents for a      *)
(* million tokens, so that a cost is in hundredths of a micro-dollar until *)
(* it is rounded.                                                          *)
(***************************************************************************)
EXTENDS Integers, Sequences, RetryPolicy

------------------------------------------------------------------------------
(* Costs.                                                                  *)

\* usdToMicro: Math.round of an amount that is not negative.
Rounded(hundredths) == (hundredths + 50) \div 100

\* What the cache serves is charged twice: a mutant of Billable.
Billable_All(usage) == usage.prompt

Billable(usage) == IF usage.prompt < usage.cached THEN 0 ELSE usage.prompt - usage.cached

\* computeCostMicroUsd.
Cost(usage, price) ==
    Rounded(Billable(usage) * price.input + usage.cached * price.cached
            + usage.completion * price.output)

\* estimateCostMicroUsd: nothing is expected of the cache.
Estimate(prompt, most, price) ==
    Cost([prompt |-> prompt, cached |-> 0, completion |-> most], price)

\* The second call alone: a mutant of Merged.
Merged_Second(first, second) == second

\* mergeUsage, of two costs.
Merged(first, second) == first + second

------------------------------------------------------------------------------
(* Errors.                                                                 *)

Failure(category, code) == [ok |-> FALSE, category |-> category, code |-> code]

\* Every 4xx but the key is the request's fault: a mutant of ErrorForStatus.
ErrorForStatus_ByClass(status) ==
    CASE status \in {401, 403} -> Failure("auth", "MISSING_CREDENTIAL")
      [] status >= 500 -> Failure("transient", "LLM_PROVIDER_ERROR")
      [] OTHER -> Failure("validation", "LLM_REQUEST_INVALID")

\* errorForStatus.
ErrorForStatus(status) ==
    CASE status \in {401, 403} -> Failure("auth", "MISSING_CREDENTIAL")
      [] status = 429 -> Failure("transient", "RATE_LIMITED")
      [] status >= 500 -> Failure("transient", "LLM_PROVIDER_ERROR")
      [] status \in {400, 422} -> Failure("validation", "LLM_REQUEST_INVALID")
      [] OTHER -> Failure("internal", "LLM_UNEXPECTED_STATUS")

Succeeded(exchange) == exchange.net = "answered" /\ exchange.status \in 200 .. 299

\* call: the content and its cost, or the first thing that is wrong.
Call(exchange, price) ==
    CASE exchange.net = "late" -> Failure("transient", "LLM_TIMEOUT")
      [] exchange.net = "cut" -> Failure("transient", "LLM_PROVIDER_ERROR")
      [] exchange.net = "answered" /\ ~Succeeded(exchange) -> ErrorForStatus(exchange.status)
      [] Succeeded(exchange) ->
           CASE exchange.payload = "unreadable" -> Failure("internal", "LLM_RESPONSE_INVALID")
             [] exchange.payload = "filtered" -> Failure("forbidden", "LLM_REFUSED")
             [] exchange.payload = "empty" -> Failure("transient", "LLM_PROVIDER_ERROR")
             [] OTHER -> [ok |-> TRUE, cost |-> Cost(exchange.usage, price)]

------------------------------------------------------------------------------
(* Structured answers.                                                     *)

\* parseWithRepair: a fence about a JSON is taken off.
Usable(exchange) == exchange.payload \in {"json", "fenced"}

\* structuredOutput, with a key: the second exchange is made when the first one
\* is of no use, and its error is the one of the call.
Structured(first, second, price) ==
    LET one == Call(first, price)
        two == Call(second, price)
    IN IF ~one.ok \/ Usable(first) THEN one
       ELSE IF ~two.ok THEN two
       ELSE IF Usable(second) THEN [ok |-> TRUE, cost |-> Merged(one.cost, two.cost)]
       ELSE Failure("validation", "LLM_SCHEMA_MISMATCH")

\* Without a key no exchange is made.
Answer(key, first, second, price) ==
    IF key THEN Structured(first, second, price) ELSE Failure("auth", "MISSING_CREDENTIAL")

\* record and statusFromError.
Row(result) ==
    [status |-> CASE result.ok -> "success"
                  [] ~result.ok /\ result.category = "transient" -> "timeout"
                  [] ~result.ok /\ result.category = "forbidden" -> "refused"
                  [] OTHER -> "error",
     cost |-> IF result.ok THEN result.cost ELSE 0]

------------------------------------------------------------------------------
(* What is asked of them.                                                  *)

\* The exchanges that are made, up to the one that decides.
Made(first, second) ==
    IF Succeeded(first) /\ first.payload \in {"unfit", "garbled"}
    THEN <<first, second>> ELSE <<first>>

\* "Deux appels d'une meme reparation coutent la somme des deux : on ne cache
\* rien": the row of an answer that is used has the cost of what was exchanged
\* for it, and no error has one.
CostIsWhole(input) ==
    LET result == Answer(input.key, input.first, input.second, input.price)
        made == Made(input.first, input.second)
        costs == [n \in DOMAIN made |-> Cost(made[n].usage, input.price)]
    IN Row(result).cost =
         IF Row(result).status # "success" THEN 0
         ELSE IF Len(made) = 1 THEN costs[1] ELSE costs[1] + costs[2]

\* The veto of the budget compares an estimate: an exchange whose prompt and
\* completion are within what was estimated costs no more, whatever the cache
\* served of it and however both are rounded.
EstimateCovers(input) ==
    \A prompt \in input.first.usage.prompt .. input.first.usage.prompt + 1,
       most \in input.first.usage.completion .. input.first.usage.completion + 1 :
        Cost(input.first.usage, input.price) <= Estimate(prompt, most, input.price)

\* "La categorie decide de la reprise": the queue tries a job again when the
\* trouble may pass -- the network, the rate, the server, an empty answer --,
\* never when the same call must fail again -- the key, the request, the
\* filter, an answer twice of no use -- and once when nobody knows.
RetriedWhenUseful(input) ==
    LET result == Answer(input.key, input.first, input.second, input.price)
        made == Made(input.first, input.second)
        last == made[Len(made)]
        passing == input.key /\ (\/ last.net # "answered"
                                 \/ last.status = 429 \/ last.status >= 500
                                 \/ Succeeded(last) /\ last.payload = "empty")
        lasting == \/ ~input.key
                   \/ last.net = "answered" /\ last.status \in {400, 401, 403, 422}
                   \/ Succeeded(last) /\ last.payload \in {"filtered", "unfit", "garbled"}
        Again(attempt) == DecideRetry(result.category, attempt, 3)
    IN ~result.ok =>
         /\ Again(1) = ~lasting
         /\ Again(2) = (passing /\ ~lasting)

\* The converse of a name: LLM_STATUSES has "rate_limited", that no row gets, a
\* 429 being transient before anything else.  Not true of the code.
RateLimitIsTold(input) ==
    LET result == Answer(input.key, input.first, input.second, input.price)
    IN ~result.ok /\ result.code = "RATE_LIMITED" => Row(result).status = "rate_limited"
==============================================================================

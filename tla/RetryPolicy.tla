----------------------------- MODULE RetryPolicy -----------------------------
(***************************************************************************)
(* The retry decision of the queue: packages/shared/src/errors.ts gives    *)
(* every error category a policy, packages/queue/src/retry-policy.ts turns *)
(* it into a decision, and SqliteQueue.fail applies it.  A handler only    *)
(* raises a typed error; it never decides.                                 *)
(***************************************************************************)
EXTENDS Naturals

Categories == {"validation", "auth", "forbidden", "not_found", "conflict",
               "transient", "budget", "capability", "ambiguous", "internal"}

\* RETRY_POLICY: "yes" up to max_attempts, "once" a single time, "no" never.
Policy(category) ==
    CASE category = "transient" -> "yes"
      [] category = "internal"  -> "once"
      [] OTHER                  -> "no"

\* One attempt too many: a mutant of DecideRetry.
DecideRetry_OneMore(category, attempt, maxAttempts) ==
    \/ Policy(category) = "yes"  /\ attempt <= maxAttempts
    \/ Policy(category) = "once" /\ attempt <= 1

\* decideRetry: `attempt' is the number the claim gave to the execution that
\* has just failed.  "once" looks at the attempt only, not at max_attempts.
DecideRetry(category, attempt, maxAttempts) ==
    \/ Policy(category) = "yes"  /\ attempt < maxAttempts
    \/ Policy(category) = "once" /\ attempt <= 1

\* SqliteQueue.fail: the optional third argument forces the decision, except
\* for an ambiguous outcome, which no caller may replay.
ShouldRetry(category, forced, attempt, maxAttempts) ==
    /\ category # "ambiguous"
    /\ \/ forced = "retry"
       \/ forced = "decide" /\ DecideRetry(category, attempt, maxAttempts)
==============================================================================

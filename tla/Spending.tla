------------------------------- MODULE Spending ------------------------------
(***************************************************************************)
(* The budget.  Of the model calls: the veto before a call                 *)
(* (packages/analytics/src/budget-port.ts, budget-guard.ts, spend.ts), the *)
(* call and its one correction (packages/ai/src/providers), the row of     *)
(* llm_calls after it (recording-provider.ts, recorder.ts).  What is left  *)
(* is read before the call and its cost is known after it: other callers,  *)
(* of the API and of the workers, and midnight come in between.            *)
(* Of the actions: the brake (packages/analytics/src/limits.ts), the       *)
(* limits of budget_limits and of the environment, each of a scope and a   *)
(* period, that an action is held against before it takes place; and the   *)
(* periods (packages/shared/src/time.ts), the day, the week and the month  *)
(* of the user's time zone since which the spending is summed.  The brake  *)
(* and the periods are pure operators.                                     *)
(***************************************************************************)
EXTENDS Integers, SequencesExt

CONSTANTS
    Callers,     \* the jobs and requests that call a model
    DayLimit,    \* the daily limit of the calls, hard
    MonthLimit,  \* the monthly limit of the calls, hard
    Estimates,   \* what estimateCost may say of a call
    MaxCost,     \* what one exchange with a provider costs at most
    MaxCalls,    \* bound: calls that pass the veto
    MaxDays,     \* bound: midnights
    DailyLimit,  \* DAILY_BUDGET_USD, of the brake
    MonthlyLimit,\* MONTHLY_BUDGET_USD, of the brake
    DayHours,    \* MS_PER_DAY, in hours
    WeekDays,    \* 7
    MonthDays    \* days of a month

SpendingAssumption ==
    /\ DayLimit \in Nat /\ MonthLimit \in Nat /\ MaxCost \in Nat
    /\ Estimates \subseteq Nat \ {0} /\ IsFiniteSet(Callers)
    /\ DailyLimit \in Nat /\ MonthlyLimit \in Nat
    /\ DayHours > 0 /\ WeekDays > 0 /\ MonthDays > 0

VARIABLES
    spent,  \* the sum of llm_calls.cost_micro_usd since the day and the month began
    billed, \* what the providers have charged since the month began
    calls,  \* the exchange each caller awaits, and what it has paid for it
    begun,  \* calls that passed the veto so far, counted for their bound
    lost,   \* calls of processes that died
    rows,   \* the rows of llm_calls
    days    \* midnights so far, counted for their bound

spendVars == <<spent, billed, calls, begun, lost, rows, days>>

Idle == [pc |-> "idle", paid |-> 0]

InFlight == {c \in Callers : calls[c].pc # "idle"}

Init ==
    /\ spent = [day |-> 0, month |-> 0]
    /\ billed = 0
    /\ calls = [c \in Callers |-> Idle]
    /\ begun = 0 /\ lost = 0 /\ rows = 0 /\ days = 0

Left(limit, sum) == IF sum < limit THEN limit - sum ELSE 0

\* The month alone counts: a mutant of Remaining.
Remaining_Month(sums) == Left(MonthLimit, sums.month)

\* windowFor and snapshot: what is left of the day and of the month.
Remaining(sums) ==
    LET day == Left(DayLimit, sums.day)
        month == Left(MonthLimit, sums.month)
    IN IF day < month THEN day ELSE month

\* guardBudget lets the call go: checkBudget, on a hard limit.
Pass(c, estimate) ==
    /\ calls[c] = Idle /\ begun < MaxCalls
    /\ estimate <= Remaining(spent)
    /\ calls' = [calls EXCEPT ![c].pc = "first"]
    /\ begun' = begun + 1
    /\ UNCHANGED <<spent, billed, lost, rows, days>>

\* An answer is charged; one that is not the JSON that was asked for is sent
\* back once for its correction, and a second one fails the call.
Reply(c, cost) ==
    /\ calls[c].pc \in {"first", "second"}
    /\ billed' = billed + cost
    /\ \E pc \in {"answered", IF calls[c].pc = "first" THEN "second" ELSE "failed"} :
         calls' = [calls EXCEPT ![c] = [pc |-> pc, paid |-> @.paid + cost]]
    /\ UNCHANGED <<spent, begun, lost, rows, days>>

\* An error of the provider or of the network, charged or not.
Break(c, cost) ==
    /\ calls[c].pc \in {"first", "second"}
    /\ billed' = billed + cost
    /\ calls' = [calls EXCEPT ![c].pc = "failed"]
    /\ UNCHANGED <<spent, begun, lost, rows, days>>

\* The second row of a call whose cost the job could not take repeats its
\* cost: a mutant of Recorded.
Recorded_Twice(paid, noted) == IF noted THEN paid ELSE 2 * paid

\* The costs of the rows of one answered call: when onCost throws after the
\* row of the success, the catch writes a second one, of no cost.
Recorded(paid, noted) == paid

\* record of a success, then onCost.
Record(c, noted) ==
    /\ calls[c].pc = "answered"
    /\ LET cost == Recorded(calls[c].paid, noted)
       IN spent' = [day |-> spent.day + cost, month |-> spent.month + cost]
    /\ rows' = rows + (IF noted THEN 1 ELSE 2)
    /\ calls' = [calls EXCEPT ![c] = Idle]
    /\ UNCHANGED <<billed, begun, lost, days>>

\* A failure leaves no trace: a mutant of RowsOfFailure.
RowsOfFailure_None == 0

RowsOfFailure == 1

\* record of a failure, with no cost, whatever was paid.
RecordFailure(c) ==
    /\ calls[c].pc = "failed"
    /\ rows' = rows + RowsOfFailure
    /\ calls' = [calls EXCEPT ![c] = Idle]
    /\ UNCHANGED <<spent, billed, begun, lost, days>>

\* The process of a caller dies.
Crash(c) ==
    /\ calls[c] # Idle
    /\ calls' = [calls EXCEPT ![c] = Idle]
    /\ lost' = lost + 1
    /\ UNCHANGED <<spent, billed, begun, rows, days>>

\* periodStartMs: midnight, in the time zone of the user.
Midnight ==
    /\ days < MaxDays
    /\ days' = days + 1
    /\ spent' = [spent EXCEPT !.day = 0]
    /\ UNCHANGED <<billed, calls, begun, lost, rows>>

Next ==
    \/ \E c \in Callers :
         \/ \E estimate \in Estimates : Pass(c, estimate)
         \/ \E cost \in 1 .. MaxCost : Reply(c, cost)
         \/ \E cost \in 0 .. MaxCost : Break(c, cost)
         \/ \E noted \in BOOLEAN : Record(c, noted)
         \/ RecordFailure(c) \/ Crash(c)
    \/ Midnight

Spec == Init /\ [][Next]_spendVars

------------------------------------------------------------------------------
TypeOK ==
    /\ spent \in [day : Nat, month : Nat]
    /\ calls \in [Callers -> [pc : {"idle", "first", "second", "answered", "failed"},
                              paid : 0 .. 2 * MaxCost]]
    /\ billed \in Nat /\ begun \in Nat /\ lost \in Nat /\ rows \in Nat /\ days \in Nat

\* "Un veto, applique avant l'appel": a limit is passed by the calls in flight
\* only, a call and its correction for each caller, however they cross each
\* other and midnight.
OverspendIsInFlight ==
    /\ spent.day + 2 * MaxCost * Cardinality(InFlight) <= DayLimit + 2 * MaxCost * Cardinality(Callers)
    /\ spent.month + 2 * MaxCost * Cardinality(InFlight) <= MonthLimit + 2 * MaxCost * Cardinality(Callers)

\* "Un appel non journalise est un bug": a call that passed the veto has a row
\* once it is over, unless its process died.
EveryCallHasRow == begun - Cardinality(InFlight) - lost <= rows

\* No cost is invented or counted twice: what the rows sum to was charged.
CountedWasBilled == spent.day <= spent.month /\ spent.month <= billed

\* The converse, taken at its word, is false: an answer that stays unusable
\* after its correction, or an error after a charge, is recorded at no cost.
BilledIsCounted == InFlight = {} /\ lost = 0 => billed <= spent.month

------------------------------------------------------------------------------
(* The brake of the actions.                                               *)

Periods == <<"day", "week", "month">>

\* upsert of budget_limits (packages/database/src/repositories/analytics.ts):
\* a row that is written again replaces the one of its scope and period.
Upsert(stored, row) ==
    {other \in stored : other.scope # row.scope \/ other.period # row.period} \cup {row}

Stored(written) == FoldLeft(Upsert, {}, written)

\* effectiveLimit: the row of that scope and period, or what the environment
\* says of the whole; a set of one limit at most.
EffectiveLimit(stored, scope, period) ==
    LET found == {row \in stored : row.scope = scope /\ row.period = period} IN
    IF found # {} THEN {[limit |-> row.limit, hard |-> row.hard] : row \in found}
    ELSE IF scope = "global" /\ period = "day" THEN {[limit |-> DailyLimit, hard |-> TRUE]}
    ELSE IF scope = "global" /\ period = "month" THEN {[limit |-> MonthlyLimit, hard |-> TRUE]}
    ELSE {}

\* The scopes of an action: those of its project and of its task when it has one.
Scopes(action) ==
    <<"global">> \o (IF action.project THEN <<"project">> ELSE <<>>)
                 \o (IF action.task THEN <<"task">> ELSE <<>>)

\* The limits it is held against, scope by scope, period by period.
Candidates(stored, action) ==
    FlattenSeq([n \in 1 .. 3 * Len(Scopes(action)) |->
        LET period == Periods[((n - 1) % 3) + 1]
        IN SetToSeq({[period |-> period, limit |-> e.limit, hard |-> e.hard] :
             e \in EffectiveLimit(stored, Scopes(action)[((n - 1) \div 3) + 1], period)})])

\* Every spending counts, whatever its project and its task.
Exceeded(candidate, sums, estimate) == sums[candidate.period] + estimate > candidate.limit

Passed == [held |-> FALSE, warned |-> FALSE]

\* The first limit that is exceeded decides: a mutant of Verdict.
Verdict_First(verdict, candidate, exceeded) ==
    IF verdict # Passed \/ ~exceeded THEN verdict
    ELSE [held |-> candidate.hard, warned |-> ~candidate.hard]

\* One turn of the loop: a hard limit decides, the first soft one only warns.
Verdict(verdict, candidate, exceeded) ==
    IF verdict.held \/ ~exceeded THEN verdict
    ELSE [held |-> candidate.hard, warned |-> ~candidate.hard]

\* evaluateBudgetBrake.
Brake(stored, action, sums) ==
    FoldLeft(LAMBDA verdict, c : Verdict(verdict, c, Exceeded(c, sums, action.estimate)),
             Passed, Candidates(stored, action))

------------------------------------------------------------------------------
\* "Un plafond de tache respecte ne rachete pas un budget mensuel depasse":
\* whatever limits were written in whatever order, an action is held exactly
\* when it would pass the last hard limit of one of its scopes, wherever that
\* one comes among soft ones, and is warned of when only soft ones would be
\* passed; spending more never lets go what a lesser spending held.
HardLimitsHold(written, action, sums) ==
    LET brake == Brake(Stored(written), action, sums)
        Of(s, p) == {n \in DOMAIN written : written[n].scope = s /\ written[n].period = p}
        Default(s, p) ==
            CASE s = "global" /\ p = "day"   -> {[period |-> p, limit |-> DailyLimit, hard |-> TRUE]}
              [] s = "global" /\ p = "month" -> {[period |-> p, limit |-> MonthlyLimit, hard |-> TRUE]}
              [] OTHER                       -> {}
        Latest(s, p) == {[period |-> p, limit |-> written[n].limit, hard |-> written[n].hard] :
                           n \in {k \in Of(s, p) : \A other \in Of(s, p) : other <= k}}
        over == {c \in UNION {IF Of(s, p) = {} THEN Default(s, p) ELSE Latest(s, p) :
                                s \in ToSet(Scopes(action)), p \in ToSet(Periods)} :
                   Exceeded(c, sums, action.estimate)}
    IN /\ brake.held <=> \E c \in over : c.hard
       /\ brake.warned <=> over # {} /\ \A c \in over : ~c.hard
       /\ \A p \in ToSet(Periods) :
            brake.held => Brake(Stored(written), action, [sums EXCEPT ![p] = @ + 1]).held

------------------------------------------------------------------------------
(* The periods.  An instant is counted in hours since a Monday that begins *)
(* a month, at Greenwich; a zone is its difference with Greenwich before   *)
(* and after the hour at which its clocks change.  Months have one length. *)

\* zoneOffsetMs: what the calendar of the zone shows, less the instant.
Offset(zone, t) == IF t < zone.change THEN zone.before ELSE zone.after

Local(zone, t) == t + Offset(zone, t)

\* zonedParts: the date, as the days since the first one.
Date(zone, t) == Local(zone, t) \div DayHours

\* The day of Greenwich: a mutant of StartOfDay.
StartOfDay_Greenwich(zone, t) == t - (t % DayHours)

\* startOfDayMs, with the difference of the instant itself.
StartOfDay(zone, t) == t - (Local(zone, t) % DayHours)

\* weekdayIndex: of the date alone.
Weekday(zone, t) == Date(zone, t) % WeekDays

\* startOfWeekMs: days of equal lengths before that of the instant.
StartOfWeek(zone, t) == StartOfDay(zone, t) - Weekday(zone, t) * DayHours

\* The difference of today: a mutant of StartOfMonth.
StartOfMonth_Today(zone, t) ==
    (Date(zone, t) - (Date(zone, t) % MonthDays)) * DayHours - Offset(zone, t)

\* startOfMonthMs, in two passes.
StartOfMonth(zone, t) ==
    LET guess == (Date(zone, t) - (Date(zone, t) % MonthDays)) * DayHours
    IN guess - Offset(zone, guess - Offset(zone, guess))

------------------------------------------------------------------------------
\* The first hour of that date in the zone, by its clocks: a reference.
BeginningOf(zone, date) ==
    CHOOSE t \in (date - 1) * DayHours .. (date + 1) * DayHours :
        Date(zone, t) = date /\ Date(zone, t - 1) < date

Beginning(zone, t, span) == BeginningOf(zone, Date(zone, t) - (Date(zone, t) % span))

Size(n) == IF n < 0 THEN -n ELSE n

\* "Un passage a l'heure d'ete peut decaler la borne d'une heure": a day and a
\* week begin when they do by the clocks of the zone, but for the change of the
\* clocks once it has come in that day or that week; a month begins when it
\* does, whenever it is asked for.
PeriodsAreLocal(zone, t) ==
    LET error == Size(zone.after - zone.before)
        Near(start, beginning) ==
            /\ Size(start - beginning) <= error
            /\ ~(beginning < zone.change /\ zone.change <= t) => start = beginning
    IN /\ Near(StartOfDay(zone, t), Beginning(zone, t, 1))
       /\ Near(StartOfWeek(zone, t), Beginning(zone, t, WeekDays))
       /\ StartOfMonth(zone, t) = Beginning(zone, t, MonthDays)
==============================================================================

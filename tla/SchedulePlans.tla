--------------------------- MODULE SchedulePlans ---------------------------
(***************************************************************************)
(* The plans that plenora-runtime-scheduler offers (one shot, fixed        *)
(* interval, cron, jittered), and the checks of a scheduler's              *)
(* configuration and of a schedule's identity.                             *)
(*                                                                         *)
(* An instant is a number of ticks since the earliest representable one; a *)
(* cron expression in its time zone is the set of instants it names, text  *)
(* a record of the facts that the checks look at.                          *)
(***************************************************************************)
EXTENDS Integers, OrderedChecks

CONSTANTS
    Latest,         \* the last instant SystemTime can represent
    MaxTextBytes    \* MAX_CRON_EXPRESSION_BYTES, MAX_TIMEZONE_NAME_BYTES, MAX_SCHEDULE_ID_BYTES

Never == -1

\* SystemTime::checked_add and ::checked_sub.
CheckedAdd(t, d) == IF t + d <= Latest THEN t + d ELSE Never
CheckedSub(t, d) == IF t - d >= 0 THEN t - d ELSE Never

----------------------------------------------------------------------------
(* Constructors.                                                            *)

OneShot(due) == [kind |-> "OneShot", first |-> due, interval |-> 0, names |-> {}, delay |-> 0]

\* FixedIntervalPlan::new.
IntervalVerdict(interval) == IF interval = 0 THEN "ZeroInterval" ELSE Ok
FixedInterval(first, interval) ==
    [kind |-> "FixedInterval", first |-> first, interval |-> interval, names |-> {}, delay |-> 0]

\* The cron library: the first instant of the expression after the given one.
CronNext(names, after) ==
    LET later == {t \in names : t > after}
    IN  IF later = {} THEN Never ELSE CHOOSE t \in later : \A u \in later : t <= u

\* CronPlan::new; parses says whether the libraries understand the text.
CronVerdict(expression, zone, names, firstAfter) ==
    FirstFailure(<<
        <<expression.blank, "EmptyExpression">>,
        <<expression.bytes > MaxTextBytes, "ExpressionTooLarge">>,
        <<zone.blank, "EmptyTimezone">>,
        <<zone.bytes > MaxTextBytes, "TimezoneTooLarge">>,
        <<~zone.parses, "InvalidTimezone">>,
        <<~expression.parses, "InvalidExpression">>,
        <<CronNext(names, firstAfter) = Never, "NoFutureOccurrence">>>>)
Cron(names, firstAfter) ==
    [kind |-> "Cron", first |-> CronNext(names, firstAfter), interval |-> 0,
     names |-> names, delay |-> 0]

\* JitteredPlan::new; sample stands for the mixed seed.  A delay that the first
\* instant cannot be moved by is not applied at all.
Jittered(inner, maximum, sample) ==
    LET sampled == sample % (maximum + 1)
    IN  [inner EXCEPT !.delay = IF CheckedAdd(inner.first, sampled) # Never THEN sampled ELSE 0]

----------------------------------------------------------------------------
(* The SchedulePlan trait.                                                  *)

FirstDueAt(plan) == CheckedAdd(plan.first, plan.delay)

InnerNext(plan, previous) ==
    CASE plan.kind = "OneShot" -> Never
      [] plan.kind = "FixedInterval" -> CheckedAdd(previous, plan.interval)
      [] plan.kind = "Cron" -> CronNext(plan.names, previous)

\* The base instant is recovered from the previous one, then moved again.
PlanNextAfter(plan, previous) ==
    LET base == CheckedSub(previous, plan.delay)
        next == IF base = Never THEN Never ELSE InnerNext(plan, base)
    IN  IF next = Never THEN Never ELSE CheckedAdd(next, plan.delay)

----------------------------------------------------------------------------
(* Configuration and identity.                                              *)

\* SchedulerConfig::validate.
SchedulerConfigVerdict(c) ==
    FirstFailure(<<
        <<c.tick = 0, "ZeroTickInterval">>,
        <<c.timeout = 0, "ZeroDispatchTimeout">>,
        <<c.schedules = 0, "ZeroScheduleCapacity">>,
        <<c.dispatches = 0, "ZeroDispatchCapacity">>,
        <<c.catchUp = 0, "ZeroCatchUpCapacity">>>>)

\* ScheduleId::new.
ScheduleIdVerdict(text) ==
    FirstFailure(<<
        <<text.bytes = 0, "Empty">>,
        <<text.bytes > MaxTextBytes, "TooLong">>,
        <<~text.plain, "InvalidCharacter">>>>)

----------------------------------------------------------------------------
(* Reference definitions, over all instants.                                *)

\* The instants a plan names when each is asked for after the previous one.
Occurrences(plan) ==
    LET due[n \in 0..(Latest + 1)] ==
            IF n = 0 THEN FirstDueAt(plan)
            ELSE IF due[n - 1] = Never THEN Never ELSE PlanNextAfter(plan, due[n - 1])
    IN  {due[n] : n \in 0..(Latest + 1)} \ {Never}

\* The same without walking: what the constructor was given, every instant late by
\* the delay, as long as it can be represented.
Named(plan) ==
    LET base == CASE plan.kind = "OneShot" -> {plan.first}
                  [] plan.kind = "FixedInterval" ->
                         {t \in plan.first..Latest : (t - plan.first) % plan.interval = 0}
                  [] plan.kind = "Cron" -> {t \in plan.names : t >= plan.first}
    IN  {t + plan.delay : t \in base} \cap 0..Latest
=============================================================================

---------------------------- MODULE MCScheduler ----------------------------
(* Small instances of Scheduler for TLC, and the plans checked against     *)
(* their reference definition.                                              *)
EXTENDS Scheduler, SchedulePlans

\* Schedule 1 fires every second until just before the end of time, when its
\* plan answers an instant that is not later.  Any other one fires at 0 only.
MCNextAfter(id, due) ==
    IF id # 1 THEN None ELSE IF due + 1 < MaxTime THEN due + 1 ELSE due

\* Every plan that each constructor accepts over the representable instants.
Text == [blank |-> FALSE, bytes |-> 1, parses |-> TRUE]
BasePlans ==
    {OneShot(due) : due \in 0..Latest}
    \cup {FixedInterval(first, interval) :
             first \in 0..Latest, interval \in {i \in 0..Latest : IntervalVerdict(i) = Ok}}
    \cup {Cron(given[1], given[2]) :
             given \in {g \in (SUBSET (0..Latest)) \X (-1..Latest) :
                           CronVerdict(Text, Text, g[1], g[2]) = Ok}}
Plans ==
    {Jittered(p, maximum, sample) : p \in BasePlans, maximum \in 0..3, sample \in 0..3}

\* A plan that was accepted has a first occurrence; jitter moves every occurrence of
\* a plan by one delay and loses none but those that cannot be represented; and a
\* plan that is walked never stands still, so the filter of advance_once completes no
\* schedule early.
ASSUME PlansWalkForward ==
    \A plan \in Plans :
        /\ FirstDueAt(plan) # Never /\ Occurrences(plan) = Named(plan)
        /\ \A due \in Named(plan) :
               PlanNextAfter(plan, due) # Never => PlanNextAfter(plan, due) > due

\* A configuration is accepted exactly when the bounds the scheduler relies on hold.
ASSUME ConfigurationsBounded ==
    \A c \in [tick : 0..1, timeout : 0..1, schedules : 0..1, dispatches : 0..1, catchUp : 0..1] :
        SchedulerConfigVerdict(c) = Ok <=> \A field \in DOMAIN c : c[field] # 0

\* An identifier or a cron text is never accepted empty or beyond its bound, whatever
\* else is wrong with it.
ASSUME TextsBounded ==
    \A bytes \in 0..(MaxTextBytes + 1), plain, parses \in BOOLEAN :
        LET text == [blank |-> bytes = 0, bytes |-> bytes, plain |-> plain, parses |-> parses]
            fits == bytes \in 1..MaxTextBytes
        IN  /\ ScheduleIdVerdict(text) = Ok => fits
            /\ CronVerdict(text, Text, {Latest}, -1) = Ok \/ CronVerdict(Text, text, {Latest}, -1) = Ok
                   => fits /\ parses

============================================================================

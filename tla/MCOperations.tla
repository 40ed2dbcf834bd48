---------------------------- MODULE MCOperations ----------------------------
(***************************************************************************)
(* Operations for TLC: three clients, two reporting threads, one that only *)
(* runs tasks, and two monitors, taken together as the casts say.          *)
(***************************************************************************)
EXTENDS Operations, TLC

CONSTANTS c1, c2, c3, t1, t2, t3, f1, f2, j1

Text(name, bytes, plain) ==
    [name |-> name, bytes |-> bytes, plain |-> plain, task |-> FALSE, known |-> name = "nightly"]
Worker == Text("w", 1, TRUE)
SchedulerName == Text("s", 1, TRUE)
Nightly == Text("nightly", 1, TRUE)
TaskText == [Nightly EXCEPT !.name = j1, !.task = TRUE]
SmallBody == [bytes |-> 1, parses |-> TRUE, millis |-> 1]

Ask(op, component, target) ==
    [op |-> op, component |-> component, target |-> target, authorized |-> TRUE,
     body |-> SmallBody]
Trigger == Ask("trigger_schedule", SchedulerName, Nightly)

\* Each operation as it should be asked, and each way a handler refuses one.
AllRequests ==
    {Ask(op, Worker, TaskText) : op \in WorkerOps}
    \cup {Ask(op, SchedulerName, Nightly) : op \in ScheduleOps \cup {"scheduler"}}
    \cup {Ask("components", Worker, Nightly), Ask("memory", Worker, Nightly)}
    \cup {Ask("pause_worker", Text("w", 0, TRUE), Nightly),
          Ask("cancel_task", Worker, Nightly),
          Ask("pause_schedule", SchedulerName, Text("nightly", 3, TRUE)),
          Ask("pause_schedule", SchedulerName, Text("other", 1, TRUE)),
          [Ask("drain_worker", Worker, Nightly) EXCEPT !.authorized = FALSE],
          [Trigger EXCEPT !.body.bytes = 3],
          [Trigger EXCEPT !.body.parses = FALSE],
          [Trigger EXCEPT !.body.millis = 3]}

\* One client asks for everything on its own; the other two ask for what can race.
MCRequests ==
    (c1 :> {Ask(op, Worker, TaskText) : op \in WorkerOps}
           \cup {Trigger, Ask("pause_schedule", SchedulerName, Nightly)}) @@
    (c2 :> {Ask(op, Worker, TaskText) : op \in {"pause_worker", "resume_worker"}} \cup {Trigger}) @@
    (c3 :> AllRequests)
MCRegistrations == {<<"Worker", "w">>, <<"Worker", "v">>, <<"Scheduler", "s">>}
MCCasts == {{c1, c2}, {c3}, {t1, t2}, {t3, f1, f2}}
MCLimits == [Worker |-> 1, Scheduler |-> 1, Memory |-> 1, Subprocess |-> 1]

\* No two outcomes, states or kinds share a word on the wire.
ASSUME WireWordsDistinct ==
    \A words \in {MutationWord, CancellationWord, TriggerWord, GateWord, StatusWord, KindWord} :
        \A a, b \in DOMAIN words : words[a] = words[b] => a = b

\* The health and the readiness of the whole do not depend on the order in which the
\* registry goes through its components, and one component that is not healthy shows.
ASSUME AggregatesOrderFree ==
    /\ \A a, b, c \in HealthStatus :
           /\ AggregateHealth(a, b) = AggregateHealth(b, a)
           /\ AggregateHealth(a, AggregateHealth(b, c)) = AggregateHealth(AggregateHealth(a, b), c)
    /\ \A a, b, c \in ReadinessStatus :
           /\ AggregateReadiness(a, b) = AggregateReadiness(b, a)
           /\ AggregateReadiness(a, AggregateReadiness(b, c))
                  = AggregateReadiness(AggregateReadiness(a, b), c)
    /\ \A view \in [{"a", "b"} -> HealthStatus \cup {Absent}] :
           Health(view) = "Healthy" <=> Reports(view) \subseteq {"Healthy"}

\* A plane that reserves nothing for some kind is refused.
ASSUME PlaneConfigChecked ==
    \A zero \in SUBSET KindSet :
        PlaneConfigVerdict([k \in KindSet |-> IF k \in zero THEN 0 ELSE 1]) = Ok <=> zero = {}

\* A worker's configuration is accepted exactly when it sets nothing to zero, whatever
\* it leaves unset, and the run's own capacity and queue are accepted.
ASSUME WorkerConfigChecked ==
    /\ \A config \in [inFlight : 0..1, shutdownGrace : 0..1, timeout : -1..1,
                      cancellationGrace : 0..1, heartbeat : -1..1] :
           /\ WorkerConfigVerdict(config) = Ok <=> \A field \in DOMAIN config : config[field] # 0
           /\ WorkerConfigVerdict([config EXCEPT !.inFlight = Capacity]) # "ZeroMaxInFlight"
    /\ ChannelConfigOk(QueueCapacity) /\ CadenceOk(1)
=============================================================================

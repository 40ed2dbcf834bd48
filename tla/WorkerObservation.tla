-------------------------- MODULE WorkerObservation --------------------------
(***************************************************************************)
(* What a worker tells of itself: instance heartbeats numbered under a     *)
(* lock and observed after it, task events, the bounded queue that hands   *)
(* both to one receiver without ever waiting, and the projection of the    *)
(* queue's state into the health registry.  The hand-off's statistics are  *)
(* left out: nothing in the code reads them back.                          *)
(*                                                                         *)
(* A thread is split where the code drops the lock and between two atomic  *)
(* accesses.  The worker's load is sampled from the bounded pool.          *)
(***************************************************************************)
EXTENDS BoundedPool, Sequences, OrderedChecks, HealthRegistry

CONSTANTS
    Threads,        \* threads that observe:
    Reporters,      \* these hold the heartbeat reporter, the others run tasks
    Refreshers,     \* application monitors that refresh the health registry
    Peer,           \* another component of the registry
    Required,       \* WorkerLifecycleHealthCriticality::Required
    QueueCapacity,  \* WorkerLifecycleChannelConfig::capacity
    MaxSequence,    \* u64::MAX of the heartbeat sequence
    MaxTaskEvents   \* bound: task events

VARIABLES
    reporter,       \* ReporterState: status and sequence
    thread,         \* where each caller is, and what it is about to observe
    queue, closed,  \* the channel, and whether its receiver closed or is gone
    receiver,       \* "open" or "dropped"; "none" when the hand-off is not looked at
    observed,       \* ghost: sequence, status and thread of the heartbeats that were built
    events,         \* task events so far
    refresh,        \* each monitor's refresh
    healthView, readinessView

observationVars == <<reporter, thread, queue, closed, receiver, observed, events,
                     refresh, healthView, readinessView>>

Rank == [Starting |-> 0, Ready |-> 1, Draining |-> 2, Stopped |-> 3]
Lifecycle == "lifecycle"

Heartbeat(sequence, status, load) ==
    [sequence |-> sequence, status |-> status, inFlight |-> load,
     available |-> IF load > Capacity THEN 0 ELSE Capacity - load]
NoHeartbeat == Heartbeat(0, "Starting", 0)
TaskEvent == NoHeartbeat    \* of a task event only its place in the queue matters

Idle == [pc |-> "idle", item |-> NoHeartbeat]
Quiet == [pc |-> "idle", available |-> 0, state |-> "Open"]

----------------------------------------------------------------------------
(* Configuration.                                                           *)

\* WorkerLifecycleChannelConfig::new and WorkerInstanceHeartbeatConfig::new.
ChannelConfigOk(capacity) == capacity # 0
CadenceOk(interval) == interval # 0

\* WorkerConfig::validate; an option that is not set is -1.
WorkerConfigVerdict(config) ==
    FirstFailure(<<
        <<config.inFlight = 0, "ZeroMaxInFlight">>,
        <<config.shutdownGrace = 0, "ZeroShutdownGracePeriod">>,
        <<config.timeout = 0, "ZeroExecutionTimeout">>,
        <<config.cancellationGrace = 0, "ZeroTaskCancellationGracePeriod">>,
        <<config.heartbeat = 0, "ZeroLifecycleHeartbeatInterval">>>>)

----------------------------------------------------------------------------
(* The heartbeat reporter.                                                  *)

PutThread(t, k) == thread' = [thread EXCEPT ![t] = k]

\* record under the lock, with the transition asked for ("None" for a periodic
\* heartbeat).  The sequence is checked after the status has changed: a reporter
\* whose sequence is exhausted changes its status and observes nothing.
Record(t, transition) ==
    LET status == IF transition = "None" THEN reporter.status ELSE transition
        exhausted == reporter.sequence = MaxSequence
    IN  /\ t \in Reporters
        /\ thread[t].pc = "idle"
        /\ Rank[status] >= Rank[reporter.status]
        /\ reporter' = [status |-> status,
                        sequence |-> IF exhausted THEN MaxSequence ELSE reporter.sequence + 1]
        /\ IF exhausted THEN UNCHANGED thread
           ELSE PutThread(t, [Idle EXCEPT !.pc = "sample",
                                          !.item = Heartbeat(reporter'.sequence, status, 0)])
        /\ UNCHANGED <<queue, closed, receiver, observed, events, refresh,
                       healthView, readinessView, poolVars>>

\* Mutant: the status, too, is read after the lock is dropped.
SampleLate(t) ==
    LET beat == Heartbeat(thread[t].item.sequence, reporter.status, Cardinality(counted))
    IN  /\ thread[t].pc = "sample"
        /\ observed' = observed \cup {[sequence |-> beat.sequence, status |-> beat.status, by |-> t]}
        /\ PutThread(t, [thread[t] EXCEPT !.pc = "send", !.item = beat])
        /\ UNCHANGED <<reporter, queue, closed, receiver, events, refresh,
                       healthView, readinessView, poolVars>>

\* record after the lock: the load is sampled and the heartbeat built.
Sample(t) ==
    LET beat == Heartbeat(thread[t].item.sequence, thread[t].item.status, Cardinality(counted))
    IN  /\ thread[t].pc = "sample"
        /\ observed' = observed \cup {[sequence |-> beat.sequence, status |-> beat.status, by |-> t]}
        /\ PutThread(t, [thread[t] EXCEPT !.pc = "send", !.item = beat])
        /\ UNCHANGED <<reporter, queue, closed, receiver, events, refresh,
                       healthView, readinessView, poolVars>>

\* A task attempt reports its state to the same dispatcher.
ObserveTask(t) ==
    /\ t \notin Reporters
    /\ thread[t].pc = "idle"
    /\ listed # {}
    /\ events < MaxTaskEvents
    /\ events' = events + 1
    /\ PutThread(t, [Idle EXCEPT !.pc = "send", !.item = TaskEvent])
    /\ UNCHANGED <<reporter, queue, closed, receiver, observed, refresh,
                   healthView, readinessView, poolVars>>

----------------------------------------------------------------------------
(* The bounded hand-off.                                                    *)

\* dispatch: try_send never waits; what it cannot place is dropped.
Dispatch(t) ==
    /\ thread[t].pc = "send"
    /\ queue' = IF closed \/ Len(queue) = QueueCapacity THEN queue
                ELSE Append(queue, thread[t].item)
    /\ PutThread(t, Idle)
    /\ UNCHANGED <<reporter, closed, receiver, observed, events, refresh,
                   healthView, readinessView, poolVars>>

Recv ==
    /\ receiver = "open"
    /\ queue # <<>>
    /\ queue' = Tail(queue)
    /\ UNCHANGED <<reporter, thread, closed, receiver, observed, events, refresh,
                   healthView, readinessView, poolVars>>

\* close keeps what is queued for the receiver; dropping the receiver does not.
Close(keep) ==
    /\ receiver = "open"
    /\ ~closed \/ ~keep
    /\ closed' = TRUE
    /\ receiver' = IF keep THEN "open" ELSE "dropped"
    /\ queue' = IF keep THEN queue ELSE <<>>
    /\ UNCHANGED <<reporter, thread, observed, events, refresh,
                   healthView, readinessView, poolVars>>

----------------------------------------------------------------------------
(* Health.                                                                  *)

HealthOf(state) ==
    IF state = "Open" THEN "Healthy"
    ELSE IF state = "Closed" /\ Required THEN "Unhealthy" ELSE "Degraded"

\* Mutant: saturation and loss of the receiver are a matter of health only.
ReadinessOfOptional(state) == "Ready"

ReadinessOf(state) == IF Required /\ state # "Open" THEN "NotReady" ELSE "Ready"

Refreshing(f, pc) == refresh[f].pc = pc
Move(f, k) == refresh' = [refresh EXCEPT ![f] = k]
OnlyRefresh == UNCHANGED <<reporter, thread, queue, closed, receiver, observed,
                           events, poolVars>>

\* snapshot: the free slots, and then whether the receiver is gone.
ReadSlots(f) ==
    /\ Refreshing(f, "idle")
    /\ Move(f, [Quiet EXCEPT !.pc = "closed", !.available = QueueCapacity - Len(queue)])
    /\ OnlyRefresh
    /\ UNCHANGED <<healthView, readinessView>>

ReadClosed(f) ==
    /\ Refreshing(f, "closed")
    /\ Move(f, [refresh[f] EXCEPT !.pc = "health",
                    !.state = IF closed THEN "Closed"
                              ELSE IF refresh[f].available = 0 THEN "Saturated" ELSE "Open"])
    /\ OnlyRefresh
    /\ UNCHANGED <<healthView, readinessView>>

\* refresh: two writes of the registry.
SetHealth(f) ==
    /\ Refreshing(f, "health")
    /\ healthView' = Reported(healthView, Lifecycle, HealthOf(refresh[f].state))
    /\ Move(f, [refresh[f] EXCEPT !.pc = "readiness"])
    /\ OnlyRefresh
    /\ UNCHANGED readinessView

SetReadiness(f) ==
    /\ Refreshing(f, "readiness")
    /\ readinessView' = Reported(readinessView, Lifecycle, ReadinessOf(refresh[f].state))
    /\ Move(f, Quiet)
    /\ OnlyRefresh
    /\ UNCHANGED healthView

\* remove: a monitor takes the component out of both views, for good.
RemoveHealth(f) ==
    /\ Refreshing(f, "idle")
    /\ healthView' = Removed(healthView, Lifecycle)
    /\ Move(f, [Quiet EXCEPT !.pc = "remove"])
    /\ OnlyRefresh
    /\ UNCHANGED readinessView

RemoveReadiness(f) ==
    /\ Refreshing(f, "remove")
    /\ readinessView' = Removed(readinessView, Lifecycle)
    /\ Move(f, [Quiet EXCEPT !.pc = "gone"])
    /\ OnlyRefresh
    /\ UNCHANGED healthView

----------------------------------------------------------------------------
\* The callers and monitors in `present` exist.
ObservationInit(present) ==
    /\ reporter = [status |-> "Starting", sequence |-> 0]
    /\ thread = [t \in Threads |-> IF t \in present THEN Idle ELSE [Idle EXCEPT !.pc = "absent"]]
    /\ queue = <<>> /\ closed = FALSE /\ receiver = (IF present \cap (Threads \cup Refreshers) = {} THEN "none" ELSE "open")
    /\ observed = {}
    /\ events = 0
    /\ refresh = [f \in Refreshers |->
                    IF f \in present THEN Quiet ELSE [Quiet EXCEPT !.pc = "absent"]]
    /\ healthView = [c \in {Lifecycle, Peer} |-> IF c = Peer THEN "Healthy" ELSE Absent]
    /\ readinessView = [c \in {Lifecycle, Peer} |-> IF c = Peer THEN "Ready" ELSE Absent]

\* What a thread that is observing does by itself.
ObserverStep(t) == Sample(t) \/ Dispatch(t)
RefreshStep(f) ==
    \/ ReadSlots(f)
    \/ ReadClosed(f)
    \/ SetHealth(f)
    \/ SetReadiness(f)
    \/ RemoveReadiness(f)

----------------------------------------------------------------------------
(* Properties.                                                              *)

\* Heartbeats may be observed out of order, but their sequence numbers put them in
\* order again: no two carry the same number, and a later one never shows an earlier
\* lifecycle status.
HeartbeatsOrdered ==
    \A a, b \in observed :
        /\ a.sequence = b.sequence => a = b
        /\ a.sequence < b.sequence => Rank[a.status] <= Rank[b.status]

\* Once the receiver of a required hand-off is gone the process stops being ready
\* and stays so, whatever refreshes with older snapshots were under way, unless a
\* monitor takes the component out of the registry.
ClosedShown ==
    Required /\ closed /\ (\E f \in Refreshers : ~Refreshing(f, "absent")) ~>
        [](\/ Readiness(readinessView) = "NotReady"
           \/ \E f \in Refreshers : Refreshing(f, "remove") \/ Refreshing(f, "gone"))
=============================================================================

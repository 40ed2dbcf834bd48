--------------------------- MODULE WorkerExecutor ---------------------------
(***************************************************************************)
(* WorkerExecutor of plenora-runtime-worker: an admission gate, a          *)
(* semaphore of execution permits, the in-flight count that drain waits    *)
(* for, the registry of cancellable tasks, and for every execute call a    *)
(* first-writer-wins cancellation token and a lifecycle reporter.          *)
(*                                                                         *)
(* The gate, the semaphore, the registry and the tokens are separate       *)
(* atomics or locks; an action touches one of them at a time, as the code  *)
(* does.  A slot j of Jobs is one execute future at a time.                *)
(***************************************************************************)
EXTENDS Integers, FiniteSets

CONSTANTS
    Jobs,               \* slots for concurrent execute calls
    MaxInFlight,        \* WorkerConfig::concurrency.max_in_flight
    ExecutionTimeout,   \* whether WorkerConfig::execution_timeout is set
    OwnerReasons,       \* reasons with which an adapter or the handler cancels the token
    MessageOf(_)        \* the broker message an execute call carries

ASSUME CapacityAssumption == MaxInFlight \in Nat \ {0}
ASSUME OwnerAssumption == OwnerReasons \subseteq {"LeaseLost", "Timeout"}
ASSUME TimeoutAssumption == ExecutionTimeout \in BOOLEAN

None == "None"
AdmissionStates == {"Accepting", "Paused", "Draining"}
AdmissionReasons == {"Draining", "ShutdownRequested", "ControlCapacityUnavailable", "Paused"}
CancellationReasons ==
    {"Timeout", "LeaseLost", "Requested", "ExecutionDropped", "RuntimeShutdown",
     "WorkerDraining", "ControlCapacityUnavailable", "AdmissionPaused"}

\* The outcome of an execute call; "Dropped" when the future never returned.
Result ==
    [kind : {"Pending", "Ok", "Handler", "TimedOut", "Dropped"}, reason : {None}]
    \cup [kind : {"Admission"}, reason : AdmissionReasons]
    \cup [kind : {"Cancelled"}, reason : CancellationReasons]

\* TaskState.
TaskState ==
    [kind : {"Queued", "Running", "Succeeded", "Failed", "TimedOut"}, reason : {None}]
    \cup [kind : {"Cancelled"}, reason : CancellationReasons]

Plain(kind) == [kind |-> kind, reason |-> None]
Cancelled(reason) == [kind |-> "Cancelled", reason |-> reason]
Admission(reason) == [kind |-> "Admission", reason |-> reason]

VARIABLES
    admission,  \* Lifecycle::admission
    inFlight,   \* Lifecycle::in_flight
    available,  \* permits the semaphore can hand out
    closed,     \* the semaphore is closed
    closing,    \* a begin_drain call is between its unlock and its close
    registry,   \* ActiveTaskRegistry::tasks
    shutdown,   \* the runtime's ShutdownSignal
    job,        \* the state of each execute call
    drain       \* the state of the drain call

vars == <<admission, inFlight, available, closed, closing, registry, shutdown, job, drain>>

Job == [pc : {"idle", "waiting", "permitted", "admitting", "refused", "started",
              "running", "cleanup", "leave", "finish", "release", "guard", "done"},
        token : CancellationReasons \cup {None},
        state : TaskState, result : Result, invoked : BOOLEAN]

Drain == [pc : {"idle", "closing", "begun", "subscribe", "check", "waiting", "done"},
          notified : BOOLEAN, outcome : {None, "Completed", "TimedOut"}]

Idle == [pc |-> "idle", token |-> None, state |-> Plain("Queued"),
         result |-> Plain("Pending"), invoked |-> FALSE]

----------------------------------------------------------------------------
(* Pure helpers.                                                            *)

\* TaskCancellationToken::cancel: the first reason stays.
Cancel(token, reason) == IF token = None THEN reason ELSE token

IsTerminal(state) == state.kind \in {"Succeeded", "Failed", "TimedOut", "Cancelled"}

\* TaskProgressReporter::transition.
Transition(state, next) == IF IsTerminal(state) THEN state ELSE next

\* The cancellation finish_admission records for a rejection.
RejectionReason(reason) ==
    CASE reason = "Draining" -> "WorkerDraining"
      [] reason = "ShutdownRequested" -> "RuntimeShutdown"
      [] reason = "ControlCapacityUnavailable" -> "ControlCapacityUnavailable"
      [] reason = "Paused" -> "AdmissionPaused"

\* Mutant: a rejection is returned but not reported.
RejectedUnreported(k, reason) ==
    [k EXCEPT !.token = Cancel(@, RejectionReason(reason)), !.result = Admission(reason)]

\* finish_admission, and the error execute returns with it.
Rejected(k, reason) ==
    [k EXCEPT !.token = Cancel(@, RejectionReason(reason)),
              !.state = Transition(@, Cancelled(RejectionReason(reason))),
              !.result = Admission(reason)]

\* A cancellation observed before the handler was invoked.
CancelledBefore(k) ==
    [k EXCEPT !.state = Transition(@, Cancelled(k.token)), !.result = Cancelled(k.token)]

\* The reason a gate that does not accept gives.
GateReason == IF admission = "Paused" THEN "Paused" ELSE "Draining"

\* The lifecycle state that reports a result of the handler.
Reports(result) ==
    CASE result.kind = "Ok" -> Plain("Succeeded")
      [] result.kind = "Handler" -> Plain("Failed")
      [] result.kind = "TimedOut" -> Plain("TimedOut")
      [] result.kind = "Cancelled" -> Cancelled(result.reason)

At(j, pc) == job[j].pc = pc
Put(j, k) == job' = [job EXCEPT ![j] = k]

----------------------------------------------------------------------------
(* execute.                                                                 *)

\* install_lifecycle, then admission_rejection.
Execute(j) ==
    LET k == [Idle EXCEPT !.pc = "done"]
    IN  /\ At(j, "idle")
        /\ Put(j, IF shutdown THEN Rejected(k, "ShutdownRequested")
                  ELSE IF admission # "Accepting" THEN Rejected(k, GateReason)
                  ELSE [k EXCEPT !.pc = "waiting"])
        /\ UNCHANGED <<admission, inFlight, available, closed, closing, registry,
                       shutdown, drain>>

\* The three branches of the select of acquire_execution_permit.
ObserveShutdown(j) ==
    /\ At(j, "waiting")
    /\ shutdown
    /\ Put(j, [Rejected(job[j], "ShutdownRequested") EXCEPT !.pc = "done"])
    /\ UNCHANGED <<admission, inFlight, available, closed, closing, registry, shutdown, drain>>

ObserveCancellation(j) ==
    /\ At(j, "waiting")
    /\ job[j].token # None
    /\ Put(j, [CancelledBefore(job[j]) EXCEPT !.pc = "done"])
    /\ UNCHANGED <<admission, inFlight, available, closed, closing, registry, shutdown, drain>>

AcquirePermit(j) ==
    /\ At(j, "waiting")
    /\ ~closed
    /\ available > 0
    /\ available' = available - 1
    /\ Put(j, [job[j] EXCEPT !.pc = "permitted"])
    /\ UNCHANGED <<admission, inFlight, closed, closing, registry, shutdown, drain>>

ObserveClosed(j) ==
    /\ At(j, "waiting")
    /\ closed
    /\ Put(j, [Rejected(job[j], GateReason) EXCEPT !.pc = "done"])
    /\ UNCHANGED <<admission, inFlight, available, closed, closing, registry, shutdown, drain>>

\* With the permit in hand both signals are looked at again; a permit that is
\* not used goes back when the error is returned.
RecheckSignals(j) ==
    LET k == [job[j] EXCEPT !.pc = "done"]
    IN  /\ At(j, "permitted")
        /\ IF shutdown THEN Put(j, Rejected(k, "ShutdownRequested"))
           ELSE IF k.token # None THEN Put(j, CancelledBefore(k))
           ELSE Put(j, [k EXCEPT !.pc = "admitting"])
        /\ available' = IF shutdown \/ k.token # None THEN available + 1 ELSE available
        /\ UNCHANGED <<admission, inFlight, closed, closing, registry, shutdown, drain>>

\* Mutant: the gate is trusted to be as admission_rejection saw it.
TryStartUnchecked(j) ==
    /\ At(j, "admitting")
    /\ inFlight' = inFlight + 1
    /\ Put(j, [job[j] EXCEPT !.pc = "started"])
    /\ UNCHANGED <<admission, available, closed, closing, registry, shutdown, drain>>

TryStart(j) ==
    /\ At(j, "admitting")
    /\ IF admission = "Accepting"
       THEN inFlight' = inFlight + 1 /\ Put(j, [job[j] EXCEPT !.pc = "started"])
       ELSE inFlight' = inFlight /\ Put(j, [job[j] EXCEPT !.pc = "refused"])
    /\ UNCHANGED <<admission, available, closed, closing, registry, shutdown, drain>>

\* The gate is read again, after try_start unlocked it, for the reason.
ReturnRefused(j) ==
    /\ At(j, "refused")
    /\ Put(j, [Rejected(job[j], GateReason) EXCEPT !.pc = "done"])
    /\ available' = available + 1
    /\ UNCHANGED <<admission, inFlight, closed, closing, registry, shutdown, drain>>

\* ActiveTaskRegistry::register, then run_handler up to the first poll.
Register(j) ==
    /\ At(j, "started")
    /\ IF Cardinality(registry) >= MaxInFlight
       THEN /\ Put(j, [Rejected(job[j], "ControlCapacityUnavailable") EXCEPT !.pc = "finish"])
            /\ registry' = registry
       ELSE /\ Put(j, [job[j] EXCEPT !.pc = "running", !.invoked = TRUE,
                                     !.state = Transition(@, Plain("Running"))])
            /\ registry' = registry \cup {j}
    /\ UNCHANGED <<admission, inFlight, available, closed, closing, shutdown, drain>>

----------------------------------------------------------------------------
(* The select loop of run_handler.                                          *)

Concludes(k, result) ==
    [k EXCEPT !.pc = "leave", !.state = Transition(@, Reports(result)), !.result = result]

\* Mutant: the handler's own result always classifies the execution.
HandlerReturnsUnchecked(j, result) ==
    /\ At(j, "running")
    /\ Put(j, Concludes(job[j], Plain(result)))
    /\ UNCHANGED <<admission, inFlight, available, closed, closing, registry, shutdown, drain>>

\* A handler that returns after its token was cancelled is cancelled.
HandlerReturns(j, result) ==
    /\ At(j, "running")
    /\ Put(j, Concludes(job[j], IF job[j].token # None THEN Cancelled(job[j].token)
                                ELSE Plain(result)))
    /\ UNCHANGED <<admission, inFlight, available, closed, closing, registry, shutdown, drain>>

\* Mutant: only an explicit request is listened to.
ObserveTaskRequested(j) ==
    /\ At(j, "running")
    /\ job[j].token = "Requested"
    /\ Put(j, [job[j] EXCEPT !.pc = "cleanup", !.result = Cancelled(job[j].token)])
    /\ UNCHANGED <<admission, inFlight, available, closed, closing, registry, shutdown, drain>>

ObserveTaskCancelled(j) ==
    /\ At(j, "running")
    /\ job[j].token # None
    /\ Put(j, [job[j] EXCEPT !.pc = "cleanup", !.result = Cancelled(job[j].token)])
    /\ UNCHANGED <<admission, inFlight, available, closed, closing, registry, shutdown, drain>>

\* The deadline; deadline_cancellation_reason gives the reason that won.
ExpireDeadline(j) ==
    LET observed == Cancel(job[j].token, "Timeout")
    IN  /\ At(j, "running")
        /\ ExecutionTimeout
        /\ Put(j, [job[j] EXCEPT !.pc = "cleanup", !.token = observed,
                                 !.result = IF observed = "Timeout" THEN Plain("TimedOut")
                                            ELSE Cancelled(observed)])
        /\ UNCHANGED <<admission, inFlight, available, closed, closing, registry,
                       shutdown, drain>>

\* wait_for_cleanup ends: the handler finished, or the grace period did.
FinishCleanup(j) ==
    /\ At(j, "cleanup")
    /\ Put(j, Concludes(job[j], job[j].result))
    /\ UNCHANGED <<admission, inFlight, available, closed, closing, registry, shutdown, drain>>

----------------------------------------------------------------------------
(* The guards of execute, dropped in reverse order of declaration.          *)

\* ActiveTaskGuard.
LeaveRegistry(j) ==
    /\ At(j, "leave")
    /\ registry' = registry \ {j}
    /\ Put(j, [job[j] EXCEPT !.pc = "finish"])
    /\ UNCHANGED <<admission, inFlight, available, closed, closing, shutdown, drain>>

\* InFlightGuard, before it notifies the waiters.
FinishInFlight(j) ==
    /\ At(j, "finish")
    /\ inFlight' = inFlight - 1
    /\ Put(j, [job[j] EXCEPT !.pc = "release"])
    /\ UNCHANGED <<admission, available, closed, closing, registry, shutdown, drain>>

\* Mutant: the waiters of the count are not notified.
ReleasePermitSilent(j) ==
    LET k == job[j]
    IN  /\ At(j, "release")
        /\ available' = available + 1
        /\ Put(j, IF k.result.kind # "Dropped" THEN [k EXCEPT !.pc = "done"]
                  ELSE IF k.token = None THEN [k EXCEPT !.pc = "guard"]
                  ELSE [k EXCEPT !.pc = "done", !.state = Transition(@, Cancelled(k.token))])
        /\ UNCHANGED <<admission, inFlight, closed, closing, registry, shutdown, drain>>

\* It notifies, then its permit goes back, then ExecutionGuard looks at the
\* token unless a result was returned.
ReleasePermit(j) ==
    LET k == job[j]
    IN  /\ At(j, "release")
        /\ available' = available + 1
        /\ drain' = [drain EXCEPT !.notified = TRUE]
        /\ Put(j, IF k.result.kind # "Dropped" THEN [k EXCEPT !.pc = "done"]
                  ELSE IF k.token = None THEN [k EXCEPT !.pc = "guard"]
                  ELSE [k EXCEPT !.pc = "done", !.state = Transition(@, Cancelled(k.token))])
        /\ UNCHANGED <<admission, inFlight, closed, closing, registry, shutdown>>

\* ExecutionGuard found no reason and records its own; another one may have been
\* recorded meanwhile.
GuardCancels(j) ==
    /\ At(j, "guard")
    /\ Put(j, [job[j] EXCEPT !.pc = "done", !.token = Cancel(@, "ExecutionDropped"),
                             !.state = Transition(@, Cancelled("ExecutionDropped"))])
    /\ UNCHANGED <<admission, inFlight, available, closed, closing, registry, shutdown, drain>>

\* The caller drops the future at one of its awaits, or the handler panics.
DropExecution(j) ==
    LET k == [job[j] EXCEPT !.result = Plain("Dropped")]
    IN  /\ job[j].pc \in {"waiting", "running", "cleanup"}
        /\ Put(j, IF ~At(j, "waiting") THEN [k EXCEPT !.pc = "leave"]
                  ELSE IF k.token = None THEN [k EXCEPT !.pc = "guard"]
                  ELSE [k EXCEPT !.pc = "done", !.state = Transition(@, Cancelled(k.token))])
        /\ UNCHANGED <<admission, inFlight, available, closed, closing, registry,
                       shutdown, drain>>

\* The caller consumes the outcome; the slot is free for another call.
Return(j) ==
    /\ At(j, "done")
    /\ Put(j, Idle)
    /\ UNCHANGED <<admission, inFlight, available, closed, closing, registry, shutdown, drain>>

----------------------------------------------------------------------------
(* Cancellation from outside.                                               *)

\* A holder of the token: the broker adapter that lost the lease, or the
\* capability dispatcher inside the handler whose deadline elapsed.
CancelToken(j, reason) ==
    /\ job[j].pc \notin {"idle", "done"}
    /\ job[j].token = None
    /\ Put(j, [job[j] EXCEPT !.token = reason])
    /\ UNCHANGED <<admission, inFlight, available, closed, closing, registry, shutdown, drain>>

\* request_cancellation.
RequestCancellation(j) ==
    /\ j \in registry
    /\ Put(j, [job[j] EXCEPT !.token = Cancel(@, "Requested")])
    /\ UNCHANGED <<admission, inFlight, available, closed, closing, registry, shutdown, drain>>

\* request_message_cancellation: every active attempt of the message.
RequestMessageCancellation(message) ==
    /\ job' = [j \in Jobs |-> IF j \in registry /\ MessageOf(j) = message
                              THEN [job[j] EXCEPT !.token = Cancel(@, "Requested")]
                              ELSE job[j]]
    /\ UNCHANGED <<admission, inFlight, available, closed, closing, registry, shutdown, drain>>

RequestShutdown ==
    /\ shutdown' = TRUE
    /\ UNCHANGED <<admission, inFlight, available, closed, closing, registry, job, drain>>

----------------------------------------------------------------------------
(* The admission gate.                                                      *)

PauseAdmission ==
    /\ admission = "Accepting"
    /\ admission' = "Paused"
    /\ UNCHANGED <<inFlight, available, closed, closing, registry, shutdown, job, drain>>

ResumeAdmission ==
    /\ admission = "Paused"
    /\ admission' = "Accepting"
    /\ UNCHANGED <<inFlight, available, closed, closing, registry, shutdown, job, drain>>

\* begin_drain of the admission handle, up to its unlock.
BeginDrain ==
    /\ admission # "Draining"
    /\ admission' = "Draining"
    /\ closing' = TRUE
    /\ UNCHANGED <<inFlight, available, closed, registry, shutdown, job, drain>>

ClosePermits ==
    /\ closing
    /\ closing' = FALSE
    /\ closed' = TRUE
    /\ UNCHANGED <<admission, inFlight, available, registry, shutdown, job, drain>>

----------------------------------------------------------------------------
(* drain: begin_drain, one look at the count, then wait_until_idle under    *)
(* the grace period.                                                        *)

DrainAt(pc) == drain.pc = pc

StartDrain ==
    /\ DrainAt("idle")
    /\ admission' = "Draining"
    /\ drain' = [drain EXCEPT !.pc = IF admission = "Draining" THEN "begun" ELSE "closing"]
    /\ UNCHANGED <<inFlight, available, closed, closing, registry, shutdown, job>>

DrainCloses ==
    /\ DrainAt("closing")
    /\ closed' = TRUE
    /\ drain' = [drain EXCEPT !.pc = "begun"]
    /\ UNCHANGED <<admission, inFlight, available, closing, registry, shutdown, job>>

DrainLooks ==
    /\ DrainAt("begun")
    /\ drain' = IF inFlight = 0
                THEN [drain EXCEPT !.pc = "done", !.outcome = "Completed"]
                ELSE [drain EXCEPT !.pc = "subscribe"]
    /\ UNCHANGED <<admission, inFlight, available, closed, closing, registry, shutdown, job>>

\* The Notified future exists before the count is read.
DrainSubscribes ==
    /\ DrainAt("subscribe")
    /\ drain' = [drain EXCEPT !.pc = "check", !.notified = FALSE]
    /\ UNCHANGED <<admission, inFlight, available, closed, closing, registry, shutdown, job>>

DrainChecks ==
    /\ DrainAt("check")
    /\ drain' = IF inFlight = 0
                THEN [drain EXCEPT !.pc = "done", !.outcome = "Completed"]
                ELSE [drain EXCEPT !.pc = "waiting"]
    /\ UNCHANGED <<admission, inFlight, available, closed, closing, registry, shutdown, job>>

DrainWakes ==
    /\ DrainAt("waiting")
    /\ drain.notified
    /\ drain' = [drain EXCEPT !.pc = "subscribe"]
    /\ UNCHANGED <<admission, inFlight, available, closed, closing, registry, shutdown, job>>

\* The grace period elapses and the count is read once more.
DrainExpires ==
    /\ drain.pc \in {"subscribe", "check", "waiting"}
    /\ drain' = [drain EXCEPT !.pc = "done",
                              !.outcome = IF inFlight = 0 THEN "Completed" ELSE "TimedOut"]
    /\ UNCHANGED <<admission, inFlight, available, closed, closing, registry, shutdown, job>>

----------------------------------------------------------------------------
Init ==
    /\ admission = "Accepting"
    /\ inFlight = 0
    /\ available = MaxInFlight
    /\ closed = FALSE
    /\ closing = FALSE
    /\ registry = {}
    /\ shutdown = FALSE
    /\ job = [j \in Jobs |-> Idle]
    /\ drain = [pc |-> "idle", notified |-> FALSE, outcome |-> None]

\* What an execute future does when it is polled, apart from the handler.
JobStep(j) ==
    \/ ObserveShutdown(j)
    \/ ObserveCancellation(j)
    \/ AcquirePermit(j)
    \/ ObserveClosed(j)
    \/ RecheckSignals(j)
    \/ TryStart(j)
    \/ ReturnRefused(j)
    \/ Register(j)
    \/ ObserveTaskCancelled(j)
    \/ FinishCleanup(j)
    \/ LeaveRegistry(j)
    \/ FinishInFlight(j)
    \/ ReleasePermit(j)
    \/ GuardCancels(j)

\* What drain does on its own, apart from the grace period.
DrainStep ==
    \/ DrainCloses
    \/ DrainLooks
    \/ DrainSubscribes
    \/ DrainChecks
    \/ DrainWakes

Next ==
    \/ \E j \in Jobs : Execute(j)
    \/ \E j \in Jobs : JobStep(j)
    \/ \E j \in Jobs, result \in {"Ok", "Handler"} : HandlerReturns(j, result)
    \/ \E j \in Jobs : ExpireDeadline(j)
    \/ \E j \in Jobs : DropExecution(j)
    \/ \E j \in Jobs : Return(j)
    \/ \E j \in Jobs, reason \in OwnerReasons : CancelToken(j, reason)
    \/ \E j \in Jobs : RequestCancellation(j)
    \/ \E j \in Jobs : RequestMessageCancellation(MessageOf(j))
    \/ RequestShutdown
    \/ PauseAdmission
    \/ ResumeAdmission
    \/ BeginDrain
    \/ ClosePermits
    \/ StartDrain
    \/ DrainStep
    \/ DrainExpires

Spec == Init /\ [][Next]_vars

\* Execute futures and the drain keep being polled, and a thread inside
\* begin_drain reaches its close.  Nothing is assumed of the handler, of the
\* caller, of the deadline or of the grace period of drain.
FairSpec ==
    /\ Spec
    /\ \A j \in Jobs : WF_vars(JobStep(j))
    /\ WF_vars(DrainStep)
    /\ WF_vars(ClosePermits)

----------------------------------------------------------------------------
(* Properties.                                                              *)

\* Every variable stays within the shape its declaration gives it.
TypeOK ==
    /\ admission \in AdmissionStates
    /\ inFlight \in Nat
    /\ available \in 0..MaxInFlight
    /\ closed \in BOOLEAN
    /\ closing \in BOOLEAN
    /\ registry \in SUBSET Jobs
    /\ shutdown \in BOOLEAN
    /\ job \in [Jobs -> Job]
    /\ drain \in Drain

\* The registry mirrors the permits: a task is listed only while it is counted,
\* and counted only while it holds one of the max_in_flight permits, so the
\* registry never refuses a call and ControlCapacityUnavailable never happens.
CapacityMirrored ==
    /\ Cardinality(registry) <= inFlight
    /\ inFlight <= MaxInFlight - available
    /\ \A j \in Jobs : job[j].result # Admission("ControlCapacityUnavailable")

InHandler(j) == job[j].pc \in {"started", "running", "cleanup"}

\* A drain that reports Completed means it: no handler is running, and since the
\* gate is closed for good none will.
DrainedIsQuiet == drain.outcome = "Completed" => \A j \in Jobs : ~InHandler(j)

\* WorkerExecutionError::remote_effect and ::phase, of the errors execute returns.
Failed(result) == result.kind \in {"Admission", "Handler", "TimedOut", "Cancelled"}
RemoteEffect(result) == IF result.kind = "Admission" THEN "NotStarted" ELSE "Unknown"
\* What execute returned is what the lifecycle observer was told last, and a
\* result that says the handler was not invoked is true.
OutcomeReported ==
    \A j \in Jobs : job[j].pc = "done" =>
        LET result == job[j].result
            state == job[j].state
        IN  /\ IsTerminal(state)
            /\ result.kind \in {"Ok", "Handler", "TimedOut", "Cancelled"} =>
                   state = Reports(result)
            /\ result.kind = "Admission" => state = Cancelled(RejectionReason(result.reason))
            /\ Failed(result) /\ RemoteEffect(result) = "NotStarted" => ~job[j].invoked

\* A success or a handler error is never reported for a task whose cancellation
\* was requested before the handler returned.
CancelledNeverSucceeds ==
    [][\A j \in Jobs :
          /\ job[j].pc = "running"
          /\ job'[j].result.kind \in {"Ok", "Handler"}
          => job[j].token = None]_vars

\* The calls that are counted in flight, as opposed to those that wait or leave.
InFlightJobs == {j \in Jobs : job[j].pc \in {"started", "running", "cleanup", "leave", "finish"}}

Pool == INSTANCE BoundedPool WITH
    Tasks <- Jobs, Capacity <- MaxInFlight, gate <- admission, counted <- InFlightJobs,
    listed <- registry, drained <- drain.outcome = "Completed"

\* The gate, the permits, the count, the registry and the drain are separate locks
\* and atomics, yet seen from outside the executor is the bounded pool: a call
\* starts only behind the open gate and within max_in_flight, is listed only while
\* it is counted, and a drain reports Completed only over an empty pool.
ImplementsPool == Pool!PoolSpec

\* Draining is final: from then on the gate stays closed and no call starts.
DrainIsFinal ==
    [][admission = "Draining" => admission' = "Draining" /\ inFlight' <= inFlight]_vars

\* A drain makes progress whatever the handlers do: it wakes every call that waits
\* for a permit, even when the handlers that hold the permits never return, and
\* once the last handler is gone it completes without its grace period elapsing.
DrainEnds ==
    /\ \A j \in Jobs : admission = "Draining" ~> ~At(j, "waiting")
    /\ drain.pc \notin {"idle", "done"} /\ inFlight = 0 ~> drain.outcome = "Completed"

\* A cancelled task ends, whether or not its handler cooperates.
CancellationEnds == \A j \in Jobs : At(j, "running") /\ job[j].token # None ~> ~InHandler(j)

============================================================================

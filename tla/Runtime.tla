------------------------------ MODULE Runtime ------------------------------
(***************************************************************************)
(* RuntimeHandle of plenora-runtime-core: the lifecycle phase, the count   *)
(* of supervised tasks, the abort handles, the bounded report history, the *)
(* health registry and the shutdown signal, under concurrent spawn,        *)
(* request_shutdown and shutdown calls.                                    *)
(*                                                                         *)
(* Each of them has a lock of its own; an action is one critical section.  *)
(* A slot t of Tasks is one supervised task at a time: the spawn call that *)
(* creates it, its future, and the supervisor that awaits the future.      *)
(***************************************************************************)
EXTENDS Integers, FiniteSets, Sequences

CONSTANTS
    Tasks,              \* slots for supervised tasks
    Callers,            \* slots for request_shutdown and shutdown calls
    MaxTasks,           \* RuntimeConfig::max_concurrent_tasks
    ReportCapacity,     \* RuntimeConfig::task_report_capacity
    OptionalPolicy,     \* RuntimeConfig::optional_task_failure
    CriticalityOf(_),   \* TaskSpec::criticality of the task of a slot
    ComponentOf(_)      \* the health component of TaskSpec::name

ASSUME BoundsAssumption == MaxTasks \in Nat /\ ReportCapacity \in Nat /\ IsFiniteSet(Tasks)
ASSUME PolicyAssumption == OptionalPolicy \in {"Ignore", "MarkDegraded", "Shutdown"}
ASSUME CriticalityAssumption == \A t \in Tasks : CriticalityOf(t) \in {"Critical", "Required", "Optional"}

Components == {ComponentOf(t) : t \in Tasks}

VARIABLES
    phase,      \* LifecycleState::phase
    active,     \* LifecycleState::active_tasks
    signal,     \* the value of the shutdown watch channel
    handles,    \* abort_handles, by task
    reports,    \* the report history, oldest first
    health,     \* the health the runtime reported for a component
    readiness,  \* the readiness the runtime reported for a component
    task,       \* the state of each supervised task
    caller      \* the state of each request_shutdown or shutdown call

vars == <<phase, active, signal, handles, reports, health, readiness, task, caller>>

\* spawn: how far the spawn call is; future: the spawned future; step: how far
\* the supervisor is.
Task == [spawn : {"idle", "registered", "spawned", "armed"},
         future : {"none", "running", "completed", "failed"},
         aborted : BOOLEAN,
         step : {"none", "await", "health", "readiness", "begin", "signal", "report",
                 "disarm", "uncount", "notify", "done"}]

Caller == [step : {"idle", "signal", "look", "subscribe", "check", "waiting", "abort",
                   "stop", "done"},
           waits : BOOLEAN, started : BOOLEAN, notified : BOOLEAN,
           outcome : {"None", "Completed", "TimedOut"}]

NoTask == [spawn |-> "idle", future |-> "none", aborted |-> FALSE, step |-> "none"]
NoCaller == [step |-> "idle", waits |-> FALSE, started |-> FALSE, notified |-> FALSE,
             outcome |-> "None"]

PutTask(t, k) == task' = [task EXCEPT ![t] = k]
PutCaller(c, k) == caller' = [caller EXCEPT ![c] = k]
At(t, step) == task[t].step = step

----------------------------------------------------------------------------
(* What a failure does, by TaskSpec::criticality and the optional policy.   *)

FailureHealth(t) ==
    CASE CriticalityOf(t) = "Critical" -> "Unhealthy"
      [] CriticalityOf(t) = "Required" -> "Degraded"
      [] OTHER -> IF OptionalPolicy = "Shutdown" THEN "Unhealthy" ELSE "Degraded"

IsIgnored(t) == CriticalityOf(t) = "Optional" /\ OptionalPolicy = "Ignore"
IsFatal(t) == \/ CriticalityOf(t) = "Critical"
              \/ CriticalityOf(t) = "Optional" /\ OptionalPolicy = "Shutdown"
DropsReadiness(t) == CriticalityOf(t) = "Required" \/ IsFatal(t)

\* The critical section of begin_shutdown.
BeginShutdown == phase' = IF phase = "Running" THEN "Draining" ELSE phase

----------------------------------------------------------------------------
(* spawn.                                                                   *)

\* register_task; a call it rejects changes nothing.
RegisterTask(t) ==
    /\ task[t].spawn = "idle"
    /\ phase = "Running"
    /\ active < MaxTasks
    /\ active' = active + 1
    /\ PutTask(t, [NoTask EXCEPT !.spawn = "registered"])
    /\ UNCHANGED <<phase, signal, handles, reports, health, readiness, caller>>

\* The future is spawned and runs at once.
SpawnFuture(t) ==
    /\ task[t].spawn = "registered"
    /\ PutTask(t, [task[t] EXCEPT !.spawn = "spawned", !.future = "running"])
    /\ UNCHANGED <<phase, active, signal, handles, reports, health, readiness, caller>>

\* register_abort_handle, then the supervisor is spawned.
RegisterAbortHandle(t) ==
    /\ task[t].spawn = "spawned"
    /\ handles' = handles \cup {t}
    /\ PutTask(t, [task[t] EXCEPT !.spawn = "armed", !.step = "await"])
    /\ UNCHANGED <<phase, active, signal, reports, health, readiness, caller>>

----------------------------------------------------------------------------
(* The future, and the supervisor: finish_task and apply_task_failure.      *)

\* The future returns Ok, or fails with an error or a panic.
FutureEnds(t, result) ==
    /\ task[t].future = "running"
    /\ PutTask(t, [task[t] EXCEPT !.future = result])
    /\ UNCHANGED <<phase, active, signal, handles, reports, health, readiness, caller>>

\* An aborted future is dropped where it next yields.
FutureCancelled(t) ==
    /\ task[t].future = "running"
    /\ task[t].aborted
    /\ PutTask(t, [task[t] EXCEPT !.future = "failed"])
    /\ UNCHANGED <<phase, active, signal, handles, reports, health, readiness, caller>>

\* Mutant: a join error ends the supervisor's wait for nothing.
JoinFutureCompleted(t) ==
    /\ At(t, "await")
    /\ task[t].future = "completed"
    /\ PutTask(t, [task[t] EXCEPT !.step = "report"])
    /\ UNCHANGED <<phase, active, signal, handles, reports, health, readiness, caller>>

JoinFuture(t) ==
    /\ At(t, "await")
    /\ task[t].future \in {"completed", "failed"}
    /\ PutTask(t, [task[t] EXCEPT !.step = IF task[t].future = "failed" /\ ~IsIgnored(t)
                                           THEN "health" ELSE "report"])
    /\ UNCHANGED <<phase, active, signal, handles, reports, health, readiness, caller>>

\* Mutant: a required task is handled like an optional one.
SetHealthOnly(t) ==
    /\ At(t, "health")
    /\ health' = [health EXCEPT ![ComponentOf(t)] = FailureHealth(t)]
    /\ PutTask(t, [task[t] EXCEPT !.step = IF IsFatal(t) THEN "readiness" ELSE "report"])
    /\ UNCHANGED <<phase, active, signal, handles, reports, readiness, caller>>

SetHealth(t) ==
    /\ At(t, "health")
    /\ health' = [health EXCEPT ![ComponentOf(t)] = FailureHealth(t)]
    /\ PutTask(t, [task[t] EXCEPT !.step = IF DropsReadiness(t) THEN "readiness" ELSE "report"])
    /\ UNCHANGED <<phase, active, signal, handles, reports, readiness, caller>>

SetReadiness(t) ==
    /\ At(t, "readiness")
    /\ readiness' = [readiness EXCEPT ![ComponentOf(t)] = "NotReady"]
    /\ PutTask(t, [task[t] EXCEPT !.step = IF IsFatal(t) THEN "begin" ELSE "report"])
    /\ UNCHANGED <<phase, active, signal, handles, reports, health, caller>>

TaskBeginsShutdown(t) ==
    /\ At(t, "begin")
    /\ BeginShutdown
    /\ PutTask(t, [task[t] EXCEPT !.step = IF phase = "Running" THEN "signal" ELSE "report"])
    /\ UNCHANGED <<active, signal, handles, reports, health, readiness, caller>>

TaskSignals(t) ==
    /\ At(t, "signal")
    /\ signal' = TRUE
    /\ PutTask(t, [task[t] EXCEPT !.step = "report"])
    /\ UNCHANGED <<phase, active, handles, reports, health, readiness, caller>>

RecordReport(t) ==
    /\ At(t, "report")
    /\ reports' = IF ReportCapacity = 0 THEN reports
                  ELSE Append(IF Len(reports) = ReportCapacity THEN Tail(reports) ELSE reports, t)
    /\ PutTask(t, [task[t] EXCEPT !.step = "disarm"])
    /\ UNCHANGED <<phase, active, signal, handles, health, readiness, caller>>

RemoveAbortHandle(t) ==
    /\ At(t, "disarm")
    /\ handles' = handles \ {t}
    /\ PutTask(t, [task[t] EXCEPT !.step = "uncount"])
    /\ UNCHANGED <<phase, active, signal, reports, health, readiness, caller>>

\* active_tasks is a saturating counter.
Uncount(t) ==
    /\ At(t, "uncount")
    /\ active' = IF active = 0 THEN 0 ELSE active - 1
    /\ PutTask(t, [task[t] EXCEPT !.step = "notify"])
    /\ UNCHANGED <<phase, signal, handles, reports, health, readiness, caller>>

\* Mutant: nobody is notified.
NotifyWaitersNot(t) ==
    /\ At(t, "notify")
    /\ PutTask(t, [task[t] EXCEPT !.step = "done"])
    /\ UNCHANGED <<phase, active, signal, handles, reports, health, readiness, caller>>

\* notify_waiters, then the report goes to the completion handle.
NotifyWaiters(t) ==
    /\ At(t, "notify")
    /\ caller' = [c \in Callers |-> [caller[c] EXCEPT !.notified = TRUE]]
    /\ PutTask(t, [task[t] EXCEPT !.step = "done"])
    /\ UNCHANGED <<phase, active, signal, handles, reports, health, readiness>>

\* The slot is free for another task.
Forget(t) ==
    /\ At(t, "done")
    /\ PutTask(t, NoTask)
    /\ UNCHANGED <<phase, active, signal, handles, reports, health, readiness, caller>>

----------------------------------------------------------------------------
(* request_shutdown (waits = FALSE) and shutdown (waits = TRUE).            *)

CallerAt(c, step) == caller[c].step = step

CallShutdown(c, waits) ==
    /\ CallerAt(c, "idle")
    /\ BeginShutdown
    /\ PutCaller(c, [NoCaller EXCEPT !.waits = waits, !.started = phase = "Running",
                                     !.step = IF phase = "Running" THEN "signal"
                                              ELSE IF waits THEN "look" ELSE "done"])
    /\ UNCHANGED <<active, signal, handles, reports, health, readiness, task>>

CallerSignals(c) ==
    /\ CallerAt(c, "signal")
    /\ signal' = TRUE
    /\ PutCaller(c, [caller[c] EXCEPT !.step = IF caller[c].waits THEN "look" ELSE "done"])
    /\ UNCHANGED <<phase, active, handles, reports, health, readiness, task>>

\* The count is read once before any waiting.
LookOnce(c) ==
    /\ CallerAt(c, "look")
    /\ PutCaller(c, IF active = 0 THEN [caller[c] EXCEPT !.step = "stop", !.outcome = "Completed"]
                    ELSE [caller[c] EXCEPT !.step = "subscribe"])
    /\ UNCHANGED <<phase, active, signal, handles, reports, health, readiness, task>>

\* wait_until_idle: the Notified future exists before the count is read.
Subscribe(c) ==
    /\ CallerAt(c, "subscribe")
    /\ PutCaller(c, [caller[c] EXCEPT !.step = "check", !.notified = FALSE])
    /\ UNCHANGED <<phase, active, signal, handles, reports, health, readiness, task>>

CheckIdle(c) ==
    /\ CallerAt(c, "check")
    /\ PutCaller(c, IF active = 0 THEN [caller[c] EXCEPT !.step = "stop", !.outcome = "Completed"]
                    ELSE [caller[c] EXCEPT !.step = "waiting"])
    /\ UNCHANGED <<phase, active, signal, handles, reports, health, readiness, task>>

WakeUp(c) ==
    /\ CallerAt(c, "waiting")
    /\ caller[c].notified
    /\ PutCaller(c, [caller[c] EXCEPT !.step = "subscribe"])
    /\ UNCHANGED <<phase, active, signal, handles, reports, health, readiness, task>>

\* Mutant: a drain that timed out is called complete all the same.
GraceElapsesUnchecked(c) ==
    /\ caller[c].step \in {"subscribe", "check", "waiting"}
    /\ PutCaller(c, [caller[c] EXCEPT !.step = "stop", !.outcome = "Completed"])
    /\ UNCHANGED <<phase, active, signal, handles, reports, health, readiness, task>>

\* The grace period elapses; the count is read again.
GraceElapses(c) ==
    /\ caller[c].step \in {"subscribe", "check", "waiting"}
    /\ PutCaller(c, IF active = 0 THEN [caller[c] EXCEPT !.step = "stop", !.outcome = "Completed"]
                    ELSE [caller[c] EXCEPT !.step = "abort", !.outcome = "TimedOut"])
    /\ UNCHANGED <<phase, active, signal, handles, reports, health, readiness, task>>

\* abort_active_tasks reaches the futures whose handle is registered.
AbortActiveTasks(c) ==
    /\ CallerAt(c, "abort")
    /\ task' = [t \in Tasks |-> [task[t] EXCEPT !.aborted = @ \/ t \in handles]]
    /\ PutCaller(c, [caller[c] EXCEPT !.step = "stop"])
    /\ UNCHANGED <<phase, active, signal, handles, reports, health, readiness>>

MarkStopped(c) ==
    /\ CallerAt(c, "stop")
    /\ phase' = "Stopped"
    /\ PutCaller(c, [caller[c] EXCEPT !.step = "done"])
    /\ UNCHANGED <<active, signal, handles, reports, health, readiness, task>>

----------------------------------------------------------------------------
Init ==
    /\ phase = "Running"
    /\ active = 0
    /\ signal = FALSE
    /\ handles = {}
    /\ reports = <<>>
    /\ health = [c \in Components |-> "Healthy"]
    /\ readiness = [c \in Components |-> "Ready"]
    /\ task = [t \in Tasks |-> NoTask]
    /\ caller = [c \in Callers |-> NoCaller]

\* What spawn does after register_task, and what the supervisor does.
SupervisorStep(t) ==
    \/ SpawnFuture(t)
    \/ RegisterAbortHandle(t)
    \/ FutureCancelled(t)
    \/ JoinFuture(t)
    \/ SetHealth(t)
    \/ SetReadiness(t)
    \/ TaskBeginsShutdown(t)
    \/ TaskSignals(t)
    \/ RecordReport(t)
    \/ RemoveAbortHandle(t)
    \/ Uncount(t)
    \/ NotifyWaiters(t)

\* What a shutdown call does, apart from its grace period.
CallerStep(c) ==
    \/ CallerSignals(c)
    \/ LookOnce(c)
    \/ Subscribe(c)
    \/ CheckIdle(c)
    \/ WakeUp(c)
    \/ AbortActiveTasks(c)
    \/ MarkStopped(c)

Next ==
    \/ \E t \in Tasks : RegisterTask(t)
    \/ \E t \in Tasks : SupervisorStep(t)
    \/ \E t \in Tasks, result \in {"completed", "failed"} : FutureEnds(t, result)
    \/ \E t \in Tasks : Forget(t)
    \/ \E c \in Callers, waits \in BOOLEAN : CallShutdown(c, waits)
    \/ \E c \in Callers : CallerStep(c)
    \/ \E c \in Callers : GraceElapses(c)

Spec == Init /\ [][Next]_vars

\* Supervisors, spawn calls and shutdown calls keep running, and an aborted
\* future yields; nothing is assumed of a future otherwise, nor of the grace
\* period.
FairSpec ==
    /\ Spec
    /\ \A t \in Tasks : WF_vars(SupervisorStep(t))
    /\ \A c \in Callers : WF_vars(CallerStep(c))

----------------------------------------------------------------------------
(* Properties.                                                              *)

\* Every variable keeps its shape; the report history stays within its capacity.
TypeOK ==
    /\ phase \in {"Running", "Draining", "Stopped"}
    /\ active \in 0..MaxTasks
    /\ signal \in BOOLEAN
    /\ handles \in SUBSET Tasks
    /\ reports \in Seq(Tasks) /\ Len(reports) <= ReportCapacity
    /\ health \in [Components -> {"Healthy", "Degraded", "Unhealthy"}]
    /\ readiness \in [Components -> {"Ready", "NotReady"}]
    /\ task \in [Tasks -> Task]
    /\ caller \in [Callers -> Caller]

IsCounted(t) == task[t].spawn # "idle" /\ task[t].step \notin {"notify", "done"}

\* active_tasks counts exactly the tasks between register_task and the end of
\* their supervisor, so saturating_sub never hides a miscount.
CountExact == active = Cardinality({t \in Tasks : IsCounted(t)})

\* A shutdown that reports Completed means it: no future is running, and none
\* can start any more.
CompletedIsQuiet ==
    \A c \in Callers : caller[c].outcome = "Completed" =>
        /\ phase # "Running"
        /\ \A t \in Tasks : task[t].spawn # "registered" /\ task[t].future # "running"

WasReported(t) == task[t].step \in {"disarm", "uncount", "notify", "done"}

\* When a failure is reported its consequences are in place already: a fatal one
\* has ended the running phase, and only what drops readiness left it.
FailureVisible ==
    \A t \in Tasks : WasReported(t) /\ task[t].future = "failed" =>
        /\ IsFatal(t) => phase # "Running"
        /\ DropsReadiness(t) => readiness[ComponentOf(t)] = "NotReady"
        /\ ~IsIgnored(t) => health[ComponentOf(t)] # "Healthy"

\* A shutdown call notices that the last task ended without its grace period
\* having to elapse.
ShutdownNoticesIdle ==
    \A c \in Callers : caller[c].step \in {"look", "subscribe", "check", "waiting"} /\ active = 0
                           ~> caller[c].outcome = "Completed"

\* A task whose abort handle was registered when the grace period elapsed ends
\* and stops counting, however long its future would have run.
AbortedEnds == \A t \in Tasks : task[t].aborted ~> ~IsCounted(t)

============================================================================

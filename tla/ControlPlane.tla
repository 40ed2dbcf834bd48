---------------------------- MODULE ControlPlane ----------------------------
(***************************************************************************)
(* plenora-runtime-control and its HTTP adapter: components are registered *)
(* within per-kind limits, the registration is frozen, and a router (read- *)
(* only unless mutations are enabled) serves concurrent clients.           *)
(*                                                                         *)
(* The worker behind the plane is the bounded pool, the scheduler one      *)
(* schedule's status with its slots for manual invocations.  A handler is  *)
(* split where it releases a lock or awaits.  Text is a record of the      *)
(* facts that its validation looks at.                                     *)
(***************************************************************************)
EXTENDS BoundedPool, OrderedChecks

CONSTANTS
    Clients,        \* concurrent HTTP requests
    Requests,       \* what each of them may ask for
    Limits,         \* ControlPlaneConfig: registrations of each kind
    Registrations,  \* kinds and identities that the application registers
    ManualSlots,    \* SchedulerConfig::max_dispatches_per_tick
    MaxIdBytes,     \* MAX_CONTROL_COMPONENT_ID_BYTES, MAX_SCHEDULE_ID_BYTES
    MaxBodyBytes,   \* the body limit of the router
    MaxMillis       \* the largest number of milliseconds UNIX_EPOCH can be moved by

Kinds == <<"Worker", "Scheduler", "Memory", "Subprocess">>
KindSet == {Kinds[i] : i \in DOMAIN Kinds}

VARIABLES
    registered,     \* the identities of each kind
    serving,        \* "building", then "read_only" or "mutable"; "none" without clients
    schedule,       \* the status of the scheduler's schedule
    slots,          \* manual_permits
    cancelled,      \* tasks whose cancellation token is set
    request,        \* the handler each client waits for
    seen            \* ghost: the gates while a client shifts the gate

controlVars == <<registered, serving, schedule, slots, cancelled, request, seen>>

Reads == {"components", "worker", "scheduler", "memory", "subprocess"}
WorkerOps == {"worker", "pause_worker", "resume_worker", "drain_worker", "cancel_task"}
ScheduleOps == {"pause_schedule", "resume_schedule", "trigger_schedule"}

\* The registry that an operation looks its component up in.
KindOf(op) ==
    CASE op \in WorkerOps -> "Worker"
      [] op \in ScheduleOps \cup {"scheduler"} -> "Scheduler"
      [] op = "memory" -> "Memory"
      [] op = "subprocess" -> "Subprocess"

Answer(status, body) == [status |-> status, body |-> body]
NoAnswer == Answer(0, "none")
Free == [pc |-> "free", op |-> "none", count |-> 0, answer |-> NoAnswer]

----------------------------------------------------------------------------
(* Validation and the words of the wire format.                             *)

\* ControlPlaneConfig::new.
PlaneConfigVerdict(c) ==
    FirstFailure([i \in DOMAIN Kinds |-> <<c[Kinds[i]] = 0, "Zero">>])

\* ControlComponentId::new and ScheduleId::new.
IdVerdict(text) ==
    FirstFailure(<<
        <<text.bytes = 0, "Empty">>,
        <<text.bytes > MaxIdBytes, "TooLong">>,
        <<~text.plain, "InvalidCharacter">>>>)

\* insert_bounded.
RegistrationVerdict(kind, id) ==
    FirstFailure(<<
        <<id \in registered[kind], "Duplicate">>,
        <<Cardinality(registered[kind]) >= Limits[kind], "CapacityExceeded">>>>)

\* What a handler answers before it reaches its operation, in the order of its
\* checks; a trigger's body was read before the handler ran, but it is looked at
\* only after the authorisation.
Refusal(r) ==
    FirstOf(<<
        <<r.op \notin Reads /\ serving # "mutable", Answer(404, "no_route")>>,
        <<r.op # "components" /\ IdVerdict(r.component) # Ok, Answer(400, "invalid_component")>>,
        <<r.op = "cancel_task" /\ ~r.target.task, Answer(400, "invalid_task")>>,
        <<r.op \in ScheduleOps /\ IdVerdict(r.target) # Ok, Answer(400, "invalid_schedule")>>,
        <<~r.authorized, Answer(403, "forbidden")>>,
        <<r.op = "trigger_schedule" /\ r.body.bytes > MaxBodyBytes,
          Answer(413, "payload_too_large")>>,
        <<r.op = "trigger_schedule" /\ ~r.body.parses, Answer(400, "invalid_trigger_request")>>,
        <<r.op = "trigger_schedule" /\ r.body.millis > MaxMillis,
          Answer(400, "invalid_trigger_time")>>,
        <<r.op # "components" /\ r.component.name \notin registered[KindOf(r.op)],
          Answer(404, "component_not_found")>>>>, NoAnswer)

\* OutcomeDto of a mutation, of a cancellation and of a manual invocation.
MutationWord == [Applied |-> "applied", AlreadyInState |-> "already_in_state",
                 Rejected |-> "rejected"]
CancellationWord == [Requested |-> "requested", AlreadyRequested |-> "already_requested",
                     NotFound |-> "not_found"]
TriggerWord == [Confirmed |-> "confirmed", NotStarted |-> "not_started",
                OutcomeUnknown |-> "outcome_unknown", TimedOut |-> "timed_out",
                Saturated |-> "saturated", ReconciliationRequired |-> "reconciliation_required"]

\* The words for states that the views are made of.
GateWord == [Accepting |-> "accepting", Paused |-> "paused", Draining |-> "draining"]
StatusWord == [Active |-> "active", Paused |-> "paused", Completed |-> "completed",
               ReconciliationRequired |-> "reconciliation_required"]
KindWord == [Worker |-> "worker", Scheduler |-> "scheduler", Memory |-> "memory",
             Subprocess |-> "subprocess"]

\* mutation_response: only a rejection is a conflict.
MutationAnswer(outcome) ==
    Answer(IF outcome = "Rejected" THEN 409 ELSE 200, MutationWord[outcome])

\* schedule_error.
ScheduleErrorAnswer(error) ==
    IF error = "UnknownSchedule" THEN Answer(404, "schedule_not_found")
    ELSE Answer(409, "invalid_schedule_state")

----------------------------------------------------------------------------
(* Registration.                                                            *)

Register(kind, id) ==
    /\ serving = "building"
    /\ RegistrationVerdict(kind, id) = Ok
    /\ registered' = [registered EXCEPT ![kind] = @ \cup {id}]
    /\ UNCHANGED <<serving, schedule, slots, cancelled, request, seen, poolVars>>

\* build, and the adapter around the plane.
Build(mode) ==
    /\ serving = "building"
    /\ serving' = mode
    /\ UNCHANGED <<registered, schedule, slots, cancelled, request, seen, poolVars>>

----------------------------------------------------------------------------
(* Requests.                                                                *)

Serving == serving \in {"read_only", "mutable"}
Busy(c) == request[c].pc \notin {"absent", "free", "answered"}
At(c, pc) == request[c].pc = pc
Put(c, k) == request' = [request EXCEPT ![c] = k]
Answered(c, answer) == Put(c, [request[c] EXCEPT !.pc = "answered", !.answer = answer])

\* The gate moves to g while others are shifting it.
Witness(g) ==
    seen' = [d \in Clients |-> IF At(d, "reread") THEN seen[d] \cup {g} ELSE seen[d]]

\* The handler that a request starts, as far as it runs without a pause.
Begin(c, r, pc, count, answer) ==
    Put(c, [pc |-> pc, op |-> r.op, count |-> count, answer |-> answer])

Arrives(c) ==
    /\ Serving
    /\ At(c, "free")
    /\ UNCHANGED <<registered, serving, schedule, slots, seen, poolVars>>

Refuse(c, r) ==
    /\ Arrives(c)
    /\ Refusal(r) # NoAnswer
    /\ Begin(c, r, "answered", 0, Refusal(r))
    /\ UNCHANGED cancelled

\* components lists what is registered, and no identity is looked up.
ViewComponents(c, r) ==
    /\ Arrives(c)
    /\ r.op = "components"
    /\ Refusal(r) = NoAnswer
    /\ Begin(c, r, "answered", 0, Answer(200, r.op))
    /\ UNCHANGED cancelled

\* memory and subprocess are answered from one read of their monitor.
ViewMonitor(c, r) ==
    /\ Arrives(c)
    /\ r.op \in {"memory", "subprocess"}
    /\ Refusal(r) = NoAnswer
    /\ Begin(c, r, "answered", 0, Answer(200, r.op))
    /\ UNCHANGED cancelled

\* A worker's view reads the count and then, under another lock, the list.
ViewWorker(c, r) ==
    /\ Arrives(c)
    /\ r.op = "worker"
    /\ Refusal(r) = NoAnswer
    /\ Begin(c, r, "list", Cardinality(counted), NoAnswer)
    /\ UNCHANGED cancelled

ViewTasks(c) ==
    /\ At(c, "list")
    /\ Answered(c, Answer(200, "worker"))
    /\ UNCHANGED <<registered, serving, schedule, slots, cancelled, seen, poolVars>>

\* request_cancellation.
CancelTask(c, r) ==
    /\ Arrives(c)
    /\ r.op = "cancel_task"
    /\ Refusal(r) = NoAnswer
    /\ LET outcome == IF r.target.name \notin listed THEN "NotFound"
                      ELSE IF r.target.name \in cancelled THEN "AlreadyRequested"
                      ELSE "Requested"
       IN  /\ Begin(c, r, "answered", 0,
                    IF outcome = "NotFound" THEN Answer(404, "task_not_found")
                    ELSE Answer(200, CancellationWord[outcome]))
           /\ cancelled' = cancelled \cup ({r.target.name} \cap listed)

\* Operations on the scheduler wait for its registry.
AskScheduler(c, r) ==
    /\ Arrives(c)
    /\ r.op \in ScheduleOps \cup {"scheduler"}
    /\ Refusal(r) = NoAnswer
    /\ Put(c, [pc |-> "scheduler", op |-> r.op, answer |-> NoAnswer,
               count |-> IF r.op = "scheduler" \/ r.target.known THEN 1 ELSE 0])
    /\ UNCHANGED cancelled

\* The gate that an operation asks for, and the one it asks it of.
Target(op) == IF op = "pause_worker" THEN "Paused" ELSE "Accepting"
Source(op) == IF op = "pause_worker" THEN "Accepting" ELSE "Paused"

\* pause_admission or resume_admission; when it changed nothing, the gate is read
\* again to tell why.
ShiftGate(c, r) ==
    /\ Serving
    /\ At(c, "free")
    /\ r.op \in {"pause_worker", "resume_worker"}
    /\ Refusal(r) = NoAnswer
    /\ gate' = IF gate = Source(r.op) THEN Target(r.op) ELSE gate
    /\ seen' = [d \in Clients |-> IF d = c THEN {gate, gate'}
                                 ELSE IF At(d, "reread") THEN seen[d] \cup {gate'} ELSE seen[d]]
    /\ IF gate = Source(r.op) THEN Begin(c, r, "answered", 0, MutationAnswer("Applied"))
       ELSE Begin(c, r, "reread", 0, NoAnswer)
    /\ UNCHANGED <<registered, serving, schedule, slots, cancelled, counted, listed, drained>>

\* Mutant: a call that changed nothing found the worker as it wanted it.
RereadGateTrusting(c) ==
    /\ At(c, "reread")
    /\ Answered(c, MutationAnswer("AlreadyInState"))
    /\ UNCHANGED <<registered, serving, schedule, slots, cancelled, seen, poolVars>>

RereadGate(c) ==
    /\ At(c, "reread")
    /\ Answered(c, MutationAnswer(IF gate = Target(request[c].op) THEN "AlreadyInState"
                                  ELSE "Rejected"))
    /\ UNCHANGED <<registered, serving, schedule, slots, cancelled, seen, poolVars>>

DrainWorker(c, r) ==
    /\ Serving
    /\ At(c, "free")
    /\ r.op = "drain_worker"
    /\ Refusal(r) = NoAnswer
    /\ gate' = "Draining"
    /\ Witness(gate')
    /\ Begin(c, r, "answered", 0,
             MutationAnswer(IF gate = "Draining" THEN "AlreadyInState" ELSE "Applied"))
    /\ UNCHANGED <<registered, serving, schedule, slots, cancelled, counted, listed, drained>>

----------------------------------------------------------------------------
(* The scheduler behind the plane.                                          *)

Unknown(c) == request[c].count = 0

ReadSchedules(c) ==
    /\ At(c, "scheduler")
    /\ request[c].op = "scheduler"
    /\ Answered(c, Answer(200, StatusWord[schedule]))
    /\ UNCHANGED <<registered, serving, schedule, slots, cancelled, seen, poolVars>>

\* pause_schedule and resume_schedule.
ShiftSchedule(c) ==
    LET allowed == ~Unknown(c) /\ schedule \in {"Active", "Paused"}
    IN  /\ At(c, "scheduler")
        /\ request[c].op \in {"pause_schedule", "resume_schedule"}
        /\ schedule' = IF ~allowed THEN schedule
                       ELSE IF request[c].op = "pause_schedule" THEN "Paused" ELSE "Active"
        /\ Answered(c, IF allowed THEN MutationAnswer("Applied")
                       ELSE ScheduleErrorAnswer(IF Unknown(c) THEN "UnknownSchedule"
                                                ELSE "TransitionNotAllowed"))
        /\ UNCHANGED <<registered, serving, slots, cancelled, seen, poolVars>>

\* trigger_schedule up to its dispatch: status and slot under one lock.
AdmitTrigger(c) ==
    LET refused == IF Unknown(c) THEN ScheduleErrorAnswer("UnknownSchedule")
                   ELSE IF schedule = "ReconciliationRequired"
                   THEN Answer(200, TriggerWord["ReconciliationRequired"])
                   ELSE IF slots = 0 THEN Answer(200, TriggerWord["Saturated"]) ELSE NoAnswer
    IN  /\ At(c, "scheduler")
        /\ request[c].op = "trigger_schedule"
        /\ IF refused # NoAnswer THEN Answered(c, refused) /\ slots' = slots
           ELSE Put(c, [request[c] EXCEPT !.pc = "dispatching"]) /\ slots' = slots - 1
        /\ UNCHANGED <<registered, serving, schedule, cancelled, seen, poolVars>>

\* The dispatcher answers, or dispatch_timeout elapses; the slot goes back.
FinishTrigger(c, outcome) ==
    /\ At(c, "dispatching")
    /\ slots' = slots + 1
    /\ Answered(c, Answer(200, TriggerWord[outcome]))
    /\ UNCHANGED <<registered, serving, schedule, cancelled, seen, poolVars>>

\* Mutant: only an answered invocation gives its slot back.
DisconnectLeaky(c) ==
    /\ request[c].pc \in {"scheduler", "dispatching"}
    /\ Put(c, Free)
    /\ UNCHANGED <<registered, serving, schedule, slots, cancelled, seen, poolVars>>

\* A client that goes away drops its handler at an await, and a slot with it.
Disconnect(c) ==
    /\ request[c].pc \in {"scheduler", "dispatching"}
    /\ slots' = IF At(c, "dispatching") THEN slots + 1 ELSE slots
    /\ Put(c, Free)
    /\ UNCHANGED <<registered, serving, schedule, cancelled, seen, poolVars>>

Collect(c) ==
    /\ At(c, "answered")
    /\ Put(c, Free)
    /\ seen' = [seen EXCEPT ![c] = {}]
    /\ UNCHANGED <<registered, serving, schedule, slots, cancelled, poolVars>>

----------------------------------------------------------------------------
(* What happens behind the plane meanwhile.                                 *)

\* The worker's tasks; a task that leaves the list takes its token along.
WorkerMoves(j) ==
    /\ TaskStep(j)
    /\ cancelled' = cancelled \cap listed'
    /\ UNCHANGED <<registered, serving, schedule, slots, request, seen>>

\* Another holder of the admission handle: the memory gate, or the worker's host.
GateMoves ==
    /\ Serving
    /\ Pause \/ Resume \/ BeginDraining
    /\ Witness(gate')
    /\ UNCHANGED <<registered, serving, schedule, slots, cancelled, request>>

\* cancel_worker_message, which has no route: every listed attempt of a message.
CancelMessage ==
    /\ Serving
    /\ cancelled' = listed
    /\ UNCHANGED <<registered, serving, schedule, slots, request, seen, poolVars>>

\* Ticks and the schedule's owner: an occurrence starts, and is settled or resolved.
ScheduleMoves ==
    /\ Serving
    /\ \/ schedule = "Active" /\ schedule' \in {"ReconciliationRequired", "Completed"}
       \/ schedule = "ReconciliationRequired" /\ schedule' \in {"Active", "Completed"}
    /\ UNCHANGED <<registered, serving, slots, cancelled, request, seen, poolVars>>

----------------------------------------------------------------------------
\* The clients in `present` exist.
ControlInit(present) ==
    /\ registered = [kind \in KindSet |-> {}]
    /\ serving = IF present \cap Clients = {} THEN "none" ELSE "building"
    /\ schedule = "Active"
    /\ slots = ManualSlots
    /\ cancelled = {}
    /\ request = [c \in Clients |-> IF c \in present THEN Free ELSE [Free EXCEPT !.pc = "absent"]]
    /\ seen = [c \in Clients |-> {}]

\* What a handler does on its own.
HandlerStep(c) ==
    \/ ViewTasks(c)
    \/ RereadGate(c)
    \/ ReadSchedules(c)
    \/ ShiftSchedule(c)
    \/ AdmitTrigger(c)
    \/ \E outcome \in {"Confirmed", "NotStarted", "OutcomeUnknown", "TimedOut"} :
           FinishTrigger(c, outcome)

Arrive(c, r) ==
    \/ Refuse(c, r)
    \/ ViewComponents(c, r)
    \/ ViewMonitor(c, r)
    \/ ViewWorker(c, r)
    \/ CancelTask(c, r)
    \/ AskScheduler(c, r)
    \/ ShiftGate(c, r)
    \/ DrainWorker(c, r)

----------------------------------------------------------------------------
(* Properties.                                                              *)

\* The outcome a client is told is one that held while it was served, whoever else
\* moved the gate between the call and the second look: "applied" moved the gate,
\* "already_in_state" found it there, and a conflict means that the worker was
\* draining or that somebody undid the state in between; a drain that was answered
\* is in force.
AnswersTrue ==
    \A c \in Clients : At(c, "answered") =>
        LET a == request[c].answer
            op == request[c].op
            shifts == op \in {"pause_worker", "resume_worker"}
        IN  /\ shifts /\ a.body = "applied" => {Source(op), Target(op)} \subseteq seen[c]
            /\ shifts /\ a.body = "already_in_state" => Target(op) \in seen[c]
            /\ shifts /\ a.body = "rejected" =>
                   "Draining" \in seen[c] \/ Cardinality(seen[c]) > 1
            /\ op = "drain_worker" /\ a.status = 200 => gate = "Draining"

\* Every request is answered or given up, and a manual invocation that took the
\* last slot does not keep it: a saturated scheduler accepts triggers again.
ControlAnswers ==
    /\ \A c \in Clients : Busy(c) ~> ~Busy(c)
    /\ slots = 0 ~> slots > 0
=============================================================================

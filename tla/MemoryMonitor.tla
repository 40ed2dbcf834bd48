---------------------------- MODULE MemoryMonitor ----------------------------
(***************************************************************************)
(* MemoryPressureMonitor of plenora-runtime-resources: samples of resident *)
(* memory are classified with hysteresis, and the classification is        *)
(* projected onto a worker's admission gate and the health registry.       *)
(*                                                                         *)
(* The loop of run and every caller of sample_once are samplers. A sampler *)
(* reads the memory, classifies the reading under the monitor's lock and,  *)
(* with the lock released, moves the gate, the health and the readiness,   *)
(* each a critical section of its own.                                     *)
(***************************************************************************)
EXTENDS Integers, OrderedChecks

CONSTANTS
    Loop,                   \* the sampler that is run's own loop
    Samplers,               \* Loop and the other callers of sample_once
    Operator,               \* whether the control plane pauses and resumes the worker too
    ResumeBelow, SoftLimit, HardLimit,
    PressureConfirmation, RecoveryConfirmation,
    CounterMax,             \* where the streaks saturate: u32::MAX in the code
    MemoryMax               \* bound: the resident bytes, in units the limits tell apart

\* MemoryPressureConfig::validate.
ConfigVerdict(interval) ==
    FirstFailure(<<
        <<interval = 0, "ZeroSampleInterval">>,
        <<ResumeBelow = 0, "ZeroResumeThreshold">>,
        <<ResumeBelow >= SoftLimit, "ResumeNotBelowSoftLimit">>,
        <<SoftLimit >= HardLimit, "SoftNotBelowHardLimit">>,
        <<PressureConfirmation = 0, "ZeroPressureConfirmation">>,
        <<RecoveryConfirmation = 0, "ZeroRecoveryConfirmation">>>>)

ASSUME ConfigAssumption ==
    /\ {ResumeBelow, SoftLimit, HardLimit, CounterMax} \subseteq Nat
    /\ {PressureConfirmation, RecoveryConfirmation} \subseteq 0..CounterMax
    /\ ResumeBelow < SoftLimit /\ SoftLimit < HardLimit
    /\ ConfigVerdict(1) = Ok
ASSUME SamplersAssumption == MemoryMax \in Nat /\ Loop \in Samplers /\ Operator \in BOOLEAN

PressureStates == {"Initializing", "Normal", "Pressured", "Critical", "Unavailable"}

\* A reading of the sampler; Failed is an Err of sample.
Failed == -1
Readings == 1..MemoryMax \cup {Failed}

VARIABLES
    memory,     \* what sample would answer now
    monitor,    \* MonitorState: the state, whether resident_bytes is known, the streaks
    call,       \* how far each sampler's sample_once is
    gate,       \* the worker's admission state
    registry,   \* the component's health and readiness
    shutdown,   \* the shutdown signal is set
    lows, softs \* how many of the latest readings in a row were low, were soft

monitorVars == <<memory, monitor, call, gate, registry, shutdown, lows, softs>>

Idle == [pc |-> "idle", reading |-> Failed, next |-> "Initializing"]

SamplerAt(c, pc) == call[c].pc = pc
Goto(c, pc) == call' = [call EXCEPT ![c].pc = pc]
AllIdle == \A c \in Samplers : SamplerAt(c, "idle")

Saturating(n) == IF n < CounterMax THEN n + 1 ELSE n

----------------------------------------------------------------------------
(* Classification.                                                          *)

\* A low reading that does not yet confirm the recovery.
Recovering(m) ==
    /\ m.state \in {"Pressured", "Critical", "Unavailable"}
    /\ Saturating(m.recovery) < RecoveryConfirmation

\* Mutant: a reading between the limits leaves the recovery streak alone.
BetweenLenient(m) ==
    [m EXCEPT !.pressure = 0, !.state = IF @ = "Initializing" THEN "Normal" ELSE @]

\* A reading above the resume threshold and below the soft limit.
Between(m) ==
    [m EXCEPT !.pressure = 0, !.recovery = 0,
              !.state = IF @ = "Initializing" THEN "Normal" ELSE @]

\* next_state: the monitor after a reading of resident bytes.
NextState(m, resident) ==
    IF resident >= HardLimit
    THEN [m EXCEPT !.pressure = 0, !.recovery = 0, !.state = "Critical"]
    ELSE IF resident >= SoftLimit
    THEN [m EXCEPT !.recovery = 0, !.pressure = Saturating(@),
                   !.state = IF Saturating(m.pressure) >= PressureConfirmation
                             THEN "Pressured" ELSE @]
    ELSE IF resident > ResumeBelow THEN Between(m)
    ELSE IF Recovering(m)
    THEN [m EXCEPT !.pressure = 0, !.recovery = Saturating(@)]
    ELSE [m EXCEPT !.pressure = 0, !.recovery = 0, !.state = "Normal"]

\* apply_unavailable.
Unavailable(m) == [m EXCEPT !.pressure = 0, !.recovery = 0, !.state = "Unavailable"]

\* The status set_health gives the component.
HealthOf(state) ==
    CASE state = "Normal" -> "Healthy"
      [] state = "Critical" -> "Unhealthy"
      [] state \in {"Initializing", "Pressured", "Unavailable"} -> "Degraded"

\* The readiness set_health gives the component.
ReadyOf(state) == state = "Normal"

----------------------------------------------------------------------------
(* sample_once.                                                             *)

\* The run loop looks at the shutdown signal before every tick.
Sample(c) ==
    /\ SamplerAt(c, "idle") /\ (c = Loop => ~shutdown)
    /\ call' = [call EXCEPT ![c] = [@ EXCEPT !.pc = "read", !.reading = memory]]
    /\ UNCHANGED <<memory, monitor, gate, registry, shutdown, lows, softs>>

\* The locked part of apply_sample and of apply_unavailable.
Apply(c) ==
    LET resident == call[c].reading
        next == IF resident = Failed THEN Unavailable(monitor)
                ELSE [NextState(monitor, resident) EXCEPT !.sampled = TRUE]
    IN  /\ SamplerAt(c, "read")
        /\ monitor' = next
        /\ call' = [call EXCEPT ![c] = [Idle EXCEPT !.pc = "gate", !.next = next.state]]
        /\ lows' = IF resident \in 1..ResumeBelow THEN Saturating(lows) ELSE 0
        /\ softs' = IF resident \in SoftLimit..(HardLimit - 1) THEN Saturating(softs) ELSE 0
        /\ UNCHANGED <<memory, gate, registry, shutdown>>

\* pause_admission and resume_admission of the worker.
Pause == gate' = IF gate = "Accepting" THEN "Paused" ELSE gate
Resume == gate' = IF gate = "Paused" THEN "Accepting" ELSE gate

\* Mutant: the gate is opened on the transition to Normal only, and closed on
\* the transition away from it.
MoveGateOnChange(c) ==
    /\ SamplerAt(c, "gate")
    /\ CASE call[c].next = "Normal" /\ registry.health # "Healthy" -> Resume
         [] call[c].next # "Normal" /\ registry.health = "Healthy" -> Pause
         [] OTHER -> UNCHANGED gate
    /\ Goto(c, "health")
    /\ UNCHANGED <<memory, monitor, registry, shutdown, lows, softs>>

\* apply_external_state.
MoveGate(c) ==
    /\ SamplerAt(c, "gate")
    /\ IF call[c].next = "Normal" THEN Resume ELSE Pause
    /\ Goto(c, "health")
    /\ UNCHANGED <<memory, monitor, registry, shutdown, lows, softs>>

ProjectHealth(c) ==
    /\ SamplerAt(c, "health")
    /\ registry' = [registry EXCEPT !.health = HealthOf(call[c].next)]
    /\ Goto(c, "ready")
    /\ UNCHANGED <<memory, monitor, gate, shutdown, lows, softs>>

ProjectReadiness(c) ==
    /\ SamplerAt(c, "ready")
    /\ registry' = [registry EXCEPT !.ready = ReadyOf(call[c].next)]
    /\ call' = [call EXCEPT ![c] = Idle]
    /\ UNCHANGED <<memory, monitor, gate, shutdown, lows, softs>>

----------------------------------------------------------------------------
(* The surroundings.                                                        *)

\* The process's memory, and whether it can be read.
Change ==
    /\ memory' \in Readings \ {memory}
    /\ UNCHANGED <<monitor, call, gate, registry, shutdown, lows, softs>>

OperatorPauses ==
    /\ Operator /\ gate = "Accepting" /\ Pause
    /\ UNCHANGED <<memory, monitor, call, registry, shutdown, lows, softs>>

OperatorResumes ==
    /\ Operator /\ gate = "Paused" /\ Resume
    /\ UNCHANGED <<memory, monitor, call, registry, shutdown, lows, softs>>

BeginDrain ==
    /\ gate # "Draining" /\ gate' = "Draining"
    /\ UNCHANGED <<memory, monitor, call, registry, shutdown, lows, softs>>

RequestShutdown ==
    /\ ~shutdown /\ shutdown' = TRUE
    /\ UNCHANGED <<memory, monitor, call, gate, registry, lows, softs>>

----------------------------------------------------------------------------

\* with_observer: admission is paused before the monitor exists.
MonitorInit ==
    /\ memory \in Readings
    /\ monitor = [state |-> "Initializing", sampled |-> FALSE, pressure |-> 0, recovery |-> 0]
    /\ call = [c \in Samplers |-> Idle]
    /\ gate \in {"Paused", "Draining"}
    /\ registry = [health |-> HealthOf("Initializing"), ready |-> ReadyOf("Initializing")]
    /\ shutdown = FALSE
    /\ lows = 0 /\ softs = 0

SamplerStep(c) == Apply(c) \/ MoveGate(c) \/ ProjectHealth(c) \/ ProjectReadiness(c)

MonitorNext ==
    \/ \E c \in Samplers : Sample(c) \/ SamplerStep(c)
    \/ Change \/ OperatorPauses \/ OperatorResumes \/ BeginDrain \/ RequestShutdown

MonitorSpec == MonitorInit /\ [][MonitorNext]_monitorVars

\* A started sample_once has no await and runs to its end; the ticker of run
\* comes round again.
MonitorFairSpec ==
    /\ MonitorSpec
    /\ \A c \in Samplers : WF_monitorVars(SamplerStep(c))
    /\ WF_monitorVars(Sample(Loop))

----------------------------------------------------------------------------
(* Properties.                                                              *)

\* Hysteresis of next_state, whoever samples: pressure is left only after
\* recovery_confirmation_samples consecutive readings at or below the resume
\* threshold, Pressured is entered only after pressure_confirmation_samples
\* consecutive readings at or above the soft limit, and Critical at once.
Hysteresis ==
    [][monitor'.state # monitor.state =>
        CASE monitor'.state = "Normal" ->
                monitor.state = "Initializing" \/ lows' >= RecoveryConfirmation
          [] monitor'.state = "Pressured" -> softs' >= PressureConfirmation
          [] OTHER -> lows' = 0 /\ softs' = 0]_monitorVars

\* With no sample under way, the gate is open only in state Normal: the
\* fail-closed promise of the monitor (sample_once, apply_external_state).
FailClosed ==
    AllIdle /\ monitor.state # "Normal" => gate # "Accepting"

\* Once operators leave the gate alone, memory that stays low reopens a gate
\* that nobody drains, and memory that stays at the hard limit closes it for
\* good, though samplers race to project what they saw (run resamples on every
\* tick).
GateFollowsMemory ==
    <>[][~OperatorPauses /\ ~OperatorResumes]_monitorVars =>
        /\ <>[](memory \in 1..ResumeBelow /\ ~shutdown)
            => <>[](gate # "Paused" /\ registry.ready)
        /\ <>[](memory >= HardLimit /\ ~shutdown)
            => <>[](gate # "Accepting" /\ registry.health = "Unhealthy")

=============================================================================

----------------------------- MODULE Subprocess -----------------------------
(***************************************************************************)
(* SubprocessSupervisor of plenora-runtime-subprocess: bounded child       *)
(* processes that are waited for, terminated on cancellation, deadline or  *)
(* memory, reaped, and cleaned up when the future of a run is dropped.     *)
(*                                                                         *)
(* One action is the code between two awaits. The supervisor talks to the  *)
(* operating system through try_wait, wait and helper processes that send  *)
(* signals; each of these may fail. A failed wait leaves the leader as it  *)
(* was, or reaped by somebody else, and the code cannot tell which.        *)
(***************************************************************************)
EXTENDS Integers, FiniteSets

CONSTANTS
    Runs,           \* calls of SubprocessSupervisor::run
    MaxConcurrent,  \* max_concurrent
    Mode,           \* process_tree_mode
    MemoryLimit     \* whether resident_memory_limit_bytes is set

ASSUME SupervisorAssumption ==
    /\ IsFiniteSet(Runs)
    /\ MaxConcurrent \in Nat \ {0}
    /\ Mode \in {"DirectChild", "IsolatedTree"}
    /\ MemoryLimit \in BOOLEAN

VARIABLES
    permits,    \* the free permits of the semaphore
    cancel,     \* the runs whose cancellation future is ready
    run         \* the local state of every run, and the process it owns

supervisorVars == <<permits, cancel, run>>

Awaiting == {"queued", "select", "sample", "terminate", "grace", "kill", "hard", "drain"}

\* SubprocessTermination, where "Stopped" is a cancellation, a deadline or the
\* memory limit, and SubprocessErrorKind, where "Unsupervised" is a failed wait,
\* sample or termination: each group is handled alike once it is reported.
Terminations == {"Exited", "Stopped", "CancelledQueued"}
ErrorKinds == {"Spawn", "Unsupervised"}

Run == [pc : Awaiting \cup {"idle", "unwind", "done"},
        \* the direct child: reaped by this run, or gone without it
        leader : {"none", "running", "exited", "reaped", "gone"},
        pinned : BOOLEAN,       \* leader_pinned
        armed : BOOLEAN,        \* AbandonedTreeGuard::armed
        permit : BOOLEAN,       \* the run owns a permit
        cleanup : BOOLEAN,      \* terminate_and_reap runs for the second time
        degraded : BOOLEAN,     \* tree_degraded
        failures : Nat,         \* what the run added to tree_termination_failures
        completed : {0, 1},     \* what the run added to the completed counter
        result : Terminations \cup ErrorKinds \cup {"Pending"},
        forced : BOOLEAN,       \* ghost: the tree was sent a forced signal
        graceful : BOOLEAN,     \* ghost: the leader ended in the graceful window
        abandoned : BOOLEAN]    \* ghost: the future was dropped

Uncalled == [pc |-> "idle", leader |-> "none", pinned |-> TRUE, armed |-> FALSE, permit |-> FALSE,
         cleanup |-> FALSE, degraded |-> FALSE, failures |-> 0, completed |-> 0,
         result |-> "Pending", forced |-> FALSE, graceful |-> FALSE, abandoned |-> FALSE]

RunAt(i, pc) == run[i].pc = pc
Put(i, k) == run' = [run EXCEPT ![i] = k]

----------------------------------------------------------------------------
(* Steps of terminate_and_reap, as what they may make of a run k.           *)

\* Mutant: a confirmed reap leaves the guard armed.
ConfirmArmed(k) == [k EXCEPT !.leader = "reaped", !.completed = @ + 1, !.pc = "drain"]

\* The leader is reaped: run disarms the guard and counts the child.
Confirm(k) == [k EXCEPT !.leader = "reaped", !.armed = FALSE, !.completed = @ + 1, !.pc = "drain"]

\* A forced tree signal that was not delivered.
Degrade(k) ==
    IF Mode = "IsolatedTree" THEN [k EXCEPT !.degraded = TRUE, !.failures = @ + 1] ELSE k

\* A wait or an inspection that failed: the identifier is not pinned any more.
Lost(k) == {[k EXCEPT !.pinned = FALSE, !.leader = leader] : leader \in {k.leader, "gone"}}

\* poll_reaped answers a status, or None.
PollReaps(k, next) == IF k.leader = "exited" THEN {next} ELSE {}
PollMisses(k) == (IF k.leader = "running" THEN {k} ELSE {}) \cup Lost(k)

\* The forced part without an identifier to signal: only the wait is left.
ForceUnpinned(k) ==
    PollReaps(Degrade(k), Confirm(Degrade(k)))
        \cup {[m EXCEPT !.pc = "hard"] : m \in PollMisses(Degrade(k))}

ForceTree(k) == IF k.pinned THEN {[k EXCEPT !.pc = "kill"]} ELSE ForceUnpinned(k)

\* Mutant: a leader that vanished first is not held against the tree.
BeginSilent(k) ==
    PollReaps(k, Confirm(k))
        \cup UNION {IF m.pinned THEN {[m EXCEPT !.pc = "terminate"]} ELSE ForceUnpinned(m) :
                        m \in PollMisses(k)}

\* Up to the first signal.
Begin(k) ==
    PollReaps(k, Confirm(Degrade(k)))
        \cup UNION {IF m.pinned THEN {[m EXCEPT !.pc = "terminate"]} ELSE ForceUnpinned(m) :
                        m \in PollMisses(k)}

\* A failure of supervise makes run terminate and reap; a failure of that is
\* the end, with the guard armed.
Fail(k) ==
    IF k.cleanup THEN {[k EXCEPT !.pc = "drain"]}
    ELSE Begin([k EXCEPT !.cleanup = TRUE, !.result = "Unsupervised"])

\* After the forced signal: poll_reaped, then start_kill, which may be refused.
AfterKill(k) ==
    LET Refused(m) == {Confirm(m)} \cup UNION {Fail(n) : n \in PollMisses(m)}
    IN  PollReaps(k, Confirm(k))
            \cup UNION {{[m EXCEPT !.pc = "hard"]} \cup (IF m.pinned THEN Refused(m) ELSE {}) :
                            m \in PollMisses(k)}

----------------------------------------------------------------------------
(* run: admission.                                                          *)

Call(i) == RunAt(i, "idle") /\ Put(i, [run[i] EXCEPT !.pc = "queued"]) /\ UNCHANGED <<permits, cancel>>

\* The select is biased: a ready cancellation wins over a free permit.
CancelQueued(i) ==
    /\ RunAt(i, "queued") /\ i \in cancel
    /\ Put(i, [run[i] EXCEPT !.pc = "done", !.result = "CancelledQueued"])
    /\ UNCHANGED <<permits, cancel>>

StartChild(i) ==
    /\ RunAt(i, "queued") /\ i \notin cancel /\ permits > 0
    /\ permits' = permits - 1
    /\ Put(i, [run[i] EXCEPT !.pc = "select", !.permit = TRUE, !.leader = "running",
                             !.armed = Mode = "IsolatedTree"])
    /\ UNCHANGED cancel

\* The permit goes back as run returns.
SpawnFails(i) ==
    /\ RunAt(i, "queued") /\ i \notin cancel /\ permits > 0
    /\ Put(i, [run[i] EXCEPT !.pc = "done", !.result = "Spawn"])
    /\ UNCHANGED <<permits, cancel>>

----------------------------------------------------------------------------
(* supervise: the biased select over cancellation, deadline, exit, memory.  *)

\* A step of run i from pc into one of next, where k is its state.
Step(i, pc, next) ==
    /\ RunAt(i, pc) /\ run' \in {[run EXCEPT ![i] = k] : k \in next}
    /\ UNCHANGED <<permits, cancel>>

ObserveCancellation(i) ==
    i \in cancel /\ Step(i, "select", Begin([run[i] EXCEPT !.result = "Stopped"]))

ObserveDeadline(i) ==
    i \notin cancel /\ Step(i, "select", Begin([run[i] EXCEPT !.result = "Stopped"]))

ObserveExit(i) ==
    /\ i \notin cancel
    /\ Step(i, "select", PollReaps(run[i], Confirm([run[i] EXCEPT !.result = "Exited"])))

WaitFails(i) ==
    i \notin cancel /\ Step(i, "select", UNION {Fail(k) : k \in Lost(run[i])})

SampleMemory(i) ==
    /\ MemoryLimit /\ i \notin cancel
    /\ Step(i, "select", {[run[i] EXCEPT !.pc = "sample"]})

SampleFits(i) == Step(i, "sample", {[run[i] EXCEPT !.pc = "select"]})

SampleExceeds(i) == Step(i, "sample", Begin([run[i] EXCEPT !.result = "Stopped"]))

\* A child that has exited has no memory to sample.
SampleFails(i) ==
    Step(i, "sample",
         PollReaps(run[i], Confirm([run[i] EXCEPT !.result = "Exited"]))
             \cup UNION {Fail(k) : k \in PollMisses(run[i])})

----------------------------------------------------------------------------
(* terminate_and_reap, from its first await on.                             *)

TerminateSent(i) == Step(i, "terminate", {[run[i] EXCEPT !.pc = "grace"]})
TerminateRefused(i) == Step(i, "terminate", ForceTree(run[i]))

GraceReaps(i) ==
    Step(i, "grace", PollReaps(run[i], Confirm([run[i] EXCEPT !.graceful = TRUE])))
GraceWaitFails(i) == Step(i, "grace", UNION {ForceTree(k) : k \in Lost(run[i])})
WindowElapses(i) == Step(i, "grace", ForceTree(run[i]))

KillSent(i) == Step(i, "kill", AfterKill([run[i] EXCEPT !.forced = TRUE]))
KillRefused(i) == Step(i, "kill", AfterKill(Degrade(run[i])))

HardReaps(i) == Step(i, "hard", PollReaps(run[i], Confirm(run[i])))

\* Mutant: the last wait has no deadline.
HardElapsesNever(i) == Step(i, "hard", {})

HardElapses(i) == Step(i, "hard", Fail(run[i]))
HardWaitFails(i) == Step(i, "hard", UNION {Fail(k) : k \in Lost(run[i])})

----------------------------------------------------------------------------
(* The end of a run, and of its future.                                     *)

\* The pipes are drained, within a deadline, and the permit is dropped.
DrainEnds(i) ==
    /\ RunAt(i, "drain")
    /\ permits' = permits + 1
    /\ Put(i, [run[i] EXCEPT !.pc = "unwind", !.permit = FALSE])
    /\ UNCHANGED cancel

\* The caller drops the future at one of its awaits.
Abandon(i) ==
    /\ run[i].pc \in Awaiting
    /\ Put(i, [run[i] EXCEPT !.pc = IF @ = "queued" THEN "done" ELSE "unwind",
                             !.abandoned = TRUE])
    /\ UNCHANGED <<permits, cancel>>

\* The locals go in reverse order: an armed guard signals the tree, if the
\* identifier is pinned, the child is killed on drop, the permit goes last.
Unwind(i) ==
    /\ RunAt(i, "unwind")
    /\ \E delivered \in BOOLEAN :
           /\ delivered => run[i].armed /\ run[i].pinned
           /\ Put(i, [run[i] EXCEPT !.pc = "done", !.permit = FALSE,
                                    !.forced = @ \/ delivered,
                                    !.failures = IF run[i].armed /\ ~delivered THEN @ + 1 ELSE @])
    /\ permits' = IF run[i].permit THEN permits + 1 ELSE permits
    /\ UNCHANGED cancel

----------------------------------------------------------------------------
(* The surroundings.                                                        *)

\* After the end of a run nothing looks at its process or its cancellation.
LeaderExits(i) ==
    /\ run[i].leader = "running" /\ ~RunAt(i, "done")
    /\ Put(i, [run[i] EXCEPT !.leader = "exited"])
    /\ UNCHANGED <<permits, cancel>>

RequestCancellation(i) ==
    /\ run[i].pc \in {"queued", "select", "sample"}
    /\ i \notin cancel /\ cancel' = cancel \cup {i}
    /\ UNCHANGED <<permits, run>>

----------------------------------------------------------------------------

SupervisorInit ==
    /\ permits = MaxConcurrent
    /\ cancel = {}
    /\ run = [i \in Runs |-> Uncalled]

SuperviseStep(i) ==
    \/ ObserveCancellation(i) \/ ObserveExit(i)
    \/ SampleFits(i) \/ SampleExceeds(i) \/ SampleFails(i)

TerminateStep(i) ==
    \/ TerminateSent(i) \/ TerminateRefused(i)
    \/ GraceReaps(i) \/ WindowElapses(i)
    \/ KillSent(i) \/ KillRefused(i)
    \/ HardReaps(i) \/ HardElapses(i)

RunStep(i) ==
    \/ CancelQueued(i) \/ StartChild(i) \/ SpawnFails(i)
    \/ SuperviseStep(i) \/ TerminateStep(i) \/ DrainEnds(i) \/ Unwind(i)

SupervisorNext ==
    \E i \in Runs :
        \/ Call(i) \/ RunStep(i) \/ ObserveDeadline(i) \/ SampleMemory(i)
        \/ WaitFails(i) \/ GraceWaitFails(i) \/ HardWaitFails(i)
        \/ Abandon(i) \/ LeaderExits(i) \/ RequestCancellation(i)

SupervisorSpec == SupervisorInit /\ [][SupervisorNext]_supervisorVars

\* Every future is polled and timers elapse; the deadline is looked at before
\* the memory tick that could come back for ever. No process need ever exit and
\* no wait need ever fail.
SupervisorFairSpec ==
    /\ SupervisorSpec
    /\ \A i \in Runs : WF_supervisorVars(RunStep(i)) /\ SF_supervisorVars(ObserveDeadline(i))

----------------------------------------------------------------------------
(* Properties.                                                              *)

\* Every variable keeps its shape; no permit is lost or given back twice, and
\* no child is counted as completed twice.
SupervisorTypeOK ==
    /\ cancel \subseteq Runs
    /\ run \in [Runs -> Run]
    /\ permits = MaxConcurrent - Cardinality({i \in Runs : run[i].permit})

\* A signal of the supervisor never goes to an identifier that the system may
\* have given to somebody else: while one is being sent, and when the guard of
\* a dropped future sends one, the leader has not been reaped (leader_pinned,
\* pinned_target and AbandonedTreeGuard).
IdentifierReserved ==
    \A i \in Runs :
        RunAt(i, "terminate") \/ RunAt(i, "kill") \/ (RunAt(i, "unwind") /\ run[i].armed /\ run[i].pinned)
            => run[i].leader \in {"running", "exited"}

Contained(k) == k.forced \/ k.graceful

\* Containment is not claimed where it failed. A run that did not just see its
\* child exit sent the tree a forced signal, or saw the leader end in the
\* graceful window, or counted a tree failure; and one that returned without
\* tree_termination_degraded or containment_failed did one of the first two.
ContainmentHonest ==
    \A i \in Runs :
        LET k == run[i] IN
        Mode = "IsolatedTree" /\ RunAt(i, "done") /\ k.leader # "none" /\ k.result # "Exited" =>
            /\ Contained(k) \/ k.failures > 0
            /\ ~k.abandoned /\ k.completed = 1 /\ ~k.degraded => Contained(k)

\* Every run returns, although its child never exits, its signals never arrive
\* and its waits fail: each wait has a deadline.
RunReturns == \A i \in Runs : ~RunAt(i, "idle") ~> RunAt(i, "done")

=============================================================================

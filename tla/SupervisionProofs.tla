------------------------- MODULE SupervisionProofs -------------------------
(***************************************************************************)
(* Safety of what is supervised.                                           *)
(*                                                                         *)
(* The runtime handle: any number of tasks and shutdown calls, every bound *)
(* on the tasks, every report capacity, every optional policy, and however *)
(* task names share a health component.                                    *)
(*                                                                         *)
(* The memory monitor: every configuration that validate accepts, any      *)
(* number of samplers, and wherever the streaks saturate.                  *)
(*                                                                         *)
(* The subprocess supervisor: any number of runs and permits, with and     *)
(* without process trees and memory limits. Runs share nothing but the     *)
(* permits, so the invariant says of each run which of its stages it is    *)
(* in, and most lemmas are about one run k: what a part of                 *)
(* terminate_and_reap makes of a child that is still supervised is a run   *)
(* in one of these stages.                                                 *)
(***************************************************************************)
EXTENDS Runtime, MemoryMonitor, Subprocess, FiniteSetTheorems, TLAPS

\* Counts(k): register_task has counted k and finish_task has not uncounted it.
Counts(k) == k.spawn # "idle" /\ k.step \notin {"notify", "done"}

\* What the spawn call, the future and the supervisor of a task say together.
Coherent(k) ==
    /\ k.spawn \in {"idle", "registered"} => k.step = "none" /\ k.future = "none"
    /\ k.spawn = "spawned" => k.step = "none" /\ k.future # "none"
    /\ k.spawn = "armed" => k.step # "none" /\ k.future # "none"
    /\ k.step \notin {"none", "await"} => k.future \in {"completed", "failed"}
    /\ k.step \in {"health", "readiness", "begin", "signal"} => k.future = "failed"

\* The consequences of a failure that the supervisor has passed are in place.
Passed(t, k) ==
    k.future = "failed" /\ k.step \notin {"none", "await", "health"} =>
        /\ ~IsIgnored(t) => health[ComponentOf(t)] # "Healthy"
        /\ k.step # "readiness" /\ DropsReadiness(t) => readiness[ComponentOf(t)] = "NotReady"
        /\ k.step \notin {"readiness", "begin"} /\ IsFatal(t) => phase # "Running"

\* A shutdown call ends the running phase first, and is complete only when
\* nothing is counted any more.
Called(k) ==
    /\ k.step # "idle" => phase # "Running"
    /\ k.step = "idle" => k.outcome = "None"
    /\ k.outcome = "Completed" => \A t \in Tasks : ~IsCounted(t)

Told == \A t \in Tasks : Coherent(task[t]) /\ Passed(t, task[t])
Calls == \A c \in Callers : Called(caller[c])

IInv == TypeOK /\ CountExact /\ Told /\ Calls

----------------------------------------------------------------------------
(* Steps of one task.                                                       *)

Counted == {t \in Tasks : IsCounted(t)}

\* What a step may do to phase, health and readiness that other tasks rely on.
Lowers ==
    /\ phase # "Running" => phase' # "Running"
    /\ \A t \in Tasks : /\ health[ComponentOf(t)] # "Healthy" => health'[ComponentOf(t)] # "Healthy"
                        /\ readiness[ComponentOf(t)] = "NotReady" => readiness'[ComponentOf(t)] = "NotReady"

\* A step of task t that leaves the other tasks and what they rely on alone
\* keeps what is known of every task.
LEMMA TaskStep ==
    ASSUME TypeOK, Told, NEW t \in Tasks, NEW k \in Task, PutTask(t, k), Coherent(k),
           Passed(t, k)', Lowers
    PROVE  Told' /\ task' \in [Tasks -> Task]
  <1>1. task' \in [Tasks -> Task] /\ task'[t] = k /\ \A u \in Tasks \ {t} : task'[u] = task[u]
    BY DEF TypeOK, PutTask
  <1>2. ASSUME NEW u \in Tasks
        PROVE  Coherent(task'[u]) /\ Passed(u, task[u])'
    <2>1. CASE u = t
      BY <1>1, <2>1 DEF Passed
    <2>2. CASE u # t
      <3>1. task'[u] = task[u] /\ Coherent(task[u]) /\ Passed(u, task[u])
        BY <1>1, <2>2 DEF Told
      <3> QED
        BY <3>1 DEF Passed, Lowers
    <2> QED
      BY <2>1, <2>2
  <1> QED
    BY <1>1, <1>2 DEF Told, Coherent

\* A step of task t that neither counts nor uncounts it leaves the set of
\* counted tasks alone.
LEMMA SameCounted ==
    ASSUME TypeOK, NEW t \in Tasks, NEW k, PutTask(t, k), Counts(k) <=> Counts(task[t])
    PROVE  Counted' = Counted
  BY DEF TypeOK, PutTask, Counted, IsCounted, Counts

\* Shutdown calls do not mind a step after which nothing more is counted than
\* before and the phase is not Running again.
LEMMA CallsKept ==
    ASSUME Calls, Lowers, Counted' \subseteq Counted, UNCHANGED caller
    PROVE  Calls'
  <1> SUFFICES ASSUME NEW c \in Callers
               PROVE  Called(caller[c])'
    BY DEF Calls
  <1>1. Called(caller[c]) /\ caller'[c] = caller[c]
    BY DEF Calls
  <1> QED
    BY <1>1 DEF Called, Lowers, Counted

\* A step of task t that leaves the count alone.
LEMMA UncountedStep ==
    ASSUME IInv, NEW t \in Tasks, NEW k \in Task, PutTask(t, k), Coherent(k), Passed(t, k)',
           Lowers, Counts(k) <=> Counts(task[t]), UNCHANGED <<active, caller>>
    PROVE  Told' /\ Calls' /\ CountExact' /\ task' \in [Tasks -> Task]
  <1>1. Told' /\ task' \in [Tasks -> Task]
    BY TaskStep DEF IInv
  <1>2. Counted' = Counted
    BY SameCounted DEF IInv
  <1>3. Calls'
    BY <1>2, CallsKept DEF IInv
  <1>4. CountExact'
    BY <1>2 DEF IInv, CountExact, Counted
  <1> QED
    BY <1>1, <1>3, <1>4

----------------------------------------------------------------------------
(* Steps of one shutdown call.                                              *)

\* A step of call c that leaves the tasks alone.
LEMMA CallStep ==
    ASSUME IInv, NEW c \in Callers, NEW k \in Caller, PutCaller(c, k),
           Called(k)', phase' = phase \/ phase' # "Running", UNCHANGED <<active, health, readiness, task>>
    PROVE  Told' /\ Calls' /\ CountExact' /\ caller' \in [Callers -> Caller]
  <1>1. caller' \in [Callers -> Caller] /\ caller'[c] = k
        /\ \A d \in Callers \ {c} : caller'[d] = caller[d]
    BY DEF IInv, TypeOK, PutCaller
  <1>2. ASSUME NEW d \in Callers
        PROVE  Called(caller[d])'
    <2>1. CASE d = c
      BY <1>1, <2>1 DEF Called, IsCounted
    <2>2. CASE d # c
      BY <1>1, <2>2 DEF IInv, Calls, Called, IsCounted
    <2> QED
      BY <2>1, <2>2
  <1>3. Told'
    BY DEF IInv, Told, Coherent, Passed
  <1>4. CountExact'
    BY DEF IInv, CountExact, IsCounted
  <1> QED
    BY <1>1, <1>2, <1>3, <1>4 DEF Calls

\* A count of zero means that nothing is counted.
LEMMA ZeroIsQuiet ==
    ASSUME IInv, active = 0
    PROVE  \A t \in Tasks : ~IsCounted(t)
  <1>1. IsFiniteSet(Counted)
    BY BoundsAssumption, FS_Subset DEF Counted
  <1>2. Counted = {}
    BY <1>1, FS_EmptySet DEF IInv, CountExact, Counted
  <1> QED
    BY <1>2 DEF Counted

----------------------------------------------------------------------------
(* The inductive invariant.                                                 *)

\* Init starts with nothing counted and nobody told.
LEMMA IInvInit == Init => IInv
  <1> SUFFICES ASSUME Init
               PROVE  IInv
    OBVIOUS
  <1>1. NoTask \in Task /\ NoCaller \in Caller
    BY DEF NoTask, Task, NoCaller, Caller
  <1>2. TypeOK
    <2>1. reports \in Seq(Tasks) /\ Len(reports) <= ReportCapacity
      BY BoundsAssumption DEF Init
    <2>2. active \in 0..MaxTasks
      BY BoundsAssumption DEF Init
    <2>3. task \in [Tasks -> Task] /\ caller \in [Callers -> Caller]
      BY <1>1 DEF Init
    <2> QED
      BY <2>1, <2>2, <2>3 DEF Init, TypeOK
  <1>3. CountExact
    <2>1. {t \in Tasks : IsCounted(t)} = {}
      BY DEF Init, IsCounted, NoTask
    <2> QED
      BY <2>1, FS_EmptySet DEF Init, CountExact
  <1>4. Told
    BY DEF Init, Told, Coherent, Passed, NoTask
  <1>5. Calls
    BY DEF Init, Calls, Called, NoCaller
  <1> QED
    BY <1>2, <1>3, <1>4, <1>5 DEF IInv

\* The steps of a task and of its supervisor.
LEMMA SupervisorKeeps ==
    ASSUME IInv, NEW t \in Tasks,
           SupervisorStep(t) \/ Forget(t) \/ (\E result \in {"completed", "failed"} : FutureEnds(t, result))
    PROVE  IInv'
  <1> USE DEF At
  <1>1. task[t] \in Task /\ Coherent(task[t]) /\ Passed(t, task[t])
    BY DEF IInv, TypeOK, Told
  <1>2. CASE SpawnFuture(t)
    <2>0. PICK k : k = [task[t] EXCEPT !.spawn = "spawned", !.future = "running"]
      OBVIOUS
    <2>1. k \in Task /\ Coherent(k) /\ Passed(t, k)' /\ (Counts(k) <=> Counts(task[t]))
      BY <2>0, <1>1, <1>2 DEF SpawnFuture, Task, Coherent, Passed, Counts
    <2>2. Lowers /\ PutTask(t, k) /\ UNCHANGED <<active, caller>>
      BY <2>0, <1>2 DEF SpawnFuture, Lowers
    <2>3. Told' /\ Calls' /\ CountExact' /\ task' \in [Tasks -> Task]
      BY <2>1, <2>2, UncountedStep
    <2> QED
      BY <1>2, <2>3 DEF SpawnFuture, IInv, TypeOK
  <1>3. CASE RegisterAbortHandle(t)
    <2>0. PICK k : k = [task[t] EXCEPT !.spawn = "armed", !.step = "await"]
      OBVIOUS
    <2>1. k \in Task /\ Coherent(k) /\ Passed(t, k)' /\ (Counts(k) <=> Counts(task[t]))
      BY <2>0, <1>1, <1>3 DEF RegisterAbortHandle, Task, Coherent, Passed, Counts
    <2>2. Lowers /\ PutTask(t, k) /\ UNCHANGED <<active, caller>>
      BY <2>0, <1>3 DEF RegisterAbortHandle, Lowers
    <2>3. Told' /\ Calls' /\ CountExact' /\ task' \in [Tasks -> Task]
      BY <2>1, <2>2, UncountedStep
    <2> QED
      BY <1>3, <2>3 DEF RegisterAbortHandle, IInv, TypeOK
  <1>4. CASE FutureCancelled(t) \/ \E result \in {"completed", "failed"} : FutureEnds(t, result)
    <2>1. PICK result \in {"completed", "failed"} :
              /\ task[t].future = "running"
              /\ PutTask(t, [task[t] EXCEPT !.future = result])
              /\ UNCHANGED <<phase, active, signal, handles, reports, health, readiness, caller>>
      BY <1>4 DEF FutureCancelled, FutureEnds
    <2>0. PICK k : k = [task[t] EXCEPT !.future = result]
      OBVIOUS
    <2>2. k \in Task /\ Coherent(k) /\ Passed(t, k)' /\ (Counts(k) <=> Counts(task[t]))
      BY <2>0, <1>1, <2>1 DEF Task, Coherent, Passed, Counts
    <2>3. Lowers /\ PutTask(t, k)
      BY <2>0, <2>1 DEF Lowers
    <2>4. Told' /\ Calls' /\ CountExact' /\ task' \in [Tasks -> Task]
      BY <2>1, <2>2, <2>3, UncountedStep
    <2> QED
      BY <2>1, <2>4 DEF IInv, TypeOK
  <1>5. CASE JoinFuture(t)
    <2>0. PICK k : k = [task[t] EXCEPT !.step = IF task[t].future = "failed" /\ ~IsIgnored(t)
                                              THEN "health" ELSE "report"]
      OBVIOUS
    <2>1. k \in Task /\ Coherent(k) /\ (Counts(k) <=> Counts(task[t]))
      BY <2>0, <1>1, <1>5 DEF JoinFuture, Task, Coherent, Counts
    <2>2. Passed(t, k)'
      BY <2>0, <1>1, <1>5 DEF JoinFuture, Task, Passed, IsIgnored, IsFatal, DropsReadiness
    <2>3. Lowers /\ PutTask(t, k) /\ UNCHANGED <<active, caller>>
      BY <2>0, <1>5 DEF JoinFuture, Lowers
    <2>4. Told' /\ Calls' /\ CountExact' /\ task' \in [Tasks -> Task]
      BY <2>1, <2>2, <2>3, UncountedStep
    <2> QED
      BY <1>5, <2>4 DEF JoinFuture, IInv, TypeOK
  <1>6. CASE SetHealth(t)
    <2>0. PICK k : k = [task[t] EXCEPT !.step = IF DropsReadiness(t) THEN "readiness" ELSE "report"]
      OBVIOUS
    <2>1. k \in Task /\ Coherent(k) /\ (Counts(k) <=> Counts(task[t]))
      BY <2>0, <1>1, <1>6 DEF SetHealth, Task, Coherent, Counts
    <2>2. FailureHealth(t) \in {"Degraded", "Unhealthy"}
      BY CriticalityAssumption DEF FailureHealth
    <2>3. /\ health' \in [Components -> {"Healthy", "Degraded", "Unhealthy"}]
          /\ health'[ComponentOf(t)] # "Healthy"
          /\ \A u \in Tasks : health[ComponentOf(u)] # "Healthy" => health'[ComponentOf(u)] # "Healthy"
      BY <1>6, <2>2 DEF SetHealth, IInv, TypeOK, Components
    <2>4. Passed(t, k)'
      BY <2>0, <1>1, <1>6, <2>3 DEF SetHealth, Task, Passed, IsFatal, DropsReadiness
    <2>5. Lowers /\ PutTask(t, k) /\ UNCHANGED <<active, caller>>
      BY <2>0, <1>6, <2>3 DEF SetHealth, Lowers
    <2>6. Told' /\ Calls' /\ CountExact' /\ task' \in [Tasks -> Task]
      BY <2>1, <2>4, <2>5, UncountedStep
    <2> QED
      BY <1>6, <2>3, <2>6 DEF SetHealth, IInv, TypeOK
  <1>7. CASE SetReadiness(t)
    <2>0. PICK k : k = [task[t] EXCEPT !.step = IF IsFatal(t) THEN "begin" ELSE "report"]
      OBVIOUS
    <2>1. k \in Task /\ Coherent(k) /\ (Counts(k) <=> Counts(task[t]))
      BY <2>0, <1>1, <1>7 DEF SetReadiness, Task, Coherent, Counts
    <2>2. /\ readiness' \in [Components -> {"Ready", "NotReady"}]
          /\ readiness'[ComponentOf(t)] = "NotReady"
          /\ \A u \in Tasks : readiness[ComponentOf(u)] = "NotReady" => readiness'[ComponentOf(u)] = "NotReady"
      BY <1>7 DEF SetReadiness, IInv, TypeOK, Components
    <2>3. Passed(t, k)'
      BY <2>0, <1>1, <1>7, <2>2 DEF SetReadiness, Task, Passed, Coherent
    <2>4. Lowers /\ PutTask(t, k) /\ UNCHANGED <<active, caller>>
      BY <2>0, <1>7, <2>2 DEF SetReadiness, Lowers
    <2>5. Told' /\ Calls' /\ CountExact' /\ task' \in [Tasks -> Task]
      BY <2>1, <2>3, <2>4, UncountedStep
    <2> QED
      BY <1>7, <2>2, <2>5 DEF SetReadiness, IInv, TypeOK
  <1>8. CASE TaskBeginsShutdown(t)
    <2>0. PICK k : k = [task[t] EXCEPT !.step = IF phase = "Running" THEN "signal" ELSE "report"]
      OBVIOUS
    <2>1. k \in Task /\ Coherent(k) /\ (Counts(k) <=> Counts(task[t]))
      BY <2>0, <1>1, <1>8 DEF TaskBeginsShutdown, Task, Coherent, Counts
    <2>2. phase' \in {"Draining", "Stopped"}
      BY <1>8 DEF TaskBeginsShutdown, BeginShutdown, IInv, TypeOK
    <2>3. Passed(t, k)'
      BY <2>0, <1>1, <1>8, <2>2 DEF TaskBeginsShutdown, Task, Passed, Coherent
    <2>4. Lowers /\ PutTask(t, k) /\ UNCHANGED <<active, caller>>
      BY <2>0, <1>8, <2>2 DEF TaskBeginsShutdown, Lowers
    <2>5. Told' /\ Calls' /\ CountExact' /\ task' \in [Tasks -> Task]
      BY <2>1, <2>3, <2>4, UncountedStep
    <2> QED
      BY <1>8, <2>2, <2>5 DEF TaskBeginsShutdown, IInv, TypeOK
  <1>9. CASE TaskSignals(t)
    <2>0. PICK k : k = [task[t] EXCEPT !.step = "report"]
      OBVIOUS
    <2>1. k \in Task /\ Coherent(k) /\ Passed(t, k)' /\ (Counts(k) <=> Counts(task[t]))
      BY <2>0, <1>1, <1>9 DEF TaskSignals, Task, Coherent, Passed, Counts
    <2>2. Lowers /\ PutTask(t, k) /\ UNCHANGED <<active, caller>>
      BY <2>0, <1>9 DEF TaskSignals, Lowers
    <2>3. Told' /\ Calls' /\ CountExact' /\ task' \in [Tasks -> Task]
      BY <2>1, <2>2, UncountedStep
    <2> QED
      BY <1>9, <2>3 DEF TaskSignals, IInv, TypeOK
  <1>10. CASE RecordReport(t)
    <2>0. PICK k : k = [task[t] EXCEPT !.step = "disarm"]
      OBVIOUS
    <2>1. k \in Task /\ Coherent(k) /\ Passed(t, k)' /\ (Counts(k) <=> Counts(task[t]))
      BY <2>0, <1>1, <1>10 DEF RecordReport, Task, Coherent, Passed, Counts
    <2>2. Lowers /\ PutTask(t, k) /\ UNCHANGED <<active, caller>>
      BY <2>0, <1>10 DEF RecordReport, Lowers
    <2>3. Told' /\ Calls' /\ CountExact' /\ task' \in [Tasks -> Task]
      BY <2>1, <2>2, UncountedStep
    <2>4. reports' \in Seq(Tasks) /\ Len(reports') <= ReportCapacity
      BY <1>10, BoundsAssumption DEF RecordReport, IInv, TypeOK
    <2> QED
      BY <1>10, <2>3, <2>4 DEF RecordReport, IInv, TypeOK
  <1>11. CASE RemoveAbortHandle(t)
    <2>0. PICK k : k = [task[t] EXCEPT !.step = "uncount"]
      OBVIOUS
    <2>1. k \in Task /\ Coherent(k) /\ Passed(t, k)' /\ (Counts(k) <=> Counts(task[t]))
      BY <2>0, <1>1, <1>11 DEF RemoveAbortHandle, Task, Coherent, Passed, Counts
    <2>2. Lowers /\ PutTask(t, k) /\ UNCHANGED <<active, caller>>
      BY <2>0, <1>11 DEF RemoveAbortHandle, Lowers
    <2>3. Told' /\ Calls' /\ CountExact' /\ task' \in [Tasks -> Task]
      BY <2>1, <2>2, UncountedStep
    <2> QED
      BY <1>11, <2>3 DEF RemoveAbortHandle, IInv, TypeOK
  <1>12. CASE Uncount(t)
    <2>0. PICK k : k = [task[t] EXCEPT !.step = "notify"]
      OBVIOUS
    <2>1. k \in Task /\ Coherent(k) /\ Passed(t, k)'
      BY <2>0, <1>1, <1>12 DEF Uncount, Task, Coherent, Passed
    <2>2. Lowers /\ PutTask(t, k) /\ UNCHANGED caller
      BY <2>0, <1>12 DEF Uncount, Lowers
    <2>3. Counted' = Counted \ {t} /\ t \in Counted
      BY <2>0, <1>1, <1>12 DEF Uncount, PutTask, Counted, IsCounted, Coherent, Task, IInv, TypeOK
    <2>4. Told' /\ task' \in [Tasks -> Task]
      BY <2>1, <2>2, TaskStep DEF IInv
    <2>5. Calls'
      BY <2>2, <2>3, CallsKept DEF IInv
    <2>6. IsFiniteSet(Counted)
      BY BoundsAssumption, FS_Subset DEF Counted
    <2>7. Cardinality(Counted') = active - 1 /\ active \in Nat /\ active # 0
      <3>1. Cardinality(Counted \ {t}) = Cardinality(Counted) - 1
        BY <2>0, <2>3, <2>6, FS_RemoveElement
      <3>2. Cardinality(Counted) \in Nat /\ Cardinality(Counted) # 0
        BY <2>3, <2>6, FS_CardinalityType, FS_EmptySet
      <3> QED
        BY <2>3, <3>1, <3>2 DEF IInv, CountExact, Counted
    <2>8. active' \in 0..MaxTasks /\ CountExact'
      BY <1>12, <2>7, BoundsAssumption DEF Uncount, IInv, TypeOK, CountExact, Counted
    <2> QED
      BY <1>12, <2>4, <2>5, <2>8 DEF Uncount, IInv, TypeOK
  <1>13. CASE NotifyWaiters(t)
    <2>0. PICK k : k = [task[t] EXCEPT !.step = "done"]
      OBVIOUS
    <2>1. k \in Task /\ Coherent(k) /\ Passed(t, k)' /\ (Counts(k) <=> Counts(task[t]))
      BY <2>0, <1>1, <1>13 DEF NotifyWaiters, Task, Coherent, Passed, Counts
    <2>2. Lowers /\ PutTask(t, k)
      BY <2>0, <1>13 DEF NotifyWaiters, Lowers
    <2>3. Told' /\ task' \in [Tasks -> Task]
      BY <2>1, <2>2, TaskStep DEF IInv
    <2>4. Counted' = Counted
      BY <2>0, <2>1, <2>2, SameCounted DEF IInv
    <2>5. CountExact'
      BY <1>13, <2>4 DEF NotifyWaiters, IInv, CountExact, Counted
    <2>6. /\ caller' \in [Callers -> Caller]
          /\ \A c \in Callers : caller'[c].step = caller[c].step /\ caller'[c].outcome = caller[c].outcome
      BY <1>13, ZenonT(60) DEF NotifyWaiters, IInv, TypeOK, Caller
    <2>7. Calls'
      BY <1>13, <2>4, <2>6 DEF NotifyWaiters, IInv, Calls, Called, Counted
    <2> QED
      BY <1>13, <2>3, <2>5, <2>6, <2>7 DEF NotifyWaiters, IInv, TypeOK
  <1>14. CASE Forget(t)
    <2>1. NoTask \in Task /\ Coherent(NoTask) /\ Passed(t, NoTask)' /\ (Counts(NoTask) <=> Counts(task[t]))
      BY <1>1, <1>14 DEF Forget, NoTask, Task, Coherent, Passed, Counts
    <2>2. Lowers /\ PutTask(t, NoTask) /\ UNCHANGED <<active, caller>>
      BY <1>14 DEF Forget, Lowers
    <2>3. Told' /\ Calls' /\ CountExact' /\ task' \in [Tasks -> Task]
      BY <2>1, <2>2, UncountedStep
    <2> QED
      BY <1>14, <2>3 DEF Forget, IInv, TypeOK
  <1> QED
    BY <1>2, <1>3, <1>4, <1>5, <1>6, <1>7, <1>8, <1>9, <1>10, <1>11, <1>12, <1>13, <1>14
    DEF SupervisorStep

\* register_task counts one more task, and only in phase Running, in which no
\* shutdown call is complete.
LEMMA RegisterKeeps ==
    ASSUME IInv, NEW t \in Tasks, RegisterTask(t)
    PROVE  IInv'
  <1>0. PICK k : k = [NoTask EXCEPT !.spawn = "registered"]
    OBVIOUS
  <1>1. k \in Task /\ Coherent(k) /\ Passed(t, k)' /\ Lowers /\ PutTask(t, k)
    BY <1>0 DEF RegisterTask, NoTask, Task, Coherent, Passed, Lowers
  <1>2. Told' /\ task' \in [Tasks -> Task]
    BY <1>1, TaskStep DEF IInv
  <1>3. Counted' = Counted \cup {t} /\ t \notin Counted
    BY <1>0 DEF RegisterTask, PutTask, Counted, IsCounted, NoTask, Task, IInv, TypeOK
  <1>4. IsFiniteSet(Counted)
    BY BoundsAssumption, FS_Subset DEF Counted
  <1>5. Cardinality(Counted') = active + 1
    <2>1. Cardinality(Counted \cup {t}) = Cardinality(Counted) + 1
      BY <1>3, <1>4, FS_AddElement
    <2> QED
      BY <1>3, <2>1 DEF IInv, CountExact, Counted
  <1>6. CountExact' /\ active' \in 0..MaxTasks
    BY <1>5, BoundsAssumption DEF RegisterTask, IInv, TypeOK, CountExact, Counted
  <1>7. Calls'
    <2> SUFFICES ASSUME NEW c \in Callers
                 PROVE  Called(caller[c])'
      BY DEF Calls
    <2>1. Called(caller[c]) /\ phase = "Running" /\ UNCHANGED <<phase, caller>>
      BY DEF IInv, Calls, RegisterTask
    <2> QED
      BY <2>1 DEF Called
  <1> QED
    BY <1>2, <1>6, <1>7 DEF RegisterTask, IInv, TypeOK

\* The steps of a shutdown call.
LEMMA CallerKeeps ==
    ASSUME IInv, NEW c \in Callers,
           CallerStep(c) \/ GraceElapses(c) \/ (\E waits \in BOOLEAN : CallShutdown(c, waits))
    PROVE  IInv'
  <1> USE DEF CallerAt
  <1>1. caller[c] \in Caller /\ Called(caller[c])
    BY DEF IInv, TypeOK, Calls
  <1>2. CASE \E waits \in BOOLEAN : CallShutdown(c, waits)
    <2>1. PICK waits \in BOOLEAN : CallShutdown(c, waits)
      BY <1>2
    <2>2. PICK k : k = [NoCaller EXCEPT !.waits = waits, !.started = phase = "Running",
                                        !.step = IF phase = "Running" THEN "signal"
                                                 ELSE IF waits THEN "look" ELSE "done"]
      OBVIOUS
    <2>3. k \in Caller /\ k.step # "idle" /\ k.outcome = "None"
      BY <2>2 DEF NoCaller, Caller
    <2>4. phase' \in {"Draining", "Stopped"}
      BY <2>1 DEF CallShutdown, BeginShutdown, IInv, TypeOK
    <2>5. Called(k)' /\ PutCaller(c, k) /\ UNCHANGED <<active, health, readiness, task>>
      BY <2>1, <2>2, <2>3, <2>4 DEF CallShutdown, Called
    <2>6. Told' /\ Calls' /\ CountExact' /\ caller' \in [Callers -> Caller]
      BY <2>3, <2>4, <2>5, CallStep
    <2> QED
      BY <2>1, <2>4, <2>6 DEF CallShutdown, IInv, TypeOK
  <1>3. ASSUME caller[c].step # "idle", UNCHANGED <<phase, active, handles, reports, health, readiness, task>>,
               signal' \in BOOLEAN, NEW k \in Caller, k.step # "idle", PutCaller(c, k),
               k.outcome = "Completed" => active = 0 \/ k.outcome = caller[c].outcome
        PROVE  IInv'
    <2>1. Called(k)'
      BY <1>1, <1>3, ZeroIsQuiet DEF Called, IsCounted
    <2>2. Told' /\ Calls' /\ CountExact' /\ caller' \in [Callers -> Caller]
      BY <1>3, <2>1, CallStep
    <2> QED
      BY <1>3, <2>2 DEF IInv, TypeOK
  <1>4. CASE CallerSignals(c)
    <2>1. PICK k : k = [caller[c] EXCEPT !.step = IF caller[c].waits THEN "look" ELSE "done"]
      OBVIOUS
    <2>2. k \in Caller /\ k.step # "idle" /\ k.outcome = caller[c].outcome
      BY <1>1, <2>1 DEF Caller
    <2> QED
      BY <1>3, <1>4, <2>1, <2>2 DEF CallerSignals
  <1>5. CASE LookOnce(c)
    <2>1. PICK k : k = IF active = 0 THEN [caller[c] EXCEPT !.step = "stop", !.outcome = "Completed"]
                       ELSE [caller[c] EXCEPT !.step = "subscribe"]
      OBVIOUS
    <2>2. k \in Caller /\ k.step # "idle" /\ (active = 0 \/ k.outcome = caller[c].outcome)
      BY <1>1, <2>1 DEF Caller
    <2> QED
      BY <1>3, <1>5, <2>1, <2>2 DEF LookOnce, IInv, TypeOK
  <1>6. CASE Subscribe(c)
    <2>1. PICK k : k = [caller[c] EXCEPT !.step = "check", !.notified = FALSE]
      OBVIOUS
    <2>2. k \in Caller /\ k.step # "idle" /\ k.outcome = caller[c].outcome
      BY <1>1, <2>1 DEF Caller
    <2> QED
      BY <1>3, <1>6, <2>1, <2>2 DEF Subscribe, IInv, TypeOK
  <1>7. CASE CheckIdle(c)
    <2>1. PICK k : k = IF active = 0 THEN [caller[c] EXCEPT !.step = "stop", !.outcome = "Completed"]
                       ELSE [caller[c] EXCEPT !.step = "waiting"]
      OBVIOUS
    <2>2. k \in Caller /\ k.step # "idle" /\ (active = 0 \/ k.outcome = caller[c].outcome)
      BY <1>1, <2>1 DEF Caller
    <2> QED
      BY <1>3, <1>7, <2>1, <2>2 DEF CheckIdle, IInv, TypeOK
  <1>8. CASE WakeUp(c)
    <2>1. PICK k : k = [caller[c] EXCEPT !.step = "subscribe"]
      OBVIOUS
    <2>2. k \in Caller /\ k.step # "idle" /\ k.outcome = caller[c].outcome
      BY <1>1, <2>1 DEF Caller
    <2> QED
      BY <1>3, <1>8, <2>1, <2>2 DEF WakeUp, IInv, TypeOK
  <1>9. CASE GraceElapses(c)
    <2>1. PICK k : k = IF active = 0 THEN [caller[c] EXCEPT !.step = "stop", !.outcome = "Completed"]
                       ELSE [caller[c] EXCEPT !.step = "abort", !.outcome = "TimedOut"]
      OBVIOUS
    <2>2. k \in Caller /\ k.step # "idle" /\ (k.outcome = "Completed" => active = 0)
      BY <1>1, <2>1 DEF Caller
    <2> QED
      BY <1>3, <1>9, <2>1, <2>2 DEF GraceElapses, IInv, TypeOK
  <1>10. CASE AbortActiveTasks(c)
    <2>1. /\ task' \in [Tasks -> Task]
          /\ \A t \in Tasks : /\ task'[t].spawn = task[t].spawn /\ task'[t].step = task[t].step
                              /\ task'[t].future = task[t].future
      <3>1. ASSUME NEW t \in Tasks
            PROVE  LET n == [task[t] EXCEPT !.aborted = @ \/ t \in handles]
                   IN  /\ n \in Task
                       /\ n.spawn = task[t].spawn /\ n.step = task[t].step
                       /\ n.future = task[t].future
        BY ZenonT(60) DEF IInv, TypeOK, Task
      <3> QED
        BY <1>10, <3>1 DEF AbortActiveTasks
    <2>2. \A t \in Tasks : IsCounted(t)' <=> IsCounted(t)
      BY <2>1 DEF IsCounted
    <2>3. CountExact'
      BY <1>10, <2>2 DEF AbortActiveTasks, IInv, CountExact
    <2>4. Told'
      BY <1>10, <2>1 DEF AbortActiveTasks, IInv, Told, Coherent, Passed
    <2>5. /\ caller' \in [Callers -> Caller]
          /\ \A d \in Callers : caller'[d].outcome = caller[d].outcome
                                /\ (caller'[d].step = "idle" <=> caller[d].step = "idle")
      BY <1>1, <1>10 DEF AbortActiveTasks, PutCaller, IInv, TypeOK, Caller
    <2>6. Calls'
      BY <1>10, <2>2, <2>5 DEF AbortActiveTasks, IInv, Calls, Called
    <2> QED
      BY <1>10, <2>1, <2>3, <2>4, <2>5, <2>6 DEF AbortActiveTasks, IInv, TypeOK
  <1>11. CASE MarkStopped(c)
    <2>1. PICK k : k = [caller[c] EXCEPT !.step = "done"]
      OBVIOUS
    <2>2. k \in Caller /\ k.step = "done" /\ k.outcome = caller[c].outcome
      BY <1>1, <2>1 DEF Caller
    <2>3. Called(k)' /\ PutCaller(c, k) /\ phase' = "Stopped" /\ UNCHANGED <<active, health, readiness, task>>
      BY <1>1, <1>11, <2>1, <2>2 DEF MarkStopped, Called, IsCounted
    <2>4. Told' /\ Calls' /\ CountExact' /\ caller' \in [Callers -> Caller]
      BY <2>2, <2>3, CallStep
    <2> QED
      BY <1>11, <2>3, <2>4 DEF MarkStopped, IInv, TypeOK
  <1> QED
    BY <1>2, <1>4, <1>5, <1>6, <1>7, <1>8, <1>9, <1>10, <1>11 DEF CallerStep

\* Every step keeps the invariant.
LEMMA IInvNext == IInv /\ [Next]_vars => IInv'
  <1> SUFFICES ASSUME IInv, [Next]_vars
               PROVE  IInv'
    OBVIOUS
  <1>1. CASE UNCHANGED vars
    BY <1>1 DEF vars, IInv, TypeOK, CountExact, IsCounted, Told, Coherent, Passed, Calls, Called
  <1>2. CASE \E t \in Tasks : RegisterTask(t)
    BY <1>2, RegisterKeeps
  <1>3. CASE \E t \in Tasks : SupervisorStep(t) \/ Forget(t)
    BY <1>3, SupervisorKeeps
  <1>4. CASE \E t \in Tasks, result \in {"completed", "failed"} : FutureEnds(t, result)
    BY <1>4, SupervisorKeeps
  <1>5. CASE \E c \in Callers, waits \in BOOLEAN : CallShutdown(c, waits)
    BY <1>5, CallerKeeps
  <1>6. CASE \E c \in Callers : CallerStep(c) \/ GraceElapses(c)
    BY <1>6, CallerKeeps
  <1> QED
    BY <1>1, <1>2, <1>3, <1>4, <1>5, <1>6 DEF Next

\* The inductive invariant holds throughout.
THEOREM RuntimeInvariant == Spec => []IInv
  BY IInvInit, IInvNext, PTL DEF Spec

----------------------------------------------------------------------------
(* What it implies.                                                         *)

\* active_tasks counts exactly the tasks between register_task and the end of
\* finish_task, and the report history stays within its capacity.
THEOREM RuntimeCounts == Spec => [](TypeOK /\ CountExact)
  <1>1. IInv => TypeOK /\ CountExact
    BY DEF IInv
  <1> QED
    BY <1>1, RuntimeInvariant, PTL

\* When apply_task_failure has returned and the failure is reported, the phase,
\* the health and the readiness it calls for are in place.
THEOREM FailuresVisible == Spec => []FailureVisible
  <1>1. IInv => FailureVisible
    <2> SUFFICES ASSUME IInv, NEW t \in Tasks, WasReported(t), task[t].future = "failed"
                 PROVE  /\ IsFatal(t) => phase # "Running"
                        /\ DropsReadiness(t) => readiness[ComponentOf(t)] = "NotReady"
                        /\ ~IsIgnored(t) => health[ComponentOf(t)] # "Healthy"
      BY DEF FailureVisible
    <2>1. Passed(t, task[t])
      BY DEF IInv, Told
    <2> QED
      BY <2>1 DEF Passed, WasReported
  <1> QED
    BY <1>1, RuntimeInvariant, PTL

\* A shutdown that answers Completed leaves no future running and none to start.
THEOREM CompletedQuiet == Spec => []CompletedIsQuiet
  <1>1. IInv => CompletedIsQuiet
    <2> SUFFICES ASSUME IInv, NEW c \in Callers, caller[c].outcome = "Completed"
                 PROVE  /\ phase # "Running"
                        /\ \A t \in Tasks : task[t].spawn # "registered" /\ task[t].future # "running"
      BY DEF CompletedIsQuiet
    <2>1. Called(caller[c])
      BY DEF IInv, Calls
    <2>2. \A t \in Tasks : task[t] \in Task /\ Coherent(task[t])
      BY DEF IInv, TypeOK, Told
    <2> QED
      BY <2>1, <2>2 DEF Called, Coherent, IsCounted, Task
  <1> QED
    BY <1>1, RuntimeInvariant, PTL

----------------------------------------------------------------------------
(* The memory monitor.                                                      *)

SamplerCall == [pc : {"idle", "read", "gate", "health", "ready"}, reading : Readings, next : PressureStates]
Monitor == [state : PressureStates, sampled : BOOLEAN, pressure : Nat, recovery : Nat]

\* The streaks the monitor keeps are never longer than the ones that happened,
\* and all of them saturate at the same value.
Streaks ==
    /\ lows \in Nat /\ lows <= CounterMax /\ monitor.recovery <= lows
    /\ softs \in Nat /\ softs <= CounterMax /\ monitor.pressure <= softs

MonitorInv ==
    /\ memory \in Readings
    /\ monitor \in Monitor
    /\ call \in [Samplers -> SamplerCall]
    /\ Streaks

\* What one reading may make of the state and the streaks.
Classified ==
    monitor'.state # monitor.state =>
        CASE monitor'.state = "Normal" ->
                monitor.state = "Initializing" \/ lows' >= RecoveryConfirmation
          [] monitor'.state = "Pressured" -> softs' >= PressureConfirmation
          [] OTHER -> lows' = 0 /\ softs' = 0

----------------------------------------------------------------------------
\* A saturating count is a count, and saturating keeps the order of two counts.
LEMMA SaturatingKeeps ==
    ASSUME NEW m \in Nat, NEW n \in Nat, m <= n, n <= CounterMax
    PROVE  /\ Saturating(m) \in Nat /\ Saturating(n) \in Nat
           /\ Saturating(m) <= Saturating(n) /\ Saturating(n) <= CounterMax
  BY ConfigAssumption DEF Saturating

\* MonitorInit gives every variable its type; no streak has begun.
LEMMA MonitorInvInit == MonitorInit => MonitorInv
  <1> SUFFICES ASSUME MonitorInit
               PROVE  MonitorInv
    OBVIOUS
  <1>1. Idle \in SamplerCall
    BY DEF Idle, SamplerCall, Readings, Failed, PressureStates
  <1>2. monitor \in Monitor
    BY DEF MonitorInit, Monitor, PressureStates
  <1>3. Streaks
    BY ConfigAssumption DEF MonitorInit, Streaks
  <1> QED
    BY <1>1, <1>2, <1>3 DEF MonitorInit, MonitorInv

\* A reading keeps the invariant and moves the state only as Classified says:
\* one step per branch of next_state, and one for apply_unavailable.
LEMMA ApplyClassifies ==
    ASSUME MonitorInv, NEW c \in Samplers, Apply(c)
    PROVE  MonitorInv' /\ Classified
  <1> DEFINE resident == call[c].reading
             m == monitor
  <1>1. resident \in Int /\ (resident = Failed \/ resident >= 1) /\ m \in Monitor
    BY SamplersAssumption DEF MonitorInv, SamplerCall, Readings, Failed
  <1>2. /\ monitor' = IF resident = Failed THEN Unavailable(m)
                      ELSE [NextState(m, resident) EXCEPT !.sampled = TRUE]
        /\ lows' = IF resident \in 1..ResumeBelow THEN Saturating(lows) ELSE 0
        /\ softs' = IF resident \in SoftLimit..(HardLimit - 1) THEN Saturating(softs) ELSE 0
    BY DEF Apply
  <1>3. call' = [call EXCEPT ![c] = [Idle EXCEPT !.pc = "gate", !.next = monitor'.state]]
        /\ memory' = memory
    BY DEF Apply
  <1>4. /\ Saturating(m.recovery) \in Nat /\ Saturating(lows) \in Nat
        /\ Saturating(m.recovery) <= Saturating(lows) /\ Saturating(lows) <= CounterMax
    BY SaturatingKeeps DEF MonitorInv, Monitor, Streaks
  <1>5. /\ Saturating(m.pressure) \in Nat /\ Saturating(softs) \in Nat
        /\ Saturating(m.pressure) <= Saturating(softs) /\ Saturating(softs) <= CounterMax
    BY SaturatingKeeps DEF MonitorInv, Monitor, Streaks
  <1> HIDE DEF resident, m
  <1>6. monitor' \in Monitor /\ Streaks' /\ Classified
    <2>1. CASE resident = Failed
      <3>1. lows' = 0 /\ softs' = 0
        BY <1>2, <2>1, ConfigAssumption DEF Failed
      <3>2. monitor' = [m EXCEPT !.pressure = 0, !.recovery = 0, !.state = "Unavailable"]
        BY <1>2, <2>1 DEF Unavailable
      <3>3. monitor' \in Monitor /\ monitor'.pressure = 0 /\ monitor'.recovery = 0
            /\ monitor'.state = "Unavailable"
        BY <1>1, <3>2 DEF Monitor, PressureStates
      <3> QED
        BY <3>1, <3>3, ConfigAssumption DEF Streaks, Classified
    <2>2. CASE resident # Failed /\ resident >= HardLimit
      <3>1. lows' = 0 /\ softs' = 0
        BY <1>1, <1>2, <2>2, ConfigAssumption
      <3>2. monitor' = [[m EXCEPT !.pressure = 0, !.recovery = 0, !.state = "Critical"]
                           EXCEPT !.sampled = TRUE]
        BY <1>2, <2>2 DEF NextState
      <3>3. monitor' \in Monitor /\ monitor'.pressure = 0 /\ monitor'.recovery = 0
            /\ monitor'.state = "Critical"
        BY <1>1, <3>2 DEF Monitor, PressureStates
      <3> QED
        BY <3>1, <3>3, ConfigAssumption DEF Streaks, Classified
    <2>3. CASE resident # Failed /\ resident < HardLimit /\ resident >= SoftLimit
      <3>0. ~(resident >= HardLimit) /\ resident >= SoftLimit
        BY <1>1, <2>3, ConfigAssumption
      <3>1. lows' = 0 /\ softs' = Saturating(softs)
        BY <1>1, <1>2, <2>3, ConfigAssumption
      <3>2. PICK state : state = IF Saturating(m.pressure) >= PressureConfirmation
                                 THEN "Pressured" ELSE m.state
        OBVIOUS
      <3>3. PICK n : n = Saturating(m.pressure)
        OBVIOUS
      <3>4. monitor' = [[m EXCEPT !.recovery = 0, !.pressure = n, !.state = state]
                           EXCEPT !.sampled = TRUE]
        BY <1>1, <1>2, <2>3, <3>0, <3>2, <3>3 DEF NextState, Monitor
      <3>5. n \in Nat /\ state \in PressureStates
        BY <1>1, <1>5, <3>2, <3>3 DEF Monitor, PressureStates
      <3>6. monitor' \in Monitor /\ monitor'.pressure = n /\ monitor'.recovery = 0
            /\ monitor'.state = state
        BY <1>1, <3>4, <3>5 DEF Monitor
      <3>7. state # m.state => state = "Pressured" /\ softs' >= PressureConfirmation
        BY <1>5, <3>1, <3>2, ConfigAssumption
      <3> QED
        BY <1>5, <3>1, <3>3, <3>6, <3>7, ConfigAssumption DEF Streaks, Classified, m
    <2>4. CASE resident # Failed /\ resident < SoftLimit /\ resident > ResumeBelow
      <3>0. ~(resident >= HardLimit) /\ ~(resident >= SoftLimit) /\ resident > ResumeBelow
        BY <1>1, <2>4, ConfigAssumption
      <3>1. lows' = 0 /\ softs' = 0
        BY <1>1, <1>2, <2>4, ConfigAssumption
      <3>2. PICK state : state = IF m.state = "Initializing" THEN "Normal" ELSE m.state
        OBVIOUS
      <3>3. monitor' = [[m EXCEPT !.pressure = 0, !.recovery = 0, !.state = state]
                           EXCEPT !.sampled = TRUE]
        BY <1>1, <1>2, <2>4, <3>0, <3>2 DEF NextState, Between, Monitor
      <3>4. monitor' \in Monitor /\ monitor'.pressure = 0 /\ monitor'.recovery = 0
            /\ monitor'.state = state
        BY <1>1, <3>2, <3>3 DEF Monitor, PressureStates
      <3> QED
        BY <3>1, <3>2, <3>4, ConfigAssumption DEF Streaks, Classified, m
    <2>5. CASE resident # Failed /\ resident <= ResumeBelow /\ Recovering(m)
      <3>0. ~(resident >= HardLimit) /\ ~(resident >= SoftLimit) /\ ~(resident > ResumeBelow)
        BY <1>1, <2>5, ConfigAssumption
      <3>1. lows' = Saturating(lows) /\ softs' = 0
        BY <1>1, <1>2, <2>5, ConfigAssumption
      <3>2. PICK n : n = Saturating(m.recovery)
        OBVIOUS
      <3>3. monitor' = [[m EXCEPT !.pressure = 0, !.recovery = n] EXCEPT !.sampled = TRUE]
        BY <1>1, <1>2, <2>5, <3>0, <3>2 DEF NextState, Monitor
      <3>4. n \in Nat
        BY <1>4, <3>2
      <3>5. monitor' \in Monitor /\ monitor'.pressure = 0 /\ monitor'.recovery = n
            /\ monitor'.state = m.state
        BY <1>1, <3>3, <3>4 DEF Monitor
      <3> QED
        BY <1>4, <3>1, <3>2, <3>5, ConfigAssumption DEF Streaks, Classified, m
    <2>6. CASE resident # Failed /\ resident <= ResumeBelow /\ ~Recovering(m)
      <3>0. ~(resident >= HardLimit) /\ ~(resident >= SoftLimit) /\ ~(resident > ResumeBelow)
        BY <1>1, <2>6, ConfigAssumption
      <3>1. lows' = Saturating(lows) /\ softs' = 0
        BY <1>1, <1>2, <2>6, ConfigAssumption
      <3>2. monitor' = [[m EXCEPT !.pressure = 0, !.recovery = 0, !.state = "Normal"]
                           EXCEPT !.sampled = TRUE]
        BY <1>2, <2>6, <3>0 DEF NextState
      <3>3. monitor' \in Monitor /\ monitor'.pressure = 0 /\ monitor'.recovery = 0
            /\ monitor'.state = "Normal"
        BY <1>1, <3>2 DEF Monitor, PressureStates
      <3>4. m.state \in {"Normal", "Initializing"} \/ lows' >= RecoveryConfirmation
        BY <1>1, <1>4, <2>6, <3>1, ConfigAssumption DEF Recovering, Monitor, PressureStates
      <3> QED
        BY <1>4, <3>1, <3>3, <3>4, ConfigAssumption DEF Streaks, Classified, m
    <2> QED
      BY <1>1, <2>1, <2>2, <2>3, <2>4, <2>5, <2>6, ConfigAssumption
  <1>7. call' \in [Samplers -> SamplerCall]
    <2>1. [Idle EXCEPT !.pc = "gate", !.next = monitor'.state] \in SamplerCall
      BY <1>6 DEF Idle, SamplerCall, Monitor, Readings, Failed
    <2> QED
      BY <1>3, <2>1 DEF MonitorInv
  <1> QED
    BY <1>3, <1>6, <1>7 DEF MonitorInv

\* No other step touches the monitor.
LEMMA OthersKeep ==
    ASSUME MonitorInv, [MonitorNext]_monitorVars, \A c \in Samplers : ~Apply(c)
    PROVE  MonitorInv' /\ Classified
  <1>1. UNCHANGED <<monitor, lows, softs>>
    BY DEF MonitorNext, monitorVars, SamplerStep, Sample, MoveGate, ProjectHealth,
       ProjectReadiness, Change, OperatorPauses,
           OperatorResumes, BeginDrain, RequestShutdown
  <1>2. memory' \in Readings
    BY DEF MonitorInv, MonitorNext, monitorVars, SamplerStep, Sample, MoveGate, ProjectHealth,
       ProjectReadiness, Change,
           OperatorPauses, OperatorResumes, BeginDrain, RequestShutdown
  <1>3. call' \in [Samplers -> SamplerCall]
    <2>1. ASSUME NEW c \in Samplers, Sample(c)
          PROVE  call' \in [Samplers -> SamplerCall]
      <3>1. [call[c] EXCEPT !.pc = "read", !.reading = memory] \in SamplerCall
        BY DEF MonitorInv, SamplerCall
      <3> QED
        BY <2>1, <3>1 DEF MonitorInv, Sample
    <2>2. CASE \E c \in Samplers : MoveGate(c) \/ ProjectHealth(c)
      BY <2>2 DEF MonitorInv, MoveGate, ProjectHealth, Goto, SamplerCall
    <2>3. CASE \E c \in Samplers : ProjectReadiness(c)
      <3>1. Idle \in SamplerCall
        BY DEF Idle, SamplerCall, Readings, Failed, PressureStates
      <3> QED
        BY <2>3, <3>1 DEF MonitorInv, ProjectReadiness
    <2>4. CASE UNCHANGED call
      BY <2>4 DEF MonitorInv
    <2> QED
      BY <2>1, <2>2, <2>3, <2>4 DEF MonitorNext, monitorVars, SamplerStep, Change, OperatorPauses,
         OperatorResumes, BeginDrain, RequestShutdown
  <1> QED
    BY <1>1, <1>2, <1>3 DEF MonitorInv, Streaks, Classified

\* next_state keeps its hysteresis whoever samples and in whatever order the
\* readings are applied.
THEOREM MonitorHysteresis == MonitorSpec => Hysteresis
  <1>1. MonitorInv /\ [MonitorNext]_monitorVars => MonitorInv' /\ Classified
    BY ApplyClassifies, OthersKeep
  <1>2. MonitorSpec => [][Classified]_monitorVars
    BY <1>1, MonitorInvInit, PTL DEF MonitorSpec
  <1> QED
    BY <1>2, PTL DEF Hysteresis, Classified

----------------------------------------------------------------------------
(* The subprocess supervisor.                                               *)

Tree == Mode = "IsolatedTree"
Working == {"select", "sample", "terminate", "grace", "kill", "hard"}

\* What is known of a child that has not been reaped: the guard watches it, and
\* its identifier is its own for as long as it is pinned.
Watched(k) ==
    /\ k \in Run /\ k.completed = 0
    /\ k.armed <=> Tree
    /\ k.pinned => k.leader \in {"running", "exited"}
    /\ k.degraded => k.failures > 0
Live(k) == Watched(k) /\ k.permit

\* The forced part has been tried, or its failure is on record.
Acted(k) == Tree => k.forced \/ k.degraded

\* A child that this run reaped.
Reaped(k) ==
    /\ k \in Run /\ k.completed = 1 /\ ~k.armed
    /\ k.degraded => k.failures > 0
    /\ Tree /\ k.result # "Exited" => k.forced \/ k.graceful \/ k.degraded

\* A run without a child.
Childless(k) ==
    /\ k \in Run /\ k.leader = "none" /\ ~k.armed /\ ~k.permit /\ k.completed = 0
    /\ ~k.degraded

\* The stages, by pc.
Waiting(k) == k.pc \in {"idle", "queued"} /\ Childless(k)
Supervised(k) ==
    /\ k.pc \in Working /\ Live(k)
    /\ k.pc \in {"terminate", "kill"} => k.pinned
    /\ k.pc = "hard" => Acted(k)
Draining(k) == k.pc = "drain" /\ k.permit /\ (Watched(k) \/ Reaped(k))
Leaving(k) == k.pc = "unwind" /\ (Watched(k) \/ Reaped(k))
Over(k) ==
    /\ k.pc = "done" /\ k \in Run /\ ~k.permit
    /\ \/ k.leader = "none"
       \/ Reaped(k)
       \/ k.completed = 0 /\ (Tree => k.forced \/ k.failures > 0)

\* A run that goes on with its child.
Going(k) == Supervised(k) \/ Draining(k)

Stage(k) == Waiting(k) \/ Supervised(k) \/ Draining(k) \/ Leaving(k) \/ Over(k)

SupervisorInv == SupervisorTypeOK /\ \A i \in Runs : Stage(run[i])

----------------------------------------------------------------------------
(* One run: the parts of terminate_and_reap.                                *)

\* A confirmed reap ends the supervision, and is honest if the run was.
LEMMA ConfirmStage ==
  ASSUME NEW k, Live(k), Tree /\ k.result # "Exited" => k.forced \/ k.graceful \/ k.degraded
  PROVE  Going(Confirm(k))
  <1> DEFINE n == Confirm(k)
  <1>0. k \in Run /\ k.completed = 0 /\ k.permit
    BY DEF Live, Watched
  <1> DEFINE c == [k EXCEPT !.leader = "reaped", !.armed = FALSE, !.completed = 1, !.pc = "drain"]
  <1>a. n = c
    BY <1>0 DEF Confirm
  <1>b. c \in Run
    <2> DEFINE r == [k EXCEPT !.leader = "reaped", !.armed = FALSE]
               d == [r EXCEPT !.completed = 1]
    <2>1. r \in Run
      BY <1>0, ZenonT(60) DEF Run
    <2>2. d \in Run
      BY <2>1, ZenonT(60) DEF Run
    <2>3. [d EXCEPT !.pc = "drain"] \in Run
      BY <2>2, ZenonT(60) DEF Run, Awaiting
    <2> QED
      BY <2>3
  <1>1. n \in Run /\ n.completed = 1 /\ ~n.armed /\ n.pc = "drain" /\ n.permit
    BY <1>0, <1>a, <1>b DEF Run
  <1>2. Reaped(n)
    BY <1>1 DEF Live, Watched, Confirm, Run, Reaped
  <1> QED
    BY <1>1, <1>2 DEF Going, Draining

\* A forced signal that was not delivered is on record.
LEMMA DegradeLive ==
  ASSUME NEW k, Live(k)
  PROVE  Live(Degrade(k)) /\ Acted(Degrade(k)) /\ (Tree => Degrade(k).degraded)
  <1>1. k \in Run /\ k.failures \in Nat
    BY DEF Live, Watched, Run
  <1>2. CASE Tree
    <2> DEFINE more == k.failures + 1
    <2>0. Degrade(k) = [k EXCEPT !.degraded = TRUE, !.failures = more]
      BY <1>2 DEF Degrade, Tree
    <2>1. more \in Nat /\ more > 0
      BY <1>1
    <2> HIDE DEF more
    <2>2. Degrade(k) \in Run /\ Degrade(k).degraded /\ Degrade(k).failures > 0
      BY <1>1, <2>0, <2>1 DEF Run
    <2> QED
      BY <1>1, <1>2, <2>0, <2>2 DEF Live, Watched, Acted, Run
  <1>3. CASE ~Tree
    BY <1>3 DEF Degrade, Tree, Acted
  <1> QED
    BY <1>2, <1>3

\* A failed wait unpins the identifier and changes nothing else that counts.
LEMMA LostLive ==
  ASSUME NEW k, Live(k), NEW m \in Lost(k)
  PROVE  Live(m) /\ ~m.pinned /\ (Acted(k) => Acted(m))
  <1>1. k \in Run
    BY DEF Live, Watched
  <1>2. PICK leader \in {k.leader, "gone"} : m = [k EXCEPT !.pinned = FALSE, !.leader = leader]
    BY DEF Lost
  <1>3. m \in Run /\ ~m.pinned
    BY <1>1, <1>2 DEF Run
  <1> QED
    BY <1>1, <1>2, <1>3 DEF Live, Watched, Acted, Run

\* The same of poll_reaped when it has no status.
LEMMA MissesLive ==
  ASSUME NEW k, Live(k), NEW m \in PollMisses(k)
  PROVE  Live(m) /\ (Acted(k) => Acted(m))
  BY LostLive DEF PollMisses

\* Moving a supervised run to another step of terminate_and_reap.
LEMMA GotoStage ==
  ASSUME NEW k, Live(k), NEW pc \in Working,
         pc \in {"terminate", "kill"} => k.pinned, pc = "hard" => Acted(k)
  PROVE  Going([k EXCEPT !.pc = pc])
  <1> DEFINE n == [k EXCEPT !.pc = pc]
  <1>1. Live(n) /\ n.pc = pc /\ n.pinned = k.pinned /\ (Acted(k) => Acted(n))
    BY DEF Live, Watched, Run, Working, Awaiting, Acted
  <1> QED
    BY <1>1 DEF Going, Supervised

\* The forced part without an identifier.
LEMMA ForceUnpinnedStage ==
  ASSUME NEW k, Live(k), NEW n \in ForceUnpinned(k)
  PROVE  Going(n)
  <1> DEFINE d == Degrade(k)
  <1>1. Live(d) /\ Acted(d) /\ (Tree => d.degraded)
    BY DegradeLive
  <1> HIDE DEF d
  <1>2. n \in PollReaps(d, Confirm(d)) \cup {[m EXCEPT !.pc = "hard"] : m \in PollMisses(d)}
    BY DEF ForceUnpinned, d
  <1>3. CASE n \in PollReaps(d, Confirm(d))
    <2>1. n = Confirm(d)
      BY <1>3 DEF PollReaps
    <2> QED
      BY <1>1, <2>1, ConfirmStage
  <1>4. ASSUME NEW m \in PollMisses(d), n = [m EXCEPT !.pc = "hard"] PROVE Going(n)
    <2>1. Live(m) /\ Acted(m)
      BY <1>1, MissesLive
    <2> QED
      BY <1>4, <2>1, GotoStage DEF Working
  <1> QED
    BY <1>2, <1>3, <1>4

\* terminate_and_reap from its beginning.
LEMMA BeginStage ==
  ASSUME NEW k, Live(k), NEW n \in Begin(k)
  PROVE  Going(n)
  <1>1. CASE n \in PollReaps(k, Confirm(Degrade(k)))
    <2>1. n = Confirm(Degrade(k))
      BY <1>1 DEF PollReaps
    <2> QED
      BY <2>1, DegradeLive, ConfirmStage
  <1>2. ASSUME NEW m \in PollMisses(k),
               n \in IF m.pinned THEN {[m EXCEPT !.pc = "terminate"]} ELSE ForceUnpinned(m)
        PROVE  Going(n)
    <2>1. Live(m)
      BY MissesLive
    <2>2. CASE m.pinned
      BY <1>2, <2>1, <2>2, GotoStage DEF Working
    <2>3. CASE ~m.pinned
      BY <1>2, <2>1, <2>3, ForceUnpinnedStage
    <2> QED
      BY <2>2, <2>3
  <1> QED
    BY <1>1, <1>2 DEF Begin

\* Its forced part.
LEMMA ForceStage ==
  ASSUME NEW k, Live(k), NEW n \in ForceTree(k)
  PROVE  Going(n)
  <1>1. CASE k.pinned
    BY <1>1, GotoStage DEF ForceTree, Working
  <1>2. CASE ~k.pinned
    BY <1>2, ForceUnpinnedStage DEF ForceTree
  <1> QED
    BY <1>1, <1>2

\* A failure is cleaned up after once, and leaves the guard armed then.
LEMMA FailStage ==
  ASSUME NEW k, Live(k), NEW n \in Fail(k)
  PROVE  Going(n)
  <1>1. CASE k.cleanup
    <2>1. n = [k EXCEPT !.pc = "drain"]
      BY <1>1 DEF Fail
    <2>2. Watched(n) /\ n.pc = "drain" /\ n.permit
      BY <2>1 DEF Live, Watched, Run, Awaiting
    <2> QED
      BY <2>2 DEF Going, Draining
  <1>2. CASE ~k.cleanup
    <2> DEFINE c == [k EXCEPT !.cleanup = TRUE, !.result = "Unsupervised"]
    <2>0. k \in Run /\ c \in Run
      BY DEF Live, Watched, Run, ErrorKinds
    <2>a. /\ c.completed = k.completed /\ c.armed = k.armed /\ c.permit = k.permit
          /\ c.pinned = k.pinned /\ c.leader = k.leader /\ c.degraded = k.degraded
          /\ c.failures = k.failures
      BY <2>0 DEF Run
    <2>1. Live(c)
      BY <2>0, <2>a DEF Live, Watched
    <2>2. n \in Begin(c)
      BY <1>2 DEF Fail
    <2> QED
      BY <2>1, <2>2, BeginStage
  <1> QED
    BY <1>1, <1>2

\* What follows the forced signal, delivered or not.
LEMMA AfterKillStage ==
  ASSUME NEW k, Live(k), Acted(k), NEW n \in AfterKill(k)
  PROVE  Going(n)
  <1>1. ASSUME NEW m, Live(m), Acted(m) PROVE Going(Confirm(m))
    BY <1>1, ConfirmStage DEF Acted
  <1>2. CASE n \in PollReaps(k, Confirm(k))
    BY <1>1, <1>2 DEF PollReaps
  <1>3. ASSUME NEW m \in PollMisses(k),
               \/ n = [m EXCEPT !.pc = "hard"]
               \/ n = Confirm(m)
               \/ \E l \in PollMisses(m) : n \in Fail(l)
        PROVE  Going(n)
    <2>1. Live(m) /\ Acted(m)
      BY MissesLive
    <2>2. CASE n = [m EXCEPT !.pc = "hard"]
      BY <2>1, <2>2, GotoStage DEF Working
    <2>3. CASE n = Confirm(m)
      BY <1>1, <2>1, <2>3
    <2>4. CASE \E l \in PollMisses(m) : n \in Fail(l)
      BY <2>1, <2>4, MissesLive, FailStage
    <2> QED
      BY <1>3, <2>2, <2>3, <2>4
  <1>4. \/ n \in PollReaps(k, Confirm(k))
        \/ \E m \in PollMisses(k) :
               \/ n = [m EXCEPT !.pc = "hard"]
               \/ n = Confirm(m)
               \/ \E l \in PollMisses(m) : n \in Fail(l)
    BY DEF AfterKill
  <1> QED
    BY <1>2, <1>3, <1>4

----------------------------------------------------------------------------
(* The runs together.                                                       *)

Holding == {i \in Runs : run[i].permit}

\* A run moves on and keeps, or goes without, its permit.
LEMMA MoveKeeps ==
  ASSUME SupervisorInv, NEW i \in Runs, NEW k, Stage(k), k.permit <=> run[i].permit,
         run' = [run EXCEPT ![i] = k], permits' = permits, cancel' \subseteq Runs
  PROVE  SupervisorInv'
  <1>1. run \in [Runs -> Run] /\ k \in Run
    BY DEF SupervisorInv, SupervisorTypeOK, Stage, Waiting, Supervised, Draining, Leaving, Over, Live, Watched, Reaped,
           Childless
  <1>2. run' \in [Runs -> Run] /\ run'[i] = k /\ \A j \in Runs \ {i} : run'[j] = run[j]
    BY <1>1
  <1>3. {j \in Runs : run'[j].permit} = {j \in Runs : run[j].permit}
    BY <1>2
  <1>4. SupervisorTypeOK'
    BY <1>2, <1>3 DEF SupervisorInv, SupervisorTypeOK
  <1>5. \A j \in Runs : Stage(run'[j])
    BY <1>2 DEF SupervisorInv
  <1> QED
    BY <1>4, <1>5 DEF SupervisorInv

\* The permits of the semaphore and of the runs add up.
LEMMA HoldingCounted ==
  ASSUME SupervisorInv
  PROVE  IsFiniteSet(Holding) /\ Cardinality(Holding) \in Nat /\ permits = MaxConcurrent - Cardinality(Holding)
  <1>1. IsFiniteSet(Holding)
    BY SupervisorAssumption, FS_Subset DEF Holding
  <1>2. Cardinality(Holding) \in Nat
    BY <1>1, FS_CardinalityType
  <1> QED
    BY <1>1, <1>2 DEF SupervisorInv, SupervisorTypeOK, Holding

\* A run moves on and takes a permit.
LEMMA TakeKeeps ==
  ASSUME SupervisorInv, NEW i \in Runs, NEW k, Stage(k), k.permit, ~run[i].permit,
         run' = [run EXCEPT ![i] = k], permits' = permits - 1, cancel' = cancel
  PROVE  SupervisorInv'
  <1>1. run \in [Runs -> Run] /\ k \in Run
    BY DEF SupervisorInv, SupervisorTypeOK, Stage, Waiting, Supervised, Draining, Leaving, Over, Live, Watched, Reaped,
           Childless
  <1>2. run' \in [Runs -> Run] /\ run'[i] = k /\ \A j \in Runs \ {i} : run'[j] = run[j]
    BY <1>1
  <1>3. Holding' = Holding \cup {i} /\ i \notin Holding
    BY <1>2 DEF Holding
  <1>4. Cardinality(Holding') = Cardinality(Holding) + 1
    BY <1>3, HoldingCounted, FS_AddElement
  <1>5. permits' = MaxConcurrent - Cardinality(Holding')
    BY <1>4, HoldingCounted, SupervisorAssumption
  <1>6. SupervisorTypeOK'
    BY <1>2, <1>5 DEF SupervisorInv, SupervisorTypeOK, Holding
  <1>7. \A j \in Runs : Stage(run'[j])
    BY <1>2 DEF SupervisorInv
  <1> QED
    BY <1>6, <1>7 DEF SupervisorInv

\* A run moves on and gives its permit back.
LEMMA GiveKeeps ==
  ASSUME SupervisorInv, NEW i \in Runs, NEW k, Stage(k), ~k.permit, run[i].permit,
         run' = [run EXCEPT ![i] = k], permits' = permits + 1, cancel' = cancel
  PROVE  SupervisorInv'
  <1>1. run \in [Runs -> Run] /\ k \in Run
    BY DEF SupervisorInv, SupervisorTypeOK, Stage, Waiting, Supervised, Draining, Leaving, Over, Live, Watched, Reaped,
           Childless
  <1>2. run' \in [Runs -> Run] /\ run'[i] = k /\ \A j \in Runs \ {i} : run'[j] = run[j]
    BY <1>1
  <1>3. Holding' = Holding \ {i} /\ i \in Holding
    BY <1>2 DEF Holding
  <1>4. Cardinality(Holding') = Cardinality(Holding) - 1
    BY <1>3, HoldingCounted, FS_RemoveElement
  <1>5. permits' = MaxConcurrent - Cardinality(Holding')
    BY <1>4, HoldingCounted, SupervisorAssumption
  <1>6. SupervisorTypeOK'
    BY <1>2, <1>5 DEF SupervisorInv, SupervisorTypeOK, Holding
  <1>7. \A j \in Runs : Stage(run'[j])
    BY <1>2 DEF SupervisorInv
  <1> QED
    BY <1>6, <1>7 DEF SupervisorInv

\* The stage of a run that is at work, by its pc.
LEMMA AtWork ==
  ASSUME SupervisorInv, NEW i \in Runs, run[i].pc \in Working
  PROVE  Supervised(run[i]) /\ Live(run[i]) /\ run[i] \in Run
  BY DEF SupervisorInv, Stage, Waiting, Supervised, Draining, Leaving, Over, Working, Live, Watched

\* A step of a run at work into runs that go on with their child.
LEMMA StepKeeps ==
  ASSUME SupervisorInv, NEW i \in Runs, NEW pc \in Working, NEW next, Step(i, pc, next),
         \A n \in next : Going(n)
  PROVE  SupervisorInv'
  <1>1. PICK k \in next : run' = [run EXCEPT ![i] = k]
    BY DEF Step
  <1>2. k.permit /\ Stage(k)
    BY <1>1 DEF Going, Supervised, Draining, Live, Stage
  <1>3. run[i].permit
    BY AtWork DEF Step, RunAt, Live
  <1>4. permits' = permits /\ cancel' \subseteq Runs
    BY DEF Step, SupervisorInv, SupervisorTypeOK
  <1> QED
    BY <1>1, <1>2, <1>3, <1>4, MoveKeeps

\* Recording a result leaves a live run live.
LEMMA ResultLive ==
  ASSUME NEW k, Live(k), NEW result \in Terminations
  PROVE  Live([k EXCEPT !.result = result]) /\ [k EXCEPT !.result = result].result = result
  BY DEF Live, Watched, Run

\* supervise.
LEMMA SuperviseKeeps ==
  ASSUME SupervisorInv, NEW i \in Runs,
         \/ ObserveCancellation(i) \/ ObserveDeadline(i) \/ ObserveExit(i) \/ WaitFails(i)
         \/ SampleMemory(i) \/ SampleFits(i) \/ SampleExceeds(i) \/ SampleFails(i)
  PROVE  SupervisorInv'
  <1> DEFINE k == run[i]
             stopped == [k EXCEPT !.result = "Stopped"]
             exited == [k EXCEPT !.result = "Exited"]
  <1>1. Live(k)
    BY AtWork DEF ObserveCancellation, ObserveDeadline, ObserveExit, WaitFails, SampleMemory,
                  SampleFits, SampleExceeds, SampleFails, Step, RunAt, Working
  <1>2. Live(stopped) /\ Live(exited) /\ exited.result = "Exited"
    BY <1>1, ResultLive DEF Terminations
  <1> HIDE DEF stopped, exited
  <1>3. \A n \in Begin(stopped) : Going(n)
    BY <1>2, BeginStage
  <1>4. Going(Confirm(exited))
    BY <1>2, ConfirmStage
  <1>5. \A n \in PollReaps(k, Confirm(exited)) : Going(n)
    BY <1>4 DEF PollReaps
  <1>6. \A m \in PollMisses(k) \cup Lost(k) : \A n \in Fail(m) : Going(n)
    BY <1>1, MissesLive, LostLive, FailStage
  <1>7. Going([k EXCEPT !.pc = "sample"]) /\ Going([k EXCEPT !.pc = "select"])
    BY <1>1, GotoStage DEF Working
  <1>8. "select" \in Working /\ "sample" \in Working
    BY DEF Working
  <1>9. CASE ObserveCancellation(i) \/ ObserveDeadline(i) \/ SampleExceeds(i)
    BY <1>3, <1>8, <1>9, StepKeeps DEF ObserveCancellation, ObserveDeadline, SampleExceeds, stopped
  <1>10. CASE ObserveExit(i)
    BY <1>5, <1>8, <1>10, StepKeeps DEF ObserveExit, exited
  <1>11. CASE WaitFails(i)
    <2> DEFINE next == UNION {Fail(m) : m \in Lost(run[i])}
    <2>1. \A n \in next : Going(n)
      BY <1>6
    <2>2. Step(i, "select", next)
      BY <1>11 DEF WaitFails
    <2> QED
      BY <2>1, <2>2, <1>8, StepKeeps
  <1>12. CASE SampleMemory(i) \/ SampleFits(i)
    BY <1>7, <1>8, <1>12, StepKeeps DEF SampleMemory, SampleFits
  <1>13. CASE SampleFails(i)
    <2> DEFINE next == PollReaps(k, Confirm(exited)) \cup UNION {Fail(m) : m \in PollMisses(k)}
    <2>1. \A n \in next : Going(n)
      BY <1>5, <1>6
    <2>2. Step(i, "sample", next)
      BY <1>13 DEF SampleFails, exited
    <2> QED
      BY <2>1, <2>2, <1>8, StepKeeps
  <1> QED
    BY <1>9, <1>10, <1>11, <1>12, <1>13

\* terminate_and_reap, from its first await on.
LEMMA TerminateKeeps ==
  ASSUME SupervisorInv, NEW i \in Runs, TerminateStep(i) \/ GraceWaitFails(i) \/ HardWaitFails(i)
  PROVE  SupervisorInv'
  <1> DEFINE k == run[i]
  <1>1. Live(k) /\ (k.pc = "hard" => Acted(k))
    BY AtWork DEF TerminateStep, GraceWaitFails, HardWaitFails, TerminateSent, TerminateRefused,
                  GraceReaps, WindowElapses, KillSent, KillRefused, HardReaps, HardElapses, Step, RunAt,
                  Working, Supervised
  <1>2. {"terminate", "grace", "kill", "hard"} \subseteq Working
    BY DEF Working
  <1>3. \A n \in ForceTree(k) : Going(n)
    BY <1>1, ForceStage
  <1>4. \A m \in Lost(k) : Live(m)
    BY <1>1, LostLive
  <1>5. CASE TerminateSent(i)
    <2>1. Going([k EXCEPT !.pc = "grace"])
      BY <1>1, <1>2, GotoStage
    <2> QED
      BY <1>2, <1>5, <2>1, StepKeeps DEF TerminateSent
  <1>6. CASE TerminateRefused(i) \/ WindowElapses(i)
    BY <1>2, <1>3, <1>6, StepKeeps DEF TerminateRefused, WindowElapses
  <1>7. CASE GraceReaps(i)
    <2> DEFINE g == [k EXCEPT !.graceful = TRUE]
    <2>1. Live(g) /\ g.graceful
      BY <1>1 DEF Live, Watched, Run
    <2>2. Going(Confirm(g))
      BY <2>1, ConfirmStage
    <2>3. \A n \in PollReaps(k, Confirm(g)) : Going(n)
      BY <2>2 DEF PollReaps
    <2> QED
      BY <1>2, <1>7, <2>3, StepKeeps DEF GraceReaps
  <1>8. CASE GraceWaitFails(i)
    <2> DEFINE next == UNION {ForceTree(m) : m \in Lost(run[i])}
    <2>1. \A n \in next : Going(n)
      BY <1>4, ForceStage
    <2>2. Step(i, "grace", next)
      BY <1>8 DEF GraceWaitFails
    <2> QED
      BY <1>2, <2>1, <2>2, StepKeeps
  <1>9. CASE KillSent(i)
    <2> DEFINE f == [k EXCEPT !.forced = TRUE]
    <2>1. Live(f) /\ Acted(f)
      BY <1>1 DEF Live, Watched, Run, Acted
    <2>2. \A n \in AfterKill(f) : Going(n)
      BY <2>1, AfterKillStage
    <2> QED
      BY <1>2, <1>9, <2>2, StepKeeps DEF KillSent
  <1>10. CASE KillRefused(i)
    <2>1. \A n \in AfterKill(Degrade(k)) : Going(n)
      BY <1>1, DegradeLive, AfterKillStage
    <2> QED
      BY <1>2, <1>10, <2>1, StepKeeps DEF KillRefused
  <1>11. CASE HardReaps(i)
    <2>1. Going(Confirm(k))
      BY <1>1, <1>11, ConfirmStage DEF HardReaps, Step, RunAt, Acted
    <2>2. \A n \in PollReaps(k, Confirm(k)) : Going(n)
      BY <2>1 DEF PollReaps
    <2> QED
      BY <1>2, <1>11, <2>2, StepKeeps DEF HardReaps
  <1>12. CASE HardElapses(i)
    <2>1. \A n \in Fail(k) : Going(n)
      BY <1>1, FailStage
    <2> QED
      BY <1>2, <1>12, <2>1, StepKeeps DEF HardElapses
  <1>13. CASE HardWaitFails(i)
    <2> DEFINE next == UNION {Fail(m) : m \in Lost(run[i])}
    <2>1. \A n \in next : Going(n)
      BY <1>4, FailStage
    <2>2. Step(i, "hard", next)
      BY <1>13 DEF HardWaitFails
    <2> QED
      BY <1>2, <2>1, <2>2, StepKeeps
  <1> QED
    BY <1>5, <1>6, <1>7, <1>8, <1>9, <1>10, <1>11, <1>12, <1>13 DEF TerminateStep

\* A run before it has a child.
LEMMA AdmissionKeeps ==
  ASSUME SupervisorInv, NEW i \in Runs, Call(i) \/ CancelQueued(i) \/ StartChild(i) \/ SpawnFails(i)
  PROVE  SupervisorInv'
  <1> DEFINE k == run[i]
  <1>1. k.pc \in {"idle", "queued"}
    BY DEF Call, CancelQueued, StartChild, SpawnFails, RunAt
  <1>2. Childless(k) /\ k \in Run
    BY <1>1 DEF SupervisorInv, Stage, Waiting, Supervised, Draining, Leaving, Over, Working, Childless
  <1>3. CASE Call(i)
    <2> DEFINE n == [k EXCEPT !.pc = "queued"]
    <2>1. n.pc = "queued" /\ Childless(n)
      BY <1>2 DEF Childless, Run, Awaiting
    <2>2. Stage(n) /\ (n.permit <=> k.permit)
      BY <1>2, <2>1 DEF Stage, Waiting, Childless
    <2> QED
      BY <1>3, <2>2, MoveKeeps DEF Call, Put, SupervisorInv, SupervisorTypeOK
  <1>4. CASE CancelQueued(i) \/ SpawnFails(i)
    <2>1. PICK result \in {"CancelledQueued", "Spawn"} :
              run' = [run EXCEPT ![i] = [k EXCEPT !.pc = "done", !.result = result]]
      BY <1>4 DEF CancelQueued, SpawnFails, Put
    <2> DEFINE n == [k EXCEPT !.pc = "done", !.result = result]
    <2>2. n \in Run /\ n.pc = "done" /\ n.leader = "none" /\ ~n.permit
      BY <1>2 DEF Childless, Run, Terminations, ErrorKinds
    <2>3. Stage(n) /\ (n.permit <=> k.permit)
      BY <1>2, <2>2 DEF Stage, Over, Childless
    <2> QED
      BY <1>4, <2>1, <2>3, MoveKeeps DEF CancelQueued, SpawnFails, SupervisorInv, SupervisorTypeOK
  <1>5. CASE StartChild(i)
    <2> DEFINE n == [k EXCEPT !.pc = "select", !.permit = TRUE, !.leader = "running", !.armed = Tree]
    <2>1. n \in Run /\ n.pc = "select" /\ n.permit
      BY <1>2, ZenonT(60) DEF Run, Awaiting, Tree
    <2>a. /\ n.completed = k.completed /\ n.degraded = k.degraded
          /\ n.armed = Tree /\ n.leader = "running"
      BY <1>2 DEF Run
    <2>2. Live(n)
      BY <1>2, <2>1, <2>a DEF Live, Watched, Childless
    <2>3. Stage(n)
      BY <2>1, <2>2 DEF Stage, Supervised, Working
    <2>4. run' = [run EXCEPT ![i] = n] /\ permits' = permits - 1 /\ cancel' = cancel
      BY <1>5 DEF StartChild, Put, Tree
    <2> QED
      BY <1>2, <2>1, <2>3, <2>4, TakeKeeps DEF Childless
  <1> QED
    BY <1>3, <1>4, <1>5

\* The permit goes back once the pipes are drained.
LEMMA DrainKeeps ==
  ASSUME SupervisorInv, NEW i \in Runs, DrainEnds(i)
  PROVE  SupervisorInv'
  <1> DEFINE k == run[i]
             n == [k EXCEPT !.pc = "unwind", !.permit = FALSE]
  <1>1. Draining(k) /\ k \in Run
    BY DEF DrainEnds, RunAt, SupervisorInv, Stage, Waiting, Supervised, Draining, Leaving, Over, Working,
           Watched, Reaped
  <1>2. n \in Run /\ n.pc = "unwind" /\ ~n.permit
    BY <1>1 DEF Run
  <1>3. CASE Watched(k)
    <2>1. Watched(n)
      BY <1>1, <1>2, <1>3 DEF Watched, Run
    <2> QED
      BY <1>1, <1>2, <2>1, GiveKeeps DEF Stage, Leaving, Draining, DrainEnds, Put
  <1>4. CASE Reaped(k)
    <2>1. Reaped(n)
      BY <1>1, <1>2, <1>4 DEF Reaped, Run
    <2> QED
      BY <1>1, <1>2, <2>1, GiveKeeps DEF Stage, Leaving, Draining, DrainEnds, Put
  <1> QED
    BY <1>1, <1>3, <1>4 DEF Draining

\* A future that is dropped leaves its child to the guard.
LEMMA AbandonKeeps ==
  ASSUME SupervisorInv, NEW i \in Runs, Abandon(i)
  PROVE  SupervisorInv'
  <1> DEFINE k == run[i]
             pc == IF k.pc = "queued" THEN "done" ELSE "unwind"
             n == [k EXCEPT !.pc = pc, !.abandoned = TRUE]
  <1>1. Stage(k) /\ k.pc \in Awaiting /\ run' = [run EXCEPT ![i] = n]
    BY DEF Abandon, SupervisorInv, Put
  <1>2. k \in Run
    BY DEF SupervisorInv, SupervisorTypeOK
  <1>3. n \in Run /\ n.pc = pc /\ (n.permit <=> k.permit)
    BY <1>2 DEF Run
  <1>4. CASE k.pc = "queued"
    <2>1. Childless(k)
      BY <1>1, <1>4 DEF Stage, Waiting, Supervised, Draining, Leaving, Over, Working
    <2>2. n.leader = "none" /\ ~n.permit
      BY <1>2, <2>1 DEF Childless, Run
    <2>3. Stage(n)
      BY <1>3, <1>4, <2>2 DEF Stage, Over
    <2> QED
      BY <1>1, <1>3, <2>3, MoveKeeps DEF Abandon, SupervisorInv, SupervisorTypeOK
  <1>5. CASE k.pc # "queued"
    <2>1. Watched(k) \/ Reaped(k)
      BY <1>1, <1>5 DEF Stage, Waiting, Supervised, Draining, Leaving, Over, Awaiting, Live
    <2>2. Watched(n) \/ Reaped(n)
      <3>1. CASE Watched(k)
        BY <1>2, <1>3, <3>1 DEF Watched, Run
      <3>2. CASE Reaped(k)
        BY <1>2, <1>3, <3>2 DEF Reaped, Run
      <3> QED
        BY <2>1, <3>1, <3>2
    <2>3. Stage(n)
      BY <1>3, <1>5, <2>2 DEF Stage, Leaving
    <2> QED
      BY <1>1, <1>3, <2>3, MoveKeeps DEF Abandon, SupervisorInv, SupervisorTypeOK
  <1> QED
    BY <1>4, <1>5

\* An armed guard signals the tree or counts its failure.
LEMMA UnwindKeeps ==
  ASSUME SupervisorInv, NEW i \in Runs, Unwind(i)
  PROVE  SupervisorInv'
  <1> DEFINE k == run[i]
  <1>1. PICK delivered \in BOOLEAN :
            /\ delivered => k.armed /\ k.pinned
            /\ Put(i, [k EXCEPT !.pc = "done", !.permit = FALSE, !.forced = @ \/ delivered,
                                !.failures = IF k.armed /\ ~delivered THEN @ + 1 ELSE @])
    BY DEF Unwind
  <1> DEFINE failures == IF k.armed /\ ~delivered THEN k.failures + 1 ELSE k.failures
             forced == k.forced \/ delivered
             n == [k EXCEPT !.pc = "done", !.permit = FALSE, !.forced = forced, !.failures = failures]
  <1>2. k \in Run /\ (Watched(k) \/ Reaped(k))
    BY DEF Unwind, RunAt, SupervisorInv, Stage, Waiting, Supervised, Draining, Leaving, Over, Working,
           Watched, Reaped
  <1>3. k.failures \in Nat
    BY <1>2 DEF Run
  <1>4. failures \in Nat /\ forced \in BOOLEAN /\ (k.failures > 0 => failures > 0)
        /\ (k.armed => forced \/ failures > 0) /\ (k.forced => forced)
    <2>1. forced \in BOOLEAN /\ (k.forced => forced)
      OBVIOUS
    <2>2. PICK before \in Nat : before = k.failures
      BY <1>3
    <2>3. CASE k.armed /\ ~delivered
      <3>1. failures = before + 1
        BY <2>2, <2>3
      <3>2. failures \in Nat /\ failures > 0
        BY <3>1
      <3> QED
        BY <2>1, <3>2
    <2>4. CASE ~(k.armed /\ ~delivered)
      <3>1. failures = k.failures
        BY <2>4
      <3>2. k.armed => forced
        BY <2>4
      <3> HIDE DEF failures, forced
      <3> QED
        BY <1>3, <2>1, <3>1, <3>2
    <2> QED
      BY <2>3, <2>4
  <1>5. run' = [run EXCEPT ![i] = n]
    BY <1>1 DEF Put
  <1> HIDE DEF failures, forced
  <1>6. n \in Run /\ n.pc = "done" /\ ~n.permit /\ (n.forced <=> forced) /\ n.failures = failures
    BY <1>2, <1>4 DEF Run
  <1>7. Stage(n)
    <2>1. CASE Watched(k)
      <3>1. n.completed = 0 /\ (Tree => n.forced \/ n.failures > 0)
        BY <1>2, <1>4, <1>6, <2>1 DEF Watched, Run
      <3> QED
        BY <1>6, <3>1 DEF Stage, Over
    <2>2. CASE Reaped(k)
      <3>1. Reaped(n)
        BY <1>2, <1>4, <1>6, <2>2 DEF Reaped, Run
      <3> QED
        BY <1>6, <3>1 DEF Stage, Over
    <2> QED
      BY <1>2, <2>1, <2>2
  <1>8. CASE k.permit
    BY <1>5, <1>6, <1>7, <1>8, GiveKeeps DEF Unwind
  <1>9. CASE ~k.permit
    BY <1>5, <1>6, <1>7, <1>9, MoveKeeps DEF Unwind, SupervisorInv, SupervisorTypeOK
  <1> QED
    BY <1>8, <1>9

\* A child that exits stays its parent's until it is reaped.
LEMMA LeaderExitsKeeps ==
  ASSUME SupervisorInv, NEW i \in Runs, LeaderExits(i)
  PROVE  SupervisorInv'
  <1> DEFINE k == run[i]
             n == [k EXCEPT !.leader = "exited"]
  <1>1. k \in Run /\ Stage(k) /\ k.leader = "running" /\ k.pc # "done"
    BY DEF LeaderExits, SupervisorInv, SupervisorTypeOK, RunAt
  <1>2. n \in Run /\ n.leader = "exited" /\ n.pc = k.pc /\ (n.permit <=> k.permit)
    BY <1>1 DEF Run
  <1>3. Watched(k) => Watched(n)
    BY <1>1, <1>2 DEF Watched, Run
  <1>4. Reaped(k) => Reaped(n)
    BY <1>1, <1>2 DEF Reaped, Run
  <1>5. Supervised(k) => Supervised(n)
    BY <1>1, <1>2, <1>3 DEF Supervised, Live, Acted, Run
  <1>6. Stage(n)
    BY <1>1, <1>2, <1>3, <1>4, <1>5 DEF Stage, Waiting, Childless, Draining, Leaving, Over
  <1> QED
    BY <1>2, <1>6, MoveKeeps DEF LeaderExits, Put, SupervisorInv, SupervisorTypeOK

----------------------------------------------------------------------------

\* SupervisorInit puts every run in stage Waiting.
LEMMA SupervisorInvInit == SupervisorInit => SupervisorInv
  <1> SUFFICES ASSUME SupervisorInit PROVE SupervisorInv
    OBVIOUS
  <1>1. Uncalled \in Run
    BY DEF Uncalled, Run, Awaiting
  <1>2. Childless(Uncalled) /\ Uncalled.pc = "idle" /\ ~Uncalled.permit
    BY <1>1 DEF Childless, Uncalled
  <1>3. {i \in Runs : run[i].permit} = {}
    BY <1>2 DEF SupervisorInit
  <1>4. permits = MaxConcurrent - Cardinality({i \in Runs : run[i].permit})
    BY <1>3, FS_EmptySet, SupervisorAssumption DEF SupervisorInit
  <1>5. SupervisorTypeOK
    BY <1>1, <1>4 DEF SupervisorInit, SupervisorTypeOK
  <1>6. \A i \in Runs : Stage(run[i])
    BY <1>2 DEF SupervisorInit, Stage, Waiting
  <1> QED
    BY <1>5, <1>6 DEF SupervisorInv

\* Every step leaves every run in one of the stages.
LEMMA SupervisorInvNext == SupervisorInv /\ [SupervisorNext]_supervisorVars => SupervisorInv'
  <1> SUFFICES ASSUME SupervisorInv, [SupervisorNext]_supervisorVars PROVE SupervisorInv'
    OBVIOUS
  <1>1. CASE UNCHANGED supervisorVars
    BY <1>1 DEF supervisorVars, SupervisorInv, SupervisorTypeOK
  <1>2. ASSUME NEW i \in Runs, RequestCancellation(i) PROVE SupervisorInv'
    BY <1>2 DEF RequestCancellation, SupervisorInv, SupervisorTypeOK
  <1>3. ASSUME NEW i \in Runs,
               \/ Call(i) \/ RunStep(i) \/ ObserveDeadline(i) \/ SampleMemory(i)
               \/ WaitFails(i) \/ GraceWaitFails(i) \/ HardWaitFails(i)
               \/ Abandon(i) \/ LeaderExits(i)
        PROVE  SupervisorInv'
    BY <1>3, SuperviseKeeps, TerminateKeeps, AdmissionKeeps, DrainKeeps, AbandonKeeps, UnwindKeeps,
       LeaderExitsKeeps DEF RunStep, SuperviseStep
  <1> QED
    BY <1>1, <1>2, <1>3 DEF SupervisorNext

\* The invariant of the stages holds throughout.
THEOREM SubprocessInvariant == SupervisorSpec => []SupervisorInv
  BY SupervisorInvInit, SupervisorInvNext, PTL DEF SupervisorSpec

\* The permits are accounted for whatever futures are dropped, and no child is
\* counted twice.
THEOREM SubprocessTypes == SupervisorSpec => []SupervisorTypeOK
  <1>1. SupervisorInv => SupervisorTypeOK
    BY DEF SupervisorInv
  <1> QED
    BY <1>1, SubprocessInvariant, PTL

\* For any number of runs: no signal goes to an identifier that was given up,
\* neither from terminate_and_reap nor from the guard of a dropped future.
THEOREM SignalsReserved == SupervisorSpec => []IdentifierReserved
  <1>1. SupervisorInv => IdentifierReserved
    <2> SUFFICES ASSUME SupervisorInv, NEW i \in Runs,
                        RunAt(i, "terminate") \/ RunAt(i, "kill")
                            \/ (RunAt(i, "unwind") /\ run[i].armed /\ run[i].pinned)
                 PROVE  run[i].leader \in {"running", "exited"}
      BY DEF IdentifierReserved
    <2>1. Stage(run[i])
      BY DEF SupervisorInv
    <2>2. CASE run[i].pc \in {"terminate", "kill"}
      BY <2>1, <2>2 DEF Stage, Waiting, Supervised, Draining, Leaving, Over, Live, Watched
    <2>3. CASE run[i].pc = "unwind" /\ run[i].armed /\ run[i].pinned
      BY <2>1, <2>3 DEF Stage, Waiting, Supervised, Draining, Leaving, Over, Working, Watched, Reaped
    <2> QED
      BY <2>2, <2>3 DEF RunAt
  <1> QED
    BY <1>1, SubprocessInvariant, PTL

\* For any number of runs: a run whose child it had to stop reached the tree with
\* a forced signal, saw the leader end in its graceful window, or owns up to it.
THEOREM ContainmentReported == SupervisorSpec => []ContainmentHonest
  <1>1. SupervisorInv => ContainmentHonest
    <2> SUFFICES ASSUME SupervisorInv, NEW i \in Runs, Tree, RunAt(i, "done"), run[i].leader # "none",
                        run[i].result # "Exited"
                 PROVE  /\ Contained(run[i]) \/ run[i].failures > 0
                        /\ ~run[i].abandoned /\ run[i].completed = 1 /\ ~run[i].degraded
                               => Contained(run[i])
      BY DEF ContainmentHonest, Tree
    <2>1. Over(run[i])
      BY DEF SupervisorInv, Stage, Waiting, Supervised, Draining, Leaving, Over, Working, RunAt
    <2>2. CASE Reaped(run[i])
      BY <2>2 DEF Reaped, Contained
    <2>3. CASE run[i].completed = 0 /\ (Tree => run[i].forced \/ run[i].failures > 0)
      BY <2>3 DEF Contained
    <2> QED
      BY <2>1, <2>2, <2>3 DEF Over
  <1> QED
    BY <1>1, SubprocessInvariant, PTL
=============================================================================

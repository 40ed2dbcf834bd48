------------------------ MODULE WorkerExecutorProofs ------------------------
(***************************************************************************)
(* Proofs about the worker executor for any set of concurrent calls, any   *)
(* max_in_flight and any configuration.                                    *)
(*                                                                         *)
(* The inductive invariant IInv says, for every place an execute call can  *)
(* be in, what it holds (Counts: a permit, a unit of the in-flight count,  *)
(* an entry of the registry) and what it has reported so far (Told).       *)
(***************************************************************************)
EXTENDS WorkerExecutor, FiniteSetTheorems, TLAPS

\* Where a call holds a permit, is counted in flight, and is in the registry.
CountedPcs == {"started", "running", "cleanup", "leave", "finish"}
HoldingPcs == CountedPcs \cup {"permitted", "admitting", "refused", "release"}
ListedPcs == {"running", "cleanup", "leave"}

Within(f, P) == {i \in Jobs : f[i].pc \in P}

Bit(k, P) == IF k.pc \in P THEN 1 ELSE 0

\* Permits, in-flight count and registry agree with where the calls are.
Counts ==
    /\ IsFiniteSet(Within(job, HoldingPcs))
    /\ available = MaxInFlight - Cardinality(Within(job, HoldingPcs))
    /\ inFlight = Cardinality(Within(job, CountedPcs))
    /\ registry = Within(job, ListedPcs)

\* A result the handler's part of an execution ends with.
Settled(k) ==
    \/ k.result.kind \in {"Ok", "Handler", "TimedOut", "Cancelled"} /\ k.state = Reports(k.result)
    \/ k.result.kind = "Dropped" /\ ~IsTerminal(k.state)

\* What a call that returns has told its observer.
Reported(k) ==
    /\ IsTerminal(k.state)
    /\ k.result.kind \in {"Ok", "Handler", "TimedOut", "Cancelled"} => k.state = Reports(k.result)
    /\ k.result.kind = "Admission" =>
           k.state = Cancelled(RejectionReason(k.result.reason)) /\ ~k.invoked

\* What a call has reported, by where it is.
Told(k) ==
    /\ k.result # Admission("ControlCapacityUnavailable")
    /\ k.pc \in {"waiting", "permitted", "admitting", "refused", "started"} =>
           k.state = Plain("Queued") /\ ~k.invoked
    /\ k.pc \in {"waiting", "permitted", "admitting", "refused", "started", "running"} =>
           k.result.kind = "Pending"
    /\ k.pc = "running" => k.state = Plain("Running")
    /\ k.pc = "cleanup" =>
           k.state = Plain("Running") /\ k.result.kind \in {"TimedOut", "Cancelled"}
    /\ k.pc \in {"leave", "finish", "release"} => Settled(k)
    /\ k.pc = "guard" => k.result.kind = "Dropped" /\ ~IsTerminal(k.state)
    /\ k.pc = "done" => Reported(k)

\* The gate has been closed for good since drain began, and a drain that saw the
\* count at zero left it there.
Drained ==
    /\ drain.pc # "idle" => admission = "Draining"
    /\ drain.outcome = "Completed" => drain.pc = "done" /\ inFlight = 0

IInv ==
    /\ TypeOK
    /\ Counts
    /\ \A j \in Jobs : Told(job[j])
    /\ Drained

----------------------------------------------------------------------------
(* Sets of calls.                                                           *)

\* One call moving changes the number of calls at a set of places by at most one.
LEMMA Move ==
    ASSUME NEW f \in [Jobs -> Job], NEW j \in Jobs, NEW k \in Job, NEW P,
           NEW g, g = [f EXCEPT ![j] = k], IsFiniteSet(Within(f, P))
    PROVE  /\ IsFiniteSet(Within(g, P))
           /\ Cardinality(Within(g, P)) =
                  Cardinality(Within(f, P)) + Bit(k, P)
                                            - Bit(f[j], P)
  <1> DEFINE A == Within(f, P)
             B == Within(g, P)
  <1>1. /\ k.pc \in P => B = A \cup {j}
        /\ k.pc \notin P => B = A \ {j}
        /\ j \in A <=> f[j].pc \in P
    BY DEF Within
  <1>2. /\ IsFiniteSet(A \cup {j})
        /\ Cardinality(A \cup {j}) = IF j \in A THEN Cardinality(A) ELSE Cardinality(A) + 1
    BY FS_AddElement
  <1>3. /\ IsFiniteSet(A \ {j})
        /\ Cardinality(A \ {j}) = IF j \in A THEN Cardinality(A) - 1 ELSE Cardinality(A)
    BY FS_RemoveElement
  <1>4. Cardinality(A) \in Nat
    BY FS_CardinalityType
  <1> HIDE DEF A, B
  <1>5. /\ IsFiniteSet(B)
        /\ k.pc \in P => Cardinality(B) = IF j \in A THEN Cardinality(A) ELSE Cardinality(A) + 1
        /\ k.pc \notin P => Cardinality(B) = IF j \in A THEN Cardinality(A) - 1 ELSE Cardinality(A)
    BY <1>1, <1>2, <1>3, Zenon
  <1>6. Cardinality(B) = Cardinality(A) + Bit(k, P)
                                        - Bit(f[j], P)
    BY <1>1, <1>4, <1>5, SMT DEF Bit
  <1> QED
    BY <1>5, <1>6 DEF A, B

\* The calls in flight are among those that hold a permit, and so are finitely many.
LEMMA CountedHold ==
    ASSUME NEW f, IsFiniteSet(Within(f, HoldingPcs))
    PROVE  /\ IsFiniteSet(Within(f, CountedPcs))
           /\ Cardinality(Within(f, CountedPcs)) \in Nat
           /\ Cardinality(Within(f, HoldingPcs)) \in Nat
           /\ Cardinality(Within(f, CountedPcs)) <= Cardinality(Within(f, HoldingPcs))
           /\ IsFiniteSet(Within(f, ListedPcs))
           /\ Cardinality(Within(f, ListedPcs)) \in Nat
           /\ Cardinality(Within(f, ListedPcs)) <= Cardinality(Within(f, CountedPcs))
  <1>1. /\ Within(f, CountedPcs) \subseteq Within(f, HoldingPcs)
        /\ Within(f, ListedPcs) \subseteq Within(f, CountedPcs)
    BY DEF Within, HoldingPcs, CountedPcs, ListedPcs
  <1>2. /\ IsFiniteSet(Within(f, CountedPcs))
        /\ Cardinality(Within(f, CountedPcs)) <= Cardinality(Within(f, HoldingPcs))
    BY <1>1, FS_Subset
  <1>3. /\ IsFiniteSet(Within(f, ListedPcs))
        /\ Cardinality(Within(f, ListedPcs)) <= Cardinality(Within(f, CountedPcs))
    BY <1>1, <1>2, FS_Subset
  <1> QED
    BY <1>2, <1>3, FS_CardinalityType

\* A step that moves one call keeps the counts if what it takes and gives back is
\* the difference between the two places.
LEMMA PutCounts ==
    ASSUME TypeOK, Counts, NEW j \in Jobs, NEW k \in Job, Put(j, k),
           available' = available + Bit(job[j], HoldingPcs)
                                  - Bit(k, HoldingPcs),
           inFlight' = inFlight + Bit(k, CountedPcs)
                                - Bit(job[j], CountedPcs),
           registry' = IF k.pc \in ListedPcs THEN registry \cup {j} ELSE registry \ {j}
    PROVE  Counts'
  <1>0. job \in [Jobs -> Job] /\ job' = [job EXCEPT ![j] = k] /\ available \in Int /\ inFlight \in Int
    BY CapacityAssumption DEF TypeOK, Put
  <1>1. /\ IsFiniteSet(Within(job, HoldingPcs))
        /\ IsFiniteSet(Within(job, CountedPcs))
        /\ Cardinality(Within(job, CountedPcs)) \in Nat
        /\ Cardinality(Within(job, HoldingPcs)) \in Nat
    BY CountedHold DEF Counts
  <1>2. /\ IsFiniteSet(Within(job', HoldingPcs))
        /\ Cardinality(Within(job', HoldingPcs)) =
               Cardinality(Within(job, HoldingPcs)) + Bit(k, HoldingPcs)
                                                    - Bit(job[j], HoldingPcs)
    BY <1>0, <1>1, Move, ZenonT(60)
  <1>3. Cardinality(Within(job', CountedPcs)) =
            Cardinality(Within(job, CountedPcs)) + Bit(k, CountedPcs)
                                                 - Bit(job[j], CountedPcs)
    BY <1>0, <1>1, Move, ZenonT(60)
  <1>4. registry' = Within(job', ListedPcs)
    BY <1>0 DEF Counts, Within
  <1>5. available' = MaxInFlight - Cardinality(Within(job', HoldingPcs))
    BY <1>0, <1>1, <1>2, CapacityAssumption DEF Counts, Bit
  <1>6. inFlight' = Cardinality(Within(job', CountedPcs))
    BY <1>0, <1>1, <1>3 DEF Counts, Bit
  <1> QED
    BY <1>2, <1>4, <1>5, <1>6 DEF Counts

----------------------------------------------------------------------------
(* Results, states and records of calls.                                    *)

\* The constructors build results and states.
LEMMA Shapes ==
    /\ \A kind \in {"Pending", "Ok", "Handler", "TimedOut", "Dropped"} : Plain(kind) \in Result
    /\ \A kind \in {"Queued", "Running", "Succeeded", "Failed", "TimedOut"} :
           Plain(kind) \in TaskState
    /\ \A reason \in CancellationReasons :
           Cancelled(reason) \in Result /\ Cancelled(reason) \in TaskState
    /\ \A reason \in AdmissionReasons :
           Admission(reason) \in Result /\ RejectionReason(reason) \in CancellationReasons
  <1>1. \A reason \in AdmissionReasons : RejectionReason(reason) \in CancellationReasons
    BY DEF AdmissionReasons, CancellationReasons, RejectionReason
  <1> QED
    BY <1>1 DEF Plain, Cancelled, Admission, Result, TaskState

\* A rejection before the handler is invoked is reported as it is returned.
LEMMA RejectedTold ==
    ASSUME NEW k \in Job, k.state = Plain("Queued"), ~k.invoked, k.pc = "done",
           NEW reason \in AdmissionReasons, reason # "ControlCapacityUnavailable"
    PROVE  /\ Rejected(k, reason) \in Job
           /\ Told(Rejected(k, reason))
           /\ Rejected(k, reason).pc = "done"
  <1> DEFINE r == Rejected(k, reason)
  <1>1. /\ Admission(reason) \in Result
        /\ RejectionReason(reason) \in CancellationReasons
        /\ Cancelled(RejectionReason(reason)) \in TaskState
    BY Shapes
  <1>2. ~IsTerminal(k.state)
    BY DEF IsTerminal, Plain
  <1>3. /\ r.state = Cancelled(RejectionReason(reason))
        /\ r.result = Admission(reason)
        /\ r.pc = "done"
        /\ ~r.invoked
    BY <1>2 DEF Rejected, Transition, Job
  <1>4. r \in Job
    BY <1>1, <1>2 DEF Rejected, Transition, Job, Cancel
  <1>5. r.result # Admission("ControlCapacityUnavailable")
    BY <1>3 DEF Admission
  <1>6. Reported(r)
    BY <1>3 DEF Reported, IsTerminal, Cancelled, Admission
  <1> QED
    BY <1>3, <1>4, <1>5, <1>6 DEF Told

\* A cancellation before the handler is invoked is reported as it is returned.
LEMMA CancelledTold ==
    ASSUME NEW k \in Job, k.state = Plain("Queued"), k.pc = "done", k.token # None
    PROVE  /\ CancelledBefore(k) \in Job
           /\ Told(CancelledBefore(k))
           /\ CancelledBefore(k).pc = "done"
  <1> DEFINE r == CancelledBefore(k)
  <1>1. k.token \in CancellationReasons
    BY DEF Job
  <1>2. Cancelled(k.token) \in Result /\ Cancelled(k.token) \in TaskState
    BY <1>1, Shapes
  <1>3. ~IsTerminal(k.state)
    BY DEF IsTerminal, Plain
  <1>4. /\ r \in Job
        /\ r.state = Cancelled(k.token)
        /\ r.result = Cancelled(k.token)
        /\ r.pc = "done"
    BY <1>2, <1>3 DEF CancelledBefore, Transition, Job
  <1>5. r.result # Admission("ControlCapacityUnavailable")
    BY <1>4 DEF Admission, Cancelled
  <1>6. Reported(r)
    BY <1>4 DEF Reported, IsTerminal, Cancelled, Reports
  <1> QED
    BY <1>4, <1>5, <1>6 DEF Told

\* What the handler's part concludes with is what it reports.
LEMMA ConcludesTold ==
    ASSUME NEW k \in Job, k.state = Plain("Running"), NEW result \in Result,
           result.kind \in {"Ok", "Handler", "TimedOut", "Cancelled"}
    PROVE  /\ Concludes(k, result) \in Job
           /\ Told(Concludes(k, result))
           /\ Concludes(k, result).pc = "leave"
  <1> DEFINE r == Concludes(k, result)
  <1>1. Reports(result) \in TaskState
    <2>1. CASE result.kind = "Cancelled"
      <3>1. result.reason \in CancellationReasons
        BY <2>1 DEF Result
      <3> QED
        BY <2>1, <3>1, Shapes DEF Reports
    <2>2. CASE result.kind = "Ok"
      BY <2>2, Shapes DEF Reports
    <2>3. CASE result.kind = "Handler"
      BY <2>3, Shapes DEF Reports
    <2>4. CASE result.kind = "TimedOut"
      BY <2>4, Shapes DEF Reports
    <2> QED
      BY <2>1, <2>2, <2>3, <2>4
  <1>2. ~IsTerminal(k.state)
    BY DEF IsTerminal, Plain
  <1>3. /\ r \in Job
        /\ r.state = Reports(result)
        /\ r.result = result
        /\ r.pc = "leave"
    BY <1>1, <1>2 DEF Concludes, Transition, Job
  <1>4. r.result # Admission("ControlCapacityUnavailable")
    BY <1>3 DEF Admission
  <1> QED
    BY <1>3, <1>4 DEF Told, Settled

\* A dropped call that ends with the given token and reason.
DroppedAs(k, token, reason) ==
    [k EXCEPT !.pc = "done", !.token = token, !.state = Transition(@, Cancelled(reason))]

\* A dropped call reports a terminal state.
LEMMA DroppedTold ==
    ASSUME NEW k \in Job, k.result.kind = "Dropped", ~IsTerminal(k.state),
           NEW token \in CancellationReasons, NEW reason \in CancellationReasons
    PROVE  /\ DroppedAs(k, token, reason) \in Job
           /\ Told(DroppedAs(k, token, reason))
           /\ DroppedAs(k, token, reason).pc = "done"
  <1> DEFINE r == DroppedAs(k, token, reason)
  <1>1. Cancelled(reason) \in TaskState
    BY Shapes
  <1>2. /\ r \in Job
        /\ r.pc = "done"
        /\ r.state = Cancelled(reason)
        /\ r.result.kind = "Dropped"
    BY <1>1 DEF DroppedAs, Job, Transition
  <1> HIDE DEF r
  <1>3. Told(r)
    BY <1>2 DEF Told, Reported, IsTerminal, Cancelled, Admission
  <1> QED
    BY <1>2, <1>3 DEF r

----------------------------------------------------------------------------
(* Steps.                                                                   *)

\* A step that moves call j to k, and takes or gives back exactly what the two
\* places differ in.
Takes(j, k) ==
    /\ Put(j, k)
    /\ available' = available + Bit(job[j], HoldingPcs) - Bit(k, HoldingPcs)
    /\ available' >= 0
    /\ inFlight' = inFlight + Bit(k, CountedPcs) - Bit(job[j], CountedPcs)
    /\ inFlight' <= inFlight \/ admission = "Accepting"
    /\ registry' = IF k.pc \in ListedPcs THEN registry \cup {j} ELSE registry \ {j}
    /\ drain' = drain \/ drain' = [drain EXCEPT !.notified = TRUE]
    /\ UNCHANGED <<admission, closed, closing, shutdown>>

\* Such a step keeps the invariant when the new record of the call does.
LEMMA PutStep ==
    ASSUME IInv, NEW j \in Jobs, NEW k \in Job, Told(k), Takes(j, k)
    PROVE  IInv'
  <1>1. TypeOK /\ Counts /\ Drained /\ \A i \in Jobs : Told(job[i])
    BY DEF IInv
  <1>2. Counts'
    BY <1>1, PutCounts DEF Takes
  <1>3. /\ Cardinality(Within(job', HoldingPcs)) \in Nat
        /\ inFlight' \in Nat
    BY <1>2, FS_CardinalityType, CountedHold DEF Counts
  <1>4. available' \in 0..MaxInFlight
    <2>1. available' = MaxInFlight - Cardinality(Within(job', HoldingPcs))
      BY <1>2 DEF Counts
    <2>2. available' >= 0
      BY DEF Takes
    <2> QED
      BY <1>3, <2>1, <2>2, CapacityAssumption
  <1>5. job' \in [Jobs -> Job] /\ registry' \in SUBSET Jobs
    BY <1>1, <1>2 DEF Takes, Put, TypeOK, Counts, Within
  <1>6. drain' \in Drain /\ drain'.pc = drain.pc /\ drain'.outcome = drain.outcome
    BY <1>1 DEF Takes, TypeOK, Drain
  <1>7. TypeOK'
    BY <1>1, <1>3, <1>4, <1>5, <1>6 DEF TypeOK, Takes
  <1>8. (\A i \in Jobs : Told(job[i]))'
    BY <1>1 DEF Takes, Put, TypeOK
  <1>9. Drained'
    <2>1. drain.pc # "idle" => admission = "Draining"
      BY <1>1 DEF Drained
    <2>2. drain.outcome = "Completed" => drain.pc = "done" /\ inFlight = 0
      BY <1>1 DEF Drained
    <2>3. drain.outcome = "Completed" => inFlight' = 0
      BY <2>1, <2>2, <1>3 DEF Takes
    <2> QED
      BY <2>1, <2>2, <2>3, <1>6 DEF Drained, Takes
  <1> QED
    BY <1>2, <1>7, <1>8, <1>9 DEF IInv

\* A step that keeps the call on the same side of every set of places takes and
\* gives back nothing.
LEMMA TakesNothing ==
    ASSUME IInv, NEW j \in Jobs, NEW k \in Job, Put(j, k),
           k.pc \in HoldingPcs <=> job[j].pc \in HoldingPcs,
           k.pc \in CountedPcs <=> job[j].pc \in CountedPcs,
           k.pc \in ListedPcs <=> job[j].pc \in ListedPcs,
           UNCHANGED <<admission, inFlight, available, closed, closing, registry, shutdown, drain>>
    PROVE  Takes(j, k)
  <1>1. /\ Bit(k, HoldingPcs) = Bit(job[j], HoldingPcs)
        /\ Bit(k, CountedPcs) = Bit(job[j], CountedPcs)
        /\ Bit(k, HoldingPcs) \in Int
        /\ Bit(k, CountedPcs) \in Int
    BY DEF Bit
  <1>2. available \in Int /\ inFlight \in Int /\ available >= 0
    BY CapacityAssumption DEF IInv, TypeOK
  <1>3. registry' = IF k.pc \in ListedPcs THEN registry \cup {j} ELSE registry \ {j}
    BY DEF IInv, Counts, Within
  <1>4. /\ available' = available + Bit(job[j], HoldingPcs) - Bit(k, HoldingPcs)
        /\ available' >= 0
        /\ inFlight' = inFlight + Bit(k, CountedPcs) - Bit(job[j], CountedPcs)
        /\ inFlight' <= inFlight
    BY <1>1, <1>2
  <1>5. UNCHANGED <<admission, closed, closing, shutdown>> /\ drain' = drain
    OBVIOUS
  <1> QED
    BY <1>3, <1>4, <1>5, Zenon DEF Takes

\* Every place of a call is in the type invariant and has reported what it should.
LEMMA JobFacts ==
    ASSUME IInv, NEW j \in Jobs
    PROVE  /\ job[j] \in Job
           /\ Told(job[j])
           /\ available \in Nat
           /\ inFlight \in Nat
           /\ j \in registry <=> job[j].pc \in ListedPcs
    BY CapacityAssumption DEF IInv, TypeOK, Counts, Within

\* The registry has room for a call that was started: its permit is one of
\* max_in_flight, and the calls in the registry hold the others.
LEMMA RegistryHasRoom ==
    ASSUME IInv, NEW j \in Jobs, job[j].pc = "started"
    PROVE  Cardinality(registry) \in Nat /\ Cardinality(registry) < MaxInFlight
  <1> DEFINE H == Within(job, HoldingPcs)
             R == Within(job, ListedPcs)
  <1>1. IsFiniteSet(H) /\ registry = R /\ available = MaxInFlight - Cardinality(H) /\ available \in Nat
    BY JobFacts DEF IInv, Counts
  <1>2. IsFiniteSet(R) /\ Cardinality(R) \in Nat /\ Cardinality(H) \in Nat
    BY <1>1, CountedHold
  <1>3. j \notin R /\ R \cup {j} \subseteq H
    BY DEF Within, HoldingPcs, CountedPcs, ListedPcs
  <1>4. IsFiniteSet(R \cup {j}) /\ Cardinality(R \cup {j}) = Cardinality(R) + 1
    BY <1>2, <1>3, FS_AddElement
  <1>5. Cardinality(R \cup {j}) <= Cardinality(H)
    BY <1>1, <1>3, FS_Subset
  <1>6. Cardinality(registry) = Cardinality(R)
    BY <1>1
  <1> HIDE DEF H, R
  <1> QED
    BY <1>1, <1>2, <1>4, <1>5, <1>6, CapacityAssumption

\* Each step of execute up to the handler keeps the invariant.
LEMMA AdmissionStep ==
    ASSUME IInv, NEW j \in Jobs,
           \/ Execute(j) \/ ObserveShutdown(j) \/ ObserveCancellation(j) \/ AcquirePermit(j)
           \/ ObserveClosed(j) \/ RecheckSignals(j) \/ TryStart(j) \/ ReturnRefused(j)
           \/ Register(j)
    PROVE  IInv'
  <1> DEFINE c == job[j]
             gone == [c EXCEPT !.pc = "done"]
  <1>0. /\ c \in Job
        /\ Told(c)
        /\ available \in Nat
        /\ inFlight \in Nat
        /\ j \in registry <=> c.pc \in ListedPcs
        /\ admission \in AdmissionStates
    BY JobFacts DEF IInv, TypeOK
  <1>1. /\ gone \in Job
        /\ gone.pc = "done"
        /\ gone.state = c.state
        /\ gone.token = c.token
        /\ gone.invoked = c.invoked
    BY <1>0 DEF Job
  <1>2. c.pc \in {"waiting", "permitted", "admitting", "refused", "started"} =>
            c.state = Plain("Queued") /\ ~c.invoked
    BY <1>0 DEF Told
  <1>3. /\ GateReason \in AdmissionReasons
        /\ GateReason # "ControlCapacityUnavailable"
        /\ "ShutdownRequested" \in AdmissionReasons
    BY DEF GateReason, AdmissionReasons
  <1>4. ASSUME Execute(j)
        PROVE  IInv'
    <2> DEFINE k == [Idle EXCEPT !.pc = "done"]
    <2>1. /\ k \in Job
          /\ k.pc = "done"
          /\ k.state = Plain("Queued")
          /\ k.result = Plain("Pending")
          /\ ~k.invoked
      BY Shapes DEF Idle, Job
    <2>2. c.pc = "idle"
      BY <1>4 DEF Execute, At
    <2> DEFINE n == IF shutdown THEN Rejected(k, "ShutdownRequested")
                    ELSE IF admission # "Accepting" THEN Rejected(k, GateReason)
                    ELSE [k EXCEPT !.pc = "waiting"]
    <2>3. n \in Job /\ Told(n) /\ n.pc \in {"done", "waiting"}
      <3>1. CASE shutdown
        BY <2>1, <3>1, <1>3, RejectedTold
      <3>2. CASE ~shutdown /\ admission # "Accepting"
        BY <2>1, <3>2, <1>3, RejectedTold
      <3>3. CASE ~shutdown /\ admission = "Accepting"
        <4>1. n = [k EXCEPT !.pc = "waiting"]
          BY <3>3
        <4> HIDE DEF n, k
        <4>2. /\ n \in Job
              /\ n.pc = "waiting"
              /\ n.state = Plain("Queued")
              /\ n.result = Plain("Pending")
              /\ ~n.invoked
          BY <4>1, <2>1 DEF Job
        <4> QED
          BY <4>2 DEF Told, Plain, Admission
      <3> QED
        BY <3>1, <3>2, <3>3
    <2>4. Put(j, n)
      BY <1>4 DEF Execute
    <2> HIDE DEF n
    <2>5. Takes(j, n)
      BY <1>4, <2>2, <2>3, <2>4, TakesNothing DEF Execute, HoldingPcs, CountedPcs, ListedPcs
    <2> QED
      BY <2>3, <2>5, PutStep
  <1>5. ASSUME ObserveShutdown(j) \/ ObserveClosed(j) \/ ObserveCancellation(j)
        PROVE  IInv'
    <2>1. c.pc = "waiting"
      BY <1>5 DEF ObserveShutdown, ObserveClosed, ObserveCancellation, At
    <2>2. PICK n \in Job : Told(n) /\ n.pc = "done" /\ Put(j, n)
      <3>1. CASE ObserveShutdown(j)
        <4>1. [Rejected(c, "ShutdownRequested") EXCEPT !.pc = "done"]
                  = Rejected(gone, "ShutdownRequested")
          BY <1>0 DEF Rejected, Job
        <4> QED
          BY <3>1, <4>1, <2>1, <1>1, <1>2, <1>3, RejectedTold DEF ObserveShutdown
      <3>2. CASE ObserveClosed(j)
        <4>1. [Rejected(c, GateReason) EXCEPT !.pc = "done"] = Rejected(gone, GateReason)
          BY <1>0 DEF Rejected, Job
        <4> QED
          BY <3>2, <4>1, <2>1, <1>1, <1>2, <1>3, RejectedTold DEF ObserveClosed
      <3>3. CASE ObserveCancellation(j)
        <4>1. [CancelledBefore(c) EXCEPT !.pc = "done"] = CancelledBefore(gone)
          BY <1>0 DEF CancelledBefore, Job
        <4> QED
          BY <3>3, <4>1, <2>1, <1>1, <1>2, CancelledTold DEF ObserveCancellation
      <3> QED
        BY <1>5, <3>1, <3>2, <3>3
    <2>3. Takes(j, n)
      BY <1>5, <2>1, <2>2, TakesNothing
         DEF ObserveShutdown, ObserveClosed, ObserveCancellation, HoldingPcs, CountedPcs, ListedPcs
    <2> QED
      BY <2>2, <2>3, PutStep
  <1>6. ASSUME AcquirePermit(j)
        PROVE  IInv'
    <2> DEFINE n == [c EXCEPT !.pc = "permitted"]
    <2>1. c.pc = "waiting"
      BY <1>6 DEF AcquirePermit, At
    <2>2. n \in Job /\ Told(n) /\ n.pc = "permitted"
      BY <2>1, <1>0, <1>2 DEF Job, Told
    <2>3. Put(j, n)
      BY <1>6 DEF AcquirePermit
    <2> HIDE DEF n
    <2>4. /\ Bit(c, HoldingPcs) = 0 /\ Bit(n, HoldingPcs) = 1
          /\ Bit(c, CountedPcs) = 0 /\ Bit(n, CountedPcs) = 0
      BY <2>1, <2>2 DEF Bit, HoldingPcs, CountedPcs
    <2>5. Takes(j, n)
      BY <1>0, <1>6, <2>1, <2>2, <2>3, <2>4 DEF AcquirePermit, Takes, ListedPcs
    <2> QED
      BY <2>2, <2>5, PutStep
  <1>7. ASSUME RecheckSignals(j)
        PROVE  IInv'
    <2>1. c.pc = "permitted"
      BY <1>7 DEF RecheckSignals, At
    <2>2. CASE shutdown \/ c.token # None
      <3>1. PICK n \in Job : Told(n) /\ n.pc = "done" /\ Put(j, n)
        BY <1>7, <2>1, <2>2, <1>1, <1>2, <1>3, RejectedTold, CancelledTold DEF RecheckSignals
      <3>2. /\ Bit(c, HoldingPcs) = 1 /\ Bit(n, HoldingPcs) = 0
            /\ Bit(c, CountedPcs) = 0 /\ Bit(n, CountedPcs) = 0
        BY <2>1, <3>1 DEF Bit, HoldingPcs, CountedPcs
      <3>3. Takes(j, n)
        BY <1>0, <1>1, <1>7, <2>1, <2>2, <3>1, <3>2 DEF RecheckSignals, Takes, ListedPcs
      <3> QED
        BY <3>1, <3>3, PutStep
    <2>3. CASE ~shutdown /\ c.token = None
      <3> DEFINE n == [gone EXCEPT !.pc = "admitting"]
      <3>1. n \in Job /\ Told(n) /\ n.pc = "admitting"
        BY <2>1, <1>0, <1>2 DEF Job, Told
      <3>2. Put(j, n)
        BY <1>1, <1>7, <2>3 DEF RecheckSignals
      <3>3. UNCHANGED <<admission, inFlight, available, closed, closing, registry, shutdown, drain>>
        BY <1>1, <1>7, <2>3 DEF RecheckSignals
      <3> HIDE DEF n
      <3>4. Takes(j, n)
        BY <2>1, <3>1, <3>2, <3>3, TakesNothing DEF HoldingPcs, CountedPcs, ListedPcs
      <3> QED
        BY <3>1, <3>4, PutStep
    <2> QED
      BY <2>2, <2>3
  <1>8. ASSUME TryStart(j)
        PROVE  IInv'
    <2>1. c.pc = "admitting"
      BY <1>8 DEF TryStart, At
    <2>2. CASE admission = "Accepting"
      <3> DEFINE n == [c EXCEPT !.pc = "started"]
      <3>1. n \in Job /\ Told(n) /\ n.pc = "started"
        BY <2>1, <1>0, <1>2 DEF Job, Told
      <3>2. Put(j, n)
        BY <1>8, <2>2 DEF TryStart
      <3> HIDE DEF n
      <3>3. /\ Bit(c, HoldingPcs) = 1 /\ Bit(n, HoldingPcs) = 1
            /\ Bit(c, CountedPcs) = 0 /\ Bit(n, CountedPcs) = 1
        BY <2>1, <3>1 DEF Bit, HoldingPcs, CountedPcs
      <3>4. Takes(j, n)
        BY <1>0, <1>8, <2>1, <2>2, <3>1, <3>2, <3>3 DEF TryStart, Takes, ListedPcs
      <3> QED
        BY <3>1, <3>4, PutStep
    <2>3. CASE admission # "Accepting"
      <3> DEFINE n == [c EXCEPT !.pc = "refused"]
      <3>1. n \in Job /\ Told(n) /\ n.pc = "refused"
        BY <2>1, <1>0, <1>2 DEF Job, Told
      <3>2. Put(j, n)
        BY <1>8, <2>3 DEF TryStart
      <3> HIDE DEF n
      <3>3. Takes(j, n)
        BY <1>8, <2>1, <2>3, <3>1, <3>2, TakesNothing
           DEF TryStart, HoldingPcs, CountedPcs, ListedPcs
      <3> QED
        BY <3>1, <3>3, PutStep
    <2> QED
      BY <2>2, <2>3
  <1>9. ASSUME ReturnRefused(j)
        PROVE  IInv'
    <2>1. c.pc = "refused"
      BY <1>9 DEF ReturnRefused, At
    <2> DEFINE n == Rejected(gone, GateReason)
    <2>2. [Rejected(c, GateReason) EXCEPT !.pc = "done"] = n
      BY <1>0 DEF Rejected, Job
    <2>3. n \in Job /\ Told(n) /\ n.pc = "done"
      BY <2>1, <1>1, <1>2, <1>3, RejectedTold
    <2>4. Put(j, n)
      BY <1>9, <2>2 DEF ReturnRefused
    <2> HIDE DEF n
    <2>5. /\ Bit(c, HoldingPcs) = 1 /\ Bit(n, HoldingPcs) = 0
          /\ Bit(c, CountedPcs) = 0 /\ Bit(n, CountedPcs) = 0
      BY <2>1, <2>3 DEF Bit, HoldingPcs, CountedPcs
    <2>6. Takes(j, n)
      BY <1>0, <1>9, <2>1, <2>3, <2>4, <2>5 DEF ReturnRefused, Takes, ListedPcs
    <2> QED
      BY <2>3, <2>6, PutStep
  <1>10. ASSUME Register(j)
         PROVE  IInv'
    <2>1. c.pc = "started"
      BY <1>10 DEF Register, At
    <2>2. Cardinality(registry) < MaxInFlight
      BY <2>1, RegistryHasRoom
    <2> DEFINE n == [c EXCEPT !.pc = "running", !.invoked = TRUE,
                              !.state = Transition(@, Plain("Running"))]
    <2>3. ~IsTerminal(c.state)
      BY <2>1, <1>2 DEF IsTerminal, Plain
    <2>4. n \in Job /\ n.pc = "running" /\ n.state = Plain("Running") /\ n.result = c.result
      BY <1>0, <2>3, Shapes DEF Job, Transition
    <2>5. Put(j, n) /\ registry' = registry \cup {j}
      <3>1. Cardinality(registry) \in Nat
        BY RegistryHasRoom, <2>1
      <3> QED
        BY <1>10, <2>2, <3>1, CapacityAssumption DEF Register
    <2> HIDE DEF n
    <2>6. Told(n)
      BY <1>0, <2>1, <2>4 DEF Told
    <2>7. /\ Bit(c, HoldingPcs) = 1 /\ Bit(n, HoldingPcs) = 1
          /\ Bit(c, CountedPcs) = 1 /\ Bit(n, CountedPcs) = 1
      BY <2>1, <2>4 DEF Bit, HoldingPcs, CountedPcs
    <2>8. Takes(j, n)
      BY <1>0, <1>10, <2>4, <2>5, <2>7 DEF Register, Takes, ListedPcs
    <2> QED
      BY <2>4, <2>6, <2>8, PutStep
  <1> QED
    BY <1>4, <1>5, <1>6, <1>7, <1>8, <1>9, <1>10

\* Each step from the handler to the return of execute keeps the invariant.
LEMMA HandlerStep ==
    ASSUME IInv, NEW j \in Jobs,
           \/ \E result \in {"Ok", "Handler"} : HandlerReturns(j, result)
           \/ ObserveTaskCancelled(j) \/ ExpireDeadline(j) \/ FinishCleanup(j)
           \/ LeaveRegistry(j) \/ FinishInFlight(j) \/ ReleasePermit(j) \/ GuardCancels(j)
           \/ DropExecution(j) \/ Return(j)
    PROVE  IInv'
  <1> DEFINE c == job[j]
  <1>0. /\ c \in Job
        /\ Told(c)
        /\ available \in Nat
        /\ inFlight \in Nat
        /\ j \in registry <=> c.pc \in ListedPcs
    BY JobFacts
  <1>1. c.pc \in {"running", "cleanup"} => c.state = Plain("Running")
    BY <1>0 DEF Told
  <1>2. c.token # None => c.token \in CancellationReasons
    BY <1>0 DEF Job
  <1>3. ASSUME NEW result \in {"Ok", "Handler"}, HandlerReturns(j, result)
        PROVE  IInv'
    <2> DEFINE r == IF c.token # None THEN Cancelled(c.token) ELSE Plain(result)
               n == Concludes(c, r)
    <2>1. c.pc = "running"
      BY <1>3 DEF HandlerReturns, At
    <2>2. r \in Result /\ r.kind \in {"Ok", "Handler", "TimedOut", "Cancelled"}
      <3>1. CASE c.token # None
        BY <3>1, <1>2, Shapes DEF Cancelled
      <3>2. CASE c.token = None
        BY <3>2, Shapes DEF Plain
      <3> QED
        BY <3>1, <3>2
    <2>3. Put(j, n)
      BY <1>3 DEF HandlerReturns
    <2> HIDE DEF r
    <2>4. n \in Job /\ Told(n) /\ n.pc = "leave"
      BY <1>0, <1>1, <2>1, <2>2, ConcludesTold
    <2> HIDE DEF n
    <2>5. Takes(j, n)
      BY <1>3, <2>1, <2>3, <2>4, TakesNothing DEF HandlerReturns, HoldingPcs, CountedPcs, ListedPcs
    <2> QED
      BY <2>4, <2>5, PutStep
  <1>4. ASSUME ObserveTaskCancelled(j) \/ ExpireDeadline(j)
        PROVE  IInv'
    <2>1. c.pc = "running"
      BY <1>4 DEF ObserveTaskCancelled, ExpireDeadline, At
    <2>2. PICK token \in CancellationReasons, r \in Result :
              /\ r.kind \in {"TimedOut", "Cancelled"}
              /\ Put(j, [c EXCEPT !.pc = "cleanup", !.token = token, !.result = r])
      <3>1. CASE ObserveTaskCancelled(j)
        <4>1. /\ c.token \in CancellationReasons
              /\ Cancelled(c.token) \in Result
              /\ Cancelled(c.token).kind = "Cancelled"
          BY <1>2, <3>1, Shapes DEF ObserveTaskCancelled, Cancelled
        <4>2. [c EXCEPT !.pc = "cleanup", !.result = Cancelled(c.token)] =
                  [c EXCEPT !.pc = "cleanup", !.token = c.token, !.result = Cancelled(c.token)]
          BY <1>0 DEF Job
        <4> QED
          BY <3>1, <4>1, <4>2 DEF ObserveTaskCancelled
      <3>2. CASE ExpireDeadline(j)
        <4> DEFINE observed == Cancel(c.token, "Timeout")
                   r == IF observed = "Timeout" THEN Plain("TimedOut") ELSE Cancelled(observed)
        <4>1. observed \in CancellationReasons
          BY <1>2 DEF Cancel, CancellationReasons
        <4>2. Put(j, [c EXCEPT !.pc = "cleanup", !.token = observed, !.result = r])
          BY <3>2 DEF ExpireDeadline
        <4> HIDE DEF observed
        <4>3. r \in Result /\ r.kind \in {"TimedOut", "Cancelled"}
          BY <4>1, Shapes DEF Plain, Cancelled
        <4> HIDE DEF r
        <4> QED
          BY <4>1, <4>2, <4>3
      <3> QED
        BY <1>4, <3>1, <3>2
    <2> DEFINE n == [c EXCEPT !.pc = "cleanup", !.token = token, !.result = r]
    <2>3. /\ n \in Job
          /\ n.pc = "cleanup"
          /\ n.state = Plain("Running")
          /\ n.result = r
      BY <1>0, <1>1, <2>1, <2>2 DEF Job
    <2>4. Put(j, n)
      BY <2>2
    <2> HIDE DEF n
    <2>5. Told(n)
      BY <2>2, <2>3 DEF Told, Admission
    <2>6. Takes(j, n)
      BY <1>4, <2>1, <2>3, <2>4, TakesNothing
         DEF ObserveTaskCancelled, ExpireDeadline, HoldingPcs, CountedPcs, ListedPcs
    <2> QED
      BY <2>3, <2>5, <2>6, PutStep
  <1>5. ASSUME FinishCleanup(j)
        PROVE  IInv'
    <2> DEFINE n == Concludes(c, c.result)
    <2>1. c.pc = "cleanup"
      BY <1>5 DEF FinishCleanup, At
    <2>2. c.result \in Result /\ c.result.kind \in {"TimedOut", "Cancelled"}
      BY <1>0, <2>1 DEF Job, Told
    <2>3. n \in Job /\ Told(n) /\ n.pc = "leave"
      BY <1>0, <1>1, <2>1, <2>2, ConcludesTold
    <2>4. Put(j, n)
      BY <1>5 DEF FinishCleanup
    <2> HIDE DEF n
    <2>5. Takes(j, n)
      BY <1>5, <2>1, <2>3, <2>4, TakesNothing DEF FinishCleanup, HoldingPcs, CountedPcs, ListedPcs
    <2> QED
      BY <2>3, <2>5, PutStep
  <1>6. ASSUME LeaveRegistry(j)
        PROVE  IInv'
    <2> DEFINE n == [c EXCEPT !.pc = "finish"]
    <2>1. c.pc = "leave"
      BY <1>6 DEF LeaveRegistry, At
    <2>2. n \in Job /\ n.pc = "finish" /\ Told(n)
      BY <1>0, <2>1 DEF Job, Told, Settled
    <2>3. Put(j, n)
      BY <1>6 DEF LeaveRegistry
    <2> HIDE DEF n
    <2>4. /\ Bit(c, HoldingPcs) = 1 /\ Bit(n, HoldingPcs) = 1
          /\ Bit(c, CountedPcs) = 1 /\ Bit(n, CountedPcs) = 1
      BY <2>1, <2>2 DEF Bit, HoldingPcs, CountedPcs
    <2>5. Takes(j, n)
      BY <1>0, <1>6, <2>2, <2>3, <2>4 DEF LeaveRegistry, Takes, ListedPcs
    <2> QED
      BY <2>2, <2>5, PutStep
  <1>7. ASSUME FinishInFlight(j)
        PROVE  IInv'
    <2> DEFINE n == [c EXCEPT !.pc = "release"]
    <2>1. c.pc = "finish"
      BY <1>7 DEF FinishInFlight, At
    <2>2. n \in Job /\ n.pc = "release" /\ Told(n)
      BY <1>0, <2>1 DEF Job, Told, Settled
    <2>3. Put(j, n)
      BY <1>7 DEF FinishInFlight
    <2> HIDE DEF n
    <2>4. /\ Bit(c, HoldingPcs) = 1 /\ Bit(n, HoldingPcs) = 1
          /\ Bit(c, CountedPcs) = 1 /\ Bit(n, CountedPcs) = 0
      BY <2>1, <2>2 DEF Bit, HoldingPcs, CountedPcs
    <2>5. Takes(j, n)
      BY <1>0, <1>7, <2>1, <2>2, <2>3, <2>4 DEF FinishInFlight, Takes, ListedPcs
    <2> QED
      BY <2>2, <2>5, PutStep
  <1>8. ASSUME ReleasePermit(j)
        PROVE  IInv'
    <2>1. c.pc = "release" /\ Settled(c)
      BY <1>0, <1>8 DEF ReleasePermit, At, Told
    <2>2. PICK n \in Job : Told(n) /\ n.pc \in {"done", "guard"} /\ Put(j, n)
      <3>1. CASE c.result.kind # "Dropped"
        <4> DEFINE n == [c EXCEPT !.pc = "done"]
        <4>1. n \in Job /\ n.pc = "done" /\ n.result = c.result /\ n.state = c.state
          BY <1>0 DEF Job
        <4>2. Put(j, n)
          BY <1>8, <3>1 DEF ReleasePermit
        <4>3. c.result.kind \in {"Ok", "Handler", "TimedOut", "Cancelled"} /\ c.state = Reports(c.result)
          BY <2>1, <3>1 DEF Settled
        <4>4. IsTerminal(c.state)
          BY <4>3 DEF IsTerminal, Reports, Plain, Cancelled
        <4> HIDE DEF n
        <4>5. Told(n)
          BY <4>1, <4>3, <4>4, <1>0 DEF Told, Reported
        <4> QED
          BY <4>1, <4>2, <4>5
      <3>2. CASE c.result.kind = "Dropped" /\ c.token = None
        <4> DEFINE n == [c EXCEPT !.pc = "guard"]
        <4>1. n \in Job /\ n.pc = "guard" /\ n.result = c.result /\ n.state = c.state
          BY <1>0 DEF Job
        <4>2. Put(j, n)
          BY <1>8, <3>2 DEF ReleasePermit
        <4> HIDE DEF n
        <4>3. Told(n)
          BY <4>1, <3>2, <2>1, <1>0 DEF Told, Settled
        <4> QED
          BY <4>1, <4>2, <4>3
      <3>3. CASE c.result.kind = "Dropped" /\ c.token # None
        <4>1. Put(j, DroppedAs(c, c.token, c.token))
          <5>1. DroppedAs(c, c.token, c.token) =
                    [c EXCEPT !.pc = "done", !.state = Transition(@, Cancelled(c.token))]
            BY <1>0 DEF DroppedAs, Job
          <5> QED
            BY <1>8, <3>3, <5>1 DEF ReleasePermit
        <4> QED
          BY <4>1, <3>3, <2>1, <1>0, <1>2, DroppedTold DEF Settled
      <3> QED
        BY <3>1, <3>2, <3>3
    <2>3. /\ Bit(c, HoldingPcs) = 1 /\ Bit(n, HoldingPcs) = 0
          /\ Bit(c, CountedPcs) = 0 /\ Bit(n, CountedPcs) = 0
      BY <2>1, <2>2 DEF Bit, HoldingPcs, CountedPcs
    <2>4. Takes(j, n)
      BY <1>0, <1>8, <2>1, <2>2, <2>3 DEF ReleasePermit, Takes, ListedPcs
    <2> QED
      BY <2>2, <2>4, PutStep
  <1>9. ASSUME GuardCancels(j)
        PROVE  IInv'
    <2> DEFINE n == DroppedAs(c, Cancel(c.token, "ExecutionDropped"), "ExecutionDropped")
    <2>1. c.pc = "guard" /\ c.result.kind = "Dropped" /\ ~IsTerminal(c.state)
      BY <1>0, <1>9 DEF GuardCancels, At, Told
    <2>2. /\ Cancel(c.token, "ExecutionDropped") \in CancellationReasons
          /\ "ExecutionDropped" \in CancellationReasons
      BY <1>2 DEF Cancel, CancellationReasons
    <2>3. Put(j, n)
      BY <1>9 DEF GuardCancels, DroppedAs
    <2>4. n \in Job /\ Told(n) /\ n.pc = "done"
      BY <1>0, <2>1, <2>2, DroppedTold
    <2> HIDE DEF n
    <2>5. Takes(j, n)
      BY <1>9, <2>1, <2>3, <2>4, TakesNothing DEF GuardCancels, HoldingPcs, CountedPcs, ListedPcs
    <2> QED
      BY <2>4, <2>5, PutStep
  <1>10. ASSUME DropExecution(j)
         PROVE  IInv'
    <2> DEFINE k == [c EXCEPT !.result = Plain("Dropped")]
    <2>1. /\ k \in Job
          /\ k.state = c.state
          /\ k.token = c.token
          /\ k.result.kind = "Dropped"
      BY <1>0, Shapes DEF Job, Plain
    <2>2. ~IsTerminal(c.state)
      BY <1>0, <1>10 DEF DropExecution, Told, IsTerminal, Plain
    <2>3. PICK n \in Job : /\ Told(n)
                           /\ Put(j, n)
                           /\ n.pc \in HoldingPcs <=> c.pc \in HoldingPcs
                           /\ n.pc \in CountedPcs <=> c.pc \in CountedPcs
                           /\ n.pc \in ListedPcs <=> c.pc \in ListedPcs
      <3>1. CASE c.pc \in {"running", "cleanup"}
        <4> DEFINE n == [k EXCEPT !.pc = "leave"]
        <4>1. Put(j, n)
          BY <1>10, <3>1 DEF DropExecution, At
        <4> HIDE DEF k
        <4>2. n \in Job /\ n.pc = "leave" /\ n.state = c.state /\ n.result.kind = "Dropped"
          BY <2>1 DEF Job
        <4> HIDE DEF n
        <4>3. Told(n)
          BY <4>2, <2>2 DEF Told, Settled, Admission
        <4> QED
          BY <3>1, <4>1, <4>2, <4>3 DEF HoldingPcs, CountedPcs, ListedPcs
      <3>2. CASE c.pc = "waiting" /\ c.token = None
        <4> DEFINE n == [k EXCEPT !.pc = "guard"]
        <4>1. Put(j, n)
          BY <1>10, <3>2, <2>1 DEF DropExecution, At
        <4> HIDE DEF k
        <4>2. n \in Job /\ n.pc = "guard" /\ n.state = c.state /\ n.result.kind = "Dropped"
          BY <2>1 DEF Job
        <4> HIDE DEF n
        <4>3. Told(n)
          BY <4>2, <2>2 DEF Told, Settled, Admission
        <4> QED
          BY <3>2, <4>1, <4>2, <4>3 DEF HoldingPcs, CountedPcs, ListedPcs
      <3>3. CASE c.pc = "waiting" /\ c.token # None
        <4> DEFINE n == DroppedAs(k, k.token, k.token)
        <4>1. n = [k EXCEPT !.pc = "done", !.state = Transition(@, Cancelled(k.token))]
          BY <2>1 DEF DroppedAs, Job
        <4>2. Put(j, n)
          BY <1>10, <3>3, <2>1, <4>1 DEF DropExecution, At
        <4> HIDE DEF k
        <4>3. n \in Job /\ Told(n) /\ n.pc = "done"
          BY <2>1, <2>2, <3>3, <1>2, DroppedTold
        <4> HIDE DEF n
        <4> QED
          BY <3>3, <4>2, <4>3 DEF HoldingPcs, CountedPcs, ListedPcs
      <3> QED
        BY <1>10, <3>1, <3>2, <3>3 DEF DropExecution
    <2>4. Takes(j, n)
      BY <1>10, <2>3, TakesNothing DEF DropExecution
    <2> QED
      BY <2>3, <2>4, PutStep
  <1>11. ASSUME Return(j)
         PROVE  IInv'
    <2>1. c.pc = "done" /\ Put(j, Idle)
      BY <1>11 DEF Return, At
    <2>2. Idle \in Job /\ Idle.pc = "idle" /\ Told(Idle)
      BY Shapes DEF Idle, Job, Told, Plain, Admission
    <2>3. Takes(j, Idle)
      BY <1>11, <2>1, <2>2, TakesNothing DEF Return, HoldingPcs, CountedPcs, ListedPcs
    <2> QED
      BY <2>2, <2>3, PutStep
  <1> QED
    BY <1>3, <1>4, <1>5, <1>6, <1>7, <1>8, <1>9, <1>10, <1>11

\* A cancellation from outside only writes the token.
LEMMA TokenStep ==
    ASSUME IInv, NEW j \in Jobs,
           \/ \E reason \in OwnerReasons : CancelToken(j, reason)
           \/ RequestCancellation(j)
    PROVE  IInv'
  <1> DEFINE c == job[j]
  <1>1. c \in Job /\ Told(c)
    BY JobFacts
  <1>2. PICK token \in CancellationReasons \cup {None} : Put(j, [c EXCEPT !.token = token])
    <2>1. CASE RequestCancellation(j)
      <3>1. Cancel(c.token, "Requested") \in CancellationReasons \cup {None}
        BY <1>1 DEF Job, Cancel, CancellationReasons
      <3> QED
        BY <2>1, <3>1 DEF RequestCancellation
    <2>2. ASSUME NEW reason \in OwnerReasons, CancelToken(j, reason)
          PROVE  \E token \in CancellationReasons \cup {None} : Put(j, [c EXCEPT !.token = token])
      <3>1. reason \in CancellationReasons
        BY OwnerAssumption DEF CancellationReasons
      <3> QED
        BY <2>2, <3>1 DEF CancelToken
    <2> QED
      BY <2>1, <2>2
  <1> DEFINE n == [c EXCEPT !.token = token]
  <1>3. n \in Job /\ n.pc = c.pc /\ n.state = c.state /\ n.result = c.result /\ n.invoked = c.invoked
    BY <1>1 DEF Job
  <1>4. Put(j, n)
    BY <1>2
  <1> HIDE DEF n
  <1>5. Told(n)
    BY <1>1, <1>3 DEF Told, Settled, Reported
  <1>6. UNCHANGED <<admission, inFlight, available, closed, closing, registry, shutdown, drain>>
    BY DEF CancelToken, RequestCancellation
  <1>7. Takes(j, n)
    BY <1>3, <1>4, <1>6, TakesNothing
  <1> QED
    BY <1>3, <1>5, <1>7, PutStep

\* So does the cancellation of every attempt of a message.
LEMMA MessageStep ==
    ASSUME IInv, NEW message, RequestMessageCancellation(message)
    PROVE  IInv'
  <1>1. TypeOK /\ Counts /\ Drained /\ \A i \in Jobs : Told(job[i])
    BY DEF IInv
  <1>2. \A i \in Jobs :
            /\ job'[i] \in Job
            /\ job'[i].pc = job[i].pc
            /\ job'[i].state = job[i].state
            /\ job'[i].result = job[i].result
            /\ job'[i].invoked = job[i].invoked
    <2> SUFFICES ASSUME NEW i \in Jobs
                 PROVE  /\ job'[i] \in Job
                        /\ job'[i].pc = job[i].pc
                        /\ job'[i].state = job[i].state
                        /\ job'[i].result = job[i].result
                        /\ job'[i].invoked = job[i].invoked
      OBVIOUS
    <2>1. job[i] \in Job
      BY <1>1 DEF TypeOK
    <2>2. CASE i \in registry /\ MessageOf(i) = message
      <3>1. job'[i] = [job[i] EXCEPT !.token = Cancel(job[i].token, "Requested")]
        BY <2>2 DEF RequestMessageCancellation
      <3>2. Cancel(job[i].token, "Requested") \in CancellationReasons \cup {None}
        BY <2>1 DEF Job, Cancel, CancellationReasons
      <3> QED
        BY <2>1, <3>1, <3>2 DEF Job
    <2>3. CASE ~(i \in registry /\ MessageOf(i) = message)
      BY <2>1, <2>3 DEF RequestMessageCancellation
    <2> QED
      BY <2>2, <2>3
  <1>3. job' \in [Jobs -> Job]
    <2>1. job' = [i \in Jobs |-> job'[i]]
      BY DEF RequestMessageCancellation
    <2> QED
      BY <1>2, <2>1
  <1>4. TypeOK'
    BY <1>1, <1>3 DEF TypeOK, RequestMessageCancellation
  <1>5. \A P : Within(job', P) = Within(job, P)
    BY <1>2 DEF Within
  <1>6. Counts'
    <2>1. UNCHANGED <<available, inFlight, registry>>
      BY DEF RequestMessageCancellation
    <2> QED
      BY <1>1, <1>5, <2>1, Zenon DEF Counts
  <1>7. (\A i \in Jobs : Told(job[i]))'
    BY <1>1, <1>2 DEF Told, Settled, Reported
  <1>8. Drained'
    BY <1>1 DEF Drained, RequestMessageCancellation
  <1> QED
    BY <1>4, <1>6, <1>7, <1>8 DEF IInv

\* The gate, the semaphore's close, the shutdown signal and drain touch no call.
LEMMA GateStep ==
    ASSUME IInv,
           \/ RequestShutdown \/ PauseAdmission \/ ResumeAdmission \/ BeginDrain \/ ClosePermits
           \/ StartDrain \/ DrainStep \/ DrainExpires
    PROVE  IInv'
  <1>1. TypeOK /\ Counts /\ Drained /\ \A i \in Jobs : Told(job[i])
    BY DEF IInv
  <1>2. UNCHANGED <<inFlight, available, registry, job>>
    BY DEF RequestShutdown, PauseAdmission, ResumeAdmission, BeginDrain, ClosePermits, StartDrain,
           DrainStep, DrainCloses, DrainLooks, DrainSubscribes, DrainChecks, DrainWakes, DrainExpires
  <1>3. Counts' /\ (\A i \in Jobs : Told(job[i]))'
    BY <1>1, <1>2 DEF Counts
  <1>4. CASE RequestShutdown \/ PauseAdmission \/ ResumeAdmission \/ BeginDrain \/ ClosePermits
    <2>1. UNCHANGED drain /\ admission' \in AdmissionStates /\ closed' \in BOOLEAN
          /\ closing' \in BOOLEAN /\ shutdown' \in BOOLEAN
      BY <1>1, <1>4 DEF TypeOK, AdmissionStates, RequestShutdown, PauseAdmission, ResumeAdmission,
                        BeginDrain, ClosePermits
    <2>2. admission = "Draining" => admission' = "Draining"
      BY <1>4 DEF RequestShutdown, PauseAdmission, ResumeAdmission, BeginDrain, ClosePermits
    <2>3. TypeOK' /\ Drained'
      BY <1>1, <1>2, <2>1, <2>2 DEF TypeOK, Drained
    <2> QED
      BY <1>3, <2>3 DEF IInv
  <1>5. CASE StartDrain \/ DrainStep \/ DrainExpires
    <2>1. /\ admission' \in AdmissionStates
          /\ closed' \in BOOLEAN
          /\ UNCHANGED <<closing, shutdown>>
          /\ admission' = "Draining"
      BY <1>1, <1>5 DEF TypeOK, AdmissionStates, Drained, DrainAt, StartDrain, DrainStep,
                        DrainCloses, DrainLooks, DrainSubscribes, DrainChecks, DrainWakes, DrainExpires
    <2>2. drain' \in Drain /\ (drain'.outcome = "Completed" => drain'.pc = "done" /\ inFlight = 0)
      <3>1. drain \in Drain /\ (drain.outcome = "Completed" => drain.pc = "done" /\ inFlight = 0)
        BY <1>1 DEF TypeOK, Drained
      <3>2. CASE StartDrain
        BY <3>1, <3>2 DEF StartDrain, DrainAt, Drain
      <3>3. CASE DrainStep
        BY <3>1, <3>3 DEF DrainStep, DrainCloses, DrainLooks, DrainSubscribes, DrainChecks,
                          DrainWakes, DrainAt, Drain
      <3>4. CASE DrainExpires
        BY <3>1, <3>4 DEF DrainExpires, Drain
      <3> QED
        BY <1>5, <3>2, <3>3, <3>4
    <2>3. TypeOK'
      BY <1>1, <1>2, <2>1, <2>2 DEF TypeOK
    <2>4. Drained'
      BY <1>2, <2>1, <2>2 DEF Drained
    <2> QED
      BY <1>3, <2>3, <2>4 DEF IInv
  <1> QED
    BY <1>4, <1>5

----------------------------------------------------------------------------
(* Theorems.                                                                *)

\* The invariant holds at first and is kept by every step.
LEMMA Inductive ==
    /\ Init => IInv
    /\ IInv /\ [Next]_vars => IInv'
  <1>1. Init => IInv
    <2> SUFFICES ASSUME Init
                 PROVE  IInv
      OBVIOUS
    <2>1. Idle \in Job /\ Idle.pc = "idle" /\ Told(Idle)
      BY Shapes DEF Idle, Job, Told, Plain, Admission
    <2>2. job \in [Jobs -> Job] /\ \A j \in Jobs : job[j].pc = "idle" /\ Told(job[j])
      BY <2>1 DEF Init
    <2>3. Within(job, HoldingPcs) = {} /\ Within(job, CountedPcs) = {} /\ Within(job, ListedPcs) = {}
      BY <2>2 DEF Within, HoldingPcs, CountedPcs, ListedPcs
    <2>4. IsFiniteSet({}) /\ Cardinality({}) = 0
      BY FS_EmptySet
    <2>5. IsFiniteSet(Within(job, HoldingPcs))
      BY <2>3, <2>4
    <2>6. Cardinality(Within(job, HoldingPcs)) = 0 /\ Cardinality(Within(job, CountedPcs)) = 0
      BY <2>3, <2>4, Zenon
    <2>7. MaxInFlight - 0 = MaxInFlight
      BY CapacityAssumption
    <2>8. Counts
      BY <2>3, <2>5, <2>6, <2>7, Zenon DEF Counts, Init
    <2>9. TypeOK
      <3>1. drain \in Drain
        BY DEF Init, Drain
      <3>2. available \in 0..MaxInFlight /\ inFlight \in Nat
        BY CapacityAssumption DEF Init
      <3> QED
        BY <2>2, <3>1, <3>2 DEF TypeOK, Init, AdmissionStates
    <2>10. Drained
      BY DEF Drained, Init, None
    <2> QED
      BY <2>2, <2>8, <2>9, <2>10 DEF IInv
  <1>2. ASSUME IInv, [Next]_vars
        PROVE  IInv'
    <2>1. CASE Next
      BY <1>2, <2>1, AdmissionStep, HandlerStep, TokenStep, MessageStep, GateStep
         DEF Next, JobStep
    <2>2. CASE UNCHANGED vars
      <3>1. UNCHANGED <<admission, inFlight, available, closed, closing, registry, shutdown, job, drain>>
        BY <2>2 DEF vars
      <3> QED
        BY <1>2, <3>1 DEF IInv, TypeOK, Counts, Drained
    <2> QED
      BY <1>2, <2>1, <2>2
  <1> QED
    BY <1>1, <1>2

\* IInv is an invariant of the executor: what every place of an execute call holds
\* and has reported.
THEOREM WorkerInductive == Spec => []IInv
  BY Inductive, PTL DEF Spec

\* Every variable of the executor keeps its type.
THEOREM WorkerTypeOK == Spec => []TypeOK
  <1>1. IInv => TypeOK
    BY DEF IInv
  <1> QED
    BY <1>1, WorkerInductive, PTL

\* Registry, in-flight count and permits nest for any max_in_flight, so register
\* never refuses a call that was admitted.
THEOREM WorkerCapacity == Spec => []CapacityMirrored
  <1>1. IInv => CapacityMirrored
    <2> SUFFICES ASSUME IInv
                 PROVE  CapacityMirrored
      OBVIOUS
    <2>1. Counts /\ \A j \in Jobs : Told(job[j])
      BY DEF IInv
    <2>2. /\ Cardinality(Within(job, CountedPcs)) \in Nat
          /\ Cardinality(Within(job, HoldingPcs)) \in Nat
          /\ Cardinality(Within(job, CountedPcs)) <= Cardinality(Within(job, HoldingPcs))
          /\ Cardinality(Within(job, ListedPcs)) <= Cardinality(Within(job, CountedPcs))
      BY <2>1, CountedHold DEF Counts
    <2>3. Cardinality(registry) = Cardinality(Within(job, ListedPcs))
      BY <2>1, Zenon DEF Counts
    <2>4. inFlight <= MaxInFlight - available
      BY <2>1, <2>2, CapacityAssumption DEF Counts
    <2>5. Cardinality(registry) <= inFlight
      BY <2>1, <2>2, <2>3 DEF Counts
    <2> QED
      BY <2>1, <2>4, <2>5 DEF CapacityMirrored, Told
  <1> QED
    BY <1>1, WorkerInductive, PTL

\* A drain that completed leaves no handler running.
THEOREM WorkerDrained == Spec => []DrainedIsQuiet
  <1>1. IInv => DrainedIsQuiet
    <2> SUFFICES ASSUME IInv, drain.outcome = "Completed", NEW j \in Jobs, InHandler(j)
                 PROVE  FALSE
      BY DEF DrainedIsQuiet
    <2>1. Cardinality(Within(job, CountedPcs)) = 0 /\ IsFiniteSet(Within(job, CountedPcs))
      BY CountedHold DEF IInv, Drained, Counts
    <2>2. j \in Within(job, CountedPcs)
      BY DEF InHandler, Within, CountedPcs
    <2> QED
      BY <2>1, <2>2, FS_EmptySet, Zenon
  <1> QED
    BY <1>1, WorkerInductive, PTL

\* What execute returns is what its observer was told.
THEOREM WorkerOutcome == Spec => []OutcomeReported
  <1>1. IInv => OutcomeReported
    BY DEF IInv, Told, Reported, OutcomeReported, Failed, RemoteEffect
  <1> QED
    BY <1>1, WorkerInductive, PTL

\* A handler's own result is returned only if the token was not cancelled.
THEOREM WorkerCancelled == Spec => CancelledNeverSucceeds
  <1> DEFINE Once == \A j \in Jobs :
                         /\ job[j].pc = "running"
                         /\ job'[j].result.kind \in {"Ok", "Handler"}
                         => job[j].token = None
  <1>1. IInv /\ [Next]_vars => Once
    <2> SUFFICES ASSUME IInv, [Next]_vars, NEW j \in Jobs, job[j].pc = "running",
                        job'[j].result.kind \in {"Ok", "Handler"}
                 PROVE  job[j].token = None
      OBVIOUS
    <2>1. job \in [Jobs -> Job] /\ job[j] \in Job /\ job[j].result.kind = "Pending"
      BY DEF IInv, TypeOK, Told
    <2>2. job'[j].result # job[j].result
      BY <2>1
    <2>3. \A i \in Jobs : \A k : Put(i, k) => i = j /\ job'[j] = k
      BY <2>1, <2>2 DEF Put
    <2>4. ~RequestMessageCancellation(MessageOf(j)) /\ \A m : ~RequestMessageCancellation(m)
      <3> SUFFICES ASSUME NEW m, RequestMessageCancellation(m)
                   PROVE  FALSE
        OBVIOUS
      <3>1. job'[j] = job[j] \/ job'[j] = [job[j] EXCEPT !.token = Cancel(@, "Requested")]
        BY DEF RequestMessageCancellation
      <3> QED
        BY <2>1, <2>2, <3>1 DEF Job
    <2>5. job' # job
      BY <2>2
    <2>6. PICK i \in Jobs :
              \/ Execute(i) \/ JobStep(i) \/ ExpireDeadline(i) \/ DropExecution(i) \/ Return(i)
              \/ RequestCancellation(i)
              \/ \E reason \in OwnerReasons : CancelToken(i, reason)
              \/ \E result \in {"Ok", "Handler"} : HandlerReturns(i, result)
      BY <2>4, <2>5 DEF Next, vars, RequestShutdown, PauseAdmission, ResumeAdmission, BeginDrain,
         ClosePermits, StartDrain, DrainStep, DrainCloses, DrainLooks, DrainSubscribes, DrainChecks,
         DrainWakes, DrainExpires
    <2>7. i = j
      BY <2>3, <2>6 DEF Execute, JobStep, ObserveShutdown, ObserveCancellation, AcquirePermit,
         ObserveClosed, RecheckSignals, TryStart, ReturnRefused, Register, ObserveTaskCancelled,
         FinishCleanup, LeaveRegistry, FinishInFlight, ReleasePermit, GuardCancels,
         ExpireDeadline, DropExecution, Return, RequestCancellation, CancelToken, HandlerReturns
    <2>8. CASE ObserveTaskCancelled(j)
      <3>1. Put(j, [job[j] EXCEPT !.pc = "cleanup", !.result = Cancelled(job[j].token)])
        BY <2>8 DEF ObserveTaskCancelled
      <3>2. job'[j].result = Cancelled(job[j].token)
        BY <2>1, <2>3, <3>1 DEF Job
      <3> QED
        BY <3>2 DEF Cancelled
    <2>9. CASE ExpireDeadline(j)
      <3> DEFINE observed == Cancel(job[j].token, "Timeout")
                 r == IF observed = "Timeout" THEN Plain("TimedOut") ELSE Cancelled(observed)
      <3>1. Put(j, [job[j] EXCEPT !.pc = "cleanup", !.token = observed, !.result = r])
        BY <2>9 DEF ExpireDeadline
      <3> HIDE DEF observed
      <3>2. r.kind \in {"TimedOut", "Cancelled"}
        BY DEF Plain, Cancelled
      <3> HIDE DEF r
      <3>3. job'[j].result = r
        BY <2>1, <2>3, <3>1 DEF Job
      <3> QED
        BY <3>2, <3>3
    <2>10. CASE DropExecution(j)
      <3> DEFINE k == [job[j] EXCEPT !.result = Plain("Dropped")]
      <3>1. k \in Job /\ k.result = Plain("Dropped")
        BY <2>1, Shapes DEF Job
      <3>2. Put(j, [k EXCEPT !.pc = "leave"])
        BY <2>10 DEF DropExecution, At
      <3> HIDE DEF k
      <3>3. job'[j].result = Plain("Dropped")
        BY <2>3, <3>1, <3>2 DEF Job
      <3> QED
        BY <3>3 DEF Plain
    <2>11. CASE RequestCancellation(j) \/ \E reason \in OwnerReasons : CancelToken(j, reason)
      <3>1. PICK token : Put(j, [job[j] EXCEPT !.token = token])
        BY <2>11 DEF RequestCancellation, CancelToken
      <3>2. job'[j].result = job[j].result
        BY <2>1, <2>3, <3>1 DEF Job
      <3> QED
        BY <2>2, <3>2
    <2>12. CASE \E result \in {"Ok", "Handler"} : HandlerReturns(j, result)
      <3>1. PICK result \in {"Ok", "Handler"} : HandlerReturns(j, result)
        BY <2>12
      <3>2. CASE job[j].token # None
        <4>1. Put(j, Concludes(job[j], Cancelled(job[j].token)))
          BY <3>1, <3>2 DEF HandlerReturns
        <4>2. job'[j].result = Cancelled(job[j].token)
          BY <2>1, <2>3, <4>1, ZenonT(60) DEF Concludes, Job
        <4> QED
          BY <4>2 DEF Cancelled
      <3> QED
        BY <3>2
    <2> QED
      BY <2>6, <2>7, <2>8, <2>9, <2>10, <2>11, <2>12
         DEF At, Execute, JobStep, ObserveShutdown, ObserveCancellation, AcquirePermit,
         ObserveClosed, RecheckSignals, TryStart, ReturnRefused, Register,
         FinishCleanup, LeaveRegistry, FinishInFlight, ReleasePermit, GuardCancels, Return
  <1> QED
    BY <1>1, WorkerInductive, PTL DEF Spec, CancelledNeverSucceeds

\* Draining never ends, and from then on the in-flight count only falls.
THEOREM WorkerDrainIsFinal == Spec => DrainIsFinal
  <1> DEFINE Final == admission = "Draining" => admission' = "Draining" /\ inFlight' <= inFlight
  <1>1. IInv /\ [Next]_vars => Final
    <2> SUFFICES ASSUME IInv, [Next]_vars, admission = "Draining"
                 PROVE  admission' = "Draining" /\ inFlight' <= inFlight
      OBVIOUS
    <2>1. inFlight \in Nat
      BY DEF IInv, TypeOK
    <2>2. admission' = "Draining"
      BY DEF Next, vars, Execute, JobStep, ObserveShutdown, ObserveCancellation, AcquirePermit,
         ObserveClosed, RecheckSignals, TryStart, ReturnRefused, Register, ObserveTaskCancelled,
         FinishCleanup, LeaveRegistry, FinishInFlight, ReleasePermit, GuardCancels,
         ExpireDeadline, DropExecution, Return, RequestCancellation, CancelToken, HandlerReturns,
         RequestMessageCancellation, RequestShutdown, PauseAdmission, ResumeAdmission, BeginDrain,
         ClosePermits, StartDrain, DrainStep, DrainCloses, DrainLooks, DrainSubscribes, DrainChecks,
         DrainWakes, DrainExpires
    <2>3. inFlight' = inFlight \/ inFlight' = inFlight - 1
      BY DEF Next, vars, Execute, JobStep, ObserveShutdown, ObserveCancellation, AcquirePermit,
         ObserveClosed, RecheckSignals, TryStart, ReturnRefused, Register, ObserveTaskCancelled,
         FinishCleanup, LeaveRegistry, FinishInFlight, ReleasePermit, GuardCancels,
         ExpireDeadline, DropExecution, Return, RequestCancellation, CancelToken, HandlerReturns,
         RequestMessageCancellation, RequestShutdown, PauseAdmission, ResumeAdmission, BeginDrain,
         ClosePermits, StartDrain, DrainStep, DrainCloses, DrainLooks, DrainSubscribes, DrainChecks,
         DrainWakes, DrainExpires
    <2> QED
      BY <2>1, <2>2, <2>3
  <1> QED
    BY <1>1, WorkerInductive, PTL DEF Spec, DrainIsFinal

(***************************************************************************)
(* The worker executor implements the bounded pool, for any set of calls   *)
(* and any max_in_flight: every step is one step of the pool or leaves it  *)
(* unchanged.  The argument rests on the inductive invariant above, which  *)
(* ties the count, the permits and the registry to the places of the       *)
(* calls.                                                                  *)
(***************************************************************************)

\* What the pool sees of the executor is as it was.
PoolUnchanged ==
    UNCHANGED <<admission, InFlightJobs, registry, drain.outcome = "Completed">>

\* Only the call j moved.
Moved(j) == \A i \in Jobs : i # j => job'[i] = job[i]

\* A call that moves joins, stays among or leaves the calls in flight.
LEMMA Membership ==
    ASSUME NEW j \in Jobs, Moved(j)
    PROVE  /\ job'[j].pc \in CountedPcs => InFlightJobs' = InFlightJobs \cup {j}
           /\ job'[j].pc \notin CountedPcs => InFlightJobs' = InFlightJobs \ {j}
           /\ (job'[j].pc \in CountedPcs <=> job[j].pc \in CountedPcs) =>
                  InFlightJobs' = InFlightJobs
           /\ j \in InFlightJobs <=> job[j].pc \in CountedPcs
    BY DEF Moved, InFlightJobs, CountedPcs

\* A call that has its permit and is not yet counted leaves room for itself.
LEMMA RoomToStart ==
    ASSUME IInv, NEW j \in Jobs, job[j].pc = "admitting"
    PROVE  Cardinality(InFlightJobs) < MaxInFlight
  <1> DEFINE H == Within(job, HoldingPcs)
             R == Within(job, CountedPcs)
  <1>1. IsFiniteSet(H) /\ InFlightJobs = R /\ available = MaxInFlight - Cardinality(H)
        /\ available \in Nat
    BY JobFacts DEF IInv, Counts, InFlightJobs, Within, CountedPcs
  <1>2. IsFiniteSet(R) /\ Cardinality(R) \in Nat /\ Cardinality(H) \in Nat
    BY <1>1, CountedHold
  <1>3. j \notin R /\ R \cup {j} \subseteq H
    BY DEF Within, HoldingPcs, CountedPcs
  <1>4. IsFiniteSet(R \cup {j}) /\ Cardinality(R \cup {j}) = Cardinality(R) + 1
    BY <1>2, <1>3, FS_AddElement
  <1>5. Cardinality(R \cup {j}) <= Cardinality(H)
    BY <1>1, <1>3, FS_Subset
  <1>6. Cardinality(InFlightJobs) = Cardinality(R)
    BY <1>1
  <1> HIDE DEF H, R
  <1> QED
    BY <1>1, <1>2, <1>4, <1>5, <1>6, CapacityAssumption

\* The pool counts as the executor does.
LEMMA SameCount == Pool!Cardinality(InFlightJobs) = Cardinality(InFlightJobs)
  BY DEF Pool!Cardinality, Cardinality, Pool!IsFiniteSet, IsFiniteSet

\* An empty count is an empty pool.
LEMMA EmptyCount ==
    ASSUME IInv, inFlight = 0
    PROVE  InFlightJobs = {}
  <1>1. IsFiniteSet(Within(job, CountedPcs)) /\ Cardinality(Within(job, CountedPcs)) = 0
    BY CountedHold DEF IInv, Counts
  <1>2. Within(job, CountedPcs) = {}
    BY <1>1, FS_EmptySet, Zenon
  <1> QED
    BY <1>2 DEF InFlightJobs, Within, CountedPcs

\* Steps of a call that keep it on its side of the count and of the registry.
LEMMA QuietStep ==
    ASSUME IInv, NEW j \in Jobs,
           \/ Execute(j) \/ ObserveShutdown(j) \/ ObserveCancellation(j) \/ AcquirePermit(j)
           \/ ObserveClosed(j) \/ RecheckSignals(j) \/ ReturnRefused(j)
           \/ ObserveTaskCancelled(j) \/ ExpireDeadline(j) \/ FinishCleanup(j)
           \/ (\E result \in {"Ok", "Handler"} : HandlerReturns(j, result))
           \/ ReleasePermit(j) \/ GuardCancels(j) \/ DropExecution(j) \/ Return(j)
           \/ (\E reason \in OwnerReasons : CancelToken(j, reason)) \/ RequestCancellation(j)
    PROVE  PoolUnchanged
  <1>1. job \in [Jobs -> Job] /\ job[j] \in Job /\ drain \in Drain
    BY DEF IInv, TypeOK
  <1>2. admission' = admission /\ registry' = registry
        /\ (drain' = drain \/ drain' = [drain EXCEPT !.notified = TRUE])
    BY DEF Execute, ObserveShutdown, ObserveCancellation, AcquirePermit, ObserveClosed,
           RecheckSignals, ReturnRefused, ObserveTaskCancelled, ExpireDeadline, FinishCleanup,
           HandlerReturns, ReleasePermit, GuardCancels, DropExecution, Return, CancelToken,
           RequestCancellation
  <1>3. drain'.outcome = drain.outcome
    BY <1>1, <1>2 DEF Drain
  <1>4. PICK k : Put(j, k)
    BY DEF Execute, ObserveShutdown, ObserveCancellation, AcquirePermit, ObserveClosed,
           RecheckSignals, ReturnRefused, ObserveTaskCancelled, ExpireDeadline, FinishCleanup,
           HandlerReturns, ReleasePermit, GuardCancels, DropExecution, Return, CancelToken,
           RequestCancellation
  <1>5. Moved(j)
    BY <1>1, <1>4 DEF Put, Moved
  <1>6. \A n : Put(j, n) => job'[j] = n
    BY <1>1 DEF Put
  <1>7. job'[j].pc \in CountedPcs <=> job[j].pc \in CountedPcs
    <2>1. ASSUME Execute(j) \/ Return(j)
          PROVE  job'[j].pc \notin CountedPcs /\ job[j].pc \notin CountedPcs
      <3> DEFINE k1 == [Idle EXCEPT !.pc = "done"]
      <3>1. k1 \in Job /\ k1.pc = "done" /\ Idle.pc = "idle"
        BY Shapes DEF Idle, Job
      <3>2. CASE Return(j)
        BY <1>6, <3>1, <3>2 DEF Return, At, CountedPcs
      <3>3. CASE Execute(j)
        <4>1. Put(j, IF shutdown THEN Rejected(k1, "ShutdownRequested")
                     ELSE IF admission # "Accepting" THEN Rejected(k1, GateReason)
                     ELSE [k1 EXCEPT !.pc = "waiting"])
          BY <3>3 DEF Execute
        <4>2. job[j].pc = "idle"
          BY <3>3 DEF Execute, At
        <4> HIDE DEF k1
        <4> QED
          BY <1>6, <3>1, <4>1, <4>2 DEF Rejected, Job, CountedPcs
      <3> QED
        BY <2>1, <3>2, <3>3
    <2>2. ASSUME \/ ObserveShutdown(j) \/ ObserveCancellation(j) \/ AcquirePermit(j)
                 \/ ObserveClosed(j) \/ ReturnRefused(j)
          PROVE  job'[j].pc \notin CountedPcs /\ job[j].pc \notin CountedPcs
      BY <1>1, <1>6, <2>2 DEF ObserveShutdown, ObserveCancellation, AcquirePermit, ObserveClosed,
         ReturnRefused, At, Rejected, CancelledBefore, Job, CountedPcs
    <2>3. ASSUME RecheckSignals(j)
          PROVE  job'[j].pc \notin CountedPcs /\ job[j].pc \notin CountedPcs
      BY <1>1, <1>6, <2>3 DEF RecheckSignals, At, Rejected, CancelledBefore, Job, CountedPcs
    <2>4. ASSUME \/ ObserveTaskCancelled(j) \/ ExpireDeadline(j) \/ FinishCleanup(j)
                 \/ \E result \in {"Ok", "Handler"} : HandlerReturns(j, result)
          PROVE  job'[j].pc \in CountedPcs /\ job[j].pc \in CountedPcs
      BY <1>1, <1>6, <2>4 DEF ObserveTaskCancelled, ExpireDeadline, FinishCleanup, HandlerReturns,
         At, Concludes, Job, CountedPcs
    <2>5. ASSUME ReleasePermit(j) \/ GuardCancels(j)
          PROVE  job'[j].pc \notin CountedPcs /\ job[j].pc \notin CountedPcs
      BY <1>1, <1>6, <2>5 DEF ReleasePermit, GuardCancels, At, Job, CountedPcs
    <2>6. ASSUME DropExecution(j)
          PROVE  job'[j].pc \in CountedPcs <=> job[j].pc \in CountedPcs
      <3> DEFINE k1 == [job[j] EXCEPT !.result = Plain("Dropped")]
      <3>1. k1 \in Job
        BY <1>1, Shapes DEF Job
      <3>2. Put(j, IF ~At(j, "waiting") THEN [k1 EXCEPT !.pc = "leave"]
                   ELSE IF k1.token = None THEN [k1 EXCEPT !.pc = "guard"]
                   ELSE [k1 EXCEPT !.pc = "done", !.state = Transition(@, Cancelled(k1.token))])
        BY <2>6 DEF DropExecution
      <3>3. job[j].pc \in {"waiting", "running", "cleanup"}
        BY <2>6 DEF DropExecution
      <3> HIDE DEF k1
      <3> QED
        BY <1>6, <3>1, <3>2, <3>3 DEF At, CountedPcs, Job
    <2>7. ASSUME (\E reason \in OwnerReasons : CancelToken(j, reason)) \/ RequestCancellation(j)
          PROVE  job'[j].pc = job[j].pc
      BY <1>1, <1>6, <2>7 DEF CancelToken, RequestCancellation, Job
    <2> QED
      BY <2>1, <2>2, <2>3, <2>4, <2>5, <2>6, <2>7
  <1> QED
    BY <1>2, <1>3, <1>5, <1>7, Membership DEF PoolUnchanged

\* A step of the executor is a step of the pool.
LEMMA PoolStep ==
    ASSUME IInv, Next
    PROVE  Pool!PoolNext \/ PoolUnchanged
  <1>0. job \in [Jobs -> Job] /\ drain \in Drain /\ registry = Within(job, ListedPcs)
    BY DEF IInv, TypeOK, Counts
  <1>1. ASSUME NEW j \in Jobs, TryStart(j)
        PROVE  Pool!PoolNext \/ PoolUnchanged
    <2>1. At(j, "admitting") /\ job[j] \in Job
      BY <1>0, <1>1 DEF TryStart
    <2>2. Moved(j)
      BY <1>0, <1>1 DEF TryStart, Put, Moved
    <2>3. CASE admission = "Accepting"
      <3>1. job'[j].pc = "started"
        BY <1>0, <1>1, <2>1, <2>3 DEF TryStart, Put, Job
      <3>2. InFlightJobs' = InFlightJobs \cup {j} /\ j \notin InFlightJobs
        BY <2>1, <2>2, <3>1, Membership DEF At, CountedPcs
      <3>3. Cardinality(InFlightJobs) < MaxInFlight
        BY <2>1, RoomToStart DEF At
      <3>4. Pool!Start(j)
        BY <1>1, <2>3, <3>2, <3>3, SameCount DEF TryStart, Pool!Start
      <3> QED
        BY <3>4 DEF Pool!PoolNext, Pool!TaskStep
    <2>4. CASE admission # "Accepting"
      <3>1. job'[j].pc = "refused"
        BY <1>0, <1>1, <2>1, <2>4 DEF TryStart, Put, Job
      <3> QED
        BY <1>1, <2>1, <2>2, <3>1, Membership DEF At, CountedPcs, TryStart, PoolUnchanged
    <2> QED
      BY <2>3, <2>4
  <1>2. ASSUME NEW j \in Jobs, Register(j)
        PROVE  Pool!PoolNext \/ PoolUnchanged
    <2>1. At(j, "started") /\ job[j] \in Job
      BY <1>0, <1>2 DEF Register
    <2>2. Cardinality(registry) < MaxInFlight /\ Cardinality(registry) \in Nat
      BY <2>1, RegistryHasRoom DEF At
    <2>3. /\ Put(j, [job[j] EXCEPT !.pc = "running", !.invoked = TRUE,
                                   !.state = Transition(@, Plain("Running"))])
          /\ registry' = registry \cup {j}
      BY <1>2, <2>2, CapacityAssumption DEF Register
    <2>4. Moved(j) /\ job'[j].pc = "running"
      BY <1>0, <2>1, <2>3 DEF Put, Moved, Job
    <2>5. InFlightJobs' = InFlightJobs /\ j \in InFlightJobs /\ j \notin registry
      BY <1>0, <2>1, <2>4, Membership DEF At, CountedPcs, Within, ListedPcs
    <2>6. Pool!List(j)
      BY <1>2, <2>3, <2>5 DEF Register, Pool!List
    <2> QED
      BY <2>6 DEF Pool!PoolNext, Pool!TaskStep
  <1>3. ASSUME NEW j \in Jobs, LeaveRegistry(j)
        PROVE  Pool!PoolNext
    <2>1. At(j, "leave") /\ job[j] \in Job
      BY <1>0, <1>3 DEF LeaveRegistry
    <2>2. Moved(j) /\ job'[j].pc = "finish"
      BY <1>0, <1>3, <2>1 DEF LeaveRegistry, Put, Moved, Job
    <2>3. InFlightJobs' = InFlightJobs /\ j \in registry
      BY <1>0, <2>1, <2>2, Membership DEF At, CountedPcs, Within, ListedPcs
    <2>4. Pool!Delist(j)
      BY <1>3, <2>3 DEF LeaveRegistry, Pool!Delist
    <2> QED
      BY <2>4 DEF Pool!PoolNext, Pool!TaskStep
  <1>4. ASSUME NEW j \in Jobs, FinishInFlight(j)
        PROVE  Pool!PoolNext
    <2>1. At(j, "finish") /\ job[j] \in Job
      BY <1>0, <1>4 DEF FinishInFlight
    <2>2. Moved(j) /\ job'[j].pc = "release"
      BY <1>0, <1>4, <2>1 DEF FinishInFlight, Put, Moved, Job
    <2>3. InFlightJobs' = InFlightJobs \ {j} /\ j \in InFlightJobs /\ j \notin registry
      BY <1>0, <2>1, <2>2, Membership DEF At, CountedPcs, Within, ListedPcs
    <2>4. Pool!Finish(j)
      BY <1>4, <2>3 DEF FinishInFlight, Pool!Finish
    <2> QED
      BY <2>4 DEF Pool!PoolNext, Pool!TaskStep
  <1>5. ASSUME NEW message, RequestMessageCancellation(message)
        PROVE  PoolUnchanged
    <2>1. \A i \in Jobs : job'[i].pc = job[i].pc
      BY <1>0, <1>5 DEF RequestMessageCancellation, Job
    <2>2. InFlightJobs' = InFlightJobs
      BY <2>1 DEF InFlightJobs
    <2> QED
      BY <1>5, <2>2 DEF RequestMessageCancellation, PoolUnchanged
  <1>6. ASSUME RequestShutdown \/ ClosePermits \/ DrainCloses \/ DrainSubscribes \/ DrainWakes
        PROVE  PoolUnchanged
    <2>1. UNCHANGED <<admission, job, registry>> /\ drain'.outcome = drain.outcome
      BY <1>0, <1>6 DEF RequestShutdown, ClosePermits, DrainCloses, DrainSubscribes, DrainWakes, Drain
    <2> QED
      BY <2>1 DEF PoolUnchanged, InFlightJobs
  <1>7. ASSUME PauseAdmission \/ ResumeAdmission \/ BeginDrain
        PROVE  Pool!PoolNext
    <2>1. UNCHANGED <<InFlightJobs, registry, drain>>
      BY <1>7 DEF PauseAdmission, ResumeAdmission, BeginDrain, InFlightJobs
    <2>2. Pool!Pause \/ Pool!Resume \/ Pool!BeginDraining
      BY <1>7, <2>1 DEF PauseAdmission, ResumeAdmission, BeginDrain, Pool!Pause, Pool!Resume,
         Pool!BeginDraining
    <2> QED
      BY <2>2 DEF Pool!PoolNext
  <1>8. ASSUME StartDrain
        PROVE  Pool!PoolNext \/ PoolUnchanged
    <2>1. UNCHANGED <<InFlightJobs, registry>> /\ drain'.outcome = drain.outcome
          /\ admission' = "Draining"
      BY <1>0, <1>8 DEF StartDrain, InFlightJobs, Drain
    <2>2. CASE admission = "Draining"
      BY <2>1, <2>2 DEF PoolUnchanged
    <2>3. CASE admission # "Draining"
      BY <2>1, <2>3 DEF Pool!BeginDraining, Pool!PoolNext
    <2> QED
      BY <2>2, <2>3
  <1>9. ASSUME DrainLooks \/ DrainChecks \/ DrainExpires
        PROVE  Pool!PoolNext \/ PoolUnchanged
    <2>1. UNCHANGED <<admission, InFlightJobs, registry>> /\ drain.pc \notin {"idle", "done"}
      BY <1>9 DEF DrainLooks, DrainChecks, DrainExpires, DrainAt, InFlightJobs
    <2>2. admission = "Draining" /\ drain.outcome # "Completed"
      BY <2>1 DEF IInv, Drained
    <2>3. CASE inFlight = 0
      <3>1. drain'.outcome = "Completed"
        BY <1>0, <1>9, <2>3 DEF DrainLooks, DrainChecks, DrainExpires, Drain
      <3>2. InFlightJobs = {}
        BY <2>3, EmptyCount
      <3> QED
        BY <2>1, <2>2, <3>1, <3>2 DEF Pool!CompleteDrain, Pool!PoolNext
    <2>4. CASE inFlight # 0
      <3>1. drain'.outcome # "Completed"
        BY <1>0, <1>9, <2>2, <2>4 DEF DrainLooks, DrainChecks, DrainExpires, Drain
      <3> QED
        BY <2>1, <2>2, <3>1 DEF PoolUnchanged
    <2> QED
      BY <2>3, <2>4
  <1> QED
    BY <1>1, <1>2, <1>3, <1>4, <1>5, <1>6, <1>7, <1>8, <1>9, QuietStep
       DEF Next, JobStep, DrainStep

\* The executor implements the bounded pool: ImplementsPool, for any number of
\* concurrent calls and any capacity.
THEOREM WorkerImplementsPool == Spec => ImplementsPool
  <1>1. Init => Pool!PoolInit
    BY DEF Init, Pool!PoolInit, InFlightJobs, Idle, None
  <1>2. ASSUME IInv, [Next]_vars
        PROVE  [Pool!PoolNext]_(Pool!poolVars)
    <2>1. CASE Next
      BY <1>2, <2>1, PoolStep DEF PoolUnchanged, Pool!poolVars
    <2>2. CASE UNCHANGED vars
      BY <2>2 DEF vars, Pool!poolVars, InFlightJobs
    <2> QED
      BY <1>2, <2>1, <2>2
  <1> QED
    BY <1>1, <1>2, WorkerInductive, PTL DEF Spec, ImplementsPool, Pool!PoolSpec
=============================================================================

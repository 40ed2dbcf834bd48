-------------------------- MODULE OperationsProofs --------------------------
(***************************************************************************)
(* The order of heartbeats, and the truth of what the control plane        *)
(* answers, for any number of clients, threads, monitors and tasks, every  *)
(* set of requests, and wherever the heartbeat sequence ends.              *)
(***************************************************************************)
EXTENDS Operations, FiniteSetTheorems, WellFoundedInduction, TLAPS

Statuses == {"Starting", "Ready", "Draining", "Stopped"}
Gates == {"Accepting", "Paused", "Draining"}
Shifts == {"pause_worker", "resume_worker"}

\* The heartbeat that a thread has a number for and has not built yet.
Beat(t) ==
    [sequence |-> thread[t].item.sequence, status |-> thread[t].item.status, by |-> t]

\* Every heartbeat that has a number.
Numbered == observed \cup {Beat(t) : t \in {u \in Threads : thread[u].pc = "sample"}}

\* Numbers are given out in the order of the statuses.
Ordered(beats) ==
    \A a, b \in beats :
        /\ a.sequence = b.sequence => a = b
        /\ a.sequence < b.sequence => Rank[a.status] <= Rank[b.status]

\* The reporter is ahead of every heartbeat it has numbered.
Behind(beat) ==
    /\ beat.sequence \in Nat /\ beat.sequence <= reporter.sequence
    /\ beat.status \in Statuses /\ Rank[beat.status] <= Rank[reporter.status]

IsThread(k) == k = [pc |-> k.pc, item |-> k.item]

ObservationInv ==
    /\ reporter \in [status : Statuses, sequence : Nat]
    /\ DOMAIN thread = Threads /\ \A t \in Threads : IsThread(thread[t])
    /\ \A beat \in Numbered : Behind(beat)
    /\ Ordered(Numbered)

IsHandler(k) == k = [pc |-> k.pc, op |-> k.op, count |-> k.count, answer |-> k.answer]

\* Which operations pause where; one that looks at the gate again, which is g now,
\* has witnessed g, and once a gate from which there was nothing to move.
Waiting(k, g, witnessed) ==
    /\ k.pc = "list" => k.op = "worker"
    /\ k.pc \in {"scheduler", "dispatching"} => k.op \in ScheduleOps \cup {"scheduler"}
    /\ k.pc = "reread" => /\ k.op \in Shifts
                          /\ g \in witnessed
                          /\ \E h \in witnessed : h # Source(k.op)

\* What AnswersTrue says of one client.
Honest(k, g, witnessed) ==
    k.pc = "answered" =>
        /\ k.op \in Shifts /\ k.answer.body = "applied" =>
               {Source(k.op), Target(k.op)} \subseteq witnessed
        /\ k.op \in Shifts /\ k.answer.body = "already_in_state" => Target(k.op) \in witnessed
        /\ k.op \in Shifts /\ k.answer.body = "rejected" =>
               "Draining" \in witnessed \/ Cardinality(witnessed) > 1
        /\ k.op = "drain_worker" /\ k.answer.status = 200 => g = "Draining"

ControlInv ==
    /\ gate \in Gates
    /\ DOMAIN request = Clients /\ \A c \in Clients : IsHandler(request[c])
    /\ seen \in [Clients -> SUBSET Gates]
    /\ \A c \in Clients : Waiting(request[c], gate, seen[c]) /\ Honest(request[c], gate, seen[c])

----------------------------------------------------------------------------
(* Heartbeats.                                                              *)

\* Statuses have places in the lifecycle.
LEMMA Ranks == \A s \in Statuses : Rank[s] \in Nat
  BY DEF Rank, Statuses

\* Nothing that the heartbeats depend on has changed.
LEMMA ObservationKept ==
    ASSUME ObservationInv, UNCHANGED <<reporter, thread, observed>>
    PROVE  ObservationInv'
  <1>1. Numbered' = Numbered
    BY DEF Numbered, Beat
  <1>2. /\ reporter' \in [status : Statuses, sequence : Nat]
        /\ DOMAIN thread' = Threads /\ \A t \in Threads : IsThread(thread'[t])
    BY DEF ObservationInv
  <1>3. \A beat \in Numbered : Behind(beat)'
    BY DEF ObservationInv, Behind
  <1>4. Ordered(Numbered)
    BY DEF ObservationInv
  <1> QED
    BY <1>1, <1>2, <1>3, <1>4 DEF ObservationInv, Ordered, IsThread

\* A thread moves on, and no heartbeat gets a number by it.
LEMMA ThreadMoves ==
    ASSUME ObservationInv, NEW t \in Threads, NEW k, IsThread(k), PutThread(t, k),
           UNCHANGED reporter, Numbered' \subseteq Numbered
    PROVE  ObservationInv'
  <1>1. /\ reporter' \in [status : Statuses, sequence : Nat]
        /\ DOMAIN thread' = Threads /\ \A u \in Threads : IsThread(thread'[u])
    BY DEF ObservationInv, PutThread, IsThread
  <1>2. \A beat \in Numbered : Behind(beat)'
    BY DEF ObservationInv, Behind
  <1>3. Ordered(Numbered')
    BY DEF ObservationInv, Ordered
  <1> QED
    BY <1>1, <1>2, <1>3 DEF ObservationInv, Ordered, IsThread

\* A heartbeat that has just got its number, one more than the last, comes after all.
LEMMA NumbersFollow ==
    ASSUME NEW beats, NEW b, NEW last \in Nat, NEW status \in Statuses, Ordered(beats),
           \A a \in beats : /\ a.sequence \in Nat /\ a.sequence <= last
                            /\ a.status \in Statuses /\ Rank[a.status] <= Rank[status],
           b.sequence = last + 1, b.status \in Statuses, Rank[status] <= Rank[b.status]
    PROVE  Ordered(beats \cup {b})
  <1> SUFFICES ASSUME NEW x \in beats \cup {b}, NEW y \in beats \cup {b}
               PROVE  /\ x.sequence = y.sequence => x = y
                      /\ x.sequence < y.sequence => Rank[x.status] <= Rank[y.status]
    BY DEF Ordered
  <1>1. CASE x \in beats /\ y \in beats
    BY <1>1 DEF Ordered
  <1>2. CASE x = b /\ y = b
    BY <1>2
  <1>3. CASE x \in beats /\ y = b
    BY <1>3, Ranks
  <1>4. CASE x = b /\ y \in beats
    BY <1>4
  <1> QED
    BY <1>1, <1>2, <1>3, <1>4

\* record under the lock numbers a heartbeat, or at the end of the sequence changes
\* the status alone.
LEMMA RecordStep ==
    ASSUME ObservationInv, NEW t \in Threads, NEW s \in Statuses \cup {"None"}, Record(t, s)
    PROVE  ObservationInv'
  <1>1. PICK status : status = IF s = "None" THEN reporter.status ELSE s
    OBVIOUS
  <1>2. PICK n : n = reporter.sequence
    OBVIOUS
  <1>3. n \in Nat /\ status \in Statuses /\ reporter.status \in Statuses
    BY <1>1, <1>2 DEF ObservationInv
  <1>4. /\ thread[t].pc = "idle" /\ Rank[status] >= Rank[reporter.status]
        /\ reporter' = [status |-> status, sequence |-> IF n = MaxSequence THEN MaxSequence ELSE n + 1]
        /\ UNCHANGED observed
    BY <1>1, <1>2 DEF Record
  <1>5. n <= reporter'.sequence /\ reporter'.sequence \in Nat /\ reporter'.status = status
    BY <1>3, <1>4
  <1>6. \A beat \in Numbered : Behind(beat)'
    <2> SUFFICES ASSUME NEW beat \in Numbered
                 PROVE  Behind(beat)'
      OBVIOUS
    <2>1. Behind(beat)
      BY DEF ObservationInv
    <2>2. /\ beat.sequence \in Nat /\ beat.sequence <= n
          /\ beat.status \in Statuses /\ Rank[beat.status] <= Rank[reporter.status]
      BY <1>2, <2>1 DEF Behind
    <2>3. Rank[beat.status] <= Rank[status]
      BY <1>3, <1>4, <2>2, Ranks
    <2> QED
      BY <1>3, <1>5, <2>2, <2>3 DEF Behind
  <1>7. reporter' \in [status : Statuses, sequence : Nat]
    BY <1>3, <1>4, <1>5
  <1>8. CASE n = MaxSequence
    <2>1. UNCHANGED thread
      BY <1>2, <1>8 DEF Record
    <2>2. Numbered' = Numbered
      BY <1>4, <2>1 DEF Numbered, Beat
    <2>3. Ordered(Numbered)
      BY DEF ObservationInv
    <2>4. DOMAIN thread' = Threads /\ \A u \in Threads : IsThread(thread'[u])
      BY <2>1 DEF ObservationInv
    <2> QED
      BY <1>6, <1>7, <2>2, <2>3, <2>4 DEF ObservationInv, Ordered, IsThread
  <1>9. CASE n # MaxSequence
    <2>1. PICK item : item = Heartbeat(n + 1, status, 0)
      OBVIOUS
    <2>2. PICK k : k = [Idle EXCEPT !.pc = "sample", !.item = item]
      OBVIOUS
    <2>3. /\ k.pc = "sample" /\ k.item = item /\ IsThread(k)
          /\ item.sequence = n + 1 /\ item.status = status
      BY <2>1, <2>2 DEF Idle, IsThread, Heartbeat
    <2>4. PutThread(t, k)
      <3>0. reporter.sequence # MaxSequence
        BY <1>2, <1>9
      <3>1. thread' = [thread EXCEPT ![t] =
                [Idle EXCEPT !.pc = "sample",
                    !.item = Heartbeat(reporter'.sequence,
                                       IF s = "None" THEN reporter.status ELSE s, 0)]]
        BY <3>0, Zenon DEF Record, PutThread
      <3>2. reporter'.sequence = n + 1
        BY <1>4, <1>9
      <3> QED
        BY <1>1, <2>1, <2>2, <3>1, <3>2 DEF PutThread
    <2>5. PICK b : b = [sequence |-> n + 1, status |-> status, by |-> t]
      OBVIOUS
    <2>6. /\ DOMAIN thread' = Threads /\ \A u \in Threads : IsThread(thread'[u])
          /\ thread'[t] = k /\ \A u \in Threads \ {t} : thread'[u] = thread[u]
      BY <2>3, <2>4 DEF PutThread, ObservationInv, IsThread
    <2>7. Beat(t)' = b
      BY <2>3, <2>5, <2>6 DEF Beat
    <2>8. \A u \in Threads \ {t} : Beat(u)' = Beat(u)
      BY <2>6 DEF Beat
    <2>9. Numbered' \subseteq Numbered \cup {b}
      BY <1>4, <2>6, <2>7, <2>8 DEF Numbered
    <2>10. Ordered(Numbered \cup {b})
      <3>1. \A a \in Numbered : /\ a.sequence \in Nat /\ a.sequence <= n
                                /\ a.status \in Statuses /\ Rank[a.status] <= Rank[reporter.status]
        BY <1>2 DEF ObservationInv, Behind
      <3>2. b.sequence = n + 1 /\ b.status = status
        BY <2>5
      <3>3. Rank[reporter.status] <= Rank[status]
        BY <1>3, <1>4, Ranks
      <3>4. Ordered(Numbered)
        BY DEF ObservationInv
      <3> QED
        BY <1>3, <3>1, <3>2, <3>3, <3>4, NumbersFollow
    <2>11. Ordered(Numbered')
      BY <2>9, <2>10 DEF Ordered
    <2>12. Behind(b)'
      <3>1. b.sequence = reporter'.sequence /\ b.status = reporter'.status
        BY <1>4, <1>9, <2>5
      <3> QED
        BY <1>3, <1>5, <3>1, Ranks DEF Behind
    <2>13. \A beat \in Numbered' : Behind(beat)'
      BY <1>6, <2>9, <2>12
    <2> QED
      BY <1>7, <2>6, <2>11, <2>13 DEF ObservationInv, Ordered, IsThread
  <1> QED
    BY <1>8, <1>9

\* record after the lock builds the heartbeat with the number and the status that
\* the thread has brought from under the lock.
LEMMA SampleStep ==
    ASSUME ObservationInv, NEW t \in Threads, Sample(t)
    PROVE  ObservationInv'
  <1>1. PICK beat : beat = Heartbeat(thread[t].item.sequence, thread[t].item.status,
                                     Cardinality(counted))
    OBVIOUS
  <1>2. PICK k : k = [thread[t] EXCEPT !.pc = "send", !.item = beat]
    OBVIOUS
  <1>3. /\ thread[t].pc = "sample"
        /\ observed' = observed \cup {[sequence |-> beat.sequence, status |-> beat.status, by |-> t]}
        /\ PutThread(t, k) /\ UNCHANGED reporter
    BY <1>1, <1>2 DEF Sample
  <1>4. [sequence |-> beat.sequence, status |-> beat.status, by |-> t] = Beat(t)
    BY <1>1 DEF Heartbeat, Beat
  <1>5. thread[t] = [pc |-> thread[t].pc, item |-> thread[t].item]
    BY DEF ObservationInv, IsThread
  <1>6. k = [pc |-> "send", item |-> beat]
    BY <1>2, <1>5
  <1>7. thread'[t] = k /\ \A u \in Threads \ {t} : thread'[u] = thread[u]
    BY <1>3 DEF PutThread, ObservationInv
  <1>8. \A u \in Threads \ {t} : Beat(u)' = Beat(u)
    BY <1>7 DEF Beat
  <1>9. Numbered' \subseteq Numbered
    BY <1>3, <1>4, <1>6, <1>7, <1>8 DEF Numbered
  <1> QED
    BY <1>3, <1>6, <1>9, ThreadMoves DEF IsThread

\* A task's event has no number, and what is dispatched gets none.
LEMMA OtherThreadSteps ==
    ASSUME ObservationInv, NEW t \in Threads, ObserveTask(t) \/ Dispatch(t)
    PROVE  ObservationInv'
  <1>1. PICK k : k = IF Dispatch(t) THEN Idle ELSE [Idle EXCEPT !.pc = "send", !.item = TaskEvent]
    OBVIOUS
  <1>2. PutThread(t, k) /\ UNCHANGED <<reporter, observed>>
    BY <1>1 DEF ObserveTask, Dispatch
  <1>3. IsThread(k) /\ k.pc # "sample"
    BY <1>1 DEF Idle, IsThread
  <1>4. thread'[t] = k /\ \A u \in Threads \ {t} : thread'[u] = thread[u]
    BY <1>2 DEF PutThread, ObservationInv
  <1>5. \A u \in Threads \ {t} : Beat(u)' = Beat(u)
    BY <1>4 DEF Beat
  <1>6. Numbered' \subseteq Numbered
    BY <1>2, <1>3, <1>4, <1>5 DEF Numbered
  <1> QED
    BY <1>2, <1>3, <1>6, ThreadMoves

----------------------------------------------------------------------------
(* The control plane.                                                       *)

\* Checks in order give what one of them returns, or the default.
LEMMA OneOfTheChecks ==
    ASSUME NEW n \in Nat, NEW checks, DOMAIN checks = 1..n, NEW default
    PROVE  \/ FirstOf(checks, default) = default
           \/ \E i \in 1..n : FirstOf(checks, default) = checks[i][2]
  <1> DEFINE failed == {i \in DOMAIN checks : checks[i][1]}
             R == {ss \in Nat \X Nat : ss[1] < ss[2]}
  <1>1. FirstOf(checks, default) = IF failed = {} THEN default ELSE checks[First(failed)][2]
    BY DEF FirstOf
  <1>2. IsWellFoundedOn(R, Nat)
    BY NatLessThanWellFounded, Zenon DEF OpToRel
  <1>3. failed \subseteq 1..n /\ failed \subseteq Nat
    OBVIOUS
  <1> HIDE DEF failed, R
  <1>4. ASSUME failed # {} PROVE First(failed) \in failed
    <2>1. PICK m \in failed : \A k \in failed : ~(<<k, m>> \in R)
      BY <1>2, <1>3, <1>4, WFMin
    <2>2. \A k \in failed : k \in Nat /\ m \in Nat
      BY <1>3
    <2>3. \A k \in failed : ~(k < m)
      BY <2>1, <2>2 DEF R
    <2>4. \A k \in failed : m <= k
      BY <2>2, <2>3
    <2> QED
      BY <2>1, <2>4 DEF First
  <1> QED
    BY <1>1, <1>3, <1>4

\* A handler that refuses never says 200, nor any word of a mutation's outcome.
LEMMA RefusalsAre ==
    ASSUME NEW r, Refusal(r) # NoAnswer
    PROVE  /\ Refusal(r).status # 200
           /\ Refusal(r).body \notin {"applied", "already_in_state", "rejected"}
  <1> DEFINE checks == <<
        <<r.op \notin Reads /\ serving # "mutable", Answer(404, "no_route")>>,
        <<r.op # "components" /\ IdVerdict(r.component) # Ok, Answer(400, "invalid_component")>>,
        <<r.op = "cancel_task" /\ ~r.target.task, Answer(400, "invalid_task")>>,
        <<r.op \in ScheduleOps /\ IdVerdict(r.target) # Ok, Answer(400, "invalid_schedule")>>,
        <<~r.authorized, Answer(403, "forbidden")>>,
        <<r.op = "trigger_schedule" /\ r.body.bytes > MaxBodyBytes,
          Answer(413, "payload_too_large")>>,
        <<r.op = "trigger_schedule" /\ ~r.body.parses, Answer(400, "invalid_trigger_request")>>,
        <<r.op = "trigger_schedule" /\ r.body.millis > MaxMillis,
          Answer(400, "invalid_trigger_time")>>,
        <<r.op # "components" /\ r.component.name \notin registered[KindOf(r.op)],
          Answer(404, "component_not_found")>>>>
  <1>1. Refusal(r) = FirstOf(checks, NoAnswer)
    BY DEF Refusal
  <1>2. DOMAIN checks = 1..9
    OBVIOUS
  <1>3. \A i \in 1..9 : checks[i][2] \in
            {Answer(404, "no_route"), Answer(400, "invalid_component"), Answer(400, "invalid_task"),
             Answer(400, "invalid_schedule"), Answer(403, "forbidden"),
             Answer(413, "payload_too_large"), Answer(400, "invalid_trigger_request"),
             Answer(400, "invalid_trigger_time"), Answer(404, "component_not_found")}
    OBVIOUS
  <1> HIDE DEF checks
  <1>4. PICK i \in 1..9 : Refusal(r) = checks[i][2]
    <2>1. 9 \in Nat
      OBVIOUS
    <2>2. PICK seq : seq = checks
      OBVIOUS
    <2>3. \/ FirstOf(seq, NoAnswer) = NoAnswer
          \/ \E i \in 1..9 : FirstOf(seq, NoAnswer) = seq[i][2]
      BY <1>2, <2>1, <2>2, OneOfTheChecks
    <2> QED
      BY <1>1, <2>2, <2>3
  <1> QED
    BY <1>3, <1>4 DEF Answer

\* Two different gates witnessed are more than one.
LEMMA TwoGates ==
    ASSUME NEW S \in SUBSET Gates, NEW g \in S, NEW h \in S, g # h
    PROVE  Cardinality(S) > 1
  <1>1. IsFiniteSet(Gates)
    <2>1. Gates = (({} \cup {"Accepting"}) \cup {"Paused"}) \cup {"Draining"}
      BY DEF Gates
    <2>2. IsFiniteSet({} \cup {"Accepting"})
      BY FS_EmptySet, FS_AddElement
    <2>3. IsFiniteSet(({} \cup {"Accepting"}) \cup {"Paused"})
      BY <2>2, FS_AddElement
    <2> QED
      BY <2>1, <2>3, FS_AddElement
  <1>2. IsFiniteSet(S)
    BY <1>1, FS_Subset
  <1>3. Cardinality({g}) = 1 /\ Cardinality({g} \cup {h}) = 2 /\ IsFiniteSet({g} \cup {h})
    <2>1. IsFiniteSet({g}) /\ Cardinality({g}) = 1 /\ h \notin {g}
      BY FS_Singleton
    <2>2. IsFiniteSet({g} \cup {h}) /\ Cardinality({g} \cup {h}) = Cardinality({g}) + 1
      BY <2>1, FS_AddElement
    <2> QED
      BY <2>1, <2>2
  <1>4. {g} \cup {h} \subseteq S
    OBVIOUS
  <1>5. Cardinality({g} \cup {h}) <= Cardinality(S) /\ Cardinality(S) \in Nat
    BY <1>2, <1>4, FS_Subset, FS_CardinalityType
  <1> QED
    BY <1>3, <1>5

\* A drain is for good, and whoever is about to look at the gate witnesses its moves.
LEMMA GateWitnessed ==
    ASSUME NEW k, NEW g, NEW h, NEW w, NEW v, Waiting(k, g, w), Honest(k, g, w),
           g = "Draining" => h = "Draining", v = IF k.pc = "reread" THEN w \cup {h} ELSE w
    PROVE  Waiting(k, h, v) /\ Honest(k, h, v)
  <1>1. CASE k.pc = "reread"
    BY <1>1 DEF Waiting, Honest
  <1>2. CASE k.pc # "reread"
    BY <1>2 DEF Waiting, Honest
  <1> QED
    BY <1>1, <1>2

\* Nothing that the answers depend on has changed.
LEMMA ControlKept ==
    ASSUME ControlInv, UNCHANGED <<gate, request, seen>>
    PROVE  ControlInv'
  BY DEF ControlInv

\* One handler moves on; the gate stays and nobody witnesses anything.
LEMMA HandlerMoves ==
    ASSUME ControlInv, NEW c \in Clients, NEW k, IsHandler(k), Put(c, k),
           UNCHANGED <<gate, seen>>, Waiting(k, gate, seen[c]), Honest(k, gate, seen[c])
    PROVE  ControlInv'
  <1>1. /\ DOMAIN request' = Clients
        /\ request'[c] = k /\ \A d \in Clients \ {c} : request'[d] = request[d]
    BY DEF Put, ControlInv
  <1>2. \A d \in Clients : IsHandler(request'[d])
    BY <1>1 DEF ControlInv
  <1>3. \A d \in Clients : Waiting(request'[d], gate, seen[d]) /\ Honest(request'[d], gate, seen[d])
    BY <1>1 DEF ControlInv
  <1>4. gate' = gate /\ seen' = seen /\ gate \in Gates /\ seen \in [Clients -> SUBSET Gates]
    BY DEF ControlInv
  <1> QED
    BY <1>1, <1>2, <1>3, <1>4 DEF ControlInv, IsHandler

\* A request arrives that is refused, or whose handler leaves the gate alone.
LEMMA ArriveStep ==
    ASSUME ControlInv, NEW c \in Clients, NEW r,
           \/ Refuse(c, r) \/ ViewComponents(c, r) \/ ViewMonitor(c, r)
           \/ ViewWorker(c, r) \/ CancelTask(c, r) \/ AskScheduler(c, r)
    PROVE  ControlInv'
  <1>1. UNCHANGED <<gate, seen>>
    BY DEF Refuse, ViewComponents, ViewMonitor, ViewWorker, CancelTask, AskScheduler, Arrives,
           poolVars
  <1>2. ASSUME NEW pc, NEW op, NEW count, NEW answer,
               Put(c, [pc |-> pc, op |-> op, count |-> count, answer |-> answer]),
               pc \in {"answered", "list", "scheduler"},
               pc = "list" => op = "worker",
               pc = "scheduler" => op \in ScheduleOps \cup {"scheduler"},
               pc = "answered" =>
                   \/ op \notin Shifts \cup {"drain_worker"}
                   \/ /\ answer.status # 200
                      /\ answer.body \notin {"applied", "already_in_state", "rejected"}
        PROVE  ControlInv'
    <2>1. PICK k : k = [pc |-> pc, op |-> op, count |-> count, answer |-> answer]
      OBVIOUS
    <2>2. IsHandler(k) /\ k.pc = pc /\ k.op = op /\ k.answer = answer
      BY <2>1 DEF IsHandler
    <2>3. Waiting(k, gate, seen[c])
      BY <1>2, <2>2 DEF Waiting
    <2>4. Honest(k, gate, seen[c])
      BY <1>2, <2>2 DEF Honest
    <2> QED
      BY <1>1, <1>2, <2>1, <2>2, <2>3, <2>4, HandlerMoves
  <1>3. CASE Refuse(c, r)
    <2>1. Put(c, [pc |-> "answered", op |-> r.op, count |-> 0, answer |-> Refusal(r)])
          /\ Refusal(r) # NoAnswer
      BY <1>3 DEF Refuse, Begin
    <2> QED
      BY <1>2, <2>1, RefusalsAre
  <1>4. CASE ViewComponents(c, r) \/ ViewMonitor(c, r)
    <2>1. Put(c, [pc |-> "answered", op |-> r.op, count |-> 0, answer |-> Answer(200, r.op)])
          /\ r.op \notin Shifts \cup {"drain_worker"}
      BY <1>4 DEF ViewComponents, ViewMonitor, Begin, Shifts
    <2> QED
      BY <1>2, <2>1
  <1>5. CASE ViewWorker(c, r)
    <2>1. Put(c, [pc |-> "list", op |-> r.op, count |-> Cardinality(counted),
                  answer |-> NoAnswer]) /\ r.op = "worker"
      BY <1>5 DEF ViewWorker, Begin
    <2> QED
      BY <1>2, <2>1
  <1>6. CASE CancelTask(c, r)
    <2>1. PICK answer :
              Put(c, [pc |-> "answered", op |-> r.op, count |-> 0, answer |-> answer])
      BY <1>6 DEF CancelTask, Begin
    <2>2. r.op \notin Shifts \cup {"drain_worker"}
      BY <1>6 DEF CancelTask, Shifts
    <2> QED
      BY <1>2, <2>1, <2>2
  <1>7. CASE AskScheduler(c, r)
    <2>1. PICK count :
              Put(c, [pc |-> "scheduler", op |-> r.op, answer |-> NoAnswer, count |-> count])
      BY <1>7 DEF AskScheduler
    <2>2. Put(c, [pc |-> "scheduler", op |-> r.op, count |-> count, answer |-> NoAnswer])
      BY <2>1
    <2>3. r.op \in ScheduleOps \cup {"scheduler"}
      BY <1>7 DEF AskScheduler
    <2> QED
      BY <1>2, <2>2, <2>3
  <1> QED
    BY <1>3, <1>4, <1>5, <1>6, <1>7

\* The gate moves to h, and one handler, if any, moves with it.
LEMMA GateStep ==
    ASSUME ControlInv, NEW h \in Gates, gate' = h, gate = "Draining" => h = "Draining",
           NEW moving \in SUBSET Clients,
           DOMAIN request' = Clients, seen' \in [Clients -> SUBSET Gates],
           \A d \in Clients \ moving :
               request'[d] = request[d]
               /\ seen'[d] = IF request[d].pc = "reread" THEN seen[d] \cup {h} ELSE seen[d],
           \A c \in moving : /\ IsHandler(request'[c])
                             /\ Waiting(request'[c], h, seen'[c]) /\ Honest(request'[c], h, seen'[c])
    PROVE  ControlInv'
  <1>1. \A d \in Clients : IsHandler(request'[d])
    BY DEF ControlInv
  <1>2. \A d \in Clients : Waiting(request'[d], h, seen'[d]) /\ Honest(request'[d], h, seen'[d])
    <2> SUFFICES ASSUME NEW d \in Clients \ moving
                 PROVE  Waiting(request'[d], h, seen'[d]) /\ Honest(request'[d], h, seen'[d])
      OBVIOUS
    <2>1. Waiting(request[d], gate, seen[d]) /\ Honest(request[d], gate, seen[d])
      BY DEF ControlInv
    <2>2. PICK k, w, v : k = request[d] /\ w = seen[d] /\ v = seen'[d]
      OBVIOUS
    <2>3. Waiting(k, h, v) /\ Honest(k, h, v)
      BY <2>1, <2>2, GateWitnessed
    <2> QED
      BY <2>2, <2>3
  <1> QED
    BY <1>1, <1>2 DEF ControlInv, IsHandler

\* pause_admission and resume_admission: a call that moves the gate has witnessed
\* both sides of the move, and one that does not has found no gate to move from.
LEMMA ShiftGateStep ==
    ASSUME ControlInv, NEW c \in Clients, NEW r, ShiftGate(c, r)
    PROVE  ControlInv'
  <1>1. PICK g, h : g = gate /\ h = gate'
    OBVIOUS
  <1>2. /\ r.op \in Shifts
        /\ h = IF g = Source(r.op) THEN Target(r.op) ELSE g
        /\ seen' = [d \in Clients |-> IF d = c THEN {g, h}
                                      ELSE IF request[d].pc = "reread" THEN seen[d] \cup {h}
                                      ELSE seen[d]]
    BY <1>1 DEF ShiftGate, Shifts, At
  <1>3. g \in Gates /\ h \in Gates /\ (g = "Draining" => h = "Draining")
    BY <1>1, <1>2 DEF ControlInv, Gates, Source, Target
  <1>4. PICK pc, answer :
            /\ Put(c, [pc |-> pc, op |-> r.op, count |-> 0, answer |-> answer])
            /\ \/ pc = "answered" /\ g = Source(r.op) /\ answer = MutationAnswer("Applied")
               \/ pc = "reread" /\ g # Source(r.op) /\ answer = NoAnswer
    BY <1>1 DEF ShiftGate, Begin
  <1>5. PICK k : k = [pc |-> pc, op |-> r.op, count |-> 0, answer |-> answer]
    OBVIOUS
  <1>6. IsHandler(k) /\ k.pc = pc /\ k.op = r.op /\ k.answer = answer
    BY <1>5 DEF IsHandler
  <1>7. /\ DOMAIN request' = Clients /\ request'[c] = k
        /\ \A d \in Clients \ {c} : request'[d] = request[d]
    BY <1>4, <1>5 DEF Put, ControlInv
  <1>8. seen' \in [Clients -> SUBSET Gates] /\ seen'[c] = {g, h}
    BY <1>2, <1>3 DEF ControlInv
  <1>9. Waiting(k, h, {g, h})
    BY <1>2, <1>4, <1>6 DEF Waiting
  <1>10. Honest(k, h, {g, h})
    <2>1. pc = "answered" => answer.body = "applied" /\ {Source(r.op), Target(r.op)} = {g, h}
      BY <1>2, <1>4 DEF MutationAnswer, MutationWord, Answer
    <2>2. r.op # "drain_worker"
      BY <1>2 DEF Shifts
    <2> QED
      BY <1>6, <2>1, <2>2 DEF Honest
  <1> QED
    <2>1. \A d \in Clients \ {c} :
              request'[d] = request[d]
              /\ seen'[d] = IF request[d].pc = "reread" THEN seen[d] \cup {h} ELSE seen[d]
      BY <1>2, <1>7
    <2>2. \A d \in {c} : /\ IsHandler(request'[d])
                         /\ Waiting(request'[d], h, seen'[d]) /\ Honest(request'[d], h, seen'[d])
      BY <1>6, <1>7, <1>8, <1>9, <1>10
    <2>3. {c} \in SUBSET Clients
      OBVIOUS
    <2> QED
      BY <1>1, <1>3, <1>7, <1>8, <2>1, <2>2, <2>3, GateStep

\* begin_draining through the plane: whatever it found, the worker drains.
LEMMA DrainStep ==
    ASSUME ControlInv, NEW c \in Clients, NEW r, DrainWorker(c, r)
    PROVE  ControlInv'
  <1>1. /\ At(c, "free") /\ r.op = "drain_worker" /\ gate' = "Draining"
        /\ seen' = [d \in Clients |-> IF request[d].pc = "reread" THEN seen[d] \cup {"Draining"}
                                      ELSE seen[d]]
    BY DEF DrainWorker, Witness, At
  <1>2. PICK answer : Put(c, [pc |-> "answered", op |-> r.op, count |-> 0, answer |-> answer])
    BY DEF DrainWorker, Begin
  <1>3. PICK k : k = [pc |-> "answered", op |-> r.op, count |-> 0, answer |-> answer]
    OBVIOUS
  <1>4. IsHandler(k) /\ k.pc = "answered" /\ k.op = "drain_worker"
    BY <1>1, <1>3 DEF IsHandler
  <1>5. /\ DOMAIN request' = Clients /\ request'[c] = k
        /\ \A d \in Clients \ {c} : request'[d] = request[d]
    BY <1>2, <1>3 DEF Put, ControlInv
  <1>6. "Draining" \in Gates /\ seen' \in [Clients -> SUBSET Gates]
    BY <1>1 DEF ControlInv, Gates
  <1>7. Waiting(k, "Draining", seen'[c]) /\ Honest(k, "Draining", seen'[c])
    BY <1>4 DEF Waiting, Honest, Shifts
  <1> QED
    <2>1. \A d \in Clients \ {c} :
              request'[d] = request[d]
              /\ seen'[d] = IF request[d].pc = "reread" THEN seen[d] \cup {"Draining"} ELSE seen[d]
      BY <1>1, <1>5
    <2>2. \A d \in {c} : /\ IsHandler(request'[d])
                         /\ Waiting(request'[d], "Draining", seen'[d])
                         /\ Honest(request'[d], "Draining", seen'[d])
      BY <1>4, <1>5, <1>7
    <2>3. {c} \in SUBSET Clients
      OBVIOUS
    <2> QED
      BY <1>1, <1>5, <1>6, <2>1, <2>2, <2>3, GateStep

\* Another holder of the admission handle moves the gate.
LEMMA GateMovesStep ==
    ASSUME ControlInv, GateMoves
    PROVE  ControlInv'
  <1>1. PICK h : h = gate'
    OBVIOUS
  <1>2. h \in Gates /\ (gate = "Draining" => h = "Draining")
    BY <1>1 DEF GateMoves, Pause, Resume, BeginDraining, Gates
  <1>3. /\ seen' = [d \in Clients |-> IF request[d].pc = "reread" THEN seen[d] \cup {h} ELSE seen[d]]
        /\ request' = request
    BY <1>1 DEF GateMoves, Witness, At
  <1>4. DOMAIN request' = Clients /\ seen' \in [Clients -> SUBSET Gates]
    BY <1>2, <1>3 DEF ControlInv
  <1>5. \A d \in Clients \ {} :
            request'[d] = request[d]
            /\ seen'[d] = IF request[d].pc = "reread" THEN seen[d] \cup {h} ELSE seen[d]
    BY <1>3
  <1>6. {} \in SUBSET Clients
    OBVIOUS
  <1> QED
    BY <1>1, <1>2, <1>4, <1>5, <1>6, GateStep

\* A handler goes on by itself; the second look at the gate tells what was witnessed.
LEMMA HandlerGoesOn ==
    ASSUME ControlInv, NEW c \in Clients, HandlerStep(c)
    PROVE  ControlInv'
  <1>1. UNCHANGED <<gate, seen>>
    BY DEF HandlerStep, ViewTasks, RereadGate, ReadSchedules, ShiftSchedule, AdmitTrigger,
           FinishTrigger, poolVars
  <1>2. PICK k : k = request[c]
    OBVIOUS
  <1>3. /\ IsHandler(k) /\ Waiting(k, gate, seen[c])
        /\ gate \in Gates /\ seen[c] \in SUBSET Gates
    BY <1>2 DEF ControlInv
  <1>4. ASSUME NEW answer, Put(c, [k EXCEPT !.pc = "answered", !.answer = answer]),
               k.op \notin Shifts \cup {"drain_worker"}
        PROVE  ControlInv'
    <2>1. PICK l : l = [k EXCEPT !.pc = "answered", !.answer = answer]
      OBVIOUS
    <2>2. IsHandler(l) /\ l.pc = "answered" /\ l.op = k.op
      BY <1>3, <2>1 DEF IsHandler
    <2>3. Waiting(l, gate, seen[c]) /\ Honest(l, gate, seen[c])
      BY <1>4, <2>2 DEF Waiting, Honest
    <2> QED
      BY <1>1, <1>4, <2>1, <2>2, <2>3, HandlerMoves
  <1>5. CASE ViewTasks(c)
    <2>1. Put(c, [k EXCEPT !.pc = "answered", !.answer = Answer(200, "worker")])
      BY <1>2, <1>5 DEF ViewTasks, Answered
    <2>2. k.op \notin Shifts \cup {"drain_worker"}
      BY <1>2, <1>3, <1>5 DEF ViewTasks, At, Waiting, Shifts
    <2> QED
      BY <1>4, <2>1, <2>2
  <1>6. CASE RereadGate(c)
    <2>1. PICK answer : answer = MutationAnswer(IF gate = Target(k.op) THEN "AlreadyInState"
                                                ELSE "Rejected")
      OBVIOUS
    <2>2. PICK l : l = [k EXCEPT !.pc = "answered", !.answer = answer]
      OBVIOUS
    <2>3. Put(c, l)
      BY <1>2, <1>6, <2>1, <2>2 DEF RereadGate, Answered
    <2>4. IsHandler(l) /\ l.pc = "answered" /\ l.op = k.op /\ l.answer = answer
      BY <1>3, <2>2 DEF IsHandler
    <2>5. PICK h \in seen[c] : h # Source(k.op)
      BY <1>2, <1>3, <1>6 DEF RereadGate, At, Waiting
    <2>6. k.op \in Shifts /\ gate \in seen[c]
      BY <1>2, <1>3, <1>6 DEF RereadGate, At, Waiting
    <2>7. CASE gate = Target(k.op)
      <3>1. answer.body = "already_in_state"
        BY <2>1, <2>7 DEF MutationAnswer, MutationWord, Answer
      <3>2. Honest(l, gate, seen[c])
        BY <2>4, <2>6, <2>7, <3>1 DEF Honest, Shifts
      <3> QED
        BY <1>1, <2>3, <2>4, <3>2, HandlerMoves DEF Waiting
    <2>8. CASE gate # Target(k.op)
      <3>1. answer.body = "rejected"
        BY <2>1, <2>8 DEF MutationAnswer, MutationWord, Answer
      <3>2. "Draining" \in seen[c] \/ h # gate
        BY <1>3, <2>5, <2>6, <2>8 DEF Shifts, Gates, Source, Target
      <3>3. "Draining" \in seen[c] \/ Cardinality(seen[c]) > 1
        BY <1>3, <2>5, <2>6, <3>2, TwoGates
      <3>4. Honest(l, gate, seen[c])
        BY <2>4, <2>6, <3>1, <3>3 DEF Honest, Shifts
      <3> QED
        BY <1>1, <2>3, <2>4, <3>4, HandlerMoves DEF Waiting
    <2> QED
      BY <2>7, <2>8
  <1>7. CASE ReadSchedules(c) \/ ShiftSchedule(c) \/ AdmitTrigger(c)
             \/ \E outcome \in {"Confirmed", "NotStarted", "OutcomeUnknown", "TimedOut"} :
                    FinishTrigger(c, outcome)
    <2>1. k.op \in ScheduleOps \cup {"scheduler"}
      BY <1>2, <1>3, <1>7 DEF ReadSchedules, ShiftSchedule, AdmitTrigger, FinishTrigger, At, Waiting
    <2>2. k.op \notin Shifts \cup {"drain_worker"}
      BY <2>1 DEF ScheduleOps, Shifts
    <2>3. CASE \E answer : Put(c, [k EXCEPT !.pc = "answered", !.answer = answer])
      BY <1>4, <2>2, <2>3
    <2>4. CASE Put(c, [k EXCEPT !.pc = "dispatching"])
      <3>1. PICK l : l = [k EXCEPT !.pc = "dispatching"]
        OBVIOUS
      <3>2. IsHandler(l) /\ l.pc = "dispatching" /\ l.op = k.op
        BY <1>3, <3>1 DEF IsHandler
      <3>3. Waiting(l, gate, seen[c]) /\ Honest(l, gate, seen[c])
        BY <2>1, <3>2 DEF Waiting, Honest
      <3> QED
        BY <1>1, <2>4, <3>1, <3>2, <3>3, HandlerMoves
    <2>5. CASE ReadSchedules(c)
      BY <1>2, <2>3, <2>5 DEF ReadSchedules, Answered
    <2>6. CASE ShiftSchedule(c)
      BY <1>2, <2>3, <2>6 DEF ShiftSchedule, Answered
    <2>7. CASE AdmitTrigger(c)
      BY <1>2, <2>3, <2>4, <2>7 DEF AdmitTrigger, Answered
    <2>8. CASE \E outcome \in {"Confirmed", "NotStarted", "OutcomeUnknown", "TimedOut"} :
                   FinishTrigger(c, outcome)
      BY <1>2, <2>3, <2>8 DEF FinishTrigger, Answered
    <2> QED
      BY <1>7, <2>5, <2>6, <2>7, <2>8
  <1> QED
    BY <1>5, <1>6, <1>7 DEF HandlerStep

\* A client that has gone, or has its answer, is free again.
LEMMA ClientFreed ==
    ASSUME ControlInv, NEW c \in Clients, Disconnect(c) \/ Collect(c)
    PROVE  ControlInv'
  <1>1. Put(c, Free) /\ UNCHANGED gate
    BY DEF Disconnect, Collect, poolVars
  <1>2. /\ DOMAIN request' = Clients
        /\ request'[c] = Free /\ \A d \in Clients \ {c} : request'[d] = request[d]
    BY <1>1 DEF Put, ControlInv
  <1>3. /\ seen' \in [Clients -> SUBSET Gates]
        /\ \A d \in Clients \ {c} : seen'[d] = seen[d]
    BY DEF Disconnect, Collect, ControlInv
  <1>4. /\ IsHandler(Free)
        /\ Waiting(Free, gate, seen'[c]) /\ Honest(Free, gate, seen'[c])
    BY DEF Free, IsHandler, Waiting, Honest
  <1>5. \A d \in Clients : IsHandler(request'[d])
    BY <1>2, <1>4 DEF ControlInv
  <1>6. \A d \in Clients : Waiting(request'[d], gate, seen'[d]) /\ Honest(request'[d], gate, seen'[d])
    BY <1>2, <1>3, <1>4 DEF ControlInv
  <1> QED
    BY <1>1, <1>2, <1>3, <1>5, <1>6 DEF ControlInv, IsHandler

----------------------------------------------------------------------------
(* The worker in operation.                                                 *)

IInv == ObservationInv /\ ControlInv

\* Nothing is numbered, and nobody has asked for anything.
LEMMA OperationsInvInit == Init => IInv
  <1> SUFFICES ASSUME NEW present \in Casts,
                      PoolInit, ControlInit(present), ObservationInit(present)
               PROVE  IInv
    BY DEF Init
  <1>1. \A t \in Threads : thread[t].pc \in {"idle", "absent"} /\ IsThread(thread[t])
    BY DEF ObservationInit, Idle, IsThread
  <1>2. Numbered = {}
    BY <1>1 DEF ObservationInit, Numbered
  <1>3. reporter \in [status : Statuses, sequence : Nat] /\ DOMAIN thread = Threads
    BY DEF ObservationInit, Statuses
  <1>4. ObservationInv
    BY <1>1, <1>2, <1>3 DEF ObservationInv, Ordered
  <1>5. \A c \in Clients : request[c].pc \in {"free", "absent"} /\ IsHandler(request[c])
    BY DEF ControlInit, Free, IsHandler
  <1>6. \A c \in Clients : Waiting(request[c], gate, seen[c]) /\ Honest(request[c], gate, seen[c])
    BY <1>5 DEF Waiting, Honest
  <1>7. gate \in Gates /\ DOMAIN request = Clients /\ seen \in [Clients -> SUBSET Gates]
    BY DEF PoolInit, ControlInit, Gates
  <1>8. ControlInv
    BY <1>5, <1>6, <1>7 DEF ControlInv
  <1> QED
    BY <1>4, <1>8 DEF IInv

\* One step per disjunct of Next.
LEMMA OperationsInvNext == IInv /\ [Next]_vars => IInv'
  <1> SUFFICES ASSUME ObservationInv, ControlInv, [Next]_vars
               PROVE  ObservationInv' /\ ControlInv'
    BY DEF IInv
  <1>1. ASSUME UNCHANGED observationVars PROVE ObservationInv'
    BY <1>1, ObservationKept DEF observationVars
  <1>2. ASSUME UNCHANGED <<gate, request, seen>> PROVE ControlInv'
    BY <1>2, ControlKept
  <1>3. CASE \E entry \in Registrations : Register(entry[1], entry[2]) /\ UNCHANGED observationVars
    BY <1>1, <1>2, <1>3 DEF Register, poolVars
  <1>4. CASE \E mode \in {"read_only", "mutable"} : Build(mode) /\ UNCHANGED observationVars
    BY <1>1, <1>2, <1>4 DEF Build, poolVars
  <1>5. CASE \E c \in Clients : \E r \in Requests[c] : Arrive(c, r) /\ UNCHANGED observationVars
    BY <1>1, <1>5, ArriveStep, ShiftGateStep, DrainStep DEF Arrive
  <1>6. CASE \E c \in Clients : HandlerStep(c) /\ UNCHANGED observationVars
    BY <1>1, <1>6, HandlerGoesOn
  <1>7. CASE \E c \in Clients : Disconnect(c) /\ UNCHANGED observationVars
    BY <1>1, <1>7, ClientFreed
  <1>8. CASE \E c \in Clients : Collect(c) /\ UNCHANGED observationVars
    BY <1>1, <1>8, ClientFreed
  <1>9. CASE \E j \in Tasks : WorkerMoves(j) /\ UNCHANGED observationVars
    BY <1>1, <1>2, <1>9 DEF WorkerMoves, TaskStep, Start, List, Delist, Finish
  <1>10. CASE GateMoves /\ UNCHANGED observationVars
    BY <1>1, <1>10, GateMovesStep
  <1>11. CASE CancelMessage /\ UNCHANGED observationVars
    BY <1>1, <1>2, <1>11 DEF CancelMessage, poolVars
  <1>12. CASE ScheduleMoves /\ UNCHANGED observationVars
    BY <1>1, <1>2, <1>12 DEF ScheduleMoves, poolVars
  <1>13. CASE CompleteDrain /\ UNCHANGED <<controlVars, observationVars>>
    BY <1>1, <1>2, <1>13 DEF CompleteDrain, controlVars
  <1>14. CASE \E t \in Threads, s \in {"None", "Ready", "Draining", "Stopped"} :
                  Record(t, s) /\ UNCHANGED controlVars
    <2>1. UNCHANGED <<gate, request, seen>>
      BY <1>14 DEF Record, poolVars, controlVars
    <2> QED
      BY <1>2, <1>14, <2>1, RecordStep DEF Statuses
  <1>15. CASE \E t \in Threads : ObserveTask(t) /\ UNCHANGED controlVars
    BY <1>2, <1>15, OtherThreadSteps DEF ObserveTask, poolVars, controlVars
  <1>16. CASE \E t \in Threads : ObserverStep(t) /\ UNCHANGED controlVars
    <2>1. UNCHANGED <<gate, request, seen>>
      BY <1>16 DEF ObserverStep, Sample, Dispatch, poolVars, controlVars
    <2> QED
      BY <1>2, <1>16, <2>1, SampleStep, OtherThreadSteps DEF ObserverStep
  <1>17. CASE Recv /\ UNCHANGED controlVars
    BY <1>2, <1>17, ObservationKept DEF Recv, poolVars, controlVars
  <1>18. CASE \E keep \in BOOLEAN : Close(keep) /\ UNCHANGED controlVars
    BY <1>2, <1>18, ObservationKept DEF Close, poolVars, controlVars
  <1>19. CASE \E f \in Refreshers : (RefreshStep(f) \/ RemoveHealth(f)) /\ UNCHANGED controlVars
    <2>1. OnlyRefresh
      BY <1>19 DEF RefreshStep, ReadSlots, ReadClosed, SetHealth, SetReadiness, RemoveHealth,
                   RemoveReadiness
    <2> QED
      BY <1>2, <1>19, <2>1, ObservationKept DEF OnlyRefresh, poolVars, controlVars
  <1>20. CASE UNCHANGED vars
    BY <1>1, <1>2, <1>20 DEF vars, poolVars, controlVars
  <1> QED
    BY <1>3, <1>4, <1>5, <1>6, <1>7, <1>8, <1>9, <1>10, <1>11, <1>12, <1>13, <1>14, <1>15,
       <1>16, <1>17, <1>18, <1>19, <1>20 DEF Next

\* The invariants of both parts hold in every state, whatever the other part does.
THEOREM OperationsInvariant == Spec => []IInv
  BY OperationsInvInit, OperationsInvNext, PTL DEF Spec

\* Heartbeats are put in order again by their numbers: the number and the status are
\* taken under one lock (record), and a heartbeat built late carries both along.
THEOREM OperationsHeartbeats == Spec => []HeartbeatsOrdered
  <1>1. IInv => HeartbeatsOrdered
    BY DEF IInv, ObservationInv, Ordered, Numbered, HeartbeatsOrdered
  <1> QED
    BY <1>1, OperationsInvariant, PTL

\* Every answer of a mutating route is one that held while the client was served,
\* though the gate is read a second time without a lock (mutation_response).
THEOREM OperationsAnswers == Spec => []AnswersTrue
  <1>1. IInv => AnswersTrue
    BY DEF IInv, ControlInv, Honest, Shifts, AnswersTrue, At
  <1> QED
    BY <1>1, OperationsInvariant, PTL
=============================================================================

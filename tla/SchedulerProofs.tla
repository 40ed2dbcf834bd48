-------------------------- MODULE SchedulerProofs --------------------------
(***************************************************************************)
(* The exclusivity argument of the scheduler, for every number of          *)
(* schedules, ticks and instants: an attempt owns its schedule from the    *)
(* critical section that issues it to the one that settles or drops it.    *)
(***************************************************************************)
EXTENDS Scheduler, FiniteSetTheorems, WellFoundedInduction, TLAPS

\* A tick that looks at a schedule has one to look at.
Walks == \A t \in Ticks : tick[t].pc \in {"decide", "dispatch", "post", "budget"} =>
                              tick[t].todo # <<>>

\* What ties a driven attempt to the registry and to its guard.
Owns(t) ==
    /\ Driven(t) \in Registered
    /\ entry[Driven(t)].status = "ReconciliationRequired"
    /\ entry[Driven(t)].next = tick[t].due
    /\ entry[Driven(t)].token = tick[t].token
    /\ tick[t].token \in active
    /\ [id |-> Driven(t), token |-> tick[t].token] \in running
    /\ ledger[Driven(t)].open = tick[t].due
    /\ tick[t].misfired /\ entry[Driven(t)].policy = "FireOnce" =>
           entry[Driven(t)].skip = tick[t].now

Attempts ==
    /\ \A t \in Ticks : tick[t].pc = "dispatch" => Owns(t)
    /\ \A token \in active : \E t \in Ticks : tick[t].pc = "dispatch" /\ tick[t].token = token
    /\ \A t, u \in Ticks : /\ tick[t].pc = "dispatch"
                           /\ tick[u].pc = "dispatch"
                           /\ tick[t].token = tick[u].token
                           => t = u
    /\ \A r, s \in running : r.token = s.token => r.id = s.id

Bounds ==
    /\ Len(order) <= MaxSchedules
    /\ IsFiniteSet(running)
    /\ Cardinality(running) <= MaxSchedules

\* The inductive invariant.
IInv ==
    /\ TypeOK
    /\ Walks
    /\ Attempts
    /\ Bounds
    /\ UnresolvedStaysPinned
    /\ SnapshotsRestorable

----------------------------------------------------------------------------
(* The helpers a tick and an owner operation are built from keep their      *)
(* types.                                                                   *)

\* The cursor a plan yields, filtered to be later, is a cursor.
LEMMA NextDueType == ASSUME NEW id \in Ids, NEW due \in Cursor
                     PROVE  NextDue(id, due) \in Cursor
  BY PlanAssumption DEF NextDue, Cursor, Time, None

\* Moving the cursor yields an entry that restore_from accepts and that is not
\* in doubt; nothing else of the entry but its boundary changes.
LEMMA WithCursorType ==
    ASSUME NEW e \in Entry, NEW next \in Cursor
    PROVE  /\ WithCursor(e, next) \in Entry
           /\ WithCursor(e, next).next = next
           /\ WithCursor(e, next).token = e.token
           /\ WithCursor(e, next).policy = e.policy
           /\ WithCursor(e, next).status \in {"Active", "Completed"}
           /\ Restorable(WithCursor(e, next))
  BY DEF WithCursor, Entry, Statuses, Restorable, Cursor, Time, None

\* The same for one step of the plan.
LEMMA AdvanceOnceType ==
    ASSUME NEW id \in Ids, NEW e \in Entry
    PROVE  /\ AdvanceOnce(id, e) \in Entry
           /\ AdvanceOnce(id, e).token = e.token
           /\ AdvanceOnce(id, e).policy = e.policy
           /\ AdvanceOnce(id, e).status \in {"Active", "Completed"}
           /\ Restorable(AdvanceOnce(id, e))
  <1>1. e.next \in Cursor
    BY DEF Entry
  <1> QED
    BY <1>1, NextDueType, WithCursorType DEF AdvanceOnce

\* The loop head leaves a tick that is finished or has a schedule to look at.
LEMMA TakeNextType ==
    ASSUME NEW t \in Ticks, NEW k \in Tick
    PROVE  /\ TakeNext(t, k) \in Tick
           /\ TakeNext(t, k).pc \in {"done", "decide"}
           /\ TakeNext(t, k).pc = "decide" => TakeNext(t, k).todo # <<>>
  <1>1. CASE k.todo = <<>> \/ Stopping(t)
    <2>1. TakeNext(t, k) = [pc |-> "done", now |-> k.now, todo |-> <<>>, remaining |-> 0,
                            attempted |-> 0, examined |-> FALSE, due |-> None,
                            misfired |-> FALSE, token |-> None, saturated |-> k.saturated]
      BY <1>1 DEF TakeNext, Idle
    <2>2. k.now \in Time /\ k.saturated \in BOOLEAN
      BY DEF Tick
    <2>3. <<>> \in Seq(Ids) /\ 0 \in Nat
      OBVIOUS
    <2>4. TakeNext(t, k) \in Tick
      BY <2>1, <2>2, <2>3 DEF Tick, Cursor
    <2> QED
      BY <2>1, <2>4
  <1>2. CASE ~(k.todo = <<>> \/ Stopping(t))
    BY <1>2 DEF TakeNext, Tick
  <1> QED
    BY <1>1, <1>2

\* So does the return of process_entry.
LEMMA LeaveEntryType ==
    ASSUME NEW t \in Ticks, NEW k \in Tick, k.todo # <<>>
    PROVE  /\ LeaveEntry(t, k) \in Tick
           /\ LeaveEntry(t, k).pc \in {"done", "decide", "budget"}
           /\ LeaveEntry(t, k).pc # "done" => LeaveEntry(t, k).todo # <<>>
  <1>1. [k EXCEPT !.todo = Tail(@)] \in Tick
    BY DEF Tick
  <1> QED
    BY <1>1, TakeNextType DEF LeaveEntry, Tick

\* Leaving the dispatch await.
LEMMA SettledType ==
    ASSUME NEW k \in Tick, NEW pc \in {"decide", "post"}
    PROVE  /\ Settled(k, pc) \in Tick
           /\ Settled(k, pc).pc = pc
           /\ Settled(k, pc).todo = k.todo
           /\ Settled(k, pc).attempted = k.attempted
  BY DEF Settled, Tick, Cursor, None

----------------------------------------------------------------------------
(* What keeps attempts tied to their schedules when no attempt is issued.   *)

\* The attempts still driven keep their guard, record and schedule, and the
\* guards that go are those of the attempts that end.
LEMMA Frame ==
    ASSUME TypeOK, Attempts,
           active' \subseteq active,
           running' \subseteq running,
           \A r \in running : r.token \in active' => r \in running',
           \A t \in Ticks :
               IF tick'[t].pc = "dispatch"
               THEN /\ tick'[t] = tick[t]
                    /\ tick[t].token \in active'
                    /\ Driven(t) \in Registered'
                    /\ entry'[Driven(t)] = entry[Driven(t)]
                    /\ ledger'[Driven(t)] = ledger[Driven(t)]
               ELSE tick[t].pc = "dispatch" => tick[t].token \notin active'
    PROVE  Attempts'
  <1>1. ASSUME NEW t \in Ticks, tick'[t].pc = "dispatch"
        PROVE  Owns(t)'
    <2>1. Owns(t) /\ tick'[t] = tick[t]
      BY <1>1 DEF Attempts
    <2> QED
      BY <1>1, <2>1 DEF Owns, Driven
  <1>2. ASSUME NEW token \in active'
        PROVE  \E t \in Ticks : tick'[t].pc = "dispatch" /\ tick'[t].token = token
    <2>1. PICK t \in Ticks : tick[t].pc = "dispatch" /\ tick[t].token = token
      BY <1>2 DEF Attempts
    <2>2. tick'[t].pc = "dispatch" /\ tick'[t] = tick[t]
      BY <1>2, <2>1
    <2> QED
      BY <2>1, <2>2
  <1>3. ASSUME NEW t \in Ticks, NEW u \in Ticks, tick'[t].pc = "dispatch",
               tick'[u].pc = "dispatch", tick'[t].token = tick'[u].token
        PROVE  t = u
    <2>1. tick'[t] = tick[t] /\ tick'[u] = tick[u]
      BY <1>3
    <2> QED
      BY <1>3, <2>1 DEF Attempts
  <1>4. \A r, s \in running' : r.token = s.token => r.id = s.id
    BY DEF Attempts
  <1> QED
    BY <1>1, <1>2, <1>3, <1>4 DEF Attempts

\* Pruning keeps the records of the attempts that are still active.
LEMMA PruneFrame ==
    ASSUME active' = active, running' \in {running, Prune}
    PROVE  /\ active' \subseteq active
           /\ running' \subseteq running
           /\ \A r \in running : r.token \in active' => r \in running'
  BY DEF Prune

\* A tick moves outside a dispatch and touches no entry that is in doubt.
LEMMA QuietFrame ==
    ASSUME TypeOK, Attempts, NEW t \in Ticks, NEW k,
           tick[t].pc # "dispatch", k.pc # "dispatch",
           tick' = [tick EXCEPT ![t] = k],
           active' = active, running' \in {running, Prune},
           order' = order, ledger' = ledger,
           \A id \in Ids : entry[id].status = "ReconciliationRequired" => entry'[id] = entry[id]
    PROVE  Attempts'
  <1>1. ASSUME NEW u \in Ticks
        PROVE  IF tick'[u].pc = "dispatch"
               THEN /\ tick'[u] = tick[u]
                    /\ tick[u].token \in active'
                    /\ Driven(u) \in Registered'
                    /\ entry'[Driven(u)] = entry[Driven(u)]
                    /\ ledger'[Driven(u)] = ledger[Driven(u)]
               ELSE tick[u].pc = "dispatch" => tick[u].token \notin active'
    <2>1. tick'[u] = IF u = t THEN k ELSE tick[u]
      BY DEF TypeOK
    <2>2. tick[u].pc = "dispatch" => Owns(u)
      BY DEF Attempts
    <2>3. Registered \subseteq Ids
      BY DEF Registered, TypeOK
    <2>4. Registered' = Registered
      BY DEF Registered
    <2> QED
      BY <2>1, <2>2, <2>3, <2>4 DEF Owns
  <1> QED
    BY <1>1, PruneFrame, Frame

\* Two attempts are for two schedules.
LEMMA AttemptsApart ==
    ASSUME Attempts, NEW t \in Ticks, NEW u \in Ticks, t # u,
           tick[t].pc = "dispatch", tick[u].pc = "dispatch"
    PROVE  Driven(t) # Driven(u) /\ tick[t].token # tick[u].token
  <1>1. Owns(t) /\ Owns(u)
    BY DEF Attempts
  <1>2. tick[t].token # tick[u].token
    BY DEF Attempts
  <1> QED
    BY <1>1, <1>2 DEF Owns

\* An attempt ends and only its own schedule changes.
LEMMA ReleaseFrame ==
    ASSUME TypeOK, Attempts, NEW t \in Ticks, NEW k,
           tick[t].pc = "dispatch", k.pc # "dispatch",
           tick' = [tick EXCEPT ![t] = k],
           Release(t), running' = running, order' = order,
           \A id \in Ids \ {Driven(t)} : entry'[id] = entry[id] /\ ledger'[id] = ledger[id]
    PROVE  Attempts'
  <1>1. ASSUME NEW u \in Ticks
        PROVE  IF tick'[u].pc = "dispatch"
               THEN /\ tick'[u] = tick[u]
                    /\ tick[u].token \in active'
                    /\ Driven(u) \in Registered'
                    /\ entry'[Driven(u)] = entry[Driven(u)]
                    /\ ledger'[Driven(u)] = ledger[Driven(u)]
               ELSE tick[u].pc = "dispatch" => tick[u].token \notin active'
    <2>1. tick'[u] = IF u = t THEN k ELSE tick[u]
      BY DEF TypeOK
    <2>2. tick[u].pc = "dispatch" => Owns(u)
      BY DEF Attempts
    <2>3. Registered \subseteq Ids /\ Registered' = Registered
      BY DEF Registered, TypeOK
    <2>4. CASE u = t
      BY <2>1, <2>4 DEF Release
    <2>5. CASE u # t
      <3>1. tick[u].pc = "dispatch" => Driven(u) # Driven(t) /\ tick[u].token # tick[t].token
        BY <2>5, AttemptsApart
      <3> QED
        BY <2>1, <2>2, <2>3, <2>5, <3>1 DEF Owns, Release
    <2> QED
      BY <2>4, <2>5
  <1> QED
    BY <1>1, Frame DEF Release

\* The owner changes only schedules nobody is driving.
LEMMA OwnerFrame ==
    ASSUME TypeOK, Attempts, tick' = tick, active' = active, running' = Prune,
           \A id \in Ids : IsRunning(id) =>
               /\ id \in Registered => id \in Registered'
               /\ entry'[id] = entry[id]
               /\ ledger'[id] = ledger[id]
    PROVE  Attempts'
  <1>1. ASSUME NEW u \in Ticks, tick[u].pc = "dispatch"
        PROVE  /\ tick[u].token \in active'
               /\ Driven(u) \in Registered'
               /\ entry'[Driven(u)] = entry[Driven(u)]
               /\ ledger'[Driven(u)] = ledger[Driven(u)]
    <2>1. Owns(u)
      BY <1>1 DEF Attempts
    <2>2. IsRunning(Driven(u)) /\ Driven(u) \in Ids
      BY <2>1 DEF Owns, IsRunning, Registered, TypeOK
    <2> QED
      BY <2>1, <2>2 DEF Owns
  <1> QED
    BY <1>1, PruneFrame, Frame

\* A running set that only shrinks stays within its cap.
LEMMA BoundsShrink ==
    ASSUME Bounds, running' \subseteq running, Len(order') <= MaxSchedules
    PROVE  Bounds'
  <1>1. /\ IsFiniteSet(running')
        /\ Cardinality(running') <= Cardinality(running)
    BY FS_Subset DEF Bounds
  <1>2. Cardinality(running') \in Nat /\ Cardinality(running) \in Nat
    BY <1>1, FS_CardinalityType DEF Bounds
  <1> QED
    BY <1>1, <1>2, BoundsAssumption DEF Bounds

----------------------------------------------------------------------------
(* Each step preserves the invariant.                                       *)

\* A tick that moves outside a dispatch and may move the cursor of a schedule
\* that is not in doubt.
LEMMA QuietStep ==
    ASSUME IInv, NEW t \in Ticks, NEW k \in Tick,
           tick[t].pc # "dispatch", k.pc # "dispatch",
           k.pc \in {"decide", "post", "budget"} => k.todo # <<>>,
           tick' = [tick EXCEPT ![t] = k],
           running' \in {running, Prune}, entry' \in [Ids -> Entry],
           UNCHANGED <<order, active, shutdown, ledger, fired>>,
           \A id \in Ids :
               \/ entry'[id] = entry[id]
               \/ /\ entry[id].status # "ReconciliationRequired"
                  /\ Restorable(entry'[id])
    PROVE  IInv'
  <1>1. TypeOK'
    BY DEF IInv, TypeOK, Prune
  <1>2. Walks'
    BY DEF IInv, Walks, TypeOK
  <1>3. Attempts'
    BY QuietFrame DEF IInv
  <1>4. Bounds'
    BY BoundsShrink DEF IInv, Bounds, Prune
  <1>5. UnresolvedStaysPinned' /\ SnapshotsRestorable'
    <2>1. Registered' = Registered /\ Registered \subseteq Ids
      BY DEF Registered, IInv, TypeOK
    <2> QED
      BY <2>1 DEF IInv, UnresolvedStaysPinned, SnapshotsRestorable
  <1> QED
    BY <1>1, <1>2, <1>3, <1>4, <1>5 DEF IInv

\* A tick that is not in a dispatch and changes nothing but itself.
LEMMA LocalStep ==
    ASSUME IInv, NEW t \in Ticks, NEW k \in Tick,
           tick[t].pc # "dispatch", k.pc # "dispatch",
           k.pc \in {"decide", "post", "budget"} => k.todo # <<>>,
           tick' = [tick EXCEPT ![t] = k],
           running' \in {running, Prune},
           UNCHANGED <<order, entry, active, shutdown, ledger, fired>>
    PROVE  IInv'
  <1>1. entry' \in [Ids -> Entry] /\ \A id \in Ids : entry'[id] = entry[id]
    BY DEF IInv, TypeOK
  <1> QED
    BY <1>1, QuietStep

\* A tick slot that is not in use is well typed.
LEMMA IdleType == Idle \in Tick
  <1>1. <<>> \in Seq(Ids) /\ 0 \in Nat /\ 0 \in Time
    BY BoundsAssumption DEF Time
  <1> QED
    BY <1>1 DEF Idle, Tick, Cursor

\* tick_observing copies the identities and enters its loop.
LEMMA StartTickStep ==
    ASSUME IInv, NEW t \in Ticks, NEW now \in Time, StartTick(t, now)
    PROVE  IInv'
  <1> DEFINE k == [Idle EXCEPT !.now = now, !.todo = order, !.remaining = MaxDispatchesPerTick]
  <1>1. k \in Tick
    <2>1. order \in Seq(Ids) /\ MaxDispatchesPerTick \in Nat
      BY BoundsAssumption DEF IInv, TypeOK
    <2> QED
      BY <2>1, IdleType DEF Tick
  <1>2. TakeNext(t, k) \in Tick /\ TakeNext(t, k).pc \in {"done", "decide"}
        /\ (TakeNext(t, k).pc = "decide" => TakeNext(t, k).todo # <<>>)
    BY <1>1, TakeNextType
  <1> QED
    BY <1>2, LocalStep DEF StartTick

\* process_entry finds nothing to drive.
LEMMA PassEntryStep == ASSUME IInv, NEW t \in Ticks, PassEntry(t) PROVE IInv'
  <1>1. tick[t] \in Tick /\ tick[t].todo # <<>>
    BY DEF IInv, TypeOK, Walks, PassEntry
  <1>2. tick' = [tick EXCEPT ![t] = LeaveEntry(t, tick[t])]
    BY DEF PassEntry
  <1> QED
    BY <1>1, <1>2, LeaveEntryType, LocalStep DEF PassEntry

\* process_entry leaves its loop.
LEMMA StopEntryStep == ASSUME IInv, NEW t \in Ticks, StopEntry(t) PROVE IInv'
  <1> DEFINE k == [tick[t] EXCEPT !.pc = "post", !.examined = TRUE]
  <1>1. tick[t] \in Tick /\ tick[t].todo # <<>>
    BY DEF IInv, TypeOK, Walks, StopEntry, Examines
  <1>2. k \in Tick /\ k.pc = "post" /\ k.todo # <<>>
    BY <1>1 DEF Tick
  <1>3. tick' = [tick EXCEPT ![t] = k]
    BY DEF StopEntry, IInv, TypeOK
  <1> QED
    BY <1>2, <1>3, LocalStep DEF StopEntry, Examines

\* The bookkeeping after the loop of process_entry.
LEMMA LeaveLoopStep == ASSUME IInv, NEW t \in Ticks, LeaveLoop(t) PROVE IInv'
  <1> DEFINE k == [tick[t] EXCEPT !.saturated = @ \/ Bounded(t)]
  <1>1. tick[t] \in Tick /\ tick[t].todo # <<>>
    BY DEF IInv, TypeOK, Walks, LeaveLoop
  <1>2. (tick[t].saturated \/ Bounded(t)) \in BOOLEAN
    OBVIOUS
  <1>3. k \in Tick /\ k.todo # <<>>
    BY <1>1, <1>2 DEF Tick
  <1>4. tick' = [tick EXCEPT ![t] = LeaveEntry(t, k)]
    BY DEF LeaveLoop
  <1> QED
    BY <1>3, <1>4, LeaveEntryType, LocalStep DEF LeaveLoop

\* The end of a walk that used up max_dispatches_per_tick.
LEMMA ExhaustBudgetStep == ASSUME IInv, NEW t \in Ticks, ExhaustBudget(t) PROVE IInv'
  <1> DEFINE k == [Idle EXCEPT !.pc = "done", !.now = tick[t].now,
                               !.saturated = tick[t].saturated \/ HasDue(tick[t].now)]
  <1>1. tick[t].now \in Time
    BY DEF IInv, TypeOK, Tick
  <1>2. (tick[t].saturated \/ HasDue(tick[t].now)) \in BOOLEAN
    OBVIOUS
  <1>3. k \in Tick /\ k.pc = "done"
    BY <1>1, <1>2, IdleType DEF Tick
  <1> QED
    BY <1>3, LocalStep DEF ExhaustBudget

\* The report is handed over.
LEMMA FinishTickStep == ASSUME IInv, NEW t \in Ticks, FinishTick(t) PROVE IInv'
  <1>1. Idle.pc = "idle"
    BY DEF Idle
  <1> QED
    BY <1>1, IdleType, LocalStep DEF FinishTick

\* The schedule a tick looks at is registered, so its entry is one the
\* registry holds.
LEMMA DrivenType ==
    ASSUME IInv, NEW t \in Ticks, Driven(t) \in Registered
    PROVE  Driven(t) \in Ids /\ entry[Driven(t)] \in Entry /\ Restorable(entry[Driven(t)])
  BY DEF IInv, TypeOK, Registered, SnapshotsRestorable

\* decide passes over an occurrence.
LEMMA SkipOccurrenceStep == ASSUME IInv, NEW t \in Ticks, SkipOccurrence(t) PROVE IInv'
  <1> DEFINE k == [tick[t] EXCEPT !.attempted = @ + 1, !.examined = TRUE]
             id == Driven(t)
             e == IF Covered(entry[id]) THEN entry[id] ELSE [entry[id] EXCEPT !.skip = None]
  <1>1. tick[t] \in Tick /\ tick[t].todo # <<>> /\ tick[t].pc = "decide"
    BY DEF IInv, TypeOK, Walks, SkipOccurrence, Examines
  <1>2. k \in Tick /\ k.pc = "decide" /\ k.todo # <<>>
    <2>1. tick[t].attempted + 1 \in Nat
      BY <1>1 DEF Tick
    <2> QED
      BY <1>1, <2>1 DEF Tick
  <1>3. tick' = [tick EXCEPT ![t] = k]
    BY DEF SkipOccurrence, IInv, TypeOK
  <1>4. id \in Ids /\ entry[id] \in Entry
    BY DrivenType DEF SkipOccurrence, Examines
  <1>5. e \in Entry
    BY <1>4 DEF Entry, Cursor
  <1>6. AdvanceOnce(id, e) \in Entry /\ Restorable(AdvanceOnce(id, e))
    BY <1>4, <1>5, AdvanceOnceType
  <1>7. entry' = [entry EXCEPT ![id] = AdvanceOnce(id, e)]
    BY DEF SkipOccurrence
  <1>8. entry' \in [Ids -> Entry] /\ entry'[id] = AdvanceOnce(id, e)
        /\ \A other \in Ids : other # id => entry'[other] = entry[other]
    BY <1>4, <1>6, <1>7 DEF IInv, TypeOK
  <1>9. entry[id].status = "Active"
    BY DEF SkipOccurrence, MayAct
  <1>10. UNCHANGED <<order, active, shutdown, ledger, fired>> /\ running' = Prune
    BY DEF SkipOccurrence
  <1>11. \A other \in Ids :
             \/ entry'[other] = entry[other]
             \/ /\ entry[other].status # "ReconciliationRequired"
                /\ Restorable(entry'[other])
    BY <1>6, <1>8, <1>9
  <1> HIDE DEF k, id, e
  <1> QED
    BY <1>1, <1>2, <1>3, <1>8, <1>10, <1>11, QuietStep

\* decide declines to start an occurrence.
LEMMA RefuseDispatchStep == ASSUME IInv, NEW t \in Ticks, RefuseDispatch(t) PROVE IInv'
  <1> DEFINE id == Driven(t)
             saturated == [tick[t] EXCEPT !.saturated = TRUE]
             k == IF Stopping(t) THEN [tick[t] EXCEPT !.pc = "post", !.examined = TRUE]
                  ELSE LeaveEntry(t, saturated)
  <1>1. tick[t] \in Tick /\ tick[t].todo # <<>> /\ tick[t].pc = "decide"
    BY DEF IInv, TypeOK, Walks, RefuseDispatch, Examines
  <1>2. k \in Tick /\ k.pc # "dispatch" /\ (k.pc \in {"decide", "post", "budget"} => k.todo # <<>>)
    <2>1. saturated \in Tick /\ saturated.todo # <<>>
      BY <1>1 DEF Tick
    <2>2. CASE Stopping(t)
      BY <1>1, <2>2 DEF Tick
    <2>3. CASE ~Stopping(t)
      BY <2>1, <2>3, LeaveEntryType
    <2> QED
      BY <2>2, <2>3
  <1>3. tick' = [tick EXCEPT ![t] = k]
    BY DEF RefuseDispatch
  <1>4. id \in Ids /\ entry[id] \in Entry /\ Restorable(entry[id])
    BY DrivenType DEF RefuseDispatch, Examines
  <1>5. entry' \in [Ids -> Entry] /\ Restorable(entry'[id])
        /\ \A other \in Ids : other # id => entry'[other] = entry[other]
    BY <1>4 DEF IInv, TypeOK, RefuseDispatch, Entry, Restorable, Cursor
  <1>6. entry[id].status = "Active"
    BY DEF RefuseDispatch, MayAct
  <1> HIDE DEF k, id
  <1> QED
    BY <1>1, <1>2, <1>3, <1>5, <1>6, QuietStep DEF RefuseDispatch

\* An attempt ends, leaving its schedule resolved or still in doubt about the
\* occurrence at its cursor.
LEMMA ReleaseStep ==
    ASSUME IInv, NEW t \in Ticks, NEW k \in Tick,
           tick[t].pc = "dispatch", k.pc # "dispatch",
           k.pc \in {"decide", "post", "budget"} => k.todo # <<>>,
           tick' = [tick EXCEPT ![t] = k],
           Release(t), running' = running, order' = order, shutdown' = shutdown,
           entry' \in [Ids -> Entry],
           ledger' \in [Ids -> [open : Cursor, done : Cursor]],
           fired' \in [Ids -> Cursor],
           \A id \in Ids \ {Driven(t)} : entry'[id] = entry[id] /\ ledger'[id] = ledger[id],
           Restorable(entry'[Driven(t)]),
           ledger'[Driven(t)].open # None =>
               /\ entry'[Driven(t)].status = "ReconciliationRequired"
               /\ entry'[Driven(t)].next = ledger'[Driven(t)].open
    PROVE  IInv'
  <1>1. TypeOK'
    BY DEF IInv, TypeOK, Release
  <1>2. Walks'
    BY DEF IInv, Walks, TypeOK
  <1>3. Attempts'
    BY ReleaseFrame DEF IInv
  <1>4. Bounds'
    BY DEF IInv, Bounds
  <1>5. Registered' = Registered /\ Registered \subseteq Ids
    BY DEF Registered, IInv, TypeOK
  <1>7. Driven(t) \in Registered
    BY DEF IInv, Attempts, Owns
  <1>6. UnresolvedStaysPinned' /\ SnapshotsRestorable'
    BY <1>5, <1>7 DEF IInv, UnresolvedStaysPinned, SnapshotsRestorable
  <1> QED
    BY <1>1, <1>2, <1>3, <1>4, <1>6 DEF IInv

\* What an attempt knows about its schedule when it ends.
LEMMA DispatchFacts ==
    ASSUME IInv, NEW t \in Ticks, tick[t].pc = "dispatch"
    PROVE  /\ Settles(t)
           /\ tick[t] \in Tick /\ tick[t].todo # <<>>
           /\ Driven(t) \in Ids
           /\ entry[Driven(t)] \in Entry /\ Restorable(entry[Driven(t)])
           /\ entry[Driven(t)].status = "ReconciliationRequired"
           /\ entry[Driven(t)].next = tick[t].due
           /\ ledger[Driven(t)].open = tick[t].due
           /\ tick[t].due \in Cursor
  <1>1. Owns(t)
    BY DEF IInv, Attempts
  <1>2. tick[t] \in Tick /\ tick[t].todo # <<>> /\ tick[t].due \in Cursor
    BY DEF IInv, TypeOK, Walks, Tick
  <1> QED
    BY <1>1, <1>2, DrivenType DEF Owns, Settles

\* A confirmed outcome.
LEMMA SettleConfirmedStep == ASSUME IInv, NEW t \in Ticks, SettleConfirmed(t) PROVE IInv'
  <1> DEFINE id == Driven(t)
             e == [entry[id] EXCEPT !.token = None]
             advanced == AdvanceOnce(id, e)
             sweeping == tick[t].misfired /\ e.policy = "FireOnce"
             limit == IF sweeping THEN MaxCatchUp - tick[t].attempted ELSE 0
             swept == [advanced EXCEPT !.skip = IF sweeping THEN tick[t].now ELSE @]
  <1>1. tick[t].pc = "dispatch"
    BY DEF SettleConfirmed, Settles
  <1>2. /\ tick[t] \in Tick /\ tick[t].todo # <<>> /\ id \in Ids
        /\ entry[id] \in Entry /\ tick[t].due \in Cursor
    BY <1>1, DispatchFacts
  <1>3. e \in Entry
    BY <1>2 DEF Entry
  <1>4. advanced \in Entry
    BY <1>2, <1>3, AdvanceOnceType
  <1>5. swept \in Entry
    <2>1. tick[t].now \in Cursor
      BY <1>2 DEF Tick, Cursor
    <2> HIDE DEF advanced, sweeping
    <2> QED
      BY <1>4, <2>1 DEF Entry
  <1>6. PICK skipped \in 0..limit, to \in Cursor :
            /\ entry' = [entry EXCEPT ![id] = WithCursor(swept, to)]
            /\ tick' = [tick EXCEPT ![t] =
                           [Settled(tick[t], "decide") EXCEPT !.attempted = @ + skipped]]
    BY DEF SettleConfirmed
  <1> DEFINE k == [Settled(tick[t], "decide") EXCEPT !.attempted = @ + skipped]
  <1>7. k \in Tick /\ k.pc = "decide" /\ k.todo # <<>>
    <2>1. /\ Settled(tick[t], "decide") \in Tick
          /\ Settled(tick[t], "decide").pc = "decide"
          /\ Settled(tick[t], "decide").todo = tick[t].todo
          /\ Settled(tick[t], "decide").attempted = tick[t].attempted
      BY <1>2, SettledType
    <2>2. skipped \in Nat /\ tick[t].attempted \in Nat
      BY <1>2, <1>6 DEF Tick
    <2>3. tick[t].attempted + skipped \in Nat
      BY <2>2
    <2> QED
      BY <1>2, <2>1, <2>3 DEF Tick
  <1>8. WithCursor(swept, to) \in Entry /\ Restorable(WithCursor(swept, to))
    BY <1>5, <1>6, WithCursorType
  <1> HIDE DEF k, swept
  <1>9. /\ entry' \in [Ids -> Entry]
        /\ Restorable(entry'[id])
        /\ \A other \in Ids \ {id} : entry'[other] = entry[other]
    BY <1>2, <1>6, <1>8 DEF IInv, TypeOK
  <1>10. /\ ledger' = [ledger EXCEPT ![id] = [open |-> None, done |-> tick[t].due]]
         /\ Release(t) /\ UNCHANGED <<order, running, shutdown, fired>>
    BY DEF SettleConfirmed
  <1>11. /\ ledger' \in [Ids -> [open : Cursor, done : Cursor]]
         /\ ledger'[id].open = None
         /\ \A other \in Ids \ {id} : ledger'[other] = ledger[other]
         /\ fired' \in [Ids -> Cursor]
    BY <1>2, <1>10 DEF IInv, TypeOK, Cursor
  <1>12. tick' = [tick EXCEPT ![t] = k]
    BY <1>6 DEF k
  <1> HIDE DEF id
  <1> QED
    BY <1>1, <1>7, <1>9, <1>10, <1>11, <1>12, ReleaseStep DEF id

\* An outcome that reports no effect.
LEMMA SettleNotStartedStep == ASSUME IInv, NEW t \in Ticks, SettleNotStarted(t) PROVE IInv'
  <1> DEFINE id == Driven(t)
             k == Settled(tick[t], "post")
             e == [entry[id] EXCEPT !.token = None, !.status = "Active", !.skip = None]
  <1>1. tick[t].pc = "dispatch"
    BY DEF SettleNotStarted, Settles
  <1>2. /\ tick[t] \in Tick /\ tick[t].todo # <<>> /\ id \in Ids
        /\ entry[id] \in Entry /\ Restorable(entry[id])
        /\ entry[id].status = "ReconciliationRequired"
    BY <1>1, DispatchFacts
  <1>3. k \in Tick /\ k.pc = "post" /\ k.todo # <<>>
    BY <1>2, SettledType
  <1>4. e \in Entry /\ Restorable(e)
    BY <1>2 DEF Entry, Restorable, Statuses, Cursor
  <1>5. /\ tick' = [tick EXCEPT ![t] = k] /\ entry' = [entry EXCEPT ![id] = e]
        /\ ledger' = [ledger EXCEPT ![id].open = None] /\ fired' = [fired EXCEPT ![id] = None]
        /\ Release(t) /\ UNCHANGED <<order, running, shutdown>>
    BY DEF SettleNotStarted
  <1> HIDE DEF k, e
  <1>6. /\ entry' \in [Ids -> Entry] /\ Restorable(entry'[id])
        /\ \A other \in Ids \ {id} : entry'[other] = entry[other]
    BY <1>2, <1>4, <1>5 DEF IInv, TypeOK
  <1>7. /\ ledger' \in [Ids -> [open : Cursor, done : Cursor]]
        /\ ledger'[id].open = None
        /\ \A other \in Ids \ {id} : ledger'[other] = ledger[other]
        /\ fired' \in [Ids -> Cursor]
    BY <1>2, <1>5 DEF IInv, TypeOK, Cursor
  <1> QED
    BY <1>1, <1>3, <1>5, <1>6, <1>7, ReleaseStep

\* An attempt that ends without an answer only gives its token back.
LEMMA UnansweredStep ==
    ASSUME IInv, NEW t \in Ticks, NEW k \in Tick,
           tick[t].pc = "dispatch", k.pc # "dispatch",
           k.pc \in {"decide", "post", "budget"} => k.todo # <<>>,
           tick' = [tick EXCEPT ![t] = k],
           entry' \in {entry, [entry EXCEPT ![Driven(t)].token = None]},
           Release(t), UNCHANGED <<order, running, shutdown, ledger, fired>>
    PROVE  IInv'
  <1> DEFINE id == Driven(t)
  <1>1. /\ id \in Ids /\ entry[id] \in Entry /\ Restorable(entry[id])
        /\ entry[id].status = "ReconciliationRequired"
        /\ entry[id].next = ledger[id].open
    BY DispatchFacts
  <1>2. /\ entry' \in [Ids -> Entry]
        /\ entry'[id].status = entry[id].status
        /\ entry'[id].next = entry[id].next
        /\ entry'[id].skip = entry[id].skip
        /\ \A other \in Ids \ {id} : entry'[other] = entry[other]
    <2>1. [entry[id] EXCEPT !.token = None] \in Entry
      BY <1>1 DEF Entry
    <2>2. entry \in [Ids -> Entry]
      BY DEF IInv, TypeOK
    <2>3. CASE entry' = entry
      BY <2>2, <2>3
    <2>4. CASE entry' = [entry EXCEPT ![id] = [entry[id] EXCEPT !.token = None]]
      BY <1>1, <2>1, <2>2, <2>4 DEF Entry
    <2> QED
      BY <2>3, <2>4
  <1>3. Restorable(entry'[id])
    BY <1>1, <1>2 DEF Restorable
  <1>4. /\ ledger' \in [Ids -> [open : Cursor, done : Cursor]]
        /\ fired' \in [Ids -> Cursor]
        /\ \A other \in Ids \ {id} : ledger'[other] = ledger[other]
    BY DEF IInv, TypeOK
  <1> QED
    BY <1>1, <1>2, <1>3, <1>4, ReleaseStep

\* An unknown error or the dispatch timeout.
LEMMA SettleUnknownStep == ASSUME IInv, NEW t \in Ticks, SettleUnknown(t) PROVE IInv'
  <1> DEFINE k == Settled(tick[t], "post")
  <1>1. Settles(t) /\ tick[t] \in Tick /\ tick[t].todo # <<>>
    BY DispatchFacts DEF SettleUnknown
  <1>2. k \in Tick /\ k.pc = "post" /\ k.todo # <<>>
    BY <1>1, SettledType
  <1>3. tick' = [tick EXCEPT ![t] = k]
    BY <1>1 DEF SettleUnknown
  <1> HIDE DEF k
  <1> QED
    BY <1>1, <1>2, <1>3, UnansweredStep DEF SettleUnknown

\* The plan panics while a confirmed outcome is applied.
LEMMA PlanPanicsStep == ASSUME IInv, NEW t \in Ticks, PlanPanics(t) PROVE IInv'
  <1>1. Idle.pc = "idle"
    BY DEF Idle
  <1> QED
    BY <1>1, IdleType, UnansweredStep DEF PlanPanics, Settles

\* The caller drops the tick.
LEMMA AbandonTickStep == ASSUME IInv, NEW t \in Ticks, AbandonTick(t) PROVE IInv'
  <1>1. Idle.pc = "idle"
    BY DEF Idle
  <1>2. CASE tick[t].pc = "dispatch"
    BY <1>1, <1>2, IdleType, UnansweredStep DEF AbandonTick
  <1>3. CASE tick[t].pc # "dispatch"
    BY <1>1, <1>3, IdleType, LocalStep DEF AbandonTick, Release
  <1> QED
    BY <1>2, <1>3

\* Issuing an attempt: the token is new to everybody, so the attempt is tied to
\* its schedule and confused with no other.
LEMMA BeginDispatchStep == ASSUME IInv, NEW t \in Ticks, BeginDispatch(t) PROVE IInv'
  <1> DEFINE id == Driven(t)
             misfired == Overdue(tick[t].now, entry[id].next)
  <1>1. /\ tick[t] \in Tick /\ tick[t].todo # <<>> /\ tick[t].pc = "decide"
        /\ id \in Registered
    BY DEF IInv, TypeOK, Walks, BeginDispatch, Examines
  <1>2. id \in Ids /\ entry[id] \in Entry /\ Restorable(entry[id])
    BY <1>1, DrivenType
  <1>3. /\ entry[id].status = "Active" /\ tick[t].remaining > 0
        /\ entry[id].next # None
    BY DEF BeginDispatch, MayAct, IsDue
  <1>4. PICK token \in Tokens \ InUse :
            /\ entry' = [entry EXCEPT ![id] =
                            [entry[id] EXCEPT !.status = "ReconciliationRequired",
                                              !.skip = Boundary(entry[id], tick[t].now),
                                              !.token = token]]
            /\ running' = Prune \cup {[id |-> id, token |-> token]}
            /\ active' = active \cup {token}
            /\ tick' = [tick EXCEPT ![t] =
                           [tick[t] EXCEPT !.pc = "dispatch", !.examined = TRUE,
                                           !.attempted = @ + 1, !.remaining = @ - 1,
                                           !.due = entry[id].next, !.misfired = misfired,
                                           !.token = token]]
    BY DEF BeginDispatch
  <1>5. /\ ledger' = [ledger EXCEPT ![id].open = entry[id].next]
        /\ order' = order /\ shutdown' = shutdown
    BY DEF BeginDispatch
  <1> DEFINE e == [entry[id] EXCEPT !.status = "ReconciliationRequired",
                                    !.skip = Boundary(entry[id], tick[t].now),
                                    !.token = token]
             k == [tick[t] EXCEPT !.pc = "dispatch", !.examined = TRUE,
                                  !.attempted = @ + 1, !.remaining = @ - 1,
                                  !.due = entry[id].next, !.misfired = misfired,
                                  !.token = token]
  <1>6. /\ e \in Entry /\ Restorable(e) /\ e.status = "ReconciliationRequired"
        /\ e.next = entry[id].next /\ e.token = token
        /\ misfired /\ e.policy = "FireOnce" => e.skip = tick[t].now
    <2>1. Boundary(entry[id], tick[t].now) \in Cursor
      BY <1>1 DEF Boundary, Tick, Cursor
    <2>2. misfired /\ entry[id].policy = "FireOnce" =>
              Boundary(entry[id], tick[t].now) = tick[t].now
      BY DEF Boundary
    <2> HIDE DEF misfired
    <2> QED
      BY <1>2, <1>3, <1>4, <2>1, <2>2 DEF Entry, Statuses, Restorable
  <1>7. /\ k \in Tick /\ k.pc = "dispatch" /\ k.todo = tick[t].todo
        /\ k.due = entry[id].next /\ k.token = token
        /\ k.misfired = misfired /\ k.now = tick[t].now
    <2>1. tick[t].attempted + 1 \in Nat /\ tick[t].remaining - 1 \in Nat
      BY <1>1, <1>3 DEF Tick
    <2>2. misfired \in BOOLEAN
      BY DEF Overdue
    <2>3. entry[id].next \in Cursor
      BY <1>2 DEF Entry
    <2> HIDE DEF misfired
    <2> QED
      BY <1>1, <1>4, <2>1, <2>2, <2>3 DEF Tick
  <1>8. entry' = [entry EXCEPT ![id] = e] /\ tick' = [tick EXCEPT ![t] = k]
    BY <1>4
  <1>9. /\ \A other \in Ids : entry[other].token # token
        /\ \A r \in Prune : r.token # token
        /\ token \notin active
    BY <1>4 DEF InUse
  <1> HIDE DEF e, k, misfired
  <1>10. /\ entry' \in [Ids -> Entry] /\ entry'[id] = e
         /\ \A other \in Ids \ {id} : entry'[other] = entry[other]
    BY <1>2, <1>6, <1>8 DEF IInv, TypeOK
  <1>11. /\ tick' \in [Ticks -> Tick] /\ tick'[t] = k
         /\ \A u \in Ticks \ {t} : tick'[u] = tick[u]
    BY <1>7, <1>8 DEF IInv, TypeOK
  <1>12. /\ ledger' \in [Ids -> [open : Cursor, done : Cursor]]
         /\ ledger'[id].open = entry[id].next
         /\ \A other \in Ids \ {id} : ledger'[other] = ledger[other]
    BY <1>2, <1>5 DEF IInv, TypeOK, Entry
  <1>13. Registered' = Registered /\ Registered \subseteq Ids
    BY <1>5 DEF Registered, IInv, TypeOK
  <1>14. TypeOK'
    <2>1. fired' \in [Ids -> Cursor]
      BY <1>1, <1>2 DEF BeginDispatch, IInv, TypeOK, Tick, Cursor
    <2>2. running' \in SUBSET [id : Ids, token : Tokens] /\ active' \in SUBSET Tokens
      BY <1>2, <1>4 DEF IInv, TypeOK, Prune
    <2> QED
      BY <1>5, <1>10, <1>11, <1>12, <2>1, <2>2 DEF IInv, TypeOK
  <1>15. Walks'
    BY <1>1, <1>7, <1>11 DEF IInv, Walks
  <1>16. Attempts'
    <2>1. Owns(t)'
      <3>1. Driven(t)' = id
        BY <1>7, <1>11 DEF Driven
      <3>2. [id |-> id, token |-> token] \in running' /\ token \in active'
        BY <1>4
      <3> HIDE DEF id
      <3> QED
        BY <1>1, <1>6, <1>7, <1>10, <1>11, <1>12, <1>13, <3>1, <3>2 DEF Owns
    <2>2. ASSUME NEW u \in Ticks \ {t}, tick[u].pc = "dispatch"
          PROVE  Owns(u)' /\ Driven(u) # id /\ tick[u].token # token
      <3>1. Owns(u)
        BY <2>2 DEF IInv, Attempts
      <3>2. Driven(u) # id /\ tick[u].token # token /\ Driven(u) \in Ids
        BY <1>3, <1>9, <1>13, <3>1 DEF Owns
      <3>3. [id |-> Driven(u), token |-> tick[u].token] \in running'
        BY <1>4, <3>1 DEF Owns, Prune
      <3> QED
        BY <1>4, <1>10, <1>11, <1>12, <1>13, <3>1, <3>2, <3>3 DEF Owns, Driven
    <2>3. \A u \in Ticks : tick'[u].pc = "dispatch" => Owns(u)'
      BY <1>11, <2>1, <2>2
    <2>4. ASSUME NEW held \in active'
          PROVE  \E u \in Ticks : tick'[u].pc = "dispatch" /\ tick'[u].token = held
      <3>1. CASE held = token
        BY <1>7, <1>11, <3>1
      <3>2. CASE held \in active
        <4>1. PICK u \in Ticks : tick[u].pc = "dispatch" /\ tick[u].token = held
          BY <3>2 DEF IInv, Attempts
        <4> QED
          BY <1>1, <1>11, <4>1
      <3> QED
        BY <1>4, <2>4, <3>1, <3>2
    <2>5. ASSUME NEW u \in Ticks, NEW v \in Ticks, tick'[u].pc = "dispatch",
                 tick'[v].pc = "dispatch", tick'[u].token = tick'[v].token
          PROVE  u = v
      <3>1. CASE u # t /\ v # t
        BY <1>11, <2>5, <3>1 DEF IInv, Attempts
      <3>2. CASE u = t \/ v = t
        BY <1>7, <1>11, <2>2, <2>5, <3>2
      <3> QED
        BY <3>1, <3>2
    <2>6. \A r, s \in running' : r.token = s.token => r.id = s.id
      BY <1>4, <1>9 DEF IInv, Attempts, Prune
    <2> QED
      BY <2>3, <2>4, <2>5, <2>6 DEF Attempts
  <1>17. Bounds'
    <2>1. IsFiniteSet(Prune) /\ Cardinality(Prune) < MaxSchedules
      BY FS_Subset DEF IInv, Bounds, Prune, BeginDispatch, HasDispatchCapacity
    <2>2. /\ IsFiniteSet(running')
          /\ Cardinality(running') <= Cardinality(Prune) + 1
      <3> DEFINE r == [id |-> id, token |-> token]
      <3>1. /\ IsFiniteSet(Prune \cup {r})
            /\ Cardinality(Prune \cup {r}) =
                   IF r \in Prune THEN Cardinality(Prune) ELSE Cardinality(Prune) + 1
        BY <2>1, FS_AddElement
      <3>2. Cardinality(Prune) \in Nat
        BY <2>1, FS_CardinalityType
      <3>3. running' = Prune \cup {r}
        BY <1>4
      <3> HIDE DEF r
      <3> QED
        BY <3>1, <3>2, <3>3
    <2>3. Cardinality(Prune) \in Nat /\ Cardinality(running') \in Nat
      BY <2>1, <2>2, FS_CardinalityType
    <2> QED
      BY <1>5, <2>1, <2>2, <2>3, BoundsAssumption DEF IInv, Bounds
  <1>18. UnresolvedStaysPinned' /\ SnapshotsRestorable'
    BY <1>1, <1>6, <1>10, <1>12, <1>13 DEF IInv, UnresolvedStaysPinned, SnapshotsRestorable
  <1> QED
    BY <1>14, <1>15, <1>16, <1>17, <1>18 DEF IInv

\* An identity that counts as running is registered and in doubt.
LEMMA RunningInDoubt ==
    ASSUME IInv, NEW id \in Ids, IsRunning(id)
    PROVE  id \in Registered /\ entry[id].status = "ReconciliationRequired"
  <1>1. PICK r \in running : r.id = id /\ r.token \in active
    BY DEF IsRunning
  <1>2. PICK t \in Ticks : tick[t].pc = "dispatch" /\ tick[t].token = r.token
    BY <1>1 DEF IInv, Attempts
  <1>3. Owns(t)
    BY <1>2 DEF IInv, Attempts
  <1> DEFINE s == [id |-> Driven(t), token |-> tick[t].token]
  <1>4. s \in running /\ s.token = r.token /\ s.id = Driven(t)
    BY <1>2, <1>3 DEF Owns
  <1>5. r.id = Driven(t)
    BY <1>1, <1>4 DEF IInv, Attempts
  <1> QED
    BY <1>1, <1>3, <1>5 DEF Owns

\* The owner changes one schedule that nobody is driving.
LEMMA OwnerStepFrame ==
    ASSUME IInv, NEW id \in Ids, NEW e \in Entry, ~IsRunning(id),
           tick' = tick, active' = active, shutdown' = shutdown, running' = Prune,
           entry' = [entry EXCEPT ![id] = e],
           order' \in Seq(Ids), Len(order') <= MaxSchedules,
           \A other \in Ids \ {id} : other \in Registered' <=> other \in Registered,
           ledger' \in [Ids -> [open : Cursor, done : Cursor]],
           fired' \in [Ids -> Cursor],
           \A other \in Ids \ {id} : ledger'[other] = ledger[other],
           id \in Registered' => Restorable(e),
           ledger'[id].open # None => /\ id \in Registered'
                                      /\ e.status = "ReconciliationRequired"
                                      /\ e.next = ledger'[id].open
    PROVE  IInv'
  <1>1. /\ entry' \in [Ids -> Entry] /\ entry'[id] = e
        /\ \A other \in Ids \ {id} : entry'[other] = entry[other]
    BY DEF IInv, TypeOK
  <1>2. TypeOK'
    BY <1>1 DEF IInv, TypeOK, Prune
  <1>3. Walks'
    BY DEF IInv, Walks
  <1>4. Attempts'
    <2>1. \A other \in Ids : IsRunning(other) =>
              /\ other \in Registered => other \in Registered'
              /\ entry'[other] = entry[other]
              /\ ledger'[other] = ledger[other]
      BY <1>1
    <2> QED
      BY <2>1, OwnerFrame DEF IInv
  <1>5. Bounds'
    BY BoundsShrink DEF IInv, Prune
  <1>6. Registered' \subseteq Ids
    BY DEF Registered
  <1>7. UnresolvedStaysPinned'
    BY <1>1 DEF IInv, UnresolvedStaysPinned
  <1>8. SnapshotsRestorable'
    BY <1>1, <1>6 DEF IInv, SnapshotsRestorable
  <1> QED
    BY <1>2, <1>3, <1>4, <1>5, <1>7, <1>8 DEF IInv

\* A schedule pushed to the registry is registered beside the others.
LEMMA AppendRegisters ==
    ASSUME NEW id \in Ids, order \in Seq(Ids), order' = Append(order, id)
    PROVE  Registered' = Registered \cup {id}
  <1>1. /\ DOMAIN order = 1..Len(order) /\ DOMAIN order' = 1..(Len(order) + 1)
        /\ \A i \in 1..Len(order) : order'[i] = order[i]
        /\ order'[Len(order) + 1] = id
        /\ Len(order) \in Nat
    OBVIOUS
  <1> QED
    BY <1>1 DEF Registered

\* A definition is registered.
LEMMA AddScheduleStep ==
    ASSUME IInv, NEW id \in Ids, NEW policy \in Policies, NEW next \in Cursor,
           AddSchedule(id, policy, next)
    PROVE  IInv'
  <1> DEFINE e == WithCursor([Blank EXCEPT !.policy = policy], next)
  <1>1. e \in Entry /\ Restorable(e)
    <2>1. [Blank EXCEPT !.policy = policy] \in Entry
      BY BoundsAssumption DEF Blank, Entry, Statuses, Cursor
    <2> QED
      BY <2>1, WithCursorType
  <1>2. /\ order' = Append(order, id) /\ Len(order) < MaxSchedules
        /\ order \in Seq(Ids) /\ MaxSchedules \in Nat
    BY BoundsAssumption DEF AddSchedule, IInv, TypeOK
  <1>3. order' \in Seq(Ids) /\ Len(order') <= MaxSchedules
    BY <1>2
  <1>4. Registered' = Registered \cup {id}
    BY <1>2, AppendRegisters
  <1>5. /\ ledger' \in [Ids -> [open : Cursor, done : Cursor]]
        /\ ledger'[id].open = None
        /\ \A other \in Ids \ {id} : ledger'[other] = ledger[other]
        /\ fired' \in [Ids -> Cursor]
    BY DEF AddSchedule, IInv, TypeOK, NoHistory, Cursor
  <1> HIDE DEF e
  <1>6. entry' = [entry EXCEPT ![id] = e]
    BY DEF AddSchedule, e
  <1> QED
    BY <1>1, <1>3, <1>4, <1>5, <1>6, OwnerStepFrame DEF AddSchedule

\* The entry of an identity that is not registered.
LEMMA BlankType == Blank \in Entry
  BY DEF Blank, Entry, Statuses, Cursor

\* A definition leaves the registry.
LEMMA RemoveScheduleStep == ASSUME IInv, NEW id \in Ids, RemoveSchedule(id) PROVE IInv'
  <1>1. PICK position \in DOMAIN order :
            /\ order[position] = id
            /\ order' = [i \in 1..(Len(order) - 1) |->
                            IF i < position THEN order[i] ELSE order[i + 1]]
    BY DEF RemoveSchedule
  <1>2. order \in Seq(Ids) /\ Len(order) \in Nat /\ DOMAIN order = 1..Len(order)
    BY DEF IInv, TypeOK
  <1>3. order' \in Seq(Ids) /\ Len(order') = Len(order) - 1 /\ DOMAIN order' = 1..(Len(order) - 1)
    BY <1>1, <1>2
  <1>4. ASSUME NEW other \in Ids \ {id}
        PROVE  other \in Registered' <=> other \in Registered
    <2>1. ASSUME other \in Registered PROVE other \in Registered'
      <3>1. PICK i \in DOMAIN order : order[i] = other
        BY <2>1 DEF Registered
      <3>2. CASE i < position
        BY <1>1, <1>2, <1>3, <3>1, <3>2 DEF Registered
      <3>3. CASE i > position
        <4>1. i - 1 \in DOMAIN order' /\ order'[i - 1] = order[i]
          BY <1>1, <1>2, <1>3, <3>1, <3>3
        <4> QED
          BY <3>1, <4>1 DEF Registered
      <3> QED
        BY <1>1, <1>2, <3>1, <3>2, <3>3
    <2>2. ASSUME other \in Registered' PROVE other \in Registered
      <3>1. PICK i \in DOMAIN order' : order'[i] = other
        BY <2>2 DEF Registered
      <3> QED
        BY <1>1, <1>2, <1>3, <3>1 DEF Registered
    <2> QED
      BY <2>1, <2>2
  <1>5. id \in Registered /\ entry[id].status # "ReconciliationRequired"
    BY DEF RemoveSchedule, MayRemove
  <1>6. ~IsRunning(id) /\ ledger[id].open = None
    BY <1>5, RunningInDoubt DEF IInv, UnresolvedStaysPinned
  <1>7. Len(order') <= MaxSchedules
    BY <1>2, <1>3, BoundsAssumption DEF IInv, Bounds
  <1>8. /\ ledger' \in [Ids -> [open : Cursor, done : Cursor]] /\ ledger' = ledger
        /\ fired' \in [Ids -> Cursor]
    BY DEF RemoveSchedule, IInv, TypeOK
  <1>9. Restorable(Blank)
    BY DEF Blank, Restorable
  <1> QED
    BY <1>3, <1>4, <1>6, <1>7, <1>8, <1>9, BlankType, OwnerStepFrame DEF RemoveSchedule

\* An owner operation that keeps the membership and changes one entry.
LEMMA OwnerEntryStep ==
    ASSUME IInv, NEW id \in Ids, NEW e \in Entry, ~IsRunning(id), id \in Registered,
           tick' = tick, active' = active, shutdown' = shutdown, running' = Prune,
           order' = order, entry' = [entry EXCEPT ![id] = e],
           ledger' \in [Ids -> [open : Cursor, done : Cursor]],
           fired' \in [Ids -> Cursor],
           \A other \in Ids \ {id} : ledger'[other] = ledger[other],
           Restorable(e), ledger'[id].open = None
    PROVE  IInv'
  <1>1. order' \in Seq(Ids) /\ Len(order') <= MaxSchedules
    BY DEF IInv, TypeOK, Bounds
  <1>2. Registered' = Registered
    BY DEF Registered
  <1> QED
    BY <1>1, <1>2, OwnerStepFrame

\* Pause and resume.
LEMMA SetPausedStep ==
    ASSUME IInv, NEW id \in Ids, NEW status \in {"Active", "Paused"}, SetPaused(id, status)
    PROVE  IInv'
  <1> DEFINE e == [entry[id] EXCEPT !.status = status]
  <1>1. id \in Registered /\ entry[id].status \in {"Active", "Paused"}
    BY DEF SetPaused
  <1>2. ~IsRunning(id) /\ ledger[id].open = None
    BY <1>1, RunningInDoubt DEF IInv, UnresolvedStaysPinned
  <1>3. entry[id] \in Entry /\ Restorable(entry[id])
    BY <1>1 DEF IInv, TypeOK, SnapshotsRestorable
  <1>4. e \in Entry /\ Restorable(e)
    BY <1>1, <1>3 DEF Entry, Statuses, Restorable
  <1>5. entry' = [entry EXCEPT ![id] = e]
    BY DEF SetPaused
  <1>6. /\ ledger' \in [Ids -> [open : Cursor, done : Cursor]] /\ ledger' = ledger
        /\ fired' \in [Ids -> Cursor]
    BY DEF SetPaused, IInv, TypeOK
  <1> HIDE DEF e
  <1> QED
    BY <1>1, <1>2, <1>4, <1>5, <1>6, OwnerEntryStep DEF SetPaused

\* The owner decides that the occurrence happened.
LEMMA ResolveConfirmedStep == ASSUME IInv, NEW id \in Ids, ResolveConfirmed(id) PROVE IInv'
  <1> DEFINE e == AdvanceOnce(id, [entry[id] EXCEPT !.token = None])
  <1>1. entry[id] \in Entry
    BY DEF IInv, TypeOK
  <1>2. [entry[id] EXCEPT !.token = None] \in Entry /\ entry[id].next \in Cursor
    BY <1>1 DEF Entry
  <1>3. e \in Entry /\ Restorable(e)
    BY <1>2, AdvanceOnceType
  <1>4. entry' = [entry EXCEPT ![id] = e]
    BY DEF ResolveConfirmed
  <1> HIDE DEF e
  <1>5. /\ ledger' \in [Ids -> [open : Cursor, done : Cursor]]
        /\ ledger'[id].open = None
        /\ \A other \in Ids \ {id} : ledger'[other] = ledger[other]
        /\ fired' \in [Ids -> Cursor]
    BY <1>2 DEF ResolveConfirmed, IInv, TypeOK, Cursor
  <1> QED
    BY <1>3, <1>4, <1>5, OwnerEntryStep DEF ResolveConfirmed, MayResolve

\* The owner decides that it did not.
LEMMA ResolveRetryStep == ASSUME IInv, NEW id \in Ids, ResolveRetry(id) PROVE IInv'
  <1> DEFINE e == [entry[id] EXCEPT !.token = None, !.skip = None, !.status = "Active"]
  <1>1. /\ entry[id] \in Entry /\ Restorable(entry[id])
        /\ entry[id].status = "ReconciliationRequired"
    BY DEF IInv, TypeOK, SnapshotsRestorable, ResolveRetry, MayResolve
  <1>2. e \in Entry /\ Restorable(e)
    BY <1>1 DEF Entry, Restorable, Statuses, Cursor
  <1>3. entry' = [entry EXCEPT ![id] = e]
    BY DEF ResolveRetry
  <1> HIDE DEF e
  <1>4. /\ ledger' \in [Ids -> [open : Cursor, done : Cursor]]
        /\ ledger'[id].open = None
        /\ \A other \in Ids \ {id} : ledger'[other] = ledger[other]
        /\ fired' \in [Ids -> Cursor]
    BY DEF ResolveRetry, IInv, TypeOK, Cursor
  <1> QED
    BY <1>2, <1>3, <1>4, OwnerEntryStep DEF ResolveRetry, MayResolve

\* Nothing changes but the records of ended attempts.
LEMMA PruneStep ==
    ASSUME IInv, running' \in {running, Prune}, shutdown' \in BOOLEAN,
           UNCHANGED <<order, entry, active, tick, ledger, fired>>
    PROVE  IInv'
  <1>1. TypeOK' /\ Walks' /\ UnresolvedStaysPinned' /\ SnapshotsRestorable'
    BY DEF IInv, TypeOK, Walks, UnresolvedStaysPinned, SnapshotsRestorable, Registered, Prune
  <1>2. Bounds'
    BY BoundsShrink DEF IInv, Bounds, Prune
  <1>3. Attempts'
    <2>1. Registered' = Registered
      BY DEF Registered
    <2>2. \A t \in Ticks : tick[t].pc = "dispatch" => Owns(t)
      BY DEF IInv, Attempts
    <2> QED
      BY <2>1, <2>2, PruneFrame, Frame DEF IInv, Owns
  <1> QED
    BY <1>1, <1>2, <1>3 DEF IInv

\* Every schedule is restored from its snapshot.
LEMMA RestartStep ==
    ASSUME IInv, NEW policies \in [Ids -> Policies], Restart(policies)
    PROVE  IInv'
  <1>1. ASSUME NEW id \in Ids
        PROVE  /\ entry'[id] \in Entry
               /\ id \in Registered => /\ entry'[id].status = entry[id].status
                                       /\ entry'[id].next = entry[id].next
                                       /\ entry'[id].skip = entry[id].skip
    <2>1. entry[id] \in Entry /\ policies[id] \in {"Skip", "FireOnce", "CatchUp"}
      BY BoundsAssumption DEF IInv, TypeOK
    <2>2. RestoreFrom(entry[id], policies[id]) \in Entry
      BY <2>1 DEF RestoreFrom, Entry
    <2> QED
      BY <2>1, <2>2, BlankType DEF Restart, RestoreFrom, Entry
  <1>2. /\ order' = order /\ ledger' = ledger /\ running' = {} /\ active' = {}
        /\ tick' = [t \in Ticks |-> Idle] /\ shutdown' = FALSE
        /\ entry' \in [Ids -> Entry]
    BY <1>1 DEF Restart
  <1>3. TypeOK'
    <2>1. fired' \in [Ids -> Cursor]
      BY DEF Restart, IInv, TypeOK, Cursor
    <2> QED
      BY <1>2, <2>1, IdleType DEF IInv, TypeOK
  <1>4. Idle.pc = "idle"
    BY DEF Idle
  <1>5. Walks' /\ Attempts'
    BY <1>2, <1>4 DEF Walks, Attempts
  <1>6. Bounds'
    BY <1>2, FS_EmptySet, BoundsAssumption DEF IInv, Bounds
  <1>7. Registered' = Registered /\ Registered \subseteq Ids
    BY <1>2 DEF Registered, IInv, TypeOK
  <1>8. UnresolvedStaysPinned' /\ SnapshotsRestorable'
    BY <1>1, <1>2, <1>7 DEF IInv, UnresolvedStaysPinned, SnapshotsRestorable, Restorable
  <1> QED
    BY <1>3, <1>5, <1>6, <1>8 DEF IInv

----------------------------------------------------------------------------
(* The invariant holds, and what it gives.                                  *)

\* An empty scheduler satisfies the invariant.
LEMMA InitIInv == Init => IInv
  <1> SUFFICES ASSUME Init PROVE IInv
    OBVIOUS
  <1>1. Idle.pc = "idle"
    BY DEF Idle
  <1>2. order \in Seq(Ids) /\ Registered = {} /\ Len(order) = 0
    BY DEF Init, Registered
  <1>3. TypeOK
    BY <1>2, IdleType, BlankType DEF Init, TypeOK, NoHistory, Cursor
  <1>4. Walks /\ Attempts
    BY <1>1 DEF Init, Walks, Attempts
  <1>5. Bounds
    BY <1>2, FS_EmptySet, BoundsAssumption DEF Init, Bounds
  <1>6. UnresolvedStaysPinned /\ SnapshotsRestorable
    BY <1>2 DEF Init, UnresolvedStaysPinned, SnapshotsRestorable, NoHistory
  <1> QED
    BY <1>3, <1>4, <1>5, <1>6 DEF IInv

\* Every step preserves it.
LEMMA NextIInv == IInv /\ [Next]_vars => IInv'
  <1> SUFFICES ASSUME IInv, [Next]_vars PROVE IInv'
    OBVIOUS
  <1>1. CASE \E t \in Ticks, now \in Time : StartTick(t, now)
    BY <1>1, StartTickStep
  <1>2. ASSUME NEW t \in Ticks, TickStep(t) PROVE IInv'
    BY <1>2, PassEntryStep, StopEntryStep, SkipOccurrenceStep, RefuseDispatchStep,
       BeginDispatchStep, SettleConfirmedStep, SettleNotStartedStep, SettleUnknownStep,
       LeaveLoopStep, ExhaustBudgetStep, FinishTickStep DEF TickStep
  <1>3. CASE \E t \in Ticks : AbandonTick(t)
    BY <1>3, AbandonTickStep
  <1>4. CASE \E t \in Ticks : PlanPanics(t)
    BY <1>4, PlanPanicsStep
  <1>5. CASE OwnerStep
    <2>1. CASE RefuseOwner
      BY <2>1, PruneStep DEF RefuseOwner, IInv, TypeOK
    <2>2. ASSUME NEW id \in Ids, PauseSchedule(id) \/ ResumeSchedule(id) PROVE IInv'
      BY <2>2, SetPausedStep DEF PauseSchedule, ResumeSchedule
    <2> QED
      BY <1>5, <2>1, <2>2, AddScheduleStep, RemoveScheduleStep, ResolveConfirmedStep,
         ResolveRetryStep DEF OwnerStep
  <1>6. CASE RequestShutdown
    BY <1>6, PruneStep DEF RequestShutdown
  <1>7. CASE \E policies \in [Ids -> Policies] : Restart(policies)
    BY <1>7, RestartStep
  <1>8. CASE UNCHANGED vars
    BY <1>8, PruneStep DEF vars, IInv, TypeOK
  <1> QED
    BY <1>1, <1>2, <1>3, <1>4, <1>5, <1>6, <1>7, <1>8 DEF Next

\* The records of active attempts are for distinct schedules in doubt, so an
\* active schedule always leaves one slot of the running set free.
LEMMA CapacityLeft ==
    ASSUME IInv, NEW id \in Registered, entry[id].status = "Active"
    PROVE  HasDispatchCapacity
  <1> DEFINE owner == [r \in Prune |-> r.id]
  <1>1. IsFiniteSet(Registered) /\ Cardinality(Registered) <= Len(order)
    <2>1. Len(order) \in Nat /\ DOMAIN order = 1..Len(order)
      BY DEF IInv, TypeOK
    <2>2. IsFiniteSet(1..Len(order)) /\ Cardinality(1..Len(order)) = Len(order)
      <3>1. \A a, b \in Int : /\ IsFiniteSet(a..b)
                             /\ Cardinality(a..b) = IF a > b THEN 0 ELSE b - a + 1
        BY FS_Interval
      <3>2. 1 \in Int /\ Len(order) \in Int
        BY <2>1
      <3>3. /\ IsFiniteSet(1..Len(order))
            /\ Cardinality(1..Len(order)) = IF 1 > Len(order) THEN 0 ELSE Len(order) - 1 + 1
        BY <3>1, <3>2, Zenon
      <3> QED
        BY <2>1, <3>3
    <2>3. order \in Surjection(1..Len(order), Registered)
      BY <2>1 DEF Surjection, Registered, IInv, TypeOK
    <2> QED
      BY <2>2, <2>3, FS_Surjection
  <1>2. /\ IsFiniteSet(Registered \ {id})
        /\ Cardinality(Registered \ {id}) = Cardinality(Registered) - 1
    BY <1>1, FS_RemoveElement
  <1>3. \A r \in Prune : r.id \in Registered \ {id} /\ entry[r.id].token = r.token
    <2> SUFFICES ASSUME NEW r \in Prune
                 PROVE  r.id \in Registered \ {id} /\ entry[r.id].token = r.token
      OBVIOUS
    <2>1. r \in running /\ r.token \in active /\ r.id \in Ids
      BY DEF Prune, IInv, TypeOK
    <2>2. PICK t \in Ticks : tick[t].pc = "dispatch" /\ tick[t].token = r.token
      BY <2>1 DEF IInv, Attempts
    <2>3. Owns(t)
      BY <2>2 DEF IInv, Attempts
    <2> DEFINE s == [id |-> Driven(t), token |-> tick[t].token]
    <2>4. s \in running /\ s.token = r.token /\ s.id = Driven(t)
      BY <2>2, <2>3 DEF Owns
    <2>5. r.id = Driven(t)
      BY <2>1, <2>4 DEF IInv, Attempts
    <2> QED
      BY <2>2, <2>3, <2>5 DEF Owns
  <1>4. owner \in Injection(Prune, Registered \ {id})
    <2>1. \A r, s \in Prune : r.id = s.id => r = s
      <3> SUFFICES ASSUME NEW r \in Prune, NEW s \in Prune, r.id = s.id PROVE r = s
        OBVIOUS
      <3>1. r.token = s.token
        BY <1>3
      <3>2. r \in [id : Ids, token : Tokens] /\ s \in [id : Ids, token : Tokens]
        BY DEF Prune, IInv, TypeOK
      <3> QED
        BY <3>1, <3>2
    <2> QED
      BY <1>3, <2>1 DEF Injection, IsInjective
  <1>5. Cardinality(Prune) <= Cardinality(Registered \ {id})
    BY <1>2, <1>4, FS_Injection
  <1>6. IsFiniteSet(Prune)
    BY FS_Subset DEF Prune, IInv, Bounds
  <1>7. /\ Cardinality(Prune) \in Nat
        /\ Cardinality(Registered) \in Nat
        /\ Cardinality(Registered \ {id}) \in Nat
        /\ Len(order) \in Nat
    BY <1>1, <1>2, <1>6, FS_CardinalityType DEF IInv, TypeOK
  <1> QED
    BY <1>1, <1>2, <1>5, <1>7, BoundsAssumption DEF HasDispatchCapacity, IInv, Bounds

\* Every variable keeps its type.
THEOREM SchedulerTypeOK == Spec => []TypeOK
  <1>1. IInv => TypeOK
    BY DEF IInv
  <1> QED
    BY <1>1, InitIInv, NextIInv, PTL DEF Spec

\* Two ticks never drive the same schedule at once: the status and the running
\* set that process_entry and resolve_reconciliation consult are enough.
THEOREM SchedulerExclusive == Spec => []OneAttemptPerSchedule
  <1>1. IInv => OneAttemptPerSchedule
    BY AttemptsApart DEF IInv, OneAttemptPerSchedule
  <1> QED
    BY <1>1, InitIInv, NextIInv, PTL DEF Spec

\* The outcome of an attempt always finds the entry it was issued for, so
\* process_entry never discards one.
THEOREM SchedulerOwnership == Spec => []AttemptOwnsItsSchedule
  <1>1. IInv => AttemptOwnsItsSchedule
    BY DEF IInv, Attempts, Owns, AttemptOwnsItsSchedule
  <1> QED
    BY <1>1, InitIInv, NextIInv, PTL DEF Spec

\* An occurrence in doubt keeps its schedule blocked at it, through abandoned
\* ticks, panicking plans, owner operations and restarts.
THEOREM SchedulerPinned == Spec => []UnresolvedStaysPinned
  <1>1. IInv => UnresolvedStaysPinned
    BY DEF IInv
  <1> QED
    BY <1>1, InitIInv, NextIInv, PTL DEF Spec

\* Registry::running never outgrows max_schedules, and the capacity refusal of
\* decide is never taken.
THEOREM SchedulerCapacity == Spec => []RunningSetSuffices
  <1>1. IInv => RunningSetSuffices
    BY CapacityLeft DEF IInv, Bounds, RunningSetSuffices
  <1> QED
    BY <1>1, InitIInv, NextIInv, PTL DEF Spec

\* restore_from accepts every snapshot the scheduler can hand out.
THEOREM SchedulerSnapshots == Spec => []SnapshotsRestorable
  <1>1. IInv => SnapshotsRestorable
    BY DEF IInv
  <1> QED
    BY <1>1, InitIInv, NextIInv, PTL DEF Spec

(***************************************************************************)
(* The order in which occurrences are started, for every number of         *)
(* schedules, ticks and instants and whatever the plans answer: never one  *)
(* that may already have happened, and one per FireOnce backlog.           *)
(***************************************************************************)

\* What an entry owes to its past: its cursor is ahead of the newest occurrence
\* that happened, and the backlog FireOnce already acted on lies behind its
\* abandonment boundary.
Ordered(e, done, measured) ==
    /\ e.next # None => done < e.next
    /\ /\ e.policy = "FireOnce"
       /\ measured # None
       /\ e.next # None
       /\ Overdue(measured, e.next)
       => e.skip # None /\ e.skip >= measured

History == \A id \in Registered : Ordered(entry[id], ledger[id].done, fired[id])

----------------------------------------------------------------------------
(* The sweep.                                                               *)

\* A nonempty set of naturals has a least element: induction in the form the
\* sweep needs it.
LEMMA LeastNat ==
    ASSUME NEW T \in SUBSET Nat, T # {}
    PROVE  \E m \in T : \A k \in T : m <= k
  <1> DEFINE R == {ss \in Nat \X Nat : ss[1] < ss[2]}
  <1>1. IsWellFoundedOn(R, Nat)
    BY NatLessThanWellFounded, Zenon DEF OpToRel
  <1> HIDE DEF R
  <1>2. PICK m \in T : \A k \in T : ~(<<k, m>> \in R)
    BY <1>1, WFMin
  <1>3. \A k \in T : ~(k < m)
    BY <1>2 DEF R
  <1> QED
    BY <1>2, <1>3

\* One step of the plan, as the scheduler filters it, only moves forward.
LEMMA NextDueForward ==
    ASSUME NEW id \in Ids, NEW due \in Cursor, NextDue(id, due) # None
    PROVE  due # None /\ due < NextDue(id, due)
  BY PlanAssumption DEF NextDue, Cursor, Time, None

\* However many occurrences a sweep drops, it leaves the cursor ahead of every
\* instant the cursor was ahead of.
LEMMA SweepForward ==
    ASSUME NEW id \in Ids, NEW from \in Cursor, NEW now \in Time, NEW limit \in Nat,
           NEW skipped \in 0..limit, NEW to \in Cursor, NEW d \in Cursor,
           Sweeps(id, from, now, limit, skipped, to), from # None => d < from, to # None
    PROVE  d < to
  <1>1. PICK path \in [0..skipped -> Cursor] :
            /\ path[0] = from
            /\ path[skipped] = to
            /\ \A i \in 0..(skipped - 1) :
                   path[i] # None /\ path[i + 1] = NextDue(id, path[i])
    BY DEF Sweeps
  <1> SUFFICES ASSUME ~(d < to) PROVE FALSE
    OBVIOUS
  <1> DEFINE Behind == {i \in 0..skipped : path[i] # None /\ ~(d < path[i])}
  <1>2. Behind \in SUBSET Nat /\ Behind # {}
    <2>1. skipped \in 0..skipped
      OBVIOUS
    <2> QED
      BY <1>1, <2>1
  <1>3. PICK m \in Behind : \A k \in Behind : m <= k
    BY <1>2, LeastNat
  <1>4. m # 0
    BY <1>1, <1>3
  <1>5. /\ m - 1 \in 0..(skipped - 1) /\ m - 1 \in 0..skipped
        /\ m - 1 \notin Behind /\ m - 1 + 1 = m /\ m \in 0..skipped
    BY <1>3, <1>4
  <1>6. path[m - 1] # None /\ path[m] = NextDue(id, path[m - 1])
    BY <1>1, <1>5
  <1>7. d < path[m - 1] /\ path[m] # None
    BY <1>3, <1>5, <1>6
  <1>8. path[m - 1] \in Cursor /\ path[m] \in Cursor
    BY <1>5
  <1>9. path[m - 1] < path[m]
    BY <1>6, <1>7, <1>8, NextDueForward
  <1>10. ~(d < path[m])
    BY <1>3
  <1> QED
    BY <1>7, <1>8, <1>9, <1>10 DEF Cursor, Time, None

----------------------------------------------------------------------------
(* What each kind of step does to one entry's debt to its past.             *)

\* Moving the cursor of an entry forward pays for the occurrence left behind.
LEMMA ForwardOrdered ==
    ASSUME NEW e \in Entry, NEW done \in Cursor, NEW measured \in Cursor,
           NEW next \in Cursor, NEW d \in {done, e.next},
           Ordered(e, done, measured), e.next # None, next # None => e.next < next
    PROVE  Ordered(WithCursor(e, next), d, measured)
  BY BoundsAssumption
     DEF Ordered, WithCursor, Entry, Overdue, Cursor, Time, None

\* An occurrence the boundary does not cover is not in a backlog FireOnce
\* already acted on.
LEMMA UncoveredFresh ==
    ASSUME NEW e \in Entry, NEW done \in Cursor, NEW measured \in Cursor,
           Ordered(e, done, measured), ~Covered(e),
           e.policy = "FireOnce", measured # None, e.next # None
    PROVE  ~Overdue(measured, e.next)
  BY BoundsAssumption DEF Ordered, Covered, Entry, Overdue, Cursor, Time, None

\* A step that leaves every schedule's cursor, boundary and past alone.
LEMMA HistoryKept ==
    ASSUME History, Registered' \subseteq Registered,
           \A id \in Registered' :
               /\ entry'[id].next = entry[id].next
               /\ entry'[id].policy = entry[id].policy
               /\ entry'[id].skip = entry[id].skip
               /\ ledger'[id].done = ledger[id].done
               /\ fired'[id] = fired[id]
    PROVE  History'
  BY DEF History, Ordered

\* A step that touches one schedule.
LEMMA HistoryAt ==
    ASSUME IInv, History, NEW id \in Ids,
           \A other \in Ids \ {id} :
               /\ other \in Registered' => other \in Registered
               /\ entry'[other] = entry[other]
               /\ ledger'[other] = ledger[other]
               /\ fired'[other] = fired[other],
           IInv',
           id \in Registered' => Ordered(entry'[id], ledger'[id].done, fired'[id])
    PROVE  History'
  <1>1. order' \in Seq(Ids)
    BY DEF IInv, TypeOK
  <1>2. Registered' \subseteq Ids
    BY <1>1 DEF Registered
  <1> QED
    BY <1>2 DEF History

\* The types of what a schedule remembers.
LEMMA PastType ==
    ASSUME IInv, NEW id \in Ids
    PROVE  entry[id] \in Entry /\ ledger[id].done \in Cursor /\ fired[id] \in Cursor
  BY DEF IInv, TypeOK

\* An occurrence that is passed over.
LEMMA SkipHistory ==
    ASSUME IInv, IInv', History, NEW t \in Ticks, SkipOccurrence(t) PROVE History'
  <1> DEFINE id == Driven(t)
             e == IF Covered(entry[id]) THEN entry[id] ELSE [entry[id] EXCEPT !.skip = None]
  <1>1. id \in Ids /\ id \in Registered /\ entry[id] \in Entry
    BY DrivenType DEF SkipOccurrence, Examines, IInv, TypeOK, Walks
  <1>2. Ordered(entry[id], ledger[id].done, fired[id])
    BY <1>1 DEF History
  <1>3. entry[id].next # None
    BY DEF SkipOccurrence, MayAct, IsDue
  <1>4. e \in Entry /\ e.next # None
    BY <1>1, <1>3 DEF Entry, Cursor
  <1>5. Ordered(e, ledger[id].done, fired[id])
    BY <1>1, <1>2 DEF SkipOccurrence, PassesOver, Ordered, Entry
  <1>6. entry' = [entry EXCEPT ![id] = AdvanceOnce(id, e)]
    BY DEF SkipOccurrence
  <1> HIDE DEF e
  <1>7. Ordered(AdvanceOnce(id, e), ledger[id].done, fired[id])
    <2>1. e.next \in Cursor
      BY <1>4 DEF Entry
    <2>2. NextDue(id, e.next) \in Cursor
      BY <1>1, <2>1, NextDueType
    <2>3. NextDue(id, e.next) # None => e.next < NextDue(id, e.next)
      BY <1>1, <2>1, NextDueForward
    <2> QED
      BY <1>1, <1>4, <1>5, <2>2, <2>3, PastType, ForwardOrdered DEF AdvanceOnce
  <1>8. /\ Registered' = Registered /\ ledger' = ledger /\ fired' = fired
        /\ entry'[id] = AdvanceOnce(id, e)
        /\ \A other \in Ids \ {id} : entry'[other] = entry[other]
    BY <1>1, <1>6 DEF SkipOccurrence, Registered, IInv, TypeOK
  <1> QED
    BY <1>1, <1>7, <1>8, HistoryAt

\* A pending occurrence outside every backlog acted on survives the loss of its
\* boundary.
LEMMA RefuseHistory ==
    ASSUME IInv, IInv', History, NEW t \in Ticks, RefuseDispatch(t) PROVE History'
  <1> DEFINE id == Driven(t)
  <1>1. id \in Ids /\ id \in Registered /\ entry[id] \in Entry
    BY DrivenType DEF RefuseDispatch, Examines, IInv, TypeOK, Walks
  <1>2. /\ Ordered(entry[id], ledger[id].done, fired[id])
        /\ ~Covered(entry[id]) /\ entry[id].next # None
    BY <1>1 DEF History, RefuseDispatch, PassesOver, MayAct, IsDue
  <1>3. entry[id].policy = "FireOnce" /\ fired[id] # None =>
            ~Overdue(fired[id], entry[id].next)
    BY <1>1, <1>2, PastType, UncoveredFresh
  <1>4. Ordered([entry[id] EXCEPT !.skip = None], ledger[id].done, fired[id])
    BY <1>1, <1>2, <1>3 DEF Ordered, Entry
  <1>5. /\ Registered' = Registered /\ ledger' = ledger /\ fired' = fired
        /\ entry'[id] = [entry[id] EXCEPT !.skip = None]
        /\ \A other \in Ids \ {id} : entry'[other] = entry[other]
    BY <1>1 DEF RefuseDispatch, Registered, IInv, TypeOK
  <1> QED
    BY <1>1, <1>4, <1>5, HistoryAt

\* An issued attempt records the boundary of the backlog it acts on.
LEMMA BeginHistory ==
    ASSUME IInv, IInv', History, NEW t \in Ticks, BeginDispatch(t)
    PROVE  /\ History'
           /\ ledger[Driven(t)].done < entry[Driven(t)].next
           /\ entry[Driven(t)].policy = "FireOnce" /\ fired[Driven(t)] # None =>
                  ~Overdue(fired[Driven(t)], entry[Driven(t)].next)
  <1> DEFINE id == Driven(t)
             now == tick[t].now
  <1>1. id \in Ids /\ id \in Registered /\ entry[id] \in Entry /\ now \in Time
    BY DrivenType DEF BeginDispatch, Examines, IInv, TypeOK, Walks, Tick
  <1>2. /\ Ordered(entry[id], ledger[id].done, fired[id])
        /\ ~Covered(entry[id]) /\ entry[id].next # None
    BY <1>1 DEF History, BeginDispatch, PassesOver, MayAct, IsDue
  <1>3. entry[id].policy = "FireOnce" /\ fired[id] # None =>
            ~Overdue(fired[id], entry[id].next)
    BY <1>1, <1>2, PastType, UncoveredFresh
  <1>4. ledger[id].done < entry[id].next
    BY <1>2 DEF Ordered
  <1>5. /\ entry'[id].next = entry[id].next /\ entry'[id].policy = entry[id].policy
        /\ entry'[id].skip = Boundary(entry[id], now)
        /\ \A other \in Ids \ {id} : entry'[other] = entry[other]
    BY <1>1 DEF BeginDispatch, IInv, TypeOK, Entry
  <1>6. /\ Registered' = Registered
        /\ ledger'[id].done = ledger[id].done
        /\ \A other \in Ids \ {id} : ledger'[other] = ledger[other]
    BY <1>1 DEF BeginDispatch, Registered, IInv, TypeOK
  <1>7. /\ fired'[id] = IF Overdue(now, entry[id].next) /\ entry[id].policy = "FireOnce"
                        THEN now ELSE fired[id]
        /\ \A other \in Ids \ {id} : fired'[other] = fired[other]
    BY <1>1 DEF BeginDispatch, IInv, TypeOK
  <1>8. Ordered(entry'[id], ledger'[id].done, fired'[id])
    <2>1. now # None /\ now >= now
      BY <1>1, BoundsAssumption DEF Time, None
    <2>2. entry'[id].next # None => ledger'[id].done < entry'[id].next
      BY <1>4, <1>5, <1>6
    <2>3. CASE Overdue(now, entry[id].next) /\ entry[id].policy = "FireOnce"
      <3>1. entry'[id].skip = now /\ fired'[id] = now
        BY <1>5, <1>7, <2>3 DEF Boundary
      <3> QED
        BY <2>1, <2>2, <3>1 DEF Ordered
    <2>4. CASE ~(Overdue(now, entry[id].next) /\ entry[id].policy = "FireOnce")
      <3>1. fired'[id] = fired[id]
        BY <1>7, <2>4
      <3> QED
        BY <1>3, <1>5, <2>2, <3>1 DEF Ordered
    <2> QED
      BY <2>3, <2>4
  <1> QED
    BY <1>1, <1>3, <1>4, <1>5, <1>6, <1>7, <1>8, HistoryAt

\* A confirmed occurrence is behind the cursor it leaves, sweep included.
LEMMA ConfirmHistory ==
    ASSUME IInv, IInv', History, NEW t \in Ticks, SettleConfirmed(t) PROVE History'
  <1> DEFINE id == Driven(t)
             k == tick[t]
             e == [entry[id] EXCEPT !.token = None]
             advanced == AdvanceOnce(id, e)
             sweeping == k.misfired /\ e.policy = "FireOnce"
             limit == IF sweeping THEN MaxCatchUp - k.attempted ELSE 0
  <1>1. /\ id \in Ids /\ id \in Registered /\ entry[id] \in Entry /\ k \in Tick
        /\ entry[id].next = k.due /\ entry[id].next # None
    BY DispatchFacts DEF SettleConfirmed, Settles, Restorable
  <1>2. Ordered(entry[id], ledger[id].done, fired[id])
    BY <1>1 DEF History
  <1>3. k.misfired /\ entry[id].policy = "FireOnce" => entry[id].skip = k.now
    BY DEF SettleConfirmed, Settles, IInv, Attempts, Owns
  <1>4. PICK skipped \in 0..limit, to \in Cursor :
            /\ Sweeps(id, advanced.next, k.now, limit, skipped, to)
            /\ entry' = [entry EXCEPT ![id] =
                            WithCursor([advanced EXCEPT
                                           !.skip = IF sweeping THEN k.now ELSE @], to)]
    BY DEF SettleConfirmed
  <1>5. e \in Entry /\ e.next = entry[id].next /\ e.skip = entry[id].skip
        /\ e.policy = entry[id].policy /\ Ordered(e, ledger[id].done, fired[id])
    BY <1>1, <1>2 DEF Entry, Ordered
  <1> HIDE DEF e
  <1>6. /\ NextDue(id, e.next) \in Cursor
        /\ NextDue(id, e.next) # None => e.next < NextDue(id, e.next)
        /\ e.next \in Cursor
    BY <1>1, <1>5, NextDueType, NextDueForward DEF Entry
  <1>7. advanced.next = NextDue(id, e.next)
    BY <1>5, <1>6, WithCursorType DEF AdvanceOnce
  <1>8. to # None => e.next < to
    <2>1. limit \in Nat
      BY <1>1, <1>4, BoundsAssumption DEF Tick
    <2>2. k.now \in Time
      BY <1>1 DEF Tick
    <2> HIDE DEF advanced, limit
    <2> QED
      BY <1>1, <1>4, <1>6, <1>7, <2>1, <2>2, SweepForward
  <1>9. to # None => advanced.next # None /\ advanced.skip = e.skip
    <2>1. advanced.next = None => to = None
      <3> SUFFICES ASSUME advanced.next = None, to # None PROVE FALSE
        OBVIOUS
      <3>1. PICK path \in [0..skipped -> Cursor] :
                /\ path[0] = None
                /\ path[skipped] = to
                /\ \A i \in 0..(skipped - 1) : path[i] # None
        BY <1>4 DEF Sweeps
      <3>2. skipped = 0
        BY <3>1
      <3> QED
        BY <3>1, <3>2
    <2> QED
      BY <1>5, <1>7, <2>1 DEF AdvanceOnce, WithCursor, Entry
  <1>10. WithCursor([advanced EXCEPT !.skip = IF sweeping THEN k.now ELSE @], to).skip =
             IF to = None THEN None ELSE e.skip
    <2>1. advanced \in Entry
      BY <1>1, <1>5, AdvanceOnceType
    <2> HIDE DEF advanced
    <2> QED
      BY <1>3, <1>5, <1>9, <2>1 DEF WithCursor, Entry
  <1>11. /\ entry'[id].next = to /\ entry'[id].policy = e.policy
         /\ entry'[id].skip = IF to = None THEN None ELSE e.skip
    <2>1. advanced \in Entry /\ advanced.policy = e.policy
      BY <1>1, <1>5, AdvanceOnceType
    <2> HIDE DEF advanced, sweeping
    <2> QED
      BY <1>1, <1>4, <1>10, <2>1 DEF WithCursor, Entry, IInv, TypeOK
  <1>12. /\ Registered' = Registered /\ fired' = fired
         /\ ledger'[id].done = e.next
         /\ \A other \in Ids \ {id} : ledger'[other] = ledger[other]
         /\ \A other \in Ids \ {id} : entry'[other] = entry[other]
    BY <1>1, <1>4, <1>5 DEF SettleConfirmed, Registered, IInv, TypeOK
  <1>13. Ordered(entry'[id], ledger'[id].done, fired'[id])
    <2>1. entry'[id].next # None => ledger'[id].done < entry'[id].next
      BY <1>8, <1>11, <1>12
    <2>2. ASSUME e.policy = "FireOnce", fired[id] # None, to # None, Overdue(fired[id], to)
          PROVE  e.skip # None /\ e.skip >= fired[id]
      <3>1. PICK n \in Time, f \in Time, t1 \in Time : n = e.next /\ f = fired[id] /\ t1 = to
        BY <1>1, <1>4, <1>5, <1>6, <2>2, PastType DEF Cursor
      <3>2. n < t1 /\ Overdue(f, t1)
        BY <1>8, <2>2, <3>1
      <3>3. Overdue(f, n)
        BY <3>2, BoundsAssumption DEF Overdue, Time
      <3> QED
        BY <1>1, <1>5, <2>2, <3>1, <3>3 DEF Ordered
    <2> QED
      BY <1>11, <1>12, <2>1, <2>2 DEF Ordered
  <1> QED
    BY <1>1, <1>12, <1>13, HistoryAt

\* Outcomes that leave the cursor where it is, and a tick that unwinds.
LEMMA UnmovedHistory ==
    ASSUME IInv, IInv', History, NEW t \in Ticks,
           SettleNotStarted(t) \/ SettleUnknown(t) \/ PlanPanics(t)
    PROVE  History'
  <1> DEFINE id == Driven(t)
  <1>1. /\ tick[t].pc = "dispatch" /\ Settles(t) /\ id \in Ids /\ id \in Registered
        /\ entry[id] \in Entry
    BY DispatchFacts DEF SettleNotStarted, SettleUnknown, PlanPanics, Settles
  <1>2. Ordered(entry[id], ledger[id].done, fired[id])
    BY <1>1 DEF History
  <1>3. Registered' = Registered
    BY DEF SettleNotStarted, SettleUnknown, PlanPanics, Registered
  <1>4. CASE SettleNotStarted(t)
    <2>1. /\ entry'[id].next = entry[id].next /\ fired'[id] = None
          /\ ledger'[id].done = ledger[id].done
      BY <1>1, <1>4 DEF SettleNotStarted, IInv, TypeOK, Entry
    <2>2. \A other \in Ids \ {id} : /\ entry'[other] = entry[other]
                                    /\ ledger'[other] = ledger[other]
                                    /\ fired'[other] = fired[other]
      BY <1>1, <1>4 DEF SettleNotStarted, IInv, TypeOK
    <2>3. Ordered(entry'[id], ledger'[id].done, fired'[id])
      BY <1>2, <2>1 DEF Ordered
    <2> QED
      BY <1>1, <1>3, <2>2, <2>3, HistoryAt
  <1>5. CASE SettleUnknown(t) \/ PlanPanics(t)
    <2>1. entry' = [entry EXCEPT ![id].token = None] /\ ledger' = ledger /\ fired' = fired
      BY <1>1, <1>5 DEF SettleUnknown, PlanPanics
    <2>2. \A other \in Ids : /\ entry'[other].next = entry[other].next
                             /\ entry'[other].policy = entry[other].policy
                             /\ entry'[other].skip = entry[other].skip
      BY <1>1, <2>1, PastType DEF IInv, TypeOK, Entry
    <2>3. Registered \subseteq Ids
      <3>1. order \in Seq(Ids)
        BY DEF IInv, TypeOK
      <3> QED
        BY <3>1 DEF Registered
    <2> QED
      BY <1>3, <2>1, <2>2, <2>3, HistoryKept
  <1> QED
    BY <1>4, <1>5

\* The owner's operations on one schedule.
LEMMA OwnerHistory ==
    ASSUME IInv, IInv', History, OwnerStep PROVE History'
  <1>1. ASSUME NEW id \in Ids, NEW policy \in Policies, NEW next \in Cursor,
               AddSchedule(id, policy, next)
        PROVE  History'
    <2>1. Registered' = Registered \cup {id}
      BY <1>1, AppendRegisters DEF AddSchedule, IInv, TypeOK
    <2>2. /\ \A other \in Ids \ {id} : entry'[other] = entry[other]
          /\ \A other \in Ids \ {id} : ledger'[other] = ledger[other]
          /\ \A other \in Ids \ {id} : fired'[other] = fired[other]
          /\ ledger'[id].done = None /\ fired'[id] = None /\ entry'[id] \in Entry
      BY <1>1 DEF AddSchedule, IInv, TypeOK, NoHistory
    <2>3. Ordered(entry'[id], ledger'[id].done, fired'[id])
      BY <2>2 DEF Ordered, Entry, Cursor, Time, None
    <2> QED
      BY <2>1, <2>2, <2>3, HistoryAt
  <1>2. ASSUME NEW id \in Ids, RemoveSchedule(id) PROVE History'
    <2>1. Registered' \subseteq Registered
      <3>1. order \in Seq(Ids)
        BY DEF IInv, TypeOK
      <3>2. PICK position \in DOMAIN order :
                order' = [i \in 1..(Len(order) - 1) |->
                            IF i < position THEN order[i] ELSE order[i + 1]]
        BY <1>2 DEF RemoveSchedule
      <3>3. \A i \in DOMAIN order' : \E j \in DOMAIN order : order'[i] = order[j]
        BY <3>1, <3>2
      <3> QED
        BY <3>3 DEF Registered
    <2>2. /\ \A other \in Ids \ {id} : entry'[other] = entry[other]
          /\ ledger' = ledger /\ fired' = fired
          /\ entry'[id].next = None
      BY <1>2 DEF RemoveSchedule, IInv, TypeOK, Blank
    <2>3. Ordered(entry'[id], ledger'[id].done, fired'[id])
      BY <2>2 DEF Ordered
    <2> QED
      BY <2>1, <2>2, <2>3, HistoryAt
  <1>3. ASSUME NEW id \in Ids, PauseSchedule(id) \/ ResumeSchedule(id) PROVE History'
    <2>1. PICK status : SetPaused(id, status)
      BY <1>3 DEF PauseSchedule, ResumeSchedule
    <2>2. \A other \in Ids : /\ entry'[other].next = entry[other].next
                             /\ entry'[other].policy = entry[other].policy
                             /\ entry'[other].skip = entry[other].skip
      BY <2>1, PastType DEF SetPaused, IInv, TypeOK, Entry
    <2>3. Registered' = Registered /\ Registered \subseteq Ids
      BY <2>1 DEF SetPaused, Registered, IInv, TypeOK
    <2> QED
      BY <2>1, <2>2, <2>3, HistoryKept DEF SetPaused
  <1>4. ASSUME NEW id \in Ids, ResolveConfirmed(id) PROVE History'
    <2> DEFINE e == [entry[id] EXCEPT !.token = None]
    <2>1. id \in Registered /\ entry[id] \in Entry /\ entry[id].next # None
      BY <1>4, PastType DEF ResolveConfirmed, MayResolve, IInv, SnapshotsRestorable, Restorable
    <2>2. Ordered(entry[id], ledger[id].done, fired[id])
      BY <2>1 DEF History
    <2>3. e \in Entry /\ e.next = entry[id].next /\ Ordered(e, ledger[id].done, fired[id])
      BY <2>1, <2>2 DEF Ordered, Entry
    <2>4. /\ Registered' = Registered /\ fired' = fired
          /\ entry'[id] = AdvanceOnce(id, e) /\ ledger'[id].done = e.next
          /\ \A other \in Ids \ {id} : entry'[other] = entry[other]
          /\ \A other \in Ids \ {id} : ledger'[other] = ledger[other]
      BY <1>4, <2>3 DEF ResolveConfirmed, Registered, IInv, TypeOK
    <2> HIDE DEF e
    <2>5. /\ e.next \in Cursor /\ NextDue(id, e.next) \in Cursor
          /\ NextDue(id, e.next) # None => e.next < NextDue(id, e.next)
      BY <2>3, NextDueType, NextDueForward DEF Entry
    <2>6. Ordered(AdvanceOnce(id, e), e.next, fired[id])
      BY <2>1, <2>3, <2>5, PastType, ForwardOrdered DEF AdvanceOnce
    <2> QED
      BY <2>4, <2>6, HistoryAt
  <1>5. ASSUME NEW id \in Ids, ResolveRetry(id) PROVE History'
    <2>1. id \in Registered /\ entry[id] \in Entry
      BY <1>5, PastType DEF ResolveRetry, MayResolve
    <2>2. Ordered(entry[id], ledger[id].done, fired[id])
      BY <2>1 DEF History
    <2>3. /\ Registered' = Registered /\ fired'[id] = None
          /\ entry'[id].next = entry[id].next /\ ledger'[id].done = ledger[id].done
      BY <1>5, <2>1 DEF ResolveRetry, Registered, IInv, TypeOK, Entry
    <2>4. \A other \in Ids \ {id} : /\ entry'[other] = entry[other]
                                    /\ ledger'[other] = ledger[other]
                                    /\ fired'[other] = fired[other]
      BY <1>5 DEF ResolveRetry, IInv, TypeOK
    <2>5. Ordered(entry'[id], ledger'[id].done, fired'[id])
      BY <2>2, <2>3 DEF Ordered
    <2> QED
      BY <2>3, <2>4, <2>5, HistoryAt
  <1>6. CASE RefuseOwner
    BY <1>6 DEF RefuseOwner, History, Registered
  <1> QED
    BY <1>1, <1>2, <1>3, <1>4, <1>5, <1>6 DEF OwnerStep

\* A restart keeps the cursor and the boundary; a schedule that comes back under
\* another policy starts its FireOnce history over.
LEMMA RestartHistory ==
    ASSUME IInv, IInv', History, NEW policies \in [Ids -> Policies], Restart(policies)
    PROVE  History'
  <1>1. Registered' = Registered /\ Registered \subseteq Ids
    <2>1. order' = order
      BY DEF Restart
    <2>2. order \in Seq(Ids)
      BY DEF IInv, TypeOK
    <2> QED
      BY <2>1, <2>2 DEF Registered
  <1>2. ASSUME NEW id \in Registered
        PROVE  Ordered(entry'[id], ledger'[id].done, fired'[id])
    <2>1. id \in Ids /\ entry[id] \in Entry /\ Ordered(entry[id], ledger[id].done, fired[id])
      BY <1>1, <1>2, PastType DEF History
    <2>2. /\ entry'[id].next = entry[id].next /\ entry'[id].skip = entry[id].skip
          /\ entry'[id].policy = policies[id] /\ ledger' = ledger
          /\ fired'[id] = IF policies[id] # entry[id].policy THEN None ELSE fired[id]
      BY <1>2, <2>1 DEF Restart, RestoreFrom, Entry
    <2> QED
      BY <2>1, <2>2 DEF Ordered
  <1> QED
    BY <1>1, <1>2 DEF History

\* Only BeginDispatch moves a tick into the dispatcher.
LEMMA OnlyBeginDispatchBegins ==
    ASSUME IInv, [Next]_vars, NEW t \in Ticks, Begins(t)
    PROVE  BeginDispatch(t)
  <1> SUFFICES ASSUME ~BeginDispatch(t) PROVE FALSE
    OBVIOUS
  <1>1. Idle.pc = "idle" /\ Idle \in Tick
    BY IdleType DEF Idle
  <1>2. \A u \in Ticks, k \in Tick :
            TakeNext(u, k).pc # "dispatch"
    BY TakeNextType
  <1>3. \A u \in Ticks, k \in Tick : k.todo # <<>> => LeaveEntry(u, k).pc # "dispatch"
    BY LeaveEntryType
  <1>4. tick \in [Ticks -> Tick]
    BY DEF IInv, TypeOK
  <1>5. ASSUME NEW u \in Ticks, NEW k, tick' = [tick EXCEPT ![u] = k], k.pc # "dispatch"
        PROVE  FALSE
    BY <1>4, <1>5 DEF Begins
  <1>6. ASSUME tick' = tick PROVE FALSE
    BY <1>6 DEF Begins
  <1>7. ASSUME NEW u \in Ticks, NEW now \in Time, StartTick(u, now) PROVE FALSE
    <2>1. [Idle EXCEPT !.now = now, !.todo = order, !.remaining = MaxDispatchesPerTick] \in Tick
      <3>1. order \in Seq(Ids) /\ MaxDispatchesPerTick \in Nat
        BY BoundsAssumption DEF IInv, TypeOK
      <3> QED
        BY <1>1, <3>1 DEF Tick
    <2> QED
      BY <1>2, <1>5, <1>7, <2>1 DEF StartTick
  <1>8. ASSUME NEW u \in Ticks, TickStep(u) PROVE FALSE
    <2>1. tick[u] \in Tick
      BY <1>4
    <2>2. tick[u].pc \in {"decide", "dispatch", "post", "budget"} => tick[u].todo # <<>>
      BY DEF IInv, Walks
    <2>3. CASE PassEntry(u)
      BY <1>3, <1>5, <2>1, <2>2, <2>3 DEF PassEntry
    <2>4. CASE StopEntry(u)
      BY <1>4, <2>4 DEF StopEntry, Begins, Tick
    <2>5. CASE SkipOccurrence(u)
      BY <1>4, <2>5 DEF SkipOccurrence, Begins, Tick
    <2>6. CASE RefuseDispatch(u)
      <3>1. CASE Stopping(u)
        BY <1>4, <2>6, <3>1 DEF RefuseDispatch, Begins, Tick
      <3>2. CASE ~Stopping(u)
        <4> DEFINE k == [tick[u] EXCEPT !.saturated = TRUE]
        <4>1. k \in Tick /\ k.todo # <<>>
          BY <2>1, <2>2, <2>6 DEF RefuseDispatch, Examines, Tick
        <4>2. tick' = [tick EXCEPT ![u] = LeaveEntry(u, k)]
          BY <2>6, <3>2 DEF RefuseDispatch
        <4> QED
          BY <1>3, <1>5, <4>1, <4>2
      <3> QED
        BY <3>1, <3>2
    <2>7. CASE BeginDispatch(u)
      <3>1. t # u
        BY <2>7
      <3> QED
        BY <1>4, <2>7, <3>1 DEF BeginDispatch, Begins
    <2>8. CASE SettleConfirmed(u)
      BY <1>4, <2>1, <2>8, SettledType DEF SettleConfirmed, Begins, Tick
    <2>9. CASE SettleNotStarted(u)
      BY <1>5, <2>1, <2>9, SettledType DEF SettleNotStarted
    <2>10. CASE SettleUnknown(u)
      <3>1. Settles(u)
        BY <2>10, DispatchFacts DEF SettleUnknown
      <3> QED
        BY <1>5, <2>1, <2>10, <3>1, SettledType DEF SettleUnknown
    <2>11. CASE LeaveLoop(u)
      <3> DEFINE k == [tick[u] EXCEPT !.saturated = @ \/ Bounded(u)]
      <3>1. (tick[u].saturated \/ Bounded(u)) \in BOOLEAN
        OBVIOUS
      <3>2. k \in Tick /\ k.todo # <<>>
        BY <2>1, <2>2, <2>11, <3>1 DEF LeaveLoop, Tick
      <3>3. tick' = [tick EXCEPT ![u] = LeaveEntry(u, k)]
        BY <2>11 DEF LeaveLoop
      <3> HIDE DEF k
      <3> QED
        BY <1>3, <1>5, <3>2, <3>3
    <2>12. CASE ExhaustBudget(u)
      BY <1>4, <2>12 DEF ExhaustBudget, Begins, Idle
    <2>13. CASE FinishTick(u)
      BY <1>1, <1>5, <2>13 DEF FinishTick
    <2> QED
      BY <1>8, <2>3, <2>4, <2>5, <2>6, <2>7, <2>8, <2>9, <2>10, <2>11, <2>12, <2>13
         DEF TickStep
  <1>9. CASE \E u \in Ticks : AbandonTick(u) \/ PlanPanics(u)
    BY <1>1, <1>5, <1>9 DEF AbandonTick, PlanPanics
  <1>10. CASE OwnerStep
    BY <1>6, <1>10 DEF OwnerStep, AddSchedule, RemoveSchedule, PauseSchedule,
       ResumeSchedule, SetPaused, ResolveConfirmed, ResolveRetry, RefuseOwner
  <1>11. CASE RequestShutdown \/ UNCHANGED vars
    BY <1>6, <1>11 DEF RequestShutdown, vars
  <1>12. CASE \E policies \in [Ids -> Policies] : Restart(policies)
    BY <1>1, <1>12 DEF Restart, Begins
  <1> QED
    BY <1>7, <1>8, <1>9, <1>10, <1>11, <1>12 DEF Next

----------------------------------------------------------------------------
(* The invariant and the two theorems.                                      *)

\* Nothing is registered at first.
LEMMA InitHistory == Init => History
  BY DEF Init, History, Registered

\* Every step keeps cursors ahead of what happened.
LEMMA NextHistory == IInv /\ IInv' /\ History /\ [Next]_vars => History'
  <1> SUFFICES ASSUME IInv, IInv', History, [Next]_vars PROVE History'
    OBVIOUS
  <1>1. ASSUME UNCHANGED <<order, entry, ledger, fired>> PROVE History'
    BY <1>1 DEF History, Registered
  <1>2. CASE \E t \in Ticks, now \in Time : StartTick(t, now)
    BY <1>1, <1>2 DEF StartTick
  <1>3. ASSUME NEW t \in Ticks, TickStep(t) PROVE History'
    <2>1. CASE PassEntry(t) \/ StopEntry(t) \/ LeaveLoop(t) \/ ExhaustBudget(t) \/ FinishTick(t)
      BY <1>1, <2>1 DEF PassEntry, StopEntry, LeaveLoop, ExhaustBudget, FinishTick
    <2> QED
      BY <1>3, <2>1, SkipHistory, RefuseHistory, BeginHistory, ConfirmHistory,
         UnmovedHistory DEF TickStep
  <1>4. CASE \E t \in Ticks : AbandonTick(t)
    BY <1>1, <1>4 DEF AbandonTick
  <1>5. CASE \E t \in Ticks : PlanPanics(t)
    BY <1>5, UnmovedHistory
  <1>6. CASE OwnerStep
    BY <1>6, OwnerHistory
  <1>7. CASE RequestShutdown \/ UNCHANGED vars
    BY <1>1, <1>7 DEF RequestShutdown, vars
  <1>8. CASE \E policies \in [Ids -> Policies] : Restart(policies)
    BY <1>8, RestartHistory
  <1> QED
    BY <1>2, <1>3, <1>4, <1>5, <1>6, <1>7, <1>8 DEF Next

\* What BeginDispatch finds when it hands an occurrence to the dispatcher.
LEMMA BeginsFresh ==
    ASSUME IInv, IInv', History, [Next]_vars, NEW t \in Ticks, Begins(t)
    PROVE  /\ ledger[Driven(t)].open = None
           /\ ledger[Driven(t)].done < tick'[t].due
           /\ entry[Driven(t)].policy = "FireOnce" /\ fired[Driven(t)] # None =>
                  ~Overdue(fired[Driven(t)], tick'[t].due)
  <1>1. BeginDispatch(t)
    BY OnlyBeginDispatchBegins
  <1>2. tick'[t].due = entry[Driven(t)].next
    BY <1>1 DEF BeginDispatch, IInv, TypeOK, Tick
  <1>3. entry[Driven(t)].status = "Active" /\ Driven(t) \in Ids
    BY <1>1, DrivenType DEF BeginDispatch, MayAct, Examines
  <1>4. ledger[Driven(t)].open = None
    BY <1>3 DEF IInv, UnresolvedStaysPinned
  <1> QED
    BY <1>1, <1>2, <1>4, BeginHistory

\* No occurrence is started that may already have happened: the status, the
\* running set and the forward-only cursor of the scheduler make it so for any
\* number of ticks and whatever the owner does between their steps.
THEOREM SchedulerNoRepeat == Spec => NoUnapprovedRepeat
  <1>1. IInv /\ IInv' /\ History /\ [Next]_vars =>
            [\A t \in Ticks : Begins(t) =>
                /\ ledger[Driven(t)].open = None
                /\ ledger[Driven(t)].done < tick'[t].due]_vars
    BY BeginsFresh
  <1> QED
    BY <1>1, InitIInv, NextIInv, InitHistory, NextHistory, PTL DEF Spec, NoUnapprovedRepeat

\* One occurrence per FireOnce backlog: the boundary recorded before the attempt
\* starts is enough, whichever way the attempt ends.
THEOREM SchedulerFireOnce == Spec => FireOnceOncePerBacklog
  <1>1. IInv /\ IInv' /\ History /\ [Next]_vars =>
            [\A t \in Ticks :
                LET id == Driven(t) IN
                Begins(t) /\ entry[id].policy = "FireOnce" /\ fired[id] # None =>
                    ~Overdue(fired[id], tick'[t].due)]_vars
    BY BeginsFresh
  <1> QED
    BY <1>1, InitIInv, NextIInv, InitHistory, NextHistory, PTL
       DEF Spec, FireOnceOncePerBacklog
=============================================================================

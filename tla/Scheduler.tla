----------------------------- MODULE Scheduler -----------------------------
(***************************************************************************)
(* The bounded in-memory scheduler of plenora-runtime-scheduler: a         *)
(* registry of schedules behind one lock, any number of concurrent ticks   *)
(* that drive due occurrences, and the owner's operations (add, remove,    *)
(* pause, resume, reconcile, restart from snapshots).                      *)
(*                                                                         *)
(* One action is one critical section of the registry lock, with the       *)
(* unlocked code that follows it up to the next lock or await.  The        *)
(* dispatcher runs between BeginDispatch and Settle, with the lock free.   *)
(***************************************************************************)
EXTENDS Integers, Sequences, FiniteSets

CONSTANTS
    Ids,                    \* schedule identities
    Ticks,                  \* slots for ticks that may be in progress at once
    RunTicks,               \* the ticks of Scheduler::run, which watch for shutdown
    Policies,               \* misfire policies the definitions use
    Tokens,                 \* names for dispatch tokens (fresh when issued)
    MaxTime,                \* bound: instants are 0..MaxTime
    MaxSchedules,           \* SchedulerConfig::max_schedules
    MaxDispatchesPerTick,   \* SchedulerConfig::max_dispatches_per_tick
    MaxCatchUp,             \* SchedulerConfig::max_catch_up_per_schedule
    MisfireGrace,           \* SchedulerConfig::misfire_grace
    NextAfter(_, _)         \* the plan of a schedule: SchedulePlan::next_after

None == -1
Time == 0..MaxTime
Cursor == Time \cup {None}

ASSUME BoundsAssumption ==
    /\ MaxTime \in Nat
    /\ MaxSchedules \in Nat \ {0}
    /\ MaxDispatchesPerTick \in Nat \ {0}
    /\ MaxCatchUp \in Nat \ {0}
    /\ MisfireGrace \in Nat
    /\ Tokens \subseteq Nat
    /\ IsFiniteSet(Ids)
    /\ RunTicks \subseteq Ticks
    /\ Policies \subseteq {"Skip", "FireOnce", "CatchUp"}

\* A plan is application code: it may name no next instant, and nothing stops
\* it from naming one that is not later than the previous one.
ASSUME PlanAssumption == \A id \in Ids, due \in Time : NextAfter(id, due) \in Cursor

Statuses == {"Active", "Paused", "Completed", "ReconciliationRequired"}

VARIABLES
    order,      \* Registry::entries, the identities in registration order
    entry,      \* Registry::entries, the definition and cursor of each identity
    running,    \* Registry::running, the issued attempts not yet pruned
    active,     \* tokens of the attempts whose DispatchGuard flag is still set
    tick,       \* the local state of each tick_observing call
    shutdown,   \* the ShutdownSignal watched by run
    ledger,     \* ghost: the occurrence in doubt and the newest one that happened
    fired       \* ghost: where the newest backlog FireOnce started from was measured

vars == <<order, entry, running, active, tick, shutdown, ledger, fired>>

Entry == [policy : {"Skip", "FireOnce", "CatchUp"}, next : Cursor, status : Statuses,
          skip : Cursor, token : Tokens \cup {None}]

Tick == [pc : {"idle", "decide", "dispatch", "post", "budget", "done"},
         now : Time, todo : Seq(Ids), remaining : Nat, attempted : Nat,
         examined : BOOLEAN, due : Cursor, misfired : BOOLEAN,
         token : Tokens \cup {None}, saturated : BOOLEAN]

Blank == [policy |-> "Skip", next |-> None, status |-> "Completed",
          skip |-> None, token |-> None]

Idle == [pc |-> "idle", now |-> 0, todo |-> <<>>, remaining |-> 0,
         attempted |-> 0, examined |-> FALSE, due |-> None, misfired |-> FALSE,
         token |-> None, saturated |-> FALSE]

NoHistory == [open |-> None, done |-> None]

Registered == {order[i] : i \in DOMAIN order}
Driven(t) == Head(tick[t].todo)

----------------------------------------------------------------------------
(* Pure helpers of scheduler.rs.                                            *)

Overdue(reference, due) == reference - due > MisfireGrace

\* Mutant: trusts the plan to answer a later instant.
NextDueUnfiltered(id, due) == IF due # None THEN NextAfter(id, due) ELSE None

NextDue(id, due) ==
    IF due # None /\ NextAfter(id, due) > due THEN NextAfter(id, due) ELSE None

WithCursor(e, next) ==
    [e EXCEPT !.next = next,
              !.status = IF next = None THEN "Completed" ELSE "Active",
              !.skip = IF next = None THEN None ELSE @]

AdvanceOnce(id, e) == WithCursor(e, NextDue(id, e.next))

\* skip_through_now: the overdue occurrences from cursor `from` on, at most
\* `limit` of them, are `skipped` many and leave the cursor at `to`.
Sweeps(id, from, now, limit, skipped, to) ==
    LET Sweepable(due) == due # None /\ due <= now /\ Overdue(now, due)
    IN  \E path \in [0..skipped -> Cursor] :
            /\ path[0] = from
            /\ path[skipped] = to
            /\ \A i \in 0..(skipped - 1) :
                   Sweepable(path[i]) /\ path[i + 1] = NextDue(id, path[i])
            /\ skipped = limit \/ ~Sweepable(to)

\* The abandonment boundary already decided not to dispatch the next occurrence.
Covered(e) ==
    /\ e.policy = "FireOnce"
    /\ e.skip # None
    /\ e.next <= e.skip
    /\ Overdue(e.skip, e.next)

\* Mutant: the boundary is left for the confirmation to record.
BoundaryDeferred(e, now) == None

\* The boundary an attempt records before it starts.
Boundary(e, now) ==
    IF e.policy = "FireOnce" /\ Overdue(now, e.next) THEN now ELSE None

IsDue(e, now) == e.next # None /\ e.next <= now

HasDue(now) == \E id \in Registered : entry[id].status = "Active" /\ IsDue(entry[id], now)

\* The checks of Schedule::restore_from on a snapshot.
Restorable(e) ==
    /\ (e.status = "Completed") <=> (e.next = None)
    /\ e.next = None => e.skip = None

\* Mutant: a snapshot forgets that the occurrence is in doubt.
RestoreFromCursorOnly(e, policy) ==
    [e EXCEPT !.policy = policy, !.token = None,
              !.status = IF e.next = None THEN "Completed" ELSE "Active"]

RestoreFrom(e, policy) == [e EXCEPT !.policy = policy, !.token = None]

IsRunning(id) == \E r \in running : r.id = id /\ r.token \in active

Prune == {r \in running : r.token \in active}
HasDispatchCapacity == Cardinality(Prune) < MaxSchedules

\* dispatch_tokens never repeats a value, so a token is fresh with respect to
\* every copy of a token that is held anywhere once the registry is pruned.
InUse == {entry[id].token : id \in Ids} \cup {r.token : r \in Prune} \cup active

----------------------------------------------------------------------------
(* A tick: tick_observing walks the identities it copied at its start, and  *)
(* process_entry drives one of them.                                        *)

Stopping(t) == t \in RunTicks /\ shutdown

\* The loop head of tick_observing: on to the first schedule left, unless there
\* is none or a shutdown is observed.
TakeNext(t, k) ==
    IF k.todo = <<>> \/ Stopping(t)
    THEN [Idle EXCEPT !.pc = "done", !.now = k.now, !.saturated = k.saturated]
    ELSE [k EXCEPT !.pc = "decide", !.attempted = 0, !.examined = FALSE]

\* process_entry returned: an exhausted global bound ends the walk.
LeaveEntry(t, k) ==
    IF k.remaining = 0 THEN [k EXCEPT !.pc = "budget"]
    ELSE TakeNext(t, [k EXCEPT !.todo = Tail(@)])

StartTick(t, now) ==
    /\ tick[t].pc = "idle"
    /\ ~Stopping(t)
    /\ tick' = [tick EXCEPT ![t] =
                   TakeNext(t, [Idle EXCEPT !.now = now, !.todo = order,
                                            !.remaining = MaxDispatchesPerTick])]
    /\ UNCHANGED <<order, entry, running, active, shutdown, ledger, fired>>

\* The entry is gone, or was not active when this tick first looked at it.
PassEntry(t) ==
    /\ tick[t].pc = "decide"
    /\ Driven(t) \in Registered =>
           ~tick[t].examined /\ entry[Driven(t)].status # "Active"
    /\ running' = Prune
    /\ tick' = [tick EXCEPT ![t] = LeaveEntry(t, @)]
    /\ UNCHANGED <<order, entry, active, shutdown, ledger, fired>>

Examines(t) ==
    /\ tick[t].pc = "decide"
    /\ Driven(t) \in Registered
    /\ tick[t].examined \/ entry[Driven(t)].status = "Active"

MayAct(t) ==
    LET k == tick[t]
        e == entry[Driven(t)]
    IN  /\ e.status = "Active"
        /\ k.remaining > 0
        /\ k.attempted < MaxCatchUp
        /\ IsDue(e, k.now)

\* An occurrence decide passes over: behind the boundary, or a Skip misfire.
PassesOver(t) ==
    LET e == entry[Driven(t)]
    IN  Covered(e) \/ (e.policy = "Skip" /\ Overdue(tick[t].now, e.next))

StopEntry(t) ==
    /\ Examines(t)
    /\ ~MayAct(t)
    /\ running' = Prune
    /\ tick' = [tick EXCEPT ![t].pc = "post", ![t].examined = TRUE]
    /\ UNCHANGED <<order, entry, active, shutdown, ledger, fired>>

SkipOccurrence(t) ==
    LET id == Driven(t)
        e == entry[id]
    IN  /\ Examines(t)
        /\ MayAct(t)
        /\ PassesOver(t)
        /\ running' = Prune
        /\ entry' = [entry EXCEPT ![id] =
                        AdvanceOnce(id, IF Covered(e) THEN e ELSE [e EXCEPT !.skip = None])]
        /\ tick' = [tick EXCEPT ![t].attempted = @ + 1, ![t].examined = TRUE]
        /\ UNCHANGED <<order, active, shutdown, ledger, fired>>

\* Past the boundary the pending occurrence is the one to start, unless the
\* process is shutting down or the set of running attempts is full.
RefuseDispatch(t) ==
    /\ Examines(t)
    /\ MayAct(t)
    /\ ~PassesOver(t)
    /\ Stopping(t) \/ ~HasDispatchCapacity
    /\ running' = Prune
    /\ entry' = [entry EXCEPT ![Driven(t)].skip = None]
    /\ tick' = [tick EXCEPT ![t] =
                   IF Stopping(t) THEN [@ EXCEPT !.pc = "post", !.examined = TRUE]
                   ELSE LeaveEntry(t, [@ EXCEPT !.saturated = TRUE])]
    /\ UNCHANGED <<order, active, shutdown, ledger, fired>>

BeginDispatch(t) ==
    LET id == Driven(t)
        e == entry[id]
        k == tick[t]
        misfired == Overdue(k.now, e.next)
    IN  /\ Examines(t)
        /\ MayAct(t)
        /\ ~PassesOver(t)
        /\ ~Stopping(t)
        /\ HasDispatchCapacity
        /\ \E token \in Tokens \ InUse :
               /\ \A other \in Tokens \ InUse : token <= other
               /\ entry' = [entry EXCEPT ![id] =
                               [e EXCEPT !.status = "ReconciliationRequired",
                                         !.skip = Boundary(e, k.now),
                                         !.token = token]]
               /\ running' = Prune \cup {[id |-> id, token |-> token]}
               /\ active' = active \cup {token}
               /\ tick' = [tick EXCEPT ![t] =
                              [k EXCEPT !.pc = "dispatch", !.examined = TRUE,
                                        !.attempted = @ + 1, !.remaining = @ - 1,
                                        !.due = e.next, !.misfired = misfired,
                                        !.token = token]]
        /\ ledger' = [ledger EXCEPT ![id].open = e.next]
        /\ fired' = IF misfired /\ e.policy = "FireOnce"
                    THEN [fired EXCEPT ![id] = k.now] ELSE fired
        /\ UNCHANGED <<order, shutdown>>

\* The guard of the attempt the tick is driving, if any, is dropped.
Release(t) ==
    active' = IF tick[t].pc = "dispatch" THEN active \ {tick[t].token} ELSE active

Settled(k, pc) ==
    [k EXCEPT !.pc = pc, !.due = None, !.misfired = FALSE, !.token = None]

Settles(t) ==
    /\ tick[t].pc = "dispatch"
    /\ Driven(t) \in Registered
    /\ entry[Driven(t)].token = tick[t].token

\* apply_outcome for a confirmed dispatch: advance, then drop the overdue
\* backlog under FireOnce, within what is left of the per-schedule bound.
SettleConfirmed(t) ==
    LET id == Driven(t)
        k == tick[t]
        e == [entry[id] EXCEPT !.token = None]
        advanced == AdvanceOnce(id, e)
        sweeping == k.misfired /\ e.policy = "FireOnce"
        limit == IF sweeping THEN MaxCatchUp - k.attempted ELSE 0
    IN  /\ Settles(t)
        /\ \E skipped \in 0..limit, to \in Cursor :
               /\ Sweeps(id, advanced.next, k.now, limit, skipped, to)
               /\ entry' = [entry EXCEPT ![id] =
                               WithCursor([advanced EXCEPT
                                              !.skip = IF sweeping THEN k.now ELSE @], to)]
               /\ tick' = [tick EXCEPT ![t] =
                              [Settled(k, "decide") EXCEPT !.attempted = @ + skipped]]
        /\ Release(t)
        /\ ledger' = [ledger EXCEPT ![id] = [open |-> None, done |-> k.due]]
        /\ UNCHANGED <<order, running, shutdown, fired>>

SettleNotStarted(t) ==
    LET id == Driven(t)
    IN  /\ Settles(t)
        /\ entry' = [entry EXCEPT ![id] =
                        [@ EXCEPT !.token = None, !.status = "Active", !.skip = None]]
        /\ tick' = [tick EXCEPT ![t] = Settled(@, "post")]
        /\ Release(t)
        /\ ledger' = [ledger EXCEPT ![id].open = None]
        /\ fired' = [fired EXCEPT ![id] = None]
        /\ UNCHANGED <<order, running, shutdown>>

\* An unknown error or the dispatch timeout leaves the entry unresolved.  Any
\* result is discarded when the entry is not the one the attempt was issued for.
SettleUnknown(t) ==
    /\ tick[t].pc = "dispatch"
    /\ entry' = IF Settles(t) THEN [entry EXCEPT ![Driven(t)].token = None] ELSE entry
    /\ tick' = [tick EXCEPT ![t] = IF Settles(t) THEN Settled(@, "post")
                                   ELSE LeaveEntry(t, Settled(@, "decide"))]
    /\ Release(t)
    /\ UNCHANGED <<order, running, shutdown, ledger, fired>>

\* The per-schedule bound left due work behind.
Bounded(t) ==
    /\ Driven(t) \in Registered
    /\ entry[Driven(t)].status = "Active"
    /\ tick[t].attempted >= MaxCatchUp
    /\ IsDue(entry[Driven(t)], tick[t].now)

\* After the loop of process_entry.
LeaveLoop(t) ==
    LET k == [tick[t] EXCEPT !.saturated = @ \/ Bounded(t)]
    IN  /\ tick[t].pc = "post"
        /\ tick' = [tick EXCEPT ![t] = LeaveEntry(t, k)]
        /\ UNCHANGED <<order, entry, running, active, shutdown, ledger, fired>>

\* The global bound is used up: is anything still due anywhere?
ExhaustBudget(t) ==
    /\ tick[t].pc = "budget"
    /\ tick' = [tick EXCEPT ![t] =
                   [Idle EXCEPT !.pc = "done", !.now = tick[t].now,
                                !.saturated = tick[t].saturated \/ HasDue(tick[t].now)]]
    /\ UNCHANGED <<order, entry, running, active, shutdown, ledger, fired>>

\* The report is handed to the observer and to the caller.
FinishTick(t) ==
    /\ tick[t].pc = "done"
    /\ tick' = [tick EXCEPT ![t] = Idle]
    /\ UNCHANGED <<order, entry, running, active, shutdown, ledger, fired>>

\* Mutant: only a settled outcome ends the attempt, not the drop of its tick.
AbandonTickLeaky(t) ==
    /\ tick[t].pc \notin {"idle", "done"}
    /\ tick' = [tick EXCEPT ![t] = Idle]
    /\ UNCHANGED <<order, entry, running, active, shutdown, ledger, fired>>

\* The caller drops the tick future.  A guard it held is dropped with it; the
\* record of the attempt stays in the registry until somebody prunes it.
AbandonTick(t) ==
    /\ tick[t].pc \notin {"idle", "done"}
    /\ Release(t)
    /\ tick' = [tick EXCEPT ![t] = Idle]
    /\ UNCHANGED <<order, entry, running, shutdown, ledger, fired>>

\* The application's plan panics while a confirmed outcome is applied: the
\* token is already cleared and the tick unwinds.
PlanPanics(t) ==
    /\ Settles(t)
    /\ entry' = [entry EXCEPT ![Driven(t)].token = None]
    /\ Release(t)
    /\ tick' = [tick EXCEPT ![t] = Idle]
    /\ UNCHANGED <<order, running, shutdown, ledger, fired>>

----------------------------------------------------------------------------
(* The owner's operations.  Each one prunes the running set first.          *)

\* A new definition: Schedule::new, with the cursor of with_next_due_at.  It
\* starts a new history for the identity.
AddSchedule(id, policy, next) ==
    /\ Len(order) < MaxSchedules
    /\ id \notin Registered
    /\ ~IsRunning(id)
    /\ running' = Prune
    /\ order' = Append(order, id)
    /\ entry' = [entry EXCEPT ![id] = WithCursor([Blank EXCEPT !.policy = policy], next)]
    /\ ledger' = [ledger EXCEPT ![id] = NoHistory]
    /\ fired' = [fired EXCEPT ![id] = None]
    /\ UNCHANGED <<active, tick, shutdown>>

MayRemove(id) == id \in Registered /\ entry[id].status # "ReconciliationRequired"

RemoveSchedule(id) ==
    /\ MayRemove(id)
    /\ \E position \in DOMAIN order :
           /\ order[position] = id
           /\ order' = [i \in 1..(Len(order) - 1) |->
                            IF i < position THEN order[i] ELSE order[i + 1]]
    /\ running' = Prune
    /\ entry' = [entry EXCEPT ![id] = Blank]
    /\ UNCHANGED <<active, tick, shutdown, ledger, fired>>

SetPaused(id, status) ==
    /\ id \in Registered
    /\ entry[id].status \in {"Active", "Paused"}
    /\ running' = Prune
    /\ entry' = [entry EXCEPT ![id].status = status]
    /\ UNCHANGED <<order, active, tick, shutdown, ledger, fired>>

PauseSchedule(id) == SetPaused(id, "Paused")
ResumeSchedule(id) == SetPaused(id, "Active")

\* Mutant: the owner may decide while the attempt is still driven.
MayResolveAnytime(id) ==
    id \in Registered /\ entry[id].status = "ReconciliationRequired"

MayResolve(id) ==
    /\ ~IsRunning(id)
    /\ id \in Registered
    /\ entry[id].status = "ReconciliationRequired"

ResolveConfirmed(id) ==
    /\ MayResolve(id)
    /\ running' = Prune
    /\ entry' = [entry EXCEPT ![id] = AdvanceOnce(id, [@ EXCEPT !.token = None])]
    /\ ledger' = [ledger EXCEPT ![id] = [open |-> None, done |-> entry[id].next]]
    /\ UNCHANGED <<order, active, tick, shutdown, fired>>

ResolveRetry(id) ==
    /\ MayResolve(id)
    /\ running' = Prune
    /\ entry' = [entry EXCEPT ![id] =
                    [@ EXCEPT !.token = None, !.skip = None, !.status = "Active"]]
    /\ ledger' = [ledger EXCEPT ![id].open = None]
    /\ fired' = [fired EXCEPT ![id] = None]
    /\ UNCHANGED <<order, active, tick, shutdown>>

\* An owner operation that is refused has still pruned the running set.
RefuseOwner ==
    /\ running' = Prune
    /\ UNCHANGED <<order, entry, active, tick, shutdown, ledger, fired>>

RequestShutdown ==
    /\ ~shutdown
    /\ shutdown' = TRUE
    /\ UNCHANGED <<order, entry, running, active, tick, ledger, fired>>

\* The process stops, dropping every future, and a new one restores each
\* schedule from its last snapshot.  A definition may come back under another
\* misfire policy, which starts the FireOnce history over.
Restart(policies) ==
    /\ \A id \in Registered : Restorable(entry[id])
    /\ entry' = [id \in Ids |-> IF id \in Registered
                                THEN RestoreFrom(entry[id], policies[id]) ELSE Blank]
    /\ fired' = [id \in Ids |-> IF id \in Registered /\ policies[id] # entry[id].policy
                                THEN None ELSE fired[id]]
    /\ running' = {}
    /\ active' = {}
    /\ tick' = [t \in Ticks |-> Idle]
    /\ shutdown' = FALSE
    /\ UNCHANGED <<order, ledger>>

----------------------------------------------------------------------------
Init ==
    /\ order = <<>>
    /\ entry = [id \in Ids |-> Blank]
    /\ running = {}
    /\ active = {}
    /\ tick = [t \in Ticks |-> Idle]
    /\ shutdown = FALSE
    /\ ledger = [id \in Ids |-> NoHistory]
    /\ fired = [id \in Ids |-> None]

\* What a tick does on its own once started.
TickStep(t) ==
    \/ PassEntry(t)
    \/ StopEntry(t)
    \/ SkipOccurrence(t)
    \/ RefuseDispatch(t)
    \/ BeginDispatch(t)
    \/ SettleConfirmed(t)
    \/ SettleNotStarted(t)
    \/ SettleUnknown(t)
    \/ LeaveLoop(t)
    \/ ExhaustBudget(t)
    \/ FinishTick(t)

OwnerStep ==
    \/ \E id \in Ids, policy \in Policies, next \in Cursor : AddSchedule(id, policy, next)
    \/ \E id \in Ids : RemoveSchedule(id)
    \/ \E id \in Ids : PauseSchedule(id)
    \/ \E id \in Ids : ResumeSchedule(id)
    \/ \E id \in Ids : ResolveConfirmed(id)
    \/ \E id \in Ids : ResolveRetry(id)
    \/ RefuseOwner

Next ==
    \/ \E t \in Ticks, now \in Time : StartTick(t, now)
    \/ \E t \in Ticks : TickStep(t)
    \/ \E t \in Ticks : AbandonTick(t)
    \/ \E t \in Ticks : PlanPanics(t)
    \/ OwnerStep
    \/ RequestShutdown
    \/ \E policies \in [Ids -> Policies] : Restart(policies)

Spec == Init /\ [][Next]_vars

\* A started tick keeps being polled, and its dispatcher call returns or is
\* cut by dispatch_timeout.
FairSpec == Spec /\ \A t \in Ticks : WF_vars(TickStep(t))

----------------------------------------------------------------------------
(* Properties.                                                              *)

\* Every variable stays within the shape its declaration gives it.
TypeOK ==
    /\ order \in Seq(Ids)
    /\ entry \in [Ids -> Entry]
    /\ running \in SUBSET [id : Ids, token : Tokens]
    /\ active \in SUBSET Tokens
    /\ tick \in [Ticks -> Tick]
    /\ shutdown \in BOOLEAN
    /\ ledger \in [Ids -> [open : Cursor, done : Cursor]]
    /\ fired \in [Ids -> Cursor]

\* Two ticks never have the dispatcher working for the same schedule at once,
\* whatever the owner did between their critical sections.
OneAttemptPerSchedule ==
    \A t, u \in Ticks :
        tick[t].pc = "dispatch" /\ tick[u].pc = "dispatch" /\ Driven(t) = Driven(u) => t = u

\* While an attempt is driven, its schedule is registered, blocked, still at the
\* occurrence being attempted, and holds the attempt's token: the two guards
\* of process_entry that would discard the outcome are never taken.
AttemptOwnsItsSchedule ==
    \A t \in Ticks : tick[t].pc = "dispatch" =>
        /\ Driven(t) \in Registered
        /\ entry[Driven(t)].status = "ReconciliationRequired"
        /\ entry[Driven(t)].next = tick[t].due
        /\ entry[Driven(t)].token = tick[t].token

\* An occurrence whose effect is undetermined keeps its schedule registered,
\* blocked and pointing at it, until the outcome or the owner decides: the only
\* record of the doubt is never lost, through abandoned ticks and restarts.
UnresolvedStaysPinned ==
    \A id \in Ids : ledger[id].open # None =>
        /\ id \in Registered
        /\ entry[id].status = "ReconciliationRequired"
        /\ entry[id].next = ledger[id].open

\* The set of running attempts respects its cap even with the records nobody
\* pruned yet, and it is never full when an active schedule asks for a slot.
RunningSetSuffices ==
    /\ Cardinality(running) <= MaxSchedules
    /\ (\E id \in Registered : entry[id].status = "Active") => HasDispatchCapacity

\* Every snapshot that can be taken is one that restore_from accepts.
SnapshotsRestorable == \A id \in Registered : Restorable(entry[id])

Begins(t) == tick[t].pc # "dispatch" /\ tick'[t].pc = "dispatch"

\* An occurrence is handed to the dispatcher only when nothing of it, or of a
\* later one, may already have happened: never while an attempt is in doubt,
\* never twice, never out of order, until NotStarted or the owner's Retry says
\* that it did not happen.
NoUnapprovedRepeat ==
    [][\A t \in Ticks : Begins(t) =>
          /\ ledger[Driven(t)].open = None
          /\ ledger[Driven(t)].done < tick'[t].due]_vars

\* FireOnce starts at most one occurrence of a backlog: once one was started for
\* a backlog measured at an instant, no occurrence overdue at that instant is
\* started, by any tick, after any outcome but NotStarted and the owner's Retry.
FireOnceOncePerBacklog ==
    [][\A t \in Ticks :
          LET id == Driven(t) IN
          Begins(t) /\ entry[id].policy = "FireOnce" /\ fired[id] # None =>
              ~Overdue(fired[id], tick'[t].due)]_vars

\* An attempt never blocks its owner forever: it stops counting as running.
AttemptsEnd == \A id \in Ids : IsRunning(id) ~> ~IsRunning(id)

============================================================================

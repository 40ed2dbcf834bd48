------------------------------- MODULE Outbox -------------------------------
(***************************************************************************)
(* OutboxRelay and InMemoryOutboxStore of plenora-runtime-outbox: several  *)
(* relays claim batches of pending entries from one store, publish them    *)
(* and record what became of each.                                         *)
(*                                                                         *)
(* A store operation is one critical section; every await between two of   *)
(* them is a point where other relays act or the run is dropped. Entries   *)
(* are numbered in the order claim_pending sorts them, so what is left of  *)
(* a batch is a set and its least element is the next one. The broker is   *)
(* the outcome of publish. The recovery of stranded claims, which the      *)
(* trait leaves to a concrete store, is external.                          *)
(***************************************************************************)
EXTENDS Integers, FiniteSets

CONSTANTS
    MaxEntries,         \* bound: the entries inserted
    Relays,             \* the relays that run on the store
    BatchSize,          \* RelayConfig::batch_size
    ProducerError,      \* RelayPolicy::producer_error
    OutcomeUnknown,     \* RelayPolicy::outcome_unknown
    FaultBudget,        \* bound: operations of the store or the producer that fail
    DropBudget          \* bound: runs that are dropped

ASSUME BoundsAssumption ==
    /\ MaxEntries \in Nat /\ BatchSize \in Nat \ {0}
    /\ FaultBudget \in Nat /\ DropBudget \in Nat
ASSUME PolicyAssumption ==
    /\ ProducerError \in {"Retry", "Reconcile", "Terminal"}
    /\ OutcomeUnknown \in {"Retry", "Reconcile", "Terminal"}

Entries == 1..MaxEntries
States == {"Absent", "Pending", "Claimed", "Published", "AwaitingReconciliation", "Failed"}

VARIABLES
    entry,      \* the state of each OutboxRecord
    relay,      \* how far each relay's run_once is
    applied,    \* how often the broker has taken each entry's message
    recovered,  \* how often the claim of each entry was recovered
    stranded,   \* why an entry is claimed by no run
    faults,     \* the failures left to inject
    drops       \* the dropped runs left

vars == <<entry, relay, applied, recovered, stranded, faults, drops>>

\* todo: claimed and not attempted; current: the entry at hand, 0 for none;
\* the other fields are the RelayBatchReport and the result.
Relay == [pc : {"idle", "next", "confirmed", "unknown", "erred", "release"},
          todo : SUBSET Entries, current : 0..MaxEntries,
          claimed : Nat, published : Nat, retried : Nat, reconcile : Nat, terminal : Nat,
          unreleased : Nat, result : {"None", "Ok", "Store", "Publish", "PublishAndStore"}]

NoRun == [pc |-> "idle", todo |-> {}, current |-> 0, claimed |-> 0, published |-> 0,
          retried |-> 0, reconcile |-> 0, terminal |-> 0, unreleased |-> 0, result |-> "None"]

At(r, pc) == relay[r].pc = pc
Put(r, k) == relay' = [relay EXCEPT ![r] = k]
First(S) == CHOOSE e \in S : \A f \in S : e <= f
InState(state) == {e \in Entries : entry[e] = state}

\* The state mark_failed gives an entry.
FailedState(disposition) ==
    CASE disposition = "Retry" -> "Pending"
      [] disposition = "Reconcile" -> "AwaitingReconciliation"
      [] disposition = "Terminal" -> "Failed"

\* record_disposition.
Recorded(k, disposition) ==
    CASE disposition = "Retry" -> [k EXCEPT !.retried = @ + 1]
      [] disposition = "Reconcile" -> [k EXCEPT !.reconcile = @ + 1]
      [] disposition = "Terminal" -> [k EXCEPT !.terminal = @ + 1]

\* FaultPlan::check: an operation works, or uses up an injected failure.
Works == UNCHANGED faults
Fault == faults > 0 /\ faults' = faults - 1

----------------------------------------------------------------------------
(* The store.                                                               *)

\* insert; the consumer's own transaction.
Insert ==
    /\ \E e \in InState("Absent") :
        /\ \A f \in InState("Absent") : e <= f
        /\ entry' = [entry EXCEPT ![e] = "Pending"]
    /\ UNCHANGED <<relay, applied, recovered, stranded, faults, drops>>

\* Mutant: only a full batch is worth a claim.
BatchFull ==
    {e \in InState("Pending") : /\ Cardinality(InState("Pending")) >= BatchSize
                                /\ Cardinality({f \in InState("Pending") : f <= e}) <= BatchSize}

\* The oldest pending entries, at most BatchSize of them.
Batch == {e \in InState("Pending") : Cardinality({f \in InState("Pending") : f <= e}) <= BatchSize}

\* Mutant: an entry that is claimed already is claimed again.
MarkClaimedLoosely(r) ==
    LET open == InState("Pending") \cup InState("Claimed")
        batch == {e \in open : Cardinality({f \in open : f <= e}) <= BatchSize}
    IN  /\ entry' = [e \in Entries |-> IF e \in batch THEN "Claimed" ELSE entry[e]]
        /\ Put(r, [NoRun EXCEPT !.pc = "next", !.todo = batch, !.claimed = Cardinality(batch)])

\* claim_pending.
MarkClaimed(r) ==
    /\ entry' = [e \in Entries |-> IF e \in Batch THEN "Claimed" ELSE entry[e]]
    /\ Put(r, [NoRun EXCEPT !.pc = "next", !.todo = Batch, !.claimed = Cardinality(Batch)])

\* mark_published and mark_failed accept a claimed entry; mark_published accepts
\* a published one too.
MayPublish(e) == entry[e] \in {"Claimed", "Published"}
MayFail(e) == entry[e] = "Claimed"
Mark(e, state) == entry' = [entry EXCEPT ![e] = state]

----------------------------------------------------------------------------
(* run_once.                                                                *)

ClaimPending(r) ==
    /\ At(r, "idle") /\ Works
    /\ MarkClaimed(r)
    /\ UNCHANGED <<applied, recovered, stranded, drops>>

ClaimFails(r) ==
    /\ At(r, "idle") /\ Fault
    /\ Put(r, [NoRun EXCEPT !.result = "Store"])
    /\ UNCHANGED <<entry, applied, recovered, stranded, drops>>

\* publish, of the next entry of the batch. An outcome that is unknown may or may
\* not have been applied; an error has not.
Publish(r, outcome, takes) ==
    /\ At(r, "next") /\ relay[r].todo # {}
    /\ LET e == First(relay[r].todo)
       IN  /\ Put(r, [relay[r] EXCEPT !.pc = outcome, !.todo = @ \ {e}, !.current = e])
           /\ applied' = IF takes THEN [applied EXCEPT ![e] = @ + 1] ELSE applied
    /\ \/ outcome = "confirmed" /\ takes /\ Works
       \/ outcome = "unknown" /\ Fault
       \/ outcome = "erred" /\ ~takes /\ Fault
    /\ UNCHANGED <<entry, recovered, stranded, drops>>

RunEnds(r) ==
    /\ At(r, "next") /\ relay[r].todo = {}
    /\ Put(r, [relay[r] EXCEPT !.pc = "idle", !.result = "Ok"])
    /\ UNCHANGED <<entry, applied, recovered, stranded, faults, drops>>

\* Mutant: the rest of the batch is not released.
LeaveAtOnce(k, result) == [k EXCEPT !.pc = "idle", !.todo = {}, !.current = 0, !.result = result]

\* The run fails with the entry at hand recorded, and releases the rest.
Leave(k, result) == [k EXCEPT !.pc = "release", !.current = 0, !.result = result]

MarkPublished(r) ==
    LET k == relay[r] IN
    /\ At(r, "confirmed") /\ Works /\ MayPublish(k.current)
    /\ Mark(k.current, "Published")
    /\ Put(r, [k EXCEPT !.pc = "next", !.current = 0, !.published = @ + 1])
    /\ UNCHANGED <<applied, recovered, stranded, drops>>

\* Mutant: an outcome that is unknown goes back to the queue whatever the policy.
MarkUnknownRetrying(r) ==
    LET k == relay[r] IN
    /\ At(r, "unknown") /\ Works /\ MayFail(k.current)
    /\ Mark(k.current, "Pending")
    /\ Put(r, [Recorded(k, "Retry") EXCEPT !.pc = "next", !.current = 0])
    /\ UNCHANGED <<applied, recovered, stranded, drops>>

\* An outcome that is unknown is recorded and the batch goes on.
MarkUnknown(r) ==
    LET k == relay[r] IN
    /\ At(r, "unknown") /\ Works /\ MayFail(k.current)
    /\ Mark(k.current, FailedState(OutcomeUnknown))
    /\ Put(r, [Recorded(k, OutcomeUnknown) EXCEPT !.pc = "next", !.current = 0])
    /\ UNCHANGED <<applied, recovered, stranded, drops>>

\* A producer error is recorded and ends the run.
MarkErred(r) ==
    LET k == relay[r] IN
    /\ At(r, "erred") /\ Works /\ MayFail(k.current)
    /\ Mark(k.current, FailedState(ProducerError))
    /\ Put(r, Leave(Recorded(k, ProducerError), "Publish"))
    /\ UNCHANGED <<applied, recovered, stranded, drops>>

\* Marking fails: the entry at hand stays claimed.
MarkingFails(r) ==
    LET k == relay[r] IN
    /\ k.pc \in {"confirmed", "unknown", "erred"}
    /\ \/ Fault
       \/ ~(IF k.pc = "confirmed" THEN MayPublish(k.current) ELSE MayFail(k.current)) /\ Works
    /\ Put(r, Leave(k, IF k.pc = "erred" THEN "PublishAndStore" ELSE "Store"))
    /\ stranded' = [stranded EXCEPT ![k.current] = "unmarked"]
    /\ UNCHANGED <<entry, applied, recovered, drops>>

\* release_claims, one entry at a time.
ReleaseOne(r) ==
    LET k == relay[r]  e == First(k.todo) IN
    /\ At(r, "release") /\ k.todo # {} /\ Works /\ MayFail(e)
    /\ Mark(e, "Pending")
    /\ Put(r, [Recorded(k, "Retry") EXCEPT !.todo = @ \ {e}])
    /\ UNCHANGED <<applied, recovered, stranded, drops>>

ReleaseFails(r) ==
    LET k == relay[r]  e == First(k.todo) IN
    /\ At(r, "release") /\ k.todo # {}
    /\ Fault \/ (~MayFail(e) /\ Works)
    /\ Put(r, [k EXCEPT !.todo = @ \ {e}, !.unreleased = @ + 1])
    /\ stranded' = [stranded EXCEPT ![e] = "unreleased"]
    /\ UNCHANGED <<entry, applied, recovered, drops>>

RunFails(r) ==
    /\ At(r, "release") /\ relay[r].todo = {}
    /\ Put(r, [relay[r] EXCEPT !.pc = "idle"])
    /\ UNCHANGED <<entry, applied, recovered, stranded, faults, drops>>

\* The entries a run answers for.
Held(k) == IF k.pc = "idle" THEN {} ELSE k.todo \cup ({k.current} \ {0})

\* The future of run_once is dropped: nothing is released.
DropRun(r) ==
    /\ ~At(r, "idle") /\ drops > 0 /\ drops' = drops - 1
    /\ stranded' = [e \in Entries |-> IF e \in Held(relay[r]) THEN "dropped" ELSE stranded[e]]
    /\ Put(r, NoRun)
    /\ UNCHANGED <<entry, applied, recovered, faults>>

\* The store's crash recovery gives back a claim no run answers for.
Recover(e) ==
    /\ entry[e] = "Claimed" /\ \A r \in Relays : e \notin Held(relay[r])
    /\ recovered' = [recovered EXCEPT ![e] = @ + 1]
    /\ stranded' = [stranded EXCEPT ![e] = "no"]
    /\ Mark(e, "Pending")
    /\ UNCHANGED <<relay, applied, faults, drops>>

----------------------------------------------------------------------------

Init ==
    /\ entry = [e \in Entries |-> "Absent"]
    /\ relay = [r \in Relays |-> NoRun]
    /\ applied = [e \in Entries |-> 0] /\ recovered = [e \in Entries |-> 0]
    /\ stranded = [e \in Entries |-> "no"]
    /\ faults = FaultBudget /\ drops = DropBudget

RunStep(r) ==
    \/ ClaimPending(r) \/ ClaimFails(r) \/ RunEnds(r) \/ RunFails(r)
    \/ \E outcome \in {"confirmed", "unknown", "erred"}, takes \in BOOLEAN : Publish(r, outcome, takes)
    \/ MarkPublished(r) \/ MarkUnknown(r) \/ MarkErred(r) \/ MarkingFails(r)
    \/ ReleaseOne(r) \/ ReleaseFails(r)

Next ==
    \/ Insert
    \/ \E r \in Relays : RunStep(r) \/ DropRun(r)
    \/ \E e \in Entries : Recover(e)

Spec == Init /\ [][Next]_vars

\* The host keeps calling run_once, every run is polled, and the store's crash
\* recovery gets to every stranded claim.
FairSpec == Spec /\ (\A r \in Relays : WF_vars(RunStep(r))) /\ (\A e \in Entries : WF_vars(Recover(e)))

----------------------------------------------------------------------------

TypeOK ==
    /\ entry \in [Entries -> States]
    /\ relay \in [Relays -> Relay]
    /\ applied \in [Entries -> Nat]
    /\ recovered \in [Entries -> Nat]
    /\ stranded \in [Entries -> {"no", "unmarked", "unreleased", "dropped"}]
    /\ faults \in 0..FaultBudget /\ drops \in 0..DropBudget

\* "Claims at most limit pending entries for exclusive publication": whatever
\* relays run, fail and are dropped, an entry is in the hands of one run at most,
\* and the store has it as claimed for as long.
ClaimsExclusive ==
    /\ \A r \in Relays : \A e \in Held(relay[r]) : entry[e] = "Claimed"
    /\ \A r, q \in Relays : r # q => Held(relay[r]) \cap Held(relay[q]) = {}

\* A claim that no run answers for was left by a marking that failed after the
\* publication, by a release that failed, or by a run that was dropped: a run
\* that returns early has released every claim it never attempted.
StrandedForCause ==
    \A e \in Entries :
        entry[e] = "Claimed" /\ (\A r \in Relays : e \notin Held(relay[r])) => stranded[e] # "no"

\* Nothing is published twice unless the recovery of a claim, or a policy that
\* retries unknown outcomes, asks for it; and what is marked published was taken
\* by the broker.
OncePerRecovery ==
    \A e \in Entries :
        /\ OutcomeUnknown # "Retry" => applied[e] <= 1 + recovered[e]
        /\ entry[e] = "Published" => applied[e] >= 1

Lost(k) == IF k.claimed > 0 /\ k.result \in {"Store", "PublishAndStore"} THEN 1 ELSE 0
AtHand(k) == IF k.current = 0 THEN 0 ELSE 1

\* A report accounts for every entry its run claimed, at every step and on every
\* way out; only the entry whose marking failed, which the error itself names,
\* is in none of its counts (RelayBatchReport).
ReportBalances ==
    \A r \in Relays :
        LET k == relay[r]
        IN  k.claimed = Cardinality(k.todo) + AtHand(k) + k.published + k.retried
                        + k.reconcile + k.terminal + k.unreleased + Lost(k)

\* An entry does not wait for ever, as long as failures and dropped runs end.
EntrySettles ==
    \A e \in Entries :
        entry[e] = "Pending" ~> entry[e] \in {"Published", "AwaitingReconciliation", "Failed"}
=============================================================================

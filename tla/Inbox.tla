------------------------------- MODULE Inbox -------------------------------
(***************************************************************************)
(* The consumer's side of plenora-runtime-outbox: the inbox that remembers *)
(* processed messages, its deduplicator, and the idempotency store, as the *)
(* in-memory stores implement them.  Each call holds the store's lock; a   *)
(* call that meets an injected fault changes nothing.                      *)
(***************************************************************************)
EXTENDS Naturals, OrderedChecks

CONSTANTS MaxStoreFaults    \* bound: injected faults

VARIABLES
    processed,      \* InboxMemoryState::processed
    records,        \* IdempotencyMemoryState::records, "Absent" without one
    storeFaults     \* faults consumed so far

inboxVars == <<processed, records, storeFaults>>

NoRecord == [fingerprint |-> "none", state |-> "Absent"]

InboxInit(keys) ==
    /\ processed = {}
    /\ records = [k \in keys |-> NoRecord]
    /\ storeFaults = 0

\* FaultPlan::check fails the call.
FaultInjected ==
    /\ storeFaults < MaxStoreFaults
    /\ storeFaults' = storeFaults + 1
    /\ UNCHANGED <<processed, records>>

\* InboxDeduplicator::check.
DeduplicationDecision(id) == IF id \in processed THEN "Duplicate" ELSE "Process"

\* InboxDeduplicator::record_processed.
RecordProcessed(id) ==
    /\ processed' = processed \cup {id}
    /\ UNCHANGED <<records, storeFaults>>

\* Mutant: what is executed is remembered only when it completes.
BeginRecordForgotten(key, fingerprint) == records[key]

\* IdempotencyStore::begin decides from the record, and leaves one behind.
BeginDecision(key, fingerprint) ==
    FirstOf(<<
        <<records[key] = NoRecord, "Execute">>,
        <<records[key].fingerprint # fingerprint, "Conflict">>,
        <<records[key].state = "InProgress", "InProgress">>>>, "ReturnStoredResult")

BeginRecord(key, fingerprint) ==
    IF records[key] = NoRecord THEN [fingerprint |-> fingerprint, state |-> "InProgress"]
    ELSE records[key]

Begin(key, fingerprint) ==
    /\ records' = [records EXCEPT ![key] = BeginRecord(key, fingerprint)]
    /\ UNCHANGED <<processed, storeFaults>>

\* InMemoryIdempotencyStore::complete.
Complete(key) ==
    /\ records[key] # NoRecord
    /\ records' = [records EXCEPT ![key].state = "Completed"]
    /\ UNCHANGED <<processed, storeFaults>>
=============================================================================

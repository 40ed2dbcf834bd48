----------------------------- MODULE FakeBroker -----------------------------
(***************************************************************************)
(* FakeBroker of plenora-runtime-testkit: the in-memory broker with manual *)
(* time, redelivery, duplicates, disconnection and scripted faults. Its    *)
(* state is behind one lock, so an operation is one step. The operations   *)
(* are action formulas over the broker's variables; BrokerDelivery         *)
(* composes them with the service that owns the deliveries.                *)
(*                                                                         *)
(* The identifiers are 1..Len(catalog), in the order of enqueueing. The    *)
(* acknowledgement history is kept per identifier and is not evicted:      *)
(* log[id] is what became of the attempts of id, in order.                 *)
(***************************************************************************)
EXTENDS Integers, Sequences, SequencesExt, FiniteSets

CONSTANTS
    Messages,           \* the messages a producer may enqueue
    MaxPending,         \* FakeBrokerLimits::max_pending_deliveries
    MaxCatalog,         \* FakeBrokerLimits::max_catalog_entries
    MaxScriptedFaults,  \* FakeBrokerLimits::max_scripted_faults
    FaultKinds,         \* the operations whose faults are scripted
    AttemptBound        \* bound: deliveries beyond this attempt stay queued

ASSUME LimitsAssumption ==
    /\ MaxPending \in Nat /\ MaxCatalog \in Nat /\ MaxScriptedFaults \in Nat
    /\ AttemptBound \in Nat
ASSUME FaultsAssumption == FaultKinds \subseteq {"receive", "ack", "nack", "heartbeat"}

VARIABLES
    connected,  \* BrokerState::connected
    queue,      \* BrokerState::queue
    inFlight,   \* BrokerState::in_flight
    catalog,    \* BrokerState::catalog
    faults,     \* the faults scripted and not yet met, by operation
    log         \* what became of every attempt, by identifier

brokerVars == <<connected, queue, inFlight, catalog, faults, log>>

NackReasons == {"Retryable", "RetryAfter", "Permanent", "Shutdown", "ConsumerRejected"}
Terminal == {"Acked", "Permanent", "ConsumerRejected"}
Ids == 1..MaxCatalog

BrokerInit ==
    /\ connected = TRUE
    /\ queue = <<>> /\ inFlight = 0 /\ catalog = <<>>
    /\ faults = [k \in FaultKinds |-> 0]
    /\ log = [id \in Ids |-> <<>>]

----------------------------------------------------------------------------
(* The producer's side and the test's controls.                            *)

\* validate_delivery_capacity.
HasCapacity == Len(queue) + inFlight < MaxPending /\ Len(catalog) < MaxCatalog

\* enqueue, enqueue_delayed, and a publish that is applied.
Enqueue(message, delayed) ==
    /\ HasCapacity
    /\ catalog' = Append(catalog, message)
    /\ queue' = Append(queue, [id |-> Len(catalog'), attempt |-> 1, delayed |-> delayed])
    /\ UNCHANGED <<connected, inFlight, faults, log>>

\* inject_duplicate: another identifier with the message of a known one.
InjectDuplicate(source) ==
    /\ source \in DOMAIN catalog
    /\ Enqueue(catalog[source], FALSE)

\* ManualClock::advance past every delay.
Advance ==
    /\ queue' = [i \in DOMAIN queue |-> [queue[i] EXCEPT !.delayed = FALSE]]
    /\ UNCHANGED <<connected, inFlight, catalog, faults, log>>

Disconnect == connected' = FALSE /\ UNCHANGED <<queue, inFlight, catalog, faults, log>>
Reconnect == connected' = TRUE /\ UNCHANGED <<queue, inFlight, catalog, faults, log>>

\* fail_next_receive, fail_next_ack, fail_next_nack, fail_next_heartbeat.
PushFault(kind) ==
    /\ faults[kind] < MaxScriptedFaults
    /\ faults' = [faults EXCEPT ![kind] = @ + 1]
    /\ UNCHANGED <<connected, queue, inFlight, catalog, log>>

----------------------------------------------------------------------------
(* The consumer's side.                                                    *)

\* An operation fails when the broker is disconnected or a fault is scripted;
\* only a connected broker uses the fault up.
Scripted(kind) == kind \in FaultKinds /\ faults[kind] > 0
Fails(kind) == ~connected \/ Scripted(kind)
UseFault(kind) ==
    faults' = IF connected /\ Scripted(kind) THEN [faults EXCEPT ![kind] = @ - 1] ELSE faults

Ready == {i \in DOMAIN queue : ~queue[i].delayed}

\* dequeue hands out the first delivery that is ready.
Dequeue(delivery) ==
    /\ ~Fails("receive")
    /\ \E i \in Ready :
        /\ \A j \in Ready : i <= j
        /\ queue[i].attempt <= AttemptBound
        /\ delivery = queue[i]
        /\ queue' = RemoveAt(queue, i)
    /\ inFlight' = inFlight + 1
    /\ UNCHANGED <<connected, catalog, faults, log>>

DequeueNothing == ~Fails("receive") /\ Ready = {} /\ UNCHANGED brokerVars

DequeueFails ==
    /\ Fails("receive") /\ UseFault("receive")
    /\ UNCHANGED <<connected, queue, inFlight, catalog, log>>

Record(delivery, event) == log' = [log EXCEPT ![delivery.id] = Append(@, event)]

\* redelivery, pushed to the back of the queue.
Requeue(delivery) ==
    queue' = Append(queue, [delivery EXCEPT !.attempt = @ + 1, !.delayed = FALSE])

\* Mutant: a settlement that fails is taken for one that was done.
CompleteDeliveryForgetful(delivery, event) ==
    LET operation == IF event = "Acked" THEN "ack" ELSE "nack"
    IN  /\ UseFault(operation)
        /\ inFlight' = inFlight - 1
        /\ Record(delivery, IF Fails(operation) THEN "Failed" ELSE event)
        /\ IF event \notin Terminal THEN Requeue(delivery) ELSE UNCHANGED queue
        /\ UNCHANGED <<connected, catalog>>

\* complete_delivery: one that fails, or that asks for another attempt, requeues.
CompleteDelivery(delivery, event) ==
    LET operation == IF event = "Acked" THEN "ack" ELSE "nack"
    IN  /\ UseFault(operation)
        /\ inFlight' = inFlight - 1
        /\ Record(delivery, IF Fails(operation) THEN "Failed" ELSE event)
        /\ IF Fails(operation) \/ event \notin Terminal THEN Requeue(delivery) ELSE UNCHANGED queue
        /\ UNCHANGED <<connected, catalog>>

\* heartbeat_delivery; the heartbeat history is left out.
HeartbeatDelivery == UseFault("heartbeat") /\ UNCHANGED <<connected, queue, inFlight, catalog, log>>

\* abandon_delivery, for a delivery dropped unsettled, connected or not.
AbandonDelivery(delivery) ==
    /\ inFlight' = inFlight - 1
    /\ Record(delivery, "Shutdown")
    /\ Requeue(delivery)
    /\ UNCHANGED <<connected, catalog, faults>>
=============================================================================

--------------------------- MODULE BrokerDelivery ---------------------------
(***************************************************************************)
(* BrokerDeliveryService and BrokerWorkerRunner of plenora-runtime-apalis, *)
(* over the broker of FakeBroker: the runner polls the consumer while it   *)
(* has a free slot, and a slot decodes the delivery, has the worker run    *)
(* the handler while it renews the lease, and settles the delivery.        *)
(*                                                                         *)
(* WorkerExecutor models what the worker does; here it is its contract: it *)
(* refuses the job before the handler is invoked, or answers with one of   *)
(* Results. Apalis itself is external: it stops polling when the stream    *)
(* ends or some time after the signal future returns, drops what is still  *)
(* running when the terminator fires, and catches panics.                  *)
(***************************************************************************)
EXTENDS FakeBroker, RetryPolicy, WorkerMessage

CONSTANTS
    Slots,              \* WorkerConcurrency::max_in_flight slots
    ContentOf,          \* headers, identity and payload of every message
    Results,            \* what the handler may end with
    Backoff,            \* the retry policy, an ExponentialBackoffConfig
    TimeoutDecision,    \* WorkerConfig::timeout_retry_decision
    FailureLimit,       \* max_consecutive_failures of the heartbeat; 0 for no heartbeat
    Surroundings        \* bound: the sets of outside parts looked at together

ASSUME ContentAssumption == DOMAIN ContentOf = Messages
ASSUME ResultsAssumption ==
    Results \subseteq {"Ok", "Retryable", "Permanent", "DeadLetter", "TimedOut", "Cancelled", "Panic"}
ASSUME BackoffAssumption == IsValid(Backoff)
ASSUME DecisionAssumption == TimeoutDecision \in {"RetryAfter", "DoNotRetry", "DeadLetter"}
ASSUME HeartbeatAssumption ==
    FailureLimit \in Nat /\ (FailureLimit = 0 \/ HeartbeatConfigVerdict(1, FailureLimit) = Ok)
ASSUME SurroundingsAssumption ==
    Surroundings \subseteq SUBSET (Messages \cup FaultKinds \cup {"second", "link", "operator", "sink"})

VARIABLES
    slot,       \* the service future of each slot
    stream,     \* the delivery stream: open, ended or failed
    runner,     \* how far BrokerWorkerRunner::run is
    shutdown,   \* the runtime's shutdown signal
    admission,  \* the worker's admission state
    around,     \* what is outside: messages, a second one, faults, a link that breaks, ...
    verdict,    \* the disposition last returned for an identifier
    buried      \* the identifiers whose dead letter was confirmed

runVars == <<stream, runner, shutdown, admission, around>>
history == <<verdict, buried>>
vars == <<connected, queue, inFlight, catalog, faults, log, slot, stream, runner, shutdown,
          admission, around, verdict, buried>>

Dispositions == {"Completed", "RetryAfter", "DoNotRetry", "Shutdown", "DeadLetter"}

Free(k) == k.pc = "idle"

\* event is the settlement decided on; failures counts the heartbeats failed in a row.
Idle == [pc |-> "idle", delivery |-> [id |-> 1, attempt |-> 1, delayed |-> FALSE],
         failures |-> 0, event |-> "Failed"]
Put(s, k) == slot' = [slot EXCEPT ![s] = k]
Go(s, pc) == Put(s, [slot[s] EXCEPT !.pc = pc])
Settling(s, event) == Put(s, [slot[s] EXCEPT !.pc = "settle", !.event = event])
At(s, pc) == slot[s].pc = pc

\* A DeadLetterSink is attached.
HasSink == "sink" \in around

\* What decode or combined_metadata rejects, and what a dead letter can be made of.
Malformed ==
    {m \in Messages : DecodeVerdict(ContentOf[m]) # Ok \/ CombinedMetadata(ContentOf[m]).verdict # Ok}
Buriable(m) == DeadLetterMessage(ContentOf[m].headers).verdict = Ok

----------------------------------------------------------------------------
(* What becomes of a delivery.                                              *)

\* disposition_for, with RetryPolicy::decide for the error of a handler.
Disposition(result, attempt) ==
    CASE result = "Ok" -> "Completed"
      [] result = "Paused" -> "RetryAfter"
      [] result \in {"Draining", "ShutdownRequested"} -> "Shutdown"
      [] result = "Cancelled" -> "DoNotRetry"
      [] result = "TimedOut" -> TimeoutDecision
      [] OTHER -> DecideClass(Backoff, attempt, 0, result, 0).verdict

\* settle_delivery: the acknowledgement of a disposition other than DeadLetter.
Settlement(disposition) ==
    CASE disposition = "Completed" -> "Acked"
      [] disposition = "DoNotRetry" -> "Permanent"
      [] OTHER -> disposition

\* The worker's answer is on its way to settlement.
Answer(s, result) ==
    LET d == slot[s].delivery
        disposition == Disposition(result, d.attempt)
    IN  /\ verdict' = [verdict EXCEPT ![d.id] = disposition]
        /\ IF disposition = "DeadLetter" THEN Go(s, "bury")
                                         ELSE Settling(s, Settlement(disposition))

----------------------------------------------------------------------------
(* delivery_stream: Apalis polls it while a slot is free.                   *)

\* Apalis still polls between begin_drain and its own shutdown.
MayPoll == stream = "open" /\ runner \in {"running", "draining"}

Receive(s) ==
    /\ MayPoll /\ Free(slot[s])
    /\ \E d \in {queue[i] : i \in DOMAIN queue} :
        /\ Dequeue(d)
        /\ Put(s, [Idle EXCEPT !.pc = "decode", !.delivery = d])
    /\ UNCHANGED <<runVars, history>>

\* A consumer with nothing to deliver ends the stream.
StreamEnds ==
    /\ MayPoll /\ \E s \in Slots : Free(slot[s])
    /\ DequeueNothing
    /\ stream' = "ended"
    /\ UNCHANGED <<slot, runner, shutdown, admission, around, history>>

\* ConsumerFailure::record.
StreamFails ==
    /\ MayPoll /\ \E s \in Slots : Free(slot[s])
    /\ DequeueFails
    /\ stream' = "failed"
    /\ UNCHANGED <<slot, runner, shutdown, admission, around, history>>

----------------------------------------------------------------------------
(* BrokerDeliveryService::execute.                                          *)

\* The decoder and combined_metadata come first; what they reject is nacked
\* with ConsumerRejected.
Decode(s) ==
    /\ At(s, "decode")
    /\ LET id == slot[s].delivery.id
           bad == catalog[id] \in Malformed
       IN  /\ verdict' = [verdict EXCEPT ![id] = IF bad THEN "Rejected" ELSE "None"]
           /\ IF bad THEN Settling(s, "ConsumerRejected") ELSE Go(s, "execute")
    /\ UNCHANGED <<brokerVars, runVars, buried>>

\* The worker refuses the job before it invokes the handler.
RefuseJob(s) ==
    /\ At(s, "execute")
    /\ shutdown \/ admission # "Accepting"
    /\ Answer(s, IF shutdown THEN "ShutdownRequested" ELSE admission)
    /\ UNCHANGED <<brokerVars, runVars, buried>>

InvokeHandler(s) ==
    /\ At(s, "execute")
    /\ ~shutdown /\ admission = "Accepting"
    /\ Go(s, "handling")
    /\ UNCHANGED <<brokerVars, runVars, history>>

HandlerEnds(s, result) ==
    /\ At(s, "handling") /\ result # "Panic"
    /\ Answer(s, result)
    /\ UNCHANGED <<brokerVars, runVars, buried>>

\* The service future is dropped, and the delivery in it.
Drop(s) == AbandonDelivery(slot[s].delivery) /\ Put(s, Idle)

\* catch_panic drops the future that panicked.
HandlerPanics(s) ==
    /\ At(s, "handling") /\ "Panic" \in Results
    /\ Drop(s)
    /\ UNCHANGED <<runVars, history>>

\* execute_with_heartbeat: the timer fires while the worker has the job.
HeartbeatRenews(s) ==
    /\ FailureLimit > 0 /\ slot[s].pc \in {"execute", "handling"}
    /\ ~Fails("heartbeat") /\ HeartbeatDelivery
    /\ Put(s, [slot[s] EXCEPT !.failures = 0])
    /\ UNCHANGED <<runVars, history>>

HeartbeatFails(s) ==
    /\ FailureLimit > 0 /\ slot[s].pc \in {"execute", "handling"}
    /\ Fails("heartbeat") /\ HeartbeatDelivery
    /\ slot[s].failures + 1 < FailureLimit
    /\ Put(s, [slot[s] EXCEPT !.failures = @ + 1])
    /\ UNCHANGED <<runVars, history>>

\* The budget is spent: the execution is cancelled with LeaseLost and dropped,
\* and reject_heartbeat nacks.
LoseLease(s) ==
    /\ FailureLimit > 0 /\ slot[s].pc \in {"execute", "handling"}
    /\ Fails("heartbeat") /\ HeartbeatDelivery
    /\ slot[s].failures + 1 >= FailureLimit
    /\ Settling(s, "Retryable")
    /\ verdict' = [verdict EXCEPT ![slot[s].delivery.id] = "LeaseLost"]
    /\ UNCHANGED <<runVars, buried>>

\* Mutant: an unknown outcome of the sink counts as confirmed.
BuryUnconfirmed(s, outcome) ==
    /\ At(s, "bury")
    /\ HasSink <=> outcome # "Unavailable"
    /\ IF outcome \in {"Confirmed", "OutcomeUnknown"}
       THEN /\ buried' = IF outcome = "Confirmed" THEN buried \cup {slot[s].delivery.id} ELSE buried
            /\ Settling(s, "Permanent") /\ UNCHANGED brokerVars
       ELSE Drop(s) /\ UNCHANGED buried
    /\ UNCHANGED <<runVars, verdict>>

\* Mutant: without a sink the service waits for one.
BuryWhenPossible(s, outcome) ==
    /\ At(s, "bury") /\ HasSink
    /\ IF outcome = "Confirmed"
       THEN /\ buried' = buried \cup {slot[s].delivery.id}
            /\ Settling(s, "Permanent") /\ UNCHANGED brokerVars
       ELSE Drop(s) /\ UNCHANGED buried
    /\ UNCHANGED <<runVars, verdict>>

\* publish_dead_letter: only a confirmed dead letter terminates the original,
\* which is otherwise dropped unsettled.  Without room for its own metadata
\* a dead letter is never sent.
Bury(s, outcome) ==
    /\ At(s, "bury")
    /\ HasSink <=> outcome # "Unavailable"
    /\ outcome \in {"Confirmed", "OutcomeUnknown"} => Buriable(catalog[slot[s].delivery.id])
    /\ IF outcome = "Confirmed"
       THEN /\ buried' = buried \cup {slot[s].delivery.id}
            /\ Settling(s, "Permanent") /\ UNCHANGED brokerVars
       ELSE Drop(s) /\ UNCHANGED buried
    /\ UNCHANGED <<runVars, verdict>>

\* ack or nack, whether it succeeds or not, consumes the delivery.
Settle(s) ==
    /\ At(s, "settle")
    /\ CompleteDelivery(slot[s].delivery, slot[s].event)
    /\ Put(s, Idle)
    /\ UNCHANGED <<runVars, history>>

----------------------------------------------------------------------------
(* BrokerWorkerRunner::run.                                                 *)

RequestShutdown ==
    /\ "operator" \in around
    /\ ~shutdown /\ shutdown' = TRUE
    /\ UNCHANGED <<brokerVars, slot, stream, runner, admission, around, history>>

PauseAdmission ==
    /\ "operator" \in around
    /\ admission = "Accepting" /\ admission' = "Paused"
    /\ UNCHANGED <<brokerVars, slot, stream, runner, shutdown, around, history>>

ResumeAdmission ==
    /\ admission = "Paused" /\ admission' = "Accepting"
    /\ UNCHANGED <<brokerVars, slot, stream, runner, shutdown, around, history>>

\* Mutant: the failure of the consumer is not waited for.
StartDrainOnShutdown ==
    /\ runner = "running" /\ shutdown
    /\ runner' = "draining" /\ admission' = "Draining"
    /\ UNCHANGED <<brokerVars, slot, stream, shutdown, around, history>>

\* The signal future: shutdown, or the failure of the consumer.
StartDrain ==
    /\ runner = "running"
    /\ shutdown \/ stream = "failed"
    /\ runner' = "draining" /\ admission' = "Draining"
    /\ UNCHANGED <<brokerVars, slot, stream, shutdown, around, history>>

\* Apalis reacts to the signal: no more polls, and the terminator is armed.
StopPolling ==
    /\ runner = "draining" /\ runner' = "closing"
    /\ UNCHANGED <<brokerVars, slot, stream, shutdown, admission, around, history>>

\* The grace period of the terminator is over.
Terminate ==
    /\ runner = "closing" /\ runner' = "terminating"
    /\ UNCHANGED <<brokerVars, slot, stream, shutdown, admission, around, history>>

DropFuture(s) ==
    /\ runner = "terminating" /\ ~Free(slot[s])
    /\ Drop(s)
    /\ UNCHANGED <<runVars, history>>

\* The monitor returns; a stream that has ended may end the worker on its own.
Finish ==
    /\ \/ runner \in {"closing", "terminating"}
       \/ runner \in {"running", "draining"} /\ stream # "open"
    /\ \A s \in Slots : Free(slot[s])
    /\ runner' = "stopped"
    /\ UNCHANGED <<brokerVars, slot, stream, shutdown, admission, around, history>>

\* Another runner, with a consumer and a worker of its own, takes over.
Restart ==
    /\ runner = "stopped"
    /\ runner' = "running" /\ stream' = "open" /\ shutdown' = FALSE /\ admission' = "Accepting"
    /\ UNCHANGED <<brokerVars, slot, around, history>>

----------------------------------------------------------------------------

Init ==
    /\ BrokerInit
    /\ slot = [s \in Slots |-> Idle]
    /\ stream = "open" /\ runner = "running" /\ shutdown = FALSE /\ admission = "Accepting"
    /\ around \in Surroundings
    /\ verdict = [id \in Ids |-> "None"] /\ buried = {}

\* The steps of the service that do not wait for a handler.
ServiceStep(s) ==
    \/ Decode(s) \/ RefuseJob(s) \/ InvokeHandler(s) \/ Settle(s) \/ DropFuture(s)
    \/ \E outcome \in {"Confirmed", "OutcomeUnknown", "Failed", "Unavailable"} : Bury(s, outcome)

HandlerStep(s) == HandlerPanics(s) \/ \E result \in Results : HandlerEnds(s, result)
HeartbeatStep(s) == HeartbeatRenews(s) \/ HeartbeatFails(s) \/ LoseLease(s)
RunnerStep == StartDrain \/ StopPolling \/ Finish

BrokerStep ==
    /\ \/ /\ catalog = <<>> \/ "second" \in around
          /\ \E message \in Messages \cap around, delayed \in BOOLEAN : Enqueue(message, delayed)
       \/ /\ "second" \in around
          /\ \E source \in Ids : InjectDuplicate(source)
       \/ Advance
       \/ "link" \in around /\ (Disconnect \/ Reconnect)
       \/ \E kind \in FaultKinds \cap around : PushFault(kind)
    /\ UNCHANGED <<slot, runVars, history>>

Next ==
    \/ BrokerStep
    \/ \E s \in Slots : Receive(s) \/ ServiceStep(s) \/ HandlerStep(s) \/ HeartbeatStep(s)
    \/ StreamEnds \/ StreamFails
    \/ RequestShutdown \/ PauseAdmission \/ ResumeAdmission
    \/ RunnerStep \/ Terminate \/ Restart

Spec == Init /\ [][Next]_vars

\* Every future is polled and Apalis reacts to the signal; handlers owe nothing.
FairSpec == Spec /\ WF_vars(RunnerStep) /\ \A s \in Slots : WF_vars(ServiceStep(s))

\* The terminator's sleep ends.
TimedSpec == FairSpec /\ WF_vars(Terminate)

----------------------------------------------------------------------------

Holders(id) == {s \in Slots : ~Free(slot[s]) /\ slot[s].delivery.id = id}
Places(id) == {i \in DOMAIN queue : queue[i].id = id}
Done(id) == log[id] # <<>> /\ log[id][Len(log[id])] \in Terminal

\* A delivery carries the attempt that follows those on record.
Numbered(d) == d.attempt = Len(log[d.id]) + 1

\* No order of failed settlements, lost leases, panics, dropped futures and
\* terminated runners loses or doubles a delivery: until it is acknowledged or
\* rejected for good it is either queued once or owned by one slot
\* (complete_delivery, abandon_delivery and the drop of an acknowledger). And
\* every attempt is settled exactly once: the attempt it carries is one more
\* than the settlements on record for it ("settles each owned delivery once",
\* BrokerWorkerRunner::run).
NothingLost ==
    /\ \A id \in DOMAIN catalog :
        Cardinality(Places(id)) + Cardinality(Holders(id)) = IF Done(id) THEN 0 ELSE 1
    /\ \A i \in DOMAIN queue : Numbered(queue[i])
    /\ \A s \in Slots : Free(slot[s]) \/ Numbered(slot[s].delivery)

\* What ends a delivery for good is an outcome that warrants it: an
\* acknowledgement the success of its handler, a rejection a malformed message,
\* a termination the decision not to retry or a dead letter that the sink
\* confirmed. A lost lease, a refused job or a dropped future never does.
EndedForCause ==
    \A id \in DOMAIN catalog :
        Done(id) =>
            \/ log[id][Len(log[id])] = "Acked" /\ verdict[id] = "Completed"
            \/ log[id][Len(log[id])] = "ConsumerRejected" /\ catalog[id] \in Malformed
            \/ /\ log[id][Len(log[id])] = "Permanent"
               /\ verdict[id] = "DoNotRetry" \/ (verdict[id] = "DeadLetter" /\ id \in buried)

\* A delivery the service owns is settled or returned to the broker, if every
\* handler ends.
DeliveryEnds ==
    (\A s \in Slots : WF_vars(HandlerStep(s))) => \A s \in Slots : ~Free(slot[s]) ~> Free(slot[s])

\* Shutdown, or a consumer that fails, ends the runner although handlers may
\* run for ever and heartbeats keep renewing their leases.
RunnerStops == (runner = "running" /\ (shutdown \/ stream = "failed")) ~> runner = "stopped"

\* "Maximum total delivery attempts, including the first attempt"
\* (ExponentialBackoffConfig::max_attempts): no handler is invoked for a later
\* attempt than that. The policy is asked only when a handler fails, so the
\* redeliveries that refused jobs, lost leases, failed settlements and panics
\* cause are outside its count, and this does not hold.
AttemptsWithinBudget == \A s \in Slots : At(s, "handling") => slot[s].delivery.attempt <= Backoff.attempts
=============================================================================

---------------------------- MODULE NatsDelivery ----------------------------
(***************************************************************************)
(* Messages through JetStream: the producer of plenora-runtime-nats, the   *)
(* stream and its durable consumer, the adapter's receive and conversion,  *)
(* the acknowledger, and a consumer application that guards its effect     *)
(* with the inbox and the idempotency store.                               *)
(*                                                                         *)
(* External, as src/ uses them: the stream (which drops a publication      *)
(* whose message ID it has stored), the durable consumer (which delivers   *)
(* again what is not settled within ack_wait, up to max_deliver times, and *)
(* settles whatever delivery of a message an acknowledgement is for), the  *)
(* publishing caller that repeats what is not confirmed, and the handler.  *)
(***************************************************************************)
EXTENDS NatsConfig, NatsConnection, Inbox, FiniteSets

CONSTANTS
    Messages,       \* published through the adapter
    Foreign,        \* stored in the stream by someone else
    FactsOf,        \* size, headers, message ID of each of them
    Workers,        \* concurrent users of the consumer
    Consumer,       \* the consumer's configuration
    MaxPayloadBytes,\* of the producer
    MaxAttempt,     \* u32::MAX
    MaxPublishes,   \* bound: publications of one message
    MaxCrashes      \* bound: workers that disappear

VARIABLES
    publication,    \* what the caller of publish knows
    wire,           \* publications between the client and the stream
    acks,           \* publications the stream has answered
    stream,         \* the stored messages, in order
    delivery,       \* the consumer's state of each stored message
    hand,           \* what each worker is doing
    effects,        \* ghost: how often a message had its effect
    crashes

deliveryVars == <<publication, wire, acks, stream, delivery, hand, effects, crashes>>

All == Messages \cup Foreign

\* What someone else stores is not published through the adapter, and the consumer's
\* configuration is one that ConsumerConfigVerdict accepts.
ASSUME MessagesAssumption == Messages \cap Foreign = {}
ASSUME ConsumerAssumption == Consumer.maxDeliver \in Nat \ {0}

Unpublished == [pc |-> "idle", tries |-> 0, outcome |-> "none"]
EmptyHand == [pc |-> "idle", at |-> 0, attempt |-> 0, reason |-> "none"]
Undelivered == [state |-> "ready", count |-> 0, cause |-> "none"]

Doing(w, pc) == hand[w].pc = pc

----------------------------------------------------------------------------
(* The producer.                                                            *)

\* What publish refuses before it sends anything.
PublishVerdict(m) ==
    FirstVerdict(<<
        IF FactsOf[m].bytes > MaxPayloadBytes THEN "payload" ELSE Ok,
        Encode(FactsOf[m].contentType, FactsOf[m].metadata).verdict,
        IF FactsOf[m].id = "binary" THEN "message id" ELSE Ok>>)

\* publish up to its await: refused, not sent, or on its way, which without the link
\* is the client's queue.
Publish(m, sent) ==
    LET outcome == IF PublishVerdict(m) # Ok THEN "Protocol"
                   ELSE IF sent THEN "none" ELSE "Connection"
        tries == publication[m].tries + 1
    IN  /\ connection = "open"
        /\ IF sent THEN link # "closed" ELSE link # "up"
        /\ publication[m].pc = "idle"
        /\ publication[m].tries < MaxPublishes
        /\ publication' = [publication EXCEPT ![m] =
               [pc |-> IF outcome = "none" THEN "waiting" ELSE "answered", tries |-> tries,
                outcome |-> outcome]]
        /\ wire' = IF outcome = "none" THEN wire \cup {<<m, tries>>} ELSE wire
        /\ UNCHANGED <<acks, stream, delivery, hand, effects, crashes, inboxVars>>

\* The acknowledgement arrives (Confirmed), is refused by the stream (an error), or
\* does not arrive in time or at all.
PublishReturns(m, outcome) ==
    LET this == <<m, publication[m].tries>>
    IN  /\ publication[m].pc = "waiting"
        /\ outcome = "Confirmed" => this \in acks /\ link = "up"
        /\ outcome = "Broker" => this \in wire /\ link = "up"
        /\ publication' = [publication EXCEPT ![m].pc = "answered", ![m].outcome = outcome]
        /\ wire' = IF outcome = "Broker" THEN wire \ {this} ELSE wire
        /\ UNCHANGED <<acks, stream, delivery, hand, effects, crashes, inboxVars>>

\* The caller publishes again what was not confirmed and is not hopeless.
Republish(m) ==
    /\ publication[m].pc = "answered"
    /\ publication[m].outcome \in {"OutcomeUnknown", "Connection", "Broker"}
    /\ publication[m].tries < MaxPublishes
    /\ publication' = [publication EXCEPT ![m].pc = "idle", ![m].outcome = "none"]
    /\ UNCHANGED <<wire, acks, stream, delivery, hand, effects, crashes, inboxVars>>

----------------------------------------------------------------------------
(* The stream and its durable consumer.                                     *)

Stored(m) == \E i \in DOMAIN stream : stream[i] = m

\* Mutant: the publication carries no message ID.
PublicationIdUnset(m) == "none"

\* The message ID of a publication: the metadata value of the configured key.
PublicationId(m) == FactsOf[m].id

Append1(m) ==
    /\ stream' = Append(stream, m)
    /\ delivery' = Append(delivery, Undelivered)

\* A publication reaches the stream, whether or not its caller still waits.
Store(p) ==
    /\ p \in wire
    /\ link = "up"
    /\ wire' = wire \ {p}
    /\ acks' = acks \cup {p}
    /\ IF PublicationId(p[1]) # "none" /\ Stored(p[1]) THEN UNCHANGED <<stream, delivery>>
       ELSE Append1(p[1])
    /\ UNCHANGED <<publication, hand, effects, crashes, inboxVars>>

LosePublication(p) ==
    /\ p \in wire
    /\ link # "up"
    /\ wire' = wire \ {p}
    /\ UNCHANGED <<publication, acks, stream, delivery, hand, effects, crashes, inboxVars>>

StoreForeign(x) ==
    /\ publication[x].pc = "idle"
    /\ publication' = [publication EXCEPT ![x].pc = "stored"]
    /\ Append1(x)
    /\ UNCHANGED <<wire, acks, hand, effects, crashes, inboxVars>>

\* An unsettled delivery is due again, unless it was the last one allowed.
Released(d) == [d EXCEPT !.state = IF d.count >= Consumer.maxDeliver THEN "exhausted" ELSE "ready"]
Settled(d, cause) == [d EXCEPT !.state = "done", !.cause = cause]
Open(d) == d.state \in {"ready", "out"}

AckWaitElapses(i) ==
    /\ delivery[i].state = "out"
    /\ delivery' = [delivery EXCEPT ![i] = Released(@)]
    /\ UNCHANGED <<publication, wire, acks, stream, hand, effects, crashes, inboxVars>>

----------------------------------------------------------------------------
(* The adapter's consumer.                                                  *)

Put(w, k) == hand' = [hand EXCEPT ![w] = k]
MessageOf(w) == stream[hand[w].at]
Goes(w, pc) == Put(w, [hand[w] EXCEPT !.pc = pc])
Nacks(w, reason) == Put(w, [hand[w] EXCEPT !.pc = "nack", !.reason = reason])

\* receive takes what the pull stream yields.
Receive(w, i) ==
    /\ connection = "open" /\ link = "up"
    /\ Doing(w, "idle")
    /\ delivery[i].state = "ready"
    /\ Cardinality({j \in DOMAIN delivery : delivery[j].state = "out"}) < Consumer.maxAckPending
    /\ delivery' = [delivery EXCEPT ![i].state = "out", ![i].count = @ + 1]
    /\ Put(w, [pc |-> "convert", at |-> i, attempt |-> delivery[i].count + 1, reason |-> "none"])
    /\ UNCHANGED <<publication, wire, acks, stream, effects, crashes, inboxVars>>

\* convert_delivery's checks, in order; of the broker's own metadata only the subject
\* can be too long.
ConversionVerdict(w) ==
    LET facts == FactsOf[MessageOf(w)]
        headers == IF MessageOf(w) \in Foreign THEN facts.headers
                   ELSE Encode(facts.contentType, facts.metadata).headers
    IN  FirstVerdict(<<
            IF hand[w].attempt > MaxAttempt THEN "attempt" ELSE Ok,
            IF facts.bytes > Consumer.maxPayloadBytes THEN "payload" ELSE Ok,
            Decode(headers).verdict,
            IF facts.subjectBytes > MaxValueBytes THEN "broker metadata" ELSE Ok>>)

\* A delivery that cannot be converted is terminated and receive goes on; when the
\* termination cannot be sent receive fails and the delivery stays out.
Convert(w) ==
    LET accepted == ConversionVerdict(w) = Ok
        i == hand[w].at
    IN  /\ Doing(w, "convert")
        /\ IF accepted THEN Goes(w, "check") ELSE Put(w, EmptyHand)
        /\ delivery' = IF accepted \/ link # "up" \/ ~Open(delivery[i]) THEN delivery
                       ELSE [delivery EXCEPT ![i] = Settled(@, "malformed")]
        /\ UNCHANGED <<publication, wire, acks, stream, effects, crashes, inboxVars>>

----------------------------------------------------------------------------
(* The handler: inbox, idempotency store, effect, and back.                 *)

OnlyHand == UNCHANGED <<publication, wire, acks, stream, delivery, crashes>>

Check(w) ==
    /\ Doing(w, "check")
    /\ Goes(w, IF DeduplicationDecision(MessageOf(w)) = "Duplicate" THEN "ack" ELSE "begin")
    /\ OnlyHand
    /\ UNCHANGED <<effects, inboxVars>>

BeginEffect(w) ==
    LET m == MessageOf(w)
        decision == BeginDecision(m, FactsOf[m].fingerprint)
    IN  /\ Doing(w, "begin")
        /\ Begin(m, FactsOf[m].fingerprint)
        /\ CASE decision = "Execute" -> Goes(w, "apply")
             [] decision = "ReturnStoredResult" -> Goes(w, "ack")
             [] decision = "InProgress" -> Nacks(w, "RetryAfter")
             [] decision = "Conflict" -> Nacks(w, "Permanent")
        /\ OnlyHand
        /\ UNCHANGED effects

Apply(w) ==
    /\ Doing(w, "apply")
    /\ effects' = [effects EXCEPT ![MessageOf(w)] = @ + 1]
    /\ Goes(w, "complete")
    /\ OnlyHand
    /\ UNCHANGED inboxVars

CompleteEffect(w) ==
    /\ Doing(w, "complete")
    /\ Complete(MessageOf(w))
    /\ Goes(w, "record")
    /\ OnlyHand
    /\ UNCHANGED effects

RecordEffect(w) ==
    /\ Doing(w, "record")
    /\ RecordProcessed(MessageOf(w))
    /\ Goes(w, "ack")
    /\ OnlyHand
    /\ UNCHANGED effects

\* A store fails; the handler asks for another delivery.
StoreFails(w) ==
    /\ hand[w].pc \in {"check", "begin", "complete", "record"}
    /\ FaultInjected
    /\ Nacks(w, "Retryable")
    /\ OnlyHand
    /\ UNCHANGED effects

\* The worker is shut down before it handles the delivery, or refuses it for good.
GiveBack(w, reason) ==
    /\ Doing(w, "check")
    /\ Nacks(w, reason)
    /\ OnlyHand
    /\ UNCHANGED <<effects, inboxVars>>

----------------------------------------------------------------------------
(* The acknowledger.                                                        *)

\* Mutant: a shutdown is one of the final reasons.
AckKindFinal(reason) ==
    IF reason \in {"Retryable", "RetryAfter"} THEN "Nak" ELSE "Term"

\* nack's mapping; the delays only say when the delivery is due again.
AckKind(reason) ==
    IF reason \in {"Retryable", "RetryAfter", "Shutdown"} THEN "Nak" ELSE "Term"

\* ack waits for the consumer's confirmation.  Without the link it fails, and so it
\* does when only the confirmation is lost.
Ack(w, arrives) ==
    LET i == hand[w].at
    IN  /\ Doing(w, "ack")
        /\ arrives => link = "up"
        /\ delivery' = IF arrives /\ Open(delivery[i])
                       THEN [delivery EXCEPT ![i] = Settled(@, "acked")] ELSE delivery
        /\ Put(w, EmptyHand)
        /\ UNCHANGED <<publication, wire, acks, stream, effects, crashes, inboxVars>>

\* nack is sent and not confirmed.
Nack(w, arrives) ==
    LET i == hand[w].at
    IN  /\ Doing(w, "nack")
        /\ arrives => link = "up"
        /\ delivery' =
               IF ~arrives \/ ~Open(delivery[i]) THEN delivery
               ELSE IF AckKind(hand[w].reason) = "Term"
               THEN [delivery EXCEPT ![i] = Settled(@, hand[w].reason)]
               ELSE IF delivery[i].state = "out" THEN [delivery EXCEPT ![i] = Released(@)]
               ELSE delivery
        /\ Put(w, EmptyHand)
        /\ UNCHANGED <<publication, wire, acks, stream, effects, crashes, inboxVars>>

\* A worker disappears with what it holds; the stores and the stream stay.
Crash(w) ==
    /\ hand[w].pc \notin {"idle", "absent"}
    /\ crashes < MaxCrashes
    /\ crashes' = crashes + 1
    /\ Put(w, EmptyHand)
    /\ UNCHANGED <<publication, wire, acks, stream, delivery, effects, inboxVars>>

----------------------------------------------------------------------------
\* Of the messages only those in `present` exist; without any, nothing is consumed.
DeliveryInit(present) ==
    /\ publication = [m \in All |-> IF m \in present THEN Unpublished
                                    ELSE [Unpublished EXCEPT !.pc = "absent"]]
    /\ wire = {} /\ acks = {}
    /\ stream = <<>> /\ delivery = <<>>
    /\ hand = [w \in Workers |-> IF present # {} THEN EmptyHand
                               ELSE [EmptyHand EXCEPT !.pc = "absent"]]
    /\ effects = [m \in All |-> 0]
    /\ crashes = 0
    /\ InboxInit(All)

DeliveryNext ==
    \/ \E m \in Messages : Republish(m) \/ \E sent \in BOOLEAN : Publish(m, sent)
    \/ \E m \in Messages, outcome \in {"Confirmed", "Broker", "OutcomeUnknown"} :
           PublishReturns(m, outcome)
    \/ \E p \in Messages \X (1..MaxPublishes) : Store(p) \/ LosePublication(p)
    \/ \E x \in Foreign : StoreForeign(x)
    \/ \E i \in 1..Cardinality(All) * MaxPublishes :
           /\ i \in DOMAIN stream
           /\ AckWaitElapses(i) \/ \E w \in Workers : Receive(w, i)
    \/ \E w \in Workers :
           \/ Convert(w) \/ Check(w) \/ BeginEffect(w) \/ Apply(w)
           \/ CompleteEffect(w) \/ RecordEffect(w) \/ StoreFails(w) \/ Crash(w)
           \/ \E reason \in {"Shutdown", "Permanent"} : GiveBack(w, reason)
           \/ \E arrives \in BOOLEAN : Ack(w, arrives) \/ Nack(w, arrives)

----------------------------------------------------------------------------
(* Properties.                                                              *)

\* A publication is reported as confirmed only when the stream has the message, and
\* however often a caller repeats one whose outcome it does not know, even while an
\* earlier copy is still on its way, a message that has an ID is stored once.
StoredOnce ==
    /\ \A m \in Messages : publication[m].outcome = "Confirmed" => Stored(m)
    /\ \A i, j \in DOMAIN stream :
           stream[i] = stream[j] /\ FactsOf[stream[i]].id # "none" => i = j

\* Whatever is redelivered, to whichever worker, while another one is still at it or
\* after it disappeared: a message has its effect at most once.
EffectOnce == \A m \in All : effects[m] <= 1

\* A message leaves the consumer for a reason: acknowledged after its effect,
\* terminated because it is malformed or refused for good, or delivered as often as
\* max_deliver allows.  A shutdown, a failed store or a lost worker never ends it.
LeavesForCause ==
    \A i \in DOMAIN delivery :
        /\ delivery[i].cause = "acked" => effects[stream[i]] = 1
        /\ delivery[i].cause # "Shutdown"
        /\ delivery[i].state = "exhausted" => delivery[i].count = Consumer.maxDeliver
=============================================================================

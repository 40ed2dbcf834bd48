----------------------------- MODULE NatsProofs -----------------------------
(***************************************************************************)
(* Messages through JetStream, for any messages, workers, configuration    *)
(* and bounds: a message with an ID is stored once, a message has its      *)
(* effect at most once however it is redelivered, and a delivery leaves    *)
(* the consumer for a reason.                                              *)
(***************************************************************************)
EXTENDS Nats, TLAPS

PublicationType ==
    [pc : {"idle", "waiting", "answered", "stored", "absent"}, tries : Nat,
     outcome : {"none", "Protocol", "Connection", "Confirmed", "Broker", "OutcomeUnknown"}]
DeliveryType ==
    [state : {"ready", "out", "done", "exhausted"}, count : Nat,
     cause : {"none", "acked", "malformed", "Permanent"}]
NackReason == {"Retryable", "RetryAfter", "Permanent", "Shutdown"}
HandType ==
    [pc : {"idle", "absent", "convert", "check", "begin", "apply", "complete", "record", "ack",
           "nack"},
     at : Nat, attempt : Nat, reason : NackReason \cup {"none"}]
RecordType ==
    {NoRecord} \cup [fingerprint : {FactsOf[m].fingerprint : m \in All},
                     state : {"InProgress", "Completed"}]

\* The producer's side: what the stream has answered is in it, and neither a message
\* with an ID nor a foreign one is in it twice.
PublishInv ==
    /\ publication \in [All -> PublicationType]
    /\ wire \subseteq Messages \X Nat
    /\ acks \subseteq Messages \X Nat
    /\ stream \in Seq(All)
    /\ \A p \in acks : Stored(p[1])
    /\ \A x \in Foreign : publication[x].pc # "stored" => ~Stored(x)
    /\ StoredOnce

\* How often a delivery in this state may have been delivered.
Counted(d) ==
    /\ d.state = "ready" => d.count < Consumer.maxDeliver
    /\ d.state = "out" => d.count <= Consumer.maxDeliver
    /\ d.state = "exhausted" => d.count = Consumer.maxDeliver

\* The consumer's side: one delivery for each stored message.
ConsumerInv ==
    /\ delivery \in Seq(DeliveryType)
    /\ Len(delivery) = Len(stream)
    /\ \A i \in DOMAIN delivery :
           /\ Counted(delivery[i])
           /\ delivery[i].cause = "acked" => effects[stream[i]] = 1

\* The stores: a message without a record has had no effect, one that is completed or
\* processed has had it.
StoreInv ==
    /\ effects \in [All -> {0, 1}]
    /\ records \in [All -> RecordType]
    /\ processed \subseteq All
    /\ \A m \in All :
           /\ records[m] = NoRecord => effects[m] = 0
           /\ records[m].state = "Completed" => effects[m] = 1
           /\ m \in processed => effects[m] = 1

Holding(w) == hand[w].pc \notin {"idle", "absent"}

\* What a worker's place says of the message in its hand: one that is about to apply
\* the effect is the only one, and has left a record of it.
WorkerInv(w) ==
    /\ Holding(w) => hand[w].at \in DOMAIN stream
    /\ Doing(w, "nack") => hand[w].reason \in NackReason
    /\ Doing(w, "apply") => records[MessageOf(w)] # NoRecord /\ effects[MessageOf(w)] = 0
    /\ hand[w].pc \in {"complete", "record", "ack"} => effects[MessageOf(w)] = 1
    /\ \A v \in Workers :
           Doing(w, "apply") /\ Doing(v, "apply") /\ MessageOf(v) = MessageOf(w) => v = w

IInv ==
    /\ PublishInv
    /\ ConsumerInv
    /\ StoreInv
    /\ hand \in [Workers -> HandType]
    /\ \A w \in Workers : WorkerInv(w)

----------------------------------------------------------------------------
(* The operators.                                                           *)

\* The first of some places is the least of them.
LEMMA FirstIsLeast ==
    ASSUME NEW S \in SUBSET Nat, NEW i \in S, \A j \in S : i <= j
    PROVE  First(S) = i
  <1>1. First(S) \in S /\ \A j \in S : First(S) <= j
    BY Zenon DEF First
  <1>2. PICK n : n = First(S)
    OBVIOUS
  <1>3. n \in Nat /\ i \in Nat /\ n <= i /\ i <= n
    BY <1>1, <1>2
  <1> QED
    BY <1>2, <1>3

\* Three checks in order.
LEMMA FirstOfThree ==
    ASSUME NEW a \in BOOLEAN, NEW b \in BOOLEAN, NEW c \in BOOLEAN,
           NEW x, NEW y, NEW z, NEW d
    PROVE  FirstOf(<<<<a, x>>, <<b, y>>, <<c, z>>>>, d)
               = IF a THEN x ELSE IF b THEN y ELSE IF c THEN z ELSE d
  <1> DEFINE checks == <<<<a, x>>, <<b, y>>, <<c, z>>>>
             failed == {i \in DOMAIN checks : checks[i][1]}
  <1>1. /\ DOMAIN checks = {1, 2, 3}
        /\ checks[1] = <<a, x>> /\ checks[2] = <<b, y>> /\ checks[3] = <<c, z>>
    OBVIOUS
  <1>2. /\ 1 \in failed <=> a
        /\ 2 \in failed <=> b
        /\ 3 \in failed <=> c
        /\ failed \subseteq {1, 2, 3}
    BY <1>1
  <1> HIDE DEF checks, failed
  <1>3. /\ a => First(failed) = 1
        /\ ~a /\ b => First(failed) = 2
        /\ ~a /\ ~b /\ c => First(failed) = 3
    <2>1. failed \in SUBSET Nat
      BY <1>2
    <2>2. ASSUME a PROVE First(failed) = 1
      BY <1>2, <2>1, <2>2, FirstIsLeast
    <2>3. ASSUME ~a, b PROVE First(failed) = 2
      BY <1>2, <2>1, <2>3, FirstIsLeast
    <2>4. ASSUME ~a, ~b, c PROVE First(failed) = 3
      BY <1>2, <2>1, <2>4, FirstIsLeast
    <2> QED
      BY <2>2, <2>3, <2>4
  <1>4. FirstOf(checks, d) = IF failed = {} THEN d ELSE checks[First(failed)][2]
    BY DEF FirstOf, checks, failed
  <1>5. failed = {} <=> ~a /\ ~b /\ ~c
    BY <1>2
  <1> QED
    BY <1>1, <1>3, <1>4, <1>5 DEF checks

\* What begin decides, by the record it finds.
LEMMA BeginDecides ==
    ASSUME StoreInv, NEW m \in All, NEW f
    PROVE  /\ BeginDecision(m, f) \in {"Execute", "Conflict", "InProgress", "ReturnStoredResult"}
           /\ BeginDecision(m, f) = "Execute" <=> records[m] = NoRecord
           /\ BeginDecision(m, f) = "ReturnStoredResult" => records[m].state = "Completed"
  <1>1. BeginDecision(m, f) =
            IF records[m] = NoRecord THEN "Execute"
            ELSE IF records[m].fingerprint # f THEN "Conflict"
            ELSE IF records[m].state = "InProgress" THEN "InProgress" ELSE "ReturnStoredResult"
    <2> DEFINE a == records[m] = NoRecord
               b == records[m].fingerprint # f
               c == records[m].state = "InProgress"
    <2>1. a \in BOOLEAN /\ b \in BOOLEAN /\ c \in BOOLEAN
      OBVIOUS
    <2>2. BeginDecision(m, f) =
              FirstOf(<<<<a, "Execute">>, <<b, "Conflict">>, <<c, "InProgress">>>>,
                      "ReturnStoredResult")
      BY DEF BeginDecision
    <2> HIDE DEF a, b, c
    <2>3. BeginDecision(m, f) = IF a THEN "Execute" ELSE IF b THEN "Conflict"
                                ELSE IF c THEN "InProgress" ELSE "ReturnStoredResult"
      BY <2>1, <2>2, FirstOfThree, SMTT(20)
    <2> QED
      BY <2>3 DEF a, b, c
  <1>2. records[m] # NoRecord => records[m].state \in {"InProgress", "Completed"}
    BY DEF StoreInv, RecordType
  <1> QED
    BY <1>1, <1>2

----------------------------------------------------------------------------
(* What a step changes one at a time.                                       *)

\* Each part of the invariant depends on its own variables.
LEMMA Frames ==
    /\ PublishInv /\ UNCHANGED <<publication, wire, acks, stream>> => PublishInv'
    /\ ConsumerInv /\ UNCHANGED <<delivery, stream, effects>> => ConsumerInv'
    /\ StoreInv /\ UNCHANGED <<effects, records, processed>> => StoreInv'
    /\ (\A w \in Workers : WorkerInv(w)) /\ UNCHANGED <<hand, stream, records, effects>>
           => \A w \in Workers : WorkerInv(w)'
  <1>1. PublishInv /\ UNCHANGED <<publication, wire, acks, stream>> => PublishInv'
    BY DEF PublishInv, StoredOnce, Stored
  <1>2. ConsumerInv /\ UNCHANGED <<delivery, stream, effects>> => ConsumerInv'
    BY DEF ConsumerInv
  <1>3. StoreInv /\ UNCHANGED <<effects, records, processed>> => StoreInv'
    BY DEF StoreInv
  <1>4. (\A w \in Workers : WorkerInv(w)) /\ UNCHANGED <<hand, stream, records, effects>>
            => \A w \in Workers : WorkerInv(w)'
    BY DEF WorkerInv, Holding, Doing, MessageOf
  <1> QED
    BY <1>1, <1>2, <1>3, <1>4

\* Every stored message has a delivery.
LEMMA OneDelivery ==
    ASSUME PublishInv, ConsumerInv
    PROVE  /\ DOMAIN delivery = DOMAIN stream /\ DOMAIN stream \subseteq Nat
           /\ \A i \in DOMAIN delivery :
                  stream[i] \in All /\ delivery[i] \in DeliveryType /\ Counted(delivery[i])
  <1>1. stream \in Seq(All) /\ delivery \in Seq(DeliveryType) /\ Len(delivery) = Len(stream)
        /\ \A i \in DOMAIN delivery : Counted(delivery[i])
    BY DEF PublishInv, ConsumerInv
  <1> QED
    BY <1>1

\* A delivery moves: its state fits its count, and it is acknowledged after the effect.
LEMMA DeliveryMoves ==
    ASSUME ConsumerInv, NEW i \in DOMAIN delivery, NEW d \in DeliveryType,
           Counted(d), d.cause = "acked" => effects[stream[i]] = 1,
           delivery' = [delivery EXCEPT ![i] = d], UNCHANGED <<stream, effects>>
    PROVE  ConsumerInv'
  <1>1. delivery' \in Seq(DeliveryType) /\ Len(delivery') = Len(delivery)
        /\ DOMAIN delivery' = DOMAIN delivery
    BY DEF ConsumerInv
  <1>2. \A n \in DOMAIN delivery : delivery'[n] = IF n = i THEN d ELSE delivery[n]
    BY DEF ConsumerInv
  <1> QED
    BY <1>1, <1>2 DEF ConsumerInv

\* Releasing and settling a delivery.
LEMMA DeliverySettles ==
    ASSUME NEW d \in DeliveryType, Counted(d)
    PROVE  /\ d.state = "out" =>
                  /\ Released(d) \in DeliveryType /\ Counted(Released(d))
                  /\ Released(d).cause = d.cause
           /\ \A cause \in {"acked", "malformed", "Permanent"} :
                  /\ Settled(d, cause) \in DeliveryType /\ Counted(Settled(d, cause))
                  /\ Settled(d, cause).cause = cause
  <1>1. ASSUME d.state = "out"
        PROVE  /\ Released(d) \in DeliveryType /\ Counted(Released(d))
               /\ Released(d).cause = d.cause
    <2>1. PICK s \in {"exhausted", "ready"} :
              /\ s = IF d.count >= Consumer.maxDeliver THEN "exhausted" ELSE "ready"
              /\ Released(d) = [d EXCEPT !.state = s]
      BY DEF Released
    <2>2. /\ Released(d) \in DeliveryType
          /\ Released(d).state = s /\ Released(d).count = d.count /\ Released(d).cause = d.cause
      BY <2>1 DEF DeliveryType
    <2>3. d.count \in Nat /\ Consumer.maxDeliver \in Nat /\ d.count <= Consumer.maxDeliver
      BY <1>1, ConsumerAssumption DEF DeliveryType, Counted
    <2> QED
      BY <2>1, <2>2, <2>3 DEF Counted
  <1>2. ASSUME NEW cause \in {"acked", "malformed", "Permanent"}
        PROVE  /\ Settled(d, cause) \in DeliveryType /\ Counted(Settled(d, cause))
               /\ Settled(d, cause).cause = cause
    <2>1. /\ Settled(d, cause) \in DeliveryType
          /\ Settled(d, cause).state = "done" /\ Settled(d, cause).cause = cause
      BY DEF Settled, DeliveryType
    <2> QED
      BY <2>1 DEF Counted
  <1> QED
    BY <1>1, <1>2

\* A worker moves anywhere but to the effect, with a message that had it if its place
\* says so.
LEMMA HandMoves ==
    ASSUME hand \in [Workers -> HandType], \A v \in Workers : WorkerInv(v),
           NEW w \in Workers, NEW k \in HandType,
           k.pc # "apply",
           k.pc \notin {"idle", "absent"} => k.at \in DOMAIN stream,
           k.pc = "nack" => k.reason \in NackReason,
           k.pc \in {"complete", "record", "ack"} => effects[stream[k.at]] = 1,
           hand' = [hand EXCEPT ![w] = k], UNCHANGED <<stream, records, effects>>
    PROVE  hand' \in [Workers -> HandType] /\ \A v \in Workers : WorkerInv(v)'
  <1>1. hand' \in [Workers -> HandType]
    OBVIOUS
  <1>2. hand'[w] = k /\ \A v \in Workers : v # w => hand'[v] = hand[v]
    OBVIOUS
  <1>3. WorkerInv(w)'
    BY <1>2 DEF WorkerInv, Holding, Doing, MessageOf
  <1>4. ASSUME NEW v \in Workers, v # w
        PROVE  WorkerInv(v)'
    BY <1>2, <1>4 DEF WorkerInv, Holding, Doing, MessageOf
  <1> QED
    BY <1>1, <1>3, <1>4

\* A worker that goes on with what it holds, or gives it back.
LEMMA HandOn ==
    ASSUME hand \in [Workers -> HandType], NEW w \in Workers
    PROVE  /\ EmptyHand \in HandType /\ EmptyHand.pc = "idle"
           /\ \A pc \in {"check", "begin", "apply", "complete", "record", "ack"} :
                  /\ [hand[w] EXCEPT !.pc = pc] \in HandType
                  /\ [hand[w] EXCEPT !.pc = pc].pc = pc
                  /\ [hand[w] EXCEPT !.pc = pc].at = hand[w].at
           /\ \A reason \in NackReason :
                  /\ [hand[w] EXCEPT !.pc = "nack", !.reason = reason] \in HandType
                  /\ [hand[w] EXCEPT !.pc = "nack", !.reason = reason].pc = "nack"
                  /\ [hand[w] EXCEPT !.pc = "nack", !.reason = reason].reason = reason
                  /\ [hand[w] EXCEPT !.pc = "nack", !.reason = reason].at = hand[w].at
  <1>1. EmptyHand \in HandType /\ EmptyHand.pc = "idle"
    BY DEF EmptyHand, HandType
  <1>2. hand[w] \in HandType
    OBVIOUS
  <1>3. ASSUME NEW pc \in {"check", "begin", "apply", "complete", "record", "ack"}
        PROVE  /\ [hand[w] EXCEPT !.pc = pc] \in HandType
               /\ [hand[w] EXCEPT !.pc = pc].pc = pc
               /\ [hand[w] EXCEPT !.pc = pc].at = hand[w].at
    BY <1>2 DEF HandType
  <1>4. ASSUME NEW reason \in NackReason
        PROVE  /\ [hand[w] EXCEPT !.pc = "nack", !.reason = reason] \in HandType
               /\ [hand[w] EXCEPT !.pc = "nack", !.reason = reason].pc = "nack"
               /\ [hand[w] EXCEPT !.pc = "nack", !.reason = reason].reason = reason
               /\ [hand[w] EXCEPT !.pc = "nack", !.reason = reason].at = hand[w].at
    BY <1>2 DEF HandType
  <1> QED
    BY <1>1, <1>3, <1>4

----------------------------------------------------------------------------
(* The producer and the stream.                                             *)

\* What only the callers of publish and the wire see.
LEMMA PublisherSteps ==
    ASSUME IInv, NEW m \in Messages,
           \/ Republish(m)
           \/ \E sent \in BOOLEAN : Publish(m, sent)
           \/ \E outcome \in {"Confirmed", "Broker", "OutcomeUnknown"} : PublishReturns(m, outcome)
    PROVE  IInv'
  <1>1. UNCHANGED <<acks, stream, delivery, hand, effects, records, processed>>
    BY DEF Republish, Publish, PublishReturns, inboxVars
  <1>2. m \in All /\ publication[m] \in PublicationType /\ publication[m].tries \in Nat
    BY DEF All, IInv, PublishInv, PublicationType
  <1>3. PICK k \in PublicationType :
            /\ publication' = [publication EXCEPT ![m] = k]
            /\ k.pc # "stored"
            /\ k.outcome = "Confirmed" => Stored(m)
    <2>1. CASE Republish(m)
      <3>1. [publication[m] EXCEPT !.pc = "idle", !.outcome = "none"] \in PublicationType
        BY <1>2 DEF PublicationType
      <3>2. /\ publication' = [publication EXCEPT ![m] =
                   [publication[m] EXCEPT !.pc = "idle", !.outcome = "none"]]
        BY <2>1 DEF Republish
      <3>3. /\ [publication[m] EXCEPT !.pc = "idle", !.outcome = "none"].pc = "idle"
            /\ [publication[m] EXCEPT !.pc = "idle", !.outcome = "none"].outcome = "none"
        BY <1>2 DEF PublicationType
      <3> QED
        BY <3>1, <3>2, <3>3
    <2>2. ASSUME NEW sent \in BOOLEAN, Publish(m, sent)
          PROVE  \E k \in PublicationType :
                     /\ publication' = [publication EXCEPT ![m] = k]
                     /\ k.pc # "stored"
                     /\ k.outcome = "Confirmed" => Stored(m)
      <3>1. PICK o \in {"Protocol", "none", "Connection"} :
                o = IF PublishVerdict(m) # Ok THEN "Protocol"
                    ELSE IF sent THEN "none" ELSE "Connection"
        OBVIOUS
      <3>2. publication' = [publication EXCEPT ![m] =
                [pc |-> IF o = "none" THEN "waiting" ELSE "answered",
                 tries |-> publication[m].tries + 1, outcome |-> o]]
        BY <2>2, <3>1 DEF Publish
      <3>3. [pc |-> IF o = "none" THEN "waiting" ELSE "answered",
             tries |-> publication[m].tries + 1, outcome |-> o] \in PublicationType
        BY <1>2, <3>1 DEF PublicationType
      <3> QED
        BY <3>1, <3>2, <3>3
    <2>3. ASSUME NEW outcome \in {"Confirmed", "Broker", "OutcomeUnknown"},
                 PublishReturns(m, outcome)
          PROVE  \E k \in PublicationType :
                     /\ publication' = [publication EXCEPT ![m] = k]
                     /\ k.pc # "stored"
                     /\ k.outcome = "Confirmed" => Stored(m)
      <3> DEFINE k == [publication[m] EXCEPT !.pc = "answered", !.outcome = outcome]
      <3>1. k \in PublicationType /\ k.pc = "answered" /\ k.outcome = outcome
        BY <1>2 DEF PublicationType
      <3>2. publication' = [publication EXCEPT ![m] = k]
        BY <2>3 DEF PublishReturns
      <3>3. outcome = "Confirmed" => Stored(m)
        BY <2>3 DEF PublishReturns, IInv, PublishInv
      <3> HIDE DEF k
      <3> QED
        BY <3>1, <3>2, <3>3
    <2> QED
      BY <2>1, <2>2, <2>3
  <1>4. wire' \subseteq Messages \X Nat
    BY <1>2 DEF Republish, Publish, PublishReturns, IInv, PublishInv
  <1>5. PublishInv'
    <2>1. publication' \in [All -> PublicationType]
      BY <1>3 DEF IInv, PublishInv
    <2>2. publication'[m] = k /\ \A n \in All : n # m => publication'[n] = publication[n]
      BY <1>2, <1>3 DEF IInv, PublishInv
    <2>3. m \notin Foreign /\ Foreign \subseteq All /\ Messages \subseteq All
      BY MessagesAssumption DEF All
    <2>4. StoredOnce'
      BY <1>1, <1>3, <2>2, <2>3 DEF IInv, PublishInv, StoredOnce, Stored
    <2>5. \A x \in Foreign : publication'[x].pc # "stored" => ~Stored(x)'
      BY <1>1, <2>2, <2>3 DEF IInv, PublishInv, Stored
    <2> QED
      BY <1>1, <1>4, <2>1, <2>4, <2>5 DEF IInv, PublishInv, Stored
  <1> QED
    BY <1>1, <1>5, Frames DEF IInv

\* A publication that is lost.
LEMMA LoseStep ==
    ASSUME IInv, NEW p, LosePublication(p)
    PROVE  IInv'
  <1>1. UNCHANGED <<publication, acks, stream, delivery, hand, effects, records, processed>>
        /\ wire' \subseteq wire
    BY DEF LosePublication, inboxVars
  <1>2. PublishInv'
    BY <1>1 DEF IInv, PublishInv, StoredOnce, Stored
  <1> QED
    BY <1>1, <1>2, Frames DEF IInv

\* A message is stored behind the others: nobody's place changes, and its delivery is
\* the first one of it.
LEMMA AppendKeeps ==
    ASSUME IInv, NEW m \in All, Append1(m), UNCHANGED <<hand, effects, records, processed>>
    PROVE  /\ ConsumerInv' /\ StoreInv' /\ hand' \in [Workers -> HandType]
           /\ \A w \in Workers : WorkerInv(w)'
           /\ stream' \in Seq(All)
           /\ DOMAIN stream' = DOMAIN stream \cup {Len(stream) + 1}
           /\ Len(stream) + 1 \notin DOMAIN stream
           /\ stream'[Len(stream) + 1] = m
           /\ \A i \in DOMAIN stream : stream'[i] = stream[i]
           /\ \A n \in All : Stored(n)' <=> Stored(n) \/ n = m
  <1>1. stream \in Seq(All) /\ delivery \in Seq(DeliveryType) /\ Len(delivery) = Len(stream)
    BY DEF IInv, PublishInv, ConsumerInv
  <1>2. stream' = Append(stream, m) /\ delivery' = Append(delivery, Undelivered)
    BY DEF Append1
  <1>3. Undelivered \in DeliveryType /\ Counted(Undelivered) /\ Undelivered.cause = "none"
    BY ConsumerAssumption DEF Undelivered, DeliveryType, Counted
  <1>4. /\ stream' \in Seq(All) /\ Len(stream') = Len(stream) + 1
        /\ DOMAIN stream' = DOMAIN stream \cup {Len(stream) + 1}
        /\ Len(stream) + 1 \notin DOMAIN stream
        /\ stream'[Len(stream) + 1] = m
        /\ \A i \in DOMAIN stream : stream'[i] = stream[i]
    BY <1>1, <1>2
  <1>5. /\ delivery' \in Seq(DeliveryType) /\ Len(delivery') = Len(delivery) + 1
        /\ DOMAIN delivery' = DOMAIN delivery \cup {Len(delivery) + 1}
        /\ delivery'[Len(delivery) + 1] = Undelivered
        /\ \A i \in DOMAIN delivery : delivery'[i] = delivery[i]
    BY <1>1, <1>2, <1>3
  <1>6. DOMAIN delivery = DOMAIN stream
    BY <1>1
  <1>7. ConsumerInv'
    <2>1. \A i \in DOMAIN delivery' :
              /\ Counted(delivery'[i])
              /\ delivery'[i].cause = "acked" => effects'[stream'[i]] = 1
      BY <1>3, <1>4, <1>5, <1>6 DEF IInv, ConsumerInv
    <2> QED
      BY <1>1, <1>4, <1>5, <2>1 DEF ConsumerInv, Counted
  <1>8. \A w \in Workers : WorkerInv(w)'
    <2> SUFFICES ASSUME NEW w \in Workers
                 PROVE  WorkerInv(w)'
      OBVIOUS
    <2>1. \A v \in Workers : Holding(v) => MessageOf(v)' = MessageOf(v) /\ hand[v].at \in DOMAIN stream
      BY <1>4 DEF IInv, WorkerInv, MessageOf
    <2>2. Holding(w) => hand[w].at \in DOMAIN stream'
      BY <1>4, <2>1
    <2> QED
      BY <2>1, <2>2 DEF IInv, WorkerInv, Holding, Doing
  <1>9. \A n \in All : Stored(n)' <=> Stored(n) \/ n = m
    BY <1>4 DEF Stored
  <1> QED
    BY <1>4, <1>7, <1>8, <1>9, Frames DEF IInv

\* A publication reaches the stream, which stores one with an ID unless it has it.
LEMMA StoreStep ==
    ASSUME IInv, NEW p \in Messages \X (1..MaxPublishes), Store(p)
    PROVE  IInv'
  <1> DEFINE m == p[1]
  <1>1. m \in Messages /\ m \in All
    BY DEF All
  <1>2. p \in wire /\ wire' = wire \ {p} /\ acks' = acks \cup {p} /\ publication' = publication
        /\ UNCHANGED <<hand, effects, records, processed>>
    BY DEF Store, inboxVars
  <1>3. wire' \subseteq Messages \X Nat /\ acks' \subseteq Messages \X Nat
    BY <1>2 DEF IInv, PublishInv
  <1>4. CASE PublicationId(m) # "none" /\ Stored(m)
    <2>1. UNCHANGED <<stream, delivery>>
      BY <1>4 DEF Store
    <2>2. PublishInv'
      BY <1>2, <1>3, <1>4, <2>1 DEF IInv, PublishInv, StoredOnce, Stored
    <2> QED
      BY <1>2, <2>1, <2>2, Frames DEF IInv
  <1>5. CASE ~(PublicationId(m) # "none" /\ Stored(m))
    <2>1. Append1(m)
      BY <1>5 DEF Store
    <2>2. PublishInv'
      <3>1. \A q \in acks' : Stored(q[1])'
        <4>1. \A q \in acks : q[1] \in All /\ Stored(q[1])
          BY DEF IInv, PublishInv, All
        <4>2. \A n \in All : Stored(n)' <=> Stored(n) \/ n = m
          BY <1>1, <1>2, <2>1, AppendKeeps
        <4> QED
          BY <1>1, <1>2, <4>1, <4>2
      <3>2. \A n \in Messages : publication'[n].outcome = "Confirmed" => Stored(n)'
        BY <1>1, <1>2, <2>1, AppendKeeps DEF IInv, PublishInv, StoredOnce, All
      <3>3. \A x \in Foreign : publication'[x].pc # "stored" => ~Stored(x)'
        <4>1. Foreign \subseteq All /\ m \notin Foreign
          BY <1>1, MessagesAssumption DEF All
        <4> QED
          BY <1>1, <1>2, <2>1, <4>1, AppendKeeps DEF IInv, PublishInv
      <3>4. \A i, j \in DOMAIN stream' :
                stream'[i] = stream'[j] /\ FactsOf[stream'[i]].id # "none" => i = j
        <4>1. FactsOf[m].id # "none" => \A i \in DOMAIN stream : stream[i] # m
          BY <1>5 DEF PublicationId, Stored
        <4>2. /\ DOMAIN stream' = DOMAIN stream \cup {Len(stream) + 1}
              /\ stream'[Len(stream) + 1] = m
              /\ \A i \in DOMAIN stream : stream'[i] = stream[i]
          BY <1>1, <1>2, <2>1, AppendKeeps
        <4>3. \A i, j \in DOMAIN stream :
                  stream[i] = stream[j] /\ FactsOf[stream[i]].id # "none" => i = j
          BY DEF IInv, PublishInv, StoredOnce
        <4> QED
          BY <4>1, <4>2, <4>3
      <3>5. stream' \in Seq(All) /\ publication' \in [All -> PublicationType]
        BY <1>1, <1>2, <2>1, AppendKeeps DEF IInv, PublishInv
      <3> QED
        BY <1>3, <3>1, <3>2, <3>3, <3>4, <3>5 DEF PublishInv, StoredOnce
    <2> QED
      BY <1>1, <1>2, <2>1, <2>2, AppendKeeps DEF IInv
  <1> QED
    BY <1>4, <1>5

\* Someone else stores a message, once.
LEMMA StoreForeignStep ==
    ASSUME IInv, NEW x \in Foreign, StoreForeign(x)
    PROVE  IInv'
  <1>1. x \in All /\ x \notin Messages /\ Messages \subseteq All /\ Foreign \subseteq All
    BY MessagesAssumption DEF All
  <1>2. UNCHANGED <<wire, acks, hand, effects, records, processed>> /\ Append1(x)
    BY DEF StoreForeign, inboxVars
  <1>3. /\ publication' \in [All -> PublicationType]
        /\ publication'[x].pc = "stored"
        /\ \A n \in All : n # x => publication'[n] = publication[n]
    <2>1. [publication[x] EXCEPT !.pc = "stored"] \in PublicationType
      BY <1>1 DEF IInv, PublishInv, PublicationType
    <2>2. publication' = [publication EXCEPT ![x] = [publication[x] EXCEPT !.pc = "stored"]]
      BY DEF StoreForeign
    <2>3. publication \in [All -> PublicationType]
      BY DEF IInv, PublishInv
    <2>4. publication[x] \in PublicationType
      BY <1>1, <2>3
    <2>5. [publication[x] EXCEPT !.pc = "stored"].pc = "stored"
      BY <2>4 DEF PublicationType
    <2> QED
      BY <1>1, <2>1, <2>2, <2>3, <2>5
  <1>4. ~Stored(x)
    BY DEF StoreForeign, IInv, PublishInv
  <1>5. PublishInv'
    <2>1. \A q \in acks' : Stored(q[1])'
      <3>1. \A q \in acks : q[1] \in All /\ Stored(q[1])
        BY DEF IInv, PublishInv, All
      <3> QED
        BY <1>1, <1>2, <3>1, AppendKeeps
    <2>2. \A n \in Messages : publication'[n].outcome = "Confirmed" => Stored(n)'
      BY <1>1, <1>2, <1>3, AppendKeeps DEF IInv, PublishInv, StoredOnce
    <2>3. \A y \in Foreign : publication'[y].pc # "stored" => ~Stored(y)'
      BY <1>1, <1>2, <1>3, AppendKeeps DEF IInv, PublishInv
    <2>4. \A i, j \in DOMAIN stream' :
              stream'[i] = stream'[j] /\ FactsOf[stream'[i]].id # "none" => i = j
      <3>1. \A i \in DOMAIN stream : stream[i] # x
        BY <1>4 DEF Stored
      <3> QED
        BY <1>1, <1>2, <3>1, AppendKeeps DEF IInv, PublishInv, StoredOnce
    <2>5. stream' \in Seq(All) /\ wire' \subseteq Messages \X Nat /\ acks' \subseteq Messages \X Nat
      BY <1>1, <1>2, AppendKeeps DEF IInv, PublishInv
    <2> QED
      BY <1>3, <2>1, <2>2, <2>3, <2>4, <2>5 DEF PublishInv, StoredOnce
  <1> QED
    BY <1>1, <1>2, <1>5, AppendKeeps DEF IInv

----------------------------------------------------------------------------
(* The consumer and its workers.                                            *)

\* Facts about the message a worker holds.
LEMMA HeldMessage ==
    ASSUME IInv, NEW w \in Workers, Holding(w)
    PROVE  /\ hand[w] \in HandType
           /\ hand[w].at \in DOMAIN stream
           /\ hand[w].at \in DOMAIN delivery
           /\ MessageOf(w) \in All
           /\ delivery[hand[w].at] \in DeliveryType
           /\ Counted(delivery[hand[w].at])
  <1>1. hand[w] \in HandType /\ hand[w].at \in DOMAIN stream
    BY DEF IInv, WorkerInv
  <1> QED
    BY <1>1, OneDelivery DEF IInv, MessageOf

\* ack_wait elapses.
LEMMA AckWaitStep ==
    ASSUME IInv, NEW i \in DOMAIN stream, AckWaitElapses(i)
    PROVE  IInv'
  <1>1. UNCHANGED <<publication, wire, acks, stream, hand, effects, records, processed>>
    BY DEF AckWaitElapses, inboxVars
  <1>2. i \in DOMAIN delivery /\ delivery[i] \in DeliveryType /\ Counted(delivery[i])
    BY OneDelivery DEF IInv
  <1>3. delivery[i].state = "out" /\ delivery' = [delivery EXCEPT ![i] = Released(delivery[i])]
    BY DEF AckWaitElapses
  <1>4. /\ Released(delivery[i]) \in DeliveryType /\ Counted(Released(delivery[i]))
        /\ Released(delivery[i]).cause = delivery[i].cause
    BY <1>2, <1>3, DeliverySettles
  <1>5. ConsumerInv'
    BY <1>1, <1>2, <1>3, <1>4, DeliveryMoves DEF IInv, ConsumerInv
  <1> QED
    BY <1>1, <1>5, Frames DEF IInv

\* A worker receives a delivery, one more time.
LEMMA ReceiveStep ==
    ASSUME IInv, NEW i \in DOMAIN stream, NEW w \in Workers, Receive(w, i)
    PROVE  IInv'
  <1>1. UNCHANGED <<publication, wire, acks, stream, effects, records, processed>>
    BY DEF Receive, inboxVars
  <1>2. /\ i \in DOMAIN delivery /\ delivery[i] \in DeliveryType /\ Counted(delivery[i])
        /\ i \in Nat /\ delivery[i].count \in Nat
    <2>1. i \in DOMAIN delivery /\ delivery[i] \in DeliveryType /\ Counted(delivery[i]) /\ i \in Nat
      BY OneDelivery DEF IInv
    <2> QED
      BY <2>1 DEF DeliveryType
  <1>3. ConsumerInv'
    <2> DEFINE d == [delivery[i] EXCEPT !.state = "out", !.count = delivery[i].count + 1]
    <2>1. /\ d \in DeliveryType
          /\ d.state = "out" /\ d.count = delivery[i].count + 1 /\ d.cause = delivery[i].cause
      <3>1. PICK c \in Nat : c = delivery[i].count + 1
        BY <1>2
      <3>2. PICK x \in DeliveryType : x = delivery[i]
        BY <1>2
      <3> QED
        BY <3>1, <3>2 DEF DeliveryType
    <2>2. delivery' = [delivery EXCEPT ![i] = d] /\ delivery[i].state = "ready"
      BY <1>2 DEF Receive, IInv, ConsumerInv
    <2> HIDE DEF d
    <2>3. Counted(d)
      <3>1. Consumer.maxDeliver \in Nat /\ delivery[i].count < Consumer.maxDeliver
        BY <1>2, <2>2, ConsumerAssumption DEF Counted
      <3>2. delivery[i].count + 1 <= Consumer.maxDeliver
        <4>1. PICK c \in Nat, n \in Nat : c = delivery[i].count /\ n = Consumer.maxDeliver
          BY <1>2, <3>1
        <4> QED
          BY <3>1, <4>1
      <3> QED
        BY <2>1, <3>2 DEF Counted
    <2> QED
      BY <1>1, <1>2, <2>1, <2>2, <2>3, DeliveryMoves DEF IInv, ConsumerInv
  <1>4. hand' \in [Workers -> HandType] /\ \A v \in Workers : WorkerInv(v)'
    <2> DEFINE k == [pc |-> "convert", at |-> i, attempt |-> delivery[i].count + 1,
                     reason |-> "none"]
    <2>1. k \in HandType /\ k.pc = "convert" /\ k.at = i
      <3>1. PICK c \in Nat : c = delivery[i].count + 1
        BY <1>2
      <3> QED
        BY <1>2, <3>1 DEF HandType
    <2>2. hand' = [hand EXCEPT ![w] = k]
      BY DEF Receive, Put
    <2> HIDE DEF k
    <2> QED
      BY <1>1, <2>1, <2>2, HandMoves DEF IInv
  <1> QED
    BY <1>1, <1>3, <1>4, Frames DEF IInv

\* What a worker does with the delivery in its hand before it puts it away: settle it
\* for a reason, release it, or nothing.
LEMMA PutsAway ==
    ASSUME IInv, NEW w \in Workers, Holding(w),
           Put(w, EmptyHand) \/ Goes(w, "check"),
           UNCHANGED <<publication, wire, acks, stream, effects, inboxVars>>,
           \/ delivery' = delivery
           \/ \E cause \in {"acked", "malformed", "Permanent"} :
                  /\ cause = "acked" => effects[MessageOf(w)] = 1
                  /\ delivery' = [delivery EXCEPT ![hand[w].at] =
                                     Settled(delivery[hand[w].at], cause)]
           \/ /\ delivery[hand[w].at].state = "out"
              /\ delivery' = [delivery EXCEPT ![hand[w].at] = Released(delivery[hand[w].at])]
    PROVE  IInv'
  <1>1. UNCHANGED <<publication, wire, acks, stream, effects, records, processed>>
    BY DEF inboxVars
  <1> DEFINE i == hand[w].at
  <1>2. /\ i \in DOMAIN delivery /\ delivery[i] \in DeliveryType /\ Counted(delivery[i])
        /\ hand[w].at \in DOMAIN stream
    BY HeldMessage
  <1>3. ConsumerInv'
    <2>1. CASE delivery' = delivery
      BY <1>1, <2>1, Frames DEF IInv
    <2>2. ASSUME NEW cause \in {"acked", "malformed", "Permanent"},
                 cause = "acked" => effects[MessageOf(w)] = 1,
                 delivery' = [delivery EXCEPT ![i] = Settled(delivery[i], cause)]
          PROVE  ConsumerInv'
      <3>1. /\ Settled(delivery[i], cause) \in DeliveryType
            /\ Counted(Settled(delivery[i], cause))
            /\ Settled(delivery[i], cause).cause = cause
        BY <1>2, DeliverySettles
      <3> QED
        BY <1>1, <1>2, <2>2, <3>1, DeliveryMoves DEF IInv, MessageOf
    <2>3. CASE /\ delivery[i].state = "out"
               /\ delivery' = [delivery EXCEPT ![i] = Released(delivery[i])]
      <3>1. /\ Released(delivery[i]) \in DeliveryType /\ Counted(Released(delivery[i]))
            /\ Released(delivery[i]).cause = delivery[i].cause
        BY <1>2, <2>3, DeliverySettles
      <3> QED
        BY <1>1, <1>2, <2>3, <3>1, DeliveryMoves DEF IInv, ConsumerInv
    <2> QED
      BY <2>1, <2>2, <2>3
  <1>4. hand' \in [Workers -> HandType] /\ \A v \in Workers : WorkerInv(v)'
    <2>1. CASE Put(w, EmptyHand)
      BY <1>1, <2>1, HandOn, HandMoves DEF IInv, Put
    <2>2. CASE Goes(w, "check")
      <3> DEFINE k == [hand[w] EXCEPT !.pc = "check"]
      <3>1. k \in HandType /\ k.pc = "check" /\ k.at = hand[w].at
        BY HandOn DEF IInv
      <3>2. hand' = [hand EXCEPT ![w] = k]
        BY <2>2 DEF Goes, Put
      <3> HIDE DEF k
      <3> QED
        BY <1>1, <1>2, <3>1, <3>2, HandMoves DEF IInv
    <2> QED
      BY <2>1, <2>2
  <1> QED
    BY <1>1, <1>3, <1>4, Frames DEF IInv

\* Conversion, acknowledgement and negative acknowledgement.
LEMMA AdapterSteps ==
    ASSUME IInv, NEW w \in Workers,
           Convert(w) \/ (\E arrives \in BOOLEAN : Ack(w, arrives) \/ Nack(w, arrives))
    PROVE  IInv'
  <1>1. CASE Convert(w)
    <2>1. Holding(w)
      BY <1>1 DEF Convert, Doing, Holding
    <2>2. \/ delivery' = delivery
          \/ delivery' = [delivery EXCEPT ![hand[w].at] =
                             Settled(delivery[hand[w].at], "malformed")]
      BY <1>1 DEF Convert
    <2>3. /\ Put(w, EmptyHand) \/ Goes(w, "check")
          /\ UNCHANGED <<publication, wire, acks, stream, effects, inboxVars>>
      BY <1>1 DEF Convert
    <2> QED
      BY <2>1, <2>2, <2>3, PutsAway
  <1>2. ASSUME NEW arrives \in BOOLEAN, Ack(w, arrives)
        PROVE  IInv'
    <2>1. Holding(w) /\ effects[MessageOf(w)] = 1
      BY <1>2 DEF Ack, Doing, Holding, IInv, WorkerInv
    <2>2. \/ delivery' = delivery
          \/ delivery' = [delivery EXCEPT ![hand[w].at] = Settled(delivery[hand[w].at], "acked")]
      BY <1>2 DEF Ack
    <2>3. /\ Put(w, EmptyHand)
          /\ UNCHANGED <<publication, wire, acks, stream, effects, inboxVars>>
      BY <1>2 DEF Ack
    <2> QED
      BY <2>1, <2>2, <2>3, PutsAway
  <1>3. ASSUME NEW arrives \in BOOLEAN, Nack(w, arrives)
        PROVE  IInv'
    <2>1. Holding(w) /\ hand[w].reason \in NackReason
      BY <1>3 DEF Nack, Doing, Holding, IInv, WorkerInv
    <2>2. AckKind(hand[w].reason) = "Term" => hand[w].reason = "Permanent"
      BY <2>1 DEF AckKind, NackReason
    <2>3. \/ delivery' = delivery
          \/ delivery' = [delivery EXCEPT ![hand[w].at] =
                             Settled(delivery[hand[w].at], "Permanent")]
          \/ /\ delivery[hand[w].at].state = "out"
             /\ delivery' = [delivery EXCEPT ![hand[w].at] = Released(delivery[hand[w].at])]
      BY <1>3, <2>2 DEF Nack
    <2>4. /\ Put(w, EmptyHand)
          /\ UNCHANGED <<publication, wire, acks, stream, effects, inboxVars>>
      BY <1>3 DEF Nack
    <2> QED
      BY <2>1, <2>3, <2>4, PutsAway
  <1> QED
    BY <1>1, <1>2, <1>3

\* A worker moves with what it holds and neither a record nor the effect changes.
LEMMA WorkerMoves ==
    ASSUME IInv, NEW w \in Workers, Holding(w),
           UNCHANGED <<publication, wire, acks, stream, delivery, effects, records>>,
           processed' = processed \/ (/\ processed' = processed \cup {MessageOf(w)}
                                      /\ effects[MessageOf(w)] = 1),
           \/ Put(w, EmptyHand)
           \/ Goes(w, "begin")
           \/ Goes(w, "ack") /\ effects[MessageOf(w)] = 1
           \/ \E reason \in NackReason : Nacks(w, reason)
    PROVE  IInv'
  <1>1. hand[w].at \in DOMAIN stream /\ MessageOf(w) \in All
    BY HeldMessage
  <1>2. StoreInv'
    BY <1>1 DEF IInv, StoreInv
  <1>3. hand' \in [Workers -> HandType] /\ \A v \in Workers : WorkerInv(v)'
    <2>1. CASE Put(w, EmptyHand)
      BY <2>1, HandOn, HandMoves DEF IInv, Put
    <2>2. ASSUME NEW pc \in {"begin", "ack"}, Goes(w, pc),
                 pc = "ack" => effects[MessageOf(w)] = 1
          PROVE  hand' \in [Workers -> HandType] /\ \A v \in Workers : WorkerInv(v)'
      <3> DEFINE k == [hand[w] EXCEPT !.pc = pc]
      <3>1. k \in HandType /\ k.pc = pc /\ k.at = hand[w].at
        BY HeldMessage, ZenonT(60) DEF HandType
      <3>2. hand' = [hand EXCEPT ![w] = k]
        BY <2>2 DEF Goes, Put
      <3> HIDE DEF k
      <3> QED
        BY <1>1, <2>2, <3>1, <3>2, HandMoves DEF IInv, MessageOf
    <2>3. ASSUME NEW reason \in NackReason, Nacks(w, reason)
          PROVE  hand' \in [Workers -> HandType] /\ \A v \in Workers : WorkerInv(v)'
      <3> DEFINE k == [hand[w] EXCEPT !.pc = "nack", !.reason = reason]
      <3>1. k \in HandType /\ k.pc = "nack" /\ k.reason = reason /\ k.at = hand[w].at
        BY HeldMessage DEF HandType
      <3>2. hand' = [hand EXCEPT ![w] = k]
        BY <2>3 DEF Nacks, Put
      <3> HIDE DEF k
      <3> QED
        BY <1>1, <2>3, <3>1, <3>2, HandMoves DEF IInv
    <2> QED
      BY <2>1, <2>2, <2>3
  <1> QED
    BY <1>2, <1>3, Frames DEF IInv

\* The steps of the handler that leave the records and the effect alone.
LEMMA HandlerSteps ==
    ASSUME IInv, NEW w \in Workers,
           Check(w) \/ RecordEffect(w) \/ StoreFails(w) \/ Crash(w)
               \/ (\E reason \in {"Shutdown", "Permanent"} : GiveBack(w, reason))
    PROVE  IInv'
  <1>1. CASE Check(w)
    <2>1. Holding(w)
      BY <1>1 DEF Check, Doing, Holding
    <2>2. \/ Goes(w, "begin")
          \/ Goes(w, "ack") /\ effects[MessageOf(w)] = 1
      BY <1>1, <2>1, HeldMessage DEF Check, DeduplicationDecision, IInv, StoreInv
    <2> QED
      BY <1>1, <2>1, <2>2, WorkerMoves DEF Check, OnlyHand, inboxVars
  <1>2. CASE RecordEffect(w)
    <2>1. Holding(w) /\ effects[MessageOf(w)] = 1
      BY <1>2 DEF RecordEffect, Doing, Holding, IInv, WorkerInv
    <2> QED
      BY <1>2, <2>1, WorkerMoves DEF RecordEffect, RecordProcessed, OnlyHand
  <1>3. CASE StoreFails(w)
    <2>1. Holding(w)
      BY <1>3 DEF StoreFails, Holding
    <2> QED
      BY <1>3, <2>1, WorkerMoves DEF StoreFails, FaultInjected, OnlyHand, NackReason
  <1>4. CASE Crash(w)
    <2>1. Holding(w)
      BY <1>4 DEF Crash, Holding
    <2> QED
      BY <1>4, <2>1, WorkerMoves DEF Crash, inboxVars
  <1>5. ASSUME NEW reason \in {"Shutdown", "Permanent"}, GiveBack(w, reason)
        PROVE  IInv'
    <2>1. Holding(w) /\ reason \in NackReason
      BY <1>5 DEF GiveBack, Doing, Holding, NackReason
    <2> QED
      BY <1>5, <2>1, WorkerMoves DEF GiveBack, OnlyHand, inboxVars
  <1> QED
    BY <1>1, <1>2, <1>3, <1>4, <1>5

\* begin: a worker that may execute is the first one, and the record it leaves keeps
\* every other one out.
LEMMA BeginStep ==
    ASSUME IInv, NEW w \in Workers, BeginEffect(w)
    PROVE  IInv'
  <1> DEFINE m == MessageOf(w)
             f == FactsOf[m].fingerprint
  <1>1. Holding(w)
    BY DEF BeginEffect, Doing, Holding
  <1>2. m \in All /\ hand[w].at \in DOMAIN stream
    BY <1>1, HeldMessage
  <1>3. StoreInv /\ hand \in [Workers -> HandType]
    BY DEF IInv
  <1>4. /\ BeginDecision(m, f) \in {"Execute", "Conflict", "InProgress", "ReturnStoredResult"}
        /\ BeginDecision(m, f) = "Execute" <=> records[m] = NoRecord
        /\ BeginDecision(m, f) = "ReturnStoredResult" => records[m].state = "Completed"
    BY <1>2, <1>3, BeginDecides
  <1>5. /\ UNCHANGED <<publication, wire, acks, stream, delivery, effects, processed>>
        /\ records' = [records EXCEPT ![m] = BeginRecord(m, f)]
    BY DEF BeginEffect, OnlyHand, Begin
  <1>6. CASE BeginDecision(m, f) = "Execute"
    <2>1. records[m] = NoRecord /\ effects[m] = 0
      BY <1>2, <1>3, <1>4, <1>6 DEF StoreInv
    <2> DEFINE r == [fingerprint |-> f, state |-> "InProgress"]
    <2>2. records' = [records EXCEPT ![m] = r]
      BY <1>5, <2>1 DEF BeginRecord
    <2>3. r \in RecordType /\ r # NoRecord /\ r.state = "InProgress"
      BY <1>2 DEF RecordType, NoRecord
    <2> HIDE DEF r
    <2>4. \A n \in All : records'[n] = IF n = m THEN r ELSE records[n]
      BY <1>3, <2>2 DEF StoreInv
    <2>5. StoreInv'
      <3>1. records' \in [All -> RecordType]
        BY <1>3, <2>2, <2>3 DEF StoreInv
      <3> QED
        BY <1>3, <1>5, <2>3, <2>4, <3>1 DEF StoreInv
    <2>6. Goes(w, "apply")
      BY <1>6 DEF BeginEffect
    <2> DEFINE k == [hand[w] EXCEPT !.pc = "apply"]
    <2>7. k \in HandType /\ k.pc = "apply" /\ k.at = hand[w].at
      BY <1>3, HandOn
    <2>8. hand' = [hand EXCEPT ![w] = k]
      BY <2>6 DEF Goes, Put
    <2> HIDE DEF k
    <2>9. /\ hand' \in [Workers -> HandType] /\ hand'[w] = k
          /\ \A v \in Workers : v # w => hand'[v] = hand[v]
      BY <1>3, <2>7, <2>8
    <2>10. \A v \in Workers : Doing(v, "apply") => MessageOf(v) # m
      BY <2>1 DEF IInv, WorkerInv
    <2>11. \A v \in Workers : Doing(v, "apply") => MessageOf(v) \in All
      BY HeldMessage DEF Doing, Holding
    <2>12. MessageOf(w)' = m
      BY <1>5, <2>7, <2>9 DEF MessageOf
    <2>13. WorkerInv(w)'
      <3>1. /\ hand'[w].at \in DOMAIN stream'
            /\ records'[m] # NoRecord /\ effects'[m] = 0
        BY <1>2, <1>5, <2>1, <2>3, <2>4, <2>7, <2>9
      <3>2. \A v \in Workers : v # w => ~(hand'[v].pc = "apply" /\ stream'[hand'[v].at] = m)
        BY <1>5, <2>9, <2>10 DEF Doing, MessageOf
      <3> QED
        BY <2>7, <2>9, <2>12, <3>1, <3>2 DEF WorkerInv, Holding, Doing, MessageOf
    <2>14. ASSUME NEW v \in Workers, v # w
           PROVE  WorkerInv(v)'
      <3>1. WorkerInv(v) /\ hand'[v] = hand[v]
        BY <2>9, <2>14 DEF IInv
      <3>2. MessageOf(v)' = MessageOf(v)
        BY <1>5, <3>1 DEF MessageOf
      <3>3. Doing(v, "apply") => records'[MessageOf(v)] = records[MessageOf(v)]
        BY <2>4, <2>10, <2>11
      <3>4. \A u \in Workers : Doing(v, "apply")' /\ Doing(u, "apply")' /\ MessageOf(u)' = MessageOf(v)'
                               => u = v
        <4>1. \A u \in Workers : u # w => MessageOf(u)' = MessageOf(u)
                                          /\ (Doing(u, "apply")' <=> Doing(u, "apply"))
          BY <1>5, <2>9 DEF MessageOf, Doing
        <4> QED
          BY <2>10, <2>12, <2>14, <3>1, <4>1 DEF WorkerInv
      <3> QED
        BY <1>5, <3>1, <3>2, <3>3, <3>4 DEF WorkerInv, Holding, Doing
    <2> QED
      BY <1>5, <2>5, <2>9, <2>13, <2>14, Frames DEF IInv
  <1>7. CASE BeginDecision(m, f) # "Execute"
    <2>1. records[m] # NoRecord
      BY <1>4, <1>7
    <2>2. records' = records
      BY <1>2, <1>3, <1>5, <2>1 DEF BeginRecord, StoreInv
    <2>3. \/ Goes(w, "ack") /\ effects[m] = 1
          \/ \E reason \in NackReason : Nacks(w, reason)
      <3>1. CASE BeginDecision(m, f) = "ReturnStoredResult"
        BY <1>2, <1>3, <1>4, <3>1 DEF BeginEffect, StoreInv
      <3>2. CASE BeginDecision(m, f) = "InProgress"
        BY <3>2 DEF BeginEffect, NackReason
      <3>3. CASE BeginDecision(m, f) = "Conflict"
        BY <3>3 DEF BeginEffect, NackReason
      <3> QED
        BY <1>4, <1>7, <3>1, <3>2, <3>3
    <2> QED
      BY <1>1, <1>5, <2>2, <2>3, WorkerMoves
  <1> QED
    BY <1>6, <1>7

\* The effect: only one worker is at it, and it has not happened.
LEMMA ApplyStep ==
    ASSUME IInv, NEW w \in Workers, Apply(w)
    PROVE  IInv'
  <1> DEFINE m == MessageOf(w)
             k == [hand[w] EXCEPT !.pc = "complete"]
  <1>1. Holding(w) /\ Doing(w, "apply")
    BY DEF Apply, Doing, Holding
  <1>2. m \in All /\ hand[w].at \in DOMAIN stream
    BY <1>1, HeldMessage
  <1>3. StoreInv /\ hand \in [Workers -> HandType]
    BY DEF IInv
  <1>4. records[m] # NoRecord /\ effects[m] = 0
    BY <1>1 DEF IInv, WorkerInv
  <1>5. UNCHANGED <<publication, wire, acks, stream, delivery, processed, records>>
    BY DEF Apply, OnlyHand, inboxVars
  <1>6. effects' = [effects EXCEPT ![m] = 1]
    BY <1>4 DEF Apply
  <1>7. \A n \in All : effects'[n] = IF n = m THEN 1 ELSE effects[n]
    BY <1>3, <1>6 DEF StoreInv
  <1>8. StoreInv'
    <2>1. effects' \in [All -> {0, 1}]
      BY <1>3, <1>6 DEF StoreInv
    <2> QED
      BY <1>3, <1>4, <1>5, <1>7, <2>1 DEF StoreInv
  <1>9. ConsumerInv'
    <2>1. \A i \in DOMAIN delivery : stream[i] \in All
      BY OneDelivery DEF IInv
    <2> QED
      BY <1>5, <1>7, <2>1 DEF IInv, ConsumerInv
  <1>10. k \in HandType /\ k.pc = "complete" /\ k.at = hand[w].at
    BY <1>3, HandOn
  <1>11. hand' = [hand EXCEPT ![w] = k]
    BY DEF Apply, Goes, Put
  <1> HIDE DEF k
  <1>12. /\ hand' \in [Workers -> HandType] /\ hand'[w] = k
         /\ \A v \in Workers : v # w => hand'[v] = hand[v]
    BY <1>3, <1>10, <1>11
  <1>13. MessageOf(w)' = m
    BY <1>5, <1>10, <1>12 DEF MessageOf
  <1>14. WorkerInv(w)'
    BY <1>2, <1>5, <1>7, <1>10, <1>12, <1>13 DEF WorkerInv, Holding, Doing
  <1>15. ASSUME NEW v \in Workers, v # w
         PROVE  WorkerInv(v)'
    <2>1. WorkerInv(v) /\ hand'[v] = hand[v] /\ MessageOf(v)' = MessageOf(v)
      BY <1>5, <1>12, <1>15 DEF IInv, MessageOf
    <2>2. Holding(v) => MessageOf(v) \in All
      BY HeldMessage
    <2>3. Doing(v, "apply") => MessageOf(v) # m
      BY <1>1, <1>15 DEF IInv, WorkerInv
    <2>4. \A u \in Workers : Doing(u, "apply")' => u # w /\ Doing(u, "apply")
                                                  /\ MessageOf(u)' = MessageOf(u)
      BY <1>5, <1>10, <1>12 DEF Doing, MessageOf
    <2>5. Doing(v, "apply")' => records'[MessageOf(v)'] # NoRecord /\ effects'[MessageOf(v)'] = 0
      BY <1>5, <1>7, <2>1, <2>2, <2>3 DEF WorkerInv, Doing, Holding
    <2>6. hand'[v].pc \in {"complete", "record", "ack"} => effects'[MessageOf(v)'] = 1
      BY <1>7, <2>1, <2>2 DEF WorkerInv, Holding
    <2>7. (Holding(v)' => hand'[v].at \in DOMAIN stream')
          /\ (Doing(v, "nack")' => hand'[v].reason \in NackReason)
      BY <1>5, <2>1 DEF WorkerInv, Holding, Doing
    <2>8. \A u \in Workers : Doing(v, "apply")' /\ Doing(u, "apply")' /\ MessageOf(u)' = MessageOf(v)'
                             => u = v
      BY <2>1, <2>4 DEF WorkerInv
    <2> QED
      BY <2>5, <2>6, <2>7, <2>8 DEF WorkerInv
  <1> QED
    BY <1>5, <1>8, <1>9, <1>12, <1>14, <1>15, Frames DEF IInv

\* complete: the record says so, and the effect has happened.
LEMMA CompleteStep ==
    ASSUME IInv, NEW w \in Workers, CompleteEffect(w)
    PROVE  IInv'
  <1> DEFINE m == MessageOf(w)
             k == [hand[w] EXCEPT !.pc = "record"]
             r == [records[m] EXCEPT !.state = "Completed"]
  <1>1. Holding(w)
    BY DEF CompleteEffect, Doing, Holding
  <1>2. m \in All /\ hand[w].at \in DOMAIN stream
    BY <1>1, HeldMessage
  <1>3. StoreInv /\ hand \in [Workers -> HandType]
    BY DEF IInv
  <1>4. effects[m] = 1
    BY DEF CompleteEffect, Doing, IInv, WorkerInv
  <1>5. UNCHANGED <<publication, wire, acks, stream, delivery, effects, processed>>
    BY DEF CompleteEffect, OnlyHand, Complete
  <1>6. records[m] # NoRecord /\ records' = [records EXCEPT ![m] = r]
    BY DEF CompleteEffect, Complete
  <1>7. r \in RecordType /\ r # NoRecord
    <2>1. records[m] \in [fingerprint : {FactsOf[n].fingerprint : n \in All},
                          state : {"InProgress", "Completed"}]
      BY <1>2, <1>3, <1>6 DEF StoreInv, RecordType
    <2>2. /\ r \in [fingerprint : {FactsOf[n].fingerprint : n \in All},
                    state : {"InProgress", "Completed"}]
          /\ r.state = "Completed"
      BY <2>1
    <2> QED
      BY <2>2 DEF RecordType, NoRecord
  <1> HIDE DEF r
  <1>8. \A n \in All : records'[n] = IF n = m THEN r ELSE records[n]
    BY <1>3, <1>6 DEF StoreInv
  <1>9. StoreInv'
    <2>1. records' \in [All -> RecordType]
      BY <1>3, <1>6, <1>7 DEF StoreInv
    <2> QED
      BY <1>3, <1>4, <1>5, <1>7, <1>8, <2>1 DEF StoreInv
  <1>10. k \in HandType /\ k.pc = "record" /\ k.at = hand[w].at
    BY <1>3, HandOn
  <1>11. hand' = [hand EXCEPT ![w] = k]
    BY DEF CompleteEffect, Goes, Put
  <1> HIDE DEF k
  <1>12. /\ hand' \in [Workers -> HandType] /\ hand'[w] = k
         /\ \A v \in Workers : v # w => hand'[v] = hand[v]
    BY <1>3, <1>10, <1>11
  <1>13. MessageOf(w)' = m
    BY <1>5, <1>10, <1>12 DEF MessageOf
  <1>14. WorkerInv(w)'
    BY <1>2, <1>4, <1>5, <1>10, <1>12, <1>13 DEF WorkerInv, Holding, Doing
  <1>15. ASSUME NEW v \in Workers, v # w
         PROVE  WorkerInv(v)'
    <2>1. WorkerInv(v) /\ hand'[v] = hand[v] /\ MessageOf(v)' = MessageOf(v)
      BY <1>5, <1>12, <1>15 DEF IInv, MessageOf
    <2>2. Doing(v, "apply") => records'[MessageOf(v)] # NoRecord
      BY <1>7, <1>8, <2>1, HeldMessage DEF WorkerInv, Doing, Holding
    <2>3. \A u \in Workers : Doing(u, "apply")' => Doing(u, "apply") /\ MessageOf(u)' = MessageOf(u)
      BY <1>5, <1>10, <1>12 DEF Doing, MessageOf
    <2>4. \A u \in Workers : Doing(v, "apply")' /\ Doing(u, "apply")' /\ MessageOf(u)' = MessageOf(v)'
                             => u = v
      BY <2>1, <2>3 DEF WorkerInv
    <2> QED
      BY <1>5, <2>1, <2>2, <2>4 DEF WorkerInv, Holding, Doing
  <1> QED
    BY <1>5, <1>9, <1>12, <1>14, <1>15, Frames DEF IInv

----------------------------------------------------------------------------
(* The invariant, and what it says.                                         *)

LEMMA IInvInit == Init => IInv
  <1> SUFFICES ASSUME Init PROVE IInv
    OBVIOUS
  <1>1. PICK present \in Casts : DeliveryInit(present)
    BY DEF Init
  <1>2. PublishInv
    <2>1. /\ Unpublished \in PublicationType
          /\ [Unpublished EXCEPT !.pc = "absent"] \in PublicationType
          /\ Unpublished.outcome = "none"
          /\ [Unpublished EXCEPT !.pc = "absent"].outcome = "none"
      BY DEF Unpublished, PublicationType
    <2>2. /\ publication \in [All -> PublicationType]
          /\ \A m \in All : publication[m].outcome = "none"
      BY <1>1, <2>1 DEF DeliveryInit
    <2>3. stream = <<>> /\ wire = {} /\ acks = {}
      BY <1>1 DEF DeliveryInit
    <2> QED
      BY <2>2, <2>3 DEF PublishInv, StoredOnce, Stored, All
  <1>3. ConsumerInv
    BY <1>1 DEF DeliveryInit, ConsumerInv
  <1>4. StoreInv
    <2>1. NoRecord \in RecordType /\ NoRecord.state = "Absent"
      BY DEF RecordType, NoRecord
    <2> QED
      BY <1>1, <2>1 DEF DeliveryInit, InboxInit, StoreInv
  <1>5. /\ hand \in [Workers -> HandType]
        /\ \A w \in Workers : hand[w].pc \in {"idle", "absent"}
    <2>1. /\ EmptyHand \in HandType /\ [EmptyHand EXCEPT !.pc = "absent"] \in HandType
          /\ EmptyHand.pc = "idle" /\ [EmptyHand EXCEPT !.pc = "absent"].pc = "absent"
      BY DEF EmptyHand, HandType
    <2> QED
      BY <1>1, <2>1 DEF DeliveryInit
  <1>6. \A w \in Workers : WorkerInv(w)
    BY <1>5 DEF WorkerInv, Holding, Doing
  <1> QED
    BY <1>2, <1>3, <1>4, <1>5, <1>6 DEF IInv

LEMMA IInvNext == IInv /\ [Next]_vars => IInv'
  <1> SUFFICES ASSUME IInv, [Next]_vars PROVE IInv'
    OBVIOUS
  <1>1. CASE UNCHANGED <<deliveryVars, inboxVars>>
    BY <1>1, Frames DEF IInv, deliveryVars, inboxVars
  <1>2. CASE DeliveryNext
    <2>1. ASSUME NEW m \in Messages,
                 Republish(m) \/ \E sent \in BOOLEAN : Publish(m, sent)
          PROVE  IInv'
      BY <2>1, PublisherSteps
    <2>2. ASSUME NEW m \in Messages,
                 NEW outcome \in {"Confirmed", "Broker", "OutcomeUnknown"},
                 PublishReturns(m, outcome)
          PROVE  IInv'
      BY <2>2, PublisherSteps
    <2>3. ASSUME NEW p \in Messages \X (1..MaxPublishes), Store(p) \/ LosePublication(p)
          PROVE  IInv'
      BY <2>3, StoreStep, LoseStep
    <2>4. ASSUME NEW x \in Foreign, StoreForeign(x)
          PROVE  IInv'
      BY <2>4, StoreForeignStep
    <2>5. ASSUME NEW i \in DOMAIN stream,
                 AckWaitElapses(i) \/ \E w \in Workers : Receive(w, i)
          PROVE  IInv'
      BY <2>5, AckWaitStep, ReceiveStep
    <2>6. ASSUME NEW w \in Workers,
                 \/ Convert(w) \/ Check(w) \/ BeginEffect(w) \/ Apply(w)
                 \/ CompleteEffect(w) \/ RecordEffect(w) \/ StoreFails(w) \/ Crash(w)
                 \/ \E reason \in {"Shutdown", "Permanent"} : GiveBack(w, reason)
                 \/ \E arrives \in BOOLEAN : Ack(w, arrives) \/ Nack(w, arrives)
          PROVE  IInv'
      BY <2>6, AdapterSteps, HandlerSteps, BeginStep, ApplyStep, CompleteStep
    <2> QED
      BY <1>2, <2>1, <2>2, <2>3, <2>4, <2>5, <2>6 DEF DeliveryNext
  <1> QED
    BY <1>1, <1>2 DEF Next, vars

LEMMA Invariant == Spec => []IInv
  BY IInvInit, IInvNext, PTL DEF Spec

\* For every set of messages and any number of repeated publications: what the
\* producer reports as confirmed is in the stream, and a message with an ID is there
\* once.
THEOREM NatsStoredOnce == Spec => []StoredOnce
  <1>1. IInv => StoredOnce
    BY DEF IInv, PublishInv
  <1> QED
    BY <1>1, Invariant, PTL

\* For any number of workers, redeliveries, lost workers and failing stores: the
\* handler's inbox and idempotency store let a message have its effect at most once.
THEOREM NatsEffectOnce == Spec => []EffectOnce
  <1>1. IInv => EffectOnce
    BY DEF IInv, StoreInv, EffectOnce
  <1> QED
    BY <1>1, Invariant, PTL

\* A delivery leaves the consumer acknowledged after its effect, terminated as malformed
\* or refused, or delivered max_deliver times, and never because of a shutdown.
THEOREM NatsLeavesForCause == Spec => []LeavesForCause
  <1>1. IInv => LeavesForCause
    <2> SUFFICES ASSUME IInv, NEW i \in DOMAIN delivery
                 PROVE  /\ delivery[i].cause = "acked" => effects[stream[i]] = 1
                        /\ delivery[i].cause # "Shutdown"
                        /\ delivery[i].state = "exhausted" =>
                               delivery[i].count = Consumer.maxDeliver
      BY DEF LeavesForCause
    <2>1. delivery[i] \in DeliveryType /\ Counted(delivery[i])
      BY DEF IInv, ConsumerInv
    <2> QED
      BY <2>1 DEF IInv, ConsumerInv, DeliveryType, Counted
  <1> QED
    BY <1>1, Invariant, PTL
=============================================================================

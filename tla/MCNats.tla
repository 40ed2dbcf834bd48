------------------------------- MODULE MCNats -------------------------------
(***************************************************************************)
(* The NATS adapter for TLC: one message and one that a foreign producer   *)
(* stored with broken headers, two workers, and a link that is lost once.  *)
(***************************************************************************)
EXTENDS Nats, TLC

CONSTANTS m1, x1, w1, w2

Text(bytes) == [text |-> bytes, bytes |-> bytes, namespaced |-> TRUE, blank |-> bytes = 0]
Entry(key, value) == [key |-> Text(key), value |-> Text(value)]
Broken == [of |-> Text(1), bytes |-> 2, wellFormed |-> FALSE]

MCFactsOf ==
    (m1 :> [bytes |-> 1, contentType |-> Text(2), metadata |-> <<Entry(1, 2)>>, headers |-> <<>>,
            id |-> "m1", subjectBytes |-> 1, fingerprint |-> "f"]) @@
    (x1 :> [bytes |-> 1, contentType |-> Text(2), metadata |-> <<>>, id |-> "none",
            headers |-> <<[name |-> "Other", key |-> Broken, value |-> Broken],
                          [name |-> "Meta", key |-> Encoded(Text(1)), value |-> Broken]>>,
            subjectBytes |-> 1, fingerprint |-> "g"])

Quiet == [present |-> FALSE, interval |-> 1, maxFailures |-> 1]
MCConsumer ==
    [stream |-> Text(1), durable |-> Text(2), operational |-> Text(3), filter |-> Text(1),
     ackWait |-> 4, heartbeat |-> Quiet, maxDeliver |-> 2, maxAckPending |-> 2,
     maxPayloadBytes |-> 1, create |-> FALSE, subjects |-> <<>>]

----------------------------------------------------------------------------
(* The configurations and the headers, over bounded inputs.                 *)

\* The consumer of the model is one the adapter accepts, and so is one with any
\* heartbeat that can use up its failures before ack_wait elapses, and no other.
ASSUME ConsumerConfigured ==
    \A interval \in 1..5, failures \in 1..5 :
        LET beat == [present |-> TRUE, interval |-> interval, maxFailures |-> failures]
            config == [MCConsumer EXCEPT !.heartbeat = beat]
        IN  /\ ConsumerConfigVerdict(MCConsumer) = Ok
            /\ ConsumerConfigVerdict(config) = Ok <=> interval * failures < config.ackWait

\* A replay never binds the operational durable consumer, and a consumer that exists
\* with other bounds or another start is refused in either mode.
ASSUME ReplayApart ==
    \A create \in BOOLEAN, kind \in {"All", "FromSequence", "FromTimestamp"}, bound \in 1..2 :
        LET config == [MCConsumer EXCEPT !.create = create, !.subjects = <<Text(1)>>,
                                         !.maxDeliver = bound]
            policy == DeliveryPolicy([kind |-> kind, from |-> 1])
            existing == ConsumerSettings(MCConsumer, [kind |-> "All", from |-> 0])
        IN  /\ ReplayConfigVerdict(config) = Ok
            /\ ReplayConfigVerdict([config EXCEPT !.durable = config.operational]) # Ok
            /\ OpenVerdict(config, policy, {config.stream}, {existing}) = Ok
                   <=> kind = "All" /\ bound = MCConsumer.maxDeliver
            /\ OpenVerdict(config, policy, {}, {}) = Ok <=> create

\* A connection is refused exactly when something is blank or zero.
ASSUME ConnectionsConfigured ==
    \A servers \in {<<>>, <<Text(1)>>, <<Text(1), Text(0)>>}, time \in 0..1, capacity \in 0..1,
       component \in {Text(0), Text(1)}, reconnects \in {None, 0, 1} :
        LET config == [servers |-> servers, connectTimeout |-> time, requestTimeout |-> 1,
                       clientCapacity |-> capacity, subscriptionCapacity |-> 1,
                       healthComponent |-> component, maxReconnects |-> reconnects]
        IN  ConnectionConfigVerdict(config) = Ok <=>
                Len(servers) = 1 /\ time = 1 /\ capacity = 1 /\ component.bytes = 1 /\ reconnects = 1

\* A producer is refused for a blank subject, a zero limit, and a key without a namespace.
ASSUME ProducersConfigured ==
    \A subject \in {Text(0), Text(1)}, limit \in 0..1, present, dotted \in BOOLEAN :
        ProducerConfigVerdict([subject |-> subject, maxPayloadBytes |-> limit,
                               idKey |-> [present |-> present, blank |-> FALSE, dotted |-> dotted]])
            = Ok <=> subject.bytes = 1 /\ limit = 1 /\ (present => dotted)

\* Metadata within its own limits is never refused for the length of its encoding, and
\* comes back as it was; one byte more is refused.
ASSUME HeadersRoundTrip ==
    \A content \in 0..4, keys \in UNION {[1..n -> 1..4] : n \in 0..3}, values \in 0..5 :
        LET metadata == [i \in DOMAIN keys |-> Entry(keys[i], values)]
            total == FoldFunction(+, 0, [i \in DOMAIN keys |-> keys[i] + values])
            fits == /\ \A i \in DOMAIN keys : keys[i] <= MaxKeyBytes
                    /\ keys = <<>> \/ values <= MaxValueBytes
                    /\ Len(keys) <= MaxEntries /\ total <= MaxTotalBytes
            encoded == Encode(Text(content), metadata)
            decoded == Decode(encoded.headers)
        IN  /\ encoded.verdict = Ok <=> content <= MaxContentTypeBytes
            /\ encoded.verdict = Ok =>
                   /\ decoded.verdict = Ok <=> fits
                   /\ fits => decoded.contentType = Text(content) /\ decoded.metadata = metadata
=============================================================================

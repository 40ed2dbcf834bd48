----------------------------- MODULE NatsConfig -----------------------------
(***************************************************************************)
(* plenora-runtime-nats without its state: the validation of its           *)
(* configurations, the check of a durable consumer that already exists,    *)
(* and the headers that carry a message's content type and metadata.       *)
(*                                                                         *)
(* A text is a record of what is looked at: its bytes, whether it is blank *)
(* after trimming.  None stands for an absent number.                      *)
(***************************************************************************)
EXTENDS Integers, Sequences, SequencesExt, OrderedChecks

CONSTANTS
    LongestDuration,    \* Duration::MAX
    MaxSigned,          \* i64::MAX
    MaxContentTypeBytes, MaxKeyBytes, MaxValueBytes, MaxEntries, MaxTotalBytes

None == -1

----------------------------------------------------------------------------
(* Configurations.                                                          *)

\* NatsConfig::validate.
ConnectionConfigVerdict(c) ==
    FirstFailure(<<
        <<c.servers = <<>>, "servers">>,
        <<c.connectTimeout = 0, "connect_timeout">>,
        <<c.requestTimeout = 0, "request_timeout">>,
        <<c.clientCapacity = 0, "client_capacity">>,
        <<c.subscriptionCapacity = 0, "subscription_capacity">>,
        <<c.healthComponent.blank, "health_component">>,
        <<\E i \in DOMAIN c.servers : c.servers[i].blank, "servers">>,
        <<c.maxReconnects \in {None, 0}, "max_reconnects">>>>)

\* JetStreamProducerConfig::validate.
ProducerConfigVerdict(c) ==
    FirstFailure(<<
        <<c.subject.blank, "subject">>,
        <<c.maxPayloadBytes = 0, "max_payload_bytes">>,
        <<c.idKey.present /\ (c.idKey.blank \/ ~c.idKey.dotted), "message_id_metadata_key">>>>)

\* consumer, of JetStreamConsumerConfig::validate: a heartbeat must be able to fail as
\* often as it may before ack_wait has elapsed.
ConsumerConfigVerdict(c) ==
    LET window == c.heartbeat.interval * c.heartbeat.maxFailures
    IN  FirstFailure(<<
        <<c.stream.blank, "stream">>,
        <<c.durable.blank, "durable_name">>,
        <<c.filter.blank, "filter_subject">>,
        <<c.ackWait = 0, "ack_wait">>,
        <<c.heartbeat.present /\ window > LongestDuration, "heartbeat">>,
        <<c.heartbeat.present /\ window >= c.ackWait, "heartbeat">>,
        <<c.maxDeliver \in {None, 0}, "max_deliver">>,
        <<c.maxAckPending \in {None, 0} \/ c.maxAckPending > MaxSigned, "max_ack_pending">>,
        <<c.maxPayloadBytes = 0, "max_payload_bytes">>,
        <<c.create /\ c.subjects = <<>>, "stream_subjects">>,
        <<c.create /\ \E i \in DOMAIN c.subjects : c.subjects[i].blank, "stream_subjects">>>>)

\* ReplayConsumerConfig::validate.
ReplayConfigVerdict(c) ==
    FirstVerdict(<<
        FirstFailure(<<
            <<c.operational.blank, "operational_durable_name">>,
            <<c.durable = c.operational, "durable_name">>>>),
        ConsumerConfigVerdict(c)>>)

\* delivery_policy.
DeliveryPolicy(source) ==
    CASE source.kind = "All" -> [kind |-> "All", from |-> 0]
      [] source.kind = "FromSequence" -> [kind |-> "ByStartSequence", from |-> source.from]
      [] source.kind = "FromTimestamp" -> [kind |-> "ByStartTime", from |-> source.from]

\* What open asks of the broker, and what it compares a consumer with that it found.
ConsumerSettings(c, policy) ==
    [durable |-> c.durable, filter |-> c.filter, ackPolicy |-> "Explicit",
     ackWait |-> c.ackWait, maxDeliver |-> c.maxDeliver, maxAckPending |-> c.maxAckPending,
     policy |-> policy]

\* open, with the streams and consumers the broker has: CreateIfMissing makes what is
\* missing, and a consumer that exists must be the one that was asked for.
OpenVerdict(c, policy, streams, consumers) ==
    LET settings == ConsumerSettings(c, policy)
        found == {k \in consumers : k.durable = c.durable}
    IN  FirstFailure(<<
        <<c.stream \notin streams /\ ~c.create, "stream is unavailable">>,
        <<found = {} /\ ~c.create, "consumer is unavailable">>,
        <<found # {} /\ settings \notin found, "consumer is incompatible">>>>)

----------------------------------------------------------------------------
(* Headers.  An encoded text wraps the text and is as long as base64 without *)
(* padding makes it; decoding unwraps one that is well formed.               *)

\* base64_no_pad_encoded_limit, and the length of what the encoder returns.
EncodedBytes(n) == (n \div 3) * 4 + (IF n % 3 = 0 THEN 0 ELSE (n % 3) + 1)
\* decoded_len_upper_bound.
DecodedBound(n) == (n * 3) \div 4

Encoded(text) == [of |-> text, bytes |-> EncodedBytes(text.bytes), wellFormed |-> TRUE]

\* The metadata of a message is a sequence of pairs of texts, in the map's order.
Encode(contentType, metadata) ==
    IF contentType.bytes > MaxContentTypeBytes THEN [verdict |-> "content type", headers |-> <<>>]
    ELSE [verdict |-> Ok,
          headers |-> <<[name |-> "Content-Type", key |-> Encoded(contentType),
                         value |-> Encoded(contentType)]>>
              \o [i \in DOMAIN metadata |->
                     [name |-> "Meta", key |-> Encoded(metadata[i].key),
                      value |-> Encoded(metadata[i].value)]]]

\* One header of decode's loop; headers of other names are skipped.
DecodeHeader(so, h) ==
    LET bytes == so.bytes + DecodedBound(h.key.bytes) + DecodedBound(h.value.bytes)
        contentVerdict == FirstFailure(<<
            <<h.value.bytes > EncodedBytes(MaxContentTypeBytes), "content type limit">>,
            <<~h.value.wellFormed, "content type">>>>)
        metaVerdict == FirstFailure(<<
            <<so.entries + 1 > MaxEntries, "entry limit">>,
            <<h.key.bytes > EncodedBytes(MaxKeyBytes), "key limit">>,
            <<h.value.bytes > EncodedBytes(MaxValueBytes), "value limit">>,
            <<bytes > MaxTotalBytes, "total limit">>,
            <<~h.key.wellFormed, "key">>,
            <<~h.value.wellFormed, "value">>,
            <<~h.key.of.namespaced, "decoded key">>>>)
    IN  IF so.verdict # Ok \/ h.name = "Other" THEN so
        ELSE IF h.name = "Content-Type"
        THEN [so EXCEPT !.verdict = contentVerdict, !.contentType = h.value.of]
        ELSE [so EXCEPT !.verdict = metaVerdict, !.entries = @ + 1, !.bytes = bytes,
                        !.metadata = Append(@, [key |-> h.key.of, value |-> h.value.of])]

OctetStream == [text |-> "application/octet-stream", bytes |-> 24, namespaced |-> FALSE]

Decode(headers) ==
    FoldLeft(DecodeHeader,
             [verdict |-> Ok, contentType |-> OctetStream, metadata |-> <<>>,
              entries |-> 0, bytes |-> 0], headers)
=============================================================================

---------------------------- MODULE WorkerMessage ----------------------------
(***************************************************************************)
(* What a portable message tells the worker: the identity and the payload  *)
(* that MetadataMessageDecoder reads, the metadata handed to the handler,  *)
(* and the dead letter made of it.                                         *)
(*                                                                         *)
(* A message is its headers, the form of each identity among them, the     *)
(* entries its broker adds, and whether the codec accepts its payload.     *)
(***************************************************************************)
EXTENDS Metadata

CONSTANT SuffixBytes    \* of ".dlq"

\* required_identity_text and optional_causation_id: an identity is "absent", or it is
\* "binary", some "text", or the text of a "uuid".
IdentityVerdict(m, key, required) ==
    FirstFailure(<<
        <<m.identity[key] = "binary", "InvalidIdentityEncoding">>,
        <<m.identity[key] = "absent" /\ required, "MissingIdentity">>,
        <<m.identity[key] = "text", "InvalidIdentity">>>>)

\* MetadataMessageDecoder::decode.
DecodeVerdict(m) ==
    FirstVerdict(<<
        IdentityVerdict(m, "message_id", TRUE),
        IdentityVerdict(m, "correlation_id", TRUE),
        IdentityVerdict(m, "causation_id", FALSE),
        IF m.payload THEN Ok ELSE "Codec">>)

\* combined_metadata: the broker's entries replace the message's own.
CombinedMetadata(m) == InsertAll(m.headers, m.broker)

\* dead_letter_message: three entries more, and one that derives from the message ID.
DeadLetterMessage(headers) ==
    InsertAll(headers,
        (IF "message_id" \in DOMAIN headers
         THEN <<<<"dead_letter_id", headers["message_id"] + SuffixBytes>>>> ELSE <<>>)
        \o <<<<"reason", 1>>, <<"attempts", 1>>, <<"failed_at", 1>>>>)

\* DeliveryHeartbeatConfig::new.
HeartbeatConfigVerdict(interval, failures) ==
    FirstFailure(<<<<interval = 0, "ZeroInterval">>, <<failures = 0, "ZeroFailureLimit">>>>)
=============================================================================

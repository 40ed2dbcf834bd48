---------------------------- MODULE Capabilities ----------------------------
(***************************************************************************)
(* A request to a capability, from the registry that is built at startup   *)
(* through negotiation to the dispatcher and back to the broker.           *)
(*                                                                         *)
(* CapabilityDispatcher runs as the handler of a worker: what it returns   *)
(* is classified and handed to the retry policy, which settles the message *)
(* or has it delivered again. The adapter and the result sink are the      *)
(* application's; they answer anything, when they answer.                  *)
(***************************************************************************)
EXTENDS CapabilityDiscovery, PublicError, RetryPolicy, Negotiation, Metadata, TLC

CONSTANTS
    Documents,      \* discovery documents offered for registration
    Undiscovered,   \* identities offered for registration without a document
    Wires,          \* messages: headers and payload, and the sender's context
    Answers,        \* what an adapter may answer, and whether the effect was applied
    MaxCapabilities, MaxPayload,
    HasSink,        \* a result sink is configured
    Minimum,        \* the binding the ingress hop asks for
    Backoff,        \* the configuration of the retry policy
    MaxTime,        \* bound: the clock
    MaxReceptions,  \* bound: receptions by the hops
    MaxAttempts     \* bound: deliveries to the worker

\* What deserialization makes of a document; and what the two passes over JSON
\* are for, they establish.
ASSUME DocumentsAssumption ==
    \A doc \in Documents :
        /\ doc.interfaces \in Seq(Range(doc.interfaces))
        /\ doc.operations \in Seq(Range(doc.operations))
        /\ UniqueJson(doc.json) = Ok => Unambiguous(doc.json)
        /\ \A op \in Range(doc.operations) :
            /\ op.effect \in Range(SideEffects)
            /\ op.controls \in [cancellation : BOOLEAN, deadline : BOOLEAN, key : BOOLEAN]
            /\ ValidAttributes(op.attributes) => WithinLimits(op.attributes)

\* An adapter that fails tells the truth about its effect: CapabilityFailure::new and
\* with_public_error, and no effect where it says that there was none.
ASSUME AnswersAssumption ==
    \A a \in Answers : a.is = "failure" =>
        LET f == a.failure
        IN  /\ f.class \in {"Retryable", "Permanent", "DeadLetter", "OutcomeUnknown"}
            /\ f.certainty \in {"NotStarted", "Unknown"}
            /\ IF f.public = Unmapped
               THEN f.class = "OutcomeUnknown" => f.certainty = "Unknown"
               ELSE f = MappedFailure(f.public) /\ ValidRetry(f.public.effect, f.public.retry)
            /\ f.certainty = "NotStarted" => ~a.applied

ASSUME CapabilitiesAssumption == MaxCapabilities \in Nat

VARIABLES
    registry,   \* the registrations by identity
    wire,       \* the message on its way
    hops,       \* negotiation: the record, the first context, what hops went on with
    clock,
    call        \* the delivery at the worker

vars == <<registry, wire, hops, clock, call>>

NoDocument == [interfaces |-> <<>>, operations |-> <<>>]
NoError == [kind |-> "none", reason |-> Ok, started |-> FALSE,
            failure |-> Failure("Permanent", "NotStarted"), missing |-> FALSE]
Fresh == [pc |-> "building", attempt |-> 0, error |-> NoError, started |-> FALSE,
          applied |-> FALSE, uncertain |-> FALSE]

----------------------------------------------------------------------------
(* CapabilityRegistryBuilder.                                               *)

Registered == DOMAIN registry.entries

\* insert.
InsertVerdict(id) ==
    FirstFailure(<<
        <<id \in Registered, "Duplicate">>,
        <<Cardinality(Registered) >= MaxCapabilities, "CapacityReached">>>>)

Insert(id, entry) ==
    registry' = [entries |-> [i \in Registered \cup {id} |->
                                IF i = id THEN entry ELSE registry.entries[i]]]

\* register_shared.
Register(id) ==
    /\ call.pc = "building"
    /\ id.name # RestCapability /\ InsertVerdict(id) = Ok
    /\ Insert(id, [discovered |-> FALSE, doc |-> NoDocument])
    /\ UNCHANGED <<wire, hops, clock, call>>

MustImplementRest(doc) ==
    doc.component = RestComponent \/ RuntimeCapability(doc).name = RestCapability

\* from_json and register_discovered_shared, up to the insertion.
RegisterVerdict(doc) ==
    IF FromJson(doc) # Ok THEN FromJson(doc)
    ELSE IF RuntimeVerdict(doc) # Ok THEN RuntimeVerdict(doc)
    ELSE IF MustImplementRest(doc) THEN RestVerdict(doc) ELSE Ok

RegisterDiscovered(doc) ==
    /\ call.pc = "building"
    /\ RegisterVerdict(doc) = Ok /\ InsertVerdict(RuntimeCapability(doc)) = Ok
    /\ Insert(RuntimeCapability(doc), [discovered |-> TRUE, doc |-> doc])
    /\ UNCHANGED <<wire, hops, clock, call>>

\* build: the registry is frozen.
Build ==
    /\ call.pc = "building"
    /\ call' = [call EXCEPT !.pc = "serving"]
    /\ UNCHANGED <<registry, wire, hops, clock>>

----------------------------------------------------------------------------
(* Negotiation.                                                             *)

\* A request is sent; context is what its two headers say.
Send(w) ==
    /\ call.pc = "serving" /\ wire' = w
    /\ call' = [call EXCEPT !.pc = IF w.negotiated THEN "travelling" ELSE "queued", !.attempt = 1]
    /\ UNCHANGED <<registry, hops, clock>>

\* A hop receives the request from its sender, or from another hop with the
\* headers as they came out of the transport.
Receive(external, received, carries) ==
    LET accepted == Accept(hops.record, received, external, Minimum, carries)
        stored == IF carries THEN Stored(hops.record, received, external, Minimum) ELSE hops.record
    IN  /\ call.pc = "travelling" /\ hops.receptions < MaxReceptions
        /\ external => received = wire.context
        /\ hops' = [hops EXCEPT !.record = stored, !.receptions = @ + 1,
                                !.given = IF accepted = Refused THEN @ ELSE @ \cup {accepted}]
        /\ UNCHANGED <<registry, wire, clock, call>>

\* The store has written the record and cannot confirm it.
ReceiveUnconfirmed ==
    /\ call.pc = "travelling" /\ hops.receptions < MaxReceptions
    /\ hops' = [hops EXCEPT !.receptions = @ + 1,
                            !.record = Stored(@, wire.context, TRUE, Minimum)]
    /\ UNCHANGED <<registry, wire, clock, call>>

Identity(w) == [name |-> w.headers["name"].value, version |-> w.headers["version"].value]
DestinationVersion(id) ==
    IF id \in Registered /\ registry.entries[id].discovered
    THEN RuntimeInterface(registry.entries[id].doc).version ELSE 0

\* A hop that has accepted the request speaks to its destination, or does not.
Select(context) ==
    LET binding == SelectDestination(context, DestinationVersion(Identity(wire)))
    IN  /\ call.pc = "travelling" /\ context \in hops.given
        /\ hops' = [hops EXCEPT !.binding = binding]
        /\ call' = [call EXCEPT !.pc = IF binding = "refused" THEN "refused" ELSE "queued"]
        /\ UNCHANGED <<registry, wire, clock>>

----------------------------------------------------------------------------
(* CapabilityMessageCodec.                                                  *)

\* A header holds text, or bytes that are none, or is missing.
Text(value) == [is |-> "text", value |-> value]
Reserved == {"name", "version", "operation", "opVersion", "contract"}

\* encode: the routing replaces whatever the reserved keys held.
Encode(routing, headers) == [k \in Reserved |-> Text(routing[k])] @@ headers

TextVerdict(header) ==
    FirstFailure(<<<<header.is = "missing", "Missing">>, <<header.is = "binary", "InvalidEncoding">>>>)
\* A required text that is also a number of the range.
NumberVerdict(header, range) ==
    FirstFailure(<<<<TextVerdict(header) # Ok, TextVerdict(header)>>,
                   <<header.value \notin range, "InvalidVersion">>>>)

\* CapabilityId::new.
IsCapabilityId(name, version) == IsName(name) /\ version # 0

\* decode: the keys in the order they are read, then what they hold.
DecodeVerdict(h) ==
    FirstVerdict(<<
        TextVerdict(h["name"]), NumberVerdict(h["version"], 0..U16Max),
        TextVerdict(h["operation"]), NumberVerdict(h["opVersion"], 1..U16Max),
        TextVerdict(h["contract"]),
        IF IsCapabilityId(h["name"].value, h["version"].value) /\ IsName(h["operation"].value)
        THEN Ok ELSE "Identifier",
        IF IsContract(h["contract"].value) THEN Ok ELSE "Contract">>)

\* The request the dispatcher is handed, without the reserved keys.
Decoded(w) ==
    [capability |-> Identity(w), operation |-> w.headers["operation"].value,
     opVersion |-> w.headers["opVersion"].value, contract |-> w.headers["contract"].value,
     type |-> w.type, size |-> w.size, deadline |-> w.deadline, key |-> w.key]

Request == Decoded(wire)

----------------------------------------------------------------------------
(* CapabilityDispatchError.                                                 *)

Error(kind) == [NoError EXCEPT !.kind = kind]
Rejection(reason) == [Error("IncompatibleRequest") EXCEPT !.reason = reason]
BadResponse(reason) == [Error("IncompatibleResponse") EXCEPT !.reason = reason, !.started = TRUE]
Late(started) == [Error("DeadlineExceeded") EXCEPT !.started = started]
Unpublished(kind) == [Error(kind) EXCEPT !.started = TRUE]
\* A discovered adapter must map its failures.
Failed(failure, discovered) ==
    [Error("Handler") EXCEPT !.started = TRUE, !.failure = failure,
                             !.missing = discovered /\ failure.public = Unmapped]

Unsupported == {"UnknownOperation", "OperationUnavailable", "RuntimeSurfaceUnsupported",
                "DeadlineUnsupported", "IdempotencyKeyUnsupported"}

\* public_error.
PublicErrorOf(e) ==
    CASE e.kind = "UnknownCapability" ->
            PlenoraError("Unsupported", "Validate", "None", Retry("Quarantine"))
      [] e.kind = "PayloadTooLarge" ->
            PlenoraError("ResourceLimit", "Validate", "None", Retry("Quarantine"))
      [] e.kind = "IncompatibleRequest" ->
            PlenoraError(IF e.reason \in Unsupported THEN "Unsupported" ELSE "Protocol",
                         "Validate", "None", Retry("Quarantine"))
      [] e.kind = "DeadlineExceeded" /\ ~e.started ->
            PlenoraError("Timeout", "Prepare", "None", Retry("Never"))
      [] e.kind = "DeadlineExceeded" /\ e.started ->
            PlenoraError("Timeout", "Prepare", "Unknown", Retry("RequiresRecovery"))
      [] e.kind = "IncompatibleResponse" ->
            PlenoraError(IF e.reason = "OutputTooLarge" THEN "ResourceLimit" ELSE "Protocol",
                         "Finalize", "Unknown", Retry("RequiresRecovery"))
      [] e.kind = "ResultMetadata" ->
            PlenoraError("Protocol", "Finalize", "Unknown", Retry("RequiresRecovery"))
      [] e.kind \in {"ResultSinkUnavailable", "ResultPublication", "ResultPublicationUnknown"} ->
            PlenoraError("Io", "Finalize", "Unknown", Retry("RequiresRecovery"))
      [] e.kind = "Handler" /\ e.missing ->
            PlenoraError("Protocol", "Finalize", "Unknown", Retry("RequiresRecovery"))
      [] e.kind = "Handler" /\ ~e.missing ->
            IF e.failure.public # Unmapped THEN e.failure.public
            ELSE PlenoraError("Internal", "Finalize", PublicEffect(e.failure.certainty),
                              PublicRetry(e.failure))

Before == {"UnknownCapability", "PayloadTooLarge", "IncompatibleRequest"}

\* Mutant: a refused publication may be tried again.
RetryClassOptimistic(e) ==
    CASE e.kind \in Before \/ (e.kind = "DeadlineExceeded" /\ ~e.started) -> "DeadLetter"
      [] e.kind = "Handler" -> e.failure.class
      [] e.kind = "ResultPublication" -> "Retryable"
      [] OTHER -> "OutcomeUnknown"

\* retry_class.
RetryClass(e) ==
    CASE e.kind \in Before \/ (e.kind = "DeadlineExceeded" /\ ~e.started) -> "DeadLetter"
      [] e.kind = "Handler" -> e.failure.class
      [] OTHER -> "OutcomeUnknown"

----------------------------------------------------------------------------
(* CapabilityDispatcher::handle, in a worker.                               *)

\* The worker asks the retry policy and the broker settles the delivery.
Verdict(decision) ==
    CASE decision.verdict = "RetryAfter" -> "waiting"
      [] decision.verdict = "DeadLetter" -> "dead"
      [] decision.verdict = "DoNotRetry" -> "dropped"

Fail(c, error) ==
    call' = [c EXCEPT !.error = error,
                      !.uncertain = @ \/ (c.started /\ error.kind # "Handler")
                                      \/ RetryClass(error) = "OutcomeUnknown",
                      !.pc = Verdict(DecideClass(Backoff, c.attempt, 0, RetryClass(error), 0))]

\* A cancelled task is not retried, whatever its handler returned.
Cancelled(c, error) ==
    call' = [c EXCEPT !.error = error, !.uncertain = @ \/ c.started, !.pc = "dropped"]

\* The discovered document that speaks for the capability, if there is one.
Discovered(id) == id \in Registered /\ registry.entries[id].discovered
RequestVerdict(r) ==
    IF Discovered(r.capability) THEN ValidateRequest(registry.entries[r.capability].doc, r) ELSE Ok

\* handle, up to the invocation. A deadline that is now leaves no time, yet
\* has not passed.
Admission(r) ==
    FirstOf(<<
        <<r.size > MaxPayload, Error("PayloadTooLarge")>>,
        <<r.capability \notin Registered, Error("UnknownCapability")>>,
        <<RequestVerdict(r) # Ok, Rejection(RequestVerdict(r))>>,
        <<r.deadline.is = "malformed", Rejection("InvalidDeadline")>>,
        <<r.deadline.is = "instant" /\ r.deadline.at < clock, Late(FALSE)>>>>, NoError)

\* The delivery as the worker starts on it.
Started == [call EXCEPT !.error = NoError, !.started = FALSE, !.applied = FALSE]

\* The worker's decoder cannot read the message.
RejectUndecodable ==
    /\ call.pc = "queued" /\ DecodeVerdict(wire.headers) # Ok
    /\ call' = [Started EXCEPT !.pc = "undecodable"]
    /\ UNCHANGED <<registry, wire, hops, clock>>

Refuse ==
    /\ call.pc = "queued" /\ DecodeVerdict(wire.headers) = Ok
    /\ \E error \in {Admission(Request)} : error # NoError /\ Fail(Started, error)
    /\ UNCHANGED <<registry, wire, hops, clock>>

Invoke ==
    /\ call.pc = "queued" /\ DecodeVerdict(wire.headers) = Ok
    /\ Admission(Request) = NoError
    /\ call' = [Started EXCEPT !.pc = "invoked", !.started = TRUE]
    /\ UNCHANGED <<registry, wire, hops, clock>>

\* The adapter fails.
AdapterFails(a) ==
    /\ call.pc = "invoked" /\ a.is = "failure"
    /\ Fail([call EXCEPT !.applied = a.applied], Failed(a.failure, Discovered(Request.capability)))
    /\ UNCHANGED <<registry, wire, hops, clock>>

ExpectedOutputs(r) ==
    {op.output : op \in IF Discovered(r.capability)
                        THEN Operation(registry.entries[r.capability].doc, r.operation, r.opVersion)
                        ELSE {}}

\* CapabilityResult::new: the headers of the request do not come back, and
\* the result's own must fit.
ResultVerdict(headers) ==
    InsertAll(Removed(headers, Reserved \cup {"output", "correlation"}),
              <<<<"operation", 1>>, <<"opVersion", 1>>, <<"output", 1>>,
                <<"correlation", 1>>>>).verdict

\* complete_response and CapabilityResult::new, up to the publication.
ResponseError(a) ==
    LET expected == ExpectedOutputs(Request)
    IN  FirstOf(<<
        <<a.is = "acknowledged" /\ expected # {}, BadResponse("MissingOutput")>>,
        <<a.is = "acknowledged", NoError>>,
        <<a.size > MaxPayload, BadResponse("OutputTooLarge")>>,
        <<\E p \in expected : p.contract # a.contract, BadResponse("OutputContractMismatch")>>,
        <<\E p \in expected : ~Supports(p, a.type), BadResponse("OutputContentTypeMismatch")>>,
        <<ResultVerdict(a.headers) # Ok, Unpublished("ResultMetadata")>>,
        <<~HasSink, Unpublished("ResultSinkUnavailable")>>>>, NoError)

\* The adapter succeeds.
AdapterAnswers(a) ==
    /\ call.pc = "invoked" /\ a.is # "failure"
    /\ IF ResponseError(a) # NoError THEN Fail([call EXCEPT !.applied = TRUE], ResponseError(a))
       ELSE call' = [call EXCEPT !.applied = TRUE,
                                 !.pc = IF a.is = "acknowledged" THEN "acked" ELSE "publishing"]
    /\ UNCHANGED <<registry, wire, hops, clock>>

\* Mutant: only a capability that was discovered runs under a timeout.
DeadlineElapsesDiscovered(applied) ==
    /\ call.pc = "invoked" /\ wire.deadline.is = "instant" /\ wire.deadline.at <= clock
    /\ Discovered(Request.capability)
    /\ Cancelled([call EXCEPT !.applied = applied], Late(TRUE))
    /\ UNCHANGED <<registry, wire, hops, clock>>

\* The timeout around the invocation: the task's token is cancelled, so the
\* worker takes the task for cancelled and does not ask the policy.
DeadlineElapses(applied) ==
    /\ call.pc = "invoked" /\ wire.deadline.is = "instant" /\ wire.deadline.at <= clock
    /\ Cancelled([call EXCEPT !.applied = applied], Late(TRUE))
    /\ UNCHANGED <<registry, wire, hops, clock>>

\* publish_result returns.
Publish(outcome) ==
    /\ call.pc = "publishing"
    /\ CASE outcome = "Confirmed" -> call' = [call EXCEPT !.pc = "acked"]
         [] outcome = "OutcomeUnknown" -> Fail(call, Unpublished("ResultPublicationUnknown"))
         [] outcome = "Err" -> Fail(call, Unpublished("ResultPublication"))
    /\ UNCHANGED <<registry, wire, hops, clock>>

\* The task is cancelled from outside while it runs.
CancelTask(applied) ==
    /\ call.pc \in {"invoked", "publishing"}
    /\ Cancelled([call EXCEPT !.applied = @ \/ applied], NoError)
    /\ UNCHANGED <<registry, wire, hops, clock>>

\* The broker delivers again, as told or because the worker has died.
Redeliver ==
    /\ call.pc = "waiting"
    /\ call' = [call EXCEPT !.pc = "queued", !.attempt = @ + 1]
    /\ UNCHANGED <<registry, wire, hops, clock>>

Crash ==
    /\ call.pc \in {"invoked", "publishing"} /\ call.attempt < MaxAttempts
    /\ call' = [call EXCEPT !.pc = "queued", !.attempt = @ + 1]
    /\ UNCHANGED <<registry, wire, hops, clock>>

\* Time matters to a message that is on the worker's side.
Tick ==
    /\ clock < MaxTime /\ call.pc \in {"queued", "waiting", "invoked"}
    /\ clock' = clock + 1
    /\ UNCHANGED <<registry, wire, hops, call>>

----------------------------------------------------------------------------

Init ==
    /\ registry = [entries |-> <<>>]
    /\ wire = CHOOSE w \in Wires : TRUE
    /\ hops = [record |-> NoContext, given |-> {}, binding |-> "none", receptions |-> 0]
    /\ clock = 0
    /\ call = Fresh

WorkerStep ==
    \/ RejectUndecodable \/ Refuse \/ Invoke \/ Redeliver
    \/ \E applied \in BOOLEAN : DeadlineElapses(applied)
    \/ \E outcome \in {"Confirmed", "OutcomeUnknown", "Err"} : Publish(outcome)

Next ==
    \/ \E id \in Undiscovered : Register(id)
    \/ \E doc \in Documents : RegisterDiscovered(doc)
    \/ Build
    \/ \E w \in Wires : Send(w)
    \/ \E external, carries \in BOOLEAN, received \in Contexts \cup {NoContext} :
            Receive(external, received, carries)
    \/ ReceiveUnconfirmed
    \/ \E context \in Contexts : Select(context)
    \/ WorkerStep \/ Tick \/ Crash
    \/ \E a \in Answers : AdapterFails(a) \/ AdapterAnswers(a)
    \/ \E applied \in BOOLEAN : CancelTask(applied)

Spec == Init /\ [][Next]_vars

\* The worker, its timers and the broker go on, and the sink answers; the
\* adapter may never do so.
FairSpec == Spec /\ WF_vars(WorkerStep) /\ WF_vars(Tick)

----------------------------------------------------------------------------
(* Properties.                                                              *)

\* What is registered can be relied upon (from_json, register_discovered and
\* insert): no member that another one of its name could hide, one operation
\* for a name and a version, one runtime interface, attributes within their
\* bounds, no surface with a milder effect than the operation's own, and under
\* the REST name nothing but all of the profile, whichever component offers it.
RegistrySound ==
    /\ Cardinality(Registered) <= MaxCapabilities
    /\ \A id \in Registered : registry.entries[id].discovered =>
        LET doc == registry.entries[id].doc
            ops == Range(doc.operations)
        IN  /\ Unambiguous(doc.json)
            /\ Cardinality(RuntimeInterfaces(doc)) = 1
            /\ Cardinality({Key(op) : op \in ops}) = Len(doc.operations)
            /\ \A op \in ops :
                /\ WithinLimits(op.attributes)
                /\ \A s \in Range(op.surfaces) : Rank(SurfaceSideEffect(op, s)) >= Rank(op.effect)
    /\ \A id \in Registered : id.name = RestCapability =>
        /\ registry.entries[id].discovered
        /\ \A name \in Range(ExpectedOperations) :
            \E op \in Operation(registry.entries[id].doc, name, 1) :
                /\ op.status = "Available" /\ "Runtime" \in Range(op.surfaces)
                /\ op.controls = [cancellation |-> TRUE, deadline |-> TRUE, key |-> TRUE]

\* Whatever the transport does to the headers between hops, the request is
\* spoken in binding 1.0 only if the context its sender was first accepted
\* with asks for it or allows it (accept_runtime_request,
\* select_runtime_destination).
ConsentKept ==
    hops.binding = "V1" => hops.record.requires = "V1" \/ hops.record.downgrade

\* Every dispatch error has a public error that its constructor accepts, and
\* the public error denies the remote effect only if there was none in the
\* attempt it reports (public_error, remote_effect).
PublicErrorHonest ==
    call.error # NoError =>
        LET public == PublicErrorOf(call.error)
        IN  /\ ValidRetry(public.effect, public.retry)
            /\ public.effect = "None" => ~call.applied

\* Once an attempt has ended with the runtime unsure of what the library did,
\* the library is not invoked again for the message, unless the policy opts
\* in (retry_class, and the cancellation of an elapsed deadline).
NoBlindRepeat ==
    call.uncertain /\ ~Backoff.retryUnknown => call.pc \notin {"queued", "waiting", "invoked"}

\* A request with a deadline comes to an end though its adapter never answers
\* (the timeout of handle).
RequestEnds ==
    (call.pc = "queued" /\ wire.deadline.is = "instant")
        ~> (call.pc \in {"acked", "dead", "dropped", "undecodable"})
=============================================================================

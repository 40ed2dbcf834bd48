-------------------------- MODULE MCCapabilities --------------------------
(* A handful of components, requests and adapters for Capabilities: one     *)
(* that is in order of each kind, and others with one thing wrong.          *)
EXTENDS Capabilities, BoundedJson

MCMalformed == {"?"}
MCLimits == [depth |-> 2, nodes |-> 4, items |-> 3, root |-> 0]
MCValidAttributes(v) == Bounded(v, MCLimits)
MCWithinLimits(v) == WithinBounds(v, MCLimits)

----------------------------------------------------------------------------
(* The walk over bounded JSON against its definition, for every value with  *)
(* up to three levels; the headers; the failures that adapters can build.   *)

Trees(subtrees) == {Collection(s) : s \in UNION {[1..n -> subtrees] : n \in 0..3}}
Odd == [Leaf EXCEPT !.oversized = TRUE]

\* The walk that stops at the first excess finds exactly the values beyond a bound.
ASSUME BoundsChecked ==
    \A v \in Trees(Trees({Leaf, Odd}) \cup {Collection(<<Collection(<<Leaf>>)>>)}) :
        Bounded(v, MCLimits) <=> WithinBounds(v, MCLimits)

\* The walk finds a repeated member at any depth.
ASSUME DuplicatesFound ==
    \A outer, inner \in {"a", "b"} \X {"a", "b"} :
        LET v == Object(outer, <<Leaf, Collection(<<Object(inner, <<Leaf, Leaf>>)>>)>>)
        IN  UniqueWalk(v) = Ok <=> AllUnique(v)

\* A context survives its two headers.
ASSUME HeadersRoundTrip ==
    \A c \in Contexts : FromHeaders(ToHeaders(c)[1], ToHeaders(c)[2]) = c

\* An adapter's public error never claims more certainty than it has: what is retryable
\* has a known effect.
ASSUME FailuresConsistent ==
    \A e \in PlenoraErrors({Retry(d) : d \in Dispositions} \cup {After(1), After(2)}) :
        LET f == MappedFailure(e)
        IN  /\ f.certainty = "NotStarted" <=> e.effect = "None"
            /\ f.class = "Retryable" => e.effect # "Unknown"

----------------------------------------------------------------------------
(* Documents.                                                               *)

Envelope(contract) == [contract |-> contract, types |-> JsonOnly]
Plain ==
    [name |-> "data.run", version |-> 1, status |-> "Available", reason |-> Absent,
     surfaces |-> <<"Rust", "Runtime">>, input |-> Envelope("in"), output |-> Envelope("out"),
     effect |-> "Local", overrides |-> [s \in {"Runtime"} |-> "Remote"],
     controls |-> [cancellation |-> TRUE, deadline |-> TRUE, key |-> FALSE],
     attributes |-> Collection(<<Leaf, Leaf>>),
     labels |-> [contract |-> Absent, direction |-> Absent, integrity |-> Absent]]
Rest(name) ==
    [Plain EXCEPT !.name = name, !.effect = "Remote", !.overrides = <<>>,
        !.input = Envelope(ExpectedInput(name)), !.output = Envelope(ExpectedOutput(name)),
        !.controls.key = TRUE,
        !.labels = [contract |-> "rest-attributes", direction |-> Direction(name),
                    integrity |-> "sha256"]]
RestOps == [i \in DOMAIN ExpectedOperations |-> Rest(ExpectedOperations[i])]

Interface(version, artifact) ==
    [kind |-> "Runtime", contract |-> IF version = 2 THEN "plenora-runtime-binding-v2"
                                      ELSE "plenora-runtime-binding-v1",
     version |-> version, artifact |-> artifact]
Written(members) == Object(members, [i \in DOMAIN members |-> Leaf])
Doc(component, interface, ops) ==
    [bytes |-> 1, json |-> Object(<<"operations">>, <<Written(<<"name", "version">>)>>),
     schema |-> 2, component |-> component, release |-> "1.0.0",
     interfaces |-> <<interface>>, operations |-> ops]

Data == Doc("plenora-data-tools", Interface(1, "plenora.data-tools"), <<Plain>>)
Database == Doc("plenora-database-tools", Interface(2, "plenora.database-tools"),
                <<[Plain EXCEPT !.version = 2],
                  [Plain EXCEPT !.name = "data.old", !.status = "Unavailable", !.reason = "gone"],
                  [Plain EXCEPT !.name = "data.local", !.surfaces = <<"Cli">>, !.overrides = <<>>]>>)
RestTools == Doc(RestComponent, Interface(1, RestCapability), RestOps)

WithOp(op) == [Data EXCEPT !.operations = <<op>>]
WithInterfaces(is) == [Data EXCEPT !.interfaces = is]
WithRest(i, op) == [RestTools EXCEPT !.operations = [RestOps EXCEPT ![i] = op]]

\* Documents that from_json refuses.
Unreadable ==
    {[Data EXCEPT !.bytes = 3], 
     [Data EXCEPT !.json = Object(<<"operations">>, <<Written(<<"name", "name">>)>>)],
     [Data EXCEPT !.json.children[1].broken = TRUE], [Data EXCEPT !.schema = 1], [Data EXCEPT !.component = "?"], [Data EXCEPT !.release = "?"],
     WithInterfaces(<<>>), WithInterfaces([i \in 1..3 |-> Interface(1, "plenora.data-tools")]),
     WithInterfaces(<<Interface(1, ""), Interface(1, "")>>), WithInterfaces(<<Interface(0, "a")>>),
     WithInterfaces([i \in 1..2 |-> [Interface(1, "a") EXCEPT !.kind = "Rust"]]),
     [Data EXCEPT !.operations = [i \in 1..7 |-> [Plain EXCEPT !.version = i]]],
     [Data EXCEPT !.operations = <<Plain, [Plain EXCEPT !.status = "Deprecated"]>>],
     WithOp([Plain EXCEPT !.name = "?"]), WithOp([Plain EXCEPT !.version = 9]),
     WithOp([Plain EXCEPT !.surfaces = <<"Runtime", "Runtime">>]),
     WithOp([Plain EXCEPT !.reason = ""]), WithOp([Plain EXCEPT !.status = "Unavailable"]),
     WithOp([Plain EXCEPT !.effect = "Remote"]),
     WithOp([Plain EXCEPT !.overrides = [s \in {"Cli"} |-> "Remote"]]),
     WithOp([Plain EXCEPT !.input.types = <<>>]), WithOp([Plain EXCEPT !.output.types = <<"a", "a">>]),
     WithOp([Plain EXCEPT !.attributes = Collection(<<Collection(<<Collection(<<Leaf>>)>>)>>)]),
     WithOp([Plain EXCEPT !.attributes = Collection(<<Collection(<<Leaf>>), Collection(<<Leaf>>)>>)]),
     WithOp([Plain EXCEPT !.attributes = Collection([i \in 1..4 |-> Leaf])]),
     WithOp([Plain EXCEPT !.attributes.oversized = TRUE])}

\* Documents that name no capability, or fall short of the REST profile.
Unregistrable ==
    {WithInterfaces(<<[Interface(1, "a") EXCEPT !.kind = "Cli"]>>),
     WithInterfaces(<<Interface(1, "a"), Interface(1, "b")>>),
     WithInterfaces(<<[Interface(1, "a") EXCEPT !.version = 2]>>),
     WithInterfaces(<<Interface(1, Absent)>>), WithInterfaces(<<Interface(1, "?")>>),
     Doc("plenora-data-tools", Interface(1, RestCapability), <<Plain>>),
     Doc(RestComponent, Interface(1, "plenora.data-tools"), RestOps),
     [RestTools EXCEPT !.operations = SubSeq(RestOps, 1, 4)],
     WithRest(1, [Rest("rest.test") EXCEPT !.version = 2]),
     WithRest(2, [Rest("rest.generate") EXCEPT !.status = "Experimental"]),
     WithRest(3, [Rest("rest.enrich") EXCEPT !.surfaces = <<"Rust">>]),
     WithRest(1, [Rest("rest.test") EXCEPT !.input.contract = "in"]),
     WithRest(2, [Rest("rest.generate") EXCEPT !.output.types = <<"text/csv">>]),
     WithRest(3, [Rest("rest.enrich") EXCEPT !.effect = "Local"]),
     WithRest(4, [Rest("rest.download") EXCEPT !.controls.deadline = FALSE]),
     WithRest(5, [Rest("rest.upload") EXCEPT !.labels.contract = Absent]),
     WithRest(5, [Rest("rest.upload") EXCEPT !.labels.direction = "download"])}

MCDocuments == {Data, Database, RestTools} \cup Unreadable \cup Unregistrable
MCUndiscovered == {[name |-> "legacy", version |-> 1], [name |-> RestCapability, version |-> 1]}

----------------------------------------------------------------------------
(* Messages.                                                                *)

Never == [is |-> "absent", at |-> 0]
At(t) == [is |-> "instant", at |-> t]
Routing(name, operation, version, contract) ==
    [name |-> name, version |-> 1, operation |-> operation, opVersion |-> version,
     contract |-> contract]
Message(routing) ==
    [headers |-> Encode(routing, <<>>), type |-> "application/json", size |-> 1, deadline |-> Never,
     key |-> FALSE, negotiated |-> FALSE, context |-> NoContext]
ToData == Message(Routing("plenora.data-tools", "data.run", 1, "in"))
ToDatabase(operation) == Message(Routing("plenora.database-tools", operation, 1, "in"))
ToRest == Message(Routing(RestCapability, "rest.test", 1, ExpectedInput("rest.test")))
ToLegacy == Message(Routing("legacy", "any.op", 1, "in"))

\* From a sender that requires 2.0, with its permission to downgrade or not.
Headed(w, requires, downgrade) ==
    [w EXCEPT !.negotiated = TRUE, !.context = FromHeaders(requires, downgrade)]

MCWires ==
    {ToData, [ToData EXCEPT !.deadline = At(1)], [ToData EXCEPT !.deadline.is = "malformed"],
     [ToData EXCEPT !.key = TRUE], [ToData EXCEPT !.size = 2], [ToData EXCEPT !.type = "text/csv"],
     Message(Routing("plenora.data-tools", "data.run", 2, "in")),
     Message(Routing("plenora.data-tools", "data.walk", 1, "in")),
     Message(Routing("plenora.data-tools", "data.run", 1, "other")),
     ToDatabase("data.old"), ToDatabase("data.local"),
     [ToRest EXCEPT !.key = TRUE, !.deadline = At(1)],
     ToLegacy, [ToLegacy EXCEPT !.deadline = At(1)],
     [ToData EXCEPT !.headers["name"].is = "missing"],
     [ToData EXCEPT !.headers["contract"].is = "binary"],
     [ToData EXCEPT !.headers["opVersion"].value = 0],
     [ToData EXCEPT !.headers["version"].value = 0],
     [ToData EXCEPT !.headers["contract"].value = "?"],
     Headed(ToData, "absent", "absent"), Headed(ToData, "V2", "false"), Headed(ToData, "V2", "true")}

----------------------------------------------------------------------------
(* Adapters: they tell the truth about their effects.                       *)

Fails(failure, applied) ==
    {[is |-> "failure", failure |-> failure, applied |-> a] : a \in applied}
Mapped(category, phase, effect, retry) == MappedFailure(PlenoraError(category, phase, effect, retry))
Returns(size, contract, type, headers) ==
    [is |-> "response", size |-> size, contract |-> contract, type |-> type, headers |-> headers]

MCAnswers ==
    Fails(Failure("Retryable", "NotStarted"), {FALSE}) \cup
    Fails(Failure("Retryable", "Unknown"), BOOLEAN) \cup
    Fails(Failure("Permanent", "Unknown"), BOOLEAN) \cup
    Fails(Failure("DeadLetter", "NotStarted"), {FALSE}) \cup
    Fails(Failure("OutcomeUnknown", "NotStarted"), BOOLEAN) \cup
    Fails(Mapped("Transient", "Write", "RolledBack", Retry("Safe")), {FALSE}) \cup
    Fails(Mapped("Io", "Connect", "None", After(1)), {FALSE}) \cup
    Fails(Mapped("Io", "Write", "Partial", Retry("RequiresIdempotencyKey")), {TRUE}) \cup
    Fails(Mapped("Io", "Commit", "Unknown", Retry("RequiresRecovery")), BOOLEAN) \cup
    Fails(Mapped("Schema", "Validate", "None", Retry("Never")), {FALSE}) \cup
    Fails(Mapped("Conflict", "Commit", "Unknown", Retry("Quarantine")), BOOLEAN) \cup
    {[Returns(0, Absent, Absent, Empty) EXCEPT !.is = "acknowledged"],
     Returns(1, "out", "application/json", Empty),
     Returns(2, "out", "application/json", Empty), Returns(1, "in", "application/json", Empty),
     Returns(1, "out", "text/csv", Empty), Returns(1, "out", "application/json", [k \in {"a", "b"} |-> 1]),
     Returns(1, "out", "application/json", [k \in {"a", "name", "output"} |-> 1]),
     Returns(1, ExpectedOutput("rest.test"), "application/json", Empty)}

MCBackoff == [initial |-> 1, max |-> 4, multiplier |-> 2, attempts |-> 2, elapsed |-> None,
              jitter |-> 0, retryUnknown |-> FALSE, exhausted |-> "DeadLetter"]
=============================================================================

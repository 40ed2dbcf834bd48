------------------------- MODULE CapabilityDiscovery -------------------------
(***************************************************************************)
(* Capability Discovery 2.0: the documents components advertise their      *)
(* operations with, what from_json makes of one, how the runtime interface *)
(* names a capability, which requests a document admits, and the profile   *)
(* that REST tools must implement.                                         *)
(*                                                                         *)
(* A document is what the JSON deserializes to: text is a string, and the  *)
(* strings of Malformed are the ones the grammar of their field refuses.   *)
(***************************************************************************)
EXTENDS Integers, Sequences, FiniteSets, SequencesExt, OrderedChecks

CONSTANTS
    Malformed,              \* text that is no valid name, contract, type or version
    MaxDocumentBytes, MaxInterfaces, MaxOperations, MaxContentTypes,
    U16Max,                 \* the largest version
    UniqueJson(_),          \* the verdict of the pass over a text (BoundedJson)
    Unambiguous(_),         \* what the pass is for: no member is repeated
    ValidAttributes(_),     \* validate_attributes: the walk over a value (BoundedJson)
    WithinLimits(_)         \* what the walk is for: the value keeps MAX_ATTRIBUTE_*

Absent == "absent"

\* is_component, is_component_version and is_content_type.
WellFormed(text) == text \notin Malformed
\* The names of capabilities and operations, and the names of contracts.
IsName(text) == text \notin Malformed
IsContract(text) == text \notin Malformed

Statuses == {"Available", "Unavailable", "Experimental", "Deprecated"}
SideEffects == <<"None", "Local", "Remote">>

Distinct(s) == \A i, j \in DOMAIN s : s[i] = s[j] => i = j
IsVersion(n) == n \in 1..U16Max

----------------------------------------------------------------------------
(* from_json.                                                               *)

\* CapabilityInterface::try_from; an artifact is absent or a short text.
InterfaceVerdict(i) ==
    IF IsVersion(i.version) /\ IsContract(i.contract) /\ i.artifact \notin {"", "oversized"}
    THEN Ok ELSE "InvalidInterface"

\* CapabilityPayload::try_from.
ValidPayload(p) ==
    /\ Len(p.types) \in 1..MaxContentTypes
    /\ IsContract(p.contract)
    /\ \A i \in DOMAIN p.types : WellFormed(p.types[i])
    /\ Distinct(p.types)

Rank(effect) == CHOOSE r \in DOMAIN SideEffects : SideEffects[r] = effect

\* validate_surface_effects: op.overrides are the members of the attribute
\* plenora.surface_side_effects, each a surface and an effect.
ValidOverrides(op) ==
    \A s \in DOMAIN op.overrides :
        /\ s \in Range(op.surfaces)
        /\ op.overrides[s] \in {"Local", "Remote"} /\ Rank(op.overrides[s]) > Rank(op.effect)

\* CapabilityOperation::try_from.
OperationVerdict(op) ==
    FirstFailure(<<
        <<~IsName(op.name) \/ ~IsVersion(op.version), "InvalidOperation">>,
        <<Len(op.surfaces) \notin 1..4 \/ ~Distinct(op.surfaces), "InvalidOperation">>,
        <<op.reason \in {"", "oversized"}, "InvalidOperation">>,
        <<op.status = "Unavailable" /\ op.reason = Absent, "InvalidOperation">>,
        <<~ValidAttributes(op.attributes), "InvalidAttributes">>,
        <<~ValidOverrides(op), "InvalidOperation">>,
        <<~ValidPayload(op.input) \/ ~ValidPayload(op.output), "InvalidOperation">>>>)

Key(op) == <<op.name, op.version>>

\* Mutant: a repeated operation replaces the earlier one.
OperationsVerdictLastWins(ops) == FirstVerdict([i \in DOMAIN ops |-> OperationVerdict(ops[i])])

\* The two loops of try_from_raw: each element is converted, then compared
\* with the ones before it.
InterfacesVerdict(is) ==
    FirstVerdict([i \in DOMAIN is |-> FirstVerdict(<<
        InterfaceVerdict(is[i]),
        IF \E j \in 1..(i - 1) : is[j] = is[i] THEN "DuplicateInterface" ELSE Ok>>)])
OperationsVerdict(ops) ==
    FirstVerdict([i \in DOMAIN ops |-> FirstVerdict(<<
        OperationVerdict(ops[i]),
        IF \E j \in 1..(i - 1) : Key(ops[j]) = Key(ops[i]) THEN "DuplicateOperation" ELSE Ok>>)])

\* try_from_raw.
TryFromRaw(doc) ==
    FirstVerdict(<<FirstFailure(<<
        <<doc.schema # 2, "UnsupportedSchemaVersion">>,
        <<~WellFormed(doc.component), "InvalidComponent">>,
        <<~WellFormed(doc.release), "InvalidComponentVersion">>,
        <<doc.interfaces = <<>>, "MissingInterfaces">>,
        <<Len(doc.interfaces) > MaxInterfaces, "TooManyInterfaces">>,
        <<Len(doc.operations) > MaxOperations, "TooManyOperations">>>>),
        InterfacesVerdict(doc.interfaces),
        OperationsVerdict(doc.operations)>>)

\* from_json; doc.json is the document as text.
FromJson(doc) ==
    FirstVerdict(<<
        IF doc.bytes > MaxDocumentBytes THEN "DocumentTooLarge" ELSE Ok,
        UniqueJson(doc.json),
        TryFromRaw(doc)>>)

----------------------------------------------------------------------------
(* A validated document.                                                    *)

\* Where the runtime interfaces are, and the first of them.
RuntimeInterfaces(doc) == {i \in DOMAIN doc.interfaces : doc.interfaces[i].kind = "Runtime"}
RuntimeInterface(doc) == doc.interfaces[First(RuntimeInterfaces(doc))]
SupportedBindings == {<<"plenora-runtime-binding-v1", 1>>, <<"plenora-runtime-binding-v2", 2>>}

\* runtime_capability: why the document names no capability.
RuntimeVerdict(doc) ==
    LET runtime == RuntimeInterfaces(doc)
        interface == RuntimeInterface(doc)
    IN  IF runtime = {} THEN "MissingRuntimeInterface"
        ELSE FirstFailure(<<
            <<\E i, j \in runtime : i # j, "DuplicateRuntimeInterface">>,
            <<<<interface.contract, interface.version>> \notin SupportedBindings,
              "UnsupportedRuntimeBinding">>,
            <<interface.artifact = Absent, "MissingRuntimeArtifact">>,
            <<~IsName(interface.artifact), "InvalidRuntimeCapability">>>>)

\* The capability it names otherwise; both bindings have wire version 1.
RuntimeCapability(doc) == [name |-> RuntimeInterface(doc).artifact, version |-> 1]

Supports(payload, type) == type \in Range(payload.types)

\* The operation of a name and version; there is at most one.
Operation(doc, name, version) ==
    {doc.operations[i] : i \in {j \in DOMAIN doc.operations :
                                    Key(doc.operations[j]) = <<name, version>>}}

OperationAdmits(op, r) ==
    FirstFailure(<<
        <<op.status # "Available", "OperationUnavailable">>,
        <<"Runtime" \notin Range(op.surfaces), "RuntimeSurfaceUnsupported">>,
        <<op.input.contract # r.contract, "InputContractMismatch">>,
        <<~Supports(op.input, r.type), "InputContentTypeMismatch">>,
        <<r.deadline.is # "absent" /\ ~op.controls.deadline, "DeadlineUnsupported">>,
        <<r.key /\ ~op.controls.key, "IdempotencyKeyUnsupported">>>>)

\* validate_request.
ValidateRequest(doc, r) ==
    LET found == Operation(doc, r.operation, r.opVersion)
    IN  IF found # {} THEN OperationAdmits(CHOOSE op \in found : TRUE, r)
        ELSE IF \E i \in DOMAIN doc.operations : doc.operations[i].name = r.operation
        THEN "OperationVersionMismatch" ELSE "UnknownOperation"

\* surface_side_effect: the effect of an operation on a surface it has.
SurfaceSideEffect(op, surface) ==
    IF surface \in DOMAIN op.overrides THEN op.overrides[surface] ELSE op.effect

----------------------------------------------------------------------------
(* RestCapabilityProfile.                                                   *)

RestComponent == "plenora-rest-tools"
RestCapability == "plenora.rest-tools"

\* EXPECTED_OPERATIONS: name, contract family, direction.
Executions == {"rest.test", "rest.generate", "rest.enrich"}
ExpectedOperations == <<"rest.test", "rest.generate", "rest.enrich", "rest.download", "rest.upload">>
Direction(name) ==
    CASE name = "rest.download" -> "download" [] name = "rest.upload" -> "upload" [] OTHER -> Absent
ExpectedInput(name) == IF name \in Executions THEN "execution-request" ELSE "transfer-input"
ExpectedOutput(name) == IF name \in Executions THEN "execution-result" ELSE "transfer-result"
JsonOnly == <<"application/json">>

\* validate_operation.
RestOperationVerdict(doc, name) ==
    LET found == Operation(doc, name, 1)
        op == CHOOSE o \in found : TRUE
    IN  IF found = {}
        THEN IF \E i \in DOMAIN doc.operations : doc.operations[i].name = name
             THEN "OperationVersionMismatch" ELSE "RequiredOperationMissing"
        ELSE FirstFailure(<<
            <<op.status # "Available", "OperationUnavailable">>,
            <<"Runtime" \notin Range(op.surfaces), "RuntimeSurfaceMissing">>,
            <<op.input.contract # ExpectedInput(name) \/ op.output.contract # ExpectedOutput(name),
              "PayloadContractMismatch">>,
            <<op.input.types # JsonOnly \/ op.output.types # JsonOnly, "EnvelopeContentTypeMismatch">>,
            <<op.effect # "Remote", "SideEffectMismatch">>,
            <<~op.controls.cancellation \/ ~op.controls.deadline \/ ~op.controls.key,
              "ControlsMismatch">>,
            <<op.labels.contract # "rest-attributes", "AttributesContractMismatch">>,
            <<Direction(name) # Absent /\ (\/ op.labels.direction # Direction(name)
                                           \/ op.labels.integrity # "sha256"),
              "TransferAttributesMismatch">>>>)

\* RestCapabilityProfile::validate.
RestVerdict(doc) ==
    FirstVerdict(<<
        IF doc.component # RestComponent THEN "ComponentMismatch" ELSE Ok,
        IF RuntimeVerdict(doc) # Ok THEN "RuntimeBindingMismatch"
        ELSE IF RuntimeCapability(doc).name # RestCapability THEN "RuntimeBindingMismatch" ELSE Ok,
        FirstVerdict([i \in DOMAIN ExpectedOperations |->
                        RestOperationVerdict(doc, ExpectedOperations[i])])>>)
=============================================================================

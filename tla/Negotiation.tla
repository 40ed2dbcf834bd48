---------------------------- MODULE Negotiation ----------------------------
(***************************************************************************)
(* How the runtime binding of a request is fixed: every hop that receives  *)
(* the request accepts it against a durable record, and the last one picks *)
(* the binding the destination is spoken to with (negotiation.rs).         *)
(***************************************************************************)

Bindings == {"V1", "V2"}
Contexts == [requires : Bindings, downgrade : BOOLEAN]

\* No header, no record, a refusal.
NoContext == [requires |-> "none", downgrade |-> FALSE]
Refused == [requires |-> "refused", downgrade |-> FALSE]

\* from_headers: a header is "absent", or a text of which only some are known.
FromHeaders(requires, downgrade) ==
    CASE requires = "absent" /\ downgrade = "absent" -> NoContext
      [] requires \in Bindings /\ downgrade \in {"true", "false"} ->
            [requires |-> requires, downgrade |-> downgrade = "true"]
      [] OTHER -> Refused

\* headers.
ToHeaders(c) == <<c.requires, IF c.downgrade THEN "true" ELSE "false">>

\* The context a reception without headers stands for.
Candidate(received) ==
    IF received = NoContext THEN [requires |-> "V1", downgrade |-> FALSE] ELSE received

MayCreate(received, external, minimum) ==
    external /\ (minimum = "V1" \/ Candidate(received).requires = "V2")

\* AcceptanceStore::accept, which the application implements: the record of
\* the message afterwards. NoContext is an absent record.
Stored(record, received, external, minimum) ==
    IF record = NoContext /\ MayCreate(received, external, minimum)
    THEN Candidate(received) ELSE record

\* Mutant: a forwarding is trusted for the context it carries.
AcceptTrusting(record, received, external, minimum, carries) ==
    IF ~carries THEN Refused
    ELSE IF record = NoContext
    THEN IF MayCreate(received, external, minimum) THEN Candidate(received) ELSE Refused
    ELSE Candidate(received)

\* accept_runtime_request: the context the hop goes on with, or a refusal.
Accept(record, received, external, minimum, carries) ==
    IF ~carries THEN Refused
    ELSE IF record = NoContext
    THEN IF MayCreate(received, external, minimum) THEN Candidate(received) ELSE Refused
    ELSE IF received = record THEN record ELSE Refused

\* select_runtime_destination, for a destination that names a capability.
SelectDestination(context, version) ==
    CASE version = 2 -> "V2"
      [] version = 1 /\ (context.requires = "V1" \/ context.downgrade) -> "V1"
      [] OTHER -> "refused"
=============================================================================

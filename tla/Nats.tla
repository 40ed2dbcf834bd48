-------------------------------- MODULE Nats --------------------------------
(***************************************************************************)
(* The NATS adapter: its connection and what goes through it.  A behaviour *)
(* looks at the reports of a connection or at deliveries over one that may *)
(* be lost and restored.                                                   *)
(***************************************************************************)
EXTENDS NatsDelivery

CONSTANT Casts      \* the sets of messages that are looked at together

vars == <<connectionVars, deliveryVars, inboxVars>>

Init == \E present \in Casts : ConnectionInit(present = {}) /\ DeliveryInit(present)

Next ==
    \/ ConnectionNext /\ UNCHANGED <<deliveryVars, inboxVars>>
    \/ DeliveryNext /\ UNCHANGED connectionVars

Spec == Init /\ [][Next]_vars

Alone(action) == action /\ UNCHANGED <<deliveryVars, inboxVars>>

\* Reports are finished, events are heard, a command that was reported is submitted,
\* and the application keeps probing; the link and the commands are free.
Fairness ==
    /\ \A w \in Writers : WF_vars(Alone(ReporterStep(w)))
    /\ WF_vars(Alone(OperatorStep))
    /\ WF_vars(Alone(ReportEvent))
    /\ WF_vars(Alone(\E succeeds \in BOOLEAN : Probe(succeeds)))

FairSpec == Spec /\ Fairness
=============================================================================

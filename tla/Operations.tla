----------------------------- MODULE Operations -----------------------------
(***************************************************************************)
(* A worker in operation: the control plane and the observation of the     *)
(* worker around one bounded pool, which both read and the plane moves.    *)
(* Casts lists the sets of clients, observing threads and monitors that    *)
(* are looked at together.                                                 *)
(***************************************************************************)
EXTENDS ControlPlane, WorkerObservation

CONSTANT Casts

vars == <<controlVars, observationVars, poolVars>>

Init == \E present \in Casts : PoolInit /\ ControlInit(present) /\ ObservationInit(present)

Next ==
    \/ \E entry \in Registrations : Register(entry[1], entry[2]) /\ UNCHANGED observationVars
    \/ \E mode \in {"read_only", "mutable"} : Build(mode) /\ UNCHANGED observationVars
    \/ \E c \in Clients : \E r \in Requests[c] : Arrive(c, r) /\ UNCHANGED observationVars
    \/ \E c \in Clients : HandlerStep(c) /\ UNCHANGED observationVars
    \/ \E c \in Clients : Disconnect(c) /\ UNCHANGED observationVars
    \/ \E c \in Clients : Collect(c) /\ UNCHANGED observationVars
    \/ \E j \in Tasks : WorkerMoves(j) /\ UNCHANGED observationVars
    \/ GateMoves /\ UNCHANGED observationVars
    \/ CancelMessage /\ UNCHANGED observationVars
    \/ ScheduleMoves /\ UNCHANGED observationVars
    \/ CompleteDrain /\ UNCHANGED <<controlVars, observationVars>>
    \/ \E t \in Threads, s \in {"None", "Ready", "Draining", "Stopped"} :
           Record(t, s) /\ UNCHANGED controlVars
    \/ \E t \in Threads : ObserveTask(t) /\ UNCHANGED controlVars
    \/ \E t \in Threads : ObserverStep(t) /\ UNCHANGED controlVars
    \/ Recv /\ UNCHANGED controlVars
    \/ \E keep \in BOOLEAN : Close(keep) /\ UNCHANGED controlVars
    \/ \E f \in Refreshers : RefreshStep(f) /\ UNCHANGED controlVars
    \/ \E f \in Refreshers : RemoveHealth(f) /\ UNCHANGED controlVars

Spec == Init /\ [][Next]_vars

\* A handler that was scheduled goes on, the dispatcher answers or its timeout
\* elapses, and the application's monitors keep refreshing; nothing obliges clients,
\* tasks, reporters or the receiver to do anything.
Fairness ==
    /\ \A c \in Clients : WF_vars(HandlerStep(c) /\ UNCHANGED observationVars)
    /\ \A f \in Refreshers : WF_vars(RefreshStep(f) /\ UNCHANGED controlVars)

FairSpec == Spec /\ Fairness
=============================================================================

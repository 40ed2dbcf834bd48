---------------------------- MODULE BoundedPool ----------------------------
(***************************************************************************)
(* What the worker executor promises to those who only see its admission   *)
(* gate, its in-flight count and its list of active tasks: the control     *)
(* plane, the instance reporter and whoever drains it.                     *)
(***************************************************************************)
EXTENDS Integers, FiniteSets

CONSTANTS
    Tasks,      \* what may be executing
    Capacity    \* max_in_flight

VARIABLES
    gate,       \* Accepting, Paused, or for good Draining
    counted,    \* the tasks that are in flight
    listed,     \* the tasks that are listed and can be cancelled
    drained     \* a drain reported that it completed

poolVars == <<gate, counted, listed, drained>>

PoolInit ==
    /\ gate = "Accepting"
    /\ counted = {}
    /\ listed = {}
    /\ drained = FALSE

\* A task starts only behind an open gate, and only within the capacity.
Start(j) ==
    /\ gate = "Accepting"
    /\ j \notin counted
    /\ Cardinality(counted) < Capacity
    /\ counted' = counted \cup {j}
    /\ UNCHANGED <<gate, listed, drained>>

\* It is listed only while it is counted.
List(j) ==
    /\ j \in counted \ listed
    /\ listed' = listed \cup {j}
    /\ UNCHANGED <<gate, counted, drained>>

Delist(j) ==
    /\ j \in listed
    /\ listed' = listed \ {j}
    /\ UNCHANGED <<gate, counted, drained>>

Finish(j) ==
    /\ j \in counted \ listed
    /\ counted' = counted \ {j}
    /\ UNCHANGED <<gate, listed, drained>>

\* A pause can be undone, a drain cannot.
Pause ==
    /\ gate = "Accepting"
    /\ gate' = "Paused"
    /\ UNCHANGED <<counted, listed, drained>>

Resume ==
    /\ gate = "Paused"
    /\ gate' = "Accepting"
    /\ UNCHANGED <<counted, listed, drained>>

BeginDraining ==
    /\ gate # "Draining"
    /\ gate' = "Draining"
    /\ UNCHANGED <<counted, listed, drained>>

\* A drain completes only when nothing is in flight behind the closed gate.
CompleteDrain ==
    /\ gate = "Draining"
    /\ counted = {}
    /\ drained' = TRUE
    /\ UNCHANGED <<gate, counted, listed>>

TaskStep(j) == Start(j) \/ List(j) \/ Delist(j) \/ Finish(j)

PoolNext ==
    \/ \E j \in Tasks : TaskStep(j)
    \/ Pause
    \/ Resume
    \/ BeginDraining
    \/ CompleteDrain

PoolSpec == PoolInit /\ [][PoolNext]_poolVars
=============================================================================

--------------------------- MODULE HealthRegistry ---------------------------
(***************************************************************************)
(* HealthRegistry of plenora-runtime-core: what components report, and the *)
(* aggregates that a probe reads.  The two signals are written one at a    *)
(* time, each under the registry's lock; the views are functions from      *)
(* components, Absent standing for a component without a report.           *)
(***************************************************************************)
EXTENDS Naturals, FiniteSetsExt

Absent == "Absent"
HealthStatus == {"Healthy", "Degraded", "Unhealthy"}
ReadinessStatus == {"Ready", "NotReady"}

\* set_health and set_readiness insert or replace, the removals take away.
Reported(view, component, status) == [view EXCEPT ![component] = status]
Removed(view, component) == [view EXCEPT ![component] = Absent]

Reports(view) == {view[c] : c \in DOMAIN view} \ {Absent}

\* aggregate_health and aggregate_readiness, a step of the folds below.
AggregateHealth(candidate, aggregate) ==
    IF "Unhealthy" \in {candidate, aggregate} THEN "Unhealthy"
    ELSE IF "Degraded" \in {candidate, aggregate} THEN "Degraded" ELSE "Healthy"
AggregateReadiness(candidate, aggregate) ==
    IF "NotReady" \in {candidate, aggregate} THEN "NotReady" ELSE "Ready"

\* health and readiness: no report at all is a healthy and ready process.
Health(view) == FoldSet(AggregateHealth, "Healthy", Reports(view))
Readiness(view) == FoldSet(AggregateReadiness, "Ready", Reports(view))
=============================================================================

----------------------------- MODULE PublicError -----------------------------
(***************************************************************************)
(* plenora-error-v1 and the failures of capability adapters.               *)
(*                                                                         *)
(* A public error has four axes: what failed, when, what is known of the   *)
(* remote effect, and whether to retry. A delay stands for After with that *)
(* many units of a day, the longest delay allowed being one of them.       *)
(***************************************************************************)
EXTENDS Integers

\* No public error: the adapter has not mapped its failure.
Unmapped == [mapped |-> FALSE]

Categories == {"InvalidPlan", "InvalidConfiguration", "Schema", "DataMapping", "Crs",
    "Unsupported", "NotFound", "Conflict", "ConcurrentModification", "Authentication",
    "Authorization", "Timeout", "Cancelled", "ResourceLimit", "Io", "Protocol", "Transient",
    "Execution", "Internal"}
Phases == {"Validate", "Connect", "Probe", "Prepare", "Read", "Write", "Finalize", "Commit",
    "Rollback", "Cleanup"}
Effects == {"None", "RolledBack", "Partial", "Committed", "Unknown"}
Dispositions == {"Never", "Quarantine", "Safe", "RequiresIdempotencyKey", "RequiresRecovery",
    "After"}

MaxRetryDelay == 1

Retry(kind) == [kind |-> kind, delay |-> 0]
After(delay) == [kind |-> "After", delay |-> delay]

\* validate_retry.
ValidRetry(effect, retry) ==
    /\ retry.kind = "After" => retry.delay <= MaxRetryDelay
    /\ effect = "Unknown" => retry.kind \in {"Never", "Quarantine", "RequiresRecovery"}

PlenoraError(category, phase, effect, retry) ==
    [category |-> category, phase |-> phase, effect |-> effect, retry |-> retry]

\* The errors that PlenoraError::new returns; the message is a bounded text.
PlenoraErrors(retries) ==
    {e \in [category : Categories, phase : Phases, effect : Effects, retry : retries] :
        ValidRetry(e.effect, e.retry)}

----------------------------------------------------------------------------
(* CapabilityFailure: the worker's view of an adapter's failure, and the    *)
(* public error if the adapter has mapped it.                               *)

\* CapabilityFailure::new.
Failure(class, certainty) ==
    [class |-> class,
     certainty |-> IF class = "OutcomeUnknown" THEN "Unknown" ELSE certainty,
     public |-> Unmapped]

ClassOf(retry) ==
    CASE retry.kind = "Never" -> "Permanent"
      [] retry.kind = "Quarantine" -> "DeadLetter"
      [] retry.kind \in {"Safe", "RequiresIdempotencyKey", "After"} -> "Retryable"
      [] retry.kind = "RequiresRecovery" -> "OutcomeUnknown"

\* CapabilityFailure::with_public_error.
MappedFailure(error) ==
    [class |-> ClassOf(error.retry),
     certainty |-> IF error.effect = "None" THEN "NotStarted" ELSE "Unknown",
     public |-> error]

\* public_remote_effect and public_retry: what an unmapped failure says in public.
PublicEffect(certainty) == IF certainty = "NotStarted" THEN "None" ELSE "Unknown"

\* Mutant: the class is looked at before the certainty.
PublicRetryByClass(failure) ==
    CASE failure.class = "OutcomeUnknown" -> Retry("RequiresRecovery")
      [] failure.class = "Retryable" -> Retry("Safe")
      [] failure.class = "Permanent" -> Retry("Never")
      [] failure.class = "DeadLetter" -> Retry("Quarantine")

PublicRetry(failure) ==
    IF failure.certainty = "Unknown" \/ failure.class = "OutcomeUnknown"
    THEN Retry("RequiresRecovery")
    ELSE CASE failure.class = "Retryable" -> Retry("Safe")
           [] failure.class = "Permanent" -> Retry("Never")
           [] failure.class = "DeadLetter" -> Retry("Quarantine")
=============================================================================

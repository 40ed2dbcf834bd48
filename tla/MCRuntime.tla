----------------------------- MODULE MCRuntime -----------------------------
(* Instances of the runtime for TLC. *)
EXTENDS Runtime

\* A critical, a required and an optional task.
MCCriticalityOf(t) ==
    CASE t = "critical" -> "Critical"
      [] t = "required" -> "Required"
      [] OTHER -> "Optional"

\* The required and the optional task have the same name.
MCComponentOf(t) == IF t = "critical" THEN "a" ELSE "b"

============================================================================

--------------------------- MODULE SubprocessSpec ---------------------------
(***************************************************************************)
(* What SubprocessSupervisorConfig and SubprocessSpec accept: the bounds   *)
(* under which a child may be started at all.                              *)
(*                                                                         *)
(* Durations and sizes are naturals, an argument is its size, and an       *)
(* environment a function from keys to the sizes of their values; a key is *)
(* one byte, and empty or malformed if it is not in Keys.                  *)
(***************************************************************************)
EXTENDS Integers, Sequences, SequencesExt, OrderedChecks

CONSTANTS
    MaxSubprocesses,    \* MAX_CONCURRENT_SUBPROCESSES
    MaxCapture,         \* MAX_CAPTURE_BYTES
    MaxMemory,          \* MAX_MEMORY_LIMIT_BYTES
    MaxCount,           \* MAX_ARGUMENT_COUNT and MAX_ENVIRONMENT_ENTRIES
    MaxBytes,           \* MAX_ARGUMENT_BYTES and MAX_ENVIRONMENT_BYTES
    Keys                \* the well-formed keys

\* SubprocessSupervisorConfig::new.
SupervisorVerdict(concurrent, timeout) ==
    FirstFailure(<<
        <<concurrent = 0, "ZeroConcurrency">>,
        <<concurrent > MaxSubprocesses, "ConcurrencyAboveMaximum">>,
        <<timeout = 0, "ZeroExecutionTimeout">>>>)

\* validate_capture_limit, and with_output_limits, which asks it for stdout first.
CaptureVerdict(limit) ==
    FirstFailure(<<
        <<limit = 0, "ZeroCaptureLimit">>,
        <<limit > MaxCapture, "CaptureLimitAboveMaximum">>>>)
OutputLimitsVerdict(stdout, stderr) ==
    FirstVerdict(<<CaptureVerdict(stdout), CaptureVerdict(stderr)>>)

\* with_termination_timeouts.
TimeoutsVerdict(graceful, hard, drain) ==
    FirstFailure(<<<<0 \in {graceful, hard, drain}, "ZeroTerminationTimeout">>>>)

\* with_resident_memory_limit.
MemoryLimitVerdict(bytes, interval, linux) ==
    FirstFailure(<<
        <<bytes = 0, "ZeroMemoryLimit">>,
        <<bytes > MaxMemory, "MemoryLimitAboveMaximum">>,
        <<interval = 0, "ZeroMemorySampleInterval">>,
        <<~linux, "MemoryLimitUnsupported">>>>)

\* with_argument, as what becomes of the arguments.
WithArgument(arguments, size) ==
    LET verdict == FirstFailure(<<
            <<Len(arguments) >= MaxCount, "TooManyArguments">>,
            <<FoldLeft(+, size, arguments) > MaxBytes, "ArgumentsTooLarge">>>>)
    IN  [verdict |-> verdict,
         arguments |-> IF verdict = Ok THEN Append(arguments, size) ELSE arguments]

EnvironmentBytes(environment) ==
    FoldFunction(+, 0, [k \in DOMAIN environment |-> 1 + environment[k]])

\* with_environment: what it replaces makes room first.
WithEnvironment(environment, key, size) ==
    LET present == key \in DOMAIN environment
        replaced == IF present THEN 1 + environment[key] ELSE 0
        verdict == FirstFailure(<<
            <<key \notin Keys, "InvalidEnvironmentEntry">>,
            <<~present /\ Cardinality(DOMAIN environment) >= MaxCount, "TooManyEnvironmentEntries">>,
            <<EnvironmentBytes(environment) - replaced + 1 + size > MaxBytes, "EnvironmentTooLarge">>>>)
    IN  [verdict |-> verdict,
         environment |-> IF verdict # Ok THEN environment
                         ELSE [k \in DOMAIN environment \cup {key} |->
                                   IF k = key THEN size ELSE environment[k]]]
=============================================================================

---------------------------- MODULE MCSubprocess ----------------------------
EXTENDS Subprocess, SubprocessSpec

Sizes == 0..3
Environments == UNION {[keys -> Sizes] : keys \in SUBSET Keys}
Held(environment) ==
    Cardinality(DOMAIN environment) <= MaxCount /\ EnvironmentBytes(environment) <= MaxBytes
Insertions == {<<>>} \cup UNION {[1..n -> Sizes] : n \in 1..4}

\* No series of with_argument exceeds either bound of the arguments, and a refused one
\* leaves no trace: the arguments are those of the calls that were accepted.
ASSUME ArgumentsBounded ==
    \A sizes \in Insertions :
        LET made == FoldLeft(LAMBDA so, size : WithArgument(so, size).arguments, <<>>, sizes)
        IN  Len(made) <= MaxCount /\ FoldLeft(+, 0, made) <= MaxBytes

\* with_environment keeps both bounds, is never refused for the count when it replaces an
\* entry, and an entry may always be replaced by one no larger.
ASSUME EnvironmentBounded ==
    \A environment \in {e \in Environments : Held(e)}, key \in Keys \cup {"="}, size \in Sizes :
        LET made == WithEnvironment(environment, key, size)
            present == key \in DOMAIN environment
        IN  /\ Held(made.environment)
            /\ present => made.verdict # "TooManyEnvironmentEntries"
            /\ (present /\ size <= environment[key]) => made.verdict = Ok

\* A configuration that is accepted has a deadline for every wait of a run, a sample
\* interval that is not zero where memory is limited, and a permit to start with.
ASSUME DeadlinesSet ==
    \A a, b, c \in 0..1, n \in 0..3, bytes \in 0..3, linux \in BOOLEAN :
        /\ TimeoutsVerdict(a, b, c) = Ok <=> a * b * c = 1
        /\ SupervisorVerdict(n, a) = Ok <=> a = 1 /\ n \in 1..MaxSubprocesses
        /\ OutputLimitsVerdict(n, bytes) = Ok <=> {n, bytes} \subseteq 1..MaxCapture
        /\ MemoryLimitVerdict(bytes, a, linux) = Ok <=> linux /\ a = 1 /\ bytes \in 1..MaxMemory

\* The run's own configuration is one of these.
ASSUME ConfigAccepted ==
    SupervisorVerdict(MaxConcurrent, 1) = Ok /\ (MemoryLimit => MemoryLimitVerdict(1, 1, TRUE) = Ok)
=============================================================================

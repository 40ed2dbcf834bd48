SPECIFICATION Spec
CONSTANTS
    good = good
    orphan = orphan
    crammed = crammed
    Messages = {good, orphan, crammed}
    ContentOf <- MCContentOf
    MaxEntries = 6
    MaxValueBytes = 5
    MaxTotalBytes = 20
    SuffixBytes = 4
    MaxPending = 1
    MaxCatalog = 2
    MaxScriptedFaults = 1
    FaultKinds = {"heartbeat"}
    AttemptBound = 3
    Slots = {s1}
    Results = {"Ok", "Retryable", "Permanent", "DeadLetter", "TimedOut", "Cancelled", "Panic"}
    Backoff <- MCBackoff
    TimeoutDecision = "RetryAfter"
    FailureLimit = 2
    Surroundings <- Everything
INVARIANTS
    AttemptsWithinBudget

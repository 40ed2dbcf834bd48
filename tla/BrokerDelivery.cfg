SPECIFICATION TimedSpec
CONSTANTS
    good = good
    orphan = orphan
    crammed = crammed
    Messages = {good, orphan, crammed}
    ContentOf <- MCContentOf
    MaxEntries = 6
    MaxValueBytes = 5
    MaxTotalBytes = 20
    SuffixBytes = 4
    MaxPending = 2
    MaxCatalog = 2
    MaxScriptedFaults = 1
    FaultKinds = {"nack", "heartbeat"}
    AttemptBound = 2
    Slots = {s1, s2}
    Results = {"Ok", "Retryable", "Permanent", "DeadLetter", "TimedOut", "Cancelled", "Panic"}
    Backoff <- MCBackoff
    TimeoutDecision = "RetryAfter"
    FailureLimit = 2
    Surroundings <- MCSurroundings
INVARIANTS
    NothingLost
    EndedForCause
PROPERTIES
    DeliveryEnds
    RunnerStops

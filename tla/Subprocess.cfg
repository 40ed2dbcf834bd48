SPECIFICATION SupervisorFairSpec
CONSTANTS
    Runs = {a, b}
    MaxConcurrent = 1
    Mode = "IsolatedTree"
    MemoryLimit = TRUE
    MaxSubprocesses = 2
    MaxCapture = 2
    MaxMemory = 2
    MaxCount = 2
    MaxBytes = 5
    Keys = {"a", "b", "c"}
INVARIANTS
    IdentifierReserved
    ContainmentHonest
PROPERTIES
    RunReturns
CHECK_DEADLOCK FALSE

SPECIFICATION FairSpec
CONSTANTS
    Jobs = {j1, j2}
    MaxInFlight = 1
    ExecutionTimeout = TRUE
    OwnerReasons = {"LeaseLost"}
    MessageOf <- MCMessageOf
INVARIANTS
    OutcomeReported
PROPERTIES
    ImplementsPool
    
    DrainEnds
    CancellationEnds

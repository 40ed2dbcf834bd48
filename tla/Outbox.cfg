SPECIFICATION FairSpec
CONSTANTS
    MaxEntries = 2
    Relays = {r1, r2}
    BatchSize = 2
    ProducerError = "Retry"
    OutcomeUnknown = "Reconcile"
    FaultBudget = 2
    DropBudget = 1
INVARIANTS
    ClaimsExclusive
    StrandedForCause
    OncePerRecovery
PROPERTIES
    EntrySettles

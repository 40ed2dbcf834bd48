SPECIFICATION FairSpec
CONSTANTS
    Malformed <- MCMalformed
    MaxDocumentBytes = 2
    MaxInterfaces = 2
    MaxOperations = 6
    MaxContentTypes = 2
    U16Max = 8
    UniqueJson <- UniqueWalk
    Unambiguous <- AllUnique
    ValidAttributes <- MCValidAttributes
    WithinLimits <- MCWithinLimits
    Documents <- MCDocuments
    Undiscovered <- MCUndiscovered
    Wires <- MCWires
    Answers <- MCAnswers
    MaxEntries = 5
    MaxValueBytes = 2
    MaxTotalBytes = 12
    MaxCapabilities = 2
    MaxPayload = 1
    HasSink = TRUE
    Minimum = "V1"
    Backoff <- MCBackoff
    MaxTime = 2
    MaxReceptions = 3
    MaxAttempts = 3
INVARIANTS
    RegistrySound
    ConsentKept
    PublicErrorHonest
    
PROPERTIES
    RequestEnds
CHECK_DEADLOCK FALSE

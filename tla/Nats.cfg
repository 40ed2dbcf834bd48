SPECIFICATION FairSpec
CHECK_DEADLOCK FALSE
CONSTANTS
    m1 = m1
    x1 = x1
    w1 = w1
    w2 = w2
    Messages = {m1}
    Foreign = {x1}
    Casts = {{}, {m1}, {x1}}
    FactsOf <- MCFactsOf
    Workers = {w1, w2}
    Consumer <- MCConsumer
    MaxPayloadBytes = 1
    MaxAttempt = 2
    MaxPublishes = 2
    MaxCrashes = 1
    MaxStoreFaults = 1
    MaxOutages = 1
    MaxNuisances = 1
    MaxCommands = 1
    LongestDuration = 20
    MaxSigned = 9
    MaxContentTypeBytes = 3
    MaxKeyBytes = 3
    MaxValueBytes = 4
    MaxEntries = 2
    MaxTotalBytes = 9
INVARIANTS
    
    EffectOnce
    

    

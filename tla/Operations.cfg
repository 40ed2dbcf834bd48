SPECIFICATION FairSpec
CONSTANTS
    c1 = c1
    c2 = c2
    c3 = c3
    t1 = t1
    t2 = t2
    t3 = t3
    f1 = f1
    f2 = f2
    j1 = j1
    Tasks = {j1}
    Capacity = 1
    Clients = {c1, c2, c3}
    Requests <- MCRequests
    Limits <- MCLimits
    Registrations <- MCRegistrations
    ManualSlots = 1
    MaxIdBytes = 2
    MaxBodyBytes = 2
    MaxMillis = 2
    Threads = {t1, t2, t3}
    Reporters = {t1, t2}
    Refreshers = {f1, f2}
    Peer = "peer"
    Required = TRUE
    QueueCapacity = 1
    MaxSequence = 3
    MaxTaskEvents = 1
    Casts <- MCCasts
INVARIANTS
    AnswersTrue
    HeartbeatsOrdered
PROPERTIES
    ControlAnswers
    ClosedShown

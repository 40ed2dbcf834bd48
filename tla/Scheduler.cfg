SPECIFICATION FairSpec
CONSTANTS
    Ids = {1}
    Ticks = {t1, t2}
    RunTicks = {t1}
    Policies = {"Skip", "FireOnce", "CatchUp"}
    Tokens = {0, 1}
    MaxTime = 2
    MaxSchedules = 2
    MaxDispatchesPerTick = 2
    MaxCatchUp = 2
    MisfireGrace = 0
    NextAfter <- MCNextAfter
    Latest = 5
    MaxTextBytes = 2
INVARIANTS
    OneAttemptPerSchedule
    UnresolvedStaysPinned
PROPERTIES
    NoUnapprovedRepeat
    FireOnceOncePerBacklog
    AttemptsEnd

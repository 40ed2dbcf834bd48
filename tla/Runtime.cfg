SPECIFICATION FairSpec
CONSTANTS
    Tasks = {"required", "optional"}
    Callers = {c1}
    MaxTasks = 2
    ReportCapacity = 1
    OptionalPolicy = "Shutdown"
    CriticalityOf <- MCCriticalityOf
    ComponentOf <- MCComponentOf
INVARIANTS
    
    CompletedIsQuiet
PROPERTIES
    ShutdownNoticesIdle
    AbortedEnds
CHECK_DEADLOCK FALSE

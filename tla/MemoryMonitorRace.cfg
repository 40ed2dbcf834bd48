SPECIFICATION MonitorSpec
CONSTANTS
    Loop = loop
    Samplers = {loop, caller}
    Operator = FALSE
    ResumeBelow = 1
    SoftLimit = 3
    HardLimit = 4
    PressureConfirmation = 2
    RecoveryConfirmation = 2
    CounterMax = 3
    MemoryMax = 4
INVARIANTS
    FailClosed

SPECIFICATION MonitorFairSpec
CONSTANTS
    Loop = loop
    Samplers = {loop, caller}
    Operator = TRUE
    ResumeBelow = 1
    SoftLimit = 3
    HardLimit = 4
    PressureConfirmation = 2
    RecoveryConfirmation = 2
    CounterMax = 2
    MemoryMax = 4
PROPERTIES
    Hysteresis
    GateFollowsMemory

SPECIFICATION PartSpec
CONSTANTS
    p1 = p1
    p2 = p2
    Procs = {p1, p2}
    Free = Free
    AllowMultiInstance = FALSE
    MaxDeaths = 2
    Interrupts = TRUE
    FastDrain = TRUE
    MaxRuns = 2
    FinishErrors = FALSE
    SlowWorkers = FALSE
INVARIANTS
    SoleServer
    LossIsReal
    FlagIsExact
PROPERTIES
    ProcessesRecover

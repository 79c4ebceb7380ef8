CONSTANTS
    Procs = {p1, p2}
    AllowMultiInstance = FALSE
    Interrupts = TRUE
    MaxDeaths = 0
    FastDrain = TRUE
    Free = Free
    MaxRuns = 1
    FinishErrors = FALSE
    SlowWorkers = FALSE
SPECIFICATION Spec
PROPERTY OrderlyStopIsClean

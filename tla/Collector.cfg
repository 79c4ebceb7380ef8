SPECIFICATION PartSpec
CONSTANTS
    SweptKinds = {"bazel", "registry", "sstate"}
    Window = 1
    Staleness = 0
    BuildTime = 1
    FlushDuringPage = FALSE
    Reuploads = {}
    Used = {"ac", "cas", "tags", "manifests", "unihashes", "objects"}
    DryRuns = {FALSE}
    MaxClock = 3
    Callers = {"c1", "c2"}
    Interval = 3
    Timeout = 1
    MaxTime = 7
    Kinds = {"sstate", "hashserv", "downloads", "bazel"}
    Windows = {1, 3}
    Forever = 1000
    Ceiling = 2
INVARIANTS
    
    EvictionMeetsTheQuota
    WindowsAreOrdered
    MeasurementsAreSpaced

    

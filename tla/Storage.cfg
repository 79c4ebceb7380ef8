SPECIFICATION PartSpec
CONSTANTS
    NotCached = NotCached
    Absent = Absent
    None = None
    Free = Free
    Keys = {"m1"}
    Mutable = {"m1"}
    Digests = {"d1", "d2"}
    Capacity = 1
    AuxCapacity = 1
    Batches = {}
    Writers = {"w1", "w2"}
    Flushers = {"f1"}
    Overlap = TRUE
    LostAcks = FALSE
    Addresses = {1, 2, 3}
    Uploads = {"x1", "x2", "x3"}
    Dir <- Fanout
    Fresh = FALSE
    MaxCrashes = 2
INVARIANTS
    ReadsStayPending
    
    CacheAgrees
PROPERTIES
    FillsAreFresh
    RunsEndInOrder

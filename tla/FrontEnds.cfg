SPECIFICATION PartSpec
CONSTANTS
    Pushers = {"p1", "p2"}
    Readers = {"r1"}
    Members = {"p1", "p2"}
    Writers = {"p1", "p2"}
    Layers = {"b1", "b2"}
    MaxPolicies = 0
    MaxFaults = 1
    Builds = {"c1", "c2", "c3"}
    Uploaders = {"c1", "c2"}
    WindowAc = 1
    WindowCas = 2
    Patience = 1
    MaxRun = 1
    MaxDrops = 1
INVARIANTS
    NothingMissing
    
    

    

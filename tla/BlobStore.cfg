SPECIFICATION FocusedSpec
CONSTANTS
    c1 = c1
    c2 = c2
    gc = gc
    m1 = m1
    i1 = i1
    None = None
    Keys = {m1, i1}
    Mutable = {m1}
    Digests = {1, 2}
    Clients = {c1, c2}
    Collectors = {gc}
    PublishAtSync = TRUE
INVARIANTS
    NoDanglingMetadata
    RefcountExact
    ImmutableTrafficDeadlockFree
PROPERTIES
    FreshRowsSurviveTheRun
    ImplementsContentStore

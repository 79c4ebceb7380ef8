SPECIFICATION LateSpec
CONSTANTS
    c1 = c1
    gc = gc
    m1 = m1
    None = None
    Keys = {m1}
    Mutable = {m1}
    Digests = {1, 2}
    Clients = {c1}
    Collectors = {gc}
    PublishAtSync = TRUE
INVARIANTS
    MetadataNamesBytes

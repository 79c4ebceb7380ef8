SPECIFICATION Spec
CONSTANTS
    m1 = m1
    d1 = d1
    d2 = d2
    w1 = w1
    w2 = w2
    Absent = Absent
    NotCached = NotCached
    None = None
    Keys = {m1}
    Mutable = {m1}
    Digests = {d1, d2}
    Capacity = 1
    AuxCapacity = 0
    Batches = {}
    Writers = {w1, w2}
    Flushers = {}
    Overlap = TRUE
    LostAcks = FALSE
INVARIANTS
    Coherent
SYMMETRY Symmetric

CONSTANTS
    t1 = t1
    t2 = t2
    Threads = {t1, t2}
    MaxVersion = 2
    Hash <- MCHash
    Pins = {None, 2}
    TTL = 2
    LoadTime = 0
    MaxTime = 3
    Faults = TRUE
    None = None
    Forged = Forged
    Error = Error
    Rejected = Rejected
SPECIFICATION Spec
SYMMETRY MCSymmetry
INVARIANTS
    TypeOK
    VersionFresh
PROPERTIES
    PinnedCachedForever

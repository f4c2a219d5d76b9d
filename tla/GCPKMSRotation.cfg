CONSTANTS
    t1 = t1
    t2 = t2
    Threads = {t1}
    MaxVersion = 2
    Hash <- MCHash
    Pins = {None}
    TTL = 2
    LoadTime = 1
    MaxTime = 4
    Faults = FALSE
    None = None
    Forged = Forged
    Error = Error
    Rejected = Rejected
SPECIFICATION Spec
INVARIANTS
    RotationTolerated

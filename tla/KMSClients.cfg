CONSTANTS
    t1 = t1  t2 = t2  c1 = c1  c2 = c2
    None = None  Error = Error  Torn = Torn  Forged = Forged
    Accepted = Accepted  Rejected = Rejected  Message = Message
    Threads = {t1, t2}
    Clients = {c1, c2}
    Sharings <- MCSharings
    References <- MCReferences
    Providers = {"awskms", "azurekms", "hashivault"}
    Plugins = {"localkms"}
    Algorithms <- MCAlgorithms
    MaxKey = 3
    HashFunction = "SHA256"
    KeyPrefix = None
    CallOptions <- MCCallOptions
    Faults = TRUE
SPECIFICATION Spec
SYMMETRY MCSymmetry
INVARIANTS
    TypeOK
    PinnedExact
    SignatureOfOneKey
    RoundTrip
PROPERTIES
    GetsOrCreates

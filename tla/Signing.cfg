CONSTANTS
    t1 = t1  t2 = t2  m1 = m1  m2 = m2  o1 = o1  o2 = o2  Type = Type
    None = None
    Error = Error
    Threads = {t1, t2}
    Signers = {1, 2}
    Loads <- MCLoads
    PSSOptions <- MCPSSOptions
    Messages = {m1, m2}
    PayloadType = Type
    CallOptions <- MCCallOptions
    Digests <- MCDigests
    CallHashes = {None, "SHA512"}
SPECIFICATION Spec
SYMMETRY MCSymmetry
INVARIANTS
    TypeOK
    RoundTrip
    NoSHA1Signed
    AloneSigns
    DefaultPermitted
    EnvelopeRoundTrip
    ThresholdCountsKeys

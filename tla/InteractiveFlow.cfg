CONSTANTS
    f1 = f1  f2 = f2  r1 = r1  r2 = r2  r3 = r3
    None = None  Typed = Typed  Failed = Failed
    Flows = {f1, f2}
    Requests = {r1, r2, r3}
    State <- MCState
    FixedPort = TRUE
    OIDC = {f1}
    Faults = TRUE
SPECIFICATION FairSpec
CHECK_DEADLOCK FALSE
INVARIANTS
    TypeOK
    PageMeansCodeUsed
    TokenBelongsToCall
    ClosedChannelsUnused
PROPERTIES
    FlowReturns

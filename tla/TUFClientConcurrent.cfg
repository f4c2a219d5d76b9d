SPECIFICATION FairSpec
CONSTANTS
    D = D
    M = M
    L = L
    a = a
    b = b
    t1 = t1
    t2 = t2
    None = None
    Torn = Torn
    Threads = {t1, t2}
    Mirrors = {D}
    DefaultMirror = D
    Legacy = {}
    Names = {a, b}
    Contents = {"a1", "a2", "b1", "m"}
    Usages = {"fulcio"}
    Statuses = {"Active", "Expired"}
    Active = "Active"
    Fallbacks = {b}
    MaxRelease = 2
    TargetsVersion <- MCTargetsVersion
    Catalog <- MCCatalog
    Embedded <- MCEmbedded
    NoCache = TRUE
    Faults = TRUE
INVARIANTS
    ResultsAuthentic
PROPERTIES
    CallsReturn
    NoRollback

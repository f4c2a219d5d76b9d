SPECIFICATION Spec
CONSTANTS
    D = D
    M = M
    L = L
    a = a
    b = b
    t1 = t1
    t2 = t2
    None = None
    Torn = Torn
    Threads = {t1}
    Mirrors = {D, M}
    DefaultMirror = D
    Legacy = {}
    Names = {a}
    Contents = {"a1", "a2", "b1", "m"}
    Usages = {"fulcio"}
    Statuses = {"Active", "Expired"}
    Active = "Active"
    Fallbacks = {}
    MaxRelease = 1
    TargetsVersion <- MCTargetsVersion
    Catalog <- MCCatalog
    Embedded <- MCEmbedded
    NoCache = FALSE
    Faults = TRUE
INVARIANTS
    ResultsAuthentic
    DiskBehindMemory
PROPERTIES
    StoredMirrorServesRoot

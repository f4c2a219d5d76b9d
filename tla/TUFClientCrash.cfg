SPECIFICATION Spec
CONSTANTS
    D = D
    M = M
    L = L
    a = a
    b = b
    t1 = t1
    t2 = t2
    None = None
    Torn = Torn
    Threads = {t1}
    Mirrors = {D}
    DefaultMirror = D
    Legacy = {}
    Names = {a, b}
    Contents = {"a1", "a2", "b1", "m"}
    Usages = {"fulcio"}
    Statuses = {"Active", "Expired"}
    Active = "Active"
    Fallbacks = {a}
    MaxRelease = 2
    TargetsVersion <- MCTargetsVersion
    Catalog <- MCCatalog
    Embedded <- MCEmbedded
    NoCache = FALSE
    Faults = TRUE
INVARIANTS
    TypeOK
    ResultsAuthentic
    DiskBehindMemory
    SyncedBeforeDownload
PROPERTIES
    NoRollback

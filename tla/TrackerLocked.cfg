SPECIFICATION Spec
CONSTANTS
    t1 = t1
    t2 = t2
    h1 = h1
    h2 = h2
    None = None
    Threads = {t1, t2}
    Handles = {h1}
    MaxRecords = 3
    LookBack = 1
    Locked = TRUE
    MaxCalls = 6
SYMMETRY SymThreads
CHECK_DEADLOCK FALSE
INVARIANTS
    TypeOK
    RecordsAreRight
    RecentCallIsReported

SPECIFICATION FairSpec
CONSTANTS
    t1 = t1
    t2 = t2
    a1 = a1
    a2 = a2
    None = None
    Threads = {t1, t2}
    RequestIds = {11}
    Addrs = {a1, a2}
    CallsFromCallback = TRUE
    MaxCalls = 2
    MaxConnects = 1
CHECK_DEADLOCK FALSE
INVARIANTS
    TypeOK
    
    NothingLeaks
PROPERTIES
    CommandAnsweredInTime
    CallsReturnOtherwise

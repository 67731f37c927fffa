SPECIFICATION Spec
CONSTANTS
    t1 = t1
    t2 = t2
    custom1 = custom1
    custom2 = custom2
    key = key
    var1 = var1
    var2 = var2
    None = None
    Threads = {t1, t2}
    CustomEvents = {custom1, custom2}
    KeyEvents = {key}
    Variables = {var1, var2}
    MaxEventId = 2
    MaxLinks = 2
    MaxCalls = 2
SYMMETRY Symmetries
CHECK_DEADLOCK FALSE
INVARIANTS
    CachedIsMapped
    NamesAreReached

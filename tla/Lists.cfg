SPECIFICATION FairSpec
CONSTANTS
    t1 = t1
    t2 = t2
    None = None
    Threads = {t1, t2}
    Types = {"DataRequest"}
    Lengths = {1}
    MaxLists = 2
    MaxConnects = 2
CHECK_DEADLOCK FALSE
INVARIANTS
    OneListAtATime
    SuccessIsComplete
PROPERTIES
    AnsweredListEnds

SPECIFICATION FairSpec
CONSTANTS
    a1 = a1
    a2 = a2
    Apps = {a1}
    Calls = {"connectSimulator", "connectServer", "pingServer", "disconnectSimulator", "disconnectServer"}
    MaxOpens = 2
    MaxAcks = 1
    Faults = {"open", "register"}
CHECK_DEADLOCK FALSE
INVARIANTS
    TypeOK
    
    OneLoop
PROPERTIES
    
    QuitEndsLink
    CallsReturn

SPECIFICATION SessionSpec
CONSTANTS
    c1 = c1
    v1 = v1
    a = a
    Self = c1
    Clients <- SmallClients
    Fill = Fill
    None = None
    RequestIds = {1}
    EventIds = {1}
    Sizes = {4, 8}
    Intervals = {0}
    Values = {v1}
    CONN_TIMEOUT = 1
    CONN_HEARTBEAT = 1
    MaxSimEvent = 2
    CanFail = {}
    Saves <- TwoSaves
    Codes = {a}
    AllocLimit = 16
    MaxWire = 3
    MaxCalls = 3
    MaxConnects = 2
    MaxCrashes = 1
CHECK_DEADLOCK FALSE
INVARIANT QueuedRequestIsHeard

SPECIFICATION Spec
CONSTANTS
    c1 = c1
    c2 = c2
    v1 = v1
    v2 = v2
    Fill = Fill
    None = None
    Clients = {c1, c2}
    RequestIds = {1}
    EventIds = {}
    Sizes = {4}
    Intervals = {0}
    Values = {v1}
    CONN_TIMEOUT = 1
    CONN_HEARTBEAT = 1
    MaxSimEvent = 0
    CanFail = {"lookup", "area"}
SYMMETRY SymClients
INVARIANTS
    TypeOK
    TriggerCoversSubscriptions
    OnlyConnectedHold
PROPERTIES
    PausedClientGetsNothing

SPECIFICATION FairSpec
CONSTANTS
    c1 = c1
    c2 = c2
    v1 = v1
    v2 = v2
    Fill = Fill
    None = None
    Clients = {c1}
    RequestIds = {1}
    EventIds = {}
    Sizes = {4, 8}
    Intervals = {0, 1}
    Values = {v1, v2, Fill}
    CONN_TIMEOUT = 2
    CONN_HEARTBEAT = 1
    MaxSimEvent = 0
    CanFail = {"lookup", "definition", "area"}

    
PROPERTIES
    
    SilentSubscriberIsDropped

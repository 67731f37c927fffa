SPECIFICATION Spec
CONSTANTS
    c1 = c1
    c2 = c2
    fuel = fuel
    zoom = zoom
    flag = flag
    knob = knob
    digits = digits
    key = key
    None = None
    UnknownKey = UnknownKey
    Clients = {c1, c2}
    Names = {fuel, zoom, flag, knob, digits}
    SimIds <- Sims
    TokenIds <- Tokens
    FlagTokens = {flag}
    ButtonNames = {knob}
    LeadingNumber <- Leading
    Indexes <- Indices
    KeyNames = {key}
    Wanted <- Wishes
    Subscribed <- Requests
    MaxQueue = 2
    MaxCalls = 3
SYMMETRY Symmetries
CHECK_DEADLOCK FALSE
INVARIANTS
    
    SubscriptionAgrees
PROPERTIES
    OnlySetsChange

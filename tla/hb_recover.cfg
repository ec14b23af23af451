SPECIFICATION TimedFairSpec
CONSTANTS
    c1 = c1
    w1 = w1
    w2 = w2
    NoService = NoService
    Nothing = Nothing
    Client = {}
    Worker = {w1, w2}
    Service = {"echo"}
    Reserved = {}
    MaxSession = 4
    MaxCalls = 1
    MaxInFlight = 3
    ServiceOf <- OneService
    Liveness = 3
    BrokerLiveness = 3
    Interval = 3
    ReconnectDelay = 2
    MaxDelay = 0
    Retries = 1
    KeepSession = FALSE
    MaxFaults = 1
INVARIANTS
    ClockTypeOK
PROPERTIES
    Recovery

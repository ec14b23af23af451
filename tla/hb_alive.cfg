SPECIFICATION TimedSpec
CONSTANTS
    c1 = c1
    w1 = w1
    w2 = w2
    NoService = NoService
    Nothing = Nothing
    Client = {c1}
    Worker = {w1, w2}
    Service = {"echo"}
    Reserved = {}
    MaxSession = 2
    MaxCalls = 1
    MaxInFlight = 3
    ServiceOf <- OneService
    Liveness = 3
    BrokerLiveness = 3
    Interval = 3
    ReconnectDelay = 3
    MaxDelay = 1
    Retries = 1
    KeepSession = FALSE
    MaxFaults = 0
INVARIANTS
    NoFalseAlarm
PROPERTIES
    NoFalsePurge
SYMMETRY Workers

SPECIFICATION FairSpec
CONSTANTS
    c1 = c1
    c2 = c2
    w1 = w1
    w2 = w2
    NoService = NoService
    Nothing = Nothing
    Client = {c1}
    Worker = {w1}
    Service = {"echo"}
    Reserved = {"mmi.service", "mmi.other"}
    MaxSession = 3
    MaxCalls = 2
    MaxInFlight = 1
    ServiceOf <- OneService
    Liveness = 1
    Retries = 2
    KeepSession = FALSE
    MaxFaults = 0
INVARIANTS
    ReplyMatches
PROPERTIES
    QueueDrains

SPECIFICATION Spec
CONSTANTS
    c1 = c1
    c2 = c2
    w1 = w1
    w2 = w2
    NoService = NoService
    Nothing = Nothing
    Client = {c1}
    Worker = {w1, w2}
    Service = {"echo", "log"}
    Reserved = {}
    MaxSession = 2
    MaxCalls = 2
    MaxInFlight = 1
    ServiceOf <- TwoServices
    Liveness = 1
    Retries = 1
    KeepSession = TRUE
    MaxFaults = 0
INVARIANTS
    ReplyServiceAssert

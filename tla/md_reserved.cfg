SPECIFICATION Spec
CONSTANTS
    c1 = c1
    c2 = c2
    w1 = w1
    w2 = w2
    NoService = NoService
    Nothing = Nothing
    Client = {c1}
    Worker = {w1}
    Service = {"echo"}
    Reserved = {"mmi.service"}
    MaxSession = 1
    MaxCalls = 1
    MaxInFlight = 1
    ServiceOf <- ReservedService
    Liveness = 1
    Retries = 1
    KeepSession = FALSE
    MaxFaults = 0
INVARIANTS
    NoReservedWorker

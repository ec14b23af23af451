SPECIFICATION Spec
CONSTANTS
    c1 = c1
    c2 = c2
    w1 = w1
    w2 = w2
    NoService = NoService
    Nothing = Nothing
    Client = {c1}
    Worker = {w1, w2}
    Service = {"echo"}
    Reserved = {}
    MaxSession = 2
    MaxCalls = 1
    MaxInFlight = 1
    ServiceOf <- OneService
    Liveness = 1
    Retries = 2
    KeepSession = FALSE
    MaxFaults = 1
INVARIANTS
    TypeOK
    ListsAgree
    WorkConserving
    NoDuplicate
    WorkerCount
    OnePermission
SYMMETRY Workers

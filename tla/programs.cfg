SPECIFICATION FairSpec
CONSTANTS
    b1 = b1
    b2 = b2
    c1 = c1
    c2 = c2
    w1 = w1
    w2 = w2
    n1 = n1
    n2 = n2
    READY = READY
    Client = {c1}
    Retries = 2
    MaxCrashes = 2
    Broker = {b1, b2}
    ClusterClient = {c1, c2}
    ClusterWorker = {w1, w2}
    Home <- Homes
    Burst <- Bursts
    Late = {b1}
    Impatient = {c1}
    NomClient = {c1, c2}
    NomHeartbeat = 2
    MaxRouter = 1
    Node = {n1, n2}
    PING_INTERVAL = 2
    PEER_EXPIRY = 10
    MaxLate = 1
    MaxMissed = 1
    MaxRestarts = 1
    Hand = {w1, w2}
    CppWorker = {w1}
    Expiry = 1
    MaxRequests = 2
    MaxSessions = 2
    Text = {"text", "REPLY and more"}
    Sender = a1
    Unset = Unset
    Base = 4
    Digits = 2
    Sequence <- Sequences
    Bogus = {0, 7, 10}
    MaxProps = 2
    AppKey = {k1}
    Endpoint = {e1, e2}
    MaxCommands = 3
    Half = 8
    CHUNK_SIZE = 2
    FileSizes = {0, 1, 2, 3, 7, 8, 9, 15}
    Asker = {c1, c2}
    Responder = {w1, w2}
    Hellos = 2
    Puller = {w1, w2}
    Tasks = 3
    MaxSent = 3
    HighWater = 2
    Letter = {"A", "B", "C"}
    Count = 2
    MaxDraws = 4
    Requester = {c1, c2}
    Server = {w1, w2}
    Dealer = c1
    Echoes = 3
    PipeRoom = 2
    Flow = {b1, b2}
    MaxStates = 2
INVARIANTS
    TypeOK
    Kept
    Processed
    NoFatalError
    TasksKept
    WorkersListed
    CppSound
    CodecsAgree
    PatternsSound
    PartedListed
    
PROPERTIES
    Served
    NoFalseLeave
CHECK_DEADLOCK FALSE

SPECIFICATION FairSpec
CONSTANTS
    c1 = c1
    c2 = c2
    c3 = c3
    w1 = w1
    w2 = w2
    Client = {c1, c2, c3}
    Worker = {w1, w2}
    READY = READY
    Nothing = Nothing
CHECK_DEADLOCK FALSE
INVARIANTS
    TypeOK
    QueueSound
    RoomInQueue
    WorkerAvailable
    OneHolder
    EndsAnswered
PROPERTIES
    Serves

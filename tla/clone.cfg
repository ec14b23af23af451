SPECIFICATION Spec
CONSTANTS
    a1 = a1
    k1 = k1
    Agent = {a1}
    Key = {k1}
    NoMsg = NoMsg
    Null = Null
    Writes <- Scripts
    MaxCrashes = 1
    MaxFailovers = 1
INVARIANTS
    TypeOK
    NothingLost
    AgentAgrees
PROPERTIES
    Implements
CONSTRAINT Claimed
CHECK_DEADLOCK FALSE

SPECIFICATION Spec
CONSTANTS
    a1 = a1
    k1 = k1
    Agent = {a1}
    Key = {k1}
    NoMsg = NoMsg
    Null = Null
    Writes <- Overwrite
    MaxCrashes = 1
    MaxFailovers = 1
PROPERTIES
    FreshTakeover
CHECK_DEADLOCK FALSE

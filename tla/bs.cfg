SPECIFICATION FairSpec
CONSTANTS
    Heartbeat = 3
    MaxDelay = 1
    MaxConnect = 1
    MaxCrashes = 3
INVARIANTS
    TypeOK
    NoSplitBrain
    NoFatal
PROPERTIES
    Settles

SPECIFICATION FairSpec
CONSTANTS
    n1 = n1
    n2 = n2
    Instance <- MCInstance
    Ports = 2
    MaxQueue = 3
    Faults = {"port", "connect", "expire", "socket", "garbage"}
    None = None
INVARIANTS OneBridge LastStopHolds
PROPERTIES TriesAgain DisposeEnds
CHECK_DEADLOCK FALSE

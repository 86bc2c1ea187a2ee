SPECIFICATION FairSpec
CONSTANTS
    b1 = b1
    d1 = d1
    d2 = d2
    i1 = i1
    m1 = m1
    m2 = m2
    a1 = a1
    r1 = r1
    noConn = noConn
    Conn <- Pair
    Role <- PairRole
    Caps <- PairCaps
    Inspect = {i1}
    Match = {}
    Auth = {}
    RuleRef = {}
    None = noConn
    MaxRoutes = 1
    MaxResGen = 0
    MaxRulesGen = 0
    Faults = {"vanish", "hangup", "fatal", "expire", "heartbeat", "stop"}
INVARIANTS StoppedStaysEmpty RoutesEndWithSockets
PROPERTIES SilentClientsLeave SocketsAuthenticateOrEnd StopDrains
CHECK_DEADLOCK FALSE

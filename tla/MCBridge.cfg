SPECIFICATION Spec
CONSTANTS
    b1 = b1
    d1 = d1
    d2 = d2
    i1 = i1
    m1 = m1
    m2 = m2
    a1 = a1
    r1 = r1
    noConn = noConn
    Conn <- TwoIdes
    Role <- TwoIdesRole
    Caps <- TwoIdesCaps
    Inspect = {i1}
    Match = {m1, m2}
    Auth = {a1}
    RuleRef = {r1}
    None = noConn
    MaxRoutes = 1
    MaxResGen = 1
    MaxRulesGen = 2
    Faults = {"hangup", "fatal", "stop"}
INVARIANTS RegistrySound AuthorityAsShown RoutedAsShown
INVARIANTS PeerViewsAgree
PROPERTY PeerViewsAdvance
SYMMETRY TwoIdesSymmetry
CHECK_DEADLOCK FALSE

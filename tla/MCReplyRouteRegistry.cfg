SPECIFICATION RegistrySpec
CONSTANTS
    c1 = c1
    c2 = c2
    i1 = i1
    i2 = i2
    m1 = m1
    a1 = a1
    r1 = r1
    noConn = noConn
    Conn <- MCConn
    Inspect <- MCInspect
    Match <- MCMatch
    Auth <- MCAuth
    RuleRef <- MCRuleRef
    None = noConn
    MaxRoutes = 1
    MaxResGen = 0
    MaxRulesGen = 1
    MaxPrepared = 2
INVARIANTS RegistryTypeOK IndexConsistent BoundedTable OwnedAuthority FreshStillHolds
PROPERTY NoRegression
SYMMETRY Symmetry

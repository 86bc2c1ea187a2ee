SPECIFICATION FairSpec
CONSTANTS
    p1 = p1
    p2 = p2
    t1 = t1
    l1 = l1
    l2 = l2
    o1 = o1
    o2 = o2
    Panel <- TwoPanels
    Tab <- OneTab
    Link <- TwoLinks
    Op <- TwoOps
    MaxAttempts = 2
    MaxQueue = 3
    Faults = {{"restart", "send", "protocol"},
              {"restart", "storage", "abort"}}
    None = None
INVARIANTS LinkIsStored StoredIsUsed AuthorityIsLive KeepsTrying
PROPERTIES CallsEnd ReconnectingEnds
CHECK_DEADLOCK FALSE

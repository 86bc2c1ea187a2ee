SPECIFICATION Spec
CONSTANTS
    p1 = p1
    p2 = p2
    t1 = t1
    l1 = l1
    l2 = l2
    o1 = o1
    o2 = o2
    Panel <- OnePanel
    Tab <- OneTab
    Link <- OneLink
    Op <- TwoOps
    MaxAttempts = 2
    MaxQueue = 3
    Faults = {{}}
    None = None
INVARIANT
    ClosedWindowForgotten
CHECK_DEADLOCK FALSE

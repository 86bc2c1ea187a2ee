SPECIFICATION Spec
CONSTANTS
    w1 = w1
    w2 = w2
    Tab = {1}
    Window <- OneWindow
    MaxGeneration = 1
    MaxRevision = 3
    MaxJobs = 1
    MaxTasks = 2
    Faults = {}
    None = None
INVARIANT PendingIsCurrent
CHECK_DEADLOCK FALSE

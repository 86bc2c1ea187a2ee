SPECIFICATION Spec
CONSTANTS
    w1 = w1
    w2 = w2
    Tab = {1}
    Window <- TwoWindows
    MaxGeneration = 1
    MaxRevision = 3
    MaxJobs = 2
    MaxTasks = 2
    Faults = {"storage", "crash"}
    None = None
CONSTRAINT FewAtATime
INVARIANTS PendingIsOwned DisabledStaysOut
PROPERTY AskedOnce
CHECK_DEADLOCK FALSE

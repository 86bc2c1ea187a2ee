SPECIFICATION Spec
CONSTANTS
    N = 3
    Start <- Documents
    PageSize = 2
    MaxMutations = 2
    MaxRequests = 1
    MaxHeld = 1
    MaxFaults = 1
    None = None
CONSTRAINT FewChanges
INVARIANTS OneOwner ShownIsCurrent AwaitedOnce
CHECK_DEADLOCK FALSE

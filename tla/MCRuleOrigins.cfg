SPECIFICATION Spec
CONSTANTS
    MaxInspect = 2
    MaxGeneration = 3
    MaxVersion = 1
    MaxRefresh = 1
    MaxChannel = 2
    Faults = {"ide", "resolve", "gate", "page", "send"}
    None = None
CONSTRAINT OneCause
INVARIANTS ClientMatchesRegistry ForwardedIsShown PanelMatchesIde
PROPERTY RevealIsCurrent
CHECK_DEADLOCK FALSE

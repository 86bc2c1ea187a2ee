SPECIFICATION Spec
CONSTANTS
    t1 = t1
    t2 = t2
    t3 = t3
    Role = {"browser", "ide"}
    Token <- MCToken
    MaxTokens = 1
    MaxFailures = 2
    Window = 2
    Cooldown = 2
    Ttl = 2
    MaxTime = 5
    MaxWrong = 5
INVARIANTS GuessesBounded TokensBounded TokensKept
PROPERTY LostForGood
SYMMETRY Symmetry
CHECK_DEADLOCK FALSE

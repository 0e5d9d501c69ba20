SPECIFICATION FairSpec
CONSTANTS
    Requests = {r1, r2}
    MaxMessages = 3
    Kind <- BatchAndDirect
    Scopes <- Batch
    DailyLimit = 1
    MaxPerClick = 2
    MaxAttempts = 2
    Exclusive = TRUE
    MaxSends = 2
    MaxFaults = 1
INVARIANTS
    TypeOK
    SentOnce
PROPERTIES
    LimitKept
    EveryMessageSettles

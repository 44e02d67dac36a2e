SPECIFICATION LiveSpec
CONSTANTS
    e1 = e1
    e2 = e2
    r1 = r1
    r2 = r2
    r3 = r3
    None = None
    Entry <- MCEntry
    Req <- MCReq
    lidOf <- MCLidOf
    hashTableDepth = 2
    Configs <- MCConfigs
INVARIANTS TypeOK PoolSound AgeWalk RetryBudget
PROPERTIES ImplementsRequests CalledBack
CHECK_DEADLOCK TRUE

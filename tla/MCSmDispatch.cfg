CONSTANTS
    Switch = {s1, s2}
    ReqsSupported = 2
    BatchSize = 1
    StallThreshold = 2
    AbandonThreshold = 0
    CheckMftResponses = TRUE
    MaxSweeps = 2
    MaxRequests = 3
SPECIFICATION FairSpec
INVARIANTS TypeOK Accounting NoDanglingNode NodeBatch LftProgrammed
PROPERTIES NodeFifo WaitReturns
CHECK_DEADLOCK FALSE

SPECIFICATION FairSpec
CONSTANTS
    sw = sw
    fi = fi
    dumb = dumb
    None = None
    Node <- MCNode
    LidMap <- MCLidMap
    Switch = {sw}
    PmaAvoid = {dumb}
    Port <- MCPort
    portsOf <- MCPortsOf
    active <- MCActive
    VLSelectMask <- MCMask
    MaxParallelNodes = 2
    PmaBatchSize = 2
    Payload = 5
    Busy = {1, 3}
    SendFails = TRUE
    AllocFails = TRUE
    Stops = TRUE
INVARIANTS TypeOK Accounting ContextsSuffice NoDoubleQuery EventAtEnd FailuresReported
CHECK_DEADLOCK FALSE
PROPERTIES SweepEnds

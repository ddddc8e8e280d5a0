\* Nothing fails but the navigation; both timeouts are the same, as by default.
SPECIFICATION FairSpec
CONSTANTS
    Countries = {us, de, fr}
    Pool = {us, de}
    Direct = Direct
    RetryBlockedOnce = TRUE
    RespectRobots = TRUE
    ContextTimeout = 3
    GotoTimeout = 3
    LazyWait = 1
    Faults <- MCNoFaults
INVARIANT
    NavigationFailuresYieldEvidence

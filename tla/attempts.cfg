\* Two countries in the pool and one that is not, every fault.
SPECIFICATION FairSpec
CONSTANTS
    Countries = {us, de, fr}
    Pool = {us, de}
    Direct = Direct
    RetryBlockedOnce = TRUE
    RespectRobots = TRUE
    ContextTimeout = 3
    GotoTimeout = 3
    LazyWait = 1
    Faults <- MCAllFaults
INVARIANTS
    TypeOK
    NothingLeftOpen
    NoBlindReport
    CountryHonoured
    ExitsRecorded
PROPERTIES
    
    RefinesTask

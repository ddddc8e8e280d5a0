\* Two requests, two workers, every fault.
SPECIFICATION Spec
CONSTANTS
    Scans = {s1, s2}
    Users = {u1, u2}
    Urls = {l1}
    Workers = {w1, w2}
    None = None
    RetryBlockedOnce = FALSE
    Faults <- MCAllFaults
    MaxDeliveries = 2
SYMMETRY MCSymmetry
INVARIANTS
    TypeOK
    ReportMatchesStatus
    CacheHoldsReported
PROPERTIES
    CachedAnswersAreUsable

\* Two requests, two workers, every fault the code recovers from.
SPECIFICATION FairSpec
CONSTANTS
    Scans = {s1, s2}
    Users = {u1}
    Urls = {l1}
    Workers = {w1, w2}
    None = None
    RetryBlockedOnce = TRUE
    Faults <- MCRecoverable
    MaxDeliveries = 2
INVARIANTS
    NotifiedResultIsStored
    BlockedMeansRetried
    NeverForgotten
PROPERTIES
    Settles

\* A file of up to two scans, or two single requests; faults before the commit.
SPECIFICATION BulkFairSpec
CONSTANTS
    s1 = s1
    s2 = s2
    Scans = {s1, s2}
    Users = {u1, u2}
    Urls = {l1, l2}
    Workers = {w1}
    None = None
    RetryBlockedOnce = TRUE
    Faults <- MCEarly
    MaxDeliveries = 2
    Rejected = Rejected
    Malformed = Malformed
    Files <- MCFiles
    MaxBulkUrls = 3
INVARIANTS
    BulkTypeOK
    BatchIsWhole
    LossIsNamed
PROPERTIES
    KeepsPromise
    ProgressGrows
    RowsSettle

\* A webhook round raises after the report was committed.
SPECIFICATION FairSpec
CONSTANTS
    Scans = {s1}
    Users = {u1}
    Urls = {l1}
    Workers = {w1}
    None = None
    RetryBlockedOnce = TRUE
    Faults <- MCLateWebhook
    MaxDeliveries = 1
PROPERTY
    TerminalIsFinal

\* Two runs of one scan and a re-drive, three webhooks, one of them with a URL that httpx rejects.
SPECIFICATION FairSpec
CONSTANTS
    ann1 = ann1
    ann2 = ann2
    bob1 = bob1
    ann = ann
    bob = bob
    s1 = s1
    r1 = r1
    r2 = r2
    hook = hook
    bad = bad
    Hooks = {ann1, ann2, bob1}
    Scans = {s1}
    Runs = {r1, r2}
    Redrives = {d1}
    HookUser <- MCHookUser
    HookUrl <- MCOneBad
    ScanUser <- MCScanUser
    RunScan <- MCRerun
    Unusable = {bad}
    None = None
    MaxAttempts = 2
    Faults = {"dlq", "remove", "crash"}
INVARIANTS
    TypeOK
    NothingVanishes
    OwnersOnly
PROPERTIES
    RoundEnds
    RefinesLifecycle

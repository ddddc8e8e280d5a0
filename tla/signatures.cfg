\* Three loads of any of four revisions of the files, one of which is refused.
SPECIFICATION FairSpec
CONSTANTS
    Loads = {p1, p2, p3}
    n1 = n1
    n2 = n2
    Keys <- MCKeys
    auth = auth
    antibot = antibot
    c1 = c1
    c2 = c2
    Contents = {c1, c2}
    Invalid = Invalid
    None = None
    Files <- MCFiles
    Tables <- MCTables
INVARIANTS
    TypeOK
    OneRowEach
    LoadsAreReleases
    RepairIsFinal
PROPERTIES
    SwitchedOffStays
    LoadsEnd
\* Every load runs once, then nothing is left to do.
CHECK_DEADLOCK FALSE

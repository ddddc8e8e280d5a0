\* Four requests, two places in a window of three seconds, three windows.
SPECIFICATION Spec
CONSTANTS
    Requests = {r1, r2, r3, r4}
    Limit = 2
    Length = 3
    MaxWindow = 2
SYMMETRY MCSymmetry
INVARIANTS
    TypeOK
    WindowLimit
    RefusedOnlyWhenFull
\* Time ends with the last window.
CHECK_DEADLOCK FALSE

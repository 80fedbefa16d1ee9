CONSTANTS
    Claims = {c1, c2}
    Checks = {k1, k2}
    Mine = Mine
    Theirs = Theirs
    None = None
    Cooling = 2
    Window = 1
    Period = 1
    Delay = 1
    MaxRemembered = 1
    MaxTime = 5
SPECIFICATION Spec
SYMMETRY Symmetry
INVARIANTS TypeOK FoundIsTold
PROPERTIES ToldInTime
CHECK_DEADLOCK FALSE

SPECIFICATION Spec
CONSTANTS
    Claims = {c1, c2}
    Keys = {k1, k2}
    None = None
    Coroutines = {t1, t2}
    Cooling = 1
    Window = 0
    MaxTime = 1
SYMMETRY Symmetry
CHECK_DEADLOCK FALSE
INVARIANT SafeToRetry

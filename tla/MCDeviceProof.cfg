SPECIFICATION Spec
CONSTANTS
    Proofs = {p1, p2}
    Handlers = {h1, h2}
    None = None
    Skew = 2
    Ttl = 4
    MaxTime = 6
SYMMETRY Symmetry
CHECK_DEADLOCK FALSE
INVARIANTS
    TypeOK
PROPERTIES
    ReplayRefused

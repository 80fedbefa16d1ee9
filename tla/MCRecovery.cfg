SPECIFICATION Spec
CONSTANTS
    Requests = {r1, r2}
    Keys = {k1, k2}
    Handlers = {h1, h2}
    None = None
    RequestTtl = 3
    AuthTtl = 1
    Cooling = 1
    Window = 1
    Hour = 1
    MaxPerHour = 1
    MaxTime = 4
SYMMETRY Symmetry
CHECK_DEADLOCK FALSE
INVARIANTS
    TypeOK
    FullWaitAfterApproval
    TakeoversDoNotOverlap
    NoStaleCancel
    HourlyLimit
PROPERTIES
    TakeoverWasListed
    CustodySpec

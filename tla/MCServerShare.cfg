CONSTANTS
    DkgIds = {d1}
    SignIds = {s1}
    ReshareIds = {r1, r2}
    Handlers = {h1, h2}
    None = None
    LastRound = 3
SPECIFICATION Spec
SYMMETRY Symmetric
INVARIANTS
    TypeOK
    WorkIsApproved
PROPERTIES
    DroppedByItsOwn
    CustodySpec

SPECIFICATION Spec
CONSTANTS
    Ceremonies = {s1}
    Challenges = {c1, c2}
    Operations = {o1, o2}
    Handlers = {h1, h2}
    None = None
    MaxLive = 1
SYMMETRY Symmetry
INVARIANTS
    TypeOK
    OneOutcome
    OutcomesAreBound
    CompletedIsVerified
    PagesAgree
    WaitingIsBounded

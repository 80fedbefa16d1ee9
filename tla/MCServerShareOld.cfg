CONSTANTS
    DkgIds = {d1}
    SignIds = {s1}
    ReshareIds = {r1}
    Handlers = {h1}
    None = None
    LastRound = 2
SPECIFICATION Spec
INVARIANT OldShareIsGone

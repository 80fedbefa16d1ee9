CONSTANTS
    Original = Original
    DkgIds = {Original}
    SignIds = {}
    ReshareIds = {r1, r2}
    Handlers = {h1, h2}
    None = None
    Wiped = Wiped
    LastRound = 2
SPECIFICATION FairSpec
INVARIANTS
    SystemTypeOK
    Recoverable
PROPERTIES
    VaultFollowsServer
    RunEnds

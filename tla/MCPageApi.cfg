CONSTANTS
    first = first
    second = second
    bank = bank
    shop = shop
    Requests = {first, second}
    Origins = {bank, shop}
    Known = {bank}
    Origin <- MCOrigin
    Asks <- MCAsks
    None = None
SPECIFICATION FairSpec
INVARIANTS TypeOK WaitsAtAWindow SignedByConsent ListedByConsent
PROPERTIES LockEndsSigning Settles
CHECK_DEADLOCK FALSE

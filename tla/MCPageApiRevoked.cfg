CONSTANTS
    first = first
    second = second
    bank = bank
    shop = shop
    Requests = {first, second}
    Origins = {bank, shop}
    Known = {bank}
    Origin <- MCOrigin
    Asks <- MCAsks
    None = None
SPECIFICATION Spec
PROPERTY RevokedStaysOut
CHECK_DEADLOCK FALSE

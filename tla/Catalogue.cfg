SPECIFICATION CatalogueSpec
CONSTANTS
    t1 = t1
    p1 = p1
    p2 = p2
    c1 = c1
    c2 = c2
    x = x
    y = y
    Nfts = {t1}
    People = {p1, p2}
    Nobody = Nobody
    Wei = {x, y}
    Reporters = {c1}
    Operators = {c2}
    Window = 2
    MaxOffers = 2
    MaxAsked = 2
    MaxLots = 2
SYMMETRY Swaps
CHECK_DEADLOCK FALSE
INVARIANTS
    RowsFollowChain
    SyncHeals
PROPERTIES
    KillSwitchHolds

SPECIFICATION ShopSpec
CONSTANTS
    w1 = w1
    w2 = w2
    a1 = a1
    r1 = r1
    r2 = r2
    Wallets = {w1, w2}
    Sellers = {w1}
    Assets = {a1}
    Prices = {1}
    NoOne = NoOne
    Requests = {r1, r2}
    MaxBought = 2
    MaxListings = 2
    MaxOpened = 1
SYMMETRY Swaps
CHECK_DEADLOCK FALSE
INVARIANTS
    SoldOnce
    OwnedByPerson
    GoneIsBurned
PROPERTIES
    ClosedStaysClosed

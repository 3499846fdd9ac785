SPECIFICATION MarketSpec
CONSTANTS
    alice = alice
    bob = bob
    carol = carol
    Accounts <- Everyone
    Tokens = {t1}
    Prices = {0, 9, 20}
    Ids = {1, 2}
    FeeRates = {0, 1000, 1001}
    Treasuries <- OnlyAlice
    NoOne = NoOne
    House = House
    Funds = 20
INVARIANTS
    OneListing
    CanPayOut
PROPERTIES
    MarketSellsAtomically
CHECK_DEADLOCK FALSE

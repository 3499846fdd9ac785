SPECIFICATION ProgramSpec
CONSTANTS
    Wallets = {w1, w2, w3}
    Assets = {a1}
    Prices = {1, 2}
    NoOne = NoOne
    House = House
    Funds = 2
INVARIANTS
    Custody
PROPERTIES
    NeverStranded
    SellsAtomically
CHECK_DEADLOCK FALSE
SYMMETRY WalletSymmetry

SPECIFICATION MCSpec
CONSTANTS
    Adds = {a1, a2}
    Orders = {o1, o2}
    None = None
    Mod = 100
    Prices <- MCPrices
    Dollar = 2
    Rates = {0, 2, 3}
    Precision = 150
    Quantities = {0, 1, 3}
    MaxCosts = 3
    Panic = Panic
SYMMETRY Symmetry
CONSTRAINT CartOrKafka
CHECK_DEADLOCK FALSE
INVARIANTS
    AloneAddIsKept
    ShippedTwiceNeedsCause
    NobodyWaitsInVain
    BooksSound
    PricesSound
PROPERTIES
    KeepsLedger

SPECIFICATION Spec
CONSTANTS
    p1 = p1
    p2 = p2
    o1 = o1
    o2 = o2
    w1 = w1
    w2 = w2
    Warehouses = {w1, w2}
    Products = {p1, p2}
    Orders = {o1, o2}
    Txs = {t1, t2, t3, t4}
    NoWarehouse = NoWarehouse
    Lines <- MCLines
    InitialStock <- MCStock
    ProductRank <- MCRank
SYMMETRY MCSymmetry
CHECK_DEADLOCK FALSE
INVARIANTS
    WaitsClimb
    NonNegative
    ReservedIsHeld
    StockConserved
    LedgerReplays
    EachLineEndsOnce
    LinesMoveTogether
PROPERTIES
    InventorySpec

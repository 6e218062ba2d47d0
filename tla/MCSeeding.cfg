SPECIFICATION SeedingSpec
CONSTANTS
    w1 = w1
    w2 = w2
    w3 = w3
    p1 = p1
    p2 = p2
    o1 = o1
    o2 = o2
    Warehouses = {w1, w2, w3}
    Products = {p1, p2}
    Orders = {o1, o2}
    NoWarehouse = NoWarehouse
    Lines <- MCLines
    InitialStock <- MCStock
    WarehouseList <- MCWarehouses
    ProductList <- MCProducts
    InventoryList <- MCInventory
    Seeders = {compose, manual}
    ComposeSeed = compose
    MaxCandidates = 2
    MaxFailures = 2
PROPERTIES
    SeedIsInvisible
    RefusalsAreReal

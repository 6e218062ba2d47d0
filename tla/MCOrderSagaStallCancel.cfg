SPECIFICATION Spec
CONSTANTS
    near = near
    product = product
    o1 = o1
    o2 = o2
    Warehouses = {near}
    Products = {product}
    Orders = {o1}
    NoWarehouse = NoWarehouse
    Lines <- MCLines
    InitialStock <- MCStock
    Reapers = {reaper1, reaper2}
    Reconcilers = {reconciler}
    Nearness <- MCNearness
    MaxCandidates = 3
    BatchSize = 1
    Prompt = FALSE
CHECK_DEADLOCK FALSE
INVARIANTS
    CancelledNeverCharged

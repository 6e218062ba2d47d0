SPECIFICATION FairSpec
CONSTANTS
    near = near
    product = product
    o1 = o1
    o2 = o2
    Warehouses = {near}
    Products = {product}
    Orders = {o1, o2}
    NoWarehouse = NoWarehouse
    Lines <- MCLines
    InitialStock <- MCStock
    Reapers = {reaper}
    Reconcilers = {reconciler}
    Nearness <- MCNearness
    MaxCandidates = 3
    BatchSize = 1
    Prompt = TRUE
CHECK_DEADLOCK FALSE
INVARIANTS
    SettledByProvider
    CancelledNeverCharged
    ResponseIsTrue
    PaymentAgrees
    StatusMatchesLedger
    PublishedOnce
PROPERTIES
    EventuallySettled
    ChargedIsConfirmed
    SettlementSpec
    SettledIsFinal

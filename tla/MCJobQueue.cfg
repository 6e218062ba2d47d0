SPECIFICATION FairSpec
CONSTANTS
    Orders = {o1}
    Workers = {w1, w2}
    Topology <- MCTopology
    RetryLimit = 1
    MaxStops = 2
    None = None
CHECK_DEADLOCK FALSE
INVARIANTS
    OnlyConfirmedHandled
    NothingVanishes
PROPERTIES
    ShipmentKept
    ConfirmedIsShipped

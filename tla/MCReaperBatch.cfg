SPECIFICATION Spec
CONSTANTS
    Orders = {1, 2, 3}
    StuckSets = {{1}, {2}, {1, 2}, {1, 3}, {2, 3}, {1, 2, 3}}
    Workers = {w1, w2}
    BatchSize = 2
    AlertAfter = 2
    MaxTime = 5
    MaxCrashes = 1
    None = None
CHECK_DEADLOCK FALSE
PROPERTIES
    EveryExpiredIsResolved
    StuckIsAlerted

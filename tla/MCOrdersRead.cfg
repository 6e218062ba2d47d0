SPECIFICATION Spec
CONSTANTS
    Orders = {1, 2, 3, 4}
    Seeded = {1, 2, 3}
    Queries <- MCQueries
    Milli = 2
    MaxTime = 4
    Outcomes = {"CONFIRMED", "CANCELLED"}
    None = None
CHECK_DEADLOCK FALSE
INVARIANTS
    ListedOnce
    DetailStaysTrue

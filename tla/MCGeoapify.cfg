SPECIFICATION GeoapifySpec
CONSTANTS
    Calls = {c1, c2, c3}
    MaxAttempts = 3
    Threshold = 2
    OpenFor = 3
    Timeout = 2
    None = None
INVARIANTS
    OneProbe
    ProbeDecides
PROPERTIES
    KeepsProbing
    EverySearchEnds

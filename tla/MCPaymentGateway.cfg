SPECIFICATION FairSpec
CONSTANTS
    charge1 = charge1
    charge2 = charge2
    status1 = status1
    Calls = {charge1, charge2, status1}
    Keys = {"k"}
    KindOfCall <- MCKind
    KeyOfCall <- MCKey
    BodyOfCall <- MCBody
    CardChoices <- MCCards
    MaxAttempts = 2
    MaxCalls = 2
    Threshold = 2
    OpenFor = 2
    Timeout = 1
    None = None
CHECK_DEADLOCK FALSE
PROPERTIES
    ContractSpec
    EveryCallReturns

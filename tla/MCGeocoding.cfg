SPECIFICATION Spec
CONSTANTS
    Requests <- MCRequests
    AddressOf <- MCAddresses
    Norm <- MCNorm
    StateCodes <- MCCodes
    StateNames <- MCStateNames
    Cities <- MCCities
    AcceptedCountries <- MCCountries
    MaxEntries = 2
    None = None
CHECK_DEADLOCK FALSE
INVARIANTS
    CacheSound
    AnswersTheAddress

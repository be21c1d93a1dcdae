CONSTANTS
    A = A
    B = B
    Paths = {A, B}
    MaxRequests = 3
    MaxSignals = 1
SPECIFICATION FairSpec
INVARIANTS
    OneOwner
    
    ResultsOfLastRequest
PROPERTIES
    NobodyWaitsForever
CHECK_DEADLOCK FALSE

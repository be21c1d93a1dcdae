CONSTANTS
    A = A
    Paths = {A}
    MaxRequests = 1
    MaxSignals = 1
SPECIFICATION FairSpec
PROPERTY LoadingEnds
CHECK_DEADLOCK FALSE

SPECIFICATION Spec
CONSTANTS
    Frames = {"f"}
    Settings = {s1, s2}
    s1 = s1
    s2 = s2
    MaxData = 3
    MaxRequests = 2
    MaxHistory = 3
INVARIANTS
    NavigationInScene
    ShowsLastRequest
PROPERTIES
    GraphComes
CHECK_DEADLOCK FALSE

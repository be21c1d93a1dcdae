SPECIFICATION Spec
CONSTANTS
    Commands <- AllCommands
    MaxAttempts = 2
    MaxRecords = 3
    MaxSignals = 2
    MaxFaults = 1
INVARIANTS
    
    NothingLeftBehind
PROPERTIES
    
    LauncherEnds
CHECK_DEADLOCK FALSE

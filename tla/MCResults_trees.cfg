CONSTANTS
    Inputs <- MCInputs
    StopSymbols = {1}
    Thresholds = {0, 70}
    PrintLimits <- MCPrintLimits
SPECIFICATION Spec
INVARIANTS
    DiffAgrees
    TreeViewsAgree
    CallerCalleeAgrees
    TextAgrees
CHECK_DEADLOCK FALSE

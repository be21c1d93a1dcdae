CONSTANTS
    Capacity = 2
    Sizes = {2, 3}
    Traces = {0, 1}
    MaxLines = 6
    MaxStamp = 2
    Matches <- MCMatches
    Openings <- MCOpenings
    Reparsings <- MCReparsings
    Limits <- MCLimits
    Columns = 10
    Labels = 1
    DataPoints = 2
    Programs = {"gui", "print"}
    OptionSets <- MCOptionSets
    DetailedFreq = 2
SPECIFICATION ReadersSpec
INVARIANTS
    OneAllocationPerTrace
    PeakOfBestSnippet
    CostsOfFile
    SuppressionsAddUp
    HistogramsAgree
    TimelinesAgree
PROPERTY ImplementsSnapshot
CHECK_DEADLOCK FALSE

CONSTANTS
    Capacity = 2
    Sizes = {2, 3}
    Traces = {0, 1}
    MaxLines = 6
    MaxStamp = 2
    Matches <- MCMatches
    Openings <- Unfiltered
    Reparsings <- Unfiltered
    Limits <- MCLimits
    Columns = 10
    Labels = 1
    DataPoints = 2
    Programs = {"gui"}
    OptionSets = {{}}
    DetailedFreq = 2
SPECIFICATION ReadersSpec
INVARIANT CountersOfInfos

CONSTANTS
    Stacks <- MCStacks
    Unwinders <- MCUnwinders
    MaxSize = 5
    Sizes = {1}
    Ptrs = {3, 4, 6}
    PageSize = 3
    Layouts <- MCLayouts
    BufferLines = 2
    MaxFailures = 1
    MaxEvents = 3
    Binaries <- MCBinaries
    OpNew <- MCOpNew
SPECIFICATION Spec
CHECK_DEADLOCK FALSE
INVARIANTS
    TracesRebuilt
    EventsFollowed
    FileForTraceData

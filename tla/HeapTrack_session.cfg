CONSTANTS
    t1 = t1
    t2 = t2
    Threads = {t1, t2}
    Controllers = {t1}
    MaxData = 2
    AllowFork = TRUE
SPECIFICATION FairSpec
INVARIANTS
    NoSelfDeadlock
    NoUseAfterFree
    RecordsFollowHeader
    OneProcessPerFile
    SessionsTornDown
    ModuleListCurrent
PROPERTIES
    LockReleased
    StopReleasesWaiters
CHECK_DEADLOCK FALSE

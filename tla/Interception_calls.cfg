SPECIFICATION Spec
CONSTANTS
    t1 = t1
    t2 = t2
    Threads = {t1, t2}
    Controllers = {t1}
    Plugins = {"a", "b"}
    MaxInits = 3
    Late = {"mi_malloc"}
    Called = {"malloc", "calloc", "mi_malloc"}
    PoolSize = 2
    Headers = {"h1", "h2"}
    Contents = {"c", "d", "malformed"}
    Malformed = "malformed"
    Capacity = 1
INVARIANTS
    
    ModulesListed
    CallsResolved
PROPERTY StopRestores
CHECK_DEADLOCK FALSE

CONSTANTS
    t1 = t1
    t2 = t2
    t3 = t3
    a1 = a1
    a2 = a2
    a3 = a3
    Nil = Nil
    Threads = {t1, t2, t3}
    Addrs = {a1, a2, a3}
    Setups <- AllSetups
SPECIFICATION Spec
SYMMETRY Symmetry
INVARIANTS
    StreamIsFaithful
    OnlyLeaksReported
    LeaksReported

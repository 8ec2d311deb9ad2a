SPECIFICATION Spec
CONSTANTS
    p1 = p1
    p2 = p2
    o1 = o1
    o2 = o2
    o3 = o3
    None = None
    Procs <- MCProcs
    Ops <- MCOps
    MaxLosses = 1
    MaxExpiry = 1
SYMMETRY Interchangeable
INVARIANTS
    
    OnlyDeleteDeadlocks
PROPERTIES
    SendsOnCurrent
    EnsureSparesCurrent
CHECK_DEADLOCK FALSE

SPECIFICATION Spec
CONSTANTS
    None = None
    v1 = v1
    v2 = v2
    d1 = d1
    x1 = x1
    x2 = x2
    t1 = t1
    t2 = t2
    Vehicles = {v1, v2}
    Drivers = {d1}
    Windows <- OneWindow
    Dispatches = {x1, x2}
    Txs = {t1, t2}
    Pairs <- SharedDriver
    Keys <- Lockable
    LockKey <- DistinctKeys
    Kinds <- AllFootprints
CHECK_DEADLOCK FALSE
SYMMETRY GuardSymmetry
INVARIANT TypeOK
INVARIANT NobodyHeldTwice
INVARIANT OnlyGroundingDeadlocks
PROPERTY GuardIsAtomic

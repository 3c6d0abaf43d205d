SPECIFICATION PartsSpec
CONSTANTS
    v1 = v1
    d1 = d1
    t1 = t1
    t2 = t2
    None = None
    Emitters = {a, b}
    Retriers = {c}
    MaxEvents = 3
    MaxStops = 1
    Limit = 2
    Poison = {1}
CHECK_DEADLOCK FALSE
INVARIANT ProcessedWasHeard
INVARIANT SearchIsTransitionPath
INVARIANT EveryHopIsLegal
INVARIANT SearchAgreesWithGate
PROPERTY HealthyEventsHeard
PROPERTY Terminates
PROPERTY EveryTransactionEnds

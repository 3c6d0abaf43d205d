SPECIFICATION FairSpec
CONSTANTS
    v1 = v1
    v2 = v2
    d1 = d1
    d2 = d2
    w1 = w1
    w2 = w2
    r1 = r1
    r2 = r2
    None = None
    Requests = {r1, r2}
    Vehicles = {v1}
    Drivers = {d1}
    Workers = {w1}
    Pairs <- OnePair
    Windows <- OverlappingWindows
    MaxDispatches = 2
    MaxTrips = 2
    Handlers <- AllButCreateLeaveAndEdits
    DriverSteps = {"Driver Accepted", "At Pickup"}
    OdometerPhoto = FALSE
    Crashes = FALSE
CHECK_DEADLOCK FALSE
INVARIANT CompletedTogether
INVARIANT RunningTogether
INVARIANT PairHeldOnlyForOpenRequest
PROPERTY CompletedTripLocked
PROPERTY DispatchTerminalLocked
PROPERTY ReservationSpec
PROPERTY CompletionReachesRequest

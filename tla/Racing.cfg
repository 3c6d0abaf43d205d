SPECIFICATION Spec
CONSTANTS
    v1 = v1
    v2 = v2
    d1 = d1
    d2 = d2
    w1 = w1
    w2 = w2
    r1 = r1
    r2 = r2
    None = None
    Requests = {r1}
    Vehicles = {v1, v2}
    Drivers = {d1, d2}
    Workers = {w1, w2}
    Pairs <- TwoPairs
    Windows <- OneWindow
    MaxDispatches = 2
    MaxTrips = 1
    Handlers <- AllButCreateLeaveGroundAndEdits
    DriverSteps = {"At Pickup"}
    OdometerPhoto = FALSE
    Crashes = TRUE
CHECK_DEADLOCK FALSE
SYMMETRY WorkerPairSymmetry
INVARIANT TypeOK
INVARIANT CompletedRequestHadTrip
INVARIANT OneDispatchPerRequest
PROPERTY CancelledTripStaysCancelled
PROPERTY NoPairForClosedRequest

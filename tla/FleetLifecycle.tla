--------------------------- MODULE FleetLifecycle ---------------------------
(***************************************************************************)
(* The life of a transportation request: it is assigned a vehicle and a    *)
(* driver, a dispatch and a trip are raised for it, the driver walks the   *)
(* trip, and completion, cancellation, stand-down, leave and incidents end *)
(* or interrupt it.                                                        *)
(*                                                                         *)
(* Every API handler runs in a worker (a serverless invocation).  A worker *)
(* executes its handler one database statement or transaction at a time    *)
(* and may stop between two of them.  Transactions that take the fleet     *)
(* write locks (commitDispatchEvidence, prepareCargoLifecycle) or lock the *)
(* rows they write are one atomic step; a statement sent on the pool is a  *)
(* step of its own.                                                        *)
(***************************************************************************)
EXTENDS FleetStatus, FiniteSets

CONSTANTS
    Requests, Vehicles, Drivers, Workers,
    Pairs,          \* vehicle and driver pairs the custody rules admit
    Windows,        \* <<departure, arrival>> service windows
    MaxDispatches,  \* bound: dispatch ids are 1..MaxDispatches
    MaxTrips,       \* bound: trip ids are 1..MaxTrips
    Handlers,       \* the handlers this instance of the system serves
    DriverSteps,    \* the statuses drivers move trips to through setTripStatus
    OdometerPhoto,  \* ODOMETER_PHOTO_REQUIRED
    Crashes,        \* whether an invocation may stop between two steps
    None

Dispatches == 1..MaxDispatches
Trips == 1..MaxTrips

ASSUME BoundsAssumption == MaxDispatches \in Nat /\ MaxTrips \in Nat
ASSUME DataAssumption ==
    /\ Pairs \subseteq Vehicles \X Drivers
    /\ Windows \subseteq Nat \X Nat
    /\ None \notin Requests \union Vehicles \union Drivers
    /\ DriverSteps \subseteq TripStatus \ {"Completed", "Cancelled", "Trip Started"}
    /\ OdometerPhoto \in BOOLEAN /\ Crashes \in BOOLEAN

VARIABLES
    request,    \* transportation_requests: fleet_status, committed pair, service window
    dispatch,   \* dispatchschedules
    trip,       \* trips
    job         \* what each worker is in the middle of

vars == <<request, dispatch, trip, job>>

------------------------------------------------------------------------------
(* Rows *)

MaybePair == (Vehicles \union {None}) \X (Drivers \union {None})
NoPair == <<None, None>>
MaybeWindow == Windows \union {<<0, 0>>}
NoWindow == <<0, 0>>

RequestRow == [status: ReservationStatus, pair: MaybePair, window: MaybeWindow]
DispatchRow == [status: DispatchStatus \union {"Absent"}, request: Requests \union {None},
                pair: MaybePair, window: MaybeWindow]
TripRow == [status: TripStatus \union {"Absent"}, dispatch: 0..MaxDispatches, pair: MaybePair]

NoDispatch == [status |-> "Absent", request |-> None, pair |-> NoPair, window |-> NoWindow]
NoTrip == [status |-> "Absent", dispatch |-> 0, pair |-> NoPair]

Raised(d) == dispatch[d].status # "Absent"
Live(d) == dispatch[d].status \in LiveDispatch
DispatchesOf(r) == { d \in Dispatches : Raised(d) /\ dispatch[d].request = r }
TripsOf(d) == { t \in Trips : trip[t].status # "Absent" /\ trip[t].dispatch = d }
OpenTrip(t) == trip[t].status \notin TerminalTrip \union {"Absent"}

FreshDispatches == { d \in Dispatches : ~Raised(d) /\ \A e \in 1..(d-1) : Raised(e) }
FreshTrips == { t \in Trips : trip[t].status = "Absent"
                              /\ \A u \in 1..(t-1) : trip[u].status # "Absent" }

\* The dispatch createDispatchForRequest finds: the newest, whatever its status.
Latest(r) == CHOOSE d \in DispatchesOf(r) : \A e \in DispatchesOf(r) : e <= d

Shares(p, q) ==
    \/ p[1] # None /\ p[1] = q[1]
    \/ p[2] # None /\ p[2] = q[2]

Overlaps(w1, w2) == w1[1] < w2[2] /\ w2[1] < w1[2]

------------------------------------------------------------------------------
(* Writes: those to dispatchschedules pass the trigger guard_dispatch_overlap. *)

\* Fault: the trigger fires on INSERT only.
OverlapGuardOnInsert(d, row) ==
    (row.status \in LiveDispatch /\ ~Raised(d)) =>
      \A e \in Dispatches \ {d} :
         (Live(e) /\ Overlaps(dispatch[e].window, row.window))
           => ~Shares(dispatch[e].pair, row.pair)

OverlapGuard(d, row) ==
    row.status \in LiveDispatch =>
      \A e \in Dispatches \ {d} :
         (Live(e) /\ Overlaps(dispatch[e].window, row.window))
           => ~Shares(dispatch[e].pair, row.pair)

WriteDispatch(d, row) ==
    OverlapGuard(d, row) /\ dispatch' = [dispatch EXCEPT ![d] = row]

\* UPDATE trips SET trip_status ... WHERE trip_id: no row, no write.
SetTrip(t, status) ==
    trip' = IF trip[t].status = "Absent" THEN trip ELSE [trip EXCEPT ![t].status = status]

\* findDispatchConflicts: live dispatches of the pair in the window, except d.
Conflicts(d, p, w) ==
    { e \in Dispatches \ {d} :
        Live(e) /\ Shares(dispatch[e].pair, p) /\ Overlaps(dispatch[e].window, w) }

------------------------------------------------------------------------------
(* Dispatch evidence: readDispatchRevision as a value. *)

RequestView == [status: ReservationStatus \union {"Actionable"}, pair: MaybePair, window: MaybeWindow]

View(r) ==
    [request[r] EXCEPT !.status = IF @ \in {"Pending", "Scheduled"} THEN "Actionable" ELSE @]

Revision(r, p) ==
    LET ds == { d \in Dispatches : Raised(d) /\ Shares(dispatch[d].pair, p) }
        ts == { t \in Trips : trip[t].status # "Absent" /\ Shares(trip[t].pair, p) }
        rs == { q \in Requests : q = r \/ \E d \in ds : dispatch[d].request = q }
    IN [ dispatches |-> { <<d, dispatch[d]>> : d \in ds },
         trips      |-> { <<t, trip[t]>> : t \in ts },
         requests   |-> { <<q, View(q)>> : q \in rs } ]

Revisions == [ dispatches: SUBSET (Dispatches \X DispatchRow),
               trips: SUBSET (Trips \X TripRow),
               requests: SUBSET (Requests \X RequestView) ]

NoEvidence == [dispatches |-> {}, trips |-> {}, requests |-> {}]

Actionable == {"Pending", "Scheduled", "Assigned"}

------------------------------------------------------------------------------
(* Workers *)

HandlerNames ==
    { "assign", "create", "reassign", "standDown", "cancelRequest", "tripStep", "mobileAccept",
      "decline", "start", "complete", "cancelTrip", "editTrip", "ground", "leave", "reschedule" }

Steps == { "idle", "screen", "gate", "evidence", "commit", "ensure", "insert", "load", "hop",
           "flipRead", "flip", "standDown", "tripTx", "busy", "startTx", "cancelTx", "decline",
           "ground", "reschedule" }

Idle == [ op |-> "none", pc |-> "idle", request |-> None, dispatch |-> 0, trip |-> 0,
          pair |-> NoPair, window |-> NoWindow, to |-> "none", goal |-> "none",
          seen |-> NoPair, path |-> <<>>, evidence |-> NoEvidence, todo |-> {} ]

Job == [ op: HandlerNames \union {"none"}, pc: Steps, request: Requests \union {None},
         dispatch: 0..MaxDispatches, trip: 0..MaxTrips, pair: MaybePair, window: MaybeWindow,
         to: TripStatus \union DispatchStatus \union {"none"},
         goal: ReservationStatus \union {"none"}, seen: MaybePair, path: Seq(ReservationStatus),
         evidence: Revisions, todo: SUBSET (Dispatches \X LiveDispatch) ]

At(w, step) == job[w].pc = step
Begin(w, handler, j) ==
    handler \in Handlers /\ job[w] = Idle /\ job' = [job EXCEPT ![w] = [j EXCEPT !.op = handler]]
Goto(w, step) == job' = [job EXCEPT ![w].pc = step]
Finish(w) == job' = [job EXCEPT ![w] = Idle]
\* The token is spent.
Committed(w, d, step) ==
    job' = [job EXCEPT ![w].evidence = NoEvidence, ![w].path = <<>>,
                       ![w].dispatch = d, ![w].pc = step]

\* What the fields hold depends on the handler and on how far it is.
WellFormed(j) ==
    /\ (j.op = "reassign" \/ j.pc \in {"ensure", "insert", "flipRead", "flip"})
          => j.dispatch \in Dispatches
    /\ j.pc \in {"flipRead", "flip"} => j.to \in DispatchStatus
    /\ j.pc = "tripTx" => j.to \in TripStatus

TypeOK ==
    /\ request \in [Requests -> RequestRow]
    /\ dispatch \in [Dispatches -> DispatchRow]
    /\ trip \in [Trips -> TripRow]
    /\ \A t \in Trips : trip[t].status # "Absent" => trip[t].dispatch \in Dispatches
    /\ job \in [Workers -> Job]
    /\ \A w \in Workers : WellFormed(job[w])

Init ==
    /\ request \in [Requests -> [status: {"Pending"}, pair: {NoPair}, window: Windows]]
    /\ dispatch = [d \in Dispatches |-> NoDispatch]
    /\ trip = [t \in Trips |-> NoTrip]
    /\ job = [w \in Workers |-> Idle]

------------------------------------------------------------------------------
(* Dispatchers: assign, create a dispatch, reassign it *)

\* PUT transport-requests/[id]/assign reads the request, then screens the pair.
Assign(w, r, p) ==
    /\ request[r].status \in Actionable
    /\ Begin(w, "assign", [Idle EXCEPT !.pc = "screen", !.request = r, !.pair = p,
                              !.window = request[r].window, !.goal = "Assigned"])
    /\ UNCHANGED <<request, dispatch, trip>>

\* POST /api/dispatch for a request, in a window of the dispatcher's choice.
Create(w, r, p, window) ==
    /\ request[r].status \in Actionable
    /\ Begin(w, "create", [Idle EXCEPT !.pc = "gate", !.request = r, !.pair = p,
                              !.window = window, !.goal = "Assigned"])
    /\ UNCHANGED <<request, dispatch, trip>>

\* PUT /api/dispatch/[id]: whatever the dispatch's status, its pair and window
\* are edited; one that waits for reassignment is to be put back on schedule.
Reassign(w, d, p, window) ==
    /\ Raised(d)
    /\ Begin(w, "reassign",
             [Idle EXCEPT !.pc = "gate", !.request = dispatch[d].request, !.dispatch = d,
                !.pair = p, !.window = window,
                !.to = IF dispatch[d].status = "Pending Reassignment" THEN "Scheduled" ELSE "none"])
    /\ UNCHANGED <<request, dispatch, trip>>

\* detectRequestConflicts: nobody may hold the pair at the departure.  A request
\* has no arrival of its own, so this first screen sees no further, and a probe
\* of it that fails finds nothing.
Screen(w) ==
    LET j == job[w]
        departure == <<j.window[1], j.window[1]>>
    IN
    /\ At(w, "screen")
    /\ Goto(w, "gate") \/ (Conflicts(j.dispatch, j.pair, departure) # {} /\ Finish(w))
    /\ UNCHANGED <<request, dispatch, trip>>

\* validatePairAvailability reads whether the request is still actionable ...
Gate(w) ==
    /\ At(w, "gate")
    /\ IF request[job[w].request].status \in Actionable THEN Goto(w, "evidence") ELSE Finish(w)
    /\ UNCHANGED <<request, dispatch, trip>>

\* ... then takes the revision of all that its verdict rests on as a token, and
\* screens the pair for the whole window (evaluateDispatchCandidate).  The screen
\* runs after the token, but what changes in between makes the token stale.
Evidence(w) ==
    LET j == job[w]
        taken == Conflicts(j.dispatch, j.pair, j.window) # {}
    IN
    /\ At(w, "evidence")
    /\ \/ taken /\ Finish(w)
       \/ /\ ~taken
          /\ job' = [job EXCEPT ![w].evidence = Revision(j.request, j.pair),
                                ![w].pc = CASE j.op = "assign" -> "load"
                                            [] j.op = "start"  -> "startTx"
                                            [] OTHER           -> "commit"]
    /\ UNCHANGED <<request, dispatch, trip>>

\* commitDispatchEvidence refuses a token that is stale or expired, and a write
\* the trigger raises on rolls back: the handler ends without a trace.
Refused(w) ==
    /\ job[w].pc \in {"commit", "startTx"}
    /\ Finish(w)
    /\ UNCHANGED <<request, dispatch, trip>>

\* Fault: the revision leaves the requests out.
FreshEvidenceOfPair(w) ==
    LET now == Revision(job[w].request, job[w].pair)
        seen == job[w].evidence
    IN now.dispatches = seen.dispatches /\ now.trips = seen.trips

FreshEvidence(w) == Revision(job[w].request, job[w].pair) = job[w].evidence

\* Fault: the row is born with the request's status.
NewDispatchAssigned(j) ==
    [status |-> "Assigned", request |-> j.request, pair |-> j.pair, window |-> j.window]

NewDispatch(j) ==
    [status |-> "Scheduled", request |-> j.request, pair |-> j.pair, window |-> j.window]

\* Fault: the dispatch that is reused is put back on schedule.
DispatchForRevived(j, d) ==
    IF DispatchesOf(j.request) = {}
    THEN d \in FreshDispatches /\ WriteDispatch(d, NewDispatch(j))
    ELSE d = Latest(j.request) /\ WriteDispatch(d, NewDispatch(j))

\* Fault: only a live dispatch is looked for.
DispatchForLive(j, d) ==
    IF \A e \in DispatchesOf(j.request) : ~Live(e)
    THEN d \in FreshDispatches /\ WriteDispatch(d, NewDispatch(j))
    ELSE /\ d = Latest(j.request)
         /\ WriteDispatch(d, [dispatch[d] EXCEPT !.pair = j.pair, !.window = j.window])

\* createDispatchForRequest: the newest dispatch of the request takes the pair
\* and the window and keeps its status; only without one is a row inserted.
DispatchFor(j, d) ==
    IF DispatchesOf(j.request) = {}
    THEN d \in FreshDispatches /\ WriteDispatch(d, NewDispatch(j))
    ELSE /\ d = Latest(j.request)
         /\ WriteDispatch(d, [dispatch[d] EXCEPT !.pair = j.pair, !.window = j.window])

\* The last hop of an assignment: request and dispatch commit together.
CommitAssign(w) ==
    LET j == job[w] IN
    /\ At(w, "commit") /\ j.op = "assign" /\ FreshEvidence(w)
    /\ request' = [request EXCEPT ![j.request].pair = j.pair,
                                  ![j.request].status = IF j.path = <<>> THEN @ ELSE j.path[1]]
    /\ \E d \in Dispatches :
          DispatchFor(j, d) /\ Committed(w, d, "ensure")
    /\ UNCHANGED trip

CommitCreate(w) ==
    LET j == job[w] IN
    /\ At(w, "commit") /\ j.op = "create" /\ FreshEvidence(w)
    /\ \E d \in FreshDispatches :
          /\ WriteDispatch(d, NewDispatch(j))
          /\ Committed(w, d, "ensure")
    /\ UNCHANGED <<request, trip>>

CommitReassign(w) ==
    LET j == job[w]
        row == [dispatch[j.dispatch] EXCEPT !.pair = j.pair, !.window = j.window]
        flips == j.to = "Scheduled" /\ row.status = "Pending Reassignment"
    IN
    /\ At(w, "commit") /\ j.op = "reassign" /\ FreshEvidence(w)
    /\ WriteDispatch(j.dispatch, row)
    /\ \/ flips /\ Committed(w, j.dispatch, "flipRead")
       \/ ~flips /\ row.status \in LiveDispatch /\ Committed(w, j.dispatch, "ensure")
       \/ ~flips /\ row.status \notin LiveDispatch /\ Finish(w)
    /\ UNCHANGED <<request, trip>>

------------------------------------------------------------------------------
(* ensureTripForDispatch: look, then insert *)

AfterEnsure(w) == IF job[w].op = "create" THEN Goto(w, "load") ELSE Finish(w)

EnsureTrip(w) ==
    LET d == job[w].dispatch
        pair == dispatch[d].pair
    IN
    /\ At(w, "ensure")
    /\ \/ /\ None \notin {pair[1], pair[2]} /\ TripsOf(d) = {}
          /\ job' = [job EXCEPT ![w].seen = pair, ![w].pc = "insert"]
       \/ (None \in {pair[1], pair[2]} \/ TripsOf(d) # {}) /\ AfterEnsure(w)
    /\ UNCHANGED <<request, dispatch, trip>>

InsertTrip(w) ==
    /\ At(w, "insert")
    /\ \E t \in FreshTrips :
         trip' = [trip EXCEPT ![t] = [status |-> "Assigned", dispatch |-> job[w].dispatch,
                                      pair |-> job[w].seen]]
    /\ AfterEnsure(w)
    /\ UNCHANGED <<request, dispatch>>

------------------------------------------------------------------------------
(* advanceReservation on the pool: read the request, then one statement a hop *)

Load(w) ==
    LET j == job[w]
        path == TransitionPath(request[j.request].status, j.goal)
        hops == IF path = NoPath THEN <<>> ELSE Tail(path)
    IN
    /\ At(w, "load")
    /\ \/ path = NoPath /\ Finish(w)                            \* 409
       \/ /\ Len(path) = 1 /\ j.op \notin {"assign", "create"}   \* nothing to patch
          /\ Finish(w)
       \/ /\ path # NoPath /\ (Len(path) > 1 \/ j.op \in {"assign", "create"})
          /\ job' = [job EXCEPT ![w].path = hops,
                                ![w].pc = IF j.op = "assign" /\ Len(hops) <= 1
                                          THEN "commit" ELSE "hop"]
    /\ UNCHANGED <<request, dispatch, trip>>

\* The UPDATE names the row by id only; the last one carries the pair when the
\* request is advanced because a dispatch was created for it.
Hop(w) ==
    LET j == job[w]
        final == Len(j.path) <= 1
    IN
    /\ At(w, "hop")
    /\ request' = [request EXCEPT
                     ![j.request].status = IF j.path = <<>> THEN @ ELSE j.path[1],
                     ![j.request].pair = IF final /\ j.op = "create" THEN j.pair ELSE @]
    /\ IF final THEN Finish(w)
       ELSE job' = [job EXCEPT ![w].path = Tail(j.path),
                               ![w].pc = IF j.op = "assign" /\ Len(j.path) = 2
                                         THEN "commit" ELSE "hop"]
    /\ UNCHANGED <<dispatch, trip>>

------------------------------------------------------------------------------
(* Stand-down, cancellation, leave and reschedule *)

CancelOpenTrips(ds) ==
    trip' = [t \in Trips |-> IF OpenTrip(t) /\ trip[t].dispatch \in ds
                             THEN [trip[t] EXCEPT !.status = "Cancelled"] ELSE trip[t]]

\* PUT /api/dispatch/[id]/cancel -> setDispatchStatus: read and gate.
StandDown(w, d) ==
    /\ Raised(d) /\ CanTransitionDispatch(dispatch[d].status, "Cancelled")
    /\ Begin(w, "standDown", [Idle EXCEPT !.pc = "standDown", !.dispatch = d])
    /\ UNCHANGED <<request, dispatch, trip>>

\* cancelDispatch: the gate again, the dispatch, its open trips and the release
\* of the request, which is one legal move from every non-terminal status.
StandDownTx(w) ==
    LET d == job[w].dispatch
        r == dispatch[d].request
    IN
    /\ At(w, "standDown") /\ Finish(w)
    /\ \/ /\ CanTransitionDispatch(dispatch[d].status, "Cancelled")
          /\ WriteDispatch(d, [dispatch[d] EXCEPT !.status = "Cancelled"])
          /\ CancelOpenTrips({d})
          /\ request' = IF request[r].status \in TerminalReservation THEN request
                        ELSE [request EXCEPT ![r].status = "Scheduled", ![r].pair = NoPair]
       \/ /\ ~CanTransitionDispatch(dispatch[d].status, "Cancelled")
          /\ UNCHANGED <<request, dispatch, trip>>

\* PUT transport-requests/[id]/cancel: one transaction over the whole chain,
\* rolled back when the request can no longer be cancelled.
CancelRequest(w, r) ==
    LET open == { d \in DispatchesOf(r) : dispatch[d].status \notin TerminalDispatch } IN
    /\ "cancelRequest" \in Handlers /\ job[w] = Idle
    /\ CanTransitionReservation(request[r].status, "Cancelled")
    /\ dispatch' = [d \in Dispatches |-> IF d \in open THEN [dispatch[d] EXCEPT !.status = "Cancelled"]
                                         ELSE dispatch[d]]
    /\ CancelOpenTrips(open)
    /\ request' = [request EXCEPT ![r].status = "Cancelled", ![r].pair = NoPair]
    /\ UNCHANGED job

\* Approved leave takes the driver off the live dispatches whose dates it covers.
ApproveLeave(w, driver, covered) ==
    /\ "leave" \in Handlers /\ job[w] = Idle
    /\ covered # {} /\ \A d \in covered : Live(d) /\ dispatch[d].pair[2] = driver
    /\ dispatch' = [d \in Dispatches |->
                      IF d \in covered
                      THEN [dispatch[d] EXCEPT !.status = "Pending Reassignment",
                                               !.pair = <<dispatch[d].pair[1], None>>]
                      ELSE dispatch[d]]
    /\ UNCHANGED <<request, trip, job>>

\* PUT transport-requests/[id]/reschedule: the gate reads, the UPDATE does not.
Reschedule(w, r, window) ==
    /\ request[r].status \notin TerminalReservation
    /\ Begin(w, "reschedule", [Idle EXCEPT !.pc = "reschedule", !.request = r, !.window = window])
    /\ UNCHANGED <<request, dispatch, trip>>

RescheduleWrite(w) ==
    /\ At(w, "reschedule")
    /\ request' = [request EXCEPT ![job[w].request].window = job[w].window]
    /\ Finish(w) /\ UNCHANGED <<dispatch, trip>>

------------------------------------------------------------------------------
(* setDispatchStatus to Scheduled or Pending Reassignment: read, then write *)

FlipRead(w) ==
    /\ At(w, "flipRead")
    /\ IF CanTransitionDispatch(dispatch[job[w].dispatch].status, job[w].to)
       THEN Goto(w, "flip") ELSE Finish(w)
    /\ UNCHANGED <<request, dispatch, trip>>

Flip(w) ==
    LET j == job[w]
        row == [dispatch[j.dispatch] EXCEPT !.status = j.to]
    IN
    /\ At(w, "flip")
    /\ \/ /\ WriteDispatch(j.dispatch, row)
          /\ Goto(w, IF j.to = "Scheduled" THEN "ensure" ELSE "ground")
       \/ ~OverlapGuard(j.dispatch, row) /\ Finish(w) /\ UNCHANGED dispatch
    /\ UNCHANGED <<request, trip>>

------------------------------------------------------------------------------
(* Drivers *)

\* Faults: the request is always advanced to In Progress, or to Completed.
TripJobNeverCompletes(t, step, goal) ==
    [Idle EXCEPT !.pc = step, !.trip = t, !.dispatch = trip[t].dispatch,
                 !.request = dispatch[trip[t].dispatch].request, !.goal = "In Progress"]
TripJobCompletesEarly(t, step, goal) ==
    [Idle EXCEPT !.pc = step, !.trip = t, !.dispatch = trip[t].dispatch,
                 !.request = dispatch[trip[t].dispatch].request, !.goal = "Completed"]

TripJob(t, step, goal) ==
    [Idle EXCEPT !.pc = step, !.trip = t, !.dispatch = trip[t].dispatch,
                 !.request = dispatch[trip[t].dispatch].request, !.goal = goal]

\* setTripStatus: the adjacency gate on a plain read ...
TripStep(w, t, to) ==
    /\ trip[t].status # "Absent" /\ CanTransitionTrip(trip[t].status, to)
    /\ Begin(w, "tripStep", [TripJob(t, "tripTx", "In Progress") EXCEPT !.to = to])
    /\ UNCHANGED <<request, dispatch, trip>>

\* Fault: the gate is not repeated under the lock.
TripTxUngated(w) ==
    LET j == job[w] IN
    /\ At(w, "tripTx")
    /\ SetTrip(j.trip, j.to)
    /\ IF j.to \in BusyTrip THEN Goto(w, "busy") ELSE Finish(w)
    /\ UNCHANGED <<request, dispatch>>

\* ... and again under the row lock, where the status is written.
TripTx(w) ==
    LET j == job[w] IN
    /\ At(w, "tripTx")
    /\ \/ /\ CanTransitionTrip(trip[j.trip].status, j.to)
          /\ SetTrip(j.trip, j.to)
          /\ IF j.to \in BusyTrip THEN Goto(w, "busy") ELSE Finish(w)
       \/ /\ ~CanTransitionTrip(trip[j.trip].status, j.to)
          /\ Finish(w) /\ UNCHANGED trip
    /\ UNCHANGED <<request, dispatch>>

\* The busy sync: the dispatch is set In Progress whatever it was, unless the
\* trigger raises, which is swallowed; the request is advanced either way.
Busy(w) ==
    LET d == job[w].dispatch
        row == [dispatch[d] EXCEPT !.status = "In Progress"]
    IN
    /\ At(w, "busy")
    /\ \/ WriteDispatch(d, row)
       \/ ~OverlapGuard(d, row) /\ UNCHANGED dispatch
    /\ Goto(w, "load") /\ UNCHANGED <<request, trip>>

\* The mobile accept: gate and write in one transaction, with a bridge through
\* Assigned from the legacy statuses.
MobileAccept(w, t) ==
    /\ "mobileAccept" \in Handlers /\ job[w] = Idle
    /\ trip[t].status # "Absent"
    /\ \E to \in {"Driver Accepted", "Assigned"} : CanTransitionTrip(trip[t].status, to)
    /\ SetTrip(t, "Driver Accepted")
    /\ UNCHANGED <<request, dispatch, job>>

\* The mobile decline: the gate is on the row read for the ownership check, the
\* UPDATE is not guarded, and neither dispatch nor request hears of it.
Decline(w, t) ==
    /\ trip[t].status # "Absent" /\ CanTransitionTrip(trip[t].status, "Cancelled")
    /\ Begin(w, "decline", TripJob(t, "decline", "none"))
    /\ UNCHANGED <<request, dispatch, trip>>

DeclineWrite(w) ==
    /\ At(w, "decline")
    /\ SetTrip(job[w].trip, "Cancelled")
    /\ Finish(w) /\ UNCHANGED <<request, dispatch>>

\* PUT trips/[id]/start: the trip must still carry its dispatch's pair, and the
\* pair must pass the evidence check again.
Start(w, t) ==
    LET d == trip[t].dispatch IN
    /\ trip[t].status # "Absent" /\ CanTransitionTrip(trip[t].status, "Trip Started")
    /\ trip[t].pair = dispatch[d].pair
    /\ Begin(w, "start", [TripJob(t, "gate", "In Progress") EXCEPT
                            !.pair = trip[t].pair, !.window = dispatch[d].window])
    /\ UNCHANGED <<request, dispatch, trip>>

\* Fault: the start leaves the dispatch alone.
StartTxTripOnly(w) ==
    LET j == job[w] IN
    /\ At(w, "startTx") /\ FreshEvidence(w)
    /\ trip[j.trip].pair = j.pair /\ trip[j.trip].dispatch = j.dispatch
    /\ CanTransitionTrip(trip[j.trip].status, "Trip Started")
    /\ SetTrip(j.trip, "Trip Started")
    /\ Committed(w, j.dispatch, "load") /\ UNCHANGED <<request, dispatch>>

StartTx(w) ==
    LET j == job[w] IN
    /\ At(w, "startTx") /\ FreshEvidence(w)
    /\ trip[j.trip].pair = j.pair /\ trip[j.trip].dispatch = j.dispatch
    /\ trip[j.trip].status # "Trip Started"
    /\ CanTransitionTrip(trip[j.trip].status, "Trip Started")
    /\ SetTrip(j.trip, "Trip Started")
    /\ WriteDispatch(j.dispatch, [dispatch[j.dispatch] EXCEPT !.status = "In Progress"])
    /\ Committed(w, j.dispatch, "load") /\ UNCHANGED request

PreStart == LegacyTrip \union {"Assigned", "Driver Accepted"}

\* Fault: the dispatch is left for a later sync.
CompleteTripOnly(w, t) ==
    /\ OpenTrip(t) /\ (OdometerPhoto => trip[t].status \notin PreStart)
    /\ SetTrip(t, "Completed")
    /\ Begin(w, "complete", TripJob(t, "load", "Completed"))
    /\ UNCHANGED <<request, dispatch>>

\* completeTrip: trip and dispatch in one transaction from any open status (a
\* missing start photo refuses a trip that never started); then the request.
Complete(w, t) ==
    LET d == trip[t].dispatch IN
    /\ OpenTrip(t) /\ (OdometerPhoto => trip[t].status \notin PreStart)
    /\ SetTrip(t, "Completed")
    /\ WriteDispatch(d, [dispatch[d] EXCEPT !.status = "Completed"])
    /\ Begin(w, "complete", TripJob(t, "load", "Completed"))
    /\ UNCHANGED request

\* Fault: the terminal check is missing.
CancelTripUngated(w, t) ==
    /\ trip[t].status # "Absent"
    /\ Begin(w, "cancelTrip", TripJob(t, "cancelTx", "Cancelled"))
    /\ UNCHANGED <<request, dispatch, trip>>

\* cancelTrip: the terminal check is on a plain read, the UPDATEs are not guarded.
CancelTrip(w, t) ==
    /\ OpenTrip(t)
    /\ Begin(w, "cancelTrip", TripJob(t, "cancelTx", "Cancelled"))
    /\ UNCHANGED <<request, dispatch, trip>>

\* Fault: the dispatch is not cancelled with its trip.
CancelTripTxTripOnly(w) ==
    /\ At(w, "cancelTx")
    /\ SetTrip(job[w].trip, "Cancelled")
    /\ Goto(w, "load") /\ UNCHANGED <<request, dispatch>>

CancelTripTx(w) ==
    LET j == job[w] IN
    /\ At(w, "cancelTx")
    /\ SetTrip(j.trip, "Cancelled")
    /\ WriteDispatch(j.dispatch, [dispatch[j.dispatch] EXCEPT !.status = "Cancelled"])
    /\ Goto(w, "load") /\ UNCHANGED request

------------------------------------------------------------------------------
(* Administrators: PUT /api/trips/[id], the edit of a trip's row *)

\* Fault: a trip that ended before its photo requirement was latched is not locked.
EditAllowedUnlatched(from, to) ==
    OdometerPhoto =>
       \/ to = from \/ from \in TerminalTrip \/ to = "Cancelled"
       \/ from \in PreStart /\ to \in PreStart
       \/ from \notin PreStart /\ to \notin PreStart \union {"Completed"} /\ CanTransitionTrip(from, to)

\* assertGenericOdometerWriteAllowed: with odometer photos an edit may cancel an
\* open trip, prepare one that has not started, or move a running one a legal
\* step short of its completion; without them it may write any status.
EditAllowed(from, to) ==
    OdometerPhoto =>
       \/ to = from
       \/ to = "Cancelled" /\ from \notin TerminalTrip
       \/ from \in PreStart /\ to \in PreStart
       \/ from \notin PreStart /\ to \notin PreStart \union {"Completed"} /\ CanTransitionTrip(from, to)

\* Gate and write under the row lock; the dispatch and the request stay as they
\* are.  A running trip keeps its pair.
EditTrip(w, t, to, p, d) ==
    /\ "editTrip" \in Handlers /\ job[w] = Idle
    /\ trip[t].status # "Absent" /\ EditAllowed(trip[t].status, to) /\ Raised(d)
    /\ (OdometerPhoto /\ p # trip[t].pair) => trip[t].status \in PreStart \union {"Cancelled"}
    /\ trip' = [trip EXCEPT ![t] = [status |-> to, dispatch |-> d, pair |-> p]]
    /\ UNCHANGED <<request, dispatch, job>>

------------------------------------------------------------------------------
(* Incidents: groundIncident *)

\* The live dispatches of the vehicle, the scheduled ones only if they leave soon.
Ground(w, v, soon) ==
    LET hit == { d \in Dispatches : Live(d) /\ dispatch[d].pair[1] = v
                                    /\ (dispatch[d].status = "Scheduled" => d \in soon) } IN
    /\ hit # {}
    /\ Begin(w, "ground", [Idle EXCEPT !.pc = "ground",
                             !.todo = { <<d, dispatch[d].status>> : d \in hit }])
    /\ UNCHANGED <<request, dispatch, trip>>

\* A dispatch seen In Progress is aborted in one transaction that writes
\* fleet_status itself; a scheduled one goes through setDispatchStatus.
GroundNext(w) ==
    LET j == job[w] IN
    /\ At(w, "ground")
    /\ \/ j.todo = {} /\ Finish(w) /\ UNCHANGED <<request, dispatch, trip>>
       \/ \E hit \in j.todo :
            LET d == hit[1]
                r == dispatch[d].request
            IN
            \/ /\ hit[2] = "In Progress"
               /\ CancelOpenTrips({d})
               /\ WriteDispatch(d, [dispatch[d] EXCEPT !.status = "Pending Reassignment",
                                                       !.pair = NoPair])
               /\ request' = [request EXCEPT ![r].status = "Scheduled", ![r].pair = NoPair]
               /\ job' = [job EXCEPT ![w].todo = @ \ {hit}]
            \/ /\ hit[2] = "Scheduled"
               /\ job' = [job EXCEPT ![w].todo = @ \ {hit}, ![w].pc = "flipRead",
                                     ![w].dispatch = d, ![w].to = "Pending Reassignment"]
               /\ UNCHANGED <<request, dispatch, trip>>

------------------------------------------------------------------------------
(* The system *)

\* The invocation stops: it is killed, times out, or a query throws.
Crash(w) ==
    /\ Crashes /\ job[w] # Idle
    /\ Finish(w) /\ UNCHANGED <<request, dispatch, trip>>

Call(w) ==
    \/ \E r \in Requests, p \in Pairs : Assign(w, r, p)
    \/ \E r \in Requests, p \in Pairs, window \in Windows : Create(w, r, p, window)
    \/ \E d \in Dispatches, p \in Pairs, window \in Windows : Reassign(w, d, p, window)
    \/ \E d \in Dispatches : StandDown(w, d)
    \/ \E r \in Requests : CancelRequest(w, r)
    \/ \E r \in Requests, window \in Windows : Reschedule(w, r, window)
    \/ \E driver \in Drivers, covered \in SUBSET Dispatches : ApproveLeave(w, driver, covered)
    \/ \E t \in Trips, to \in DriverSteps : TripStep(w, t, to)
    \/ \E t \in Trips : MobileAccept(w, t) \/ Decline(w, t) \/ Start(w, t)
                        \/ Complete(w, t) \/ CancelTrip(w, t)
    \/ \E t \in Trips, to \in TripStatus, p \in Pairs, d \in Dispatches : EditTrip(w, t, to, p, d)
    \/ \E v \in Vehicles, soon \in SUBSET Dispatches : Ground(w, v, soon)

Step(w) ==
    \/ Screen(w) \/ Gate(w) \/ Evidence(w) \/ Refused(w)
    \/ CommitAssign(w) \/ CommitCreate(w) \/ CommitReassign(w)
    \/ EnsureTrip(w) \/ InsertTrip(w) \/ Load(w) \/ Hop(w)
    \/ StandDownTx(w) \/ RescheduleWrite(w) \/ FlipRead(w) \/ Flip(w)
    \/ TripTx(w) \/ Busy(w) \/ DeclineWrite(w) \/ StartTx(w) \/ CancelTripTx(w)
    \/ GroundNext(w)

Next == \E w \in Workers : (job[w] = Idle /\ Call(w)) \/ (job[w] # Idle /\ Step(w)) \/ Crash(w)

Spec == Init /\ [][Next]_vars

\* An invocation the platform does not kill runs to its end.
FairSpec == Spec /\ \A w \in Workers : WF_vars(Step(w))

------------------------------------------------------------------------------
(* Properties: any number of workers, with crashes *)

\* No vehicle and no driver is held by two live dispatches whose windows
\* overlap, whatever the handlers interleave and wherever they stop
\* (guard_dispatch_overlap and every writer of dispatchschedules; ADR-006).
NoDoubleBooking ==
    \A d, e \in Dispatches :
        (d # e /\ Live(d) /\ Live(e) /\ Overlaps(dispatch[d].window, dispatch[e].window))
          => ~Shares(dispatch[d].pair, dispatch[e].pair)

\* A request is reported Completed only if a trip raised for it was brought to
\* an end: no retry, stale hop or half-finished handler completes a request
\* nobody drove (completeTrip, advanceReservation).
CompletedRequestHadTrip ==
    \A r \in Requests :
        request[r].status = "Completed" =>
          \E t \in Trips : /\ trip[t].status \in TerminalTrip
                           /\ trip[t].dispatch \in DispatchesOf(r)

\* Assignments, retried or racing, never raise a second dispatch for a request:
\* the newest one is reused (createDispatchForRequest, "Idempotency").
OneDispatchPerRequest == \A r \in Requests : Cardinality(DispatchesOf(r)) <= 1

\* A cancelled trip is never revived, not by an acceptance, a start, an arrival
\* or a completion that was already under way (setTripStatus, start, completeTrip),
\* nor, with odometer photos on, by an edit (assertGenericOdometerWriteAllowed).
CancelledTripStaysCancelled ==
    [][\A t \in Trips : trip[t].status = "Cancelled" => trip'[t].status = "Cancelled"]_vars

------------------------------------------------------------------------------
(* Properties: two handlers at a time *)

\* An assignment that is overtaken by one other handler while it checks the pair,
\* the request being cancelled or completed meanwhile, commits no pair to it (the
\* token of validatePairAvailability, commitDispatchEvidence).  The token is taken
\* after the gate, so it is defeated where the request is reopened between the two
\* looks at its path and closed again: by the stale hop of a third handler, or by
\* a grounding, which writes fleet_status whatever it is.  POST /api/dispatch
\* writes the pair after its token is spent.
NoPairForClosedRequest ==
    [][\A r \in Requests :
          (request'[r].pair # request[r].pair /\ request'[r].pair # NoPair)
            => request[r].status \notin TerminalReservation]_vars

------------------------------------------------------------------------------
(* Properties: one handler at a time, none interrupted *)

Quiet == \A w \in Workers : job[w] = Idle

\* A trip and its dispatch complete together and stay so (completeTrip: "must
\* commit or roll back together").
CompletedTogether ==
    \A t \in Trips :
        trip[t].status = "Completed" => dispatch[trip[t].dispatch].status = "Completed"

\* A Completed or Cancelled dispatch is locked (dispatch-state.js: "no exit from
\* a terminal state").
DispatchTerminalLocked ==
    [][\A d \in Dispatches : dispatch[d].status \in TerminalDispatch
                               => dispatch'[d].status = dispatch[d].status]_vars

\* A Completed trip is history and stays Completed (cancelDispatch; cancelTrip:
\* "Terminal trips are locked").
CompletedTripLocked ==
    [][\A t \in Trips : trip[t].status = "Completed" => trip'[t].status = "Completed"]_vars

\* Between two handlers a request is shown In Progress exactly when its dispatch
\* is (startTrip, busy sync, completeTrip, cancelDispatch, groundIncident).
RunningTogether ==
    Quiet => \A r \in Requests :
        request[r].status = "In Progress"
          <=> \E d \in DispatchesOf(r) : dispatch[d].status = "In Progress"

\* Between two handlers, no vehicle or driver is held for a request that is over:
\* every way a request can end lets its pair go (completeTrip, cancelTrip, cancel).
PairHeldOnlyForOpenRequest ==
    Quiet => \A d \in Dispatches :
        Live(d) => request[dispatch[d].request].status \notin TerminalReservation

\* A completed trip closes its request.
CompletionReachesRequest ==
    \A r \in Requests :
        (\E t \in Trips : trip[t].status = "Completed" /\ trip[t].dispatch \in DispatchesOf(r))
          ~> (request[r].status \in TerminalReservation)

------------------------------------------------------------------------------
(* What the comments of the code say, and the code does not do *)

\* "Terminal statuses are locked" (reservation-state.js): a Completed or
\* Cancelled request keeps its status.
RequestTerminalLocked ==
    [][\A r \in Requests : request[r].status \in TerminalReservation
                             => request'[r].status = request[r].status]_vars

\* After a stand-down the request "stays re-assignable" (cancelDispatch): between
\* two handlers, an Assigned request has a live dispatch with a trip to drive.
AssignedRequestHasTrip ==
    Quiet => \A r \in Requests :
        request[r].status = "Assigned" =>
          \E d \in DispatchesOf(r) : Live(d) /\ \E t \in TripsOf(d) : OpenTrip(t)
=============================================================================

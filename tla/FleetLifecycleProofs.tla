------------------------ MODULE FleetLifecycleProofs ------------------------
(***************************************************************************)
(* Type correctness of FleetLifecycle: every row of the three tables and   *)
(* every handler in progress stays in its type, for any number of          *)
(* requests, vehicles, drivers and workers.                                *)
(*                                                                         *)
(* TypeOK is inductive because it holds WellFormed: a handler that is      *)
(* about to write a dispatch names one.  It is split in four parts so that *)
(* an action is charged only with the tables it writes.  One lemma a       *)
(* write, one lemma an action, then the theorem.                           *)
(*                                                                         *)
(* Then four promises that hold whatever the handlers interleave: nobody   *)
(* is held twice; no cancelled trip is revived, in the photo regime        *)
(* wherever trips may be edited by hand; a request has one dispatch, where *)
(* POST /api/dispatch is not served; and a Completed request had a trip    *)
(* that ended.  Each proof classifies what a step does to one table (a     *)
(* guarded write, a release, nothing) and shows that each class keeps the  *)
(* promise.  Last, what holds of two handlers at a time: an assignment     *)
(* commits no pair to a request that the other one closed.                 *)
(***************************************************************************)
EXTENDS FleetLifecycle, FiniteSetTheorems, TLAPS

------------------------------------------------------------------------------
(* The chain of hops *)

\* A walk is a sequence of two to five request statuses that ends where asked.
LEMMA WalkType ==
    ASSUME NEW from, NEW to, NEW p \in Walks(from, to)
    PROVE  p \in Seq(ReservationStatus) /\ Len(p) \in 2..MaxWalk /\ p[Len(p)] = to
<1>1. PICK n \in 2..MaxWalk : p \in [1..n -> ReservationStatus]
      BY DEF Walks, AllWalks
<1>2. n \in Nat /\ p \in Seq(ReservationStatus) /\ Len(p) = n
      BY <1>1 DEF MaxWalk
<1>. QED BY <1>1, <1>2 DEF Walks

\* Where there is a walk there is a shortest one: the CHOOSE of TransitionPath is defined.
LEMMA ShortestWalk ==
    ASSUME NEW from, NEW to, Walks(from, to) # {}
    PROVE  \E p \in Walks(from, to) : \A q \in Walks(from, to) : Len(p) <= Len(q)
<1>. DEFINE Some(n) == \E p \in Walks(from, to) : Len(p) = n
<1>1. \A p \in Walks(from, to) : Len(p) \in 2..5
      BY WalkType DEF MaxWalk
<1>2. PICK n \in 2..5 : Some(n) /\ \A m \in 2..5 : Some(m) => n <= m
  <2>1. Some(2) \/ Some(3) \/ Some(4) \/ Some(5)
        BY <1>1
  <2>. HIDE DEF Some
  <2>. QED BY <2>1
<1>. QED BY <1>1, <1>2

\* The hops advanceReservation writes are request statuses.
LEMMA PathType ==
    ASSUME NEW from, NEW to, TransitionPath(from, to) # NoPath
    PROVE  Tail(TransitionPath(from, to)) \in Seq(ReservationStatus)
<1>1. CASE from = to
      BY <1>1 DEF TransitionPath
<1>2. CASE from # to /\ to = "Cancelled"
  <2>1. TransitionPath(from, to) = <<from, "Cancelled">>
        BY <1>2 DEF TransitionPath
  <2>2. Tail(<<from, "Cancelled">>) = <<"Cancelled">>
        OBVIOUS
  <2>. QED BY <2>1, <2>2 DEF ReservationStatus
<1>3. CASE from # to /\ to # "Cancelled"
  <2>1. TransitionPath(from, to) \in Walks(from, to)
        BY <1>3, ShortestWalk DEF TransitionPath, NoPath
  <2>. QED BY <2>1, WalkType DEF MaxWalk
<1>. QED BY <1>1, <1>2, <1>3

------------------------------------------------------------------------------
(* Rows and the initial state *)

\* The row createDispatchForRequest inserts is a dispatch row.
LEMMA NewDispatchType ==
    ASSUME TypeOK, NEW w \in Workers
    PROVE  NewDispatch(job[w]) \in DispatchRow
BY DEF TypeOK, NewDispatch, Job, DispatchRow, DispatchStatus

\* None, NoPair and NoWindow belong to the types of the fields they empty.
LEMMA NothingType ==
    /\ NoPair \in MaybePair /\ NoWindow \in MaybeWindow /\ NoEvidence \in Revisions
    /\ 0 \in 0..MaxDispatches /\ 0 \in 0..MaxTrips
    /\ <<>> \in Seq(ReservationStatus)
BY BoundsAssumption DEF NoPair, MaybePair, NoWindow, MaybeWindow, NoEvidence, Revisions

\* A worker that serves no handler is well formed.
LEMMA IdleType == Idle \in Job /\ WellFormed(Idle)
<1>1. Idle \in Job
      BY NothingType DEF Idle, Job, Steps
<1>. QED BY <1>1 DEF Idle, WellFormed

\* A handler begins as a job that knows its request, pair and window.
LEMMA CallerType ==
    ASSUME NEW step \in Steps, NEW r \in Requests \union {None}, NEW p \in MaybePair,
           NEW window \in MaybeWindow, NEW goal \in ReservationStatus \union {"none"}
    PROVE  [Idle EXCEPT !.pc = step, !.request = r, !.pair = p,
                        !.window = window, !.goal = goal] \in Job
BY IdleType DEF Job

\* The system starts well typed.
LEMMA InitType == Init => TypeOK
<1>. SUFFICES ASSUME Init PROVE TypeOK
     OBVIOUS
<1>1. request \in [Requests -> RequestRow]
      BY NothingType DEF Init, RequestRow, ReservationStatus, MaybeWindow
<1>2. NoDispatch \in DispatchRow /\ NoTrip \in TripRow
      BY NothingType DEF NoDispatch, DispatchRow, NoTrip, TripRow
<1>. QED BY <1>1, <1>2, IdleType DEF Init, TypeOK, NoTrip

------------------------------------------------------------------------------
(* What the helpers of the actions do to the types *)

JobsOK == job \in [Workers -> Job] /\ \A w \in Workers : WellFormed(job[w])
RequestsOK == request \in [Requests -> RequestRow]
DispatchesOK == dispatch \in [Dispatches -> DispatchRow]
TripsOK == /\ trip \in [Trips -> TripRow]
           /\ \A t \in Trips : trip[t].status # "Absent" => trip[t].dispatch \in Dispatches

\* The type invariant is the conjunction of its parts.
LEMMA TypeParts == TypeOK <=> RequestsOK /\ DispatchesOK /\ TripsOK /\ JobsOK
BY DEF TypeOK, RequestsOK, DispatchesOK, TripsOK, JobsOK

\* A worker whose job becomes a well-formed job leaves the jobs well typed.
LEMMA MoveType ==
    ASSUME JobsOK, NEW w \in Workers, NEW j \in Job, WellFormed(j), job' = [job EXCEPT ![w] = j]
    PROVE  JobsOK'
BY DEF JobsOK

\* Taking a handler up keeps the jobs well typed.
LEMMA BeginType ==
    ASSUME JobsOK, NEW w \in Workers, NEW h \in HandlerNames, NEW j \in Job, Begin(w, h, j),
           WellFormed([j EXCEPT !.op = h])
    PROVE  JobsOK'
<1>1. [j EXCEPT !.op = h] \in Job
      BY DEF Job
<1>. QED BY <1>1, MoveType DEF Begin

\* Ending a handler keeps the jobs well typed.
LEMMA FinishType == ASSUME JobsOK, NEW w \in Workers, Finish(w) PROVE JobsOK'
BY IdleType, MoveType DEF Finish

\* Going to a step whose fields are in place keeps the jobs well typed.
LEMMA GotoType ==
    ASSUME JobsOK, NEW w \in Workers, NEW step \in Steps, Goto(w, step),
           step \in {"ensure", "insert", "flip"} => job[w].dispatch \in Dispatches,
           step = "flip" => job[w].to \in DispatchStatus,
           step \notin {"flipRead", "tripTx"}
    PROVE  JobsOK'
<1>. DEFINE j == [job[w] EXCEPT !.pc = step]
<1>0. job[w] \in Job
      BY DEF JobsOK
<1>1. j \in Job
      BY <1>0 DEF Job
<1>2. WellFormed(j)
      BY DEF JobsOK, Job, WellFormed
<1>3. job' = [job EXCEPT ![w] = j]
      BY DEF Goto
<1>. HIDE DEF j
<1>. QED BY <1>1, <1>2, <1>3, MoveType

\* Spending the evidence token keeps the jobs well typed.
LEMMA CommittedType ==
    ASSUME JobsOK, NEW w \in Workers, NEW d \in Dispatches, NEW step \in Steps,
           Committed(w, d, step), step = "flipRead" => job[w].to \in DispatchStatus,
           step \notin {"flip", "tripTx"}
    PROVE  JobsOK'
<1>. DEFINE j == [job[w] EXCEPT !.evidence = NoEvidence, !.path = <<>>, !.dispatch = d, !.pc = step]
<1>0. job[w] \in Job /\ d \in 0..MaxDispatches
      BY BoundsAssumption DEF JobsOK, Dispatches
<1>1. j \in Job
      BY <1>0, NothingType DEF Job
<1>2. WellFormed(j)
      BY DEF JobsOK, Job, WellFormed
<1>3. job' = [job EXCEPT ![w] = j]
      BY DEF Committed
<1>. HIDE DEF j
<1>. QED BY <1>1, <1>2, <1>3, MoveType

\* A guarded write of a dispatch row keeps the dispatches well typed.
LEMMA WriteDispatchType ==
    ASSUME DispatchesOK, NEW d, NEW row \in DispatchRow, WriteDispatch(d, row)
    PROVE  DispatchesOK'
BY DEF DispatchesOK, WriteDispatch

\* So does a write that changes only the status of a raised dispatch.
LEMMA DispatchStatusType ==
    ASSUME DispatchesOK, NEW d, NEW status \in DispatchStatus,
           WriteDispatch(d, [dispatch[d] EXCEPT !.status = status])
    PROVE  DispatchesOK'
BY DEF DispatchesOK, WriteDispatch, DispatchRow

\* Setting the status of a trip keeps the trips well typed.
LEMMA SetTripType ==
    ASSUME TripsOK, NEW t, NEW status \in TripStatus, SetTrip(t, status)
    PROVE  TripsOK'
BY DEF TripsOK, TripRow, SetTrip

\* So does cancelling the open trips of some dispatches.
LEMMA CancelOpenTripsType == ASSUME TripsOK, NEW ds, CancelOpenTrips(ds) PROVE TripsOK'
BY DEF TripsOK, CancelOpenTrips, OpenTrip, TripRow, TripStatus, TerminalTrip

\* Setting the status of a request keeps the requests well typed.
LEMMA RequestStatusType ==
    ASSUME RequestsOK, NEW r, NEW status \in ReservationStatus, NEW pair \in MaybePair,
           request' = [request EXCEPT ![r].status = status, ![r].pair = pair]
    PROVE  RequestsOK'
BY DEF RequestsOK, RequestRow

\* A job about an existing trip is well formed: the trip names a dispatch.
LEMMA TripJobType ==
    ASSUME TypeOK, NEW t \in Trips, trip[t].status # "Absent",
           NEW step \in Steps, NEW goal \in ReservationStatus \union {"none"}
    PROVE  /\ trip[t].dispatch \in Dispatches
           /\ TripJob(t, step, goal) \in Job
<1>1. trip[t].dispatch \in Dispatches /\ t \in 0..MaxTrips
      BY BoundsAssumption DEF TypeOK, Trips
<1>2. trip[t].dispatch \in 0..MaxDispatches
      BY <1>1 DEF Dispatches
<1>3. dispatch[trip[t].dispatch].request \in Requests \union {None}
      BY <1>1 DEF TypeOK, DispatchRow
<1>. QED BY <1>1, <1>2, <1>3, IdleType DEF TripJob, Job

------------------------------------------------------------------------------
(* The handlers begin *)

\* Assign keeps every row and every job in its type.
LEMMA AssignType ==
    ASSUME TypeOK, NEW w \in Workers, NEW r \in Requests, NEW p \in Pairs, Assign(w, r, p)
    PROVE  TypeOK'
<1>. DEFINE j == [Idle EXCEPT !.pc = "screen", !.request = r, !.pair = p,
                              !.window = request[r].window, !.goal = "Assigned"]
<1>1. p \in MaybePair /\ request[r].window \in MaybeWindow
      BY DataAssumption DEF TypeOK, RequestRow, MaybePair
<1>2. j \in Job
  <2>1. "screen" \in Steps /\ r \in Requests \union {None}
        BY DEF Steps
  <2>2. "Assigned" \in ReservationStatus \union {"none"}
        BY DEF ReservationStatus
  <2>. QED BY <1>1, <2>1, <2>2, CallerType
<1>3. WellFormed([j EXCEPT !.op = "assign"])
      BY DEF WellFormed, Idle
<1>4. JobsOK'
      BY <1>2, <1>3, TypeParts, BeginType DEF Assign, HandlerNames
<1>. QED BY <1>4 DEF Assign, TypeOK, JobsOK

\* Create keeps every row and every job in its type.
LEMMA CreateType ==
    ASSUME TypeOK, NEW w \in Workers, NEW r \in Requests, NEW p \in Pairs, NEW window \in Windows,
           Create(w, r, p, window)
    PROVE  TypeOK'
<1>. DEFINE j == [Idle EXCEPT !.pc = "gate", !.request = r, !.pair = p,
                              !.window = window, !.goal = "Assigned"]
<1>1. p \in MaybePair /\ window \in MaybeWindow
      BY DataAssumption DEF MaybePair, MaybeWindow
<1>2. j \in Job
  <2>1. "gate" \in Steps /\ r \in Requests \union {None}
        BY DEF Steps
  <2>2. "Assigned" \in ReservationStatus \union {"none"}
        BY DEF ReservationStatus
  <2>. QED BY <1>1, <2>1, <2>2, CallerType
<1>3. WellFormed([j EXCEPT !.op = "create"])
      BY DEF WellFormed, Idle
<1>4. JobsOK'
      BY <1>2, <1>3, TypeParts, BeginType DEF Create, HandlerNames
<1>. QED BY <1>4 DEF Create, TypeOK, JobsOK

\* Reassign keeps every row and every job in its type.
LEMMA ReassignType ==
    ASSUME TypeOK, NEW w \in Workers, NEW d \in Dispatches, NEW p \in Pairs, NEW window \in Windows,
           Reassign(w, d, p, window)
    PROVE  TypeOK'
<1>. DEFINE to == IF dispatch[d].status = "Pending Reassignment" THEN "Scheduled" ELSE "none"
            j == [Idle EXCEPT !.pc = "gate", !.request = dispatch[d].request, !.dispatch = d,
                              !.pair = p, !.window = window, !.to = to]
<1>1. /\ p \in MaybePair /\ window \in MaybeWindow /\ d \in 0..MaxDispatches
      /\ dispatch[d].request \in Requests \union {None}
      /\ to \in TripStatus \union DispatchStatus \union {"none"}
  <2>1. p \in MaybePair /\ window \in MaybeWindow
        BY DataAssumption DEF MaybePair, MaybeWindow
  <2>2. d \in 0..MaxDispatches /\ dispatch[d].request \in Requests \union {None}
        BY BoundsAssumption DEF Dispatches, TypeOK, DispatchRow
  <2>. QED BY <2>1, <2>2 DEF DispatchStatus
<1>. HIDE DEF to
<1>2. j \in Job
      BY ZenonT(40), <1>1, IdleType DEF Job, Steps
<1>3. WellFormed([j EXCEPT !.op = "reassign"])
      BY DEF WellFormed, Idle
<1>4. JobsOK'
      BY <1>2, <1>3, TypeParts, BeginType DEF Reassign, HandlerNames, to
<1>. QED BY <1>4 DEF Reassign, TypeOK, JobsOK

\* StandDown keeps every row and every job in its type.
LEMMA StandDownType ==
    ASSUME TypeOK, NEW w \in Workers, NEW d \in Dispatches, StandDown(w, d)
    PROVE  TypeOK'
<1>. DEFINE j == [Idle EXCEPT !.pc = "standDown", !.dispatch = d]
<1>1. d \in 0..MaxDispatches
      BY BoundsAssumption DEF Dispatches
<1>2. j \in Job
      BY ZenonT(40), <1>1, IdleType DEF Job, Steps
<1>3. WellFormed([j EXCEPT !.op = "standDown"])
      BY DEF WellFormed, Idle
<1>4. JobsOK'
      BY <1>2, <1>3, TypeParts, BeginType DEF StandDown, HandlerNames
<1>. QED BY <1>4 DEF StandDown, TypeOK, JobsOK

\* Reschedule keeps every row and every job in its type.
LEMMA RescheduleType ==
    ASSUME TypeOK, NEW w \in Workers, NEW r \in Requests, NEW window \in Windows,
           Reschedule(w, r, window)
    PROVE  TypeOK'
<1>. DEFINE j == [Idle EXCEPT !.pc = "reschedule", !.request = r, !.window = window]
<1>1. j \in Job
      BY ZenonT(40), IdleType DEF Job, Steps, MaybeWindow
<1>2. WellFormed([j EXCEPT !.op = "reschedule"])
      BY DEF WellFormed, Idle
<1>3. JobsOK'
      BY <1>1, <1>2, TypeParts, BeginType DEF Reschedule, HandlerNames
<1>. QED BY <1>3 DEF Reschedule, TypeOK, JobsOK

\* Ground keeps every row and every job in its type.
LEMMA GroundType ==
    ASSUME TypeOK, NEW w \in Workers, NEW v, NEW soon, Ground(w, v, soon)
    PROVE  TypeOK'
<1>. DEFINE hit == { d \in Dispatches : Live(d) /\ dispatch[d].pair[1] = v
                                        /\ (dispatch[d].status = "Scheduled" => d \in soon) }
            todo == { <<d, dispatch[d].status>> : d \in hit }
            j == [Idle EXCEPT !.pc = "ground", !.todo = todo]
<1>1. todo \in SUBSET (Dispatches \X LiveDispatch)
      BY DEF Live
<1>. HIDE DEF todo
<1>2. j \in Job
      BY ZenonT(40), <1>1, IdleType DEF Job, Steps
<1>3. WellFormed([j EXCEPT !.op = "ground"])
      BY DEF WellFormed, Idle
<1>4. JobsOK'
      BY <1>2, <1>3, TypeParts, BeginType DEF Ground, HandlerNames, todo
<1>. QED BY <1>4 DEF Ground, TypeOK, JobsOK

\* TripStep keeps every row and every job in its type.
LEMMA TripStepType ==
    ASSUME TypeOK, NEW w \in Workers, NEW t \in Trips, NEW to \in DriverSteps, TripStep(w, t, to)
    PROVE  TypeOK'
<1>. DEFINE j == [TripJob(t, "tripTx", "In Progress") EXCEPT !.to = to]
<1>1. to \in TripStatus
      BY DataAssumption
<1>2. TripJob(t, "tripTx", "In Progress") \in Job
      BY TripJobType DEF TripStep, Steps, ReservationStatus
<1>3. j \in Job
      BY <1>1, <1>2 DEF Job
<1>4. WellFormed([j EXCEPT !.op = "tripStep"])
      BY <1>1 DEF WellFormed, TripJob, Idle
<1>5. JobsOK'
      BY <1>3, <1>4, TypeParts, BeginType DEF TripStep, HandlerNames
<1>. QED BY <1>5 DEF TripStep, TypeOK, JobsOK

\* Decline keeps every row and every job in its type.
LEMMA DeclineType ==
    ASSUME TypeOK, NEW w \in Workers, NEW t \in Trips, Decline(w, t)
    PROVE  TypeOK'
<1>1. TripJob(t, "decline", "none") \in Job
      BY TripJobType DEF Decline, Steps
<1>2. WellFormed([TripJob(t, "decline", "none") EXCEPT !.op = "decline"])
      BY DEF WellFormed, TripJob, Idle
<1>3. JobsOK'
      BY <1>1, <1>2, TypeParts, BeginType DEF Decline, HandlerNames
<1>. QED BY <1>3 DEF Decline, TypeOK, JobsOK

\* Start keeps every row and every job in its type.
LEMMA StartType ==
    ASSUME TypeOK, NEW w \in Workers, NEW t \in Trips, Start(w, t)
    PROVE  TypeOK'
<1>. DEFINE base == TripJob(t, "gate", "In Progress")
            window == dispatch[trip[t].dispatch].window
            j == [base EXCEPT !.pair = trip[t].pair, !.window = window]
<1>1. trip[t].status # "Absent"
      BY DEF Start
<1>2. base \in Job /\ trip[t].dispatch \in Dispatches
      BY <1>1, TripJobType DEF Steps, ReservationStatus
<1>3. trip[t].pair \in MaybePair /\ window \in MaybeWindow
      BY <1>2 DEF TypeOK, TripRow, DispatchRow
<1>4. WellFormed([j EXCEPT !.op = "start"])
      BY DEF WellFormed, TripJob, Idle
<1>. HIDE DEF base, window
<1>5. j \in Job
      BY <1>2, <1>3 DEF Job
<1>6. JobsOK'
      BY <1>4, <1>5, TypeParts, BeginType DEF Start, HandlerNames, base, window
<1>. QED BY <1>6 DEF Start, TypeOK, JobsOK

\* CancelTrip keeps every row and every job in its type.
LEMMA CancelTripType ==
    ASSUME TypeOK, NEW w \in Workers, NEW t \in Trips, CancelTrip(w, t)
    PROVE  TypeOK'
<1>1. TripJob(t, "cancelTx", "Cancelled") \in Job
      BY TripJobType DEF CancelTrip, OpenTrip, Steps, ReservationStatus
<1>2. WellFormed([TripJob(t, "cancelTx", "Cancelled") EXCEPT !.op = "cancelTrip"])
      BY DEF WellFormed, TripJob, Idle
<1>3. JobsOK'
      BY <1>1, <1>2, TypeParts, BeginType DEF CancelTrip, HandlerNames
<1>. QED BY <1>3 DEF CancelTrip, TypeOK, JobsOK

\* Complete keeps every row and every job in its type.
LEMMA CompleteType ==
    ASSUME TypeOK, NEW w \in Workers, NEW t \in Trips, Complete(w, t)
    PROVE  TypeOK'
<1>1. trip[t].status # "Absent"
      BY DEF Complete, OpenTrip
<1>2. TripJob(t, "load", "Completed") \in Job
      BY <1>1, TripJobType DEF Steps, ReservationStatus
<1>3. WellFormed([TripJob(t, "load", "Completed") EXCEPT !.op = "complete"])
      BY DEF WellFormed, TripJob, Idle
<1>4. JobsOK'
      BY <1>2, <1>3, TypeParts, BeginType DEF Complete, HandlerNames
<1>5. TripsOK'
      BY TypeParts, SetTripType DEF Complete, TripStatus
<1>6. DispatchesOK'
      BY TypeParts, DispatchStatusType DEF Complete, DispatchStatus
<1>. QED BY <1>4, <1>5, <1>6, TypeParts DEF Complete, RequestsOK, TypeOK, JobsOK, TripsOK, DispatchesOK

------------------------------------------------------------------------------
(* Handlers of one step *)

\* CancelRequest keeps every row and every job in its type.
LEMMA CancelRequestType ==
    ASSUME TypeOK, NEW w \in Workers, NEW r \in Requests, CancelRequest(w, r)
    PROVE  TypeOK'
<1>1. DispatchesOK'
      BY TypeParts DEF CancelRequest, DispatchesOK, DispatchRow, DispatchStatus
<1>2. TripsOK'
      BY TypeParts, CancelOpenTripsType DEF CancelRequest
<1>3. RequestsOK'
      BY TypeParts, RequestStatusType, NothingType DEF CancelRequest, ReservationStatus
<1>. QED BY <1>1, <1>2, <1>3 DEF CancelRequest, RequestsOK, TypeOK, TripsOK, DispatchesOK

\* ApproveLeave keeps every row and every job in its type.
LEMMA ApproveLeaveType ==
    ASSUME TypeOK, NEW w \in Workers, NEW driver, NEW covered, ApproveLeave(w, driver, covered)
    PROVE  TypeOK'
<1>1. ASSUME NEW d \in Dispatches PROVE <<dispatch[d].pair[1], None>> \in MaybePair
      BY DEF TypeOK, DispatchRow, MaybePair
<1>2. DispatchesOK'
      BY <1>1, TypeParts DEF ApproveLeave, DispatchesOK, DispatchRow, DispatchStatus
<1>. QED BY <1>2 DEF ApproveLeave, TypeOK, DispatchesOK

\* MobileAccept keeps every row and every job in its type.
LEMMA MobileAcceptType ==
    ASSUME TypeOK, NEW w \in Workers, NEW t \in Trips, MobileAccept(w, t)
    PROVE  TypeOK'
<1>1. TripsOK'
      BY TypeParts, SetTripType DEF MobileAccept, TripStatus
<1>. QED BY <1>1 DEF MobileAccept, TypeOK, TripsOK

\* EditTrip keeps every row and every job in its type.
LEMMA EditTripType ==
    ASSUME TypeOK, NEW w \in Workers, NEW t \in Trips, NEW to \in TripStatus, NEW p \in Pairs,
           NEW d \in Dispatches, EditTrip(w, t, to, p, d)
    PROVE  TypeOK'
<1>1. p \in MaybePair
      BY DataAssumption DEF MaybePair
<1>2. d \in 0..MaxDispatches
      BY BoundsAssumption DEF Dispatches
<1>3. TripsOK'
      BY <1>1, <1>2 DEF EditTrip, TypeOK, TripsOK, TripRow
<1>. QED BY <1>3 DEF EditTrip, TypeOK, TripsOK

------------------------------------------------------------------------------
(* The steps of a handler *)

\* Screen keeps every row and every job in its type.
LEMMA ScreenType == ASSUME TypeOK, NEW w \in Workers, Screen(w) PROVE TypeOK'
<1>1. JobsOK'
      BY TypeParts, GotoType, FinishType DEF Screen, Steps
<1>. QED BY <1>1 DEF Screen, TypeOK, JobsOK

\* Gate keeps every row and every job in its type.
LEMMA GateType == ASSUME TypeOK, NEW w \in Workers, Gate(w) PROVE TypeOK'
<1>1. JobsOK'
      BY TypeParts, GotoType, FinishType DEF Gate, Steps
<1>. QED BY <1>1 DEF Gate, TypeOK, JobsOK

\* The evidence token is a revision.
LEMMA RevisionType ==
    ASSUME TypeOK, NEW r, NEW p
    PROVE  Revision(r, p) \in Revisions
<1>1. ASSUME NEW q \in Requests PROVE View(q) \in RequestView
      BY DEF TypeOK, View, RequestRow, RequestView
<1>2. \A d \in Dispatches : dispatch[d] \in DispatchRow
      BY DEF TypeOK
<1>3. \A t \in Trips : trip[t] \in TripRow
      BY DEF TypeOK
<1>. QED BY <1>1, <1>2, <1>3 DEF Revision, Revisions

\* Evidence keeps every row and every job in its type.
LEMMA EvidenceType == ASSUME TypeOK, NEW w \in Workers, Evidence(w) PROVE TypeOK'
<1>. DEFINE step == CASE job[w].op = "assign" -> "load"
                      [] job[w].op = "start"  -> "startTx"
                      [] OTHER                -> "commit"
            rev == Revision(job[w].request, job[w].pair)
            j == [job[w] EXCEPT !.evidence = rev, !.pc = step]
<1>1. CASE Finish(w)
  <2>1. JobsOK'
        BY <1>1, TypeParts, FinishType
  <2>. QED BY <2>1 DEF Evidence, TypeOK, JobsOK
<1>2. CASE job' = [job EXCEPT ![w].evidence = rev, ![w].pc = step]
  <2>1. job[w] \in Job /\ WellFormed(job[w])
        BY DEF TypeOK
  <2>2. rev \in Revisions
        BY RevisionType
  <2>3. step \in Steps /\ step \in {"load", "startTx", "commit"}
        BY DEF Steps
  <2>. HIDE DEF step, rev
  <2>4. j \in Job
        BY <2>1, <2>2, <2>3 DEF Job
  <2>5. WellFormed(j)
        BY <2>1, <2>3 DEF WellFormed, Job
  <2>6. job' = [job EXCEPT ![w] = j]
        BY <1>2
  <2>. HIDE DEF j
  <2>7. JobsOK'
        BY <2>4, <2>5, <2>6, TypeParts, MoveType
  <2>. QED BY <2>7 DEF Evidence, TypeOK, JobsOK
<1>. QED BY <1>1, <1>2 DEF Evidence

\* Refused keeps every row and every job in its type.
LEMMA RefusedType == ASSUME TypeOK, NEW w \in Workers, Refused(w) PROVE TypeOK'
<1>1. JobsOK'
      BY TypeParts, FinishType DEF Refused
<1>. QED BY <1>1 DEF Refused, TypeOK, JobsOK

\* Reusing or inserting the dispatch of a request keeps the dispatches well typed.
LEMMA DispatchForType ==
    ASSUME TypeOK, NEW w \in Workers, NEW d, DispatchFor(job[w], d)
    PROVE  DispatchesOK'
<1>1. CASE WriteDispatch(d, NewDispatch(job[w]))
      BY <1>1, NewDispatchType, WriteDispatchType, TypeParts
<1>2. CASE WriteDispatch(d, [dispatch[d] EXCEPT !.pair = job[w].pair, !.window = job[w].window])
  <2>1. job[w].pair \in MaybePair /\ job[w].window \in MaybeWindow
        BY DEF TypeOK, Job
  <2>. QED BY <1>2, <2>1, TypeParts DEF DispatchesOK, WriteDispatch, DispatchRow
<1>. QED BY <1>1, <1>2 DEF DispatchFor

\* CommitAssign keeps every row and every job in its type.
LEMMA CommitAssignType == ASSUME TypeOK, NEW w \in Workers, CommitAssign(w) PROVE TypeOK'
<1>. DEFINE j == job[w]
            status == IF j.path = <<>> THEN request[j.request].status ELSE j.path[1]
<1>1. j.pair \in MaybePair /\ j.path \in Seq(ReservationStatus)
      BY DEF TypeOK, Job
<1>2. RequestsOK'
  <2>1. j.path # <<>> => j.path[1] \in ReservationStatus
        BY <1>1
  <2>. QED BY <1>1, <2>1, TypeParts DEF CommitAssign, RequestsOK, RequestRow
<1>3. PICK d \in Dispatches : DispatchFor(j, d) /\ Committed(w, d, "ensure")
      BY DEF CommitAssign
<1>4. DispatchesOK'
      BY <1>3, DispatchForType
<1>5. JobsOK'
      BY <1>3, TypeParts, CommittedType DEF Steps
<1>. QED BY <1>2, <1>4, <1>5 DEF CommitAssign, TypeOK, RequestsOK, DispatchesOK, JobsOK

\* CommitCreate keeps every row and every job in its type.
LEMMA CommitCreateType == ASSUME TypeOK, NEW w \in Workers, CommitCreate(w) PROVE TypeOK'
<1>1. PICK d \in FreshDispatches : /\ WriteDispatch(d, NewDispatch(job[w]))
                                   /\ Committed(w, d, "ensure")
      BY DEF CommitCreate
<1>2. DispatchesOK'
      BY <1>1, NewDispatchType, WriteDispatchType, TypeParts
<1>3. JobsOK'
      BY <1>1, TypeParts, CommittedType DEF Steps, FreshDispatches
<1>. QED BY <1>2, <1>3 DEF CommitCreate, TypeOK, DispatchesOK, JobsOK

\* CommitReassign keeps every row and every job in its type.
LEMMA CommitReassignType == ASSUME TypeOK, NEW w \in Workers, CommitReassign(w) PROVE TypeOK'
<1>. DEFINE j == job[w]
<1>1. /\ j.pair \in MaybePair /\ j.window \in MaybeWindow
      /\ j.op = "reassign" /\ j.dispatch \in Dispatches
      BY DEF TypeOK, Job, WellFormed, CommitReassign
<1>2. DispatchesOK'
      BY <1>1, TypeParts DEF CommitReassign, DispatchesOK, WriteDispatch, DispatchRow
<1>3. JobsOK'
      BY <1>1, TypeParts, CommittedType, FinishType DEF CommitReassign, Steps, DispatchStatus
<1>. QED BY <1>2, <1>3 DEF CommitReassign, TypeOK, DispatchesOK, JobsOK

\* AfterEnsure keeps every row and every job in its type.
LEMMA AfterEnsureType == ASSUME JobsOK, NEW w \in Workers, AfterEnsure(w) PROVE JobsOK'
BY GotoType, FinishType DEF AfterEnsure, Steps

\* EnsureTrip keeps every row and every job in its type.
LEMMA EnsureTripType == ASSUME TypeOK, NEW w \in Workers, EnsureTrip(w) PROVE TypeOK'
<1>. DEFINE d == job[w].dispatch
            j == [job[w] EXCEPT !.seen = dispatch[d].pair, !.pc = "insert"]
<1>1. CASE AfterEnsure(w)
  <2>1. JobsOK'
        BY <1>1, TypeParts, AfterEnsureType
  <2>. QED BY <2>1 DEF EnsureTrip, TypeOK, JobsOK
<1>2. CASE job' = [job EXCEPT ![w].seen = dispatch[d].pair, ![w].pc = "insert"]
  <2>1. job[w] \in Job /\ WellFormed(job[w]) /\ d \in Dispatches
        BY DEF TypeOK, WellFormed, EnsureTrip, At
  <2>2. dispatch[d].pair \in MaybePair
        BY <2>1 DEF TypeOK, DispatchRow
  <2>3. j \in Job
        BY ZenonT(40), <2>1, <2>2 DEF Job, Steps
  <2>4. WellFormed(j)
        BY <2>1 DEF WellFormed, Job
  <2>5. job' = [job EXCEPT ![w] = j]
        BY <1>2
  <2>. HIDE DEF j
  <2>6. JobsOK'
        BY <2>3, <2>4, <2>5, TypeParts, MoveType
  <2>. QED BY <2>6 DEF EnsureTrip, TypeOK, JobsOK
<1>. QED BY <1>1, <1>2 DEF EnsureTrip

\* InsertTrip keeps every row and every job in its type.
LEMMA InsertTripType == ASSUME TypeOK, NEW w \in Workers, InsertTrip(w) PROVE TypeOK'
<1>1. job[w] \in Job /\ job[w].dispatch \in Dispatches
      BY DEF TypeOK, WellFormed, InsertTrip, At
<1>2. [status |-> "Assigned", dispatch |-> job[w].dispatch, pair |-> job[w].seen] \in TripRow
      BY <1>1 DEF Job, TripRow, TripStatus
<1>3. TripsOK'
  <2>. DEFINE row == [status |-> "Assigned", dispatch |-> job[w].dispatch, pair |-> job[w].seen]
  <2>1. PICK t \in FreshTrips : trip' = [trip EXCEPT ![t] = row]
        BY DEF InsertTrip
  <2>2. row \in TripRow /\ row.dispatch \in Dispatches
        BY <1>1, <1>2
  <2>. HIDE DEF row
  <2>. QED BY <2>1, <2>2, TypeParts DEF TripsOK
<1>4. JobsOK'
      BY TypeParts, AfterEnsureType DEF InsertTrip
<1>. QED BY <1>3, <1>4 DEF InsertTrip, TypeOK, TripsOK, JobsOK

\* Load keeps every row and every job in its type.
LEMMA LoadType == ASSUME TypeOK, NEW w \in Workers, Load(w) PROVE TypeOK'
<1>. DEFINE path == TransitionPath(request[job[w].request].status, job[w].goal)
            hops == IF path = NoPath THEN <<>> ELSE Tail(path)
            step == IF job[w].op = "assign" /\ Len(hops) <= 1 THEN "commit" ELSE "hop"
            j == [job[w] EXCEPT !.path = hops, !.pc = step]
<1>1. CASE Finish(w)
  <2>1. JobsOK'
        BY <1>1, TypeParts, FinishType
  <2>. QED BY <2>1 DEF Load, TypeOK, JobsOK
<1>2. CASE job' = [job EXCEPT ![w].path = hops, ![w].pc = step]
  <2>1. job[w] \in Job /\ WellFormed(job[w])
        BY DEF TypeOK
  <2>2. hops \in Seq(ReservationStatus)
        BY PathType
  <2>3. step \in Steps /\ step \in {"commit", "hop"}
        BY DEF Steps
  <2>. HIDE DEF hops, step
  <2>4. j \in Job
        BY <2>1, <2>2, <2>3 DEF Job
  <2>5. WellFormed(j)
        BY <2>1, <2>3 DEF WellFormed, Job
  <2>6. job' = [job EXCEPT ![w] = j]
        BY <1>2
  <2>. HIDE DEF j
  <2>7. JobsOK'
        BY <2>4, <2>5, <2>6, TypeParts, MoveType
  <2>. QED BY <2>7 DEF Load, TypeOK, JobsOK
<1>. QED BY <1>1, <1>2 DEF Load

\* Hop keeps every row and every job in its type.
LEMMA HopType == ASSUME TypeOK, NEW w \in Workers, Hop(w) PROVE TypeOK'
<1>. DEFINE final == Len(job[w].path) <= 1
            step == IF job[w].op = "assign" /\ Len(job[w].path) = 2 THEN "commit" ELSE "hop"
            j == [job[w] EXCEPT !.path = Tail(job[w].path), !.pc = step]
<1>1. /\ job[w] \in Job /\ WellFormed(job[w]) /\ job[w].path \in Seq(ReservationStatus)
      /\ job[w].pair \in MaybePair
      BY DEF TypeOK, Job
<1>2. job[w].path # <<>> => job[w].path[1] \in ReservationStatus
      BY <1>1
<1>3. RequestsOK'
  <2>. DEFINE r == job[w].request
              status == IF job[w].path = <<>> THEN request[r].status ELSE job[w].path[1]
              pair == IF final /\ job[w].op = "create" THEN job[w].pair ELSE request[r].pair
  <2>1. request' = [request EXCEPT ![r].status = status, ![r].pair = pair]
        BY DEF Hop
  <2>2. r \in Requests => status \in ReservationStatus /\ pair \in MaybePair
        BY <1>1, <1>2 DEF TypeOK, RequestRow
  <2>. HIDE DEF status, pair
  <2>. QED BY <2>1, <2>2, TypeParts DEF RequestsOK, RequestRow
<1>4. CASE final
  <2>1. JobsOK'
        BY <1>4, TypeParts, FinishType DEF Hop
  <2>. QED BY <1>3, <2>1 DEF Hop, TypeOK, RequestsOK, JobsOK
<1>5. CASE ~final
  <2>1. Tail(job[w].path) \in Seq(ReservationStatus)
        BY <1>1, <1>5
  <2>2. step \in Steps /\ step \in {"commit", "hop"}
        BY DEF Steps
  <2>3. job' = [job EXCEPT ![w] = j]
        BY <1>5 DEF Hop
  <2>. HIDE DEF step
  <2>4. j \in Job
        BY <1>1, <2>1, <2>2 DEF Job
  <2>5. WellFormed(j)
        BY <1>1, <2>2 DEF WellFormed, Job
  <2>. HIDE DEF j
  <2>6. JobsOK'
        BY <2>3, <2>4, <2>5, TypeParts, MoveType
  <2>. QED BY <1>3, <2>6 DEF Hop, TypeOK, RequestsOK, JobsOK
<1>. QED BY <1>4, <1>5

\* StandDownTx keeps every row and every job in its type.
LEMMA StandDownTxType == ASSUME TypeOK, NEW w \in Workers, StandDownTx(w) PROVE TypeOK'
<1>. DEFINE d == job[w].dispatch
<1>1. JobsOK'
      BY TypeParts, FinishType DEF StandDownTx
<1>2. CASE UNCHANGED <<request, dispatch, trip>>
      BY <1>1, <1>2 DEF TypeOK, JobsOK
<1>3. CASE ~UNCHANGED <<request, dispatch, trip>>
  <2>1. DispatchesOK'
        BY <1>3, TypeParts, DispatchStatusType DEF StandDownTx, DispatchStatus
  <2>2. TripsOK'
        BY <1>3, TypeParts, CancelOpenTripsType DEF StandDownTx
  <2>3. RequestsOK'
        BY <1>3, TypeParts, RequestStatusType, NothingType DEF StandDownTx, ReservationStatus, RequestsOK
  <2>. QED BY <1>1, <2>1, <2>2, <2>3 DEF TypeOK, RequestsOK, DispatchesOK, TripsOK, JobsOK
<1>. QED BY <1>2, <1>3

\* RescheduleWrite keeps every row and every job in its type.
LEMMA RescheduleWriteType ==
    ASSUME TypeOK, NEW w \in Workers, RescheduleWrite(w) PROVE TypeOK'
<1>1. JobsOK'
      BY TypeParts, FinishType DEF RescheduleWrite
<1>0. job[w].window \in MaybeWindow
      BY DEF TypeOK, Job
<1>2. RequestsOK'
      BY <1>0, TypeParts DEF RescheduleWrite, RequestsOK, RequestRow
<1>. QED BY <1>1, <1>2 DEF RescheduleWrite, TypeOK, RequestsOK, JobsOK

\* FlipRead keeps every row and every job in its type.
LEMMA FlipReadType == ASSUME TypeOK, NEW w \in Workers, FlipRead(w) PROVE TypeOK'
<1>1. job[w].dispatch \in Dispatches /\ job[w].to \in DispatchStatus
      BY DEF TypeOK, WellFormed, FlipRead, At
<1>2. JobsOK'
      BY <1>1, TypeParts, GotoType, FinishType DEF FlipRead, Steps
<1>. QED BY <1>2 DEF FlipRead, TypeOK, JobsOK

\* Flip keeps every row and every job in its type.
LEMMA FlipType == ASSUME TypeOK, NEW w \in Workers, Flip(w) PROVE TypeOK'
<1>1. job[w].dispatch \in Dispatches /\ job[w].to \in DispatchStatus
      BY DEF TypeOK, WellFormed, Flip, At
<1>2. JobsOK'
      BY <1>1, TypeParts, GotoType, FinishType DEF Flip, Steps
<1>3. DispatchesOK'
      BY <1>1, TypeParts, DispatchStatusType DEF Flip, DispatchesOK
<1>. QED BY <1>2, <1>3 DEF Flip, TypeOK, DispatchesOK, JobsOK

\* TripTx keeps every row and every job in its type.
LEMMA TripTxType == ASSUME TypeOK, NEW w \in Workers, TripTx(w) PROVE TypeOK'
<1>1. job[w].to \in TripStatus
      BY DEF TypeOK, WellFormed, TripTx, At
<1>2. JobsOK'
      BY TypeParts, GotoType, FinishType DEF TripTx, Steps
<1>3. TripsOK'
      BY <1>1, TypeParts, SetTripType DEF TripTx, TripsOK
<1>. QED BY <1>2, <1>3 DEF TripTx, TypeOK, TripsOK, JobsOK

\* Busy keeps every row and every job in its type.
LEMMA BusyType == ASSUME TypeOK, NEW w \in Workers, Busy(w) PROVE TypeOK'
<1>1. JobsOK'
      BY TypeParts, GotoType DEF Busy, Steps
<1>2. DispatchesOK'
      BY TypeParts, DispatchStatusType DEF Busy, DispatchesOK, DispatchStatus
<1>. QED BY <1>1, <1>2 DEF Busy, TypeOK, DispatchesOK, JobsOK

\* DeclineWrite keeps every row and every job in its type.
LEMMA DeclineWriteType == ASSUME TypeOK, NEW w \in Workers, DeclineWrite(w) PROVE TypeOK'
<1>1. JobsOK'
      BY TypeParts, FinishType DEF DeclineWrite
<1>2. TripsOK'
      BY TypeParts, SetTripType DEF DeclineWrite, TripStatus
<1>. QED BY <1>1, <1>2 DEF DeclineWrite, TypeOK, TripsOK, JobsOK

\* StartTx keeps every row and every job in its type.
LEMMA StartTxType == ASSUME TypeOK, NEW w \in Workers, StartTx(w) PROVE TypeOK'
<1>. DEFINE j == [job[w] EXCEPT !.evidence = NoEvidence, !.path = <<>>, !.pc = "load"]
<1>1. job[w] \in Job /\ WellFormed(job[w])
      BY DEF TypeOK
<1>2. job' = [job EXCEPT ![w] = j]
      BY <1>1 DEF StartTx, Committed, TypeOK, Job
<1>3. j \in Job
      BY <1>1, NothingType DEF Job, Steps
<1>7. WellFormed(j)
      BY <1>1 DEF Job, WellFormed
<1>. HIDE DEF j
<1>4. JobsOK'
      BY <1>2, <1>3, <1>7, TypeParts, MoveType
<1>5. TripsOK'
      BY TypeParts, SetTripType DEF StartTx, TripStatus
<1>6. DispatchesOK'
      BY TypeParts, DispatchStatusType DEF StartTx, DispatchStatus
<1>. QED BY <1>4, <1>5, <1>6 DEF StartTx, TypeOK, DispatchesOK, TripsOK, JobsOK

\* CancelTripTx keeps every row and every job in its type.
LEMMA CancelTripTxType == ASSUME TypeOK, NEW w \in Workers, CancelTripTx(w) PROVE TypeOK'
<1>1. JobsOK'
      BY TypeParts, GotoType DEF CancelTripTx, Steps
<1>2. TripsOK'
      BY TypeParts, SetTripType DEF CancelTripTx, TripStatus
<1>3. DispatchesOK'
      BY TypeParts, DispatchStatusType DEF CancelTripTx, DispatchStatus
<1>. QED BY <1>1, <1>2, <1>3 DEF CancelTripTx, TypeOK, DispatchesOK, TripsOK, JobsOK

\* GroundNext keeps every row and every job in its type.
LEMMA GroundNextType == ASSUME TypeOK, NEW w \in Workers, GroundNext(w) PROVE TypeOK'
<1>0. job[w] \in Job /\ WellFormed(job[w]) /\ job[w].pc = "ground"
      BY DEF TypeOK, GroundNext, At
<1>1. CASE job[w].todo = {} /\ Finish(w) /\ UNCHANGED <<request, dispatch, trip>>
  <2>1. JobsOK'
        BY <1>1, TypeParts, FinishType
  <2>. QED BY <1>1, <2>1 DEF TypeOK, JobsOK
<1>2. ASSUME NEW hit \in job[w].todo, hit[2] = "In Progress",
             CancelOpenTrips({hit[1]}),
             WriteDispatch(hit[1], [dispatch[hit[1]] EXCEPT !.status = "Pending Reassignment",
                                                            !.pair = NoPair]),
             request' = [request EXCEPT ![dispatch[hit[1]].request].status = "Scheduled",
                                        ![dispatch[hit[1]].request].pair = NoPair],
             job' = [job EXCEPT ![w].todo = @ \ {hit}]
      PROVE  TypeOK'
  <2>. DEFINE j == [job[w] EXCEPT !.todo = @ \ {hit}]
  <2>1. j \in Job /\ WellFormed(j)
        BY <1>0 DEF Job, WellFormed
  <2>2. job' = [job EXCEPT ![w] = j]
        BY <1>2
  <2>. HIDE DEF j
  <2>3. JobsOK'
        BY <2>1, <2>2, TypeParts, MoveType
  <2>4. DispatchesOK'
        BY <1>2, TypeParts, NothingType DEF DispatchesOK, WriteDispatch, DispatchRow, DispatchStatus
  <2>5. TripsOK'
        BY <1>2, TypeParts, CancelOpenTripsType
  <2>6. RequestsOK'
        BY <1>2, TypeParts, RequestStatusType, NothingType DEF ReservationStatus
  <2>. QED BY <2>3, <2>4, <2>5, <2>6 DEF TypeOK, RequestsOK, DispatchesOK, TripsOK, JobsOK
<1>3. ASSUME NEW hit \in job[w].todo,
             job' = [job EXCEPT ![w].todo = @ \ {hit}, ![w].pc = "flipRead",
                                ![w].dispatch = hit[1], ![w].to = "Pending Reassignment"],
             UNCHANGED <<request, dispatch, trip>>
      PROVE  TypeOK'
  <2>. DEFINE j == [job[w] EXCEPT !.todo = @ \ {hit}, !.pc = "flipRead",
                                  !.dispatch = hit[1], !.to = "Pending Reassignment"]
  <2>1. hit[1] \in Dispatches /\ hit[1] \in 0..MaxDispatches
        BY <1>0, BoundsAssumption DEF Job, Dispatches
  <2>2. j \in Job
        BY <1>0, <2>1 DEF Job, Steps, DispatchStatus
  <2>3. WellFormed(j)
        BY <1>0, <2>1 DEF Job, WellFormed, DispatchStatus
  <2>4. job' = [job EXCEPT ![w] = j]
        BY <1>3
  <2>. HIDE DEF j
  <2>5. JobsOK'
        BY <2>2, <2>3, <2>4, TypeParts, MoveType
  <2>. QED BY <1>3, <2>5 DEF TypeOK, JobsOK
<1>. QED BY <1>1, <1>2, <1>3 DEF GroundNext

\* Crash keeps every row and every job in its type.
LEMMA CrashType == ASSUME TypeOK, NEW w \in Workers, Crash(w) PROVE TypeOK'
<1>1. JobsOK'
      BY TypeParts, FinishType DEF Crash
<1>. QED BY <1>1 DEF Crash, TypeOK, JobsOK
------------------------------------------------------------------------------
(* Types *)

\* Every handler that is taken up keeps the types.
LEMMA CallType ==
    ASSUME TypeOK, NEW w \in Workers, Call(w)
    PROVE  TypeOK'
BY AssignType, CreateType, ReassignType, StandDownType, CancelRequestType, RescheduleType,
   ApproveLeaveType, TripStepType, MobileAcceptType, DeclineType, StartType, CompleteType,
   CancelTripType, EditTripType, GroundType DEF Call

\* Every step of a handler keeps the types.
LEMMA StepType ==
    ASSUME TypeOK, NEW w \in Workers, Step(w)
    PROVE  TypeOK'
BY ScreenType, GateType, EvidenceType, RefusedType, CommitAssignType, CommitCreateType,
   CommitReassignType, EnsureTripType, InsertTripType, LoadType, HopType, StandDownTxType, RescheduleWriteType,
   FlipReadType, FlipType, TripTxType, BusyType, DeclineWriteType, StartTxType,
   CancelTripTxType, GroundNextType DEF Step

\* Whatever the number of workers, requests, vehicles and drivers, and wherever
\* a handler stops, every row the handlers write has a status of its vocabulary,
\* every trip belongs to a dispatch, and a handler that is about to write a
\* dispatch or a trip has one to write.
THEOREM TypeCorrect == Spec => []TypeOK
<1>1. TypeOK /\ [Next]_vars => TypeOK'
  <2>1. ASSUME TypeOK, Next PROVE TypeOK'
        BY <2>1, CallType, StepType, CrashType DEF Next
  <2>2. ASSUME TypeOK, UNCHANGED vars PROVE TypeOK'
        BY <2>2 DEF vars, TypeOK
  <2>. QED BY <2>1, <2>2
<1>. QED BY <1>1, InitType, PTL DEF Spec

------------------------------------------------------------------------------
(* Double booking *)

\* A step that only takes dispatches out of service.
OnlyReleases ==
    \A d \in Dispatches : dispatch'[d] = dispatch[d] \/ dispatch'[d].status \notin LiveDispatch

\* Sharing a vehicle or a driver is symmetric.
LEMMA SharesSymmetric == ASSUME NEW p, NEW q PROVE Shares(p, q) <=> Shares(q, p)
BY DEF Shares

\* So is overlapping in time.
LEMMA OverlapsSymmetric == ASSUME NEW a, NEW b PROVE Overlaps(a, b) <=> Overlaps(b, a)
BY DEF Overlaps

\* The trigger screens the row it writes against all others.
LEMMA GuardedWriteKeepsBookings ==
    ASSUME TypeOK, NoDoubleBooking, NEW c, NEW row, WriteDispatch(c, row)
    PROVE  NoDoubleBooking'
<1>. SUFFICES ASSUME NEW d \in Dispatches, NEW e \in Dispatches, d # e, Live(d)', Live(e)',
                     Overlaps(dispatch'[d].window, dispatch'[e].window)
              PROVE  ~Shares(dispatch'[d].pair, dispatch'[e].pair)
     BY DEF NoDoubleBooking
<1>1. \A x \in Dispatches : dispatch'[x] = IF x = c THEN row ELSE dispatch[x]
      BY DEF WriteDispatch, TypeOK
<1>2. CASE d # c /\ e # c
      BY <1>1, <1>2 DEF NoDoubleBooking, Live
<1>3. CASE d = c
  <2>1. Live(e) /\ Overlaps(dispatch[e].window, row.window) /\ row.status \in LiveDispatch
        BY <1>1, <1>3, OverlapsSymmetric DEF Live
  <2>2. ~Shares(dispatch[e].pair, row.pair)
        BY <1>3, <2>1 DEF WriteDispatch, OverlapGuard
  <2>. QED BY <1>1, <1>3, <2>2, SharesSymmetric
<1>4. CASE e = c
  <2>1. Live(d) /\ Overlaps(dispatch[d].window, row.window) /\ row.status \in LiveDispatch
        BY <1>1, <1>4 DEF Live
  <2>2. ~Shares(dispatch[d].pair, row.pair)
        BY <1>4, <2>1 DEF WriteDispatch, OverlapGuard
  <2>. QED BY <1>1, <1>4, <2>2
<1>. QED BY <1>2, <1>3, <1>4

\* Taking dispatches out of service books nothing.
LEMMA ReleaseKeepsBookings ==
    ASSUME NoDoubleBooking, OnlyReleases
    PROVE  NoDoubleBooking'
BY DEF NoDoubleBooking, OnlyReleases, Live

\* Every writer of dispatchschedules goes through the trigger or releases.
LEMMA CallOnDispatches ==
    ASSUME TypeOK, NEW w \in Workers, Call(w)
    PROVE  OnlyReleases \/ (\E d, row : WriteDispatch(d, row))
<1>1. ASSUME NEW r \in Requests, CancelRequest(w, r) PROVE OnlyReleases
      BY <1>1 DEF CancelRequest, OnlyReleases, TypeOK, DispatchRow, LiveDispatch
<1>2. ASSUME NEW driver \in Drivers, NEW covered, ApproveLeave(w, driver, covered)
      PROVE  OnlyReleases
      BY <1>2 DEF ApproveLeave, OnlyReleases, TypeOK, DispatchRow, LiveDispatch
<1>3. ASSUME NEW t \in Trips, Complete(w, t) PROVE \E d, row : WriteDispatch(d, row)
      BY <1>3 DEF Complete
<1>4. UNCHANGED dispatch => OnlyReleases
      BY DEF OnlyReleases
<1>. QED BY <1>1, <1>2, <1>3, <1>4
         DEF Call, Assign, Create, Reassign, StandDown, Reschedule, TripStep, MobileAccept,
             Decline, Start, CancelTrip, EditTrip, Ground

\* A step of a handler leaves the dispatches alone or passes the trigger.
LEMMA StepOnDispatches ==
    ASSUME NEW w \in Workers, Step(w)
    PROVE  UNCHANGED dispatch \/ (\E d, row : WriteDispatch(d, row))
<1>1. ASSUME CommitAssign(w) \/ CommitCreate(w) \/ CommitReassign(w)
      PROVE  \E d, row : WriteDispatch(d, row)
      BY <1>1 DEF CommitAssign, DispatchFor, CommitCreate, CommitReassign
<1>2. ASSUME StandDownTx(w) PROVE UNCHANGED dispatch \/ \E d, row : WriteDispatch(d, row)
      BY <1>2 DEF StandDownTx
<1>3. ASSUME Flip(w) PROVE UNCHANGED dispatch \/ \E d, row : WriteDispatch(d, row)
      BY <1>3 DEF Flip
<1>4. ASSUME Busy(w) PROVE UNCHANGED dispatch \/ \E d, row : WriteDispatch(d, row)
      BY <1>4 DEF Busy
<1>5. ASSUME StartTx(w) \/ CancelTripTx(w) PROVE \E d, row : WriteDispatch(d, row)
      BY <1>5 DEF StartTx, CancelTripTx
<1>6. ASSUME GroundNext(w) PROVE UNCHANGED dispatch \/ \E d, row : WriteDispatch(d, row)
      BY <1>6 DEF GroundNext
<1>. QED BY <1>1, <1>2, <1>3, <1>4, <1>5, <1>6
         DEF Step, Screen, Gate, Evidence, Refused, EnsureTrip, InsertTrip, Load, Hop, RescheduleWrite,
             FlipRead, TripTx, DeclineWrite

\* NoDoubleBooking for every instance: no vehicle and no driver is held by two
\* live dispatches with overlapping windows, because every write that makes or
\* keeps a dispatch live passes guard_dispatch_overlap.
THEOREM NoDoubleBookingHolds == Spec => []NoDoubleBooking
<1>1. Init => NoDoubleBooking
  <2>1. ASSUME Init, NEW d \in Dispatches PROVE ~Live(d)
    <3>1. dispatch[d].status = "Absent"
          BY <2>1 DEF Init, NoDispatch
    <3>. QED BY <3>1 DEF Live, LiveDispatch
  <2>. QED BY <2>1 DEF NoDoubleBooking
<1>2. TypeOK /\ NoDoubleBooking /\ [Next]_vars => NoDoubleBooking'
  <2>. SUFFICES ASSUME TypeOK, NoDoubleBooking, [Next]_vars PROVE NoDoubleBooking'
       OBVIOUS
  <2>1. CASE UNCHANGED dispatch
        BY <2>1, ReleaseKeepsBookings DEF OnlyReleases
  <2>2. ASSUME NEW w \in Workers, Call(w) PROVE NoDoubleBooking'
        BY <2>2, CallOnDispatches, GuardedWriteKeepsBookings, ReleaseKeepsBookings
  <2>3. ASSUME NEW w \in Workers, Step(w) PROVE NoDoubleBooking'
        BY <2>1, <2>3, StepOnDispatches, GuardedWriteKeepsBookings
  <2>. QED BY <2>1, <2>2, <2>3 DEF Next, Crash, vars
<1>. QED BY <1>1, <1>2, TypeCorrect, PTL DEF Spec
------------------------------------------------------------------------------
(* Cancelled trips *)

\* A step that leaves every cancelled trip cancelled.
KeepsCancelled == \A t \in Trips : trip[t].status = "Cancelled" => trip'[t].status = "Cancelled"

\* Setting the status of a trip keeps the cancelled ones, unless it is set on one of them.
LEMMA SetOpenTripKeepsCancelled ==
    ASSUME TypeOK, NEW t, NEW status, SetTrip(t, status),
           trip[t].status = "Cancelled" => status = "Cancelled"
    PROVE  KeepsCancelled
BY DEF TypeOK, SetTrip, TripRow, KeepsCancelled

\* Cancelling open trips keeps the cancelled ones.
LEMMA CancelOpenTripsKeepsCancelled ==
    ASSUME TypeOK, NEW ds, CancelOpenTrips(ds)
    PROVE  KeepsCancelled
BY DEF TypeOK, CancelOpenTrips, OpenTrip, TerminalTrip, TripRow, KeepsCancelled

\* The adjacency map has no way out of Cancelled.
LEMMA NoWayOutOfCancelled ==
    ASSUME NEW to, CanTransitionTrip("Cancelled", to) PROVE to = "Cancelled"
BY DEF CanTransitionTrip, TerminalTrip

\* Nor has the edit of a row with odometer photos on.
LEMMA NoEditOutOfCancelled ==
    ASSUME NEW to, OdometerPhoto, EditAllowed("Cancelled", to) PROVE to = "Cancelled"
BY NoWayOutOfCancelled DEF EditAllowed, TerminalTrip, PreStart, LegacyTrip

\* No handler revives a cancelled trip as it is taken up ...
LEMMA CallOnTrips ==
    ASSUME TypeOK, NEW w \in Workers, Call(w), "editTrip" \in Handlers => OdometerPhoto
    PROVE  KeepsCancelled
<1>1. ASSUME NEW r \in Requests, CancelRequest(w, r) PROVE KeepsCancelled
      BY <1>1, CancelOpenTripsKeepsCancelled DEF CancelRequest
<1>2. ASSUME NEW t \in Trips, MobileAccept(w, t) PROVE KeepsCancelled
      BY <1>2, SetOpenTripKeepsCancelled, NoWayOutOfCancelled DEF MobileAccept
<1>3. ASSUME NEW t \in Trips, Complete(w, t) PROVE KeepsCancelled
      BY <1>3, SetOpenTripKeepsCancelled DEF Complete, OpenTrip, TerminalTrip
<1>4. ASSUME NEW t \in Trips, NEW to, NEW p, NEW d, EditTrip(w, t, to, p, d) PROVE KeepsCancelled
  <2>1. trip[t].status = "Cancelled" => to = "Cancelled"
        BY <1>4, NoEditOutOfCancelled DEF EditTrip
  <2>. QED BY <1>4, <2>1 DEF EditTrip, TypeOK, TripRow, KeepsCancelled
<1>5. UNCHANGED trip => KeepsCancelled
      BY DEF KeepsCancelled
<1>. QED BY <1>1, <1>2, <1>3, <1>4, <1>5
         DEF Call, Assign, Create, Reassign, StandDown, Reschedule, ApproveLeave, TripStep,
             Decline, Start, CancelTrip, Ground

\* ... nor at a later step.
LEMMA StepOnTrips ==
    ASSUME TypeOK, NEW w \in Workers, Step(w) PROVE KeepsCancelled
<1>0. UNCHANGED trip => KeepsCancelled
      BY DEF KeepsCancelled
<1>1. ASSUME InsertTrip(w) PROVE KeepsCancelled
      BY <1>1 DEF InsertTrip, FreshTrips, TypeOK, TripRow, KeepsCancelled
<1>2. ASSUME StandDownTx(w) PROVE KeepsCancelled
      BY <1>0, <1>2, CancelOpenTripsKeepsCancelled DEF StandDownTx
<1>3. ASSUME TripTx(w) PROVE KeepsCancelled
      BY <1>0, <1>3, SetOpenTripKeepsCancelled, NoWayOutOfCancelled DEF TripTx
<1>4. ASSUME DeclineWrite(w) \/ CancelTripTx(w) PROVE KeepsCancelled
      BY <1>4, SetOpenTripKeepsCancelled DEF DeclineWrite, CancelTripTx
<1>5. ASSUME StartTx(w) PROVE KeepsCancelled
      BY <1>5, SetOpenTripKeepsCancelled, NoWayOutOfCancelled DEF StartTx
<1>6. ASSUME GroundNext(w) PROVE KeepsCancelled
      BY <1>0, <1>6, CancelOpenTripsKeepsCancelled DEF GroundNext
<1>. QED BY <1>0, <1>1, <1>2, <1>3, <1>4, <1>5, <1>6
         DEF Step, Screen, Gate, Evidence, Refused, CommitAssign, CommitCreate, CommitReassign,
             EnsureTrip, Load, Hop, RescheduleWrite, FlipRead, Flip, Busy

\* CancelledTripStaysCancelled for every instance: acceptance, start, arrival and
\* completion repeat their gate where they write, so none of them revives a trip
\* that was cancelled while they were under way; and where administrators edit
\* trips by hand, the odometer photo regime locks the cancelled ones.
THEOREM CancelledTripStaysCancelledHolds ==
    ASSUME "editTrip" \in Handlers => OdometerPhoto
    PROVE  Spec => CancelledTripStaysCancelled
<1>1. TypeOK /\ [Next]_vars => [KeepsCancelled]_vars
  <2>1. ASSUME TypeOK, Next PROVE KeepsCancelled
        BY <2>1, CallOnTrips, StepOnTrips DEF Next, Crash, KeepsCancelled
  <2>. QED BY <2>1
<1>2. Spec => [][KeepsCancelled]_vars
      BY <1>1, TypeCorrect, PTL DEF Spec
<1>. QED BY <1>2, PTL DEF CancelledTripStaysCancelled, KeepsCancelled
------------------------------------------------------------------------------
(* One dispatch per request *)

\* What a handler that is under way runs is one of those served.
Served == \A w \in Workers : job[w].op \in Handlers \union {"none"}

\* No two rows of dispatchschedules name the same request, and a row that names one is there.
OwnDispatches ==
    /\ \A d \in Dispatches : dispatch[d].request # None => Raised(d)
    /\ \A d, e \in Dispatches :
          (dispatch[d].request = dispatch[e].request /\ dispatch[d].request # None) => d = e

\* A step that leaves each row its request and deletes none.
KeepsOwners ==
    \A d \in Dispatches : dispatch'[d].request = dispatch[d].request /\ (Raised(d) => Raised(d)')

\* A write to a row that leaves its request alone keeps the owners.
LEMMA SameOwnerWrite ==
    ASSUME TypeOK, NEW d, NEW row, WriteDispatch(d, row), row.status # "Absent",
           row.request = dispatch[d].request
    PROVE  KeepsOwners
BY DEF TypeOK, WriteDispatch, KeepsOwners, Raised

\* So does a write that sets the status of a row.
LEMMA StatusWrite ==
    ASSUME TypeOK, NEW d, NEW status, status # "Absent",
           WriteDispatch(d, [dispatch[d] EXCEPT !.status = status])
    PROVE  KeepsOwners
BY DEF TypeOK, DispatchRow, WriteDispatch, KeepsOwners, Raised

\* Who keeps the owners keeps them apart.
LEMMA KeepsOwnersKeepsApart ==
    ASSUME OwnDispatches, KeepsOwners PROVE OwnDispatches'
BY DEF OwnDispatches, KeepsOwners

\* Handlers that are taken up, and those that run one step, leave the owners alone.
LEMMA CallOnOwners ==
    ASSUME TypeOK, NEW w \in Workers, Call(w) PROVE KeepsOwners
<1>1. ASSUME NEW r \in Requests, CancelRequest(w, r) PROVE KeepsOwners
      BY <1>1 DEF CancelRequest, KeepsOwners, Raised, TypeOK, DispatchRow
<1>2. ASSUME NEW driver \in Drivers, NEW covered, ApproveLeave(w, driver, covered)
      PROVE  KeepsOwners
      BY <1>2 DEF ApproveLeave, KeepsOwners, Raised, TypeOK, DispatchRow
<1>3. ASSUME NEW t \in Trips, Complete(w, t) PROVE KeepsOwners
      BY <1>3, StatusWrite DEF Complete
<1>4. UNCHANGED dispatch => KeepsOwners
      BY DEF KeepsOwners, Raised
<1>. QED BY <1>1, <1>2, <1>3, <1>4
         DEF Call, Assign, Create, Reassign, StandDown, Reschedule, TripStep, MobileAccept,
             Decline, Start, CancelTrip, EditTrip, Ground

\* Of the later steps only the commit of an assignment or of a creation does not.
LEMMA StepOnOwners ==
    ASSUME TypeOK, NEW w \in Workers, Step(w)
    PROVE  KeepsOwners \/ CommitAssign(w) \/ CommitCreate(w)
<1>0. UNCHANGED dispatch => KeepsOwners
      BY DEF KeepsOwners, Raised
<1>1. ASSUME CommitReassign(w) PROVE KeepsOwners
  <2>. DEFINE d == job[w].dispatch
              row == [dispatch[d] EXCEPT !.pair = job[w].pair, !.window = job[w].window]
  <2>1. d \in Dispatches /\ WriteDispatch(d, row)
        BY <1>1 DEF CommitReassign, TypeOK, WellFormed
  <2>. QED BY <2>1 DEF WriteDispatch, KeepsOwners, Raised, TypeOK, DispatchRow
<1>2. ASSUME StandDownTx(w) PROVE KeepsOwners
      BY <1>0, <1>2, StatusWrite DEF StandDownTx
<1>3. ASSUME Flip(w) PROVE KeepsOwners
  <2>1. job[w].to # "Absent"
        BY <1>3 DEF Flip, At, TypeOK, WellFormed, DispatchStatus
  <2>. QED BY <1>0, <1>3, <2>1, StatusWrite DEF Flip
<1>4. ASSUME Busy(w) PROVE KeepsOwners
      BY <1>0, <1>4, StatusWrite DEF Busy
<1>5. ASSUME StartTx(w) \/ CancelTripTx(w) PROVE KeepsOwners
      BY <1>5, StatusWrite DEF StartTx, CancelTripTx
<1>6. ASSUME GroundNext(w) PROVE KeepsOwners
  <2>1. ASSUME NEW d, WriteDispatch(d, [dispatch[d] EXCEPT !.status = "Pending Reassignment",
                                                            !.pair = NoPair])
        PROVE  KeepsOwners
        BY <2>1 DEF WriteDispatch, KeepsOwners, Raised, TypeOK, DispatchRow
  <2>. QED BY <1>0, <1>6, <2>1 DEF GroundNext
<1>. QED BY <1>0, <1>1, <1>2, <1>3, <1>4, <1>5, <1>6
         DEF Step, Screen, Gate, Evidence, Refused, EnsureTrip, InsertTrip, Load, Hop, RescheduleWrite,
             FlipRead, TripTx, DeclineWrite

\* An assignment inserts a row only for a request that no row names: the newest
\* row of a request that has one is reused.
LEMMA CommitAssignKeepsApart ==
    ASSUME TypeOK, OwnDispatches, NEW w \in Workers, CommitAssign(w)
    PROVE  OwnDispatches'
<1>. DEFINE r == job[w].request
<1>1. PICK d \in Dispatches : DispatchFor(job[w], d)
      BY DEF CommitAssign
<1>2. CASE DispatchesOf(r) = {}
  <2>1. WriteDispatch(d, NewDispatch(job[w]))
        BY <1>1, <1>2 DEF DispatchFor
  <2>2. \A e \in Dispatches : r # None => dispatch[e].request # r
        BY <1>2 DEF DispatchesOf, OwnDispatches
  <2>3. \A e \in Dispatches : dispatch'[e] = IF e = d THEN NewDispatch(job[w]) ELSE dispatch[e]
        BY <2>1 DEF WriteDispatch, TypeOK
  <2>. QED BY <2>2, <2>3 DEF OwnDispatches, NewDispatch, Raised
<1>3. CASE DispatchesOf(r) # {}
  <2>1. WriteDispatch(d, [dispatch[d] EXCEPT !.pair = job[w].pair, !.window = job[w].window])
        BY <1>1, <1>3 DEF DispatchFor
  <2>2. KeepsOwners
        BY <2>1 DEF WriteDispatch, KeepsOwners, Raised, TypeOK, DispatchRow
  <2>. QED BY <2>2, KeepsOwnersKeepsApart
<1>. QED BY <1>2, <1>3

\* A handler is only taken up where it is served.
LEMMA CallServed ==
    ASSUME TypeOK, Served, NEW w \in Workers, Call(w) PROVE Served'
<1>1. ASSUME NEW h, NEW j, Begin(w, h, j), [j EXCEPT !.op = h].op = h PROVE Served'
      BY <1>1 DEF Begin, Served, TypeOK
<1>2. ASSUME NEW r \in Requests, NEW p \in Pairs, Assign(w, r, p) PROVE Served'
      BY <1>1, <1>2 DEF Assign, Idle
<1>3. ASSUME NEW r \in Requests, NEW p \in Pairs, NEW window \in Windows, Create(w, r, p, window)
      PROVE  Served'
      BY <1>1, <1>3 DEF Create, Idle
<1>4. ASSUME NEW d \in Dispatches, NEW p \in Pairs, NEW window \in Windows, Reassign(w, d, p, window)
      PROVE  Served'
      BY <1>1, <1>4 DEF Reassign, Idle
<1>5. ASSUME NEW d \in Dispatches, StandDown(w, d) PROVE Served'
      BY <1>1, <1>5 DEF StandDown, Idle
<1>6. ASSUME NEW r \in Requests, NEW window \in Windows, Reschedule(w, r, window) PROVE Served'
      BY <1>1, <1>6 DEF Reschedule, Idle
<1>7. ASSUME NEW t \in Trips, NEW to \in DriverSteps, TripStep(w, t, to) PROVE Served'
      BY <1>1, <1>7 DEF TripStep, TripJob, Idle
<1>8. ASSUME NEW t \in Trips, Decline(w, t) \/ Start(w, t) \/ Complete(w, t) \/ CancelTrip(w, t)
      PROVE  Served'
      BY <1>1, <1>8 DEF Decline, Start, Complete, CancelTrip, TripJob, Idle
<1>9. ASSUME NEW v \in Vehicles, NEW soon, Ground(w, v, soon) PROVE Served'
      BY <1>1, <1>9 DEF Ground, Idle
<1>10. UNCHANGED job => Served'
      BY DEF Served
<1>. QED BY <1>2, <1>3, <1>4, <1>5, <1>6, <1>7, <1>8, <1>9, <1>10
         DEF Call, CancelRequest, ApproveLeave, MobileAccept, EditTrip

\* A handler stays what it is until it ends.
LEMMA StepServed ==
    ASSUME TypeOK, Served, NEW w \in Workers, Step(w) \/ Crash(w) PROVE Served'
<1>0. \A v \in Workers : job[v] \in Job
      BY DEF TypeOK
<1>1. ASSUME Finish(w) PROVE Served'
      BY <1>1 DEF Finish, Idle, Served, TypeOK
<1>2. ASSUME NEW step, Goto(w, step) PROVE Served'
      BY <1>0, <1>2 DEF Goto, Served, TypeOK, Job
<1>3. ASSUME NEW d, NEW step, Committed(w, d, step) PROVE Served'
      BY <1>0, <1>3 DEF Committed, Served, TypeOK, Job
<1>4. ASSUME NEW j, job' = [job EXCEPT ![w] = j], j.op = job[w].op PROVE Served'
      BY <1>4 DEF Served, TypeOK
<1>5. ASSUME Evidence(w) PROVE Served'
  <2>. DEFINE j == [job[w] EXCEPT !.evidence = Revision(job[w].request, job[w].pair),
                                  !.pc = CASE job[w].op = "assign" -> "load"
                                           [] job[w].op = "start"  -> "startTx"
                                           [] OTHER                -> "commit"]
  <2>1. Finish(w) \/ job' = [job EXCEPT ![w] = j]
        BY <1>5 DEF Evidence
  <2>2. j.op = job[w].op
        BY <1>0 DEF Job
  <2>. HIDE DEF j
  <2>. QED BY <1>1, <1>4, <2>1, <2>2
<1>6. ASSUME EnsureTrip(w) \/ InsertTrip(w) PROVE Served'
  <2>. DEFINE j == [job[w] EXCEPT !.seen = dispatch[job[w].dispatch].pair, !.pc = "insert"]
  <2>1. Finish(w) \/ (\E step : Goto(w, step)) \/ job' = [job EXCEPT ![w] = j]
        BY <1>6 DEF EnsureTrip, InsertTrip, AfterEnsure
  <2>2. j.op = job[w].op
        BY <1>0 DEF Job
  <2>. HIDE DEF j
  <2>. QED BY <1>1, <1>2, <1>4, <2>1, <2>2
<1>7. ASSUME Load(w) \/ Hop(w) PROVE Served'
  <2>1. Finish(w) \/ \E path, step : job' = [job EXCEPT ![w].path = path, ![w].pc = step]
        BY <1>7, Zenon DEF Load, Hop
  <2>2. ASSUME NEW path, NEW step, job' = [job EXCEPT ![w].path = path, ![w].pc = step] PROVE Served'
    <3>. DEFINE j == [job[w] EXCEPT !.path = path, !.pc = step]
    <3>1. job' = [job EXCEPT ![w] = j] /\ j.op = job[w].op
          BY <1>0, <2>2 DEF Job
    <3>. HIDE DEF j
    <3>. QED BY <1>4, <3>1
  <2>. QED BY <1>1, <2>1, <2>2
<1>8. ASSUME CommitAssign(w) \/ CommitCreate(w) \/ CommitReassign(w) \/ StartTx(w) PROVE Served'
      BY <1>1, <1>3, <1>8 DEF CommitAssign, CommitCreate, CommitReassign, StartTx
<1>9. ASSUME Screen(w) \/ Gate(w) \/ FlipRead(w) \/ Flip(w) \/ TripTx(w) \/ Busy(w) \/ CancelTripTx(w)
      PROVE  Served'
      BY <1>1, <1>2, <1>9 DEF Screen, Gate, FlipRead, Flip, TripTx, Busy, CancelTripTx
<1>10. ASSUME GroundNext(w) PROVE Served'
  <2>1. ASSUME NEW hit, job' = [job EXCEPT ![w].todo = @ \ {hit}] PROVE Served'
    <3>. DEFINE j == [job[w] EXCEPT !.todo = @ \ {hit}]
    <3>1. job' = [job EXCEPT ![w] = j] /\ j.op = job[w].op
          BY <1>0, <2>1 DEF Job
    <3>. HIDE DEF j
    <3>. QED BY <1>4, <3>1
  <2>2. ASSUME NEW hit, job' = [job EXCEPT ![w].todo = @ \ {hit}, ![w].pc = "flipRead",
                                   ![w].dispatch = hit[1], ![w].to = "Pending Reassignment"]
        PROVE  Served'
    <3>. DEFINE j == [job[w] EXCEPT !.todo = @ \ {hit}, !.pc = "flipRead",
                                    !.dispatch = hit[1], !.to = "Pending Reassignment"]
    <3>1. job' = [job EXCEPT ![w] = j] /\ j.op = job[w].op
          BY <1>0, <2>2 DEF Job
    <3>. HIDE DEF j
    <3>. QED BY <1>4, <3>1
  <2>. QED BY <1>1, <1>10, <2>1, <2>2 DEF GroundNext
<1>. QED BY <1>1, <1>5, <1>6, <1>7, <1>8, <1>9, <1>10
         DEF Step, Refused, StandDownTx, RescheduleWrite, DeclineWrite, Crash

\* Where POST /api/dispatch is not served, the rows of the requests stay apart.
LEMMA OwnersStayApart ==
    ASSUME "create" \notin Handlers
    PROVE  Spec => [](Served /\ OwnDispatches)
<1>1. Init => Served /\ OwnDispatches
      BY DEF Init, Idle, NoDispatch, Served, OwnDispatches
<1>2. TypeOK /\ Served /\ OwnDispatches /\ [Next]_vars => (Served /\ OwnDispatches)'
  <2>. SUFFICES ASSUME TypeOK, Served, OwnDispatches, [Next]_vars PROVE Served' /\ OwnDispatches'
       OBVIOUS
  <2>1. CASE UNCHANGED vars
        BY <2>1 DEF vars, Served, OwnDispatches, Raised
  <2>2. ASSUME NEW w \in Workers, Call(w) PROVE Served' /\ OwnDispatches'
        BY <2>2, CallServed, CallOnOwners, KeepsOwnersKeepsApart
  <2>3. ASSUME NEW w \in Workers, Step(w) PROVE Served' /\ OwnDispatches'
    <3>1. ~CommitCreate(w)
          BY DEF CommitCreate, Served
    <3>. QED BY <2>3, <3>1, StepServed, StepOnOwners, CommitAssignKeepsApart, KeepsOwnersKeepsApart
  <2>4. ASSUME NEW w \in Workers, Crash(w) PROVE Served' /\ OwnDispatches'
        BY <2>4, StepServed DEF Crash, OwnDispatches, Raised
  <2>. QED BY <2>1, <2>2, <2>3, <2>4 DEF Next
<1>. QED BY <1>1, <1>2, TypeCorrect, PTL DEF Spec

\* OneDispatchPerRequest for every instance that does not serve POST /api/dispatch:
\* however many assignments are retried or race, each decides by the row that is
\* there at its commit, so the rows of one request are never two.
THEOREM OneDispatchPerRequestHolds ==
    ASSUME "create" \notin Handlers
    PROVE  Spec => []OneDispatchPerRequest
<1>1. OwnDispatches => OneDispatchPerRequest
  <2>. SUFFICES ASSUME OwnDispatches, NEW r \in Requests PROVE Cardinality(DispatchesOf(r)) <= 1
       BY DEF OneDispatchPerRequest
  <2>1. CASE DispatchesOf(r) = {}
        BY <2>1, FS_EmptySet
  <2>2. CASE DispatchesOf(r) # {}
    <3>1. r # None
          BY DataAssumption
    <3>2. PICK d : d \in DispatchesOf(r)
          BY <2>2
    <3>3. DispatchesOf(r) = {d}
          BY <3>1, <3>2 DEF DispatchesOf, OwnDispatches
    <3>4. Cardinality(DispatchesOf(r)) = 1
          BY <3>3, FS_Singleton, Zenon
    <3>. QED BY <3>4
  <2>. QED BY <2>1, <2>2
<1>. QED BY <1>1, OwnersStayApart, PTL

------------------------------------------------------------------------------
(* Completed requests *)

\* A trip of the request has ended.
Earned(r) == \E t \in Trips : trip[t].status \in TerminalTrip /\ trip[t].dispatch \in DispatchesOf(r)

\* The handler is on its way to complete its request.
Promises(j) == j.goal = "Completed" \/ \E i \in 1..Len(j.path) : j.path[i] = "Completed"

\* A dispatch row that names a request is there.
RowsNamed == \A d \in Dispatches : dispatch[d].request # None => Raised(d)

PromisesEarned == \A w \in Workers, r \in Requests : (Promises(job[w]) /\ job[w].request = r) => Earned(r)

HadTripInv == RowsNamed /\ PromisesEarned /\ CompletedRequestHadTrip

\* Steps that leave what is over as it is ...
TripsStayOver ==
    \A t \in Trips : trip[t].status \in TerminalTrip
                       => trip'[t].status \in TerminalTrip /\ trip'[t].dispatch = trip[t].dispatch
OwnersStay ==
    \A d \in Dispatches :
        /\ Raised(d) => Raised(d)' /\ dispatch'[d].request = dispatch[d].request
        /\ dispatch'[d].request # None => dispatch[d].request # None \/ Raised(d)'

\* ... promise no more than was promised, and complete only what was promised.
NoNewPromise ==
    \A w \in Workers : Promises(job'[w]) => Promises(job[w]) /\ job'[w].request = job[w].request
CompletesAsPromised ==
    \A r \in Requests :
        request'[r].status = "Completed"
          => \/ request[r].status = "Completed"
             \/ \E w \in Workers : Promises(job[w]) /\ job[w].request = r

\* What was earned stays earned.
LEMMA EarnedStays ==
    ASSUME TripsStayOver, OwnersStay, NEW r, Earned(r) PROVE Earned(r)'
BY DEF Earned, DispatchesOf, TripsStayOver, OwnersStay

\* Such a step keeps the invariant.
LEMMA PromisesKept ==
    ASSUME HadTripInv, TripsStayOver, OwnersStay, NoNewPromise, CompletesAsPromised
    PROVE  HadTripInv'
<1>1. RowsNamed'
      BY DEF HadTripInv, RowsNamed, OwnersStay
<1>2. \A r \in Requests : Earned(r) => Earned(r)'
      BY EarnedStays
<1>3. PromisesEarned'
      BY <1>2 DEF HadTripInv, PromisesEarned, NoNewPromise
<1>4. \A r \in Requests : request'[r].status = "Completed" => Earned(r)'
      BY <1>2 DEF HadTripInv, PromisesEarned, CompletesAsPromised, CompletedRequestHadTrip, Earned
<1>5. CompletedRequestHadTrip'
      BY <1>4 DEF CompletedRequestHadTrip, Earned
<1>. QED BY <1>1, <1>3, <1>5 DEF HadTripInv

\* No walk passes through Completed: only the goal can be Completed.
LEMMA PathCompletesAtItsEnd ==
    ASSUME NEW from, NEW to, TransitionPath(from, to) # NoPath,
           NEW i \in 1..Len(Tail(TransitionPath(from, to))),
           Tail(TransitionPath(from, to))[i] = "Completed"
    PROVE  to = "Completed"
<1>1. CASE from = to
  <2>1. TransitionPath(from, to) = <<from>>
        BY <1>1 DEF TransitionPath
  <2>2. Len(Tail(<<from>>)) = 0
        OBVIOUS
  <2>. QED BY <2>1, <2>2
<1>2. CASE from # to /\ to = "Cancelled"
  <2>1. TransitionPath(from, to) = <<from, "Cancelled">>
        BY <1>2 DEF TransitionPath
  <2>2. Tail(<<from, "Cancelled">>) = <<"Cancelled">>
        OBVIOUS
  <2>. QED BY <2>1, <2>2
<1>3. CASE from # to /\ to # "Cancelled"
  <2>. DEFINE p == TransitionPath(from, to)
  <2>1. p \in Walks(from, to)
        BY <1>3, ShortestWalk DEF TransitionPath, NoPath
  <2>2. p \in Seq(ReservationStatus) /\ Len(p) \in 2..5 /\ p[Len(p)] = to
        BY <2>1, WalkType DEF MaxWalk
  <2>3. IsWalk(p)
        BY <2>1 DEF Walks, AllWalks
  <2>. HIDE DEF p
  <2>4. i + 1 \in 2..Len(p) /\ p[i + 1] = "Completed"
        BY <2>2 DEF p
  <2>5. CASE i + 1 < Len(p)
    <3>1. <<p[i + 1], p[i + 2]>> \in ReservationNext
          BY <2>2, <2>3, <2>4, <2>5 DEF IsWalk
    <3>. QED BY <2>4, <3>1 DEF ReservationNext
  <2>. QED BY <2>2, <2>4, <2>5
<1>. QED BY <1>1, <1>2, <1>3

\* Setting the status of a trip whose end is not undone leaves the ended trips ended.
LEMMA SetTripStaysOver ==
    ASSUME TypeOK, NEW t, NEW status, SetTrip(t, status),
           t \in Trips /\ trip[t].status \in TerminalTrip => status \in TerminalTrip
    PROVE  TripsStayOver
BY DEF TypeOK, SetTrip, TripRow, TripsStayOver

\* So does cancelling the open trips of some dispatches.
LEMMA CancelOpenTripsStaysOver ==
    ASSUME TypeOK, NEW ds, CancelOpenTrips(ds) PROVE TripsStayOver
BY DEF TypeOK, CancelOpenTrips, OpenTrip, TerminalTrip, TripRow, TripsStayOver

\* The adjacency map leaves no terminal status.
LEMMA NoWayOutOfTheEnd ==
    ASSUME NEW from \in TerminalTrip, NEW to, CanTransitionTrip(from, to) PROVE to \in TerminalTrip
BY DEF CanTransitionTrip

\* Without edits by hand no handler undoes the end of a trip as it is taken up ...
LEMMA CallOnEnds ==
    ASSUME TypeOK, NEW w \in Workers, Call(w), "editTrip" \notin Handlers PROVE TripsStayOver
<1>1. ASSUME NEW r \in Requests, CancelRequest(w, r) PROVE TripsStayOver
      BY <1>1, CancelOpenTripsStaysOver DEF CancelRequest
<1>2. ASSUME NEW t \in Trips, MobileAccept(w, t) PROVE TripsStayOver
  <2>1. trip[t].status \notin TerminalTrip
        BY <1>2 DEF MobileAccept, CanTransitionTrip, TerminalTrip
  <2>. QED BY <1>2, <2>1, SetTripStaysOver DEF MobileAccept
<1>3. ASSUME NEW t \in Trips, Complete(w, t) PROVE TripsStayOver
      BY <1>3, SetTripStaysOver DEF Complete, TerminalTrip
<1>4. UNCHANGED trip => TripsStayOver
      BY DEF TripsStayOver
<1>. QED BY <1>1, <1>2, <1>3, <1>4
         DEF Call, Assign, Create, Reassign, StandDown, Reschedule, ApproveLeave, TripStep,
             Decline, Start, CancelTrip, EditTrip, Ground

\* ... nor at a later step.
LEMMA StepOnEnds ==
    ASSUME TypeOK, NEW w \in Workers, Step(w) PROVE TripsStayOver
<1>0. UNCHANGED trip => TripsStayOver
      BY DEF TripsStayOver
<1>1. ASSUME InsertTrip(w) PROVE TripsStayOver
      BY <1>1 DEF InsertTrip, FreshTrips, TypeOK, TripRow, TerminalTrip, TripsStayOver
<1>2. ASSUME StandDownTx(w) PROVE TripsStayOver
      BY <1>0, <1>2, CancelOpenTripsStaysOver DEF StandDownTx
<1>3. ASSUME TripTx(w) PROVE TripsStayOver
      BY <1>0, <1>3, SetTripStaysOver, NoWayOutOfTheEnd DEF TripTx
<1>4. ASSUME DeclineWrite(w) \/ CancelTripTx(w) PROVE TripsStayOver
      BY <1>4, SetTripStaysOver DEF DeclineWrite, CancelTripTx, TerminalTrip
<1>5. ASSUME StartTx(w) PROVE TripsStayOver
      BY <1>5, SetTripStaysOver, NoWayOutOfTheEnd DEF StartTx
<1>6. ASSUME GroundNext(w) PROVE TripsStayOver
      BY <1>0, <1>6, CancelOpenTripsStaysOver DEF GroundNext
<1>. QED BY <1>0, <1>1, <1>2, <1>3, <1>4, <1>5, <1>6
         DEF Step, Screen, Gate, Evidence, Refused, CommitAssign, CommitCreate, CommitReassign,
             EnsureTrip, Load, Hop, RescheduleWrite, FlipRead, Flip, Busy

\* A row is inserted where there was none, and no row changes its request.
LEMMA StepOnRows ==
    ASSUME TypeOK, NEW w \in Workers, Step(w) PROVE OwnersStay
<1>1. KeepsOwners => OwnersStay
      BY DEF KeepsOwners, OwnersStay
<1>2. ASSUME NEW d \in FreshDispatches, WriteDispatch(d, NewDispatch(job[w])) PROVE OwnersStay
      BY <1>2 DEF FreshDispatches, WriteDispatch, NewDispatch, Raised, OwnersStay, TypeOK
<1>3. ASSUME NEW d, WriteDispatch(d, [dispatch[d] EXCEPT !.pair = job[w].pair, !.window = job[w].window])
      PROVE  KeepsOwners
      BY <1>3 DEF WriteDispatch, KeepsOwners, Raised, TypeOK, DispatchRow
<1>4. ASSUME CommitAssign(w) PROVE OwnersStay
      BY <1>1, <1>2, <1>3, <1>4 DEF CommitAssign, DispatchFor
<1>5. ASSUME CommitCreate(w) PROVE OwnersStay
      BY <1>2, <1>5 DEF CommitCreate
<1>. QED BY <1>1, <1>4, <1>5, StepOnOwners

\* A handler that is taken up promises nothing, but for the completion of a trip,
\* which ends the trip in the same transaction.
LEMMA CallOnPromises ==
    ASSUME TypeOK, NEW w \in Workers, Call(w)
    PROVE  /\ CompletesAsPromised
           /\ (NoNewPromise /\ OwnersStay) \/ \E t \in Trips : Complete(w, t)
<1>1. ASSUME NEW h, NEW j, Begin(w, h, j), [j EXCEPT !.op = h].goal # "Completed",
             [j EXCEPT !.op = h].path = <<>>
      PROVE  NoNewPromise
      BY <1>1 DEF Begin, NoNewPromise, Promises, TypeOK
<1>2. ASSUME NEW r \in Requests, NEW p \in Pairs, Assign(w, r, p) PROVE NoNewPromise
      BY <1>1, <1>2 DEF Assign, Idle
<1>3. ASSUME NEW r \in Requests, NEW p \in Pairs, NEW window \in Windows, Create(w, r, p, window)
      PROVE  NoNewPromise
      BY <1>1, <1>3 DEF Create, Idle
<1>4. ASSUME NEW d \in Dispatches, NEW p \in Pairs, NEW window \in Windows, Reassign(w, d, p, window)
      PROVE  NoNewPromise
      BY <1>1, <1>4 DEF Reassign, Idle
<1>5. ASSUME NEW d \in Dispatches, StandDown(w, d) PROVE NoNewPromise
      BY <1>1, <1>5 DEF StandDown, Idle
<1>6. ASSUME NEW r \in Requests, NEW window \in Windows, Reschedule(w, r, window) PROVE NoNewPromise
      BY <1>1, <1>6 DEF Reschedule, Idle
<1>7. ASSUME NEW t \in Trips, NEW to \in DriverSteps, TripStep(w, t, to) PROVE NoNewPromise
      BY <1>1, <1>7 DEF TripStep, TripJob, Idle
<1>8. ASSUME NEW t \in Trips, Decline(w, t) \/ Start(w, t) \/ CancelTrip(w, t)
      PROVE  NoNewPromise
      BY <1>1, <1>8 DEF Decline, Start, CancelTrip, TripJob, Idle
<1>9. ASSUME NEW v \in Vehicles, NEW soon, Ground(w, v, soon) PROVE NoNewPromise
      BY <1>1, <1>9 DEF Ground, Idle
<1>10. UNCHANGED job => NoNewPromise
      BY DEF NoNewPromise
<1>11. NoNewPromise \/ \E t \in Trips : Complete(w, t)
      BY <1>2, <1>3, <1>4, <1>5, <1>6, <1>7, <1>8, <1>9, <1>10
         DEF Call, CancelRequest, ApproveLeave, MobileAccept, EditTrip
<1>12. OwnersStay
      BY CallOnOwners DEF KeepsOwners, OwnersStay
<1>13. ASSUME NEW r \in Requests, CancelRequest(w, r) PROVE CompletesAsPromised
      BY <1>13 DEF CancelRequest, CompletesAsPromised, TypeOK, RequestRow
<1>14. UNCHANGED request => CompletesAsPromised
      BY DEF CompletesAsPromised
<1>15. CompletesAsPromised
      BY <1>13, <1>14
         DEF Call, Assign, Create, Reassign, StandDown, Reschedule, ApproveLeave, TripStep,
             MobileAccept, Decline, Start, Complete, CancelTrip, EditTrip, Ground
<1>. QED BY <1>11, <1>12, <1>15

\* The trip that was just completed earns the completion of its request.
LEMMA CompleteKeepsPromises ==
    ASSUME TypeOK, HadTripInv, NEW w \in Workers, NEW t \in Trips, Complete(w, t)
    PROVE  HadTripInv'
<1>. PICK d, r, j : /\ d = trip[t].dispatch /\ r = dispatch[d].request
                    /\ j = [TripJob(t, "load", "Completed") EXCEPT !.op = "complete"]
     OBVIOUS
<1>1. d \in Dispatches /\ trip[t].status # "Absent"
      BY DEF Complete, OpenTrip, TypeOK
<1>2. TripsStayOver
      BY SetTripStaysOver DEF Complete, TerminalTrip
<1>3. KeepsOwners
      BY StatusWrite DEF Complete
<1>4. OwnersStay
      BY <1>3 DEF KeepsOwners, OwnersStay
<1>5. trip'[t].status \in TerminalTrip /\ trip'[t].dispatch = d
      BY <1>1 DEF Complete, SetTrip, TypeOK, TripRow, TerminalTrip
<1>6. r \in Requests => Earned(r)'
  <2>1. r # None => Raised(d)' /\ dispatch'[d].request = r
        BY <1>1, <1>3 DEF HadTripInv, RowsNamed, KeepsOwners
  <2>2. r \in Requests => d \in DispatchesOf(r)'
        BY <1>1, <2>1, DataAssumption DEF DispatchesOf, Raised
  <2>. QED BY <1>5, <2>2 DEF Earned
<1>7. \A q \in Requests : Earned(q) => Earned(q)'
      BY <1>2, <1>4, EarnedStays
<1>8. j.request = r
      BY DEF TripJob, Idle
<1>9. job' = [job EXCEPT ![w] = j]
      BY DEF Complete, Begin
<1>10. PromisesEarned'
      BY <1>6, <1>7, <1>8, <1>9 DEF PromisesEarned, HadTripInv, TypeOK
<1>11. RowsNamed'
      BY <1>4 DEF HadTripInv, RowsNamed, OwnersStay
<1>12. CompletedRequestHadTrip'
  <2>1. \A q \in Requests : request'[q].status = "Completed" => Earned(q)'
        BY <1>7 DEF HadTripInv, CompletedRequestHadTrip, Earned, Complete
  <2>. QED BY <2>1 DEF CompletedRequestHadTrip, Earned
<1>. QED BY <1>10, <1>11, <1>12 DEF HadTripInv

\* A handler walks its request along its path: it reaches Completed only where
\* that is its goal.
LEMMA StepOnPromises ==
    ASSUME TypeOK, NEW w \in Workers, Step(w) \/ Crash(w) PROVE NoNewPromise
<1>0. job[w] \in Job /\ \A v \in Workers : job[v] \in Job
      BY DEF TypeOK
<1>1. ASSUME Finish(w) PROVE NoNewPromise
  <2>1. ~Promises(Idle)
        BY DEF Promises, Idle
  <2>. QED BY <1>1, <2>1 DEF Finish, NoNewPromise, TypeOK
<1>2. ASSUME NEW j, job' = [job EXCEPT ![w] = j], j.goal = job[w].goal, j.path = job[w].path,
             j.request = job[w].request
      PROVE  NoNewPromise
      BY <1>2 DEF NoNewPromise, Promises, TypeOK
<1>3. ASSUME NEW step, Goto(w, step) PROVE NoNewPromise
  <2>. DEFINE j == [job[w] EXCEPT !.pc = step]
  <2>1. job' = [job EXCEPT ![w] = j]
        BY <1>3 DEF Goto
  <2>2. j.goal = job[w].goal /\ j.path = job[w].path /\ j.request = job[w].request
        BY <1>0 DEF Job
  <2>. HIDE DEF j
  <2>. QED BY <1>2, <2>1, <2>2
<1>4. ASSUME NEW j, job' = [job EXCEPT ![w] = j], j.goal = job[w].goal, j.request = job[w].request,
             \A i \in 1..Len(j.path) : j.path[i] = "Completed" => Promises(job[w])
      PROVE  NoNewPromise
  <2>1. Promises(j) => Promises(job[w])
        BY <1>4 DEF Promises
  <2>. QED BY <1>4, <2>1 DEF NoNewPromise, TypeOK
<1>5. ASSUME NEW d, NEW step, Committed(w, d, step) PROVE NoNewPromise
  <2>. DEFINE j == [job[w] EXCEPT !.evidence = NoEvidence, !.path = <<>>, !.dispatch = d, !.pc = step]
  <2>1. job' = [job EXCEPT ![w] = j]
        BY <1>5 DEF Committed
  <2>2. j.goal = job[w].goal /\ j.path = <<>> /\ j.request = job[w].request
        BY <1>0 DEF Job
  <2>3. 1..Len(<<>>) = {}
        OBVIOUS
  <2>. HIDE DEF j
  <2>. QED BY <1>4, <2>1, <2>2, <2>3
<1>6. ASSUME Evidence(w) PROVE NoNewPromise
  <2>. DEFINE j == [job[w] EXCEPT !.evidence = Revision(job[w].request, job[w].pair),
                                  !.pc = CASE job[w].op = "assign" -> "load"
                                           [] job[w].op = "start"  -> "startTx"
                                           [] OTHER                -> "commit"]
  <2>1. Finish(w) \/ job' = [job EXCEPT ![w] = j]
        BY <1>6 DEF Evidence
  <2>2. j.goal = job[w].goal /\ j.path = job[w].path /\ j.request = job[w].request
        BY <1>0 DEF Job
  <2>. HIDE DEF j
  <2>. QED BY <1>1, <1>2, <2>1, <2>2
<1>7. ASSUME EnsureTrip(w) \/ InsertTrip(w) PROVE NoNewPromise
  <2>. DEFINE j == [job[w] EXCEPT !.seen = dispatch[job[w].dispatch].pair, !.pc = "insert"]
  <2>1. Finish(w) \/ (\E step : Goto(w, step)) \/ job' = [job EXCEPT ![w] = j]
        BY <1>7 DEF EnsureTrip, InsertTrip, AfterEnsure
  <2>2. j.goal = job[w].goal /\ j.path = job[w].path /\ j.request = job[w].request
        BY <1>0 DEF Job
  <2>. HIDE DEF j
  <2>. QED BY <1>1, <1>2, <1>3, <2>1, <2>2
<1>8. ASSUME Load(w) PROVE NoNewPromise
  <2>. DEFINE path == TransitionPath(request[job[w].request].status, job[w].goal)
              hops == IF path = NoPath THEN <<>> ELSE Tail(path)
              step == IF job[w].op = "assign" /\ Len(hops) <= 1 THEN "commit" ELSE "hop"
              j == [job[w] EXCEPT !.path = hops, !.pc = step]
  <2>1. Finish(w) \/ job' = [job EXCEPT ![w] = j]
        BY <1>8 DEF Load
  <2>2. j.goal = job[w].goal /\ j.path = hops /\ j.request = job[w].request
        BY <1>0 DEF Job
  <2>3. ASSUME NEW i \in 1..Len(hops), hops[i] = "Completed" PROVE Promises(job[w])
    <3>1. path # NoPath
          BY <2>3
    <3>2. job[w].goal = "Completed"
          BY <2>3, <3>1, PathCompletesAtItsEnd
    <3>. QED BY <3>2 DEF Promises
  <2>. HIDE DEF j, hops
  <2>. QED BY <1>1, <1>4, <2>1, <2>2, <2>3
<1>9. ASSUME Hop(w) PROVE NoNewPromise
  <2>. DEFINE path == job[w].path
              step == IF job[w].op = "assign" /\ Len(path) = 2 THEN "commit" ELSE "hop"
              j == [job[w] EXCEPT !.path = Tail(path), !.pc = step]
  <2>1. Len(path) <= 1 => Finish(w)
        BY <1>9 DEF Hop
  <2>2. ~(Len(path) <= 1) => job' = [job EXCEPT ![w] = j]
        BY <1>9 DEF Hop
  <2>3. path \in Seq(ReservationStatus) /\ Len(path) \in Nat
        BY <1>0 DEF Job
  <2>4. j.goal = job[w].goal /\ j.path = Tail(path) /\ j.request = job[w].request
        BY <1>0 DEF Job
  <2>5. ASSUME ~(Len(path) <= 1), NEW i \in 1..Len(Tail(path)), Tail(path)[i] = "Completed"
        PROVE  Promises(job[w])
    <3>1. i + 1 \in 1..Len(path) /\ path[i + 1] = "Completed"
          BY <2>3, <2>5
    <3>. QED BY <3>1 DEF Promises
  <2>. HIDE DEF j, path
  <2>. QED BY <1>1, <1>4, <2>1, <2>2, <2>4, <2>5
<1>10. ASSUME CommitAssign(w) \/ CommitCreate(w) \/ CommitReassign(w) \/ StartTx(w) PROVE NoNewPromise
      BY <1>1, <1>5, <1>10 DEF CommitAssign, CommitCreate, CommitReassign, StartTx
<1>11. ASSUME Screen(w) \/ Gate(w) \/ FlipRead(w) \/ Flip(w) \/ TripTx(w) \/ Busy(w) \/ CancelTripTx(w)
       PROVE  NoNewPromise
      BY <1>1, <1>3, <1>11 DEF Screen, Gate, FlipRead, Flip, TripTx, Busy, CancelTripTx
<1>12. ASSUME GroundNext(w) PROVE NoNewPromise
  <2>1. ASSUME NEW hit, job' = [job EXCEPT ![w].todo = @ \ {hit}] PROVE NoNewPromise
    <3>. DEFINE j == [job[w] EXCEPT !.todo = @ \ {hit}]
    <3>1. job' = [job EXCEPT ![w] = j]
          BY <2>1
    <3>2. j.goal = job[w].goal /\ j.path = job[w].path /\ j.request = job[w].request
          BY <1>0 DEF Job
    <3>. HIDE DEF j
    <3>. QED BY <1>2, <3>1, <3>2
  <2>2. ASSUME NEW hit, job' = [job EXCEPT ![w].todo = @ \ {hit}, ![w].pc = "flipRead",
                                   ![w].dispatch = hit[1], ![w].to = "Pending Reassignment"]
        PROVE  NoNewPromise
    <3>. DEFINE j == [job[w] EXCEPT !.todo = @ \ {hit}, !.pc = "flipRead",
                                    !.dispatch = hit[1], !.to = "Pending Reassignment"]
    <3>1. job' = [job EXCEPT ![w] = j]
          BY <2>2
    <3>2. j.goal = job[w].goal /\ j.path = job[w].path /\ j.request = job[w].request
          BY <1>0 DEF Job
    <3>. HIDE DEF j
    <3>. QED BY <1>2, <3>1, <3>2
  <2>. QED BY <1>1, <1>12, <2>1, <2>2 DEF GroundNext
<1>. QED BY <1>1, <1>6, <1>7, <1>8, <1>9, <1>10, <1>11, <1>12
         DEF Step, Refused, StandDownTx, RescheduleWrite, DeclineWrite, Crash

\* Only a hop and the commit of an assignment write a status off the path.
LEMMA StepOnCompletion ==
    ASSUME TypeOK, NEW w \in Workers, Step(w) PROVE CompletesAsPromised
<1>0. job[w] \in Job
      BY DEF TypeOK
<1>1. job[w].path # <<>> /\ job[w].path[1] = "Completed" => Promises(job[w])
  <2>1. job[w].path # <<>> => 1 \in 1..Len(job[w].path)
        BY <1>0 DEF Job
  <2>. QED BY <2>1 DEF Promises
<1>2. ASSUME Hop(w) PROVE CompletesAsPromised
      BY <1>1, <1>2 DEF Hop, TypeOK, RequestRow, CompletesAsPromised
<1>3. ASSUME CommitAssign(w) PROVE CompletesAsPromised
      BY <1>1, <1>3 DEF CommitAssign, TypeOK, RequestRow, CompletesAsPromised
<1>4. UNCHANGED request => CompletesAsPromised
      BY DEF CompletesAsPromised
<1>5. ASSUME StandDownTx(w) PROVE CompletesAsPromised
      BY SMTT(30), <1>4, <1>5 DEF StandDownTx, TypeOK, RequestRow, CompletesAsPromised
<1>6. ASSUME RescheduleWrite(w) PROVE CompletesAsPromised
      BY <1>6 DEF RescheduleWrite, TypeOK, RequestRow, CompletesAsPromised
<1>7. ASSUME NEW r, request' = [request EXCEPT ![r].status = "Scheduled", ![r].pair = NoPair]
      PROVE  CompletesAsPromised
      BY <1>7 DEF TypeOK, RequestRow, CompletesAsPromised
<1>8. ASSUME GroundNext(w) PROVE CompletesAsPromised
      BY <1>4, <1>7, <1>8 DEF GroundNext
<1>. QED BY <1>2, <1>3, <1>4, <1>5, <1>6, <1>8
         DEF Step, Screen, Gate, Evidence, Refused, CommitCreate, CommitReassign, EnsureTrip, InsertTrip,
             Load, FlipRead, Flip, TripTx, Busy, DeclineWrite, StartTx, CancelTripTx

\* CompletedRequestHadTrip for every instance in which no administrator moves a
\* trip to another dispatch by hand: whatever is retried, raced or interrupted, a
\* handler completes a request only if it completed a trip of that request first,
\* and neither the trip's end nor its place is ever taken back.
THEOREM CompletedRequestHadTripHolds ==
    ASSUME "editTrip" \notin Handlers
    PROVE  Spec => []CompletedRequestHadTrip
<1>1. Init => HadTripInv
  <2>1. ASSUME Init PROVE RowsNamed
        BY <2>1 DEF Init, NoDispatch, RowsNamed
  <2>2. ASSUME Init PROVE PromisesEarned
    <3>1. ~Promises(Idle)
          BY DEF Promises, Idle
    <3>. QED BY <2>2, <3>1 DEF Init, PromisesEarned
  <2>3. ASSUME Init PROVE CompletedRequestHadTrip
    <3>1. \A r \in Requests : request[r].status = "Pending"
          BY <2>3 DEF Init
    <3>. QED BY <3>1 DEF CompletedRequestHadTrip
  <2>. QED BY <2>1, <2>2, <2>3 DEF HadTripInv
<1>2. TypeOK /\ HadTripInv /\ [Next]_vars => HadTripInv'
  <2>. SUFFICES ASSUME TypeOK, HadTripInv, [Next]_vars PROVE HadTripInv'
       OBVIOUS
  <2>1. ASSUME UNCHANGED <<request, dispatch, trip>> PROVE TripsStayOver /\ OwnersStay /\ CompletesAsPromised
        BY <2>1 DEF TripsStayOver, OwnersStay, CompletesAsPromised, Raised
  <2>2. CASE UNCHANGED vars
    <3>1. NoNewPromise
          BY <2>2 DEF vars, NoNewPromise
    <3>. QED BY <2>1, <2>2, <3>1, PromisesKept DEF vars
  <2>3. ASSUME NEW w \in Workers, Call(w) PROVE HadTripInv'
        BY <2>3, CallOnEnds, CallOnPromises, CompleteKeepsPromises, PromisesKept
  <2>4. ASSUME NEW w \in Workers, Step(w) PROVE HadTripInv'
        BY <2>4, StepOnEnds, StepOnRows, StepOnPromises, StepOnCompletion, PromisesKept
  <2>5. ASSUME NEW w \in Workers, Crash(w) PROVE HadTripInv'
        BY <2>1, <2>5, StepOnPromises, PromisesKept DEF Crash
  <2>. QED BY <2>2, <2>3, <2>4, <2>5 DEF Next
<1>3. HadTripInv => CompletedRequestHadTrip
      BY DEF HadTripInv
<1>. QED BY <1>1, <1>2, <1>3, TypeCorrect, PTL DEF Spec

------------------------------------------------------------------------------
(* Closed requests *)

\* About to write the status of its request.
Writing(j) == j.pc = "hop" \/ (j.pc = "commit" /\ j.op = "assign")

Over(r) == request[r].status \in TerminalReservation

\* The request is over, and nobody but w is about to write its status.
Closed(w, r) == Over(r) /\ \A u \in Workers \ {w} : Writing(job[u]) => job[u].request # r

\* The token shows that the request was over when it was taken.
SawOver(j) == \E seen \in j.evidence.requests : seen[1] = j.request /\ seen[2].status \in TerminalReservation

\* What a handler keeps to by itself: only the last hop of a path ends a request,
\* and no hop of an assignment does.
Steady(j) ==
    /\ j.pc # "ground"
    /\ j.pc \in {"flipRead", "flip"} => j.to = "Scheduled"
    /\ \A i \in 1..Len(j.path) : i < Len(j.path) => j.path[i] \notin TerminalReservation
    /\ j.op = "assign" =>
         /\ j.pc \in {"screen", "gate", "evidence", "load", "hop", "commit", "ensure", "insert"}
         /\ j.goal = "Assigned" /\ j.request \in Requests
         /\ \A i \in 1..Len(j.path) : j.path[i] \notin TerminalReservation

\* What an assignment knows: if the request was closed behind its gate, it stays
\* so until the handler finds no path, and no token is held that shows it closed.
Overtaken(w) ==
    job[w].op = "assign" =>
      /\ job[w].pc = "evidence" /\ Over(job[w].request) => Closed(w, job[w].request)
      /\ job[w].pc = "load" /\ SawOver(job[w]) => Closed(w, job[w].request)
      /\ job[w].pc \in {"hop", "commit"} => ~SawOver(job[w])

AllSteady == \A w \in Workers : Steady(job[w])
AllOvertaken == \A w \in Workers : Overtaken(w)

\* The handler goes on as j.
Becomes(w, j) ==
    /\ job' = [job EXCEPT ![w] = j]
    /\ j.op = job[w].op /\ j.goal = job[w].goal /\ j.request = job[w].request

\* A step that begins neither to look at a request nor to write it.
Passes(w, j) ==
    /\ j.path \in {job[w].path, <<>>}
    /\ j.pc \in {"gate", "insert", "flip", "busy", "ensure", "flipRead", "startTx", "load", "commit"}
    /\ j.pc \in {"flipRead", "flip"} => j.to = "Scheduled"
    /\ j.op = "assign" => j.pc \in {"gate", "ensure", "insert"}
PassesGate(w, j) ==
    /\ j.path = job[w].path /\ j.pc = "evidence"
    /\ ~Over(job[w].request) /\ UNCHANGED request
TakesToken(w, j) ==
    /\ At(w, "evidence") /\ j.op = "assign"
    /\ j.path = job[w].path /\ j.pc = "load"
    /\ j.evidence = Revision(job[w].request, job[w].pair) /\ UNCHANGED request
LoadsPath(w, j) ==
    LET path == TransitionPath(request[j.request].status, j.goal) IN
    /\ At(w, "load")
    /\ path # NoPath /\ (Len(path) > 1 \/ j.op = "assign")
    /\ j.path = Tail(path) /\ j.evidence = job[w].evidence
    /\ j.pc = "hop" \/ (j.pc = "commit" /\ j.op = "assign")
    /\ UNCHANGED request
HopsOn(w, j) ==
    /\ At(w, "hop") /\ Len(job[w].path) > 1
    /\ j.path = Tail(job[w].path) /\ j.evidence = job[w].evidence
    /\ j.pc = "hop" \/ (j.pc = "commit" /\ j.op = "assign")

\* A step ends the handler or is one of these, where nobody creates dispatches.
LEMMA StepMoves ==
    ASSUME TypeOK, Served, "create" \notin Handlers, NEW w \in Workers, Steady(job[w]), Step(w)
    PROVE  \/ Finish(w)
           \/ \E j : /\ Becomes(w, j)
                     /\ \/ Passes(w, j) \/ PassesGate(w, j) \/ TakesToken(w, j)
                        \/ LoadsPath(w, j) \/ HopsOn(w, j)
<1>. DEFINE Moves == \E j : /\ Becomes(w, j)
                            /\ \/ Passes(w, j) \/ PassesGate(w, j) \/ TakesToken(w, j)
                               \/ LoadsPath(w, j) \/ HopsOn(w, j)
<1>0. job[w] \in Job /\ job[w].op # "create"
      BY DEF TypeOK, Served
<1>1. ASSUME NEW step, Goto(w, step),
             step \in {"gate", "insert", "flip", "busy", "ensure", "load"},
             step = "flip" => job[w].to = "Scheduled",
             job[w].op = "assign" => step \in {"gate", "ensure", "insert"}
      PROVE  Moves
  <2>. DEFINE j == [job[w] EXCEPT !.pc = step]
  <2>1. job' = [job EXCEPT ![w] = j]
        BY <1>1 DEF Goto
  <2>2. /\ j.op = job[w].op /\ j.goal = job[w].goal /\ j.request = job[w].request
        /\ j.path = job[w].path /\ j.to = job[w].to /\ j.pc = step
        BY <1>0 DEF Job
  <2>. HIDE DEF j
  <2>3. Becomes(w, j) /\ Passes(w, j)
        BY <1>1, <2>1, <2>2 DEF Becomes, Passes
  <2>. QED BY <2>3
<1>2. ASSUME NEW d, NEW step, Committed(w, d, step), step \in {"ensure", "flipRead", "load"},
             step = "flipRead" => job[w].to = "Scheduled",
             job[w].op = "assign" => step = "ensure"
      PROVE  Moves
  <2>. DEFINE j == [job[w] EXCEPT !.evidence = NoEvidence, !.path = <<>>, !.dispatch = d, !.pc = step]
  <2>1. job' = [job EXCEPT ![w] = j]
        BY <1>2 DEF Committed
  <2>2. /\ j.op = job[w].op /\ j.goal = job[w].goal /\ j.request = job[w].request
        /\ j.path = <<>> /\ j.to = job[w].to /\ j.pc = step
        BY <1>0 DEF Job
  <2>. HIDE DEF j
  <2>3. Becomes(w, j) /\ Passes(w, j)
        BY <1>2, <2>1, <2>2 DEF Becomes, Passes
  <2>. QED BY <2>3
<1>3. ASSUME Gate(w) PROVE Finish(w) \/ Moves
  <2>. DEFINE j == [job[w] EXCEPT !.pc = "evidence"]
  <2>1. Finish(w) \/ (request[job[w].request].status \in Actionable /\ job' = [job EXCEPT ![w] = j])
        BY <1>3 DEF Gate, Goto
  <2>2. /\ j.op = job[w].op /\ j.goal = job[w].goal /\ j.request = job[w].request
        /\ j.path = job[w].path /\ j.pc = "evidence"
        BY <1>0 DEF Job
  <2>3. UNCHANGED request
        BY <1>3 DEF Gate
  <2>4. request[job[w].request].status \in Actionable => ~Over(job[w].request)
        BY DEF Actionable, Over, TerminalReservation
  <2>. HIDE DEF j
  <2>5. Finish(w) \/ (Becomes(w, j) /\ PassesGate(w, j))
        BY <2>1, <2>2, <2>3, <2>4 DEF Becomes, PassesGate
  <2>. QED BY <2>5
<1>4. ASSUME Evidence(w) PROVE Finish(w) \/ Moves
  <2>. DEFINE j == [job[w] EXCEPT !.evidence = Revision(job[w].request, job[w].pair),
                                  !.pc = CASE job[w].op = "assign" -> "load"
                                           [] job[w].op = "start"  -> "startTx"
                                           [] OTHER                -> "commit"]
  <2>1. Finish(w) \/ job' = [job EXCEPT ![w] = j]
        BY <1>4 DEF Evidence
  <2>2. /\ j.op = job[w].op /\ j.goal = job[w].goal /\ j.request = job[w].request
        /\ j.path = job[w].path /\ j.evidence = Revision(job[w].request, job[w].pair)
        BY <1>0 DEF Job
  <2>3. /\ job[w].op = "assign" => j.pc = "load"
        /\ job[w].op # "assign" => j.pc \in {"startTx", "commit"}
        BY <1>0 DEF Job
  <2>4. At(w, "evidence") /\ UNCHANGED request
        BY <1>4 DEF Evidence
  <2>. HIDE DEF j
  <2>5. job' = [job EXCEPT ![w] = j] => Becomes(w, j) /\ (TakesToken(w, j) \/ Passes(w, j))
        BY <2>2, <2>3, <2>4 DEF Becomes, TakesToken, Passes
  <2>. QED BY <2>1, <2>5
<1>5. ASSUME EnsureTrip(w) \/ InsertTrip(w) PROVE Finish(w) \/ Moves
  <2>. DEFINE j == [job[w] EXCEPT !.seen = dispatch[job[w].dispatch].pair, !.pc = "insert"]
  <2>1. Finish(w) \/ job' = [job EXCEPT ![w] = j]
        BY <1>0, <1>5 DEF EnsureTrip, InsertTrip, AfterEnsure
  <2>2. /\ j.op = job[w].op /\ j.goal = job[w].goal /\ j.request = job[w].request
        /\ j.path = job[w].path /\ j.pc = "insert"
        BY <1>0 DEF Job
  <2>. HIDE DEF j
  <2>3. job' = [job EXCEPT ![w] = j] => Becomes(w, j) /\ Passes(w, j)
        BY <2>2 DEF Becomes, Passes
  <2>. QED BY <2>1, <2>3
<1>6. ASSUME Load(w) PROVE Finish(w) \/ Moves
  <2>. DEFINE path == TransitionPath(request[job[w].request].status, job[w].goal)
              hops == IF path = NoPath THEN <<>> ELSE Tail(path)
              step == IF job[w].op = "assign" /\ Len(hops) <= 1 THEN "commit" ELSE "hop"
              j == [job[w] EXCEPT !.path = hops, !.pc = step]
  <2>1. \/ Finish(w)
        \/ /\ path # NoPath /\ (Len(path) > 1 \/ job[w].op \in {"assign", "create"})
           /\ job' = [job EXCEPT ![w] = j]
        BY <1>6 DEF Load
  <2>2. /\ j.op = job[w].op /\ j.goal = job[w].goal /\ j.request = job[w].request
        /\ j.path = hops /\ j.pc = step /\ j.evidence = job[w].evidence
        BY <1>0 DEF Job
  <2>3. At(w, "load") /\ UNCHANGED request
        BY <1>6 DEF Load
  <2>4. step = "hop" \/ (step = "commit" /\ job[w].op = "assign")
        OBVIOUS
  <2>5. path # NoPath => hops = Tail(path)
        OBVIOUS
  <2>6. path = TransitionPath(request[job[w].request].status, job[w].goal)
        OBVIOUS
  <2>. HIDE DEF j, hops, step, path
  <2>7. Finish(w) \/ (Becomes(w, j) /\ LoadsPath(w, j))
        BY <1>0, <2>1, <2>2, <2>3, <2>4, <2>5, <2>6 DEF Becomes, LoadsPath
  <2>. QED BY <2>7
<1>7. ASSUME Hop(w) PROVE Finish(w) \/ Moves
  <2>. DEFINE path == job[w].path
              step == IF job[w].op = "assign" /\ Len(path) = 2 THEN "commit" ELSE "hop"
              j == [job[w] EXCEPT !.path = Tail(path), !.pc = step]
  <2>1. Len(path) <= 1 => Finish(w)
        BY <1>7 DEF Hop
  <2>2. ~(Len(path) <= 1) => job' = [job EXCEPT ![w] = j]
        BY <1>7 DEF Hop
  <2>3. Len(path) \in Nat
        BY <1>0 DEF Job
  <2>4. /\ j.op = job[w].op /\ j.goal = job[w].goal /\ j.request = job[w].request
        /\ j.path = Tail(path) /\ j.pc = step /\ j.evidence = job[w].evidence
        BY <1>0 DEF Job
  <2>5. At(w, "hop")
        BY <1>7 DEF Hop
  <2>6. step = "hop" \/ (step = "commit" /\ job[w].op = "assign")
        OBVIOUS
  <2>. HIDE DEF j, step
  <2>7. Finish(w) \/ (Becomes(w, j) /\ HopsOn(w, j))
        BY <2>1, <2>2, <2>3, <2>4, <2>5, <2>6 DEF Becomes, HopsOn
  <2>. QED BY <2>7
<1>8. ASSUME CommitAssign(w) \/ CommitReassign(w) \/ StartTx(w) PROVE Finish(w) \/ Moves
  <2>1. CommitAssign(w) => \E d : Committed(w, d, "ensure")
        BY DEF CommitAssign
  <2>2. CommitReassign(w) => \/ Finish(w)
                             \/ \E d : \/ Committed(w, d, "ensure")
                                       \/ Committed(w, d, "flipRead") /\ job[w].to = "Scheduled"
        BY DEF CommitReassign
  <2>3. CommitReassign(w) => job[w].op # "assign"
        BY DEF CommitReassign
  <2>4. StartTx(w) => job[w].op # "assign" /\ \E d : Committed(w, d, "load")
        BY DEF StartTx, At, Steady
  <2>. HIDE DEF Moves
  <2>. QED BY <1>2, <1>8, <2>1, <2>2, <2>3, <2>4
<1>9. ASSUME FlipRead(w) \/ Flip(w) \/ TripTx(w) \/ Busy(w) \/ CancelTripTx(w)
      PROVE  Finish(w) \/ Moves
  <2>1. job[w].op # "assign"
        BY <1>9 DEF FlipRead, Flip, TripTx, Busy, CancelTripTx, At, Steady
  <2>2. FlipRead(w) => Finish(w) \/ (Goto(w, "flip") /\ job[w].to = "Scheduled")
        BY DEF FlipRead, At, Steady
  <2>3. Flip(w) => Finish(w) \/ Goto(w, "ensure")
        BY DEF Flip, At, Steady
  <2>4. TripTx(w) => Finish(w) \/ Goto(w, "busy")
        BY DEF TripTx
  <2>5. Busy(w) \/ CancelTripTx(w) => Goto(w, "load")
        BY DEF Busy, CancelTripTx
  <2>. HIDE DEF Moves
  <2>. QED BY <1>1, <1>9, <2>1, <2>2, <2>3, <2>4, <2>5
<1>10. ~GroundNext(w) /\ ~CommitCreate(w)
      BY <1>0 DEF GroundNext, CommitCreate, At, Steady
<1>. HIDE DEF Moves
<1>11. ASSUME Screen(w) PROVE Finish(w) \/ Moves
      BY <1>1, <1>11 DEF Screen
<1>12. Finish(w) \/ Moves
      BY <1>3, <1>4, <1>5, <1>6, <1>7, <1>8, <1>9, <1>10, <1>11
         DEF Step, Refused, StandDownTx, RescheduleWrite, DeclineWrite
<1>. QED BY <1>12 DEF Moves

\* A handler that is taken up has no path and no token yet.
LEMMA CallMoves ==
    ASSUME TypeOK, NEW w \in Workers, Call(w), "ground" \notin Handlers
    PROVE  \/ UNCHANGED job
           \/ \E j : /\ job' = [job EXCEPT ![w] = j] /\ j.path = <<>>
                     /\ j.pc \in {"screen", "gate", "standDown", "reschedule", "tripTx", "decline", "load", "cancelTx"}
                     /\ j.op = "assign" => j.pc = "screen" /\ j.goal = "Assigned" /\ j.request \in Requests
<1>. DEFINE Starts == \E j : /\ job' = [job EXCEPT ![w] = j] /\ j.path = <<>>
                             /\ j.pc \in {"screen", "gate", "standDown", "reschedule", "tripTx", "decline", "load",
                                          "cancelTx"}
                             /\ j.op = "assign" => j.pc = "screen" /\ j.goal = "Assigned" /\ j.request \in Requests
<1>1. ASSUME NEW h, NEW k, Begin(w, h, k), [k EXCEPT !.op = h].path = <<>>,
             [k EXCEPT !.op = h].pc
               \in {"screen", "gate", "standDown", "reschedule", "tripTx", "decline", "load", "cancelTx"},
             [k EXCEPT !.op = h].op = "assign"
               => /\ [k EXCEPT !.op = h].pc = "screen" /\ [k EXCEPT !.op = h].goal = "Assigned"
                  /\ [k EXCEPT !.op = h].request \in Requests
      PROVE  Starts
  <2>. DEFINE j == [k EXCEPT !.op = h]
  <2>1. job' = [job EXCEPT ![w] = j]
        BY <1>1 DEF Begin
  <2>2. /\ j.path = <<>>
        /\ j.pc \in {"screen", "gate", "standDown", "reschedule", "tripTx", "decline", "load", "cancelTx"}
        /\ j.op = "assign" => j.pc = "screen" /\ j.goal = "Assigned" /\ j.request \in Requests
        BY <1>1
  <2>. HIDE DEF j
  <2>. QED BY <2>1, <2>2
<1>. HIDE DEF Starts
<1>2. ASSUME NEW r \in Requests, NEW p \in Pairs, Assign(w, r, p) PROVE Starts
      BY <1>1, <1>2 DEF Assign, Idle
<1>3. ASSUME NEW r \in Requests, NEW p \in Pairs, NEW window \in Windows, Create(w, r, p, window)
      PROVE  Starts
      BY <1>1, <1>3 DEF Create, Idle
<1>4. ASSUME NEW d \in Dispatches, NEW p \in Pairs, NEW window \in Windows, Reassign(w, d, p, window)
      PROVE  Starts
      BY <1>1, <1>4 DEF Reassign, Idle
<1>5. ASSUME NEW d \in Dispatches, StandDown(w, d) PROVE Starts
      BY <1>1, <1>5 DEF StandDown, Idle
<1>6. ASSUME NEW r \in Requests, NEW window \in Windows, Reschedule(w, r, window) PROVE Starts
      BY <1>1, <1>6 DEF Reschedule, Idle
<1>7. ASSUME NEW t \in Trips, NEW to \in DriverSteps, TripStep(w, t, to) PROVE Starts
      BY <1>1, <1>7 DEF TripStep, TripJob, Idle
<1>8. ASSUME NEW t \in Trips, Decline(w, t) \/ Start(w, t) \/ Complete(w, t) \/ CancelTrip(w, t)
      PROVE  Starts
      BY <1>1, <1>8 DEF Decline, Start, Complete, CancelTrip, TripJob, Idle
<1>9. ASSUME NEW v \in Vehicles, NEW soon PROVE ~Ground(w, v, soon)
      BY DEF Ground, Begin
<1>10. UNCHANGED job \/ Starts
       BY <1>2, <1>3, <1>4, <1>5, <1>6, <1>7, <1>8, <1>9
          DEF Call, CancelRequest, ApproveLeave, MobileAccept, EditTrip
<1>. QED BY <1>10 DEF Starts

\* No path passes through the end of a request, and one that leads elsewhere does
\* not reach it.
LEMMA PathEndsAtItsEnd ==
    ASSUME NEW from, NEW to, TransitionPath(from, to) # NoPath,
           NEW i \in 1..Len(Tail(TransitionPath(from, to))),
           Tail(TransitionPath(from, to))[i] \in TerminalReservation
    PROVE  i = Len(Tail(TransitionPath(from, to))) /\ Tail(TransitionPath(from, to))[i] = to
<1>1. CASE from = to
  <2>1. TransitionPath(from, to) = <<from>>
        BY <1>1 DEF TransitionPath
  <2>2. Len(Tail(<<from>>)) = 0
        OBVIOUS
  <2>. QED BY <2>1, <2>2
<1>2. CASE from # to /\ to = "Cancelled"
  <2>1. TransitionPath(from, to) = <<from, "Cancelled">>
        BY <1>2 DEF TransitionPath
  <2>2. Tail(<<from, "Cancelled">>) = <<"Cancelled">>
        OBVIOUS
  <2>3. i \in 1..1 /\ Len(<<"Cancelled">>) = 1 /\ <<"Cancelled">>[1] = "Cancelled"
        BY <2>1, <2>2
  <2>. QED BY <1>2, <2>1, <2>2, <2>3
<1>3. CASE from # to /\ to # "Cancelled"
  <2>. DEFINE p == TransitionPath(from, to)
  <2>1. p \in Walks(from, to)
        BY <1>3, ShortestWalk DEF TransitionPath, NoPath
  <2>2. p \in Seq(ReservationStatus) /\ Len(p) \in 2..5 /\ p[Len(p)] = to
        BY <2>1, WalkType DEF MaxWalk
  <2>3. IsWalk(p)
        BY <2>1 DEF Walks, AllWalks
  <2>4. i \in 1..Len(Tail(p)) /\ Tail(p)[i] \in TerminalReservation
        OBVIOUS
  <2>. HIDE DEF p
  <2>5. /\ i + 1 \in 2..Len(p) /\ p[i + 1] = Tail(p)[i] /\ p[i + 1] \in TerminalReservation
        /\ Len(Tail(p)) = Len(p) - 1
        BY <2>2, <2>4
  <2>6. CASE i + 1 < Len(p)
    <3>1. <<p[i + 1], p[i + 2]>> \in ReservationNext
          BY <2>2, <2>3, <2>5, <2>6 DEF IsWalk
    <3>. QED BY <2>5, <3>1 DEF ReservationNext, TerminalReservation
  <2>7. CASE i + 1 = Len(p)
        BY <2>2, <2>5, <2>7 DEF p
  <2>. QED BY <2>2, <2>5, <2>6, <2>7
<1>. QED BY <1>1, <1>2, <1>3

\* From a request that is over no path leads to an assignment, nor, for who has
\* something to patch, anywhere.
LEMMA NoPathFromTheEnd ==
    ASSUME NEW from \in TerminalReservation, NEW to, TransitionPath(from, to) # NoPath
    PROVE  to = from /\ Len(TransitionPath(from, to)) = 1
<1>1. to = from
      BY DEF TransitionPath
<1>2. TransitionPath(from, to) = <<from>>
      BY <1>1 DEF TransitionPath
<1>. QED BY <1>1, <1>2

\* A handler keeps to itself what Steady says.
LEMMA StaysSteady ==
    ASSUME TypeOK, Served, AllSteady, "create" \notin Handlers, "ground" \notin Handlers,
           NEW w \in Workers, Call(w) \/ Step(w) \/ Crash(w)
    PROVE  AllSteady'
<1>0. job[w] \in Job /\ Steady(job[w])
      BY DEF TypeOK, AllSteady
<1>1. ASSUME NEW j, job' = [job EXCEPT ![w] = j], Steady(j) PROVE AllSteady'
      BY <1>1 DEF AllSteady, TypeOK
<1>2. ASSUME Finish(w) PROVE AllSteady'
  <2>1. 1..Len(<<>>) = {}
        OBVIOUS
  <2>2. Steady(Idle)
        BY <2>1 DEF Steady, Idle
  <2>. QED BY <1>1, <1>2, <2>2 DEF Finish
<1>3. CASE Call(w)
  <2>1. 1..Len(<<>>) = {}
        OBVIOUS
  <2>2. ASSUME NEW j, j.path = <<>>,
               j.pc \in {"screen", "gate", "standDown", "reschedule", "tripTx", "decline", "load", "cancelTx"},
               j.op = "assign" => j.pc = "screen" /\ j.goal = "Assigned" /\ j.request \in Requests
        PROVE  Steady(j)
        BY <2>1, <2>2 DEF Steady
  <2>3. UNCHANGED job => AllSteady'
        BY DEF AllSteady
  <2>. QED BY <1>1, <1>3, <2>2, <2>3, CallMoves
<1>4. CASE Step(w)
  <2>1. ASSUME NEW j, Becomes(w, j), Passes(w, j) PROVE Steady(j)
    <3>1. 1..Len(<<>>) = {}
          OBVIOUS
    <3>2. \A i \in 1..Len(j.path) : /\ i < Len(j.path) => j.path[i] \notin TerminalReservation
                                    /\ j.op = "assign" => j.path[i] \notin TerminalReservation
          BY <1>0, <2>1, <3>1 DEF Passes, Becomes, Steady
    <3>. QED BY <1>0, <2>1, <3>2 DEF Passes, Becomes, Steady
  <2>2. ASSUME NEW j, Becomes(w, j), PassesGate(w, j) \/ TakesToken(w, j) PROVE Steady(j)
    <3>1. /\ j.path = job[w].path /\ j.pc \in {"evidence", "load"} /\ j.op = job[w].op /\ j.goal = job[w].goal
          /\ j.request = job[w].request
          BY <2>2 DEF PassesGate, TakesToken, Becomes
    <3>. QED BY <1>0, <3>1 DEF Steady
  <2>3. ASSUME NEW j, Becomes(w, j), LoadsPath(w, j) PROVE Steady(j)
    <3>1. \A i \in 1..Len(j.path) :
             j.path[i] \in TerminalReservation => i = Len(j.path) /\ j.path[i] = j.goal
          BY <2>3, PathEndsAtItsEnd DEF LoadsPath
    <3>2. /\ j.pc \in {"hop", "commit"} /\ j.op = job[w].op /\ j.goal = job[w].goal
          /\ j.request = job[w].request
          BY <2>3 DEF LoadsPath, Becomes
    <3>3. "Assigned" \notin TerminalReservation
          BY DEF TerminalReservation
    <3>. QED BY <1>0, <3>1, <3>2, <3>3 DEF Steady
  <2>4. ASSUME NEW j, Becomes(w, j), HopsOn(w, j) PROVE Steady(j)
    <3>1. job[w].path \in Seq(ReservationStatus) /\ Len(job[w].path) > 1
          BY <1>0, <2>4 DEF Job, HopsOn
    <3>2. /\ Len(j.path) = Len(job[w].path) - 1
          /\ \A i \in 1..Len(j.path) : i + 1 \in 1..Len(job[w].path) /\ j.path[i] = job[w].path[i + 1]
          BY <2>4, <3>1 DEF HopsOn
    <3>0. \A i \in 1..Len(job[w].path) :
             /\ i < Len(job[w].path) => job[w].path[i] \notin TerminalReservation
             /\ job[w].op = "assign" => job[w].path[i] \notin TerminalReservation
          BY <1>0 DEF Steady
    <3>3. \A i \in 1..Len(j.path) : /\ i < Len(j.path) => j.path[i] \notin TerminalReservation
                                    /\ job[w].op = "assign" => j.path[i] \notin TerminalReservation
      <4>. SUFFICES ASSUME NEW i \in 1..Len(j.path)
                    PROVE  /\ i < Len(j.path) => j.path[i] \notin TerminalReservation
                           /\ job[w].op = "assign" => j.path[i] \notin TerminalReservation
           OBVIOUS
      <4>1. i + 1 \in 1..Len(job[w].path) /\ j.path[i] = job[w].path[i + 1]
            BY <3>2
      <4>2. i < Len(j.path) => i + 1 < Len(job[w].path)
            BY <3>1, <3>2
      <4>. QED BY <3>0, <4>1, <4>2
    <3>4. /\ j.pc \in {"hop", "commit"} /\ j.op = job[w].op /\ j.goal = job[w].goal
          /\ j.request = job[w].request
          BY <2>4 DEF HopsOn, Becomes
    <3>. QED BY <1>0, <3>3, <3>4 DEF Steady
  <2>. QED BY <1>0, <1>1, <1>2, <1>4, <2>1, <2>2, <2>3, <2>4, StepMoves DEF Becomes
<1>. QED BY <1>2, <1>3, <1>4 DEF Crash

\* Only who writes the status of a request reopens it, and who closes it is done.
Reopens(w) ==
    \A r \in Requests : (Over(r) /\ ~Over(r)') => Writing(job[w]) /\ job[w].request = r
Closes(w) ==
    \A r \in Requests : (~Over(r) /\ Over(r)') => job'[w] = Idle

\* So it is of every step: a hop ends a request last, a stand-down leaves one
\* that is over alone, and the other handlers write no status.
LEMMA WritesStatus ==
    ASSUME TypeOK, Served, AllSteady, "create" \notin Handlers, "ground" \notin Handlers,
           NEW w \in Workers, (job[w] = Idle /\ Call(w)) \/ Step(w) \/ Crash(w)
    PROVE  Reopens(w) /\ Closes(w)
<1>0. job[w] \in Job /\ Steady(job[w])
      BY DEF TypeOK, AllSteady
<1>1. UNCHANGED request => Reopens(w) /\ Closes(w)
      BY DEF Reopens, Closes, Over
<1>2. ASSUME NEW r \in Requests, job[w] = Idle, CancelRequest(w, r) PROVE Reopens(w) /\ Closes(w)
      BY <1>2 DEF CancelRequest, Reopens, Closes, Over, TypeOK, RequestRow, TerminalReservation
<1>3. ASSUME Hop(w) PROVE Reopens(w) /\ Closes(w)
  <2>1. Writing(job[w])
        BY <1>3 DEF Hop, At, Writing
  <2>2. \A r \in Requests : r # job[w].request => request'[r].status = request[r].status
        BY <1>3 DEF Hop, TypeOK, RequestRow
  <2>3. Reopens(w)
        BY <2>1, <2>2 DEF Reopens, Over
  <2>4. CASE Len(job[w].path) <= 1
    <3>1. job' = [job EXCEPT ![w] = Idle]
          BY <1>3, <2>4 DEF Hop, Finish
    <3>2. job'[w] = Idle
          BY <3>1 DEF TypeOK
    <3>. QED BY <2>3, <3>2 DEF Closes
  <2>5. CASE ~(Len(job[w].path) <= 1)
    <3>1. 1 \in 1..Len(job[w].path) /\ 1 < Len(job[w].path) /\ job[w].path # <<>>
          BY <1>0, <2>5 DEF Job
    <3>2. job[w].path[1] \notin TerminalReservation
          BY <1>0, <3>1 DEF Steady
    <3>3. \A r \in Requests : r = job[w].request => request'[r].status = job[w].path[1]
          BY <1>3, <3>1 DEF Hop, TypeOK, RequestRow
    <3>4. \A r \in Requests : Over(r)' => Over(r)
          BY <2>2, <3>2, <3>3 DEF Over
    <3>. QED BY <2>3, <3>4 DEF Closes
  <2>. QED BY <2>3, <2>4, <2>5
<1>4. ASSUME CommitAssign(w) PROVE Reopens(w) /\ Closes(w)
  <2>1. Writing(job[w]) /\ job[w].op = "assign"
        BY <1>4 DEF CommitAssign, At, Writing
  <2>2. \A r \in Requests : r # job[w].request => request'[r].status = request[r].status
        BY <1>4 DEF CommitAssign, TypeOK, RequestRow
  <2>3. \A r \in Requests : r = job[w].request =>
            request'[r].status = IF job[w].path = <<>> THEN request[r].status ELSE job[w].path[1]
        BY <1>4 DEF CommitAssign, TypeOK, RequestRow
  <2>4. job[w].path # <<>> => job[w].path[1] \notin TerminalReservation
    <3>1. job[w].path # <<>> => 1 \in 1..Len(job[w].path)
          BY <1>0 DEF Job
    <3>. QED BY <1>0, <2>1, <3>1 DEF Steady
  <2>. QED BY <2>1, <2>2, <2>3, <2>4 DEF Reopens, Closes, Over
<1>5. ASSUME StandDownTx(w) PROVE Reopens(w) /\ Closes(w)
  <2>. DEFINE own == dispatch[job[w].dispatch].request
  <2>1. \/ UNCHANGED request
        \/ /\ request[own].status \notin TerminalReservation
           /\ request' = [request EXCEPT ![own].status = "Scheduled", ![own].pair = NoPair]
        BY <1>5 DEF StandDownTx
  <2>. HIDE DEF own
  <2>2. ASSUME ~UNCHANGED request, NEW r \in Requests PROVE Over(r)' <=> Over(r)
    <3>1. r # own => request'[r].status = request[r].status
          BY <2>1, <2>2 DEF TypeOK
    <3>2. r = own => request'[r].status = "Scheduled" /\ ~Over(r)
          BY <2>1, <2>2 DEF TypeOK, RequestRow, Over
    <3>. QED BY <3>1, <3>2 DEF Over, TerminalReservation
  <2>. QED BY <1>1, <2>2 DEF Reopens, Closes
<1>6. ASSUME RescheduleWrite(w) PROVE Reopens(w) /\ Closes(w)
  <2>1. \A r \in Requests : request'[r].status = request[r].status
        BY <1>6 DEF RescheduleWrite, TypeOK, RequestRow
  <2>. QED BY <2>1 DEF Reopens, Closes, Over
<1>7. ~GroundNext(w)
      BY <1>0 DEF GroundNext, At, Steady
<1>8. CASE job[w] = Idle /\ Call(w)
      BY <1>1, <1>2, <1>8
         DEF Call, Assign, Create, Reassign, StandDown, Reschedule, ApproveLeave, TripStep, MobileAccept,
             Decline, Start, Complete, CancelTrip, EditTrip, Ground
<1>9. CASE Step(w)
      BY <1>1, <1>3, <1>4, <1>5, <1>6, <1>7, <1>9
         DEF Step, Screen, Gate, Evidence, Refused, CommitCreate, CommitReassign, EnsureTrip, InsertTrip,
             Load, FlipRead, Flip, TripTx, Busy, DeclineWrite, StartTx, CancelTripTx
<1>. QED BY <1>1, <1>8, <1>9 DEF Crash

\* Who is about to write a request was so before, or has found it open.
BeginsOpen(w) ==
    Writing(job'[w]) => \/ Writing(job[w]) /\ job'[w].request = job[w].request
                        \/ request'[job'[w].request].status \notin TerminalReservation

\* So it is of every step: from a closed request there is no path to load.
LEMMA WritersBeginOpen ==
    ASSUME TypeOK, Served, AllSteady, "create" \notin Handlers, "ground" \notin Handlers,
           NEW w \in Workers, Call(w) \/ Step(w) \/ Crash(w)
    PROVE  BeginsOpen(w)
<1>0. job[w] \in Job /\ Steady(job[w])
      BY DEF TypeOK, AllSteady
<1>1. ASSUME NEW j, job' = [job EXCEPT ![w] = j],
             Writing(j) => Writing(job[w]) /\ j.request = job[w].request
      PROVE  BeginsOpen(w)
      BY <1>1 DEF BeginsOpen, TypeOK
<1>2. ASSUME Finish(w) PROVE BeginsOpen(w)
  <2>1. ~Writing(Idle)
        BY DEF Writing, Idle
  <2>. QED BY <1>1, <1>2, <2>1 DEF Finish
<1>3. CASE Call(w)
  <2>1. UNCHANGED job => BeginsOpen(w)
        BY DEF BeginsOpen
  <2>2. ASSUME NEW j, j.pc \in {"screen", "gate", "standDown", "reschedule", "tripTx", "decline", "load", "cancelTx"}
        PROVE  ~Writing(j)
        BY <2>2 DEF Writing
  <2>. QED BY <1>1, <1>3, <2>1, <2>2, CallMoves
<1>4. ASSUME NEW j, Becomes(w, j), LoadsPath(w, j) PROVE BeginsOpen(w)
  <2>1. j.request = job'[w].request
        BY <1>4 DEF Becomes, TypeOK
  <2>2. request[j.request].status \notin TerminalReservation
    <3>. SUFFICES ASSUME request[j.request].status \in TerminalReservation PROVE FALSE
         OBVIOUS
    <3>1. /\ j.goal = request[j.request].status
          /\ Len(TransitionPath(request[j.request].status, j.goal)) = 1
          BY <1>4, NoPathFromTheEnd DEF LoadsPath
    <3>2. j.op = "assign" /\ j.goal = "Assigned"
          BY <1>0, <1>4, <3>1 DEF LoadsPath, Becomes, Steady
    <3>. QED BY <3>1, <3>2 DEF TerminalReservation
  <2>3. request' = request
        BY <1>4 DEF LoadsPath
  <2>4. request'[job'[w].request].status \notin TerminalReservation
        BY <2>1, <2>2, <2>3
  <2>. QED BY <2>4 DEF BeginsOpen
<1>5. ASSUME NEW j, Becomes(w, j), HopsOn(w, j) PROVE BeginsOpen(w)
      BY <1>1, <1>5 DEF Becomes, HopsOn, At, Writing
<1>6. ASSUME NEW j, Becomes(w, j), Passes(w, j) \/ PassesGate(w, j) \/ TakesToken(w, j) PROVE BeginsOpen(w)
  <2>1. ~Writing(j)
        BY <1>6 DEF Passes, PassesGate, TakesToken, Writing
  <2>. QED BY <1>1, <1>6, <2>1 DEF Becomes
<1>. QED BY <1>0, <1>2, <1>3, <1>4, <1>5, <1>6, StepMoves DEF Crash

\* A token shows the request as it was when it was taken, and always shows it.
LEMMA TokenShowsRequest ==
    ASSUME TypeOK, NEW r \in Requests, NEW p
    PROVE  /\ <<r, View(r)>> \in Revision(r, p).requests
           /\ \A seen \in Revision(r, p).requests : seen[1] = r => seen[2] = View(r)
           /\ View(r).status \in TerminalReservation <=> Over(r)
<1>1. Revision(r, p).requests
        = { <<q, View(q)>> : q \in { q \in Requests :
               q = r \/ \E d \in { d \in Dispatches : Raised(d) /\ Shares(dispatch[d].pair, p) } :
                           dispatch[d].request = q } }
      BY Zenon DEF Revision
<1>2. View(r).status = IF request[r].status \in {"Pending", "Scheduled"} THEN "Actionable"
                       ELSE request[r].status
      BY DEF View, TypeOK, RequestRow
<1>. QED BY <1>1, <1>2 DEF Over, TerminalReservation

\* What an assignment knows after a step of its own.
LEMMA OwnStepKeepsOvertaken ==
    ASSUME TypeOK, Served, AllSteady, "create" \notin Handlers, "ground" \notin Handlers,
           NEW w \in Workers, Overtaken(w), (job[w] = Idle /\ Call(w)) \/ Step(w) \/ Crash(w)
    PROVE  Overtaken(w)'
<1>0. job[w] \in Job /\ Steady(job[w])
      BY DEF TypeOK, AllSteady
<1>1. ASSUME NEW j, job' = [job EXCEPT ![w] = j],
             j.op = "assign" => j.pc \notin {"evidence", "load", "hop", "commit"}
      PROVE  Overtaken(w)'
      BY <1>1 DEF Overtaken, TypeOK
<1>2. ASSUME Finish(w) PROVE Overtaken(w)'
      BY <1>1, <1>2 DEF Finish, Idle
<1>3. CASE job[w] = Idle /\ Call(w)
      BY <1>1, <1>3, CallMoves DEF Overtaken, Idle
<1>4. ASSUME NEW j, Becomes(w, j), Passes(w, j) PROVE Overtaken(w)'
      BY <1>1, <1>4 DEF Becomes, Passes
<1>5. ASSUME NEW j, Becomes(w, j), PassesGate(w, j) PROVE Overtaken(w)'
  <2>1. job'[w] = j /\ j.pc = "evidence" /\ ~Over(j.request)'
        BY <1>5 DEF Becomes, PassesGate, TypeOK, Over
  <2>. QED BY <2>1 DEF Overtaken, Over
<1>6. ASSUME NEW j, Becomes(w, j), TakesToken(w, j) PROVE Overtaken(w)'
  <2>. PICK r : r = job[w].request
       OBVIOUS
  <2>1. job[w].op = "assign" /\ r \in Requests
        BY <1>0, <1>6 DEF Becomes, TakesToken, Steady
  <2>2. job'[w] = j /\ j.request = r /\ j.pc = "load" /\ j.evidence = Revision(r, job[w].pair)
        BY <1>6 DEF Becomes, TakesToken, TypeOK
  <2>3. SawOver(j) => Over(r)
    <3>. SUFFICES ASSUME NEW seen \in Revision(r, job[w].pair).requests,
                         seen[1] = r, seen[2].status \in TerminalReservation
                  PROVE  Over(r)
         BY <2>2 DEF SawOver
    <3>1. seen[2] = View(r)
          BY <2>1, TokenShowsRequest
    <3>. QED BY <2>1, <3>1, TokenShowsRequest
  <2>4. Over(r) => Closed(w, r)
        BY <1>6, <2>1 DEF Overtaken, TakesToken, At
  <2>5. Closed(w, r) => Closed(w, r)'
        BY <1>6 DEF Closed, Over, Becomes, TakesToken, TypeOK
  <2>6. SawOver(job'[w]) => Closed(w, r)'
        BY <2>2, <2>3, <2>4, <2>5
  <2>. QED BY <2>2, <2>6 DEF Overtaken
<1>7. ASSUME NEW j, Becomes(w, j), LoadsPath(w, j) PROVE Overtaken(w)'
  <2>1. job'[w] = j /\ (SawOver(j) => SawOver(job[w])) /\ j.pc \in {"hop", "commit"}
        BY <1>7 DEF Becomes, LoadsPath, TypeOK, SawOver
  <2>2. ASSUME j.op = "assign", SawOver(job[w]) PROVE FALSE
    <3>1. Over(j.request) /\ j.goal = "Assigned"
          BY <1>0, <1>7, <2>2 DEF Overtaken, Closed, Becomes, LoadsPath, At, Steady
    <3>2. j.goal = request[j.request].status
          BY <1>7, <3>1, NoPathFromTheEnd DEF LoadsPath, Over
    <3>. QED BY <3>1, <3>2 DEF Over, TerminalReservation
  <2>. QED BY <2>1, <2>2 DEF Overtaken
<1>8. ASSUME NEW j, Becomes(w, j), HopsOn(w, j) PROVE Overtaken(w)'
  <2>1. job'[w] = j /\ (SawOver(j) => SawOver(job[w])) /\ j.pc \in {"hop", "commit"} /\ j.op = job[w].op
        BY <1>8 DEF Becomes, HopsOn, TypeOK, SawOver
  <2>. QED BY <1>8, <2>1 DEF Overtaken, HopsOn, At
<1>. QED BY <1>0, <1>2, <1>3, <1>4, <1>5, <1>6, <1>7, <1>8, StepMoves DEF Crash

\* What an assignment knows outlives a step of the only other handler: it closes
\* the request as the last thing it does, and does not find a closed one to write.
LEMMA OthersKeepOvertaken ==
    ASSUME TypeOK, AllSteady, NEW w \in Workers, NEW v \in Workers, v # w,
           \A u \in Workers : u = v \/ u = w,
           \A u \in Workers \ {w} : job'[u] = job[u],
           Reopens(w), Closes(w), BeginsOpen(w), Overtaken(v)
    PROVE  Overtaken(v)'
<1>. SUFFICES ASSUME job[v].op = "assign" PROVE Overtaken(v)'
     BY DEF Overtaken
<1>. PICK r : r = job[v].request
     OBVIOUS
<1>0. job'[v] = job[v] /\ r \in Requests
      BY DEF AllSteady, Steady
<1>1. ASSUME Closed(v, r) PROVE Closed(v, r)'
  <2>1. ~(Writing(job[w]) /\ job[w].request = r)
        BY <1>1 DEF Closed
  <2>2. Over(r)'
        BY <1>0, <1>1, <2>1 DEF Reopens, Closed
  <2>3. ~(Writing(job'[w]) /\ job'[w].request = r)
        BY <2>1, <2>2 DEF BeginsOpen, Over
  <2>. QED BY <2>2, <2>3 DEF Closed
<1>2. ASSUME ~Over(r), Over(r)' PROVE Closed(v, r)'
  <2>1. ~Writing(job'[w])
        BY <1>0, <1>2 DEF Closes, Writing, Idle
  <2>. QED BY <1>2, <2>1 DEF Closed
<1>3. job[v].pc = "evidence" /\ Over(r)' => Closed(v, r)'
      BY <1>1, <1>2 DEF Overtaken
<1>4. job[v].pc = "load" /\ SawOver(job[v]) => Closed(v, r)'
      BY <1>1 DEF Overtaken
<1>5. job[v].pc \in {"hop", "commit"} => ~SawOver(job[v])
      BY DEF Overtaken
<1>. QED BY <1>0, <1>3, <1>4, <1>5 DEF Overtaken

\* The pair of a request is only written with a token that still holds.
LEMMA NoPairWhereOver ==
    ASSUME TypeOK, Served, AllSteady, AllOvertaken, "create" \notin Handlers, "ground" \notin Handlers,
           NEW w \in Workers, Call(w) \/ Step(w) \/ Crash(w), NEW r \in Requests,
           request'[r].pair # request[r].pair, request'[r].pair # NoPair
    PROVE  request[r].status \notin TerminalReservation
<1>0. job[w] \in Job /\ Steady(job[w])
      BY DEF TypeOK, AllSteady
<1>1. CASE CommitAssign(w)
  <2>1. job[w].request = r
        BY <1>1 DEF CommitAssign, TypeOK, RequestRow
  <2>2. job[w].pc = "commit" /\ job[w].op = "assign" /\ Revision(r, job[w].pair) = job[w].evidence
        BY <1>1, <2>1 DEF CommitAssign, At, FreshEvidence
  <2>3. ~SawOver(job[w])
        BY <2>2 DEF AllOvertaken, Overtaken
  <2>4. <<r, View(r)>> \in job[w].evidence.requests
        BY <2>2, TokenShowsRequest
  <2>5. View(r).status \notin TerminalReservation
        BY <2>1, <2>3, <2>4 DEF SawOver
  <2>. QED BY <2>5, TokenShowsRequest DEF Over
<1>2. CASE ~CommitAssign(w)
  <2>. SUFFICES ASSUME TRUE PROVE request'[r].pair \in {request[r].pair, NoPair}
       OBVIOUS
  <2>1. UNCHANGED request => request'[r].pair \in {request[r].pair, NoPair}
        OBVIOUS
  <2>2. ASSUME NEW q \in Requests, CancelRequest(w, q) PROVE request'[r].pair \in {request[r].pair, NoPair}
        BY <2>2 DEF CancelRequest, TypeOK, RequestRow
  <2>3. ASSUME Hop(w) PROVE request'[r].pair \in {request[r].pair, NoPair}
    <3>1. job[w].op # "create"
          BY DEF Served
    <3>. QED BY <2>3, <3>1 DEF Hop, TypeOK, RequestRow
  <2>4. ASSUME StandDownTx(w) PROVE request'[r].pair \in {request[r].pair, NoPair}
        BY SMTT(30), <2>1, <2>4 DEF StandDownTx, TypeOK, RequestRow
  <2>5. ASSUME RescheduleWrite(w) PROVE request'[r].pair \in {request[r].pair, NoPair}
        BY <2>5 DEF RescheduleWrite, TypeOK, RequestRow
  <2>6. ~GroundNext(w)
        BY <1>0 DEF GroundNext, At, Steady
  <2>. QED BY <1>2, <2>1, <2>2, <2>3, <2>4, <2>5, <2>6
           DEF Call, Assign, Create, Reassign, StandDown, Reschedule, ApproveLeave, TripStep, MobileAccept,
               Decline, Start, Complete, CancelTrip, EditTrip, Ground,
               Step, Screen, Gate, Evidence, Refused, CommitCreate, CommitReassign, EnsureTrip, InsertTrip,
               Load, FlipRead, Flip, TripTx, Busy, DeclineWrite, StartTx, CancelTripTx, Crash
<1>. QED BY <1>1, <1>2

\* NoPairForClosedRequest for every instance of two workers, any rows and any
\* pairs, in which vehicles are not grounded and POST /api/dispatch, which writes
\* the pair long after its token was spent, is not served.  Who closes a request
\* behind the gate of an assignment is done with it, so that nobody is left to
\* open it again before the assignment looks for its path and finds none.
THEOREM NoPairForClosedRequestHolds ==
    ASSUME \A t, u, v \in Workers : t = u \/ u = v \/ t = v,
           {"create", "ground"} \intersect Handlers = {}
    PROVE  Spec => NoPairForClosedRequest
<1>. DEFINE Inv == Served /\ AllSteady /\ AllOvertaken
<1>0. "create" \notin Handlers /\ "ground" \notin Handlers
      OBVIOUS
<1>1. Init => Inv
  <2>1. 1..Len(<<>>) = {}
        OBVIOUS
  <2>2. Steady(Idle)
        BY <2>1 DEF Steady, Idle
  <2>3. Idle.op = "none"
        BY DEF Idle
  <2>4. Init => \A w \in Workers : job[w] = Idle
        BY DEF Init
  <2>. QED BY <2>2, <2>3, <2>4 DEF Served, AllSteady, AllOvertaken, Overtaken
<1>2. TypeOK /\ Inv /\ [Next]_vars => Inv'
  <2>. SUFFICES ASSUME TypeOK, Inv, [Next]_vars PROVE Inv'
       OBVIOUS
  <2>1. CASE UNCHANGED vars
        BY <2>1 DEF vars, Served, AllSteady, AllOvertaken, Overtaken, SawOver, Closed, Over
  <2>2. ASSUME NEW w \in Workers, (job[w] = Idle /\ Call(w)) \/ Step(w) \/ Crash(w) PROVE Inv'
    <3>1. Served' /\ AllSteady'
          BY <1>0, <2>2, CallServed, StepServed, StaysSteady
    <3>2. \A u \in Workers \ {w} : job'[u] = job[u]
      <4>1. ASSUME NEW j, job' = [job EXCEPT ![w] = j] PROVE \A u \in Workers \ {w} : job'[u] = job[u]
            BY <4>1 DEF TypeOK
      <4>2. (\E j : job' = [job EXCEPT ![w] = j]) \/ UNCHANGED job
            BY <1>0, <2>2, StepMoves, CallMoves DEF Becomes, Finish, Crash, AllSteady
      <4>. QED BY <4>1, <4>2
    <3>3. Reopens(w) /\ Closes(w) /\ BeginsOpen(w)
          BY <1>0, <2>2, WritesStatus, WritersBeginOpen
    <3>4. Overtaken(w)'
          BY <1>0, <2>2, OwnStepKeepsOvertaken DEF AllOvertaken
    <3>5. ASSUME NEW v \in Workers, v # w PROVE Overtaken(v)'
          BY <3>2, <3>3, <3>5, OthersKeepOvertaken DEF AllOvertaken
    <3>. QED BY <3>1, <3>4, <3>5 DEF AllOvertaken
  <2>. QED BY <2>1, <2>2 DEF Next
<1>3. TypeOK /\ Inv /\ [Next]_vars
        => [\A r \in Requests : (request'[r].pair # request[r].pair /\ request'[r].pair # NoPair)
                                  => request[r].status \notin TerminalReservation]_vars
  <2>. SUFFICES ASSUME TypeOK, Inv, NEW w \in Workers, Call(w) \/ Step(w) \/ Crash(w), NEW r \in Requests,
                       request'[r].pair # request[r].pair, request'[r].pair # NoPair
                PROVE  request[r].status \notin TerminalReservation
       BY DEF Next
  <2>. QED BY <1>0, NoPairWhereOver
<1>. QED BY <1>1, <1>2, <1>3, TypeCorrect, PTL DEF Spec, NoPairForClosedRequest
=============================================================================

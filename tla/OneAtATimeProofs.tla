--------------------------- MODULE OneAtATimeProofs ---------------------------
(***************************************************************************)
(* What FleetLifecycle promises while handlers run one at a time, none is  *)
(* interrupted, and nobody raises a second dispatch, takes leave or edits  *)
(* a trip by hand: the statuses of a request, its dispatch and its trip    *)
(* tell the same story, and a request moves along the adjacency map.       *)
(*                                                                         *)
(* None of it is inductive by itself.  The invariant says what a handler   *)
(* that is under way knows of the rows it is about to write (InPlace): no  *)
(* statement repeats the checks the handler made when it began, so what    *)
(* keeps the rows in order is that they still hold.  The rest of the       *)
(* invariant relates each table to the next: a trip to its dispatch        *)
(* (TripsFollow), a dispatch to its request and to its trip (OpenRows,     *)
(* TripsRaised), a request to its dispatch (RequestsFollow).               *)
(***************************************************************************)
EXTENDS MCFleetLifecycle, FleetLifecycleProofs

\* Handlers run one at a time and to their end, and three are not served: with
\* POST /api/dispatch, leave or the edit of a trip the promises are false.
OneAtATime ==
    /\ \A u, w \in Workers : u = w
    /\ ~Crashes
    /\ {"create", "leave", "editTrip"} \intersect Handlers = {}

------------------------------------------------------------------------------
(* The rows between two steps *)

StartedTrip == TripStatus \ (PreStart \union TerminalTrip)

\* A trip belongs to a raised dispatch, one to each; the dispatch is open while
\* the trip is, In Progress once the trip started, Completed once it completed.
TripsFollow ==
    /\ \A t \in Trips : trip[t].status # "Absent" => Raised(trip[t].dispatch)
    /\ \A t \in Trips : OpenTrip(t) => dispatch[trip[t].dispatch].status \notin TerminalDispatch
    /\ \A t \in Trips :
          trip[t].status \in StartedTrip => dispatch[trip[t].dispatch].status = "In Progress"
    /\ CompletedTogether
    /\ \A t, u \in Trips :
          (trip[t].status # "Absent" /\ trip[u].status # "Absent"
             /\ trip[t].dispatch = trip[u].dispatch) => t = u

\* A dispatch that has not ended belongs to a request that has not.
OpenRows ==
    \A d \in Dispatches :
        Raised(d) =>
          /\ dispatch[d].request \in Requests
          /\ dispatch[d].status \notin TerminalDispatch
               => request[dispatch[d].request].status \notin TerminalReservation

\* A dispatch without a trip is new, and its trip is about to be inserted.
TripsRaised ==
    \A d \in Dispatches :
        (Raised(d) /\ TripsOf(d) = {})
          => /\ dispatch[d].status = "Scheduled"
             /\ \E w \in Workers : job[w].pc \in {"ensure", "insert"} /\ job[w].dispatch = d

\* A handler that moved a dispatch and has its request yet to move.
Advancing(j) == j.op \in {"start", "complete", "cancelTrip"} /\ j.pc \in {"load", "hop"}

Running(r) == \E d \in DispatchesOf(r) : dispatch[d].status = "In Progress"
Agrees(r) == request[r].status = "In Progress" <=> Running(r)

RequestsFollow ==
    \A r \in Requests : Agrees(r) \/ \E w \in Workers : Advancing(job[w]) /\ job[w].request = r

------------------------------------------------------------------------------
(* The handlers between two steps *)

\* The hops to make are legal one after the other, and only the last one can be the end.
Chain(from, hops, to) ==
    /\ hops # <<>> => CanTransitionReservation(from, hops[1]) /\ hops[Len(hops)] = to
    /\ \A i \in 1..(Len(hops) - 1) :
          /\ CanTransitionReservation(hops[i], hops[i + 1])
          /\ hops[i] \notin TerminalReservation

OnTrip(j) ==
    /\ j.trip \in Trips /\ trip[j.trip].status # "Absent"
    /\ j.dispatch = trip[j.trip].dispatch /\ j.request = dispatch[j.dispatch].request

\* The request is open, and the hops that are left lead it to the goal.
ToGoal(j) ==
    /\ j.pc \in {"load", "hop"}
    /\ request[j.request].status \notin TerminalReservation
    /\ j.pc = "hop" => j.path # <<>> /\ Chain(request[j.request].status, j.path, j.goal)

\* The dispatch has a pair to give to its trip.
Ensuring(j) ==
    /\ j.pc \in {"ensure", "insert"} /\ Raised(j.dispatch)
    /\ None \notin {dispatch[j.dispatch].pair[1], dispatch[j.dispatch].pair[2]}
    /\ j.pc = "insert" => TripsOf(j.dispatch) = {}

Resting(j) == j.op = "none" /\ j.pc = "idle"

Assigning(j) ==
    /\ j.op = "assign" /\ j.request \in Requests /\ j.pair \in Vehicles \X Drivers
    /\ j.goal = "Assigned"
    /\ \/ j.pc \in {"screen", "gate"}
       \/ j.pc \in {"evidence", "load"} /\ request[j.request].status \in Actionable
       \/ /\ j.pc \in {"hop", "commit"} /\ request[j.request].status \in Actionable
          /\ Chain(request[j.request].status, j.path, j.goal)
          /\ \A i \in 1..Len(j.path) : j.path[i] \in Actionable
       \/ Ensuring(j)

Reassigning(j) ==
    /\ j.op = "reassign" /\ Raised(j.dispatch) /\ j.pair \in Vehicles \X Drivers
    /\ j.request = dispatch[j.dispatch].request
    /\ \/ j.pc = "gate"
       \/ j.pc \in {"evidence", "commit"} /\ request[j.request].status \in Actionable
       \/ /\ j.pc \in {"flipRead", "flip"} /\ j.to = "Scheduled"
          /\ dispatch[j.dispatch].status = "Pending Reassignment"
          /\ dispatch[j.dispatch].pair = j.pair
       \/ Ensuring(j)

StandingDown(j) ==
    j.op = "standDown" /\ j.pc = "standDown" /\ j.dispatch \in Dispatches /\ Raised(j.dispatch)

Rescheduling(j) == j.op = "reschedule" /\ j.pc = "reschedule"

Driving(j) ==
    /\ j.op = "tripStep" /\ OnTrip(j) /\ j.goal = "In Progress"
    /\ \/ j.pc = "tripTx" /\ j.to \in DriverSteps
       \/ /\ j.pc \in {"busy", "load"} /\ dispatch[j.dispatch].status = "In Progress"
          /\ request[j.request].status = "In Progress"

Declining(j) ==
    j.op = "decline" /\ j.pc = "decline" /\ OnTrip(j) /\ trip[j.trip].status # "Completed"

Starting(j) ==
    /\ j.op = "start" /\ OnTrip(j) /\ j.goal = "In Progress"
    /\ \/ j.pc = "gate"
       \/ j.pc \in {"evidence", "startTx"} /\ request[j.request].status \in Actionable
       \/ dispatch[j.dispatch].status = "In Progress" /\ ToGoal(j)

Completing(j) ==
    /\ j.op = "complete" /\ OnTrip(j) /\ j.goal = "Completed"
    /\ dispatch[j.dispatch].status = "Completed" /\ ToGoal(j)

Cancelling(j) ==
    /\ j.op = "cancelTrip" /\ OnTrip(j) /\ j.goal = "Cancelled"
    /\ \/ j.pc = "cancelTx" /\ OpenTrip(j.trip)
       \/ dispatch[j.dispatch].status = "Cancelled" /\ ToGoal(j)

\* The dispatches yet to be interrupted are as they were seen.
Grounding(j) ==
    /\ j.op = "ground"
    /\ \A hit \in j.todo : dispatch[hit[1]].status = hit[2]
    /\ \/ j.pc = "ground"
       \/ /\ j.pc \in {"flipRead", "flip"} /\ j.to = "Pending Reassignment"
          /\ dispatch[j.dispatch].status = "Scheduled" /\ j.dispatch \in Dispatches
          /\ \A hit \in j.todo : hit[1] # j.dispatch

InPlace(j) ==
    \/ Resting(j) \/ Assigning(j) \/ Reassigning(j) \/ StandingDown(j) \/ Rescheduling(j)
    \/ Driving(j) \/ Declining(j) \/ Starting(j) \/ Completing(j) \/ Cancelling(j) \/ Grounding(j)

JobsInPlace == \A w \in Workers : InPlace(job[w])

RowsFollow == TripsFollow /\ OpenRows /\ TripsRaised /\ RequestsFollow

\* The inductive invariant, with what other theorems hold of every instance.
Known == TypeOK /\ OwnDispatches
Told == RowsFollow /\ JobsInPlace

------------------------------------------------------------------------------
(* Paths *)

\* No hop of the adjacency map leaves a terminal status, and each is a legal move.
LEMMA HopsAreLegal ==
    ASSUME NEW from, NEW to, <<from, to>> \in ReservationNext
    PROVE  from \notin TerminalReservation /\ CanTransitionReservation(from, to)
BY DEF ReservationNext, TerminalReservation, CanTransitionReservation

\* The hops of a path make a chain that ends at its goal.
LEMMA PathIsChain ==
    ASSUME NEW from, NEW to, TransitionPath(from, to) # NoPath
    PROVE  /\ Chain(from, Tail(TransitionPath(from, to)), to)
           /\ Len(TransitionPath(from, to)) = 1 <=> from = to
           /\ from = to <=> Tail(TransitionPath(from, to)) = <<>>
<1>1. CASE from = to
  <2>1. TransitionPath(from, to) = <<from>>
        BY <1>1 DEF TransitionPath
  <2>2. Tail(<<from>>) = <<>> /\ Len(<<from>>) = 1 /\ 1..(Len(<<>>) - 1) = {}
        OBVIOUS
  <2>. QED BY <1>1, <2>1, <2>2 DEF Chain
<1>2. CASE from # to /\ to = "Cancelled"
  <2>1. TransitionPath(from, to) = <<from, "Cancelled">> /\ from \notin TerminalReservation
        BY <1>2 DEF TransitionPath
  <2>2. /\ Tail(<<from, "Cancelled">>) = <<"Cancelled">> /\ Len(<<from, "Cancelled">>) = 2
        /\ Len(<<"Cancelled">>) = 1 /\ 1..(Len(<<"Cancelled">>) - 1) = {}
        /\ <<"Cancelled">> # <<>> /\ <<"Cancelled">>[1] = "Cancelled"
        OBVIOUS
  <2>3. Chain(from, <<"Cancelled">>, "Cancelled")
        BY <2>1, <2>2 DEF Chain, CanTransitionReservation
  <2>. DEFINE p == TransitionPath(from, to)
  <2>4. Tail(p) = <<"Cancelled">> /\ Len(p) = 2 /\ Tail(p) # <<>>
        BY <2>1, <2>2, Zenon
  <2>. HIDE DEF p
  <2>5. Chain(from, Tail(p), to)
        BY <1>2, <2>3, <2>4, Zenon
  <2>6. ~(Len(p) = 1)
        BY <2>4
  <2>. QED BY <1>2, <2>4, <2>5, <2>6, Zenon DEF p
<1>3. CASE from # to /\ to # "Cancelled"
  <2>. DEFINE p == TransitionPath(from, to)
              hops == Tail(p)
  <2>1. p \in Walks(from, to)
        BY <1>3, ShortestWalk DEF TransitionPath, NoPath
  <2>2. p \in Seq(ReservationStatus) /\ Len(p) \in 2..5 /\ p[Len(p)] = to /\ p[1] = from
        BY <2>1, WalkType DEF MaxWalk, Walks
  <2>3. IsWalk(p)
        BY <2>1 DEF Walks, AllWalks
  <2>. HIDE DEF p
  <2>4. /\ Len(hops) = Len(p) - 1 /\ hops # <<>>
        /\ \A i \in 1..Len(hops) : hops[i] = p[i + 1]
    <3>1. Len(hops) = Len(p) - 1
          BY <2>2
    <3>2. \A i \in 1..Len(hops) : hops[i] = p[i + 1]
          BY <2>2
    <3>3. Len(<<>>) = 0
          OBVIOUS
    <3>4. Len(p) - 1 # 0
          BY <2>2
    <3>. QED BY <3>1, <3>2, <3>3, <3>4, Zenon
  <2>5. \A i \in 1..(Len(p) - 1) : /\ CanTransitionReservation(p[i], p[i + 1])
                                   /\ p[i] \notin TerminalReservation
        BY <2>2, <2>3, HopsAreLegal DEF IsWalk
  <2>. HIDE DEF hops
  <2>6. hops[1] = p[2] /\ hops[Len(hops)] = to /\ CanTransitionReservation(p[1], p[2])
        BY <2>2, <2>4, <2>5
  <2>7. ASSUME NEW i \in 1..(Len(hops) - 1)
        PROVE  /\ CanTransitionReservation(hops[i], hops[i + 1])
               /\ hops[i] \notin TerminalReservation
    <3>1. i + 1 \in 1..(Len(p) - 1) /\ i \in 1..Len(hops) /\ i + 1 \in 1..Len(hops)
          BY <2>2, <2>4
    <3>2. hops[i] = p[i + 1] /\ hops[i + 1] = p[(i + 1) + 1]
          BY <2>4, <3>1
    <3>. QED BY <2>5, <3>1, <3>2
  <2>8. Chain(from, hops, to)
        BY <2>2, <2>6, <2>7 DEF Chain
  <2>. QED BY <1>3, <2>2, <2>4, <2>8 DEF hops, p
<1>. QED BY <1>1, <1>2, <1>3

\* An assignment walks its request through statuses in which it can be assigned.
LEMMA AssignmentStaysActionable ==
    ASSUME NEW from \in Actionable, TransitionPath(from, "Assigned") # NoPath,
           NEW i \in 1..Len(Tail(TransitionPath(from, "Assigned")))
    PROVE  Tail(TransitionPath(from, "Assigned"))[i] \in Actionable
<1>1. CASE from = "Assigned"
  <2>1. TransitionPath(from, "Assigned") = <<from>>
        BY <1>1 DEF TransitionPath
  <2>2. Len(Tail(<<from>>)) = 0
        OBVIOUS
  <2>. QED BY <2>1, <2>2
<1>2. CASE from # "Assigned"
  <2>. DEFINE p == TransitionPath(from, "Assigned")
              n == Len(p)
  <2>1. p \in Walks(from, "Assigned")
        BY <1>2, ShortestWalk DEF TransitionPath, NoPath
  <2>2. p \in Seq(ReservationStatus) /\ n \in 2..5 /\ p[n] = "Assigned"
        BY <2>1, WalkType DEF MaxWalk
  <2>3. IsWalk(p)
        BY <2>1 DEF Walks, AllWalks
  <2>. HIDE DEF p
  <2>4. Tail(p)[i] = p[i + 1] /\ i \in 1..(n - 1) /\ i + 1 \in 1..n
        BY <2>2 DEF p
  <2>. HIDE DEF n
  <2>5. <<p[i], p[i + 1]>> \in ReservationNext
        BY <2>3, <2>4 DEF IsWalk, n
  <2>6. p[i] # "Assigned"
        BY <2>2, <2>3, <2>4 DEF IsWalk, n
  <2>7. p[i] # "In Progress"
    <3>1. CASE i = 1
          BY <2>1, <3>1 DEF Walks, p, Actionable
    <3>2. CASE i # 1
      <4>1. i - 1 \in 1..(n - 1) /\ i - 1 # n /\ n \in 1..n /\ (i - 1) + 1 = i /\ i - 1 \in 1..n
            BY <2>2, <2>4, <3>2
      <4>2. <<p[i - 1], p[i]>> \in ReservationNext
            BY <2>3, <4>1 DEF IsWalk, n
      <4>3. p[i - 1] # "Assigned"
            BY <2>2, <2>3, <4>1 DEF IsWalk, n
      <4>. QED BY <4>2, <4>3 DEF ReservationNext
    <3>. QED BY <3>1, <3>2
  <2>8. p[i + 1] \in Actionable
        BY <2>5, <2>6, <2>7 DEF ReservationNext, Actionable
  <2>. QED BY <2>4, <2>8 DEF p
<1>. QED BY <1>1, <1>2

\* A hop further the chain is a chain still, and the request has not ended.
LEMMA ChainMovesOn ==
    ASSUME NEW from, NEW hops \in Seq(ReservationStatus), NEW to, Chain(from, hops, to), Len(hops) > 1
    PROVE  /\ Chain(hops[1], Tail(hops), to) /\ Tail(hops) # <<>>
           /\ hops[1] \notin TerminalReservation
<1>. DEFINE rest == Tail(hops)
<1>1. /\ Len(rest) = Len(hops) - 1 /\ Len(hops) \in Nat
      /\ \A i \in 1..Len(rest) : rest[i] = hops[i + 1]
      OBVIOUS
<1>2. /\ hops[Len(hops)] = to
      /\ \A i \in 1..(Len(hops) - 1) : /\ CanTransitionReservation(hops[i], hops[i + 1])
                                       /\ hops[i] \notin TerminalReservation
  <2>1. hops # <<>>
        OBVIOUS
  <2>. QED BY <2>1 DEF Chain
<1>3. rest # <<>>
  <2>. HIDE DEF rest
  <2>1. Len(hops) - 1 # 0
        BY <1>1
  <2>2. Len(<<>>) = 0
        OBVIOUS
  <2>. QED BY <1>1, <2>1, <2>2, Zenon
<1>. HIDE DEF rest
<1>4. rest[1] = hops[2] /\ rest[Len(rest)] = to
      BY <1>1, <1>2
<1>5. CanTransitionReservation(hops[1], hops[2]) /\ hops[1] \notin TerminalReservation
      BY <1>1, <1>2
<1>6. ASSUME NEW i \in 1..(Len(rest) - 1)
      PROVE  CanTransitionReservation(rest[i], rest[i + 1]) /\ rest[i] \notin TerminalReservation
  <2>1. i + 1 \in 1..(Len(hops) - 1) /\ i \in 1..Len(rest) /\ i + 1 \in 1..Len(rest)
        BY <1>1
  <2>. QED BY <1>1, <1>2, <2>1
<1>7. Chain(hops[1], rest, to)
      BY <1>4, <1>5, <1>6 DEF Chain
<1>. QED BY <1>3, <1>5, <1>7 DEF rest

\* The way of a request that meets no trouble.
Course == [i \in 1..5 |-> IF i = 1 THEN "Pending" ELSE IF i = 2 THEN "Scheduled"
                          ELSE IF i = 3 THEN "Assigned" ELSE IF i = 4 THEN "In Progress"
                          ELSE "Completed"]

\* Every stretch of it is a walk, so where a request is short of a status of its
\* course there is a path to it.
LEMMA CourseIsPath ==
    ASSUME NEW a \in 1..4, NEW b \in (a + 1)..5
    PROVE  TransitionPath(Course[a], Course[b]) # NoPath
<1>. DEFINE n == b - a + 1
            p == [i \in 1..n |-> Course[a + i - 1]]
<1>1. /\ \A i \in 1..5 : Course[i] \in ReservationStatus \ {"Cancelled"}
      /\ \A i \in 1..4 : /\ <<Course[i], Course[i + 1]>> \in ReservationNext
                         /\ Course[i] \in ReleaseIntoScheduled => Course[i + 1] # "Scheduled"
                         /\ Course[i] \notin TerminalReservation
      /\ \A i, j \in 1..5 : Course[i] = Course[j] => i = j
      BY DEF Course, ReservationStatus, ReservationNext, ReleaseIntoScheduled, TerminalReservation
<1>2. n \in 2..5 /\ \A i \in 1..n : a + i - 1 \in 1..5
      OBVIOUS
<1>3. p \in [1..n -> ReservationStatus]
      BY <1>1, <1>2
<1>4. p \in Seq(ReservationStatus) /\ Len(p) = n
  <2>. HIDE DEF p
  <2>. QED BY <1>2, <1>3
<1>5. /\ p[1] = Course[a] /\ p[n] = Course[b]
      /\ \A i \in 1..n : p[i] = Course[a + i - 1]
  <2>1. 1 \in 1..n /\ n \in 1..n /\ a + 1 - 1 = a /\ a + n - 1 = b
        OBVIOUS
  <2>. QED BY <2>1, Zenon
<1>6. IsWalk(p)
  <2>1. ASSUME NEW i \in 1..(Len(p) - 1)
        PROVE  <<p[i], p[i + 1]>> \in ReservationNext
               /\ (p[i] \in ReleaseIntoScheduled => p[i + 1] # "Scheduled")
    <3>1. i \in 1..n /\ i + 1 \in 1..n /\ a + i - 1 \in 1..4 /\ a + (i + 1) - 1 = (a + i - 1) + 1
          BY <1>4
    <3>2. p[i] = Course[a + i - 1] /\ p[i + 1] = Course[(a + i - 1) + 1]
          BY <1>5, <3>1, Zenon
    <3>. QED BY <1>1, <3>1, <3>2, Zenon
  <2>2. ASSUME NEW i \in 1..Len(p), NEW j \in 1..Len(p), p[i] = p[j] PROVE i = j
    <3>1. a + i - 1 \in 1..5 /\ a + j - 1 \in 1..5 /\ p[i] = Course[a + i - 1]
          /\ p[j] = Course[a + j - 1]
          BY <1>2, <1>4, <1>5, <2>2, Zenon
    <3>2. a + i - 1 = a + j - 1
          BY <1>1, <2>2, <3>1, Zenon
    <3>. QED BY <1>4, <3>2
  <2>. HIDE DEF p
  <2>. QED BY <2>1, <2>2 DEF IsWalk
<1>. HIDE DEF p
<1>7. p \in Walks(Course[a], Course[b])
  <2>1. p[1] = Course[a] /\ p[Len(p)] = Course[b]
        BY <1>4, <1>5, Zenon
  <2>. HIDE DEF n
  <2>. QED BY <1>2, <1>3, <1>6, <2>1 DEF Walks, AllWalks, MaxWalk
<1>8. Course[a] # Course[b] /\ Course[a] \notin TerminalReservation /\ Course[b] # "Cancelled"
      BY <1>1
<1>9. TransitionPath(Course[a], Course[b]) \in Walks(Course[a], Course[b])
  <2>1. Walks(Course[a], Course[b]) # {}
        BY <1>7
  <2>. QED BY <1>8, <2>1, ShortestWalk DEF TransitionPath
<1>10. Len(TransitionPath(Course[a], Course[b])) \in 2..5
      BY <1>9, WalkType DEF MaxWalk
<1>11. Len(NoPath) = 0
      BY DEF NoPath
<1>12. 0 \notin 2..5
      OBVIOUS
<1>. QED BY <1>10, <1>11, <1>12, Zenon

\* So no handler that moved a dispatch is refused the move of its request.
LEMMA PathsExist ==
    ASSUME NEW from \in ReservationStatus \ TerminalReservation
    PROVE  /\ TransitionPath(from, "In Progress") # NoPath
           /\ TransitionPath(from, "Completed") # NoPath
           /\ TransitionPath(from, "Cancelled") # NoPath
<1>1. PICK a \in 1..4 : from = Course[a]
  <2>1. /\ Course[1] = "Pending" /\ Course[2] = "Scheduled"
        /\ Course[3] = "Assigned" /\ Course[4] = "In Progress"
        BY DEF Course
  <2>2. from \in {"Pending", "Scheduled", "Assigned", "In Progress"}
        BY DEF ReservationStatus, TerminalReservation
  <2>3. 1 \in 1..4 /\ 2 \in 1..4 /\ 3 \in 1..4 /\ 4 \in 1..4
        OBVIOUS
  <2>. QED BY <2>1, <2>2, <2>3, Zenon
<1>2. Course[4] = "In Progress" /\ Course[5] = "Completed"
      BY DEF Course
<1>3. TransitionPath(from, "Completed") # NoPath
  <2>1. 5 \in (a + 1)..5
        OBVIOUS
  <2>. QED BY <1>1, <1>2, <2>1, CourseIsPath
<1>4. <<from>> # NoPath /\ <<from, "Cancelled">> # NoPath
      BY DEF NoPath
<1>5. TransitionPath(from, "In Progress") # NoPath
  <2>1. CASE a = 4
        BY <1>1, <1>2, <1>4, <2>1 DEF TransitionPath
  <2>2. CASE a # 4
    <3>1. 4 \in (a + 1)..5
          BY <2>2
    <3>. QED BY <1>1, <1>2, <3>1, CourseIsPath
  <2>. QED BY <2>1, <2>2
<1>6. TransitionPath(from, "Cancelled") # NoPath
      BY <1>4 DEF TransitionPath, TerminalReservation
<1>. QED BY <1>3, <1>5, <1>6

------------------------------------------------------------------------------
(* The job of the handler at work *)

\* Whoever else would be at work is this one.
LEMMA NobodyElse ==
    ASSUME OneAtATime, NEW w \in Workers PROVE \A u \in Workers : u = w
BY DEF OneAtATime

\* A handler that ends leaves its worker at rest.
LEMMA FinishRests ==
    ASSUME OneAtATime, TypeOK, NEW w \in Workers, Finish(w)
    PROVE  JobsInPlace' /\ Resting(job[w])'
<1>1. job'[w] = Idle
      BY DEF Finish, TypeOK
<1>2. Resting(job[w])'
      BY <1>1 DEF Resting, Idle
<1>3. InPlace(job[w])'
      BY <1>2 DEF InPlace
<1>. QED BY <1>2, <1>3, NobodyElse DEF JobsInPlace

\* Going to a step changes nothing else of a job.
LEMMA GotoMoves ==
    ASSUME TypeOK, NEW w \in Workers, NEW step, Goto(w, step)
    PROVE  /\ job'[w].pc = step /\ job'[w].op = job[w].op /\ job'[w].request = job[w].request
           /\ job'[w].dispatch = job[w].dispatch /\ job'[w].trip = job[w].trip
           /\ job'[w].pair = job[w].pair /\ job'[w].to = job[w].to /\ job'[w].goal = job[w].goal
           /\ job'[w].path = job[w].path /\ job'[w].todo = job[w].todo
BY DEF Goto, TypeOK, Job

\* Nor does the spending of the token, but for the dispatch.
LEMMA CommittedMoves ==
    ASSUME TypeOK, NEW w \in Workers, NEW d, NEW step, Committed(w, d, step)
    PROVE  /\ job'[w].pc = step /\ job'[w].op = job[w].op /\ job'[w].request = job[w].request
           /\ job'[w].dispatch = d /\ job'[w].trip = job[w].trip
           /\ job'[w].pair = job[w].pair /\ job'[w].to = job[w].to /\ job'[w].goal = job[w].goal
           /\ job'[w].todo = job[w].todo
<1>. DEFINE j == [job[w] EXCEPT !.evidence = NoEvidence, !.path = <<>>, !.dispatch = d, !.pc = step]
<1>1. job'[w] = j
      BY DEF Committed, TypeOK
<1>2. /\ j.pc = step /\ j.op = job[w].op /\ j.request = job[w].request
      /\ j.dispatch = d /\ j.trip = job[w].trip
      /\ j.pair = job[w].pair /\ j.to = job[w].to /\ j.goal = job[w].goal
      /\ j.todo = job[w].todo
      BY DEF TypeOK, Job
<1>. HIDE DEF j
<1>. QED BY <1>1, <1>2

\* Whose job is in place are all in place.
LEMMA OneInPlace ==
    ASSUME OneAtATime, NEW w \in Workers, InPlace(job[w])' PROVE JobsInPlace'
BY NobodyElse DEF JobsInPlace

\* Which handlers can be at a step.
LEMMA WhoIsWhere ==
    ASSUME JobsInPlace, NEW w \in Workers
    PROVE  /\ job[w].pc = "screen" => Assigning(job[w])
           /\ job[w].pc = "gate" => Assigning(job[w]) \/ Reassigning(job[w]) \/ Starting(job[w])
           /\ job[w].pc = "evidence" => Assigning(job[w]) \/ Reassigning(job[w]) \/ Starting(job[w])
           /\ job[w].pc = "commit" => Assigning(job[w]) \/ Reassigning(job[w])
           /\ job[w].pc = "startTx" => Starting(job[w])
           /\ job[w].pc \in {"ensure", "insert"} => Ensuring(job[w]) /\ job[w].op # "create"
           /\ job[w].pc = "load" => \/ Assigning(job[w]) \/ Driving(job[w]) \/ Starting(job[w])
                                   \/ Completing(job[w]) \/ Cancelling(job[w])
           /\ job[w].pc = "hop" => \/ Assigning(job[w]) \/ Starting(job[w])
                                  \/ Completing(job[w]) \/ Cancelling(job[w])
           /\ job[w].pc \in {"flipRead", "flip"} => Reassigning(job[w]) \/ Grounding(job[w])
           /\ job[w].pc = "standDown" => StandingDown(job[w])
           /\ job[w].pc \in {"tripTx", "busy"} => Driving(job[w])
           /\ job[w].pc = "cancelTx" => Cancelling(job[w])
           /\ job[w].pc = "decline" => Declining(job[w])
           /\ job[w].pc = "ground" => Grounding(job[w])
<1>1. InPlace(job[w])
      BY DEF JobsInPlace
<1>. QED BY <1>1 DEF InPlace, Resting, Assigning, Reassigning, StandingDown, Rescheduling, Driving,
                     Declining, Starting, Completing, Cancelling, Grounding, Ensuring, ToGoal

------------------------------------------------------------------------------
(* Steps that write no row *)

\* The rows stay in order if the handler does not leave a dispatch without its
\* trip or a request behind its dispatch.
LEMMA RowsStay ==
    ASSUME OneAtATime, RowsFollow, NEW w \in Workers, UNCHANGED <<request, dispatch, trip>>,
           job[w].pc \in {"ensure", "insert"} =>
              \/ TripsOf(job[w].dispatch) # {}
              \/ job'[w].pc \in {"ensure", "insert"} /\ job'[w].dispatch = job[w].dispatch,
           Advancing(job[w]) =>
              \/ Agrees(job[w].request)
              \/ Advancing(job'[w]) /\ job'[w].request = job[w].request
    PROVE  RowsFollow'
<1>1. TripsFollow'
      BY DEF RowsFollow, TripsFollow, OpenTrip, Raised, CompletedTogether
<1>2. OpenRows'
      BY DEF RowsFollow, OpenRows, Raised
<1>3. \A d \in Dispatches : TripsOf(d)' = TripsOf(d) /\ Raised(d)' = Raised(d)
      BY DEF TripsOf, Raised
<1>4. TripsRaised'
      BY <1>3, NobodyElse DEF RowsFollow, TripsRaised
<1>5. \A r \in Requests : Agrees(r)' = Agrees(r)
      BY DEF Agrees, Running, DispatchesOf, Raised
<1>6. RequestsFollow'
  <2>. SUFFICES ASSUME NEW r \in Requests, ~Agrees(r)
                PROVE  Advancing(job'[w]) /\ job'[w].request = r
       BY <1>5 DEF RequestsFollow
  <2>1. Advancing(job[w]) /\ job[w].request = r
        BY NobodyElse DEF RowsFollow, RequestsFollow
  <2>. QED BY <2>1
<1>. QED BY <1>1, <1>2, <1>4, <1>6 DEF RowsFollow

\* A handler that is neither there nor there leaves the rows in order.
LEMMA RowsStayPut ==
    ASSUME OneAtATime, RowsFollow, NEW w \in Workers, UNCHANGED <<request, dispatch, trip>>,
           job[w].pc \notin {"ensure", "insert", "load", "hop"}
    PROVE  RowsFollow'
BY RowsStay DEF Advancing

------------------------------------------------------------------------------
(* Handlers that are taken up *)

\* A handler that only begins writes no row, and is in place if its job is.
LEMMA BeginsInPlace ==
    ASSUME OneAtATime, TypeOK, RowsFollow, NEW w \in Workers, job[w] = Idle,
           UNCHANGED <<request, dispatch, trip>>, InPlace(job[w])'
    PROVE  Told'
<1>1. job[w].pc = "idle"
      BY DEF Idle
<1>. QED BY <1>1, RowsStayPut, OneInPlace DEF Told

\* An assignment begins in place.
LEMMA AssignTold ==
    ASSUME OneAtATime, Known, Told, NEW w \in Workers, NEW r \in Requests, NEW p \in Pairs,
           Assign(w, r, p)
    PROVE  Told'
<1>. DEFINE j == job'[w]
<1>1. /\ j.op = "assign" /\ j.pc = "screen" /\ j.request = r /\ j.pair = p /\ j.goal = "Assigned"
      BY DEF Assign, Begin, Idle, Known, TypeOK
<1>2. Assigning(job[w])'
      BY <1>1, DataAssumption DEF Assigning
<1>3. InPlace(job[w])'
      BY <1>2 DEF InPlace
<1>. QED BY <1>3, BeginsInPlace DEF Assign, Begin, Known, Told

\* So does the edit of a dispatch ...
LEMMA ReassignTold ==
    ASSUME OneAtATime, Known, Told, NEW w \in Workers, NEW d \in Dispatches, NEW p \in Pairs,
           NEW window \in Windows, Reassign(w, d, p, window)
    PROVE  Told'
<1>1. /\ job'[w].op = "reassign" /\ job'[w].pc = "gate" /\ job'[w].request = dispatch[d].request
      /\ job'[w].dispatch = d /\ job'[w].pair = p
      BY DEF Reassign, Begin, Idle, Known, TypeOK
<1>2. Reassigning(job[w])'
      BY <1>1, DataAssumption DEF Reassigning, Reassign, Raised
<1>3. InPlace(job[w])'
      BY <1>2 DEF InPlace
<1>. QED BY <1>3, BeginsInPlace DEF Reassign, Begin, Known, Told

\* ... a stand-down ...
LEMMA StandDownTold ==
    ASSUME OneAtATime, Known, Told, NEW w \in Workers, NEW d \in Dispatches, StandDown(w, d)
    PROVE  Told'
<1>1. job'[w].op = "standDown" /\ job'[w].pc = "standDown" /\ job'[w].dispatch = d
      BY DEF StandDown, Begin, Idle, Known, TypeOK
<1>2. StandingDown(job[w])'
      BY <1>1 DEF StandingDown, StandDown, Raised
<1>3. InPlace(job[w])'
      BY <1>2 DEF InPlace
<1>. QED BY <1>3, BeginsInPlace DEF StandDown, Begin, Known, Told

\* ... a reschedule ...
LEMMA RescheduleTold ==
    ASSUME OneAtATime, Known, Told, NEW w \in Workers, NEW r \in Requests, NEW window \in Windows,
           Reschedule(w, r, window)
    PROVE  Told'
<1>1. job'[w].op = "reschedule" /\ job'[w].pc = "reschedule"
      BY DEF Reschedule, Begin, Idle, Known, TypeOK
<1>2. InPlace(job[w])'
      BY <1>1 DEF InPlace, Rescheduling
<1>. QED BY <1>2, BeginsInPlace DEF Reschedule, Begin, Known, Told

\* ... a driver's step, refusal or start, the cancellation of a trip ...
LEMMA TripCallTold ==
    ASSUME OneAtATime, Known, Told, NEW w \in Workers, NEW t \in Trips,
           \/ \E to \in DriverSteps : TripStep(w, t, to)
           \/ Decline(w, t) \/ Start(w, t) \/ CancelTrip(w, t)
    PROVE  Told'
<1>. DEFINE j == job'[w]
<1>1. ASSUME j.trip = t, j.dispatch = trip[t].dispatch, j.request = dispatch[trip[t].dispatch].request,
             trip[t].status # "Absent", UNCHANGED <<request, dispatch, trip>>
      PROVE  OnTrip(job[w])'
      BY <1>1 DEF OnTrip
<1>2. ASSUME NEW to \in DriverSteps, TripStep(w, t, to) PROVE InPlace(job[w])'
  <2>1. /\ j.op = "tripStep" /\ j.pc = "tripTx" /\ j.trip = t /\ j.dispatch = trip[t].dispatch
        /\ j.request = dispatch[trip[t].dispatch].request /\ j.goal = "In Progress" /\ j.to = to
        BY <1>2 DEF TripStep, TripJob, Begin, Idle, Known, TypeOK
  <2>2. Driving(job[w])'
        BY <1>1, <1>2, <2>1 DEF Driving, TripStep
  <2>. QED BY <2>2 DEF InPlace
<1>3. ASSUME Decline(w, t) PROVE InPlace(job[w])'
  <2>1. /\ j.op = "decline" /\ j.pc = "decline" /\ j.trip = t /\ j.dispatch = trip[t].dispatch
        /\ j.request = dispatch[trip[t].dispatch].request
        BY <1>3 DEF Decline, TripJob, Begin, Idle, Known, TypeOK
  <2>2. trip[t].status # "Completed"
        BY <1>3 DEF Decline, CanTransitionTrip, TerminalTrip
  <2>3. Declining(job[w])'
        BY <1>1, <1>3, <2>1, <2>2 DEF Declining, Decline
  <2>. QED BY <2>3 DEF InPlace
<1>4. ASSUME Start(w, t) PROVE InPlace(job[w])'
  <2>1. /\ j.op = "start" /\ j.pc = "gate" /\ j.trip = t /\ j.dispatch = trip[t].dispatch
        /\ j.request = dispatch[trip[t].dispatch].request /\ j.goal = "In Progress"
        BY <1>4 DEF Start, TripJob, Begin, Idle, Known, TypeOK
  <2>2. Starting(job[w])'
        BY <1>1, <1>4, <2>1 DEF Starting, Start
  <2>. QED BY <2>2 DEF InPlace
<1>5. ASSUME CancelTrip(w, t) PROVE InPlace(job[w])'
  <2>1. /\ j.op = "cancelTrip" /\ j.pc = "cancelTx" /\ j.trip = t /\ j.dispatch = trip[t].dispatch
        /\ j.request = dispatch[trip[t].dispatch].request /\ j.goal = "Cancelled"
        BY <1>5 DEF CancelTrip, TripJob, Begin, Idle, Known, TypeOK
  <2>2. Cancelling(job[w])'
        BY <1>1, <1>5, <2>1 DEF Cancelling, CancelTrip, OpenTrip
  <2>. QED BY <2>2 DEF InPlace
<1>. QED BY <1>2, <1>3, <1>4, <1>5, BeginsInPlace
         DEF TripStep, Decline, Start, CancelTrip, Begin, Known, Told

\* ... and the grounding of a vehicle, which notes the dispatches as they are.
LEMMA GroundTold ==
    ASSUME OneAtATime, Known, Told, NEW w \in Workers, NEW v, NEW soon, Ground(w, v, soon)
    PROVE  Told'
<1>. DEFINE hit == { d \in Dispatches : Live(d) /\ dispatch[d].pair[1] = v
                                        /\ (dispatch[d].status = "Scheduled" => d \in soon) }
            todo == { <<d, dispatch[d].status>> : d \in hit }
<1>1. \A h \in todo : dispatch[h[1]].status = h[2]
      OBVIOUS
<1>. HIDE DEF todo
<1>2. job'[w].op = "ground" /\ job'[w].pc = "ground" /\ job'[w].todo = todo
      BY DEF Ground, Begin, Idle, Known, TypeOK, todo
<1>3. Grounding(job[w])'
      BY <1>1, <1>2 DEF Grounding, Ground
<1>4. InPlace(job[w])'
      BY <1>3 DEF InPlace
<1>. QED BY <1>4, BeginsInPlace DEF Ground, Begin, Known, Told

------------------------------------------------------------------------------
(* Steps that write no row *)

\* A pair that is free at the departure brings an assignment to its gate.
LEMMA ScreenTold ==
    ASSUME OneAtATime, Known, Told, NEW w \in Workers, Screen(w) PROVE Told'
<1>1. JobsInPlace'
  <2>1. CASE Finish(w)
        BY <2>1, FinishRests DEF Known
  <2>2. CASE Goto(w, "gate")
    <3>1. Assigning(job[w])
          BY WhoIsWhere DEF Screen, At, Told
    <3>2. Assigning(job[w])'
          BY <2>2, <3>1, GotoMoves DEF Screen, Assigning, Known, At, Ensuring
    <3>3. InPlace(job[w])'
          BY <3>2 DEF InPlace
    <3>. QED BY <3>3, OneInPlace
  <2>. QED BY <2>1, <2>2 DEF Screen
<1>. QED BY <1>1, RowsStayPut DEF Screen, At, Known, Told

\* The gate lets a handler on only while its request can be assigned.
LEMMA GateTold ==
    ASSUME OneAtATime, Known, Told, NEW w \in Workers, Gate(w) PROVE Told'
<1>1. JobsInPlace'
  <2>1. CASE Finish(w)
        BY <2>1, FinishRests DEF Known
  <2>2. CASE Goto(w, "evidence") /\ request[job[w].request].status \in Actionable
    <3>1. Assigning(job[w]) \/ Reassigning(job[w]) \/ Starting(job[w])
          BY WhoIsWhere DEF Gate, At, Told
    <3>2. Assigning(job[w]) => Assigning(job[w])'
          BY <2>2, GotoMoves DEF Gate, Assigning, Known, At, Ensuring
    <3>3. Reassigning(job[w]) => Reassigning(job[w])'
          BY <2>2, GotoMoves DEF Gate, Reassigning, Raised, Known, At, Ensuring
    <3>4. Starting(job[w]) => Starting(job[w])'
          BY <2>2, GotoMoves DEF Gate, Starting, OnTrip, Known, At, ToGoal
    <3>5. InPlace(job[w])'
          BY <3>1, <3>2, <3>3, <3>4 DEF InPlace
    <3>. QED BY <3>5, OneInPlace
  <2>. QED BY <2>1, <2>2 DEF Gate
<1>. QED BY <1>1, RowsStayPut DEF Gate, At, Known, Told

\* The token is taken by who passed the gate.
LEMMA EvidenceTold ==
    ASSUME OneAtATime, Known, Told, NEW w \in Workers, Evidence(w) PROVE Told'
<1>1. JobsInPlace'
  <2>1. CASE Finish(w)
        BY <2>1, FinishRests DEF Known
  <2>2. CASE ~Finish(w)
    <3>. DEFINE step == CASE job[w].op = "assign" -> "load"
                          [] job[w].op = "start"  -> "startTx"
                          [] OTHER                -> "commit"
                j == [job[w] EXCEPT !.evidence = Revision(job[w].request, job[w].pair), !.pc = step]
    <3>1. job'[w] = j
          BY <2>2 DEF Evidence, Known, TypeOK
    <3>2. /\ j.pc = step /\ j.op = job[w].op /\ j.request = job[w].request /\ j.pair = job[w].pair
          /\ j.dispatch = job[w].dispatch /\ j.trip = job[w].trip /\ j.goal = job[w].goal
          BY DEF Known, TypeOK, Job
    <3>. HIDE DEF j
    <3>3. Assigning(job[w]) \/ Reassigning(job[w]) \/ Starting(job[w])
          BY WhoIsWhere DEF Evidence, At, Told
    <3>4. Assigning(job[w]) => Assigning(job[w])'
          BY <3>1, <3>2 DEF Evidence, Assigning, At, Ensuring
    <3>5. Reassigning(job[w]) => Reassigning(job[w])'
          BY <3>1, <3>2 DEF Evidence, Reassigning, Raised, At, Ensuring
    <3>6. Starting(job[w]) => Starting(job[w])'
          BY <3>1, <3>2 DEF Evidence, Starting, OnTrip, At, ToGoal
    <3>7. InPlace(job[w])'
          BY <3>3, <3>4, <3>5, <3>6 DEF InPlace
    <3>. QED BY <3>7, OneInPlace
  <2>. QED BY <2>1, <2>2
<1>. QED BY <1>1, RowsStayPut DEF Evidence, At, Known, Told

\* A refused commit leaves no trace.
LEMMA RefusedTold ==
    ASSUME OneAtATime, Known, Told, NEW w \in Workers, Refused(w) PROVE Told'
BY FinishRests, RowsStayPut DEF Refused, Known, Told

\* A dispatch that has no trip has a pair to drive it.
LEMMA EnsureTripTold ==
    ASSUME OneAtATime, Known, Told, NEW w \in Workers, EnsureTrip(w) PROVE Told'
<1>. DEFINE d == job[w].dispatch
            j == [job[w] EXCEPT !.seen = dispatch[d].pair, !.pc = "insert"]
<1>0. Ensuring(job[w]) /\ job[w].op # "create"
      BY WhoIsWhere DEF EnsureTrip, At, Told
<1>1. CASE TripsOf(d) # {}
  <2>1. Finish(w)
        BY <1>0, <1>1 DEF EnsureTrip, AfterEnsure
  <2>. QED BY <1>1, <2>1, FinishRests, RowsStay DEF EnsureTrip, At, Known, Told, Advancing
<1>2. CASE TripsOf(d) = {}
  <2>1. job'[w] = j
        BY <1>0, <1>2 DEF EnsureTrip, Ensuring, Known, TypeOK
  <2>2. /\ j.pc = "insert" /\ j.op = job[w].op /\ j.request = job[w].request
        /\ j.dispatch = d /\ j.pair = job[w].pair /\ j.goal = job[w].goal
        BY DEF Known, TypeOK, Job
  <2>. HIDE DEF j
  <2>3. Ensuring(job[w])'
        BY <1>0, <1>2, <2>1, <2>2 DEF EnsureTrip, Ensuring, Raised, TripsOf
  <2>4. Assigning(job[w]) \/ Reassigning(job[w])
        BY DEF EnsureTrip, At, Told, JobsInPlace, InPlace, Resting, StandingDown, Rescheduling, Driving,
               Declining, Starting, Completing, Cancelling, Grounding, ToGoal
  <2>5. Assigning(job[w]) => Assigning(job[w])'
        BY <2>1, <2>2, <2>3 DEF Assigning
  <2>6. Reassigning(job[w]) => Reassigning(job[w])'
        BY <2>1, <2>2, <2>3 DEF Reassigning, EnsureTrip, Raised
  <2>7. JobsInPlace'
        BY <2>4, <2>5, <2>6, OneInPlace DEF InPlace
  <2>8. RowsFollow'
        BY <2>1, <2>2, RowsStay DEF EnsureTrip, At, Told, Advancing
  <2>. QED BY <2>7, <2>8 DEF Told
<1>. QED BY <1>1, <1>2

\* The gate on a dispatch's status passes: it is read twice.
LEMMA FlipReadTold ==
    ASSUME OneAtATime, Known, Told, NEW w \in Workers, FlipRead(w) PROVE Told'
<1>1. JobsInPlace'
  <2>1. CASE Finish(w)
        BY <2>1, FinishRests DEF Known
  <2>2. CASE Goto(w, "flip")
    <3>1. Reassigning(job[w]) \/ Grounding(job[w])
          BY WhoIsWhere DEF FlipRead, At, Told
    <3>2. Reassigning(job[w]) => Reassigning(job[w])'
          BY <2>2, GotoMoves DEF FlipRead, Reassigning, Raised, Known, At, Ensuring
    <3>3. ASSUME Grounding(job[w]) PROVE Grounding(job[w])'
      <4>0. job'[w].todo = job[w].todo /\ job'[w].dispatch = job[w].dispatch /\ dispatch' = dispatch
            BY <2>2, GotoMoves DEF FlipRead, Known
      <4>1. \A hit \in job[w].todo : dispatch[hit[1]].status = hit[2] /\ hit[1] # job[w].dispatch
            BY <3>3 DEF FlipRead, Grounding, At
      <4>2. /\ job'[w].op = "ground" /\ job'[w].pc = "flip" /\ job'[w].to = "Pending Reassignment"
            /\ dispatch'[job'[w].dispatch].status = "Scheduled" /\ job'[w].dispatch \in Dispatches
            BY <2>2, <3>3, GotoMoves DEF FlipRead, Grounding, Known, At
      <4>. QED BY <4>0, <4>1, <4>2 DEF Grounding
    <3>4. InPlace(job[w])'
          BY <3>1, <3>2, <3>3 DEF InPlace
    <3>. QED BY <3>4, OneInPlace
  <2>. QED BY <2>1, <2>2 DEF FlipRead
<1>. QED BY <1>1, RowsStayPut DEF FlipRead, At, Known, Told

\* The dispatch of a trip is there and has its request.
LEMMA OnTripHasRows ==
    ASSUME Known, Told, NEW j, OnTrip(j)
    PROVE  j.dispatch \in Dispatches /\ Raised(j.dispatch) /\ j.request \in Requests
<1>1. j.dispatch \in Dispatches /\ Raised(j.dispatch)
      BY DEF Known, TypeOK, Told, RowsFollow, TripsFollow, OnTrip
<1>. QED BY <1>1 DEF Told, RowsFollow, OpenRows, OnTrip

\* The path is loaded from where the request stands; a handler that moved a
\* dispatch finds one, unless the request is there already.
LEMMA LoadTold ==
    ASSUME OneAtATime, Known, Told, NEW w \in Workers, Load(w) PROVE Told'
<1>. DEFINE r == job[w].request
            from == request[r].status
            path == TransitionPath(from, job[w].goal)
            hops == IF path = NoPath THEN <<>> ELSE Tail(path)
            step == IF job[w].op = "assign" /\ Len(hops) <= 1 THEN "commit" ELSE "hop"
            j == [job[w] EXCEPT !.path = hops, !.pc = step]
<1>0. /\ At(w, "load") /\ UNCHANGED <<request, dispatch, trip>>
      /\ \/ path = NoPath /\ Finish(w)
         \/ Len(path) = 1 /\ job[w].op \notin {"assign", "create"} /\ Finish(w)
         \/ /\ path # NoPath /\ (Len(path) > 1 \/ job[w].op \in {"assign", "create"})
            /\ job'[w] = j
      BY DEF Load, Known, TypeOK
<1>1. /\ j.pc = step /\ j.op = job[w].op /\ j.request = r /\ j.pair = job[w].pair /\ j.path = hops
      /\ j.dispatch = job[w].dispatch /\ j.trip = job[w].trip /\ j.goal = job[w].goal
      BY DEF Known, TypeOK, Job
<1>. HIDE DEF j
<1>2. path # NoPath => /\ hops = Tail(path) /\ Chain(from, hops, job[w].goal)
                       /\ from = job[w].goal <=> Len(path) = 1
                       /\ from = job[w].goal <=> hops = <<>>
      BY PathIsChain
<1>2a. from = job[w].goal /\ path # NoPath => ~(Len(path) > 1)
  <2>1. \A n : n = 1 => ~(n > 1)
        OBVIOUS
  <2>. QED BY <1>2, <2>1, Zenon
<1>3. CASE Assigning(job[w])
  <2>1. job[w].op = "assign" /\ job[w].goal = "Assigned" /\ from \in Actionable
        BY <1>0, <1>3 DEF Assigning, At, Ensuring
  <2>2. ASSUME path # NoPath PROVE \A i \in 1..Len(hops) : hops[i] \in Actionable
        BY <1>2, <2>1, <2>2, AssignmentStaysActionable
  <2>3. ASSUME ~Finish(w) PROVE JobsInPlace'
    <3>1. job'[w] = j /\ path # NoPath
          BY <1>0, <2>3
    <3>. HIDE DEF path, hops
    <3>2. step \in {"commit", "hop"}
          OBVIOUS
    <3>. HIDE DEF step
    <3>3. Assigning(job[w])'
          BY <1>0, <1>1, <1>2, <1>3, <2>1, <2>2, <3>1, <3>2 DEF Assigning
    <3>. QED BY <3>3, OneInPlace DEF InPlace
  <2>4. JobsInPlace'
        BY <2>3, FinishRests DEF Known
  <2>. QED BY <1>0, <2>1, <2>4, RowsStay DEF At, Advancing, Told
<1>4. CASE Driving(job[w])
  <2>1. job[w].op = "tripStep" /\ from = "In Progress" /\ job[w].goal = "In Progress"
        BY <1>0, <1>4 DEF Driving, At
  <2>2. Finish(w)
    <3>. HIDE DEF path, hops
    <3>. QED BY <1>0, <1>2a, <2>1, Zenon
  <2>. QED BY <1>0, <2>1, <2>2, FinishRests, RowsStay DEF At, Advancing, Known, Told
<1>5. CASE Starting(job[w]) \/ Completing(job[w]) \/ Cancelling(job[w])
  <2>1. /\ OnTrip(job[w]) /\ ToGoal(job[w]) /\ job[w].op \in {"start", "complete", "cancelTrip"}
        /\ job[w].op = "start" => dispatch[job[w].dispatch].status = "In Progress"
        /\ job[w].goal \in {"In Progress", "Completed", "Cancelled"}
        /\ job[w].op = "start" <=> job[w].goal = "In Progress"
        BY <1>0, <1>5 DEF Starting, Completing, Cancelling, At
  <2>2. job[w].dispatch \in Dispatches /\ Raised(job[w].dispatch) /\ r \in Requests
        /\ dispatch[job[w].dispatch].request = r
        BY <2>1, OnTripHasRows DEF OnTrip
  <2>3. from \in ReservationStatus \ TerminalReservation
        BY <2>1, <2>2 DEF ToGoal, Known, TypeOK, RequestRow
  <2>4. path # NoPath
        BY <2>1, <2>3, PathsExist
  <2>5. CASE from = job[w].goal
    <3>1. Finish(w)
      <4>. HIDE DEF path, hops
      <4>. QED BY <1>0, <1>2a, <2>1, <2>4, <2>5, Zenon
    <3>2. Agrees(r)
          BY <2>1, <2>2, <2>3, <2>5 DEF Agrees, Running, DispatchesOf, TerminalReservation
    <3>. QED BY <1>0, <3>1, <3>2, FinishRests, RowsStay DEF At, Known, Told
  <2>6. CASE from # job[w].goal
    <3>1. job'[w] = j /\ hops # <<>>
          BY <1>0, <1>2, <2>1, <2>4, <2>6
    <3>2. step = "hop"
          BY <2>1
    <3>. HIDE DEF path, hops, step
    <3>3. ToGoal(job[w])' /\ OnTrip(job[w])'
          BY <1>0, <1>1, <1>2, <2>1, <2>4, <3>1, <3>2 DEF ToGoal, OnTrip
    <3>4. Starting(job[w]) => Starting(job[w])'
          BY <1>0, <1>1, <2>1, <3>1, <3>3 DEF Starting
    <3>5. Completing(job[w]) => Completing(job[w])'
          BY <1>0, <1>1, <3>1, <3>3 DEF Completing
    <3>6. Cancelling(job[w]) => Cancelling(job[w])'
          BY <1>0, <1>1, <3>1, <3>3 DEF Cancelling, At
    <3>7. JobsInPlace'
          BY <1>5, <3>4, <3>5, <3>6, OneInPlace DEF InPlace
    <3>8. Advancing(job'[w]) /\ job'[w].request = r
          BY <1>1, <2>1, <3>1, <3>2 DEF Advancing
    <3>. QED BY <1>0, <3>7, <3>8, RowsStay DEF At, Told
  <2>. QED BY <2>5, <2>6
<1>. QED BY <1>0, <1>3, <1>4, <1>5, WhoIsWhere DEF At, Told

------------------------------------------------------------------------------
(* What a step does to the relations between the tables *)

\* Unless a trip is about to be inserted, every dispatch has its trip ...
LEMMA AllHaveTrips ==
    ASSUME OneAtATime, Told, NEW w \in Workers, job[w].pc \notin {"ensure", "insert"}
    PROVE  \A d \in Dispatches : Raised(d) => TripsOf(d) # {}
BY NobodyElse DEF Told, RowsFollow, TripsRaised

\* ... and unless a request is behind, every request agrees with its dispatch.
LEMMA AllAgree ==
    ASSUME OneAtATime, Told, NEW w \in Workers, ~Advancing(job[w])
    PROVE  \A r \in Requests : Agrees(r)
BY NobodyElse DEF Told, RowsFollow, RequestsFollow

\* A request runs when its only dispatch does.
LEMMA RunningHere ==
    ASSUME Known, NEW d \in Dispatches, Raised(d), dispatch[d].request \in Requests
    PROVE  Running(dispatch[d].request) <=> dispatch[d].status = "In Progress"
<1>1. dispatch[d].request # None
      BY DataAssumption
<1>2. DispatchesOf(dispatch[d].request) = {d}
      BY <1>1 DEF Known, OwnDispatches, DispatchesOf
<1>. QED BY <1>2 DEF Running

\* Where trips keep their dispatches and no dispatch is raised, each keeps its trip.
LEMMA TripsRaisedStay ==
    ASSUME OneAtATime, Told, NEW w \in Workers, job[w].pc \notin {"ensure", "insert"},
           \A d \in Dispatches : Raised(d)' => Raised(d),
           \A t \in Trips : trip[t].status # "Absent"
                               => trip'[t].status # "Absent" /\ trip'[t].dispatch = trip[t].dispatch
    PROVE  TripsRaised'
<1>1. ASSUME NEW d \in Dispatches, Raised(d)' PROVE TripsOf(d)' # {}
  <2>1. PICK t \in TripsOf(d) : TRUE
        BY <1>1, AllHaveTrips
  <2>2. t \in TripsOf(d)'
        BY <2>1 DEF TripsOf
  <2>. QED BY <2>2
<1>. QED BY <1>1 DEF TripsRaised

\* A step that writes trips only, and leaves each its dispatch.
LEMMA TripWriteOnly ==
    ASSUME OneAtATime, Told, NEW w \in Workers, UNCHANGED <<request, dispatch>>,
           job[w].pc \notin {"ensure", "insert", "load", "hop"}, TripsFollow',
           \A t \in Trips : trip[t].status # "Absent"
                               => trip'[t].status # "Absent" /\ trip'[t].dispatch = trip[t].dispatch
    PROVE  RowsFollow'
<1>1. OpenRows'
      BY DEF Told, RowsFollow, OpenRows, Raised
<1>2. TripsRaised'
      BY TripsRaisedStay DEF Raised
<1>3. \A r \in Requests : Agrees(r)
      BY AllAgree DEF Advancing
<1>4. RequestsFollow'
      BY <1>3 DEF RequestsFollow, Agrees, Running, DispatchesOf, Raised
<1>. QED BY <1>1, <1>2, <1>4 DEF RowsFollow

\* The status of a trip may be set where it stays open, or is cancelled.
LEMMA SetTripFollows ==
    ASSUME Known, Told, NEW t \in Trips, trip[t].status # "Absent", UNCHANGED dispatch,
           NEW status \in TripStatus, SetTrip(t, status),
           status # "Cancelled" => OpenTrip(t) /\ status # "Completed",
           status \in StartedTrip => trip[t].status \in StartedTrip
    PROVE  /\ TripsFollow'
           /\ \A u \in Trips : trip'[u].dispatch = trip[u].dispatch
                               /\ (trip[u].status # "Absent" <=> trip'[u].status # "Absent")
           /\ trip'[t].status = status
<1>1. /\ trip'[t].status = status /\ trip'[t].dispatch = trip[t].dispatch /\ status # "Absent"
      /\ \A u \in Trips : u # t => trip'[u] = trip[u]
      BY DEF SetTrip, Known, TypeOK, TripRow, TripStatus, LegacyTrip
<1>2. TripsFollow
      BY DEF Told, RowsFollow
<1>3. \A u \in Trips : trip'[u].dispatch = trip[u].dispatch
                       /\ (trip[u].status # "Absent" <=> trip'[u].status # "Absent")
      BY <1>1
<1>4. \A u \in Trips : trip'[u].status # "Absent" => Raised(trip[u].dispatch)'
      BY <1>2, <1>3 DEF TripsFollow, Raised
<1>5. \A u \in Trips : OpenTrip(u)' => dispatch'[trip'[u].dispatch].status \notin TerminalDispatch
  <2>1. \A u \in Trips : OpenTrip(u)' => OpenTrip(u)
        BY <1>1 DEF OpenTrip, TerminalTrip
  <2>. QED BY <1>2, <1>3, <2>1 DEF TripsFollow
<1>6. \A u \in Trips : trip'[u].status \in StartedTrip
                         => dispatch'[trip'[u].dispatch].status = "In Progress"
      BY ZenonT(40), <1>1, <1>2 DEF TripsFollow
<1>7. CompletedTogether'
  <2>1. \A u \in Trips : trip'[u].status = "Completed" => trip[u].status = "Completed"
        BY <1>1
  <2>. QED BY ZenonT(40), <1>2, <1>3, <2>1 DEF TripsFollow, CompletedTogether
<1>8. \A u, v \in Trips : (trip'[u].status # "Absent" /\ trip'[v].status # "Absent"
                             /\ trip'[u].dispatch = trip'[v].dispatch) => u = v
  <2>. SUFFICES ASSUME NEW u \in Trips, NEW v \in Trips, trip'[u].status # "Absent",
                       trip'[v].status # "Absent", trip'[u].dispatch = trip'[v].dispatch
                PROVE  u = v
       OBVIOUS
  <2>1. trip[u].status # "Absent" /\ trip[v].status # "Absent" /\ trip[u].dispatch = trip[v].dispatch
        BY <1>3
  <2>. QED BY <1>2, <2>1 DEF TripsFollow
<1>. QED BY <1>1, <1>3, <1>4, <1>5, <1>6, <1>7, <1>8 DEF TripsFollow

------------------------------------------------------------------------------
(* Steps that write trips only *)

\* A driver's acceptance comes before the start.
LEMMA MobileAcceptTold ==
    ASSUME OneAtATime, Known, Told, NEW w \in Workers, NEW t \in Trips, MobileAccept(w, t)
    PROVE  Told'
<1>1. OpenTrip(t) /\ trip[t].status # "Absent" /\ job[w] = Idle
      BY DEF MobileAccept, CanTransitionTrip, OpenTrip, TerminalTrip
<1>2. /\ "Driver Accepted" \in TripStatus /\ "Driver Accepted" \notin StartedTrip
      /\ "Driver Accepted" \notin {"Cancelled", "Completed"}
      BY DEF StartedTrip, TripStatus, PreStart
<1>3. RowsFollow'
  <2>1. /\ TripsFollow'
        /\ \A u \in Trips : trip'[u].dispatch = trip[u].dispatch
                            /\ (trip[u].status # "Absent" <=> trip'[u].status # "Absent")
        BY <1>1, <1>2, SetTripFollows DEF MobileAccept
  <2>2. job[w].pc = "idle"
        BY <1>1 DEF Idle
  <2>. QED BY <2>1, <2>2, TripWriteOnly DEF MobileAccept
<1>4. InPlace(job[w])'
  <2>1. job' = job
        BY DEF MobileAccept
  <2>2. job'[w].op = "none" /\ job'[w].pc = "idle"
        BY <1>1, <2>1 DEF Idle
  <2>. QED BY <2>2 DEF InPlace, Resting
<1>. QED BY <1>3, <1>4, OneInPlace DEF Told

\* A declined trip is cancelled, and had not completed.
LEMMA DeclineWriteTold ==
    ASSUME OneAtATime, Known, Told, NEW w \in Workers, DeclineWrite(w) PROVE Told'
<1>1. Declining(job[w])
      BY WhoIsWhere DEF DeclineWrite, At, Told
<1>2. "Cancelled" \in TripStatus /\ "Cancelled" \notin StartedTrip
      BY DEF StartedTrip, TripStatus, TerminalTrip
<1>3. RowsFollow'
      BY <1>1, <1>2, SetTripFollows, TripWriteOnly DEF DeclineWrite, At, Declining, OnTrip
<1>. QED BY <1>3, FinishRests DEF DeclineWrite, Known, Told

\* Only a trip that started can be driven on ...
LEMMA StepsAfterStart ==
    ASSUME NEW from, NEW to \in DriverSteps, CanTransitionTrip(from, to)
    PROVE  /\ from \notin TerminalTrip /\ to \notin TerminalTrip /\ to \in TripStatus
           /\ to \in StartedTrip => from \in StartedTrip
<1>1. to \in TripStatus \ {"Completed", "Cancelled", "Trip Started"}
      BY DataAssumption
<1>2. from \notin TerminalTrip /\ to \notin TerminalTrip
      BY <1>1 DEF CanTransitionTrip, TerminalTrip
<1>3. CASE from = to
      BY <1>1, <1>2, <1>3
<1>4. CASE from # to
  <2>1. <<from, to>> \in TripNext
        BY <1>1, <1>4 DEF CanTransitionTrip
  <2>2. to \in StartedTrip => from \in StartedTrip
        BY <1>1, <2>1 DEF TripNext, StartedTrip, PreStart, LegacyTrip, TripStatus, TerminalTrip
  <2>. QED BY <1>1, <1>2, <2>2
<1>. QED BY <1>3, <1>4

\* ... so where a driver is busy, the dispatch and the request run already.
LEMMA TripTxTold ==
    ASSUME OneAtATime, Known, Told, NEW w \in Workers, TripTx(w) PROVE Told'
<1>. DEFINE t == job[w].trip
            to == job[w].to
            d == job[w].dispatch
<1>0. Driving(job[w])
      BY WhoIsWhere DEF TripTx, At, Told
<1>1. OnTrip(job[w]) /\ to \in DriverSteps
      BY <1>0 DEF Driving, TripTx, At
<1>2. CASE Finish(w) /\ UNCHANGED trip
      BY <1>2, RowsStayPut, FinishRests DEF TripTx, At, Known, Told
<1>3. CASE CanTransitionTrip(trip[t].status, to) /\ SetTrip(t, to)
  <2>1. /\ trip[t].status \notin TerminalTrip /\ to \notin TerminalTrip /\ to \in TripStatus
        /\ to \in StartedTrip => trip[t].status \in StartedTrip
        BY <1>1, <1>3, StepsAfterStart
  <2>2. /\ TripsFollow' /\ trip'[t].status = to
        /\ \A u \in Trips : trip'[u].dispatch = trip[u].dispatch
                            /\ (trip[u].status # "Absent" <=> trip'[u].status # "Absent")
        BY <1>1, <1>3, <2>1, SetTripFollows DEF TripTx, OnTrip, OpenTrip, TerminalTrip
  <2>3. RowsFollow'
        BY <2>2, TripWriteOnly DEF TripTx, At
  <2>4. CASE Finish(w)
        BY <2>3, <2>4, FinishRests DEF Known, Told
  <2>5. CASE Goto(w, "busy") /\ to \in BusyTrip
    <3>1. to \in StartedTrip
          BY <2>5 DEF BusyTrip, StartedTrip, PreStart, LegacyTrip, TripStatus, TerminalTrip
    <3>2. dispatch[d].status = "In Progress"
          BY <1>1, <2>1, <3>1 DEF Told, RowsFollow, TripsFollow, OnTrip
    <3>3. d \in Dispatches /\ Raised(d) /\ job[w].request \in Requests
          /\ job[w].request = dispatch[d].request
          BY <1>1, OnTripHasRows DEF OnTrip
    <3>4. request[job[w].request].status = "In Progress"
          BY <3>2, <3>3, RunningHere, AllAgree DEF Agrees, Advancing, TripTx, At
    <3>5. OnTrip(job[w])'
          BY <1>1, <2>2, <2>5, GotoMoves DEF OnTrip, TripTx, Known
    <3>6. Driving(job[w])'
          BY <1>0, <2>5, <3>2, <3>4, <3>5, GotoMoves DEF Driving, TripTx, Known
    <3>. QED BY <2>3, <3>6, OneInPlace DEF InPlace, Told
  <2>. QED BY <1>3, <2>1, <2>4, <2>5 DEF TripTx
<1>. QED BY <1>2, <1>3 DEF TripTx

\* A dispatch gets its first and only trip.
LEMMA InsertTripTold ==
    ASSUME OneAtATime, Known, Told, NEW w \in Workers, InsertTrip(w) PROVE Told'
<1>. DEFINE d == job[w].dispatch
<1>0. Ensuring(job[w]) /\ job[w].op # "create" /\ job[w].pc = "insert" /\ d \in Dispatches
      BY WhoIsWhere DEF InsertTrip, At, Told, Known, TypeOK, WellFormed
<1>1. Raised(d) /\ TripsOf(d) = {} /\ dispatch[d].status = "Scheduled"
      BY <1>0 DEF Ensuring, Told, RowsFollow, TripsRaised
<1>2. PICK t \in Trips : /\ trip[t].status = "Absent"
                         /\ trip'[t].status = "Assigned" /\ trip'[t].dispatch = d
                         /\ \A u \in Trips : u # t => trip'[u] = trip[u]
      BY DEF InsertTrip, FreshTrips, Known, TypeOK
<1>3. UNCHANGED <<request, dispatch>> /\ Finish(w)
      BY <1>0 DEF InsertTrip, AfterEnsure
<1>4. \A u \in Trips : trip[u].status # "Absent" => trip[u].dispatch # d
      BY <1>1 DEF TripsOf
<1>5. TripsFollow /\ TripsRaised
      BY DEF Told, RowsFollow
<1>6. TripsFollow'
  <2>1. \A u \in Trips : trip'[u].status # "Absent" => Raised(trip'[u].dispatch)
        BY <1>1, <1>2, <1>5 DEF TripsFollow
  <2>2. \A u \in Trips : OpenTrip(u)' => dispatch[trip'[u].dispatch].status \notin TerminalDispatch
        BY <1>1, <1>2, <1>5 DEF TripsFollow, OpenTrip, TerminalDispatch
  <2>3. \A u \in Trips : trip'[u].status \in StartedTrip
                           => dispatch[trip'[u].dispatch].status = "In Progress"
        BY <1>2, <1>5 DEF TripsFollow, StartedTrip, PreStart
  <2>4. \A u \in Trips : trip'[u].status = "Completed"
                           => dispatch[trip'[u].dispatch].status = "Completed"
        BY <1>2, <1>5 DEF TripsFollow, CompletedTogether
  <2>5. \A u, v \in Trips : (trip'[u].status # "Absent" /\ trip'[v].status # "Absent"
                               /\ trip'[u].dispatch = trip'[v].dispatch) => u = v
    <3>1. ASSUME NEW u \in Trips, NEW v \in Trips, trip'[u].status # "Absent",
                 trip'[v].status # "Absent", trip'[u].dispatch = trip'[v].dispatch
          PROVE  u = v
      <4>1. CASE u # t /\ v # t
        <5>1. trip'[u] = trip[u] /\ trip'[v] = trip[v]
              BY <1>2, <4>1
        <5>2. trip[u].status # "Absent" /\ trip[v].status # "Absent" /\ trip[u].dispatch = trip[v].dispatch
              BY <3>1, <5>1
        <5>. QED BY <1>5, <5>2 DEF TripsFollow
      <4>2. CASE u = t /\ v # t
            BY <1>2, <1>4, <3>1, <4>2
      <4>3. CASE u # t /\ v = t
            BY <1>2, <1>4, <3>1, <4>3
      <4>. QED BY <4>1, <4>2, <4>3
    <3>. QED BY <3>1
  <2>. QED BY <1>3, <2>1, <2>2, <2>3, <2>4, <2>5 DEF TripsFollow, Raised, CompletedTogether
<1>7. OpenRows'
      BY <1>3 DEF Told, RowsFollow, OpenRows, Raised
<1>8. TripsRaised'
  <2>1. ASSUME NEW e \in Dispatches, Raised(e) PROVE TripsOf(e)' # {}
    <3>1. CASE e = d
      <4>1. t \in TripsOf(e)'
            BY <1>2, <3>1 DEF TripsOf
      <4>. QED BY <4>1
    <3>2. CASE e # d
      <4>1. TripsOf(e) # {}
            BY <1>5, <2>1, <3>2, NobodyElse DEF TripsRaised
      <4>2. PICK u \in TripsOf(e) : TRUE
            BY <4>1
      <4>3. u \in TripsOf(e)'
            BY <1>2, <4>2 DEF TripsOf
      <4>. QED BY <4>3
    <3>. QED BY <3>1, <3>2
  <2>. QED BY <1>3, <2>1 DEF TripsRaised, Raised
<1>9. RequestsFollow'
  <2>1. \A r \in Requests : Agrees(r)
        BY <1>0, AllAgree DEF Advancing
  <2>. QED BY <1>3, <2>1 DEF RequestsFollow, Agrees, Running, DispatchesOf, Raised
<1>. QED BY <1>3, <1>6, <1>7, <1>8, <1>9, FinishRests DEF Known, Told, RowsFollow

------------------------------------------------------------------------------
(* Steps that write requests only *)

\* A reschedule changes a window.
LEMMA RescheduleWriteTold ==
    ASSUME OneAtATime, Known, Told, NEW w \in Workers, RescheduleWrite(w) PROVE Told'
<1>1. /\ UNCHANGED <<dispatch, trip>> /\ Finish(w)
      /\ \A r \in Requests : request'[r].status = request[r].status
      BY DEF RescheduleWrite, Known, TypeOK, RequestRow
<1>2. TripsFollow'
      BY <1>1 DEF Told, RowsFollow, TripsFollow, CompletedTogether, OpenTrip, Raised
<1>3. OpenRows'
      BY <1>1 DEF Told, RowsFollow, OpenRows, Raised
<1>4. TripsRaised'
      BY <1>1, TripsRaisedStay DEF RescheduleWrite, At, Raised
<1>5. RequestsFollow'
  <2>1. \A r \in Requests : Agrees(r)
        BY AllAgree DEF RescheduleWrite, At, Advancing
  <2>. QED BY <1>1, <2>1 DEF RequestsFollow, Agrees, Running, DispatchesOf, Raised
<1>. QED BY <1>1, <1>2, <1>3, <1>4, <1>5, FinishRests DEF Known, Told, RowsFollow

\* A hop moves one request along its chain; the last one brings it where its
\* dispatch is.
LEMMA HopTold ==
    ASSUME OneAtATime, Known, Told, NEW w \in Workers, Hop(w) PROVE Told'
<1>. DEFINE r == job[w].request
            d == job[w].dispatch
            path == job[w].path
            step == IF job[w].op = "assign" /\ Len(path) = 2 THEN "commit" ELSE "hop"
            j == [job[w] EXCEPT !.path = Tail(path), !.pc = step]
<1>0. At(w, "hop") /\ UNCHANGED <<dispatch, trip>> /\ path \in Seq(ReservationStatus)
      /\ job[w] \in Job
      BY DEF Hop, Known, TypeOK, Job
<1>1. IF Len(path) <= 1 THEN Finish(w) ELSE job'[w] = j
      BY DEF Hop, Known, TypeOK
<1>2. /\ j.pc = step /\ j.op = job[w].op /\ j.request = r /\ j.pair = job[w].pair
      /\ j.path = Tail(path) /\ j.dispatch = d /\ j.trip = job[w].trip /\ j.goal = job[w].goal
      BY <1>0 DEF Job
<1>. HIDE DEF j
<1>3. /\ r \in Requests => request'[r].status = IF path = <<>> THEN request[r].status ELSE path[1]
      /\ \A q \in Requests : q # r => request'[q] = request[q]
      BY DEF Hop, Known, TypeOK, RequestRow
<1>4. TripsFollow'
      BY <1>0 DEF Told, RowsFollow, TripsFollow, CompletedTogether, OpenTrip, Raised
<1>5. TripsRaised'
      BY <1>0, TripsRaisedStay DEF At, Raised
<1>6. \A q \in Requests : Running(q)' <=> Running(q)
      BY <1>0 DEF Running, DispatchesOf, Raised
<1>7. Len(path) \in Nat /\ (path # <<>> => Len(path) > 0)
      BY <1>0
<1>8. CASE Assigning(job[w])
  <2>1. /\ job[w].op = "assign" /\ job[w].goal = "Assigned" /\ r \in Requests
        /\ request[r].status \in Actionable /\ Chain(request[r].status, path, job[w].goal)
        /\ \A i \in 1..Len(path) : path[i] \in Actionable
        BY <1>0, <1>8 DEF Assigning, At, Ensuring
  <2>2. request'[r].status \in Actionable
        BY <1>3, <1>7, <2>1
  <2>3. OpenRows'
        BY <1>0, <1>3, <2>1, <2>2 DEF Told, RowsFollow, OpenRows, Raised, Actionable, TerminalReservation
  <2>4. RequestsFollow'
    <3>1. \A q \in Requests : Agrees(q)
          BY <2>1, AllAgree DEF Advancing
    <3>2. \A q \in Requests : Agrees(q)'
          BY <1>3, <1>6, <2>1, <2>2, <3>1 DEF Agrees, Actionable
    <3>. QED BY <3>2 DEF RequestsFollow
  <2>5. ASSUME ~(Len(path) <= 1) PROVE JobsInPlace'
    <3>1. /\ Chain(path[1], Tail(path), job[w].goal)
          /\ path # <<>>
          BY <1>0, <1>7, <2>1, <2>5, ChainMovesOn
    <3>2. \A i \in 1..Len(Tail(path)) : Tail(path)[i] \in Actionable
      <4>1. \A i \in 1..Len(Tail(path)) : i + 1 \in 1..Len(path) /\ Tail(path)[i] = path[i + 1]
            BY <1>0, <2>5
      <4>. QED BY <2>1, <4>1
    <3>3. step \in {"commit", "hop"} /\ job'[w] = j
          BY <1>1, <2>5
    <3>. HIDE DEF step
    <3>4. Assigning(job[w])'
          BY <1>2, <1>3, <1>8, <2>1, <2>2, <3>1, <3>2, <3>3 DEF Assigning
    <3>. QED BY <3>4, OneInPlace DEF InPlace
  <2>6. JobsInPlace'
        BY <1>1, <2>5, FinishRests DEF Known
  <2>. QED BY <1>4, <1>5, <2>3, <2>4, <2>6 DEF Told, RowsFollow
<1>9. CASE Starting(job[w]) \/ Completing(job[w]) \/ Cancelling(job[w])
  <2>1. /\ OnTrip(job[w]) /\ ToGoal(job[w]) /\ job[w].op \in {"start", "complete", "cancelTrip"}
        /\ path # <<>> /\ Chain(request[r].status, path, job[w].goal)
        /\ \/ job[w].goal = "In Progress" /\ dispatch[d].status = "In Progress"
           \/ job[w].goal = "Completed" /\ dispatch[d].status = "Completed"
           \/ job[w].goal = "Cancelled" /\ dispatch[d].status = "Cancelled"
        BY <1>0, <1>9 DEF Starting, Completing, Cancelling, At, ToGoal
  <2>2. d \in Dispatches /\ Raised(d) /\ r \in Requests /\ dispatch[d].request = r
        BY <2>1, OnTripHasRows DEF OnTrip
  <2>3. \A q \in Requests : q # r => Agrees(q)
        BY NobodyElse DEF Told, RowsFollow, RequestsFollow
  <2>4. \A e \in Dispatches : Raised(e) /\ dispatch[e].request = r => e = d
        BY <2>2, DataAssumption DEF Known, OwnDispatches
  <2>5. CASE Len(path) <= 1
    <3>1. Len(path) = 1 /\ request'[r].status = job[w].goal
      <4>1. Len(path) = 1
        <5>1. \A n \in Nat : n > 0 /\ n <= 1 => n = 1
              OBVIOUS
        <5>. QED BY <1>7, <2>1, <2>5, <5>1, Zenon
      <4>2. path[1] = job[w].goal
            BY <2>1, <4>1, Zenon DEF Chain
      <4>. QED BY <1>3, <2>1, <2>2, <4>1, <4>2
    <3>2. OpenRows'
          BY <1>0, <1>3, <2>1, <2>2, <2>4, <3>1
             DEF Told, RowsFollow, OpenRows, Raised, TerminalReservation, TerminalDispatch
    <3>3. Running(r) <=> job[w].goal = "In Progress"
          BY <2>1, <2>2, RunningHere
    <3>4. RequestsFollow'
          BY <1>3, <1>6, <2>3, <3>1, <3>3 DEF RequestsFollow, Agrees
    <3>. QED BY <1>1, <1>4, <1>5, <2>5, <3>2, <3>4, FinishRests DEF Known, Told, RowsFollow
  <2>6. CASE ~(Len(path) <= 1)
    <3>1. /\ Chain(path[1], Tail(path), job[w].goal) /\ Tail(path) # <<>>
          /\ path[1] \notin TerminalReservation
      <4>1. Len(path) > 1
            BY <1>7, <2>6
      <4>. QED BY <1>0, <2>1, <4>1, ChainMovesOn, Zenon
    <3>2. request'[r].status = path[1]
          BY <1>3, <2>1, <2>2
    <3>3. step = "hop" /\ job'[w] = j
          BY <1>1, <2>1, <2>6
    <3>. HIDE DEF step
    <3>4. OpenRows'
          BY <1>0, <1>3, <2>2, <3>1, <3>2 DEF Told, RowsFollow, OpenRows, Raised
    <3>5. RequestsFollow'
      <4>1. Advancing(job'[w]) /\ job'[w].request = r
            BY <1>2, <2>1, <3>3 DEF Advancing
      <4>2. \A q \in Requests : q # r => Agrees(q)'
            BY <1>3, <1>6, <2>3 DEF Agrees
      <4>. QED BY <4>1, <4>2 DEF RequestsFollow
    <3>6. ToGoal(job[w])' /\ OnTrip(job[w])'
          BY <1>0, <1>2, <2>1, <3>1, <3>2, <3>3 DEF ToGoal, OnTrip
    <3>7. InPlace(job[w])'
      <4>1. Starting(job[w]) => Starting(job[w])'
            BY <1>0, <1>2, <2>1, <3>3, <3>6 DEF Starting, At
      <4>2. Completing(job[w]) => Completing(job[w])'
            BY <1>0, <1>2, <3>3, <3>6 DEF Completing
      <4>3. Cancelling(job[w]) => Cancelling(job[w])'
            BY <1>0, <1>2, <3>3, <3>6 DEF Cancelling, At
      <4>. QED BY <1>9, <4>1, <4>2, <4>3 DEF InPlace
    <3>. QED BY <1>4, <1>5, <3>4, <3>5, <3>7, OneInPlace DEF Told, RowsFollow
  <2>. QED BY <2>5, <2>6
<1>. QED BY <1>0, <1>8, <1>9, WhoIsWhere DEF At, Told

------------------------------------------------------------------------------
(* Steps that write dispatches *)

\* A write to one dispatch that leaves it its request moves that request's
\* running with its status, and no other's.
LEMMA OneRowWritten ==
    ASSUME Known, Told, NEW d \in Dispatches, Raised(d), NEW row, row.request = dispatch[d].request,
           row.status # "Absent", dispatch' = [dispatch EXCEPT ![d] = row]
    PROVE  /\ dispatch'[d] = row /\ \A e \in Dispatches : e # d => dispatch'[e] = dispatch[e]
           /\ \A e \in Dispatches : (Raised(e)' <=> Raised(e)) /\ dispatch'[e].request = dispatch[e].request
           /\ \A e \in Dispatches : Raised(e) /\ dispatch[e].request = dispatch[d].request => e = d
           /\ dispatch[d].request \in Requests
           /\ \A r \in Requests : r # dispatch[d].request => (Running(r)' <=> Running(r))
           /\ Running(dispatch[d].request) <=> dispatch[d].status = "In Progress"
           /\ \A r \in Requests : r = dispatch[d].request => (Running(r)' <=> row.status = "In Progress")
<1>1. dispatch'[d] = row /\ \A e \in Dispatches : e # d => dispatch'[e] = dispatch[e]
      BY DEF Known, TypeOK
<1>2. \A e \in Dispatches : (Raised(e)' <=> Raised(e)) /\ dispatch'[e].request = dispatch[e].request
      BY <1>1 DEF Raised
<1>3. dispatch[d].request \in Requests
      BY DEF Told, RowsFollow, OpenRows
<1>4. \A e \in Dispatches : Raised(e) /\ dispatch[e].request = dispatch[d].request => e = d
      BY <1>3, DataAssumption DEF Known, OwnDispatches
<1>5. \A r \in Requests : r # dispatch[d].request => (Running(r)' <=> Running(r))
      BY <1>1, <1>2 DEF Running, DispatchesOf
<1>6. Running(dispatch[d].request) <=> dispatch[d].status = "In Progress"
      BY <1>3, RunningHere
<1>7. \A r \in Requests : r = dispatch[d].request => (Running(r)' <=> row.status = "In Progress")
      BY <1>1, <1>2, <1>4 DEF Running, DispatchesOf
<1>. QED BY <1>1, <1>2, <1>3, <1>4, <1>5, <1>6, <1>7

\* Another pair and window for a dispatch change no status.
LEMMA PairWritten ==
    ASSUME OneAtATime, Known, Told, NEW w \in Workers, NEW d \in Dispatches, Raised(d),
           NEW pair, NEW window, job[w].pc \notin {"ensure", "insert", "load", "hop"},
           dispatch' = [dispatch EXCEPT ![d] = [dispatch[d] EXCEPT !.pair = pair, !.window = window]],
           UNCHANGED trip,
           \A r \in Requests :
              \/ request'[r].status = request[r].status
              \/ request[r].status \in Actionable /\ request'[r].status \in Actionable
    PROVE  RowsFollow'
<1>. DEFINE row == [dispatch[d] EXCEPT !.pair = pair, !.window = window]
<1>1. row.status = dispatch[d].status /\ row.request = dispatch[d].request
      BY DEF Known, TypeOK, DispatchRow
<1>. HIDE DEF row
<1>2. \A e \in Dispatches : /\ dispatch'[e].status = dispatch[e].status
                            /\ dispatch'[e].request = dispatch[e].request
                            /\ Raised(e)' <=> Raised(e)
      BY <1>1 DEF Known, TypeOK, row, Raised
<1>3. TripsFollow'
  <2>1. \A t \in Trips : trip[t].status # "Absent"
           => /\ dispatch'[trip[t].dispatch].status = dispatch[trip[t].dispatch].status
              /\ Raised(trip[t].dispatch)' <=> Raised(trip[t].dispatch)
        BY <1>2 DEF Known, TypeOK
  <2>2. \A t \in Trips : OpenTrip(t)' <=> OpenTrip(t)
        BY DEF OpenTrip
  <2>3. \A t \in Trips : OpenTrip(t) \/ trip[t].status \in StartedTrip => trip[t].status # "Absent"
        BY DEF OpenTrip, StartedTrip, TripStatus, LegacyTrip
  <2>4. TripsFollow
        BY DEF Told, RowsFollow
  <2>. QED BY <2>1, <2>2, <2>3, <2>4 DEF TripsFollow, CompletedTogether
<1>4. OpenRows'
      BY <1>2 DEF Told, RowsFollow, OpenRows, Actionable, TerminalReservation
<1>5. TripsRaised'
      BY <1>2, TripsRaisedStay
<1>6. \A r \in Requests : Running(r)' <=> Running(r)
      BY <1>2 DEF Running, DispatchesOf
<1>7. \A r \in Requests : Agrees(r)
      BY AllAgree DEF Advancing
<1>8. RequestsFollow'
      BY <1>6, <1>7 DEF RequestsFollow, Agrees, Actionable
<1>. QED BY <1>3, <1>4, <1>5, <1>8 DEF RowsFollow

\* An assignment leaves its request Assigned and its dispatch as it was, or Scheduled.
LEMMA CommitAssignTold ==
    ASSUME OneAtATime, Known, Known', Told, NEW w \in Workers, CommitAssign(w) PROVE Told'
<1>. DEFINE r == job[w].request
            path == job[w].path
<1>0. /\ job[w].pc = "commit" /\ UNCHANGED trip
      /\ Assigning(job[w])
      BY WhoIsWhere DEF CommitAssign, At, Told, Reassigning
<1>1. /\ r \in Requests /\ request[r].status \in Actionable /\ job[w].pair \in Vehicles \X Drivers
      /\ \A i \in 1..Len(path) : path[i] \in Actionable
      BY <1>0 DEF Assigning, Ensuring
<1>2. /\ request'[r].status \in Actionable
      /\ \A q \in Requests : q # r => request'[q] = request[q]
  <2>1. path # <<>> => path[1] \in Actionable
    <3>1. path \in Seq(ReservationStatus)
          BY DEF Known, TypeOK, Job
    <3>. QED BY <1>1, <3>1
  <2>. QED BY <1>1, <2>1 DEF CommitAssign, Known, TypeOK, RequestRow
<1>3. PICK d \in Dispatches : DispatchFor(job[w], d) /\ Committed(w, d, "ensure")
      BY DEF CommitAssign
<1>4. /\ job'[w].op = "assign" /\ job'[w].pc = "ensure" /\ job'[w].request = r /\ job'[w].dispatch = d
      /\ job'[w].pair = job[w].pair /\ job'[w].goal = "Assigned"
      BY <1>0, <1>3, CommittedMoves DEF Known, Assigning
<1>5. RowsFollow' /\ Raised(d)' /\ dispatch'[d].pair = job[w].pair
  <2>1. CASE DispatchesOf(r) = {}
    <3>1. /\ ~Raised(d) /\ dispatch'[d] = NewDispatch(job[w])
          /\ \A e \in Dispatches : e # d => dispatch'[e] = dispatch[e]
          BY <1>3, <2>1 DEF DispatchFor, WriteDispatch, FreshDispatches, Known, TypeOK
    <3>2. dispatch'[d].status = "Scheduled" /\ dispatch'[d].request = r /\ dispatch'[d].pair = job[w].pair
          BY <3>1 DEF NewDispatch
    <3>3. TripsFollow'
      <4>1. \A t \in Trips : trip[t].status # "Absent"
                               => /\ Raised(trip[t].dispatch) /\ trip[t].dispatch # d
                                  /\ trip[t].dispatch \in Dispatches
            BY ZenonT(40), <3>1 DEF Told, RowsFollow, TripsFollow, Known, TypeOK
      <4>2. \A t \in Trips : trip[t].status # "Absent"
                               => dispatch'[trip[t].dispatch] = dispatch[trip[t].dispatch]
            BY <3>1, <4>1
      <4>3. \A t \in Trips : /\ OpenTrip(t)' => trip[t].status # "Absent"
                             /\ OpenTrip(t)' <=> OpenTrip(t)
                             /\ trip[t].status \in StartedTrip => trip[t].status # "Absent"
            BY <1>0 DEF OpenTrip, StartedTrip, TripStatus, LegacyTrip
      <4>4. TripsFollow
            BY DEF Told, RowsFollow
      <4>. QED BY <1>0, <4>1, <4>2, <4>3, <4>4 DEF TripsFollow, CompletedTogether, Raised
    <3>4. OpenRows'
          BY <1>1, <1>2, <3>1, <3>2
             DEF Told, RowsFollow, OpenRows, Raised, Actionable, TerminalReservation
    <3>5. TripsRaised'
      <4>1. ASSUME NEW e \in Dispatches, e # d, Raised(e)' PROVE TripsOf(e)' # {}
            BY <1>0, <3>1, <4>1, AllHaveTrips DEF Raised, TripsOf
      <4>. QED BY <1>4, <3>2, <4>1 DEF TripsRaised
    <3>6. RequestsFollow'
      <4>1. \A q \in Requests : Agrees(q)
            BY <1>0, AllAgree DEF Advancing
      <4>2. \A q \in Requests : Running(q)' <=> Running(q)
            BY <2>1, <3>1, <3>2 DEF Running, DispatchesOf, Raised
      <4>3. \A q \in Requests : Agrees(q)'
            BY <1>1, <1>2, <4>1, <4>2 DEF Agrees, Actionable
      <4>. QED BY <4>3 DEF RequestsFollow
    <3>. QED BY <3>2, <3>3, <3>4, <3>5, <3>6 DEF RowsFollow, Raised
  <2>2. CASE DispatchesOf(r) # {}
    <3>1. dispatch' = [dispatch EXCEPT ![d] = [dispatch[d] EXCEPT !.pair = job[w].pair,
                                                                  !.window = job[w].window]]
          BY <1>3, <2>2 DEF DispatchFor, WriteDispatch
    <3>2. Raised(d)
      <4>1. PICK e \in DispatchesOf(r) : TRUE
            BY <2>2
      <4>2. DispatchesOf(r) = {e}
            BY <1>1, <4>1, DataAssumption DEF DispatchesOf, Known, OwnDispatches
      <4>3. \E x \in DispatchesOf(r) : \A y \in DispatchesOf(r) : y <= x
            BY <4>1, <4>2, BoundsAssumption DEF DispatchesOf, Dispatches
      <4>4. Latest(r) \in DispatchesOf(r)
            BY <4>3, Zenon DEF Latest
      <4>. QED BY <1>3, <2>2, <4>4 DEF DispatchFor, DispatchesOf
    <3>3. RowsFollow'
          BY <1>0, <1>1, <1>2, <3>1, <3>2, PairWritten
    <3>4. Raised(d)' /\ dispatch'[d].pair = job[w].pair
          BY <3>1, <3>2 DEF Known, TypeOK, DispatchRow, Raised
    <3>. QED BY <3>3, <3>4
  <2>. QED BY <2>1, <2>2
<1>6. Ensuring(job[w])'
      BY <1>1, <1>4, <1>5, DataAssumption DEF Ensuring, Raised
<1>7. Assigning(job[w])'
      BY <1>1, <1>4, <1>6 DEF Assigning
<1>. QED BY <1>5, <1>7, OneInPlace DEF InPlace, Told

\* The edit of a dispatch changes its pair and its window.
LEMMA CommitReassignTold ==
    ASSUME OneAtATime, Known, Told, NEW w \in Workers, CommitReassign(w) PROVE Told'
<1>. DEFINE d == job[w].dispatch
            r == job[w].request
            row == [dispatch[d] EXCEPT !.pair = job[w].pair, !.window = job[w].window]
            flips == job[w].to = "Scheduled" /\ row.status = "Pending Reassignment"
<1>0. /\ job[w].pc = "commit" /\ UNCHANGED <<request, trip>> /\ job[w].op = "reassign"
      /\ d \in Dispatches /\ dispatch' = [dispatch EXCEPT ![d] = row]
      BY DEF CommitReassign, At, WriteDispatch, Known, TypeOK, WellFormed
<1>1. Reassigning(job[w])
      BY <1>0, WhoIsWhere DEF Told, Assigning
<1>2. Raised(d) /\ job[w].pair \in Vehicles \X Drivers /\ r = dispatch[d].request
      BY <1>0, <1>1 DEF Reassigning, Ensuring
<1>3. /\ row.status = dispatch[d].status /\ row.request = dispatch[d].request
      /\ row.pair = job[w].pair
      BY <1>0 DEF Known, TypeOK, DispatchRow
<1>4. RowsFollow'
      BY <1>0, <1>2, PairWritten
<1>5. dispatch'[d] = row
      BY <1>0 DEF Known, TypeOK
<1>6. \/ flips /\ Committed(w, d, "flipRead")
      \/ Committed(w, d, "ensure")
      \/ Finish(w)
      BY <1>0 DEF CommitReassign
<1>. HIDE DEF row
<1>7. /\ dispatch'[d].status = dispatch[d].status /\ dispatch'[d].request = r
      /\ dispatch'[d].pair = job[w].pair /\ dispatch[d].status # "Absent"
      BY <1>2, <1>3, <1>5 DEF Raised
<1>8. CASE flips /\ Committed(w, d, "flipRead")
  <2>1. /\ job'[w].op = "reassign" /\ job'[w].pc = "flipRead" /\ job'[w].request = r
        /\ job'[w].dispatch = d /\ job'[w].pair = job[w].pair /\ job'[w].to = "Scheduled"
    <3>1. job[w].to = "Scheduled"
          BY <1>8
    <3>. HIDE DEF flips
    <3>. QED BY <1>0, <1>8, <3>1, CommittedMoves DEF Known
  <2>2. dispatch[d].status = "Pending Reassignment"
        BY <1>3, <1>8
  <2>3. Reassigning(job[w])'
        BY <1>0, <1>2, <1>7, <2>1, <2>2 DEF Reassigning, Raised
  <2>. QED BY <1>4, <2>3, OneInPlace DEF InPlace, Told
<1>9. CASE Committed(w, d, "ensure")
  <2>1. /\ job'[w].op = "reassign" /\ job'[w].pc = "ensure" /\ job'[w].request = r
        /\ job'[w].dispatch = d /\ job'[w].pair = job[w].pair
        BY <1>0, <1>9, CommittedMoves DEF Known
  <2>2. Ensuring(job[w])'
        BY <1>2, <1>7, <2>1, DataAssumption DEF Ensuring, Raised
  <2>3. Reassigning(job[w])'
        BY <1>0, <1>2, <1>7, <2>1, <2>2 DEF Reassigning, Raised
  <2>. QED BY <1>4, <2>3, OneInPlace DEF InPlace, Told
<1>10. CASE Finish(w)
      BY <1>4, <1>10, FinishRests DEF Known, Told
<1>. QED BY <1>6, <1>8, <1>9, <1>10

\* Trips follow the write of one dispatch if those of that dispatch do.
LEMMA TripsFollowWrite ==
    ASSUME Known, Told, NEW d \in Dispatches, Raised(d)',
           \A e \in Dispatches : e # d => dispatch'[e] = dispatch[e],
           \A t \in Trips : /\ trip'[t].dispatch = trip[t].dispatch
                            /\ trip'[t].status # "Absent" => trip[t].status # "Absent",
           \A t \in Trips : trip[t].dispatch # d => trip'[t] = trip[t],
           \A t \in Trips : trip'[t].dispatch = d =>
              /\ OpenTrip(t)' => dispatch'[d].status \notin TerminalDispatch
              /\ trip'[t].status \in StartedTrip => dispatch'[d].status = "In Progress"
              /\ trip'[t].status = "Completed" => dispatch'[d].status = "Completed"
    PROVE  TripsFollow'
<1>1. \A t \in Trips : trip'[t].status # "Absent" =>
         trip[t].status # "Absent" /\ trip[t].dispatch \in Dispatches /\ Raised(trip[t].dispatch)
      BY DEF Told, RowsFollow, TripsFollow, Known, TypeOK
<1>2. \A t \in Trips : trip'[t].status # "Absent" => Raised(trip[t].dispatch)'
      BY <1>1 DEF Raised
<1>3. ASSUME NEW t \in Trips, trip'[t].status # "Absent", trip[t].dispatch # d
      PROVE  /\ OpenTrip(t)' => dispatch'[trip[t].dispatch].status \notin TerminalDispatch
             /\ trip'[t].status \in StartedTrip => dispatch'[trip[t].dispatch].status = "In Progress"
             /\ trip'[t].status = "Completed" => dispatch'[trip[t].dispatch].status = "Completed"
  <2>1. trip'[t] = trip[t] /\ dispatch'[trip[t].dispatch] = dispatch[trip[t].dispatch]
        BY <1>1, <1>3
  <2>2. TripsFollow /\ (OpenTrip(t)' <=> OpenTrip(t))
        BY <2>1 DEF Told, RowsFollow, OpenTrip
  <2>. QED BY ZenonT(40), <2>1, <2>2 DEF TripsFollow, CompletedTogether
<1>4. ASSUME NEW t \in Trips
      PROVE  /\ OpenTrip(t)' => dispatch'[trip'[t].dispatch].status \notin TerminalDispatch
             /\ trip'[t].status \in StartedTrip => dispatch'[trip'[t].dispatch].status = "In Progress"
             /\ trip'[t].status = "Completed" => dispatch'[trip'[t].dispatch].status = "Completed"
  <2>1. OpenTrip(t)' \/ trip'[t].status \in StartedTrip \union {"Completed"} => trip'[t].status # "Absent"
        BY DEF OpenTrip, StartedTrip, TripStatus, LegacyTrip
  <2>2. trip'[t].dispatch = trip[t].dispatch
        OBVIOUS
  <2>. QED BY <1>3, <2>1, <2>2
<1>5. ASSUME NEW t \in Trips, NEW u \in Trips, trip'[t].status # "Absent", trip'[u].status # "Absent",
             trip'[t].dispatch = trip'[u].dispatch
      PROVE  t = u
  <2>1. trip[t].status # "Absent" /\ trip[u].status # "Absent" /\ trip[t].dispatch = trip[u].dispatch
        BY <1>5
  <2>. QED BY <2>1 DEF Told, RowsFollow, TripsFollow
<1>6. CompletedTogether'
      BY <1>4 DEF CompletedTogether
<1>7. \A t \in Trips : trip'[t].status # "Absent" => (dispatch'[trip'[t].dispatch].status # "Absent")
      BY <1>2 DEF Raised
<1>. QED BY <1>4, <1>5, <1>6, <1>7 DEF TripsFollow, Raised

\* The rows follow the write of one dispatch if its request and its trips do.
LEMMA RowsFollowWrite ==
    ASSUME OneAtATime, Known, Told, NEW w \in Workers, job[w].pc \notin {"ensure", "insert"},
           NEW d \in Dispatches, Raised(d), NEW row, row.request = dispatch[d].request,
           row.status # "Absent", dispatch' = [dispatch EXCEPT ![d] = row], TripsFollow',
           \A t \in Trips : trip[t].status # "Absent"
                               => trip'[t].status # "Absent" /\ trip'[t].dispatch = trip[t].dispatch,
           ~Advancing(job[w]),
           \A q \in Requests : q # dispatch[d].request => request'[q].status = request[q].status,
           row.status \notin TerminalDispatch
              => request'[dispatch[d].request].status \notin TerminalReservation,
           \/ request'[dispatch[d].request].status = "In Progress" <=> row.status = "In Progress"
           \/ Advancing(job'[w]) /\ job'[w].request = dispatch[d].request
    PROVE  RowsFollow'
<1>. DEFINE r == dispatch[d].request
<1>1. /\ dispatch'[d] = row /\ \A e \in Dispatches : e # d => dispatch'[e] = dispatch[e]
      /\ \A e \in Dispatches : (Raised(e)' <=> Raised(e)) /\ dispatch'[e].request = dispatch[e].request
      /\ \A e \in Dispatches : Raised(e) /\ dispatch[e].request = r => e = d
      /\ r \in Requests
      /\ \A q \in Requests : q # r => (Running(q)' <=> Running(q))
      /\ Running(r)' <=> row.status = "In Progress"
      BY OneRowWritten
<1>2. TripsRaised'
      BY <1>1, TripsRaisedStay
<1>3. OpenRows'
  <2>1. ASSUME NEW e \in Dispatches, Raised(e)
        PROVE  /\ dispatch'[e].request \in Requests
               /\ dispatch'[e].status \notin TerminalDispatch
                    => request'[dispatch'[e].request].status \notin TerminalReservation
    <3>1. OpenRows
          BY DEF Told, RowsFollow
    <3>2. CASE e = d
          BY <1>1, <3>2
    <3>3. CASE e # d
      <4>1. dispatch[e].request # r /\ dispatch'[e] = dispatch[e]
            BY <1>1, <2>1, <3>3
      <4>. QED BY <2>1, <3>1, <4>1 DEF OpenRows
    <3>. QED BY <3>2, <3>3
  <2>. QED BY <1>1, <2>1 DEF OpenRows
<1>4. RequestsFollow'
  <2>1. \A q \in Requests : Agrees(q)
        BY AllAgree
  <2>2. \A q \in Requests : q # r => Agrees(q)'
        BY <1>1, <2>1 DEF Agrees
  <2>3. CASE request'[r].status = "In Progress" <=> row.status = "In Progress"
    <3>1. \A q \in Requests : q = r => Agrees(q)'
          BY <1>1, <2>3 DEF Agrees
    <3>. QED BY <2>2, <3>1 DEF RequestsFollow
  <2>4. CASE Advancing(job'[w]) /\ job'[w].request = r
        BY <2>2, <2>4 DEF RequestsFollow
  <2>. QED BY <2>3, <2>4
<1>. QED BY <1>2, <1>3, <1>4 DEF RowsFollow

\* Where a dispatch that has not completed is written, its open trips cancelled
\* with it, trips follow.
LEMMA CancelOpenTripsFollow ==
    ASSUME Known, Told, NEW d \in Dispatches, Raised(d), dispatch[d].status # "Completed", Raised(d)',
           \A e \in Dispatches : e # d => dispatch'[e] = dispatch[e], CancelOpenTrips({d})
    PROVE  /\ TripsFollow'
           /\ \A t \in Trips : trip[t].status # "Absent"
                                  => trip'[t].status # "Absent" /\ trip'[t].dispatch = trip[t].dispatch
<1>1. \A t \in Trips : trip'[t] = IF OpenTrip(t) /\ trip[t].dispatch = d
                                  THEN [trip[t] EXCEPT !.status = "Cancelled"] ELSE trip[t]
      BY DEF CancelOpenTrips
<1>2. \A t \in Trips : /\ trip'[t].dispatch = trip[t].dispatch
                       /\ trip'[t].status = IF OpenTrip(t) /\ trip[t].dispatch = d
                                            THEN "Cancelled" ELSE trip[t].status
      BY <1>1 DEF Known, TypeOK, TripRow
<1>3. \A t \in Trips : trip'[t].status # "Absent" <=> trip[t].status # "Absent"
      BY <1>2 DEF OpenTrip
<1>4. \A t \in Trips : trip[t].dispatch # d => trip'[t] = trip[t]
      BY <1>1
<1>5. ASSUME NEW t \in Trips, trip'[t].dispatch = d
      PROVE  /\ ~OpenTrip(t)'
             /\ trip'[t].status \notin StartedTrip
             /\ trip'[t].status # "Completed"
  <2>1. trip[t].dispatch = d
        BY <1>2, <1>5
  <2>2. ~OpenTrip(t)'
        BY <1>2, <2>1 DEF OpenTrip, TerminalTrip
  <2>3. trip'[t].status \notin StartedTrip
        BY <2>2 DEF OpenTrip, StartedTrip, TripStatus, LegacyTrip
  <2>4. trip[t].status # "Completed"
        BY <2>1 DEF Told, RowsFollow, TripsFollow, CompletedTogether
  <2>5. trip'[t].status # "Completed"
        BY <1>2, <2>4
  <2>. QED BY <2>2, <2>3, <2>5
<1>. QED BY <1>2, <1>3, <1>4, <1>5, TripsFollowWrite

\* So they do where a trip and its dispatch are written together.
LEMMA TripAndDispatchFollow ==
    ASSUME Known, Told, NEW t \in Trips, trip[t].status # "Absent", NEW d \in Dispatches,
           trip[t].dispatch = d, NEW status \in {"Trip Started", "Completed", "Cancelled"},
           SetTrip(t, status), \A e \in Dispatches : e # d => dispatch'[e] = dispatch[e],
           dispatch'[d].status = IF status = "Trip Started" THEN "In Progress" ELSE status
    PROVE  /\ TripsFollow'
           /\ \A u \in Trips : trip[u].status # "Absent"
                                  => trip'[u].status # "Absent" /\ trip'[u].dispatch = trip[u].dispatch
<1>1. /\ trip'[t].status = status /\ trip'[t].dispatch = d /\ status # "Absent"
      /\ \A u \in Trips : u # t => trip'[u] = trip[u]
      BY DEF SetTrip, Known, TypeOK, TripRow
<1>2. \A u \in Trips : trip[u].dispatch = d /\ trip[u].status # "Absent" => u = t
      BY DEF Told, RowsFollow, TripsFollow
<1>3. \A u \in Trips : /\ trip'[u].dispatch = trip[u].dispatch
                       /\ trip'[u].status # "Absent" <=> trip[u].status # "Absent"
      BY <1>1
<1>4. \A u \in Trips : trip[u].dispatch # d => trip'[u] = trip[u]
      BY <1>1
<1>5. ASSUME NEW u \in Trips, trip'[u].dispatch = d
      PROVE  /\ OpenTrip(u)' => dispatch'[d].status \notin TerminalDispatch
             /\ trip'[u].status \in StartedTrip => dispatch'[d].status = "In Progress"
             /\ trip'[u].status = "Completed" => dispatch'[d].status = "Completed"
  <2>1. CASE u = t
        BY <1>1, <2>1 DEF OpenTrip, TerminalTrip, TerminalDispatch, StartedTrip
  <2>2. CASE u # t
    <3>1. trip'[u].status = "Absent"
          BY <1>2, <1>3, <1>5, <2>2
    <3>. QED BY <3>1 DEF OpenTrip, StartedTrip, TripStatus, LegacyTrip
  <2>. QED BY <2>1, <2>2
<1>6. Raised(d)'
      BY DEF Raised
<1>. QED BY <1>3, <1>4, <1>5, <1>6, TripsFollowWrite

\* A stand-down frees an open dispatch and its request.
LEMMA StandDownTxTold ==
    ASSUME OneAtATime, Known, Told, NEW w \in Workers, StandDownTx(w) PROVE Told'
<1>0. /\ job[w].dispatch \in Dispatches /\ Raised(job[w].dispatch) /\ job[w].pc = "standDown"
      /\ ~Advancing(job[w]) /\ Finish(w)
      BY WhoIsWhere DEF StandDownTx, At, Told, StandingDown, Advancing
<1>1. PICK d \in Dispatches : d = job[w].dispatch /\ Raised(d)
      BY <1>0
<1>2. PICK r \in Requests : r = dispatch[d].request
      BY <1>1 DEF Told, RowsFollow, OpenRows
<1>. DEFINE row == [dispatch[d] EXCEPT !.status = "Cancelled"]
<1>3. CASE UNCHANGED <<request, dispatch, trip>>
      BY <1>0, <1>3, RowsStayPut, FinishRests DEF Known, Told
<1>4. CASE /\ CanTransitionDispatch(dispatch[d].status, "Cancelled")
           /\ WriteDispatch(d, row) /\ CancelOpenTrips({d})
           /\ request' = IF request[r].status \in TerminalReservation THEN request
                         ELSE [request EXCEPT ![r].status = "Scheduled", ![r].pair = NoPair]
  <2>1. dispatch[d].status # "Completed"
        BY <1>4 DEF CanTransitionDispatch, DispatchNext
  <2>2. dispatch' = [dispatch EXCEPT ![d] = row]
        BY <1>4 DEF WriteDispatch
  <2>3. row.status = "Cancelled" /\ row.request = r
        BY <1>2 DEF Known, TypeOK, DispatchRow
  <2>4. /\ request'[r].status # "In Progress"
        /\ \A q \in Requests : q # r => request'[q].status = request[q].status
        BY <1>4 DEF Known, TypeOK, RequestRow, TerminalReservation
  <2>. HIDE DEF row
  <2>5. /\ dispatch'[d] = row
        /\ \A e \in Dispatches : e # d => dispatch'[e] = dispatch[e]
        BY ZenonT(40), <1>1, <1>2, <2>2, <2>3, OneRowWritten
  <2>6. Raised(d)'
        BY <2>3, <2>5 DEF Raised
  <2>7. /\ TripsFollow'
        /\ \A t \in Trips : trip[t].status # "Absent"
                               => trip'[t].status # "Absent" /\ trip'[t].dispatch = trip[t].dispatch
        BY <1>1, <1>4, <2>1, <2>5, <2>6, CancelOpenTripsFollow
  <2>8. RowsFollow'
        BY <1>0, <1>1, <1>2, <2>2, <2>3, <2>4, <2>7, RowsFollowWrite DEF TerminalDispatch
  <2>. QED BY <1>0, <2>8, FinishRests DEF Known, Told
<1>. QED BY <1>1, <1>2, <1>3, <1>4 DEF StandDownTx

\* What the gate let through is still legal when it is written: a dispatch that
\* waits goes back on schedule, or one on schedule waits.
LEMMA FlipTold ==
    ASSUME OneAtATime, Known, Told, NEW w \in Workers, Flip(w) PROVE Told'
<1>0. /\ job[w].pc = "flip" /\ UNCHANGED <<request, trip>> /\ ~Advancing(job[w])
      /\ Reassigning(job[w]) \/ Grounding(job[w])
      BY WhoIsWhere DEF Flip, At, Told, Advancing
<1>1. PICK d \in Dispatches : d = job[w].dispatch /\ Raised(d)
      BY <1>0 DEF Reassigning, Grounding, Raised, Known, TypeOK, WellFormed
<1>2. PICK r \in Requests : r = dispatch[d].request
      BY <1>1 DEF Told, RowsFollow, OpenRows
<1>3. PICK to \in {"Scheduled", "Pending Reassignment"} : to = job[w].to
      BY <1>0 DEF Reassigning, Grounding, Ensuring
<1>. DEFINE row == [dispatch[d] EXCEPT !.status = to]
<1>4. CASE Finish(w) /\ UNCHANGED dispatch
      BY <1>0, <1>4, RowsStayPut, FinishRests DEF Known, Told
<1>5. CASE /\ WriteDispatch(d, row)
           /\ Goto(w, IF to = "Scheduled" THEN "ensure" ELSE "ground")
  <2>1. dispatch[d].status \in {"Scheduled", "Pending Reassignment"}
        BY <1>0, <1>1 DEF Reassigning, Grounding, Ensuring
  <2>2. dispatch' = [dispatch EXCEPT ![d] = row]
        BY <1>5 DEF WriteDispatch
  <2>3. row.status = to /\ row.request = r /\ row.pair = dispatch[d].pair /\ row.status # "Absent"
        BY <1>2 DEF Known, TypeOK, DispatchRow
  <2>. HIDE DEF row
  <2>4. /\ dispatch'[d] = row
        /\ \A e \in Dispatches : e # d => dispatch'[e] = dispatch[e]
        BY <2>2 DEF Known, TypeOK
  <2>5. Raised(d)'
        BY <2>3, <2>4 DEF Raised
  <2>6. TripsFollow'
    <3>1. ASSUME NEW t \in Trips, trip[t].dispatch = d
          PROVE  trip[t].status \notin StartedTrip /\ trip[t].status # "Completed"
          BY <2>1, <3>1 DEF Told, RowsFollow, TripsFollow, CompletedTogether
    <3>. QED BY <1>0, <2>3, <2>4, <2>5, <3>1, TripsFollowWrite DEF TerminalDispatch
  <2>7. request[r].status \notin TerminalReservation /\ request[r].status # "In Progress"
    <3>1. Agrees(r) /\ ~Running(r)
          BY <1>0, <1>1, <1>2, <2>1, AllAgree, RunningHere
    <3>2. request[r].status \notin TerminalReservation
          BY <1>1, <1>2, <2>1 DEF Told, RowsFollow, OpenRows, TerminalDispatch
    <3>. QED BY <3>1, <3>2 DEF Agrees
  <2>8. RowsFollow'
        BY <1>0, <1>1, <1>2, <2>2, <2>3, <2>6, <2>7, RowsFollowWrite
  <2>9. InPlace(job[w])'
    <3>1. CASE Reassigning(job[w])
      <4>1. to = "Scheduled" /\ job[w].op = "reassign" /\ job[w].pair \in Vehicles \X Drivers
            /\ job[w].request = r /\ dispatch[d].pair = job[w].pair
            BY <1>0, <1>1, <1>2, <1>3, <3>1 DEF Reassigning, Ensuring
      <4>2. /\ job'[w].op = "reassign" /\ job'[w].pc = "ensure" /\ job'[w].request = r
            /\ job'[w].dispatch = d /\ job'[w].pair = job[w].pair
            BY <1>1, <1>5, <4>1, GotoMoves DEF Known
      <4>3. Ensuring(job[w])'
            BY ZenonT(40), <2>3, <2>4, <2>5, <4>1, <4>2, DataAssumption DEF Ensuring, Raised
      <4>4. Reassigning(job[w])'
            BY <2>3, <2>4, <2>5, <4>1, <4>2, <4>3 DEF Reassigning, Raised
      <4>. QED BY <4>4 DEF InPlace
    <3>2. CASE Grounding(job[w])
      <4>1. /\ to = "Pending Reassignment" /\ job[w].op = "ground"
            /\ \A hit \in job[w].todo : dispatch[hit[1]].status = hit[2] /\ hit[1] # d
            BY <1>0, <1>1, <1>3, <3>2 DEF Grounding
      <4>2. job'[w].op = "ground" /\ job'[w].pc = "ground" /\ job'[w].todo = job[w].todo
            BY <1>5, <4>1, GotoMoves DEF Known
      <4>3. \A hit \in job[w].todo : hit[1] \in Dispatches
        <5>1. job[w].todo \subseteq Dispatches \X LiveDispatch
              BY DEF Known, TypeOK, Job
        <5>. QED BY <5>1
      <4>4. \A hit \in job[w].todo : dispatch'[hit[1]].status = hit[2]
            BY <2>4, <4>1, <4>3
      <4>5. Grounding(job[w])'
            BY <4>2, <4>4 DEF Grounding
      <4>. QED BY <4>5 DEF InPlace
    <3>. QED BY <1>0, <3>1, <3>2
  <2>. QED BY <2>8, <2>9, OneInPlace DEF Told
<1>. QED BY <1>0, <1>1, <1>3, <1>4, <1>5 DEF Flip

\* The busy sync finds the dispatch and the request running.
LEMMA BusyTold ==
    ASSUME OneAtATime, Known, Told, NEW w \in Workers, Busy(w) PROVE Told'
<1>0. Driving(job[w]) /\ job[w].pc = "busy" /\ UNCHANGED <<request, trip>> /\ Goto(w, "load")
      BY WhoIsWhere DEF Busy, At, Told
<1>1. PICK d \in Dispatches : d = job[w].dispatch /\ dispatch[d].status = "In Progress"
      BY <1>0, OnTripHasRows DEF Driving
<1>2. dispatch' = dispatch
  <2>. DEFINE row == [dispatch[d] EXCEPT !.status = "In Progress"]
  <2>1. dispatch[d] \in DispatchRow /\ dispatch \in [Dispatches -> DispatchRow]
        BY DEF Known, TypeOK
  <2>2. row = dispatch[d]
        BY <1>1, <2>1 DEF DispatchRow
  <2>3. dispatch' = [dispatch EXCEPT ![d] = row] \/ dispatch' = dispatch
        BY <1>1 DEF Busy, WriteDispatch
  <2>. HIDE DEF row
  <2>. QED BY <2>1, <2>2, <2>3
<1>3. RowsFollow'
      BY <1>0, <1>2, RowsStayPut DEF Told
<1>4. /\ job'[w].op = job[w].op /\ job'[w].pc = "load" /\ job'[w].request = job[w].request
      /\ job'[w].dispatch = job[w].dispatch /\ job'[w].trip = job[w].trip
      /\ job'[w].goal = job[w].goal
      BY <1>0, GotoMoves DEF Known
<1>5. Driving(job[w])'
      BY <1>0, <1>2, <1>4 DEF Driving, OnTrip
<1>. QED BY <1>3, <1>5, OneInPlace DEF InPlace, Told

\* A start puts trip and dispatch on their way, and its request is to follow.
LEMMA StartTxTold ==
    ASSUME OneAtATime, Known, Told, NEW w \in Workers, StartTx(w) PROVE Told'
<1>0. Starting(job[w]) /\ job[w].pc = "startTx" /\ request' = request
      BY WhoIsWhere DEF StartTx, At, Told
<1>1. PICK d \in Dispatches : d = job[w].dispatch /\ Raised(d)
      BY <1>0, OnTripHasRows DEF Starting
<1>2. PICK r \in Requests : r = job[w].request /\ r = dispatch[d].request
      BY <1>0, <1>1, OnTripHasRows DEF Starting, OnTrip
<1>3. PICK t \in Trips : t = job[w].trip /\ trip[t].status # "Absent" /\ trip[t].dispatch = d
      BY <1>0, <1>1 DEF Starting, OnTrip
<1>. DEFINE row == [dispatch[d] EXCEPT !.status = "In Progress"]
<1>4. /\ SetTrip(t, "Trip Started") /\ dispatch' = [dispatch EXCEPT ![d] = row]
      /\ Committed(w, d, "load")
      BY <1>1, <1>3 DEF StartTx, WriteDispatch
<1>5. row.status = "In Progress" /\ row.request = r
      BY <1>2 DEF Known, TypeOK, DispatchRow
<1>. HIDE DEF row
<1>6. dispatch'[d] = row /\ \A e \in Dispatches : e # d => dispatch'[e] = dispatch[e]
      BY <1>4 DEF Known, TypeOK
<1>7. request[r].status \in Actionable
      BY <1>0, <1>2 DEF Starting, ToGoal
<1>8. /\ TripsFollow'
      /\ \A u \in Trips : trip[u].status # "Absent"
                             => trip'[u].status # "Absent" /\ trip'[u].dispatch = trip[u].dispatch
      BY <1>3, <1>4, <1>5, <1>6, TripAndDispatchFollow
<1>9. /\ job'[w].op = "start" /\ job'[w].pc = "load" /\ job'[w].request = r
      /\ job'[w].dispatch = d /\ job'[w].trip = t /\ job'[w].goal = "In Progress"
  <2>1. job[w].op = "start" /\ job[w].goal = "In Progress"
        BY <1>0 DEF Starting
  <2>. DEFINE j == [job[w] EXCEPT !.evidence = NoEvidence, !.path = <<>>, !.dispatch = d, !.pc = "load"]
  <2>2. job'[w] = j
        BY <1>4 DEF Committed, Known, TypeOK
  <2>3. /\ j.op = job[w].op /\ j.pc = "load" /\ j.request = job[w].request
        /\ j.dispatch = d /\ j.trip = job[w].trip /\ j.goal = job[w].goal
        BY DEF Known, TypeOK, Job
  <2>. HIDE DEF j
  <2>. QED BY <1>2, <1>3, <2>1, <2>2, <2>3
<1>10. RowsFollow'
  <2>1. Advancing(job'[w]) /\ ~Advancing(job[w])
        BY <1>0, <1>9 DEF Advancing
  <2>2. request'[r].status \notin TerminalReservation
        BY <1>0, <1>7 DEF Actionable, TerminalReservation
  <2>. QED BY <1>0, <1>1, <1>2, <1>4, <1>5, <1>8, <1>9, <2>1, <2>2, RowsFollowWrite
<1>11. Starting(job[w])'
  <2>1. OnTrip(job[w])'
        BY <1>2, <1>3, <1>5, <1>6, <1>8, <1>9 DEF OnTrip
  <2>2. ToGoal(job[w])'
        BY <1>0, <1>7, <1>9 DEF ToGoal, Actionable, TerminalReservation
  <2>. QED BY <1>5, <1>6, <1>9, <2>1, <2>2 DEF Starting
<1>. QED BY <1>10, <1>11, OneInPlace DEF InPlace, Told

\* A cancelled trip takes its dispatch with it, and its request is to follow.
LEMMA CancelTripTxTold ==
    ASSUME OneAtATime, Known, Told, NEW w \in Workers, CancelTripTx(w) PROVE Told'
<1>0. Cancelling(job[w]) /\ job[w].pc = "cancelTx" /\ request' = request
      BY WhoIsWhere DEF CancelTripTx, At, Told
<1>1. PICK d \in Dispatches : d = job[w].dispatch /\ Raised(d)
      BY <1>0, OnTripHasRows DEF Cancelling
<1>2. PICK r \in Requests : r = job[w].request /\ r = dispatch[d].request
      BY <1>0, <1>1, OnTripHasRows DEF Cancelling, OnTrip
<1>3. PICK t \in Trips : t = job[w].trip /\ trip[t].status # "Absent" /\ trip[t].dispatch = d
      BY <1>0, <1>1 DEF Cancelling, OnTrip
<1>. DEFINE row == [dispatch[d] EXCEPT !.status = "Cancelled"]
<1>4. /\ SetTrip(t, "Cancelled") /\ dispatch' = [dispatch EXCEPT ![d] = row]
      /\ Goto(w, "load")
      BY <1>1, <1>3 DEF CancelTripTx, WriteDispatch
<1>5. row.status = "Cancelled" /\ row.request = r
      BY <1>2 DEF Known, TypeOK, DispatchRow
<1>. HIDE DEF row
<1>6. dispatch'[d] = row /\ \A e \in Dispatches : e # d => dispatch'[e] = dispatch[e]
      BY <1>4 DEF Known, TypeOK
<1>7. request[r].status \notin TerminalReservation
  <2>1. OpenTrip(t)
        BY <1>0, <1>3 DEF Cancelling, ToGoal
  <2>2. dispatch[d].status \notin TerminalDispatch
        BY <1>3, <2>1 DEF Told, RowsFollow, TripsFollow
  <2>. QED BY <1>1, <1>2, <2>2 DEF Told, RowsFollow, OpenRows
<1>8. /\ TripsFollow'
      /\ \A u \in Trips : trip[u].status # "Absent"
                             => trip'[u].status # "Absent" /\ trip'[u].dispatch = trip[u].dispatch
  <2>1. dispatch'[d].status = IF "Cancelled" = "Trip Started" THEN "In Progress" ELSE "Cancelled"
        BY <1>5, <1>6
  <2>. QED BY <1>3, <1>4, <1>6, <2>1, TripAndDispatchFollow
<1>9. /\ job'[w].op = "cancelTrip" /\ job'[w].pc = "load" /\ job'[w].request = r
      /\ job'[w].dispatch = d /\ job'[w].trip = t /\ job'[w].goal = "Cancelled"
      BY <1>0, <1>1, <1>2, <1>3, <1>4, GotoMoves DEF Known, Cancelling
<1>10. RowsFollow'
  <2>1. Advancing(job'[w]) /\ ~Advancing(job[w])
        BY <1>0, <1>9 DEF Advancing
  <2>. QED BY <1>0, <1>1, <1>2, <1>4, <1>5, <1>7, <1>8, <1>9, <2>1, RowsFollowWrite
<1>11. Cancelling(job[w])'
  <2>1. OnTrip(job[w])'
        BY <1>2, <1>3, <1>5, <1>6, <1>8, <1>9 DEF OnTrip
  <2>2. ToGoal(job[w])'
        BY <1>0, <1>7, <1>9 DEF ToGoal
  <2>. QED BY <1>5, <1>6, <1>9, <2>1, <2>2 DEF Cancelling
<1>. QED BY <1>10, <1>11, OneInPlace DEF InPlace, Told

\* So does a completed one.
LEMMA CompleteTold ==
    ASSUME OneAtATime, Known, Told, NEW w \in Workers, NEW t \in Trips, Complete(w, t) PROVE Told'
<1>0. /\ OpenTrip(t) /\ trip[t].status # "Absent" /\ request' = request /\ job[w] = Idle
      /\ job[w].pc = "idle"
      BY DEF Complete, OpenTrip, Begin, Idle
<1>1. PICK d \in Dispatches : d = trip[t].dispatch /\ Raised(d)
      BY <1>0 DEF Told, RowsFollow, TripsFollow, Known, TypeOK
<1>2. PICK r \in Requests : r = dispatch[d].request
      BY <1>1 DEF Told, RowsFollow, OpenRows
<1>. DEFINE row == [dispatch[d] EXCEPT !.status = "Completed"]
<1>3. SetTrip(t, "Completed") /\ dispatch' = [dispatch EXCEPT ![d] = row]
      BY <1>1 DEF Complete, WriteDispatch
<1>4. row.status = "Completed" /\ row.request = r
      BY <1>2 DEF Known, TypeOK, DispatchRow
<1>. HIDE DEF row
<1>5. dispatch'[d] = row /\ \A e \in Dispatches : e # d => dispatch'[e] = dispatch[e]
      BY <1>3 DEF Known, TypeOK
<1>6. request[r].status \notin TerminalReservation
  <2>1. dispatch[d].status \notin TerminalDispatch
        BY <1>0, <1>1 DEF Told, RowsFollow, TripsFollow
  <2>. QED BY <1>1, <1>2, <2>1 DEF Told, RowsFollow, OpenRows
<1>7. /\ TripsFollow'
      /\ \A u \in Trips : trip[u].status # "Absent"
                             => trip'[u].status # "Absent" /\ trip'[u].dispatch = trip[u].dispatch
      BY <1>0, <1>1, <1>3, <1>4, <1>5, TripAndDispatchFollow
<1>8. /\ job'[w].op = "complete" /\ job'[w].pc = "load" /\ job'[w].request = r
      /\ job'[w].dispatch = d /\ job'[w].trip = t /\ job'[w].goal = "Completed"
  <2>1. job'[w] = [TripJob(t, "load", "Completed") EXCEPT !.op = "complete"]
        BY DEF Complete, Begin, Known, TypeOK
  <2>. QED BY <1>1, <1>2, <2>1 DEF TripJob, Idle
<1>9. RowsFollow'
  <2>1. Advancing(job'[w]) /\ ~Advancing(job[w])
        BY <1>0, <1>8 DEF Advancing
  <2>. QED BY <1>0, <1>1, <1>2, <1>3, <1>4, <1>6, <1>7, <1>8, <2>1, RowsFollowWrite
<1>10. Completing(job[w])'
  <2>1. OnTrip(job[w])'
        BY <1>0, <1>1, <1>2, <1>4, <1>5, <1>7, <1>8 DEF OnTrip
  <2>2. ToGoal(job[w])'
        BY <1>0, <1>6, <1>8 DEF ToGoal
  <2>. QED BY <1>4, <1>5, <1>8, <2>1, <2>2 DEF Completing
<1>. QED BY <1>9, <1>10, OneInPlace DEF InPlace, Told

\* A grounded dispatch waits and its request is free again; the others of the
\* vehicle are still as they were seen.
LEMMA GroundNextTold ==
    ASSUME OneAtATime, Known, Told, NEW w \in Workers, GroundNext(w) PROVE Told'
<1>0. /\ job[w].pc = "ground" /\ job[w].op = "ground" /\ ~Advancing(job[w])
      /\ \A h \in job[w].todo : dispatch[h[1]].status = h[2]
      BY WhoIsWhere DEF GroundNext, At, Told, Advancing, Grounding
<1>1. job[w].todo \subseteq Dispatches \X LiveDispatch /\ job[w] \in Job
      BY DEF Known, TypeOK, Job
<1>2. CASE Finish(w) /\ UNCHANGED <<request, dispatch, trip>>
      BY <1>0, <1>2, RowsStayPut, FinishRests DEF Known, Told
<1>3. ASSUME ~(Finish(w) /\ UNCHANGED <<request, dispatch, trip>>) PROVE Told'
  <2>1. PICK hit \in job[w].todo :
           \/ /\ hit[2] = "In Progress"
              /\ CancelOpenTrips({hit[1]})
              /\ WriteDispatch(hit[1], [dispatch[hit[1]] EXCEPT !.status = "Pending Reassignment",
                                                                !.pair = NoPair])
              /\ request' = [request EXCEPT ![dispatch[hit[1]].request].status = "Scheduled",
                                            ![dispatch[hit[1]].request].pair = NoPair]
              /\ job' = [job EXCEPT ![w].todo = @ \ {hit}]
           \/ /\ hit[2] = "Scheduled"
              /\ job' = [job EXCEPT ![w].todo = @ \ {hit}, ![w].pc = "flipRead",
                                    ![w].dispatch = hit[1], ![w].to = "Pending Reassignment"]
              /\ UNCHANGED <<request, dispatch, trip>>
        BY <1>3 DEF GroundNext
  <2>2. PICK d \in Dispatches : d = hit[1] /\ dispatch[d].status = hit[2] /\ hit[2] \in LiveDispatch
        BY <1>0, <1>1
  <2>3. \A h \in job[w].todo \ {hit} : h[1] \in Dispatches /\ h[1] # d
        BY <1>0, <1>1, <2>2
  <2>4. Raised(d)
        BY <2>2 DEF Raised, LiveDispatch
  <2>5. PICK r \in Requests : r = dispatch[d].request
        BY <2>4 DEF Told, RowsFollow, OpenRows
  <2>6. CASE /\ hit[2] = "In Progress"
             /\ job' = [job EXCEPT ![w].todo = @ \ {hit}]
             /\ CancelOpenTrips({d})
             /\ WriteDispatch(d, [dispatch[d] EXCEPT !.status = "Pending Reassignment",
                                                     !.pair = NoPair])
             /\ request' = [request EXCEPT ![r].status = "Scheduled", ![r].pair = NoPair]
    <3>. DEFINE row == [dispatch[d] EXCEPT !.status = "Pending Reassignment", !.pair = NoPair]
    <3>1. /\ dispatch' = [dispatch EXCEPT ![d] = row]
          /\ row.status = "Pending Reassignment" /\ row.request = r
          BY <2>5, <2>6 DEF WriteDispatch, Known, TypeOK, DispatchRow
    <3>2. /\ request'[r].status = "Scheduled"
          /\ \A q \in Requests : q # r => request'[q].status = request[q].status
          BY <2>6 DEF Known, TypeOK, RequestRow
    <3>. HIDE DEF row
    <3>3. /\ dispatch'[d] = row
          /\ \A e \in Dispatches : e # d => dispatch'[e] = dispatch[e]
          BY <3>1 DEF Known, TypeOK
    <3>4. Raised(d)'
          BY <3>1, <3>3 DEF Raised
    <3>5. /\ TripsFollow'
          /\ \A t \in Trips : trip[t].status # "Absent"
                                 => trip'[t].status # "Absent" /\ trip'[t].dispatch = trip[t].dispatch
          BY <2>2, <2>4, <2>6, <3>3, <3>4, CancelOpenTripsFollow
    <3>6. RowsFollow'
      <4>1. /\ request'[r].status = "In Progress" <=> row.status = "In Progress"
            /\ request'[r].status \notin TerminalReservation /\ row.status # "Absent"
            BY <3>1, <3>2 DEF TerminalReservation
      <4>. QED BY <1>0, <2>4, <2>5, <3>1, <3>2, <3>5, <4>1, RowsFollowWrite
    <3>7. job'[w].op = "ground" /\ job'[w].pc = "ground" /\ job'[w].todo = job[w].todo \ {hit}
          BY <1>0, <1>1, <2>6 DEF Known, TypeOK, Job
    <3>8. \A h \in job'[w].todo : dispatch'[h[1]].status = h[2]
          BY <1>0, <2>3, <3>3, <3>7
    <3>9. Grounding(job[w])'
          BY <3>7, <3>8 DEF Grounding
    <3>. QED BY <3>6, <3>9, OneInPlace DEF InPlace, Told
  <2>7. CASE /\ hit[2] = "Scheduled"
             /\ job' = [job EXCEPT ![w].todo = @ \ {hit}, ![w].pc = "flipRead",
                                   ![w].dispatch = d, ![w].to = "Pending Reassignment"]
             /\ UNCHANGED <<request, dispatch, trip>>
    <3>. DEFINE j == [job[w] EXCEPT !.todo = @ \ {hit}, !.pc = "flipRead",
                                    !.dispatch = d, !.to = "Pending Reassignment"]
    <3>1. job'[w] = j
          BY <2>7 DEF Known, TypeOK
    <3>2. /\ j.op = "ground" /\ j.pc = "flipRead" /\ j.todo = job[w].todo \ {hit}
          /\ j.dispatch = d /\ j.to = "Pending Reassignment"
          BY <1>0, <1>1 DEF Job
    <3>. HIDE DEF j
    <3>3. Grounding(job[w])'
          BY <1>0, <2>2, <2>3, <2>7, <3>1, <3>2 DEF Grounding
    <3>. QED BY <1>0, <2>7, <3>3, OneInPlace, RowsStayPut DEF InPlace, Told
  <2>. QED BY <2>1, <2>2, <2>5, <2>6, <2>7
<1>. QED BY <1>2, <1>3

\* The cancellation of a request closes what is open below it, at a stroke.
LEMMA CancelRequestTold ==
    ASSUME OneAtATime, Known, Told, NEW w \in Workers, NEW r \in Requests, CancelRequest(w, r)
    PROVE  Told'
<1>. DEFINE open == { d \in DispatchesOf(r) : dispatch[d].status \notin TerminalDispatch }
<1>0. /\ job[w].pc = "idle" /\ job[w].op = "none" /\ job' = job /\ ~Advancing(job[w])
      /\ dispatch' = [d \in Dispatches |-> IF d \in open
                                           THEN [dispatch[d] EXCEPT !.status = "Cancelled"]
                                           ELSE dispatch[d]]
      /\ CancelOpenTrips(open)
      BY DEF CancelRequest, Idle, Advancing
<1>1. /\ request'[r].status = "Cancelled"
      /\ \A q \in Requests : q # r => request'[q].status = request[q].status
      BY DEF CancelRequest, Known, TypeOK, RequestRow
<1>2. JobsInPlace'
  <2>1. InPlace(job[w])'
        BY <1>0 DEF InPlace, Resting
  <2>. QED BY <2>1, OneInPlace
<1>3. CASE open = {}
  <2>1. dispatch' = dispatch
        BY <1>0, <1>3 DEF Known, TypeOK
  <2>2. trip' = trip
        BY <1>0, <1>3 DEF CancelOpenTrips, Known, TypeOK
  <2>3. TripsFollow' /\ TripsRaised'
    <3>1. TripsRaised'
          BY <1>0, <2>1, <2>2, TripsRaisedStay DEF Raised
    <3>. QED BY <2>1, <2>2, <3>1
             DEF Told, RowsFollow, TripsFollow, CompletedTogether, OpenTrip, Raised
  <2>4. \A d \in DispatchesOf(r) : dispatch[d].status \in TerminalDispatch
        BY <1>3
  <2>5. OpenRows'
        BY <1>1, <2>1, <2>4 DEF Told, RowsFollow, OpenRows, Raised, DispatchesOf
  <2>6. RequestsFollow'
    <3>1. \A q \in Requests : Agrees(q)
          BY <1>0, AllAgree
    <3>2. \A q \in Requests : Running(q)' <=> Running(q)
          BY <2>1 DEF Running, DispatchesOf, Raised
    <3>3. ~Running(r)
          BY <2>4 DEF Running, TerminalDispatch
    <3>4. \A q \in Requests : Agrees(q)'
          BY <1>1, <3>1, <3>2, <3>3 DEF Agrees
    <3>. QED BY <3>4 DEF RequestsFollow
  <2>. QED BY <1>2, <2>3, <2>5, <2>6 DEF Told, RowsFollow
<1>4. ASSUME NEW d \in open PROVE Told'
  <2>1. /\ d \in Dispatches /\ Raised(d) /\ dispatch[d].request = r
        /\ dispatch[d].status \notin TerminalDispatch
        BY <1>4 DEF DispatchesOf
  <2>2. open = {d}
        BY <1>4, DataAssumption DEF DispatchesOf, Known, OwnDispatches
  <2>. DEFINE row == [dispatch[d] EXCEPT !.status = "Cancelled"]
  <2>3. row.status = "Cancelled" /\ row.request = dispatch[d].request
        BY <2>1 DEF Known, TypeOK, DispatchRow
  <2>. HIDE DEF open
  <2>4. dispatch' = [e \in Dispatches |-> IF e = d THEN row ELSE dispatch[e]]
        BY <1>0, <2>2
  <2>. HIDE DEF row
  <2>5. /\ dispatch' = [dispatch EXCEPT ![d] = row] /\ dispatch'[d] = row
        /\ \A e \in Dispatches : e # d => dispatch'[e] = dispatch[e]
        BY <2>1, <2>4 DEF Known, TypeOK
  <2>6. Raised(d)'
        BY <2>3, <2>5 DEF Raised
  <2>7. /\ TripsFollow'
        /\ \A t \in Trips : trip[t].status # "Absent"
                               => trip'[t].status # "Absent" /\ trip'[t].dispatch = trip[t].dispatch
    <3>1. CancelOpenTrips({d}) /\ dispatch[d].status # "Completed"
          BY <1>0, <2>1, <2>2 DEF TerminalDispatch
    <3>. QED BY <2>1, <2>5, <2>6, <3>1, CancelOpenTripsFollow
  <2>8. RowsFollow'
    <3>1. /\ request'[r].status = "In Progress" <=> row.status = "In Progress"
          /\ row.status \in TerminalDispatch /\ row.status # "Absent"
          BY <1>1, <2>3 DEF TerminalDispatch
    <3>2. /\ request'[dispatch[d].request].status = "In Progress" <=> row.status = "In Progress"
          /\ \A q \in Requests : q # dispatch[d].request => request'[q].status = request[q].status
          BY <1>1, <2>1, <3>1
    <3>3. job[w].pc \notin {"ensure", "insert"} /\ ~Advancing(job[w])
          BY <1>0
    <3>. HIDE DEF open
    <3>. QED BY <2>1, <2>3, <2>5, <2>7, <3>1, <3>2, <3>3, RowsFollowWrite
  <2>. QED BY <1>2, <2>8 DEF Told
<1>. QED BY <1>3, <1>4

------------------------------------------------------------------------------
(* Every step *)

\* Nothing is raised at first, and every request waits.
LEMMA ToldAtFirst ==
    ASSUME Init PROVE Told
<1>1. /\ \A r \in Requests : request[r].status = "Pending"
      /\ \A d \in Dispatches : dispatch[d].status = "Absent"
      /\ \A t \in Trips : trip[t].status = "Absent"
      BY DEF Init, NoDispatch, NoTrip
<1>2. TripsFollow
      BY <1>1 DEF TripsFollow, CompletedTogether, OpenTrip, StartedTrip, TripStatus, LegacyTrip
<1>3. OpenRows /\ TripsRaised
      BY <1>1 DEF OpenRows, TripsRaised, Raised
<1>4. RequestsFollow
      BY <1>1 DEF RequestsFollow, Agrees, Running, DispatchesOf, Raised
<1>5. JobsInPlace
  <2>. SUFFICES ASSUME NEW w \in Workers PROVE InPlace(job[w])
       BY DEF JobsInPlace
  <2>1. job[w].op = "none" /\ job[w].pc = "idle"
        BY DEF Init, Idle
  <2>. QED BY <2>1 DEF InPlace, Resting
<1>. QED BY <1>2, <1>3, <1>4, <1>5 DEF Told, RowsFollow

\* A handler that is taken up keeps the rows in order ...
LEMMA CallsTold ==
    ASSUME OneAtATime, Known, Told, NEW w \in Workers, Call(w) PROVE Told'
<1>1. {"create", "leave", "editTrip"} \intersect Handlers = {}
      BY DEF OneAtATime
<1>2. ASSUME NEW r \in Requests, NEW p \in Pairs, Assign(w, r, p) PROVE Told'
      BY <1>2, AssignTold
<1>3. ASSUME NEW r \in Requests, NEW p \in Pairs, NEW window \in Windows, Create(w, r, p, window)
      PROVE  FALSE
      BY <1>1, <1>3 DEF Create, Begin
<1>4. ASSUME NEW d \in Dispatches, NEW p \in Pairs, NEW window \in Windows, Reassign(w, d, p, window)
      PROVE  Told'
      BY <1>4, ReassignTold
<1>5. ASSUME NEW d \in Dispatches, StandDown(w, d) PROVE Told'
      BY <1>5, StandDownTold
<1>6. ASSUME NEW r \in Requests, CancelRequest(w, r) PROVE Told'
      BY <1>6, CancelRequestTold
<1>7. ASSUME NEW r \in Requests, NEW window \in Windows, Reschedule(w, r, window) PROVE Told'
      BY <1>7, RescheduleTold
<1>8. ASSUME NEW driver \in Drivers, NEW covered \in SUBSET Dispatches, ApproveLeave(w, driver, covered)
      PROVE  FALSE
      BY <1>1, <1>8 DEF ApproveLeave
<1>9. ASSUME NEW t \in Trips, NEW to \in DriverSteps, TripStep(w, t, to) PROVE Told'
      BY <1>9, TripCallTold
<1>10. ASSUME NEW t \in Trips, Decline(w, t) \/ Start(w, t) \/ CancelTrip(w, t) PROVE Told'
      BY <1>10, TripCallTold
<1>11. ASSUME NEW t \in Trips, MobileAccept(w, t) \/ Complete(w, t) PROVE Told'
      BY <1>11, MobileAcceptTold, CompleteTold
<1>12. ASSUME NEW t \in Trips, NEW to \in TripStatus, NEW p \in Pairs, NEW d \in Dispatches,
              EditTrip(w, t, to, p, d)
       PROVE  FALSE
       BY <1>1, <1>12 DEF EditTrip
<1>13. ASSUME NEW v \in Vehicles, NEW soon \in SUBSET Dispatches, Ground(w, v, soon) PROVE Told'
       BY <1>13, GroundTold
<1>. QED BY <1>2, <1>3, <1>4, <1>5, <1>6, <1>7, <1>8, <1>9, <1>10, <1>11, <1>12, <1>13 DEF Call

\* ... and so does every step of one; the commit of a created dispatch is out of reach.
LEMMA NoCommitCreate ==
    ASSUME Told, NEW w \in Workers PROVE ~CommitCreate(w)
BY WhoIsWhere DEF Told, CommitCreate, At, Assigning, Reassigning

LEMMA StepsTold ==
    ASSUME OneAtATime, Known, Known', Told, NEW w \in Workers, Step(w) PROVE Told'
<1>1. CASE Screen(w) \/ Gate(w) \/ Evidence(w) \/ Refused(w)
      BY <1>1, ScreenTold, GateTold, EvidenceTold, RefusedTold
<1>2. CASE CommitAssign(w) \/ CommitCreate(w) \/ CommitReassign(w)
      BY <1>2, CommitAssignTold, NoCommitCreate, CommitReassignTold
<1>3. CASE EnsureTrip(w) \/ InsertTrip(w) \/ Load(w) \/ Hop(w)
      BY <1>3, EnsureTripTold, InsertTripTold, LoadTold, HopTold
<1>4. CASE StandDownTx(w) \/ RescheduleWrite(w) \/ FlipRead(w) \/ Flip(w)
      BY <1>4, StandDownTxTold, RescheduleWriteTold, FlipReadTold, FlipTold
<1>5. CASE TripTx(w) \/ Busy(w) \/ DeclineWrite(w)
      BY <1>5, TripTxTold, BusyTold, DeclineWriteTold
<1>6. CASE StartTx(w) \/ CancelTripTx(w) \/ GroundNext(w)
      BY <1>6, StartTxTold, CancelTripTxTold, GroundNextTold
<1>. QED BY <1>1, <1>2, <1>3, <1>4, <1>5, <1>6 DEF Step

\* The invariant is inductive.
LEMMA NextTold ==
    ASSUME OneAtATime, Known, Known', Told, [Next]_vars PROVE Told'
<1>1. CASE UNCHANGED vars
  <2>1. RowsFollow'
    <3>1. \A d \in Dispatches : (Raised(d)' <=> Raised(d)) /\ TripsOf(d)' = TripsOf(d)
          BY <1>1 DEF vars, Raised, TripsOf
    <3>2. TripsFollow' /\ OpenRows'
          BY <1>1 DEF vars, Told, RowsFollow, TripsFollow, OpenRows, OpenTrip, Raised, CompletedTogether
    <3>3. TripsRaised'
          BY <1>1, <3>1 DEF vars, Told, RowsFollow, TripsRaised
    <3>4. \A r \in Requests : Agrees(r)' <=> Agrees(r)
          BY <1>1 DEF vars, Agrees, Running, DispatchesOf, Raised
    <3>5. RequestsFollow'
          BY <1>1, <3>4 DEF vars, Told, RowsFollow, RequestsFollow
    <3>. QED BY <3>2, <3>3, <3>5 DEF RowsFollow
  <2>2. \A w \in Workers : InPlace(job[w])' <=> InPlace(job[w])
        BY <1>1 DEF vars, InPlace, Resting, Assigning, Reassigning, StandingDown, Rescheduling, Driving,
               Declining, Starting, Completing, Cancelling, Grounding, Ensuring, ToGoal, OnTrip, Raised,
               OpenTrip, TripsOf
  <2>. QED BY <2>1, <2>2 DEF Told, JobsInPlace
<1>2. CASE Next
  <2>1. PICK w \in Workers : Call(w) \/ Step(w) \/ Crash(w)
        BY <1>2 DEF Next
  <2>2. ~Crash(w)
        BY DEF Crash, OneAtATime
  <2>. QED BY <2>1, <2>2, CallsTold, StepsTold
<1>. QED BY <1>1, <1>2

\* The rows tell one story at every moment, and every handler is in place.
LEMMA AlwaysTold ==
    ASSUME OneAtATime PROVE Spec => [](Known /\ Told)
<1>1. "create" \notin Handlers
      BY DEF OneAtATime
<1>2. Spec => []Known
  <2>1. TypeOK /\ OwnDispatches => Known
        BY DEF Known
  <2>. QED BY <1>1, <2>1, TypeCorrect, OwnersStayApart, PTL
<1>3. Init => Told
      BY ToldAtFirst
<1>4. Known /\ Known' /\ Told /\ [Next]_vars => Told'
      BY NextTold
<1>. QED BY <1>2, <1>3, <1>4, PTL DEF Spec

------------------------------------------------------------------------------
(* What it says between two steps *)

\* A trip and its dispatch complete together, while handlers run one at a time.
THEOREM CompletedTogetherHolds ==
    ASSUME OneAtATime PROVE Spec => []CompletedTogether
<1>1. Known /\ Told => CompletedTogether
      BY DEF Told, RowsFollow, TripsFollow
<1>. QED BY <1>1, AlwaysTold, PTL

\* Between two handlers a request is In Progress exactly when its dispatch is.
THEOREM RunningTogetherHolds ==
    ASSUME OneAtATime PROVE Spec => []RunningTogether
<1>1. Known /\ Told => RunningTogether
  <2>. SUFFICES ASSUME Told, Quiet, NEW r \in Requests PROVE Agrees(r)
       BY DEF RunningTogether, Agrees, Running
  <2>1. \A w \in Workers : ~Advancing(job[w])
        BY DEF Quiet, Advancing, Idle
  <2>. QED BY <2>1 DEF Told, RowsFollow, RequestsFollow
<1>. QED BY <1>1, AlwaysTold, PTL

\* No vehicle or driver is held for a request that is over.
THEOREM PairHeldOnlyForOpenRequestHolds ==
    ASSUME OneAtATime PROVE Spec => []PairHeldOnlyForOpenRequest
<1>1. Known /\ Told => PairHeldOnlyForOpenRequest
  <2>1. \A d \in Dispatches : Live(d) => Raised(d) /\ dispatch[d].status \notin TerminalDispatch
        BY DEF Live, LiveDispatch, Raised, TerminalDispatch
  <2>. QED BY <2>1 DEF PairHeldOnlyForOpenRequest, Told, RowsFollow, OpenRows
<1>. QED BY <1>1, AlwaysTold, PTL

------------------------------------------------------------------------------
(* What it says of a step *)

\* The handlers' steps that write a row.
LEMMA WhoWrites ==
    ASSUME OneAtATime, Told, [Next]_vars
    PROVE  \/ UNCHANGED <<request, dispatch, trip>>
           \/ \E w \in Workers :
                 \/ CommitAssign(w) \/ CommitReassign(w) \/ InsertTrip(w) \/ Hop(w) \/ StandDownTx(w)
                 \/ RescheduleWrite(w) \/ Flip(w) \/ TripTx(w) \/ Busy(w) \/ DeclineWrite(w)
                 \/ StartTx(w) \/ CancelTripTx(w) \/ GroundNext(w)
                 \/ \E r \in Requests : CancelRequest(w, r)
                 \/ \E t \in Trips : MobileAccept(w, t) \/ Complete(w, t)
<1>1. CASE UNCHANGED vars
      BY <1>1 DEF vars
<1>2. ASSUME NEW w \in Workers, Call(w)
      PROVE  \/ UNCHANGED <<request, dispatch, trip>>
             \/ \E r \in Requests : CancelRequest(w, r)
             \/ \E t \in Trips : MobileAccept(w, t) \/ Complete(w, t)
  <2>1. {"create", "leave", "editTrip"} \intersect Handlers = {}
        BY DEF OneAtATime
  <2>2. /\ \A driver \in Drivers, covered \in SUBSET Dispatches : ~ApproveLeave(w, driver, covered)
        /\ \A t \in Trips, to \in TripStatus, p \in Pairs, d \in Dispatches : ~EditTrip(w, t, to, p, d)
        BY <2>1 DEF ApproveLeave, EditTrip
  <2>. QED BY <1>2, <2>2
           DEF Call, Assign, Create, Reassign, StandDown, Reschedule, TripStep, Decline, Start,
               CancelTrip, Ground
<1>3. ASSUME NEW w \in Workers, Step(w)
      PROVE  \/ UNCHANGED <<request, dispatch, trip>>
             \/ CommitAssign(w) \/ CommitReassign(w) \/ InsertTrip(w) \/ Hop(w) \/ StandDownTx(w)
             \/ RescheduleWrite(w) \/ Flip(w) \/ TripTx(w) \/ Busy(w) \/ DeclineWrite(w)
             \/ StartTx(w) \/ CancelTripTx(w) \/ GroundNext(w)
      BY <1>3, NoCommitCreate DEF Step, Screen, Gate, Evidence, Refused, EnsureTrip, Load, FlipRead
<1>. QED BY <1>1, <1>2, <1>3 DEF Next, Crash

\* A Completed trip is set by no step: who sets the status of a trip found it
\* open when the handler began.
LEMMA CompletedTripStays ==
    ASSUME OneAtATime, Known, Told, [Next]_vars,
           NEW t \in Trips, trip[t].status = "Completed"
    PROVE  trip'[t].status = "Completed"
<1>1. ASSUME NEW u \in Trips, NEW status, SetTrip(u, status), trip[u].status # "Completed"
      PROVE  trip'[t].status = "Completed"
      BY <1>1 DEF SetTrip, Known, TypeOK
<1>2. ASSUME NEW ds, CancelOpenTrips(ds) PROVE trip'[t].status = "Completed"
  <2>1. ~OpenTrip(t)
        BY DEF OpenTrip, TerminalTrip
  <2>. QED BY <1>2, <2>1 DEF CancelOpenTrips
<1>. SUFFICES ASSUME trip' # trip PROVE trip'[t].status = "Completed"
     OBVIOUS
<1>3. ASSUME NEW w \in Workers, InsertTrip(w) PROVE trip'[t].status = "Completed"
      BY <1>3 DEF InsertTrip, FreshTrips, Known, TypeOK
<1>4. ASSUME NEW w \in Workers, StandDownTx(w) \/ GroundNext(w) PROVE trip'[t].status = "Completed"
      BY <1>2, <1>4 DEF StandDownTx, GroundNext
<1>5. ASSUME NEW w \in Workers, TripTx(w) PROVE trip'[t].status = "Completed"
  <2>1. Driving(job[w]) /\ job[w].trip \in Trips /\ job[w].to \in DriverSteps
        BY <1>5, WhoIsWhere DEF TripTx, At, Told, Driving, OnTrip
  <2>2. CanTransitionTrip(trip[job[w].trip].status, job[w].to) => trip[job[w].trip].status # "Completed"
        BY <2>1, StepsAfterStart DEF TerminalTrip
  <2>. QED BY <1>1, <1>5, <2>1, <2>2 DEF TripTx
<1>6. ASSUME NEW w \in Workers, DeclineWrite(w) PROVE trip'[t].status = "Completed"
  <2>1. job[w].trip \in Trips /\ trip[job[w].trip].status # "Completed"
        BY <1>6, WhoIsWhere DEF DeclineWrite, At, Told, Declining, OnTrip
  <2>. QED BY <1>1, <1>6, <2>1 DEF DeclineWrite
<1>7. ASSUME NEW w \in Workers, StartTx(w) PROVE trip'[t].status = "Completed"
  <2>1. job[w].trip \in Trips /\ trip[job[w].trip].status # "Completed"
        BY <1>7, WhoIsWhere DEF StartTx, At, Told, Starting, OnTrip, CanTransitionTrip, TerminalTrip
  <2>. QED BY <1>1, <1>7, <2>1 DEF StartTx
<1>8. ASSUME NEW w \in Workers, CancelTripTx(w) PROVE trip'[t].status = "Completed"
  <2>1. job[w].trip \in Trips /\ trip[job[w].trip].status # "Completed"
        BY <1>8, WhoIsWhere
           DEF CancelTripTx, At, Told, Cancelling, ToGoal, OnTrip, OpenTrip, TerminalTrip
  <2>. QED BY <1>1, <1>8, <2>1 DEF CancelTripTx
<1>9. ASSUME NEW w \in Workers, NEW r \in Requests, CancelRequest(w, r)
      PROVE  trip'[t].status = "Completed"
      BY <1>2, <1>9 DEF CancelRequest
<1>10. ASSUME NEW w \in Workers, NEW u \in Trips, MobileAccept(w, u) \/ Complete(w, u)
       PROVE  trip'[t].status = "Completed"
  <2>1. trip[u].status # "Completed"
        BY <1>10 DEF MobileAccept, Complete, OpenTrip, CanTransitionTrip, TerminalTrip
  <2>. QED BY <1>1, <1>10, <2>1 DEF MobileAccept, Complete
<1>. QED BY <1>3, <1>4, <1>5, <1>6, <1>7, <1>8, <1>9, <1>10, WhoWrites
         DEF CommitAssign, CommitReassign, Hop, RescheduleWrite, Flip, Busy

\* A dispatch that ended is revived by no step: who writes another status found
\* it open, or finds its trip open, when the handler began.
LEMMA TerminalDispatchStays ==
    ASSUME OneAtATime, Known, Told, [Next]_vars,
           NEW d \in Dispatches, dispatch[d].status \in TerminalDispatch
    PROVE  dispatch'[d].status = dispatch[d].status
<1>1. ASSUME NEW e \in Dispatches, NEW row, WriteDispatch(e, row),
             e # d \/ row.status = dispatch[d].status
      PROVE  dispatch'[d].status = dispatch[d].status
      BY <1>1 DEF WriteDispatch, Known, TypeOK
<1>2. \A t \in Trips : OpenTrip(t) => trip[t].dispatch \in Dispatches /\ trip[t].dispatch # d
      BY DEF Told, RowsFollow, TripsFollow, Known, TypeOK, OpenTrip
<1>. SUFFICES ASSUME dispatch' # dispatch PROVE dispatch'[d].status = dispatch[d].status
     OBVIOUS
<1>3. ASSUME NEW w \in Workers, CommitAssign(w) PROVE dispatch'[d].status = dispatch[d].status
  <2>1. PICK e \in Dispatches : DispatchFor(job[w], e)
        BY <1>3 DEF CommitAssign
  <2>2. CASE DispatchesOf(job[w].request) = {}
    <3>1. e # d /\ WriteDispatch(e, NewDispatch(job[w]))
          BY <2>1, <2>2 DEF DispatchFor, FreshDispatches, Raised, TerminalDispatch
    <3>. QED BY <1>1, <3>1
  <2>3. CASE DispatchesOf(job[w].request) # {}
    <3>. DEFINE row == [dispatch[e] EXCEPT !.pair = job[w].pair, !.window = job[w].window]
    <3>1. WriteDispatch(e, row)
          BY <2>1, <2>3 DEF DispatchFor
    <3>2. row.status = dispatch[e].status
          BY DEF Known, TypeOK, DispatchRow
    <3>. HIDE DEF row
    <3>. QED BY <1>1, <3>1, <3>2
  <2>. QED BY <2>2, <2>3
<1>4. ASSUME NEW w \in Workers, CommitReassign(w) PROVE dispatch'[d].status = dispatch[d].status
  <2>1. PICK e \in Dispatches : e = job[w].dispatch
        BY <1>4 DEF CommitReassign, Known, TypeOK, WellFormed
  <2>. DEFINE row == [dispatch[e] EXCEPT !.pair = job[w].pair, !.window = job[w].window]
  <2>2. WriteDispatch(e, row)
        BY <1>4, <2>1 DEF CommitReassign
  <2>3. row.status = dispatch[e].status
        BY DEF Known, TypeOK, DispatchRow
  <2>. HIDE DEF row
  <2>. QED BY <1>1, <2>2, <2>3
<1>5. ASSUME NEW w \in Workers, StandDownTx(w) PROVE dispatch'[d].status = dispatch[d].status
  <2>1. PICK e \in Dispatches : e = job[w].dispatch
        BY <1>5, WhoIsWhere DEF StandDownTx, At, Told, StandingDown
  <2>. DEFINE row == [dispatch[e] EXCEPT !.status = "Cancelled"]
  <2>2. WriteDispatch(e, row) /\ CanTransitionDispatch(dispatch[e].status, "Cancelled")
        BY <1>5, <2>1 DEF StandDownTx
  <2>3. row.status = "Cancelled"
        BY DEF Known, TypeOK, DispatchRow
  <2>. HIDE DEF row
  <2>4. e # d \/ dispatch[d].status = "Cancelled"
        BY <2>2 DEF CanTransitionDispatch, DispatchNext, TerminalDispatch
  <2>. QED BY <1>1, <2>2, <2>3, <2>4
<1>6. ASSUME NEW w \in Workers, Flip(w) \/ Busy(w) PROVE dispatch'[d].status = dispatch[d].status
  <2>1. PICK e \in Dispatches : e = job[w].dispatch /\ e # d
    <3>1. job[w].dispatch \in Dispatches
      <4>1. CASE Flip(w)
            BY <4>1 DEF Flip, At, Known, TypeOK, WellFormed
      <4>2. CASE Busy(w)
            BY <4>2, WhoIsWhere, OnTripHasRows DEF Busy, At, Told, Driving
      <4>. QED BY <1>6, <4>1, <4>2
    <3>2. CASE Flip(w)
          BY <3>1, <3>2, WhoIsWhere
             DEF Flip, At, Told, Reassigning, Grounding, Ensuring, TerminalDispatch
    <3>3. CASE Busy(w)
          BY <3>1, <3>3, WhoIsWhere DEF Busy, At, Told, Driving, TerminalDispatch
    <3>. QED BY <1>6, <3>2, <3>3
  <2>2. \E row : WriteDispatch(e, row)
        BY <1>6, <2>1 DEF Flip, Busy
  <2>. QED BY <1>1, <2>1, <2>2
<1>7. ASSUME NEW w \in Workers, StartTx(w) \/ CancelTripTx(w)
      PROVE  dispatch'[d].status = dispatch[d].status
  <2>1. PICK e \in Dispatches : e = job[w].dispatch /\ e # d
    <3>1. CASE StartTx(w)
      <4>1. Starting(job[w])
            BY <3>1, WhoIsWhere DEF StartTx, At, Told
      <4>2. OpenTrip(job[w].trip) /\ trip[job[w].trip].dispatch = job[w].dispatch /\ job[w].trip \in Trips
            BY <3>1, <4>1 DEF StartTx, Starting, OnTrip, CanTransitionTrip, OpenTrip, TerminalTrip
      <4>. QED BY <1>2, <4>2
    <3>2. CASE CancelTripTx(w)
      <4>1. Cancelling(job[w])
            BY <3>2, WhoIsWhere DEF CancelTripTx, At, Told
      <4>2. OpenTrip(job[w].trip) /\ trip[job[w].trip].dispatch = job[w].dispatch /\ job[w].trip \in Trips
            BY <3>2, <4>1 DEF CancelTripTx, At, Cancelling, OnTrip, ToGoal
      <4>. QED BY <1>2, <4>2
    <3>. QED BY <1>7, <3>1, <3>2
  <2>2. \E row : WriteDispatch(e, row)
        BY <1>7, <2>1 DEF StartTx, CancelTripTx
  <2>. QED BY <1>1, <2>1, <2>2
<1>8. ASSUME NEW w \in Workers, NEW t \in Trips, Complete(w, t)
      PROVE  dispatch'[d].status = dispatch[d].status
      BY <1>1, <1>2, <1>8 DEF Complete
<1>9. ASSUME NEW w \in Workers, GroundNext(w) PROVE dispatch'[d].status = dispatch[d].status
  <2>1. PICK hit \in job[w].todo : hit[2] = "In Progress" /\ \E row : WriteDispatch(hit[1], row)
        BY <1>9 DEF GroundNext
  <2>2. hit[1] \in Dispatches /\ dispatch[hit[1]].status = hit[2]
    <3>1. job[w].todo \subseteq Dispatches \X LiveDispatch
          BY DEF Known, TypeOK, Job
    <3>2. \A h \in job[w].todo : dispatch[h[1]].status = h[2]
          BY <1>9, WhoIsWhere DEF GroundNext, At, Told, Grounding
    <3>. QED BY <3>1, <3>2
  <2>. QED BY <1>1, <2>1, <2>2 DEF TerminalDispatch
<1>10. ASSUME NEW w \in Workers, NEW r \in Requests, CancelRequest(w, r)
       PROVE  dispatch'[d].status = dispatch[d].status
       BY <1>10 DEF CancelRequest
<1>. QED BY <1>3, <1>4, <1>5, <1>6, <1>7, <1>8, <1>9, <1>10, WhoWrites
         DEF InsertTrip, Hop, RescheduleWrite, TripTx, DeclineWrite, MobileAccept

\* One request at a time moves, and by a legal hop: along the chain it was given,
\* back to Scheduled from where it stands, or out.
LEMMA RequestHops ==
    ASSUME OneAtATime, Known, Told, [Next]_vars, request' # request
    PROVE  \E r \in Requests :
              /\ CanTransitionReservation(request[r].status, request'[r].status)
              /\ \A q \in Requests : q # r => request'[q].status = request[q].status
<1>1. ASSUME NEW r \in Requests, NEW path \in Seq(ReservationStatus), NEW to,
             path = <<>> \/ Chain(request[r].status, path, to),
             request'[r].status = IF path = <<>> THEN request[r].status ELSE path[1]
      PROVE  CanTransitionReservation(request[r].status, request'[r].status)
      BY <1>1 DEF Chain, CanTransitionReservation
<1>2. ASSUME NEW w \in Workers, CommitAssign(w) \/ Hop(w)
      PROVE  \E r \in Requests :
                /\ CanTransitionReservation(request[r].status, request'[r].status)
                /\ \A q \in Requests : q # r => request'[q].status = request[q].status
  <2>1. /\ job[w].request \in Requests
        /\ job[w].path = <<>> \/ Chain(request[job[w].request].status, job[w].path, job[w].goal)
    <3>1. CASE CommitAssign(w)
      <4>1. Assigning(job[w])
            BY <3>1, WhoIsWhere DEF CommitAssign, At, Told, Reassigning
      <4>. QED BY <3>1, <4>1 DEF CommitAssign, At, Assigning, Ensuring
    <3>2. CASE Hop(w)
      <4>1. Assigning(job[w]) \/ Starting(job[w]) \/ Completing(job[w]) \/ Cancelling(job[w])
            BY <3>2, WhoIsWhere DEF Hop, At, Told
      <4>2. CASE Assigning(job[w])
            BY <3>2, <4>2 DEF Hop, At, Assigning, Ensuring
      <4>3. CASE Starting(job[w]) \/ Completing(job[w]) \/ Cancelling(job[w])
            BY <3>2, <4>3, OnTripHasRows DEF Hop, At, Starting, Completing, Cancelling, ToGoal
      <4>. QED BY <4>1, <4>2, <4>3
    <3>. QED BY <1>2, <3>1, <3>2
  <2>2. job[w].path \in Seq(ReservationStatus)
        BY DEF Known, TypeOK, Job
  <2>3. /\ request'[job[w].request].status
             = IF job[w].path = <<>> THEN request[job[w].request].status ELSE job[w].path[1]
        /\ \A q \in Requests : q # job[w].request => request'[q].status = request[q].status
        BY <1>2, <2>1 DEF CommitAssign, Hop, Known, TypeOK, RequestRow
  <2>. QED BY <1>1, <2>1, <2>2, <2>3
<1>3. ASSUME NEW w \in Workers, StandDownTx(w)
      PROVE  \E r \in Requests :
                /\ CanTransitionReservation(request[r].status, request'[r].status)
                /\ \A q \in Requests : q # r => request'[q].status = request[q].status
  <2>1. PICK r \in Requests : r = dispatch[job[w].dispatch].request
        BY <1>3, WhoIsWhere DEF StandDownTx, At, Told, StandingDown, RowsFollow, OpenRows
  <2>2. /\ request[r].status \notin TerminalReservation /\ request'[r].status = "Scheduled"
        /\ \A q \in Requests : q # r => request'[q].status = request[q].status
        BY SMTT(30), <1>3, <2>1 DEF StandDownTx, Known, TypeOK, RequestRow
  <2>3. request[r].status \in ReservationStatus \ TerminalReservation
        BY <2>2 DEF Known, TypeOK, RequestRow
  <2>4. CanTransitionReservation(request[r].status, "Scheduled")
        BY <2>3
           DEF ReservationStatus, TerminalReservation, CanTransitionReservation, ReservationNext
  <2>. QED BY <2>2, <2>4
<1>4. ASSUME NEW w \in Workers, GroundNext(w)
      PROVE  \E r \in Requests :
                /\ CanTransitionReservation(request[r].status, request'[r].status)
                /\ \A q \in Requests : q # r => request'[q].status = request[q].status
  <2>1. PICK hit \in job[w].todo :
           /\ hit[2] = "In Progress"
           /\ request' = [request EXCEPT ![dispatch[hit[1]].request].status = "Scheduled",
                                         ![dispatch[hit[1]].request].pair = NoPair]
        BY <1>4 DEF GroundNext
  <2>2. hit[1] \in Dispatches /\ dispatch[hit[1]].status = "In Progress" /\ Raised(hit[1])
    <3>1. job[w].todo \subseteq Dispatches \X LiveDispatch
          BY DEF Known, TypeOK, Job
    <3>2. \A h \in job[w].todo : dispatch[h[1]].status = h[2]
          BY <1>4, WhoIsWhere DEF GroundNext, At, Told, Grounding
    <3>. QED BY <2>1, <3>1, <3>2 DEF Raised
  <2>3. PICK r \in Requests : r = dispatch[hit[1]].request
        BY <2>2 DEF Told, RowsFollow, OpenRows
  <2>4. request[r].status = "In Progress"
    <3>1. job[w].op = "ground"
          BY <1>4, WhoIsWhere DEF GroundNext, At, Told, Grounding
    <3>2. Agrees(r)
          BY <3>1, AllAgree DEF Advancing
    <3>. QED BY <2>2, <2>3, <3>2, RunningHere DEF Agrees
  <2>5. /\ request'[r].status = "Scheduled"
        /\ \A q \in Requests : q # r => request'[q].status = request[q].status
        BY <2>1, <2>3 DEF Known, TypeOK, RequestRow
  <2>. QED BY <2>4, <2>5 DEF CanTransitionReservation, ReservationNext, TerminalReservation
<1>5. ASSUME NEW w \in Workers, NEW r \in Requests, CancelRequest(w, r)
      PROVE  /\ CanTransitionReservation(request[r].status, request'[r].status)
             /\ \A q \in Requests : q # r => request'[q].status = request[q].status
      BY <1>5 DEF CancelRequest, Known, TypeOK, RequestRow
<1>6. ASSUME NEW w \in Workers, RescheduleWrite(w)
      PROVE  \E r \in Requests :
                /\ CanTransitionReservation(request[r].status, request'[r].status)
                /\ \A q \in Requests : q # r => request'[q].status = request[q].status
  <2>1. \A q \in Requests : request'[q].status = request[q].status
        BY <1>6 DEF RescheduleWrite, Known, TypeOK, RequestRow
  <2>2. Requests # {}
        BY <1>6 DEF RescheduleWrite, Known, TypeOK
  <2>. QED BY <2>1, <2>2 DEF CanTransitionReservation
<1>. QED BY <1>2, <1>3, <1>4, <1>5, <1>6, WhoWrites
         DEF CommitReassign, InsertTrip, Flip, TripTx, Busy, DeclineWrite, StartTx, CancelTripTx,
             MobileAccept, Complete

------------------------------------------------------------------------------
(* What it says of every behaviour *)

\* A Completed trip stays Completed, while handlers run one at a time.
THEOREM CompletedTripLockedHolds ==
    ASSUME OneAtATime PROVE Spec => CompletedTripLocked
<1>1. Known /\ Told /\ [Next]_vars
         => [\A t \in Trips : trip[t].status = "Completed" => trip'[t].status = "Completed"]_vars
      BY CompletedTripStays
<1>. QED BY <1>1, AlwaysTold, PTL DEF Spec, CompletedTripLocked

\* A Completed or Cancelled dispatch keeps its status.
THEOREM DispatchTerminalLockedHolds ==
    ASSUME OneAtATime PROVE Spec => DispatchTerminalLocked
<1>1. Known /\ Told /\ [Next]_vars
         => [\A d \in Dispatches : dispatch[d].status \in TerminalDispatch
                                     => dispatch'[d].status = dispatch[d].status]_vars
      BY TerminalDispatchStays
<1>. QED BY <1>1, AlwaysTold, PTL DEF Spec, DispatchTerminalLocked

\* The lifecycle implements the machine Booking was promised: every request
\* begins Pending and moves along the adjacency map, never out of an end.
THEOREM ReservationSpecHolds ==
    ASSUME OneAtATime PROVE Spec => ReservationSpec
<1>. DEFINE status == [r \in Requests |-> request[r].status]
<1>1. Init => Reservation!Init
      BY DEF Init, Reservation!Init
<1>2. Known /\ Known' /\ Told /\ [Next]_vars => [Reservation!Next]_status
  <2>. SUFFICES ASSUME Known, Known', Told, [Next]_vars, status' # status PROVE Reservation!Next
       OBVIOUS
  <2>1. request' # request
        OBVIOUS
  <2>2. PICK r \in Requests :
           /\ CanTransitionReservation(request[r].status, request'[r].status)
           /\ \A q \in Requests : q # r => request'[q].status = request[q].status
        BY <2>1, RequestHops
  <2>3. request'[r].status \in ReservationStatus
        BY DEF Known, TypeOK, RequestRow
  <2>4. status' = [status EXCEPT ![r] = request'[r].status]
        BY <2>2
  <2>5. Reservation!CanTransitionReservation(status[r], request'[r].status)
        BY <2>2 DEF Reservation!CanTransitionReservation, CanTransitionReservation,
                    Reservation!TerminalReservation, TerminalReservation,
                    Reservation!ReservationNext, ReservationNext
  <2>. QED BY <2>3, <2>4, <2>5
           DEF Reservation!Next, Reservation!Hop, Reservation!ReservationStatus, ReservationStatus
<1>. QED BY <1>1, <1>2, AlwaysTold, PTL DEF Spec, ReservationSpec, Reservation!Spec
=============================================================================

---------------------------- MODULE FleetStatus ----------------------------
(***************************************************************************)
(* The three status vocabularies of the fleet system and the adjacency     *)
(* rules that decide which moves between them are legal.                   *)
(*                                                                         *)
(*   src/src/lib/scheduling/reservation-state.js   transportation requests *)
(*   src/src/lib/scheduling/dispatch-state.js      dispatches              *)
(*   src/src/lib/scheduling/trip-state.js          trips                   *)
(*                                                                         *)
(* Legacy ingest trip statuses (Pending .. Dispatched) normalise to        *)
(* Assigned before any driver action; the rows the handlers insert are     *)
(* born Assigned, so a legacy status is met only where an administrator    *)
(* wrote one by hand.                                                      *)
(***************************************************************************)
EXTENDS Naturals, Sequences

------------------------------------------------------------------------------
(* Transportation requests *)

ReservationStatus ==
    {"Pending", "Scheduled", "Assigned", "In Progress", "Completed", "Cancelled"}

TerminalReservation == {"Completed", "Cancelled"}

\* The adjacency map: a linear chain with two release hops back to Scheduled.
ReservationNext ==
    { <<"Pending", "Scheduled">>, <<"Scheduled", "Assigned">>,
      <<"Assigned", "In Progress">>, <<"Assigned", "Scheduled">>,
      <<"In Progress", "Completed">>, <<"In Progress", "Scheduled">> }

ReleaseIntoScheduled == {"Assigned", "In Progress"}

CanTransitionReservation(from, to) ==
    \/ from = to
    \/ /\ from \notin TerminalReservation
       /\ to = "Cancelled" \/ <<from, to>> \in ReservationNext

\* A walk of the search: every hop is in the adjacency map, no status is
\* visited twice, and a release into Scheduled is taken only out of `from`: that
\* is the condition path.length > 1 of the loop.  The comments above it ask for
\* more, that a release is never the leg of a longer walk (ReleaseIsDirect of
\* TransitionSearch).
IsWalk(p) ==
    /\ \A i \in 1..(Len(p) - 1) :
          /\ <<p[i], p[i+1]>> \in ReservationNext
          /\ (p[i] \in ReleaseIntoScheduled /\ p[i+1] = "Scheduled") => i = 1
    /\ \A i, j \in 1..Len(p) : p[i] = p[j] => i = j

MaxWalk == 5    \* a walk of distinct statuses that is not a bare cancellation

AllWalks == UNION { { p \in [1..n -> ReservationStatus] : IsWalk(p) } : n \in 2..MaxWalk }

Walks(from, to) == { p \in AllWalks : p[1] = from /\ p[Len(p)] = to }

NoPath == <<>>

\* Fault: only the terminal statuses are checked.
DirectPath(from, to) ==
    IF from = to THEN <<from>>
    ELSE IF from \in TerminalReservation THEN NoPath ELSE <<from, to>>

\* The chain of statuses a request is walked through, `from` and `to`
\* included, or NoPath.  The search is breadth first, so it is a shortest walk.
TransitionPath(from, to) ==
    IF from = to THEN <<from>>
    ELSE IF from \in TerminalReservation THEN NoPath
    ELSE IF to = "Cancelled" THEN <<from, to>>
    ELSE IF Walks(from, to) = {} THEN NoPath
    ELSE CHOOSE p \in Walks(from, to) : \A q \in Walks(from, to) : Len(p) <= Len(q)

------------------------------------------------------------------------------
(* Dispatches *)

DispatchStatus ==
    {"Scheduled", "In Progress", "Pending Reassignment", "Completed", "Cancelled"}

TerminalDispatch == {"Completed", "Cancelled"}

\* The statuses in which a dispatch holds its vehicle and its driver.
LiveDispatch == {"Scheduled", "In Progress"}

DispatchNext ==
    { <<"Scheduled", "In Progress">>, <<"Scheduled", "Pending Reassignment">>,
      <<"Scheduled", "Cancelled">>,
      <<"Pending Reassignment", "Scheduled">>, <<"Pending Reassignment", "Cancelled">>,
      <<"In Progress", "Completed">>, <<"In Progress", "Pending Reassignment">>,
      <<"In Progress", "Cancelled">> }

CanTransitionDispatch(from, to) == from = to \/ <<from, to>> \in DispatchNext

------------------------------------------------------------------------------
(* Trips *)

LegacyTrip == {"Pending", "Approved", "Vehicle Assigned", "Driver Assigned", "Dispatched"}

TripStatus ==
    LegacyTrip \union
    { "Assigned", "Driver Accepted", "Trip Started", "At Pickup", "Passenger Onboard",
      "En Route", "Drop-off", "Arrived", "In Progress", "Completed", "Cancelled" }

TerminalTrip == {"Completed", "Cancelled"}

TripNext ==
    { <<"Pending", "Approved">>, <<"Approved", "Vehicle Assigned">>,
      <<"Vehicle Assigned", "Driver Assigned">>, <<"Driver Assigned", "Dispatched">> }
    \union (LegacyTrip \X {"Assigned"})
    \union
    { <<"Assigned", "Driver Accepted">>, <<"Driver Accepted", "Trip Started">>,
      <<"Trip Started", "At Pickup">>, <<"Trip Started", "In Progress">>,
      <<"At Pickup", "Passenger Onboard">>, <<"At Pickup", "In Progress">>,
      <<"Passenger Onboard", "En Route">>, <<"Passenger Onboard", "In Progress">>,
      <<"En Route", "Drop-off">>, <<"En Route", "Arrived">>,
      <<"Drop-off", "Completed">>, <<"Arrived", "Drop-off">>, <<"Arrived", "Completed">> }
    \union ({"In Progress"} \X {"At Pickup", "Passenger Onboard", "En Route", "Drop-off", "Arrived"})

CanTransitionTrip(from, to) ==
    \/ from = to
    \/ /\ from \notin TerminalTrip
       /\ to = "Cancelled" \/ <<from, to>> \in TripNext

\* The driver actions that also push the dispatch and the request to In Progress:
\* the routes at-pickup, onboard, enroute and dropoff call setTripStatus with busy.
BusyTrip == {"At Pickup", "Passenger Onboard", "En Route", "Drop-off"}
=============================================================================

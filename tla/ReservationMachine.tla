------------------------- MODULE ReservationMachine -------------------------
(***************************************************************************)
(* What the lifecycle promises Booking about a transportation request: its *)
(* status moves along the adjacency map, one legal hop at a time, and is   *)
(* locked once terminal.                                                   *)
(*                                                                         *)
(* src/src/lib/scheduling/reservation-state.js, canTransitionReservation.  *)
(***************************************************************************)
EXTENDS FleetStatus

CONSTANT Requests

VARIABLE status     \* the fleet_status of each request

Init == status = [r \in Requests |-> "Pending"]

Hop(r) ==
    \E to \in ReservationStatus :
        /\ CanTransitionReservation(status[r], to)
        /\ status' = [status EXCEPT ![r] = to]

Next == \E r \in Requests : Hop(r)

Spec == Init /\ [][Next]_status
=============================================================================

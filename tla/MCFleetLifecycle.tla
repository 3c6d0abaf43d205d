-------------------------- MODULE MCFleetLifecycle --------------------------
(***************************************************************************)
(* Instances of FleetLifecycle for TLC.                                    *)
(***************************************************************************)
EXTENDS FleetLifecycle, TLC

CONSTANTS v1, v2, d1, d2, w1, w2, r1, r2

OnePair == {<<v1, d1>>}
TwoPairs == {<<v1, d1>>, <<v2, d2>>}

OneWindow == {<<1, 3>>}
\* Two windows that overlap, and a third that overlaps one and touches the other.
OverlappingWindows == {<<1, 3>>, <<2, 4>>}
ThreeWindows == {<<1, 3>>, <<2, 4>>, <<3, 5>>}

AllButEdits == HandlerNames \ {"editTrip"}
AllButCreateLeaveAndEdits == AllButEdits \ {"create", "leave"}
AllButCreateLeaveGroundAndEdits == AllButCreateLeaveAndEdits \ {"ground"}
TripHandlers ==
    { "assign", "standDown", "reassign", "mobileAccept", "decline", "start", "tripStep", "complete",
      "cancelTrip", "editTrip" }
RivalHandlers ==
    { "create", "standDown", "mobileAccept", "start", "tripStep", "complete", "cancelTrip" }

WorkerSymmetry == Permutations(Workers)
\* The two pairs are exchanged as a whole.
WorkerPairSymmetry == WorkerSymmetry \union {v1 :> v2 @@ v2 :> v1 @@ d1 :> d2 @@ d2 :> d1}
WorkerRequestSymmetry == WorkerSymmetry \union Permutations(Requests)

\* The abstract machine, on the statuses of the detailed model.
Reservation == INSTANCE ReservationMachine WITH status <- [r \in Requests |-> request[r].status]
ReservationSpec == Reservation!Spec
=============================================================================

-------------------------- MODULE MCBoardAndEdits --------------------------
(***************************************************************************)
(* Three instances of FleetLifecycle that differ in what they serve: in    *)
(* the first, handlers follow each other and the windows overlap and touch;*)
(* in the second, two handlers race for one pair and one window; in the    *)
(* third, an administrator edits a trip beside any other handler.  A       *)
(* behaviour is one of one instance.                                       *)
(***************************************************************************)
EXTENDS MCFleetLifecycle

VARIABLE served   \* the instance: "board", "rivals" or "edits"

Rivals == INSTANCE FleetLifecycle WITH
    Workers <- {w1, w2}, Windows <- OneWindow, Handlers <- RivalHandlers

Edits == INSTANCE FleetLifecycle WITH
    Workers <- {w1, w2}, Windows <- OneWindow, Handlers <- TripHandlers, OdometerPhoto <- TRUE

\* The last instance uses one row of each table.
OneRow == dispatch[2] = NoDispatch /\ trip[2] = NoTrip

EitherInit ==
    (served = "board" /\ Init) \/ (served = "rivals" /\ Rivals!Init) \/ (served = "edits" /\ Edits!Init)

BoardStep == served = "board" /\ Next /\ UNCHANGED served
RivalsStep == served = "rivals" /\ Rivals!Next /\ UNCHANGED served
EditsStep == served = "edits" /\ Edits!Next /\ OneRow' /\ UNCHANGED served

EitherSpec == EitherInit /\ [][BoardStep \/ RivalsStep \/ EditsStep]_<<vars, served>>
=============================================================================

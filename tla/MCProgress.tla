----------------------------- MODULE MCProgress -----------------------------
(***************************************************************************)
(* Three components that share nothing, each of which has something that   *)
(* must end: the delivery of status events, the search of transitionPath,  *)
(* and the transactions behind the overlap trigger.  One of them moves in  *)
(* a behaviour, the others stay where they begin.                          *)
(***************************************************************************)
EXTENDS OutboundDelivery

VARIABLES
    part,                                          \* the component that moves
    from, to, queue, visited, result, pc,          \* TransitionSearch
    board, tx, advisory                            \* DispatchGuard

searchVars == <<from, to, queue, visited, result, pc>>
guardVars == <<board, tx, advisory>>
allVars == <<part, vars, searchVars, guardVars>>

Search == INSTANCE TransitionSearch

CONSTANTS v1, d1, t1, t2, None

OneVehicle == {v1}
OneDriver == {d1}
ItsLocks == ({1} \X OneVehicle) \union ({2} \X OneDriver)

Guard == INSTANCE DispatchGuard WITH
    Vehicles <- OneVehicle, Drivers <- OneDriver, Pairs <- OneVehicle \X OneDriver,
    Dispatches <- {1}, Windows <- {<<1, 3>>}, Txs <- {t1, t2},
    Kinds <- {"assign", "busy", "ground"},
    Keys <- ItsLocks, LockKey <- [r \in ItsLocks |-> r]

SearchAtRest ==
    /\ from = "Pending" /\ to = "Pending" /\ queue = <<>> /\ visited = {}
    /\ result = <<>> /\ pc = "done"

PartsInit ==
    /\ part \in {"outbound", "search", "guard"}
    /\ Init /\ Guard!Init
    /\ IF part = "search" THEN Search!Init ELSE SearchAtRest

OutboundStep ==
    part = "outbound" /\ Next /\ UNCHANGED <<part, searchVars, guardVars>>
SearchStep ==
    part = "search" /\ Search!Next /\ UNCHANGED <<part, vars, guardVars>>
GuardStep ==
    part = "guard" /\ Guard!Next /\ UNCHANGED <<part, vars, searchVars>>

PartsNext == OutboundStep \/ SearchStep \/ GuardStep

\* What is at rest is not enabled, and fairness asks nothing of it.
PartsSpec ==
    PartsInit /\ [][PartsNext]_allVars
    /\ Fairness /\ WF_searchVars(Search!Next) /\ Guard!Fairness

SearchIsTransitionPath == part = "search" => Search!SearchIsTransitionPath
EveryHopIsLegal == Search!EveryHopIsLegal
SearchAgreesWithGate == part = "search" => Search!SearchAgreesWithGate
Terminates == Search!Terminates

EveryTransactionEnds == Guard!EveryTransactionEnds
=============================================================================

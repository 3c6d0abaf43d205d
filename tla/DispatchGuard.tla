---------------------------- MODULE DispatchGuard ----------------------------
(***************************************************************************)
(* The transactions that write dispatchschedules, lock by lock: the table  *)
(* and row locks of each handler in the order it takes them, then the      *)
(* trigger guard_dispatch_overlap, which locks the vehicle, scans the      *)
(* committed rows, locks the driver and scans again.  Locks are held until *)
(* the transaction ends, and its row is visible when it commits.           *)
(* FleetLifecycle takes each of these transactions in one step.            *)
(***************************************************************************)
EXTENDS GuardedBoard, FiniteSets

CONSTANTS
    Txs,        \* database transactions that can be open together
    Kinds,      \* the handlers this instance serves
    Pairs,      \* vehicle and driver pairs dispatchers choose
    Keys,       \* advisory lock keys
    LockKey     \* hashtext('dispatch_veh_' || id), hashtext('dispatch_drv_' || id)

AllKinds == {"assign", "create", "reassign", "start", "complete", "cancelTrip", "standDown",
             "cancelRequest", "ground", "busy", "flip", "leave"}

Lockable == ({1} \X Vehicles) \union ({2} \X Drivers)

ASSUME GuardAssumption ==
    /\ Pairs \subseteq Vehicles \X Drivers
    /\ LockKey \in [Lockable -> Keys]
    /\ Kinds \subseteq AllKinds
    /\ None \notin Txs \union Dispatches

VARIABLES
    tx,         \* what each transaction is doing and the locks it holds
    advisory    \* the transaction that holds each advisory lock

vars == <<board, tx, advisory>>

------------------------------------------------------------------------------
(* Lock footprints *)

\* LOCK TABLE ... IN SHARE ROW EXCLUSIVE MODE takes "SRE", an INSERT or UPDATE
\* takes ROW EXCLUSIVE "RX" on its table and "X" on its rows.
Table(name, mode) == <<"table", name, mode>>
DispatchRowOf(d) == <<"dispatch", d, "X">>
TripRowsOf(d) == <<"trips", d, "X">>
RequestRowOf(d) == <<"request", d, "X">>

\* prepareCargoLifecycle
Prepared == << Table("drivers", "SRE") >>

\* commitDispatchEvidence
Evidence == << Table("drivers", "SRE"), Table("dispatchschedules", "SRE"),
               Table("trips", "SRE"), Table("requests", "SRE") >>

\* Fault: the stand-down does not prepare the cargo lifecycle.
UnpreparedFootprint(kind, d) ==
    CASE kind = "assign" -> Evidence \o << RequestRowOf(d), DispatchRowOf(d) >>
      [] kind \in {"create", "reassign", "start"} -> Evidence \o << DispatchRowOf(d) >>
      [] kind = "complete" ->
           Prepared \o << TripRowsOf(d), DispatchRowOf(d), Table("trips", "RX"),
                          Table("dispatchschedules", "RX") >>
      [] kind = "standDown" ->
           << DispatchRowOf(d), TripRowsOf(d), Table("trips", "RX"),
              Table("dispatchschedules", "RX"), RequestRowOf(d), Table("requests", "RX") >>
      [] OTHER -> << Table("dispatchschedules", "RX"), DispatchRowOf(d) >>

Footprint(kind, d) ==
    CASE kind = "assign" -> Evidence \o << RequestRowOf(d), DispatchRowOf(d) >>
      [] kind \in {"create", "reassign", "start"} -> Evidence \o << DispatchRowOf(d) >>
      [] kind = "complete" ->
           Prepared \o << TripRowsOf(d), DispatchRowOf(d), Table("trips", "RX"),
                          Table("dispatchschedules", "RX") >>
      [] kind = "cancelTrip" ->
           Prepared \o << DispatchRowOf(d), TripRowsOf(d), Table("trips", "RX"),
                          Table("dispatchschedules", "RX") >>
      [] kind = "standDown" ->
           Prepared \o << DispatchRowOf(d), TripRowsOf(d), Table("trips", "RX"),
                          Table("dispatchschedules", "RX"), RequestRowOf(d), Table("requests", "RX") >>
      [] kind = "cancelRequest" ->
           Prepared \o << RequestRowOf(d), DispatchRowOf(d), TripRowsOf(d), Table("trips", "RX"),
                          Table("dispatchschedules", "RX"), Table("requests", "RX") >>
      [] kind = "ground" ->
           << Table("trips", "RX"), TripRowsOf(d), Table("dispatchschedules", "RX"),
              DispatchRowOf(d), Table("requests", "RX"), RequestRowOf(d) >>
      [] kind \in {"busy", "flip", "leave"} ->
           << Table("dispatchschedules", "RX"), DispatchRowOf(d) >>

Locks == ({"table"} \X {"drivers", "dispatchschedules", "trips", "requests"} \X {"SRE", "RX"})
         \union ({"dispatch", "trips", "request"} \X Dispatches \X {"X"})

SameResource(l, m) == l[1] = m[1] /\ l[2] = m[2]
Conflicting(l, m) == SameResource(l, m) /\ ~(l[3] = "RX" /\ m[3] = "RX")

------------------------------------------------------------------------------
(* Transactions *)

Idle == [ kind |-> "none", pc |-> "idle", dispatch |-> None, pair |-> NoPair, window |-> NoWindow,
          to |-> "none", todo |-> <<>>, held |-> {}, row |-> NoRow ]

Tx == [ kind: AllKinds \union {"none"},
        pc: {"idle", "locks", "vehicle", "scanVehicle", "driver", "scanDriver", "commit"},
        dispatch: Dispatches \union {None}, pair: Pairs \union {NoPair},
        window: Windows \union {NoWindow}, to: DispatchStatus \union {"none"},
        todo: Seq(Locks), held: SUBSET Locks, row: Row ]

At(t, step) == tx[t].pc = step

KeyOf(t, resource) == LockKey[<<resource, tx[t].row.pair[resource]>>]
Unlocked(t, resource) == advisory[KeyOf(t, resource)] \in {None, t}

\* The transactions t has to wait for.
Blockers(t) ==
    IF At(t, "locks") /\ tx[t].todo # <<>>
    THEN { u \in Txs \ {t} : \E l \in tx[u].held : Conflicting(l, Head(tx[t].todo)) }
    ELSE IF At(t, "vehicle") /\ tx[t].row.pair[1] # None /\ ~Unlocked(t, 1)
    THEN { advisory[KeyOf(t, 1)] }
    ELSE IF At(t, "driver") /\ tx[t].row.pair[2] # None /\ ~Unlocked(t, 2)
    THEN { advisory[KeyOf(t, 2)] }
    ELSE {}

TypeOK ==
    /\ board \in [Dispatches -> Row]
    /\ tx \in [Txs -> Tx]
    /\ \A t \in Txs : tx[t].pc # "idle" => tx[t].dispatch \in Dispatches
    /\ advisory \in [Keys -> Txs \union {None}]

Init ==
    /\ BoardInit
    /\ tx = [t \in Txs |-> Idle]
    /\ advisory = [k \in Keys |-> None]

Begin(t, kind, d, j) ==
    /\ tx[t] = Idle
    /\ tx' = [tx EXCEPT ![t] = [j EXCEPT !.kind = kind, !.pc = "locks", !.dispatch = d,
                                         !.todo = Footprint(kind, d)]]
    /\ UNCHANGED <<board, advisory>>

\* A pair and a window for a new dispatch, or for one there is.
Reserve(t, kind, d, pair, window) ==
    /\ kind \in {"assign", "create", "reassign"}
    /\ (kind = "create") => board[d].status = "Absent"
    /\ (kind = "reassign") => board[d].status # "Absent"
    /\ Begin(t, kind, d, [Idle EXCEPT !.pair = pair, !.window = window])

\* The status each handler writes to the dispatch.
Targets(kind, status) ==
    CASE kind \in {"start", "busy"} -> {"In Progress"}
      [] kind = "complete" -> {"Completed"}
      [] kind \in {"cancelTrip", "standDown", "cancelRequest"} -> {"Cancelled"}
      [] kind = "ground" -> { to \in {"Pending Reassignment"} : status = "In Progress" }
      [] kind = "leave" -> {"Pending Reassignment"}
      [] kind = "flip" -> { to \in {"Scheduled", "Pending Reassignment"} :
                            CanTransitionDispatch(status, to) }
      [] OTHER -> {}

\* A status for a dispatch there is.  Only the flip looks at the dispatch first,
\* and grounding picks the dispatches that run.
Move(t, kind, d, to) ==
    /\ board[d].status # "Absent"
    /\ Begin(t, kind, d, [Idle EXCEPT !.to = to])

\* The next lock of the footprint, when nobody holds it against t.
Lock(t) ==
    /\ At(t, "locks") /\ tx[t].todo # <<>> /\ Blockers(t) = {}
    /\ tx' = [tx EXCEPT ![t].held = @ \union {Head(tx[t].todo)}, ![t].todo = Tail(@)]
    /\ UNCHANGED <<board, advisory>>

\* What the handler finds in the row it has locked.
Applies(j) ==
    LET old == board[j.dispatch] IN
    CASE j.kind = "create" -> old.status = "Absent"
      [] j.kind \in {"standDown", "cancelRequest"} -> CanTransitionDispatch(old.status, "Cancelled")
      [] j.kind = "leave" -> Live(old)
      [] OTHER -> TRUE

\* Fault: a reassignment writes the status of its request body, which has none.
NewRowAsAsked(j) ==
    LET old == board[j.dispatch] IN
    IF j.kind \in {"assign", "create"}
    THEN [ status |-> IF old.status = "Absent" THEN "Scheduled" ELSE old.status,
           pair |-> j.pair, window |-> j.window ]
    ELSE [old EXCEPT !.status = j.to]

\* NEW, from the row as it is now.
NewRow(j) ==
    LET old == board[j.dispatch] IN
    CASE j.kind \in {"assign", "create", "reassign"} ->
           [ status |-> IF old.status = "Absent" THEN "Scheduled" ELSE old.status,
             pair |-> j.pair, window |-> j.window ]
      [] j.kind = "ground" -> [old EXCEPT !.status = j.to, !.pair = NoPair]
      [] j.kind = "leave" -> [old EXCEPT !.status = j.to, !.pair = <<old.pair[1], None>>]
      [] OTHER -> [old EXCEPT !.status = j.to]

\* The trigger fires; it lets a row that is not live pass.
Fire(t) ==
    LET row == NewRow(tx[t]) IN
    /\ At(t, "locks") /\ tx[t].todo = <<>> /\ Applies(tx[t])
    /\ tx' = [tx EXCEPT ![t].row = row, ![t].pc = IF Live(row) THEN "vehicle" ELSE "commit"]
    /\ UNCHANGED <<board, advisory>>

\* Fault: the scan is not protected by the vehicle's lock.
LockVehicleNever(t) ==
    /\ At(t, "vehicle")
    /\ tx' = [tx EXCEPT ![t].pc = IF tx[t].row.pair[1] = None THEN "driver" ELSE "scanVehicle"]
    /\ UNCHANGED <<board, advisory>>

\* pg_advisory_xact_lock(hashtext('dispatch_veh_' || vehicle_id))
LockVehicle(t) ==
    /\ At(t, "vehicle")
    /\ \/ /\ tx[t].row.pair[1] = None
          /\ tx' = [tx EXCEPT ![t].pc = "driver"] /\ UNCHANGED advisory
       \/ /\ tx[t].row.pair[1] # None /\ Unlocked(t, 1)
          /\ advisory' = [advisory EXCEPT ![KeyOf(t, 1)] = t]
          /\ tx' = [tx EXCEPT ![t].pc = "scanVehicle"]
    /\ UNCHANGED board

ScanVehicle(t) ==
    /\ At(t, "scanVehicle") /\ Free(tx[t].dispatch, tx[t].row, 1)
    /\ tx' = [tx EXCEPT ![t].pc = "driver"]
    /\ UNCHANGED <<board, advisory>>

LockDriver(t) ==
    /\ At(t, "driver")
    /\ \/ /\ tx[t].row.pair[2] = None
          /\ tx' = [tx EXCEPT ![t].pc = "commit"] /\ UNCHANGED advisory
       \/ /\ tx[t].row.pair[2] # None /\ Unlocked(t, 2)
          /\ advisory' = [advisory EXCEPT ![KeyOf(t, 2)] = t]
          /\ tx' = [tx EXCEPT ![t].pc = "scanDriver"]
    /\ UNCHANGED board

\* Fault: the second scan looks for the vehicle again.
ScanDriverForVehicle(t) ==
    /\ At(t, "scanDriver") /\ Free(tx[t].dispatch, tx[t].row, 1)
    /\ tx' = [tx EXCEPT ![t].pc = "commit"]
    /\ UNCHANGED <<board, advisory>>

ScanDriver(t) ==
    /\ At(t, "scanDriver") /\ Free(tx[t].dispatch, tx[t].row, 2)
    /\ tx' = [tx EXCEPT ![t].pc = "commit"]
    /\ UNCHANGED <<board, advisory>>

\* Fault: a session lock (pg_advisory_lock), which outlives the transaction.
EndKeepingLocks(t) ==
    tx' = [tx EXCEPT ![t] = Idle] /\ UNCHANGED advisory

\* However it ends, a transaction gives back all of its locks.
End(t) ==
    /\ tx' = [tx EXCEPT ![t] = Idle]
    /\ advisory' = [k \in Keys |-> IF advisory[k] = t THEN None ELSE advisory[k]]

Commit(t) ==
    /\ At(t, "commit")
    /\ board' = [board EXCEPT ![tx[t].dispatch] = tx[t].row]
    /\ End(t)

\* The handler gives up, or the trigger raises: the transaction rolls back.
Refuse(t) ==
    /\ \/ At(t, "locks") /\ tx[t].todo = <<>> /\ ~Applies(tx[t])
       \/ At(t, "scanVehicle") /\ ~Free(tx[t].dispatch, tx[t].row, 1)
       \/ At(t, "scanDriver") /\ ~Free(tx[t].dispatch, tx[t].row, 2)
    /\ End(t) /\ UNCHANGED board

\* A stale token, another failing statement, a lost connection.
Fail(t) == tx[t].pc # "idle" /\ End(t) /\ UNCHANGED board

Waiting(S) == S # {} /\ \A t \in S : Blockers(t) \intersect S # {}
Deadlocked(S) == Waiting(S) /\ \A R \in SUBSET S : Waiting(R) => R = S

\* PostgreSQL ends one transaction of a cycle.
BreakDeadlock ==
    \E S \in SUBSET Txs : Deadlocked(S) /\ \E t \in S : End(t) /\ UNCHANGED board

Step(t) ==
    \/ Lock(t) \/ Fire(t) \/ LockVehicle(t) \/ ScanVehicle(t)
    \/ LockDriver(t) \/ ScanDriver(t) \/ Commit(t) \/ Refuse(t)

Next ==
    \/ \E t \in { u \in Txs : tx[u] = Idle }, kind \in Kinds, d \in Dispatches :
          \/ \E pair \in Pairs, window \in Windows : Reserve(t, kind, d, pair, window)
          \/ \E to \in Targets(kind, board[d].status) : Move(t, kind, d, to)
    \/ \E t \in Txs : Step(t) \/ Fail(t)
    \/ BreakDeadlock

Spec == Init /\ [][Next]_vars

\* A statement that can run does, a lock is granted to the one who waits for it
\* when it comes free again and again, and the deadlock detector runs.
Fairness == (\A t \in Txs : SF_vars(Step(t))) /\ WF_vars(BreakDeadlock)

FairSpec == Spec /\ Fairness

------------------------------------------------------------------------------
(* Properties *)

\* Every commit is a guarded write of the abstract board at the moment it
\* becomes visible, although the trigger scanned some steps earlier.
GuardIsAtomic == BoardSpec

\* Handlers take their locks in one order, evidence and prepared transactions
\* first on the table drivers: only grounding, which does not, can close a cycle
\* of waiting transactions (where no vehicle's advisory key equals a driver's).
OnlyGroundingDeadlocks ==
    \A S \in SUBSET Txs : Deadlocked(S) => \E t \in S : tx[t].kind = "ground"

\* Every transaction ends, so that nobody keeps a vehicle's lock for ever.
EveryTransactionEnds == \A t \in Txs : (tx[t].pc # "idle") ~> (tx[t].pc = "idle")
=============================================================================

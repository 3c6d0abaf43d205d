---------------------------- MODULE GuardedBoard ----------------------------
(***************************************************************************)
(* What the trigger guard_dispatch_overlap promises of the table           *)
(* dispatchschedules: rows change one at a time, and a row is only written *)
(* when no other live row shares its vehicle or its driver in an           *)
(* overlapping window at that very moment.                                 *)
(***************************************************************************)
EXTENDS FleetStatus

CONSTANTS Vehicles, Drivers, Windows, Dispatches, None

ASSUME BoardAssumption ==
    /\ None \notin Vehicles \union Drivers
    /\ Windows \subseteq Nat \X Nat

VARIABLE board    \* the committed rows of dispatchschedules

MaybePair == (Vehicles \union {None}) \X (Drivers \union {None})
NoPair == <<None, None>>
NoWindow == <<0, 0>>

Row == [status: DispatchStatus \union {"Absent"}, pair: MaybePair, window: Windows \union {NoWindow}]
NoRow == [status |-> "Absent", pair |-> NoPair, window |-> NoWindow]

Live(row) == row.status \in LiveDispatch
Overlaps(w1, w2) == w1[1] < w2[2] /\ w2[1] < w1[2]

\* Rows other than d that hold the same resource (1 the vehicle, 2 the driver).
Rivals(d, row, resource) ==
    { e \in Dispatches \ {d} : /\ Live(board[e])
                               /\ board[e].pair[resource] = row.pair[resource]
                               /\ Overlaps(board[e].window, row.window) }

Free(d, row, resource) == row.pair[resource] # None => Rivals(d, row, resource) = {}

Guard(d, row) == Live(row) => Free(d, row, 1) /\ Free(d, row, 2)

BoardInit == board = [d \in Dispatches |-> NoRow]

\* One row changes, and the row it becomes passes the guard.
Book == \E d \in Dispatches :
    /\ board' \in [Dispatches -> Row]
    /\ \A e \in Dispatches \ {d} : board'[e] = board[e]
    /\ Guard(d, board'[d])

BoardSpec == BoardInit /\ [][Book]_board

\* No vehicle and no driver is held by two live dispatches in overlapping windows.
NobodyHeldTwice ==
    \A d, e \in Dispatches :
       (d # e /\ Live(board[d]) /\ Live(board[e]) /\ Overlaps(board[d].window, board[e].window))
         => \A i \in {1, 2} : board[d].pair[i] # None => board[d].pair[i] # board[e].pair[i]
=============================================================================

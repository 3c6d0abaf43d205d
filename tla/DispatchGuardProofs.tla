------------------------- MODULE DispatchGuardProofs -------------------------
(***************************************************************************)
(* The trigger's two advisory locks make its scans atomic: for every       *)
(* number of transactions, dispatches, vehicles, drivers and lock keys,    *)
(* colliding keys included, nobody is held twice and the detailed          *)
(* transactions implement the abstract guarded board.                      *)
(*                                                                         *)
(* The inductive invariant says what a transaction that has scanned knows: *)
(* it holds the key of what it scanned, and the scan still is true.        *)
(* Handlers queue for their locks in one order, so only grounding, which   *)
(* does not, can close a cycle of waits.                                   *)
(***************************************************************************)
EXTENDS DispatchGuard, SequenceTheorems, TLAPS

------------------------------------------------------------------------------
(* The invariant *)

Reserving == {"assign", "create", "reassign"}

\* A transaction knows the pair and window, or the status, it will write.
Knows(t) ==
    tx[t].pc # "idle" =>
        /\ tx[t].dispatch \in Dispatches
        /\ tx[t].kind \in Reserving => tx[t].pair \in Pairs /\ tx[t].window \in Windows
        /\ tx[t].kind \notin Reserving => tx[t].to \in DispatchStatus

Holds(t, i) == tx[t].row.pair[i] # None => advisory[KeyOf(t, i)] = t
StillFree(t, i) == Free(tx[t].dispatch, tx[t].row, i)

\* What the trigger has established so far.
Protected(t) ==
    /\ tx[t].pc \in {"vehicle", "scanVehicle", "driver", "scanDriver"} => Live(tx[t].row)
    /\ tx[t].pc = "scanVehicle" => Holds(t, 1)
    /\ (tx[t].pc \in {"driver", "scanDriver", "commit"} /\ Live(tx[t].row))
          => Holds(t, 1) /\ StillFree(t, 1)
    /\ tx[t].pc = "scanDriver" => Holds(t, 2)
    /\ (tx[t].pc = "commit" /\ Live(tx[t].row)) => Holds(t, 2) /\ StillFree(t, 2)

GuardInv == TypeOK /\ (\A t \in Txs : Knows(t)) /\ (\A t \in Txs : Protected(t))

------------------------------------------------------------------------------
(* Types *)

\* Every handler locks what can be locked.
LEMMA FootprintType ==
    ASSUME NEW kind, NEW d \in Dispatches, kind \in AllKinds
    PROVE  Footprint(kind, d) \in Seq(Locks)
<1>. DEFINE Tables == {"drivers", "dispatchschedules", "trips", "requests"}
<1>1. \A n \in Tables, m \in {"SRE", "RX"} : Table(n, m) \in Locks
      BY DEF Table, Locks
<1>2. DispatchRowOf(d) \in Locks /\ TripRowsOf(d) \in Locks /\ RequestRowOf(d) \in Locks
      BY DEF DispatchRowOf, TripRowsOf, RequestRowOf, Locks
<1>3. Prepared \in Seq(Locks) /\ Evidence \in Seq(Locks)
      BY <1>1 DEF Prepared, Evidence
<1>4. \A s, u \in Seq(Locks) : s \o u \in Seq(Locks)
      BY ConcatProperties
<1>5. << DispatchRowOf(d) >> \in Seq(Locks)
      BY <1>2
<1>6. CASE kind = "assign"
      BY <1>2, <1>3, <1>4, <1>6 DEF Footprint
<1>7. CASE kind \in {"create", "reassign", "start"}
      BY <1>3, <1>4, <1>5, <1>7 DEF Footprint
<1>8. CASE kind \in {"complete", "cancelTrip"}
      BY <1>1, <1>2, <1>3, <1>4, <1>8 DEF Footprint
<1>9. CASE kind = "standDown"
      BY <1>1, <1>2, <1>3, <1>4, <1>9 DEF Footprint
<1>10. CASE kind = "cancelRequest"
      BY <1>1, <1>2, <1>3, <1>4, <1>10 DEF Footprint
<1>11. CASE kind = "ground"
      BY <1>1, <1>2, <1>11 DEF Footprint
<1>12. CASE kind \in {"busy", "flip", "leave"}
      BY <1>1, <1>2, <1>12 DEF Footprint
<1>. QED BY <1>6, <1>7, <1>8, <1>9, <1>10, <1>11, <1>12 DEF AllKinds

\* The row a transaction is going to write is a row of the table.
LEMMA NewRowType ==
    ASSUME GuardInv, NEW t \in Txs, tx[t].pc # "idle"
    PROVE  NewRow(tx[t]) \in Row
<1>1. board[tx[t].dispatch] \in Row /\ Knows(t)
      BY DEF GuardInv, TypeOK, Knows
<1>2. NoPair \in MaybePair
      BY DEF NoPair, MaybePair
<1>3. \A row \in Row : <<row.pair[1], None>> \in MaybePair
      BY DEF Row, MaybePair
<1>4. CASE tx[t].kind \in Reserving
  <2>1. tx[t].pair \in MaybePair /\ tx[t].window \in Windows
        BY <1>1, <1>4, GuardAssumption DEF Knows, MaybePair
  <2>. QED BY <1>1, <1>4, <2>1 DEF NewRow, Row, Reserving, DispatchStatus
<1>5. CASE tx[t].kind \notin Reserving
  <2>1. tx[t].to \in DispatchStatus
        BY <1>1, <1>5 DEF Knows
  <2>. QED BY <1>1, <1>2, <1>3, <1>5, <2>1 DEF NewRow, Row, Reserving
<1>. QED BY <1>4, <1>5

\* The keys of what a row names exist.
LEMMA KeyType ==
    ASSUME TypeOK, NEW t \in Txs, NEW i \in {1, 2}, tx[t].row.pair[i] # None
    PROVE  KeyOf(t, i) \in Keys
<1>1. tx[t].row.pair \in MaybePair
      BY DEF TypeOK, Tx, Row
<1>2. <<i, tx[t].row.pair[i]>> \in Lockable
      BY <1>1 DEF MaybePair, Lockable
<1>. QED BY <1>2, GuardAssumption DEF KeyOf

------------------------------------------------------------------------------
(* What a step does to the others *)

\* Locks are taken when they are free and given back by their owner.
LocksKept(t) ==
    \A u \in Txs \ {t} : /\ tx'[u] = tx[u]
                         /\ \A k \in Keys : advisory[k] = u => advisory'[k] = u

\* The row of t, or no row, becomes visible.
WritesOwnRow(t) ==
    /\ At(t, "commit") /\ tx[t].dispatch \in Dispatches
    /\ board' = [board EXCEPT ![tx[t].dispatch] = tx[t].row]

\* What another transaction has established survives a step that writes nothing.
LEMMA QuietStepKeepsOthers ==
    ASSUME GuardInv, NEW t \in Txs, LocksKept(t), board' = board, NEW u \in Txs \ {t}
    PROVE  Knows(u)' /\ Protected(u)'
<1>1. tx'[u] = tx[u] /\ \A k \in Keys : advisory[k] = u => advisory'[k] = u
      BY DEF LocksKept
<1>2. \A i \in {1, 2} : Holds(u, i) => Holds(u, i)'
      BY <1>1, KeyType DEF GuardInv, Holds, KeyOf
<1>3. \A i \in {1, 2} : StillFree(u, i) => StillFree(u, i)'
      BY <1>1 DEF StillFree, Free, Rivals, Live
<1>4. Knows(u) /\ Protected(u)
      BY DEF GuardInv
<1>. QED BY <1>1, <1>2, <1>3, <1>4 DEF Knows, Protected, Live

\* Nor does a commit put a rival beside a row that holds its key: the rival's
\* transaction would hold the same key.
LEMMA CommitKeepsScans ==
    ASSUME GuardInv, NEW t \in Txs, WritesOwnRow(t), NEW u \in Txs \ {t}, tx'[u] = tx[u],
           NEW i \in {1, 2}, Holds(u, i), StillFree(u, i)
    PROVE  StillFree(u, i)'
<1>. DEFINE row == tx[u].row
            d == tx[t].dispatch
<1>. SUFFICES ASSUME row.pair[i] # None, NEW e \in Dispatches \ {tx[u].dispatch},
                     Live(board'[e]), board'[e].pair[i] = row.pair[i],
                     Overlaps(board'[e].window, row.window)
              PROVE  FALSE
     BY DEF StillFree, Free, Rivals
<1>1. \A x \in Dispatches : board'[x] = IF x = d THEN tx[t].row ELSE board[x]
      BY DEF WritesOwnRow, GuardInv, TypeOK
<1>2. CASE e # d
      BY <1>1, <1>2 DEF StillFree, Free, Rivals
<1>3. CASE e = d
  <2>1. Live(tx[t].row) /\ tx[t].row.pair[i] = row.pair[i]
        BY <1>1, <1>3
  <2>2. Holds(t, i)
        BY <2>1 DEF WritesOwnRow, At, GuardInv, Protected
  <2>3. advisory[KeyOf(t, i)] = t /\ advisory[KeyOf(u, i)] = u
        BY <2>1, <2>2 DEF Holds
  <2>. QED BY <2>1, <2>3 DEF KeyOf
<1>. QED BY <1>2, <1>3

\* So the commit keeps what another transaction has established.
LEMMA CommitKeepsOthers ==
    ASSUME GuardInv, NEW t \in Txs, WritesOwnRow(t), LocksKept(t), NEW u \in Txs \ {t}
    PROVE  Knows(u)' /\ Protected(u)'
<1>1. tx'[u] = tx[u] /\ \A k \in Keys : advisory[k] = u => advisory'[k] = u
      BY DEF LocksKept
<1>2. \A i \in {1, 2} : Holds(u, i) => Holds(u, i)'
      BY <1>1, KeyType DEF GuardInv, Holds, KeyOf
<1>3. \A i \in {1, 2} : Holds(u, i) /\ StillFree(u, i) => StillFree(u, i)'
      BY <1>1, CommitKeepsScans
<1>4. Knows(u) /\ Protected(u)
      BY DEF GuardInv
<1>. QED BY <1>1, <1>2, <1>3, <1>4 DEF Knows, Protected, Live

\* Ending gives back locks of one's own only.
LEMMA EndKeepsOthers ==
    ASSUME TypeOK, NEW t \in Txs, End(t)
    PROVE  LocksKept(t)
BY DEF End, LocksKept, TypeOK

\* An ended transaction has established nothing.
LEMMA EndedKnowsNothing ==
    ASSUME TypeOK, NEW t \in Txs, End(t)
    PROVE  Knows(t)' /\ Protected(t)'
<1>1. tx'[t] = Idle
      BY DEF End, TypeOK
<1>. QED BY <1>1 DEF Knows, Protected, Idle

\* An idle record is a record of a transaction.
LEMMA IdleType == Idle \in Tx
<1>1. NoRow \in Row
      BY DEF NoRow, Row, NoPair, NoWindow, MaybePair
<1>2. <<>> \in Seq(Locks)
      OBVIOUS
<1>. QED BY <1>1, <1>2 DEF Idle, Tx

LEMMA EndType ==
    ASSUME TypeOK, NEW t \in Txs, End(t)
    PROVE  /\ tx' \in [Txs -> Tx]
           /\ \A u \in Txs : tx'[u].pc # "idle" => tx'[u].dispatch \in Dispatches
           /\ advisory' \in [Keys -> Txs \union {None}]
BY IdleType DEF End, TypeOK, Idle

\* A transaction that ends without a commit.
LEMMA RollbackKeepsInv ==
    ASSUME GuardInv, NEW t \in Txs, End(t), board' = board
    PROVE  GuardInv'
<1>1. TypeOK'
      BY EndType DEF GuardInv, TypeOK
<1>2. \A u \in Txs : Knows(u)' /\ Protected(u)'
      BY EndKeepsOthers, EndedKnowsNothing, QuietStepKeepsOthers DEF GuardInv
<1>. QED BY <1>1, <1>2 DEF GuardInv

\* A step of t that ends nothing and writes no row keeps the invariant when it
\* keeps the locks of the others and what t itself knows.
LEMMA OwnStepKeepsInv ==
    ASSUME GuardInv, NEW t \in Txs, board' = board, NEW new \in Tx, tx' = [tx EXCEPT ![t] = new],
           advisory' \in [Keys -> Txs \union {None}], LocksKept(t),
           new.pc # "idle" => new.dispatch \in Dispatches,
           Knows(t)', Protected(t)'
    PROVE  GuardInv'
<1>1. TypeOK'
      BY DEF GuardInv, TypeOK
<1>2. \A u \in Txs : Knows(u)' /\ Protected(u)'
      BY QuietStepKeepsOthers
<1>. QED BY <1>1, <1>2 DEF GuardInv

------------------------------------------------------------------------------
(* The actions *)

\* A handler begins with a pair and a window, or with a status.
LEMMA BeginKeepsInv ==
    ASSUME GuardInv, NEW t \in Txs, NEW kind \in AllKinds, NEW d \in Dispatches, NEW j \in Tx,
           Begin(t, kind, d, j), j.row = NoRow,
           kind \in Reserving => j.pair \in Pairs /\ j.window \in Windows,
           kind \notin Reserving => j.to \in DispatchStatus
    PROVE  GuardInv'
<1>. DEFINE new == [j EXCEPT !.kind = kind, !.pc = "locks", !.dispatch = d,
                             !.todo = Footprint(kind, d)]
<1>1. tx' = [tx EXCEPT ![t] = new] /\ UNCHANGED <<board, advisory>>
      BY DEF Begin
<1>2. new \in Tx
      BY FootprintType DEF Tx
<1>3. tx'[t] = new /\ \A u \in Txs \ {t} : tx'[u] = tx[u]
      BY <1>1 DEF GuardInv, TypeOK
<1>4. new.pc = "locks" /\ new.dispatch = d /\ new.kind = kind /\ new.pair = j.pair
      /\ new.window = j.window /\ new.to = j.to
      BY DEF Tx
<1>. HIDE DEF new
<1>5. LocksKept(t)
      BY <1>1, <1>3 DEF LocksKept
<1>6. Knows(t)' /\ Protected(t)'
      BY <1>3, <1>4 DEF Knows, Protected
<1>7. advisory' \in [Keys -> Txs \union {None}]
      BY <1>1 DEF GuardInv, TypeOK
<1>. QED BY <1>1, <1>2, <1>4, <1>5, <1>6, <1>7, OwnStepKeepsInv

LEMMA ReserveKeepsInv ==
    ASSUME GuardInv, NEW t \in Txs, NEW kind \in Kinds, NEW d \in Dispatches,
           NEW pair \in Pairs, NEW window \in Windows, Reserve(t, kind, d, pair, window)
    PROVE  GuardInv'
<1>. DEFINE j == [Idle EXCEPT !.pair = pair, !.window = window]
<1>1. j \in Tx /\ j.row = NoRow /\ j.pair = pair /\ j.window = window
      BY IdleType DEF Idle, Tx
<1>2. Begin(t, kind, d, j) /\ kind \in Reserving
      BY DEF Reserve, Reserving
<1>3. kind \in AllKinds
      BY GuardAssumption
<1>. HIDE DEF j
<1>. QED BY <1>1, <1>2, <1>3, BeginKeepsInv

LEMMA MoveKeepsInv ==
    ASSUME GuardInv, NEW t \in Txs, NEW kind \in Kinds, NEW d \in Dispatches,
           NEW to \in Targets(kind, board[d].status), Move(t, kind, d, to)
    PROVE  GuardInv'
<1>. DEFINE j == [Idle EXCEPT !.to = to]
<1>1. to \in DispatchStatus /\ kind \notin Reserving
      BY DEF Targets, DispatchStatus, Reserving
<1>2. j \in Tx /\ j.row = NoRow /\ j.to = to
      BY <1>1, IdleType DEF Idle, Tx
<1>3. Begin(t, kind, d, j) /\ kind \in AllKinds
      BY GuardAssumption DEF Move
<1>. HIDE DEF j
<1>. QED BY <1>1, <1>2, <1>3, BeginKeepsInv

\* Taking the next lock of the footprint
LEMMA LockKeepsInv ==
    ASSUME GuardInv, NEW t \in Txs, Lock(t)
    PROVE  GuardInv'
<1>. DEFINE new == [tx[t] EXCEPT !.held = @ \union {Head(tx[t].todo)}, !.todo = Tail(@)]
<1>1. tx[t] \in Tx /\ tx[t].pc = "locks" /\ tx[t].todo # <<>>
      BY DEF GuardInv, TypeOK, Lock, At
<1>2. tx' = [tx EXCEPT ![t] = new] /\ UNCHANGED <<board, advisory>>
      BY DEF Lock
<1>3. Head(tx[t].todo) \in Locks /\ Tail(tx[t].todo) \in Seq(Locks)
      BY <1>1, HeadTailProperties DEF Tx
<1>4. new \in Tx
      BY <1>1, <1>3 DEF Tx
<1>5. tx'[t] = new /\ \A u \in Txs \ {t} : tx'[u] = tx[u]
      BY <1>2 DEF GuardInv, TypeOK
<1>6. new.pc = "locks" /\ new.dispatch = tx[t].dispatch /\ new.kind = tx[t].kind
      /\ new.pair = tx[t].pair /\ new.window = tx[t].window /\ new.to = tx[t].to
      BY <1>1 DEF Tx
<1>. HIDE DEF new
<1>7. LocksKept(t)
      BY <1>2, <1>5 DEF LocksKept
<1>8. Knows(t) /\ new.dispatch \in Dispatches
      BY <1>1, <1>6 DEF GuardInv, Knows
<1>9. Knows(t)' /\ Protected(t)'
      BY <1>1, <1>5, <1>6, <1>8 DEF Knows, Protected
<1>10. advisory' \in [Keys -> Txs \union {None}]
      BY <1>2 DEF GuardInv, TypeOK
<1>. QED BY <1>2, <1>4, <1>7, <1>8, <1>9, <1>10, OwnStepKeepsInv

\* The trigger's own step from one place to the next, with or without a lock:
\* all but the place, the row and the lock stays.
LEMMA TriggerStepKeepsInv ==
    ASSUME GuardInv, NEW t \in Txs, tx[t].pc # "idle", board' = board,
           NEW place \in {"vehicle", "scanVehicle", "driver", "scanDriver", "commit"},
           NEW row \in Row,
           tx' = [tx EXCEPT ![t].row = row, ![t].pc = place],
           advisory' \in [Keys -> Txs \union {None}], LocksKept(t), Protected(t)'
    PROVE  GuardInv'
<1>. DEFINE new == [tx[t] EXCEPT !.row = row, !.pc = place]
<1>1. tx[t] \in Tx
      BY DEF GuardInv, TypeOK
<1>2. new \in Tx /\ new.pc = place /\ new.dispatch = tx[t].dispatch /\ new.kind = tx[t].kind
      /\ new.pair = tx[t].pair /\ new.window = tx[t].window /\ new.to = tx[t].to
      BY <1>1 DEF Tx
<1>3. tx' = [tx EXCEPT ![t] = new] /\ tx'[t] = new
      BY DEF GuardInv, TypeOK
<1>. HIDE DEF new
<1>4. Knows(t) /\ new.dispatch \in Dispatches
      BY <1>2 DEF GuardInv, Knows
<1>5. Knows(t)'
      BY <1>2, <1>3, <1>4 DEF Knows
<1>. QED BY <1>2, <1>3, <1>4, <1>5, OwnStepKeepsInv

LEMMA FireKeepsInv ==
    ASSUME GuardInv, NEW t \in Txs, Fire(t)
    PROVE  GuardInv'
<1>. DEFINE row == NewRow(tx[t])
            place == IF Live(row) THEN "vehicle" ELSE "commit"
<1>1. tx[t].pc # "idle" /\ tx[t] \in Tx
      BY DEF Fire, At, GuardInv, TypeOK
<1>2. row \in Row
      BY <1>1, NewRowType
<1>. HIDE DEF row
<1>3. tx' = [tx EXCEPT ![t].row = row, ![t].pc = place] /\ UNCHANGED <<board, advisory>>
      BY DEF Fire, row
<1>4. tx'[t].row = row /\ tx'[t].pc = place /\ \A u \in Txs \ {t} : tx'[u] = tx[u]
      BY <1>1, <1>3 DEF GuardInv, TypeOK, Tx
<1>5. Protected(t)'
      BY <1>4 DEF Protected, Live
<1>6. LocksKept(t) /\ advisory' \in [Keys -> Txs \union {None}]
      BY <1>3, <1>4 DEF LocksKept, GuardInv, TypeOK
<1>. QED BY <1>1, <1>2, <1>3, <1>5, <1>6, TriggerStepKeepsInv

\* The steps of the trigger that keep the row.
LEMMA PlaceStepKeepsInv ==
    ASSUME GuardInv, NEW t \in Txs, tx[t].pc # "idle", board' = board,
           NEW place \in {"vehicle", "scanVehicle", "driver", "scanDriver", "commit"},
           tx' = [tx EXCEPT ![t].pc = place],
           advisory' \in [Keys -> Txs \union {None}], LocksKept(t), Protected(t)'
    PROVE  GuardInv'
<1>1. tx[t].row \in Row /\ tx' = [tx EXCEPT ![t].row = tx[t].row, ![t].pc = place]
      BY DEF GuardInv, TypeOK, Tx
<1>. QED BY <1>1, TriggerStepKeepsInv

\* A free key is taken from nobody.
LEMMA FreeKeyTaken ==
    ASSUME GuardInv, NEW t \in Txs, NEW i \in {1, 2}, tx[t].row.pair[i] # None, Unlocked(t, i),
           NEW place, tx' = [tx EXCEPT ![t].pc = place],
           advisory' = [advisory EXCEPT ![KeyOf(t, i)] = t]
    PROVE  /\ LocksKept(t) /\ advisory' \in [Keys -> Txs \union {None}]
           /\ advisory'[KeyOf(t, i)] = t
           /\ \A k \in Keys : advisory[k] = t => advisory'[k] = t
<1>1. KeyOf(t, i) \in Keys /\ None \notin Txs
      BY KeyType, GuardAssumption DEF GuardInv
<1>2. advisory \in [Keys -> Txs \union {None}] /\ tx \in [Txs -> Tx]
      BY DEF GuardInv, TypeOK
<1>3. advisory[KeyOf(t, i)] \in {None, t}
      BY DEF Unlocked
<1>. HIDE DEF KeyOf
<1>. QED BY <1>1, <1>2, <1>3 DEF LocksKept

\* What a step that moves t on leaves of its row.
LEMMA PlaceOnly ==
    ASSUME GuardInv, NEW t \in Txs, NEW place, tx' = [tx EXCEPT ![t].pc = place]
    PROVE  /\ tx'[t].pc = place /\ tx'[t].row = tx[t].row /\ tx'[t].dispatch = tx[t].dispatch
           /\ \A u \in Txs \ {t} : tx'[u] = tx[u]
           /\ \A i \in {1, 2} : KeyOf(t, i)' = KeyOf(t, i)
BY DEF GuardInv, TypeOK, Tx, KeyOf

\* Moving on keeps what was established, as long as t keeps its keys.
LEMMA PlaceKeepsScans ==
    ASSUME GuardInv, NEW t \in Txs, NEW place, tx' = [tx EXCEPT ![t].pc = place], board' = board,
           \A k \in Keys : advisory[k] = t => advisory'[k] = t, NEW i \in {1, 2}
    PROVE  /\ Holds(t, i) => Holds(t, i)'
           /\ StillFree(t, i) => StillFree(t, i)'
<1>1. tx'[t].row = tx[t].row /\ tx'[t].dispatch = tx[t].dispatch /\ KeyOf(t, i)' = KeyOf(t, i)
      BY PlaceOnly
<1>2. ASSUME Holds(t, i) PROVE Holds(t, i)'
  <2>1. tx[t].row.pair[i] # None => KeyOf(t, i) \in Keys
        BY KeyType DEF GuardInv
  <2>. QED BY <1>1, <1>2, <2>1 DEF Holds
<1>3. ASSUME StillFree(t, i) PROVE StillFree(t, i)'
      BY <1>1, <1>3 DEF StillFree, Free, Rivals, Live
<1>. QED BY <1>2, <1>3

\* ... and takes nothing from the others, when no lock changes hands.
LEMMA PlaceKeepsLocks ==
    ASSUME GuardInv, NEW t \in Txs, NEW place, tx' = [tx EXCEPT ![t].pc = place],
           UNCHANGED advisory
    PROVE  LocksKept(t) /\ advisory' \in [Keys -> Txs \union {None}]
BY PlaceOnly DEF LocksKept, GuardInv, TypeOK

LEMMA LockVehicleKeepsInv ==
    ASSUME GuardInv, NEW t \in Txs, LockVehicle(t)
    PROVE  GuardInv'
<1>1. tx[t].pc = "vehicle" /\ Live(tx[t].row) /\ board' = board
      BY DEF LockVehicle, At, GuardInv, Protected
<1>2. CASE tx[t].row.pair[1] = None
  <2>1. tx' = [tx EXCEPT ![t].pc = "driver"] /\ UNCHANGED advisory
        BY <1>2 DEF LockVehicle
  <2>2. Protected(t)' /\ LocksKept(t)
        BY <1>1, <1>2, <2>1, PlaceOnly DEF Protected, Holds, StillFree, Free, LocksKept, Live
  <2>3. advisory' \in [Keys -> Txs \union {None}]
        BY <2>1 DEF GuardInv, TypeOK
  <2>. QED BY <1>1, <2>1, <2>2, <2>3, PlaceStepKeepsInv
<1>3. CASE tx[t].row.pair[1] # None
  <2>1. /\ Unlocked(t, 1) /\ advisory' = [advisory EXCEPT ![KeyOf(t, 1)] = t]
        /\ tx' = [tx EXCEPT ![t].pc = "scanVehicle"]
        BY <1>3 DEF LockVehicle
  <2>2. LocksKept(t) /\ advisory' \in [Keys -> Txs \union {None}]
        /\ advisory'[KeyOf(t, 1)] = t
        BY <1>3, <2>1, FreeKeyTaken
  <2>3. Protected(t)'
        BY <1>1, <2>1, <2>2, PlaceOnly DEF Protected, Holds, Live
  <2>. QED BY <1>1, <2>1, <2>2, <2>3, PlaceStepKeepsInv
<1>. QED BY <1>2, <1>3

LEMMA ScanVehicleKeepsInv ==
    ASSUME GuardInv, NEW t \in Txs, ScanVehicle(t)
    PROVE  GuardInv'
<1>1. /\ tx[t].pc = "scanVehicle" /\ Live(tx[t].row) /\ Holds(t, 1) /\ StillFree(t, 1)
      /\ tx' = [tx EXCEPT ![t].pc = "driver"] /\ UNCHANGED <<board, advisory>>
      BY DEF ScanVehicle, At, GuardInv, Protected, StillFree
<1>2. Holds(t, 1)' /\ StillFree(t, 1)'
      BY <1>1, PlaceKeepsScans
<1>3. Protected(t)'
      BY <1>1, <1>2, PlaceOnly DEF Protected, Live
<1>. QED BY <1>1, <1>3, PlaceKeepsLocks, PlaceStepKeepsInv

LEMMA LockDriverKeepsInv ==
    ASSUME GuardInv, NEW t \in Txs, LockDriver(t)
    PROVE  GuardInv'
<1>1. /\ tx[t].pc = "driver" /\ Live(tx[t].row) /\ board' = board
      /\ Holds(t, 1) /\ StillFree(t, 1)
      BY DEF LockDriver, At, GuardInv, Protected
<1>2. CASE tx[t].row.pair[2] = None
  <2>1. tx' = [tx EXCEPT ![t].pc = "commit"] /\ UNCHANGED advisory
        BY <1>2 DEF LockDriver
  <2>2. Holds(t, 2) /\ StillFree(t, 2)
        BY <1>2 DEF Holds, StillFree, Free
  <2>3. Holds(t, 1)' /\ StillFree(t, 1)' /\ Holds(t, 2)' /\ StillFree(t, 2)'
        BY <1>1, <2>1, <2>2, PlaceKeepsScans
  <2>4. Protected(t)'
        BY <1>1, <2>1, <2>3, PlaceOnly DEF Protected, Live
  <2>. QED BY <1>1, <2>1, <2>4, PlaceKeepsLocks, PlaceStepKeepsInv
<1>3. CASE tx[t].row.pair[2] # None
  <2>1. /\ Unlocked(t, 2) /\ advisory' = [advisory EXCEPT ![KeyOf(t, 2)] = t]
        /\ tx' = [tx EXCEPT ![t].pc = "scanDriver"]
        BY <1>3 DEF LockDriver
  <2>2. /\ LocksKept(t) /\ advisory' \in [Keys -> Txs \union {None}]
        /\ advisory'[KeyOf(t, 2)] = t
        /\ \A k \in Keys : advisory[k] = t => advisory'[k] = t
        BY <1>3, <2>1, FreeKeyTaken
  <2>3. Holds(t, 1)' /\ StillFree(t, 1)'
        BY <1>1, <2>1, <2>2, PlaceKeepsScans
  <2>4. Holds(t, 2)'
        BY <2>1, <2>2, PlaceOnly DEF Holds
  <2>5. Protected(t)'
        BY <1>1, <2>1, <2>3, <2>4, PlaceOnly DEF Protected, Live
  <2>. QED BY <1>1, <2>1, <2>2, <2>5, PlaceStepKeepsInv
<1>. QED BY <1>2, <1>3

LEMMA ScanDriverKeepsInv ==
    ASSUME GuardInv, NEW t \in Txs, ScanDriver(t)
    PROVE  GuardInv'
<1>1. /\ tx[t].pc = "scanDriver" /\ Live(tx[t].row) /\ Holds(t, 1) /\ StillFree(t, 1)
      /\ Holds(t, 2) /\ StillFree(t, 2)
      /\ tx' = [tx EXCEPT ![t].pc = "commit"] /\ UNCHANGED <<board, advisory>>
      BY DEF ScanDriver, At, GuardInv, Protected, StillFree
<1>2. Holds(t, 1)' /\ StillFree(t, 1)' /\ Holds(t, 2)' /\ StillFree(t, 2)'
      BY <1>1, PlaceKeepsScans
<1>3. Protected(t)'
      BY <1>1, <1>2, PlaceOnly DEF Protected
<1>. QED BY <1>1, <1>3, PlaceKeepsLocks, PlaceStepKeepsInv

\* The one step that changes the board
LEMMA CommitKeepsInv ==
    ASSUME GuardInv, NEW t \in Txs, Commit(t)
    PROVE  GuardInv'
<1>1. End(t) /\ WritesOwnRow(t)
      BY DEF Commit, WritesOwnRow, At, GuardInv, TypeOK
<1>2. board' \in [Dispatches -> Row]
      BY <1>1 DEF WritesOwnRow, GuardInv, TypeOK, Tx
<1>3. TypeOK'
      BY <1>1, <1>2, EndType DEF GuardInv, TypeOK
<1>4. \A u \in Txs : Knows(u)' /\ Protected(u)'
      BY <1>1, EndKeepsOthers, EndedKnowsNothing, CommitKeepsOthers DEF GuardInv
<1>. QED BY <1>3, <1>4 DEF GuardInv

------------------------------------------------------------------------------
(* Theorems *)

LEMMA InitGuardInv == Init => GuardInv
<1>. SUFFICES ASSUME Init PROVE GuardInv
     OBVIOUS
<1>1. NoRow \in Row
      BY DEF NoRow, Row, NoPair, NoWindow, MaybePair
<1>2. \A t \in Txs : tx[t] = Idle
      BY DEF Init
<1>3. TypeOK
      BY <1>1, <1>2, IdleType DEF Init, BoardInit, TypeOK, Idle
<1>4. \A t \in Txs : Knows(t) /\ Protected(t)
      BY <1>2 DEF Knows, Protected, Idle
<1>. QED BY <1>3, <1>4 DEF GuardInv

\* The invariant is inductive.
LEMMA NextGuardInv == GuardInv /\ [Next]_vars => GuardInv'
<1>. SUFFICES ASSUME GuardInv, [Next]_vars PROVE GuardInv'
     OBVIOUS
<1>1. ASSUME UNCHANGED vars PROVE GuardInv'
  <2>1. TypeOK'
        BY <1>1 DEF vars, GuardInv, TypeOK
  <2>2. ASSUME NEW t \in Txs PROVE Knows(t)' /\ Protected(t)'
        BY <1>1 DEF vars, GuardInv, Knows, Protected, Holds, KeyOf, StillFree, Free, Rivals, Live
  <2>. QED BY <2>1, <2>2 DEF GuardInv
<1>2. ASSUME NEW t \in Txs, Step(t) PROVE GuardInv'
  <2>1. CASE Refuse(t)
        BY <2>1, RollbackKeepsInv DEF Refuse
  <2>. QED
       BY <1>2, <2>1, LockKeepsInv, FireKeepsInv, LockVehicleKeepsInv, ScanVehicleKeepsInv,
          LockDriverKeepsInv, ScanDriverKeepsInv, CommitKeepsInv DEF Step
<1>3. ASSUME NEW t \in Txs, Fail(t) PROVE GuardInv'
      BY <1>3, RollbackKeepsInv DEF Fail
<1>4. ASSUME BreakDeadlock PROVE GuardInv'
  <2>1. PICK t \in Txs : End(t) /\ UNCHANGED board
        BY <1>4 DEF BreakDeadlock
  <2>. QED BY <2>1, RollbackKeepsInv
<1>. QED BY <1>1, <1>2, <1>3, <1>4, ReserveKeepsInv, MoveKeepsInv DEF Next

LEMMA AlwaysGuardInv == Spec => []GuardInv
BY InitGuardInv, NextGuardInv, PTL DEF Spec

\* Every transaction, its locks and the board stay in their types.
THEOREM GuardTypeCorrect == Spec => []TypeOK
<1>1. GuardInv => TypeOK
      BY DEF GuardInv
<1>. QED BY <1>1, AlwaysGuardInv, PTL

\* A commit is a guarded write of the board as it is at that moment.
LEMMA CommitIsGuarded ==
    ASSUME GuardInv, NEW t \in Txs, Commit(t)
    PROVE  Book
<1>. DEFINE d == tx[t].dispatch
<1>1. WritesOwnRow(t) /\ tx[t].row \in Row
      BY DEF Commit, WritesOwnRow, At, GuardInv, TypeOK, Tx
<1>2. d \in Dispatches /\ board' \in [Dispatches -> Row] /\ board'[d] = tx[t].row
      /\ \A e \in Dispatches \ {d} : board'[e] = board[e]
      BY <1>1 DEF WritesOwnRow, GuardInv, TypeOK
<1>3. Guard(d, tx[t].row)
      BY DEF Commit, At, GuardInv, Protected, StillFree, Guard
<1>. QED BY <1>2, <1>3 DEF Book

\* Nothing but a commit touches the board.
LEMMA OnlyCommitWrites ==
    ASSUME Next
    PROVE  UNCHANGED board \/ \E t \in Txs : Commit(t)
BY DEF Next, Reserve, Move, Begin, Step, Lock, Fire, LockVehicle, ScanVehicle, LockDriver,
       ScanDriver, Refuse, Fail, BreakDeadlock

\* The lock by lock transactions of all handlers implement a board on which rows
\* are written one at a time, each screened against all others as it is written.
THEOREM TransactionsImplementBoard == Spec => GuardIsAtomic
<1>1. Init => BoardInit
      BY DEF Init
<1>2. GuardInv /\ [Next]_vars => [Book]_board
      BY OnlyCommitWrites, CommitIsGuarded DEF vars
<1>. QED BY <1>1, <1>2, AlwaysGuardInv, PTL DEF Spec, GuardIsAtomic, BoardSpec

\* A guarded write books nobody twice.
LEMMA BookKeepsBookings == NobodyHeldTwice /\ [Book]_board => NobodyHeldTwice'
<1>. SUFFICES ASSUME NobodyHeldTwice, [Book]_board,
                     NEW d \in Dispatches, NEW e \in Dispatches, d # e, Live(board'[d]),
                     Live(board'[e]), Overlaps(board'[d].window, board'[e].window),
                     NEW i \in {1, 2}, board'[d].pair[i] # None,
                     board'[d].pair[i] = board'[e].pair[i]
              PROVE  FALSE
     BY DEF NobodyHeldTwice
<1>1. CASE UNCHANGED board
      BY <1>1 DEF NobodyHeldTwice
<1>2. CASE Book
  <2>1. PICK c \in Dispatches : /\ \A x \in Dispatches \ {c} : board'[x] = board[x]
                                /\ Guard(c, board'[c])
        BY <1>2 DEF Book
  <2>2. CASE c # d /\ c # e
        BY <2>1, <2>2 DEF NobodyHeldTwice
  <2>3. CASE c = d
    <3>1. e \in Rivals(c, board'[c], i)
          BY <2>1, <2>3 DEF Rivals, Overlaps
    <3>. QED BY <2>1, <2>3, <3>1 DEF Guard, Free
  <2>4. CASE c = e
    <3>1. d \in Rivals(c, board'[c], i)
          BY <2>1, <2>4 DEF Rivals
    <3>. QED BY <2>1, <2>4, <3>1 DEF Guard, Free
  <2>. QED BY <2>2, <2>3, <2>4
<1>. QED BY <1>1, <1>2

\* The abstract board already keeps the promise of the trigger.
LEMMA BoardKeepsBookings == BoardSpec => []NobodyHeldTwice
<1>1. ASSUME BoardInit PROVE NobodyHeldTwice
  <2>1. \A d \in Dispatches : ~Live(board[d])
        BY <1>1 DEF BoardInit, NoRow, Live, LiveDispatch
  <2>. QED BY <2>1 DEF NobodyHeldTwice
<1>. QED BY <1>1, BookKeepsBookings, PTL DEF BoardSpec

\* No vehicle and no driver is on two live overlapping dispatches, whichever
\* transactions interleave between the trigger's locks and scans, fail, are
\* refused or broken out of a deadlock.
THEOREM NobodyHeldTwiceHolds == Spec => []NobodyHeldTwice
BY TransactionsImplementBoard, BoardKeepsBookings, PTL DEF GuardIsAtomic
------------------------------------------------------------------------------
(* Deadlocks *)

\* hashtext gives no vehicle the key of a driver.  Where it does so crosswise, the
\* vehicle of each of two handlers with the driver of the other, each can hold the
\* key the other waits for, and the order of the table locks helps neither.
KeysApart == \A v \in Vehicles, d \in Drivers : LockKey[<<1, v>>] # LockKey[<<2, d>>]

FootprintOf(t) == Footprint(tx[t].kind, tx[t].dispatch)

\* The locks of the footprint that t has taken.
Taken(t) == Len(FootprintOf(t)) - Len(tx[t].todo)

\* A transaction holds the first locks of its footprint, waits for the rest, and
\* has them all when the trigger fires.
LockSteps(t) ==
    tx[t].pc # "idle" =>
        /\ tx[t].kind \in AllKinds
        /\ Taken(t) \in Nat
        /\ tx[t].held = { FootprintOf(t)[i] : i \in 1..Taken(t) }
        /\ \A i \in 1..Len(tx[t].todo) : tx[t].todo[i] = FootprintOf(t)[Taken(t) + i]
        /\ tx[t].pc # "locks" => tx[t].todo = <<>>

\* The vehicle's key is taken before the driver's.
OwnsKeys(t) ==
    \A k \in Keys : advisory[k] = t =>
        \/ /\ tx[t].row.pair[1] # None /\ k = KeyOf(t, 1)
           /\ tx[t].pc \in {"scanVehicle", "driver", "scanDriver", "commit"}
        \/ /\ tx[t].row.pair[2] # None /\ k = KeyOf(t, 2)
           /\ tx[t].pc \in {"scanDriver", "commit"}

\* Nobody holds a lock against a lock of another.
Exclusive ==
    \A t, u \in Txs : t # u => \A l \in tx[t].held, m \in tx[u].held : ~Conflicting(l, m)

DeadlockInv ==
    /\ \A t \in Txs : LockSteps(t)
    /\ \A t \in Txs : OwnsKeys(t)
    /\ Exclusive

(* Footprints *)

Gathering == {"assign", "create", "reassign", "start"}
Preparing == {"complete", "cancelTrip", "standDown", "cancelRequest"}
Light == {"busy", "flip", "leave"}

\* What a lock sequence followed by another holds at each place.
LEMMA LocksInOrder ==
    ASSUME NEW s \in Seq(Locks), NEW u \in Seq(Locks)
    PROVE  /\ Len(s) \in Nat /\ Len(u) \in Nat /\ Len(s \o u) = Len(s) + Len(u)
           /\ \A i \in 1..Len(s) : (s \o u)[i] = s[i]
           /\ \A i \in 1..Len(s) + Len(u) : i > Len(s) =>
                  i - Len(s) \in 1..Len(u) /\ (s \o u)[i] = u[i - Len(s)]
<1>. DEFINE c == s \o u
<1>1. /\ Len(c) = Len(s) + Len(u)
      /\ \A k \in 1..Len(s) + Len(u) : c[k] = IF k <= Len(s) THEN s[k] ELSE u[k - Len(s)]
      BY ConcatProperties
<1>2. Len(s) \in Nat /\ Len(u) \in Nat
      OBVIOUS
<1>. HIDE DEF c
<1>3. \A i \in 1..Len(s) : c[i] = s[i]
      BY <1>1, <1>2
<1>4. \A i \in 1..Len(s) + Len(u) : i > Len(s) => i - Len(s) \in 1..Len(u) /\ c[i] = u[i - Len(s)]
      BY <1>1, <1>2
<1>. QED BY <1>1, <1>2, <1>3, <1>4 DEF c

\* The names under which locks are taken are locks.
LEMMA LockTypes ==
    ASSUME NEW d \in Dispatches
    PROVE  /\ \A name \in {"drivers", "dispatchschedules", "trips", "requests"}, mode \in {"SRE", "RX"} :
                Table(name, mode) \in Locks
           /\ DispatchRowOf(d) \in Locks /\ TripRowsOf(d) \in Locks /\ RequestRowOf(d) \in Locks
BY DEF Table, DispatchRowOf, TripRowsOf, RequestRowOf, Locks

\* Evidence is locked from the table drivers on, the dispatch's row last.
LEMMA GatheringShape ==
    ASSUME NEW kind \in Gathering, NEW d \in Dispatches, NEW i \in 1..Len(Footprint(kind, d))
    PROVE  /\ Footprint(kind, d)[1] = Table("drivers", "SRE")
           /\ Footprint(kind, d)[i][1] = "dispatch" => i = Len(Footprint(kind, d))
<1>. DEFINE u == IF kind = "assign" THEN << RequestRowOf(d), DispatchRowOf(d) >>
                 ELSE << DispatchRowOf(d) >>
<1>1. Footprint(kind, d) = Evidence \o u
      BY DEF Footprint, Gathering
<1>2. Evidence \in Seq(Locks) /\ u \in Seq(Locks)
      BY LockTypes DEF Evidence
<1>3. Len(Evidence) = 4 /\ Evidence[1] = Table("drivers", "SRE")
      /\ \A k \in 1..4 : Evidence[k][1] = "table"
      BY DEF Evidence, Table
<1>4. Len(u) \in {1, 2} /\ \A k \in 1..Len(u) : u[k][1] = "dispatch" => k = Len(u)
      BY DEF RequestRowOf
<1>. HIDE DEF u
<1>5. /\ Len(Evidence \o u) = 4 + Len(u)
      /\ \A k \in 1..4 : (Evidence \o u)[k] = Evidence[k]
      /\ \A k \in 1..4 + Len(u) : k > 4 => k - 4 \in 1..Len(u) /\ (Evidence \o u)[k] = u[k - 4]
  <2>1. /\ Len(Evidence \o u) = Len(Evidence) + Len(u)
        /\ \A k \in 1..Len(Evidence) : (Evidence \o u)[k] = Evidence[k]
        /\ \A k \in 1..Len(Evidence) + Len(u) : k > Len(Evidence) =>
               k - Len(Evidence) \in 1..Len(u) /\ (Evidence \o u)[k] = u[k - Len(Evidence)]
        BY <1>2, LocksInOrder
  <2>. QED BY <1>3, <2>1
<1>6. (Evidence \o u)[1] = Table("drivers", "SRE")
      BY <1>3, <1>5
<1>7. CASE i <= 4
  <2>1. (Evidence \o u)[i][1] = "table"
        BY <1>1, <1>3, <1>5, <1>7
  <2>. QED BY <1>1, <1>6, <2>1
<1>8. CASE i > 4
  <2>1. i - 4 \in 1..Len(u) /\ (Evidence \o u)[i] = u[i - 4]
        BY <1>1, <1>4, <1>5, <1>8
  <2>. QED BY <1>1, <1>4, <1>5, <1>6, <2>1
<1>. QED BY <1>7, <1>8

\* The prepared transactions lock only the table drivers against all comers.
LEMMA PreparingShape ==
    ASSUME NEW kind \in Preparing, NEW d \in Dispatches, NEW i \in 1..Len(Footprint(kind, d))
    PROVE  /\ Footprint(kind, d)[1] = Table("drivers", "SRE")
           /\ ~Conflicting(Footprint(kind, d)[i], Table("dispatchschedules", "RX"))
<1>1. PICK u \in Seq(Locks) :
        /\ Footprint(kind, d) = Prepared \o u
        /\ Len(u) > 0
        /\ \A k \in 1..Len(u) : ~Conflicting(u[k], Table("dispatchschedules", "RX"))
  <2>. USE LockTypes DEF Conflicting, SameResource
  <2>. DEFINE FreeOfTable(u) == /\ u \in Seq(Locks) /\ Len(u) > 0
                                /\ \A k \in 1..Len(u) : ~Conflicting(u[k], Table("dispatchschedules", "RX"))
  <2>1. CASE kind = "complete"
    <3>. DEFINE u == << TripRowsOf(d), DispatchRowOf(d), Table("trips", "RX"),
                        Table("dispatchschedules", "RX") >>
    <3>1. u \in Seq(Locks) /\ Len(u) > 0
          OBVIOUS
    <3>2. \A k \in 1..Len(u) : ~Conflicting(u[k], Table("dispatchschedules", "RX"))
          BY DEF Table, TripRowsOf, DispatchRowOf
    <3>. QED BY <2>1, <3>1, <3>2 DEF Footprint
  <2>2. CASE kind = "cancelTrip"
    <3>. DEFINE u == << DispatchRowOf(d), TripRowsOf(d), Table("trips", "RX"),
                        Table("dispatchschedules", "RX") >>
    <3>1. u \in Seq(Locks) /\ Len(u) > 0
          OBVIOUS
    <3>2. \A k \in 1..Len(u) : ~Conflicting(u[k], Table("dispatchschedules", "RX"))
          BY DEF Table, TripRowsOf, DispatchRowOf
    <3>. QED BY <2>2, <3>1, <3>2 DEF Footprint
  <2>3. CASE kind = "standDown"
    <3>. DEFINE u == << DispatchRowOf(d), TripRowsOf(d), Table("trips", "RX"),
                        Table("dispatchschedules", "RX"), RequestRowOf(d), Table("requests", "RX") >>
    <3>1. u \in Seq(Locks) /\ Len(u) > 0
          OBVIOUS
    <3>2. \A k \in 1..Len(u) : ~Conflicting(u[k], Table("dispatchschedules", "RX"))
          BY DEF Table, TripRowsOf, DispatchRowOf, RequestRowOf
    <3>. QED BY <2>3, <3>1, <3>2 DEF Footprint
  <2>4. CASE kind = "cancelRequest"
    <3>. DEFINE u == << RequestRowOf(d), DispatchRowOf(d), TripRowsOf(d), Table("trips", "RX"),
                        Table("dispatchschedules", "RX"), Table("requests", "RX") >>
    <3>1. u \in Seq(Locks) /\ Len(u) > 0
          OBVIOUS
    <3>2. \A k \in 1..Len(u) : ~Conflicting(u[k], Table("dispatchschedules", "RX"))
          BY DEF Table, TripRowsOf, DispatchRowOf, RequestRowOf
    <3>. QED BY <2>4, <3>1, <3>2 DEF Footprint
  <2>. QED BY <2>1, <2>2, <2>3, <2>4 DEF Preparing
<1>2. Prepared \in Seq(Locks) /\ Len(Prepared) = 1 /\ Prepared[1] = Table("drivers", "SRE")
      BY LockTypes DEF Prepared
<1>3. /\ Len(Prepared \o u) = 1 + Len(u) /\ Len(u) \in Nat
      /\ \A k \in 1..1 : (Prepared \o u)[k] = Prepared[k]
      /\ \A k \in 1..1 + Len(u) : k > 1 => k - 1 \in 1..Len(u) /\ (Prepared \o u)[k] = u[k - 1]
  <2>1. /\ Len(Prepared \o u) = Len(Prepared) + Len(u) /\ Len(u) \in Nat
        /\ \A k \in 1..Len(Prepared) : (Prepared \o u)[k] = Prepared[k]
        /\ \A k \in 1..Len(Prepared) + Len(u) : k > Len(Prepared) =>
               k - Len(Prepared) \in 1..Len(u) /\ (Prepared \o u)[k] = u[k - Len(Prepared)]
        BY <1>1, <1>2, LocksInOrder
  <2>. QED BY <1>2, <2>1
<1>4. (Prepared \o u)[1] = Table("drivers", "SRE")
      BY <1>2, <1>3
<1>5. CASE i = 1
      BY <1>1, <1>4, <1>5 DEF Table, Conflicting, SameResource
<1>6. CASE i > 1
  <2>1. i - 1 \in 1..Len(u) /\ (Prepared \o u)[i] = u[i - 1]
        BY <1>1, <1>3, <1>6
  <2>. QED BY <1>1, <1>4, <2>1
<1>. QED BY <1>5, <1>6

\* The light ones take the table for writing, then the row.
LEMMA LightShape ==
    ASSUME NEW kind \in Light, NEW d \in Dispatches
    PROVE  Footprint(kind, d) = << Table("dispatchschedules", "RX"), DispatchRowOf(d) >>
BY DEF Footprint, Light

(* The invariant *)

\* An idle transaction holds nothing.
LEMMA IdleHoldsNothing ==
    ASSUME GuardInv, NEW t \in Txs, tx'[t] = Idle
    PROVE  LockSteps(t)' /\ tx'[t].held = {}
BY DEF LockSteps, Idle

\* A transaction that is left alone is where it was.
LEMMA LeftAlone ==
    ASSUME DeadlockInv, NEW u \in Txs, tx'[u] = tx[u]
    PROVE  LockSteps(u)'
<1>1. LockSteps(u) /\ FootprintOf(u)' = FootprintOf(u)
      BY DEF DeadlockInv, FootprintOf
<1>2. Taken(u)' = Taken(u)
      BY <1>1 DEF Taken
<1>. QED BY <1>1, <1>2 DEF LockSteps

\* A step that neither takes a table or row lock nor ends.
KeepsLocks(t) ==
    /\ \A u \in Txs \ {t} : tx'[u] = tx[u]
    /\ tx'[t].kind = tx[t].kind /\ tx'[t].dispatch = tx[t].dispatch
    /\ tx'[t].todo = tx[t].todo /\ tx'[t].held = tx[t].held
    /\ tx[t].pc # "idle" /\ (tx'[t].pc # "locks" => tx[t].todo = <<>>)

LEMMA KeepsLocksKeepsSteps ==
    ASSUME DeadlockInv, NEW t \in Txs, KeepsLocks(t)
    PROVE  (\A u \in Txs : LockSteps(u)') /\ Exclusive'
<1>1. ASSUME NEW u \in Txs PROVE LockSteps(u)'
  <2>1. LockSteps(u) /\ FootprintOf(u)' = FootprintOf(u) /\ Taken(u)' = Taken(u)
        BY DEF DeadlockInv, KeepsLocks, FootprintOf, Taken
  <2>2. tx'[u].kind = tx[u].kind /\ tx'[u].todo = tx[u].todo /\ tx'[u].held = tx[u].held
        BY DEF KeepsLocks
  <2>3. CASE u = t
        BY <2>1, <2>2, <2>3 DEF LockSteps, KeepsLocks
  <2>4. CASE u # t
        BY <2>1, <2>4 DEF LockSteps, KeepsLocks
  <2>. QED BY <2>3, <2>4
<1>2. \A u \in Txs : tx'[u].held = tx[u].held
      BY DEF KeepsLocks
<1>3. Exclusive'
      BY <1>2 DEF Exclusive, DeadlockInv
<1>. QED BY <1>1, <1>3

\* The trigger's steps.
LEMMA TriggerKeepsLocks ==
    ASSUME GuardInv, DeadlockInv, NEW t \in Txs,
           Fire(t) \/ LockVehicle(t) \/ ScanVehicle(t) \/ LockDriver(t) \/ ScanDriver(t)
    PROVE  KeepsLocks(t)
<1>1. tx[t] \in Tx /\ LockSteps(t) /\ tx \in [Txs -> Tx]
      BY DEF GuardInv, TypeOK, DeadlockInv
<1>2. PICK row, place :
        \/ tx' = [tx EXCEPT ![t].row = row, ![t].pc = place]
        \/ tx' = [tx EXCEPT ![t].pc = place]
  <2>1. CASE Fire(t)
        BY <2>1 DEF Fire
  <2>2. CASE LockVehicle(t)
        BY <2>2 DEF LockVehicle
  <2>3. CASE ScanVehicle(t)
        BY <2>3 DEF ScanVehicle
  <2>4. CASE LockDriver(t)
        BY <2>4 DEF LockDriver
  <2>5. CASE ScanDriver(t)
        BY <2>5 DEF ScanDriver
  <2>. QED BY <2>1, <2>2, <2>3, <2>4, <2>5
<1>3. tx[t].pc # "idle" /\ tx[t].todo = <<>>
      BY <1>1 DEF Fire, LockVehicle, ScanVehicle, LockDriver, ScanDriver, At, LockSteps
<1>4. /\ \A u \in Txs \ {t} : tx'[u] = tx[u]
      /\ tx'[t].kind = tx[t].kind /\ tx'[t].dispatch = tx[t].dispatch
      /\ tx'[t].todo = tx[t].todo /\ tx'[t].held = tx[t].held
      BY <1>1, <1>2 DEF Tx
<1>. QED BY <1>3, <1>4 DEF KeepsLocks

\* Who waits for nobody takes a lock that conflicts with nobody's.
LEMMA LockKeepsSteps ==
    ASSUME GuardInv, DeadlockInv, NEW t \in Txs, Lock(t)
    PROVE  (\A u \in Txs : LockSteps(u)') /\ Exclusive'
<1>. DEFINE next == Head(tx[t].todo)
            F == FootprintOf(t)
            n == Taken(t)
<1>1. /\ tx \in [Txs -> Tx] /\ tx[t] \in Tx /\ LockSteps(t) /\ tx[t].pc = "locks"
      /\ tx[t].todo # <<>> /\ Blockers(t) = {}
      /\ tx' = [tx EXCEPT ![t].held = @ \union {Head(tx[t].todo)}, ![t].todo = Tail(@)]
      BY DEF GuardInv, TypeOK, DeadlockInv, Lock, At
<1>2. \A u \in Txs \ {t} : tx'[u] = tx[u]
      BY <1>1
<1>3. /\ tx'[t].pc = "locks" /\ tx'[t].kind = tx[t].kind /\ tx'[t].dispatch = tx[t].dispatch
      /\ tx'[t].held = tx[t].held \union {next} /\ tx'[t].todo = Tail(tx[t].todo)
      BY <1>1 DEF Tx
<1>4. tx[t].todo \in Seq(Locks)
      BY <1>1 DEF Tx
<1>5. /\ tx[t].kind \in AllKinds /\ n \in Nat /\ tx[t].held = { F[i] : i \in 1..n }
      /\ n = Len(F) - Len(tx[t].todo)
      /\ \A i \in 1..Len(tx[t].todo) : tx[t].todo[i] = F[n + i]
      BY <1>1 DEF LockSteps, Taken
<1>6. /\ Len(tx[t].todo) \in Nat \ {0} /\ next = tx[t].todo[1]
      /\ Len(Tail(tx[t].todo)) = Len(tx[t].todo) - 1
      /\ \A i \in 1..Len(tx[t].todo) - 1 : Tail(tx[t].todo)[i] = tx[t].todo[i + 1]
      BY <1>1, <1>4, HeadTailProperties, EmptySeq
<1>7. FootprintOf(t)' = F
      BY <1>3 DEF FootprintOf
<1>8. Len(F) \in Nat
  <2>1. tx[t].dispatch \in Dispatches
        BY <1>1 DEF GuardInv, TypeOK
  <2>. QED BY <1>5, <2>1, FootprintType DEF FootprintOf
<1>9. Taken(t)' = n + 1
  <2>1. Taken(t)' = Len(F) - (Len(tx[t].todo) - 1)
        BY <1>3, <1>6, <1>7 DEF Taken
  <2>. HIDE DEF F, n
  <2>. QED BY <1>5, <1>6, <1>8, <2>1
<1>. HIDE DEF F, n, next
<1>10. next = F[n + 1]
  <2>1. 1 \in 1..Len(tx[t].todo)
        BY <1>6
  <2>. QED BY <1>5, <1>6, <2>1
<1>11. tx'[t].held = { F[i] : i \in 1..(n + 1) }
  <2>1. n \in Nat
        BY <1>5
  <2>2. \A k : k \in 1..(n + 1) <=> k \in 1..n \union {n + 1}
        BY <2>1
  <2>3. \A l : l \in { F[i] : i \in 1..(n + 1) } <=> l \in { F[i] : i \in 1..n } \union {F[n + 1]}
        BY <2>2
  <2>. QED BY <1>3, <1>5, <1>10, <2>3
<1>12. \A i \in 1..Len(tx'[t].todo) : tx'[t].todo[i] = F[n + 1 + i]
  <2>. SUFFICES ASSUME NEW i \in 1..Len(tx'[t].todo) PROVE tx'[t].todo[i] = F[n + 1 + i]
       OBVIOUS
  <2>1. i \in 1..Len(tx[t].todo) - 1 /\ i + 1 \in 1..Len(tx[t].todo)
        BY <1>3, <1>6
  <2>2. tx'[t].todo[i] = F[n + (i + 1)]
        BY <1>3, <1>5, <1>6, <2>1
  <2>3. n + (i + 1) = n + 1 + i
        BY <1>5, <2>1
  <2>. QED BY <2>2, <2>3
<1>13. LockSteps(t)'
  <2>1. tx'[t].held = { FootprintOf(t)'[i] : i \in 1..Taken(t)' }
        BY <1>7, <1>9, <1>11
  <2>2. \A i \in 1..Len(tx'[t].todo) : tx'[t].todo[i] = FootprintOf(t)'[Taken(t)' + i]
        BY <1>7, <1>9, <1>12
  <2>3. Taken(t)' \in Nat
        BY <1>5, <1>9
  <2>. QED BY <1>3, <1>5, <2>1, <2>2, <2>3 DEF LockSteps
<1>14. \A u \in Txs \ {t} : LockSteps(u)'
      BY <1>2, LeftAlone
<1>15. Exclusive'
  <2>1. \A u \in Txs \ {t} : \A l \in tx[u].held : ~Conflicting(l, next)
        BY <1>1 DEF Blockers, At, next
  <2>2. \A l, m : Conflicting(l, m) <=> Conflicting(m, l)
        BY DEF Conflicting, SameResource
  <2>. HIDE DEF Conflicting
  <2>3. \A u, v \in Txs : u # v => \A l \in tx[u].held, m \in tx[v].held : ~Conflicting(l, m)
        BY DEF DeadlockInv, Exclusive
  <2>. SUFFICES ASSUME NEW u \in Txs, NEW v \in Txs, u # v, NEW l \in tx'[u].held,
                       NEW m \in tx'[v].held, Conflicting(l, m)
                PROVE  FALSE
       BY DEF Exclusive
  <2>4. CASE u = t
        BY <1>2, <1>3, <2>1, <2>2, <2>3, <2>4
  <2>5. CASE v = t
        BY <1>2, <1>3, <2>1, <2>3, <2>5
  <2>6. CASE u # t /\ v # t
        BY <1>2, <2>3, <2>6
  <2>. QED BY <2>4, <2>5, <2>6
<1>. QED BY <1>13, <1>14, <1>15

\* Beginning takes nothing yet, ending gives everything back.
LEMMA BeginKeepsSteps ==
    ASSUME GuardInv, DeadlockInv, NEW t \in Txs, NEW kind \in AllKinds, NEW d \in Dispatches,
           NEW j \in Tx, Begin(t, kind, d, j), j.held = {}
    PROVE  DeadlockInv'
<1>1. /\ tx'[t].pc = "locks" /\ tx'[t].kind = kind /\ tx'[t].dispatch = d
      /\ tx'[t].todo = Footprint(kind, d) /\ tx'[t].held = {}
      /\ \A u \in Txs \ {t} : tx'[u] = tx[u]
      BY DEF Begin, GuardInv, TypeOK, Tx
<1>2. Len(Footprint(kind, d)) \in Nat
      BY FootprintType
<1>3. FootprintOf(t)' = Footprint(kind, d) /\ Taken(t)' = 0
      BY <1>1, <1>2 DEF FootprintOf, Taken
<1>. HIDE DEF Footprint
<1>4. LockSteps(t)'
      BY <1>1, <1>2, <1>3 DEF LockSteps
<1>5. \A u \in Txs \ {t} : LockSteps(u)'
      BY <1>1, LeftAlone
<1>6. Exclusive'
      BY <1>1 DEF Exclusive, DeadlockInv
<1>7. ASSUME NEW u \in Txs PROVE OwnsKeys(u)'
  <2>1. advisory' = advisory /\ tx[t] = Idle
        BY DEF Begin
  <2>2. OwnsKeys(u)
        BY DEF DeadlockInv
  <2>3. CASE u = t
        BY <2>1, <2>2, <2>3 DEF OwnsKeys, Idle
  <2>4. CASE u # t
        BY <1>1, <2>1, <2>2, <2>4 DEF OwnsKeys, KeyOf
  <2>. QED BY <2>3, <2>4
<1>. QED BY <1>4, <1>5, <1>6, <1>7 DEF DeadlockInv

LEMMA EndKeepsSteps ==
    ASSUME GuardInv, DeadlockInv, NEW t \in Txs, End(t)
    PROVE  DeadlockInv'
<1>1. /\ tx'[t] = Idle /\ \A u \in Txs \ {t} : tx'[u] = tx[u]
      /\ \A k \in Keys, u \in Txs : advisory'[k] = u => u # t /\ advisory[k] = u
  <2>1. None \notin Txs
        BY GuardAssumption
  <2>. QED BY <2>1 DEF End, GuardInv, TypeOK
<1>2. LockSteps(t)' /\ tx'[t].held = {}
      BY <1>1, IdleHoldsNothing
<1>3. \A u \in Txs \ {t} : LockSteps(u)'
      BY <1>1, LeftAlone
<1>4. Exclusive'
      BY <1>1, <1>2 DEF Exclusive, DeadlockInv
<1>5. \A u \in Txs : OwnsKeys(u)'
      BY <1>1 DEF OwnsKeys, DeadlockInv, KeyOf
<1>. QED BY <1>2, <1>3, <1>4, <1>5 DEF DeadlockInv

\* The keys the trigger takes, and in which order.
LEMMA TriggerKeepsKeys ==
    ASSUME GuardInv, DeadlockInv, NEW t \in Txs,
           Fire(t) \/ LockVehicle(t) \/ ScanVehicle(t) \/ LockDriver(t) \/ ScanDriver(t)
    PROVE  \A u \in Txs : OwnsKeys(u)'
<1>1. tx[t] \in Tx /\ tx \in [Txs -> Tx] /\ advisory \in [Keys -> Txs \union {None}]
      /\ \A u \in Txs : OwnsKeys(u)
      BY DEF GuardInv, TypeOK, DeadlockInv
<1>2. \A u \in Txs \ {t} : tx'[u] = tx[u]
      BY TriggerKeepsLocks DEF KeepsLocks
<1>3. ASSUME NEW u \in Txs, NEW k \in Keys, advisory'[k] = u
      PROVE  \/ advisory[k] = u
             \/ /\ u = t /\ LockVehicle(t) /\ tx[t].row.pair[1] # None /\ k = KeyOf(t, 1)
             \/ /\ u = t /\ LockDriver(t) /\ tx[t].row.pair[2] # None /\ k = KeyOf(t, 2)
      BY <1>1, <1>3 DEF Fire, LockVehicle, ScanVehicle, LockDriver, ScanDriver
<1>4. ASSUME NEW u \in Txs \ {t} PROVE OwnsKeys(u)'
      BY <1>1, <1>2, <1>3, <1>4 DEF OwnsKeys, KeyOf
<1>5. CASE Fire(t)
  <2>1. tx[t].pc = "locks" /\ advisory' = advisory
        BY <1>5 DEF Fire, At
  <2>. QED BY <1>1, <1>4, <2>1 DEF OwnsKeys
<1>6. CASE LockVehicle(t) \/ ScanVehicle(t) \/ LockDriver(t) \/ ScanDriver(t)
  <2>1. tx'[t].row = tx[t].row /\ KeyOf(t, 1)' = KeyOf(t, 1) /\ KeyOf(t, 2)' = KeyOf(t, 2)
    <3>1. PICK place : tx' = [tx EXCEPT ![t].pc = place]
      <4>1. CASE LockVehicle(t)
            BY <4>1 DEF LockVehicle
      <4>2. CASE ScanVehicle(t)
            BY <4>2 DEF ScanVehicle
      <4>3. CASE LockDriver(t)
            BY <4>3 DEF LockDriver
      <4>4. CASE ScanDriver(t)
            BY <4>4 DEF ScanDriver
      <4>. QED BY <1>6, <4>1, <4>2, <4>3, <4>4
    <3>2. tx'[t].row = tx[t].row
          BY <1>1, <3>1 DEF Tx
    <3>. QED BY <3>2 DEF KeyOf
  <2>2. /\ LockVehicle(t) => /\ tx[t].pc = "vehicle"
                             /\ tx[t].row.pair[1] # None => tx'[t].pc = "scanVehicle"
        /\ ScanVehicle(t) => tx[t].pc = "scanVehicle" /\ tx'[t].pc = "driver"
        /\ LockDriver(t) => /\ tx[t].pc = "driver" /\ tx'[t].pc \in {"scanDriver", "commit"}
                            /\ tx[t].row.pair[2] # None => tx'[t].pc = "scanDriver"
        /\ ScanDriver(t) => tx[t].pc = "scanDriver" /\ tx'[t].pc = "commit"
        BY <1>1 DEF LockVehicle, ScanVehicle, LockDriver, ScanDriver, At, Tx
  <2>. HIDE DEF KeyOf, LockVehicle, ScanVehicle, LockDriver, ScanDriver
  <2>3. OwnsKeys(t)'
    <3>. SUFFICES ASSUME NEW k \in Keys, advisory'[k] = t
                  PROVE  \/ /\ tx'[t].row.pair[1] # None /\ k = KeyOf(t, 1)'
                            /\ tx'[t].pc \in {"scanVehicle", "driver", "scanDriver", "commit"}
                         \/ /\ tx'[t].row.pair[2] # None /\ k = KeyOf(t, 2)'
                            /\ tx'[t].pc \in {"scanDriver", "commit"}
         BY DEF OwnsKeys
    <3>1. CASE advisory[k] = t
          BY <1>1, <1>6, <2>1, <2>2, <3>1 DEF OwnsKeys
    <3>. QED BY <1>3, <2>1, <2>2, <3>1
  <2>. QED BY <1>4, <2>3
<1>. QED BY <1>5, <1>6

LEMMA InitDeadlockInv == Init => DeadlockInv
<1>. SUFFICES ASSUME Init PROVE DeadlockInv
     OBVIOUS
<1>1. None \notin Txs /\ \A t \in Txs : tx[t] = Idle
      BY GuardAssumption DEF Init
<1>2. \A t \in Txs : LockSteps(t) /\ tx[t].held = {}
      BY <1>1 DEF LockSteps, Idle
<1>3. \A t \in Txs : OwnsKeys(t)
      BY <1>1 DEF OwnsKeys, Init
<1>. QED BY <1>2, <1>3 DEF DeadlockInv, Exclusive

LEMMA NextDeadlockInv == GuardInv /\ DeadlockInv /\ [Next]_vars => DeadlockInv'
<1>. SUFFICES ASSUME GuardInv, DeadlockInv, [Next]_vars PROVE DeadlockInv'
     OBVIOUS
<1>1. ASSUME UNCHANGED vars PROVE DeadlockInv'
  <2>1. tx' = tx /\ advisory' = advisory
        BY <1>1 DEF vars
  <2>2. \A t \in Txs : LockSteps(t)'
        BY <2>1, LeftAlone
  <2>3. \A t \in Txs : OwnsKeys(t)'
        BY <2>1 DEF DeadlockInv, OwnsKeys, KeyOf
  <2>4. Exclusive'
        BY <2>1 DEF DeadlockInv, Exclusive
  <2>. QED BY <2>2, <2>3, <2>4 DEF DeadlockInv
<1>2. ASSUME NEW t \in Txs, NEW kind \in Kinds, NEW d \in Dispatches, NEW pair \in Pairs,
             NEW window \in Windows, Reserve(t, kind, d, pair, window)
      PROVE  DeadlockInv'
  <2>. DEFINE j == [Idle EXCEPT !.pair = pair, !.window = window]
  <2>1. j \in Tx /\ j.held = {}
        BY IdleType DEF Idle, Tx
  <2>2. Begin(t, kind, d, j) /\ kind \in AllKinds
        BY <1>2, GuardAssumption DEF Reserve
  <2>. HIDE DEF j
  <2>. QED BY <2>1, <2>2, BeginKeepsSteps
<1>3. ASSUME NEW t \in Txs, NEW kind \in Kinds, NEW d \in Dispatches,
             NEW to \in Targets(kind, board[d].status), Move(t, kind, d, to)
      PROVE  DeadlockInv'
  <2>. DEFINE j == [Idle EXCEPT !.to = to]
  <2>1. to \in DispatchStatus
        BY DEF Targets, DispatchStatus
  <2>2. j \in Tx /\ j.held = {}
        BY <2>1, IdleType DEF Idle, Tx
  <2>3. Begin(t, kind, d, j) /\ kind \in AllKinds
        BY <1>3, GuardAssumption DEF Move
  <2>. HIDE DEF j
  <2>. QED BY <2>2, <2>3, BeginKeepsSteps
<1>4. ASSUME NEW t \in Txs, Step(t) PROVE DeadlockInv'
  <2>1. CASE Commit(t) \/ Refuse(t)
        BY <2>1, EndKeepsSteps DEF Commit, Refuse
  <2>2. CASE Lock(t)
    <3>1. \A u \in Txs : tx'[u].pc = tx[u].pc /\ tx'[u].row = tx[u].row
          BY <2>2 DEF Lock, GuardInv, TypeOK, Tx
    <3>2. advisory' = advisory
          BY <2>2 DEF Lock
    <3>3. \A u \in Txs : OwnsKeys(u)'
          BY <3>1, <3>2 DEF DeadlockInv, OwnsKeys, KeyOf
    <3>. QED BY <2>2, <3>3, LockKeepsSteps DEF DeadlockInv
  <2>3. CASE Fire(t) \/ LockVehicle(t) \/ ScanVehicle(t) \/ LockDriver(t) \/ ScanDriver(t)
        BY <2>3, TriggerKeepsLocks, KeepsLocksKeepsSteps, TriggerKeepsKeys DEF DeadlockInv
  <2>. QED BY <1>4, <2>1, <2>2, <2>3 DEF Step
<1>5. ASSUME NEW t \in Txs, Fail(t) PROVE DeadlockInv'
      BY <1>5, EndKeepsSteps DEF Fail
<1>6. ASSUME BreakDeadlock PROVE DeadlockInv'
  <2>1. PICK t \in Txs : End(t)
        BY <1>6 DEF BreakDeadlock
  <2>. QED BY <2>1, EndKeepsSteps
<1>. QED BY <1>1, <1>2, <1>3, <1>4, <1>5, <1>6 DEF Next

(* Who can wait *)

Leads(t) == Table("drivers", "SRE") \in tx[t].held

\* At most one transaction leads: the table's lock admits one holder.
LEMMA OneLeads ==
    ASSUME DeadlockInv, NEW t \in Txs, NEW u \in Txs, Leads(t), Leads(u)
    PROVE  t = u
BY DEF DeadlockInv, Exclusive, Leads, Conflicting, SameResource, Table

\* A transaction that holds a lock and still has one to take leads, unless it is
\* a light one, which holds its table for writing.
LEMMA HoldersLead ==
    ASSUME GuardInv, DeadlockInv, NEW t \in Txs, tx[t].pc = "locks", tx[t].todo # <<>>,
           tx[t].kind # "ground", tx[t].held # {}
    PROVE  /\ Leads(t) \/ (tx[t].held = {Table("dispatchschedules", "RX")}
                           /\ Head(tx[t].todo) = DispatchRowOf(tx[t].dispatch))
           /\ (\E l \in tx[t].held : l[1] = "dispatch") => Leads(t) /\ tx[t].kind \in Preparing
           /\ tx[t].kind \in Preparing =>
                  ~Conflicting(Head(tx[t].todo), Table("dispatchschedules", "RX"))
<1>. DEFINE F == FootprintOf(t)
            n == Taken(t)
            d == tx[t].dispatch
            kind == tx[t].kind
<1>1. /\ d \in Dispatches /\ kind \in AllKinds /\ n \in Nat
      /\ tx[t].held = { F[i] : i \in 1..n }
      /\ n = Len(F) - Len(tx[t].todo)
      /\ \A i \in 1..Len(tx[t].todo) : tx[t].todo[i] = F[n + i]
      /\ tx[t].todo \in Seq(Locks)
      BY DEF GuardInv, TypeOK, Tx, DeadlockInv, LockSteps, Taken
<1>2. Len(tx[t].todo) \in Nat \ {0} /\ Head(tx[t].todo) = tx[t].todo[1]
      BY <1>1, EmptySeq
<1>3. F = Footprint(kind, d) /\ F \in Seq(Locks)
      BY <1>1, FootprintType DEF FootprintOf
<1>. HIDE DEF F, n, d, kind
<1>4. 1 \in 1..n
      BY <1>1
<1>5. Len(F) \in Nat /\ n < Len(F) /\ n + 1 \in 1..Len(F) /\ 1 \in 1..Len(F)
      /\ Head(tx[t].todo) = F[n + 1]
  <2>1. Len(F) \in Nat
        BY <1>3
  <2>2. 1 \in 1..Len(tx[t].todo)
        BY <1>2
  <2>3. Head(tx[t].todo) = F[n + 1]
        BY <1>1, <1>2, <2>2
  <2>4. n < Len(F) /\ n + 1 \in 1..Len(F) /\ 1 \in 1..Len(F)
    <3>. DEFINE m == Len(tx[t].todo)
    <3>1. m \in Nat \ {0} /\ n \in Nat /\ n = Len(F) - m
          BY <1>1, <1>2
    <3>. HIDE DEF m
    <3>. QED BY <2>1, <3>1
  <2>. QED BY <2>1, <2>3, <2>4
<1>6. F[1] \in tx[t].held
      BY <1>1, <1>4
<1>7. CASE kind \in Gathering
  <2>1. \A i \in 1..Len(F) : F[i][1] = "dispatch" => i = Len(F)
        BY <1>1, <1>3, <1>7, GatheringShape
  <2>2. F[1] = Table("drivers", "SRE")
        BY <1>1, <1>3, <1>5, <1>7, GatheringShape
  <2>3. Leads(t)
        BY <1>6, <2>2 DEF Leads
  <2>4. \A l \in tx[t].held : l[1] # "dispatch"
    <3>. SUFFICES ASSUME NEW i \in 1..n PROVE F[i][1] # "dispatch"
         BY <1>1
    <3>1. i \in 1..Len(F) /\ i # Len(F)
          BY <1>1, <1>5
    <3>. QED BY <2>1, <3>1
  <2>5. kind \notin Preparing
        BY <1>7 DEF Gathering, Preparing
  <2>. QED BY <2>3, <2>4, <2>5 DEF kind
<1>8. CASE kind \in Preparing
  <2>1. F[1] = Table("drivers", "SRE")
        BY <1>1, <1>3, <1>5, <1>8, PreparingShape
  <2>2. ~Conflicting(F[n + 1], Table("dispatchschedules", "RX"))
        BY <1>1, <1>3, <1>5, <1>8, PreparingShape
  <2>3. Leads(t)
        BY <1>6, <2>1 DEF Leads
  <2>. QED BY <1>5, <1>8, <2>2, <2>3 DEF kind
<1>9. CASE kind \in Light
  <2>1. F = << Table("dispatchschedules", "RX"), DispatchRowOf(d) >>
        BY <1>1, <1>3, <1>9, LightShape
  <2>2. n = 1
        BY <1>1, <1>4, <1>5, <2>1
  <2>3. tx[t].held = {Table("dispatchschedules", "RX")} /\ Head(tx[t].todo) = DispatchRowOf(d)
        BY <1>1, <1>5, <2>1, <2>2
  <2>4. kind \notin Preparing
        BY <1>9 DEF Light, Preparing
  <2>. QED BY <2>3, <2>4 DEF d, kind, Table
<1>. QED BY <1>1, <1>7, <1>8, <1>9 DEF kind, AllKinds, Gathering, Preparing, Light

\* Without a grounding, nobody at a key is part of a cycle: who holds the key
\* is past it.
LEMMA NobodyWaitsAtKeys ==
    ASSUME KeysApart, GuardInv, DeadlockInv, NEW S \in SUBSET Txs, Waiting(S), NEW t \in S
    PROVE  /\ tx[t].pc = "locks" /\ tx[t].todo # <<>>
           /\ \E u \in S \ {t}, l \in Locks : l \in tx[u].held /\ Conflicting(l, Head(tx[t].todo))
<1>1. \A u \in S : Blockers(u) \intersect S # {}
      BY DEF Waiting
<1>2. \A u \in S : /\ tx[u].pc \in {"locks", "vehicle", "driver"}
                   /\ tx[u].pc = "locks" => tx[u].todo # <<>>
      BY <1>1 DEF Blockers, At
<1>3. ASSUME NEW u \in S, NEW i \in {1, 2}, tx[u].row.pair[i] # None,
             advisory[KeyOf(u, i)] \in S
      PROVE  i = 1 /\ tx[advisory[KeyOf(u, i)]].pc = "driver"
  <2>. DEFINE v == advisory[KeyOf(u, i)]
  <2>1. KeyOf(u, i) \in Keys
        BY <1>3, KeyType DEF GuardInv
  <2>2. \/ v \in S /\ tx[v].row.pair[1] # None /\ KeyOf(u, i) = KeyOf(v, 1)
           /\ tx[v].pc \in {"scanVehicle", "driver", "scanDriver", "commit"}
        \/ v \in S /\ tx[v].row.pair[2] # None /\ KeyOf(u, i) = KeyOf(v, 2)
           /\ tx[v].pc \in {"scanDriver", "commit"}
        BY <1>3, <2>1 DEF DeadlockInv, OwnsKeys
  <2>. HIDE DEF v
  <2>3. v \in S /\ tx[v].row.pair[1] # None /\ KeyOf(u, i) = KeyOf(v, 1) /\ tx[v].pc = "driver"
        BY <1>2, <2>2
  <2>4. i = 1
    <3>. SUFFICES ASSUME i = 2 PROVE FALSE
         OBVIOUS
    <3>1. tx[u].row.pair \in MaybePair /\ tx[v].row.pair \in MaybePair
          BY <2>3 DEF GuardInv, TypeOK, Tx, Row
    <3>2. tx[u].row.pair[2] \in Drivers /\ tx[v].row.pair[1] \in Vehicles
          BY <1>3, <2>3, <3>1 DEF MaybePair
    <3>. QED BY <2>3, <3>2 DEF KeyOf, KeysApart
  <2>. QED BY <2>3, <2>4 DEF v
<1>4. \A u \in S : tx[u].pc # "driver"
  <2>. SUFFICES ASSUME NEW u \in S, tx[u].pc = "driver" PROVE FALSE
       OBVIOUS
  <2>1. tx[u].row.pair[2] # None /\ advisory[KeyOf(u, 2)] \in S
        BY <1>1 DEF Blockers, At
  <2>. QED BY <1>3, <2>1
<1>5. tx[t].pc # "vehicle"
  <2>. SUFFICES ASSUME tx[t].pc = "vehicle" PROVE FALSE
       OBVIOUS
  <2>1. tx[t].row.pair[1] # None /\ advisory[KeyOf(t, 1)] \in S
        BY <1>1 DEF Blockers, At
  <2>. QED BY <1>3, <1>4, <2>1
<1>6. tx[t].pc = "locks" /\ tx[t].todo # <<>>
      BY <1>2, <1>4, <1>5
<1>7. PICK u \in S : u \in Txs \ {t} /\ \E l \in tx[u].held : Conflicting(l, Head(tx[t].todo))
      BY <1>1, <1>6 DEF Blockers, At
<1>8. tx[u].held \subseteq Locks
      BY <1>7 DEF GuardInv, TypeOK, Tx
<1>. QED BY <1>6, <1>7, <1>8

\* Nor is there a cycle of table and row locks.
LEMMA GroundingCloses ==
    ASSUME KeysApart, GuardInv, DeadlockInv, NEW S \in SUBSET Txs, Waiting(S)
    PROVE  \E t \in S : tx[t].kind = "ground"
<1>. SUFFICES ASSUME \A t \in S : tx[t].kind # "ground" PROVE FALSE
     OBVIOUS
<1>1. \A t \in S : /\ tx[t].pc = "locks" /\ tx[t].todo # <<>>
                   /\ \E u \in S \ {t}, l \in Locks :
                         l \in tx[u].held /\ Conflicting(l, Head(tx[t].todo))
      BY NobodyWaitsAtKeys
<1>2. \A t \in S : tx[t].held # {} =>
        /\ Leads(t) \/ (tx[t].held = {Table("dispatchschedules", "RX")}
                        /\ Head(tx[t].todo) = DispatchRowOf(tx[t].dispatch))
        /\ (\E l \in tx[t].held : l[1] = "dispatch") => Leads(t) /\ tx[t].kind \in Preparing
        /\ tx[t].kind \in Preparing =>
               ~Conflicting(Head(tx[t].todo), Table("dispatchschedules", "RX"))
      BY <1>1, HoldersLead
<1>3. \A l, m : Conflicting(l, m) <=> Conflicting(m, l)
      BY DEF Conflicting, SameResource
<1>. HIDE DEF Conflicting
<1>4. \A t \in S : ~(Leads(t) /\ tx[t].kind \in Preparing)
  <2>. SUFFICES ASSUME NEW t \in S, Leads(t), tx[t].kind \in Preparing PROVE FALSE
       OBVIOUS
  <2>1. PICK u \in S \ {t}, l \in Locks : l \in tx[u].held /\ Conflicting(l, Head(tx[t].todo))
        BY <1>1
  <2>2. ~Leads(u)
        BY <2>1, OneLeads
  <2>3. l = Table("dispatchschedules", "RX")
        BY <1>2, <2>1, <2>2
  <2>4. tx[t].held # {}
        BY DEF Leads
  <2>. QED BY <1>2, <1>3, <2>1, <2>3, <2>4
<1>5. ASSUME NEW t \in S, tx[t].held # {} PROVE Leads(t)
  <2>. SUFFICES ASSUME Head(tx[t].todo) = DispatchRowOf(tx[t].dispatch) PROVE FALSE
       BY <1>2, <1>5
  <2>1. PICK u \in S \ {t}, l \in Locks : l \in tx[u].held /\ Conflicting(l, Head(tx[t].todo))
        BY <1>1
  <2>2. l[1] = "dispatch"
        BY <2>1 DEF Conflicting, SameResource, DispatchRowOf
  <2>. QED BY <1>2, <1>4, <2>1, <2>2
<1>6. PICK t \in S : TRUE
      BY DEF Waiting
<1>7. PICK u \in S : tx[u].held # {}
      BY <1>1, <1>6
<1>8. PICK v \in S \ {u} : tx[v].held # {}
      BY <1>1, <1>7
<1>. QED BY <1>5, <1>7, <1>8, OneLeads

\* Only a transaction that grounds a vehicle can be part of a cycle of waiting
\* transactions: of those with evidence or prepared, one at most is past the table
\* drivers and the rest hold nothing; a light one waits for a row that only a
\* prepared one holds, which waits for nothing of a light one.
THEOREM OnlyGroundingDeadlocksHolds ==
    ASSUME KeysApart
    PROVE  Spec => []OnlyGroundingDeadlocks
<1>1. GuardInv /\ DeadlockInv => OnlyGroundingDeadlocks
      BY GroundingCloses DEF OnlyGroundingDeadlocks, Deadlocked
<1>2. Spec => []DeadlockInv
      BY InitDeadlockInv, NextDeadlockInv, AlwaysGuardInv, PTL DEF Spec
<1>. QED BY <1>1, <1>2, AlwaysGuardInv, PTL
=============================================================================

--------------------------- MODULE ProgressProofs ---------------------------
(***************************************************************************)
(* No status event is silently dropped, for any number of emissions and    *)
(* retries that overlap, fail and stop: proved from the one thing a worker *)
(* knows when it marks a row, that Booking has answered for that row.      *)
(*                                                                         *)
(* The breadth first search of a path returns the one walk there is, or    *)
(* finds that there is none: every status it has visited is at the end of  *)
(* a queued walk, or it has gone on from it wherever the rules allow.      *)
(***************************************************************************)
EXTENDS MCProgress, SequenceTheorems, WellFoundedInduction, TLAPS

Statuses == {"pending", "processed", "failed"}

\* A worker about to mark a row as delivered had the answer for it.
MarksWereAnswered == \A w \in Workers : At(w, "mark") => Current(w) \in heard

OutboundInv == TypeOK /\ ProcessedWasHeard /\ MarksWereAnswered

------------------------------------------------------------------------------
(* Facts about the oldest row *)

\* A set of rows has an oldest one.
LEMMA OldestOf ==
    ASSUME NEW S \in SUBSET Nat, S # {}
    PROVE  Oldest(S) \in S
<1>. DEFINE less == { ss \in Nat \X Nat : ss[1] < ss[2] }
<1>1. IsWellFoundedOn(less, Nat)
      BY NatLessThanWellFounded DEF OpToRel
<1>0. \A a, b \in Nat : a < b => <<a, b>> \in less
      OBVIOUS
<1>. HIDE DEF less
<1>2. PICK i \in S : \A j \in S : <<j, i>> \notin less
      BY <1>1, WFMin
<1>3. ASSUME NEW j \in S PROVE i <= j
  <2>1. i \in Nat /\ j \in Nat /\ <<j, i>> \notin less
        BY <1>2
  <2>2. ~(j < i)
        BY <1>0, <2>1
  <2>. QED BY <2>1, <2>2
<1>. QED BY <1>3 DEF Oldest

\* So what a busy worker does next is a row of the log.
LEMMA CurrentIsRow ==
    ASSUME TypeOK, NEW w \in Workers, ~At(w, "idle")
    PROVE  Current(w) \in call[w].todo /\ Current(w) \in 1..Len(log)
<1>1. call[w].todo # {} /\ call[w].todo \subseteq DOMAIN log
      BY DEF TypeOK, At
<1>2. DOMAIN log = 1..Len(log) /\ Len(log) \in Nat
      BY LenProperties DEF TypeOK
<1>3. call[w].todo \in SUBSET Nat
      BY <1>1, <1>2
<1>. QED BY <1>1, <1>2, <1>3, OldestOf DEF Current

\* The status of a row is overwritten, the rows stay.
LEMMA MarkedLog ==
    ASSUME TypeOK, NEW i \in 1..Len(log), NEW status \in Statuses
    PROVE  LET new == [log EXCEPT ![i] = status]
           IN  /\ new \in Seq(Statuses) /\ Len(new) = Len(log) /\ DOMAIN new = DOMAIN log
               /\ new[i] = status /\ \A j \in DOMAIN log \ {i} : new[j] = log[j]
<1>1. log \in Seq(Statuses)
      BY DEF TypeOK, Statuses
<1>. QED BY <1>1, ExceptSeq, LenProperties

------------------------------------------------------------------------------
(* The workers' records *)

\* Going from one step to another keeps the worker's rows.
LEMMA GotoKeepsCalls ==
    ASSUME TypeOK, NEW w \in Workers, ~At(w, "idle"), NEW step \in {"send", "mark", "fail"},
           Goto(w, step), DOMAIN log' = DOMAIN log
    PROVE  /\ call' \in [Workers -> [todo: SUBSET Rows, pc: {"idle", "send", "mark", "fail"}]]
           /\ \A u \in Workers : call'[u].todo \subseteq DOMAIN log'
           /\ \A u \in Workers : call'[u].pc = "idle" <=> call'[u].todo = {}
           /\ call'[w].pc = step
           /\ \A u \in Workers : call'[u].todo = call[u].todo
           /\ \A u \in Workers \ {w} : call'[u] = call[u]
<1>1. call'[w] = [call[w] EXCEPT !.pc = step] /\ \A u \in Workers \ {w} : call'[u] = call[u]
      BY DEF Goto, TypeOK
<1>2. call[w].todo # {} /\ call[w] \in [todo: SUBSET Rows, pc: {"idle", "send", "mark", "fail"}]
      BY DEF TypeOK, At
<1>3. call' \in [Workers -> [todo: SUBSET Rows, pc: {"idle", "send", "mark", "fail"}]]
      BY DEF Goto, TypeOK
<1>. QED BY SMTT(30), <1>1, <1>2, <1>3 DEF TypeOK

\* So does a worker that is done with a row, but for that row.
LEMMA AdvanceKeepsCalls ==
    ASSUME TypeOK, NEW w \in Workers, ~At(w, "idle"), Advance(w), DOMAIN log' = DOMAIN log
    PROVE  /\ call' \in [Workers -> [todo: SUBSET Rows, pc: {"idle", "send", "mark", "fail"}]]
           /\ \A u \in Workers : call'[u].todo \subseteq DOMAIN log'
           /\ \A u \in Workers : call'[u].pc = "idle" <=> call'[u].todo = {}
           /\ call'[w].pc # "mark"
           /\ \A u \in Workers \ {w} : call'[u] = call[u]
<1>. DEFINE new == [todo |-> call[w].todo \ {Current(w)},
                    pc |-> IF call[w].todo = {Current(w)} THEN "idle" ELSE "send"]
<1>1. call' = [call EXCEPT ![w] = new]
      BY DEF Advance
<1>2. Current(w) \in call[w].todo
      BY CurrentIsRow
<1>3. new \in [todo: SUBSET Rows, pc: {"idle", "send", "mark", "fail"}]
      BY DEF TypeOK
<1>4. (new.pc = "idle" <=> new.todo = {}) /\ new.pc # "mark" /\ new.todo \subseteq call[w].todo
      BY <1>2
<1>. HIDE DEF new
<1>5. call'[w] = new /\ \A u \in Workers \ {w} : call'[u] = call[u]
      BY <1>1 DEF TypeOK
<1>. QED BY <1>1, <1>3, <1>4, <1>5 DEF TypeOK

------------------------------------------------------------------------------
(* The steps of a delivery *)

\* Nothing is logged and nobody marks anything at first.
LEMMA InitOutboundInv == Init => OutboundInv
<1>. SUFFICES ASSUME Init PROVE OutboundInv
     OBVIOUS
<1>1. log = <<>> /\ log \in Seq(Statuses) /\ Len(log) = 0 /\ DOMAIN log = {}
      BY DEF Init
<1>2. TypeOK
      BY <1>1, OutboundAssumption DEF Init, TypeOK, Idle, Statuses
<1>. QED BY <1>1, <1>2 DEF Init, OutboundInv, ProcessedWasHeard, MarksWereAnswered, At, Idle

\* The row comes first, unheard and unprocessed.
LEMMA EmitKeepsInv ==
    ASSUME OutboundInv, NEW w \in Emitters, Emit(w)
    PROVE  OutboundInv'
<1>1. log \in Seq(Statuses) /\ Len(log) \in Nat /\ DOMAIN log = 1..Len(log) /\ MaxEvents \in Nat
      BY LenProperties, OutboundAssumption DEF OutboundInv, TypeOK, Statuses
<1>2. /\ log' \in Seq(Statuses) /\ Len(log') = Len(log) + 1
      /\ DOMAIN log' = 1..(Len(log) + 1) /\ log'[Len(log) + 1] = "pending"
      /\ \A i \in DOMAIN log : log'[i] = log[i]
      BY <1>1, AppendProperties, LenProperties DEF Emit, Statuses
<1>. DEFINE new == [todo |-> {Len(log) + 1}, pc |-> "send"]
<1>3. w \in Workers /\ new \in [todo: SUBSET Rows, pc: {"idle", "send", "mark", "fail"}]
      BY <1>1 DEF Emit, Rows, Workers
<1>4. call'[w] = new /\ \A u \in Workers \ {w} : call'[u] = call[u]
      BY <1>3 DEF Emit, OutboundInv, TypeOK
<1>5. new.todo # {} /\ new.todo \subseteq DOMAIN log' /\ new.pc = "send"
      BY <1>1, <1>2
<1>6. call' \in [Workers -> [todo: SUBSET Rows, pc: {"idle", "send", "mark", "fail"}]]
      BY <1>3 DEF Emit, OutboundInv, TypeOK
<1>. HIDE DEF new
<1>7. TypeOK'
      BY <1>1, <1>2, <1>4, <1>5, <1>6 DEF Emit, OutboundInv, TypeOK, Statuses
<1>8. ProcessedWasHeard'
      BY <1>1, <1>2 DEF Emit, OutboundInv, ProcessedWasHeard
<1>9. MarksWereAnswered'
      BY <1>4, <1>5 DEF Emit, OutboundInv, MarksWereAnswered, At, Current
<1>. QED BY <1>7, <1>8, <1>9 DEF OutboundInv

\* A reconcile run starts with sending.
LEMMA ReconcileKeepsInv ==
    ASSUME OutboundInv, NEW w \in Retriers, Reconcile(w)
    PROVE  OutboundInv'
<1>. DEFINE new == [todo |-> Batch, pc |-> "send"]
<1>1. DOMAIN log \subseteq Rows
      BY LenProperties, OutboundAssumption DEF OutboundInv, TypeOK, Rows
<1>2. Batch \subseteq DOMAIN log /\ Batch # {} /\ w \in Workers
      BY DEF Batch, Retryable, Reconcile, Workers
<1>3. new \in [todo: SUBSET Rows, pc: {"idle", "send", "mark", "fail"}]
      BY <1>1, <1>2
<1>4. new.pc = "send" /\ new.todo # {} /\ new.todo \subseteq DOMAIN log
      BY <1>2
<1>. HIDE DEF new
<1>5. call' = [call EXCEPT ![w] = new] /\ UNCHANGED <<log, heard, stops>>
      BY DEF Reconcile, new
<1>6. call'[w] = new /\ \A u \in Workers \ {w} : call'[u] = call[u]
      BY <1>2, <1>5 DEF OutboundInv, TypeOK
<1>7. TypeOK'
      BY <1>3, <1>4, <1>5, <1>6 DEF OutboundInv, TypeOK
<1>8. MarksWereAnswered'
      BY <1>4, <1>5, <1>6 DEF OutboundInv, MarksWereAnswered, At, Current
<1>. QED BY <1>5, <1>7, <1>8 DEF OutboundInv, ProcessedWasHeard

LEMMA SendKeepsInv ==
    ASSUME OutboundInv, NEW w \in Workers, Send(w)
    PROVE  OutboundInv'
<1>1. TypeOK /\ ~At(w, "idle") /\ UNCHANGED <<log, stops>>
      BY DEF OutboundInv, Send, At
<1>2. Current(w) \in DOMAIN log
      BY <1>1, CurrentIsRow, LenProperties DEF TypeOK
<1>3. PICK step \in {"mark", "fail"} : Goto(w, step)
      BY DEF Send
<1>4. heard \subseteq heard' /\ heard' \subseteq DOMAIN log
      BY <1>1, <1>2 DEF Send, TypeOK
<1>5. step = "mark" => Current(w) \in heard'
  <2>1. SUFFICES ASSUME step = "mark" PROVE Current(w) \in heard'
        OBVIOUS
  <2>2. ~Goto(w, "fail")
        BY <1>1, <1>3, <2>1 DEF Goto, TypeOK
  <2>. QED BY <2>2 DEF Send
<1>6. TypeOK'
      BY <1>1, <1>3, <1>4, GotoKeepsCalls DEF TypeOK
<1>7. ProcessedWasHeard'
      BY <1>1, <1>4 DEF OutboundInv, ProcessedWasHeard
<1>8. MarksWereAnswered'
      BY <1>1, <1>3, <1>4, <1>5, GotoKeepsCalls
         DEF OutboundInv, MarksWereAnswered, At, Current
<1>. QED BY <1>6, <1>7, <1>8 DEF OutboundInv

LEMMA MarkKeepsInv ==
    ASSUME OutboundInv, NEW w \in Workers, Mark(w)
    PROVE  OutboundInv'
<1>1. TypeOK /\ At(w, "mark") /\ ~At(w, "idle") /\ UNCHANGED <<heard, stops>>
      BY DEF OutboundInv, Mark, At
<1>2. CASE Goto(w, "fail") /\ UNCHANGED log
  <2>1. TypeOK'
        BY <1>1, <1>2, GotoKeepsCalls DEF TypeOK
  <2>2. MarksWereAnswered'
        BY <1>1, <1>2, GotoKeepsCalls DEF OutboundInv, MarksWereAnswered, At, Current
  <2>. QED BY <1>1, <1>2, <2>1, <2>2 DEF OutboundInv, ProcessedWasHeard
<1>3. CASE log' = [log EXCEPT ![Current(w)] = "processed"] /\ Advance(w)
  <2>1. Current(w) \in heard /\ Current(w) \in 1..Len(log)
        BY <1>1, CurrentIsRow DEF OutboundInv, MarksWereAnswered
  <2>2. /\ log' \in Seq(Statuses) /\ Len(log') = Len(log) /\ DOMAIN log' = DOMAIN log
        /\ \A j \in DOMAIN log \ {Current(w)} : log'[j] = log[j]
        BY <1>1, <1>3, <2>1, MarkedLog DEF Statuses
  <2>3. TypeOK'
        BY <1>1, <1>3, <2>2, AdvanceKeepsCalls DEF TypeOK, Statuses
  <2>4. ProcessedWasHeard'
        BY <1>1, <2>1, <2>2 DEF OutboundInv, ProcessedWasHeard
  <2>5. MarksWereAnswered'
        BY <1>1, <1>3, <2>2, AdvanceKeepsCalls DEF OutboundInv, MarksWereAnswered, At, Current
  <2>. QED BY <2>3, <2>4, <2>5 DEF OutboundInv
<1>. QED BY <1>2, <1>3 DEF Mark

LEMMA FailKeepsInv ==
    ASSUME OutboundInv, NEW w \in Workers, Fail(w)
    PROVE  OutboundInv'
<1>1. TypeOK /\ ~At(w, "idle") /\ UNCHANGED <<heard, stops>> /\ Advance(w)
      BY DEF OutboundInv, Fail, At
<1>2. Current(w) \in 1..Len(log)
      BY <1>1, CurrentIsRow
<1>3. /\ log' \in Seq(Statuses) /\ Len(log') = Len(log) /\ DOMAIN log' = DOMAIN log
      /\ \A j \in DOMAIN log : log'[j] = "processed" => log[j] = "processed"
  <2>. DEFINE new == [log EXCEPT ![Current(w)] = "failed"]
  <2>1. CASE log' = log
        BY <1>1, <2>1 DEF TypeOK, Statuses
  <2>2. CASE log' = new
    <3>1. /\ new \in Seq(Statuses) /\ Len(new) = Len(log) /\ DOMAIN new = DOMAIN log
          /\ new[Current(w)] = "failed"
          /\ \A j \in DOMAIN log \ {Current(w)} : new[j] = log[j]
          BY <1>1, <1>2, MarkedLog DEF Statuses
    <3>. HIDE DEF new
    <3>2. "failed" # "processed"
          OBVIOUS
    <3>. QED BY <2>2, <3>1, <3>2
  <2>. QED BY <2>1, <2>2 DEF Fail
<1>4. TypeOK'
      BY <1>1, <1>3, AdvanceKeepsCalls DEF TypeOK, Statuses
<1>5. ProcessedWasHeard'
      BY <1>1, <1>3 DEF OutboundInv, ProcessedWasHeard
<1>6. MarksWereAnswered'
      BY <1>1, <1>3, AdvanceKeepsCalls DEF OutboundInv, MarksWereAnswered, At, Current
<1>. QED BY <1>4, <1>5, <1>6 DEF OutboundInv

LEMMA StopKeepsInv ==
    ASSUME OutboundInv, NEW w \in Workers, Stop(w)
    PROVE  OutboundInv'
<1>1. call'[w] = Idle /\ \A u \in Workers \ {w} : call'[u] = call[u]
      BY DEF Stop, OutboundInv, TypeOK
<1>2. call' \in [Workers -> [todo: SUBSET Rows, pc: {"idle", "send", "mark", "fail"}]]
      BY DEF Stop, OutboundInv, TypeOK, Idle
<1>3. TypeOK'
      BY <1>1, <1>2, OutboundAssumption DEF Stop, OutboundInv, TypeOK, Idle
<1>4. MarksWereAnswered'
      BY <1>1 DEF Stop, OutboundInv, MarksWereAnswered, At, Current, Idle
<1>. QED BY <1>3, <1>4 DEF Stop, OutboundInv, ProcessedWasHeard

LEMMA NextOutboundInv == OutboundInv /\ [Next]_vars => OutboundInv'
<1>1. OutboundInv /\ UNCHANGED vars => OutboundInv'
      BY DEF vars, OutboundInv, TypeOK, ProcessedWasHeard, MarksWereAnswered, At, Current
<1>. QED
     BY <1>1, EmitKeepsInv, ReconcileKeepsInv, SendKeepsInv, MarkKeepsInv, FailKeepsInv,
        StopKeepsInv DEF Next, Progress

------------------------------------------------------------------------------
(* Walks *)

\* The place of a status on the course of a request.
Place(s) == IF s = "Pending" THEN 1 ELSE IF s = "Scheduled" THEN 2
            ELSE IF s = "Assigned" THEN 3 ELSE IF s = "In Progress" THEN 4
            ELSE IF s = "Completed" THEN 5 ELSE 6

LEMMA Places ==
    /\ Place("Pending") = 1 /\ Place("Scheduled") = 2 /\ Place("Assigned") = 3
    /\ Place("In Progress") = 4 /\ Place("Completed") = 5 /\ Place("Cancelled") = 6
BY DEF Place

\* A hop goes one place on, or releases into Scheduled.
LEMMA HopsMoveOn ==
    ASSUME NEW a \in Search!ReservationStatus, NEW b \in Search!ReservationStatus,
           <<a, b>> \in Search!ReservationNext
    PROVE  /\ Place(a) \in 1..4 /\ Place(b) \in 2..5 /\ a # b
           /\ a \notin Search!TerminalReservation /\ b # "Cancelled"
           /\ \/ Place(b) = Place(a) + 1 /\ b # "Scheduled"
              \/ a = "Pending" /\ b = "Scheduled"
              \/ Place(a) \in 3..4 /\ a \in Search!ReleaseIntoScheduled /\ b = "Scheduled"
<1>1. \/ a = "Pending" /\ b = "Scheduled"
      \/ a = "Scheduled" /\ b = "Assigned"
      \/ a = "Assigned" /\ b \in {"In Progress", "Scheduled"}
      \/ a = "In Progress" /\ b \in {"Completed", "Scheduled"}
      BY DEF Search!ReservationNext
<1>2. 1 \in 1..4 /\ 2 \in 1..4 /\ 3 \in 1..4 /\ 4 \in 1..4
      /\ 2 \in 2..5 /\ 3 \in 2..5 /\ 4 \in 2..5 /\ 5 \in 2..5
      /\ 3 \in 3..4 /\ 4 \in 3..4 /\ 2 + 1 = 3 /\ 3 + 1 = 4 /\ 4 + 1 = 5
      OBVIOUS
<1>3. Place(a) \in 1..4 /\ Place(b) \in 2..5
      BY <1>1, <1>2, Places, Zenon
<1>4. \/ Place(b) = Place(a) + 1 /\ b # "Scheduled"
      \/ a = "Pending" /\ b = "Scheduled"
      \/ Place(a) \in 3..4 /\ a \in Search!ReleaseIntoScheduled /\ b = "Scheduled"
  <2>1. "Assigned" # "Scheduled" /\ "In Progress" # "Scheduled" /\ "Completed" # "Scheduled"
        /\ "Assigned" \in Search!ReleaseIntoScheduled
        /\ "In Progress" \in Search!ReleaseIntoScheduled
        BY DEF Search!ReleaseIntoScheduled
  <2>. QED BY <1>1, <1>2, <2>1, Places, Zenon
<1>. QED BY <1>1, <1>3, <1>4 DEF Search!TerminalReservation

\* The place tells the status.
LEMMA PlaceTells ==
    ASSUME NEW s \in Search!ReservationStatus
    PROVE  /\ Place(s) \in {1, 2, 3, 4, 5, 6}
           /\ Place(s) = 1 => s = "Pending"
           /\ Place(s) = 2 => s = "Scheduled"
           /\ Place(s) = 3 => s = "Assigned"
           /\ Place(s) = 4 => s = "In Progress"
           /\ Place(s) = 5 => s = "Completed"
           /\ Place(s) = 6 => s = "Cancelled"
<1>1. s \in {"Pending", "Scheduled", "Assigned", "In Progress", "Completed", "Cancelled"}
      BY DEF Search!ReservationStatus
<1>2. /\ 1 # 2 /\ 1 # 3 /\ 1 # 4 /\ 1 # 5 /\ 1 # 6 /\ 2 # 3 /\ 2 # 4 /\ 2 # 5 /\ 2 # 6
      /\ 3 # 4 /\ 3 # 5 /\ 3 # 6 /\ 4 # 5 /\ 4 # 6 /\ 5 # 6
      OBVIOUS
<1>3. Place(s) = 1 => s = "Pending"
      BY <1>1, <1>2, Places, Zenon
<1>4. Place(s) = 2 => s = "Scheduled"
      BY <1>1, <1>2, Places, Zenon
<1>5. Place(s) = 3 => s = "Assigned"
      BY <1>1, <1>2, Places, Zenon
<1>6. Place(s) = 4 => s = "In Progress"
      BY <1>1, <1>2, Places, Zenon
<1>7. Place(s) = 5 => s = "Completed"
      BY <1>1, <1>2, Places, Zenon
<1>8. Place(s) = 6 => s = "Cancelled"
      BY <1>1, <1>2, Places, Zenon
<1>9. Place(s) \in {1, 2, 3, 4, 5, 6}
      BY Zenon DEF Place
<1>. QED BY <1>3, <1>4, <1>5, <1>6, <1>7, <1>8, <1>9, Zenon

LEMMA PlacesDiffer ==
    ASSUME NEW a \in Search!ReservationStatus, NEW b \in Search!ReservationStatus,
           Place(a) = Place(b)
    PROVE  a = b
<1>. DEFINE k == Place(a)
<1>1. k \in {1, 2, 3, 4, 5, 6}
      BY PlaceTells, Zenon
<1>2. Place(a) = k /\ Place(b) = k
      BY Zenon
<1>. HIDE DEF k
<1>3. CASE k = 1
  <2>1. a = "Pending"
        BY <1>2, <1>3, PlaceTells, Zenon
  <2>2. b = "Pending"
        BY <1>2, <1>3, PlaceTells, Zenon
  <2>. QED BY <2>1, <2>2, Zenon
<1>4. CASE k = 2
  <2>1. a = "Scheduled"
        BY <1>2, <1>4, PlaceTells, Zenon
  <2>2. b = "Scheduled"
        BY <1>2, <1>4, PlaceTells, Zenon
  <2>. QED BY <2>1, <2>2, Zenon
<1>5. CASE k = 3
  <2>1. a = "Assigned"
        BY <1>2, <1>5, PlaceTells, Zenon
  <2>2. b = "Assigned"
        BY <1>2, <1>5, PlaceTells, Zenon
  <2>. QED BY <2>1, <2>2, Zenon
<1>6. CASE k = 4
  <2>1. a = "In Progress"
        BY <1>2, <1>6, PlaceTells, Zenon
  <2>2. b = "In Progress"
        BY <1>2, <1>6, PlaceTells, Zenon
  <2>. QED BY <2>1, <2>2, Zenon
<1>7. CASE k = 5
  <2>1. a = "Completed"
        BY <1>2, <1>7, PlaceTells, Zenon
  <2>2. b = "Completed"
        BY <1>2, <1>7, PlaceTells, Zenon
  <2>. QED BY <2>1, <2>2, Zenon
<1>8. CASE k = 6
  <2>1. a = "Cancelled"
        BY <1>2, <1>8, PlaceTells, Zenon
  <2>2. b = "Cancelled"
        BY <1>2, <1>8, PlaceTells, Zenon
  <2>. QED BY <2>1, <2>2, Zenon
<1>. QED BY <1>1, <1>3, <1>4, <1>5, <1>6, <1>7, <1>8

\* A walk of at least two statuses
Walk(p) == p \in Seq(Search!ReservationStatus) /\ Len(p) > 1 /\ Search!IsWalk(p)

\* either follows the course or releases first and follows it from Scheduled, to
\* a status short of where it began.
Forward(p) == \A i \in 1..Len(p) : Place(p[i]) = Place(p[1]) + i - 1
Released(p) == \A i \in 2..Len(p) : Place(p[i]) = i /\ i < Place(p[1])

LEMMA WalkShape ==
    ASSUME NEW p, Walk(p)
    PROVE  /\ Len(p) \in 2..5
           /\ Forward(p) \/ Released(p)
<1>. DEFINE n == Len(p)
            at(i) == Place(p[i])
<1>1. /\ n \in Nat /\ n > 1
      /\ \A i \in 1..n : p[i] \in Search!ReservationStatus
      BY DEF Walk
<1>2. \A i \in 1..(n - 1) : <<p[i], p[i + 1]>> \in Search!ReservationNext
      BY DEF Walk, Search!IsWalk
<1>3. ASSUME NEW i \in 2..n, i + 1 \in 2..n
      PROVE  at(i + 1) = at(i) + 1
  <2>1. i \in 1..(n - 1) /\ i # 1 /\ i \in 1..n /\ i + 1 \in 1..n
        BY <1>1, <1>3
  <2>2. ~(p[i] \in Search!ReleaseIntoScheduled /\ p[i + 1] = "Scheduled")
        BY <2>1 DEF Walk, Search!IsWalk
  <2>3. p[i] # "Pending"
    <3>1. i - 1 \in 1..(n - 1) /\ (i - 1) + 1 = i /\ i - 1 \in 1..n
          BY <2>1
    <3>2. <<p[i - 1], p[i]>> \in Search!ReservationNext
          BY <1>2, <3>1
    <3>. QED BY <3>2 DEF Search!ReservationNext
  <2>. QED BY <1>1, <1>2, <2>1, <2>2, <2>3, HopsMoveOn
<1>4. /\ at(1) \in 1..4 /\ at(2) \in 2..5
      /\ \/ at(2) = at(1) + 1
         \/ at(1) \in 3..4 /\ at(2) = 2
  <2>1. 1 \in 1..(n - 1) /\ 1 \in 1..n /\ 2 \in 1..n /\ 1 + 1 = 2
        BY <1>1
  <2>2. /\ p[1] \in Search!ReservationStatus /\ p[2] \in Search!ReservationStatus
        /\ <<p[1], p[2]>> \in Search!ReservationNext
        BY <1>1, <1>2, <2>1
  <2>3. /\ at(1) \in 1..4 /\ at(2) \in 2..5
        /\ \/ at(2) = at(1) + 1
           \/ p[1] = "Pending" /\ p[2] = "Scheduled"
           \/ at(1) \in 3..4 /\ p[2] = "Scheduled"
        BY <2>2, HopsMoveOn
  <2>4. (p[2] = "Scheduled" => at(2) = 2) /\ (p[1] = "Pending" => at(1) = 1)
        BY Places, Zenon
  <2>. QED BY <2>3, <2>4
<1>5. \A i \in 2..n : at(i) <= 5
  <2>. SUFFICES ASSUME NEW i \in 2..n PROVE at(i) <= 5
       OBVIOUS
  <2>1. i - 1 \in 1..(n - 1) /\ (i - 1) + 1 = i /\ i - 1 \in 1..n /\ i \in 1..n
        BY <1>1
  <2>2. /\ p[i - 1] \in Search!ReservationStatus /\ p[i] \in Search!ReservationStatus
        /\ <<p[i - 1], p[i]>> \in Search!ReservationNext
        BY <1>1, <1>2, <2>1
  <2>. QED BY <2>2, HopsMoveOn
<1>. HIDE DEF at, n
<1>6. /\ n > 2 => at(3) = at(2) + 1
      /\ n > 3 => at(4) = at(2) + 2
      /\ n > 4 => at(5) = at(2) + 3
      /\ n > 5 => at(6) = at(2) + 4
  <2>1. n > 2 => at(3) = at(2) + 1
        BY <1>1, <1>3
  <2>2. n > 3 => at(4) = at(3) + 1
        BY <1>1, <1>3
  <2>3. n > 4 => at(5) = at(4) + 1
        BY <1>1, <1>3
  <2>4. n > 5 => at(6) = at(5) + 1
        BY <1>1, <1>3
  <2>. QED BY <1>1, <1>4, <2>1, <2>2, <2>3, <2>4
<1>7. n \in 2..5
      BY <1>1, <1>4, <1>5, <1>6
<1>8. \A i \in 2..n : at(i) = at(2) + i - 2
  <2>. SUFFICES ASSUME NEW i \in 2..n PROVE at(i) = at(2) + i - 2
       OBVIOUS
  <2>1. i \in {2, 3, 4, 5}
        BY <1>7
  <2>. QED BY <1>4, <1>6, <1>7, <2>1
<1>9. CASE at(2) = at(1) + 1
  <2>1. \A i \in 1..n : at(i) = at(1) + i - 1
    <3>. SUFFICES ASSUME NEW i \in 1..n PROVE at(i) = at(1) + i - 1
         OBVIOUS
    <3>1. CASE i = 1
          BY <1>4, <3>1
    <3>2. CASE i # 1
          BY <1>4, <1>7, <1>8, <1>9, <3>2
    <3>. QED BY <3>1, <3>2
  <2>. QED BY <1>7, <2>1 DEF Forward, n, at
<1>10. CASE at(1) \in 3..4 /\ at(2) = 2
  <2>1. \A i \in 2..n : at(i) = i
        BY <1>7, <1>8, <1>10
  <2>2. n < at(1)
    <3>. SUFFICES ASSUME n >= at(1) PROVE FALSE
         BY <1>7, <1>10
    <3>. DEFINE k == at(1)
    <3>1. k \in 2..n /\ k \in 1..n /\ 1 \in 1..n /\ k # 1
          BY <1>7, <1>10
    <3>2. at(k) = at(1)
          BY <2>1, <3>1
    <3>. HIDE DEF k
    <3>3. Place(p[k]) = Place(p[1])
          BY <3>2 DEF at
    <3>4. p[k] = p[1]
          BY <1>1, <3>1, <3>3, PlacesDiffer
    <3>. QED BY <3>1, <3>4 DEF Walk, Search!IsWalk, n
  <2>3. \A i \in 2..n : at(i) = i /\ i < at(1)
        BY <1>7, <1>10, <2>1, <2>2
  <2>. QED BY <1>7, <2>3 DEF Released, n, at
<1>. QED BY <1>4, <1>9, <1>10

\* So there is at most one walk from a status to another.
LEMMA WalksAreUnique ==
    ASSUME NEW p, NEW q, Walk(p), Walk(q), p[1] = q[1], p[Len(p)] = q[Len(q)]
    PROVE  p = q
<1>. DEFINE m == Len(p)
            n == Len(q)
            a == Place(p[1])
            b == Place(p[Len(p)])
<1>1. m \in 2..5 /\ n \in 2..5
      BY WalkShape
<1>2. /\ p \in Seq(Search!ReservationStatus) /\ q \in Seq(Search!ReservationStatus)
      /\ \A i \in 1..m : p[i] \in Search!ReservationStatus
      /\ \A i \in 1..n : q[i] \in Search!ReservationStatus
      BY DEF Walk
<1>3. a \in 1..6
  <2>1. p[1] \in Search!ReservationStatus
        BY <1>1, <1>2
  <2>. QED BY <2>1 DEF Place
<1>0. m \in 1..m /\ n \in 1..n /\ b = Place(q[n]) /\ a = Place(q[1])
      BY <1>1
<1>4. Forward(p) => b = a + m - 1 /\ b > a
  <2>1. Forward(p) => b = a + m - 1
        BY <1>0 DEF Forward
  <2>. HIDE DEF a, b, m
  <2>. QED BY <1>1, <1>3, <2>1
<1>5. Forward(q) => b = a + n - 1 /\ b > a
  <2>1. Forward(q) => b = a + n - 1
        BY <1>0 DEF Forward
  <2>. HIDE DEF a, b, n
  <2>. QED BY <1>1, <1>3, <2>1
<1>6. Released(p) => b = m /\ b < a
      BY SMTT(30), <1>1, <1>3 DEF Released
<1>7. Released(q) => b = n /\ b < a
      BY SMTT(30), <1>1, <1>3 DEF Released
<1>8. \/ Forward(p) /\ Forward(q)
      \/ Released(p) /\ Released(q)
  <2>1. Forward(p) \/ Released(p)
        BY WalkShape
  <2>2. Forward(q) \/ Released(q)
        BY WalkShape
  <2>. HIDE DEF a, b, m, n
  <2>. QED BY <1>1, <1>3, <1>4, <1>5, <1>6, <1>7, <2>1, <2>2
<1>9. m = n
  <2>. HIDE DEF a, b, m, n
  <2>. QED BY <1>1, <1>3, <1>4, <1>5, <1>6, <1>7, <1>8
<1>10. ASSUME NEW i \in 1..m PROVE p[i] = q[i]
  <2>1. Place(p[i]) = Place(q[i])
    <3>1. CASE i = 1
          BY <3>1
    <3>2. CASE i # 1 /\ Forward(p) /\ Forward(q)
          BY <1>1, <1>9, <3>2 DEF Forward
    <3>3. CASE i # 1 /\ Released(p) /\ Released(q)
      <4>1. i \in 2..m /\ i \in 2..n
            BY <1>1, <1>9, <3>3
      <4>. QED BY <3>3, <4>1 DEF Released
    <3>. QED BY <1>8, <3>1, <3>2, <3>3
  <2>2. p[i] \in Search!ReservationStatus /\ q[i] \in Search!ReservationStatus
        BY <1>2, <1>9
  <2>. QED BY <2>1, <2>2, PlacesDiffer
<1>11. Len(p) = Len(q) /\ \A i \in 1..Len(p) : p[i] = q[i]
       BY <1>9, <1>10
<1>. QED BY <1>2, <1>11, SeqEqual

\* The walks of the declarative path are these.
LEMMA WalksAre ==
    ASSUME NEW a, NEW b, NEW p
    PROVE  p \in Search!Walks(a, b) <=> Walk(p) /\ p[1] = a /\ p[Len(p)] = b
<1>1. ASSUME p \in Search!Walks(a, b) PROVE Walk(p) /\ p[1] = a /\ p[Len(p)] = b
  <2>1. PICK n \in 2..5 : p \in [1..n -> Search!ReservationStatus] /\ Search!IsWalk(p)
        BY <1>1 DEF Search!Walks, Search!AllWalks, Search!MaxWalk
  <2>2. n \in Nat /\ p \in Seq(Search!ReservationStatus) /\ Len(p) = n
        BY <2>1
  <2>. QED BY <1>1, <2>1, <2>2 DEF Walk, Search!Walks
<1>2. ASSUME Walk(p), p[1] = a, p[Len(p)] = b PROVE p \in Search!Walks(a, b)
  <2>1. Len(p) \in 2..5
        BY <1>2, WalkShape
  <2>2. p \in [1..Len(p) -> Search!ReservationStatus] /\ Search!IsWalk(p)
        BY <1>2, LenProperties DEF Walk
  <2>3. p \in Search!AllWalks
        BY <2>1, <2>2 DEF Search!AllWalks, Search!MaxWalk
  <2>. QED BY <1>2, <2>3 DEF Search!Walks
<1>. QED BY <1>1, <1>2

\* So the only walk there is is the path.
LEMMA OnlyWalkIsPath ==
    ASSUME NEW a, NEW b, NEW p \in Search!Walks(a, b),
           a # b, a \notin Search!TerminalReservation, b # "Cancelled"
    PROVE  Search!TransitionPath(a, b) = p
<1>1. \A q \in Search!Walks(a, b) : q = p
      BY WalksAre, WalksAreUnique
<1>2. Len(p) <= Len(p)
  <2>1. Len(p) \in Nat
        BY WalksAre, LenProperties DEF Walk
  <2>. QED BY <2>1
<1>3. \E q \in Search!Walks(a, b) : \A r \in Search!Walks(a, b) : Len(q) <= Len(r)
      BY <1>1, <1>2
<1>4. (CHOOSE q \in Search!Walks(a, b) : \A r \in Search!Walks(a, b) : Len(q) <= Len(r))
         \in Search!Walks(a, b)
      BY <1>3
<1>5. Search!TransitionPath(a, b)
        = CHOOSE q \in Search!Walks(a, b) : \A r \in Search!Walks(a, b) : Len(q) <= Len(r)
      BY Zenon DEF Search!TransitionPath
<1>. QED BY <1>1, <1>4, <1>5

\* What a path is: nothing, the status itself, a bare cancellation, or a walk.
LEMMA PathCases ==
    ASSUME NEW a, NEW b
    PROVE  LET p == Search!TransitionPath(a, b)
           IN  \/ a = b /\ p = <<a>>
               \/ a # b /\ a \in Search!TerminalReservation /\ p = <<>>
               \/ a # b /\ a \notin Search!TerminalReservation /\ b = "Cancelled" /\ p = <<a, b>>
               \/ /\ a # b /\ a \notin Search!TerminalReservation /\ b # "Cancelled"
                  /\ \/ Search!Walks(a, b) = {} /\ p = <<>>
                     \/ p \in Search!Walks(a, b)
<1>1. CASE a = b
      BY <1>1, Zenon DEF Search!TransitionPath
<1>2. CASE a # b /\ a \in Search!TerminalReservation
      BY <1>2, Zenon DEF Search!TransitionPath, Search!NoPath
<1>3. CASE a # b /\ a \notin Search!TerminalReservation /\ b = "Cancelled"
      BY <1>3, Zenon DEF Search!TransitionPath
<1>4. CASE a # b /\ a \notin Search!TerminalReservation /\ b # "Cancelled"
  <2>1. CASE Search!Walks(a, b) = {}
        BY <1>4, <2>1, Zenon DEF Search!TransitionPath, Search!NoPath
  <2>2. CASE Search!Walks(a, b) # {}
    <3>1. PICK p \in Search!Walks(a, b) : TRUE
          BY <2>2
    <3>. QED BY <1>4, <3>1, OnlyWalkIsPath, Zenon
  <2>. QED BY <2>1, <2>2
<1>. QED BY <1>1, <1>2, <1>3, <1>4

\* Every hop of a path is a legal move.
LEMMA PathIsLegal ==
    ASSUME NEW a, NEW b, NEW i \in 1..(Len(Search!TransitionPath(a, b)) - 1)
    PROVE  Search!CanTransitionReservation(Search!TransitionPath(a, b)[i],
                                           Search!TransitionPath(a, b)[i + 1])
<1>. DEFINE p == Search!TransitionPath(a, b)
<1>1. \/ p = <<a>>
      \/ p = <<>>
      \/ a \notin Search!TerminalReservation /\ b = "Cancelled" /\ p = <<a, b>>
      \/ p \in Search!Walks(a, b)
      BY PathCases
<1>. HIDE DEF p
<1>2. p # <<>> /\ p # <<a>>
  <2>1. i \in Nat /\ i >= 1 /\ i <= Len(p) - 1
        BY DEF p
  <2>2. Len(<<>>) = 0 /\ Len(<<a>>) = 1
        OBVIOUS
  <2>. QED BY <2>1, <2>2
<1>3. CASE a \notin Search!TerminalReservation /\ b = "Cancelled" /\ p = <<a, b>>
  <2>1. i = 1 /\ i + 1 = 2
    <3>1. i \in 1..(Len(p) - 1)
          BY DEF p
    <3>2. Len(p) = 2
          BY <1>3
    <3>. QED BY <3>1, <3>2
  <2>2. p[i] = a /\ p[i + 1] = "Cancelled"
        BY <1>3, <2>1
  <2>3. Search!CanTransitionReservation(p[i], p[i + 1])
        BY <1>3, <2>2, Zenon DEF Search!CanTransitionReservation
  <2>. QED BY <2>3 DEF p
<1>4. CASE p \in Search!Walks(a, b)
  <2>1. Walk(p) /\ i \in 1..(Len(p) - 1)
        BY <1>4, WalksAre DEF p
  <2>2. <<p[i], p[i + 1]>> \in Search!ReservationNext
        BY <2>1 DEF Walk, Search!IsWalk
  <2>3. p[i] \in Search!ReservationStatus /\ p[i + 1] \in Search!ReservationStatus
        BY <2>1 DEF Walk
  <2>4. Search!CanTransitionReservation(p[i], p[i + 1])
        BY <2>2, <2>3, HopsMoveOn DEF Search!CanTransitionReservation
  <2>. QED BY <2>4 DEF p
<1>. QED BY <1>1, <1>2, <1>3, <1>4

\* A path has one status or two exactly where the move is legal at once.
LEMMA PathAgrees ==
    ASSUME NEW a \in Search!ReservationStatus, NEW b \in Search!ReservationStatus
    PROVE  Search!CanTransitionReservation(a, b)
             <=> Len(Search!TransitionPath(a, b)) \in {1, 2}
<1>. DEFINE p == Search!TransitionPath(a, b)
<1>0. Len(<<a>>) = 1 /\ Len(<<>>) = 0 /\ Len(<<a, b>>) = 2
      OBVIOUS
<1>1. CASE a = b
  <2>1. p = <<a>>
        BY <1>1, PathCases
  <2>2. Search!CanTransitionReservation(a, b)
        BY <1>1 DEF Search!CanTransitionReservation
  <2>. QED BY <1>0, <2>1, <2>2
<1>2. CASE a # b /\ a \in Search!TerminalReservation
  <2>1. p = <<>>
        BY <1>2, PathCases
  <2>2. ~Search!CanTransitionReservation(a, b)
        BY <1>2 DEF Search!CanTransitionReservation
  <2>. QED BY <1>0, <2>1, <2>2
<1>3. CASE a # b /\ a \notin Search!TerminalReservation /\ b = "Cancelled"
  <2>1. p = <<a, b>>
        BY <1>3, PathCases
  <2>2. Search!CanTransitionReservation(a, b)
        BY <1>3 DEF Search!CanTransitionReservation
  <2>. QED BY <1>0, <2>1, <2>2
<1>4. CASE a # b /\ a \notin Search!TerminalReservation /\ b # "Cancelled"
  <2>1. Search!CanTransitionReservation(a, b) <=> <<a, b>> \in Search!ReservationNext
        BY <1>4 DEF Search!CanTransitionReservation
  <2>2. ASSUME <<a, b>> \in Search!ReservationNext PROVE p = <<a, b>>
    <3>. DEFINE q == <<a, b>>
    <3>1. q \in Seq(Search!ReservationStatus) /\ Len(q) = 2 /\ q[1] = a /\ q[2] = b
          OBVIOUS
    <3>. HIDE DEF q
    <3>2. ASSUME NEW i \in 1..(Len(q) - 1)
          PROVE  /\ <<q[i], q[i + 1]>> \in Search!ReservationNext
                 /\ (q[i] \in Search!ReleaseIntoScheduled /\ q[i + 1] = "Scheduled") => i = 1
      <4>1. i = 1 /\ i + 1 = 2
            BY <3>1
      <4>. QED BY <2>2, <3>1, <4>1
    <3>3. ASSUME NEW i \in 1..Len(q), NEW j \in 1..Len(q), q[i] = q[j] PROVE i = j
      <4>1. i \in {1, 2} /\ j \in {1, 2}
            BY <3>1
      <4>. QED BY <1>4, <3>1, <3>3, <4>1
    <3>4. Walk(q)
          BY <3>1, <3>2, <3>3 DEF Walk, Search!IsWalk
    <3>5. q \in Search!Walks(a, b)
          BY <3>1, <3>4, WalksAre
    <3>. QED BY <1>4, <3>5, OnlyWalkIsPath DEF q
  <2>3. ASSUME Len(p) \in {1, 2} PROVE <<a, b>> \in Search!ReservationNext
    <3>1. p \in Search!Walks(a, b)
      <4>1. p # <<>>
            BY <1>0, <2>3
      <4>. QED BY <1>4, <4>1, PathCases
    <3>2. Walk(p) /\ p[1] = a /\ p[Len(p)] = b
          BY <3>1, WalksAre
    <3>. HIDE DEF p
    <3>3. Len(p) = 2 /\ 1 \in 1..(Len(p) - 1)
          BY <2>3, <3>2 DEF Walk
    <3>4. <<p[1], p[1 + 1]>> \in Search!ReservationNext
          BY <3>2, <3>3 DEF Walk, Search!IsWalk
    <3>. QED BY <3>2, <3>3, <3>4
  <2>. QED BY <1>0, <2>1, <2>2, <2>3
<1>. QED BY <1>1, <1>2, <1>3, <1>4

------------------------------------------------------------------------------
(* The queue *)

\* A queued path is the beginning of a walk, through visited statuses.
Queued(p) ==
    /\ p \in Seq(Search!ReservationStatus) /\ p # <<>> /\ p[1] = from
    /\ Search!IsWalk(p)
    /\ \A i \in 1..Len(p) : p[i] \in visited

\* A status from which the search went on wherever it may.
Spread(s) ==
    \A n \in Search!ReservationStatus :
        (/\ <<s, n>> \in Search!ReservationNext
         /\ ~(n = "Scheduled" /\ s \in Search!ReleaseIntoScheduled /\ s # from))
        => n \in visited

\* Every visited status is the end of a queued path or has been gone on from.
Searching ==
    /\ from # to /\ to # "Cancelled" /\ from \notin Search!TerminalReservation
    /\ result = <<>>
    /\ visited \subseteq Search!ReservationStatus /\ from \in visited /\ to \notin visited
    /\ queue \in Seq(Seq(Search!ReservationStatus))
    /\ \A k \in 1..Len(queue) : Queued(queue[k])
    /\ \A s \in visited :
          (\E k \in 1..Len(queue) : queue[k][Len(queue[k])] = s) \/ Spread(s)

SearchInv ==
    /\ from \in Search!ReservationStatus /\ to \in Search!ReservationStatus
    /\ pc \in {"enter", "search", "done"}
    /\ pc = "enter" => queue = << <<from>> >> /\ visited = {from} /\ result = <<>>
    /\ pc = "search" => Searching
    /\ pc = "done" => result = Search!TransitionPath(from, to)

\* A queue that holds what was left of another and what was put behind it.
Holds(new, old, more) ==
    /\ \A k \in 1..Len(new) : \/ \E j \in 1..Len(old) : new[k] = old[j]
                              \/ \E j \in 1..Len(more) : new[k] = more[j]
    /\ \A j \in 2..Len(old) : \E k \in 1..Len(new) : new[k] = old[j]
    /\ \A j \in 1..Len(more) : \E k \in 1..Len(new) : new[k] = more[j]

LEMMA Requeued ==
    ASSUME NEW X, NEW old \in Seq(X), old # <<>>, NEW more \in Seq(X)
    PROVE  Tail(old) \o more \in Seq(X) /\ Holds(Tail(old) \o more, old, more)
<1>. DEFINE rest == Tail(old)
            new == Tail(old) \o more
<1>1. /\ rest \in Seq(X) /\ Len(rest) = Len(old) - 1 /\ Len(old) \in Nat \ {0}
      /\ \A i \in 1..Len(rest) : rest[i] = old[i + 1]
      BY HeadTailProperties, EmptySeq
<1>. HIDE DEF rest
<1>2. /\ new \in Seq(X) /\ Len(new) = Len(rest) + Len(more) /\ Len(more) \in Nat
      /\ \A i \in 1..Len(rest) + Len(more) :
            new[i] = IF i <= Len(rest) THEN rest[i] ELSE more[i - Len(rest)]
      BY <1>1, ConcatProperties, LenProperties DEF rest
<1>. HIDE DEF new
<1>3. ASSUME NEW k \in 1..Len(new)
      PROVE  \/ \E j \in 1..Len(old) : new[k] = old[j]
             \/ \E j \in 1..Len(more) : new[k] = more[j]
  <2>1. CASE k <= Len(rest)
    <3>1. k \in 1..Len(rest) /\ k + 1 \in 1..Len(old)
          BY <1>1, <2>1
    <3>2. new[k] = old[k + 1]
          BY <1>1, <1>2, <2>1, <3>1
    <3>. QED BY <3>1, <3>2
  <2>2. CASE k > Len(rest)
    <3>1. k - Len(rest) \in 1..Len(more)
          BY <1>1, <1>2, <2>2
    <3>2. new[k] = more[k - Len(rest)]
          BY <1>1, <1>2, <2>2
    <3>. QED BY <3>1, <3>2
  <2>. QED BY <1>1, <2>1, <2>2
<1>4. ASSUME NEW j \in 2..Len(old) PROVE \E k \in 1..Len(new) : new[k] = old[j]
  <2>1. j - 1 \in 1..Len(rest) /\ j - 1 \in 1..Len(new) /\ (j - 1) + 1 = j /\ j - 1 <= Len(rest)
        BY <1>1, <1>2
  <2>2. new[j - 1] = old[j]
    <3>1. rest[j - 1] = old[j]
          BY <1>1, <2>1
    <3>. QED BY <1>2, <2>1, <3>1
  <2>. QED BY <2>1, <2>2
<1>5. ASSUME NEW j \in 1..Len(more) PROVE \E k \in 1..Len(new) : new[k] = more[j]
  <2>. DEFINE k == Len(rest) + j
  <2>1. k \in 1..Len(new) /\ ~(k <= Len(rest)) /\ k - Len(rest) = j
        BY <1>1, <1>2
  <2>. HIDE DEF k
  <2>2. new[k] = more[j]
        BY <1>2, <2>1
  <2>. QED BY <2>1, <2>2
<1>. QED BY <1>2, <1>3, <1>4, <1>5 DEF Holds, new

\* Every fresh neighbour is put behind its path, and nothing else.
LEMMA ExtensionsAre ==
    ASSUME NEW p \in Seq(Search!ReservationStatus), NEW fresh \in SUBSET Search!Neighbours(p)
    PROVE  LET more == Search!Extensions(p, fresh)
           IN  /\ more \in Seq(Seq(Search!ReservationStatus))
               /\ \A j \in 1..Len(more) : \E n \in fresh : more[j] = Append(p, n)
               /\ \A n \in fresh : \E j \in 1..Len(more) : more[j] = Append(p, n)
<1>. DEFINE forward == fresh \ {"Scheduled"}
            one == CHOOSE n \in forward : TRUE
            first == IF forward = {} THEN <<>> ELSE << Append(p, one) >>
            last == IF "Scheduled" \in fresh THEN << Append(p, "Scheduled") >> ELSE <<>>
            P == Seq(Search!ReservationStatus)
            more == first \o last
<1>0. Search!Extensions(p, fresh) = more
      BY DEF Search!Extensions
<1>1. fresh \subseteq Search!ReservationStatus
      /\ \A n \in fresh : <<p[Len(p)], n>> \in Search!ReservationNext
      BY DEF Search!Neighbours
<1>2. forward # {} => one \in forward
      OBVIOUS
<1>3. \A m, n \in forward : m = n
  <2>. SUFFICES ASSUME NEW m \in forward, NEW n \in forward PROVE m = n
       OBVIOUS
  <2>1. /\ <<p[Len(p)], m>> \in Search!ReservationNext /\ m # "Scheduled"
        /\ <<p[Len(p)], n>> \in Search!ReservationNext /\ n # "Scheduled"
        BY <1>1
  <2>. QED BY <2>1 DEF Search!ReservationNext
<1>4. \A n \in fresh : Append(p, n) \in P
      BY <1>1, AppendProperties
<1>5. /\ first \in Seq(P) /\ Len(first) = IF forward = {} THEN 0 ELSE 1
      /\ forward # {} => first[1] = Append(p, one)
  <2>1. CASE forward = {}
    <3>1. first = <<>>
          BY <2>1
    <3>. QED BY <2>1, <3>1, EmptySeq
  <2>2. CASE forward # {}
    <3>1. first = << Append(p, one) >> /\ Append(p, one) \in P
          BY <1>2, <1>4, <2>2
    <3>. HIDE DEF first, forward, one
    <3>. QED BY <2>2, <3>1
  <2>. QED BY <2>1, <2>2
<1>6. /\ last \in Seq(P) /\ Len(last) = IF "Scheduled" \in fresh THEN 1 ELSE 0
      /\ "Scheduled" \in fresh => last[1] = Append(p, "Scheduled")
  <2>1. CASE "Scheduled" \notin fresh
    <3>1. last = <<>>
          BY <2>1
    <3>. QED BY <2>1, <3>1, EmptySeq
  <2>2. CASE "Scheduled" \in fresh
    <3>1. last = << Append(p, "Scheduled") >> /\ Append(p, "Scheduled") \in P
          BY <1>4, <2>2
    <3>. HIDE DEF last
    <3>. QED BY <2>2, <3>1
  <2>. QED BY <2>1, <2>2
<1>. HIDE DEF first, last, one, P
<1>7. /\ more \in Seq(P) /\ Len(more) = Len(first) + Len(last)
      /\ \A k \in 1..Len(first) + Len(last) :
            more[k] = IF k <= Len(first) THEN first[k] ELSE last[k - Len(first)]
      BY <1>5, <1>6, ConcatProperties
<1>. HIDE DEF more
<1>8. Len(first) \in {0, 1} /\ Len(last) \in {0, 1}
      BY <1>5, <1>6
<1>9. Len(first) = 1 => more[1] = first[1] /\ 1 \in 1..Len(more)
      BY <1>7, <1>8
<1>10. Len(last) = 1 => /\ more[Len(first) + 1] = last[1]
                        /\ Len(first) + 1 \in 1..Len(more)
  <2>. SUFFICES ASSUME Len(last) = 1
                PROVE  more[Len(first) + 1] = last[1] /\ Len(first) + 1 \in 1..Len(more)
       OBVIOUS
  <2>1. /\ Len(first) + 1 \in 1..Len(first) + Len(last) /\ ~(Len(first) + 1 <= Len(first))
        /\ Len(first) + 1 - Len(first) = 1
        BY <1>8
  <2>. QED BY <1>7, <2>1
<1>11. 0 # 1
      OBVIOUS
<1>12. ASSUME NEW j \in 1..Len(more) PROVE \E n \in fresh : more[j] = Append(p, n)
  <2>1. CASE j <= Len(first)
    <3>1. j = 1 /\ Len(first) = 1
          BY <1>7, <1>8, <2>1
    <3>2. forward # {}
          BY <1>5, <1>11, <3>1, Zenon
    <3>3. first[1] = Append(p, one) /\ one \in fresh
          BY <1>2, <1>5, <3>2, Zenon
    <3>4. more[1] = first[1]
          BY <1>9, <3>1
    <3>. QED BY <3>1, <3>3, <3>4, Zenon
  <2>2. CASE j > Len(first)
    <3>1. j = Len(first) + 1 /\ Len(last) = 1
          BY <1>7, <1>8, <2>2
    <3>2. "Scheduled" \in fresh
          BY <1>6, <1>11, <3>1, Zenon
    <3>3. last[1] = Append(p, "Scheduled")
          BY <1>6, <3>2, Zenon
    <3>4. more[Len(first) + 1] = last[1]
          BY <1>10, <3>1
    <3>. QED BY <3>1, <3>2, <3>3, <3>4, Zenon
  <2>. QED BY <1>8, <2>1, <2>2
<1>13. ASSUME NEW n \in fresh PROVE \E j \in 1..Len(more) : more[j] = Append(p, n)
  <2>1. CASE n = "Scheduled"
        BY <1>6, <1>10, <2>1
  <2>2. CASE n # "Scheduled"
    <3>1. n \in forward /\ forward # {}
          BY <2>2
    <3>2. one = n
          BY <1>2, <1>3, <3>1
    <3>3. Len(first) = 1 /\ first[1] = Append(p, n)
          BY <1>5, <3>1, <3>2
    <3>. QED BY <1>9, <3>3
  <2>. QED BY <2>1, <2>2
<1>. QED BY <1>0, <1>7, <1>12, <1>13 DEF P

------------------------------------------------------------------------------
(* The search *)

\* The search begins with the status it starts from.
LEMMA EnterKeepsInv ==
    ASSUME SearchInv, Search!Enter
    PROVE  SearchInv'
<1>1. pc = "enter" /\ from \in Search!ReservationStatus /\ to \in Search!ReservationStatus
      BY DEF Search!Enter, SearchInv
<1>2. queue = << <<from>> >> /\ visited = {from} /\ result = <<>>
      BY <1>1 DEF SearchInv
<1>3. CASE \E p : Search!Return(p) /\ p = Search!TransitionPath(from, to)
      BY <1>1, <1>3 DEF SearchInv, Search!Return
<1>4. CASE from = to /\ Search!Return(<<from>>)
  <2>1. Search!TransitionPath(from, to) = <<from>>
        BY <1>4, PathCases
  <2>. QED BY <1>3, <1>4, <2>1
<1>5. CASE /\ from # to /\ to = "Cancelled" /\ from \notin Search!TerminalReservation
           /\ Search!Return(<<from, to>>)
  <2>1. Search!TransitionPath(from, to) = <<from, to>>
        BY <1>5, PathCases
  <2>. QED BY <1>3, <1>5, <2>1
<1>6. CASE from # to /\ from \in Search!TerminalReservation /\ Search!Return(Search!NoPath)
  <2>1. Search!TransitionPath(from, to) = Search!NoPath
        BY <1>6, PathCases DEF Search!NoPath
  <2>. QED BY <1>3, <1>6, <2>1
<1>7. CASE /\ from # to /\ to # "Cancelled" /\ from \notin Search!TerminalReservation
           /\ pc' = "search" /\ UNCHANGED <<from, to, queue, visited, result>>
  <2>. DEFINE p == <<from>>
  <2>1. p \in Seq(Search!ReservationStatus) /\ Len(p) = 1 /\ p[1] = from /\ p # <<>>
        BY <1>1
  <2>. HIDE DEF p
  <2>2. queue = <<p>> /\ Len(queue) = 1 /\ queue[1] = p
        /\ queue \in Seq(Seq(Search!ReservationStatus))
        BY <1>2, <2>1 DEF p
  <2>3. Search!IsWalk(p)
    <3>1. \A i : i \notin 1..(Len(p) - 1)
          BY <2>1
    <3>2. \A i, j \in 1..Len(p) : i = j
          BY <2>1
    <3>. QED BY <3>1, <3>2 DEF Search!IsWalk
  <2>4. Queued(p)
    <3>1. \A i \in 1..Len(p) : p[i] \in visited
          BY <1>2, <2>1
    <3>. QED BY <2>1, <2>3, <3>1 DEF Queued
  <2>5. \A k \in 1..Len(queue) : Queued(queue[k])
        BY <2>2, <2>4
  <2>6. \A s \in visited : \E k \in 1..Len(queue) : queue[k][Len(queue[k])] = s
        BY <1>2, <2>1, <2>2
  <2>7. Searching
        BY <1>1, <1>2, <1>7, <2>2, <2>5, <2>6 DEF Searching
  <2>8. Searching'
        BY <1>7, <2>7 DEF Searching, Queued, Spread
  <2>. QED BY <1>1, <1>7, <2>8 DEF SearchInv
<1>. QED BY <1>4, <1>5, <1>6, <1>7 DEF Search!Enter

\* A queued path goes on to a neighbour that was not visited as a walk.
LEMMA WalkGoesOn ==
    ASSUME NEW p, Queued(p), visited \subseteq Search!ReservationStatus,
           NEW n \in Search!Neighbours(p), n \notin visited
    PROVE  /\ Walk(Append(p, n))
           /\ Append(p, n)[1] = from /\ Append(p, n)[Len(Append(p, n))] = n
           /\ \A i \in 1..Len(Append(p, n)) : Append(p, n)[i] \in visited \union {n}
<1>. DEFINE q == Append(p, n)
            m == Len(p)
<1>1. /\ p \in Seq(Search!ReservationStatus) /\ m \in Nat /\ m > 0 /\ p[1] = from
      /\ \A i \in 1..m : p[i] \in visited
      BY EmptySeq DEF Queued
<1>2. /\ n \in Search!ReservationStatus /\ <<p[m], n>> \in Search!ReservationNext
      /\ ~(n = "Scheduled" /\ p[m] \in Search!ReleaseIntoScheduled /\ m > 1)
      BY DEF Search!Neighbours
<1>3. /\ q \in Seq(Search!ReservationStatus) /\ Len(q) = m + 1
      /\ \A i \in 1..m : q[i] = p[i]
      /\ q[m + 1] = n
      BY <1>1, <1>2, AppendProperties
<1>4. /\ \A i \in 1..(m - 1) :
           /\ <<p[i], p[i + 1]>> \in Search!ReservationNext
           /\ (p[i] \in Search!ReleaseIntoScheduled /\ p[i + 1] = "Scheduled") => i = 1
      /\ \A i, j \in 1..m : p[i] = p[j] => i = j
      BY DEF Queued, Search!IsWalk
<1>. HIDE DEF q, m
<1>5. ASSUME NEW i \in 1..(Len(q) - 1)
      PROVE  /\ <<q[i], q[i + 1]>> \in Search!ReservationNext
             /\ (q[i] \in Search!ReleaseIntoScheduled /\ q[i + 1] = "Scheduled") => i = 1
  <2>1. CASE i = m
    <3>1. i \in 1..m /\ q[i] = p[m] /\ q[i + 1] = n
          BY <1>1, <1>3, <2>1
    <3>2. i # 1 => m > 1
          BY <1>1, <2>1
    <3>. QED BY <1>2, <3>1, <3>2
  <2>2. CASE i # m
    <3>1. i \in 1..(m - 1) /\ i \in 1..m /\ i + 1 \in 1..m
          BY <1>1, <1>3, <2>2
    <3>2. q[i] = p[i] /\ q[i + 1] = p[i + 1]
          BY <1>3, <3>1
    <3>. QED BY <1>4, <3>1, <3>2
  <2>. QED BY <2>1, <2>2
<1>6. ASSUME NEW i \in 1..Len(q), NEW j \in 1..Len(q), q[i] = q[j] PROVE i = j
  <2>1. CASE i \in 1..m /\ j \in 1..m
        BY <1>3, <1>4, <1>6, <2>1
  <2>2. CASE i \in 1..m /\ j = m + 1
        BY <1>1, <1>3, <1>6, <2>2
  <2>3. CASE i = m + 1 /\ j \in 1..m
        BY <1>1, <1>3, <1>6, <2>3
  <2>4. CASE i = m + 1 /\ j = m + 1
        BY <2>4
  <2>. QED BY <1>1, <1>3, <2>1, <2>2, <2>3, <2>4
<1>7. Search!IsWalk(q)
      BY <1>5, <1>6 DEF Search!IsWalk
<1>8. ASSUME NEW i \in 1..Len(q) PROVE q[i] \in visited \union {n}
  <2>1. i \in 1..m \/ i = m + 1
        BY <1>1, <1>3
  <2>. QED BY <1>1, <1>3, <2>1
<1>9. Len(q) > 1 /\ q[1] = from /\ q[Len(q)] = n
  <2>1. 1 \in 1..m
        BY <1>1
  <2>. QED BY <1>1, <1>3, <2>1
<1>. QED BY <1>3, <1>7, <1>8, <1>9 DEF Walk, q

\* The oldest path is expanded: the search has found the path, or it goes on from
\* the path's last status wherever it may.
LEMMA ExpandKeepsInv ==
    ASSUME SearchInv, Search!Expand
    PROVE  SearchInv'
<1>0. PICK path : path = Head(queue)
      OBVIOUS
<1>. DEFINE fresh == Search!Neighbours(path) \ visited
            more == Search!Extensions(path, fresh)
            P == Seq(Search!ReservationStatus)
            last(p) == p[Len(p)]
<1>1. /\ pc = "search" /\ queue # <<>> /\ Searching
      /\ from \in Search!ReservationStatus /\ to \in Search!ReservationStatus
      BY DEF Search!Expand, SearchInv
<1>2. queue \in Seq(P) /\ 1 \in 1..Len(queue) /\ path = queue[1] /\ path \in P
  <2>1. queue \in Seq(P)
        BY <1>1 DEF Searching
  <2>2. Len(queue) \in Nat \ {0}
        BY <1>1, <2>1, EmptySeq
  <2>3. Head(queue) = queue[1]
        OBVIOUS
  <2>4. Head(queue) \in P
        BY <1>1, <2>1, HeadTailProperties
  <2>. QED BY <1>0, <2>1, <2>2, <2>3, <2>4
<1>3. Queued(path) /\ visited \subseteq Search!ReservationStatus
      BY <1>1, <1>2 DEF Searching
<1>4. CASE to \in Search!Neighbours(path)
  <2>1. Search!Return(Append(path, to))
        BY <1>0, <1>4 DEF Search!Expand
  <2>2. to \notin visited
        BY <1>1 DEF Searching
  <2>. DEFINE q == Append(path, to)
  <2>3. Walk(q) /\ q[1] = from /\ q[Len(q)] = to
        BY <1>3, <1>4, <2>2, WalkGoesOn
  <2>. HIDE DEF q
  <2>4. q \in Search!Walks(from, to)
        BY <2>3, WalksAre
  <2>5. q = Search!TransitionPath(from, to)
        BY <1>1, <2>4, OnlyWalkIsPath DEF Searching
  <2>. QED BY <1>1, <2>1, <2>5 DEF SearchInv, Search!Return, q
<1>5. CASE to \notin Search!Neighbours(path)
  <2>1. /\ queue' = Tail(queue) \o more /\ visited' = visited \union fresh
        /\ UNCHANGED <<from, to, result, pc>>
        BY <1>0, <1>5 DEF Search!Expand
  <2>2. fresh \in SUBSET Search!Neighbours(path)
        /\ fresh \subseteq Search!ReservationStatus /\ to \notin fresh
        BY <1>5 DEF Search!Neighbours
  <2>3. /\ more \in Seq(P)
        /\ \A j \in 1..Len(more) : \E n \in fresh : more[j] = Append(path, n)
        /\ \A n \in fresh : \E j \in 1..Len(more) : more[j] = Append(path, n)
        BY <1>2, <2>2, ExtensionsAre
  <2>. HIDE DEF more, P
  <2>4. /\ queue' \in Seq(P)
        /\ \A k \in 1..Len(queue') : \/ \E j \in 1..Len(queue) : queue'[k] = queue[j]
                                     \/ \E j \in 1..Len(more) : queue'[k] = more[j]
        /\ \A j \in 2..Len(queue) : \E k \in 1..Len(queue') : queue'[k] = queue[j]
        /\ \A j \in 1..Len(more) : \E k \in 1..Len(queue') : queue'[k] = more[j]
    <3>1. queue \in Seq(P) /\ queue # <<>> /\ more \in Seq(P) /\ queue' = Tail(queue) \o more
          BY <1>1, <1>2, <2>1, <2>3
    <3>2. queue' \in Seq(P) /\ Holds(queue', queue, more)
          BY <3>1, Requeued, Zenon
    <3>. QED BY <3>2, Zenon DEF Holds
  <2>5. ASSUME NEW p, Queued(p) PROVE Queued(p)'
    <3>1. \A i \in 1..Len(p) : p[i] \in visited'
          BY <2>1, <2>5 DEF Queued
    <3>. QED BY <2>1, <2>5, <3>1 DEF Queued
  <2>6. ASSUME NEW n \in fresh, NEW q, q = Append(path, n) PROVE Queued(q)'
    <3>1. Walk(q) /\ q[1] = from /\ \A i \in 1..Len(q) : q[i] \in visited \union {n}
          BY <1>3, <2>6, WalkGoesOn
    <3>2. \A i \in 1..Len(q) : q[i] \in visited'
          BY <2>1, <3>1
    <3>3. q # <<>>
      <4>1. Len(q) > 1
            BY <3>1 DEF Walk
      <4>. QED BY <4>1
    <3>. QED BY <2>1, <3>1, <3>2, <3>3 DEF Queued, Walk
  <2>7. ASSUME NEW k \in 1..Len(queue'), NEW p, p = queue'[k] PROVE Queued(p)'
    <3>1. CASE \E j \in 1..Len(queue) : queue'[k] = queue[j]
      <4>1. Queued(p)
            BY <1>1, <2>7, <3>1 DEF Searching
      <4>. QED BY <2>5, <4>1
    <3>2. CASE \E j \in 1..Len(more) : queue'[k] = more[j]
      <4>1. PICK n \in fresh : queue'[k] = Append(path, n)
            BY <2>3, <3>2
      <4>. QED BY <2>6, <2>7, <4>1
    <3>. QED BY <2>4, <3>1, <3>2
  <2>8. ASSUME NEW s \in visited'
        PROVE  (\E k \in 1..Len(queue') : last(queue'[k]) = s) \/ Spread(s)'
    <3>1. CASE s \in fresh
      <4>1. PICK j \in 1..Len(more) : more[j] = Append(path, s)
            BY <2>3, <3>1
      <4>2. PICK k \in 1..Len(queue') : queue'[k] = Append(path, s)
            BY <2>4, <4>1
      <4>3. last(Append(path, s)) = s
            BY <1>3, <3>1, WalkGoesOn
      <4>. QED BY <4>2, <4>3
    <3>2. CASE s \in visited /\ Spread(s)
          BY <2>1, <3>2 DEF Spread
    <3>3. CASE s \in visited /\ s = last(path)
      <4>1. Len(path) > 1 <=> s # from
        <5>1. Len(path) \in Nat /\ Len(path) > 0 /\ path[1] = from
              BY <1>3, EmptySeq DEF Queued
        <5>2. 1 \in 1..Len(path) /\ Len(path) \in 1..Len(path)
              BY <5>1
        <5>3. s = from => Len(path) = 1
              BY <1>3, <3>3, <5>1, <5>2 DEF Queued, Search!IsWalk
        <5>. QED BY <3>3, <5>1, <5>3
      <4>2. Spread(s)'
            BY <2>1, <3>3, <4>1 DEF Spread, Search!Neighbours
      <4>. QED BY <4>2
    <3>4. CASE s \in visited /\ \E j \in 2..Len(queue) : last(queue[j]) = s
      <4>1. PICK j \in 2..Len(queue) : last(queue[j]) = s
            BY <3>4
      <4>2. PICK k \in 1..Len(queue') : queue'[k] = queue[j]
            BY <2>4, <4>1
      <4>. QED BY <4>1, <4>2
    <3>5. s \in fresh \/ s \in visited
          BY <2>1
    <3>6. ASSUME s \in visited, NEW j \in 1..Len(queue), last(queue[j]) = s
          PROVE  s = last(path) \/ \E i \in 2..Len(queue) : last(queue[i]) = s
      <4>1. j = 1 \/ j \in 2..Len(queue)
            OBVIOUS
      <4>. QED BY <1>2, <3>6, <4>1
    <3>7. s \in visited => Spread(s) \/ \E j \in 1..Len(queue) : last(queue[j]) = s
          BY <1>1 DEF Searching
    <3>. QED BY <3>1, <3>2, <3>3, <3>4, <3>5, <3>6, <3>7
  <2>9. Searching'
    <3>1. /\ (from # to /\ to # "Cancelled" /\ from \notin Search!TerminalReservation)'
          /\ result' = <<>>
          /\ visited' \subseteq Search!ReservationStatus /\ from' \in visited' /\ to' \notin visited'
          BY <1>1, <2>1, <2>2 DEF Searching
    <3>2. (\A k \in 1..Len(queue) : Queued(queue[k]))'
      <4>1. \A k \in 1..Len(queue') : \A p : p = queue'[k] => Queued(p)'
            BY <2>7
      <4>. QED BY <4>1 DEF Queued
    <3>3. queue' \in Seq(Seq(Search!ReservationStatus))
          BY <2>4 DEF P
    <3>. QED BY <2>8, <3>1, <3>2, <3>3 DEF Searching
  <2>. QED BY <1>1, <2>1, <2>9 DEF SearchInv
<1>. QED BY <1>4, <1>5

\* A search that has gone on wherever it may has visited all that can be reached.
LEMMA ExhaustedKeepsInv ==
    ASSUME SearchInv, Search!Exhausted
    PROVE  SearchInv'
<1>1. /\ pc = "search" /\ queue = <<>> /\ Searching /\ Search!Return(Search!NoPath)
      /\ from \in Search!ReservationStatus /\ to \in Search!ReservationStatus
      BY DEF Search!Exhausted, SearchInv
<1>2. \A s \in visited : Spread(s)
  <2>1. \A k : k \notin 1..Len(queue)
        BY <1>1
  <2>. QED BY <1>1, <2>1 DEF Searching
<1>3. ASSUME NEW p \in Search!Walks(from, to) PROVE FALSE
  <2>1. Walk(p) /\ p[1] = from /\ p[Len(p)] = to /\ Len(p) \in 2..5
        BY <1>3, WalksAre, WalkShape
  <2>2. ASSUME NEW i \in 1..(Len(p) - 1), p[i] \in visited PROVE p[i + 1] \in visited
    <3>1. i \in 1..Len(p) /\ i + 1 \in 1..Len(p) /\ 1 \in 1..Len(p)
          BY <2>1
    <3>2. p[i + 1] \in Search!ReservationStatus
          BY <2>1, <3>1 DEF Walk
    <3>3. /\ <<p[i], p[i + 1]>> \in Search!ReservationNext
          /\ (p[i] \in Search!ReleaseIntoScheduled /\ p[i + 1] = "Scheduled") => i = 1
          BY <2>1 DEF Walk, Search!IsWalk
    <3>. QED BY <1>2, <2>1, <2>2, <3>2, <3>3 DEF Spread
  <2>3. p[1] \in visited
        BY <1>1, <2>1 DEF Searching
  <2>4. p[2] \in visited
        BY <2>1, <2>2, <2>3
  <2>5. Len(p) > 2 => p[3] \in visited
        BY <2>1, <2>2, <2>4
  <2>6. Len(p) > 3 => p[4] \in visited
        BY <2>1, <2>2, <2>5
  <2>7. Len(p) > 4 => p[5] \in visited
        BY <2>1, <2>2, <2>6
  <2>8. to \in visited
        BY <2>1, <2>4, <2>5, <2>6, <2>7
  <2>. QED BY <1>1, <2>8 DEF Searching
<1>4. Search!Walks(from, to) = {}
      BY <1>3
<1>5. Search!TransitionPath(from, to) = Search!NoPath
      BY <1>1, <1>4, PathCases DEF Searching, Search!NoPath
<1>. QED BY <1>1, <1>5 DEF SearchInv, Search!Return

LEMMA InitSearchInv == Search!Init => SearchInv
BY DEF Search!Init, SearchInv, Search!NoPath

LEMMA NextSearchInv == SearchInv /\ [Search!Next]_searchVars => SearchInv'
<1>1. SearchInv /\ UNCHANGED searchVars => SearchInv'
      BY DEF searchVars, SearchInv, Searching, Queued, Spread
<1>. QED BY <1>1, EnterKeepsInv, ExpandKeepsInv, ExhaustedKeepsInv DEF Search!Next

------------------------------------------------------------------------------
(* The parts *)

\* Of the three parts one moves; a search that does not has no result.
PartsInv ==
    /\ part = "search" => SearchInv
    /\ part # "search" => result = <<>>

LEMMA InitPartsInv == PartsInit => PartsInv
BY InitSearchInv DEF PartsInit, PartsInv, SearchAtRest

LEMMA NextPartsInv == PartsInv /\ [PartsNext]_allVars => PartsInv'
<1>. SUFFICES ASSUME PartsInv, [PartsNext]_allVars PROVE PartsInv'
     OBVIOUS
<1>1. CASE SearchStep
  <2>1. part = "search" /\ part' = part /\ Search!Next
        BY <1>1 DEF SearchStep
  <2>. QED BY <2>1, NextSearchInv DEF PartsInv
<1>2. CASE OutboundStep \/ GuardStep \/ UNCHANGED allVars
  <2>1. UNCHANGED searchVars /\ part' = part
        BY <1>2 DEF OutboundStep, GuardStep, allVars
  <2>2. result' = result
        BY <2>1 DEF searchVars
  <2>. QED BY <2>1, <2>2, NextSearchInv DEF PartsInv
<1>. QED BY <1>1, <1>2 DEF PartsNext

LEMMA AlwaysPartsInv == PartsSpec => []PartsInv
BY InitPartsInv, NextPartsInv, PTL DEF PartsSpec

\* The part that delivers runs its own specification.
LEMMA OutboundRuns == PartsSpec => Spec
<1>1. PartsInit => Init
      BY DEF PartsInit
<1>2. [PartsNext]_allVars => [Next]_vars
      BY DEF PartsNext, OutboundStep, SearchStep, GuardStep, allVars
<1>. QED BY <1>1, <1>2, PTL DEF PartsSpec, Spec

------------------------------------------------------------------------------
(* Theorems *)

\* A row that no retry reads again was received by Booking, for every number of
\* overlapping emissions, retries and stops (emit and reconcile).
THEOREM ProcessedWasHeardHolds == Spec => []ProcessedWasHeard
<1>1. OutboundInv => ProcessedWasHeard
      BY DEF OutboundInv
<1>. QED BY <1>1, InitOutboundInv, NextOutboundInv, PTL DEF Spec

\* The same of the program in which delivery runs beside the other parts, which
\* is the one TLC runs: nothing they do marks a row (emit, reconcile).
THEOREM ProcessedWasHeardInParts == PartsSpec => []ProcessedWasHeard
BY OutboundRuns, ProcessedWasHeardHolds, PTL

\* transitionPath returns exactly the path the lifecycle model takes, for every
\* pair of statuses: the walk the loop finds is the only one there is, and where
\* the queue runs empty there is none.
THEOREM SearchIsTransitionPathHolds == PartsSpec => []SearchIsTransitionPath
<1>1. PartsInv => SearchIsTransitionPath
      BY DEF PartsInv, SearchInv, SearchIsTransitionPath, Search!SearchIsTransitionPath
<1>. QED BY <1>1, AlwaysPartsInv, PTL

\* Every hop of a returned path is a legal move by itself, so that who walks it
\* writes no illegal status (transitionPath and canTransitionReservation).
THEOREM EveryHopIsLegalHolds == PartsSpec => []EveryHopIsLegal
<1>1. PartsInv => EveryHopIsLegal
  <2>. SUFFICES ASSUME PartsInv PROVE EveryHopIsLegal
       OBVIOUS
  <2>1. CASE part = "search" /\ pc = "done"
    <3>1. result = Search!TransitionPath(from, to)
          BY <2>1 DEF PartsInv, SearchInv
    <3>. QED BY <3>1, PathIsLegal DEF EveryHopIsLegal, Search!EveryHopIsLegal
  <2>2. CASE ~(part = "search" /\ pc = "done")
    <3>1. result = <<>>
          BY <2>2 DEF PartsInv, SearchInv, Searching
    <3>2. \A i : i \notin 1..(Len(<<>>) - 1)
          OBVIOUS
    <3>. QED BY <3>1, <3>2 DEF EveryHopIsLegal, Search!EveryHopIsLegal
  <2>. QED BY <2>1, <2>2
<1>. QED BY <1>1, AlwaysPartsInv, PTL

\* A path of one hop or none is found exactly where canTransitionReservation
\* allows the move: the two public functions of the module agree.
THEOREM SearchAgreesWithGateHolds == PartsSpec => []SearchAgreesWithGate
<1>1. PartsInv => SearchAgreesWithGate
      BY PathAgrees DEF PartsInv, SearchInv, SearchAgreesWithGate, Search!SearchAgreesWithGate
<1>. QED BY <1>1, AlwaysPartsInv, PTL
=============================================================================

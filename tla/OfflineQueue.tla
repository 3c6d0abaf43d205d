---------------------------- MODULE OfflineQueue ----------------------------
(***************************************************************************)
(* The outbox of the driver's app: actions that could not be sent are kept *)
(* in AsyncStorage and replayed later, incident reports that the server    *)
(* refuses go to a dead letter list.  Both are one JSON array that is read,*)
(* changed and written back, with an await at the read and at the write:   *)
(* what runs behind an await, the mirror of the queue's length included,   *)
(* is a step of its own, and every access may fail.  The app can be killed *)
(* at any point; AsyncStorage survives, everything else does not.          *)
(***************************************************************************)
EXTENDS Naturals, Sequences, SequencesExt

CONSTANTS
    Incidents,   \* incident reports the driver submits
    Others,      \* other actions (status steps, acknowledgements)
    Drains,      \* calls of syncQueue and getPendingCount under way together
    MaxQueue,    \* MAX_QUEUE
    Unknown      \* knownPendingCount is null

Actions == Incidents \union Others

QueueAssumption ==
    /\ Incidents \intersect Others = {}
    /\ MaxQueue \in Nat \ {0}
    /\ Unknown \notin Nat

VARIABLES
    queue,      \* @offline_queue
    dead,       \* @offline_dead_letter_incidents
    known,      \* knownPendingCount
    isSyncing,
    put,        \* enqueueRequest of each action, with the array it read
    drain,      \* syncQueue and getPendingCount, with the arrays they read and keep
    retry,      \* retryIncidentDeadLetters
    settled,    \* actions the server has taken, and reports the driver discarded
    slipped,    \* history: an array was written that was not made from the stored
                \* one, or a dead letter could not be written
    missed      \* history: a count of the queue failed or came late

memory == <<known, isSyncing, put, drain, retry>>
history == <<slipped, missed>>
vars == <<queue, dead, memory, settled, history>>

NoPut == [pc |-> "new", copy |-> <<>>]
NoDrain == [pc |-> "idle", read |-> <<>>, todo |-> <<>>, kept |-> <<>>, copy |-> {}]
NoRetry == [pc |-> "idle", todo |-> {}, item |-> {}, copy |-> {}]

\* The oldest action that is not an incident report.
Victim(s) == SelectInSeq(s, LAMBDA a : a \notin Incidents)

\* Fault: the oldest action goes, whatever it is.
CappedOldest(s) == IF Len(s) <= MaxQueue THEN s ELSE Tail(s)

\* Each call adds one action, so that one victim is enough.
Capped(s) ==
    IF Len(s) <= MaxQueue \/ Victim(s) = 0 THEN s ELSE RemoveAt(s, Victim(s))

TypeOK ==
    /\ queue \in Seq(Actions) /\ dead \subseteq Incidents
    /\ known \in Nat \union {Unknown} /\ isSyncing \in BOOLEAN
    /\ put \in [Actions -> [pc: {"new", "write", "mirror", "stored", "lost"}, copy: Seq(Actions)]]
    /\ drain \in [Drains -> [pc: {"idle", "read", "look", "send", "readDead", "writeDead",
                                  "save", "saved", "count", "counted"},
                             read: Seq(Actions), todo: Seq(Actions), kept: Seq(Actions),
                             copy: SUBSET Incidents]]
    /\ retry \in [pc: {"idle", "send", "read", "write"}, todo: SUBSET Incidents,
                  item: SUBSET Incidents, copy: SUBSET Incidents]
    /\ settled \subseteq Actions /\ slipped \in BOOLEAN /\ missed \in BOOLEAN

Init ==
    /\ queue = <<>> /\ dead = {}
    /\ known = Unknown /\ isSyncing = FALSE
    /\ put = [a \in Actions |-> NoPut]
    /\ drain = [d \in Drains |-> NoDrain]
    /\ retry = NoRetry
    /\ settled = {} /\ slipped = FALSE /\ missed = FALSE

\* setItem of an array made from a copy of the stored one.
WriteQueue(copy, array) ==
    queue' = array /\ slipped' = (slipped \/ copy # queue) /\ UNCHANGED dead
WriteDead(copy, list) ==
    dead' = list /\ slipped' = (slipped \/ copy # dead) /\ UNCHANGED queue

------------------------------------------------------------------------------
(* enqueueRequest *)

\* The request failed on the network, perhaps after the server had taken it.  An
\* action whose array can be neither read nor written is lost with a log line.
EnqueueRead(a) ==
    /\ put[a].pc = "new"
    /\ put' \in { [put EXCEPT ![a] = [pc |-> "write", copy |-> queue]],
                  [put EXCEPT ![a].pc = "lost"] }
    /\ settled' \in {settled, settled \union {a}}
    /\ UNCHANGED <<queue, dead, known, isSyncing, drain, retry, history>>

EnqueueWrite(a) ==
    LET array == Capped(Append(put[a].copy, a)) IN
    /\ put[a].pc = "write"
    /\ \/ /\ WriteQueue(put[a].copy, array)
          /\ put' = [put EXCEPT ![a] = [pc |-> "mirror", copy |-> array]]
       \/ /\ put' = [put EXCEPT ![a] = [pc |-> "lost", copy |-> <<>>]]
          /\ UNCHANGED <<queue, dead, slipped>>
    /\ UNCHANGED <<known, isSyncing, drain, retry, settled, missed>>

\* Fault: the mirror of the length is left to the next drain.
EnqueueUnmirrored(a) ==
    /\ put[a].pc = "mirror"
    /\ put' = [put EXCEPT ![a] = [pc |-> "stored", copy |-> <<>>]]
    /\ UNCHANGED <<queue, dead, known, isSyncing, drain, retry, settled, history>>

EnqueueMirror(a) ==
    /\ put[a].pc = "mirror"
    /\ known' = Len(put[a].copy)
    /\ put' = [put EXCEPT ![a] = [pc |-> "stored", copy |-> <<>>]]
    /\ UNCHANGED <<queue, dead, isSyncing, drain, retry, settled, history>>

------------------------------------------------------------------------------
(* syncQueue *)

Goto(d, step) == drain' = [drain EXCEPT ![d].pc = step]
At(d, step) == drain[d].pc = step

\* The finally block: getPendingCount is called and not awaited.
Finally(d) == isSyncing' = FALSE /\ drain' = [drain EXCEPT ![d] = [NoDrain EXCEPT !.pc = "count"]]

\* isSyncing is looked at before the read and set after it.  The connectivity
\* watch and the start of the app call without a look at hasPendingWork.
StartDrain(d) ==
    /\ At(d, "idle") /\ ~isSyncing
    /\ Goto(d, "read")
    /\ UNCHANGED <<queue, dead, known, isSyncing, put, retry, settled, history>>

ReadQueue(d) ==
    /\ At(d, "read")
    /\ \/ drain' = [drain EXCEPT ![d].read = queue, ![d].pc = "look"] /\ UNCHANGED isSyncing
       \/ Finally(d)
    /\ UNCHANGED <<queue, dead, known, put, retry, settled, history>>

\* The early return of an empty queue passes through the finally block as well.
LookAtQueue(d) ==
    /\ At(d, "look")
    /\ \/ drain[d].read = <<>> /\ known' = 0 /\ Finally(d)
       \/ /\ drain[d].read # <<>>
          /\ isSyncing' = TRUE /\ UNCHANGED known
          /\ drain' = [drain EXCEPT ![d].todo = drain[d].read, ![d].pc = "send"]
    /\ UNCHANGED <<queue, dead, put, retry, settled, history>>

Sent(d) == Head(drain[d].todo)
Drop(d, step) == drain' = [drain EXCEPT ![d].todo = Tail(@), ![d].pc = step]

\* Taken; a transient failure, which may hide that it was taken; or refused.
Send(d) ==
    /\ At(d, "send") /\ drain[d].todo # <<>>
    /\ \/ settled' = settled \union {Sent(d)} /\ Drop(d, "send")
       \/ /\ settled' \in {settled, settled \union {Sent(d)}}
          /\ drain' = [drain EXCEPT ![d].todo = Tail(@), ![d].kept = Append(@, Sent(d))]
       \/ Sent(d) \in Others /\ Drop(d, "send") /\ UNCHANGED settled
       \/ Sent(d) \in Incidents /\ Goto(d, "readDead") /\ UNCHANGED settled
    /\ UNCHANGED <<queue, dead, known, isSyncing, put, retry, history>>

\* quarantineIncidentReport.  A list that cannot be read is taken for an empty one.
ReadDead(d) ==
    /\ At(d, "readDead")
    /\ \E list \in {dead, {}} :
          drain' = [drain EXCEPT ![d].copy = list, ![d].pc = "writeDead"]
    /\ UNCHANGED <<queue, dead, known, isSyncing, put, retry, settled, history>>

\* A failure is swallowed, and the drain drops the report all the same.
Quarantine(d) ==
    /\ At(d, "writeDead")
    /\ \/ WriteDead(drain[d].copy, drain[d].copy \union {Sent(d)})
       \/ slipped' = TRUE /\ UNCHANGED <<queue, dead>>
    /\ Drop(d, "send")
    /\ UNCHANGED <<known, isSyncing, put, retry, settled, missed>>

\* The array is written only when its length has changed, and mirrored before.
MirrorKept(d) ==
    LET job == drain[d] IN
    /\ At(d, "send") /\ job.todo = <<>>
    /\ known' = Len(job.kept)
    /\ \/ Len(job.kept) = Len(job.read) /\ Finally(d)
       \/ Len(job.kept) # Len(job.read) /\ Goto(d, "save") /\ UNCHANGED isSyncing
    /\ UNCHANGED <<queue, dead, put, retry, settled, history>>

SaveQueue(d) ==
    /\ At(d, "save")
    /\ WriteQueue(drain[d].read, drain[d].kept) \/ UNCHANGED <<queue, dead, slipped>>
    /\ Goto(d, "saved")
    /\ UNCHANGED <<known, isSyncing, put, retry, settled, missed>>

EndDrain(d) ==
    /\ At(d, "saved") /\ Finally(d)
    /\ UNCHANGED <<queue, dead, known, put, retry, settled, history>>

------------------------------------------------------------------------------
(* getPendingCount, which the connectivity banner calls as well *)

StartCount(d) ==
    /\ At(d, "idle") /\ Goto(d, "count")
    /\ UNCHANGED <<queue, dead, known, isSyncing, put, retry, settled, history>>

\* A failure is swallowed and leaves the mirror as it is.
ReadCount(d) ==
    /\ At(d, "count")
    /\ \/ drain' = [drain EXCEPT ![d].read = queue, ![d].pc = "counted"] /\ UNCHANGED missed
       \/ missed' = TRUE /\ Goto(d, "idle")
    /\ UNCHANGED <<queue, dead, known, isSyncing, put, retry, settled, slipped>>

MirrorCount(d) ==
    /\ At(d, "counted")
    /\ known' = Len(drain[d].read)
    /\ missed' = (missed \/ drain[d].read # queue)
    /\ drain' = [drain EXCEPT ![d] = NoDrain]
    /\ UNCHANGED <<queue, dead, isSyncing, put, retry, settled, slipped>>

------------------------------------------------------------------------------
(* The dead letters *)

StartRetry ==
    /\ retry.pc = "idle" /\ dead # {}
    /\ retry' = [NoRetry EXCEPT !.pc = "send", !.todo = dead]
    /\ UNCHANGED <<queue, dead, known, isSyncing, put, drain, settled, history>>

\* The report is taken and will be removed, or stays for another time.
RetrySend ==
    /\ retry.pc = "send"
    /\ \E a \in retry.todo :
          \/ /\ settled' = settled \union {a}
             /\ retry' = [retry EXCEPT !.todo = @ \ {a}, !.item = {a}, !.pc = "read"]
          \/ retry' = [retry EXCEPT !.todo = @ \ {a}] /\ UNCHANGED settled
    /\ UNCHANGED <<queue, dead, known, isSyncing, put, drain, history>>

\* removeIncidentDeadLetter.  A list that cannot be read is taken for an empty one.
RetryRead ==
    /\ retry.pc = "read"
    /\ retry' \in { [retry EXCEPT !.copy = list, !.pc = "write"] : list \in {dead, {}} }
    /\ UNCHANGED <<queue, dead, known, isSyncing, put, drain, settled, history>>

\* After a failure the report stays for another time.
RetryWrite ==
    /\ retry.pc = "write"
    /\ WriteDead(retry.copy, retry.copy \ retry.item) \/ UNCHANGED <<queue, dead, slipped>>
    /\ retry' = [retry EXCEPT !.item = {}, !.copy = {}, !.pc = "send"]
    /\ UNCHANGED <<known, isSyncing, put, drain, settled, missed>>

RetryEnd ==
    /\ retry.pc = "send" /\ retry.todo = {}
    /\ retry' = NoRetry
    /\ UNCHANGED <<queue, dead, known, isSyncing, put, drain, settled, history>>

\* clearIncidentDeadLetters, which the driver has to confirm
Discard ==
    /\ dead # {} /\ dead' = {} /\ settled' = settled \union dead
    /\ UNCHANGED <<queue, memory, history>>

\* The app is killed.  An action that was not stored yet is lost with it.
Killed(job) ==
    CASE job.pc = "write" -> [NoPut EXCEPT !.pc = "lost"]
      [] job.pc = "mirror" -> [NoPut EXCEPT !.pc = "stored"]
      [] OTHER -> job

Kill ==
    /\ known' = Unknown /\ isSyncing' = FALSE
    /\ put' = [a \in Actions |-> Killed(put[a])]
    /\ drain' = [d \in Drains |-> NoDrain]
    /\ retry' = NoRetry
    /\ UNCHANGED <<queue, dead, settled, history>>

Drain(d) ==
    \/ StartDrain(d) \/ ReadQueue(d) \/ LookAtQueue(d) \/ Send(d) \/ ReadDead(d)
    \/ Quarantine(d) \/ MirrorKept(d) \/ SaveQueue(d) \/ EndDrain(d)
    \/ StartCount(d) \/ ReadCount(d) \/ MirrorCount(d)

Next ==
    \/ \E a \in Actions : EnqueueRead(a) \/ EnqueueWrite(a) \/ EnqueueMirror(a)
    \/ \E d \in Drains : Drain(d)
    \/ StartRetry \/ RetrySend \/ RetryRead \/ RetryWrite \/ RetryEnd
    \/ Discard \/ Kill

Spec == Init /\ [][Next]_vars

------------------------------------------------------------------------------
(* Properties *)

Stored == { a \in Actions : put[a].pc \in {"mirror", "stored"} }

\* An incident report that was stored is on the phone until the server has it or
\* the driver discards it, over full queues, refusals, restarts and retries.
IncidentsKept == Stored \intersect Incidents \subseteq settled \union ToSet(queue) \union dead

\* A report is lost in two ways only: by a write of an array that was not made from
\* the stored one, because the copy had gone stale or the list could not be read, or
\* by a dead letter that could not be written.  Failures of the queue itself, kills
\* and the cap lose none.
LostOnlyByStaleOrFailedWrite == slipped \/ IncidentsKept

\* A call that will still count what is stored
Recounting ==
    \/ \E a \in Actions : put[a].pc = "mirror"
    \/ \E d \in Drains :
          \/ drain[d].pc \in {"save", "saved", "count"}
          \/ drain[d].pc = "counted" /\ drain[d].read # <<>>

\* hasPendingWork hides stored work only while a call is under way that will count
\* it again, whichever calls overlap, unless a count failed or was overtaken.
HiddenWorkIsRecounted == queue # <<>> /\ known = 0 => missed \/ Recounting
=============================================================================

---------------------------- MODULE QueueProofs ----------------------------
(***************************************************************************)
(* The outbox of the driver's app, for every number of actions and of      *)
(* calls and every size of the queue: a report is lost only by a write of  *)
(* an array that was not made from the stored one or by a dead letter that *)
(* could not be written, and work is hidden from the drain only while some *)
(* call counts it again, or where a count failed or was overtaken.         *)
(*                                                                         *)
(* A drain holds the array it read while the rest of the app goes on.  As  *)
(* long as nothing slipped, every report of that array is still to be      *)
(* sent, kept, settled or quarantined (Accounted).                         *)
(***************************************************************************)
EXTENDS OfflineQueue, WellFoundedInduction, SequenceTheorems, TLAPS

Working == { d \in Drains : drain[d].pc \in {"send", "readDead", "writeDead", "save"} }

Accounted ==
    /\ \A d \in Drains : drain[d].pc \in {"readDead", "writeDead"} =>
          drain[d].todo # <<>> /\ Sent(d) \in Incidents
    /\ \A d \in Drains : drain[d].pc = "save" => drain[d].todo = <<>>
    /\ retry.item \subseteq settled
    /\ ~slipped => \A d \in Working : \A a \in Incidents \intersect ToSet(drain[d].read) :
          a \in settled \union dead \union ToSet(drain[d].todo) \union ToSet(drain[d].kept)

\* An array that is to be mirrored holds at least the action that was added.
MirrorsWork == \A a \in Actions : put[a].pc = "mirror" => put[a].copy # <<>>

QueueInv ==
    TypeOK /\ Accounted /\ MirrorsWork /\ HiddenWorkIsRecounted /\ LostOnlyByStaleOrFailedWrite

------------------------------------------------------------------------------
(* Arrays *)

LEMMA LeastIndex ==
    ASSUME NEW I, I \subseteq Nat, I # {}
    PROVE  Min(I) \in I
<1>1. PICK x \in I : \A y \in I : ~ (<<y, x>> \in OpToRel(<, Nat))
      BY NatLessThanWellFounded, WFMin
<1>2. ASSUME NEW y \in I PROVE x <= y
  <2>1. x \in Nat /\ y \in Nat /\ <<y, x>> \in Nat \X Nat
        OBVIOUS
  <2>2. <<y, x>>[1] = y /\ <<y, x>>[2] = x
        OBVIOUS
  <2>3. ~(y < x)
        BY <1>1, <2>1, <2>2 DEF OpToRel
  <2>. QED BY <2>1, <2>3
<1>. QED BY <1>2 DEF Min

LEMMA VictimIsNoReport ==
    ASSUME NEW s \in Seq(Actions), Victim(s) # 0
    PROVE  Victim(s) \in 1..Len(s) /\ s[Victim(s)] \notin Incidents
<1>. DEFINE I == { i \in 1..Len(s) : s[i] \notin Incidents }
<1>1. Victim(s) = IF I # {} THEN Min(I) ELSE 0
      BY DEF Victim, SelectInSeq
<1>2. I # {} /\ I \subseteq Nat
      BY <1>1
<1>. QED BY <1>1, <1>2, LeastIndex

\* Whatever the cap takes out, it leaves every report in.
LEMMA CapKeepsReports ==
    ASSUME NEW s \in Seq(Actions)
    PROVE  /\ Capped(s) \in Seq(Actions)
           /\ \A a \in Incidents : a \in ToSet(s) => a \in ToSet(Capped(s))
           /\ QueueAssumption => (s # <<>> => Capped(s) # <<>>)
<1>1. CASE Len(s) <= MaxQueue \/ Victim(s) = 0
      BY <1>1 DEF Capped
<1>2. CASE ~(Len(s) <= MaxQueue \/ Victim(s) = 0)
  <2>. DEFINE i == Victim(s)
  <2>1. i \in 1..Len(s) /\ s[i] \notin Incidents
        BY <1>2, VictimIsNoReport
  <2>. HIDE DEF i
  <2>. DEFINE before == SubSeq(s, 1, i - 1)
              after == SubSeq(s, i + 1, Len(s))
  <2>2. Capped(s) = before \o after
        BY <1>2 DEF Capped, RemoveAt, i
  <2>3. /\ before \in Seq(Actions) /\ Len(before) = i - 1
        /\ after \in Seq(Actions) /\ Len(after) = Len(s) - i
        /\ \A k \in 1..(i - 1) : before[k] = s[k]
        /\ \A k \in 1..(Len(s) - i) : after[k] = s[i + k]
        BY <2>1
  <2>. HIDE DEF before, after
  <2>4. /\ Capped(s) \in Seq(Actions) /\ Len(Capped(s)) = Len(s) - 1
        /\ \A k \in 1..(i - 1) : Capped(s)[k] = s[k]
        /\ \A k \in i..(Len(s) - 1) : Capped(s)[k] = s[k + 1]
    <3>. Len(s) \in Nat /\ i \in Nat /\ i <= Len(s) /\ i >= 1
         BY <2>1
    <3>1. before \o after \in Seq(Actions) /\ Len(before \o after) = Len(before) + Len(after)
          BY <2>3, ConcatProperties
    <3>2. \A k \in 1..(Len(before) + Len(after)) :
             (before \o after)[k] = IF k <= Len(before) THEN before[k] ELSE after[k - Len(before)]
          BY <2>3
    <3>4. \A k \in 1..(Len(s) - 1) :
             Capped(s)[k] = IF k <= i - 1 THEN before[k] ELSE after[k - (i - 1)]
          BY <2>2, <2>3, <3>2
    <3>5. ASSUME NEW k \in 1..(i - 1) PROVE Capped(s)[k] = s[k]
      <4>1. k \in 1..(Len(s) - 1) /\ k <= i - 1
            OBVIOUS
      <4>. QED BY <2>3, <3>4, <4>1
    <3>6. Len(Capped(s)) = Len(s) - 1 /\ Capped(s) \in Seq(Actions)
          BY <2>2, <2>3, <3>1
    <3>3. ASSUME NEW k \in i..(Len(s) - 1) PROVE Capped(s)[k] = s[k + 1]
      <4>1. k - (i - 1) \in 1..(Len(s) - i) /\ k \in 1..(Len(s) - 1) /\ ~(k <= i - 1)
            BY <2>1
      <4>2. i + (k - (i - 1)) = k + 1
            BY <2>1
      <4>. QED BY <2>3, <3>4, <4>1, <4>2
    <3>. QED BY <3>3, <3>5, <3>6
  <2>5. ASSUME NEW a \in Incidents, NEW k \in 1..Len(s), s[k] = a
        PROVE  a \in ToSet(Capped(s))
    <3>1. CASE k < i
          BY <2>1, <2>4, <2>5, <3>1 DEF ToSet
    <3>2. CASE k > i
      <4>1. k - 1 \in i..(Len(s) - 1) /\ k - 1 \in 1..Len(Capped(s))
            BY <2>1, <2>4, <3>2
      <4>2. Capped(s)[k - 1] = a
            BY <2>4, <2>5, <4>1
      <4>. QED BY <2>4, <4>1, <4>2 DEF ToSet
    <3>. QED BY <2>1, <2>5, <3>1, <3>2
  <2>6. QueueAssumption => Capped(s) # <<>>
        BY <1>2, <2>4 DEF QueueAssumption
  <2>. QED BY <2>4, <2>5, <2>6 DEF ToSet
<1>. QED BY <1>1, <1>2

LEMMA SetOfAppend ==
    ASSUME NEW s \in Seq(Actions), NEW a \in Actions
    PROVE  /\ Append(s, a) \in Seq(Actions) /\ Len(Append(s, a)) # 0
           /\ ToSet(Append(s, a)) = ToSet(s) \union {a}
<1>1. /\ Append(s, a) \in Seq(Actions) /\ Len(Append(s, a)) = Len(s) + 1
      /\ \A k \in 1..Len(s) : Append(s, a)[k] = s[k] /\ Append(s, a)[Len(s) + 1] = a
      OBVIOUS
<1>2. \A k \in 1..(Len(s) + 1) : k \in 1..Len(s) \/ k = Len(s) + 1
      OBVIOUS
<1>3. Append(s, a)[Len(s) + 1] = a
      OBVIOUS
<1>4. DOMAIN Append(s, a) = 1..(Len(s) + 1) /\ DOMAIN s = 1..Len(s) /\ Len(s) \in Nat
      BY <1>1
<1>. QED BY <1>1, <1>2, <1>3, <1>4 DEF ToSet

LEMMA SetOfTail ==
    ASSUME NEW s \in Seq(Actions), s # <<>>
    PROVE  Tail(s) \in Seq(Actions) /\ Head(s) \in Actions /\ ToSet(s) = {Head(s)} \union ToSet(Tail(s))
<1>1. /\ Tail(s) \in Seq(Actions) /\ Len(Tail(s)) = Len(s) - 1 /\ Len(s) \in Nat \ {0}
      /\ Head(s) = s[1] /\ Head(s) \in Actions
      /\ \A k \in 1..(Len(s) - 1) : Tail(s)[k] = s[k + 1]
      OBVIOUS
<1>2. DOMAIN s = 1..Len(s) /\ DOMAIN Tail(s) = 1..(Len(s) - 1)
      BY <1>1
<1>3. ASSUME NEW k \in 1..Len(s) PROVE s[k] \in {Head(s)} \union ToSet(Tail(s))
  <2>1. CASE k = 1
        BY <1>1, <2>1
  <2>2. CASE k # 1
    <3>1. k - 1 \in 1..(Len(s) - 1) /\ Tail(s)[k - 1] = s[k]
          BY <1>1, <2>2
    <3>. QED BY <1>2, <3>1 DEF ToSet
  <2>. QED BY <2>1, <2>2
<1>4. ASSUME NEW k \in 1..(Len(s) - 1) PROVE Tail(s)[k] \in ToSet(s)
      BY <1>1, <1>2 DEF ToSet
<1>5. Head(s) \in ToSet(s)
      BY <1>1, <1>2 DEF ToSet
<1>. QED BY <1>1, <1>2, <1>3, <1>4, <1>5 DEF ToSet

LEMMA EmptySet == ASSUME NEW s \in Seq(Actions) PROVE s = <<>> <=> ToSet(s) = {}
<1>1. s # <<>> => 1 \in DOMAIN s
      OBVIOUS
<1>. QED BY <1>1 DEF ToSet

------------------------------------------------------------------------------
(* Steps beside the drains, and steps of one drain *)

PutType == [pc: {"new", "write", "mirror", "stored", "lost"}, copy: Seq(Actions)]
DrainType == [pc: {"idle", "read", "look", "send", "readDead", "writeDead",
                   "save", "saved", "count", "counted"},
              read: Seq(Actions), todo: Seq(Actions), kept: Seq(Actions), copy: SUBSET Incidents]
RetryType == [pc: {"idle", "send", "read", "write"}, todo: SUBSET Incidents,
              item: SUBSET Incidents, copy: SUBSET Incidents]

LEMMA Typed ==
    TypeOK <=> /\ queue \in Seq(Actions) /\ dead \subseteq Incidents
               /\ known \in Nat \union {Unknown} /\ isSyncing \in BOOLEAN
               /\ put \in [Actions -> PutType] /\ drain \in [Drains -> DrainType]
               /\ retry \in RetryType
               /\ settled \subseteq Actions /\ slipped \in BOOLEAN /\ missed \in BOOLEAN
BY DEF TypeOK, PutType, DrainType, RetryType

LEMMA AtRest ==
    /\ NoPut \in PutType /\ NoPut.pc = "new"
    /\ NoDrain \in DrainType /\ NoDrain.pc = "idle"
    /\ NoRetry \in RetryType /\ NoRetry.item = {}
<1>1. <<>> \in Seq(Actions) /\ {} \in SUBSET Incidents
      OBVIOUS
<1>. QED BY <1>1 DEF NoPut, NoDrain, NoRetry, PutType, DrainType, RetryType

\* No report is taken from the phone, unless the server has it or something slipped.
NothingLost ==
    /\ settled \subseteq settled'
    /\ ~slipped' => ~slipped /\ dead \subseteq settled' \union dead'

\* Will this call count what is stored?
Counts(run) ==
    run.pc \in {"save", "saved", "count"} \/ (run.pc = "counted" /\ run.read # <<>>)

LEMMA WhoRecounts ==
    Recounting <=> (\E a \in Actions : put[a].pc = "mirror") \/ (\E d \in Drains : Counts(drain[d]))
BY DEF Recounting, Counts

LEMMA StepAside ==
    ASSUME QueueInv, TypeOK', NothingLost, UNCHANGED <<queue, known, missed, drain>>,
           retry'.item \subseteq settled',
           \A a \in Actions : put'[a].pc \in {"mirror", "stored"} => put'[a].pc = put[a].pc,
           \A a \in Actions : put[a].pc = "mirror" => put'[a] = put[a]
    PROVE  QueueInv'
<1>1. HiddenWorkIsRecounted'
  <2>1. (\E a \in Actions : put[a].pc = "mirror") => \E a \in Actions : put'[a].pc = "mirror"
        OBVIOUS
  <2>2. Recounting => Recounting'
        BY <2>1 DEF Recounting
  <2>. QED BY <2>2 DEF QueueInv, HiddenWorkIsRecounted
<1>2. LostOnlyByStaleOrFailedWrite'
  <2>1. Stored' \subseteq Stored
        BY DEF Stored
  <2>. QED BY <2>1 DEF QueueInv, LostOnlyByStaleOrFailedWrite, IncidentsKept, NothingLost
<1>3. Accounted'
      BY DEF QueueInv, Accounted, NothingLost, Working, Sent
<1>4. MirrorsWork'
      BY DEF QueueInv, MirrorsWork
<1>. QED BY <1>1, <1>2, <1>3, <1>4 DEF QueueInv

\* What drain d holds, after a step, of the reports it has read
Holds(new) ==
    /\ new.pc \in {"readDead", "writeDead"} => new.todo # <<>> /\ Head(new.todo) \in Incidents
    /\ new.pc = "save" => new.todo = <<>>
    /\ ~slipped' /\ new.pc \in {"send", "readDead", "writeDead", "save"} =>
          \A a \in Incidents \intersect ToSet(new.read) :
             a \in settled' \union dead' \union ToSet(new.todo) \union ToSet(new.kept)

\* Why no work is hidden behind a step of drain d
Shown(d, new) ==
    \/ Counts(new) \/ missed' \/ (queue' # <<>> => known' # 0)
    \/ ~Counts(drain[d]) /\ UNCHANGED <<queue, known, missed>>

LEMMA DrainStep ==
    ASSUME QueueInv, NEW d \in Drains, NEW new \in DrainType,
           drain' = [drain EXCEPT ![d] = new], UNCHANGED <<retry, put>>,
           queue' \in Seq(Actions), dead' \subseteq Incidents, known' \in Nat \union {Unknown},
           isSyncing' \in BOOLEAN, settled' \subseteq Actions,
           slipped' \in BOOLEAN, missed' \in BOOLEAN,
           NothingLost, Holds(new), Shown(d, new),
           ~slipped' => \A a \in Incidents \intersect ToSet(queue) :
                          a \in settled' \union dead' \union ToSet(queue')
    PROVE  QueueInv'
<1>1. TypeOK'
      BY Typed DEF QueueInv, TypeOK, PutType, DrainType, RetryType
<1>2. /\ drain'[d] = new /\ \A e \in Drains \ {d} : drain'[e] = drain[e]
      BY Typed DEF QueueInv
<1>3. Accounted'
  <2>1. \A e \in Drains : drain'[e].pc \in {"readDead", "writeDead"} =>
           drain'[e].todo # <<>> /\ Head(drain'[e].todo) \in Incidents
        BY <1>2 DEF QueueInv, Accounted, Sent, Holds
  <2>2. \A e \in Drains : drain'[e].pc = "save" => drain'[e].todo = <<>>
        BY <1>2 DEF QueueInv, Accounted, Holds
  <2>3. retry'.item \subseteq settled'
        BY DEF QueueInv, Accounted, NothingLost
  <2>4. ASSUME ~slipped', NEW e \in Working', NEW a \in Incidents \intersect ToSet(drain'[e].read)
        PROVE  a \in settled' \union dead' \union ToSet(drain'[e].todo) \union ToSet(drain'[e].kept)
    <3>1. CASE e = d
          BY <1>2, <2>4, <3>1 DEF Holds, Working
    <3>2. CASE e # d
          BY <1>2, <2>4, <3>2 DEF QueueInv, Accounted, Working, NothingLost
    <3>. QED BY <3>1, <3>2
  <2>. QED BY <2>1, <2>2, <2>3, <2>4 DEF Accounted, Sent
<1>4. LostOnlyByStaleOrFailedWrite'
      BY DEF QueueInv, LostOnlyByStaleOrFailedWrite, IncidentsKept, Stored, NothingLost
<1>5. MirrorsWork'
      BY DEF QueueInv, MirrorsWork
<1>6. HiddenWorkIsRecounted'
  <2>. SUFFICES ASSUME queue' # <<>>, known' = 0, ~missed'
                PROVE  (\E a \in Actions : put'[a].pc = "mirror") \/ (\E e \in Drains : Counts(drain'[e]))
       BY DEF HiddenWorkIsRecounted, Recounting, Counts
  <2>1. CASE Counts(new)
        BY <1>2, <2>1
  <2>2. CASE ~Counts(new)
    <3>1. ~Counts(drain[d]) /\ UNCHANGED <<queue, known, missed>>
          BY <2>2 DEF Shown
    <3>2. Recounting
          BY <3>1 DEF QueueInv, HiddenWorkIsRecounted
    <3>3. (\E a \in Actions : put[a].pc = "mirror") \/ (\E e \in Drains : Counts(drain[e]))
          BY <3>2, WhoRecounts
    <3>. QED BY <1>2, <3>1, <3>3
  <2>. QED BY <2>1, <2>2
<1>. QED BY <1>1, <1>3, <1>4, <1>5, <1>6 DEF QueueInv

------------------------------------------------------------------------------
(* enqueueRequest *)

LEMMA EnqueueReadKeepsInv ==
    ASSUME QueueAssumption, QueueInv, NEW a \in Actions, EnqueueRead(a)
    PROVE  QueueInv'
<1>1. PICK new \in PutType : new.pc \in {"write", "lost"} /\ put' = [put EXCEPT ![a] = new]
  <2>1. [pc |-> "write", copy |-> queue] \in PutType
        BY Typed DEF QueueInv, PutType
  <2>2. [put[a] EXCEPT !.pc = "lost"] \in PutType /\ [put[a] EXCEPT !.pc = "lost"].pc = "lost"
        BY Typed DEF QueueInv, PutType
  <2>3. \/ put' = [put EXCEPT ![a] = [pc |-> "write", copy |-> queue]]
        \/ put' = [put EXCEPT ![a] = [put[a] EXCEPT !.pc = "lost"]]
        BY DEF EnqueueRead
  <2>. QED BY <2>1, <2>2, <2>3
<1>2. /\ put[a].pc = "new" /\ settled' \in {settled, settled \union {a}}
      /\ UNCHANGED <<queue, dead, known, isSyncing, drain, retry, slipped, missed>>
      BY DEF EnqueueRead, history
<1>3. put \in [Actions -> PutType] /\ put'[a] = new /\ \A b \in Actions \ {a} : put'[b] = put[b]
      BY <1>1, Typed DEF QueueInv
<1>4. TypeOK'
      BY <1>1, <1>2, Typed DEF QueueInv, TypeOK, PutType, DrainType, RetryType
<1>5. \A b \in Actions : put'[b].pc \in {"mirror", "stored"} => put'[b].pc = put[b].pc
      BY <1>1, <1>3
<1>6. \A b \in Actions : put[b].pc = "mirror" => put'[b] = put[b]
      BY <1>2, <1>3
<1>7. retry'.item \subseteq settled' /\ NothingLost
      BY <1>2 DEF QueueInv, Accounted, NothingLost
<1>. QED BY <1>2, <1>4, <1>5, <1>6, <1>7, StepAside

\* The array that is written holds every report of the copy, and the new action.
LEMMA EnqueueWriteKeepsInv ==
    ASSUME QueueAssumption, QueueInv, NEW a \in Actions, EnqueueWrite(a)
    PROVE  QueueInv'
<1>. DEFINE array == Capped(Append(put[a].copy, a))
<1>1. put[a].copy \in Seq(Actions) /\ put[a].pc = "write" /\ put \in [Actions -> PutType]
      BY Typed DEF QueueInv, PutType, EnqueueWrite
<1>2. /\ array \in Seq(Actions) /\ array # <<>>
      /\ \A b \in Incidents : b = a \/ b \in ToSet(put[a].copy) => b \in ToSet(array)
      BY ZenonT(40), <1>1, SetOfAppend, CapKeepsReports
<1>3. UNCHANGED <<dead, known, isSyncing, drain, retry, settled, missed>>
      BY DEF EnqueueWrite, WriteQueue
<1>4. CASE /\ queue' = array /\ slipped' = (slipped \/ put[a].copy # queue)
           /\ put' = [put EXCEPT ![a] = [pc |-> "mirror", copy |-> array]]
  <2>. HIDE DEF array
  <2>1. /\ put'[a] = [pc |-> "mirror", copy |-> array] /\ \A b \in Actions \ {a} : put'[b] = put[b]
        BY <1>1, <1>4
  <2>2. TypeOK'
    <3>1. queue' \in Seq(Actions) /\ slipped' \in BOOLEAN
          BY <1>2, <1>4
    <3>2. [pc |-> "mirror", copy |-> array] \in PutType
          BY <1>2 DEF PutType
    <3>3. put' \in [Actions -> PutType]
          BY <1>1, <1>4, <3>2
    <3>. QED BY <1>3, <3>1, <3>3, Typed DEF QueueInv, TypeOK, PutType, DrainType, RetryType
  <2>3. HiddenWorkIsRecounted'
        BY <2>1 DEF HiddenWorkIsRecounted, Recounting
  <2>4. LostOnlyByStaleOrFailedWrite'
    <3>. SUFFICES ASSUME ~slipped', NEW b \in Incidents, put'[b].pc \in {"mirror", "stored"}
                  PROVE  b \in settled' \union ToSet(queue') \union dead'
         BY DEF LostOnlyByStaleOrFailedWrite, IncidentsKept, Stored
    <3>1. ~slipped /\ put[a].copy = queue
          BY <1>4
    <3>2. b = a \/ b \in Stored
          BY <2>1 DEF Stored, Actions
    <3>3. CASE b = a
          BY <1>2, <1>4, <3>3
    <3>4. CASE b \in Stored
          BY <1>2, <1>3, <1>4, <3>1, <3>4 DEF QueueInv, LostOnlyByStaleOrFailedWrite, IncidentsKept
    <3>. QED BY <3>2, <3>3, <3>4
  <2>5. Accounted'
        BY <1>3, <1>4 DEF QueueInv, Accounted, Working, Sent
  <2>6. MirrorsWork'
        BY <1>2, <2>1 DEF QueueInv, MirrorsWork
  <2>. QED BY <2>2, <2>3, <2>4, <2>5, <2>6 DEF QueueInv
<1>5. CASE put' = [put EXCEPT ![a] = [pc |-> "lost", copy |-> <<>>]] /\ UNCHANGED <<queue, slipped>>
  <2>1. [pc |-> "lost", copy |-> <<>>] \in PutType
    <3>1. <<>> \in Seq(Actions)
          OBVIOUS
    <3>. QED BY <3>1 DEF PutType
  <2>2. /\ put'[a].pc = "lost" /\ \A b \in Actions \ {a} : put'[b] = put[b]
        /\ put' \in [Actions -> PutType]
        BY <1>1, <1>5, <2>1
  <2>3. TypeOK'
        BY <1>3, <1>5, <2>2, Typed DEF QueueInv, TypeOK, PutType, DrainType, RetryType
  <2>4. \A b \in Actions : put'[b].pc \in {"mirror", "stored"} => put'[b].pc = put[b].pc
        BY <2>2
  <2>5. \A b \in Actions : put[b].pc = "mirror" => put'[b] = put[b]
        BY <1>1, <2>2
  <2>6. retry'.item \subseteq settled' /\ NothingLost
        BY <1>3, <1>5 DEF QueueInv, Accounted, NothingLost
  <2>. QED BY <1>3, <1>5, <2>3, <2>4, <2>5, <2>6, StepAside
<1>. QED BY <1>4, <1>5 DEF EnqueueWrite, WriteQueue

LEMMA EnqueueMirrorKeepsInv ==
    ASSUME QueueAssumption, QueueInv, NEW a \in Actions, EnqueueMirror(a)
    PROVE  QueueInv'
<1>1. /\ put[a].pc = "mirror" /\ put[a].copy \in Seq(Actions) /\ put[a].copy # <<>>
      /\ put \in [Actions -> PutType]
      BY Typed DEF QueueInv, PutType, MirrorsWork, EnqueueMirror
<1>2. /\ known' = Len(put[a].copy) /\ put' = [put EXCEPT ![a] = [pc |-> "stored", copy |-> <<>>]]
      /\ UNCHANGED <<queue, dead, isSyncing, drain, retry, settled, slipped, missed>>
      BY DEF EnqueueMirror, history
<1>3. known' \in Nat /\ known' # 0
      BY <1>1, <1>2
<1>4. [pc |-> "stored", copy |-> <<>>] \in PutType
  <2>1. <<>> \in Seq(Actions)
        OBVIOUS
  <2>. QED BY <2>1 DEF PutType
<1>5. /\ put'[a].pc = "stored" /\ \A b \in Actions \ {a} : put'[b] = put[b]
      /\ put' \in [Actions -> PutType]
      BY <1>1, <1>2, <1>4
<1>6. TypeOK'
      BY <1>2, <1>3, <1>5, Typed DEF QueueInv, TypeOK, PutType, DrainType, RetryType
<1>7. HiddenWorkIsRecounted'
      BY <1>3 DEF HiddenWorkIsRecounted
<1>8. LostOnlyByStaleOrFailedWrite'
  <2>1. Stored' \subseteq Stored
        BY <1>1, <1>5 DEF Stored
  <2>. QED BY <1>2, <2>1 DEF QueueInv, LostOnlyByStaleOrFailedWrite, IncidentsKept
<1>9. Accounted' /\ MirrorsWork'
      BY <1>2, <1>5 DEF QueueInv, Accounted, Working, Sent, MirrorsWork
<1>. QED BY <1>6, <1>7, <1>8, <1>9 DEF QueueInv

------------------------------------------------------------------------------
(* syncQueue and getPendingCount *)

\* What the steps of a call that write neither queue nor list have in common
Untouched == UNCHANGED <<queue, dead, put, retry, settled, slipped>>

LEMMA QuietStep ==
    ASSUME QueueInv, NEW d \in Drains, NEW new \in DrainType,
           drain' = [drain EXCEPT ![d] = new], Untouched,
           known' \in Nat \union {Unknown}, isSyncing' \in BOOLEAN, missed' \in BOOLEAN,
           Holds(new), Shown(d, new)
    PROVE  QueueInv'
<1>1. /\ queue' \in Seq(Actions) /\ dead' \subseteq Incidents /\ settled' \subseteq Actions
      /\ slipped' \in BOOLEAN /\ NothingLost
      /\ \A a \in Incidents \intersect ToSet(queue) : a \in settled' \union dead' \union ToSet(queue')
      BY DEF QueueInv, TypeOK, NothingLost, Untouched
<1>. QED BY <1>1, DrainStep DEF Untouched

LEMMA CountNext ==
    /\ [NoDrain EXCEPT !.pc = "count"] \in DrainType
    /\ [NoDrain EXCEPT !.pc = "count"].pc = "count"
BY AtRest DEF DrainType

\* The finally block leaves a count under way.
LEMMA FinallyKeepsInv ==
    ASSUME QueueInv, NEW d \in Drains, Finally(d), Untouched,
           known' \in Nat \union {Unknown}, UNCHANGED missed
    PROVE  QueueInv'
<1>1. drain' = [drain EXCEPT ![d] = [NoDrain EXCEPT !.pc = "count"]] /\ isSyncing' \in BOOLEAN
      BY DEF Finally
<1>2. ASSUME NEW new, new.pc = "count" PROVE Holds(new) /\ Shown(d, new)
      BY <1>2 DEF Holds, Shown, Counts
<1>3. missed' \in BOOLEAN
      BY DEF QueueInv, TypeOK
<1>. QED BY <1>1, <1>2, <1>3, CountNext, QuietStep

\* A step in which a call only changes its place
LEMMA GotoKeepsInv ==
    ASSUME QueueInv, NEW d \in Drains, NEW step \in {"read", "count", "readDead", "save", "idle"},
           Goto(d, step), Untouched, UNCHANGED isSyncing, known' \in Nat \union {Unknown},
           missed' \in BOOLEAN,
           step \in {"read", "readDead"} => drain[d].pc \in {"idle", "send"} /\ UNCHANGED <<known, missed>>,
           step = "idle" => missed',
           step \in {"readDead", "save"} => drain[d].pc = "send",
           step = "readDead" => drain[d].todo # <<>> /\ Sent(d) \in Incidents,
           step = "save" => drain[d].todo = <<>>
    PROVE  QueueInv'
<1>. DEFINE new == [drain[d] EXCEPT !.pc = step]
<1>1. drain[d] \in DrainType /\ isSyncing' \in BOOLEAN
      BY Typed DEF QueueInv
<1>2. /\ new \in DrainType /\ new.pc = step /\ new.read = drain[d].read
      /\ new.todo = drain[d].todo /\ new.kept = drain[d].kept
      BY <1>1 DEF DrainType
<1>3. drain' = [drain EXCEPT ![d] = new]
      BY <1>1 DEF Goto, DrainType
<1>. HIDE DEF new
<1>4. Holds(new)
  <2>1. step \in {"readDead", "save"} => d \in Working
        BY DEF Working
  <2>. QED BY <1>2, <2>1 DEF Holds, Untouched, QueueInv, Accounted, Sent
<1>5. Shown(d, new)
      BY <1>2 DEF Shown, Counts, Untouched
<1>. QED BY <1>1, <1>2, <1>3, <1>4, <1>5, QuietStep

\* The steps in which a call begins, looks at what it has read, or counts
LEMMA LookingKeepsInv ==
    ASSUME QueueAssumption, QueueInv, NEW d \in Drains,
           StartDrain(d) \/ ReadQueue(d) \/ LookAtQueue(d)
    PROVE  QueueInv'
<1>1. /\ drain[d] \in DrainType /\ queue \in Seq(Actions) /\ known \in Nat \union {Unknown}
      /\ missed \in BOOLEAN /\ isSyncing \in BOOLEAN
      BY Typed DEF QueueInv
<1>2. Untouched /\ UNCHANGED missed
      BY DEF StartDrain, ReadQueue, LookAtQueue, Untouched, history
<1>3. CASE StartDrain(d)
      BY <1>1, <1>2, <1>3, GotoKeepsInv DEF StartDrain, At
<1>4. CASE ReadQueue(d)
  <2>1. CASE Finally(d)
        BY <1>1, <1>2, <1>4, <2>1, FinallyKeepsInv DEF ReadQueue
  <2>2. CASE drain' = [drain EXCEPT ![d].read = queue, ![d].pc = "look"] /\ UNCHANGED isSyncing
    <3>. DEFINE new == [drain[d] EXCEPT !.read = queue, !.pc = "look"]
    <3>1. new \in DrainType /\ new.pc = "look"
          BY <1>1 DEF DrainType
    <3>2. drain' = [drain EXCEPT ![d] = new]
          BY <1>1, <2>2 DEF DrainType
    <3>. HIDE DEF new
    <3>3. drain[d].pc = "read" /\ UNCHANGED known
          BY <1>4 DEF ReadQueue, At
    <3>4. Holds(new) /\ Shown(d, new)
          BY <1>2, <3>1, <3>3 DEF Holds, Shown, Counts, Untouched
    <3>. QED BY <1>1, <1>2, <2>2, <3>1, <3>2, <3>3, <3>4, QuietStep
  <2>. QED BY <1>4, <2>1, <2>2 DEF ReadQueue
<1>5. CASE LookAtQueue(d)
  <2>1. CASE known' = 0 /\ Finally(d)
        BY <1>2, <2>1, FinallyKeepsInv
  <2>2. CASE /\ isSyncing' = TRUE /\ UNCHANGED known
             /\ drain' = [drain EXCEPT ![d].todo = drain[d].read, ![d].pc = "send"]
    <3>. DEFINE new == [drain[d] EXCEPT !.todo = drain[d].read, !.pc = "send"]
    <3>1. new \in DrainType /\ new.pc = "send" /\ new.read = drain[d].read /\ new.todo = drain[d].read
          BY <1>1 DEF DrainType
    <3>2. drain' = [drain EXCEPT ![d] = new]
          BY <1>1, <2>2 DEF DrainType
    <3>. HIDE DEF new
    <3>3. drain[d].pc = "look"
          BY <1>5 DEF LookAtQueue, At
    <3>4. Holds(new) /\ Shown(d, new)
          BY <1>2, <2>2, <3>1, <3>3 DEF Holds, Shown, Counts, Untouched
    <3>. QED BY <1>1, <1>2, <2>2, <3>1, <3>2, <3>4, QuietStep
  <2>. QED BY <1>5, <2>1, <2>2 DEF LookAtQueue
<1>. QED BY <1>3, <1>4, <1>5

LEMMA CountingKeepsInv ==
    ASSUME QueueAssumption, QueueInv, NEW d \in Drains,
           EndDrain(d) \/ StartCount(d) \/ ReadCount(d) \/ MirrorCount(d)
    PROVE  QueueInv'
<1>1. /\ drain[d] \in DrainType /\ queue \in Seq(Actions) /\ known \in Nat \union {Unknown}
      /\ missed \in BOOLEAN /\ isSyncing \in BOOLEAN
      BY Typed DEF QueueInv
<1>2. Untouched
      BY DEF EndDrain, StartCount, ReadCount, MirrorCount, Untouched, history
<1>3. CASE EndDrain(d)
      BY <1>1, <1>2, <1>3, FinallyKeepsInv DEF EndDrain, history
<1>4. CASE StartCount(d)
      BY <1>1, <1>2, <1>4, GotoKeepsInv DEF StartCount, history
<1>5. CASE ReadCount(d)
  <2>1. CASE missed' = TRUE /\ Goto(d, "idle")
        BY <1>1, <1>2, <1>5, <2>1, GotoKeepsInv DEF ReadCount
  <2>2. CASE drain' = [drain EXCEPT ![d].read = queue, ![d].pc = "counted"] /\ UNCHANGED missed
    <3>. DEFINE new == [drain[d] EXCEPT !.read = queue, !.pc = "counted"]
    <3>1. new \in DrainType /\ new.pc = "counted" /\ new.read = queue
          BY <1>1 DEF DrainType
    <3>2. drain' = [drain EXCEPT ![d] = new]
          BY <1>1, <2>2 DEF DrainType
    <3>. HIDE DEF new
    <3>3. UNCHANGED <<known, isSyncing>>
          BY <1>5 DEF ReadCount
    <3>4. Holds(new) /\ Shown(d, new)
          BY <1>2, <3>1 DEF Holds, Shown, Counts, Untouched
    <3>. QED BY <1>1, <1>2, <2>2, <3>1, <3>2, <3>3, <3>4, QuietStep
  <2>. QED BY <1>5, <2>1, <2>2 DEF ReadCount
<1>6. CASE MirrorCount(d)
  <2>1. /\ known' = Len(drain[d].read) /\ missed' = (missed \/ drain[d].read # queue)
        /\ drain' = [drain EXCEPT ![d] = NoDrain] /\ UNCHANGED isSyncing
        BY <1>6 DEF MirrorCount
  <2>2. drain[d].read \in Seq(Actions) /\ known' \in Nat /\ (drain[d].read # <<>> => known' # 0)
        BY <1>1, <2>1 DEF DrainType
  <2>3. missed' \in BOOLEAN /\ Holds(NoDrain) /\ Shown(d, NoDrain)
        BY <1>1, <1>2, <2>1, <2>2, AtRest DEF Holds, Shown, Untouched
  <2>. QED BY <1>1, <1>2, <2>1, <2>2, <2>3, AtRest, QuietStep
<1>. QED BY <1>3, <1>4, <1>5, <1>6

\* The drain leaves a report only to the server, to the list or in the array.
LEMMA SendKeepsInv ==
    ASSUME QueueAssumption, QueueInv, NEW d \in Drains, Send(d)
    PROVE  QueueInv'
<1>. DEFINE job == drain[d]
            item == Head(job.todo)
<1>1. job \in DrainType /\ job.pc = "send" /\ job.todo # <<>> /\ d \in Working
      BY Typed DEF QueueInv, Send, At, Working
<1>2. /\ job.read \in Seq(Actions) /\ job.todo \in Seq(Actions) /\ job.kept \in Seq(Actions)
      BY <1>1 DEF DrainType
<1>3. /\ Tail(job.todo) \in Seq(Actions) /\ item \in Actions
      /\ ToSet(job.todo) = {item} \union ToSet(Tail(job.todo))
      BY <1>1, <1>2, SetOfTail
<1>4. /\ Append(job.kept, item) \in Seq(Actions)
      /\ ToSet(Append(job.kept, item)) = ToSet(job.kept) \union {item}
      BY <1>2, <1>3, SetOfAppend
<1>5. /\ UNCHANGED <<queue, dead, known, isSyncing, put, retry, slipped, missed>>
      /\ settled' \in {settled, settled \union {item}}
      BY DEF Send, Sent, history
<1>6. /\ queue' \in Seq(Actions) /\ dead' \subseteq Incidents /\ settled' \subseteq Actions
      /\ known' \in Nat \union {Unknown} /\ isSyncing' \in BOOLEAN
      /\ slipped' \in BOOLEAN /\ missed' \in BOOLEAN /\ NothingLost
      /\ \A a \in Incidents \intersect ToSet(queue) : a \in settled' \union dead' \union ToSet(queue')
      BY <1>3, <1>5 DEF QueueInv, TypeOK, NothingLost
<1>7. ~slipped => \A a \in Incidents \intersect ToSet(job.read) :
         a \in settled \union dead \union ToSet(job.todo) \union ToSet(job.kept)
      BY <1>1 DEF QueueInv, Accounted
<1>8. \A new : Shown(d, new)
      BY <1>1, <1>5 DEF Shown, Counts
<1>9. CASE /\ drain' = [drain EXCEPT ![d].todo = Tail(@), ![d].pc = "send"]
           /\ item \in settled' \/ item \notin Incidents
  <2>. DEFINE new == [job EXCEPT !.todo = Tail(job.todo), !.pc = "send"]
  <2>1. /\ new \in DrainType /\ new.pc = "send" /\ new.read = job.read
        /\ new.todo = Tail(job.todo) /\ new.kept = job.kept
        BY <1>1, <1>3 DEF DrainType
  <2>2. drain' = [drain EXCEPT ![d] = new]
        BY <1>1, <1>9 DEF DrainType
  <2>. HIDE DEF new
  <2>3. Holds(new)
        BY <1>2, <1>3, <1>5, <1>7, <1>9, <2>1 DEF Holds
  <2>. QED BY <1>5, <1>6, <1>8, <2>1, <2>2, <2>3, DrainStep
<1>10. CASE drain' = [drain EXCEPT ![d].todo = Tail(@), ![d].kept = Append(@, item)]
  <2>. DEFINE new == [job EXCEPT !.todo = Tail(job.todo), !.kept = Append(job.kept, item)]
  <2>1. /\ new \in DrainType /\ new.pc = "send" /\ new.read = job.read
        /\ new.todo = Tail(job.todo) /\ new.kept = Append(job.kept, item)
        BY <1>1, <1>3, <1>4 DEF DrainType
  <2>2. drain' = [drain EXCEPT ![d] = new]
        BY <1>1, <1>10 DEF DrainType
  <2>. HIDE DEF new
  <2>3. Holds(new)
        BY <1>2, <1>3, <1>4, <1>5, <1>7, <2>1 DEF Holds
  <2>. QED BY <1>5, <1>6, <1>8, <2>1, <2>2, <2>3, DrainStep
<1>11. CASE drain' = [drain EXCEPT ![d].pc = "readDead"] /\ item \in Incidents
  <2>. DEFINE new == [job EXCEPT !.pc = "readDead"]
  <2>1. /\ new \in DrainType /\ new.pc = "readDead" /\ new.read = job.read
        /\ new.todo = job.todo /\ new.kept = job.kept
        BY <1>1 DEF DrainType
  <2>2. drain' = [drain EXCEPT ![d] = new]
        BY <1>1, <1>11 DEF DrainType
  <2>. HIDE DEF new
  <2>3. Holds(new)
        BY <1>1, <1>2, <1>5, <1>7, <1>11, <2>1 DEF Holds
  <2>. QED BY <1>5, <1>6, <1>8, <2>1, <2>2, <2>3, DrainStep
<1>. QED BY <1>9, <1>10, <1>11 DEF Send, Sent, Drop, Goto, QueueAssumption

\* A dead letter that is written joins the list it was made from; where that was
\* not the stored one, or nothing was written, something slipped.
LEMMA QuarantineKeepsInv ==
    ASSUME QueueAssumption, QueueInv, NEW d \in Drains, ReadDead(d) \/ Quarantine(d)
    PROVE  QueueInv'
<1>. DEFINE job == drain[d]
            item == Head(job.todo)
<1>1. /\ job \in DrainType /\ job.pc \in {"readDead", "writeDead"} /\ job.todo # <<>>
      /\ d \in Working /\ item \in Incidents
      BY Typed DEF QueueInv, Accounted, ReadDead, Quarantine, At, Working, Sent
<1>2. /\ job.read \in Seq(Actions) /\ job.todo \in Seq(Actions) /\ job.kept \in Seq(Actions)
      /\ job.copy \subseteq Incidents
      BY <1>1 DEF DrainType
<1>3. /\ Tail(job.todo) \in Seq(Actions)
      /\ ToSet(job.todo) = {item} \union ToSet(Tail(job.todo))
      BY <1>1, <1>2, SetOfTail
<1>4. ~slipped => \A a \in Incidents \intersect ToSet(job.read) :
         a \in settled \union dead \union ToSet(job.todo) \union ToSet(job.kept)
      BY <1>1 DEF QueueInv, Accounted
<1>5. UNCHANGED <<queue, known, isSyncing, put, retry, settled, missed>>
      BY DEF ReadDead, Quarantine, WriteDead, history
<1>6. /\ queue' \in Seq(Actions) /\ settled' \subseteq Actions /\ missed' \in BOOLEAN
      /\ known' \in Nat \union {Unknown} /\ isSyncing' \in BOOLEAN
      /\ \A a \in Incidents \intersect ToSet(queue) : a \in settled' \union dead' \union ToSet(queue')
      BY <1>5 DEF QueueInv, TypeOK
<1>7. \A new : Shown(d, new)
      BY <1>1, <1>5 DEF Shown, Counts
<1>8. CASE ReadDead(d)
  <2>1. dead \subseteq Incidents /\ slipped \in BOOLEAN /\ UNCHANGED <<dead, slipped>>
        BY <1>8 DEF ReadDead, QueueInv, TypeOK, history
  <2>2. PICK list \in {dead, {}} : drain' = [drain EXCEPT ![d].copy = list, ![d].pc = "writeDead"]
        BY <1>8 DEF ReadDead
  <2>. DEFINE new == [job EXCEPT !.copy = list, !.pc = "writeDead"]
  <2>3. /\ new \in DrainType /\ new.pc = "writeDead" /\ new.read = job.read
        /\ new.todo = job.todo /\ new.kept = job.kept
        BY <1>1, <2>1 DEF DrainType
  <2>4. drain' = [drain EXCEPT ![d] = new]
        BY <1>1, <2>2 DEF DrainType
  <2>. HIDE DEF new
  <2>5. Holds(new) /\ NothingLost
        BY <1>1, <1>4, <1>5, <2>1, <2>3 DEF Holds, NothingLost
  <2>. QED BY <1>5, <1>6, <1>7, <2>1, <2>3, <2>4, <2>5, DrainStep
<1>9. CASE Quarantine(d)
  <2>. DEFINE new == [job EXCEPT !.todo = Tail(job.todo), !.pc = "send"]
  <2>1. \/ dead' = job.copy \union {item} /\ slipped' = (slipped \/ job.copy # dead)
        \/ slipped' = TRUE /\ UNCHANGED dead
        BY <1>9 DEF Quarantine, WriteDead, Sent
  <2>2. /\ new \in DrainType /\ new.pc = "send" /\ new.read = job.read
        /\ new.todo = Tail(job.todo) /\ new.kept = job.kept
        BY <1>1, <1>3 DEF DrainType
  <2>3. drain' = [drain EXCEPT ![d] = new]
        BY <1>1, <1>9 DEF Quarantine, Drop, DrainType
  <2>. HIDE DEF new
  <2>4. NothingLost /\ dead' \subseteq Incidents /\ slipped' \in BOOLEAN
        BY <1>1, <1>2, <1>5, <2>1 DEF NothingLost, QueueInv, TypeOK
  <2>5. Holds(new)
        BY <1>1, <1>3, <1>4, <1>5, <2>1, <2>2 DEF Holds
  <2>. QED BY <1>5, <1>6, <1>7, <2>2, <2>3, <2>4, <2>5, DrainStep
<1>. QED BY <1>8, <1>9

LEMMA MirrorKeptKeepsInv ==
    ASSUME QueueAssumption, QueueInv, NEW d \in Drains, MirrorKept(d)
    PROVE  QueueInv'
<1>1. drain[d] \in DrainType /\ drain[d].pc = "send" /\ drain[d].todo = <<>>
      BY Typed DEF QueueInv, MirrorKept, At
<1>2. known' \in Nat /\ missed \in BOOLEAN /\ Untouched /\ UNCHANGED missed
      BY <1>1 DEF MirrorKept, DrainType, Untouched, history, QueueInv, TypeOK
<1>3. CASE Finally(d)
      BY <1>2, <1>3, FinallyKeepsInv
<1>4. CASE Goto(d, "save") /\ UNCHANGED isSyncing
      BY <1>1, <1>2, <1>4, GotoKeepsInv
<1>. QED BY <1>3, <1>4 DEF MirrorKept

\* The array that is written has what the one that was read had, and is left.
LEMMA SaveKeepsInv ==
    ASSUME QueueAssumption, QueueInv, NEW d \in Drains, SaveQueue(d)
    PROVE  QueueInv'
<1>. DEFINE job == drain[d]
            new == [job EXCEPT !.pc = "saved"]
<1>1. /\ job \in DrainType /\ d \in Working /\ job.todo = <<>>
      /\ job.read \in Seq(Actions) /\ job.kept \in Seq(Actions)
      BY Typed DEF QueueInv, Accounted, SaveQueue, At, Working, DrainType
<1>2. UNCHANGED <<dead, known, isSyncing, put, retry, settled, missed>>
      BY DEF SaveQueue, WriteQueue
<1>3. \/ queue' = job.kept /\ slipped' = (slipped \/ job.read # queue)
      \/ UNCHANGED <<queue, slipped>>
      BY DEF SaveQueue, WriteQueue
<1>4. new \in DrainType /\ new.pc = "saved" /\ drain' = [drain EXCEPT ![d] = new]
      BY <1>1 DEF SaveQueue, Goto, DrainType
<1>. HIDE DEF new
<1>5. Holds(new) /\ Shown(d, new)
      BY <1>4 DEF Holds, Shown, Counts
<1>6. queue' \in Seq(Actions) /\ slipped' \in BOOLEAN /\ (~slipped' => ~slipped)
      BY <1>1, <1>3 DEF QueueInv, TypeOK
<1>7. /\ dead' \subseteq Incidents /\ settled' \subseteq Actions /\ known' \in Nat \union {Unknown}
      /\ isSyncing' \in BOOLEAN /\ missed' \in BOOLEAN /\ NothingLost
      BY <1>2, <1>6 DEF QueueInv, TypeOK, NothingLost
<1>8. ~slipped' => \A a \in Incidents \intersect ToSet(queue) :
                      a \in settled' \union dead' \union ToSet(queue')
  <2>1. ToSet(job.todo) = {}
        BY <1>1 DEF ToSet
  <2>2. ~slipped => \A a \in Incidents \intersect ToSet(job.read) :
           a \in settled \union dead \union ToSet(job.kept)
        BY <1>1, <2>1 DEF QueueInv, Accounted
  <2>. QED BY <1>2, <1>3, <2>2
<1>. QED BY <1>2, <1>4, <1>5, <1>6, <1>7, <1>8, DrainStep

------------------------------------------------------------------------------
(* The dead letters, and the end of the app *)

\* A report leaves the list for the server or at the driver's word.
LEMMA RetryKeepsInv ==
    ASSUME QueueAssumption, QueueInv,
           StartRetry \/ RetrySend \/ RetryRead \/ RetryWrite \/ RetryEnd \/ Discard
    PROVE  QueueInv'
<1>1. /\ retry \in RetryType /\ dead \subseteq Incidents /\ slipped \in BOOLEAN
      /\ settled \subseteq Actions /\ retry.item \subseteq settled
      BY Typed DEF QueueInv, Accounted
<1>2. UNCHANGED <<queue, known, isSyncing, put, drain, missed>>
      BY DEF StartRetry, RetrySend, RetryRead, RetryWrite, RetryEnd, Discard, WriteDead, memory, history
<1>3. /\ retry' \in RetryType /\ dead' \subseteq Incidents /\ slipped' \in BOOLEAN
      /\ settled' \subseteq Actions /\ retry'.item \subseteq settled' /\ NothingLost
  <2>1. CASE StartRetry
    <3>1. retry' = [NoRetry EXCEPT !.pc = "send", !.todo = dead] /\ UNCHANGED <<dead, settled, slipped>>
          BY <2>1 DEF StartRetry, history
    <3>2. retry' \in RetryType /\ retry'.item = {}
          BY <1>1, <3>1, AtRest DEF RetryType
    <3>. QED BY <1>1, <3>1, <3>2 DEF NothingLost
  <2>2. CASE RetrySend
    <3>1. PICK a \in retry.todo :
             \/ /\ settled' = settled \union {a}
                /\ retry' = [retry EXCEPT !.todo = @ \ {a}, !.item = {a}, !.pc = "read"]
             \/ retry' = [retry EXCEPT !.todo = @ \ {a}] /\ UNCHANGED settled
          BY <2>2 DEF RetrySend
    <3>2. a \in Incidents /\ retry.todo \ {a} \subseteq Incidents
          BY <1>1 DEF RetryType
    <3>3. UNCHANGED <<dead, slipped>>
          BY <2>2 DEF RetrySend, history
    <3>4. CASE /\ settled' = settled \union {a}
               /\ retry' = [retry EXCEPT !.todo = @ \ {a}, !.item = {a}, !.pc = "read"]
          BY <1>1, <3>2, <3>3, <3>4 DEF NothingLost, Actions, RetryType
    <3>5. CASE retry' = [retry EXCEPT !.todo = @ \ {a}] /\ UNCHANGED settled
          BY <1>1, <3>2, <3>3, <3>5 DEF NothingLost, RetryType
    <3>. QED BY <3>1, <3>4, <3>5
  <2>3. CASE RetryRead
    <3>1. PICK list \in {dead, {}} : retry' = [retry EXCEPT !.copy = list, !.pc = "write"]
          BY <2>3 DEF RetryRead
    <3>2. UNCHANGED <<dead, settled, slipped>>
          BY <2>3 DEF RetryRead, history
    <3>. QED BY <1>1, <3>1, <3>2 DEF NothingLost, RetryType
  <2>4. CASE RetryWrite
    <3>1. /\ \/ dead' = retry.copy \ retry.item /\ slipped' = (slipped \/ retry.copy # dead)
             \/ UNCHANGED <<dead, slipped>>
          /\ retry' = [retry EXCEPT !.item = {}, !.copy = {}, !.pc = "send"] /\ UNCHANGED settled
          BY <2>4 DEF RetryWrite, WriteDead
    <3>2. retry' \in RetryType /\ retry'.item = {} /\ retry.copy \subseteq Incidents
          BY <1>1, <3>1 DEF RetryType
    <3>. QED BY <1>1, <3>1, <3>2 DEF NothingLost
  <2>5. CASE RetryEnd
        BY <1>1, <2>5, AtRest DEF RetryEnd, NothingLost, history
  <2>6. CASE Discard
    <3>1. dead' = {} /\ settled' = settled \union dead /\ UNCHANGED <<retry, slipped>>
          BY <2>6 DEF Discard, memory, history
    <3>. QED BY <1>1, <3>1 DEF NothingLost, Actions
  <2>. QED BY <2>1, <2>2, <2>3, <2>4, <2>5, <2>6
<1>4. TypeOK'
      BY <1>2, <1>3, Typed DEF QueueInv, TypeOK, PutType, DrainType, RetryType
<1>5. \A a \in Actions : put'[a] = put[a]
      BY <1>2
<1>. QED BY <1>2, <1>3, <1>4, <1>5, StepAside

\* What a killed app loses was never stored.
LEMMA KillKeepsInv ==
    ASSUME QueueAssumption, QueueInv, Kill
    PROVE  QueueInv'
<1>1. /\ UNCHANGED <<queue, dead, settled, slipped, missed>> /\ known' = Unknown /\ isSyncing' = FALSE
      /\ put' = [a \in Actions |-> Killed(put[a])]
      /\ drain' = [d \in Drains |-> NoDrain] /\ retry' = NoRetry
      BY DEF Kill, history
<1>2. ASSUME NEW a \in Actions
      PROVE  /\ put'[a] \in PutType /\ put'[a].pc # "mirror"
             /\ put'[a].pc = "stored" => put[a].pc \in {"mirror", "stored"}
  <2>1. put[a] \in PutType /\ put'[a] = Killed(put[a])
        BY <1>1, Typed DEF QueueInv
  <2>2. /\ [NoPut EXCEPT !.pc = "lost"] \in PutType /\ [NoPut EXCEPT !.pc = "lost"].pc = "lost"
        /\ [NoPut EXCEPT !.pc = "stored"] \in PutType /\ [NoPut EXCEPT !.pc = "stored"].pc = "stored"
        BY AtRest DEF PutType
  <2>. QED BY <2>1, <2>2 DEF Killed
<1>3. TypeOK'
      BY <1>1, <1>2, AtRest, Typed DEF QueueInv, TypeOK, PutType, DrainType, RetryType
<1>4. HiddenWorkIsRecounted'
      BY <1>1 DEF HiddenWorkIsRecounted, QueueAssumption
<1>5. LostOnlyByStaleOrFailedWrite'
  <2>1. Stored' \subseteq Stored
        BY <1>2 DEF Stored
  <2>. QED BY <1>1, <2>1 DEF QueueInv, LostOnlyByStaleOrFailedWrite, IncidentsKept
<1>6. Accounted' /\ MirrorsWork'
      BY <1>1, <1>2, AtRest DEF Accounted, Working, MirrorsWork
<1>. QED BY <1>3, <1>4, <1>5, <1>6 DEF QueueInv

------------------------------------------------------------------------------
(* The theorems *)

LEMMA InitQueueInv == ASSUME QueueAssumption, Init PROVE QueueInv
<1>1. /\ queue = <<>> /\ dead = {} /\ known = Unknown /\ isSyncing = FALSE
      /\ put = [a \in Actions |-> NoPut] /\ drain = [d \in Drains |-> NoDrain]
      /\ retry = NoRetry /\ settled = {} /\ slipped = FALSE /\ missed = FALSE
      BY DEF Init
<1>2. TypeOK
  <2>1. queue \in Seq(Actions)
        BY <1>1
  <2>2. /\ put \in [Actions -> PutType] /\ drain \in [Drains -> DrainType] /\ retry \in RetryType
        BY <1>1, AtRest
  <2>3. dead \subseteq Incidents /\ settled \subseteq Actions
        BY <1>1
  <2>. QED BY <1>1, <2>1, <2>2, <2>3, Typed
<1>3. HiddenWorkIsRecounted /\ LostOnlyByStaleOrFailedWrite
      BY <1>1, AtRest DEF HiddenWorkIsRecounted, LostOnlyByStaleOrFailedWrite, IncidentsKept, Stored
<1>4. Accounted /\ MirrorsWork
      BY <1>1, AtRest DEF Accounted, Working, MirrorsWork
<1>. QED BY <1>2, <1>3, <1>4 DEF QueueInv

LEMMA NextQueueInv == ASSUME QueueAssumption, QueueInv, [Next]_vars PROVE QueueInv'
<1>1. ASSUME NEW a \in Actions, EnqueueRead(a) \/ EnqueueWrite(a) \/ EnqueueMirror(a) PROVE QueueInv'
      BY <1>1, EnqueueReadKeepsInv, EnqueueWriteKeepsInv, EnqueueMirrorKeepsInv
<1>2. ASSUME NEW d \in Drains, Drain(d) PROVE QueueInv'
      BY <1>2, LookingKeepsInv, CountingKeepsInv, SendKeepsInv, QuarantineKeepsInv,
         MirrorKeptKeepsInv, SaveKeepsInv DEF Drain
<1>3. CASE StartRetry \/ RetrySend \/ RetryRead \/ RetryWrite \/ RetryEnd \/ Discard
      BY <1>3, RetryKeepsInv
<1>4. CASE Kill
      BY <1>4, KillKeepsInv
<1>5. CASE UNCHANGED vars
  <2>1. UNCHANGED <<queue, dead, known, isSyncing, put, drain, retry, settled, slipped, missed>>
        BY <1>5 DEF vars, memory, history
  <2>2. TypeOK' /\ Accounted' /\ MirrorsWork'
        BY <2>1 DEF QueueInv, TypeOK, Accounted, Working, Sent, MirrorsWork
  <2>3. HiddenWorkIsRecounted' /\ LostOnlyByStaleOrFailedWrite'
        BY <2>1 DEF QueueInv, HiddenWorkIsRecounted, Recounting,
                    LostOnlyByStaleOrFailedWrite, IncidentsKept, Stored
  <2>. QED BY <2>2, <2>3 DEF QueueInv
<1>. QED BY <1>1, <1>2, <1>3, <1>4, <1>5 DEF Next

LEMMA QueueInvHolds == ASSUME QueueAssumption PROVE Spec => []QueueInv
BY InitQueueInv, NextQueueInv, PTL DEF Spec

\* As long as every array is made from the stored one and every dead letter is
\* written, a stored report stays on the phone until the server has it or the
\* driver discards it, with any number of reports, lists and calls (sync.js).
THEOREM LostOnlyByStaleOrFailedWriteHolds ==
    ASSUME QueueAssumption PROVE Spec => []LostOnlyByStaleOrFailedWrite
<1>1. QueueInv => LostOnlyByStaleOrFailedWrite
      BY DEF QueueInv
<1>. QED BY <1>1, QueueInvHolds, PTL

\* hasPendingWork hides stored work only while a call counts it again, or where a
\* count failed or was overtaken (knownPendingCount, sync.js).
THEOREM HiddenWorkIsRecountedHolds ==
    ASSUME QueueAssumption PROVE Spec => []HiddenWorkIsRecounted
<1>1. QueueInv => HiddenWorkIsRecounted
      BY DEF QueueInv
<1>. QED BY <1>1, QueueInvHolds, PTL

\* Arrays, calls and dead letters stay in their types (sync.js).
THEOREM QueueTypeCorrect == ASSUME QueueAssumption PROVE Spec => []TypeOK
<1>1. QueueInv => TypeOK
      BY DEF QueueInv
<1>. QED BY <1>1, QueueInvHolds, PTL
=============================================================================

--------------------------- MODULE OdometerProofs ---------------------------
(***************************************************************************)
(* The photographed readings, for every number of photos, scanners and     *)
(* vehicles: a photo is with the reading service once at a time, what was  *)
(* shown stays, and a trip that began with a photo adds up.                *)
(*                                                                         *)
(* A claim is a lease and an attempt number.  Who is in the network holds  *)
(* the newest attempt and a lease that cannot end meanwhile, and no two    *)
(* claims of a photo have the same number (Claims).  The readings add up   *)
(* because the latch shuts every other way to write them (Latched).        *)
(***************************************************************************)
EXTENDS OdometerCapture, FiniteSetTheorems, TLAPS

Claims ==
    /\ \A w \in Scanners : scan[w].step # "idle" =>
          scan[w].cap \in Captures /\ scan[w].attempt <= cap[scan[w].cap].attempts
    /\ \A w \in Scanners : scan[w].step = "network" =>
          LET row == cap[scan[w].cap]
          IN  row.state = "scanning" /\ row.leased /\ row.attempts = scan[w].attempt
    /\ \A w, x \in Scanners :
          /\ scan[w].step # "idle" /\ scan[x].step # "idle"
          /\ scan[w].cap = scan[x].cap /\ scan[w].attempt = scan[x].attempt
          => w = x
    /\ \A c \in Captures : cap[c].state = "absent" => cap[c].attempts = 0

\* What trip and photos say of each other once the latch is set
Latched ==
    /\ \A stage \in Stages : \A c, d \in Committed(stage) : c = d
    /\ Committed("end") # {} => trip.estimated
    /\ trip.latched =>
          /\ trip.phase # "pre"
          /\ \E c \in Committed("start") : cap[c].reading = trip.start /\ cap[c].vehicle = trip.vehicle
    /\ trip.latched /\ trip.phase = "Completed" =>
          /\ \E c \in Committed("end") : cap[c].reading = trip.end /\ cap[c].vehicle = trip.vehicle
          /\ trip.start <= trip.end /\ trip.end <= mileage[trip.vehicle]

ScanInv == TypeOK /\ Claims
OdometerInv == ScanInv /\ Latched

Trips == [phase: Phases, vehicle: Vehicles, start: 0..MaxReading, end: 0..MaxReading,
          latched: BOOLEAN, estimated: BOOLEAN]
Photo == [state: {"absent", "uploaded", "scanning", "ready", "unreadable", "failed", "committed"},
          stage: Stages, vehicle: Vehicles \union {None}, attempts: 0..MaxAttempts,
          leased: BOOLEAN, reading: 0..MaxReading]
Scan == [cap: Captures \union {None}, attempt: 0..MaxAttempts,
         step: {"idle", "network", "finish"}, outcome: Outcomes]

LEMMA TypeParts ==
    TypeOK <=>
       /\ trip \in Trips /\ mileage \in [Vehicles -> 0..MaxReading]
       /\ cap \in [Captures -> Photo] /\ scan \in [Scanners -> Scan]
       /\ \A c \in Captures : cap[c].state \in {"ready", "committed"} => cap[c].reading \in Readings
BY DEF TypeOK, Trips, Photo, Scan

------------------------------------------------------------------------------
(* One scan at a time *)

\* A photo that nobody has in the network may change, if its attempts stay.
LEMMA PhotoChanges ==
    ASSUME OdometerAssumption, ScanInv, NEW c \in Captures, NEW row \in Photo,
           row.state \in {"ready", "committed"} => row.reading \in Readings,
           row.attempts >= cap[c].attempts, row.state # "absent", InNetwork(c) = {},
           cap' = [cap EXCEPT ![c] = row], UNCHANGED scan,
           trip' \in Trips, mileage' \in [Vehicles -> 0..MaxReading]
    PROVE  ScanInv'
<1>1. /\ cap' \in [Captures -> Photo] /\ cap'[c] = row
      /\ \A d \in Captures \ {c} : cap'[d] = cap[d]
      BY TypeParts DEF ScanInv
<1>2. TypeOK'
      BY <1>1, TypeParts DEF ScanInv, TypeOK, Trips, Photo, Scan
<1>3. Claims'
  <2>1. \A w \in Scanners : scan[w].step = "network" => scan[w].cap \in Captures \ {c}
        BY DEF ScanInv, Claims, InNetwork
  <2>2. \A d \in Captures : cap[d].attempts \in Nat /\ cap'[d].attempts \in Nat
        BY <1>1, TypeParts DEF ScanInv, Photo, OdometerAssumption
  <2>3. \A w \in Scanners : scan[w].attempt \in Nat
        BY TypeParts DEF ScanInv, Scan, OdometerAssumption
  <2>4. \A w \in Scanners : scan[w].step # "idle" =>
           scan[w].cap \in Captures /\ scan[w].attempt <= cap'[scan[w].cap].attempts
        BY <1>1, <2>2, <2>3 DEF ScanInv, Claims
  <2>. QED BY <1>1, <2>1, <2>4 DEF ScanInv, Claims
<1>. QED BY <1>2, <1>3 DEF ScanInv

\* Who holds a photo in the network holds it in the state "scanning".
LEMMA NotInNetwork ==
    ASSUME ScanInv, NEW c \in Captures, cap[c].state # "scanning" \/ ~cap[c].leased
    PROVE  InNetwork(c) = {}
BY DEF ScanInv, Claims, InNetwork

LEMMA ClaimKeepsInv ==
    ASSUME OdometerAssumption, ScanInv, NEW w \in Scanners, NEW c \in Captures, Claim(w, c)
    PROVE  ScanInv'
<1>. DEFINE n == cap[c].attempts + 1
            row == [cap[c] EXCEPT !.state = "scanning", !.attempts = n, !.leased = TRUE]
            new == [cap |-> c, attempt |-> n, step |-> "network", outcome |-> "none"]
<1>1. /\ cap[c].attempts \in Nat /\ n \in 0..MaxAttempts
      /\ cap[c] \in Photo
      BY TypeParts DEF ScanInv, Claim, Scannable, OdometerAssumption, Photo
<1>2. row \in Photo /\ row.state = "scanning" /\ row.leased /\ row.attempts = n
      BY <1>1 DEF Photo
<1>3. new \in Scan /\ new.cap = c /\ new.attempt = n /\ new.step = "network"
      BY <1>1 DEF Scan, Outcomes
<1>4. cap' = [cap EXCEPT ![c] = row] /\ scan' = [scan EXCEPT ![w] = new] /\ UNCHANGED <<trip, mileage>>
      BY <1>1 DEF Claim, Claimed, Photo
<1>. HIDE DEF row, new
<1>5. /\ cap' \in [Captures -> Photo] /\ cap'[c] = row /\ \A d \in Captures \ {c} : cap'[d] = cap[d]
      /\ scan' \in [Scanners -> Scan] /\ scan'[w] = new
      /\ \A x \in Scanners \ {w} : scan'[x] = scan[x]
      BY <1>2, <1>3, <1>4, TypeParts DEF ScanInv
<1>6. TypeOK'
      BY <1>2, <1>4, <1>5, TypeParts DEF ScanInv, TypeOK, Trips, Photo, Scan
<1>7. InNetwork(c) = {} /\ scan[w].step = "idle"
      BY NotInNetwork DEF Claim, Scannable, Idle
<1>8. \A x \in Scanners : scan[x].step # "idle" /\ scan[x].cap = c => scan[x].attempt < n
  <2>1. \A x \in Scanners : scan[x].attempt \in Nat
        BY TypeParts DEF ScanInv, Scan, OdometerAssumption
  <2>. QED BY <1>1, <2>1 DEF ScanInv, Claims
<1>9. Claims'
  <2>1. \A x \in Scanners : scan'[x].step # "idle" =>
           scan'[x].cap \in Captures /\ scan'[x].attempt <= cap'[scan'[x].cap].attempts
    <3>1. \A x \in Scanners : scan[x].attempt \in Nat
          BY TypeParts DEF ScanInv, Scan, OdometerAssumption
    <3>. QED BY <1>1, <1>2, <1>3, <1>5, <1>8, <3>1 DEF ScanInv, Claims
  <2>2. \A x \in Scanners : scan'[x].step = "network" =>
           /\ cap'[scan'[x].cap].state = "scanning" /\ cap'[scan'[x].cap].leased
           /\ cap'[scan'[x].cap].attempts = scan'[x].attempt
        BY <1>2, <1>3, <1>5, <1>7 DEF ScanInv, Claims, InNetwork
  <2>3. \A x, y \in Scanners :
           /\ scan'[x].step # "idle" /\ scan'[y].step # "idle"
           /\ scan'[x].cap = scan'[y].cap /\ scan'[x].attempt = scan'[y].attempt
           => x = y
        BY <1>1, <1>3, <1>5, <1>8 DEF ScanInv, Claims
  <2>4. \A d \in Captures : cap'[d].state = "absent" => cap'[d].attempts = 0
        BY <1>2, <1>5 DEF ScanInv, Claims
  <2>. QED BY <2>1, <2>2, <2>3, <2>4 DEF Claims
<1>. QED BY <1>6, <1>9 DEF ScanInv

\* A scanner that leaves the network takes no claim with it.
LEMMA ScannerMoves ==
    ASSUME OdometerAssumption, ScanInv, NEW w \in Scanners, NEW new \in Scan,
           \/ new.step = "idle"
           \/ new.step = "finish" /\ scan[w].step # "idle"
                /\ new.cap = scan[w].cap /\ new.attempt = scan[w].attempt,
           scan' = [scan EXCEPT ![w] = new], UNCHANGED <<trip, mileage, cap>>
    PROVE  ScanInv'
<1>1. /\ scan' \in [Scanners -> Scan] /\ scan'[w] = new
      /\ \A x \in Scanners \ {w} : scan'[x] = scan[x]
      BY TypeParts DEF ScanInv
<1>2. TypeOK'
      BY <1>1, TypeParts DEF ScanInv, TypeOK, Scan
<1>3. Claims'
      BY <1>1 DEF ScanInv, Claims
<1>. QED BY <1>2, <1>3 DEF ScanInv

LEMMA IdleScan == ASSUME OdometerAssumption PROVE Idle \in Scan /\ Idle.step = "idle"
BY DEF Idle, Scan, Outcomes, OdometerAssumption

LEMMA NetworkKeepsInv ==
    ASSUME OdometerAssumption, ScanInv, NEW w \in Scanners, Network(w)
    PROVE  ScanInv'
<1>1. PICK outcome \in Outcomes \ {"none"} :
         scan' = [scan EXCEPT ![w].step = "finish", ![w].outcome = outcome]
      BY DEF Network
<1>2. scan[w] \in Scan /\ scan[w].step = "network"
      BY TypeParts DEF ScanInv, Network
<1>. DEFINE new == [scan[w] EXCEPT !.step = "finish", !.outcome = outcome]
<1>3. /\ new \in Scan /\ new.step = "finish" /\ new.cap = scan[w].cap
      /\ new.attempt = scan[w].attempt
      BY <1>2 DEF Scan
<1>4. scan' = [scan EXCEPT ![w] = new]
      BY <1>1, <1>2 DEF Scan
<1>5. UNCHANGED <<trip, mileage, cap>>
      BY DEF Network
<1>. HIDE DEF new
<1>. QED BY <1>2, <1>3, <1>4, <1>5, ScannerMoves

LEMMA CrashKeepsInv ==
    ASSUME OdometerAssumption, ScanInv, NEW w \in Scanners, Crash(w)
    PROVE  ScanInv'
BY IdleScan, ScannerMoves DEF Crash

\* What a finished scan leaves of the photo
LEMMA ResultTyped ==
    ASSUME OdometerAssumption, NEW row \in Photo, NEW outcome, NEW km \in Readings
    PROVE  LET new == Result(row, outcome, km)
           IN  /\ new \in Photo /\ new.attempts = row.attempts
               /\ new.state \in {"ready", "unreadable", "failed"}
               /\ new.state = "ready" => new.reading = km
               /\ new.stage = row.stage
<1>. km \in 0..MaxReading
     BY DEF Readings, OdometerAssumption
<1>1. CASE outcome = "read"
      BY <1>1 DEF Result, Photo
<1>2. CASE outcome = "unreadable"
      BY <1>2 DEF Result, Photo
<1>3. CASE outcome \notin {"read", "unreadable"}
      BY <1>3 DEF Result, Photo
<1>. QED BY <1>1, <1>2, <1>3

LEMMA FinishKeepsInv ==
    ASSUME OdometerAssumption, ScanInv, NEW w \in Scanners, Finish(w)
    PROVE  ScanInv'
<1>. DEFINE c == scan[w].cap
<1>1. /\ scan[w].step = "finish" /\ c \in Captures /\ scan[w] \in Scan
      /\ scan' = [scan EXCEPT ![w] = Idle] /\ UNCHANGED <<trip, mileage>>
      BY TypeParts DEF Finish, ScanInv, Claims
<1>2. CASE UNCHANGED cap
      BY <1>1, <1>2, IdleScan, ScannerMoves
<1>3. CASE ~UNCHANGED cap
  <2>1. PICK km \in Readings :
           /\ cap[c].state = "scanning" /\ cap[c].attempts = scan[w].attempt
           /\ cap' = [cap EXCEPT ![c] = Result(cap[c], scan[w].outcome, km)]
        BY <1>3 DEF Finish
  <2>. DEFINE row == Result(cap[c], scan[w].outcome, km)
  <2>2. cap[c] \in Photo
        BY <1>1, TypeParts DEF ScanInv
  <2>3. /\ row \in Photo /\ row.attempts = cap[c].attempts
        /\ row.state = "ready" => row.reading = km
        /\ row.state \in {"ready", "unreadable", "failed"}
        BY <2>2, ResultTyped
  <2>. HIDE DEF row
  <2>4. /\ cap' \in [Captures -> Photo] /\ cap'[c] = row
        /\ \A d \in Captures \ {c} : cap'[d] = cap[d]
        /\ scan' \in [Scanners -> Scan] /\ scan'[w] = Idle
        /\ \A x \in Scanners \ {w} : scan'[x] = scan[x]
        BY <1>1, <2>1, <2>3, IdleScan, TypeParts DEF ScanInv, row
  <2>5. TypeOK'
        BY <1>1, <2>3, <2>4, TypeParts DEF ScanInv, TypeOK, Trips, Photo, Scan
  <2>6. \A x \in Scanners \ {w} : scan[x].step = "network" => scan[x].cap # c
        BY <1>1, <2>1 DEF ScanInv, Claims
  <2>7. Claims'
        BY <2>3, <2>4, <2>6, IdleScan DEF ScanInv, Claims
  <2>. QED BY <2>5, <2>7 DEF ScanInv
<1>. QED BY <1>2, <1>3

LEMMA LeaseEndsKeepsInv ==
    ASSUME OdometerAssumption, ScanInv, NEW c \in Captures, LeaseEnds(c)
    PROVE  ScanInv'
<1>. DEFINE row == [cap[c] EXCEPT !.leased = FALSE]
<1>1. cap[c] \in Photo /\ trip \in Trips /\ mileage \in [Vehicles -> 0..MaxReading]
      BY TypeParts DEF ScanInv
<1>2. row \in Photo /\ row.attempts = cap[c].attempts /\ row.state = "scanning"
      BY <1>1 DEF Photo, LeaseEnds
<1>3. InNetwork(c) = {}
      BY DEF LeaseEnds, ScanInv, Claims, InNetwork
<1>4. cap' = [cap EXCEPT ![c] = row] /\ UNCHANGED <<trip, mileage, scan>>
      BY <1>1 DEF LeaseEnds, Photo
<1>5. row.attempts >= cap[c].attempts
      BY <1>1, <1>2 DEF Photo, OdometerAssumption
<1>. HIDE DEF row
<1>. QED BY <1>1, <1>2, <1>3, <1>4, <1>5, PhotoChanges

LEMMA UploadKeepsInv ==
    ASSUME OdometerAssumption, ScanInv, NEW c \in Captures, NEW stage \in Stages, Upload(c, stage)
    PROVE  ScanInv'
<1>. DEFINE row == [NoPhoto EXCEPT !.state = "uploaded", !.stage = stage, !.vehicle = trip.vehicle]
<1>1. cap[c] \in Photo /\ trip \in Trips /\ mileage \in [Vehicles -> 0..MaxReading]
      BY TypeParts DEF ScanInv
<1>2. row \in Photo /\ row.attempts = 0 /\ row.state = "uploaded"
  <2>1. NoPhoto \in Photo /\ NoPhoto.attempts = 0
        BY DEF NoPhoto, Photo, NoReading, Stages, OdometerAssumption
  <2>2. trip.vehicle \in Vehicles
        BY <1>1 DEF Trips
  <2>. QED BY <2>1, <2>2 DEF Photo
<1>3. cap' = [cap EXCEPT ![c] = row] /\ UNCHANGED <<trip, mileage, scan>> /\ cap[c].state = "absent"
      BY DEF Upload
<1>4. InNetwork(c) = {}
      BY <1>3, NotInNetwork
<1>. HIDE DEF row
<1>5. row.attempts >= cap[c].attempts /\ row.state \notin {"absent", "ready", "committed"}
      BY <1>2, <1>3 DEF ScanInv, Claims
<1>. QED BY <1>1, <1>2, <1>3, <1>4, <1>5, PhotoChanges

\* A photo that is committed has left the scanners behind.
LEMMA CommitKeepsInv ==
    ASSUME OdometerAssumption, ScanInv, NEW c \in Captures, cap[c].state = "ready", Commit(c),
           UNCHANGED scan, trip' \in Trips, mileage' \in [Vehicles -> 0..MaxReading]
    PROVE  ScanInv'
<1>. DEFINE row == [cap[c] EXCEPT !.state = "committed"]
<1>1. cap[c] \in Photo /\ cap[c].reading \in Readings
      BY TypeParts DEF ScanInv
<1>2. /\ row \in Photo /\ row.attempts = cap[c].attempts /\ row.state = "committed"
      /\ row.reading = cap[c].reading
      BY <1>1 DEF Photo
<1>3. InNetwork(c) = {}
      BY NotInNetwork
<1>4. cap' = [cap EXCEPT ![c] = row]
      BY <1>1 DEF Commit, Photo
<1>5. row.attempts >= cap[c].attempts
      BY <1>1, <1>2 DEF Photo, OdometerAssumption
<1>. HIDE DEF row
<1>. QED BY <1>1, <1>2, <1>3, <1>4, <1>5, PhotoChanges

\* The steps of the trip leave trip and mileage well typed.
LEMMA TripTyped ==
    ASSUME OdometerAssumption, TypeOK,
           \/ \E c \in Captures : StartWithPhoto(c) \/ CompleteWithPhoto(c)
           \/ \E km \in 0..MaxReading : StartTyped(km) \/ CompleteTyped(km)
           \/ Cancel \/ Edit \/ \E v \in Vehicles : MileageMoves(v)
    PROVE  trip' \in Trips /\ mileage' \in [Vehicles -> 0..MaxReading] /\ UNCHANGED scan
<1>1. /\ trip \in Trips /\ mileage \in [Vehicles -> 0..MaxReading] /\ cap \in [Captures -> Photo]
      /\ trip.vehicle \in Vehicles
      BY TypeParts DEF Trips
<1>2. ASSUME NEW km \in 0..MaxReading, Drive(km) PROVE mileage' \in [Vehicles -> 0..MaxReading]
      BY <1>1, <1>2 DEF Drive
<1>3. ASSUME NEW km \in 0..MaxReading, NEW photo \in BOOLEAN, StartWith(km, photo)
      PROVE  trip' \in Trips /\ mileage' \in [Vehicles -> 0..MaxReading] /\ UNCHANGED scan
      BY <1>1, <1>2, <1>3 DEF StartWith, Trips, Phases
<1>4. ASSUME NEW km \in 0..MaxReading, CompleteWith(km)
      PROVE  trip' \in Trips /\ mileage' \in [Vehicles -> 0..MaxReading] /\ UNCHANGED scan
      BY <1>1, <1>2, <1>4 DEF CompleteWith, Trips, Phases
<1>5. ASSUME NEW c \in Captures, StartWithPhoto(c) \/ CompleteWithPhoto(c)
      PROVE  trip' \in Trips /\ mileage' \in [Vehicles -> 0..MaxReading] /\ UNCHANGED scan
  <2>1. cap[c].reading \in 0..MaxReading
        BY <1>1 DEF Photo
  <2>. QED BY <1>3, <1>4, <1>5, <2>1 DEF StartWithPhoto, CompleteWithPhoto
<1>6. ASSUME NEW km \in 0..MaxReading, StartTyped(km) \/ CompleteTyped(km)
      PROVE  trip' \in Trips /\ mileage' \in [Vehicles -> 0..MaxReading] /\ UNCHANGED scan
      BY <1>3, <1>4, <1>6 DEF StartTyped, CompleteTyped
<1>7. CASE Cancel
      BY <1>1, <1>7 DEF Cancel, Trips, Phases
<1>8. CASE Edit
  <2>1. PICK phase \in Phases, v \in Vehicles, s \in {NoReading, MaxReading}, e \in {NoReading, MaxReading} :
           trip' = [trip EXCEPT !.phase = phase, !.vehicle = v,
                                !.start = IF s = NoReading THEN @ ELSE s,
                                !.end = IF e = NoReading THEN @ ELSE e]
        BY <1>8 DEF Edit
  <2>2. /\ (IF s = NoReading THEN trip.start ELSE s) \in 0..MaxReading
        /\ (IF e = NoReading THEN trip.end ELSE e) \in 0..MaxReading
        BY <1>1 DEF Trips, OdometerAssumption
  <2>3. trip' \in Trips
        BY <1>1, <2>1, <2>2 DEF Trips
  <2>. QED BY <1>1, <1>8, <2>3 DEF Edit
<1>9. ASSUME NEW v \in Vehicles, MileageMoves(v)
      PROVE  trip' \in Trips /\ mileage' \in [Vehicles -> 0..MaxReading] /\ UNCHANGED scan
      BY <1>1, <1>9 DEF MileageMoves, OdometerAssumption
<1>. QED BY <1>5, <1>6, <1>7, <1>8, <1>9

LEMMA InitScanInv == ASSUME OdometerAssumption, Init PROVE ScanInv
<1>1. NoPhoto \in Photo /\ NoPhoto.attempts = 0 /\ NoPhoto.state = "absent"
      BY DEF NoPhoto, Photo, NoReading, Stages, OdometerAssumption
<1>2. trip \in Trips
  <2>1. {"pre"} \subseteq Phases /\ {NoReading} \subseteq 0..MaxReading
        BY DEF Phases, NoReading, OdometerAssumption
  <2>2. {FALSE} \subseteq BOOLEAN
        OBVIOUS
  <2>. QED BY <2>1, <2>2, Zenon DEF Init, Trips
<1>3. TypeOK
      BY <1>1, <1>2, IdleScan, TypeParts DEF Init, OdometerAssumption
<1>4. Claims
      BY <1>1, IdleScan DEF Init, Claims
<1>. QED BY <1>3, <1>4 DEF ScanInv

LEMMA NextScanInv == ASSUME OdometerAssumption, ScanInv, [Next]_vars PROVE ScanInv'
<1>1. ASSUME NEW w \in Scanners, NEW c \in Captures, Claim(w, c) PROVE ScanInv'
      BY <1>1, ClaimKeepsInv
<1>2. ASSUME NEW w \in Scanners, Network(w) \/ Finish(w) \/ Crash(w) PROVE ScanInv'
      BY <1>2, NetworkKeepsInv, FinishKeepsInv, CrashKeepsInv
<1>3. ASSUME NEW c \in Captures, NEW stage \in Stages, Upload(c, stage) PROVE ScanInv'
      BY <1>3, UploadKeepsInv
<1>4. ASSUME NEW c \in Captures, LeaseEnds(c) PROVE ScanInv'
      BY <1>4, LeaseEndsKeepsInv
<1>5. ASSUME NEW c \in Captures, StartWithPhoto(c) \/ CompleteWithPhoto(c) PROVE ScanInv'
  <2>1. trip' \in Trips /\ mileage' \in [Vehicles -> 0..MaxReading] /\ UNCHANGED scan
        BY <1>5, TripTyped DEF ScanInv
  <2>2. Commit(c) /\ cap[c].state = "ready"
        BY <1>5 DEF StartWithPhoto, CompleteWithPhoto, Usable
  <2>. QED BY <2>1, <2>2, CommitKeepsInv
<1>6. ASSUME UNCHANGED <<cap, scan>>,
             trip' \in Trips, mileage' \in [Vehicles -> 0..MaxReading]
      PROVE  ScanInv'
      BY <1>6, TypeParts DEF ScanInv, Claims, TypeOK, Trips
<1>7. ASSUME \/ \E km \in 0..MaxReading : StartTyped(km) \/ CompleteTyped(km)
             \/ Cancel \/ Edit \/ \E v \in Vehicles : MileageMoves(v)
      PROVE  ScanInv'
  <2>1. UNCHANGED cap
        BY <1>7 DEF StartTyped, CompleteTyped, Cancel, Edit, MileageMoves
  <2>. QED BY <1>6, <1>7, <2>1, TripTyped DEF ScanInv
<1>8. CASE UNCHANGED vars
      BY <1>6, <1>8, TypeParts DEF vars, ScanInv
<1>. QED BY <1>1, <1>2, <1>3, <1>4, <1>5, <1>7, <1>8 DEF Next, Scanning

LEMMA ScanInvHolds == ASSUME OdometerAssumption PROVE Spec => []ScanInv
BY InitScanInv, NextScanInv, PTL DEF Spec

\* Photos, scans, the trip and its mileage stay in their types.
THEOREM OdometerTypeCorrect == ASSUME OdometerAssumption PROVE Spec => []TypeOK
<1>1. ScanInv => TypeOK
      BY DEF ScanInv
<1>. QED BY <1>1, ScanInvHolds, PTL

\* The reading service never has one photo twice, however many invocations
\* scan it, take over a lease or stop.
THEOREM OneScanAtATimeHolds == ASSUME OdometerAssumption PROVE Spec => []OneScanAtATime
<1>1. ScanInv => OneScanAtATime
  <2>. SUFFICES ASSUME ScanInv, NEW c \in Captures PROVE Cardinality(InNetwork(c)) <= 1
       BY DEF OneScanAtATime
  <2>1. \A w, x \in InNetwork(c) : w = x
        BY DEF ScanInv, Claims, InNetwork
  <2>2. CASE InNetwork(c) = {}
        BY <2>2, FS_EmptySet
  <2>3. CASE InNetwork(c) # {}
    <3>1. PICK w : InNetwork(c) = {w}
          BY <2>1, <2>3
    <3>2. Cardinality({w}) = 1
          BY FS_Singleton
    <3>. QED BY <3>1, <3>2
  <2>. QED BY <2>2, <2>3
<1>. QED BY <1>1, ScanInvHolds, PTL

\* A reading that was shown to the driver is changed by no scan, whatever its
\* delay: only the commit of the photo follows.
THEOREM ShownReadingKeptHolds == ASSUME OdometerAssumption PROVE Spec => ShownReadingKept
<1>1. ScanInv /\ [Next]_vars =>
         [\A c \in Captures : cap[c].state \in {"ready", "committed"} =>
            /\ cap'[c].reading = cap[c].reading
            /\ cap'[c].state \in {cap[c].state, "committed"}]_vars
  <2>. SUFFICES ASSUME ScanInv, Next, NEW c \in Captures, cap[c].state \in {"ready", "committed"}
                PROVE  /\ cap'[c].reading = cap[c].reading
                       /\ cap'[c].state \in {cap[c].state, "committed"}
       OBVIOUS
  <2>1. cap \in [Captures -> Photo]
        BY TypeParts DEF ScanInv
  <2>2. CASE cap'[c] = cap[c]
        BY <2>2
  <2>4. ASSUME NEW d \in Captures, NEW stage \in Stages, Upload(d, stage)
        PROVE  cap'[c] = cap[c]
        BY <2>1, <2>4 DEF Upload
  <2>5. ASSUME NEW d \in Captures, LeaseEnds(d) \/ \E w \in Scanners : Claim(w, d)
        PROVE  cap'[c] = cap[c]
        BY <2>1, <2>5 DEF LeaseEnds, Claim, Scannable, Claimed
  <2>6. ASSUME NEW w \in Scanners, Finish(w)
        PROVE  cap'[c] = cap[c]
        BY <2>1, <2>6 DEF Finish
  <2>7. ASSUME NEW d \in Captures, StartWithPhoto(d) \/ CompleteWithPhoto(d)
        PROVE  /\ cap'[c].reading = cap[c].reading
               /\ cap'[c].state \in {cap[c].state, "committed"}
    <3>1. cap' = [cap EXCEPT ![d].state = "committed"]
          BY <2>7 DEF StartWithPhoto, CompleteWithPhoto, Commit
    <3>2. cap[c] \in Photo
          BY <2>1
    <3>. QED BY <2>1, <3>1, <3>2 DEF Photo
  <2>8. CASE UNCHANGED cap
        BY <2>8
  <2>. QED BY <2>2, <2>4, <2>5, <2>6, <2>7, <2>8
       DEF Next, Scanning, Network, Crash, StartTyped, CompleteTyped, Cancel, Edit, MileageMoves
<1>. QED BY <1>1, ScanInvHolds, PTL DEF Spec, ShownReadingKept

------------------------------------------------------------------------------
(* A trip with photos adds up *)

\* A step that leaves the committed photos alone keeps what is said of them, if
\* the trip and its mileage do.
LEMMA CommittedKept ==
    ASSUME OdometerInv, ScanInv',
           \A c \in Captures : cap[c].state = "committed" => cap'[c] = cap[c],
           \A c \in Captures : cap'[c].state = "committed" => cap[c].state = "committed",
           trip.estimated => trip'.estimated,
           trip'.latched =>
              /\ trip.latched /\ trip'.phase # "pre"
              /\ trip'.start = trip.start /\ trip'.vehicle = trip.vehicle,
           trip'.latched /\ trip'.phase = "Completed" =>
              /\ trip.phase = "Completed" /\ trip'.end = trip.end
              /\ mileage'[trip.vehicle] >= mileage[trip.vehicle]
    PROVE  OdometerInv'
<1>1. \A stage \in Stages : Committed(stage)' = Committed(stage)
      BY DEF Committed
<1>2. \A stage \in Stages : \A c \in Committed(stage) : cap'[c] = cap[c]
      BY DEF Committed
<1>3. \A stage \in Stages : \A c, d \in Committed(stage)' : c = d
      BY <1>1 DEF OdometerInv, Latched
<1>4. "start" \in Stages /\ "end" \in Stages
      BY DEF Stages
<1>5. Committed("end")' # {} => trip'.estimated
      BY <1>1, <1>4 DEF OdometerInv, Latched
<1>6. trip'.latched =>
         /\ trip'.phase # "pre"
         /\ \E c \in Committed("start")' : cap'[c].reading = trip'.start /\ cap'[c].vehicle = trip'.vehicle
      BY <1>1, <1>2, <1>4 DEF OdometerInv, Latched
<1>7. trip'.latched /\ trip'.phase = "Completed" =>
         /\ \E c \in Committed("end")' : cap'[c].reading = trip'.end /\ cap'[c].vehicle = trip'.vehicle
         /\ trip'.start <= trip'.end /\ trip'.end <= mileage'[trip'.vehicle]
  <2>1. trip.vehicle \in Vehicles /\ trip.end \in 0..MaxReading /\ mileage[trip.vehicle] \in 0..MaxReading
        BY TypeParts DEF OdometerInv, ScanInv, Trips
  <2>2. mileage' \in [Vehicles -> 0..MaxReading]
        BY TypeParts DEF ScanInv, TypeOK
  <2>. QED BY <1>1, <1>2, <1>4, <2>1, <2>2 DEF OdometerInv, Latched
<1>. QED BY <1>3, <1>5, <1>6, <1>7 DEF OdometerInv, Latched

\* The commit of a photo is the only one of its stage.
LEMMA CommitOnce ==
    ASSUME OdometerInv, NEW stage \in Stages, NEW c \in Captures, Usable(c, stage), Commit(c)
    PROVE  /\ Committed(stage)' = {c}
           /\ \A other \in Stages \ {stage} : Committed(other)' = Committed(other)
           /\ cap'[c].reading = cap[c].reading /\ cap'[c].vehicle = trip.vehicle
           /\ \A d \in Captures \ {c} : cap'[d] = cap[d]
<1>1. cap \in [Captures -> Photo] /\ cap[c] \in Photo
      BY TypeParts DEF OdometerInv, ScanInv
<1>2. /\ cap[c].stage = stage /\ cap[c].vehicle = trip.vehicle /\ cap[c].state = "ready"
      /\ Committed(stage) = {} /\ cap' = [cap EXCEPT ![c].state = "committed"]
      BY DEF Usable, Belongs, Commit
<1>3. /\ \A d \in Captures \ {c} : cap'[d] = cap[d]
      /\ cap'[c].state = "committed" /\ cap'[c].stage = stage
      /\ cap'[c].reading = cap[c].reading /\ cap'[c].vehicle = cap[c].vehicle
      BY <1>1, <1>2 DEF Photo
<1>. QED BY <1>2, <1>3 DEF Committed

LEMMA StartWithPhotoAddsUp ==
    ASSUME OdometerAssumption, OdometerInv, ScanInv', NEW c \in Captures, StartWithPhoto(c)
    PROVE  OdometerInv'
<1>1. /\ Committed("start")' = {c} /\ Committed("end")' = Committed("end")
      /\ cap'[c].reading = cap[c].reading /\ cap'[c].vehicle = trip.vehicle
      BY CommitOnce DEF StartWithPhoto, Stages
<1>2. trip' = [trip EXCEPT !.phase = "active", !.start = cap[c].reading, !.latched = @ \/ TRUE]
      BY DEF StartWithPhoto, StartWith
<1>3. /\ trip'.phase = "active" /\ trip'.start = cap[c].reading /\ trip'.vehicle = trip.vehicle
      /\ trip'.estimated = trip.estimated
      BY <1>2, TypeParts DEF OdometerInv, ScanInv, Trips
<1>. QED BY <1>1, <1>3 DEF OdometerInv, Latched, Stages

LEMMA CompleteWithPhotoAddsUp ==
    ASSUME OdometerAssumption, OdometerInv, ScanInv', NEW c \in Captures, CompleteWithPhoto(c)
    PROVE  OdometerInv'
<1>1. /\ Committed("end")' = {c} /\ Committed("start")' = Committed("start")
      /\ cap'[c].reading = cap[c].reading /\ cap'[c].vehicle = trip.vehicle
      /\ \A d \in Committed("start") : cap'[d] = cap[d]
  <2>1. Usable(c, "end") /\ Commit(c)
        BY DEF CompleteWithPhoto
  <2>2. c \notin Committed("start")
        BY <2>1 DEF Usable, Committed
  <2>. QED BY <2>1, <2>2, CommitOnce DEF Stages, Committed
<1>2. /\ trip' = [trip EXCEPT !.phase = "Completed", !.end = cap[c].reading, !.estimated = TRUE]
      /\ mileage' = [mileage EXCEPT ![trip.vehicle] = IF cap[c].reading > @ THEN cap[c].reading ELSE @]
      BY DEF CompleteWithPhoto, CompleteWith, Drive
<1>3. /\ trip \in Trips /\ mileage \in [Vehicles -> 0..MaxReading] /\ cap[c].reading \in 0..MaxReading
      /\ trip.vehicle \in Vehicles
      BY TypeParts DEF OdometerInv, ScanInv, Trips, Photo
<1>4. /\ trip'.phase = "Completed" /\ trip'.end = cap[c].reading /\ trip'.vehicle = trip.vehicle
      /\ trip'.start = trip.start /\ trip'.estimated /\ trip'.latched = trip.latched
      BY <1>2, <1>3 DEF Trips
<1>5. trip.start <= cap[c].reading
      BY DEF CompleteWithPhoto, Usable
<1>6. cap[c].reading <= mileage'[trip.vehicle]
      BY <1>2, <1>3 DEF OdometerAssumption
<1>7. trip'.latched =>
         /\ trip'.phase # "pre"
         /\ \E d \in Committed("start")' : cap'[d].reading = trip'.start /\ cap'[d].vehicle = trip'.vehicle
      BY <1>1, <1>4 DEF OdometerInv, Latched
<1>8. \A stage \in Stages : \A d, e \in Committed(stage)' : d = e
      BY <1>1 DEF OdometerInv, Latched, Stages
<1>. QED BY <1>1, <1>4, <1>5, <1>6, <1>7, <1>8 DEF OdometerInv, Latched

\* Everything else that happens to a photo happens before it is committed.
LEMMA ScannersAddUp ==
    ASSUME OdometerAssumption, OdometerInv, ScanInv', UNCHANGED <<trip, mileage>>,
           Scanning \/ \E c \in Captures : LeaseEnds(c) \/ \E stage \in Stages : Upload(c, stage)
    PROVE  OdometerInv'
<1>. SUFFICES ASSUME NEW d \in Captures
              PROVE  /\ cap[d].state = "committed" => cap'[d] = cap[d]
                     /\ cap'[d].state = "committed" => cap[d].state = "committed"
  <2>1. /\ trip.estimated => trip'.estimated
        /\ trip'.latched =>
              /\ trip.latched /\ trip'.phase # "pre"
              /\ trip'.start = trip.start /\ trip'.vehicle = trip.vehicle
        BY DEF OdometerInv, Latched
  <2>2. mileage'[trip.vehicle] >= mileage[trip.vehicle]
    <3>1. mileage[trip.vehicle] \in 0..MaxReading
          BY TypeParts DEF OdometerInv, ScanInv, Trips
    <3>. QED BY <3>1 DEF OdometerAssumption
  <2>3. trip'.latched /\ trip'.phase = "Completed" =>
           /\ trip.phase = "Completed" /\ trip'.end = trip.end
           /\ mileage'[trip.vehicle] >= mileage[trip.vehicle]
        BY <2>2
  <2>. QED BY <2>1, <2>3, CommittedKept
<1>1. cap \in [Captures -> Photo] /\ cap[d] \in Photo
      BY TypeParts DEF OdometerInv, ScanInv
<1>2. ASSUME NEW c \in Captures, NEW stage \in Stages, Upload(c, stage)
      PROVE  /\ cap[d].state = "committed" => cap'[d] = cap[d]
             /\ cap'[d].state = "committed" => cap[d].state = "committed"
      BY <1>1, <1>2 DEF Upload, NoPhoto
<1>3. ASSUME NEW c \in Captures, LeaseEnds(c) \/ \E w \in Scanners : Claim(w, c)
      PROVE  /\ cap[d].state = "committed" => cap'[d] = cap[d]
             /\ cap'[d].state = "committed" => cap[d].state = "committed"
  <2>1. cap[c].state \in {"uploaded", "failed", "scanning"} /\ cap[c] \in Photo
        BY <1>1, <1>3 DEF LeaseEnds, Claim, Scannable
  <2>2. PICK row : cap' = [cap EXCEPT ![c] = row] /\ row.state = "scanning"
    <3>1. CASE LeaseEnds(c)
      <4>1. cap' = [cap EXCEPT ![c] = [cap[c] EXCEPT !.leased = FALSE]] /\ cap[c].state = "scanning"
            BY <3>1 DEF LeaseEnds
      <4>2. [cap[c] EXCEPT !.leased = FALSE].state = "scanning"
            BY <2>1, <4>1 DEF Photo
      <4>. QED BY <4>1, <4>2
    <3>2. CASE \E w \in Scanners : Claim(w, c)
      <4>. DEFINE row == [cap[c] EXCEPT !.state = "scanning", !.attempts = cap[c].attempts + 1,
                                       !.leased = TRUE]
      <4>1. cap' = [cap EXCEPT ![c] = row]
            BY <2>1, <3>2 DEF Claim, Claimed, Photo
      <4>2. row.state = "scanning"
            BY <2>1 DEF Photo
      <4>. QED BY <4>1, <4>2
    <3>. QED BY <1>3, <3>1, <3>2
  <2>. QED BY <1>1, <2>1, <2>2
<1>4. ASSUME NEW w \in Scanners, Finish(w), ~UNCHANGED cap
      PROVE  /\ cap[d].state = "committed" => cap'[d] = cap[d]
             /\ cap'[d].state = "committed" => cap[d].state = "committed"
  <2>. DEFINE c == scan[w].cap
  <2>1. c \in Captures
        BY <1>4 DEF Finish, OdometerInv, ScanInv, Claims
  <2>2. PICK km \in Readings :
           /\ cap[c].state = "scanning"
           /\ cap' = [cap EXCEPT ![c] = Result(cap[c], scan[w].outcome, km)]
        BY <1>4 DEF Finish
  <2>3. Result(cap[c], scan[w].outcome, km).state # "committed"
        BY <1>1, <2>1, ResultTyped
  <2>. QED BY <1>1, <2>1, <2>2, <2>3
<1>. QED BY <1>2, <1>3, <1>4 DEF Scanning, Network, Crash

\* Without a photo a trip is written as before only while its latch is open.
LEMMA OthersAddUp ==
    ASSUME OdometerAssumption, OdometerInv, ScanInv',
           \/ \E km \in 0..MaxReading : StartTyped(km) \/ CompleteTyped(km)
           \/ Cancel \/ Edit \/ \E v \in Vehicles : MileageMoves(v)
    PROVE  OdometerInv'
<1>1. UNCHANGED cap
      BY DEF StartTyped, CompleteTyped, Cancel, Edit, MileageMoves
<1>2. trip \in Trips /\ mileage \in [Vehicles -> 0..MaxReading] /\ trip.vehicle \in Vehicles
      BY TypeParts DEF OdometerInv, ScanInv, Trips
<1>3. mileage[trip.vehicle] \in Nat /\ mileage[trip.vehicle] >= mileage[trip.vehicle]
      BY <1>2 DEF OdometerAssumption
<1>4. ASSUME trip.estimated => trip'.estimated,
             trip'.latched =>
                /\ trip.latched /\ trip'.phase # "pre"
                /\ trip'.start = trip.start /\ trip'.vehicle = trip.vehicle
                /\ trip'.phase = "Completed" =>
                      /\ trip.phase = "Completed" /\ trip'.end = trip.end
                      /\ mileage'[trip.vehicle] >= mileage[trip.vehicle]
      PROVE  OdometerInv'
      BY <1>1, <1>4, CommittedKept
<1>5. ASSUME NEW km \in 0..MaxReading, StartTyped(km) PROVE OdometerInv'
  <2>1. /\ trip' = [trip EXCEPT !.phase = "active", !.start = km, !.latched = @ \/ FALSE] /\ ~trip.latched
        BY <1>5 DEF StartTyped, StartWith
  <2>2. ~trip'.latched /\ trip'.estimated = trip.estimated
        BY <1>2, <2>1 DEF Trips
  <2>. QED BY <1>4, <2>2
<1>6. ASSUME NEW km \in 0..MaxReading, CompleteTyped(km) PROVE OdometerInv'
  <2>1. /\ trip' = [trip EXCEPT !.phase = "Completed", !.end = km, !.estimated = TRUE] /\ ~trip.latched
        BY <1>6 DEF CompleteTyped, CompleteWith
  <2>2. ~trip'.latched /\ trip'.estimated
        BY <1>2, <2>1 DEF Trips
  <2>. QED BY <1>4, <2>2
<1>7. ASSUME Cancel PROVE OdometerInv'
  <2>1. /\ trip'.phase = "Cancelled" /\ trip'.start = trip.start /\ trip'.vehicle = trip.vehicle
        /\ trip'.latched = trip.latched /\ trip'.estimated = trip.estimated
        BY <1>2, <1>7 DEF Cancel, Trips
  <2>. QED BY <1>4, <2>1
<1>8. ASSUME Edit PROVE OdometerInv'
  <2>1. PICK phase \in Phases, v \in Vehicles, s \in {NoReading, MaxReading}, e \in {NoReading, MaxReading} :
           trip' = [trip EXCEPT !.phase = phase, !.vehicle = v,
                                !.start = IF s = NoReading THEN @ ELSE s,
                                !.end = IF e = NoReading THEN @ ELSE e]
        BY <1>8 DEF Edit
  <2>2. trip'.latched = trip.latched /\ trip'.estimated = trip.estimated
        BY <1>2, <2>1 DEF Trips
  <2>3. trip.latched =>
           /\ trip.phase # "pre" /\ trip'.start = trip.start /\ trip'.end = trip.end
           /\ trip'.vehicle = trip.vehicle
           /\ trip'.phase \in {trip.phase, "Cancelled"}
        BY <1>8 DEF Edit, EditAllowed, OdometerInv, Latched
  <2>4. UNCHANGED mileage
        BY <1>8 DEF Edit
  <2>. QED BY <1>3, <1>4, <2>2, <2>3, <2>4
<1>9. ASSUME NEW v \in Vehicles, MileageMoves(v) PROVE OdometerInv'
  <2>1. UNCHANGED trip /\ mileage' = [mileage EXCEPT ![v] = @ + 1]
        BY <1>9 DEF MileageMoves
  <2>2. mileage'[trip.vehicle] >= mileage[trip.vehicle]
        BY <1>2, <1>3, <2>1
  <2>3. trip.latched => trip.phase # "pre"
        BY DEF OdometerInv, Latched
  <2>. QED BY <1>4, <2>1, <2>2, <2>3
<1>. QED BY <1>5, <1>6, <1>7, <1>8, <1>9

LEMMA NextOdometerInv == ASSUME OdometerAssumption, OdometerInv, [Next]_vars PROVE OdometerInv'
<1>1. ScanInv'
      BY NextScanInv DEF OdometerInv
<1>2. ASSUME Scanning \/ \E c \in Captures : LeaseEnds(c) \/ \E stage \in Stages : Upload(c, stage)
      PROVE  OdometerInv'
  <2>1. UNCHANGED <<trip, mileage>>
        BY <1>2 DEF Scanning, Claim, Claimed, Network, Finish, Crash, LeaseEnds, Upload
  <2>. QED BY <1>1, <1>2, <2>1, ScannersAddUp
<1>3. ASSUME NEW c \in Captures, StartWithPhoto(c) \/ CompleteWithPhoto(c) PROVE OdometerInv'
      BY <1>1, <1>3, StartWithPhotoAddsUp, CompleteWithPhotoAddsUp
<1>4. ASSUME \/ \E km \in 0..MaxReading : StartTyped(km) \/ CompleteTyped(km)
             \/ Cancel \/ Edit \/ \E v \in Vehicles : MileageMoves(v)
      PROVE  OdometerInv'
      BY <1>1, <1>4, OthersAddUp
<1>5. CASE UNCHANGED vars
      BY <1>1, <1>5 DEF vars, OdometerInv, Latched, Committed
<1>. QED BY <1>2, <1>3, <1>4, <1>5 DEF Next

LEMMA InitOdometerInv == ASSUME OdometerAssumption, Init PROVE OdometerInv
<1>1. \A stage \in Stages : Committed(stage) = {}
      BY DEF Init, NoPhoto, Committed
<1>2. ~trip.latched
      BY DEF Init
<1>. QED BY <1>1, <1>2, InitScanInv DEF OdometerInv, Latched, Stages

\* A completed trip that began with a photo has one photo of each end, of its own
\* vehicle, and its readings and the mileage are in order, whatever was edited.
THEOREM PhotoTripAddsUpHolds == ASSUME OdometerAssumption PROVE Spec => []PhotoTripAddsUp
<1>1. OdometerInv => PhotoTripAddsUp
  <2>. SUFFICES ASSUME OdometerInv, trip.latched, trip.phase = "Completed"
                PROVE  PhotoTripAddsUp
       BY DEF PhotoTripAddsUp
  <2>1. PICK c \in Committed("start") : cap[c].reading = trip.start /\ cap[c].vehicle = trip.vehicle
        BY DEF OdometerInv, Latched
  <2>2. PICK d \in Committed("end") : cap[d].reading = trip.end /\ cap[d].vehicle = trip.vehicle
        BY DEF OdometerInv, Latched
  <2>3. Committed("start") = {c} /\ Committed("end") = {d}
        BY <2>1, <2>2 DEF OdometerInv, Latched, Stages
  <2>4. Cardinality({c}) = 1 /\ Cardinality({d}) = 1
        BY FS_Singleton
  <2>5. trip.start <= trip.end /\ trip.end <= mileage[trip.vehicle]
        BY DEF OdometerInv, Latched
  <2>. QED BY <2>1, <2>2, <2>3, <2>4, <2>5 DEF PhotoTripAddsUp, Stages
<1>2. Spec => []OdometerInv
      BY InitOdometerInv, NextOdometerInv, PTL DEF Spec
<1>. QED BY <1>1, <1>2, PTL
=============================================================================

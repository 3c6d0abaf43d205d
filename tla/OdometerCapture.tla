-------------------------- MODULE OdometerCapture --------------------------
(***************************************************************************)
(* The photographed odometer readings of one trip.  A photo is uploaded    *)
(* under an id of the app's choice, read by a slow service under a lease,  *)
(* confirmed by the driver, and committed by the start or the completion   *)
(* of the trip, while other invocations scan the same photo, retry the     *)
(* start, edit the trip or move the vehicle's mileage.  A photo that has   *)
(* grown too old is one that is scanned and committed no more.             *)
(***************************************************************************)
EXTENDS Naturals, FiniteSets

CONSTANTS
    Captures,       \* capture ids
    Scanners,       \* invocations that scan
    Vehicles,
    MaxReading,     \* bound: kilometres
    MaxAttempts,    \* scans of one photo (3)
    PhotoRequired,  \* ODOMETER_PHOTO_REQUIRED = '1'
    None            \* no capture, no vehicle

OdometerAssumption ==
    MaxReading \in Nat /\ MaxAttempts \in Nat \ {0} /\ PhotoRequired \in BOOLEAN
    /\ None \notin Captures \union Vehicles

VARIABLES
    trip,      \* the trips row: phase of its status, vehicle, readings, latches
    mileage,   \* vehicles.mileage
    cap,       \* trip_odometer_captures
    scan       \* each scanner: what it claimed and how far it is

vars == <<trip, mileage, cap, scan>>

Readings == 1..MaxReading
Stages == {"start", "end"}
NoReading == 0

\* Pre-start statuses, statuses of a run under way, and the terminal ones
Phases == {"pre", "active", "Completed", "Cancelled"}

NoPhoto == [state |-> "absent", stage |-> "start", vehicle |-> None, attempts |-> 0,
            leased |-> FALSE, reading |-> NoReading]
Idle == [cap |-> None, attempt |-> 0, step |-> "idle", outcome |-> "none"]

Outcomes == {"none", "unavailable", "unreadable", "read"}

TypeOK ==
    /\ trip \in [phase: Phases, vehicle: Vehicles, start: 0..MaxReading, end: 0..MaxReading,
                 latched: BOOLEAN, estimated: BOOLEAN]
    /\ mileage \in [Vehicles -> 0..MaxReading]
    /\ cap \in [Captures ->
          [state: {"absent", "uploaded", "scanning", "ready", "unreadable", "failed", "committed"},
           stage: Stages, vehicle: Vehicles \union {None}, attempts: 0..MaxAttempts,
           leased: BOOLEAN, reading: 0..MaxReading]]
    /\ scan \in [Scanners ->
          [cap: Captures \union {None}, attempt: 0..MaxAttempts,
           step: {"idle", "network", "finish"}, outcome: Outcomes]]
    /\ \A c \in Captures : cap[c].state \in {"ready", "committed"} => cap[c].reading \in Readings

Init ==
    /\ trip \in [phase: {"pre"}, vehicle: Vehicles, start: {NoReading}, end: {NoReading},
                 latched: {FALSE}, estimated: {FALSE}]
    /\ mileage = [v \in Vehicles |-> 0]
    /\ cap = [c \in Captures |-> NoPhoto]
    /\ scan = [w \in Scanners |-> Idle]

PhaseFor(stage) == IF stage = "start" THEN "pre" ELSE "active"

\* binding and phase: the photo belongs to the trip as it is now.
Belongs(c, stage) == cap[c].stage = stage /\ cap[c].vehicle = trip.vehicle
Committed(stage) == { c \in Captures : cap[c].state = "committed" /\ cap[c].stage = stage }

------------------------------------------------------------------------------
(* Upload and scan *)

\* uploadOdometerCapture; the same id again changes nothing.
Upload(c, stage) ==
    /\ cap[c].state = "absent" /\ trip.phase = PhaseFor(stage)
    /\ cap' = [cap EXCEPT ![c] = [NoPhoto EXCEPT !.state = "uploaded", !.stage = stage,
                                                 !.vehicle = trip.vehicle]]
    /\ UNCHANGED <<trip, mileage, scan>>

\* The claim of scanner w on photo c
Claimed(w, c) ==
    /\ cap' = [cap EXCEPT ![c].state = "scanning", ![c].attempts = @ + 1, ![c].leased = TRUE]
    /\ scan' = [scan EXCEPT ![w] = [cap |-> c, attempt |-> cap[c].attempts + 1,
                                    step |-> "network", outcome |-> "none"]]
    /\ UNCHANGED <<trip, mileage>>

Scannable(c) ==
    /\ Belongs(c, cap[c].stage) /\ trip.phase = PhaseFor(cap[c].stage)
    /\ cap[c].state \in {"uploaded", "failed", "scanning"} /\ cap[c].attempts < MaxAttempts

\* Fault: a photo that is being scanned may be claimed again.
ClaimLeased(w, c) == scan[w] = Idle /\ Scannable(c) /\ Claimed(w, c)

\* scanOdometerCapture, first transaction: a lease of thirty seconds
Claim(w, c) ==
    /\ scan[w] = Idle /\ Scannable(c)
    /\ ~(cap[c].state = "scanning" /\ cap[c].leased)
    /\ Claimed(w, c)

\* Storage and the reading service; both give up five seconds before the lease ends.
Network(w) ==
    /\ scan[w].step = "network"
    /\ \E outcome \in Outcomes \ {"none"} :
          scan' = [scan EXCEPT ![w].step = "finish", ![w].outcome = outcome]
    /\ UNCHANGED <<trip, mileage, cap>>

InNetwork(c) == { w \in Scanners : scan[w].step = "network" /\ scan[w].cap = c }

LeaseEnds(c) ==
    /\ cap[c].state = "scanning" /\ cap[c].leased
    /\ \A w \in InNetwork(c) : scan[w].attempt # cap[c].attempts
    /\ cap' = [cap EXCEPT ![c].leased = FALSE]
    /\ UNCHANGED <<trip, mileage, scan>>

\* What a finished scan writes
Result(row, outcome, km) ==
    CASE outcome = "read" -> [row EXCEPT !.state = "ready", !.reading = km, !.leased = FALSE]
      [] outcome = "unreadable" -> [row EXCEPT !.state = "unreadable", !.leased = FALSE]
      [] OTHER -> [row EXCEPT !.state = "failed", !.leased = FALSE]

\* Fault: the result is written whoever holds the lease by now.
FinishBlind(w) ==
    /\ scan[w].step = "finish"
    /\ scan' = [scan EXCEPT ![w] = Idle]
    /\ \E km \in Readings :
          LET c == scan[w].cap
          IN  cap' = IF cap[c].vehicle = trip.vehicle
                     THEN [cap EXCEPT ![c] = Result(@, scan[w].outcome, km)] ELSE cap
    /\ UNCHANGED <<trip, mileage>>

\* Second transaction: the row is written only under this scanner's own claim,
\* and only while the photo belongs to the trip.
Finish(w) ==
    /\ scan[w].step = "finish"
    /\ scan' = [scan EXCEPT ![w] = Idle]
    /\ \E km \in Readings :
          LET c == scan[w].cap
          IN  cap' = IF /\ cap[c].vehicle = trip.vehicle
                        /\ cap[c].state = "scanning" /\ cap[c].attempts = scan[w].attempt
                     THEN [cap EXCEPT ![c] = Result(@, scan[w].outcome, km)] ELSE cap
    /\ UNCHANGED <<trip, mileage>>

\* The invocation stops: its lease is left to run out.
Crash(w) ==
    /\ scan[w] # Idle
    /\ scan' = [scan EXCEPT ![w] = Idle]
    /\ UNCHANGED <<trip, mileage, cap>>

------------------------------------------------------------------------------
(* The trip *)

\* consumeOdometerCapture, under the locks of trip and vehicle
Usable(c, stage) ==
    /\ Belongs(c, stage) /\ Committed(stage) = {}
    /\ cap[c].state = "ready"
    /\ cap[c].reading >= mileage[trip.vehicle]
    /\ stage = "end" => trip.start # NoReading /\ cap[c].reading >= trip.start

Commit(c) == cap' = [cap EXCEPT ![c].state = "committed"]
Drive(km) == mileage' = [mileage EXCEPT ![trip.vehicle] = IF km > @ THEN km ELSE @]

StartWith(km, photo) ==
    /\ trip' = [trip EXCEPT !.phase = "active", !.start = km, !.latched = @ \/ photo]
    /\ Drive(km)
    /\ UNCHANGED scan

\* The start of the trip with a photo; a retry finds it committed and returns.
StartWithPhoto(c) ==
    /\ trip.phase = "pre" /\ Usable(c, "start")
    /\ Commit(c) /\ StartWith(cap[c].reading, TRUE)

\* ... and without one, with a typed reading or none
StartTyped(km) ==
    /\ trip.phase = "pre" /\ ~PhotoRequired /\ ~trip.latched
    /\ km = NoReading \/ km >= mileage[trip.vehicle]
    /\ StartWith(km, FALSE) /\ UNCHANGED cap

\* completeTrip: the estimate of the first completion is kept for ever.
Completable ==
    /\ trip.phase \in {"pre", "active"} /\ ~trip.estimated
    /\ trip.phase = "pre" => ~PhotoRequired /\ ~trip.latched

CompleteWith(km) ==
    /\ trip' = [trip EXCEPT !.phase = "Completed", !.end = km, !.estimated = TRUE]
    /\ Drive(km)
    /\ UNCHANGED scan

CompleteWithPhoto(c) ==
    /\ Completable /\ Usable(c, "end")
    /\ Commit(c) /\ CompleteWith(cap[c].reading)

\* Fault: a trip that began with a photo may end without one.
CompleteTypedAlways(km) ==
    /\ Completable
    /\ km = NoReading \/ km >= mileage[trip.vehicle]
    /\ CompleteWith(km) /\ UNCHANGED cap

CompleteTyped(km) ==
    /\ Completable /\ ~trip.latched
    /\ km = NoReading \/ km >= mileage[trip.vehicle]
    /\ CompleteWith(km) /\ UNCHANGED cap

\* Cancellation, and the steps of a run under way, which keep its phase
Cancel ==
    /\ trip.phase \in {"pre", "active"}
    /\ trip' = [trip EXCEPT !.phase = "Cancelled"]
    /\ UNCHANGED <<mileage, cap, scan>>

\* assertGenericOdometerWriteAllowed for the edit of a trip's row: `new` is the
\* row after the edit.
EditAllowed(new) ==
    LET pre == trip.phase = "pre"
        guarded == trip.latched \/ (PhotoRequired /\ pre)
    IN  /\ PhotoRequired /\ trip.phase \in {"Completed", "Cancelled"} => new.phase = trip.phase
        /\ guarded =>
              /\ new.start = trip.start /\ new.end = trip.end
              /\ pre \/ new.vehicle = trip.vehicle
              /\ \/ new.phase = trip.phase
                 \/ new.phase = "Cancelled" /\ trip.phase # "Completed"

Edit ==
    /\ \E phase \in Phases, v \in Vehicles, s, e \in {NoReading, MaxReading} :
          /\ trip' = [trip EXCEPT !.phase = phase, !.vehicle = v,
                                  !.start = IF s = NoReading THEN @ ELSE s,
                                  !.end = IF e = NoReading THEN @ ELSE e]
          /\ trip' # trip /\ EditAllowed(trip')
    /\ UNCHANGED <<mileage, cap, scan>>

\* Another trip of the vehicle, or its service record, moves the mileage on.
MileageMoves(v) ==
    /\ mileage[v] < MaxReading
    /\ mileage' = [mileage EXCEPT ![v] = @ + 1]
    /\ UNCHANGED <<trip, cap, scan>>

Scanning == \E w \in Scanners :
    \/ \E c \in Captures : Claim(w, c)
    \/ Network(w) \/ Finish(w) \/ Crash(w)

Next ==
    \/ \E c \in Captures, stage \in Stages : Upload(c, stage)
    \/ \E c \in Captures : LeaseEnds(c) \/ StartWithPhoto(c) \/ CompleteWithPhoto(c)
    \/ Scanning
    \/ \E km \in 0..MaxReading : StartTyped(km) \/ CompleteTyped(km)
    \/ Cancel \/ Edit
    \/ \E v \in Vehicles : MileageMoves(v)

Spec == Init /\ [][Next]_vars

------------------------------------------------------------------------------
(* Properties *)

\* The reading service is asked once at a time for a photo: a claim that is taken
\* over has given up before, however late its answer is written.
OneScanAtATime == \A c \in Captures : Cardinality(InNetwork(c)) <= 1

\* The reading the driver was shown is the one that counts: from `ready` on no
\* late, repeated or overtaken scan changes the photo, only its commit does.
ShownReadingKept ==
    [][\A c \in Captures : cap[c].state \in {"ready", "committed"} =>
          /\ cap'[c].reading = cap[c].reading
          /\ cap'[c].state \in {cap[c].state, "committed"}]_vars

\* A trip that was started with a photo and is completed has exactly one committed
\* photo of each stage, of the vehicle it drove, and the two readings and the
\* vehicle's mileage are in order.
PhotoTripAddsUp ==
    (trip.latched /\ trip.phase = "Completed") =>
        /\ \A stage \in Stages : Cardinality(Committed(stage)) = 1
        /\ \A c \in Committed("start") : cap[c].reading = trip.start
        /\ \A c \in Committed("end") : cap[c].reading = trip.end
        /\ \A stage \in Stages : \A c \in Committed(stage) : cap[c].vehicle = trip.vehicle
        /\ trip.start <= trip.end /\ trip.end <= mileage[trip.vehicle]
=============================================================================

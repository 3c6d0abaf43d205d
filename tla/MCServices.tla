----------------------------- MODULE MCServices -----------------------------
(***************************************************************************)
(* Services that share nothing with each other: the custody of cargo, the  *)
(* photographed odometer readings, the second factor of a sign-in and the  *)
(* outbox of the driver's app.  One of them moves in a behaviour, the      *)
(* others stay where they begin.  Odometer readings have two instances:    *)
(* two scanners on one photo, and the photos of a whole trip.  So has the  *)
(* outbox: the way of an incident report, and the mirror of the queue's    *)
(* length over writes from stale copies, where no action is a report.      *)
(***************************************************************************)
EXTENDS CargoCustody, TLC

VARIABLES
    part,                                                        \* the component that moves
    run, mileage, cap, scan,                                     \* OdometerCapture
    challenge, unused, authVersion, hits, call, signIns, strikes,  \* LoginChallenge
    queue, dead, known, isSyncing, put, drain, retry, settled, slipped, missed  \* OfflineQueue

odometerVars == <<run, mileage, cap, scan>>
loginVars == <<challenge, unused, authVersion, hits, call, signIns, strikes>>
queueVars == <<queue, dead, known, isSyncing, put, drain, retry, settled, slipped, missed>>
allVars == <<part, vars, odometerVars, loginVars, queueVars>>

CONSTANTS Vehicle, Another, Nothing, Scanners, Calls, RecoveryCodes, Wrong, Incidents, Others, Drains, Unknown

Scan == INSTANCE OdometerProofs WITH
    trip <- run, Captures <- {1}, Vehicles <- {Vehicle}, None <- Nothing,
    MaxReading <- 2, MaxAttempts <- 2, PhotoRequired <- FALSE

Odometer == INSTANCE OdometerProofs WITH
    trip <- run, Captures <- {1, 2}, Vehicles <- {Vehicle, Another}, Scanners <- {1}, None <- Nothing,
    MaxReading <- 2, MaxAttempts <- 1, PhotoRequired <- TRUE

Login == INSTANCE LoginProofs WITH
    version <- authVersion, MaxChallenges <- 2, MaxVersion <- 1, MaxAttempts <- 2, LockLimit <- 1

Queue == INSTANCE QueueProofs WITH MaxQueue <- 1

Mirror == INSTANCE QueueProofs WITH
    Incidents <- {}, Others <- Incidents \union Others, MaxQueue <- 1

ASSUME ServicesAssumption ==
    /\ Scan!OdometerAssumption /\ Odometer!OdometerAssumption
    /\ Login!LoginAssumption
    /\ Queue!QueueAssumption /\ Mirror!QueueAssumption

PartsInit ==
    /\ part \in {"cargo", "scan", "odometer", "login", "queue", "mirror"}
    /\ Init /\ Login!Init /\ Queue!Init
    /\ IF part = "odometer" THEN Odometer!Init ELSE Scan!Init
    /\ part # "cargo" => trip.pair = CHOOSE pair \in Pairs : TRUE

CargoStep ==
    part = "cargo" /\ Next /\ UNCHANGED <<part, odometerVars, loginVars, queueVars>>
ScanStep ==
    part = "scan" /\ Scan!Next /\ UNCHANGED <<part, vars, loginVars, queueVars>>
OdometerStep ==
    part = "odometer" /\ Odometer!Next /\ UNCHANGED <<part, vars, loginVars, queueVars>>
LoginStep ==
    part = "login" /\ Login!Next /\ UNCHANGED <<part, vars, odometerVars, queueVars>>
\* Once its history is set the property of a part holds for good.
QueueStep ==
    part = "queue" /\ ~slipped /\ Queue!Next /\ UNCHANGED <<part, vars, odometerVars, loginVars>>
MirrorStep ==
    part = "mirror" /\ ~missed /\ Mirror!Next /\ UNCHANGED <<part, vars, odometerVars, loginVars>>

PartsNext == CargoStep \/ ScanStep \/ OdometerStep \/ LoginStep \/ QueueStep \/ MirrorStep

PartsSpec == PartsInit /\ [][PartsNext]_allVars

\* No step looks at the mirror, nor at what only serves to write it, nor at whether
\* the server has taken an action: where the reports are followed, states that differ
\* in nothing else are one.
ReportsView ==
    <<queue, dead, isSyncing, retry, settled \intersect Incidents, slipped,
      [a \in Incidents \union Others |->
          IF put[a].pc = "mirror" THEN [put[a] EXCEPT !.pc = "stored", !.copy = <<>>] ELSE put[a]],
      [d \in Drains |->
          IF drain[d].pc = "counted" THEN [drain[d] EXCEPT !.pc = "count", !.read = <<>>] ELSE drain[d]]>>

PartsView ==
    <<part, vars, odometerVars, loginVars>>
    \o IF part = "queue" THEN ReportsView ELSE queueVars

PartsSymmetry == Permutations(Calls) \union Permutations(Scanners) \union Permutations(Drains)

------------------------------------------------------------------------------
(* The properties of the components, each on its own part *)

PartsTypeOK ==
    CASE part = "cargo" -> TypeOK
      [] part = "scan" -> Scan!TypeOK
      [] part = "odometer" -> Odometer!TypeOK
      [] part = "login" -> Login!TypeOK
      [] part = "queue" -> Queue!TypeOK
      [] part = "mirror" -> Mirror!TypeOK

OneScanAtATime == part = "scan" => Scan!OneScanAtATime
ShownReadingKept == Scan!ShownReadingKept
PhotoTripAddsUp == part = "odometer" => Odometer!PhotoTripAddsUp

OneLiveChallenge == Login!OneLiveChallenge
CodesSignInOnce == Login!CodesSignInOnce
OneStrikePerBurn == Login!OneStrikePerBurn
EmergencyCodeNotRetired == Login!EmergencyCodeNotRetired

LostOnlyByStaleOrFailedWrite == part = "queue" => Queue!LostOnlyByStaleOrFailedWrite
HiddenWorkIsRecounted == part = "mirror" => Mirror!HiddenWorkIsRecounted
=============================================================================

--------------------------- MODULE ServicesProofs ---------------------------
(***************************************************************************)
(* The services of MCServices.                                             *)
(*                                                                         *)
(* Cargo travels only under current, informed approvals: proved here, for  *)
(* every number of managers, submissions, pairs and versions.  The         *)
(* promises of a run under way hold because its windows are shut: what     *)
(* could withdraw an approval needs a status the run no longer has.  That  *)
(* the approvals were informed also needs what a review knew when it was   *)
(* given, whatever the run does later (Informed).                          *)
(*                                                                         *)
(* The theorems of LoginProofs, OdometerProofs and QueueProofs are carried *)
(* to the composition: each component of it behaves as its own             *)
(* specification says, whatever the others do, so that what TLC checks     *)
(* there on small instances is what those modules prove for every value of *)
(* the constants.  Odometer readings, and the outbox, have two instances   *)
(* over the same rows; a behaviour is one of the one or of the other.      *)
(***************************************************************************)
EXTENDS MCServices, TLAPS

------------------------------------------------------------------------------
(* Cargo: the invariant *)

\* Nothing was decided under a version the execution does not have yet.
InThePast ==
    /\ \A kind \in Kinds : review[kind].at <= version
    /\ clearance.at <= version

\* A review was given with its count on the page, a clearance with its decision.
Informed ==
    /\ review["SOURCE"].receipt <= review["SOURCE"].seen
    /\ review["SECUREMENT"].at = clearance.at =>
          clearance.decision <= review["SECUREMENT"].seen

CargoInv ==
    /\ TypeOK /\ InThePast /\ Informed
    /\ CustodyIsCovered /\ ApprovalsWereInformed /\ CompletedWasConfirmed

Carried == Onboard \union {"Completed"}

------------------------------------------------------------------------------
(* Cargo: the statuses *)

\* No window of pickup, and nothing before the start, is a status of a run
\* that carries its cargo.
LEMMA PickupIsBefore ==
    /\ (PreStart \union BeforeCustody) \intersect Carried = {}
    /\ "Completed" \notin AtDelivery /\ "Cancelled" \notin Carried
    /\ "Assigned" \notin Carried
    /\ Window("PICKUP") = BeforeCustody /\ Window("DELIVERY") = AtDelivery
    /\ AtDelivery \subseteq Onboard
BY DEF PreStart, LegacyTrip, BeforeCustody, AtDelivery, Carried, Onboard, Window

LEMMA KindFacts ==
    /\ Kinds = {"SOURCE", "SECUREMENT", "RECEIVER"}
    /\ StageOf("SOURCE") = "PICKUP" /\ StageOf("SECUREMENT") = "PICKUP"
    /\ StageOf("RECEIVER") = "DELIVERY"
    /\ \A kind \in Kinds : StageOf(kind) \in Stages /\ Actions(kind) \subseteq AllActions
    /\ \A kind \in Kinds : "CLEAR" \in Actions(kind) => kind = "SECUREMENT"
    /\ \A kind \in Kinds : "WAIT" \in Actions(kind)
BY DEF Kinds, StageOf, Stages, Actions, AllActions

------------------------------------------------------------------------------
(* Cargo: counts, reviews and pages *)

LEMMA InitCargoInv == Init => CargoInv
<1>. SUFFICES ASSUME Init PROVE CargoInv
     OBVIOUS
<1>1. MaxVersion \in Nat \ {0}
      BY CargoAssumption
<1>2. TypeOK
  <2>1. 0 \in Ids /\ 1 \in Versions
        BY <1>1 DEF Ids, Versions
  <2>2. "Assigned" \in TripStatus
        BY DEF TripStatus
  <2>3. trip \in [status: TripStatus, pair: Pairs] /\ version \in Versions
        BY <2>1, <2>2 DEF Init
  <2>4. NoReview \in [receipt: Ids, action: AllActions, at: Ids, seen: Ids,
                      pair: Pairs \union {None}]
        BY <2>1, KindFacts DEF NoReview
  <2>5. NoReview.action = "WAIT" /\ NoClearance \in [receipt: Ids, decision: Ids, at: Ids]
        BY <2>1 DEF NoReview, NoClearance
  <2>6. \A kind \in Kinds : review[kind] = NoReview
        BY DEF Init
  <2>7. \A kind \in Kinds : review[kind].action \in Actions(kind)
        BY <2>5, <2>6, KindFacts
  <2>. QED BY <2>3, <2>4, <2>5, <2>7 DEF Init, TypeOK
<1>3. InThePast /\ Informed
      BY <1>1, KindFacts DEF Init, InThePast, Informed, NoReview, NoClearance
<1>4. trip.status = "Assigned"
      BY DEF Init
<1>. QED BY <1>2, <1>3, <1>4, PickupIsBefore
     DEF CargoInv, CustodyIsCovered, ApprovalsWereInformed, CompletedWasConfirmed, Carried

LEMMA CountKeepsInv ==
    ASSUME CargoInv, NEW s \in Submissions, NEW stage \in Stages, Count(s, stage)
    PROVE  CargoInv'
<1>1. version \in Nat /\ version' = version + 1 /\ version' \in Versions
      BY CargoAssumption DEF Count, CargoInv, TypeOK, Versions
<1>2. /\ count' = [count EXCEPT ![stage] = version + 1]
      /\ filed' = [filed EXCEPT ![s] = version + 1]
      /\ UNCHANGED <<trip, review, clearance, page>> /\ trip.status \in Window(stage)
      BY DEF Count
<1>3. TypeOK'
      BY <1>1, <1>2 DEF CargoInv, TypeOK, Versions
<1>4. InThePast' /\ Informed'
      BY <1>1, <1>2 DEF CargoInv, TypeOK, InThePast, Informed, Ids, Kinds
<1>5. trip.status \in Carried => count'["PICKUP"] = count["PICKUP"]
      BY <1>2, PickupIsBefore DEF CargoInv, TypeOK, Stages
<1>6. trip.status # "Completed"
      BY <1>2, PickupIsBefore DEF Stages, Carried
<1>. QED BY <1>2, <1>3, <1>4, <1>5, <1>6
     DEF CargoInv, CustodyIsCovered, ApprovalsWereInformed, CompletedWasConfirmed, Carried

LEMMA LoadKeepsInv ==
    ASSUME CargoInv, NEW r \in Reviewers, Load(r)
    PROVE  CargoInv'
<1>1. TypeOK'
      BY DEF Load, records, CargoInv, TypeOK, Versions
<1>. QED BY <1>1
     DEF Load, records, CargoInv, InThePast, Informed, CustodyIsCovered, ApprovalsWereInformed,
         CompletedWasConfirmed

\* A review knows what it was given for.
LEMMA ReviewKeepsInv ==
    ASSUME CargoInv, NEW r \in Reviewers, NEW kind \in Kinds, NEW action \in Actions(kind),
           SubmitReview(r, kind, action)
    PROVE  CargoInv'
<1>. DEFINE new == [receipt |-> count[StageOf(kind)], action |-> action,
                    at |-> version + 1, seen |-> page[r], pair |-> trip.pair]
<1>1. /\ version \in Nat /\ version' = version + 1 /\ version' \in Versions
      /\ version + 1 \in Ids /\ page[r] = version /\ 0..version \subseteq Ids
      BY CargoAssumption DEF SubmitReview, Record, CargoInv, TypeOK, Versions, Ids
<1>2. /\ review' = [review EXCEPT ![kind] = new] /\ UNCHANGED <<trip, count, filed, page>>
      /\ clearance' = IF action = "CLEAR"
                      THEN [receipt |-> count["PICKUP"], decision |-> review["SOURCE"].at,
                            at |-> version + 1]
                      ELSE clearance
      /\ trip.status \in Window(StageOf(kind))
      BY DEF SubmitReview, Record
<1>3. StageOf(kind) \in Stages /\ count[StageOf(kind)] \in 0..version /\ count["PICKUP"] \in 0..version
      BY KindFacts DEF CargoInv, TypeOK, Stages
<1>4. new \in [receipt: Ids, action: AllActions, at: Ids, seen: Ids, pair: Pairs \union {None}]
      BY <1>1, <1>3, KindFacts DEF CargoInv, TypeOK
<1>5. new.receipt <= new.seen /\ new.at = version + 1 /\ new.seen = version /\ new.action = action
      BY <1>1, <1>3
<1>. HIDE DEF new
<1>6. review'[kind] = new /\ \A k \in Kinds \ {kind} : review'[k] = review[k]
      BY <1>2 DEF CargoInv, TypeOK
<1>7. review' \in [Kinds -> [receipt: Ids, action: AllActions, at: Ids, seen: Ids,
                             pair: Pairs \union {None}]]
      BY <1>2, <1>4 DEF CargoInv, TypeOK
<1>8. clearance' \in [receipt: Ids, decision: Ids, at: Ids]
      BY <1>1, <1>2, <1>3 DEF CargoInv, TypeOK, Kinds
<1>9. TypeOK'
      BY <1>1, <1>2, <1>5, <1>6, <1>7, <1>8 DEF CargoInv, TypeOK, Versions
<1>10. InThePast'
      BY <1>1, <1>2, <1>5, <1>6 DEF CargoInv, TypeOK, InThePast, Ids
<1>11. Informed'
  <2>1. review'["SOURCE"].receipt <= review'["SOURCE"].seen
        BY <1>5, <1>6 DEF CargoInv, Informed, Kinds
  <2>2. CASE action = "CLEAR"
    <3>1. kind = "SECUREMENT" /\ clearance'.decision = review["SOURCE"].at
          BY <1>2, <2>2, KindFacts
    <3>2. review["SOURCE"].at <= version
          BY DEF CargoInv, InThePast, Kinds
    <3>. QED BY <1>5, <1>6, <2>1, <3>1, <3>2 DEF Informed
  <2>3. CASE action # "CLEAR" /\ kind = "SECUREMENT"
    <3>1. clearance'.at <= version /\ review'["SECUREMENT"].at = version + 1
          BY <1>2, <1>5, <1>6, <2>3 DEF CargoInv, InThePast
    <3>2. clearance'.at # review'["SECUREMENT"].at
          BY <1>1, <1>8, <3>1 DEF Ids
    <3>. QED BY <2>1, <3>2 DEF Informed
  <2>4. CASE action # "CLEAR" /\ kind # "SECUREMENT"
        BY <1>2, <1>6, <2>1, <2>4 DEF CargoInv, Informed, Kinds
  <2>. QED BY <2>2, <2>3, <2>4
<1>12. trip.status \in Carried =>
          /\ review'["SOURCE"] = review["SOURCE"] /\ review'["SECUREMENT"] = review["SECUREMENT"]
          /\ clearance' = clearance
      BY <1>2, <1>6, PickupIsBefore, KindFacts
<1>13. trip.status # "Completed"
      BY <1>2, PickupIsBefore, KindFacts DEF Stages, Carried
<1>. QED BY <1>2, <1>9, <1>10, <1>11, <1>12, <1>13
     DEF CargoInv, CustodyIsCovered, ApprovalsWereInformed, CompletedWasConfirmed, Carried

------------------------------------------------------------------------------
(* Cargo: the trip *)

\* A change the checkpoint lets through finds what it promises, as long as the
\* pair is still the one that was cleared.
LEMMA MovedUnderApprovals ==
    ASSUME CargoInv, NEW to \in TripStatus, NEW pair \in Pairs,
           trip' = [status |-> to, pair |-> pair], UNCHANGED <<records, page>>,
           to \in Carried => CanDepart /\ pair = trip.pair,
           to = "Completed" => CanComplete
    PROVE  CargoInv'
<1>1. /\ UNCHANGED <<version, count, filed, review, clearance, page>>
      /\ trip'.status = to /\ trip'.pair = pair
      BY DEF records
<1>2. TypeOK'
      BY <1>1 DEF CargoInv, TypeOK
<1>3. InThePast' /\ Informed'
      BY <1>1 DEF CargoInv, InThePast, Informed
<1>4. CustodyIsCovered'
      BY <1>1 DEF CustodyIsCovered, CanDepart, CurrentDecision, Bound, Secure, Carried
<1>5. ApprovalsWereInformed'
      BY <1>1 DEF ApprovalsWereInformed, CanDepart, CurrentDecision, Bound, Secure, Carried,
                  CargoInv, Informed
<1>6. CompletedWasConfirmed'
      BY <1>1 DEF CompletedWasConfirmed, CanComplete, Confirmed, Chronological
<1>. QED BY <1>2, <1>3, <1>4, <1>5, <1>6 DEF CargoInv

LEMMA MoveKeepsInv ==
    ASSUME CargoInv, NEW to \in TripStatus, Move(to)
    PROVE  CargoInv'
<1>1. trip.pair \in Pairs /\ trip' = [status |-> to, pair |-> trip.pair]
      BY DEF Move, CargoInv, TypeOK
<1>2. Checkpoint(to, trip.pair) /\ UNCHANGED <<records, page>>
      BY DEF Move
<1>3. (to \in Carried => CanDepart) /\ (to = "Completed" => CanComplete)
      BY <1>2 DEF Checkpoint, Carried
<1>. QED BY <1>1, <1>2, <1>3, MovedUnderApprovals

\* A pair is exchanged only while nothing is counted, so a run that departs
\* with an edit keeps the pair that was cleared.
LEMMA EditKeepsInv ==
    ASSUME CargoInv, NEW to \in TripStatus \union {"Reassign"}, NEW pair \in Pairs,
           Edit(to, pair)
    PROVE  CargoInv'
<1>. DEFINE next == IF to = "Reassign" THEN trip.status ELSE to
<1>1. /\ Checkpoint(to, pair) /\ UNCHANGED <<records, page>>
      /\ trip' = [status |-> next, pair |-> pair]
      BY DEF Edit
<1>2. next \in TripStatus
      BY DEF CargoInv, TypeOK
<1>3. to = "Reassign" => next \notin Carried
      BY <1>1, PickupIsBefore DEF Checkpoint
<1>4. next \in Carried => CanDepart
      BY <1>1, <1>3 DEF Checkpoint, Carried
<1>5. CanDepart => count["PICKUP"] # 0
      BY DEF CanDepart, CurrentDecision
<1>6. next \in Carried => pair = trip.pair
      BY <1>1, <1>4, <1>5 DEF Checkpoint
<1>7. next = "Completed" => CanComplete
      BY <1>1, <1>3 DEF Checkpoint, Carried
<1>. QED BY <1>1, <1>2, <1>4, <1>6, <1>7, MovedUnderApprovals

LEMMA GroundKeepsInv ==
    ASSUME CargoInv, Ground
    PROVE  CargoInv'
<1>1. trip' = [status |-> "Cancelled", pair |-> trip.pair] /\ trip.pair \in Pairs
      BY DEF Ground, CargoInv, TypeOK
<1>2. UNCHANGED <<records, page>> /\ "Cancelled" \in TripStatus
      BY DEF Ground, TripStatus, TerminalTrip
<1>. QED BY <1>1, <1>2, PickupIsBefore, MovedUnderApprovals DEF Carried

LEMMA NextCargoInv == CargoInv /\ [Next]_vars => CargoInv'
<1>. SUFFICES ASSUME CargoInv, [Next]_vars PROVE CargoInv'
     OBVIOUS
<1>1. ASSUME NEW s \in Submissions, NEW stage \in Stages, Count(s, stage) PROVE CargoInv'
      BY <1>1, CountKeepsInv
<1>2. ASSUME NEW r \in Reviewers, Load(r) PROVE CargoInv'
      BY <1>2, LoadKeepsInv
<1>3. ASSUME NEW r \in Reviewers, NEW kind \in Kinds, NEW action \in Actions(kind),
             SubmitReview(r, kind, action)
      PROVE  CargoInv'
      BY <1>3, ReviewKeepsInv
<1>4. ASSUME NEW to \in TripStatus, Move(to) PROVE CargoInv'
      BY <1>4, MoveKeepsInv
<1>5. ASSUME NEW to \in TripStatus \union {"Reassign"}, NEW pair \in Pairs, Edit(to, pair)
      PROVE  CargoInv'
      BY <1>5, EditKeepsInv
<1>6. CASE Ground
      BY <1>6, GroundKeepsInv
<1>7. CASE UNCHANGED vars
      BY <1>7 DEF vars, CargoInv, TypeOK, InThePast, Informed, CustodyIsCovered,
                  ApprovalsWereInformed, CompletedWasConfirmed
<1>. QED BY <1>1, <1>2, <1>3, <1>4, <1>5, <1>6, <1>7 DEF Next

LEMMA CargoInvHolds == Spec => []CargoInv
BY InitCargoInv, NextCargoInv, PTL DEF Spec

------------------------------------------------------------------------------
(* Cargo: the theorems *)

\* Whatever the counts, reviews, retries and edits before, a run that carries
\* its cargo does so under the acceptance of the count in force and a
\* securement check of its own pair.
THEOREM CustodyIsCoveredHolds == Spec => []CustodyIsCovered
<1>1. CargoInv => CustodyIsCovered
      BY DEF CargoInv
<1>. QED BY <1>1, CargoInvHolds, PTL

\* No manager accepted or cleared a load that travels without having its count,
\* and the acceptance, on the page.
THEOREM ApprovalsWereInformedHolds == Spec => []ApprovalsWereInformed
<1>1. CargoInv => ApprovalsWereInformed
      BY DEF CargoInv
<1>. QED BY <1>1, CargoInvHolds, PTL

\* A completed run was counted at delivery last, and that count was accepted.
THEOREM CompletedWasConfirmedHolds == Spec => []CompletedWasConfirmed
<1>1. CargoInv => CompletedWasConfirmed
      BY DEF CargoInv
<1>. QED BY <1>1, CargoInvHolds, PTL

------------------------------------------------------------------------------
(* Sign-in *)

LEMMA LoginRuns == PartsSpec => Login!Spec
<1>1. PartsInit => Login!Init
      BY DEF PartsInit
<1>2. [PartsNext]_allVars => [Login!Next]_(Login!vars)
      BY DEF PartsNext, CargoStep, ScanStep, OdometerStep, LoginStep, QueueStep, MirrorStep, allVars,
             loginVars, odometerVars, queueVars, Login!vars
<1>. QED BY <1>1, <1>2, PTL DEF PartsSpec, Login!Spec

\* issueLoginChallenge retires before it mints: of all codes only the newest is live.
THEOREM ServicesOneLiveChallenge == PartsSpec => []OneLiveChallenge
<1>1. Login!Spec => []Login!OneLiveChallenge
      BY ServicesAssumption, Login!OneLiveChallengeHolds
<1>. QED BY <1>1, LoginRuns, PTL DEF OneLiveChallenge

\* verifyLoginChallenge consumes what it matches: a code proves one sign-in.
THEOREM ServicesCodesSignInOnce == PartsSpec => []CodesSignInOnce
<1>1. Login!Spec => []Login!CodesSignInOnce
      BY ServicesAssumption, Login!CodesSignInOnceHolds
<1>. QED BY <1>1, LoginRuns, PTL DEF CodesSignInOnce

\* The strike is charged outside of the transaction, and yet once for a code.
THEOREM ServicesOneStrikePerBurn == PartsSpec => []OneStrikePerBurn
<1>1. Login!Spec => []Login!OneStrikePerBurn
      BY ServicesAssumption, Login!OneStrikePerBurnHolds
<1>. QED BY <1>1, LoginRuns, PTL DEF OneStrikePerBurn

\* A resend leaves the code an administrator has read out.
THEOREM ServicesEmergencyCodeNotRetired == PartsSpec => []EmergencyCodeNotRetired
<1>1. Login!Spec => []Login!EmergencyCodeNotRetired
      BY ServicesAssumption, Login!EmergencyCodeNotRetiredHolds
<1>. QED BY <1>1, LoginRuns, PTL DEF EmergencyCodeNotRetired

------------------------------------------------------------------------------
(* The driver's app *)

\* The two instances work on the same rows, as those of the odometer do: the one
\* that follows the reports runs unless the behaviour is one of the other.
LEMMA QueueRuns == PartsSpec /\ part # "mirror" => Queue!Spec
<1>1. PartsInit /\ part # "mirror" => Queue!Init
      BY DEF PartsInit
<1>2. part # "mirror" /\ [PartsNext]_allVars
        => (part # "mirror")' /\ [Queue!Next]_(Queue!vars)
      BY DEF PartsNext, CargoStep, ScanStep, OdometerStep, LoginStep, QueueStep, MirrorStep, allVars,
             loginVars, odometerVars, queueVars, Queue!vars, Queue!memory, Queue!history
<1>. QED BY <1>1, <1>2, PTL DEF PartsSpec, Queue!Spec

LEMMA MirrorRuns == PartsSpec /\ part = "mirror" => Mirror!Spec /\ [](part = "mirror")
<1>1. PartsInit => Queue!Init
      BY DEF PartsInit
<1>2. Queue!Init => Mirror!Init
      BY DEF Queue!Init, Mirror!Init, Queue!Actions, Mirror!Actions, Queue!NoPut, Mirror!NoPut,
             Queue!NoDrain, Mirror!NoDrain, Queue!NoRetry, Mirror!NoRetry
<1>3. part = "mirror" /\ [PartsNext]_allVars
        => (part = "mirror")' /\ [Mirror!Next]_(Mirror!vars)
      BY DEF PartsNext, CargoStep, ScanStep, OdometerStep, LoginStep, QueueStep, MirrorStep, allVars,
             loginVars, odometerVars, queueVars, Mirror!vars, Mirror!memory, Mirror!history
<1>. QED BY <1>1, <1>2, <1>3, PTL DEF PartsSpec, Mirror!Spec

\* A write that was not made from the stored array, or a dead letter that could not
\* be written: nothing else loses a stored incident report.
THEOREM ServicesLostOnlyByStaleOrFailedWrite == PartsSpec => []LostOnlyByStaleOrFailedWrite
<1>1. Queue!Spec => []Queue!LostOnlyByStaleOrFailedWrite
      BY ServicesAssumption, Queue!LostOnlyByStaleOrFailedWriteHolds
<1>2. Queue!LostOnlyByStaleOrFailedWrite => LostOnlyByStaleOrFailedWrite
      BY DEF LostOnlyByStaleOrFailedWrite
<1>3. part = "mirror" => LostOnlyByStaleOrFailedWrite
      BY DEF LostOnlyByStaleOrFailedWrite
<1>4. part = "mirror" \/ part # "mirror"
      OBVIOUS
<1>. QED BY <1>1, <1>2, <1>3, <1>4, QueueRuns, MirrorRuns, PTL

\* Work is hidden only while a call is under way that counts it, or after a count
\* that failed or came late.
THEOREM ServicesHiddenWorkIsRecounted == PartsSpec => []HiddenWorkIsRecounted
<1>1. Mirror!Spec => []Mirror!HiddenWorkIsRecounted
      BY ServicesAssumption, Mirror!HiddenWorkIsRecountedHolds
<1>2. Mirror!HiddenWorkIsRecounted => HiddenWorkIsRecounted
      BY DEF HiddenWorkIsRecounted
<1>3. part # "mirror" => HiddenWorkIsRecounted
      BY DEF HiddenWorkIsRecounted
<1>4. part # "mirror" /\ [PartsNext]_allVars => (part # "mirror")'
      BY DEF PartsNext, CargoStep, ScanStep, OdometerStep, LoginStep, QueueStep, MirrorStep, allVars
<1>5. part = "mirror" \/ part # "mirror"
      OBVIOUS
<1>. QED BY <1>1, <1>2, <1>3, <1>4, <1>5, MirrorRuns, PTL DEF PartsSpec

------------------------------------------------------------------------------
(* Odometer readings *)

\* The two instances work on the same rows: the smaller one runs unless the
\* behaviour is one of the larger.
LEMMA ScanRuns == PartsSpec /\ part # "odometer" => Scan!Spec
<1>1. PartsInit /\ part # "odometer" => Scan!Init
      BY DEF PartsInit
<1>2. part # "odometer" /\ [PartsNext]_allVars
        => (part # "odometer")' /\ [Scan!Next]_(Scan!vars)
      BY DEF PartsNext, CargoStep, ScanStep, OdometerStep, LoginStep, QueueStep, MirrorStep, allVars,
             loginVars, odometerVars, queueVars, Scan!vars
<1>. QED BY <1>1, <1>2, PTL DEF PartsSpec, Scan!Spec

LEMMA OdometerRuns ==
    PartsSpec /\ part = "odometer" => Odometer!Spec /\ [](part = "odometer")
<1>1. PartsInit /\ part = "odometer" => Odometer!Init
      BY DEF PartsInit
<1>2. part = "odometer" /\ [PartsNext]_allVars
        => (part = "odometer")' /\ [Odometer!Next]_(Odometer!vars)
      BY DEF PartsNext, CargoStep, ScanStep, OdometerStep, LoginStep, QueueStep, MirrorStep, allVars,
             loginVars, odometerVars, queueVars, Odometer!vars
<1>. QED BY <1>1, <1>2, PTL DEF PartsSpec, Odometer!Spec

\* Leases and attempt numbers keep the scanners of a photo apart.
THEOREM ServicesOneScanAtATime == PartsSpec => []OneScanAtATime
<1>1. Scan!Spec => []Scan!OneScanAtATime
      BY ServicesAssumption, Scan!OneScanAtATimeHolds
<1>2. Scan!OneScanAtATime => OneScanAtATime
      BY DEF OneScanAtATime
<1>3. part = "odometer" => OneScanAtATime
      BY DEF OneScanAtATime
<1>4. part = "odometer" \/ part # "odometer"
      OBVIOUS
<1>. QED BY <1>1, <1>2, <1>3, <1>4, ScanRuns, OdometerRuns, PTL

\* The photos, the readings and the mileage of a completed trip agree.
THEOREM ServicesPhotoTripAddsUp == PartsSpec => []PhotoTripAddsUp
<1>1. Odometer!Spec => []Odometer!PhotoTripAddsUp
      BY ServicesAssumption, Odometer!PhotoTripAddsUpHolds
<1>2. Odometer!PhotoTripAddsUp => PhotoTripAddsUp
      BY DEF PhotoTripAddsUp
<1>3. part # "odometer" => PhotoTripAddsUp
      BY DEF PhotoTripAddsUp
<1>4. part # "odometer" /\ [PartsNext]_allVars => (part # "odometer")'
      BY DEF PartsNext, CargoStep, ScanStep, OdometerStep, LoginStep, QueueStep, MirrorStep, allVars
<1>5. part = "odometer" \/ part # "odometer"
      OBVIOUS
<1>. QED BY <1>1, <1>2, <1>3, <1>4, <1>5, OdometerRuns, PTL DEF PartsSpec

\* A reading that was shown only changes hands by its commit; a photo of the
\* smaller instance is one of the larger.
THEOREM ServicesShownReadingKept == PartsSpec => ShownReadingKept
<1>. DEFINE Kept(c) == cap[c].state \in {"ready", "committed"} =>
                         /\ cap'[c].reading = cap[c].reading
                         /\ cap'[c].state \in {cap[c].state, "committed"}
<1>1. Scan!Spec => [][\A c \in {1} : Kept(c)]_(Scan!vars)
      BY ServicesAssumption, Scan!ShownReadingKeptHolds DEF Scan!ShownReadingKept
<1>2. Odometer!Spec => [][\A c \in {1, 2} : Kept(c)]_(Odometer!vars)
      BY ServicesAssumption, Odometer!ShownReadingKeptHolds DEF Odometer!ShownReadingKept
<1>3. [\A c \in {1, 2} : Kept(c)]_(Odometer!vars) => [\A c \in {1} : Kept(c)]_(Scan!vars)
      BY DEF Odometer!vars, Scan!vars
<1>4. PartsSpec => [][\A c \in {1} : Kept(c)]_(Scan!vars)
  <2>1. part = "odometer" \/ part # "odometer"
        OBVIOUS
  <2>. QED BY <1>1, <1>2, <1>3, <2>1, ScanRuns, OdometerRuns, PTL
<1>. QED BY <1>4 DEF ShownReadingKept, Scan!ShownReadingKept

------------------------------------------------------------------------------
(* Types *)

\* The custody of cargo runs as its specification says, whichever part moves.
LEMMA CargoRuns == PartsSpec => Spec
<1>1. PartsInit => Init
      BY DEF PartsInit
<1>2. [PartsNext]_allVars => [Next]_vars
      BY DEF PartsNext, CargoStep, ScanStep, OdometerStep, LoginStep, QueueStep, MirrorStep, allVars
<1>. QED BY <1>1, <1>2, PTL DEF PartsSpec, Spec

\* The component that moves stays in its types.
THEOREM ServicesTypeCorrect == PartsSpec => []PartsTypeOK
<1>. DEFINE Parts == {"cargo", "scan", "odometer", "login", "queue", "mirror"}
            CargoOK == TypeOK
            OdometerOK == part = "odometer" => Odometer!TypeOK
            ScanOK == part # "odometer" => Scan!TypeOK
            MirrorOK == part = "mirror" => Mirror!TypeOK
            QueueOK == part # "mirror" => Queue!TypeOK
<1>1. PartsSpec => [](part \in Parts)
  <2>1. PartsInit => part \in Parts
        BY DEF PartsInit
  <2>2. part \in Parts /\ [PartsNext]_allVars => (part \in Parts)'
        BY DEF PartsNext, CargoStep, ScanStep, OdometerStep, LoginStep, QueueStep, MirrorStep, allVars
  <2>. QED BY <2>1, <2>2, PTL DEF PartsSpec
<1>2. PartsSpec => []CargoOK
  <2>1. CargoInv => TypeOK
        BY DEF CargoInv
  <2>. QED BY <2>1, CargoRuns, CargoInvHolds, PTL
<1>3. PartsSpec => []Login!TypeOK
  <2>1. Login!Spec => []Login!TypeOK
        BY ServicesAssumption, Login!LoginTypeCorrect
  <2>. QED BY <2>1, LoginRuns, PTL
<1>4. PartsSpec => []OdometerOK /\ []ScanOK
  <2>1. Scan!Spec => []Scan!TypeOK
        BY ServicesAssumption, Scan!OdometerTypeCorrect
  <2>2. Odometer!Spec => []Odometer!TypeOK
        BY ServicesAssumption, Odometer!OdometerTypeCorrect
  <2>3. part # "odometer" /\ [PartsNext]_allVars => (part # "odometer")'
        BY DEF PartsNext, CargoStep, ScanStep, OdometerStep, LoginStep, QueueStep, MirrorStep, allVars
  <2>4. part = "odometer" \/ part # "odometer"
        OBVIOUS
  <2>5. (Scan!TypeOK => ScanOK) /\ (Odometer!TypeOK => OdometerOK)
        /\ (part = "odometer" => ScanOK) /\ (part # "odometer" => OdometerOK)
        OBVIOUS
  <2>. HIDE DEF ScanOK, OdometerOK
  <2>. QED BY <2>1, <2>2, <2>3, <2>4, <2>5, ScanRuns, OdometerRuns, PTL DEF PartsSpec
<1>5. PartsSpec => []MirrorOK /\ []QueueOK
  <2>1. Queue!Spec => []Queue!TypeOK
        BY ServicesAssumption, Queue!QueueTypeCorrect
  <2>2. Mirror!Spec => []Mirror!TypeOK
        BY ServicesAssumption, Mirror!QueueTypeCorrect
  <2>3. part # "mirror" /\ [PartsNext]_allVars => (part # "mirror")'
        BY DEF PartsNext, CargoStep, ScanStep, OdometerStep, LoginStep, QueueStep, MirrorStep, allVars
  <2>4. part = "mirror" \/ part # "mirror"
        OBVIOUS
  <2>5. (Queue!TypeOK => QueueOK) /\ (Mirror!TypeOK => MirrorOK)
        /\ (part = "mirror" => QueueOK) /\ (part # "mirror" => MirrorOK)
        OBVIOUS
  <2>. HIDE DEF QueueOK, MirrorOK
  <2>. QED BY <2>1, <2>2, <2>3, <2>4, <2>5, QueueRuns, MirrorRuns, PTL DEF PartsSpec
<1>6. part \in Parts /\ CargoOK /\ Login!TypeOK /\ MirrorOK /\ QueueOK /\ OdometerOK /\ ScanOK
        => PartsTypeOK
      BY DEF PartsTypeOK
<1>. QED BY <1>1, <1>2, <1>3, <1>4, <1>5, <1>6, PTL
=============================================================================

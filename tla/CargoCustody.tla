--------------------------- MODULE CargoCustody ---------------------------
(***************************************************************************)
(* The custody of the cargo of one internal run: the driver counts it at   *)
(* pickup and at delivery, managers review the counts, and every change of *)
(* the trip passes a checkpoint that reads the reviews.  Each operation is *)
(* one transaction under the locks of trip and execution; what interleaves *)
(* is what the people had loaded when they pressed the button, and the     *)
(* retries of the driver's app.  Counts and reviews are named by the       *)
(* execution version that recorded them.                                   *)
(***************************************************************************)
EXTENDS FleetStatus

CONSTANTS
    Pairs,         \* <<driver, vehicle>> combinations the trip can be given
    Reviewers,     \* managers with the cargo page open
    Submissions,   \* submission ids of the driver's app
    MaxVersion     \* bound: the execution's version

ASSUME CargoAssumption == MaxVersion \in Nat \ {0} /\ Pairs # {}

VARIABLES
    trip,        \* [status, pair]
    version,     \* cargo_trip_executions.version
    count,       \* the latest receipt of each stage, 0: none
    filed,       \* the receipt a submission was recorded as, 0: not yet
    review,      \* the latest review of each kind
    clearance,   \* the latest fleet clearance
    page         \* the version each reviewer has on the screen

vars == <<trip, version, count, filed, review, clearance, page>>
records == <<version, count, filed, review, clearance>>

Versions == 1..MaxVersion
Ids == 0..MaxVersion
None == "none"

Kinds == {"SOURCE", "SECUREMENT", "RECEIVER"}
Actions(kind) ==
    CASE kind = "SOURCE" -> {"ACCEPT_OBSERVED", "WAIT", "REJECT_PICKUP"}
      [] kind = "SECUREMENT" -> {"CLEAR", "WAIT"}
      [] kind = "RECEIVER" -> {"ACCEPT_DELIVERY", "WAIT"}
AllActions == UNION { Actions(kind) : kind \in Kinds }

Stages == {"PICKUP", "DELIVERY"}
StageOf(kind) == IF kind = "RECEIVER" THEN "DELIVERY" ELSE "PICKUP"

\* The trip statuses in which each stage is counted and reviewed
BeforeCustody == {"Trip Started", "At Pickup"}
AtDelivery == {"Drop-off", "Arrived"}
Window(stage) == IF stage = "PICKUP" THEN BeforeCustody ELSE AtDelivery

Onboard == {"Passenger Onboard", "En Route", "In Progress", "Drop-off", "Arrived"}
PreStart == LegacyTrip \union {"Assigned", "Driver Accepted"}

NoReview == [receipt |-> 0, action |-> "WAIT", at |-> 0, seen |-> 0, pair |-> None]
NoClearance == [receipt |-> 0, decision |-> 0, at |-> 0]

TypeOK ==
    /\ trip \in [status: TripStatus, pair: Pairs]
    /\ version \in Versions
    /\ count \in [Stages -> 0..version]
    /\ filed \in [Submissions -> 0..version]
    /\ review \in [Kinds -> [receipt: Ids, action: AllActions, at: Ids, seen: Ids,
                             pair: Pairs \union {None}]]
    /\ \A kind \in Kinds : review[kind].action \in Actions(kind)
    /\ clearance \in [receipt: Ids, decision: Ids, at: Ids]
    /\ page \in [Reviewers -> 1..version]

Init ==
    /\ trip \in [status: {"Assigned"}, pair: Pairs]
    /\ version = 1
    /\ count = [s \in Stages |-> 0]
    /\ filed = [s \in Submissions |-> 0]
    /\ review = [kind \in Kinds |-> NoReview]
    /\ clearance = NoClearance
    /\ page = [r \in Reviewers |-> 1]

------------------------------------------------------------------------------
(* What the records say of the cargo (deriveCargoState) *)

\* The decision belongs to the current pickup count.
CurrentDecision(action) ==
    /\ count["PICKUP"] # 0 /\ review["SOURCE"].receipt = count["PICKUP"]
    /\ review["SOURCE"].action = action

\* The clearance was given to that decision on that count.
Bound ==
    /\ clearance.receipt = count["PICKUP"] /\ clearance.decision = review["SOURCE"].at
    /\ clearance.at > review["SOURCE"].at

\* The clearance still is the latest securement review, and of this pair.
Secure ==
    /\ review["SECUREMENT"].receipt = count["PICKUP"] /\ review["SECUREMENT"].action = "CLEAR"
    /\ review["SECUREMENT"].at = clearance.at
    /\ review["SECUREMENT"].pair = trip.pair

CanDepart == CurrentDecision("ACCEPT_OBSERVED") /\ Bound /\ Secure

Confirmed ==
    /\ count["DELIVERY"] # 0 /\ review["RECEIVER"].receipt = count["DELIVERY"]
    /\ review["RECEIVER"].action = "ACCEPT_DELIVERY"

Chronological ==
    \A v \in {count["PICKUP"], review["SOURCE"].at, clearance.at} : count["DELIVERY"] > v

\* Fault: a delivery, once accepted, stays accepted when it is counted again.
CanCompleteOnce ==
    /\ CanDepart /\ Chronological /\ count["DELIVERY"] # 0
    /\ review["RECEIVER"].action = "ACCEPT_DELIVERY"

CanComplete == CanDepart /\ Confirmed /\ Chronological

------------------------------------------------------------------------------
(* Counts and reviews *)

\* Fault: the receipt is filed and the execution keeps its version.
CountUnversioned(s, stage) ==
    /\ filed[s] = 0 /\ trip.status \in Window(stage)
    /\ stage = "DELIVERY" => CanDepart
    /\ count' = [count EXCEPT ![stage] = version + 1]
    /\ filed' = [filed EXCEPT ![s] = version + 1]
    /\ UNCHANGED <<trip, version, review, clearance, page>>

\* submitCargoReceipt; a submission that was recorded is answered from the
\* stored response.
Count(s, stage) ==
    /\ filed[s] = 0
    /\ version < MaxVersion /\ trip.status \in Window(stage)
    /\ stage = "DELIVERY" => CanDepart
    /\ version' = version + 1
    /\ count' = [count EXCEPT ![stage] = version + 1]
    /\ filed' = [filed EXCEPT ![s] = version + 1]
    /\ UNCHANGED <<trip, review, clearance, page>>

\* GET of the execution: a manager's page shows the records as they are now.
Load(r) ==
    /\ page[r] # version
    /\ page' = [page EXCEPT ![r] = version]
    /\ UNCHANGED <<trip, records>>

\* The review and, for a securement that clears, the clearance it gives.
Record(r, kind, action) ==
    /\ version' = version + 1
    /\ review' = [review EXCEPT ![kind] =
                     [receipt |-> count[StageOf(kind)], action |-> action,
                      at |-> version + 1, seen |-> page[r], pair |-> trip.pair]]
    /\ clearance' = IF action = "CLEAR"
                    THEN [receipt |-> count["PICKUP"], decision |-> review["SOURCE"].at,
                          at |-> version + 1]
                    ELSE clearance
    /\ UNCHANGED <<trip, count, filed, page>>

\* What a review needs of the records it finds.
Founded(kind, action) ==
    /\ count[StageOf(kind)] # 0
    /\ action = "CLEAR" => CurrentDecision("ACCEPT_OBSERVED")
    /\ kind = "RECEIVER" => CanDepart

\* Fault: the page need not be current, only its count.
ReviewFromOldPage(r, kind, action) ==
    /\ version < MaxVersion /\ page[r] >= count[StageOf(kind)]
    /\ trip.status \in Window(StageOf(kind)) /\ Founded(kind, action)
    /\ Record(r, kind, action)

\* Fault: reviews are taken at any stage of the trip.
ReviewAnyTime(r, kind, action) ==
    /\ version < MaxVersion /\ page[r] = version /\ Founded(kind, action)
    /\ Record(r, kind, action)

\* reviewInternalCargo: the version and the count on the page must be current.
SubmitReview(r, kind, action) ==
    /\ version < MaxVersion /\ page[r] = version
    /\ trip.status \in Window(StageOf(kind)) /\ Founded(kind, action)
    /\ Record(r, kind, action)

------------------------------------------------------------------------------
(* The trip *)

\* checkpoint: `to` is the status asked for, or Reassign; `pair` the pair.
Checkpoint(to, pair) ==
    /\ (to \in {"Reassign", "Cancelled"} \/ pair # trip.pair) =>
          /\ count["PICKUP"] = 0 /\ clearance = NoClearance
          /\ trip.status \in PreStart \union BeforeCustody
    /\ to \notin {"Reassign", "Completed"} => CanTransitionTrip(trip.status, to)
    /\ to \in Onboard \union {"Completed"} => CanDepart
    /\ to \in {"Arrived", "Completed"} => CanComplete

\* setTripStatus, start, accept, cancelTrip, completeTrip, and the stand-down of
\* dispatch or request: the handler's own gate, then the checkpoint.
Move(to) ==
    /\ trip.status \notin TerminalTrip /\ to # trip.status
    /\ Checkpoint(to, trip.pair)
    /\ trip' = [trip EXCEPT !.status = to]
    /\ UNCHANGED <<records, page>>

\* The edit of the trip's row by an administrator
Edit(to, pair) ==
    /\ Checkpoint(to, pair)
    /\ trip' = [status |-> IF to = "Reassign" THEN trip.status ELSE to, pair |-> pair]
    /\ UNCHANGED <<records, page>>

\* groundIncident aborts the run without asking the checkpoint.
Ground ==
    /\ trip.status \notin TerminalTrip
    /\ trip' = [trip EXCEPT !.status = "Cancelled"]
    /\ UNCHANGED <<records, page>>

Next ==
    \/ \E s \in Submissions, stage \in Stages : Count(s, stage)
    \/ \E r \in Reviewers : Load(r)
    \/ \E r \in Reviewers, kind \in Kinds : \E action \in Actions(kind) :
          SubmitReview(r, kind, action)
    \/ \E to \in TripStatus : Move(to)
    \/ \E to \in TripStatus \union {"Reassign"}, pair \in Pairs : Edit(to, pair)
    \/ Ground

Spec == Init /\ [][Next]_vars

------------------------------------------------------------------------------
(* Properties *)

\* Cargo travels, and a run completes, only under the acceptance of the count in
\* force, a clearance given to that acceptance, and a securement check of the
\* very driver and vehicle that carry it, none of them withdrawn since.
CustodyIsCovered ==
    trip.status \in Onboard \union {"Completed"} =>
        /\ review["SOURCE"].receipt = count["PICKUP"]
        /\ review["SOURCE"].action = "ACCEPT_OBSERVED"
        /\ clearance.receipt = count["PICKUP"] /\ clearance.decision = review["SOURCE"].at
        /\ review["SECUREMENT"].at = clearance.at /\ review["SECUREMENT"].pair = trip.pair

\* Nobody approved blindly: whoever cleared a load that travels had the
\* acceptance on the page, and whoever accepted it had the count on the page.
ApprovalsWereInformed ==
    trip.status \in Onboard \union {"Completed"} =>
        /\ review["SOURCE"].seen >= count["PICKUP"]
        /\ review["SECUREMENT"].seen >= review["SOURCE"].at

\* A completed run was counted at delivery after everything that was decided at
\* pickup, and the receiver's review accepts the last of those counts.
CompletedWasConfirmed ==
    trip.status = "Completed" =>
        /\ review["RECEIVER"].receipt = count["DELIVERY"]
        /\ review["RECEIVER"].action = "ACCEPT_DELIVERY"
        /\ count["DELIVERY"] > clearance.at
=============================================================================

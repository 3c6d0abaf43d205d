# Fleet transport: a verification project

The program is a fleet transportation system: hotels and an internal desk send
transportation requests, dispatchers give each one a vehicle and a driver,
drivers walk the trip in a mobile app, and Booking is told what happens. It runs
as serverless API handlers over PostgreSQL. Handlers interleave at every
statement and may be killed at any of them. The questions worth a model are
about the three tables that several handlers write (`transportation_requests`,
`dispatchschedules`, `trips`), and about the services whose promises rest on
versions, leases, attempts, retries and queues.

This directory holds TLA+ modules translated from that code, TLC
configurations, and proofs checked by TLAPS. `PROJECT.json` says which lines each
definition models.

## Inventory

| Component | State | Operations | What makes it correct |
|---|---|---|---|
| Status machines (`lib/scheduling/{reservation,dispatch,trip}-state.js`) | none | adjacency gates, `transitionPath` | the search returns a shortest legal walk; gates and search agree |
| Reservation lifecycle (`reservation-lifecycle.service.js`, assign / cancel / reschedule routes) | `fleet_status`, committed pair, window | walk a request hop by hop, assign, cancel, reschedule | legal history; terminal statuses locked; no pair for a closed request |
| Dispatch board (`api/dispatch`, `transition.service.js`, `dispatch-autocreate.service.js`) | `dispatchschedules` | create, reuse, reassign, stand down | one dispatch per request; terminal dispatches locked; nobody double-booked |
| Evidence and conflicts (`dispatch-evidence`, `recommendation`, `conflicts.js`) | a revision token in the handler's memory | screen a pair, commit only if nothing changed | no commit on a stale check |
| Overlap trigger (`schema.sql`, `guard_dispatch_overlap`) | advisory locks, table and row locks | refuse an overlapping live dispatch | a scan still holds when the row becomes visible; no transaction waits for ever |
| Trip lifecycle (`trip-lifecycle.service.js`, `api/trips`, mobile accept) | `trips` | accept, decline, start, step, complete, cancel, edit | trip, dispatch and request complete together; cancelled trips stay so |
| `ensureTripForDispatch` (`status.service.js`) | `trips` | look, insert | a live dispatch has a trip |
| Grounding (`lib/incidents/grounding.js`) and leave (`driver-schedule.service.js`) | all three tables | pull dispatches back | the request can be served again |
| Outbound delivery (`outbound.service.js`, cron) | `integration_log` | emit, mark, reconcile | nothing is dropped silently; one hopeless row does not starve the others |
| Login challenges (`lib/auth/email-otp.js`, `account-lockout.js`) | `email_otp_challenges`, recovery codes, a counter | issue, verify, strike, clear | single use, bounded attempts, one strike per burned code |
| Cargo custody (`cargo-execution.core.js`, `.service.js`, `.repository.js`) | execution version, receipts, reviews, clearances | count, review, checkpoint | cargo travels only under the approvals in force |
| Odometer photos (`trip-odometer.service.js`) | captures with a lease, trip readings, mileage | upload, scan, commit, gate edits | one scan at a time; a shown reading counts; photos and trip agree |
| Mobile offline queue (`src/mobile/lib/sync.js`) | two arrays in AsyncStorage, a mirror of the queue's length and flags in memory | enqueue, drain, count, quarantine, retry, discard | incidents are not dropped; pending work is not hidden |
| Push outbox, sessions, supply shipments | rows | send once, check on each request, allocate | see Not modelled |
| Ingest, geofence, planning, maintenance, incidents after grounding, fuel, coding policy, documents, user interface | | | see Not modelled |

**Interaction.** A handler reads rows on the pool, checks, then writes. Some
writes are transactions that take the fleet write locks
(`commitDispatchEvidence`, `prepareCargoLifecycle`) or lock the rows they gate on;
others are single statements that name a row by id only. Whatever writes
`dispatchschedules` fires the trigger, which takes advisory locks behind the
locks the transaction already holds. After a transaction a
handler goes on with best-effort steps: the request is advanced, the dispatch is
synced, a missing trip is inserted, Booking is told. Trips pass the cargo
checkpoint and the odometer gate before they move; the driver's app replays what
it could not send. The hard behaviours live between the steps: a read that is
stale when it is used, a late best-effort write, a handler that stops after its
transaction, a retry that returns early, a lease that runs out before the answer
arrives, and sequences of legal calls (assign, stand down, assign).

## Modules

| Module | Models | Extends |
|---|---|---|
| `FleetStatus` | the three vocabularies, adjacency and gates, and `TransitionPath` as a shortest legal walk | |
| `TransitionSearch` | the breadth first search of `transitionPath`, one loop turn per step | `FleetStatus` |
| `ReservationMachine` | abstract specification: each request moves along the adjacency map | `FleetStatus` |
| `FleetLifecycle` | the three tables, the workers and every handler | `FleetStatus` |
| `GuardedBoard` | abstract specification: rows change one at a time and pass the overlap guard at that moment | `FleetStatus` |
| `DispatchGuard` | the trigger and the lock footprint of each handler, lock by lock | `GuardedBoard` |
| `OutboundDelivery` | status events, the gateway, the reconcile cron | |
| `CargoCustody` | counts, reviews, clearances and the checkpoint of one internal run | `FleetStatus` |
| `OdometerCapture` | the photos of one trip, its readings and the vehicle's mileage | |
| `LoginChallenge` | the second factor of one account | |
| `OfflineQueue` | the app's outbox and its dead letters | |
| `MCFleetLifecycle`, `MCDispatchGuard` | instances for TLC; the refinement of `ReservationMachine` | the module they name |
| `MCBoardAndEdits` | three instances of `FleetLifecycle` that serve different handlers | `MCFleetLifecycle` |
| `MCProgress` | delivery, search and trigger in one run: what has to end | `OutboundDelivery` |
| `MCServices` | cargo, odometer, login and queue in one run; odometer and queue in two instances each | `CargoCustody` |
| `FleetLifecycleProofs`, `DispatchGuardProofs`, `OdometerProofs`, `LoginProofs`, `QueueProofs` | theorems | the module they are about, `TLAPS` |
| `ProgressProofs` | delivery and the search, in the composition that TLC checks | `MCProgress`, `TLAPS` |
| `OneAtATimeProofs` | what holds while handlers run one at a time, with the refinement of `ReservationMachine` | `MCFleetLifecycle`, `FleetLifecycleProofs` |
| `ServicesProofs` | custody; the theorems of the services in the composition that TLC checks | `MCServices`, `TLAPS` |

Definitions marked `Fault` are wrong variants of the definition below them, kept
to show that each property notices a plausible bug; no specification uses them.

### FleetLifecycle

`request`, `dispatch` and `trip` are the tables, reduced to status, links, pair and
window. `job[w]` is what worker `w` (one invocation) is in the middle of: its
handler, the step it is at, and the values it read. A handler begins with its
first read and gate (`Assign`, `StandDown`, `Start`, ...); each further action is
one statement on the pool or one transaction:

| Handler | Steps |
|---|---|
| assign | `Assign`, `Screen`, `Gate`, `Evidence`, `Load`, `Hop`*, `CommitAssign`, `EnsureTrip`, `InsertTrip` |
| create | `Create`, `Gate`, `Evidence`, `CommitCreate`, `EnsureTrip`, `InsertTrip`, `Load`, `Hop`* |
| reassign | `Reassign`, `Gate`, `Evidence`, `CommitReassign`, then `FlipRead`, `Flip` out of Pending Reassignment, `EnsureTrip`, `InsertTrip` |
| stand down | `StandDown`, `StandDownTx` |
| cancel request, leave, mobile accept, trip edit | one transaction each: `CancelRequest`, `ApproveLeave`, `MobileAccept`, `EditTrip` |
| status step | `TripStep`, `TripTx`, `Busy`, `Load`, `Hop`* |
| decline | `Decline`, `DeclineWrite` |
| start | `Start`, `Gate`, `Evidence`, `StartTx`, `Load`, `Hop`* |
| complete | `Complete`, `Load`, `Hop`* |
| cancel trip | `CancelTrip`, `CancelTripTx`, `Load`, `Hop`* |
| grounding | `Ground`, then `GroundNext` or `FlipRead`, `Flip` for each dispatch |
| reschedule | `Reschedule`, `RescheduleWrite` |

`Screen` is the departure check of the assign route: a probe on the pool over the point
in time the request departs, which refuses a pair it finds taken and, when it fails,
finds nothing. `Evidence` screens the whole window, for every handler that has it, and
takes the token. `Refused` is a commit the evidence check or the trigger turns down, and `Crash` is
an invocation that stops between two steps. The revision hash is kept as the set
of rows it hashes, with Pending and Scheduled collapsed as the query does
(`View`); custody, licence, coding, travel and capacity rules are the constant
`Pairs` together with `Refused`. The revision of the code also hashes columns the
model does not have, so the model lets through every commit the code does, and
some more.

### DispatchGuard

Here a transaction is opened up. `tx[t]` holds what transaction `t` does, the locks
it has and the ones it still has to take: `Footprint` lists, for each handler, its
`LOCK TABLE`, `FOR UPDATE`, `INSERT` and `UPDATE` statements in the order of the code.
Then the trigger locks the vehicle's key, scans the committed rows, locks the
driver's key and scans again; the row becomes visible at `Commit`. `LockKey` is
`hashtext`, which may send two ids to one key. Waiting, deadlock and the detector
that rolls one transaction back are PostgreSQL's and marked external.
`FleetLifecycle` uses the guard as one atomic step; `GuardIsAtomic` is the reason it
may.

### The services

- `OutboundDelivery`: `Emit` writes the row, `Send` is the gateway call (received,
  received with its answer lost, not received), `Mark` and `Fail` are the two
  updates, both unconditional on the row's status. `Reconcile` reads the oldest
  `Limit` undelivered rows and claims none. `Poison` rows are refused for ever.
- `CargoCustody`: receipts and reviews are named by the execution version that
  recorded them. `Count`, `SubmitReview`, `Move` and `Edit` are the transactions; what
  interleaves is `page`, the version a manager had loaded, and late submissions.
  `Checkpoint` is the function of that name; `Ground` bypasses it, as the code does.
- `OdometerCapture`: `Claim` takes a lease and an attempt number, `Network` is the
  slow reading service, `Finish` writes only under its own claim, `LeaseEnds` lets
  another scanner take over. Starts and completions commit a photo, or a typed
  reading where the code allows one; `Edit` is the generic gate on a trip's row.
- `LoginChallenge`: each call peeks at the freeze, runs one transaction and settles
  the counter outside of it. A verification locks the live challenge or, when it
  waited for one that was consumed meanwhile, finds none.
- `OfflineQueue`: whatever runs behind an await is a step of its own, the write of the
  mirror (`knownPendingCount`) before or after the array's included, and each read and
  write of AsyncStorage may fail where it stands: a queue that cannot be read ends the
  drain, a dead letter that cannot be written is swallowed, a list of dead letters that
  cannot be read is taken for an empty one and written back. `Kill` forgets what is in memory.
  `settled` is history: what the server has or the driver discarded. So are `slipped`, which
  is set by the write of an array that was not made from the stored one and by a dead
  letter that could not be written, and `missed`, set by a count that failed or came late.

## Runs

| Run | Configuration | Shows |
|---|---|---|
| `one_at_a_time` | 1 worker, 2 requests, 2 overlapping windows, no crash, fair | trip and dispatch complete together; request and dispatch run together; a closed request holds nobody; terminal rows are locked; the request refines `ReservationMachine`; completion reaches the request |
| `racing` | 2 workers with crashes, 1 request, 2 pairs, 2 dispatches, 1 trip | types; a Completed request had a trip that ended; one dispatch per request; cancelled trips stay cancelled; an assignment overtaken by one other handler, not a grounding, commits no pair to a closed request |
| `board_and_edits` | 1 request, and one of: 1 worker, 3 windows, 2 dispatches and trips and every handler but the edit; 2 workers racing for 1 pair, 2 dispatches and trips, the handlers that raise, walk and end them; 2 workers, 1 trip, odometer photos on and any status by hand | nobody is double-booked; cancelled trips stay cancelled |
| `dispatch_guard` | 2 transactions, 2 vehicles that share a driver, 2 dispatches, 1 window | types; the trigger implements the atomic guard; nobody is held twice; only grounding can close a cycle of waits |
| `progress` | 2 emitters, 1 retrier, 3 events of which one is never taken, 1 stop, batches of 2; all 36 pairs of request statuses; 2 transactions on one dispatch | a delivered row was heard, every healthy event is heard; the search ends with exactly `TransitionPath` and agrees with the gate; every transaction ends |
| `services` | cargo: 2 pairs, 1 reviewer, 3 submissions, 7 versions; odometer: 2 scanners on 1 photo, and 2 photos of a trip; login: 2 calls, 2 codes, 2 attempts; queue: 2 drains or counts, 2 actions of which one or none is a report, bound 1 | custody, confirmation and informed approval; one scan at a time; readings add up and are kept; one live code, single use, one strike per burned code; reports lost only by a stale or failed write; hidden work is counted again |
| `trip_cancel_race`, `late_busy_write`, `stale_hop`, `reassign_after_stand_down`, `completion_crash` | the smallest instance of each | the first five disagreements below |
| `released_walk` | all 36 pairs of request statuses | the sixth |

`progress` and `services` put components that share nothing into one
specification: a variable `part` chooses the one that moves in a behaviour and
the others stay in their initial state. The state space is the sum of theirs,
not the product, and nothing is said about an interaction there is none of. `board_and_edits`
chooses one of three instances of `FleetLifecycle` in the same way (`served`). With one worker the
screen of each handler already keeps the pair apart; the second instance is there for what only the
trigger stops, a late busy write over a pair that was given away meanwhile.

The queue is two parts of `services`. In `queue` a report travels; the part stops once
`slipped` is set, since `LostOnlyByStaleOrFailedWrite` then holds for good. In `mirror`
no action is a report, so that writes from stale copies are followed further, and the
part stops once `missed` is set, since `HiddenWorkIsRecounted` then holds for good. The
`VIEW` of the configuration drops, in the part `queue` only, what no step there looks at and
the property does not mention: the mirror, `missed`, the copies that only serve to
write them, and whether the server has an action that is no report. Two
states with one view then have the same steps, but for steps that leave the view as
it is, and the property does not tell them apart. (TLC would be free to drop a state whose types differ; the types are
proved, `ServicesTypeCorrect`.)

Bounds. `MaxDispatches` and `MaxTrips` bound the rows, since ids grow for ever in
the code; two rows are enough for a conflict, a reuse and a duplicate. `Windows`
holds overlapping and touching windows, where the trigger's comparison could be
off by one. Two workers reach every race of two handlers; what the code promises for any number of
them is proved (one promise holds of two only: see Disagreements). One pair is enough to
double-book, and a reassignment may move it in time; `racing` has two, since a
handler's token does not cover another pair's dispatch. `DriverSteps` is one busy
status per race and adds one that is not busy with one worker: all busy steps take
the same code path. The edits of `board_and_edits` reach every trip status there is. `racing` leaves out
POST /api/dispatch, which raises a second dispatch by design, leave, and grounding,
which reopens closed requests (see Disagreements); the board of `board_and_edits` serves
all three and `one_at_a_time` grounding, and the theorems about the other properties of `racing` cover it. In
`dispatch_guard` two vehicles share a driver, so that the second scan decides; `start`
and `flip` have the locks of `reassign` and `busy` and are left out. One window makes
all rows rivals; touching windows are the business of `board_and_edits`. A batch of
two with one poisoned row makes the cron pass over it; with as many hopeless rows
as a batch holds, the code starves the rest, and `Poison` smaller than `Limit` is the
named condition of `HealthyEventsHeard`. Seven versions are enough to count, accept,
clear, depart, count again and accept at delivery, with one step to spare for a
decision that is withdrawn or a count that is repeated.
A queue bound of one makes the second action overflow it. One report is enough to lose
one; how several dead letters share their list is left to the theorem.

Symmetry is used only for runs without liveness (`racing`, `dispatch_guard` and `services`;
in the last, calls, scanners and drains are permuted), where the permuted values are interchangeable in Init, Next and each property).
Deadlock checking is off in every
configuration because the system really stops: when all rows are used and terminal no
handler has anything to do.

Fairness. `FleetLifecycle!FairSpec` asks that an invocation which is not killed runs
to its end (`WF` on each worker's steps). It does not ask that anyone calls a handler: no
user, driver or retry is obliged to act. `DispatchGuard` asks `SF` of a transaction's
steps, since a lock it waits for is granted when it comes free again and again, and
`WF` of the deadlock detector. `OutboundDelivery` asks `WF` of steps and of the cron,
which fires on a schedule, and `SF` only of a healthy row being answered and its mark
recorded: a gateway and a database that work some time. It is checked with one
retrier: two that overlap may write failed over processed again and again,
which the administrator's retry and the cron together can do; Booking then hears an
event many times. `TransitionSearch` needs `WF` of its loop.

### Disagreements between code and comments

1. `trip_cancel_race`: `cancelTrip` gates on a plain read and updates by id, so it
   cancels a trip that completed meanwhile ("Terminal trips are locked").
2. `late_busy_write`: the dispatch write of a status step, delayed past the
   completion, reopens the dispatch ("Completed / Cancelled are terminal (locked)").
3. `stale_hop`: a hop of an assignment overwrites a cancellation, and the request can
   end Assigned ("Terminal statuses are locked").
4. `reassign_after_stand_down`: a stood-down request is assigned again but gets the
   cancelled dispatch and no trip ("stays re-assignable").
5. `completion_crash`: a completion that stops before it advances the request leaves
   it open, and the retry returns early ("recomputed on demand").
6. `released_walk`: the search refuses a release into Scheduled only from the second hop on, so
   `transitionPath("In Progress", "Assigned")` is In Progress, Scheduled, Assigned: a
   release that is the first leg of a longer path ("must never become an intermediate leg of a
   longer invented path", "or walk In Progress → Scheduled → Assigned"). `IsWalk` says what
   the code does; `ReleaseIsDirect` is the rule of the comments.

The first three hold with one worker (`one_at_a_time`): it is the interleaving
that breaks them. Also seen while modelling:

- An assignment racing a start walks a running request back to Assigned, along the path of 6.; completing
  a trip that never started takes its dispatch from Scheduled to Completed; a
  declined trip leaves its dispatch live; a reschedule leaves the dispatch in its old
  window; a reassigned dispatch keeps its trip on the old pair until someone edits
  the trip.
- The evidence token is taken after the status gate and before the path is loaded. An
  assignment passes the gate, the request is cancelled, the assignment takes its token,
  something reopens the request long enough for the assignment to load its path, it
  is cancelled again: the token shows it cancelled before and after, and the pair
  gets in. What can reopen it is a third handler with a stale hop (3.), or,
  with two handlers and two pairs, a grounding that meets a dispatch of the
  request which a late busy sync (2.) had revived. POST /api/dispatch needs none of this: it writes the pair
  in its last hop, after its token is spent. So `NoPairForClosedRequest` is claimed, checked and
  proved for two handlers at a time and without these two.
- Where `hashtext` gives two vehicles the keys of two drivers crosswise, two ordinary
  assignments of these pairs can wait for each other's advisory lock: each holds its vehicle's key and waits
  for its driver's. PostgreSQL rolls one back.
- `sync.js` says incident reports are never dropped and that a refused one is kept ("quarantine
  it for the driver instead of deleting it"). A report queued while a drain is sending is
  overwritten by the array the drain kept; two reports queued together overwrite each
  other; a dead letter that cannot be written is dropped from the queue all the same; a
  list of dead letters that cannot be read is overwritten as if it were empty. So `IncidentsKept` does
  not hold by itself. `LostOnlyByStaleOrFailedWrite` shows that there is no other way.
- The mirror is 0 over stored work for a while in ordinary runs: between the two
  writes of a drain, or after a drain that looked at an empty queue which has been
  filled since. A call that will count again is then under way (`HiddenWorkIsRecounted`). Where that
  count fails or is overtaken, the work stays hidden until the next action is queued,
  the connection comes back or the app starts.
- Grounding takes its locks in another order than the rest and is the one handler
  that can deadlock without such a collision; PostgreSQL rolls one side back.
- A cargo run never reaches 'Arrived': the checkpoint asks for an accepted delivery
  before that status, deliveries are counted at Drop-off or Arrived, and Drop-off leads
  only to Completed. A run that goes from In Progress back to At Pickup may be counted
  again, and grounding ends a run without its checkpoint. For cargo trips the checkpoint's
  own gate, under the lock, closes the race of `trip_cancel_race`.

Those that no property covers are hazards of `PROJECT.json` with a note.

## Proofs

Each property proved is one that a run checks, for every value of the
constants and any number of workers, transactions, scanners, calls, drains or
retriers, except where a hypothesis named below says otherwise. They rest on assumptions about the constants and on nothing else: the
named ASSUMEs of the modules (`BoundsAssumption`, `DataAssumption`,
`BoardAssumption`, `GuardAssumption`, `OutboundAssumption`, `CargoAssumption`), and, where
several instances of a module live in one run, the hypotheses `LoginAssumption`,
`OdometerAssumption` and `QueueAssumption` of the theorems, which TLC evaluates in
`MCServices`.

**Lifecycle.** `TypeCorrect`: `TypeOK` is inductive because it includes
`WellFormed` (a job about to write a dispatch names one) and that an existing
trip names a dispatch; one lemma for each kind of write, one for each action.
`NoDoubleBookingHolds`: every step either passes `OverlapGuard` for the one row it
writes or only takes dispatches out of service. It covers
every handler and any number of workers, where the run has one or two.
`CancelledTripStaysCancelledHolds`: each handler repeats its gate where it writes. Its
hypothesis is that trips are edited by hand only with odometer photos on: without
them the edit may write any status.
`OneDispatchPerRequestHolds`: rows never change their request, and the commit of an
assignment inserts one only where no row names the request; its hypothesis is that
POST /api/dispatch is not served. `CompletedRequestHadTripHolds`: a handler has
Completed as its goal, or ahead on its path, only because it has
completed a trip of its request (`PromisesEarned`), no walk passes
through Completed, and ended trips stay ended and keep their dispatch; its hypothesis
is that nobody edits trips by hand.
`NoPairForClosedRequestHolds` is about two handlers. Whoever closes a request behind the gate
of an assignment does so in its last write; if the token then shows the request closed,
the request stays so until the assignment looks for a path and finds none, because nobody
is left who could write it (`Overtaken`, which rests on what each handler keeps to by
itself, `Steady`). If the token shows it open, it is open at the commit. The hypotheses
are at most two workers, no grounding and no POST /api/dispatch; each is needed, as TLC
shows (see Disagreements).

**One at a time.** `CompletedTogetherHolds`, `RunningTogetherHolds`,
`PairHeldOnlyForOpenRequestHolds`, `CompletedTripLockedHolds`,
`DispatchTerminalLockedHolds` and `ReservationSpecHolds`, the refinement, for any number
of requests, rows, pairs and windows. Their hypothesis `OneAtATime` is what the
run `one_at_a_time` has: one worker, no crash, and no POST /api/dispatch, leave
or edit of a trip. With two workers the first three disagreements refute
them; a second dispatch, leave and the edit break the relations between the
tables by themselves. Most statements of the handlers
do not repeat the check their handler made when it began, so none of this is inductive:
`InPlace` says of a handler under way what it still knows of the rows it will
write, its path through the request statuses included, and `RowsFollow` relates each
table to the next (a trip to its dispatch, a dispatch to its request and its
trip, a request to its dispatch). A request is out of step with its dispatch only
while a handler that moved the dispatch has the request yet to move (`Advancing`);
such a handler is never refused a path (`PathsExist`), or the tables would stay
apart. TLC checked the invariant on the run's configuration before it was proved.

**Trigger.** `TransactionsImplementBoard`: every commit is one guarded write of
`GuardedBoard`. The invariant: who has scanned for a resource still holds the key of
that resource, so nobody else can have committed a rival since; a resource's key
determines the scan even when two ids share a key. `NobodyHeldTwiceHolds` follows from
the abstract guard; `GuardTypeCorrect` is the type invariant.
`OnlyGroundingDeadlocksHolds` needs no induction over the circle, only that each
transaction in it waits for another one in it. Without a grounding nobody in it waits for
an advisory key, since who holds the key is past all its other locks. Handlers with
evidence and prepared ones lock the table of drivers first, so at most one of them
leads and the others hold nothing. The light ones hold their table for writing and wait for
a dispatch row, which only a prepared leader can hold; and a prepared leader waits for
nothing that a light one holds. Its hypothesis `KeysApart` is that `hashtext` gives no
vehicle the key of a driver (see Disagreements).

**Delivery.** `ProcessedWasHeardHolds`: who is about to mark a row has sent it, and
`heard` only grows.

**Search.** `SearchIsTransitionPathHolds`, `EveryHopIsLegalHolds` and
`SearchAgreesWithGateHolds`, of the loop in `transitionPath` for every pair of statuses.
A walk follows the course forward, or releases first and stops short of where it
began (`WalkShape`); hence there is one walk at most between two statuses
(`WalksAreUnique`), and any walk the loop finds is the shortest. The invariant (`Searching`): each
status visited is at the end of a queued walk or has been gone on from wherever
the rules allow, so that an empty queue means no walk.

**Custody.** `CargoInv` adds to the property that every record is dated at or before
the current version (`InThePast`), that a page shows what was recorded up to its
version (`Informed`), and in which statuses reviews can change at all: that is why
an approval cannot be withdrawn behind a run that travels.

**Odometer.** `Claims`: a scanner in the network owns the lease with the attempt
number of the photo, and attempts only grow, so a scanner that was overtaken finds
another number. `Latched` ties the trip's readings to the committed photos.

**Sign-in.** `Settled`: what becomes of a code is decided once; a call that is about
to charge owns the code it burned, so that no second call charges it.

**Queue.** `LostOnlyByStaleOrFailedWriteHolds` and `HiddenWorkIsRecountedHolds`, for any number
of actions, drains and counts and any bound. `Accounted`: every report of the array a drain
works on is settled, dead, still to do or kept, as long as nothing slipped. The second is
inductive with `MirrorsWork`: an array about to be mirrored holds the action that was
added. Whoever sets the mirror to 0 either goes on to a count or is one whose array was
still the stored one; whoever fills the queue has yet to mirror it.

**Composition.** `MCServices` instantiates `LoginProofs`, `OdometerProofs` and `QueueProofs`
(the modules with their theorems), so that `ServicesProofs` can cite those: each
component of the composition runs its own specification (`LoginRuns`, `QueueRuns`, `MirrorRuns`,
`ScanRuns`, `OdometerRuns`), and the nine properties of the run `services` that are about them
follow, with `PartsSpec` as the specification, and so do the types
(`ServicesTypeCorrect`). The custody theorems are in the same module.

Only model-checked: liveness (`CompletionReachesRequest`, `Terminates`, `HealthyEventsHeard`,
  `EveryTransactionEnds`), which is out of the prover's reach.

## Not modelled

Inside the modelled components: POST /api/dispatch without a pair or with a
status the caller chooses; the direct insert of POST /api/trips; an edit that
detaches a trip from its dispatch; distances other than the odometer's, costs, GPS and
geofences; audit, notifications and pushes; vehicle and
driver statuses, which are recomputed from the tables modelled. `FleetLifecycle` walks
passenger requests; the cargo checkpoint is `CargoCustody`'s, with the decisions and
clearances of external sources left out (`cargo-execution.service.js` has them
switched off), and with handover, manifests and evidence photos abstracted into
whether a count was accepted. Of the limiter, only the bucket of burned codes;
of `api.js`, only what hands a request to the queue and what starts a drain.

Whole components, with the reason:

- push outbox: a row is tried once by whoever reads it, and nothing reads the outcome;
- sessions and tokens: rows with an expiry and a version, checked on each request;
- supply shipments: sums over rows under one lock, nothing to interleave;
- inbound integration: an idempotent insert, kept by a unique index;
- geofence, GPS and live monitoring: geometry and alerts that write no status;
- standby and dispatch planning: suggestions that take effect through the board;
- maintenance, incidents after the grounding, fuel: records with single-statement
  writes and little interaction with the rest;
- number coding: a calendar policy, part of what `Pairs` abstracts;
- documents: upload and download;
- the user interface, web and mobile: it is most of the repository's lines, and
  calls the routes above. Pages, charts, maps and forms keep no state that another
  actor relies on, and a model of them would transcribe layout.

## What could follow

A composition of `CargoCustody` with `FleetLifecycle`'s workers, which today meet
in the atomic checkpoint, and what of the one-at-a-time promises survives two
handlers that touch different requests.

-------------------------- MODULE OutboundDelivery --------------------------
(***************************************************************************)
(* The outbound side of the integration: emitTransportStatus writes a      *)
(* status event to integration_log, calls Booking's gateway and marks the  *)
(* row; the reconcile cron reads the oldest undelivered rows and tries     *)
(* them again.  Any number of both run together, nothing claims a row, and *)
(* an invocation may stop at any point.                                    *)
(***************************************************************************)
EXTENDS Naturals, FiniteSets, Sequences

CONSTANTS
    Emitters,    \* handlers that emit a status
    Retriers,    \* runs of the cron, and of the administrator's retry
    MaxEvents,   \* bound: status events emitted
    MaxStops,    \* bound: invocations that stop before they are done
    Limit,       \* rows a reconcile reads (50)
    Poison       \* log ids the gateway never takes (payload or source it refuses)

Workers == Emitters \union Retriers
Rows == 1..MaxEvents

ASSUME OutboundAssumption ==
    /\ MaxEvents \in Nat /\ MaxStops \in Nat /\ Limit \in Nat \ {0}
    /\ Poison \subseteq Rows

VARIABLES
    log,     \* integration_log: the status of row i, in log_id order
    call,    \* each invocation: the rows it still has to try, and where it is
    heard,   \* rows Booking has acknowledged or at least received
    stops    \* invocations that stopped so far

vars == <<log, call, heard, stops>>

Idle == [todo |-> {}, pc |-> "idle"]

\* ORDER BY log_id
Oldest(S) == CHOOSE i \in S : \A j \in S : i <= j
Current(w) == Oldest(call[w].todo)

\* Fault: rows whose emission stopped half way stay out of the retry.
RetryableFailed == { i \in DOMAIN log : log[i] = "failed" }

\* status IN ('pending', 'failed')
Retryable == { i \in DOMAIN log : log[i] \in {"pending", "failed"} }

\* ... LIMIT max
Batch == { i \in Retryable : Cardinality({ j \in Retryable : j < i }) < Limit }

TypeOK ==
    /\ log \in Seq({"pending", "processed", "failed"}) /\ Len(log) <= MaxEvents
    /\ call \in [Workers -> [todo: SUBSET Rows, pc: {"idle", "send", "mark", "fail"}]]
    /\ \A w \in Workers : call[w].todo \subseteq DOMAIN log
    /\ \A w \in Workers : call[w].pc = "idle" <=> call[w].todo = {}
    /\ heard \subseteq DOMAIN log
    /\ stops \in 0..MaxStops

Init ==
    /\ log = <<>>
    /\ call = [w \in Workers |-> Idle]
    /\ heard = {}
    /\ stops = 0

\* The row is written before the gateway is called.
Emit(w) ==
    /\ call[w] = Idle /\ Len(log) < MaxEvents
    /\ log' = Append(log, "pending")
    /\ call' = [call EXCEPT ![w] = [todo |-> {Len(log) + 1}, pc |-> "send"]]
    /\ UNCHANGED <<heard, stops>>

\* GET /api/cron/reconcile
Reconcile(w) ==
    /\ call[w] = Idle /\ Batch # {}
    /\ call' = [call EXCEPT ![w] = [todo |-> Batch, pc |-> "send"]]
    /\ UNCHANGED <<log, heard, stops>>

At(w, step) == call[w].pc = step
Goto(w, step) == call' = [call EXCEPT ![w].pc = step]

\* The row is done with; the next one of the batch, if there is one, is sent.
Advance(w) ==
    call' = [call EXCEPT ![w] = [todo |-> @.todo \ {Current(w)},
                                 pc |-> IF @.todo = {Current(w)} THEN "idle" ELSE "send"]]

\* Fault: an answer counts as a delivery whatever it says.
SendUnchecked(w) ==
    /\ At(w, "send")
    /\ \/ Current(w) \notin Poison /\ heard' = heard \union {Current(w)}
       \/ UNCHANGED heard
    /\ \/ Goto(w, "mark") \/ Goto(w, "fail")
    /\ UNCHANGED <<log, stops>>

\* gateway.acknowledgeStatus: acknowledged, received with the answer lost, or
\* not received.
Send(w) ==
    /\ At(w, "send")
    /\ \/ /\ Current(w) \notin Poison /\ heard' = heard \union {Current(w)}
          /\ Goto(w, "mark") \/ Goto(w, "fail")
       \/ Goto(w, "fail") /\ UNCHANGED heard
    /\ UNCHANGED <<log, stops>>

\* UPDATE ... SET status = 'processed' WHERE log_id; an error of this statement
\* is handled as a failed delivery.
Mark(w) ==
    /\ At(w, "mark")
    /\ \/ log' = [log EXCEPT ![Current(w)] = "processed"] /\ Advance(w)
       \/ Goto(w, "fail") /\ UNCHANGED log
    /\ UNCHANGED <<heard, stops>>

\* UPDATE ... SET status = 'failed' WHERE log_id, whatever the row says by now;
\* an error of this statement is swallowed.
Fail(w) ==
    /\ At(w, "fail") /\ Advance(w)
    /\ log' \in { log, [log EXCEPT ![Current(w)] = "failed"] }
    /\ UNCHANGED <<heard, stops>>

\* The invocation reaches its time limit or its instance goes away.
Stop(w) ==
    /\ call[w] # Idle /\ stops < MaxStops
    /\ call' = [call EXCEPT ![w] = Idle] /\ stops' = stops + 1
    /\ UNCHANGED <<log, heard>>

Progress(w) == Send(w) \/ Mark(w) \/ Fail(w)

Next ==
    \/ \E w \in Emitters : Emit(w)
    \/ \E w \in Retriers : Reconcile(w)
    \/ \E w \in Workers : Progress(w) \/ Stop(w)

Spec == Init /\ [][Next]_vars

\* Row i is sent and Booking's answer comes back; the row is marked as delivered.
Answered(w, i) == Send(w) /\ Current(w) = i /\ call'[w].pc = "mark"
Recorded(w, i) == Mark(w) /\ Current(w) = i /\ log'[i] = "processed"

\* Invocations go on, the cron fires again and again, and what is tried again and
\* again for a healthy row works some time.
Fairness ==
    /\ \A w \in Workers : WF_vars(Progress(w))
    /\ \A w \in Retriers : WF_vars(Reconcile(w))
    /\ \A i \in Rows \ Poison : /\ SF_vars(\E w \in Workers : Answered(w, i))
                                /\ SF_vars(\E w \in Workers : Recorded(w, i))

FairSpec == Spec /\ Fairness

------------------------------------------------------------------------------
(* Properties *)

\* A row that no retry will ever read again was received by Booking, whatever
\* emissions and retries of it overlapped and wherever they stopped: nothing is
\* silently dropped.
ProcessedWasHeard == \A i \in DOMAIN log : log[i] = "processed" => i \in heard

\* With fewer hopeless rows than a batch holds, every other event reaches Booking
\* although its emission failed or stopped and late marks overwrite each other.
HealthyEventsHeard == \A i \in Rows \ Poison : (i \in DOMAIN log) ~> (i \in heard)
=============================================================================

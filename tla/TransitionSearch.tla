-------------------------- MODULE TransitionSearch --------------------------
(***************************************************************************)
(* The breadth first search of transitionPath(from, to), step by step, so   *)
(* that the declarative TransitionPath of FleetStatus, which the lifecycle  *)
(* model uses, is checked against what the code computes for every pair of  *)
(* request statuses.                                                        *)
(*                                                                          *)
(* src/src/lib/scheduling/reservation-state.js, transitionPath.             *)
(***************************************************************************)
EXTENDS FleetStatus

VARIABLES
    from, to,   \* the arguments
    queue,      \* paths still to expand, oldest first
    visited,    \* statuses already enqueued
    result,     \* the path returned, NoPath for null
    pc          \* "enter" | "search" | "done"

vars == <<from, to, queue, visited, result, pc>>

Return(p) == result' = p /\ pc' = "done" /\ UNCHANGED <<from, to, queue, visited>>

Init ==
    /\ from \in ReservationStatus /\ to \in ReservationStatus
    /\ queue = << <<from>> >> /\ visited = {from}
    /\ result = NoPath /\ pc = "enter"

\* Fault: cancellation is tried before the terminal check.
EnterCancelsTerminal ==
    /\ pc = "enter"
    /\ \/ from = to /\ Return(<<from>>)
       \/ from # to /\ to = "Cancelled" /\ Return(<<from, to>>)
       \/ from # to /\ to # "Cancelled" /\ from \in TerminalReservation /\ Return(NoPath)
       \/ /\ from # to /\ to # "Cancelled" /\ from \notin TerminalReservation
          /\ pc' = "search" /\ UNCHANGED <<from, to, queue, visited, result>>

\* Fault: the terminal check comes before the same-status return.
EnterTerminalFirst ==
    /\ pc = "enter"
    /\ \/ from \in TerminalReservation /\ Return(NoPath)
       \/ from \notin TerminalReservation /\ from = to /\ Return(<<from>>)
       \/ /\ from \notin TerminalReservation /\ from # to /\ to = "Cancelled"
          /\ Return(<<from, to>>)
       \/ /\ from \notin TerminalReservation /\ from # to /\ to # "Cancelled"
          /\ pc' = "search" /\ UNCHANGED <<from, to, queue, visited, result>>

\* The early returns before the search loop.
Enter ==
    /\ pc = "enter"
    /\ \/ from = to /\ Return(<<from>>)
       \/ /\ from # to /\ to = "Cancelled" /\ from \notin TerminalReservation
          /\ Return(<<from, to>>)
       \/ /\ from # to /\ from \in TerminalReservation
          /\ Return(NoPath)
       \/ /\ from # to /\ to # "Cancelled" /\ from \notin TerminalReservation
          /\ pc' = "search" /\ UNCHANGED <<from, to, queue, visited, result>>

\* Fault: the release is skipped as a direct move too.
NeighboursNoRelease(path) ==
    LET current == path[Len(path)] IN
    { n \in ReservationStatus : <<current, n>> \in ReservationNext
                                /\ ~(n = "Scheduled" /\ current \in ReleaseIntoScheduled) }

\* The neighbours of a path's last status that the loop does not skip.
Neighbours(path) ==
    LET current == path[Len(path)] IN
    { n \in ReservationStatus :
        /\ <<current, n>> \in ReservationNext
        /\ ~(n = "Scheduled" /\ current \in ReleaseIntoScheduled /\ Len(path) > 1) }

\* Enqueue a set of fresh statuses behind a path.  Only Assigned and In
\* Progress have two neighbours, and there the forward one is listed first.
Extensions(path, fresh) ==
    LET forward == fresh \ {"Scheduled"} IN
    (IF forward = {} THEN <<>> ELSE << Append(path, CHOOSE n \in forward : TRUE) >>)
    \o (IF "Scheduled" \in fresh THEN << Append(path, "Scheduled") >> ELSE <<>>)

\* One turn of the loop: the oldest path is expanded.
Expand ==
    /\ pc = "search" /\ queue # <<>>
    /\ LET path == Head(queue)
           fresh == Neighbours(path) \ visited
       IN IF to \in Neighbours(path)
          THEN Return(Append(path, to))
          ELSE /\ queue' = Tail(queue) \o Extensions(path, fresh)
               /\ visited' = visited \union fresh
               /\ UNCHANGED <<from, to, result, pc>>

\* Fault: the loop goes on when the queue is empty.
NeverExhausted == pc = "search" /\ queue = <<>> /\ UNCHANGED vars

Exhausted == pc = "search" /\ queue = <<>> /\ Return(NoPath)

Next == Enter \/ Expand \/ Exhausted

Spec == Init /\ [][Next]_vars /\ WF_vars(Next)

------------------------------------------------------------------------------
\* When the search returns, it returns the declarative path the lifecycle model
\* walks its requests along (transitionPath, reservation-state.js).
SearchIsTransitionPath == pc = "done" => result = TransitionPath(from, to)

\* Every hop of every returned path is one that canTransitionReservation would
\* accept on its own, so walking a path never writes an illegal status.
EveryHopIsLegal ==
    \A i \in 1..(Len(result) - 1) : CanTransitionReservation(result[i], result[i+1])

\* A direct move is possible exactly when the search finds a one-hop path: the
\* two public functions of the module agree on single hops.
SearchAgreesWithGate ==
    pc = "done" =>
      (CanTransitionReservation(from, to) <=> (Len(result) \in {1, 2}))

\* A release into Scheduled is a direct move, never a leg of a longer walk
\* ("must never become an intermediate leg of a longer invented path",
\* RELEASE_INTO_SCHEDULED, and the comment in the loop of transitionPath).
ReleaseIsDirect ==
    \A i \in 1..(Len(result) - 1) :
        (result[i] \in ReleaseIntoScheduled /\ result[i+1] = "Scheduled") => Len(result) = 2

\* The search terminates for every pair of statuses.
Terminates == <>(pc = "done")
=============================================================================

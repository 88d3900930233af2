---------------------------- MODULE BoundedFifo ----------------------------
(***************************************************************************)
(* What a ring promises its two users, without indices, slots or steps: a  *)
(* first-in-first-out queue that holds at most Capacity frames.  A push    *)
(* that finds it full, or whose payload is too large for a slot, is turned *)
(* down and changes nothing; so is a pop that finds it empty.              *)
(*                                                                         *)
(* ShmSpscRing implements this specification (its theorem and its run).    *)
(***************************************************************************)
EXTENDS Naturals, Sequences

CONSTANTS
    Frame,      \* what can be queued
    Capacity    \* how many frames fit

VARIABLES
    queue,      \* frames accepted and not yet delivered, oldest first
    received,   \* frames delivered, oldest first
    pushResult, \* how the last push ended
    popResult   \* what the last pop returned

vars == <<queue, received, pushResult, popResult>>

Init ==
    /\ queue = << >>
    /\ received = << >>
    /\ pushResult = "none"
    /\ popResult = FALSE

Push(f) ==
    /\ Len(queue) < Capacity
    /\ queue' = Append(queue, f)
    /\ pushResult' = "pushed"
    /\ UNCHANGED <<received, popResult>>

RejectFull ==
    /\ Len(queue) = Capacity
    /\ pushResult' = "full"
    /\ UNCHANGED <<queue, received, popResult>>

\* the caller's payload is not a frame at all
RejectOversize ==
    /\ pushResult' = "oversize"
    /\ UNCHANGED <<queue, received, popResult>>

Pop ==
    /\ queue # << >>
    /\ queue' = Tail(queue)
    /\ received' = Append(received, Head(queue))
    /\ popResult' = TRUE
    /\ UNCHANGED pushResult

PopEmpty ==
    /\ queue = << >>
    /\ popResult' = FALSE
    /\ UNCHANGED <<queue, received, pushResult>>

Next ==
    \/ \E f \in Frame : Push(f)
    \/ RejectFull
    \/ RejectOversize
    \/ Pop
    \/ PopEmpty

Spec == Init /\ [][Next]_vars
=============================================================================

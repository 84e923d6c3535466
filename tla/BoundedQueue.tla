---------------------------- MODULE BoundedQueue ----------------------------
(***************************************************************************)
(* What RingBuffer promises its two callers: a first-in first-out queue of *)
(* at most Capacity frames.  A put appends one frame, a get removes the    *)
(* oldest one and hands it over.  A refused push and a failed pop leave    *)
(* the queue alone, so here they are stuttering steps.                     *)
(***************************************************************************)
EXTENDS Naturals, Sequences

CONSTANTS Frame,     \* the frames that may be queued
          NoFrame,   \* the consumer's frame variable before the first pop
          Capacity   \* how many frames fit

VARIABLES queue,     \* the frames accepted and not yet delivered, oldest first
          delivered  \* the frame the last successful get handed over

queueVars == <<queue, delivered>>

Init ==
    /\ queue = << >>
    /\ delivered = NoFrame

Put(f) ==
    /\ Len(queue) < Capacity
    /\ queue' = Append(queue, f)
    /\ UNCHANGED delivered

Get ==
    /\ queue # << >>
    /\ delivered' = Head(queue)
    /\ queue' = Tail(queue)

Next == (\E f \in Frame : Put(f)) \/ Get

SafeSpec == Init /\ [][Next]_queueVars

\* A consumer that keeps polling is eventually given every queued frame.
Spec == SafeSpec /\ WF_queueVars(Get)
=============================================================================

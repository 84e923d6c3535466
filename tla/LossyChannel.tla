---------------------------- MODULE LossyChannel ----------------------------
(***************************************************************************)
(* What the data path promises its user: a channel from the CAN socket to  *)
(* the parser that keeps the order of the frames, duplicates and invents   *)
(* none, and counts those it drops.  It drops none before Capacity others  *)
(* have gone the whole way or are ahead in it.  Frames the kernel never    *)
(* put into the socket are not part of it.                                 *)
(***************************************************************************)
EXTENDS Naturals, SequencesExt

CONSTANTS Frame, Capacity

VARIABLES inTransit,  \* the frames on their way, oldest first
          handled,    \* the frames the parser thread has finished with
          dropped     \* how many were dropped

channelVars == <<inTransit, handled, dropped>>

Init ==
    /\ inTransit = << >>
    /\ handled = << >>
    /\ dropped = 0

Arrive(f) ==
    /\ inTransit' = Append(inTransit, f)
    /\ UNCHANGED <<handled, dropped>>

\* The k-th frame on its way is given up.
Drop(k) ==
    /\ Len(handled) + k - 1 >= Capacity
    /\ inTransit' = RemoveAt(inTransit, k)
    /\ dropped' = dropped + 1
    /\ UNCHANGED handled

Deliver ==
    /\ inTransit # << >>
    /\ handled' = Append(handled, Head(inTransit))
    /\ inTransit' = Tail(inTransit)
    /\ UNCHANGED dropped

Next ==
    \/ \E f \in Frame : Arrive(f)
    \/ \E k \in DOMAIN inTransit : Drop(k)
    \/ Deliver

Spec == Init /\ [][Next]_channelVars
=============================================================================

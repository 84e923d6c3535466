--------------------------- MODULE CounterStream ----------------------------
(***************************************************************************)
(* One message with a rolling counter: a node that sends it over and over, *)
(* a path that loses frames (a full ring drops them), and the parser's     *)
(* check.  A rejected frame does not move last_rolling_counter_, so after  *)
(* a loss the parser waits until the sender's counter comes round again.   *)
(***************************************************************************)
EXTENDS CounterRule

CONSTANTS MaxLost,      \* bound: frames lost
          MaxRejected   \* bound: where the count of rejected frames stops
ASSUME LossAssumption == MaxLost \in Nat /\ MaxRejected \in Nat

VARIABLES
    last_rolling_counter_,
    next,       \* the counter of the frame the node sends next
    lost,       \* frames lost so far
    missed,     \* frames lost since the last accepted one
    rejected    \* frames rejected since the last accepted one

streamVars == <<last_rolling_counter_, next, lost, missed, rejected>>

Init ==
    /\ last_rolling_counter_ = NoCounter
    /\ next \in Counters
    /\ lost = 0
    /\ missed = 0
    /\ rejected = 0

Send == next' = (next + Increment) % Modulus

\* Mutant: parse remembers the counter it expects next.
AcceptAhead(counter) ==
    /\ CounterValid(last_rolling_counter_, counter)
    /\ Send
    /\ last_rolling_counter_' = counter + Increment
    /\ missed' = 0
    /\ rejected' = 0
    /\ UNCHANGED lost

\* isFrameValid, then parse, of a frame that shows this counter.
Accept(counter) ==
    /\ CounterValid(last_rolling_counter_, counter)
    /\ Send
    /\ last_rolling_counter_' = counter
    /\ missed' = 0
    /\ rejected' = 0
    /\ UNCHANGED lost

Reject(counter) ==
    /\ ~ CounterValid(last_rolling_counter_, counter)
    /\ Send
    /\ rejected' = IF rejected < MaxRejected THEN rejected + 1 ELSE rejected
    /\ UNCHANGED <<last_rolling_counter_, lost, missed>>

Receive == Accept(next) \/ Reject(next)

Lose ==
    /\ lost < MaxLost
    /\ Send
    /\ lost' = lost + 1
    /\ missed' = missed + 1
    /\ UNCHANGED <<last_rolling_counter_, rejected>>

Next == Receive \/ Lose

\* The node keeps sending, and losses end.
Spec == Init /\ [][Next]_streamVars /\ WF_streamVars(Receive)
-----------------------------------------------------------------------------
(***************************************************************************)
(* Properties.                                                             *)
(***************************************************************************)

\* The counters that were sent and kept are counters, the counts in their bounds.
TypeOK ==
    /\ last_rolling_counter_ \in Counters \cup {NoCounter}
    /\ next \in Counters
    /\ {lost, missed, rejected} \subseteq Nat

\* A frame is rejected only because another one was lost before it, and one
\* lost frame costs at most one turn of the counter: the parser never locks up
\* on an undisturbed sender, though a turn of an eight-bit counter outlasts
\* the time-outs of fault_tolerance_test at any usual cycle time.
BlackoutBounded == rejected <= missed * (Modulus - 1)

\* However frames were lost, the parser accepts the message again.
Resynchronises == missed > 0 ~> missed = 0
=============================================================================

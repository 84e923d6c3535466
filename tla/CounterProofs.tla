---------------------------- MODULE CounterProofs ---------------------------
(***************************************************************************)
(* Proofs about CounterStream, for every length of the counter and every   *)
(* increment, and with no bound on the losses.                             *)
(***************************************************************************)
EXTENDS CounterStream, TLAPS

LEMMA Division ==
    ASSUME NEW n \in Nat
    PROVE  n % Modulus \in Counters /\ \E d \in Int : n = (n % Modulus) + Modulus * d
<1>1. Modulus \in Nat /\ Modulus > 0
  BY CounterAssumption
<1>2. n % Modulus \in 0 .. Modulus - 1
  BY <1>1
<1>3. n = (n % Modulus) + Modulus * (n \div Modulus) /\ n \div Modulus \in Int
  BY <1>1
<1> QED
  BY <1>2, <1>3 DEF Counters

LEMMA AtLeastOnce ==
    ASSUME NEW m \in Nat, NEW d \in Int, d >= 1
    PROVE  m * d >= m
<1>1. m * d = m + m * (d - 1)
  OBVIOUS
<1>2. m * (d - 1) >= 0
  OBVIOUS
<1>3. m * (d - 1) \in Int
  OBVIOUS
<1> QED
  BY <1>1, <1>2, <1>3

\* Two counters that differ by whole turns are the same.
LEMMA OneRemainder ==
    ASSUME NEW a \in Counters, NEW b \in Counters, NEW p \in Int, NEW q \in Int,
           a + Modulus * p = b + Modulus * q
    PROVE  a = b
<1>1. Modulus \in Nat /\ a \in 0 .. Modulus - 1 /\ b \in 0 .. Modulus - 1
  BY CounterAssumption DEF Counters
<1>2. a - b = Modulus * (q - p) /\ b - a = Modulus * (p - q)
  BY <1>1
<1>3. CASE q - p >= 1
  <2>1. Modulus * (q - p) >= Modulus
    BY <1>1, <1>3, AtLeastOnce
  <2> QED
    BY <1>1, <1>2, <2>1
<1>4. CASE p - q >= 1
  <2>1. Modulus * (p - q) >= Modulus
    BY <1>1, <1>4, AtLeastOnce
  <2> QED
    BY <1>1, <1>2, <2>1
<1>5. CASE p = q
  BY <1>1, <1>5
<1> QED
  BY <1>3, <1>4, <1>5
-----------------------------------------------------------------------------
\* The sender is as many increments past the last accepted counter as frames
\* were lost or rejected since (r of them, if the count of rejected frames
\* stops early), up to whole turns.
Ahead(r, q) ==
    last_rolling_counter_ + Increment * (1 + missed + r) = next + Modulus * q

CounterInv ==
    /\ TypeOK
    /\ last_rolling_counter_ = NoCounter => rejected = 0
    /\ last_rolling_counter_ # NoCounter =>
           \E r \in Nat, q \in Int :
               rejected <= r /\ r <= missed * (Modulus - 1) /\ Ahead(r, q)

LEMMA Constants ==
    /\ Modulus \in Nat /\ Modulus > 0 /\ Increment \in Nat /\ NoCounter \in Nat
    /\ Counters = 0 .. Modulus - 1
    /\ MaxLost \in Nat /\ MaxRejected \in Nat
BY CounterAssumption, LossAssumption DEF NoCounter, Counters

\* The next counter is one, some turns below the plain sum.
LEMMA NextCounter ==
    ASSUME next \in Counters, Send
    PROVE  next' \in Counters /\ \E d \in Int : next + Increment = next' + Modulus * d
BY Constants, Division, next + Increment \in Nat DEF Send

\* A step keeps the types, whatever was sent and lost before it.
LEMMA CounterStepsTyped ==
    ASSUME TypeOK, [Next]_streamVars
    PROVE  TypeOK'
<1>1. \/ UNCHANGED streamVars
      \/ Send /\ last_rolling_counter_' \in {last_rolling_counter_, next}
           /\ {lost', missed', rejected'} \subseteq Nat
  BY DEF TypeOK, Next, Receive, Accept, Reject, Lose, streamVars
<1>2. CASE Send
  BY <1>1, <1>2, NextCounter DEF TypeOK, streamVars
<1> QED
  BY <1>1, <1>2 DEF TypeOK, streamVars

\* When a whole turn of frames was lost or rejected the counter fits again.
LEMMA FullTurnFits ==
    ASSUME TypeOK, last_rolling_counter_ # NoCounter, NEW q \in Int,
           Ahead(missed * (Modulus - 1), q)
    PROVE  next = ExpectedAfter(last_rolling_counter_)
<1> DEFINE l == last_rolling_counter_
<1>1. l \in Nat /\ next \in Counters /\ next \in Int /\ missed \in Nat
  BY Constants DEF TypeOK
<1>2. 1 + missed + missed * (Modulus - 1) = 1 + missed * Modulus
  BY Constants, <1>1
<1>3. l + Increment * (1 + missed * Modulus) = next + Modulus * q
  BY <1>2 DEF Ahead
<1>4. Increment * (1 + missed * Modulus) = Increment + Modulus * (Increment * missed)
  BY Constants, <1>1
<1>5. Increment * missed \in Int
  BY Constants, <1>1
<1>6. l + Increment = next + Modulus * (q - Increment * missed)
  BY Constants, <1>1, <1>3, <1>4, <1>5
<1>7. PICK d \in Int : l + Increment = ((l + Increment) % Modulus) + Modulus * d
  BY Constants, <1>1, Division, l + Increment \in Nat
<1>8. (l + Increment) % Modulus \in Counters
  BY Constants, <1>1, Division, l + Increment \in Nat
<1>9. q - Increment * missed \in Int
  BY <1>5
<1>10. next = (l + Increment) % Modulus
  BY <1>1, <1>6, <1>7, <1>8, <1>9, OneRemainder
<1> QED
  BY <1>10 DEF ExpectedAfter

LEMMA CounterInvInductive ==
    ASSUME CounterInv, [Next]_streamVars
    PROVE  CounterInv'
<1> USE Constants
<1>1. /\ last_rolling_counter_ \in Int /\ next \in Counters /\ next \in Int
      /\ lost \in Nat /\ missed \in Nat /\ rejected \in Nat
  BY DEF CounterInv, TypeOK
<1>2. CASE Accept(next)
  <2>1. /\ last_rolling_counter_' = next /\ missed' = 0 /\ rejected' = 0 /\ lost' = lost
        /\ Send
    BY <1>2 DEF Accept
  <2>2. PICK d \in Int : next + Increment = next' + Modulus * d
    BY <1>1, <2>1, NextCounter
  <2>3. TypeOK'
    BY <1>1, <2>1, NextCounter DEF TypeOK
  <2>4. next + Increment * (1 + 0 + 0) = next' + Modulus * d
    BY <1>1, <2>2
  <2>5. Ahead(0, d)'
    BY <2>1, <2>4 DEF Ahead
  <2>6. rejected' <= 0 /\ 0 <= missed' * (Modulus - 1)
    BY <2>1
  <2> QED
    BY <2>1, <2>3, <2>5, <2>6 DEF CounterInv
<1>3. CASE Reject(next)
  <2>1. /\ last_rolling_counter_' = last_rolling_counter_
        /\ missed' = missed /\ lost' = lost /\ Send
        /\ rejected' \in Nat /\ rejected' <= rejected + 1
    BY <1>1, <1>3 DEF Reject
  <2>2. /\ last_rolling_counter_ # NoCounter
        /\ next # ExpectedAfter(last_rolling_counter_)
    BY <1>3 DEF Reject, CounterValid
  <2>3. PICK r \in Nat, q \in Int :
            rejected <= r /\ r <= missed * (Modulus - 1) /\ Ahead(r, q)
    BY <2>2 DEF CounterInv
  <2>4. r # missed * (Modulus - 1)
    BY <2>2, <2>3, FullTurnFits DEF CounterInv
  <2>5. missed * (Modulus - 1) \in Int
    BY <1>1
  <2>6. r + 1 <= missed' * (Modulus - 1)
    BY <2>1, <2>3, <2>4, <2>5
  <2>7. PICK d \in Int : next + Increment = next' + Modulus * d
    BY <1>1, <2>1, NextCounter
  <2>8. next' \in Int
    BY <1>1, <2>1, NextCounter
  <2>9. Ahead(r + 1, q + d)'
    <3> DEFINE t == Increment * (1 + missed + r)
               turns == Modulus * q
               turn == Modulus * d
    <3>1. /\ Increment * (1 + missed + (r + 1)) = t + Increment
          /\ Modulus * (q + d) = turns + turn
      BY <1>1
    <3>2. last_rolling_counter_ + t = next + turns /\ next + Increment = next' + turn
      BY <2>3, <2>7 DEF Ahead
    <3>3. /\ last_rolling_counter_ \in Int /\ next \in Int /\ next' \in Int
          /\ t \in Int /\ turns \in Int /\ turn \in Int /\ Increment \in Int
      BY <1>1, <2>8
    <3> HIDE DEF t, turns, turn
    <3>4. last_rolling_counter_ + (t + Increment) = next' + (turns + turn)
      <4>1. (last_rolling_counter_ + t) + Increment = (next + Increment) + turns
        BY <3>2, <3>3
      <4>2. (last_rolling_counter_ + t) + Increment = last_rolling_counter_ + (t + Increment)
        BY <3>3
      <4>3. (next' + turn) + turns = next' + (turns + turn)
        BY <3>3
      <4> QED
        BY <3>2, <4>1, <4>2, <4>3
    <3>5. last_rolling_counter_ + Increment * (1 + missed + (r + 1))
              = next' + Modulus * (q + d)
      BY <3>1, <3>4
    <3> QED
      BY <2>1, <3>5 DEF Ahead
  <2>10. TypeOK'
    BY <1>1, <2>1, NextCounter DEF CounterInv, TypeOK
  <2>11. rejected' <= r + 1 /\ r + 1 \in Nat /\ q + d \in Int
    BY <1>1, <2>1, <2>3
  <2> QED
    BY <2>1, <2>2, <2>6, <2>9, <2>10, <2>11 DEF CounterInv
<1>4. CASE Lose
  <2>1. /\ last_rolling_counter_' = last_rolling_counter_
        /\ missed' = missed + 1 /\ lost' = lost + 1 /\ rejected' = rejected /\ Send
    BY <1>4 DEF Lose
  <2>2. TypeOK'
    BY <1>1, <2>1, NextCounter DEF CounterInv, TypeOK
  <2>3. CASE last_rolling_counter_ = NoCounter
    BY <2>1, <2>2, <2>3 DEF CounterInv
  <2>4. CASE last_rolling_counter_ # NoCounter
    <3>1. PICK r \in Nat, q \in Int :
              rejected <= r /\ r <= missed * (Modulus - 1) /\ Ahead(r, q)
      BY <2>4 DEF CounterInv
    <3>2. PICK d \in Int : next + Increment = next' + Modulus * d
      BY <1>1, <2>1, NextCounter
    <3>3. next' \in Int
      BY <1>1, <2>1, NextCounter
    <3>4. Ahead(r, q + d)'
      <4> DEFINE t == Increment * (1 + missed + r)
                 turns == Modulus * q
                 turn == Modulus * d
      <4>1. /\ Increment * (1 + (missed + 1) + r) = t + Increment
            /\ Modulus * (q + d) = turns + turn
        BY <1>1
      <4>2. last_rolling_counter_ + t = next + turns /\ next + Increment = next' + turn
        BY <3>1, <3>2 DEF Ahead
      <4>3. /\ last_rolling_counter_ \in Int /\ next \in Int /\ next' \in Int
            /\ t \in Int /\ turns \in Int /\ turn \in Int /\ Increment \in Int
        BY <1>1, <3>3
      <4> HIDE DEF t, turns, turn
      <4>4. last_rolling_counter_ + (t + Increment) = next' + (turns + turn)
        <5>1. (last_rolling_counter_ + t) + Increment = (next + Increment) + turns
          BY <4>2, <4>3
        <5>2. (last_rolling_counter_ + t) + Increment = last_rolling_counter_ + (t + Increment)
          BY <4>3
        <5>3. (next' + turn) + turns = next' + (turns + turn)
          BY <4>3
        <5> QED
          BY <4>2, <5>1, <5>2, <5>3
      <4>5. last_rolling_counter_ + Increment * (1 + (missed + 1) + r)
                = next' + Modulus * (q + d)
        BY <4>1, <4>4
      <4> QED
        BY <2>1, <4>5 DEF Ahead
    <3>5. (missed + 1) * (Modulus - 1) = missed * (Modulus - 1) + (Modulus - 1)
      BY <1>1
    <3>6. missed * (Modulus - 1) \in Int
      BY <1>1
    <3>7. r <= missed' * (Modulus - 1)
      BY <2>1, <3>1, <3>5, <3>6
    <3>8. rejected' <= r /\ q + d \in Int
      BY <2>1, <3>1
    <3> QED
      BY <2>1, <2>2, <2>4, <3>4, <3>7, <3>8 DEF CounterInv
  <2> QED
    BY <2>3, <2>4
<1>5. CASE UNCHANGED streamVars
  BY <1>5 DEF streamVars, CounterInv, TypeOK, Ahead
<1> QED
  BY <1>2, <1>3, <1>4, <1>5 DEF Next, Receive

LEMMA InitCounterInv == Init => CounterInv
BY Constants DEF Init, CounterInv, TypeOK

\* Counters stay counters, for every modulus and increment.
THEOREM StreamTyped == Spec => []TypeOK
<1>1. CounterInv => TypeOK
  BY DEF CounterInv
<1> QED
  BY <1>1, InitCounterInv, CounterInvInductive, PTL DEF Spec

\* r in CounterInv bounds what was rejected.
LEMMA CounterInvBounds == CounterInv => BlackoutBounded
<1>1. SUFFICES ASSUME CounterInv PROVE BlackoutBounded
  OBVIOUS
<1>2. missed \in Nat /\ rejected \in Nat
  BY <1>1 DEF CounterInv, TypeOK
<1>3. missed * (Modulus - 1) >= 0 /\ missed * (Modulus - 1) \in Int
  BY <1>2, Constants
<1> QED
  BY <1>1, <1>2, <1>3 DEF CounterInv, BlackoutBounded

\* Each lost frame costs at most one turn of the counter, for every length of
\* the counter and every increment, however many frames are lost.
THEOREM Blackouts == Spec => []BlackoutBounded
BY CounterInvBounds, InitCounterInv, CounterInvInductive, PTL DEF Spec
=============================================================================

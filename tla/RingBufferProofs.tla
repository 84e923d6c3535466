-------------------------- MODULE RingBufferProofs --------------------------
(***************************************************************************)
(* For every size and every set of frames: the ring is free of data races, *)
(* its check-then-act pairs are sound, and it implements a first-in        *)
(* first-out queue of m_size - 1 frames.                                   *)
(***************************************************************************)
EXTENDS RingBuffer, SequenceTheorems, TLAPS

(***************************************************************************)
(* The arithmetic of the ring, stated once over plain indices.             *)
(***************************************************************************)

\* The constructor leaves at least one slot.
LEMMA AtLeastOneSlot == m_size \in Nat /\ m_size >= 1
  BY SizeAssumption DEF m_size

\* Following one index stays inside the buffer (the wrap of push and pop).
LEMMA FollowingIsASlot == ASSUME NEW i \in Slots PROVE Following(i) \in Slots
  BY AtLeastOneSlot DEF Following, Slots

\* A distance is at least 0, at most m_size - 1, and 0 only at the index itself.
LEMMA DistanceBounds ==
  ASSUME NEW a \in Slots, NEW b \in Slots
  PROVE  /\ Distance(a, b) \in 0 .. m_size - 1
         /\ Distance(a, b) = 0 <=> a = b
  BY AtLeastOneSlot DEF Distance, Slots

\* Advancing the far end adds one to a distance unless it closes the lap.
LEMMA DistanceGrows ==
  ASSUME NEW a \in Slots, NEW b \in Slots, Following(b) # a
  PROVE  Distance(a, Following(b)) = Distance(a, b) + 1
  BY AtLeastOneSlot DEF Distance, Following, Slots

\* Advancing the near end takes one off a distance that is not zero.
LEMMA DistanceShrinks ==
  ASSUME NEW a \in Slots, NEW b \in Slots, a # b
  PROVE  Distance(Following(a), b) = Distance(a, b) - 1
  BY AtLeastOneSlot DEF Distance, Following, Slots

\* What a load may return lies on the way from the value seen to the newest.
LEMMA LoadableSplits ==
  ASSUME NEW a \in Slots, NEW b \in Slots, NEW i \in Loadable(a, b)
  PROVE  /\ i \in Slots
         /\ Distance(a, b) = Distance(a, i) + Distance(i, b)
  BY AtLeastOneSlot DEF Loadable, Distance, Slots

\* Distances add up along the ring as long as they stay short of a lap.
LEMMA DistancesAdd ==
  ASSUME NEW a \in Slots, NEW b \in Slots, NEW c \in Slots,
         Distance(a, b) + Distance(b, c) < m_size
  PROVE  Distance(a, c) = Distance(a, b) + Distance(b, c)
  BY AtLeastOneSlot DEF Distance, Slots

\* The last slot before a full lap: Following(b) = a exactly at m_size - 1.
LEMMA FullDistance ==
  ASSUME NEW a \in Slots, NEW b \in Slots
  PROVE  Following(b) = a <=> Distance(a, b) = m_size - 1
  BY AtLeastOneSlot DEF Distance, Following, Slots
-----------------------------------------------------------------------------
(***************************************************************************)
(* Type correctness.                                                       *)
(***************************************************************************)

\* Every variable keeps its type: in particular no index leaves the buffer.
THEOREM TypeCorrect == Spec => []TypeOK
<1>1. Init => TypeOK
  <2>1. 0 \in Slots
    BY AtLeastOneSlot DEF Slots
  <2>2. QED
    BY <2>1 DEF Init, TypeOK
<1>2. TypeOK /\ [Next]_vars => TypeOK'
  <2> SUFFICES ASSUME TypeOK, [Next]_vars PROVE TypeOK'
    OBVIOUS
  <2> USE DEF TypeOK, pushVars, popVars
  <2>1. ASSUME NEW h \in Slots, PushRefused(h) PROVE TypeOK'
    BY <2>1 DEF PushRefused
  <2>2. ASSUME NEW h \in Slots, IsFull(h) PROVE TypeOK'
    BY <2>2 DEF IsFull
  <2>3. ASSUME NEW h \in Slots, NEW f \in Frame, PushBegin(f, h) PROVE TypeOK'
    BY <2>3 DEF PushBegin
  <2>4. ASSUME PushWrite PROVE TypeOK'
    BY <2>4 DEF PushWrite
  <2>5. ASSUME PushPublish PROVE TypeOK'
    BY <2>5, FollowingIsASlot DEF PushPublish
  <2>6. ASSUME NEW t \in Slots, PopFailed(t) PROVE TypeOK'
    BY <2>6 DEF PopFailed
  <2>7. ASSUME NEW t \in Slots, PopBegin(t) PROVE TypeOK'
    BY <2>7 DEF PopBegin
  <2>8. ASSUME NEW t \in Slots, IsEmpty(t) PROVE TypeOK'
    BY <2>8 DEF IsEmpty
  <2>9. ASSUME PopRead PROVE TypeOK'
    BY <2>9 DEF PopRead
  <2>10. ASSUME PopRetire PROVE TypeOK'
    BY <2>10, FollowingIsASlot DEF PopRetire
  <2>11. ASSUME UNCHANGED vars PROVE TypeOK'
    BY <2>11 DEF vars
  <2>12. QED
    BY <2>1, <2>2, <2>3, <2>4, <2>5, <2>6, <2>7, <2>8, <2>9, <2>10, <2>11
    DEF Next, Pusher, Popper
<1>3. QED
  BY <1>1, <1>2, PTL DEF Spec
-----------------------------------------------------------------------------
(***************************************************************************)
(* The inductive invariant.  ViewsInOrder alone is not inductive: it must  *)
(* be known that a push under way still has a free slot in the pushing     *)
(* thread's view, and a pop under way a frame in the popping thread's; the *)
(* last two conjuncts do the same for the answers of isFull and isEmpty.   *)
(***************************************************************************)
RoomClaimed == pushAt # "idle" => Following(m_tail) # headSeen
FrameClaimed == popAt # "idle" => m_head # tailSeen
RoomAnswered == sawRoom => Following(m_tail) # headSeen /\ pushResult # "full"
FrameAnswered == sawFrame => m_head # tailSeen /\ popResult # "empty"

Claims == RoomClaimed /\ FrameClaimed /\ RoomAnswered /\ FrameAnswered

IInv == TypeOK /\ ViewsInOrder /\ Claims

\* A newer head keeps the views in order and can only make room: once a slot
\* was free in the pushing thread's view, it is free in every later view.
LEMMA NewerHead ==
  ASSUME TypeOK, ViewsInOrder, NEW h \in Loadable(headSeen, m_head)
  PROVE  /\ h \in Slots
         /\ Distance(h, m_head) + Distance(m_head, tailSeen)
                + Distance(tailSeen, m_tail) < m_size
         /\ Following(m_tail) # headSeen => Following(m_tail) # h
<1> USE DEF TypeOK
<1>1. /\ h \in Slots
      /\ Distance(headSeen, m_head) = Distance(headSeen, h) + Distance(h, m_head)
  BY LoadableSplits
<1>2. Distance(h, m_head) + Distance(m_head, tailSeen)
        + Distance(tailSeen, m_tail) < m_size
  BY <1>1, AtLeastOneSlot DEF ViewsInOrder, Distance, Slots
<1>3. Following(m_tail) # headSeen => Following(m_tail) # h
  BY <1>1, AtLeastOneSlot DEF ViewsInOrder, Distance, Following, Slots
<1>4. QED
  BY <1>1, <1>2, <1>3

\* A newer tail keeps the views in order and can only show more frames.
LEMMA NewerTail ==
  ASSUME TypeOK, ViewsInOrder, NEW t \in Loadable(tailSeen, m_tail)
  PROVE  /\ t \in Slots
         /\ Distance(headSeen, m_head) + Distance(m_head, t)
                + Distance(t, m_tail) < m_size
         /\ m_head # tailSeen => m_head # t
<1> USE DEF TypeOK
<1>1. /\ t \in Slots
      /\ Distance(tailSeen, m_tail) = Distance(tailSeen, t) + Distance(t, m_tail)
  BY LoadableSplits
<1>2. Distance(m_head, t) = Distance(m_head, tailSeen) + Distance(tailSeen, t)
  BY <1>1, AtLeastOneSlot DEF ViewsInOrder, Distance, Slots
<1>3. Distance(headSeen, m_head) + Distance(m_head, t) + Distance(t, m_tail) < m_size
  BY <1>1, <1>2, AtLeastOneSlot DEF ViewsInOrder, Distance, Slots
<1>4. m_head # tailSeen => m_head # t
  BY <1>1, <1>2, DistanceBounds
<1>5. QED
  BY <1>1, <1>3, <1>4

\* Publishing a frame in a slot the pushing thread knows to be free keeps the
\* views in order.
LEMMA PublishInOrder ==
  ASSUME TypeOK, ViewsInOrder, Following(m_tail) # headSeen
  PROVE  Distance(headSeen, m_head) + Distance(m_head, tailSeen)
            + Distance(tailSeen, Following(m_tail)) < m_size
  BY AtLeastOneSlot DEF TypeOK, ViewsInOrder, Distance, Following, Slots

\* Retiring a frame the popping thread knows of keeps the views in order.
LEMMA RetireInOrder ==
  ASSUME TypeOK, ViewsInOrder, m_head # tailSeen
  PROVE  Distance(headSeen, Following(m_head)) + Distance(Following(m_head), tailSeen)
            + Distance(tailSeen, m_tail) < m_size
  BY AtLeastOneSlot DEF TypeOK, ViewsInOrder, Distance, Following, Slots

\* The strengthened invariant holds in every reachable state.
THEOREM Inductive == Spec => []IInv
<1>1. Init => IInv
  <2>1. 0 \in Slots /\ Distance(0, 0) = 0
    BY AtLeastOneSlot DEF Slots, Distance
  <2>2. Init => TypeOK
    BY <2>1 DEF Init, TypeOK
  <2>3. Init => ViewsInOrder
    BY <2>1, AtLeastOneSlot DEF Init, ViewsInOrder
  <2>4. Init => Claims
    BY DEF Init, Claims, RoomClaimed, FrameClaimed, RoomAnswered, FrameAnswered
  <2>5. QED
    BY <2>2, <2>3, <2>4 DEF IInv
<1>2. IInv /\ TypeOK' /\ [Next]_vars => IInv'
  <2> SUFFICES ASSUME IInv, TypeOK', [Next]_vars PROVE ViewsInOrder' /\ Claims'
    BY DEF IInv
  <2> USE DEF IInv, Claims, RoomClaimed, FrameClaimed, RoomAnswered, FrameAnswered,
              pushVars, popVars
  <2>1. ASSUME NEW h \in Slots, PushRefused(h) PROVE ViewsInOrder' /\ Claims'
    <3>1. h \in Loadable(headSeen, m_head) /\ headSeen' = h
      BY <2>1 DEF PushRefused
    <3>2. ViewsInOrder'
      BY <2>1, <3>1, NewerHead DEF PushRefused, ViewsInOrder
    <3>3. ~ sawRoom
      BY <2>1, <3>1, NewerHead DEF PushRefused
    <3>4. Claims'
      BY <2>1, <3>3 DEF PushRefused
    <3>5. QED
      BY <3>2, <3>4
  <2>2. ASSUME NEW h \in Slots, IsFull(h) PROVE ViewsInOrder' /\ Claims'
    <3>1. h \in Loadable(headSeen, m_head) /\ headSeen' = h
      BY <2>2 DEF IsFull
    <3>2. ViewsInOrder'
      BY <2>2, <3>1, NewerHead DEF IsFull, ViewsInOrder
    <3>3. Claims'
      BY <2>2 DEF IsFull, TypeOK
    <3>4. QED
      BY <3>2, <3>3
  <2>3. ASSUME NEW h \in Slots, NEW f \in Frame, PushBegin(f, h)
        PROVE  ViewsInOrder' /\ Claims'
    <3>1. h \in Loadable(headSeen, m_head) /\ headSeen' = h
      BY <2>3 DEF PushBegin
    <3>2. ViewsInOrder'
      BY <2>3, <3>1, NewerHead DEF PushBegin, ViewsInOrder
    <3>3. Claims'
      BY <2>3 DEF PushBegin
    <3>4. QED
      BY <3>2, <3>3
  <2>4. ASSUME PushWrite PROVE ViewsInOrder' /\ Claims'
    BY <2>4 DEF PushWrite, ViewsInOrder
  <2>5. ASSUME PushPublish PROVE ViewsInOrder' /\ Claims'
    <3>1. Following(m_tail) # headSeen
      BY <2>5 DEF PushPublish
    <3>2. ViewsInOrder'
      BY <2>5, <3>1, PublishInOrder DEF PushPublish, ViewsInOrder
    <3>3. Claims'
      BY <2>5 DEF PushPublish
    <3>4. QED
      BY <3>2, <3>3
  <2>6. ASSUME NEW t \in Slots, PopFailed(t) PROVE ViewsInOrder' /\ Claims'
    <3>1. t \in Loadable(tailSeen, m_tail) /\ tailSeen' = t
      BY <2>6 DEF PopFailed
    <3>2. ViewsInOrder'
      BY <2>6, <3>1, NewerTail DEF PopFailed, ViewsInOrder
    <3>3. ~ sawFrame
      BY <2>6, <3>1, NewerTail DEF PopFailed
    <3>4. Claims'
      BY <2>6, <3>3 DEF PopFailed
    <3>5. QED
      BY <3>2, <3>4
  <2>7. ASSUME NEW t \in Slots, PopBegin(t) PROVE ViewsInOrder' /\ Claims'
    <3>1. t \in Loadable(tailSeen, m_tail) /\ tailSeen' = t
      BY <2>7 DEF PopBegin
    <3>2. ViewsInOrder'
      BY <2>7, <3>1, NewerTail DEF PopBegin, ViewsInOrder
    <3>3. Claims'
      BY <2>7 DEF PopBegin
    <3>4. QED
      BY <3>2, <3>3
  <2>8. ASSUME NEW t \in Slots, IsEmpty(t) PROVE ViewsInOrder' /\ Claims'
    <3>1. t \in Loadable(tailSeen, m_tail) /\ tailSeen' = t
      BY <2>8 DEF IsEmpty
    <3>2. ViewsInOrder'
      BY <2>8, <3>1, NewerTail DEF IsEmpty, ViewsInOrder
    <3>3. Claims'
      BY <2>8 DEF IsEmpty, TypeOK
    <3>4. QED
      BY <3>2, <3>3
  <2>9. ASSUME PopRead PROVE ViewsInOrder' /\ Claims'
    BY <2>9 DEF PopRead, ViewsInOrder
  <2>10. ASSUME PopRetire PROVE ViewsInOrder' /\ Claims'
    <3>1. m_head # tailSeen
      BY <2>10 DEF PopRetire
    <3>2. ViewsInOrder'
      BY <2>10, <3>1, RetireInOrder DEF PopRetire, ViewsInOrder
    <3>3. Claims'
      BY <2>10 DEF PopRetire
    <3>4. QED
      BY <3>2, <3>3
  <2>11. ASSUME UNCHANGED vars PROVE ViewsInOrder' /\ Claims'
    BY <2>11 DEF vars, ViewsInOrder
  <2>12. QED
    BY <2>1, <2>2, <2>3, <2>4, <2>5, <2>6, <2>7, <2>8, <2>9, <2>10, <2>11
    DEF Next, Pusher, Popper
<1>3. QED
  BY <1>1, <1>2, TypeCorrect, PTL DEF Spec

\* For every size, no pair of stale views is ever more than a lap apart.
THEOREM OrderOfViews == Spec => []ViewsInOrder
  BY Inductive, PTL DEF IInv

\* Between the head and the tail there is a frame whenever the popping thread
\* knows of one, and never a full lap.
LEMMA UnreadBounds ==
  ASSUME IInv
  PROVE  /\ Distance(m_head, m_tail) \in 0 .. m_size - 1
         /\ m_head # tailSeen => m_head # m_tail
         /\ Following(m_tail) # headSeen => Distance(m_head, m_tail) < m_size - 1
  BY AtLeastOneSlot DEF IInv, TypeOK, ViewsInOrder, Distance, Following, Slots

\* For every size, the unlocked slot copies of push and pop never collide.
THEOREM RaceFreedom == Spec => []NoDataRace
<1>1. IInv => NoDataRace
  BY UnreadBounds DEF IInv, Claims, FrameClaimed, NoDataRace
<1>2. QED
  BY <1>1, Inductive, PTL

\* For every size, what isFull and isEmpty promised their caller is kept.
THEOREM AnswersKept == Spec => [](RoomIsKept /\ FrameIsKept)
<1>1. IInv => RoomIsKept /\ FrameIsKept
  BY DEF IInv, Claims, RoomAnswered, FrameAnswered, RoomIsKept, FrameIsKept
<1>2. QED
  BY <1>1, Inductive, PTL
-----------------------------------------------------------------------------
(***************************************************************************)
(* The ring implements BoundedQueue.  Besides IInv the proof needs to know *)
(* where the frames are: those between head and tail are frames, a written *)
(* slot holds push's argument, and pop's copy is the oldest frame.         *)
(***************************************************************************)
UnreadAreFrames ==
    \A i \in 1 .. Distance(m_head, m_tail) : m_buffer[Ahead(m_head, i - 1)] \in Frame
WrittenIsPushed ==
    /\ pushAt # "idle" => pushed \in Frame
    /\ pushAt = "publish" => m_buffer[m_tail] = pushed
CopiedIsOldest == popAt = "retire" => popped = m_buffer[m_head]

Contents == UnreadAreFrames /\ WrittenIsPushed /\ CopiedIsOldest

\* The slots of the unread frames are slots, and none of them is the tail's.
LEMMA UnreadSlots ==
  ASSUME NEW a \in Slots, NEW b \in Slots, NEW k \in 1 .. Distance(a, b)
  PROVE  /\ Ahead(a, k - 1) \in Slots
         /\ Ahead(a, k - 1) # b
         /\ k < Distance(a, b) => Ahead(Following(a), k - 1) = Ahead(a, k)
  BY AtLeastOneSlot DEF Ahead, Distance, Following, Slots

\* The slot after the unread frames is the tail's, the first is the head's.
LEMMA UnreadEnds ==
  ASSUME NEW a \in Slots, NEW b \in Slots
  PROVE  Ahead(a, Distance(a, b)) = b /\ Ahead(a, 0) = a
  BY AtLeastOneSlot DEF Ahead, Distance, Slots

\* The unread frames form a sequence of frames.
LEMMA UnreadIsASeq ==
  ASSUME IInv, Contents
  PROVE  Unread \in Seq(Frame) /\ Len(Unread) = Distance(m_head, m_tail)
<1>1. Distance(m_head, m_tail) \in Nat
  BY UnreadBounds
<1>2. Unread \in [1 .. Distance(m_head, m_tail) -> Frame]
  BY DEF Unread, Contents, UnreadAreFrames
<1>3. Unread \in Seq(Frame)
  BY <1>1, <1>2, SeqDef
<1>4. QED
  BY <1>1, <1>2, <1>3, LenProperties

\* Taking the oldest frame off the ring is the tail of the sequence.
LEMMA RetireIsTail ==
  ASSUME IInv, Contents, PopRetire
  PROVE  /\ Unread # << >>
         /\ Unread' = Tail(Unread)
         /\ delivered' = Head(Unread)
         /\ UnreadAreFrames'
<1> DEFINE d == Distance(m_head, m_tail)
<1>1. /\ m_head \in Slots /\ m_tail \in Slots
      /\ m_head' = Following(m_head) /\ m_tail' = m_tail /\ m_buffer' = m_buffer
  BY DEF PopRetire, IInv, TypeOK
<1>2. m_head # m_tail
  BY UnreadBounds DEF PopRetire, IInv, Claims, FrameClaimed
<1>3. d \in Nat /\ d >= 1
  BY <1>1, <1>2, DistanceBounds
<1>4. Distance(m_head', m_tail') = d - 1
  BY <1>1, <1>2, DistanceShrinks
<1>5. \A i \in 1 .. d - 1 : Ahead(m_head', i - 1) = Ahead(m_head, i)
  BY <1>1, <1>3, UnreadSlots
<1>6. Unread' = [i \in 1 .. d - 1 |-> m_buffer[Ahead(m_head, i)]]
  BY <1>1, <1>4, <1>5 DEF Unread
<1>7. Unread \in Seq(Frame) /\ Len(Unread) = d
  BY UnreadIsASeq
<1>8. \A i \in 1 .. d - 1 : Unread[i + 1] = m_buffer[Ahead(m_head, i)]
  BY <1>3 DEF Unread
<1>9. /\ Tail(Unread) \in Seq(Frame) /\ Len(Tail(Unread)) = d - 1
      /\ \A i \in 1 .. d - 1 : Tail(Unread)[i] = m_buffer[Ahead(m_head, i)]
  BY <1>3, <1>7, <1>8, HeadTailProperties
<1>10. Unread' = Tail(Unread)
  BY <1>6, <1>9, LenProperties
<1>11. Head(Unread) = m_buffer[m_head]
  <2>1. Head(Unread) = Unread[1]
    BY <1>3, <1>7, HeadTailProperties
  <2>2. Unread[1] = m_buffer[Ahead(m_head, 0)]
    BY <1>3 DEF Unread
  <2>3. QED
    BY <1>1, <2>1, <2>2, UnreadEnds
<1>12. delivered' = Head(Unread)
  BY <1>11 DEF PopRetire, Contents, CopiedIsOldest
<1>13. UnreadAreFrames'
  BY <1>1, <1>3, <1>4, <1>5 DEF Contents, UnreadAreFrames
<1>14. Unread # << >>
  BY <1>3, <1>7
<1>15. QED
  BY <1>10, <1>12, <1>13, <1>14

\* Publishing a frame appends it to the sequence.
LEMMA PublishIsAppend ==
  ASSUME IInv, Contents, PushPublish
  PROVE  /\ Len(Unread) < m_size - 1
         /\ pushed \in Frame
         /\ Unread' = Append(Unread, pushed)
         /\ UNCHANGED delivered
         /\ UnreadAreFrames'
<1> DEFINE d == Distance(m_head, m_tail)
<1>1. /\ m_head \in Slots /\ m_tail \in Slots
      /\ m_head' = m_head /\ m_tail' = Following(m_tail) /\ m_buffer' = m_buffer
      /\ m_buffer[m_tail] = pushed /\ pushed \in Frame
  BY DEF PushPublish, IInv, TypeOK, Contents, WrittenIsPushed
<1>2. d \in Nat /\ d < m_size - 1
  BY UnreadBounds DEF PushPublish, IInv, Claims, RoomClaimed
<1>3. Distance(m_head', m_tail') = d + 1
  BY <1>1, <1>2, FullDistance, DistanceGrows
<1>4. Ahead(m_head, d) = m_tail
  BY <1>1, UnreadEnds
<1>5. Unread' = [i \in 1 .. d + 1 |-> m_buffer[Ahead(m_head, i - 1)]]
  BY <1>1, <1>3 DEF Unread
<1>6. Unread \in Seq(Frame) /\ Len(Unread) = d
  BY UnreadIsASeq
<1>7. \A i \in 1 .. d : Unread[i] = m_buffer[Ahead(m_head, i - 1)]
  BY DEF Unread
<1>8. /\ Append(Unread, pushed) \in Seq(Frame)
      /\ Len(Append(Unread, pushed)) = d + 1
      /\ \A i \in 1 .. d : Append(Unread, pushed)[i] = m_buffer[Ahead(m_head, i - 1)]
      /\ Append(Unread, pushed)[d + 1] = pushed
  BY <1>1, <1>6, <1>7, AppendProperties
<1>9. \A i \in 1 .. d + 1 : Append(Unread, pushed)[i] = m_buffer[Ahead(m_head, i - 1)]
  BY <1>1, <1>2, <1>4, <1>8
<1>10. Unread' = Append(Unread, pushed)
  BY <1>5, <1>8, <1>9, LenProperties
<1>11. UnreadAreFrames'
  BY <1>1, <1>2, <1>3, <1>4 DEF Contents, UnreadAreFrames
<1>12. QED
  BY <1>1, <1>2, <1>6, <1>10, <1>11 DEF PushPublish, popVars

\* Copying the argument into the free slot leaves the unread frames alone.
LEMMA WriteIsInvisible ==
  ASSUME IInv, Contents, PushWrite
  PROVE  UNCHANGED <<Unread, delivered>> /\ Contents'
<1>1. /\ m_head \in Slots /\ m_tail \in Slots
      /\ m_head' = m_head /\ m_tail' = m_tail
      /\ m_buffer' = [m_buffer EXCEPT ![m_tail] = pushed]
      /\ m_buffer \in [Slots -> Frame \cup {NoFrame}]
  BY DEF PushWrite, IInv, TypeOK
<1>2. \A i \in 1 .. Distance(m_head, m_tail) :
         m_buffer'[Ahead(m_head, i - 1)] = m_buffer[Ahead(m_head, i - 1)]
  BY <1>1, UnreadSlots
<1>3. UNCHANGED Unread
  BY <1>1, <1>2 DEF Unread
<1>4. UnreadAreFrames'
  BY <1>1, <1>2 DEF Contents, UnreadAreFrames
<1>5. WrittenIsPushed'
  BY <1>1 DEF PushWrite, Contents, WrittenIsPushed
<1>6. CopiedIsOldest'
  <2>1. popAt # "idle" => m_head # m_tail
    BY UnreadBounds DEF IInv, Claims, FrameClaimed
  <2>2. QED
    BY <1>1, <2>1 DEF PushWrite, Contents, CopiedIsOldest, popVars
<1>7. QED
  BY <1>3, <1>4, <1>5, <1>6 DEF PushWrite, popVars, Contents

\* Steps that touch neither the indices nor the slots leave the queue alone.
LEMMA OthersAreInvisible ==
  ASSUME IInv, Contents,
         \/ \E h \in Slots : PushRefused(h) \/ IsFull(h) \/ \E f \in Frame : PushBegin(f, h)
         \/ \E t \in Slots : PopFailed(t) \/ PopBegin(t) \/ IsEmpty(t)
         \/ PopRead
         \/ UNCHANGED vars
  PROVE  UNCHANGED <<Unread, delivered>> /\ Contents'
<1>1. UNCHANGED <<m_buffer, m_head, m_tail, delivered>>
  BY DEF PushRefused, IsFull, PushBegin, PopFailed, PopBegin, IsEmpty, PopRead,
         vars, pushVars, popVars
<1>2. UNCHANGED Unread /\ UnreadAreFrames'
  BY <1>1 DEF Unread, Contents, UnreadAreFrames
<1>3. WrittenIsPushed'
  BY <1>1 DEF PushRefused, IsFull, PushBegin, PopFailed, PopBegin, IsEmpty, PopRead,
              vars, pushVars, popVars, Contents, WrittenIsPushed
<1>4. CopiedIsOldest'
  BY <1>1 DEF PushRefused, IsFull, PushBegin, PopFailed, PopBegin, IsEmpty, PopRead,
              vars, pushVars, popVars, Contents, CopiedIsOldest
<1>5. QED
  BY <1>1, <1>2, <1>3, <1>4 DEF Contents

\* Every step keeps the frames where they belong and is a step of the queue.
LEMMA StepRefines ==
  ASSUME IInv, Contents, [Next]_vars
  PROVE  [Queue!Next]_(Queue!queueVars) /\ Contents'
<1> USE DEF Queue!Next, Queue!Put, Queue!Get, Queue!queueVars
<1>1. CASE PopRetire
  <2>1. Contents'
    BY <1>1, RetireIsTail DEF PopRetire, pushVars, Contents, WrittenIsPushed, CopiedIsOldest
  <2>2. QED
    BY <1>1, <2>1, RetireIsTail
<1>2. CASE PushPublish
  <2>1. Contents'
    BY <1>2, PublishIsAppend DEF PushPublish, popVars, Contents, WrittenIsPushed, CopiedIsOldest
  <2>2. QED
    BY <1>2, <2>1, PublishIsAppend
<1>3. CASE PushWrite
  BY <1>3, WriteIsInvisible
<1>4. CASE ~ (PopRetire \/ PushPublish \/ PushWrite)
  BY <1>4, OthersAreInvisible DEF Next, Pusher, Popper
<1>5. QED
  BY <1>1, <1>2, <1>3, <1>4

\* The empty ring is an empty queue.
LEMMA EmptyAtFirst ==
  ASSUME Init
  PROVE  Unread = << >> /\ Contents
<1>1. Distance(m_head, m_tail) = 0
  BY AtLeastOneSlot DEF Init, Slots, Distance
<1>2. QED
  BY <1>1 DEF Init, Unread, Contents, UnreadAreFrames, WrittenIsPushed, CopiedIsOldest

\* For every size and every set of frames, no unread slot is one that was never
\* written, the slot push wrote holds its argument and pop's copy is the slot at
\* the head.  Which frames these are, and in what order, is ImplementsQueue's.
LEMMA ContentsKept == Spec => []Contents
<1>1. IInv /\ Contents /\ [Next]_vars => Contents'
  BY StepRefines
<1>2. QED
  BY <1>1, EmptyAtFirst, Inductive, PTL DEF Spec

\* For every size and every set of frames, the ring implements a first-in
\* first-out queue of m_size - 1 frames (its safety part: DeliversAll, the
\* liveness part, is model-checked only).
THEOREM ImplementsQueue == Spec => IsAQueue
<1>1. Init => Queue!Init
  BY EmptyAtFirst DEF Init, Queue!Init
<1>2. IInv /\ Contents /\ [Next]_vars => [Queue!Next]_(Queue!queueVars)
  BY StepRefines
<1>3. QED
  BY <1>1, <1>2, ContentsKept, Inductive, PTL DEF Spec, IsAQueue, Queue!SafeSpec
=============================================================================

--------------------------- MODULE PipelineProofs ---------------------------
(***************************************************************************)
(* Proofs about CanPipeline for any ring size, frames and bounds: the      *)
(* pipeline uses the ring as RingBuffer allows, so all that is proved of   *)
(* the ring holds in it, and no frame is lost track of.                    *)
(***************************************************************************)
EXTENDS CanPipeline, RingBufferProofs

\* What the reader thread needs to push frames only.
ReaderInv ==
    /\ socket \in Seq(Frame)
    /\ producer = "push" => myFrame \in Frame

LEMMA ReaderStable ==
    ReaderInv /\ UNCHANGED <<socket, producer, myFrame>> => ReaderInv'
BY DEF ReaderInv

LEMMA ReaderInductive ==
    ASSUME ReaderInv, [PipelineNext]_pipelineVars
    PROVE  ReaderInv'
<1>1. ASSUME NEW f \in Frame, BusFrame(f)
      PROVE  ReaderInv'
  BY <1>1 DEF BusFrame, ReaderInv
<1>2. CASE ProducerRead
  BY <1>2 DEF ProducerRead, ReaderInv
<1>3. CASE ProducerCheck \/ ProducerReadNothing \/ ProducerDrop
  BY <1>3 DEF ProducerCheck, ProducerReadNothing, ProducerDrop, bus, ReaderInv
<1>4. CASE ProducerPush
  BY <1>4 DEF ProducerPush, bus, ReaderInv
<1>5. CASE Consumer \/ Monitor \/ Sigint
  BY <1>5, ReaderStable
     DEF Consumer, ConsumerCheck, ConsumerPop, ConsumerHandleKnown, ConsumerHandleOther,
         Monitor, MonitorCheck, MonitorLoadRec, MonitorLoadDrop, Sigint, bus
<1>6. CASE UNCHANGED pipelineVars
  BY <1>6, ReaderStable DEF pipelineVars, bus
<1> QED
  BY <1>1, <1>2, <1>3, <1>4, <1>5, <1>6 DEF PipelineNext, Producer, Environment

\* Every step of the program is a step of the ring or leaves it alone.
LEMMA StepOfTheRing ==
    ASSUME ReaderInv, [PipelineNext]_pipelineVars
    PROVE  [Next]_vars
<1>1. CASE ProducerPush
  <2>1. myFrame \in Frame
    BY <1>1 DEF ProducerPush, ReaderInv
  <2> QED
    BY <1>1, <2>1 DEF ProducerPush, Next, Pusher
<1>2. CASE ConsumerPop
  BY <1>2 DEF ConsumerPop, Next, Popper
<1>3. CASE UNCHANGED pipelineVars
  BY <1>3 DEF pipelineVars
<1>4. CASE PipelineNext /\ ~ ProducerPush /\ ~ ConsumerPop
  BY <1>4
     DEF PipelineNext, Producer, Consumer, Monitor, Environment, BusFrame, Sigint,
         ProducerCheck, ProducerRead, ProducerReadNothing, ProducerDrop, ConsumerCheck,
         ConsumerHandleKnown, ConsumerHandleOther, MonitorCheck, MonitorLoadRec,
         MonitorLoadDrop
<1> QED
  BY <1>1, <1>2, <1>3, <1>4

\* The two CAN threads use the ring as one pushing and one popping thread.
THEOREM PipelineUsesRing == PipelineSpec => Spec
<1>1. PipelineInit => Init /\ ReaderInv
  BY DEF PipelineInit, ReaderInv
<1> QED
  BY <1>1, ReaderInductive, StepOfTheRing, PTL DEF PipelineSpec, Spec

\* So in the running program, too, no slot is written while it is read, and
\* the unread frames are a first-in first-out queue.
THEOREM PipelineInheritsRing == PipelineSpec => []NoDataRace /\ IsAQueue
BY PipelineUsesRing, RaceFreedom, ImplementsQueue, PTL
-----------------------------------------------------------------------------
\* The frames in the ring, as a number.
Waiting == Distance(m_head, m_tail)

LEMMA LengthOfUnread == ASSUME TypeOK PROVE Len(Unread) = Waiting /\ Waiting \in Nat
<1>1. Waiting \in Nat
  BY DistanceBounds, AtLeastOneSlot DEF TypeOK, Waiting
<1> HIDE DEF Waiting
<1> QED
  BY <1>1 DEF Unread, Waiting

\* The accounting, in numbers, and the types it needs.
AccountInv ==
    /\ g_total_received \in Nat
    /\ g_total_dropped \in Nat
    /\ handled \in Seq(Frame \cup {NoFrame})
    /\ g_total_received = InReader + g_total_dropped + Waiting + InParser + Len(handled)

\* What the accounting is about.
accountVars == <<counters, handled, producer, consumer, m_head, m_tail>>

LEMMA AccountStable == AccountInv /\ UNCHANGED accountVars => AccountInv'
BY DEF AccountInv, accountVars, counters, InReader, InParser, Waiting

\* A published frame is one more in the ring, a retired one is one less.
LEMMA WaitingChanges ==
    ASSUME IInv
    PROVE  /\ PushPublish => Waiting' = Waiting + 1
           /\ PopRetire => Waiting' = Waiting - 1
<1>1. m_head \in Slots /\ m_tail \in Slots
  BY DEF IInv, TypeOK
<1>2. ASSUME PushPublish
      PROVE  Waiting' = Waiting + 1
  <2>1. Following(m_tail) # m_head
    <3>1. Following(m_tail) # headSeen
      BY <1>2 DEF PushPublish, IInv, Claims, RoomClaimed
    <3> QED
      BY <3>1, <1>1, UnreadBounds, FullDistance, AtLeastOneSlot
  <2> QED
    BY <1>1, <1>2, <2>1, DistanceGrows DEF PushPublish, Waiting
<1>3. ASSUME PopRetire
      PROVE  Waiting' = Waiting - 1
  <2>1. m_head # m_tail
    BY <1>3, UnreadBounds DEF PopRetire, IInv, Claims, FrameClaimed
  <2> QED
    BY <1>1, <1>3, <2>1, DistanceShrinks DEF PopRetire, Waiting
<1> QED
  BY <1>2, <1>3

LEMMA AccountInductive ==
    ASSUME IInv, AccountInv, [PipelineNext]_pipelineVars
    PROVE  AccountInv'
<1>0. Waiting \in Nat
  BY LengthOfUnread DEF IInv
<1> USE DEF InReader, InParser, counters
<1>1. CASE ProducerRead
  <2>1. /\ producer = "read" /\ producer' = "push"
        /\ g_total_received' = g_total_received + 1
        /\ UNCHANGED <<g_total_dropped, consumer, handled, m_head, m_tail>>
    BY <1>1 DEF ProducerRead, vars, parser
  <2>2. Waiting' = Waiting
    BY <2>1 DEF Waiting
  <2> HIDE DEF Waiting
  <2> QED
    BY <1>0, <2>1, <2>2 DEF AccountInv
<1>2. CASE ProducerPush
  <2>1. CASE PushPublish /\ producer' = "check"
    <3>1. Waiting' = Waiting + 1
      BY <2>1, WaitingChanges
    <3>2. /\ producer = "push" /\ producer' = "check"
          /\ UNCHANGED <<g_total_received, g_total_dropped, consumer, handled>>
      BY <1>2, <2>1 DEF ProducerPush, parser
    <3> HIDE DEF Waiting
    <3> QED
      BY <1>0, <3>1, <3>2 DEF AccountInv
  <2>2. CASE ~ PushPublish
    <3>1. /\ producer' \in {"push", "drop"} /\ producer = "push"
          /\ UNCHANGED <<g_total_received, g_total_dropped, consumer, handled, m_head, m_tail>>
      BY <1>2, <2>2 DEF ProducerPush, parser, PushBegin, PushWrite, PushRefused
    <3> QED
      BY <3>1 DEF AccountInv, Waiting
  <2>3. CASE PushPublish /\ producer' # "check"
    BY <1>2, <2>3 DEF ProducerPush, PushPublish, PushBegin, PushWrite, PushRefused
  <2> QED
    BY <2>1, <2>2, <2>3
<1>3. CASE ProducerDrop
  BY <1>0, <1>3 DEF ProducerDrop, vars, parser, AccountInv, Waiting
<1>4. CASE ConsumerPop
  <2>1. CASE PopRetire /\ consumer' = "handle"
    <3>1. Waiting' = Waiting - 1
      BY <2>1, WaitingChanges
    <3>2. /\ consumer = "pop" /\ consumer' = "handle"
          /\ UNCHANGED <<g_total_received, g_total_dropped, producer, handled>>
      BY <1>4, <2>1 DEF ConsumerPop, parser
    <3> HIDE DEF Waiting
    <3> QED
      BY <1>0, <3>1, <3>2 DEF AccountInv
  <2>2. CASE ~ PopRetire
    <3>1. /\ consumer' \in {"pop", "check"} /\ consumer = "pop"
          /\ UNCHANGED <<g_total_received, g_total_dropped, producer, handled, m_head, m_tail>>
      BY <1>4, <2>2 DEF ConsumerPop, parser, PopBegin, PopRead, PopFailed
    <3> QED
      BY <3>1 DEF AccountInv, Waiting
  <2>3. CASE PopRetire /\ consumer' # "handle"
    BY <1>4, <2>3 DEF ConsumerPop, PopRetire, PopBegin, PopRead, PopFailed
  <2> QED
    BY <2>1, <2>2, <2>3
<1>5. CASE ConsumerHandleKnown \/ ConsumerHandleOther
  <2>1. /\ consumer = "handle" /\ consumer' = "check"
        /\ handled' = Append(handled, delivered)
        /\ UNCHANGED <<g_total_received, g_total_dropped, producer, m_head, m_tail>>
    BY <1>5 DEF ConsumerHandleKnown, ConsumerHandleOther, vars
  <2>2. delivered \in Frame \cup {NoFrame}
    BY DEF IInv, TypeOK
  <2>3. handled' \in Seq(Frame \cup {NoFrame}) /\ Len(handled') = Len(handled) + 1
    BY <2>1, <2>2 DEF AccountInv
  <2>4. Waiting' = Waiting /\ Len(handled) \in Nat
    BY <2>1 DEF Waiting, AccountInv
  <2> HIDE DEF Waiting
  <2> QED
    BY <1>0, <2>1, <2>3, <2>4 DEF AccountInv
<1>6. CASE ProducerCheck \/ ProducerReadNothing \/ ConsumerCheck
  <2>1. /\ UNCHANGED <<g_total_received, g_total_dropped, handled, m_head, m_tail>>
        /\ InReader' = InReader /\ InParser' = InParser
    BY <1>6 DEF ProducerCheck, ProducerReadNothing, ConsumerCheck, vars, parser
  <2> QED
    BY <2>1 DEF AccountInv, Waiting
<1>7. CASE Monitor \/ Environment \/ UNCHANGED pipelineVars
  BY <1>7, AccountStable
     DEF Monitor, MonitorCheck, MonitorLoadRec, MonitorLoadDrop, Environment, BusFrame,
         Sigint, pipelineVars, vars, parser, accountVars
<1> QED
  BY <1>1, <1>2, <1>3, <1>4, <1>5, <1>6, <1>7 DEF PipelineNext, Producer, Consumer

\* For every ring size and any number of frames: whatever the two threads'
\* interleaving, the reader's count is the sum of the dropped, the waiting and
\* the handled frames and those in the threads' hands.
THEOREM FramesAccounted == PipelineSpec => []EveryFrameAccounted
<1>1. PipelineInit => AccountInv
  <2>1. PipelineInit => Waiting = 0
    BY AtLeastOneSlot DEF PipelineInit, Init, Waiting, Distance
  <2> QED
    BY <2>1 DEF PipelineInit, AccountInv, InReader, InParser
<1>2. IInv /\ AccountInv => EveryFrameAccounted
  BY LengthOfUnread DEF IInv, AccountInv, EveryFrameAccounted
<1>3. PipelineSpec => []IInv
  BY PipelineUsesRing, Inductive, PTL
<1> QED
  BY <1>1, <1>2, <1>3, AccountInductive, PTL DEF PipelineSpec
-----------------------------------------------------------------------------
(***************************************************************************)
(* The types.                                                              *)
(***************************************************************************)

\* What PipelineTypeOK says of the threads' own variables.
ThreadTypes ==
    /\ socket \in Seq(Frame)
    /\ producer \in {"check", "read", "push", "drop", "done"}
    /\ myFrame \in Frame \cup {NoFrame}
    /\ consumer \in {"check", "pop", "handle", "done"}
    /\ monitor \in {"check", "loadRec", "loadDrop", "done"}
    /\ sent \in Nat /\ stale \in Nat
    /\ m_total_frames \in Nat /\ m_valid_frames \in Nat
    /\ display_divider \in Nat

\* The monitor's samples are not ahead of the counters they are taken from.
SamplesBehind ==
    /\ g_total_received \in Nat /\ g_total_dropped \in Nat
    /\ rec \in 0 .. g_total_received
    /\ drop \in 0 .. g_total_dropped

\* Only the signal handler writes g_running.
LEMMA RunningIsBoolean ==
    ASSUME g_running \in BOOLEAN, [PipelineNext]_pipelineVars
    PROVE  g_running' \in BOOLEAN
<1>1. CASE Sigint
  BY <1>1, Zenon DEF Sigint
<1>2. CASE ~ Sigint
  <2>1. g_running' = g_running
    BY <1>2, Zenon
       DEF PipelineNext, Producer, Consumer, Monitor, Environment, BusFrame, ProducerCheck,
           ProducerRead, ProducerReadNothing, ProducerPush, ProducerDrop, ConsumerCheck,
           ConsumerPop, ConsumerHandleKnown, ConsumerHandleOther, MonitorCheck,
           MonitorLoadRec, MonitorLoadDrop, pipelineVars
  <2> QED
    BY <2>1, Zenon
<1> QED
  BY <1>1, <1>2, Zenon

LEMMA ThreadTypesInductive ==
    ASSUME ThreadTypes, [PipelineNext]_pipelineVars
    PROVE  ThreadTypes'
<1> USE DEF ThreadTypes, bus, parser, sampler
<1>1. ASSUME NEW f \in Frame, BusFrame(f)
      PROVE  ThreadTypes'
  BY <1>1 DEF BusFrame
<1>2. CASE Sigint
  BY <1>2 DEF Sigint
<1>3. CASE ProducerRead
  BY <1>3 DEF ProducerRead
<1>4. CASE ProducerCheck \/ ProducerReadNothing \/ ProducerDrop
  BY <1>4 DEF ProducerCheck, ProducerReadNothing, ProducerDrop
<1>5. CASE ProducerPush
  BY <1>5 DEF ProducerPush
<1>6. CASE ConsumerCheck \/ ConsumerPop
  BY <1>6 DEF ConsumerCheck, ConsumerPop
<1>7. CASE ConsumerHandleKnown
  BY <1>7 DEF ConsumerHandleKnown
<1>8. CASE ConsumerHandleOther
  BY <1>8 DEF ConsumerHandleOther
<1>9. CASE Monitor
  BY <1>9 DEF Monitor, MonitorCheck, MonitorLoadRec, MonitorLoadDrop
<1>10. CASE UNCHANGED pipelineVars
  BY <1>10 DEF pipelineVars
<1> QED
  BY <1>1, <1>2, <1>3, <1>4, <1>5, <1>6, <1>7, <1>8, <1>9, <1>10
     DEF PipelineNext, Producer, Consumer, Environment

LEMMA SamplesInductive ==
    ASSUME SamplesBehind, [PipelineNext]_pipelineVars
    PROVE  SamplesBehind'
<1> USE DEF SamplesBehind
<1>1. CASE ProducerRead
  BY <1>1 DEF ProducerRead, sampler
<1>2. CASE ProducerDrop
  BY <1>2 DEF ProducerDrop, sampler
<1>3. CASE MonitorLoadRec
  BY <1>3 DEF MonitorLoadRec, counters
<1>4. CASE MonitorLoadDrop
  BY <1>4 DEF MonitorLoadDrop, counters
<1>5. CASE PipelineNext /\ ~ ProducerRead /\ ~ ProducerDrop
           /\ ~ MonitorLoadRec /\ ~ MonitorLoadDrop
  BY <1>5
     DEF PipelineNext, Producer, Consumer, Monitor, Environment, BusFrame, Sigint,
         ProducerCheck, ProducerReadNothing, ProducerPush, ConsumerCheck, ConsumerPop,
         ConsumerHandleKnown, ConsumerHandleOther, MonitorCheck, counters, sampler
<1>6. CASE UNCHANGED pipelineVars
  BY <1>6 DEF pipelineVars, counters, sampler
<1> QED
  BY <1>1, <1>2, <1>3, <1>4, <1>5, <1>6
-----------------------------------------------------------------------------
(***************************************************************************)
(* The monitor's rate.  A refused push has seen a full ring; the frames in *)
(* it and those popped since the reader thread last looked are at least    *)
(* m_size - 1 frames that were received and not dropped.                   *)
(***************************************************************************)
RateInv ==
    /\ InParser + Len(handled) >= Distance(headSeen, m_head)
    /\ producer = "drop" => Following(m_tail) = headSeen
    /\ g_total_dropped > 0 => g_total_received - g_total_dropped >= m_size - 1

\* A frame about to be counted as dropped has m_size - 1 others before it.
LEMMA DropAfterFull ==
    ASSUME IInv, AccountInv, RateInv, producer = "drop"
    PROVE  g_total_received - (g_total_dropped + 1) >= m_size - 1
<1>1. /\ headSeen \in Slots /\ m_head \in Slots /\ m_tail \in Slots
      /\ tailSeen \in Slots
  BY DEF IInv, TypeOK
<1>2. Distance(headSeen, m_tail) = m_size - 1
  BY <1>1, FullDistance DEF RateInv
<1>3. Distance(headSeen, m_tail) = Distance(headSeen, m_head) + Waiting
  BY <1>1, AtLeastOneSlot DEF IInv, ViewsInOrder, Waiting, Distance, Slots
<1>4. Waiting \in Nat /\ Distance(headSeen, m_head) \in Nat
  BY <1>1, DistanceBounds, AtLeastOneSlot DEF Waiting
<1>5. g_total_received = 1 + g_total_dropped + Waiting + InParser + Len(handled)
  BY DEF AccountInv, InReader
<1>6. Len(handled) \in Nat /\ InParser \in Nat /\ g_total_dropped \in Nat
  BY DEF AccountInv, InParser
<1> HIDE DEF Waiting, InParser
<1> QED
  BY <1>2, <1>3, <1>4, <1>5, <1>6, AtLeastOneSlot DEF RateInv

\* What RateInv is about, but for the counters.
rateVars == <<handled, producer, consumer, m_head, m_tail, headSeen>>

LEMMA RateStable == RateInv /\ UNCHANGED <<rateVars, counters>> => RateInv'
BY DEF RateInv, rateVars, counters, InParser

\* Looking at the head again only brings it nearer.
LEMMA LookingIsNearer ==
    ASSUME TypeOK, NEW h \in Loadable(headSeen, m_head)
    PROVE  Distance(headSeen, m_head) >= Distance(h, m_head)
<1>1. /\ h \in Slots /\ headSeen \in Slots /\ m_head \in Slots
      /\ Distance(headSeen, m_head) = Distance(headSeen, h) + Distance(h, m_head)
  BY LoadableSplits DEF TypeOK
<1>2. Distance(headSeen, h) \in Nat /\ Distance(h, m_head) \in Nat
  BY <1>1, DistanceBounds, AtLeastOneSlot
<1> QED
  BY <1>1, <1>2

LEMMA RateInductive ==
    ASSUME IInv, AccountInv, RateInv, [PipelineNext]_pipelineVars
    PROVE  RateInv'
<1> DEFINE near == Distance(headSeen, m_head)
<1>0. /\ TypeOK /\ near \in Nat /\ InParser \in Nat /\ Len(handled) \in Nat
      /\ g_total_received \in Nat /\ g_total_dropped \in Nat
      /\ headSeen \in Slots /\ m_head \in Slots /\ m_tail \in Slots
  BY DistanceBounds, AtLeastOneSlot DEF IInv, TypeOK, AccountInv, InParser
<1>1. CASE ProducerRead
  <2>1. /\ producer' = "push" /\ g_total_received' = g_total_received + 1
        /\ UNCHANGED <<g_total_dropped, consumer, handled, m_head, m_tail, headSeen>>
    BY <1>1 DEF ProducerRead, vars, pushVars, parser
  <2> QED
    BY <1>0, <2>1, AtLeastOneSlot DEF RateInv, InParser
<1>2. CASE ProducerPush
  <2>1. UNCHANGED <<g_total_received, g_total_dropped, consumer, handled>>
    BY <1>2 DEF ProducerPush, parser, counters
  <2>2. UNCHANGED m_head
    BY <1>2 DEF ProducerPush, PushBegin, PushWrite, PushPublish, PushRefused
  <2>3. near >= Distance(headSeen', m_head)
    <3>1. CASE headSeen' = headSeen
      BY <1>0, <3>1
    <3>2. CASE headSeen' # headSeen
      <4>1. headSeen' \in Loadable(headSeen, m_head)
        BY <1>2, <3>2 DEF ProducerPush, PushBegin, PushWrite, PushPublish, PushRefused
      <4> QED
        BY <1>0, <4>1, LookingIsNearer
    <3> QED
      BY <3>1, <3>2
  <2>4. producer' = "drop" => Following(m_tail') = headSeen'
    BY <1>2 DEF ProducerPush, PushBegin, PushWrite, PushPublish, PushRefused
  <2>5. headSeen' \in Slots
    BY <1>0, <1>2 DEF ProducerPush, PushBegin, PushWrite, PushPublish, PushRefused
  <2>6. Distance(headSeen', m_head) \in Nat
    BY <1>0, <2>5, DistanceBounds, AtLeastOneSlot
  <2>7. InParser' = InParser
    BY <2>1 DEF InParser
  <2>8. InParser' + Len(handled') >= Distance(headSeen', m_head')
    <3> HIDE DEF InParser
    <3>1. InParser + Len(handled) >= near
      BY DEF RateInv
    <3>2. InParser + Len(handled) >= Distance(headSeen', m_head)
      BY <1>0, <2>3, <2>6, <3>1
    <3> QED
      BY <2>1, <2>2, <2>7, <3>2
  <2> QED
    BY <2>1, <2>4, <2>8 DEF RateInv
<1>3. CASE ProducerDrop
  <2>1. /\ producer = "drop" /\ producer' = "check"
        /\ g_total_dropped' = g_total_dropped + 1
        /\ UNCHANGED <<g_total_received, consumer, handled, m_head, m_tail, headSeen>>
    BY <1>3 DEF ProducerDrop, vars, pushVars, parser
  <2>2. g_total_received - (g_total_dropped + 1) >= m_size - 1
    BY <2>1, DropAfterFull
  <2> QED
    BY <2>1, <2>2 DEF RateInv, InParser
<1>4. CASE ConsumerPop
  <2>1. UNCHANGED <<g_total_received, g_total_dropped, producer, handled, m_tail, headSeen>>
    BY <1>4
       DEF ConsumerPop, parser, counters, PopBegin, PopRead, PopRetire, PopFailed, pushVars
  <2>2. CASE PopRetire /\ consumer' = "handle"
    <3>1. consumer = "pop" /\ InParser = 0 /\ InParser' = 1
      BY <1>4, <2>2 DEF ConsumerPop, InParser
    <3>2. m_head' = Following(m_head) /\ Following(m_head) # headSeen
      <4>1. m_head # m_tail
        BY <2>2, UnreadBounds DEF PopRetire, IInv, Claims, FrameClaimed
      <4> QED
        BY <1>0, <2>2, <4>1, AtLeastOneSlot
           DEF PopRetire, IInv, ViewsInOrder, Distance, Following, Slots, TypeOK
    <3>3. Distance(headSeen', m_head') = near + 1
      BY <1>0, <2>1, <3>2, DistanceGrows
    <3>4. InParser' + Len(handled') >= Distance(headSeen', m_head')
      <4>1. InParser + Len(handled) >= near
        BY DEF RateInv
      <4> HIDE DEF InParser, near
      <4> QED
        BY <1>0, <2>1, <3>1, <3>3, <4>1
    <3> QED
      BY <2>1, <3>4 DEF RateInv
  <2>3. CASE ~ PopRetire
    <3>1. consumer = "pop" /\ consumer' # "handle" /\ m_head' = m_head
      BY <1>4, <2>3 DEF ConsumerPop, PopBegin, PopRead, PopFailed
    <3> QED
      BY <2>1, <3>1 DEF RateInv, InParser
  <2>4. CASE PopRetire /\ consumer' # "handle"
    BY <1>4, <2>4 DEF ConsumerPop, PopRetire, PopBegin, PopRead, PopFailed
  <2> QED
    BY <2>2, <2>3, <2>4
<1>5. CASE ConsumerHandleKnown \/ ConsumerHandleOther
  <2>1. /\ consumer = "handle" /\ consumer' = "check"
        /\ handled' = Append(handled, delivered)
        /\ UNCHANGED <<g_total_received, g_total_dropped, producer, m_head, m_tail, headSeen>>
    BY <1>5 DEF ConsumerHandleKnown, ConsumerHandleOther, vars, pushVars, counters
  <2>2. Len(handled') = Len(handled) + 1
    BY <2>1 DEF AccountInv
  <2> HIDE DEF near
  <2> QED
    BY <1>0, <2>1, <2>2 DEF RateInv, InParser
<1>6. CASE ProducerCheck \/ ProducerReadNothing \/ ConsumerCheck
  <2>1. /\ UNCHANGED <<g_total_received, g_total_dropped, handled, m_head, m_tail, headSeen>>
        /\ InParser' = InParser
        /\ producer' = producer \/ producer' # "drop"
    BY <1>6
       DEF ProducerCheck, ProducerReadNothing, ConsumerCheck, vars, pushVars, parser,
           counters, InParser
  <2> QED
    BY <2>1 DEF RateInv
<1>7. CASE Monitor \/ Environment \/ UNCHANGED pipelineVars
  BY <1>7, RateStable
     DEF Monitor, MonitorCheck, MonitorLoadRec, MonitorLoadDrop, Environment, BusFrame,
         Sigint, pipelineVars, vars, pushVars, parser, rateVars
<1> QED
  BY <1>1, <1>2, <1>3, <1>4, <1>5, <1>6, <1>7 DEF PipelineNext, Producer, Consumer

\* For every ring size: the monitor, which loads the drop counter after the
\* receive counter, computes a drop rate above 100 % only if m_size frames or
\* more have been received since its first load.
THEOREM RateBounded == PipelineSpec => []RateIsSane
<1> DEFINE All == AccountInv /\ RateInv /\ SamplesBehind
<1>1. PipelineInit => All
  <2>1. PipelineInit => Waiting = 0 /\ Distance(headSeen, m_head) = 0
    BY AtLeastOneSlot DEF PipelineInit, Init, Waiting, Distance
  <2> QED
    BY <2>1 DEF PipelineInit, AccountInv, RateInv, SamplesBehind, InReader, InParser
<1>2. IInv /\ All /\ [PipelineNext]_pipelineVars => All'
  BY AccountInductive, RateInductive, SamplesInductive
<1>3. All => RateIsSane
  BY AtLeastOneSlot DEF RateInv, SamplesBehind, RateIsSane
<1>4. PipelineSpec => []IInv
  BY PipelineUsesRing, Inductive, PTL
<1> HIDE DEF All
<1> QED
  BY <1>1, <1>2, <1>3, <1>4, PTL DEF PipelineSpec
-----------------------------------------------------------------------------
\* A frame that has been handed over is one from the socket, not the content of
\* a slot that was never written.
HandedOver ==
    /\ consumer = "handle" => delivered \in Frame
    /\ handled \in Seq(Frame)
LEMMA HandedOverInductive ==
    ASSUME IInv, Contents, HandedOver, [PipelineNext]_pipelineVars
    PROVE  HandedOver'
<1> USE DEF HandedOver
<1>1. CASE ConsumerPop
  <2>1. handled' = handled
    BY <1>1 DEF ConsumerPop, parser
  <2>2. CASE PopRetire
    <3>1. /\ Unread \in Seq(Frame) /\ Unread # << >>
          /\ delivered' = Head(Unread)
      BY <2>2, UnreadIsASeq, RetireIsTail
    <3> HIDE DEF Unread
    <3>2. delivered' \in Frame
      BY <3>1
    <3> QED
      BY <2>1, <3>2
  <2>3. CASE ~ PopRetire
    BY <1>1, <2>1, <2>3 DEF ConsumerPop, PopBegin, PopRead, PopFailed
  <2> QED
    BY <2>2, <2>3
<1>2. CASE ConsumerHandleKnown \/ ConsumerHandleOther
  BY <1>2 DEF ConsumerHandleKnown, ConsumerHandleOther
<1>3. CASE ConsumerCheck
  BY <1>3 DEF ConsumerCheck
<1>4. CASE Producer \/ Monitor \/ Environment \/ UNCHANGED pipelineVars
  <2>1. UNCHANGED <<delivered, consumer, handled>>
    BY <1>4
       DEF Producer, Monitor, Environment, BusFrame, Sigint, ProducerCheck, ProducerRead,
           ProducerReadNothing, ProducerPush, ProducerDrop, PushBegin, PushWrite,
           PushPublish, PushRefused, MonitorCheck, MonitorLoadRec, MonitorLoadDrop,
           vars, popVars, parser, pipelineVars
  <2> QED
    BY <2>1
<1> QED
  BY <1>1, <1>2, <1>3, <1>4 DEF PipelineNext, Consumer

\* For every ring size and any frames: every variable of the threads keeps its
\* type; above all, the parser is only ever given frames from the socket.
THEOREM PipelineTyped == PipelineSpec => []PipelineTypeOK
<1> DEFINE All == ThreadTypes /\ SamplesBehind /\ HandedOver /\ g_running \in BOOLEAN
<1>1. PipelineInit => All
  BY DEF PipelineInit, ThreadTypes, SamplesBehind, HandedOver
<1>2. IInv /\ Contents /\ All /\ [PipelineNext]_pipelineVars => All'
  BY ThreadTypesInductive, SamplesInductive, HandedOverInductive, RunningIsBoolean, Zenon
<1>3. IInv /\ All => PipelineTypeOK
  <2>1. SamplesBehind => {rec, drop, g_total_received, g_total_dropped} \subseteq Nat
    BY DEF SamplesBehind
  <2>2. ThreadTypes => {sent, m_total_frames, m_valid_frames, display_divider, stale}
                            \subseteq Nat
    BY DEF ThreadTypes
  <2> QED
    BY <2>1, <2>2, Zenon DEF IInv, PipelineTypeOK, ThreadTypes, HandedOver
<1>4. PipelineSpec => []IInv /\ []Contents
  BY PipelineUsesRing, Inductive, ContentsKept, PTL
<1> HIDE DEF All
<1> QED
  BY <1>1, <1>2, <1>3, <1>4, PTL DEF PipelineSpec
-----------------------------------------------------------------------------
(***************************************************************************)
(* The pipeline is a channel.  Its four places hold sequences of frames;   *)
(* what moves from one to the next keeps its place in the whole.           *)
(***************************************************************************)

\* A place that gains a frame at its end.
LEMMA JoinAppend ==
    ASSUME NEW S, NEW x \in Seq(S), NEW y \in Seq(S), NEW f \in S
    PROVE  /\ x \o Append(y, f) = Append(x \o y, f)
           /\ x \o Append(y, f) = (x \o y) \o <<f>>
<1>1. <<f>> \in Seq(S) /\ Append(y, f) = y \o <<f>>
  OBVIOUS
<1>2. x \o y \in Seq(S)
  BY ConcatProperties
<1>3. Append(x \o y, f) = (x \o y) \o <<f>>
  BY <1>2
<1> QED
  BY <1>1, <1>3, ConcatAssociative

\* A place whose oldest frame goes to the place before it.
LEMMA JoinHead ==
    ASSUME NEW S, NEW x \in Seq(S), NEW y \in Seq(S), y # << >>
    PROVE  (x \o <<Head(y)>>) \o Tail(y) = x \o y
<1>1. <<Head(y)>> \in Seq(S) /\ Tail(y) \in Seq(S)
  BY HeadTailProperties
<1>2. <<Head(y)>> \o Tail(y) = y
  OBVIOUS
<1> QED
  BY <1>1, <1>2, ConcatAssociative

\* s without its k-th frame.
Without(s, k) == SubSeq(s, 1, k - 1) \o SubSeq(s, k + 1, Len(s))

\* A place of one frame that is emptied, with x before and y after it.
LEMMA JoinRemoved ==
    ASSUME NEW S, NEW x \in Seq(S), NEW y \in Seq(S), NEW f \in S
    PROVE  /\ Len(x) + 1 <= Len((x \o <<f>>) \o y)
           /\ Without((x \o <<f>>) \o y, Len(x) + 1) = x \o y
<1> SUFFICES ASSUME NEW s, s = (x \o <<f>>) \o y, NEW k, k = Len(x) + 1
             PROVE  k <= Len(s) /\ Without(s, k) = x \o y
  OBVIOUS
<1> DEFINE w == x \o <<f>>
<1>0. Len(x) \in Nat /\ Len(y) \in Nat /\ <<f>> \in Seq(S) /\ Len(<<f>>) = 1
  OBVIOUS
<1>1. w \in Seq(S) /\ Len(w) = k /\ \A i \in 1 .. Len(x) : w[i] = x[i]
  BY <1>0, ConcatProperties
<1>2. /\ s \in Seq(S) /\ Len(s) = k + Len(y)
      /\ \A i \in 1 .. Len(x) : s[i] = x[i]
      /\ \A i \in 1 .. Len(y) : s[k + i] = y[i]
  <2>1. /\ s \in Seq(S) /\ Len(s) = k + Len(y)
        /\ \A i \in 1 .. k + Len(y) : s[i] = IF i <= k THEN w[i] ELSE y[i - k]
    <3>1. k = Len(w)
      BY <1>1
    <3>2. /\ s \in Seq(S) /\ Len(s) = Len(w) + Len(y)
          /\ \A i \in 1 .. Len(w) + Len(y) : s[i] = IF i <= Len(w) THEN w[i] ELSE y[i - Len(w)]
      <4>1. s = w \o y
        BY DEF w
      <4> QED
        BY <1>1, <4>1, ConcatProperties
    <3> QED
      BY <3>1, <3>2
  <2>2. \A i \in 1 .. Len(x) : i \in 1 .. k + Len(y) /\ i <= k
    BY <1>0
  <2>3. \A i \in 1 .. Len(y) : k + i \in 1 .. k + Len(y) /\ ~ (k + i <= k) /\ (k + i) - k = i
    BY <1>0
  <2>4. \A i \in 1 .. Len(x) : s[i] = x[i]
    BY <1>1, <2>1, <2>2
  <2>5. \A i \in 1 .. Len(y) : s[k + i] = y[i]
    BY <2>1, <2>3
  <2> QED
    BY <2>1, <2>4, <2>5
<1>3. SubSeq(s, 1, k - 1) = x
  <2> DEFINE t == SubSeq(s, 1, k - 1)
  <2>1. t \in Seq(S) /\ Len(t) = Len(x) /\ \A i \in 1 .. Len(x) : t[i] = s[i]
    BY <1>0, <1>2
  <2> HIDE DEF t
  <2>2. t = x
    BY <1>2, <2>1, SeqEqual
  <2> QED
    BY <2>2 DEF t
<1>4. SubSeq(s, k + 1, Len(s)) = y
  <2> DEFINE t == SubSeq(s, k + 1, Len(s))
  <2>1. t \in Seq(S) /\ Len(t) = Len(y) /\ \A i \in 1 .. Len(y) : t[i] = s[k + i]
    <3>1. k \in Nat /\ k >= 1 /\ Len(s) = k + Len(y)
      BY <1>0, <1>2
    <3>2. /\ SubSeq(s, k + 1, Len(s)) \in Seq(S)
          /\ Len(SubSeq(s, k + 1, Len(s))) = Len(y)
      BY <1>0, <1>2, <3>1
    <3>3. \A i \in 1 .. Len(y) : SubSeq(s, k + 1, Len(s))[i] = s[k + 1 + i - 1]
      BY <1>0, <1>2, <3>1
    <3>4. \A i \in 1 .. Len(y) : k + 1 + i - 1 = k + i
      BY <1>0, <3>1
    <3> QED
      BY <3>2, <3>3, <3>4
  <2> HIDE DEF t
  <2>2. t = y
    BY <1>2, <2>1, SeqEqual
  <2> QED
    BY <2>2 DEF t
<1>5. k <= Len(s)
  BY <1>0, <1>2
<1> QED
  BY <1>3, <1>4, <1>5 DEF Without

\* What is in the threads' hands are frames; what push works on is the reader's.
InHands ==
    /\ pushAt # "idle" => producer = "push" /\ pushed = myFrame
    /\ producer \in {"push", "drop"} => myFrame \in Frame

LEMMA HandsStable ==
    InHands /\ UNCHANGED <<pushAt, pushed, producer, myFrame>> => InHands'
BY DEF InHands

LEMMA HandsInductive ==
    ASSUME InHands, ReaderInv, [PipelineNext]_pipelineVars
    PROVE  InHands'
<1>1. CASE ProducerRead
  BY <1>1 DEF ProducerRead, InHands, ReaderInv, vars, pushVars
<1>2. CASE ProducerPush
  <2>1. myFrame \in Frame /\ myFrame' = myFrame /\ producer = "push"
    BY <1>2 DEF ProducerPush, ReaderInv
  <2> QED
    BY <1>2, <2>1 DEF ProducerPush, InHands, PushBegin, PushWrite, PushPublish, PushRefused
<1>3. CASE ProducerCheck \/ ProducerReadNothing \/ ProducerDrop
  BY <1>3 DEF ProducerCheck, ProducerReadNothing, ProducerDrop, InHands, vars, pushVars
<1>4. CASE Consumer \/ Monitor \/ Environment \/ UNCHANGED pipelineVars
  <2>1. UNCHANGED <<pushAt, pushed, producer, myFrame>>
    BY <1>4
       DEF Consumer, ConsumerCheck, ConsumerPop, ConsumerHandleKnown, ConsumerHandleOther,
           PopBegin, PopRead, PopRetire, PopFailed, Monitor, MonitorCheck, MonitorLoadRec,
           MonitorLoadDrop, Environment, BusFrame, Sigint, pipelineVars, vars, pushVars
  <2> QED
    BY <2>1, HandsStable
<1> QED
  BY <1>1, <1>2, <1>3, <1>4 DEF PipelineNext, Producer

\* All that is known of the frames on their way.
ChannelInv ==
    IInv /\ Contents /\ ReaderInv /\ InHands /\ HandedOver /\ AccountInv /\ RateInv

LEMMA PlacesAreSeqs ==
    ASSUME ChannelInv
    PROVE  /\ AtParser \in Seq(Frame) /\ Unread \in Seq(Frame)
           /\ AtReader \in Seq(Frame) /\ socket \in Seq(Frame)
           /\ AtParser \o Unread \in Seq(Frame)
           /\ (AtParser \o Unread) \o AtReader \in Seq(Frame)
<1>1. AtParser \in Seq(Frame)
  BY DEF AtParser, ChannelInv, HandedOver
<1>2. AtReader \in Seq(Frame)
  BY DEF AtReader, ChannelInv, InHands
<1>3. Unread \in Seq(Frame) /\ socket \in Seq(Frame)
  BY UnreadIsASeq DEF ChannelInv, ReaderInv
<1> HIDE DEF AtParser, AtReader, Unread
<1> QED
  BY <1>1, <1>2, <1>3, ConcatProperties

\* A frame is appended to the socket.
LEMMA BusArrives ==
    ASSUME ChannelInv, NEW f \in Frame, BusFrame(f)
    PROVE  Channel!Arrive(f)
<1>1. /\ AtParser' = AtParser /\ Unread' = Unread /\ AtReader' = AtReader
      /\ socket' = Append(socket, f)
      /\ UNCHANGED <<handled, g_total_dropped>>
  BY DEF BusFrame, AtParser, AtReader, Unread, vars, popVars, counters, parser
<1> HIDE DEF AtParser, AtReader, Unread
<1>2. InTransit' = Append(InTransit, f)
  BY <1>1, PlacesAreSeqs, JoinAppend DEF InTransit
<1> QED
  BY <1>1, <1>2 DEF Channel!Arrive

\* Reading the socket and publishing a frame move it on.
LEMMA ReadMoves ==
    ASSUME ChannelInv, ProducerRead
    PROVE  UNCHANGED <<InTransit, handled, g_total_dropped>>
<1>1. /\ AtParser' = AtParser /\ Unread' = Unread
      /\ AtReader = << >> /\ AtReader' = <<Head(socket)>>
      /\ socket' = Tail(socket) /\ socket # << >>
      /\ UNCHANGED <<handled, g_total_dropped>>
  BY DEF ProducerRead, AtParser, AtReader, Unread, vars, popVars, counters, parser
<1> HIDE DEF AtParser, AtReader, Unread
<1> DEFINE x == AtParser \o Unread
<1>2. x \in Seq(Frame) /\ socket \in Seq(Frame)
  BY PlacesAreSeqs
<1>3. InTransit = (x \o << >>) \o socket
  BY <1>1 DEF InTransit
<1>4. InTransit' = (x \o <<Head(socket)>>) \o Tail(socket)
  BY <1>1 DEF InTransit
<1> HIDE DEF x
<1>5. x \o << >> = x
  BY <1>2, ConcatEmptySeq
<1> QED
  BY <1>1, <1>2, <1>3, <1>4, <1>5, JoinHead

LEMMA PublishMoves ==
    ASSUME ChannelInv, ProducerPush, PushPublish
    PROVE  UNCHANGED <<InTransit, handled, g_total_dropped>>
<1>1. Unread' = Append(Unread, pushed) /\ delivered' = delivered
  BY PublishIsAppend DEF ChannelInv
<1>2. pushed = myFrame /\ producer = "push" /\ producer' = "check"
  BY DEF ChannelInv, InHands, ProducerPush, PushPublish, PushBegin, PushWrite, PushRefused
<1>3. /\ AtParser' = AtParser /\ AtReader = <<myFrame>> /\ AtReader' = << >>
      /\ UNCHANGED <<socket, handled, g_total_dropped>>
  BY <1>1, <1>2 DEF ProducerPush, AtParser, AtReader, bus, parser, counters
<1>4. myFrame \in Frame
  BY <1>2 DEF ChannelInv, InHands
<1> HIDE DEF AtParser, AtReader, Unread
<1> DEFINE x == AtParser \o Unread
<1>5. /\ AtParser \in Seq(Frame) /\ Unread \in Seq(Frame)
      /\ (x \o <<myFrame>>) \in Seq(Frame)
  BY <1>3, PlacesAreSeqs
<1>6. AtParser \o Append(Unread, myFrame) = x \o <<myFrame>>
  BY <1>4, <1>5, JoinAppend
<1>7. InTransit' = ((x \o <<myFrame>>) \o << >>) \o socket
  BY <1>1, <1>2, <1>3, <1>6 DEF InTransit
<1>8. (x \o <<myFrame>>) \o << >> = x \o <<myFrame>>
  BY <1>5, ConcatEmptySeq
<1>9. InTransit = (x \o <<myFrame>>) \o socket
  BY <1>3 DEF InTransit
<1> QED
  BY <1>3, <1>7, <1>8, <1>9

\* So does popping one.
LEMMA RetireMoves ==
    ASSUME ChannelInv, ConsumerPop, PopRetire
    PROVE  UNCHANGED <<InTransit, handled, g_total_dropped>>
<1>1. /\ Unread # << >> /\ delivered' = Head(Unread) /\ Unread' = Tail(Unread)
      /\ Unread \in Seq(Frame)
  BY RetireIsTail, UnreadIsASeq DEF ChannelInv
<1>2. consumer = "pop" /\ consumer' = "handle"
  BY DEF ConsumerPop, PopRetire, PopBegin, PopRead, PopFailed
<1>3. /\ AtParser = << >> /\ AtParser' = <<Head(Unread)>> /\ AtReader' = AtReader
      /\ UNCHANGED <<socket, handled, g_total_dropped>>
  BY <1>1, <1>2 DEF ConsumerPop, AtParser, AtReader, bus, parser, counters
<1> HIDE DEF AtParser, AtReader, Unread
<1>4. AtParser \o Unread = Unread /\ <<Head(Unread)>> \o Tail(Unread) = Unread
  BY <1>1, <1>3
<1> QED
  BY <1>1, <1>3, <1>4 DEF InTransit

\* A frame counted as dropped is taken out behind those in the ring.
LEMMA DropRemoves ==
    ASSUME ChannelInv, ProducerDrop
    PROVE  \E k \in DOMAIN InTransit : Channel!Drop(k)
<1> DEFINE x == AtParser \o Unread
           k == Len(x) + 1
<1>1. /\ AtParser' = AtParser /\ Unread' = Unread
      /\ AtReader = <<myFrame>> /\ AtReader' = << >> /\ myFrame \in Frame
      /\ g_total_dropped' = g_total_dropped + 1
      /\ UNCHANGED <<socket, handled>>
  BY DEF ProducerDrop, AtParser, AtReader, Unread, vars, popVars, bus, parser, ChannelInv,
         InHands
<1>2. Len(handled) + k - 1 >= m_size - 1
  <2>1. g_total_received - (g_total_dropped + 1) >= m_size - 1
    BY DropAfterFull DEF ChannelInv, ProducerDrop
  <2>2. g_total_received = 1 + g_total_dropped + Waiting + InParser + Len(handled)
    BY DEF ChannelInv, AccountInv, InReader, ProducerDrop
  <2>3. Len(Unread) = Waiting /\ Waiting \in Nat /\ Unread \in Seq(Frame)
    BY LengthOfUnread, UnreadIsASeq DEF ChannelInv, IInv
  <2>4. Len(AtParser) = InParser /\ InParser \in Nat /\ AtParser \in Seq(Frame)
    BY PlacesAreSeqs DEF AtParser, InParser
  <2>5. Len(handled) \in Nat /\ g_total_dropped \in Nat
    BY DEF ChannelInv, AccountInv
  <2> HIDE DEF AtParser, AtReader, Unread, Waiting, InParser
  <2>6. Len(x) = InParser + Waiting
    BY <2>3, <2>4, ConcatProperties
  <2> HIDE DEF x
  <2> QED
    BY <2>1, <2>2, <2>3, <2>4, <2>5, <2>6, AtLeastOneSlot
<1> HIDE DEF AtParser, AtReader, Unread
<1>3. x \in Seq(Frame) /\ socket \in Seq(Frame)
  BY PlacesAreSeqs
<1>4. InTransit = (x \o <<myFrame>>) \o socket
  BY <1>1 DEF InTransit
<1>5. InTransit' = x \o socket
  <2>1. InTransit' = (x \o << >>) \o socket
    BY <1>1 DEF InTransit
  <2> HIDE DEF x
  <2> QED
    BY <1>3, <2>1, ConcatEmptySeq
<1> HIDE DEF x, k
<1>6. Len(x) + 1 <= Len(InTransit) /\ Without(InTransit, Len(x) + 1) = x \o socket
  <2>1. myFrame \in Frame
    BY <1>1
  <2> QED
    BY <1>3, <1>4, <2>1, JoinRemoved
<1>7. InTransit \in Seq(Frame)
  <2>1. (x \o <<myFrame>>) \in Seq(Frame)
    BY <1>1, <1>3
  <2> QED
    BY <1>3, <1>4, <2>1, ConcatProperties
<1>8. k \in DOMAIN InTransit
  BY <1>3, <1>6, <1>7 DEF k
<1>9. Channel!Drop(k)
  BY <1>1, <1>2, <1>5, <1>6, <1>8 DEF Channel!Drop, Channel!RemoveAt, Without, k
<1> QED
  BY <1>8, <1>9

\* What the parser thread is done with was the oldest.
LEMMA HandleDelivers ==
    ASSUME ChannelInv, ConsumerHandleKnown \/ ConsumerHandleOther
    PROVE  Channel!Deliver
<1>1. /\ AtParser = <<delivered>> /\ AtParser' = << >> /\ delivered \in Frame
      /\ Unread' = Unread /\ AtReader' = AtReader /\ socket' = socket
      /\ handled' = Append(handled, delivered)
      /\ g_total_dropped' = g_total_dropped
  BY DEF ConsumerHandleKnown, ConsumerHandleOther, AtParser, AtReader, Unread, vars, popVars,
         bus, counters, ChannelInv, HandedOver
<1> HIDE DEF AtParser, AtReader, Unread
<1> DEFINE y == Unread
           z == AtReader
           rest == (y \o z) \o socket
<1>2. y \in Seq(Frame) /\ z \in Seq(Frame) /\ socket \in Seq(Frame) /\ <<delivered>> \in Seq(Frame)
  BY <1>1, PlacesAreSeqs
<1>3. InTransit = ((<<delivered>> \o y) \o z) \o socket
  BY <1>1 DEF InTransit
<1>4. InTransit' = ((<< >> \o y) \o z) \o socket
  BY <1>1 DEF InTransit
<1> HIDE DEF y, z
<1>5. y \o z \in Seq(Frame) /\ rest \in Seq(Frame)
  BY <1>2, ConcatProperties
<1>6. ((<<delivered>> \o y) \o z) \o socket = <<delivered>> \o rest
  <2>1. (<<delivered>> \o y) \o z = <<delivered>> \o (y \o z)
    BY <1>2, ConcatAssociative
  <2>2. (<<delivered>> \o (y \o z)) \o socket = <<delivered>> \o ((y \o z) \o socket)
    BY <1>2, <1>5, ConcatAssociative
  <2> QED
    BY <2>1, <2>2
<1>7. << >> \o y = y
  BY <1>2, ConcatEmptySeq
<1> HIDE DEF rest
<1>8. /\ <<delivered>> \o rest # << >>
      /\ Head(<<delivered>> \o rest) = delivered
      /\ Tail(<<delivered>> \o rest) = rest
  BY <1>1, <1>5
<1>9. InTransit' = rest
  BY <1>4, <1>7 DEF rest
<1> QED
  BY <1>1, <1>3, <1>6, <1>8, <1>9 DEF Channel!Deliver

\* Everything else leaves the frames where they are.
LEMMA OthersMoveNothing ==
    ASSUME ChannelInv,
           \/ ProducerCheck \/ ProducerReadNothing \/ ConsumerCheck \/ Monitor \/ Sigint
           \/ ProducerPush /\ ~ PushPublish
           \/ ConsumerPop /\ ~ PopRetire
           \/ UNCHANGED pipelineVars
    PROVE  UNCHANGED <<InTransit, handled, g_total_dropped>>
<1>1. UNCHANGED <<Unread, delivered>>
  <2>1. CASE ProducerPush /\ ~ PushPublish
    <3>1. CASE PushWrite
      BY <3>1, WriteIsInvisible DEF ChannelInv
    <3>2. CASE ~ PushWrite
      <4>1. myFrame \in Frame
        BY <2>1 DEF ProducerPush, ChannelInv, ReaderInv
      <4> QED
        BY <2>1, <3>2, <4>1, OthersAreInvisible DEF ProducerPush, ChannelInv
    <3> QED
      BY <3>1, <3>2
  <2>2. CASE ConsumerPop /\ ~ PopRetire
    BY <2>2, OthersAreInvisible DEF ConsumerPop, ChannelInv
  <2>3. CASE UNCHANGED vars
    BY <2>3 DEF vars, popVars, Unread
  <2>4. \/ ProducerPush /\ ~ PushPublish
        \/ ConsumerPop /\ ~ PopRetire
        \/ UNCHANGED vars
    BY DEF ProducerCheck, ProducerReadNothing, ConsumerCheck, Monitor, MonitorCheck,
           MonitorLoadRec, MonitorLoadDrop, Sigint, pipelineVars
  <2> QED
    BY <2>1, <2>2, <2>3, <2>4
<1>2. UNCHANGED <<socket, handled, g_total_dropped, myFrame>>
  BY DEF ProducerCheck, ProducerReadNothing, ConsumerCheck, Monitor, MonitorCheck,
         MonitorLoadRec, MonitorLoadDrop, Sigint, ProducerPush, ConsumerPop, pipelineVars,
         bus, counters, parser
<1>3. AtReader' = AtReader
  BY <1>2
     DEF AtReader, ProducerCheck, ProducerReadNothing, ConsumerCheck, Monitor, MonitorCheck,
         MonitorLoadRec, MonitorLoadDrop, Sigint, ProducerPush, ConsumerPop, pipelineVars
<1>4. AtParser' = AtParser
  BY <1>1
     DEF AtParser, ProducerCheck, ProducerReadNothing, ConsumerCheck, Monitor, MonitorCheck,
         MonitorLoadRec, MonitorLoadDrop, Sigint, ProducerPush, ConsumerPop, pipelineVars
<1> HIDE DEF AtParser, AtReader, Unread
<1> QED
  BY <1>1, <1>2, <1>3, <1>4 DEF InTransit

LEMMA StepOfTheChannel ==
    ASSUME ChannelInv, [PipelineNext]_pipelineVars
    PROVE  [Channel!Next]_(Channel!channelVars)
<1>1. ASSUME NEW f \in Frame, BusFrame(f)
      PROVE  Channel!Next
  BY <1>1, BusArrives DEF Channel!Next
<1>2. CASE ProducerDrop
  BY <1>2, DropRemoves DEF Channel!Next
<1>3. CASE ConsumerHandleKnown \/ ConsumerHandleOther
  BY <1>3, HandleDelivers DEF Channel!Next
<1>4. CASE \/ ProducerRead
           \/ ProducerPush /\ PushPublish
           \/ ConsumerPop /\ PopRetire
  BY <1>4, ReadMoves, PublishMoves, RetireMoves DEF Channel!channelVars
<1>5. CASE \/ ProducerCheck \/ ProducerReadNothing \/ ConsumerCheck \/ Monitor \/ Sigint
           \/ ProducerPush /\ ~ PushPublish
           \/ ConsumerPop /\ ~ PopRetire
           \/ UNCHANGED pipelineVars
  BY <1>5, OthersMoveNothing DEF Channel!channelVars
<1> QED
  BY <1>1, <1>2, <1>3, <1>4, <1>5, Zenon
     DEF PipelineNext, Producer, Consumer, Environment

\* For every ring size and any frames: from the socket to the parser the frames keep
\* their order, none is duplicated or made up, each lost one is counted, and none
\* is lost before a ring's worth of others was accepted.
THEOREM PipelineIsAChannel == PipelineSpec => IsAChannel
<1> DEFINE All == ReaderInv /\ InHands /\ HandedOver /\ AccountInv /\ RateInv
<1>1. PipelineInit => All
  <2>1. PipelineInit => Waiting = 0 /\ Distance(headSeen, m_head) = 0
    BY AtLeastOneSlot DEF PipelineInit, Init, Waiting, Distance
  <2> QED
    BY <2>1 DEF PipelineInit, Init, ReaderInv, InHands, HandedOver, AccountInv, RateInv,
                InReader, InParser
<1>2. IInv /\ Contents /\ All /\ [PipelineNext]_pipelineVars => All'
  BY ReaderInductive, HandsInductive, HandedOverInductive, AccountInductive, RateInductive
<1>3. IInv /\ Contents /\ All /\ [PipelineNext]_pipelineVars
          => [Channel!Next]_(Channel!channelVars)
  BY StepOfTheChannel DEF ChannelInv
<1>4. PipelineInit => Channel!Init
  <2>1. PipelineInit => Unread = << >> /\ AtParser = << >> /\ AtReader = << >> /\ socket = << >>
    BY EmptyAtFirst DEF PipelineInit, AtParser, AtReader
  <2>2. PipelineInit => InTransit = << >>
    BY <2>1 DEF InTransit
  <2> QED
    BY <2>2 DEF PipelineInit, Channel!Init
<1>5. PipelineSpec => []IInv /\ []Contents
  BY PipelineUsesRing, Inductive, ContentsKept, PTL
<1> HIDE DEF All
<1> QED
  BY <1>1, <1>2, <1>3, <1>4, <1>5, PTL DEF PipelineSpec, IsAChannel, Channel!Spec
=============================================================================

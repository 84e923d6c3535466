----------------------------- MODULE RingBuffer -----------------------------
(***************************************************************************)
(* The lock-free ring between the CAN reader thread and the parser thread  *)
(* (src/src/ring_buffer.cpp).  One thread pushes, one thread pops, and     *)
(* each shared access is a step of its own, in program order.              *)
(*                                                                         *)
(* m_head and m_tail are atomics.  A load of the index the OTHER thread    *)
(* writes may return any value between the one this thread loaded last and *)
(* the current one (coherence allows a stale value and forbids going       *)
(* back), so each thread keeps the last value it has seen.  Those loads    *)
(* are acquire loads of release stores: what a thread has seen of the      *)
(* index is also what it has synchronised with, and the slot accesses      *)
(* before that store happened before the load.                             *)
(***************************************************************************)
EXTENDS Integers, Sequences

CONSTANTS Size,      \* the constructor's argument
          Frame,     \* the CAN frames
          NoFrame    \* what an uninitialised slot or variable holds

ASSUME SizeAssumption == Size \in Nat
ASSUME NoFrameAssumption == NoFrame \notin Frame

\* The constructor turns a size of zero into one.
m_size == IF Size = 0 THEN 1 ELSE Size

Slots == 0 .. m_size - 1

VARIABLES
    m_buffer,   \* the slots
    m_head,     \* index of the oldest frame, stored by pop only
    m_tail,     \* index of the next free slot, stored by push only
    headSeen,   \* the last m_head the pushing thread loaded
    tailSeen,   \* the last m_tail the popping thread loaded
    pushAt,     \* where the pushing thread is inside push
    pushed,     \* push's argument
    pushResult, \* what the last push returned
    sawRoom,    \* isFull returned false and nothing was pushed since
    popAt,      \* where the popping thread is inside pop
    popped,     \* pop's local copy of the frame
    popResult,  \* what the last pop returned
    sawFrame,   \* isEmpty returned false and nothing was popped since
    delivered   \* the frame handed over by the last successful pop

pushVars == <<headSeen, pushAt, pushed, pushResult, sawRoom>>
popVars == <<tailSeen, popAt, popped, popResult, sawFrame, delivered>>
vars == <<m_buffer, m_head, m_tail, pushVars, popVars>>
-----------------------------------------------------------------------------
\* Mutant: the wrap is forgotten.
FollowingUnwrapped(i) == i + 1

\* The index after i, with the wrap both methods spell out.
Following(i) == IF i + 1 >= m_size THEN 0 ELSE i + 1

\* How many slots one passes going forward from a to b.
Distance(a, b) == IF b >= a THEN b - a ELSE b - a + m_size

\* The index k slots after i, for k at most m_size.
Ahead(i, k) == IF i + k >= m_size THEN i + k - m_size ELSE i + k

\* What a load may return when the last value seen was a and the newest is b.
Loadable(a, b) == {i \in Slots : Distance(a, i) <= Distance(a, b)}
-----------------------------------------------------------------------------
Init ==
    /\ m_buffer = [i \in Slots |-> NoFrame]
    /\ m_head = 0
    /\ m_tail = 0
    /\ headSeen = 0
    /\ tailSeen = 0
    /\ pushAt = "idle"
    /\ pushed = NoFrame
    /\ pushResult = "none"
    /\ sawRoom = FALSE
    /\ popAt = "idle"
    /\ popped = NoFrame
    /\ popResult = "none"
    /\ sawFrame = FALSE
    /\ delivered = NoFrame

(***************************************************************************)
(* push, on the reader thread.  PushBegin is the two loads and the full    *)
(* check (m_tail is this thread's own, so its load is exact).              *)
(***************************************************************************)
PushRefused(h) ==
    /\ pushAt = "idle"
    /\ h \in Loadable(headSeen, m_head)
    /\ Following(m_tail) = h
    /\ headSeen' = h
    /\ pushResult' = "full"
    /\ UNCHANGED <<m_buffer, m_head, m_tail, pushAt, pushed, sawRoom, popVars>>

\* Mutant: push does not check for a full ring.
PushBeginUnchecked(f, h) ==
    /\ pushAt = "idle"
    /\ h \in Loadable(headSeen, m_head)
    /\ headSeen' = h
    /\ pushAt' = "write"
    /\ pushed' = f
    /\ UNCHANGED <<m_buffer, m_head, m_tail, pushResult, sawRoom, popVars>>

PushBegin(f, h) ==
    /\ pushAt = "idle"
    /\ h \in Loadable(headSeen, m_head)
    /\ Following(m_tail) # h
    /\ headSeen' = h
    /\ pushAt' = "write"
    /\ pushed' = f
    /\ UNCHANGED <<m_buffer, m_head, m_tail, pushResult, sawRoom, popVars>>

\* Mutant: the frame is written into the slot after the tail.
PushWriteAhead ==
    /\ pushAt = "write"
    /\ m_buffer' = [m_buffer EXCEPT ![Following(m_tail)] = pushed]
    /\ pushAt' = "publish"
    /\ UNCHANGED <<m_head, m_tail, headSeen, pushed, pushResult, sawRoom, popVars>>

PushWrite ==
    /\ pushAt = "write"
    /\ m_buffer' = [m_buffer EXCEPT ![m_tail] = pushed]
    /\ pushAt' = "publish"
    /\ UNCHANGED <<m_head, m_tail, headSeen, pushed, pushResult, sawRoom, popVars>>

PushPublish ==
    /\ pushAt = "publish"
    /\ m_tail' = Following(m_tail)
    /\ pushAt' = "idle"
    /\ pushResult' = "pushed"
    /\ sawRoom' = FALSE
    /\ UNCHANGED <<m_buffer, m_head, headSeen, pushed, popVars>>

\* Mutant: the ring is taken for full only when the indices meet.
IsFullWhenEqual(h) ==
    /\ pushAt = "idle"
    /\ h \in Loadable(headSeen, m_head)
    /\ headSeen' = h
    /\ sawRoom' = (m_tail # h)
    /\ pushResult' = "none"
    /\ UNCHANGED <<m_buffer, m_head, m_tail, pushAt, pushed, popVars>>

\* isFull, called by the thread that pushes.
IsFull(h) ==
    /\ pushAt = "idle"
    /\ h \in Loadable(headSeen, m_head)
    /\ headSeen' = h
    /\ sawRoom' = (Following(m_tail) # h)
    /\ pushResult' = "none"
    /\ UNCHANGED <<m_buffer, m_head, m_tail, pushAt, pushed, popVars>>
-----------------------------------------------------------------------------
(***************************************************************************)
(* pop, on the parser thread.                                              *)
(***************************************************************************)
PopFailed(t) ==
    /\ popAt = "idle"
    /\ t \in Loadable(tailSeen, m_tail)
    /\ m_head = t
    /\ tailSeen' = t
    /\ popResult' = "empty"
    /\ UNCHANGED <<m_buffer, m_head, m_tail, pushVars, popAt, popped, sawFrame, delivered>>

\* Mutant: pop does not check for an empty ring.
PopBeginUnchecked(t) ==
    /\ popAt = "idle"
    /\ t \in Loadable(tailSeen, m_tail)
    /\ tailSeen' = t
    /\ popAt' = "read"
    /\ UNCHANGED <<m_buffer, m_head, m_tail, pushVars, popped, popResult, sawFrame, delivered>>

PopBegin(t) ==
    /\ popAt = "idle"
    /\ t \in Loadable(tailSeen, m_tail)
    /\ m_head # t
    /\ tailSeen' = t
    /\ popAt' = "read"
    /\ UNCHANGED <<m_buffer, m_head, m_tail, pushVars, popped, popResult, sawFrame, delivered>>

PopRead ==
    /\ popAt = "read"
    /\ popped' = m_buffer[m_head]
    /\ popAt' = "retire"
    /\ UNCHANGED <<m_buffer, m_head, m_tail, pushVars, tailSeen, popResult, sawFrame, delivered>>

\* Mutant: the head is not advanced.
PopRetireStays ==
    /\ popAt = "retire"
    /\ delivered' = popped
    /\ popAt' = "idle"
    /\ popResult' = "popped"
    /\ sawFrame' = FALSE
    /\ UNCHANGED <<m_buffer, m_head, m_tail, pushVars, tailSeen, popped>>

PopRetire ==
    /\ popAt = "retire"
    /\ m_head' = Following(m_head)
    /\ delivered' = popped
    /\ popAt' = "idle"
    /\ popResult' = "popped"
    /\ sawFrame' = FALSE
    /\ UNCHANGED <<m_buffer, m_tail, pushVars, tailSeen, popped>>

\* Mutant: the index after the head is compared.
IsEmptyAhead(t) ==
    /\ popAt = "idle"
    /\ t \in Loadable(tailSeen, m_tail)
    /\ tailSeen' = t
    /\ sawFrame' = (Following(m_head) # t)
    /\ popResult' = "none"
    /\ UNCHANGED <<m_buffer, m_head, m_tail, pushVars, popAt, popped, delivered>>

\* isEmpty, called by the thread that pops.
IsEmpty(t) ==
    /\ popAt = "idle"
    /\ t \in Loadable(tailSeen, m_tail)
    /\ tailSeen' = t
    /\ sawFrame' = (m_head # t)
    /\ popResult' = "none"
    /\ UNCHANGED <<m_buffer, m_head, m_tail, pushVars, popAt, popped, delivered>>
-----------------------------------------------------------------------------
Pusher ==
    \/ \E h \in Slots : PushRefused(h) \/ IsFull(h) \/ \E f \in Frame : PushBegin(f, h)
    \/ PushWrite
    \/ PushPublish

Popper ==
    \/ \E t \in Slots : PopFailed(t) \/ PopBegin(t) \/ IsEmpty(t)
    \/ PopRead
    \/ PopRetire

Next == Pusher \/ Popper

Spec == Init /\ [][Next]_vars

(***************************************************************************)
(* Fairness: a call that has begun is finished, the popping thread polls   *)
(* for ever (consumer_task), and a store becomes visible to the other      *)
(* thread in finite time, which is a load that returns the newest value.   *)
(***************************************************************************)
PopperFairness ==
    /\ WF_vars(PopBegin(m_tail))
    /\ WF_vars(PopRead)
    /\ WF_vars(PopRetire)

PusherFairness ==
    /\ WF_vars(PushWrite)
    /\ WF_vars(PushPublish)

FairSpec == Spec /\ PopperFairness /\ PusherFairness

\* Besides, the pushing thread never gives up: it calls push again and again.
InsistentSpec == FairSpec /\ WF_vars(\E f \in Frame : PushBegin(f, m_head))
-----------------------------------------------------------------------------
(***************************************************************************)
(* Properties.                                                             *)
(***************************************************************************)

\* Every index stays inside the buffer and every step inside its method.
TypeOK ==
    /\ m_buffer \in [Slots -> Frame \cup {NoFrame}]
    /\ m_head \in Slots
    /\ m_tail \in Slots
    /\ headSeen \in Slots
    /\ tailSeen \in Slots
    /\ pushAt \in {"idle", "write", "publish"}
    /\ pushed \in Frame \cup {NoFrame}
    /\ pushResult \in {"none", "full", "pushed"}
    /\ sawRoom \in BOOLEAN
    /\ popAt \in {"idle", "read", "retire"}
    /\ popped \in Frame \cup {NoFrame}
    /\ popResult \in {"none", "empty", "popped"}
    /\ sawFrame \in BOOLEAN
    /\ delivered \in Frame \cup {NoFrame}

\* Going round the ring one meets, in this order, the head the pushing thread
\* knows, the head, the tail the popping thread knows and the tail, and never
\* completes a turn: no thread's stale view can be overtaken by a whole lap,
\* which is what makes comparing the two bare indices in push and pop sound.
ViewsInOrder ==
    Distance(headSeen, m_head) + Distance(m_head, tailSeen)
        + Distance(tailSeen, m_tail) < m_size

\* The two threads never access the same slot at the same time: push copies a
\* frame into m_buffer[tail] and pop out of m_buffer[head] with no lock, and
\* the copies are not atomic.
NoDataRace == pushAt = "write" /\ popAt = "read" => m_tail # m_head

\* isFull() followed by push() is a sound check-then-act for the pushing
\* thread: once isFull has said no, a push is not refused.
RoomIsKept == sawRoom => pushResult # "full"

\* isEmpty() followed by pop() is a sound check-then-act for the popping
\* thread: once isEmpty has said no, a pop does not fail.
FrameIsKept == sawFrame => popResult # "empty"

\* The frames between the head and the tail, oldest first.
Unread == [i \in 1 .. Distance(m_head, m_tail) |-> m_buffer[Ahead(m_head, i - 1)]]

Queue == INSTANCE BoundedQueue WITH
             Capacity <- m_size - 1, queue <- Unread, delivered <- delivered

\* The ring implements a first-in first-out queue of m_size - 1 frames: push
\* and pop, taken step by step, lose, duplicate, reorder and tear no frame.
IsAQueue == Queue!SafeSpec

\* While the parser thread polls, every frame that was pushed is delivered.
DeliversAll == Queue!Spec

\* A refused reader thread that tries again is eventually accepted: the ring
\* is never stuck full while the parser thread polls (for a ring of two or
\* more slots; one of a single slot refuses every push).
AcceptedAgain == pushResult = "full" ~> pushResult = "pushed"
=============================================================================

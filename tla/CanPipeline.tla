---------------------------- MODULE CanPipeline -----------------------------
(***************************************************************************)
(* The data path of src/src/main.cpp: the reader thread (producer_task),   *)
(* the ring it fills, the parser thread (consumer_task) that drains it and *)
(* feeds the CanParser main configured, and the monitor thread that        *)
(* samples the two global counters.  The ring's steps are RingBuffer's.    *)
(*                                                                         *)
(* Frames are told apart by their CAN id only: an id of the generated      *)
(* database (hasMessage is true) or another, such as a UDS id.             *)
(* The generated database has neither counters nor checksums and puts all  *)
(* its ids on the whitelist, so a frame that reaches handleFrame is valid. *)
(***************************************************************************)
EXTENDS RingBuffer

CONSTANTS Known,         \* the frames whose id init_generated_database registers
          RefreshEvery,  \* the 5000 of consumer_task
          MaxFrames      \* bound: how many frames the socket receives

ASSUME KnownAssumption == Known \subseteq Frame
ASSUME BoundsAssumption == RefreshEvery \in Nat \ {0} /\ MaxFrames \in Nat

VARIABLES
    g_running,         \* cleared by the SIGINT handler
    socket,            \* frames the kernel holds for can_fd
    sent,              \* how many frames the socket has received
    producer,          \* where producer_task is
    myFrame,           \* producer_task's frame
    consumer,          \* where consumer_task is
    g_total_received,
    g_total_dropped,
    m_total_frames,    \* the parser's dashboard counters
    m_valid_frames,
    display_divider,   \* consumer_task's counter
    handled,           \* frames consumer_task has finished with, oldest first
    stale,             \* frames handled since the dashboard was last drawn
    monitor,           \* where monitor_task is
    rec,               \* monitor_task's two samples
    drop

counters == <<g_total_received, g_total_dropped>>
parser == <<m_total_frames, m_valid_frames, display_divider, handled, stale>>
sampler == <<monitor, rec, drop>>
bus == <<socket, sent>>
pipelineVars ==
    <<vars, g_running, bus, producer, myFrame, consumer, counters, parser, sampler>>
-----------------------------------------------------------------------------
PipelineInit ==
    /\ Init
    /\ g_running = TRUE
    /\ socket = << >>
    /\ sent = 0
    /\ producer = "check"
    /\ myFrame = NoFrame
    /\ consumer = "check"
    /\ g_total_received = 0
    /\ g_total_dropped = 0
    /\ m_total_frames = 0
    /\ m_valid_frames = 0
    /\ display_divider = 0
    /\ handled = << >>
    /\ stale = 0
    /\ monitor = "check"
    /\ rec = 0
    /\ drop = 0

\* A frame from the bus enters the raw socket's receive buffer.  One that finds the
\* buffer full is lost before the program can see or count it, and is no step here.
BusFrame(f) ==
    /\ sent < MaxFrames
    /\ sent' = sent + 1
    /\ socket' = Append(socket, f)
    /\ UNCHANGED <<vars, g_running, producer, myFrame, consumer, counters, parser, sampler>>

\* Ctrl+C runs signal_handler.
Sigint ==
    /\ g_running' = FALSE
    /\ UNCHANGED <<vars, bus, producer, myFrame, consumer, counters, parser, sampler>>
-----------------------------------------------------------------------------
(***************************************************************************)
(* producer_task                                                           *)
(***************************************************************************)
ProducerCheck ==
    /\ producer = "check"
    /\ producer' = IF g_running THEN "read" ELSE "done"
    /\ UNCHANGED <<vars, g_running, bus, myFrame, consumer, counters, parser, sampler>>

\* A whole frame is read, counted and converted.
ProducerRead ==
    /\ producer = "read"
    /\ socket # << >>
    /\ socket' = Tail(socket)
    /\ myFrame' = Head(socket)
    /\ g_total_received' = g_total_received + 1
    /\ producer' = "push"
    /\ UNCHANGED <<vars, g_running, sent, consumer, g_total_dropped, parser, sampler>>

\* Mutant: a failed read falls through to push.
ProducerReadIgnored ==
    /\ producer = "read"
    /\ producer' = "push"
    /\ UNCHANGED <<vars, g_running, bus, myFrame, consumer, counters, parser, sampler>>

\* Mutant: a failed read ends the thread.
ProducerReadStops ==
    /\ producer = "read"
    /\ producer' = "done"
    /\ UNCHANGED <<vars, g_running, bus, myFrame, consumer, counters, parser, sampler>>

\* read fails, or returns something other than a whole frame.
ProducerReadNothing ==
    /\ producer = "read"
    /\ producer' = "check"
    /\ UNCHANGED <<vars, g_running, bus, myFrame, consumer, counters, parser, sampler>>

ProducerPush ==
    /\ producer = "push"
    /\ \/ (\E h \in Slots : PushBegin(myFrame, h)) /\ UNCHANGED producer
       \/ PushWrite /\ UNCHANGED producer
       \/ PushPublish /\ producer' = "check"
       \/ (\E h \in Slots : PushRefused(h)) /\ producer' = "drop"
    /\ UNCHANGED <<g_running, bus, myFrame, consumer, counters, parser, sampler>>

\* Mutant: a refused frame is not counted.
ProducerDropUncounted ==
    /\ producer = "drop"
    /\ producer' = "check"
    /\ UNCHANGED <<vars, g_running, bus, myFrame, consumer, counters, parser, sampler>>

\* Mutant: a refused frame is counted twice.
ProducerDropTwice ==
    /\ producer = "drop"
    /\ g_total_dropped' = g_total_dropped + 2
    /\ producer' = "check"
    /\ UNCHANGED <<vars, g_running, bus, myFrame, consumer, g_total_received, parser, sampler>>

ProducerDrop ==
    /\ producer = "drop"
    /\ g_total_dropped' = g_total_dropped + 1
    /\ producer' = "check"
    /\ UNCHANGED <<vars, g_running, bus, myFrame, consumer, g_total_received, parser, sampler>>
-----------------------------------------------------------------------------
(***************************************************************************)
(* consumer_task.  No other thread touches the parser, so what the loop    *)
(* body does with a popped frame is one step.                              *)
(***************************************************************************)

\* The loop declares display_divider anew, and as zero, in every iteration.
ConsumerCheck ==
    /\ consumer = "check"
    /\ consumer' = IF g_running THEN "pop" ELSE "done"
    /\ display_divider' = IF g_running THEN 0 ELSE display_divider
    /\ UNCHANGED <<vars, g_running, bus, producer, myFrame, counters, sampler,
                   m_total_frames, m_valid_frames, handled, stale>>

\* An empty ring makes the thread sleep for 50 ms and start over.
ConsumerPop ==
    /\ consumer = "pop"
    /\ \/ (\E t \in Slots : PopBegin(t)) /\ UNCHANGED consumer
       \/ PopRead /\ UNCHANGED consumer
       \/ PopRetire /\ consumer' = "handle"
       \/ (\E t \in Slots : PopFailed(t)) /\ consumer' = "check"
    /\ UNCHANGED <<g_running, bus, producer, myFrame, counters, parser, sampler>>

\* A registered id: incrementFrame, then handleFrame (which counts the frame
\* again, and as valid), then renderDashboard.  main never calls
\* enableDiagnosticMode, so handleFrame never enters the diagnostic plugin.
ConsumerHandleKnown ==
    /\ consumer = "handle"
    /\ delivered \in Known
    /\ m_total_frames' = m_total_frames + 2
    /\ m_valid_frames' = m_valid_frames + 1
    /\ handled' = Append(handled, delivered)
    /\ stale' = 0
    /\ display_divider' = 0
    /\ consumer' = "check"
    /\ UNCHANGED <<vars, g_running, bus, producer, myFrame, counters, sampler>>

\* Any other id, a UDS one included: incrementFrame, and a dashboard once the
\* divider reaches its limit.
ConsumerHandleOther ==
    /\ consumer = "handle"
    /\ delivered \notin Known
    /\ m_total_frames' = m_total_frames + 1
    /\ handled' = Append(handled, delivered)
    /\ LET refresh == display_divider + 1 >= RefreshEvery IN
         /\ display_divider' = IF refresh THEN 0 ELSE display_divider + 1
         /\ stale' = IF refresh THEN 0 ELSE stale + 1
    /\ consumer' = "check"
    /\ UNCHANGED <<vars, g_running, bus, producer, myFrame, counters, sampler,
                   m_valid_frames>>
-----------------------------------------------------------------------------
(***************************************************************************)
(* monitor_task: the two counters are sampled one after the other, by      *)
(* relaxed loads, which may return any value not older than the last one.  *)
(***************************************************************************)
MonitorCheck ==
    /\ monitor = "check"
    /\ monitor' = IF g_running THEN "loadRec" ELSE "done"
    /\ UNCHANGED <<vars, g_running, bus, producer, myFrame, consumer, counters, parser, rec, drop>>

MonitorLoadRec ==
    /\ monitor = "loadRec"
    /\ rec' \in rec .. g_total_received
    /\ monitor' = "loadDrop"
    /\ UNCHANGED <<vars, g_running, bus, producer, myFrame, consumer, counters, parser, drop>>

MonitorLoadDrop ==
    /\ monitor = "loadDrop"
    /\ drop' \in drop .. g_total_dropped
    /\ monitor' = "check"
    /\ UNCHANGED <<vars, g_running, bus, producer, myFrame, consumer, counters, parser, rec>>
-----------------------------------------------------------------------------
Producer ==
    ProducerCheck \/ ProducerRead \/ ProducerReadNothing \/ ProducerPush \/ ProducerDrop
Consumer ==
    ConsumerCheck \/ ConsumerPop \/ ConsumerHandleKnown \/ ConsumerHandleOther
Monitor == MonitorCheck \/ MonitorLoadRec \/ MonitorLoadDrop
Environment == (\E f \in Frame : BusFrame(f)) \/ Sigint

PipelineNext == Producer \/ Consumer \/ Monitor \/ Environment

PipelineSpec == PipelineInit /\ [][PipelineNext]_pipelineVars

(***************************************************************************)
(* Fairness: the scheduler keeps running the two CAN threads, reads of a   *)
(* socket that holds a frame do not fail for ever, and a store becomes     *)
(* visible in finite time.  Nothing is assumed of the bus or the user.     *)
(***************************************************************************)
PipelineFairness ==
    /\ WF_pipelineVars(ProducerCheck)
    /\ SF_pipelineVars(ProducerRead)
    /\ WF_pipelineVars(ProducerPush)
    /\ WF_pipelineVars(ProducerDrop)
    /\ WF_pipelineVars(ConsumerCheck)
    /\ SF_pipelineVars(consumer = "pop" /\ ConsumerPop /\ tailSeen' = m_tail)
    /\ WF_pipelineVars(ConsumerPop)
    /\ WF_pipelineVars(ConsumerHandleKnown \/ ConsumerHandleOther)

FairPipelineSpec == PipelineSpec /\ PipelineFairness
-----------------------------------------------------------------------------
(***************************************************************************)
(* Properties.                                                             *)
(***************************************************************************)

\* The threads' own variables keep their types.
PipelineTypeOK ==
    /\ TypeOK
    /\ g_running \in BOOLEAN
    /\ socket \in Seq(Frame)
    /\ producer \in {"check", "read", "push", "drop", "done"}
    /\ myFrame \in Frame \cup {NoFrame}
    /\ consumer \in {"check", "pop", "handle", "done"}
    /\ monitor \in {"check", "loadRec", "loadDrop", "done"}
    /\ handled \in Seq(Frame)
    /\ {sent, g_total_received, g_total_dropped, m_total_frames, m_valid_frames,
        display_divider, stale, rec, drop} \subseteq Nat

InReader == IF producer \in {"push", "drop"} THEN 1 ELSE 0
InParser == IF consumer = "handle" THEN 1 ELSE 0

\* Every frame the reader counted is in exactly one place: in its hands, counted
\* as dropped, unread in the ring, in the parser thread's hands or handled.
EveryFrameAccounted ==
    g_total_received =
        InReader + g_total_dropped + Len(Unread) + InParser + Len(handled)

AtReader == IF producer \in {"push", "drop"} THEN <<myFrame>> ELSE << >>
AtParser == IF consumer = "handle" THEN <<delivered>> ELSE << >>

\* The frames on their way to the parser, oldest first.
InTransit == AtParser \o Unread \o AtReader \o socket

Channel == INSTANCE LossyChannel WITH
               Capacity <- m_size - 1, inTransit <- InTransit, dropped <- g_total_dropped

\* From the socket to the parser, through two threads and the ring, frames keep
\* their order and none is duplicated or made up; each that is lost is counted, and
\* none is before a ring's worth of others was accepted.
IsAChannel == Channel!Spec

\* The monitor loads the drop counter after the receive counter, so its rate
\* may exceed 100 %, but only if at least m_size frames (1024 in main) arrived
\* since the first load: nothing is dropped before the ring filled up once.
RateIsSane == drop > rec => g_total_received - rec >= m_size

\* While the program runs, every frame in the socket is eventually handled by the
\* parser thread or counted as dropped, whatever the interleaving.
EveryFrameHandled ==
    sent > Len(handled) + g_total_dropped
        ~> (sent = Len(handled) + g_total_dropped \/ ~ g_running)

\* The dashboard is redrawn at least once per RefreshEvery frames
\* ("every 5000 frames a refresh is forced", main.cpp:185).
DashboardNotStale == stale < RefreshEvery
=============================================================================

----------------------------- MODULE Lifecycle ------------------------------
(***************************************************************************)
(* Start-up and shutdown of the program (main in src/src/main.cpp): main   *)
(* starts four threads, waits for SIGINT to clear g_running and joins      *)
(* them.  Each thread is reduced to what decides when it can stop: the     *)
(* test of g_running at the top of its loop and the calls that may block.  *)
(*                                                                         *)
(* std::signal installs the handler with SA_RESTART (glibc), so a blocked  *)
(* read or recv is resumed after the handler; poll is not, and returns     *)
(* EINTR if the signal was delivered to the thread that polls.  SIGPIPE    *)
(* has no handler: an answer to a client that is gone ends the process.    *)
(***************************************************************************)
EXTENDS Sequences, Naturals

VARIABLES
    g_running,   \* cleared by the SIGINT handler
    main,        \* where main is
    thread,      \* where each thread is; "none" before it is started
    canReady,    \* the CAN socket holds a frame
    client       \* the DoIP client: none, connecting, or connected and
                 \* silent, with data to read, closed with data to read
                 \* ("leaving"), or closed

vars == <<g_running, main, thread, canReady, client>>

Threads == {"producer", "consumer", "monitor", "doip"}

Init ==
    /\ g_running = TRUE
    /\ main = "startProducer"
    /\ thread = [t \in Threads |-> "none"]
    /\ canReady = FALSE
    /\ client = "none"

Goto(t, from, to) == thread[t] = from /\ thread' = [thread EXCEPT ![t] = to]
-----------------------------------------------------------------------------
(***************************************************************************)
(* main                                                                    *)
(***************************************************************************)

\* socket, ioctl or bind fails: main returns before it starts a thread.
SetupFails ==
    /\ main = "startProducer"
    /\ main' = "failed"
    /\ UNCHANGED <<g_running, thread, canReady, client>>

\* What main starts, and what it joins, and what it does next.
Starts == [startProducer |-> <<"producer", "startConsumer">>,
           startConsumer |-> <<"consumer", "startMonitor">>,
           startMonitor  |-> <<"monitor", "startDoip">>,
           startDoip     |-> <<"doip", "wait">>]
\* Mutants: main returns without closing the socket, or without the last join.
JoinsUnclosed == [joinDoip |-> <<"doip", "joinProducer">>,
                  joinProducer |-> <<"producer", "joinConsumer">>,
                  joinConsumer |-> <<"consumer", "joinMonitor">>,
                  joinMonitor |-> <<"monitor", "returned">>]
JoinsForgotten == [joinDoip |-> <<"doip", "joinProducer">>,
                   joinProducer |-> <<"producer", "joinConsumer">>,
                   joinConsumer |-> <<"consumer", "closed">>]

Joins == [joinDoip     |-> <<"doip", "joinProducer">>,
          joinProducer |-> <<"producer", "joinConsumer">>,
          joinConsumer |-> <<"consumer", "joinMonitor">>,
          joinMonitor  |-> <<"monitor", "closed">>]

StartThread ==
    /\ main \in DOMAIN Starts
    /\ Goto(Starts[main][1], "none", IF main = "startDoip" THEN "setup" ELSE "check")
    /\ main' = Starts[main][2]
    /\ UNCHANGED <<g_running, canReady, client>>

\* The wait loop polls g_running every 100 ms.
StopWaiting ==
    /\ main = "wait"
    /\ ~ g_running
    /\ main' = "joinDoip"
    /\ UNCHANGED <<g_running, thread, canReady, client>>

\* After the last join main closes the CAN socket and returns.
JoinThread ==
    /\ main \in DOMAIN Joins
    /\ thread[Joins[main][1]] = "done"
    /\ main' = Joins[main][2]
    /\ UNCHANGED <<g_running, thread, canReady, client>>
-----------------------------------------------------------------------------
(***************************************************************************)
(* The threads                                                             *)
(***************************************************************************)

\* Mutant: the loops do not look at g_running.
CheckForever(t) ==
    /\ Goto(t, "check", "body")
    /\ UNCHANGED <<g_running, main, canReady, client>>

\* The loop condition of producer_task, consumer_task, monitor_task and run.
CheckRunning(t) ==
    /\ Goto(t, "check", IF g_running THEN "body" ELSE "done")
    /\ UNCHANGED <<g_running, main, canReady, client>>

\* Mutant: frames are read by the thread that serves the DoIP client.
ProducerReadShared ==
    /\ canReady
    /\ thread["doip"] # "recv"
    /\ Goto("producer", "body", "check")
    /\ canReady' = FALSE
    /\ UNCHANGED <<g_running, main, client>>

\* producer_task reads a frame and pushes it; it blocks while there is none.
ProducerRead ==
    /\ canReady
    /\ Goto("producer", "body", "check")
    /\ canReady' = FALSE
    /\ UNCHANGED <<g_running, main, client>>

\* Mutant: a failed read ends the thread.
ProducerReadStops ==
    /\ Goto("producer", "body", "done")
    /\ UNCHANGED <<g_running, main, canReady, client>>

\* read fails, which producer_task reports and ignores.
ProducerReadFails ==
    /\ Goto("producer", "body", "check")
    /\ UNCHANGED <<g_running, main, canReady, client>>

\* One iteration of consumer_task or monitor_task: a bounded sleep at most.
Iterate(t) ==
    /\ t \in {"consumer", "monitor"}
    /\ Goto(t, "body", "check")
    /\ UNCHANGED <<g_running, main, canReady, client>>

\* socket, setsockopt, bind or listen fails: run returns, the others go on.
DoipSetup ==
    /\ Goto("doip", "setup", "check") \/ Goto("doip", "setup", "done")
    /\ UNCHANGED <<g_running, main, canReady, client>>

\* poll times out after 500 ms, or accept fails.
DoipPollTimeout ==
    /\ Goto("doip", "body", "check")
    /\ UNCHANGED <<g_running, main, canReady, client>>

\* poll fails: run leaves its loop.
DoipPollFails ==
    /\ Goto("doip", "body", "done")
    /\ UNCHANGED <<g_running, main, canReady, client>>

DoipAccept ==
    /\ client = "connecting"
    /\ Goto("doip", "body", "client")
    /\ client' = "silent"
    /\ UNCHANGED <<g_running, main, canReady>>

\* Mutant: the client is not closed when the program stops.
DoipCheckLeaks ==
    /\ Goto("doip", "client", IF g_running THEN "recv" ELSE "check")
    /\ UNCHANGED <<g_running, main, canReady, client>>

\* handleClient's loop condition.
DoipCheckRunning ==
    /\ Goto("doip", "client", IF g_running THEN "recv" ELSE "check")
    /\ client' = IF g_running THEN client ELSE "none"
    /\ UNCHANGED <<g_running, main, canReady>>

\* recv returns data, all there is or a part, which is printed and perhaps
\* answered.
DoipRecv ==
    /\ Goto("doip", "recv", "client")
    /\ \/ client = "sent" /\ client' \in {"silent", "sent"}
       \/ client = "leaving" /\ client' \in {"closed", "leaving"}
    /\ UNCHANGED <<g_running, main, canReady>>

\* recv returns data and the client is gone: the answer raises SIGPIPE.
DoipSendKilled ==
    /\ thread["doip"] = "recv"
    /\ client = "leaving"
    /\ main' = "killed"
    /\ thread' = [t \in Threads |-> "done"]
    /\ client' = "none"
    /\ UNCHANGED <<g_running, canReady>>

\* recv reports the end of the stream, or an error: the client is closed.
DoipRecvEnds ==
    /\ client = "closed"
    /\ Goto("doip", "recv", "check")
    /\ client' = "none"
    /\ UNCHANGED <<g_running, main, canReady>>
-----------------------------------------------------------------------------
(***************************************************************************)
(* The environment                                                         *)
(***************************************************************************)

\* The signal is delivered to any thread.  Only a thread inside poll notices.
Sigint ==
    /\ g_running' = FALSE
    /\ \/ UNCHANGED thread
       \/ Goto("doip", "body", "done")
    /\ UNCHANGED <<main, canReady, client>>

BusFrame ==
    /\ ~ canReady
    /\ canReady' = TRUE
    /\ UNCHANGED <<g_running, main, thread, client>>

ClientConnects ==
    /\ client = "none"
    /\ thread["doip"] \in {"check", "body"}
    /\ client' = "connecting"
    /\ UNCHANGED <<g_running, main, thread, canReady>>

ClientSends ==
    /\ client \in {"silent", "sent"}
    /\ client' = "sent"
    /\ UNCHANGED <<g_running, main, thread, canReady>>

ClientCloses ==
    /\ \/ client = "silent" /\ client' = "closed"
       \/ client = "sent" /\ client' = "leaving"
    /\ UNCHANGED <<g_running, main, thread, canReady>>

ClientActs == ClientSends \/ ClientCloses
-----------------------------------------------------------------------------
Main == SetupFails \/ StartThread \/ StopWaiting \/ JoinThread
Producer == ProducerRead \/ ProducerReadFails
Doip == DoipSetup \/ DoipPollTimeout \/ DoipPollFails \/ DoipAccept \/ DoipCheckRunning
            \/ DoipRecv \/ DoipSendKilled \/ DoipRecvEnds
Environment == Sigint \/ BusFrame \/ ClientConnects \/ ClientActs

Next ==
    \/ Main
    \/ \E t \in Threads : CheckRunning(t) \/ Iterate(t)
    \/ Producer
    \/ Doip
    \/ Environment

(***************************************************************************)
(* Fairness: the scheduler runs every thread that can run; a timeout       *)
(* expires, data that arrived is returned.  Failures are never required,   *)
(* and reads of a socket that holds a frame do not fail for ever.          *)
(***************************************************************************)
ThreadFairness ==
    /\ WF_vars(StartThread)
    /\ WF_vars(StopWaiting)
    /\ WF_vars(JoinThread)
    /\ \A t \in Threads : WF_vars(CheckRunning(t)) /\ WF_vars(Iterate(t))
    /\ SF_vars(ProducerRead)
    /\ WF_vars(DoipSetup)
    /\ WF_vars(DoipPollTimeout)
    /\ WF_vars(DoipCheckRunning)
    /\ WF_vars(DoipRecv)
    /\ WF_vars(DoipRecvEnds)

Spec == Init /\ [][Next]_vars /\ ThreadFairness

\* Traffic on the bus never stops; a connected client sends or closes.
BusyBus == WF_vars(BusFrame)
LivelyClient == WF_vars(ClientActs)

LivelyClientSpec == Spec /\ LivelyClient
-----------------------------------------------------------------------------
(***************************************************************************)
(* Properties                                                              *)
(***************************************************************************)

\* Every thread is at one of its steps, and so are main and the DoIP client.
TypeOK ==
    /\ g_running \in BOOLEAN
    /\ main \in DOMAIN Starts \cup {"wait", "failed", "killed", "closed"} \cup DOMAIN Joins
    /\ thread \in [Threads -> {"none", "setup", "check", "body", "client", "recv", "done"}]
    /\ canReady \in BOOLEAN
    /\ client \in {"none", "connecting", "silent", "sent", "leaving", "closed"}

\* main's locals (the ring, the parser, the DoIP server, the CAN socket) are
\* used by the threads through references: main must not return while a thread
\* it started still runs, however it comes to return.
LocalsOutliveThreads ==
    main \in {"closed", "failed"} => \A t \in Threads : thread[t] \in {"none", "done"}

\* An accepted client is open exactly while handleClient serves it: however a
\* connection and the program end, no descriptor is leaked and none is used
\* after its close.
ClientIsServed ==
    client \in {"silent", "sent", "leaving", "closed"} <=> thread["doip"] \in {"client", "recv"}

\* A reader thread only stops because of SIGINT, or because the process does:
\* no failure of the bus or of the DoIP side ends it alone.
ReaderStopsOnlyOnSignal ==
    thread["producer"] = "done" => ~ g_running \/ main = "killed"

\* The CAN reader does not wait for the DoIP side (main.cpp:100): while the
\* program runs, a frame on the socket is read even if a DoIP client blocks
\* handleClient for ever.
Running == g_running /\ main \notin {"failed", "killed"}
CanKeepsReading == canReady /\ Running ~> ~ canReady \/ ~ Running

\* Ctrl+C makes the program leave its loops and clean up (main.cpp:57,
\* README.md:49).
ShutdownCompletes == ~ g_running ~> main \in {"closed", "failed", "killed"}

\* With traffic on the bus and a client that is not silent for ever, it does,
\* wherever the signal finds each thread.
BusyShutdownCompletes == BusyBus /\ LivelyClient => ShutdownCompletes
=============================================================================

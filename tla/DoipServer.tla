----------------------------- MODULE DoipServer ------------------------------
(***************************************************************************)
(* What passes between the DoIP server and its client (handleClient in     *)
(* src/src/doip_server.cpp), in the program Lifecycle describes.  TCP      *)
(* keeps the order of the bytes and not the limits of the messages: one    *)
(* recv returns any non-empty part of what has arrived, and the server     *)
(* takes each for one message.                                             *)
(***************************************************************************)
EXTENDS Lifecycle

CONSTANTS Header,       \* 8: the least that is answered, and an answer's size
          Version,      \* 0x02: how a DoIP header begins
          BufferSize,   \* 1024: the most one recv returns
          Messages,     \* what a client sends at a time, as bytes
          MaxMessages   \* bound: messages per connection

ASSUME DoipAssumption ==
    /\ {Header, BufferSize} \subseteq Nat \ {0}
    /\ MaxMessages \in Nat
    /\ \A m \in Messages : m \in Seq(STRING) /\ m # << >>

VARIABLES
    stream,     \* the bytes sent and not yet received; each knows whether it
                \* begins a message, which the server does not
    reset,      \* the server has written to a client that is gone
    \* history of the connection
    sentCount,  \* messages the client sent
    asked,      \* those that are a DoIP message with a whole header
    answers,    \* the answers it got
    cut         \* a recv returned something else than one whole message

connection == <<stream, reset, sentCount, asked, answers, cut>>
doipVars == <<vars, connection>>

DoipInit ==
    /\ Init
    /\ stream = << >>
    /\ reset = FALSE
    /\ sentCount = 0
    /\ asked = 0
    /\ answers = 0
    /\ cut = FALSE

\* The next client starts afresh.
Forget ==
    /\ stream' = << >>
    /\ reset' = FALSE
    /\ sentCount' = 0
    /\ asked' = 0
    /\ answers' = 0
    /\ cut' = FALSE
-----------------------------------------------------------------------------
IsProbe(m) == Len(m) >= Header /\ m[1] = Version

Marked(m) == [i \in 1 .. Len(m) |-> [byte |-> m[i], first |-> i = 1]]

\* The first n bytes of the stream are one message.
Whole(n) ==
    /\ stream[1].first
    /\ \A i \in 2 .. n : ~ stream[i].first
    /\ n = Len(stream) \/ stream[n + 1].first

Send(m) ==
    /\ ClientSends
    /\ sentCount < MaxMessages
    /\ stream' = stream \o Marked(m)
    /\ sentCount' = sentCount + 1
    /\ asked' = asked + (IF IsProbe(m) THEN 1 ELSE 0)
    /\ UNCHANGED <<reset, answers, cut>>

\* Mutant: a bare header is too short for an answer.
AnsweredLonger(n) == n > Header /\ stream[1].byte = Version

\* The n bytes received are answered.
Answered(n) == n >= Header /\ stream[1].byte = Version

\* One turn of handleClient's loop.  The first answer to a client that is gone
\* makes its side reset the connection, sooner or later.
Receive(n) ==
    /\ DoipRecv
    /\ stream' = SubSeq(stream, n + 1, Len(stream))
    /\ client' \in (IF stream' = << >> THEN {"silent", "closed"} ELSE {"sent", "leaving"})
    /\ LET gone == client = "leaving"
       IN  /\ answers' = answers + (IF Answered(n) /\ ~ gone THEN 1 ELSE 0)
           /\ reset' = (reset \/ (Answered(n) /\ gone))
    /\ cut' = (cut \/ ~ Whole(n))
    /\ UNCHANGED <<sentCount, asked>>

\* An answer after the reset raises SIGPIPE.
ReceiveKilled(n) ==
    /\ DoipSendKilled
    /\ Answered(n) /\ reset
    /\ Forget

Received == 1 .. (IF Len(stream) < BufferSize THEN Len(stream) ELSE BufferSize)

\* The client is closed: at the end of its stream, or because the program stops.
Disconnect ==
    \/ DoipRecvEnds /\ Forget
    \/ DoipCheckRunning /\ IF g_running THEN UNCHANGED connection ELSE Forget

\* Everything that does not concern the connection.
Elsewhere ==
    /\ \/ Main
       \/ \E t \in Threads : CheckRunning(t) \/ Iterate(t)
       \/ Producer
       \/ DoipSetup \/ DoipPollTimeout \/ DoipPollFails \/ DoipAccept
       \/ Sigint \/ BusFrame \/ ClientConnects \/ ClientCloses
    /\ UNCHANGED connection

DoipNext ==
    \/ Elsewhere
    \/ \E m \in Messages : Send(m)
    \/ \E n \in Received : Receive(n) \/ ReceiveKilled(n)
    \/ Disconnect

DoipSpec == DoipInit /\ [][DoipNext]_doipVars /\ ThreadFairness
-----------------------------------------------------------------------------
(***************************************************************************)
(* Properties.                                                             *)
(***************************************************************************)

\* A client whose messages arrive whole, one by one, has got one answer for
\* each DoIP header it sent (README.md:95) once the server waits for more.  It
\* does not hold of messages that TCP splits or joins: a header in two parts is
\* not answered, and two headers at once are answered as one.
ProbesAnsweredOnce ==
    client = "silent" /\ ~ cut => answers = asked

\* So it never waits for an answer in vain, unless it leaves or the program
\* stops: the server is not inside recv with a header it has read.
NoProbeWaits ==
    asked > answers ~> asked = answers \/ cut \/ client \in {"leaving", "closed"} \/ ~ Running
=============================================================================

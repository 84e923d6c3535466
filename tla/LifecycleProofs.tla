--------------------------- MODULE LifecycleProofs ---------------------------
(***************************************************************************)
(* Proofs about Lifecycle: main's locals outlive the threads, a client is  *)
(* open exactly while it is served, the reader stops only with SIGINT;     *)
(* that DoipServer, with its bytes and answers, is a Lifecycle; and that   *)
(* a header that arrives whole is answered once.                           *)
(***************************************************************************)
EXTENDS DoipServer, FiniteSetTheorems, FunctionTheorems, TLAPS

\* Where each thread can be before main has started it, and after it joined it.
Ordered ==
    /\ main \in {"startProducer", "failed"} => \A t \in Threads : thread[t] = "none"
    /\ main = "startConsumer" =>
           \A t \in {"consumer", "monitor", "doip"} : thread[t] = "none"
    /\ main = "startMonitor" => \A t \in {"monitor", "doip"} : thread[t] = "none"
    /\ main = "startDoip" => thread["doip"] = "none"
    /\ main = "joinProducer" => thread["doip"] = "done"
    /\ main = "joinConsumer" => \A t \in {"doip", "producer"} : thread[t] = "done"
    /\ main = "joinMonitor" =>
           \A t \in {"doip", "producer", "consumer"} : thread[t] = "done"
    /\ main = "closed" => \A t \in Threads : thread[t] = "done"

\* The inductive invariant.
IInv == TypeOK /\ Ordered /\ ClientIsServed /\ ReaderStopsOnlyOnSignal

LEMMA Table ==
    /\ DOMAIN Starts = {"startProducer", "startConsumer", "startMonitor", "startDoip"}
    /\ DOMAIN Joins = {"joinDoip", "joinProducer", "joinConsumer", "joinMonitor"}
    /\ Starts["startProducer"] = <<"producer", "startConsumer">>
    /\ Starts["startConsumer"] = <<"consumer", "startMonitor">>
    /\ Starts["startMonitor"] = <<"monitor", "startDoip">>
    /\ Starts["startDoip"] = <<"doip", "wait">>
    /\ Joins["joinDoip"] = <<"doip", "joinProducer">>
    /\ Joins["joinProducer"] = <<"producer", "joinConsumer">>
    /\ Joins["joinConsumer"] = <<"consumer", "joinMonitor">>
    /\ Joins["joinMonitor"] = <<"monitor", "closed">>
BY DEF Starts, Joins

LEMMA InitInv == Init => IInv
BY Table DEF Init, IInv, TypeOK, Ordered, ClientIsServed, ReaderStopsOnlyOnSignal, Threads

\* main's steps: the threads change by StartThread alone.
LEMMA MainKeeps == IInv /\ Main => IInv'
<1> SUFFICES ASSUME IInv, Main PROVE IInv'
    OBVIOUS
<1> USE Table DEF IInv, TypeOK, Ordered, ClientIsServed, ReaderStopsOnlyOnSignal, Threads
<1>1. CASE SetupFails
    BY <1>1 DEF SetupFails
<1>2. CASE StartThread
    <2>1. CASE main = "startProducer"
        BY <1>2, <2>1 DEF StartThread, Goto
    <2>2. CASE main = "startConsumer"
        BY <1>2, <2>2 DEF StartThread, Goto
    <2>3. CASE main = "startMonitor"
        BY <1>2, <2>3 DEF StartThread, Goto
    <2>4. CASE main = "startDoip"
        BY <1>2, <2>4 DEF StartThread, Goto
    <2>5. QED
        BY <1>2, <2>1, <2>2, <2>3, <2>4 DEF StartThread
<1>3. CASE StopWaiting
    BY <1>3 DEF StopWaiting
<1>4. CASE JoinThread
    <2>1. CASE main = "joinDoip"
        BY <1>4, <2>1 DEF JoinThread
    <2>2. CASE main = "joinProducer"
        BY <1>4, <2>2 DEF JoinThread
    <2>3. CASE main = "joinConsumer"
        BY <1>4, <2>3 DEF JoinThread
    <2>4. CASE main = "joinMonitor"
        BY <1>4, <2>4 DEF JoinThread
    <2>5. QED
        BY <1>4, <2>1, <2>2, <2>3, <2>4 DEF JoinThread
<1>5. QED
    BY <1>1, <1>2, <1>3, <1>4 DEF Main

\* A thread that is neither "none" nor "done" may move: Ordered says nothing
\* of where it is.
LEMMA MoveKeepsOrder ==
    ASSUME TypeOK, Ordered, UNCHANGED main,
           NEW t \in Threads, NEW from, NEW to,
           from \notin {"none", "done"}, Goto(t, from, to)
    PROVE  Ordered'
BY DEF TypeOK, Ordered, Goto, Threads

LEMMA LoopKeeps ==
    ASSUME IInv, NEW t \in Threads, CheckRunning(t) \/ Iterate(t)
    PROVE  IInv'
<1> USE DEF IInv
<1>1. CASE CheckRunning(t)
    <2>1. Ordered'
        BY <1>1, MoveKeepsOrder DEF CheckRunning
    <2>2. QED
        BY <1>1, <2>1 DEF CheckRunning, Goto, TypeOK, ClientIsServed,
              ReaderStopsOnlyOnSignal, Threads
<1>2. CASE Iterate(t)
    <2>1. Ordered'
        BY <1>2, MoveKeepsOrder DEF Iterate
    <2>2. QED
        BY <1>2, <2>1 DEF Iterate, Goto, TypeOK, ClientIsServed,
              ReaderStopsOnlyOnSignal, Threads
<1>3. QED
    BY <1>1, <1>2

LEMMA ProducerKeeps == IInv /\ Producer => IInv'
<1> SUFFICES ASSUME IInv, Producer PROVE IInv'
    OBVIOUS
<1> USE DEF IInv
<1>1. Goto("producer", "body", "check") /\ UNCHANGED <<g_running, main, client>>
        /\ canReady' \in BOOLEAN
    BY DEF Producer, ProducerRead, ProducerReadFails, TypeOK
<1>2. Ordered'
    BY <1>1, MoveKeepsOrder DEF Threads
<1>3. QED
    BY <1>1, <1>2 DEF Goto, TypeOK, ClientIsServed, ReaderStopsOnlyOnSignal, Threads

LEMMA DoipKeeps == IInv /\ Doip => IInv'
<1> SUFFICES ASSUME IInv, Doip PROVE IInv'
    OBVIOUS
<1> USE DEF IInv
<1>1. CASE DoipSendKilled
    BY <1>1 DEF DoipSendKilled, TypeOK, Ordered, ClientIsServed,
          ReaderStopsOnlyOnSignal, Threads
<1>2. CASE ~ DoipSendKilled
    <2>1. PICK from \in {"setup", "body", "client", "recv"},
               to \in {"check", "done", "client", "recv"} : Goto("doip", from, to)
        BY <1>2 DEF Doip, DoipSetup, DoipPollTimeout, DoipPollFails, DoipAccept,
              DoipCheckRunning, DoipRecv, DoipRecvEnds
    <2>2. UNCHANGED <<g_running, main, canReady>>
        BY <1>2 DEF Doip, DoipSetup, DoipPollTimeout, DoipPollFails, DoipAccept,
              DoipCheckRunning, DoipRecv, DoipRecvEnds
    <2>3. Ordered'
        BY <2>1, <2>2, MoveKeepsOrder DEF Threads
    <2>4. TypeOK' /\ ClientIsServed'
        BY <1>2 DEF Doip, DoipSetup, DoipPollTimeout, DoipPollFails, DoipAccept,
              DoipCheckRunning, DoipRecv, DoipRecvEnds, Goto, TypeOK, ClientIsServed, Threads
    <2>5. ReaderStopsOnlyOnSignal'
        BY <2>1, <2>2 DEF Goto, TypeOK, ReaderStopsOnlyOnSignal, Threads
    <2>6. QED
        BY <2>3, <2>4, <2>5
<1>3. QED
    BY <1>1, <1>2

LEMMA EnvironmentKeeps == IInv /\ Environment => IInv'
<1> SUFFICES ASSUME IInv, Environment PROVE IInv'
    OBVIOUS
<1> USE DEF IInv
<1>1. CASE Sigint
    <2>1. Ordered'
        <3>1. CASE UNCHANGED thread
            BY <1>1, <3>1 DEF Sigint, Ordered, Threads
        <3>2. CASE Goto("doip", "body", "done")
            BY <1>1, <3>2, MoveKeepsOrder DEF Sigint, Threads
        <3>3. QED
            BY <1>1, <3>1, <3>2 DEF Sigint
    <2>2. QED
        BY <1>1, <2>1 DEF Sigint, Goto, TypeOK, ClientIsServed,
              ReaderStopsOnlyOnSignal, Threads
<1>2. CASE BusFrame \/ ClientConnects \/ ClientActs
    <2>1. UNCHANGED <<g_running, main, thread>>
        BY <1>2 DEF BusFrame, ClientConnects, ClientActs, ClientSends, ClientCloses
    <2>2. TypeOK' /\ ClientIsServed'
        BY <1>2 DEF BusFrame, ClientConnects, ClientActs, ClientSends, ClientCloses,
              TypeOK, ClientIsServed
    <2>3. QED
        BY <2>1, <2>2 DEF Ordered, ReaderStopsOnlyOnSignal
<1>3. QED
    BY <1>1, <1>2 DEF Environment

LEMMA StepInv == IInv /\ [Next]_vars => IInv'
<1> SUFFICES ASSUME IInv, [Next]_vars PROVE IInv'
    OBVIOUS
<1>1. CASE Next
    BY <1>1, MainKeeps, LoopKeeps, ProducerKeeps, DoipKeeps, EnvironmentKeeps DEF Next
<1>2. CASE UNCHANGED vars
    BY <1>2 DEF vars, IInv, TypeOK, Ordered, ClientIsServed, ReaderStopsOnlyOnSignal
<1>3. QED
    BY <1>1, <1>2

\* Every thread and main are where the code can be (Lifecycle's TypeOK).
THEOREM PlacesCorrect == Spec => []TypeOK
<1>1. IInv => TypeOK
    BY DEF IInv
<1>2. QED
    BY <1>1, InitInv, StepInv, PTL DEF Spec

\* main never returns while a thread it started still uses its locals, whether
\* it returns after the last join or because its set-up failed (main.cpp:113).
THEOREM LocalsOutlive == Spec => []LocalsOutliveThreads
<1>1. IInv => LocalsOutliveThreads
    BY DEF IInv, Ordered, LocalsOutliveThreads
<1>2. QED
    BY <1>1, InitInv, StepInv, PTL DEF Spec

\* A client is open exactly while handleClient serves it (doip_server.cpp:107).
THEOREM ClientServed == Spec => []ClientIsServed
<1>1. IInv => ClientIsServed
    BY DEF IInv
<1>2. QED
    BY <1>1, InitInv, StepInv, PTL DEF Spec

\* Failed reads do not end the reader thread (main.cpp:136).
THEOREM ReaderStops == Spec => []ReaderStopsOnlyOnSignal
<1>1. IInv => ReaderStopsOnlyOnSignal
    BY DEF IInv
<1>2. QED
    BY <1>1, InitInv, StepInv, PTL DEF Spec
-----------------------------------------------------------------------------
\* A step of the program with the DoIP connection in it is a step of Lifecycle,
\* or does not concern it.
LEMMA DoipStep == [DoipNext]_doipVars => [Next]_vars
<1> SUFFICES ASSUME DoipNext PROVE [Next]_vars
    BY DEF doipVars
<1>1. CASE Elsewhere
    BY <1>1 DEF Elsewhere, Next, Doip, Environment, ClientActs
<1>2. CASE \E m \in Messages : Send(m)
    BY <1>2 DEF Send, Next, Environment, ClientActs
<1>3. CASE \E n \in Received : Receive(n) \/ ReceiveKilled(n)
    BY <1>3 DEF Receive, ReceiveKilled, Next, Doip
<1>4. CASE Disconnect
    BY <1>4 DEF Disconnect, Next, Doip
<1>5. QED
    BY <1>1, <1>2, <1>3, <1>4 DEF DoipNext

\* The server with its byte stream implements Lifecycle, fairness included:
\* what holds of every client there holds whatever TCP does to the messages.
THEOREM DoipIsLifecycle == DoipSpec => Spec
<1>1. DoipInit => Init
    BY DEF DoipInit
<1>2. QED
    BY <1>1, DoipStep, PTL DEF DoipSpec, Spec

\* So whatever the client sends, main's locals outlive the threads, each client
\* is closed by who serves it, and the reader stops only with SIGINT.
THEOREM DoipIsOrderly ==
    DoipSpec => [](LocalsOutliveThreads /\ ClientIsServed /\ ReaderStopsOnlyOnSignal)
BY DoipIsLifecycle, LocalsOutlive, ClientServed, ReaderStops, PTL
-----------------------------------------------------------------------------
(***************************************************************************)
(* One answer for each header that arrives whole.  While no recv has cut a *)
(* message, the answers a client still has coming are the headers in the   *)
(* stream: a byte begins one if it begins a message whose header is there. *)
(***************************************************************************)
Stream == Seq([byte : STRING, first : BOOLEAN])

Begins(s, i) ==
    /\ s[i].first
    /\ s[i].byte = Version
    /\ i + Header - 1 <= Len(s)
    /\ \A j \in i + 1 .. i + Header - 1 : ~ s[j].first

Probes(s) == {i \in 1 .. Len(s) : Begins(s, i)}

AnswersInv ==
    /\ stream \in Stream
    /\ {asked, answers} \subseteq Nat
    /\ client \in {"none", "connecting"} => asked = 0 /\ answers = 0
    /\ client \in {"none", "connecting", "silent"} => stream = << >>
    /\ client \in {"none", "connecting", "silent", "sent"} /\ ~ cut
           => asked = answers + Cardinality(Probes(stream))

\* Of sequences: their concatenation, and what is left after a beginning.
LEMMA Joined ==
    ASSUME NEW E, NEW s \in Seq(E), NEW r \in Seq(E)
    PROVE  /\ s \o r \in Seq(E) /\ Len(s \o r) = Len(s) + Len(r)
           /\ Len(s) \in Nat /\ Len(r) \in Nat
           /\ \A i \in 1 .. Len(s) : (s \o r)[i] = s[i]
           /\ \A i \in Len(s) + 1 .. Len(s) + Len(r) : (s \o r)[i] = r[i - Len(s)]
OBVIOUS

LEMMA Cut ==
    ASSUME NEW E, NEW s \in Seq(E), NEW n \in 1 .. Len(s)
    PROVE  LET rest == SubSeq(s, n + 1, Len(s))
           IN  /\ rest \in Seq(E) /\ Len(rest) = Len(s) - n
               /\ \A i \in 1 .. Len(s) - n : rest[i] = s[n + i]
OBVIOUS

LEMMA ProbesAreFinite ==
    ASSUME NEW s \in Stream
    PROVE  IsFiniteSet(Probes(s)) /\ Cardinality(Probes(s)) \in Nat
<1>1. IsFiniteSet(1 .. Len(s))
    BY FS_Interval DEF Stream
<1>2. IsFiniteSet(Probes(s))
    BY <1>1, FS_Subset DEF Probes
<1>3. QED
    BY <1>2, FS_CardinalityType

LEMMA NoProbes == Probes(<< >>) = {} /\ Cardinality(Probes(<< >>)) = 0
<1>1. Probes(<< >>) = {}
    BY DEF Probes
<1>2. QED
    BY <1>1, FS_EmptySet

\* A message adds one if it is a header, wherever the message before it ends.
LEMMA SendAddsProbe ==
    ASSUME NEW s \in Stream, NEW m \in Messages
    PROVE  /\ s \o Marked(m) \in Stream
           /\ Cardinality(Probes(s \o Marked(m)))
                = Cardinality(Probes(s)) + (IF IsProbe(m) THEN 1 ELSE 0)
<1> DEFINE t == s \o Marked(m)
           x == Len(s) + 1
<1>1. m \in Seq(STRING) /\ Len(m) \in Nat \ {0} /\ Header \in Nat \ {0}
    BY DoipAssumption
<1>2. /\ Marked(m) \in Stream /\ Len(Marked(m)) = Len(m)
      /\ \A i \in 1 .. Len(m) : Marked(m)[i] = [byte |-> m[i], first |-> i = 1]
    BY <1>1 DEF Marked, Stream
<1>3. /\ t \in Stream /\ Len(t) = Len(s) + Len(m) /\ Len(s) \in Nat
      /\ \A i \in 1 .. Len(s) : t[i] = s[i]
      /\ \A i \in x .. Len(t) : t[i] = Marked(m)[i - Len(s)]
    <2> DEFINE E == [byte : STRING, first : BOOLEAN]
    <2>1. s \in Seq(E) /\ Marked(m) \in Seq(E)
        BY <1>2 DEF Stream
    <2> HIDE DEF E
    <2> DEFINE r == Marked(m)
    <2>2. r \in Seq(E) /\ Len(r) = Len(m)
        BY <1>2, <2>1
    <2> HIDE DEF r
    <2>3. /\ s \o r \in Seq(E) /\ Len(s \o r) = Len(s) + Len(r) /\ Len(s) \in Nat
          /\ \A i \in 1 .. Len(s) : (s \o r)[i] = s[i]
          /\ \A i \in Len(s) + 1 .. Len(s) + Len(r) : (s \o r)[i] = r[i - Len(s)]
        BY <2>1, <2>2, Joined
    <2>4. Len(s) + Len(r) = Len(s \o r)
        BY <2>3
    <2>5. QED
        BY <2>2, <2>3, <2>4 DEF Stream, E, r
<1> HIDE DEF t
<1>4. t[x].first /\ t[x].byte = m[1] /\ \A i \in x + 1 .. Len(t) : ~ t[i].first
    <2>1. x \in x .. Len(t) /\ x - Len(s) = 1 /\ 1 \in 1 .. Len(m)
        BY <1>1, <1>3
    <2>2. t[x] = [byte |-> m[1], first |-> TRUE]
        BY <1>2, <1>3, <2>1
    <2>3. ASSUME NEW i \in x + 1 .. Len(t) PROVE ~ t[i].first
        <3>1. i \in x .. Len(t) /\ i - Len(s) \in 1 .. Len(m) /\ i - Len(s) # 1
            BY <1>1, <1>3
        <3>2. t[i] = [byte |-> m[i - Len(s)], first |-> i - Len(s) = 1]
            BY <1>2, <1>3, <3>1
        <3>3. t[i] = [byte |-> m[i - Len(s)], first |-> FALSE]
            BY <3>1, <3>2
        <3>4. QED
            BY <3>3
    <2>4. t[x].first /\ t[x].byte = m[1]
        BY <2>2
    <2>5. QED
        BY <2>3, <2>4
<1>5. ASSUME NEW i \in 1 .. Len(s)
      PROVE  Begins(t, i) <=> Begins(s, i)
    <2>1. t[i] = s[i] /\ t[x].first /\ x \in Nat /\ Len(s) <= Len(t)
        BY <1>1, <1>3, <1>4
    <2>2. CASE i + Header - 1 <= Len(s)
        <3>1. \A j \in i + 1 .. i + Header - 1 : t[j] = s[j]
            BY <1>1, <1>3, <2>2
        <3>2. QED
            BY <1>1, <1>3, <2>1, <2>2, <3>1 DEF Begins
    <2>3. CASE i + Header - 1 > Len(s)
        <3>1. x \in i + 1 .. i + Header - 1
            BY <1>1, <1>3, <2>3
        <3>2. QED
            BY <1>1, <1>3, <2>1, <2>3, <3>1 DEF Begins
    <2>4. QED
        BY <1>1, <1>3, <2>2, <2>3
<1>6. ASSUME NEW i \in x + 1 .. Len(t) PROVE ~ Begins(t, i)
    BY <1>4 DEF Begins
<1>7. Begins(t, x) <=> IsProbe(m)
    <2>1. t[x].first /\ t[x].byte = m[1] /\ x + Header - 1 = Len(s) + Header
        BY <1>1, <1>3, <1>4
    <2>2. ASSUME Header <= Len(m), NEW j \in x + 1 .. x + Header - 1
          PROVE  ~ t[j].first
        <3>1. j \in x + 1 .. Len(t)
            BY <1>1, <1>3, <2>2
        <3>2. QED
            BY <1>4, <3>1
    <2>3. QED
        BY <1>1, <1>3, <2>1, <2>2 DEF Begins, IsProbe
<1>8. Probes(t) = Probes(s) \cup (IF IsProbe(m) THEN {x} ELSE {}) /\ x \notin Probes(s)
    <2>1. \A i : i \in 1 .. Len(t) <=> i \in 1 .. Len(s) \/ i = x \/ i \in x + 1 .. Len(t)
        BY <1>1, <1>3
    <2>2. QED
        BY <1>3, <1>5, <1>6, <1>7, <2>1 DEF Probes
<1>9. QED
    BY <1>3, <1>8, ProbesAreFinite, FS_AddElement DEF t

\* Receiving a whole message takes one away if it was a header.
LEMMA WholeTakesProbe ==
    ASSUME NEW s \in Stream, NEW n \in 1 .. Len(s), s[1].first,
           \A i \in 2 .. n : ~ s[i].first,
           n = Len(s) \/ s[n + 1].first
    PROVE  LET rest == SubSeq(s, n + 1, Len(s))
           IN  Cardinality(Probes(s))
                 = Cardinality(Probes(rest))
                       + (IF n >= Header /\ s[1].byte = Version THEN 1 ELSE 0)
<1> DEFINE rest == SubSeq(s, n + 1, Len(s))
           R == Probes(rest)
           S == Probes(s) \ {1}
           move == [i \in S |-> i - n]
<1>1. Header \in Nat \ {0} /\ Len(s) \in Nat /\ n \in Nat \ {0} /\ n <= Len(s)
    BY DoipAssumption DEF Stream
<1>2. /\ rest \in Stream /\ Len(rest) = Len(s) - n
      /\ \A i \in 1 .. Len(s) - n : rest[i] = s[n + i]
    BY Cut DEF Stream
<1> HIDE DEF rest
<1>3. Begins(s, 1) <=> n >= Header /\ s[1].byte = Version
    <2>1. CASE n >= Header
        BY <1>1, <2>1 DEF Begins
    <2>2. CASE n < Header
        <3>1. CASE n = Len(s)
            BY <1>1, <2>2, <3>1 DEF Begins
        <3>2. CASE s[n + 1].first
            <4>1. n + 1 \in 2 .. Header
                BY <1>1, <2>2
            <4>2. QED
                BY <1>1, <2>2, <3>2, <4>1 DEF Begins
        <3>3. QED
            BY <3>1, <3>2
    <2>3. QED
        BY <1>1, <2>1, <2>2
<1>4. ASSUME NEW i \in 2 .. n PROVE ~ Begins(s, i)
    BY <1>4 DEF Begins
<1>5. ASSUME NEW i \in 1 .. Len(s) - n PROVE Begins(rest, i) <=> Begins(s, n + i)
    <2>1. rest[i] = s[n + i]
        BY <1>2
    <2>2. n + i + Header - 1 <= Len(s) <=> i + Header - 1 <= Len(rest)
        BY <1>1, <1>2
    <2>3. ASSUME i + Header - 1 <= Len(rest)
          PROVE  (\A j \in n + i + 1 .. n + i + Header - 1 : ~ s[j].first)
                    <=> (\A j \in i + 1 .. i + Header - 1 : ~ rest[j].first)
        <3>1. ASSUME NEW j \in i + 1 .. i + Header - 1 PROVE rest[j] = s[n + j]
            BY <1>1, <1>2, <2>3
        <3>2. \A j \in i + 1 .. i + Header - 1 : n + j \in n + i + 1 .. n + i + Header - 1
            BY <1>1
        <3>3. \A j \in n + i + 1 .. n + i + Header - 1 :
                  j - n \in i + 1 .. i + Header - 1 /\ n + (j - n) = j
            BY <1>1
        <3>4. QED
            BY <3>1, <3>2, <3>3
    <2>4. QED
        BY <2>1, <2>2, <2>3 DEF Begins
<1>6. \A i \in S : i \in n + 1 .. Len(s) /\ i - n \in R
    <2>1. SUFFICES ASSUME NEW i \in S PROVE i \in n + 1 .. Len(s) /\ i - n \in R
        OBVIOUS
    <2>2. i \in n + 1 .. Len(s)
        BY <1>1, <1>4 DEF Probes
    <2>3. i - n \in 1 .. Len(s) - n /\ n + (i - n) = i /\ Begins(s, i)
        BY <1>1, <2>2 DEF Probes
    <2>4. QED
        BY <1>2, <1>5, <2>2, <2>3 DEF Probes
<1>7. \A k \in R : k \in Nat /\ n + k \in S
    <2>1. SUFFICES ASSUME NEW k \in R PROVE k \in Nat /\ n + k \in S
        OBVIOUS
    <2>2. k \in 1 .. Len(s) - n /\ Begins(rest, k)
        BY <1>2 DEF Probes
    <2>3. n + k \in 1 .. Len(s) /\ n + k # 1
        BY <1>1, <2>2
    <2>4. QED
        BY <1>5, <2>2, <2>3 DEF Probes
<1>8. ExistsBijection(S, R)
    <2>1. move \in Bijection(S, R)
        <3>1. move \in [S -> R]
            BY <1>6
        <3>2. \A a, b \in S : move[a] = move[b] => a = b
            BY <1>1, <1>6
        <3>3. \A k \in R : \E i \in S : move[i] = k
            <4>1. SUFFICES ASSUME NEW k \in R PROVE \E i \in S : move[i] = k
                OBVIOUS
            <4>2. n + k \in S /\ (n + k) - n = k
                BY <1>1, <1>7
            <4>3. QED
                BY <4>2
        <3>4. QED
            BY <3>1, <3>2, <3>3, Fun_IsBij
    <2>2. QED
        BY <2>1, Fun_ExistsBij
<1>9. IsFiniteSet(Probes(s)) /\ IsFiniteSet(S) /\ Cardinality(Probes(s)) \in Nat
    BY ProbesAreFinite, FS_RemoveElement
<1>10. Cardinality(R) = Cardinality(S)
    BY <1>8, <1>9, FS_Bijection
<1>11. Cardinality(S) = IF Begins(s, 1) THEN Cardinality(Probes(s)) - 1
                                       ELSE Cardinality(Probes(s))
    <2>1. 1 \in Probes(s) <=> Begins(s, 1)
        BY <1>1 DEF Probes
    <2>2. QED
        BY <1>9, <2>1, FS_RemoveElement
<1>12. QED
    BY <1>3, <1>9, <1>10, <1>11 DEF rest

LEMMA AnswersInductive == AnswersInv /\ [DoipNext]_doipVars => AnswersInv'
<1> SUFFICES ASSUME AnswersInv, [DoipNext]_doipVars PROVE AnswersInv'
    OBVIOUS
<1> USE DEF AnswersInv
<1>1. CASE UNCHANGED <<client, connection>>
    BY <1>1 DEF connection
<1>2. ASSUME Elsewhere PROVE AnswersInv'
    <2>1. UNCHANGED connection
        BY <1>2 DEF Elsewhere
    <2>2. \/ UNCHANGED client
          \/ client = "none" /\ client' = "connecting"
          \/ client = "connecting" /\ client' = "silent"
          \/ client' \in {"closed", "leaving"}
        BY <1>2 DEF Elsewhere, Main, SetupFails, StartThread, StopWaiting, JoinThread,
              CheckRunning, Iterate, Producer, ProducerRead, ProducerReadFails, DoipSetup,
              DoipPollTimeout, DoipPollFails, DoipAccept, Sigint, BusFrame,
              ClientConnects, ClientCloses
    <2>3. QED
        BY <2>1, <2>2 DEF connection
<1>3. ASSUME NEW m \in Messages, Send(m) PROVE AnswersInv'
    <2>1. /\ stream' = stream \o Marked(m) /\ UNCHANGED <<answers, cut>>
          /\ asked' = asked + (IF IsProbe(m) THEN 1 ELSE 0)
          /\ client \in {"silent", "sent"} /\ client' = "sent"
        BY <1>3 DEF Send, ClientSends
    <2>2. stream' \in Stream /\ asked' \in Nat
        BY <2>1, SendAddsProbe
    <2>3. Cardinality(Probes(stream'))
            = Cardinality(Probes(stream)) + (IF IsProbe(m) THEN 1 ELSE 0)
        BY <2>1, SendAddsProbe
    <2>4. Cardinality(Probes(stream)) \in Nat
        BY ProbesAreFinite
    <2>5. ~ cut' => asked' = answers' + Cardinality(Probes(stream'))
        BY <2>1, <2>3, <2>4
    <2>6. QED
        BY <2>1, <2>2, <2>5
<1>4. ASSUME NEW n \in Received, Receive(n) PROVE AnswersInv'
    <2>1. n \in 1 .. Len(stream) /\ Len(stream) \in Nat
        BY DoipAssumption DEF Received, Stream
    <2>2. /\ stream' = SubSeq(stream, n + 1, Len(stream)) /\ asked' = asked
          /\ client \in {"sent", "leaving"}
          /\ client' \in (IF stream' = << >> THEN {"silent", "closed"} ELSE {"sent", "leaving"})
          /\ client = "leaving" => client' \in {"leaving", "closed"}
          /\ client = "sent" => client' \in {"silent", "sent"}
          /\ answers' = answers + (IF Answered(n) /\ client # "leaving" THEN 1 ELSE 0)
        BY <1>4 DEF Receive, DoipRecv
    <2>3. stream' \in Stream
        <3> DEFINE E == [byte : STRING, first : BOOLEAN]
        <3>1. stream \in Seq(E)
            BY DEF Stream
        <3> HIDE DEF E
        <3>2. SubSeq(stream, n + 1, Len(stream)) \in Seq(E)
            BY <2>1, <3>1, Cut
        <3>3. QED
            BY <2>2, <3>2 DEF Stream, E
    <2>4. ASSUME client = "sent", ~ cut'
          PROVE  asked' = answers' + Cardinality(Probes(stream'))
        <3>1. ~ cut /\ Whole(n)
            BY <1>4, <2>4 DEF Receive
        <3>2. Cardinality(Probes(stream))
                = Cardinality(Probes(stream')) + (IF Answered(n) THEN 1 ELSE 0)
            BY <2>1, <2>2, <3>1, WholeTakesProbe DEF Whole, Answered
        <3>3. QED
            BY <2>2, <2>3, <2>4, <3>1, <3>2, ProbesAreFinite
    <2>5. QED
        BY <2>2, <2>3, <2>4
<1>5. ASSUME Forget, client' = "none" PROVE AnswersInv'
    <2>1. << >> \in Stream
        BY DEF Stream
    <2>2. QED
        BY <1>5, <2>1, NoProbes DEF Forget
<1>6. ASSUME NEW n \in Received, ReceiveKilled(n) PROVE AnswersInv'
    BY <1>5, <1>6 DEF ReceiveKilled, DoipSendKilled
<1>7. ASSUME Disconnect PROVE AnswersInv'
    BY <1>1, <1>5, <1>7 DEF Disconnect, DoipRecvEnds, DoipCheckRunning
<1>8. QED
    BY <1>1, <1>2, <1>3, <1>4, <1>6, <1>7 DEF DoipNext, doipVars, vars

\* Whatever clients send and however they leave: one whose messages arrive whole
\* has one answer for each header, for any length of a header and any buffer.
THEOREM AnsweredOnce == DoipSpec => []ProbesAnsweredOnce
<1>1. DoipInit => AnswersInv
    BY NoProbes DEF DoipInit, Init, AnswersInv, Stream
<1>2. AnswersInv => ProbesAnsweredOnce
    BY NoProbes DEF AnswersInv, ProbesAnsweredOnce
<1>3. QED
    BY <1>1, <1>2, AnswersInductive, PTL DEF DoipSpec
=============================================================================

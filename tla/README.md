# CAN-FromScratch: TLA+ models and proofs

This directory models the program in this repository: a CAN frame reader and
parser with a lock-free ring between two threads, a UDS plug-in that reassembles
segmented diagnostic messages, and a DoIP listener. TLC checks the models on
small instances; TLAPS proves the results at the end for every instance.

    tlc -config RingBuffer.cfg MCRingBuffer     (PROJECT.json names the module of each run)
    tlapm RingBufferProofs.tla

Paths below are relative to the repository root (`src/main.cpp` is
`src/src/main.cpp` in PROJECT.json, which is relative to the directory above it).

## The system

| Part | Code | State it keeps | Operations |
| --- | --- | --- | --- |
| Ring buffer | `src/ring_buffer.cpp` | slots, `m_head`, `m_tail` (atomics) | `push`, `isFull` (reader thread), `pop`, `isEmpty` (parser thread) |
| Data path | `src/main.cpp` | `g_running`, two global counters, the parser's statistics | `producer_task`, `consumer_task`, `monitor_task`, `signal_handler` |
| Start-up and shutdown | `src/main.cpp`, `src/doip_server.cpp` | which threads run, the two sockets | start, wait, join, close |
| UDS plug-in | `src/can_parser.cpp:427-596` | one `DiagnosticMessage` per CAN id | `handleDiagnosticFrame`, `processUdsMessage` |
| Frame parser | `src/can_parser.cpp:8-425` | registry, white list, last counters, validity and age of signals, statistics | `handleFrame`, `parse`, `update`, `is_timeout`, set-up calls |
| DoIP server | `src/doip_server.cpp` | listening and client socket | `run`, `handleClient` |
| Signal extraction | `src/protocol.cpp` | none | `extract_raw_signal` |
| Code generator | `scripts/dbc_codegen.py` | none | DBC text to C++ registrations |
| Tester | `scripts/tester.py` | the message being sent | raw request, first frame, consecutive frames |

The reader thread takes frames from the CAN socket and pushes them into the
ring; a refused frame is counted as dropped. The parser thread pops frames,
counts them, gives those of a registered id to `CanParser::handleFrame` and
redraws the dashboard. The monitor samples the two global counters. The DoIP
thread serves one TCP client at a time and shares nothing with the others but
`g_running`, which SIGINT clears, and the process, which SIGPIPE ends. `main`
waits for `g_running` and joins the threads.

What is hard here: the ring has no lock and each thread compares its index with
a possibly old copy of the other's; four threads stop at different places and
two of them in calls that block; frames are lost when the ring is full, and two
protocols above it (UDS segmentation, rolling counters) have to notice; state
survives a rejected frame. `PROJECT.json` lists every hazard at its line, with
the properties that would catch it going wrong; one that no property covers has a
note that says why.

## The modules

| Module | Models | Corresponds to the code as follows |
| --- | --- | --- |
| `BoundedQueue` | what the ring promises | a queue of at most `m_size - 1` frames, `Put` and `Get` |
| `RingBuffer` | `ring_buffer.cpp` | each access to a shared variable is an action: `PushBegin` (the two loads and the check), `PushWrite` (the slot), `PushPublish` (the store), and likewise `Pop...` |
| `LossyChannel` | what the data path promises | frames arrive, one is dropped from anywhere in the queue once a ring's worth of others is before it, the oldest is delivered |
| `CanPipeline` | the three CAN threads | EXTENDS `RingBuffer`; `producer`, `consumer` and `monitor` are program counters; `ProducerPush` and `ConsumerPop` are the ring's own actions; refines `LossyChannel`, whose queue is the parser thread's frame, the unread slots, the reader's frame and the socket (`InTransit`) |
| `Lifecycle` | start, blocking calls, SIGINT, SIGPIPE, joins | each thread is reduced to its loop condition and the calls that may block |
| `DoipServer` | `handleClient` and its client | EXTENDS `Lifecycle`, whose DoIP actions it refines with the bytes: `Receive` is one turn of the loop, `ReceiveKilled` the one that ends in SIGPIPE |
| `UdsPlugin` | `handleDiagnosticFrame`, `processUdsMessage` | one action per outcome of a frame |
| `UdsLink` | `UdsPlugin` with a tester and a lossy path | EXTENDS `UdsPlugin`; a frame is handled or lost in the step that sends it |
| `CounterRule` | the rolling-counter check | operators |
| `CounterStream` | one message, its sender, losses, the check | `Accept`, `Reject`, `Lose` |
| `SignalCodec` | `extract_raw_signal`; the start bit `dbc_codegen.py` computes | operators on functions from bits to Booleans, one per statement of the C++ function |
| `SignalStream` | `CounterStream` with the frames' bits | EXTENDS both; the parser finds the counter and a signal with `extract_raw_signal` |
| `Checksums` | `calculateChecksum`; what a CRC is | folds over the bytes, as the loops of the code |
| `CanParser` | `handleFrame`, `parse`, `update`, time-outs, white list, statistics | one action per outcome of `handleFrame`, one per set-up call, `Tick` for the clock |

`MC...` modules give the constants values for TLC; `...Proofs` modules hold the
theorems. Operators whose comment begins with "Mutant" are the model with one
plausible bug; each names the property that finds it in `PROJECT.json`. They are
part of no specification.

### Abstractions

* A C++ acquire load of an index the other thread writes returns any value
  between the one this thread loaded last and the newest (`Loadable`). Coherence
  gives exactly that, and what a thread has seen of the index, it has
  synchronised with: so interleaving the accesses is sound for the slots. The
  slot copies are not atomic in the code. They are one step each in the model,
  and `NoDataRace` says that they never overlap, which is what allows it.
* `consumer_task` is the only user of the parser, so the body of its loop after
  `pop` is one step. Of a frame `CanPipeline` keeps only whether its id is
  registered. The database the code generator writes has no
  counters or checksums and all its ids on the white list, so its frames are valid.
* The bus of `CanPipeline` is what the kernel puts into the raw socket's receive
  buffer (`BusFrame`). A frame that finds this buffer full is lost in the kernel: the
  program neither sees nor counts it, so "every frame" and "from the bus" begin at
  the socket, here and in the proofs. That the reader keeps up with the bus is
  a question of timing, which no model here has.
* Nothing in `src/` calls `isFull` and `isEmpty`; `RingBuffer` models them
  as what the class offers its two threads, and `RoomIsKept` and `FrameIsKept` say
  what a caller could rely on. They are not promises `main.cpp` depends on.
* `std::signal` of glibc restarts `read` and `recv` after the handler (BSD
  semantics) and does not restart `poll`. The signal is delivered to any thread.
* A checksum field is one whole byte. `calculateChecksum` runs over the field
  alone, so its value is a function of the field: the constant `Calculated`, which
  `MCCanParser` computes with `Checksums` from the frames of `fault_tolerance_test`.
  Two `ASSUME`s there check, for all 256 bytes, that XOR and SUM of one byte are
  that byte, and for them and two longer messages that the code's CRCs are
  remainders of a polynomial division, `Checksums`' reference definition.
* Counters of up to eight bits; with more the cut to `uint8_t` matters too.
* A signal is registered once, at any time, and its threshold changed at any time.
  Time is `Tick`; ages stop growing at `MaxAge`, above every threshold.
* A `uint64_t` is a function from its bits to Booleans and a shift renumbers them,
  so width and undefined shifts (`ShiftDefined`) stay visible and a frame may be
  smaller than eight bytes. The counter's value is the sum of its bits.
* TCP keeps the order of bytes: `recv` returns any non-empty beginning of what
  has arrived. Bytes know whether they begin a message, for the properties only.
  The first answer to a client that is gone makes its side reset the connection,
  the next one raises SIGPIPE.
* What a message's payload contains matters to `UdsLink` only as which byte of
  which message it is: a byte is a pair (message, position), and none of these
  pairs is one of the two bytes of a security request (`DataAssumption`).
* The reads of a single frame that claims more than seven bytes give `PastFrame`.
* `last_frame_time`, flow control answers and all printing are left out.

## The runs

Passing runs:

| Run | Bounds | Shows |
| --- | --- | --- |
| `RingBuffer` | 4 slots, 2 frames | safety of the ring; that it implements `BoundedQueue`; with the parser polling, every frame is delivered and a refused reader accepted again |
| `Pipeline` | 2 slots, 3 frames received | accounting of frames, that the threads and the ring implement `LossyChannel`, sanity of the monitor's rate, every frame handled or dropped |
| `Shutdown` | headers of 2 bytes, `recv` of at most 3, 2 messages per client, any number of clients | what holds whatever bus and client do; one answer per header that arrives whole; SIGINT ends the program if both are active |
| `UdsStray` | one id, 2 payloads processed, any frame at any time | the reception invariant |
| `UdsLink` | one id, 3 messages up to 111 bytes or requests, framed or raw, 2 losses | loss and recovery, answers, what a payload spliced from several messages may contain |
| `Parser` | two ids, three signals registered at any time, 2 frames, 2 set-up calls, counter modulo 2, ages to 2 | statistics, counters, multiplexor branches, time-outs, their marks |
| `CounterStream` | frames of two bytes of four bits, every signal in them, counter of two bits in three places, in steps of 3, 3 losses | the value shown is the value sent; blackout after a loss, resynchronisation |

Why the bounds are enough: with four slots both indices wrap and both threads
can hold views that lag by one and two slots; two frames tell loss, duplication
and reordering apart, since the ring treats all frames alike. A ring of two slots
holds one frame, so three frames fill it, are dropped and drain it. The lengths in
`UdsLink` lie on both sides of each boundary (7, 13, 14, 111), 49 is the one
whose frame number 7, the number of a raw request, is the last one, and messages after each other
show whether damage spreads. Ids have separate receptions, so one is enough.
Two parser frames are enough for one after another that was accepted or rejected,
and two set-up calls for a counter and a checksum, or a counter and its reset; a
counter modulo 2 has a right and a wrong value. Longer sequences are covered by
the proofs: every property of `Parser` is proved for any number of frames. Two bytes are enough for signals
inside one byte, across the boundary and over the whole frame, and four bits in a
byte for the two numberings of its bits to differ everywhere; the patterns set
one bit at a time, so each bit is seen to come from its own place. Eight-bit
bytes and longer frames are covered by the proof. A `recv` of at most three bytes returns a part of a
two-byte header, a whole one, or one and a half. Deadlock is not checked in the
runs of `UdsLink` only, where the tester stops after its last message.
`MaxRejected` (12) is above the most `BlackoutBounded` allows (9).

Violation runs. Each states what a comment, a test or the README says; TLC's
trace shows the code doing otherwise.

| Run | The code |
| --- | --- |
| `ShutdownQuietBus` | `main.cpp:131`: on a quiet bus SIGINT does not get the reader out of `read`; `main` waits for ever |
| `PipelineDashboard` | `main.cpp:168`: the divider is reset in every iteration, so frames of other ids never refresh the dashboard |
| `UdsTooLong` | `can_parser.cpp:568`: the sequence number does not wrap at 16; 112 bytes are too many |
| `ParserSentinel` | `can_parser.cpp:168`: 0xFF is also a counter value |
| `ParserChecksum` | `can_parser.cpp:207`: the checksum is that of its own field |

Seen while modelling, and without a run of their own:

* `doip_server.cpp:123`: a client that stays silent keeps the DoIP thread inside
  `recv` after SIGINT, as the quiet bus does the reader. `BusyShutdownCompletes`
  assumes a lively client for that reason.
* `main.cpp:173` and `can_parser.cpp:286`: a frame of a registered id is counted
  twice in the dashboard's total (`ConsumerHandleKnown` adds two).
* `main.cpp:177`: UDS frames never reach the plug-in, because their ids are not
  registered, and `main` does not enable it either.
* `doip_server.cpp:140`: an answer to a client that has closed and reset raises
  SIGPIPE, which nothing handles: the CAN threads end with the process, though
  `main.cpp:100` calls the DoIP thread independent of them (`DoipSendKilled`).
* `doip_server.cpp:137`: a header that TCP delivers in two parts is not answered
  (`README.md:95` has one answer per header); two in one read get one answer.
* `main.cpp:146` and `main.cpp:147`: remote and error frames are parsed as data
  frames of the same id, and bytes beyond `dlc` as data.
* `can_parser.cpp:65`: a signal that was never updated is shown as timed out at
  once, and counted as timed out only after its threshold (`MarksMatchCount`).
* `can_parser.cpp:723`: the comment gives 0x7F for the XOR of the other bytes of
  its frame, which is 0x80; `protocol.cpp:96` gives 256.0 V for 25.6 V.
* `scripts/tester.py:47`: the request 27 01 goes out without a PCI byte, and the
  plug-in takes it for a consecutive frame (`SendRawRequest`, never answered).
* `scripts/tester.py:52`: the string has 19 bytes, so the assertion on the next
  line (20) stops the script before it sends its segmented message. `UdsLink`
  takes the segmentation as the script would do it, for any length.

### Fairness

* `RingBuffer`: a call that began is finished; the parser thread polls for ever
  (`consumer_task` is a loop); a store becomes visible in finite time, expressed
  as fairness of the load that returns the newest value. `InsistentSpec` adds a
  reader that keeps pushing.
* `CanPipeline`: weak fairness of the two CAN threads' steps. Strong fairness of
  `ProducerRead`, because a read that fails leads back to another read, and reads
  of a socket that holds a frame do not fail for ever; and of the pop that sees the
  newest tail. Nothing is assumed of the bus, the user or the monitor.
* `Lifecycle`: each thread that can run runs; `poll`'s timeout expires; data that
  arrived is returned. `Spec` assumes nothing of the bus and the client; `BusyBus`
  and `LivelyClient` are premises of `BusyShutdownCompletes`; the violation run
  assumes `LivelyClient` alone.
* `DoipServer`: the same, on the actions it refines. A thread inside `recv` that
  has data returns some of it.
* `SignalStream`: the node keeps sending and losses end.

## What is proved

Assumptions on the constants are the `ASSUME`s of the modules: a ring of any
size (the constructor's zero included), any set of frames, any UDS frames of
well-formed fields, any messages a DoIP client sends, any registry of signals,
any counter of at most eight bits, frames of any number of bytes.

* `RingBufferProofs`. `NoDataRace` is not inductive. `IInv` adds `ViewsInOrder`
  (going round the ring one meets the pusher's view of the head, the head, the
  popper's view of the tail, the tail, in less than one turn) and `Claims` (while
  `push` is past its check, the slot after the tail is not the view of the head;
  likewise for `pop`). The lemmas on `Distance` are the modular arithmetic, with
  no modulus: the code wraps by comparison. `ImplementsQueue` adds `Contents` (the
  unread slots hold frames, what `push` wrote is at the tail, what `pop` copied is
  the oldest) and shows each step to be `Put`, `Get` or a stutter.
* `PipelineProofs`. `PipelineUsesRing`: a step of the threads is a step of the ring
  or leaves it alone, provided `myFrame` is a frame whenever the reader is at `push`
  (`ReaderInv`); so the ring's theorems hold in the program. `FramesAccounted`
  counts the frames through the ring with `Distance` in place of `Len(Unread)`.
  `RateBounded`: what the monitor can see wrong is a ring's worth of frames,
  because the reader drops only when its view of the head makes the ring full, and
  since it took that view the parser popped no less than that view lags behind
  (`RateInv`). `PipelineTyped` needs `ContentsKept`: what is popped is a frame.
  `PipelineIsAChannel`: the pipeline implements `LossyChannel`. The frames on their
  way are four sequences joined; reading the socket, publishing and retiring move
  the frame at the end of one to the front place of the next and leave the whole as
  it is (`ReadMoves`, `PublishMoves`, `RetireMoves`), every other step of the ring
  leaves all four alone, and the frame a drop takes out has a ring's worth of others
  before it, by the same bound as `RateInv` and the account of all frames
  (`DropRemoves`). `ChannelInv` is the conjunction of the module's invariants with
  `InHands`: what `push` works on is the reader's frame.
* `LifecycleProofs`. `IInv` adds to the types how far `main` has come: which threads
  are started, which are joined (`Ordered`). `DoipIsLifecycle`: a step of
  `DoipServer` is a step of `Lifecycle` or leaves it alone, so its theorems, and
  the properties `Shutdown` checks, hold whatever the client sends. `AnsweredOnce`:
  while nothing was cut, the answers still to come are the headers in the stream
  (`AnswersInv`); a message that is sent adds one or none wherever the one before it
  ends (`SendAddsProbe`), a whole one that is received takes one away or none.
* `UdsProofs`. The conjunction of `TypeOK`, `ReceptionTracked` and
  `CompleteIsWhole` is inductive; `SetKeepsInv` reduces each kind of frame to what
  it writes into one message.
* `UdsLinkProofs`. `AnswersRequests`: payloads of other messages never begin with a
  security request (`AllHarmless`), however their frames are lost and joined, so
  the seeds are exactly the framed requests that arrived. `NoticesOneLoss`: if every
  message fits 111 bytes (`MessagesFit`; the run `UdsTooLong` shows why it must), what
  is processed is what was sent whole, once and in order, as long as one frame at most
  is lost. Until then the plug-in holds the bytes sent so far and the number of the
  next frame; afterwards it waits for a number that is past (`InStep`), so the next
  frame ends the reception, or the next message replaces it. `ProcessesIntact`: with
  the same `MessagesFit`, however many frames are lost and raw requests are sent, a
  message whose frames all arrive is processed once, in its place. `NoticesOneLoss`'s
  invariant does not help, since after two losses a reception may be anything. It is
  enough to know which (`Received`): it is `Faithful`, the bytes of the current
  message so far, if that one is not `damaged`; or `Torn`, begun by some message
  and then spoilt by a byte of another one, or waiting for a frame that is past, so
  that no later frame makes it equal to a message. What is processed is then the
  intact messages, in order, and between them payloads that equal no message (`Sifted`).
  `SplicesInPlace` bounds what those other payloads can be: the j-th byte of each is
  the j-th byte of some message, padding of a last frame, or the one byte of a raw
  request that counts as data. The reception's length, number and payload stay in step
  (`ReceptionTracked`), so a frame that is taken has the number of the place where its
  bytes go (`FitsHandled`), whichever message it came from (`SendKeepsPlaces`).
* `ParserProofs`. Statistics: `StatInv` is inductive. `SignalInv` relates each
  signal to the last accepted frame of its message, and its age to the time since the
  last accepted frame that carried it (in a multiplexed message, one of its own
  branch), so a time-out is reported exactly when that time exceeds the threshold. `BranchesExclude`, `TimeoutsAreSilence` and
  `MarksExplained` follow. `CountersInTurn`: if the counter has fewer than eight
  bits (`Modulus < 256`), accepted counters are consecutive, because then no
  counter is 0xFF (`CounterInv`).
* `CounterProofs`. `Blackouts`: `rejected` grows with the distance the sender's
  counter has come since the accepted one, counted in steps (`CounterInv`); when
  that reaches a whole turn per loss, the frame is accepted.
* `SignalProofs`. The recursive walk over a signal's bits has a closed form in the
  numbering the generated code uses, `final_start_bit + i` (`ReadsItsBits`, by
  well-founded induction over the walk); the shift and the mask then pick these bits.
  The parser's word has eight-bit bytes (`ByteBits = 8`) and any number of them.
  `ReadsTheCounter`: the bits the node writes for its counter add up, where the parser
  looks for them, to the counter (`CounterIsNext`: a byte is the sum of its bits, and
  a counter has none beyond its length). So a step of `SignalStream` is one of
  `CounterStream`, and `BlackoutsOfBits` carries over what is proved of that.

Model-checked only: every liveness property, and the fairness in `IsCounterStream`,
whose steps `ReadsTheCounter` proves (TLAPS does not treat fairness and ENABLED);
that the checksums' folds compute what `Checksums` defines as CRCs, since what a
fold returns for every input is an induction over data. Every safety property of
the passing runs is proved.

## What is not modelled

* Physical values: `phys_value_` is a product and a sum of doubles.
* Frames the kernel drops because the socket's receive buffer is full.
* What is printed and how: the dashboard's layout, the monitor's line, the DoIP
  dump, the UDS log and flow control lines. The program sends none of it on a bus.
* The text processing of `dbc_codegen.py`, and the tester's reception.
* `dlc` and the flags of `can_id`, which the code stores or masks and never reads.
* Checksum fields that are not one whole byte, counters and multiplexors that are
  wider than eight bits, a signal registered twice: no database, test or
  demonstration has one. Big-endian signals that run past the frame are in
  `Extractions` only, since what the shift gives is undefined.
* Failures the code reports and ignores where nothing depends on them (`close`,
  `inet_ntop`), and allocation failures.
* The built-in demonstrations, whose calls `CanParser` makes in any order; the
  build files and the stress script.

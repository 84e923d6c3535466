------------------------------ MODULE UdsLink -------------------------------
(***************************************************************************)
(* A diagnostic tester and the plug-in that reassembles its messages.  The *)
(* tester (src/scripts/tester.py) segments a message as its main does, for *)
(* any length: a first frame with six bytes, then consecutive frames with  *)
(* seven, numbered modulo 16 from 1.  Short messages go into a single      *)
(* frame.  It waits for no answer, so a frame is handled, or lost, in the  *)
(* step that sends it: the queues between keep the order of one id's       *)
(* frames, but a full ring drops frames (producer_task).                   *)
(***************************************************************************)
EXTENDS UdsPlugin

CONSTANTS Lengths,      \* of the data messages
          Requests,     \* how the tester sends 27 01: subset of {"framed", "raw"}
          Pad,          \* the byte 0 that fills a short frame
          MaxMessages,  \* bound: messages per id
          MaxLost       \* bound: frames lost per id

\* The twelve bits a first frame has for the length.
MaxLength == 4095

ASSUME LinkAssumption ==
    /\ Lengths \subseteq 1 .. MaxLength
    /\ Requests \subseteq {"framed", "raw"}
    /\ MaxMessages \in Nat /\ MaxLost \in Nat
    /\ Pad \in Byte
    /\ (1 .. MaxMessages) \X (1 .. MaxLength) \subseteq Byte

\* The data are told apart from the bytes that mean something.
ASSUME DataAssumption ==
    {SecurityAccess, RequestSeed} \cap ((1 .. MaxMessages) \X (1 .. MaxLength)) = {}

VARIABLES
    number,     \* how many messages the tester has begun, per id
    message,    \* the message being sent
    frames,     \* how many of its frames are sent; 0 between messages
    damaged,    \* one of them was lost
    lost,       \* frames lost so far, per id
    intact,     \* messages sent with no frame lost, oldest first, per id
    asked,      \* framed security requests sent and not lost, per id
    raw         \* raw ones

testerVars == <<number, message, frames, damaged, lost, intact, asked, raw>>
linkVars == <<pluginVars, testerVars>>

LinkInit ==
    /\ Init
    /\ number = [id \in UdsId |-> 0]
    /\ message = [id \in UdsId |-> << >>]
    /\ frames = [id \in UdsId |-> 0]
    /\ damaged = [id \in UdsId |-> FALSE]
    /\ lost = [id \in UdsId |-> 0]
    /\ intact = [id \in UdsId |-> << >>]
    /\ asked = [id \in UdsId |-> 0]
    /\ raw = [id \in UdsId |-> 0]
-----------------------------------------------------------------------------
\* A data message of n bytes: the i-th byte of the k-th message.
Data(k, n) == [i \in 1 .. n |-> <<k, i>>]

Request == <<SecurityAccess, RequestSeed>>

\* Seven bytes of m from position i on, padded with zero bytes.
Chunk(m, i) == [j \in 1 .. 7 |-> IF i + j - 1 <= Len(m) THEN m[i + j - 1] ELSE Pad]

FrameOf(pci, length, seq, data) ==
    [pci |-> pci, length |-> length, seq |-> seq, data |-> data]

\* The k-th frame of message m, counted from zero.
FrameNumber(m, k) ==
    IF Len(m) <= 7 THEN FrameOf("single", Len(m), 0, Chunk(m, 1))
    ELSE IF k = 0 THEN FrameOf("first", Len(m), 0, Chunk(m, 1))
    ELSE FrameOf("consecutive", 0, k % 16, Chunk(m, 7 * k))

\* Its frames: six bytes go into the first, seven into each of the others.
FrameCount(m) == IF Len(m) <= 7 THEN 1 ELSE 1 + Len(m) \div 7

\* tester.py sends the request 27 01 without a PCI byte: what arrives has the
\* PCI byte 0x27, a consecutive frame with sequence number 7.
RawRequest == FrameOf("consecutive", 0, 7, Chunk(<<RequestSeed>>, 1))

\* The tester is done with m, or with this frame of it.
Record(id, m, whole) ==
    intact' = IF whole THEN [intact EXCEPT ![id] = Append(@, m)] ELSE intact

\* The count of the requests that arrive.
Counted(count, id, gone) == IF gone THEN count ELSE [count EXCEPT ![id] = @ + 1]
-----------------------------------------------------------------------------
\* The frame f is handled, or lost if the bound allows.
Transmit(id, f, gone) ==
    IF gone
      THEN /\ lost[id] < MaxLost
           /\ lost' = [lost EXCEPT ![id] = @ + 1]
           /\ UNCHANGED pluginVars
      ELSE Handle(id, f) /\ UNCHANGED lost

\* The next frame of message m of id is its k-th.
SendFrame(id, m, k, gone) ==
    LET last == k + 1 = FrameCount(m)
        spoiled == gone \/ (k > 0 /\ damaged[id])
    IN  /\ Transmit(id, FrameNumber(m, k), gone)
        /\ message' = [message EXCEPT ![id] = IF last THEN << >> ELSE m]
        /\ frames' = [frames EXCEPT ![id] = IF last THEN 0 ELSE k + 1]
        /\ damaged' = [damaged EXCEPT ![id] = spoiled /\ ~ last]
        /\ Record(id, m, last /\ ~ spoiled)

Begin(id) ==
    /\ frames[id] = 0
    /\ number[id] < MaxMessages
    /\ number' = [number EXCEPT ![id] = @ + 1]

SendData(id, n, gone) ==
    /\ Begin(id)
    /\ SendFrame(id, Data(number[id] + 1, n), 0, gone)
    /\ UNCHANGED <<asked, raw>>

SendRequest(id, gone) ==
    /\ "framed" \in Requests
    /\ Begin(id)
    /\ SendFrame(id, Request, 0, gone)
    /\ asked' = Counted(asked, id, gone)
    /\ UNCHANGED raw

SendRawRequest(id, gone) ==
    /\ "raw" \in Requests
    /\ Begin(id)
    /\ Transmit(id, RawRequest, gone)
    /\ raw' = Counted(raw, id, gone)
    /\ UNCHANGED <<message, frames, damaged, intact, asked>>

SendNext(id, gone) ==
    /\ frames[id] > 0
    /\ SendFrame(id, message[id], frames[id], gone)
    /\ UNCHANGED <<number, asked, raw>>

LinkNext ==
    \E id \in UdsId, gone \in BOOLEAN :
        \/ \E n \in Lengths : SendData(id, n, gone)
        \/ SendRequest(id, gone)
        \/ SendRawRequest(id, gone)
        \/ SendNext(id, gone)

LinkSpec == LinkInit /\ [][LinkNext]_linkVars
-----------------------------------------------------------------------------
(***************************************************************************)
(* Properties (no other node sends under the tester's id).                 *)
(***************************************************************************)

\* at says where in t the members of s are found, in their order.
Places(at, s, t) ==
    /\ \A i, j \in DOMAIN s : i < j => at[i] < at[j]
    /\ \A i \in DOMAIN s : t[at[i]] = s[i]

\* s is what SelectSeq selects from t for being a member of s (said without its
\* recursion).
SelectedFrom(s, t) ==
    \E at \in [DOMAIN s -> DOMAIN t] :
        /\ Places(at, s, t)
        /\ \A j \in DOMAIN t :
              (\E i \in DOMAIN s : t[j] = s[i]) => \E i \in DOMAIN s : at[i] = j

\* A message sent without loss is processed, whatever was lost before it: its
\* first frame starts over, so damage never spreads to the next message.
IntactIsProcessed ==
    \A id \in UdsId : SelectedFrom(intact[id], processed[id])

\* A payload the tester never sent is processed only after two losses (the end
\* of a message and the first frame of the next): there is no timeout between
\* consecutive frames, but one lost frame alone never goes unnoticed, nor is a
\* message processed twice.  A raw request can stand in for the frame that was
\* lost, so the property is about testers that frame all of theirs.
OneLossIsNoticed ==
    \A id \in UdsId : lost[id] < 2 /\ raw[id] = 0 => processed[id] = intact[id]

\* What the j-th byte of a payload may be when so many messages and raw requests
\* were sent: the j-th byte of one of them, one that fills its last frame, or the
\* 01 of a raw request, whose 27 is the PCI byte of frame number 7.
InItsPlace(b, j, messages, raws) ==
    \/ \E k \in 1 .. messages : b = <<k, j>>
    \/ b = Pad /\ j > 8 /\ j % 7 # 0
    \/ b = RequestSeed /\ j = 49 /\ raws > 0

\* However many frames are lost and raw requests taken for frames, a payload put
\* together from several messages has every byte where its own message has it:
\* nothing is shifted or doubled, and padding never stands where a frame begins.
SplicesKeepPlaces ==
    \A id \in UdsId : \A i \in DOMAIN processed[id] :
        LET p == processed[id][i]
        IN  p # Request =>
                \A j \in DOMAIN p : InItsPlace(p[j], j, number[id], raw[id])

\* Every security request that arrives in a frame of its own is answered with
\* one seed (README.md:81), whatever was being received; nothing else is.
RequestsAnswered ==
    \A id \in UdsId : seeds[id] = asked[id]
=============================================================================

---------------------------- MODULE UdsLinkProofs ----------------------------
(***************************************************************************)
(* Proofs about UdsLink, for any ids, lengths, numbers of messages and of  *)
(* lost frames: the plug-in answers the security requests that reach it in *)
(* a frame of their own, and nothing else; and if the messages are no      *)
(* longer than the plug-in can count, one lost frame costs one message, a  *)
(* message sent whole is processed after any losses, and a payload spliced *)
(* from several messages has every byte in its place.                      *)
(***************************************************************************)
EXTENDS UdsLink, UdsProofs

(***************************************************************************)
(* What the tester puts on the bus.                                        *)
(***************************************************************************)

LEMMA LengthOfMessage == MaxLength \in Nat /\ \A n \in Nat : n <= MaxLength => n \in Length
BY DEF MaxLength, Length

\* A data message is made of bytes, none of which begins a security request.
LEMMA DataIsBytes ==
    ASSUME NEW k \in 1 .. MaxMessages, NEW n \in 1 .. MaxLength
    PROVE  /\ Data(k, n) \in Seq(Byte) /\ Len(Data(k, n)) = n
           /\ Data(k, n)[1] # SecurityAccess
<1>0. 1 .. n \subseteq 1 .. MaxLength /\ 1 \in 1 .. n
  BY LengthOfMessage
<1>1. \A i \in 1 .. n : <<k, i>> \in (1 .. MaxMessages) \X (1 .. MaxLength)
  BY <1>0, Zenon
<1>2. \A i \in 1 .. n : <<k, i>> \in Byte
  BY <1>1, LinkAssumption
<1>3. Data(k, n) \in Seq(Byte) /\ Len(Data(k, n)) = n
  BY <1>2 DEF Data
<1>4. Data(k, n)[1] = <<k, 1>>
  BY <1>0 DEF Data
<1> QED
  BY <1>0, <1>1, <1>3, <1>4, DataAssumption

LEMMA RequestIsBytes == Request \in Seq(Byte) /\ Len(Request) = 2
BY ByteAssumption DEF Request

LEMMA ChunkIsBytes ==
    ASSUME NEW m \in Seq(Byte), NEW i \in Nat, i >= 1
    PROVE  Chunk(m, i) \in [1 .. 7 -> Byte]
<1>1. \A j \in 1 .. 7 : (IF i + j - 1 <= Len(m) THEN m[i + j - 1] ELSE Pad) \in Byte
  BY LinkAssumption
<1> QED
  BY <1>1 DEF Chunk

\* Every frame of a message is one that handleDiagnosticFrame can be given.
LEMMA FramesAreGood ==
    ASSUME NEW m \in Seq(Byte), Len(m) \in 1 .. MaxLength, NEW k \in Nat
    PROVE  FrameNumber(m, k) \in GoodFrames
<1>0. Len(m) \in Nat /\ Len(m) \in Length /\ 0 \in Length
  BY LengthOfMessage, LengthsAreNat
<1>1. Chunk(m, 1) \in [1 .. 7 -> Byte]
  BY ChunkIsBytes
<1>2. CASE Len(m) <= 7
  BY <1>0, <1>1, <1>2 DEF FrameNumber, FrameOf, GoodFrames, Frames, Pci
<1>3. CASE Len(m) > 7 /\ k = 0
  BY <1>0, <1>1, <1>3 DEF FrameNumber, FrameOf, GoodFrames, Frames, Pci
<1>4. CASE Len(m) > 7 /\ k # 0
  <2>1. Chunk(m, 7 * k) \in [1 .. 7 -> Byte]
    BY <1>4, ChunkIsBytes
  <2>2. k % 16 \in 0 .. 15
    OBVIOUS
  <2>3. FrameNumber(m, k) = FrameOf("consecutive", 0, k % 16, Chunk(m, 7 * k))
    BY <1>0, <1>4 DEF FrameNumber
  <2> QED
    BY <1>0, <2>1, <2>2, <2>3 DEF FrameOf, GoodFrames, Frames, Pci
<1> QED
  BY <1>2, <1>3, <1>4

LEMMA RawIsGood == RawRequest \in GoodFrames
<1>1. <<RequestSeed>> \in Seq(Byte)
  BY ByteAssumption
<1>2. Chunk(<<RequestSeed>>, 1) \in [1 .. 7 -> Byte]
  <2>1. 1 \in Nat /\ 1 >= 1
    OBVIOUS
  <2> QED
    BY <1>1, <2>1, ChunkIsBytes, Zenon
<1> QED
  BY <1>2, LengthsAreNat DEF RawRequest, FrameOf, GoodFrames, Frames, Pci
-----------------------------------------------------------------------------
(***************************************************************************)
(* What the plug-in makes of it.                                           *)
(***************************************************************************)

\* The message being received under id does not begin like a security request.
Harmless(id) ==
    state[id] = "RECEIVING_MULTIFRAME" =>
        payload[id] # << >> /\ payload[id][1] # SecurityAccess

AllHarmless == \A id \in UdsId : Harmless(id)

\* The frame is not the first of a segmented security request.
HarmlessFrame(f) == f.pci = "first" => f.length >= 1 /\ f.data[1] # SecurityAccess

\* The frame asks for a seed by itself.
AsksAlone(f) == f.pci = "single" /\ AsksForSeed(Bytes(f, f.length))

\* Replacing id's message by a harmless one leaves all of them harmless.
LEMMA SetHarmless ==
    ASSUME TypeOK, AllHarmless, NEW id \in UdsId, NEW st, NEW p, NEW total, NEW seq,
           Set(id, st, p, total, seq),
           st = "RECEIVING_MULTIFRAME" => p # << >> /\ p[1] # SecurityAccess
    PROVE  AllHarmless'
BY DEF AllHarmless, Harmless, Set, TypeOK

\* Only a frame that asks by itself is answered, and no frame makes the message
\* being received look like a request.
LEMMA OnlyAloneAnswered ==
    ASSUME Inv, AllHarmless, NEW id \in UdsId, NEW f \in GoodFrames, HarmlessFrame(f),
           Handle(id, f)
    PROVE  /\ AllHarmless'
           /\ seeds' = IF AsksAlone(f) THEN [seeds EXCEPT ![id] = @ + 1] ELSE seeds
<1>0. TypeOK /\ f \in Frames /\ f.length \in Nat
  BY LengthsAreNat DEF Inv, GoodFrames, Frames
<1>1. CASE SingleFrame(id, f)
  <2>1. AllHarmless'
    BY <1>0, <1>1, SetHarmless DEF SingleFrame
  <2> QED
    BY <1>1, <2>1 DEF SingleFrame, Process, AsksAlone
<1>2. CASE FirstFrame(id, f)
  <2> DEFINE n == IF f.length < 6 THEN f.length ELSE 6
  <2>1. n \in Nat /\ n >= 1
    BY <1>0, <1>2 DEF FirstFrame, HarmlessFrame
  <2>2. Set(id, "RECEIVING_MULTIFRAME", Bytes(f, n), f.length, 1)
    BY <1>2 DEF FirstFrame
  <2> HIDE DEF n
  <2>3. Bytes(f, n) \in Seq(Byte) /\ Len(Bytes(f, n)) = n
    BY <1>0, <2>1, BytesOfFrame
  <2>4. Bytes(f, n)[1] = f.data[1]
    BY <2>1 DEF Bytes
  <2>5. Bytes(f, n) # << >> /\ Bytes(f, n)[1] # SecurityAccess
    BY <1>2, <2>1, <2>3, <2>4 DEF FirstFrame, HarmlessFrame
  <2>6. AllHarmless'
    BY <1>0, <2>2, <2>5, SetHarmless
  <2> QED
    BY <1>2, <2>6 DEF FirstFrame, AsksAlone
<1>3. CASE SequenceMismatch(id, f)
  <2>1. AllHarmless'
    BY <1>0, <1>3, SetHarmless DEF SequenceMismatch
  <2> QED
    BY <1>3, <2>1 DEF SequenceMismatch, AsksAlone
<1>4. CASE ConsecutiveFrame(id, f)
  <2> DEFINE p == payload[id] \o Bytes(f, Taken(id))
  <2>1. /\ payload[id] \in Seq(Byte) /\ payload[id] # << >>
        /\ payload[id][1] # SecurityAccess
    BY <1>0, <1>4 DEF ConsecutiveFrame, Awaited, TypeOK, AllHarmless, Harmless
  <2>2. Taken(id) \in Nat
    <3>0. total_length[id] \in Length
      BY <1>0 DEF TypeOK
    <3>1. total_length[id] \in Nat /\ Len(payload[id]) \in Nat
      BY <3>0, <2>1, LengthsAreNat
    <3>2. Len(payload[id]) <= total_length[id]
      BY <1>4 DEF ConsecutiveFrame, Awaited, Inv, ReceptionTracked
    <3> QED
      BY <3>1, <3>2 DEF Taken
  <2>3. Bytes(f, Taken(id)) \in Seq(Byte)
    BY <1>0, <2>2, BytesOfFrame
  <2> HIDE DEF Bytes
  <2>4. p \in Seq(Byte) /\ Len(p) >= 1 /\ p[1] = payload[id][1]
    BY <2>1, <2>3
  <2> HIDE DEF p
  <2>5. PICK next : Append7(id, f, 0, next)
    BY <1>4 DEF ConsecutiveFrame
  <2>6. total_length[id] \in Nat
    BY <1>0, LengthsAreNat DEF TypeOK
  <2>7. ~ AsksForSeed(Resized(p, total_length[id]))
    <3>1. ~ AsksForSeed(p)
      BY <2>1, <2>4 DEF AsksForSeed
    <3>2. CASE Len(p) > total_length[id]
      <4>1. /\ Resized(p, total_length[id]) = SubSeq(p, 1, total_length[id])
            /\ Len(SubSeq(p, 1, total_length[id])) = total_length[id]
        BY <2>4, <2>6, <3>2 DEF Resized
      <4>2. total_length[id] >= 2 => SubSeq(p, 1, total_length[id])[1] = p[1]
        BY <2>4, <2>6, <3>2
      <4> QED
        BY <2>1, <2>4, <4>1, <4>2 DEF AsksForSeed
    <3> QED
      BY <3>1, <3>2 DEF Resized
  <2>8. seeds' = seeds
    BY <2>5, <2>7 DEF Append7, Process, p
  <2>9. \E st, q, total, seq :
            /\ Set(id, st, q, total, seq)
            /\ st = "RECEIVING_MULTIFRAME" => q = p
    <3>1. CASE Len(p) + 0 >= total_length[id]
      BY <2>5, <3>1 DEF Append7, p
    <3>2. CASE ~ (Len(p) + 0 >= total_length[id])
      BY <2>5, <3>2 DEF Append7, p
    <3> QED
      BY <3>1, <3>2
  <2>10. p # << >> /\ p[1] # SecurityAccess
    BY <2>1, <2>4
  <2>11. AllHarmless'
    BY <1>0, <2>9, <2>10, SetHarmless
  <2>12. ~ AsksAlone(f)
    BY <1>4 DEF ConsecutiveFrame, Awaited, AsksAlone
  <2> QED
    BY <2>8, <2>11, <2>12
<1>5. CASE Ignored(id, f)
  BY <1>5 DEF Ignored, pluginVars, reception, AllHarmless, Harmless, AsksAlone
<1> QED
  BY <1>1, <1>2, <1>3, <1>4, <1>5 DEF Handle
-----------------------------------------------------------------------------
(***************************************************************************)
(* The invariant of the link.                                              *)
(***************************************************************************)

\* The messages that take several frames.
Segmented ==
    {Data(k, n) : k \in 1 .. MaxMessages, n \in {i \in 1 .. MaxLength : i > 7}}

\* The tester is in the middle of a data message or between two messages.
TesterInv ==
    /\ number \in [UdsId -> Nat]
    /\ frames \in [UdsId -> Nat]
    /\ message \in [UdsId -> Seq(Byte)]
    /\ asked \in [UdsId -> Nat]
    /\ \A id \in UdsId : frames[id] > 0 => message[id] \in Segmented

LinkInv == Inv /\ TesterInv /\ AllHarmless /\ seeds = asked

LEMMA SegmentedIsData ==
    ASSUME NEW m \in Segmented
    PROVE  /\ m \in Seq(Byte) /\ Len(m) \in 1 .. MaxLength /\ Len(m) > 7
           /\ m[1] # SecurityAccess
<1>1. PICK k \in 1 .. MaxMessages, n \in {i \in 1 .. MaxLength : i > 7} : m = Data(k, n)
  BY DEF Segmented
<1> QED
  BY <1>1, DataIsBytes

\* Every frame of a data message is harmless and asks for nothing.
LEMMA DataAsksNothing ==
    ASSUME NEW m \in Seq(Byte), Len(m) \in 1 .. MaxLength, NEW k \in Nat,
           m[1] # SecurityAccess
    PROVE  HarmlessFrame(FrameNumber(m, k)) /\ ~ AsksAlone(FrameNumber(m, k))
<1>0. Len(m) \in Nat /\ Len(m) >= 1
  BY LengthOfMessage
<1>1. Chunk(m, 1)[1] = m[1]
  BY <1>0 DEF Chunk
<1>2. CASE Len(m) <= 7
  <2>1. FrameNumber(m, k) = FrameOf("single", Len(m), 0, Chunk(m, 1))
    BY <1>2 DEF FrameNumber
  <2>2. Bytes(FrameNumber(m, k), Len(m))[1] = m[1]
    BY <1>0, <1>1, <2>1 DEF Bytes, FrameOf
  <2> HIDE DEF Bytes
  <2> QED
    BY <2>1, <2>2 DEF FrameOf, HarmlessFrame, AsksAlone, AsksForSeed
<1>3. CASE Len(m) > 7 /\ k = 0
  BY <1>0, <1>1, <1>3 DEF FrameNumber, FrameOf, HarmlessFrame, AsksAlone
<1>4. CASE Len(m) > 7 /\ k # 0
  <2>1. FrameNumber(m, k) = FrameOf("consecutive", 0, k % 16, Chunk(m, 7 * k))
    BY <1>0, <1>4 DEF FrameNumber
  <2> QED
    BY <2>1 DEF FrameOf, HarmlessFrame, AsksAlone
<1> QED
  BY <1>0, <1>2, <1>3, <1>4

\* The framed request asks for a seed.
LEMMA RequestAsks ==
    HarmlessFrame(FrameNumber(Request, 0)) /\ AsksAlone(FrameNumber(Request, 0))
<1>1. FrameNumber(Request, 0) = FrameOf("single", 2, 0, Chunk(Request, 1))
  BY RequestIsBytes DEF FrameNumber
<1>2. Chunk(Request, 1)[1] = SecurityAccess /\ Chunk(Request, 1)[2] = RequestSeed
  BY RequestIsBytes DEF Chunk, Request
<1>3. LET b == Bytes(FrameNumber(Request, 0), 2)
      IN  Len(b) = 2 /\ b[1] = SecurityAccess /\ b[2] = RequestSeed
  BY <1>1, <1>2 DEF Bytes, FrameOf
<1> HIDE DEF Bytes
<1> QED
  BY <1>1, <1>3 DEF FrameOf, HarmlessFrame, AsksAlone, AsksForSeed

\* A frame that is lost changes nothing; any other is handled.
LEMMA TransmitKeeps ==
    ASSUME Inv, AllHarmless, NEW id \in UdsId, NEW f \in GoodFrames, HarmlessFrame(f),
           NEW gone \in BOOLEAN, Transmit(id, f, gone)
    PROVE  /\ Inv' /\ AllHarmless'
           /\ seeds' = IF ~ gone /\ AsksAlone(f) THEN [seeds EXCEPT ![id] = @ + 1] ELSE seeds
<1>1. CASE gone
  <2>1. UNCHANGED pluginVars
    BY <1>1 DEF Transmit
  <2> QED
    BY <1>1, <2>1
       DEF pluginVars, reception, Inv, TypeOK, ReceptionTracked, CompleteIsWhole,
           AllHarmless, Harmless
<1>2. CASE ~ gone
  <2>1. Handle(id, f)
    BY <1>2 DEF Transmit
  <2>2. Inv'
    BY <2>1, HandleKeepsInv
  <2>3. /\ AllHarmless'
        /\ seeds' = IF AsksAlone(f) THEN [seeds EXCEPT ![id] = @ + 1] ELSE seeds
    BY <2>1, OnlyAloneAnswered
  <2> QED
    BY <1>2, <2>2, <2>3
<1> QED
  BY <1>1, <1>2

\* What sending one frame of m leaves of the tester's own state.
LEMMA SendKeepsTester ==
    ASSUME TesterInv, NEW id \in UdsId, NEW m \in Seq(Byte), NEW k \in Nat,
           NEW gone \in BOOLEAN, SendFrame(id, m, k, gone),
           k + 1 # FrameCount(m) => m \in Segmented
    PROVE  /\ frames' \in [UdsId -> Nat]
           /\ message' \in [UdsId -> Seq(Byte)]
           /\ \A j \in UdsId : frames'[j] > 0 => message'[j] \in Segmented
<1> DEFINE last == k + 1 = FrameCount(m)
<1>1. /\ message' = [message EXCEPT ![id] = IF last THEN << >> ELSE m]
      /\ frames' = [frames EXCEPT ![id] = IF last THEN 0 ELSE k + 1]
  BY DEF SendFrame
<1>2. last \/ m \in Segmented
  OBVIOUS
<1> HIDE DEF last
<1>3. frames' \in [UdsId -> Nat] /\ message' \in [UdsId -> Seq(Byte)]
  BY <1>1 DEF TesterInv
<1>4. ASSUME NEW j \in UdsId, frames'[j] > 0
      PROVE  message'[j] \in Segmented
  <2>1. CASE j = id
    BY <1>1, <1>2, <1>4, <2>1 DEF TesterInv
  <2>2. CASE j # id
    BY <1>1, <1>4, <2>2 DEF TesterInv
  <2> QED
    BY <2>1, <2>2
<1> QED
  BY <1>3, <1>4

\* The count of arrived requests grows with the seeds.
LEMMA CountKeepsPace ==
    ASSUME TesterInv, seeds = asked, NEW id \in UdsId, NEW gone \in BOOLEAN,
           seeds' = IF ~ gone THEN [seeds EXCEPT ![id] = @ + 1] ELSE seeds,
           asked' = Counted(asked, id, gone)
    PROVE  seeds' = asked' /\ asked' \in [UdsId -> Nat]
BY DEF Counted, TesterInv

LEMMA LinkInductive ==
    ASSUME LinkInv, [LinkNext]_linkVars
    PROVE  LinkInv'
<1>0. Inv /\ TesterInv /\ AllHarmless /\ seeds = asked
  BY DEF LinkInv
<1>1. ASSUME NEW id \in UdsId, NEW gone \in BOOLEAN, NEW n \in Lengths, SendData(id, n, gone)
      PROVE  LinkInv'
  <2> DEFINE m == Data(number[id] + 1, n)
  <2>1. number[id] + 1 \in 1 .. MaxMessages /\ number' \in [UdsId -> Nat]
    BY <1>0, <1>1, LinkAssumption DEF SendData, Begin, TesterInv
  <2>2. n \in 1 .. MaxLength
    BY LinkAssumption
  <2>3. m \in Seq(Byte) /\ Len(m) = n /\ m[1] # SecurityAccess
    BY <2>1, <2>2, DataIsBytes
  <2>4. 1 # FrameCount(m) => m \in Segmented
    BY <2>1, <2>2, <2>3, LengthOfMessage DEF FrameCount, Segmented
  <2>5. SendFrame(id, m, 0, gone) /\ UNCHANGED asked
    BY <1>1 DEF SendData
  <2> HIDE DEF m
  <2>6. FrameNumber(m, 0) \in GoodFrames
    BY <2>2, <2>3, FramesAreGood
  <2>7. HarmlessFrame(FrameNumber(m, 0)) /\ ~ AsksAlone(FrameNumber(m, 0))
    BY <2>2, <2>3, DataAsksNothing
  <2>8. Transmit(id, FrameNumber(m, 0), gone)
    BY <2>5 DEF SendFrame
  <2>9. Inv' /\ AllHarmless' /\ seeds' = seeds
    BY <1>0, <2>6, <2>7, <2>8, TransmitKeeps
  <2>10. /\ frames' \in [UdsId -> Nat]
         /\ message' \in [UdsId -> Seq(Byte)]
         /\ \A j \in UdsId : frames'[j] > 0 => message'[j] \in Segmented
    BY <1>0, <2>3, <2>4, <2>5, SendKeepsTester
  <2> QED
    BY <1>0, <2>1, <2>5, <2>9, <2>10 DEF LinkInv, TesterInv
<1>2. ASSUME NEW id \in UdsId, NEW gone \in BOOLEAN, SendRequest(id, gone)
      PROVE  LinkInv'
  <2>1. number' \in [UdsId -> Nat]
    BY <1>0, <1>2 DEF SendRequest, Begin, TesterInv
  <2>2. /\ SendFrame(id, Request, 0, gone) /\ asked' = Counted(asked, id, gone)
        /\ Transmit(id, FrameNumber(Request, 0), gone)
    BY <1>2 DEF SendRequest, SendFrame
  <2>3. FrameNumber(Request, 0) \in GoodFrames
    <3>1. Len(Request) \in 1 .. MaxLength
      BY RequestIsBytes DEF MaxLength
    <3> QED
      BY <3>1, RequestIsBytes, FramesAreGood
  <2>4. /\ Inv' /\ AllHarmless'
        /\ seeds' = IF ~ gone THEN [seeds EXCEPT ![id] = @ + 1] ELSE seeds
    BY <1>0, <2>2, <2>3, RequestAsks, TransmitKeeps
  <2>5. seeds' = asked' /\ asked' \in [UdsId -> Nat]
    BY <1>0, <2>2, <2>4, CountKeepsPace
  <2>6. 0 + 1 = FrameCount(Request)
    BY RequestIsBytes DEF FrameCount
  <2>7. /\ frames' \in [UdsId -> Nat]
        /\ message' \in [UdsId -> Seq(Byte)]
        /\ \A j \in UdsId : frames'[j] > 0 => message'[j] \in Segmented
    BY <1>0, <2>2, <2>6, RequestIsBytes, SendKeepsTester
  <2> QED
    BY <2>1, <2>4, <2>5, <2>7 DEF LinkInv, TesterInv
<1>3. ASSUME NEW id \in UdsId, NEW gone \in BOOLEAN, SendRawRequest(id, gone)
      PROVE  LinkInv'
  <2>1. number' \in [UdsId -> Nat]
    BY <1>0, <1>3 DEF SendRawRequest, Begin, TesterInv
  <2>2. Transmit(id, RawRequest, gone) /\ UNCHANGED <<message, frames, asked>>
    BY <1>3 DEF SendRawRequest
  <2>3. HarmlessFrame(RawRequest) /\ ~ AsksAlone(RawRequest)
    BY DEF RawRequest, FrameOf, HarmlessFrame, AsksAlone
  <2>4. Inv' /\ AllHarmless' /\ seeds' = seeds
    BY <1>0, <2>2, <2>3, RawIsGood, TransmitKeeps
  <2> QED
    BY <1>0, <2>1, <2>2, <2>4 DEF LinkInv, TesterInv
<1>4. ASSUME NEW id \in UdsId, NEW gone \in BOOLEAN, SendNext(id, gone)
      PROVE  LinkInv'
  <2> DEFINE m == message[id]
             k == frames[id]
  <2>1. m \in Segmented /\ k \in Nat
    BY <1>0, <1>4 DEF SendNext, TesterInv
  <2>2. SendFrame(id, m, k, gone) /\ UNCHANGED <<number, asked>>
    BY <1>4 DEF SendNext
  <2> HIDE DEF m, k
  <2>3. m \in Seq(Byte) /\ Len(m) \in 1 .. MaxLength /\ m[1] # SecurityAccess
    BY <2>1, SegmentedIsData
  <2>4. FrameNumber(m, k) \in GoodFrames
    BY <2>1, <2>3, FramesAreGood
  <2>5. HarmlessFrame(FrameNumber(m, k)) /\ ~ AsksAlone(FrameNumber(m, k))
    BY <2>1, <2>3, DataAsksNothing
  <2>6. Transmit(id, FrameNumber(m, k), gone)
    BY <2>2 DEF SendFrame
  <2>7. Inv' /\ AllHarmless' /\ seeds' = seeds
    BY <1>0, <2>4, <2>5, <2>6, TransmitKeeps
  <2>8. /\ frames' \in [UdsId -> Nat]
        /\ message' \in [UdsId -> Seq(Byte)]
        /\ \A j \in UdsId : frames'[j] > 0 => message'[j] \in Segmented
    BY <1>0, <2>1, <2>2, <2>3, SendKeepsTester
  <2> QED
    BY <1>0, <2>2, <2>7, <2>8 DEF LinkInv, TesterInv
<1>5. CASE UNCHANGED linkVars
  BY <1>0, <1>5
     DEF linkVars, testerVars, pluginVars, reception, LinkInv, Inv, TypeOK,
         ReceptionTracked, CompleteIsWhole, AllHarmless, Harmless, TesterInv
<1> QED
  BY <1>1, <1>2, <1>3, <1>4, <1>5 DEF LinkNext

LEMMA LinkStarts == LinkInit => LinkInv
<1>1. LinkInit => Inv
  BY InitHasInv DEF LinkInit
<1>2. LinkInit => TesterInv /\ AllHarmless /\ seeds = asked
  BY DEF LinkInit, Init, TesterInv, AllHarmless, Harmless
<1> QED
  BY <1>1, <1>2 DEF LinkInv

\* For any number and any lengths of messages and any losses: every framed
\* security request that arrives is answered with one seed, and nothing else,
\* no reassembled data message and no raw request, ever is.
THEOREM AnswersRequests == LinkSpec => []RequestsAnswered
<1>1. LinkInv => RequestsAnswered
  BY DEF LinkInv, RequestsAnswered
<1> QED
  BY <1>1, LinkStarts, LinkInductive, PTL DEF LinkSpec
-----------------------------------------------------------------------------
(***************************************************************************)
(* One lost frame does not go unnoticed, if the messages fit the fifteen   *)
(* consecutive frames the plug-in can count.                               *)
(***************************************************************************)
MessagesFit == Lengths \subseteq 1 .. 111

LinkTypes ==
    /\ lost \in [UdsId -> Nat]
    /\ raw \in [UdsId -> Nat]
    /\ damaged \in [UdsId -> BOOLEAN]
    /\ intact \in [UdsId -> Seq(Seq(Byte))]

\* Of the message being sent, at least the last frame is still to come.
Unfinished(id) ==
    frames[id] > 0 => Len(message[id]) \in 8 .. 111 /\ 7 * frames[id] <= Len(message[id])

\* While no frame of the message is lost, the plug-in has what was sent; after a
\* loss it waits for a frame that is past.  Only the loss of a last frame leaves
\* it receiving between two messages.
InStep(id) ==
    raw[id] = 0 /\ lost[id] < 2 =>
        /\ processed[id] = intact[id]
        /\ damaged[id] => lost[id] = 1
        /\ frames[id] = 0 /\ lost[id] = 0 => state[id] # "RECEIVING_MULTIFRAME"
        /\ frames[id] > 0 /\ ~ damaged[id] =>
              /\ state[id] = "RECEIVING_MULTIFRAME"
              /\ total_length[id] = Len(message[id])
              /\ sequence_number[id] = frames[id]
              /\ payload[id] = SubSeq(message[id], 1, 7 * frames[id] - 1)
        /\ frames[id] > 0 /\ damaged[id] /\ state[id] = "RECEIVING_MULTIFRAME" =>
              sequence_number[id] = frames[id] - 1

StepInv == LinkInv /\ LinkTypes /\ \A id \in UdsId : Unfinished(id) /\ InStep(id)

\* Seven more bytes, or those that are left, and the count says if it is the last.
LEMMA LastFrame ==
    ASSUME NEW m \in Seq(Byte), Len(m) > 7, NEW k \in Nat, k >= 1, 7 * k <= Len(m)
    PROVE  (k + 1 = FrameCount(m)) <=> Len(m) <= 7 * k + 6
<1>1. Len(m) \in Nat
  OBVIOUS
<1>2. FrameCount(m) = 1 + Len(m) \div 7
  BY <1>1 DEF FrameCount
<1> QED
  BY <1>1, <1>2

\* The bytes of a single and of a first frame are the beginning of the message.
LEMMA FirstBytes ==
    ASSUME NEW m \in Seq(Byte), NEW n \in Nat, n <= 7, n <= Len(m)
    PROVE  Bytes(FrameNumber(m, 0), n) = SubSeq(m, 1, n)
<1>1. FrameNumber(m, 0).data = Chunk(m, 1)
  BY DEF FrameNumber, FrameOf
<1>2. \A i \in 1 .. n : Bytes(FrameNumber(m, 0), n)[i] = m[i]
  BY <1>1 DEF Bytes, Chunk
<1>3. Len(Bytes(FrameNumber(m, 0), n)) = n /\ Bytes(FrameNumber(m, 0), n) \in Seq(Byte)
  <2>1. \A i \in 1 .. n : m[i] \in Byte
    OBVIOUS
  <2>2. \A i \in 1 .. n : i <= 7
    OBVIOUS
  <2>3. \A i \in 1 .. n : (IF i <= 7 THEN FrameNumber(m, 0).data[i] ELSE PastFrame) \in Byte
    BY <1>1, <2>1, <2>2, SMTT(30) DEF Chunk
  <2> QED
    BY <2>3 DEF Bytes
<1> HIDE DEF Bytes
<1> QED
  BY <1>2, <1>3

\* Those of a consecutive frame continue it.
LEMMA NextBytes ==
    ASSUME NEW m \in Seq(Byte), NEW k \in Nat, k >= 1, Len(m) > 7, 7 * k <= Len(m),
           NEW t \in Nat, t <= 7, 7 * k + t - 1 <= Len(m)
    PROVE  SubSeq(m, 1, 7 * k - 1) \o Bytes(FrameNumber(m, k), t)
             = SubSeq(m, 1, 7 * k + t - 1)
<1> DEFINE b == Bytes(FrameNumber(m, k), t)
           s == SubSeq(m, 1, 7 * k - 1)
<1>0. Len(m) \in Nat
  OBVIOUS
<1>1. FrameNumber(m, k).data = Chunk(m, 7 * k)
  BY <1>0 DEF FrameNumber, FrameOf
<1>2. \A i \in 1 .. t : i <= 7 /\ 7 * k + i - 1 \in 1 .. Len(m)
  BY <1>0
<1>3. \A i \in 1 .. t :
          (IF i <= 7 THEN FrameNumber(m, k).data[i] ELSE PastFrame) = m[7 * k + i - 1]
  <2>1. SUFFICES ASSUME NEW i \in 1 .. t
                 PROVE  i <= 7 /\ Chunk(m, 7 * k)[i] = m[7 * k + i - 1]
    BY <1>1
  <2>2. i \in 1 .. 7 /\ 7 * k + i - 1 <= Len(m)
    BY <1>2
  <2> QED
    BY <2>2 DEF Chunk
<1>4. b = [i \in 1 .. t |-> m[7 * k + i - 1]]
  BY <1>3, Zenon DEF Bytes
<1>5. b \in Seq(Byte) /\ Len(b) = t
  BY <1>2, <1>4
<1>6. \A i \in 1 .. t : b[i] = m[7 * k + i - 1]
  BY <1>4
<1>7. s \in Seq(Byte) /\ Len(s) = 7 * k - 1 /\ \A i \in 1 .. 7 * k - 1 : s[i] = m[i]
  BY <1>0
<1> HIDE DEF b, s
<1>8. (s \o b) \in Seq(Byte) /\ Len(s \o b) = 7 * k + t - 1
  <2>1. (s \o b) \in Seq(Byte) /\ Len(s \o b) = Len(s) + Len(b)
    <3>1. s \in Seq(Byte) /\ b \in Seq(Byte)
      BY <1>5, <1>7, Zenon
    <3> QED
      BY ONLY <3>1, SMTT(30)
  <2>2. (7 * k - 1) + t = 7 * k + t - 1
    OBVIOUS
  <2> QED
    BY <1>5, <1>7, <2>1, <2>2, Zenon
<1>9. \A i \in 1 .. 7 * k + t - 1 : (s \o b)[i] = m[i]
  <2>1. SUFFICES ASSUME NEW i \in 1 .. 7 * k + t - 1
                 PROVE  (s \o b)[i] = m[i]
    OBVIOUS
  <2>2. CASE i <= 7 * k - 1
    BY <1>5, <1>7, <2>2
  <2>3. CASE ~ (i <= 7 * k - 1)
    <3>1. i - (7 * k - 1) \in 1 .. t
      BY <2>3
    <3>2. (s \o b)[i] = b[i - (7 * k - 1)]
      BY <1>5, <1>7, <2>3
    <3>3. b[i - (7 * k - 1)] = m[7 * k + (i - (7 * k - 1)) - 1]
      BY <1>6, <3>1
    <3> QED
      BY <3>2, <3>3
  <2> QED
    BY <2>2, <2>3
<1>10. SubSeq(m, 1, 7 * k + t - 1) \in Seq(Byte) /\ Len(SubSeq(m, 1, 7 * k + t - 1)) = 7 * k + t - 1
  BY <1>0
<1>11. \A i \in 1 .. 7 * k + t - 1 : SubSeq(m, 1, 7 * k + t - 1)[i] = m[i]
  BY <1>0
<1>12. s \o b = SubSeq(m, 1, 7 * k + t - 1)
  BY <1>8, <1>9, <1>10, <1>11, SMTT(30)
<1> QED
  BY <1>12 DEF s, b

\* The bytes of a message of length n that its k-th frame brings.
Brought(n, k) == IF n - (7 * k - 1) < 7 THEN n - (7 * k - 1) ELSE 7

\* A message that fits has at most fifteen consecutive frames: their numbers are
\* those of the plug-in's count.
LEMMA NumbersFit ==
    ASSUME NEW n \in 8 .. 111, NEW k \in Nat, k >= 1, 7 * k <= n
    PROVE  /\ n \in Nat /\ n > 7
           /\ k <= 15 /\ k % 16 = k /\ (k + 1) % 256 = k + 1
           /\ Brought(n, k) \in Nat /\ Brought(n, k) <= 7
           /\ 7 * k + Brought(n, k) - 1 <= n
           /\ n <= 7 * k + 6 => 7 * k + Brought(n, k) - 1 = n
           /\ ~ (n <= 7 * k + 6) => Brought(n, k) = 7
<1>1. k <= 15
  OBVIOUS
<1>2. k % 16 = k /\ (k + 1) % 256 = k + 1
  BY <1>1
<1> QED
  BY <1>1, <1>2 DEF Brought

LEMMA MessageLength ==
    ASSUME NEW m \in Seq(Byte)
    PROVE  /\ Len(m) \in Nat
           /\ Len(m) \in 1 .. 7 => Len(m) <= 7 /\ Len(m) >= 1 /\ m # << >>
           /\ Len(m) \in 8 .. 111 => Len(m) > 7
<1>1. Len(m) \in Nat
  OBVIOUS
<1>2. m = << >> => Len(m) = 0
  OBVIOUS
<1>3. \A n \in Nat : /\ n \in 1 .. 7 => n <= 7 /\ n >= 1 /\ n # 0
                     /\ n \in 8 .. 111 => n > 7
  OBVIOUS
<1> QED
  BY <1>1, <1>2, <1>3, Zenon

\* A message of one frame is processed, whatever was being received.
LEMMA SingleHandled ==
    ASSUME Inv, NEW id \in UdsId, NEW m \in Seq(Byte), Len(m) \in 1 .. 7,
           Handle(id, FrameNumber(m, 0))
    PROVE  /\ state'[id] = "COMPLETE"
           /\ processed' = [processed EXCEPT ![id] = Append(@, m)]
<1> DEFINE f == FrameNumber(m, 0)
<1>0. Len(m) \in Nat /\ Len(m) <= 7 /\ m # << >>
  BY MessageLength, Zenon
<1>a. TypeOK
  BY DEF Inv
<1>1. f.pci = "single" /\ f.length = Len(m)
  BY <1>0 DEF FrameNumber, FrameOf
<1>2. Bytes(f, f.length) = m
  <2>1. Bytes(f, Len(m)) = SubSeq(m, 1, Len(m))
    BY <1>0, FirstBytes
  <2>2. SubSeq(m, 1, Len(m)) = m
    OBVIOUS
  <2> QED
    BY <1>1, <2>1, <2>2
<1> HIDE DEF f
<1>3. SingleFrame(id, f)
  BY <1>1 DEF Handle, SingleFrame, FirstFrame, SequenceMismatch, ConsecutiveFrame, Awaited,
              Ignored, f
<1>4. Set(id, "COMPLETE", m, 0, 0) /\ Process(id, m)
  BY <1>2, <1>3 DEF SingleFrame
<1> QED
  BY <1>a, <1>0, <1>4 DEF Set, Process, TypeOK

\* The first frame of a longer one starts its reception.
LEMMA FirstHandled ==
    ASSUME Inv, NEW id \in UdsId, NEW m \in Seq(Byte), Len(m) > 7,
           Handle(id, FrameNumber(m, 0))
    PROVE  /\ state'[id] = "RECEIVING_MULTIFRAME"
           /\ total_length'[id] = Len(m)
           /\ sequence_number'[id] = 1
           /\ payload'[id] = SubSeq(m, 1, 6)
           /\ processed' = processed
<1> DEFINE f == FrameNumber(m, 0)
<1>0. Len(m) \in Nat /\ 6 \in Nat /\ 6 <= 7 /\ 6 <= Len(m)
  OBVIOUS
<1>a. TypeOK
  BY DEF Inv
<1>1. f.pci = "first" /\ f.length = Len(m)
  BY <1>0 DEF FrameNumber, FrameOf
<1>2. Bytes(f, 6) = SubSeq(m, 1, 6)
  BY <1>0, FirstBytes, Zenon
<1> HIDE DEF f
<1>3. FirstFrame(id, f)
  BY <1>1 DEF Handle, SingleFrame, FirstFrame, SequenceMismatch, ConsecutiveFrame, Awaited,
              Ignored, f
<1>4. (IF f.length < 6 THEN f.length ELSE 6) = 6
  BY <1>0, <1>1
<1>5. Set(id, "RECEIVING_MULTIFRAME", SubSeq(m, 1, 6), Len(m), 1) /\ processed' = processed
  BY <1>1, <1>2, <1>3, <1>4, Zenon DEF FirstFrame
<1> QED
  BY <1>a, <1>5 DEF Set, TypeOK

\* The next frame of a message continues its reception, or completes it.
LEMMA NextHandled ==
    ASSUME Inv, NEW id \in UdsId, NEW m \in Seq(Byte), Len(m) \in 8 .. 111,
           NEW k \in Nat, k >= 1, 7 * k <= Len(m),
           state[id] = "RECEIVING_MULTIFRAME", total_length[id] = Len(m),
           sequence_number[id] = k, payload[id] = SubSeq(m, 1, 7 * k - 1),
           Handle(id, FrameNumber(m, k))
    PROVE  IF k + 1 = FrameCount(m)
             THEN /\ state'[id] = "COMPLETE"
                  /\ processed' = [processed EXCEPT ![id] = Append(@, m)]
             ELSE /\ state'[id] = "RECEIVING_MULTIFRAME"
                  /\ total_length'[id] = Len(m)
                  /\ sequence_number'[id] = k + 1
                  /\ payload'[id] = SubSeq(m, 1, 7 * (k + 1) - 1)
                  /\ processed' = processed
<1> DEFINE f == FrameNumber(m, k)
           t == Brought(Len(m), k)
           p == SubSeq(m, 1, 7 * k + t - 1)
<1>0. Len(m) \in Nat /\ Len(m) > 7
  BY MessageLength, Zenon
<1>a. TypeOK
  BY DEF Inv
<1>b. /\ k <= 15 /\ k % 16 = k /\ (k + 1) % 256 = k + 1
      /\ t \in Nat /\ t <= 7 /\ 7 * k + t - 1 <= Len(m)
      /\ Len(m) <= 7 * k + 6 => 7 * k + t - 1 = Len(m)
      /\ ~ (Len(m) <= 7 * k + 6) => t = 7
  <2>1. k <= 15 /\ k % 16 = k /\ (k + 1) % 256 = k + 1
    BY NumbersFit, Zenon
  <2>2. t \in Nat /\ t <= 7 /\ 7 * k + t - 1 <= Len(m)
    BY NumbersFit, Zenon
  <2>3. Len(m) <= 7 * k + 6 => 7 * k + t - 1 = Len(m)
    BY NumbersFit, Zenon
  <2>4. ~ (Len(m) <= 7 * k + 6) => t = 7
    BY NumbersFit, Zenon
  <2> QED
    BY <2>1, <2>2, <2>3, <2>4, Zenon
<1>1. f.pci = "consecutive" /\ f.seq = k
  BY <1>0, <1>b DEF FrameNumber, FrameOf
<1>3. Len(payload[id]) = 7 * k - 1
  BY <1>0
<1>4. Taken(id) = t
  BY <1>3 DEF Taken, Brought
<1>5. payload[id] \o Bytes(f, Taken(id)) = p
  <2> HIDE DEF t
  <2>1. SubSeq(m, 1, 7 * k - 1) \o Bytes(FrameNumber(m, k), t) = SubSeq(m, 1, 7 * k + t - 1)
    BY <1>0, <1>b, NextBytes
  <2> QED
    BY <1>4, <2>1
<1>6. Len(p) = 7 * k + t - 1 /\ p \in Seq(Byte)
  <2> HIDE DEF t
  <2>1. 7 * k + t - 1 \in 0 .. Len(m)
    BY <1>0, <1>b
  <2> QED
    BY <2>1, SMTT(30)
<1>7. (Len(p) + 0 >= Len(m)) <=> k + 1 = FrameCount(m)
  <2>1. (k + 1 = FrameCount(m)) <=> Len(m) <= 7 * k + 6
    BY <1>0, LastFrame
  <2>2. (Len(p) + 0 >= Len(m)) <=> Len(m) <= 7 * k + 6
    <3> HIDE DEF p, t
    <3>1. (7 * k + t - 1 + 0 >= Len(m)) <=> Len(m) <= 7 * k + 6
      BY <1>0, <1>b
    <3> QED
      BY <1>6, <3>1
  <2> QED
    BY <2>1, <2>2
<1>8. k + 1 = FrameCount(m) => p = m
  <2>1. k + 1 = FrameCount(m) => 7 * k + t - 1 = Len(m)
    BY <1>0, <1>b, LastFrame
  <2>2. SubSeq(m, 1, Len(m)) = m
    OBVIOUS
  <2> QED
    BY <2>1, <2>2
<1>9. k + 1 # FrameCount(m) => p = SubSeq(m, 1, 7 * (k + 1) - 1)
  <2>1. k + 1 # FrameCount(m) => t = 7
    BY <1>0, <1>b, LastFrame
  <2>2. 7 * k + 7 - 1 = 7 * (k + 1) - 1
    OBVIOUS
  <2> QED
    BY <2>1, <2>2
<1>10. ConsecutiveFrame(id, f)
  <2> HIDE DEF f
  <2> QED
    BY <1>1 DEF Handle, SingleFrame, FirstFrame, SequenceMismatch, ConsecutiveFrame,
                Awaited, Ignored, f
<1>11. Append7(id, f, 0, k + 1)
  <2>1. (sequence_number[id] + 1) % 256 = k + 1
    BY <1>b
  <2> QED
    BY <1>10, <2>1 DEF ConsecutiveFrame
<1> HIDE DEF f, p, t
<1>12. CASE k + 1 = FrameCount(m)
  <2>1. Resized(m, Len(m)) = m /\ m # << >>
    BY <1>0, SMTT(30) DEF Resized
  <2>2. Set(id, "COMPLETE", m, Len(m), k + 1) /\ Process(id, m)
    BY <1>5, <1>7, <1>8, <1>11, <1>12, <2>1 DEF Append7
  <2> QED
    BY <1>a, <1>12, <2>1, <2>2 DEF Set, Process, TypeOK
<1>13. CASE k + 1 # FrameCount(m)
  <2>1. /\ Set(id, "RECEIVING_MULTIFRAME", p, Len(m), k + 1)
        /\ processed' = processed
    BY <1>5, <1>7, <1>11, <1>13 DEF Append7
  <2> QED
    BY <1>a, <1>9, <1>13, <2>1 DEF Set, TypeOK
<1> QED
  BY <1>12, <1>13

\* A frame after a lost one ends the reception, if one was under way.
LEMMA DamageHandled ==
    ASSUME Inv, NEW id \in UdsId, NEW m \in Seq(Byte), Len(m) \in 8 .. 111,
           NEW k \in Nat, k >= 1, 7 * k <= Len(m),
           state[id] = "RECEIVING_MULTIFRAME" => sequence_number[id] = k - 1,
           Handle(id, FrameNumber(m, k))
    PROVE  state'[id] # "RECEIVING_MULTIFRAME" /\ processed' = processed
<1> DEFINE f == FrameNumber(m, k)
<1>0. Len(m) \in Nat /\ Len(m) > 7 /\ k % 16 = k
  BY NumbersFit
<1>a. TypeOK
  BY DEF Inv
<1>1. f.pci = "consecutive" /\ f.seq = k
  BY <1>0 DEF FrameNumber, FrameOf
<1>2. f.seq # k - 1
  BY <1>1
<1> HIDE DEF f
<1>3. SequenceMismatch(id, f) \/ Ignored(id, f)
  BY <1>1, <1>2 DEF Handle, SingleFrame, FirstFrame, ConsecutiveFrame, Awaited, f
<1>4. CASE SequenceMismatch(id, f)
  BY <1>a, <1>4 DEF SequenceMismatch, Set, TypeOK
<1>5. CASE Ignored(id, f)
  BY <1>1, <1>5 DEF Ignored, pluginVars, reception
<1> QED
  BY <1>3, <1>4, <1>5

\* What is handled under one id leaves the others alone.
LEMMA OthersUntouched ==
    ASSUME Inv, NEW id \in UdsId, NEW f, Handle(id, f), NEW j \in UdsId, j # id
    PROVE  /\ state'[j] = state[j] /\ payload'[j] = payload[j]
           /\ total_length'[j] = total_length[j]
           /\ sequence_number'[j] = sequence_number[j]
           /\ processed'[j] = processed[j]
<1>0. TypeOK
  BY DEF Inv
<1>1. CASE \E st, p, total, seq : Set(id, st, p, total, seq)
  <2>1. /\ state'[j] = state[j] /\ payload'[j] = payload[j]
        /\ total_length'[j] = total_length[j]
        /\ sequence_number'[j] = sequence_number[j]
    BY <1>0, <1>1 DEF Set, TypeOK
  <2>2. processed' = processed \/ \E p : Process(id, p)
    <3>1. SingleFrame(id, f) => \E p : Process(id, p)
      BY DEF SingleFrame
    <3>2. ConsecutiveFrame(id, f) => processed' = processed \/ \E p : Process(id, p)
      BY DEF ConsecutiveFrame, Append7
    <3> QED
      BY <3>1, <3>2 DEF Handle, FirstFrame, SequenceMismatch, Ignored, pluginVars
  <2>3. processed'[j] = processed[j]
    BY <1>0, <2>2 DEF Process, TypeOK
  <2> QED
    BY <2>1, <2>3
<1>2. CASE Ignored(id, f)
  BY <1>2 DEF Ignored, pluginVars, reception
<1>3. Ignored(id, f) \/ \E st, p, total, seq : Set(id, st, p, total, seq)
  <2>1. SingleFrame(id, f) => \E st, p, total, seq : Set(id, st, p, total, seq)
    BY Zenon DEF SingleFrame
  <2>2. FirstFrame(id, f) => \E st, p, total, seq : Set(id, st, p, total, seq)
    BY Zenon DEF FirstFrame
  <2>3. SequenceMismatch(id, f) => \E st, p, total, seq : Set(id, st, p, total, seq)
    BY Zenon DEF SequenceMismatch
  <2>4. ConsecutiveFrame(id, f) => \E st, p, total, seq : Set(id, st, p, total, seq)
    BY Zenon DEF ConsecutiveFrame, Append7
  <2> QED
    BY <2>1, <2>2, <2>3, <2>4 DEF Handle
<1> QED
  BY <1>1, <1>2, <1>3

\* What a frame sent under id changes of the tester's variables.
LEMMA SendFields ==
    ASSUME LinkTypes, TesterInv, NEW id \in UdsId, NEW m \in Seq(Byte), NEW k \in Nat,
           NEW gone \in BOOLEAN, SendFrame(id, m, k, gone)
    PROVE  /\ message'[id] = IF k + 1 = FrameCount(m) THEN << >> ELSE m
           /\ frames'[id] = IF k + 1 = FrameCount(m) THEN 0 ELSE k + 1
           /\ damaged'[id] = ((gone \/ (k > 0 /\ damaged[id])) /\ k + 1 # FrameCount(m))
           /\ intact' = IF k + 1 = FrameCount(m) /\ ~ (gone \/ (k > 0 /\ damaged[id]))
                          THEN [intact EXCEPT ![id] = Append(@, m)] ELSE intact
           /\ \A j \in UdsId \ {id} :
                 /\ message'[j] = message[j] /\ frames'[j] = frames[j]
                 /\ damaged'[j] = damaged[j] /\ intact'[j] = intact[j]
           /\ damaged' \in [UdsId -> BOOLEAN]
           /\ intact' \in [UdsId -> Seq(Seq(Byte))]
<1>1. /\ message' = [message EXCEPT ![id] = IF k + 1 = FrameCount(m) THEN << >> ELSE m]
      /\ frames' = [frames EXCEPT ![id] = IF k + 1 = FrameCount(m) THEN 0 ELSE k + 1]
      /\ damaged' = [damaged EXCEPT ![id] = (gone \/ (k > 0 /\ damaged[id]))
                                               /\ k + 1 # FrameCount(m)]
      /\ intact' = IF k + 1 = FrameCount(m) /\ ~ (gone \/ (k > 0 /\ damaged[id]))
                     THEN [intact EXCEPT ![id] = Append(@, m)] ELSE intact
  BY Zenon DEF SendFrame, Record
<1>2. /\ DOMAIN message = UdsId /\ DOMAIN frames = UdsId /\ DOMAIN damaged = UdsId
      /\ DOMAIN intact = UdsId
  BY Zenon DEF LinkTypes, TesterInv
<1>3. /\ message'[id] = IF k + 1 = FrameCount(m) THEN << >> ELSE m
      /\ frames'[id] = IF k + 1 = FrameCount(m) THEN 0 ELSE k + 1
  BY <1>1, <1>2
<1>4. damaged'[id] = ((gone \/ (k > 0 /\ damaged[id])) /\ k + 1 # FrameCount(m))
  BY <1>1, <1>2, Zenon
<1>5. ASSUME NEW j \in UdsId \ {id}
      PROVE  /\ message'[j] = message[j] /\ frames'[j] = frames[j]
             /\ damaged'[j] = damaged[j] /\ intact'[j] = intact[j]
  <2>1. intact'[j] = intact[j]
    BY <1>1, <1>2
  <2> QED
    BY <1>1, <1>2, <2>1
<1>6. damaged' \in [UdsId -> BOOLEAN]
  <2>1. ((gone \/ (k > 0 /\ damaged[id])) /\ k + 1 # FrameCount(m)) \in BOOLEAN
    OBVIOUS
  <2> HIDE DEF FrameCount
  <2>2. damaged \in [UdsId -> BOOLEAN]
    BY DEF LinkTypes
  <2> QED
    BY <1>1, <2>1, <2>2, Zenon
<1>7. intact' \in [UdsId -> Seq(Seq(Byte))]
  <2>1. intact \in [UdsId -> Seq(Seq(Byte))] /\ Append(intact[id], m) \in Seq(Seq(Byte))
    BY DEF LinkTypes
  <2> QED
    BY <1>1, <2>1
<1> QED
  BY <1>1, <1>3, <1>4, <1>5, <1>6, <1>7

\* Whether the frame is lost or not: nothing under another id changes, and the
\* losses are counted.
LEMMA TransmitFields ==
    ASSUME Inv, LinkTypes, NEW id \in UdsId, NEW f, NEW gone \in BOOLEAN,
           Transmit(id, f, gone)
    PROVE  /\ lost' \in [UdsId -> Nat]
           /\ lost'[id] = IF gone THEN lost[id] + 1 ELSE lost[id]
           /\ \A j \in UdsId \ {id} :
                 /\ lost'[j] = lost[j]
                 /\ state'[j] = state[j] /\ payload'[j] = payload[j]
                 /\ total_length'[j] = total_length[j]
                 /\ sequence_number'[j] = sequence_number[j]
                 /\ processed'[j] = processed[j]
<1>1. lost \in [UdsId -> Nat]
  BY DEF LinkTypes
<1>2. CASE gone
  BY <1>1, <1>2 DEF Transmit, pluginVars, reception
<1>3. CASE ~ gone
  <2>1. Handle(id, f) /\ lost' = lost
    BY <1>3 DEF Transmit
  <2> QED
    BY <1>1, <1>3, <2>1, OthersUntouched
<1> QED
  BY <1>2, <1>3

\* An id none of whose variables change stays in step.
LEMMA StaysInStep ==
    ASSUME NEW j, Unfinished(j), InStep(j),
           message'[j] = message[j], frames'[j] = frames[j], damaged'[j] = damaged[j],
           intact'[j] = intact[j], lost'[j] = lost[j], raw'[j] = raw[j],
           state'[j] = state[j], payload'[j] = payload[j],
           total_length'[j] = total_length[j], sequence_number'[j] = sequence_number[j],
           processed'[j] = processed[j]
    PROVE  Unfinished(j)' /\ InStep(j)'
BY Zenon DEF Unfinished, InStep

\* A message has one frame if it has at most seven bytes.
LEMMA OneFrame ==
    ASSUME NEW m \in Seq(Byte), Len(m) \in 1 .. 111
    PROVE  /\ Len(m) \in 1 .. 7 => 0 + 1 = FrameCount(m)
           /\ 0 + 1 = FrameCount(m) => Len(m) \in 1 .. 7
           /\ Len(m) \in 1 .. 7 \/ Len(m) \in 8 .. 111
<1>1. \A n \in 1 .. 111 : /\ (n <= 7 <=> n \in 1 .. 7)
                          /\ n \in 1 .. 7 \/ n \in 8 .. 111
                          /\ n > 7 => 0 + 1 # 1 + n \div 7
  OBVIOUS
<1>2. ~ (Len(m) <= 7) => Len(m) > 7
  OBVIOUS
<1>3. 0 + 1 = 1
  OBVIOUS
<1> QED
  BY <1>1, <1>2, <1>3, Zenon DEF FrameCount

\* The tester sends the next frame of a message that fits.
LEMMA SendKeepsStep ==
    ASSUME Inv, TesterInv, LinkTypes, \A j \in UdsId : Unfinished(j) /\ InStep(j),
           NEW id \in UdsId, NEW m \in Seq(Byte), Len(m) \in 1 .. 111,
           NEW k \in Nat, k = frames[id], k > 0 => m = message[id],
           NEW gone \in BOOLEAN, SendFrame(id, m, k, gone), raw' = raw
    PROVE  LinkTypes' /\ \A j \in UdsId : Unfinished(j)' /\ InStep(j)'
<1> DEFINE last == k + 1 = FrameCount(m)
           f == FrameNumber(m, k)
<1>1. Transmit(id, f, gone)
  BY DEF SendFrame
<1>2. Unfinished(id) /\ InStep(id)
  OBVIOUS
<1>3. k > 0 => Len(m) \in 8 .. 111 /\ 7 * k <= Len(m)
  BY <1>2 DEF Unfinished
<1>4. /\ message'[id] = IF last THEN << >> ELSE m
      /\ frames'[id] = IF last THEN 0 ELSE k + 1
      /\ damaged'[id] = ((gone \/ (k > 0 /\ damaged[id])) /\ ~ last)
      /\ intact' = IF last /\ ~ (gone \/ (k > 0 /\ damaged[id]))
                     THEN [intact EXCEPT ![id] = Append(@, m)] ELSE intact
  BY SendFields
<1>5. /\ lost'[id] = IF gone THEN lost[id] + 1 ELSE lost[id]
      /\ lost[id] \in Nat
  BY <1>1, TransmitFields DEF LinkTypes
<1>6. LinkTypes'
  BY <1>1, SendFields, TransmitFields DEF LinkTypes
<1>7. ASSUME NEW j \in UdsId \ {id}
      PROVE  Unfinished(j)' /\ InStep(j)'
  <2>1. Unfinished(j) /\ InStep(j) /\ raw'[j] = raw[j]
    OBVIOUS
  <2>2. /\ message'[j] = message[j] /\ frames'[j] = frames[j]
        /\ damaged'[j] = damaged[j] /\ intact'[j] = intact[j]
    BY SendFields
  <2>3. /\ lost'[j] = lost[j]
        /\ state'[j] = state[j] /\ payload'[j] = payload[j]
        /\ total_length'[j] = total_length[j]
        /\ sequence_number'[j] = sequence_number[j]
        /\ processed'[j] = processed[j]
    BY <1>1, TransmitFields
  <2> QED
    BY <2>1, <2>2, <2>3, StaysInStep, Zenon
<1>8. Unfinished(id)'
  <2>1. CASE last
    BY <1>4, <2>1 DEF Unfinished
  <2>2. CASE ~ last
    <3>1. Len(m) \in 8 .. 111 /\ 7 * (k + 1) <= Len(m)
      <4>1. CASE k = 0
        <5>1. Len(m) \in 8 .. 111
          BY <2>2, <4>1, OneFrame, Zenon
        <5>2. \A n \in 8 .. 111 : 7 * (0 + 1) <= n
          OBVIOUS
        <5> QED
          BY <4>1, <5>1, <5>2, Zenon
      <4>2. CASE k > 0
        <5>1. Len(m) > 7 /\ Len(m) \in Nat
          BY <1>3, <4>2, MessageLength, Zenon
        <5>2. ~ (Len(m) <= 7 * k + 6)
          BY <1>3, <2>2, <4>2, <5>1, LastFrame
        <5> QED
          BY <1>3, <4>2, <5>1, <5>2
      <4> QED
        BY <4>1, <4>2
    <3> HIDE DEF last
    <3> QED
      BY <1>4, <2>2, <3>1 DEF Unfinished
  <2> QED
    BY <2>1, <2>2
<1>9. InStep(id)'
  <2> HIDE DEF last
  <2>1. SUFFICES ASSUME raw[id] = 0, lost'[id] < 2, raw'[id] = 0
                 PROVE  InStep(id)'
    BY DEF InStep
  <2>2. /\ lost[id] < 2
        /\ processed[id] = intact[id]
        /\ damaged[id] => lost[id] = 1
        /\ k = 0 /\ lost[id] = 0 => state[id] # "RECEIVING_MULTIFRAME"
        /\ k > 0 /\ ~ damaged[id] =>
              /\ state[id] = "RECEIVING_MULTIFRAME"
              /\ total_length[id] = Len(m)
              /\ sequence_number[id] = k
              /\ payload[id] = SubSeq(m, 1, 7 * k - 1)
        /\ k > 0 /\ damaged[id] /\ state[id] = "RECEIVING_MULTIFRAME" =>
              sequence_number[id] = k - 1
    <3>1. lost[id] < 2
      BY <1>5, <2>1
    <3> QED
      BY <1>2, <2>1, <3>1 DEF InStep
  <2>3. processed \in [UdsId -> Seq(Seq(Byte))] /\ intact \in [UdsId -> Seq(Seq(Byte))]
    BY DEF Inv, TypeOK, LinkTypes
  <2>4. CASE gone
    <3>1. lost[id] = 0 /\ lost'[id] = 1 /\ ~ damaged[id]
      BY <1>5, <2>1, <2>2, <2>4
    <3>2. intact' = intact /\ damaged'[id] = ~ last
      BY <1>4, <2>4, Zenon
    <3>3. /\ processed' = processed /\ state' = state
          /\ sequence_number' = sequence_number
      BY <1>1, <2>4 DEF Transmit, pluginVars, reception
    <3>4. ~ last /\ state[id] = "RECEIVING_MULTIFRAME" => sequence_number[id] = (k + 1) - 1
      BY <2>2, <3>1
    <3> QED
      BY <1>4, <2>2, <3>1, <3>2, <3>3, <3>4 DEF InStep
  <2>5. CASE ~ gone
    <3>1. Handle(id, f) /\ lost'[id] = lost[id]
      BY <1>1, <1>5, <2>5 DEF Transmit
    <3>2. CASE k = 0 /\ Len(m) \in 1 .. 7
      <4>1. last
        BY <3>2, OneFrame, Zenon DEF last
      <4>2. state'[id] = "COMPLETE" /\ processed' = [processed EXCEPT ![id] = Append(@, m)]
        BY <3>1, <3>2, SingleHandled
      <4>3. /\ intact' = [intact EXCEPT ![id] = Append(@, m)]
            /\ frames'[id] = 0 /\ damaged'[id] = FALSE
        BY <1>4, <2>5, <3>2, <4>1
      <4>4. processed'[id] = intact'[id]
        BY <2>2, <2>3, <4>2, <4>3
      <4> QED
        BY <4>2, <4>3, <4>4 DEF InStep
    <3>3. CASE k = 0 /\ Len(m) \in 8 .. 111
      <4>1. ~ last
        <5>1. \A n \in 8 .. 111 : n \notin 1 .. 7
          OBVIOUS
        <5> QED
          BY <3>3, <5>1, OneFrame, Zenon DEF last
      <4>2. Len(m) > 7
        BY <3>3, MessageLength, Zenon
      <4>3. /\ state'[id] = "RECEIVING_MULTIFRAME"
            /\ total_length'[id] = Len(m)
            /\ sequence_number'[id] = 1
            /\ payload'[id] = SubSeq(m, 1, 6)
            /\ processed' = processed
        BY <3>1, <3>3, <4>2, FirstHandled
      <4>4. /\ intact' = intact /\ frames'[id] = 1 /\ message'[id] = m
            /\ damaged'[id] = FALSE
        BY <1>4, <2>5, <3>3, <4>1
      <4>5. 7 * 1 - 1 = 6
        OBVIOUS
      <4> QED
        BY <2>2, <4>3, <4>4, <4>5 DEF InStep
    <3>4. CASE k > 0 /\ ~ damaged[id]
      <4>1. IF last
              THEN /\ state'[id] = "COMPLETE"
                   /\ processed' = [processed EXCEPT ![id] = Append(@, m)]
              ELSE /\ state'[id] = "RECEIVING_MULTIFRAME"
                   /\ total_length'[id] = Len(m)
                   /\ sequence_number'[id] = k + 1
                   /\ payload'[id] = SubSeq(m, 1, 7 * (k + 1) - 1)
                   /\ processed' = processed
        <5>1. k >= 1
          BY <3>4
        <5> QED
          BY <1>3, <2>2, <3>1, <3>4, <5>1, NextHandled DEF last
      <4>2. damaged'[id] = FALSE
        BY <1>4, <2>5, <3>4, Zenon
      <4>3. CASE last
        <5>1. intact' = [intact EXCEPT ![id] = Append(@, m)] /\ frames'[id] = 0
          BY <1>4, <2>5, <3>4, <4>3, Zenon
        <5>2. processed'[id] = intact'[id]
          BY <2>2, <2>3, <4>1, <4>3, <5>1
        <5> QED
          BY <4>1, <4>2, <4>3, <5>1, <5>2 DEF InStep
      <4>4. CASE ~ last
        <5>1. intact' = intact /\ frames'[id] = k + 1 /\ message'[id] = m
          BY <1>4, <4>4, Zenon
        <5>2. k + 1 > 0 /\ k + 1 # 0
          OBVIOUS
        <5> QED
          BY <2>2, <4>1, <4>2, <4>4, <5>1, <5>2 DEF InStep
      <4> QED
        BY <4>3, <4>4
    <3>5. CASE k > 0 /\ damaged[id]
      <4>1. state'[id] # "RECEIVING_MULTIFRAME" /\ processed' = processed
        <5>1. k >= 1
          BY <3>5
        <5> QED
          BY <1>3, <2>2, <3>1, <3>5, <5>1, DamageHandled
      <4>2. intact' = intact /\ damaged'[id] = ~ last /\ lost'[id] = 1
        BY <1>4, <2>2, <3>1, <3>5, Zenon
      <4>3. frames'[id] > 0 => damaged'[id]
        <5>1. ~ (0 > 0)
          OBVIOUS
        <5> QED
          BY <1>4, <4>2, <5>1, Zenon
      <4> QED
        BY <2>2, <4>1, <4>2, <4>3 DEF InStep
    <3>6. k > 0 \/ (k = 0 /\ (Len(m) \in 1 .. 7 \/ Len(m) \in 8 .. 111))
      <4>1. k > 0 \/ k = 0
        OBVIOUS
      <4> QED
        BY <4>1, OneFrame, Zenon
    <3> QED
      BY <3>2, <3>3, <3>4, <3>5, <3>6
  <2> QED
    BY <2>4, <2>5
<1> QED
  BY <1>6, <1>7, <1>8, <1>9

\* The lengths fit by assumption; the security request has two bytes.
LEMMA SendsInStep ==
    ASSUME MessagesFit, StepInv, LinkNext
    PROVE  LinkTypes' /\ \A j \in UdsId : Unfinished(j)' /\ InStep(j)'
<1>0. /\ Inv /\ TesterInv /\ LinkTypes
      /\ \A j \in UdsId : Unfinished(j) /\ InStep(j)
  BY DEF StepInv, LinkInv
<1>1. ASSUME NEW id \in UdsId, NEW gone \in BOOLEAN, NEW n \in Lengths, SendData(id, n, gone)
      PROVE  LinkTypes' /\ \A j \in UdsId : Unfinished(j)' /\ InStep(j)'
  <2> DEFINE m == Data(number[id] + 1, n)
  <2>1. number[id] + 1 \in 1 .. MaxMessages
    BY <1>0, <1>1, LinkAssumption DEF SendData, Begin, TesterInv
  <2>2. n \in 1 .. MaxLength /\ n \in 1 .. 111
    BY LinkAssumption DEF MessagesFit
  <2>3. m \in Seq(Byte) /\ Len(m) \in 1 .. 111
    BY <2>1, <2>2, DataIsBytes
  <2>4. SendFrame(id, m, 0, gone) /\ raw' = raw /\ 0 = frames[id]
    BY <1>1 DEF SendData, Begin
  <2>5. 0 \in Nat /\ ~ (0 > 0)
    OBVIOUS
  <2> HIDE DEF m
  <2> QED
    BY <1>0, <2>3, <2>4, <2>5, SendKeepsStep
<1>2. ASSUME NEW id \in UdsId, NEW gone \in BOOLEAN, SendRequest(id, gone)
      PROVE  LinkTypes' /\ \A j \in UdsId : Unfinished(j)' /\ InStep(j)'
  <2>1. Request \in Seq(Byte) /\ Len(Request) \in 1 .. 111
    BY RequestIsBytes
  <2>2. SendFrame(id, Request, 0, gone) /\ raw' = raw /\ 0 = frames[id]
    BY <1>2 DEF SendRequest, Begin
  <2>3. 0 \in Nat /\ ~ (0 > 0)
    OBVIOUS
  <2> QED
    BY <1>0, <2>1, <2>2, <2>3, SendKeepsStep
<1>3. ASSUME NEW id \in UdsId, NEW gone \in BOOLEAN, SendRawRequest(id, gone)
      PROVE  LinkTypes' /\ \A j \in UdsId : Unfinished(j)' /\ InStep(j)'
  <2>1. /\ Transmit(id, RawRequest, gone) /\ raw' = Counted(raw, id, gone)
        /\ UNCHANGED <<message, frames, damaged, intact>> /\ frames[id] = 0
    BY <1>3 DEF SendRawRequest, Begin
  <2>2. /\ lost' \in [UdsId -> Nat]
        /\ lost'[id] = IF gone THEN lost[id] + 1 ELSE lost[id]
        /\ lost[id] \in Nat /\ raw[id] \in Nat
    BY <1>0, <2>1, TransmitFields DEF LinkTypes
  <2>3. /\ raw' \in [UdsId -> Nat]
        /\ raw'[id] = IF gone THEN raw[id] ELSE raw[id] + 1
        /\ \A j \in UdsId \ {id} : raw'[j] = raw[j]
    BY <1>0, <2>1 DEF Counted, LinkTypes
  <2>4. LinkTypes'
    BY <1>0, <2>1, <2>2, <2>3 DEF LinkTypes
  <2>5. ASSUME NEW j \in UdsId \ {id}
        PROVE  Unfinished(j)' /\ InStep(j)'
    <3>1. /\ lost'[j] = lost[j]
          /\ state'[j] = state[j] /\ payload'[j] = payload[j]
          /\ total_length'[j] = total_length[j]
          /\ sequence_number'[j] = sequence_number[j]
          /\ processed'[j] = processed[j]
      BY <1>0, <2>1, TransmitFields
    <3> QED
      BY <1>0, <2>1, <2>3, <3>1, StaysInStep
  <2>6. Unfinished(id)'
    BY <1>0, <2>1 DEF Unfinished
  <2>7. InStep(id)'
    <3>1. CASE ~ gone
      BY <2>2, <2>3, <3>1 DEF InStep
    <3>2. CASE gone
      <4>1. /\ processed' = processed /\ intact' = intact /\ damaged' = damaged
            /\ frames'[id] = 0 /\ raw'[id] = raw[id] /\ lost'[id] = lost[id] + 1
        BY <2>1, <2>2, <2>3, <3>2 DEF Transmit, pluginVars, reception
      <4>2. SUFFICES ASSUME raw[id] = 0, lost[id] + 1 < 2
                     PROVE  InStep(id)'
        BY <4>1 DEF InStep
      <4>3. lost[id] = 0 /\ lost[id] < 2 /\ lost[id] # 1
        BY <2>2, <4>2
      <4>4. processed[id] = intact[id] /\ ~ damaged[id]
        BY <1>0, <4>2, <4>3 DEF InStep
      <4>5. lost'[id] # 0 /\ ~ (frames'[id] > 0)
        BY <4>1, <4>3
      <4> QED
        BY <4>1, <4>4, <4>5, Zenon DEF InStep
    <3> QED
      BY <3>1, <3>2
  <2> QED
    BY <2>4, <2>5, <2>6, <2>7
<1>4. ASSUME NEW id \in UdsId, NEW gone \in BOOLEAN, SendNext(id, gone)
      PROVE  LinkTypes' /\ \A j \in UdsId : Unfinished(j)' /\ InStep(j)'
  <2> DEFINE m == message[id]
             k == frames[id]
  <2>1. m \in Seq(Byte) /\ k \in Nat /\ k > 0
    BY <1>0, <1>4 DEF SendNext, TesterInv
  <2>2. Len(m) \in 8 .. 111
    BY <1>0, <2>1 DEF Unfinished
  <2>3. \A n \in 8 .. 111 : n \in 1 .. 111
    OBVIOUS
  <2>4. SendFrame(id, m, k, gone) /\ raw' = raw
    BY <1>4 DEF SendNext
  <2>5. Len(m) \in 1 .. 111
    BY <2>2, <2>3, Zenon
  <2>6. k = frames[id] /\ (k > 0 => m = message[id])
    OBVIOUS
  <2> HIDE DEF m, k
  <2> QED
    BY <1>0, <2>1, <2>4, <2>5, <2>6, SendKeepsStep
<1> QED
  BY <1>1, <1>2, <1>3, <1>4 DEF LinkNext

LEMMA StepInductive ==
    ASSUME MessagesFit, StepInv, [LinkNext]_linkVars
    PROVE  StepInv'
<1>1. LinkInv'
  BY LinkInductive DEF StepInv
<1>2. CASE LinkNext
  BY <1>1, <1>2, SendsInStep DEF StepInv
<1>3. CASE UNCHANGED linkVars
  <2>1. LinkTypes'
    BY <1>3 DEF StepInv, LinkTypes, linkVars, testerVars
  <2>2. ASSUME NEW j \in UdsId
        PROVE  Unfinished(j)' /\ InStep(j)'
    <3>1. Unfinished(j) /\ InStep(j)
      BY DEF StepInv
    <3> QED
      BY <1>3, <3>1, StaysInStep DEF linkVars, testerVars, pluginVars, reception
  <2> QED
    BY <1>1, <2>1, <2>2 DEF StepInv
<1> QED
  BY <1>2, <1>3

LEMMA StepStarts == LinkInit => StepInv
<1>1. SUFFICES ASSUME LinkInit
               PROVE  StepInv
  OBVIOUS
<1>2. LinkTypes
  BY <1>1 DEF LinkInit, LinkTypes
<1>3. \A id \in UdsId : Unfinished(id) /\ InStep(id)
  <2>1. SUFFICES ASSUME NEW id \in UdsId
                 PROVE  Unfinished(id) /\ InStep(id)
    BY Zenon
  <2>2. /\ ~ (frames[id] > 0) /\ ~ damaged[id] /\ state[id] = "IDLE"
        /\ processed[id] = intact[id]
    BY <1>1 DEF LinkInit, Init
  <2> QED
    BY <2>2 DEF Unfinished, InStep
<1> QED
  BY <1>1, <1>2, <1>3, LinkStarts DEF StepInv

\* If every message fits fifteen consecutive frames, then for any number and any
\* lengths of messages and any one lost frame, exactly the messages sent whole
\* are processed, once each and in their order.
THEOREM NoticesOneLoss ==
    ASSUME MessagesFit
    PROVE  LinkSpec => []OneLossIsNoticed
<1>1. StepInv => OneLossIsNoticed
  BY DEF StepInv, InStep, OneLossIsNoticed
<1>2. StepInv /\ [LinkNext]_linkVars => StepInv'
  BY StepInductive
<1> QED
  BY <1>1, <1>2, StepStarts, PTL DEF LinkSpec
-----------------------------------------------------------------------------
(***************************************************************************)
(* A message sent whole is processed, whatever was lost before it and      *)
(* however its request was sent, if the messages fit.                      *)
(***************************************************************************)

\* What the tester means to say.
Messages ==
    {Request} \cup {Data(k, n) : k \in 1 .. MaxMessages, n \in 1 .. MaxLength}

\* The plug-in holds what was sent of the message so far.
Faithful(id) ==
    /\ total_length[id] = Len(message[id])
    /\ sequence_number[id] = frames[id]
    /\ payload[id] = SubSeq(message[id], 1, 7 * frames[id] - 1)

\* A byte of the payload is not the k-th message's.
Spoilt(id, k) == \E i \in 1 .. Len(payload[id]) : payload[id][i] # <<k, i>>

\* The plug-in holds the beginning of the k-th message, and cannot get the rest of
\* it: it has taken a byte of another one, or the frame it waits for is past.
Torn(id, k) ==
    /\ total_length[id] \in 8 .. 111
    /\ payload[id][1] = <<k, 1>>
    /\ \/ Spoilt(id, k)
       \/ k < number[id]
       \/ frames[id] = 0
       \/ frames[id] > sequence_number[id]

Received(id) ==
    IF frames[id] > 0 /\ ~ damaged[id]
      THEN state[id] = "RECEIVING_MULTIFRAME" /\ Faithful(id)
      ELSE state[id] = "RECEIVING_MULTIFRAME" => \E k \in 1 .. number[id] : Torn(id, k)

\* The message being sent is the latest one.
Latest(id) ==
    frames[id] > 0 => /\ number[id] \in 1 .. MaxMessages
                      /\ message[id] = Data(number[id], Len(message[id]))

\* The members of s are messages, and t holds them in their order and no other.
Sifted(s, t) ==
    /\ \A i \in DOMAIN s : s[i] \in Messages
    /\ \E at \in [DOMAIN s -> DOMAIN t] :
          /\ Places(at, s, t)
          /\ \A j \in DOMAIN t : t[j] \in Messages => \E i \in DOMAIN s : at[i] = j

Delivers(id) == Received(id) /\ Latest(id) /\ Sifted(intact[id], processed[id])

WholeInv == StepInv /\ \A id \in UdsId : Delivers(id)

LEMMA SiftedMessage ==
    ASSUME NEW s \in Seq(Seq(Byte)), NEW t \in Seq(Seq(Byte)), NEW m \in Messages,
           Sifted(s, t)
    PROVE  Sifted(Append(s, m), Append(t, m))
<1> DEFINE ss == Append(s, m)
           tt == Append(t, m)
<1>0. PICK at \in [DOMAIN s -> DOMAIN t] :
          /\ Places(at, s, t)
          /\ \A j \in DOMAIN t : t[j] \in Messages => \E i \in DOMAIN s : at[i] = j
  BY DEF Sifted
<1>1. /\ Len(s) \in Nat /\ DOMAIN s = 1 .. Len(s)
      /\ Len(t) \in Nat /\ DOMAIN t = 1 .. Len(t)
  OBVIOUS
<1>2. /\ DOMAIN ss = 1 .. Len(s) + 1
      /\ \A i \in 1 .. Len(s) : ss[i] = s[i]
      /\ ss[Len(s) + 1] = m
  OBVIOUS
<1>3. /\ DOMAIN tt = 1 .. Len(t) + 1
      /\ \A i \in 1 .. Len(t) : tt[i] = t[i]
      /\ tt[Len(t) + 1] = m
  OBVIOUS
<1> HIDE DEF ss, tt
<1> DEFINE to == [i \in DOMAIN ss |-> IF i = Len(s) + 1 THEN Len(t) + 1 ELSE at[i]]
<1>4. /\ \A i \in 1 .. Len(s) : to[i] = at[i] /\ at[i] \in 1 .. Len(t)
      /\ to[Len(s) + 1] = Len(t) + 1
  <2>1. \A i \in 1 .. Len(s) : at[i] \in 1 .. Len(t)
    BY <1>0, <1>1, Zenon
  <2>2. \A i \in 1 .. Len(s) : i \in 1 .. Len(s) + 1 /\ i # Len(s) + 1
    BY <1>1
  <2>3. Len(s) + 1 \in 1 .. Len(s) + 1
    BY <1>1
  <2>4. to = [i \in 1 .. Len(s) + 1 |-> IF i = Len(s) + 1 THEN Len(t) + 1 ELSE at[i]]
    BY <1>2
  <2> HIDE DEF to
  <2> QED
    BY <2>1, <2>2, <2>3, <2>4, Zenon
<1>5. /\ \A i \in 1 .. Len(s) + 1 : i \in 1 .. Len(s) \/ i = Len(s) + 1
      /\ \A j \in 1 .. Len(t) + 1 : j \in 1 .. Len(t) \/ j = Len(t) + 1
      /\ 1 .. Len(t) \subseteq 1 .. Len(t) + 1 /\ Len(t) + 1 \in 1 .. Len(t) + 1
      /\ 1 .. Len(s) \subseteq 1 .. Len(s) + 1 /\ Len(s) + 1 \in 1 .. Len(s) + 1
  BY <1>1
<1>6. \A i \in DOMAIN ss : to[i] \in DOMAIN tt
  BY <1>2, <1>3, <1>4, <1>5, Zenon
<1>7. to \in [DOMAIN ss -> DOMAIN tt]
  BY <1>6
<1> HIDE DEF to
<1>8. Places(to, ss, tt)
  <2>1. ASSUME NEW i \in DOMAIN ss, NEW j \in DOMAIN ss, i < j
        PROVE  to[i] < to[j]
    <3>1. i \in 1 .. Len(s)
      BY <1>1, <1>2, <2>1
    <3>2. CASE j = Len(s) + 1
      BY <1>1, <1>4, <3>1, <3>2
    <3>3. CASE j \in 1 .. Len(s)
      BY <1>0, <1>1, <1>4, <2>1, <3>1, <3>3 DEF Places
    <3> QED
      BY <1>2, <1>5, <3>2, <3>3
  <2>2. ASSUME NEW i \in DOMAIN ss
        PROVE  tt[to[i]] = ss[i]
    <3>1. CASE i = Len(s) + 1
      BY <1>2, <1>3, <1>4, <3>1
    <3>2. CASE i \in 1 .. Len(s)
      BY <1>0, <1>1, <1>2, <1>3, <1>4, <3>2 DEF Places
    <3> QED
      BY <1>2, <1>5, <3>1, <3>2
  <2> QED
    BY <2>1, <2>2 DEF Places
<1>9. ASSUME NEW j \in DOMAIN tt, tt[j] \in Messages
      PROVE  \E i \in DOMAIN ss : to[i] = j
  <2>1. CASE j = Len(t) + 1
    BY <1>2, <1>4, <1>5, <2>1
  <2>2. CASE j \in 1 .. Len(t)
    <3>1. PICK i \in DOMAIN s : at[i] = j
      BY <1>0, <1>1, <1>3, <1>9, <2>2
    <3>2. i \in 1 .. Len(s) /\ i \in DOMAIN ss
      BY <1>1, <1>2, <1>5, <3>1
    <3> QED
      BY <1>4, <3>1, <3>2
  <2> QED
    BY <1>3, <1>5, <2>1, <2>2
<1>10. \A i \in DOMAIN ss : ss[i] \in Messages
  BY <1>1, <1>2, <1>5 DEF Sifted
<1>11. Sifted(ss, tt)
  BY <1>7, <1>8, <1>9, <1>10, Zenon DEF Sifted
<1> QED
  BY <1>11 DEF ss, tt

LEMMA SiftedOther ==
    ASSUME NEW s \in Seq(Seq(Byte)), NEW t \in Seq(Seq(Byte)), NEW p \in Seq(Byte),
           p \notin Messages, Sifted(s, t)
    PROVE  Sifted(s, Append(t, p))
<1> DEFINE tt == Append(t, p)
<1>0. PICK at \in [DOMAIN s -> DOMAIN t] :
          /\ Places(at, s, t)
          /\ \A j \in DOMAIN t : t[j] \in Messages => \E i \in DOMAIN s : at[i] = j
  BY DEF Sifted
<1>1. Len(t) \in Nat /\ DOMAIN t = 1 .. Len(t)
  OBVIOUS
<1>2. /\ DOMAIN tt = 1 .. Len(t) + 1
      /\ \A i \in 1 .. Len(t) : tt[i] = t[i]
      /\ tt[Len(t) + 1] = p
  OBVIOUS
<1> HIDE DEF tt
<1>3. \A j \in 1 .. Len(t) + 1 : j \in 1 .. Len(t) \/ j = Len(t) + 1
  BY <1>1
<1>4. at \in [DOMAIN s -> DOMAIN tt]
  BY <1>1, <1>2
<1>5. Places(at, s, tt)
  BY <1>0, <1>1, <1>2 DEF Places
<1>6. ASSUME NEW j \in DOMAIN tt, tt[j] \in Messages
      PROVE  \E i \in DOMAIN s : at[i] = j
  <2>1. j \in 1 .. Len(t)
    BY <1>2, <1>3, <1>6
  <2> QED
    BY <1>0, <1>1, <1>2, <1>6, <2>1
<1>7. Sifted(s, tt)
  BY <1>4, <1>5, <1>6, Zenon DEF Sifted
<1> QED
  BY <1>7 DEF tt

\* What is sifted out is what was sent whole.
LEMMA SiftedIsProcessed ==
    ASSUME NEW s, NEW t, Sifted(s, t)
    PROVE  SelectedFrom(s, t)
<1>1. \A i \in DOMAIN s : s[i] \in Messages
  BY DEF Sifted
<1>2. PICK at \in [DOMAIN s -> DOMAIN t] :
          /\ Places(at, s, t)
          /\ \A j \in DOMAIN t : t[j] \in Messages => \E i \in DOMAIN s : at[i] = j
  BY DEF Sifted
<1> QED
  BY <1>1, <1>2, Zenon DEF SelectedFrom

\* A payload that begins like the k-th message and goes on otherwise is none.
LEMMA TornIsNoMessage ==
    ASSUME NEW p \in Seq(Byte), Len(p) > 7, NEW k, p[1] = <<k, 1>>,
           NEW i \in 1 .. Len(p), p[i] # <<k, i>>
    PROVE  p \notin Messages
<1>1. p # Request
  <2>1. Len(Request) = 2
    BY RequestIsBytes
  <2>2. ~ (2 > 7)
    OBVIOUS
  <2> QED
    BY <2>1, <2>2, Zenon
<1>2. ASSUME NEW h \in 1 .. MaxMessages, NEW n \in 1 .. MaxLength, p = Data(h, n)
      PROVE  FALSE
  <2>1. Len(p) = n
    BY <1>2, DataIsBytes
  <2>2. \A j \in 1 .. n : p[j] = <<h, j>>
    BY <1>2 DEF Data
  <2>3. 1 \in 1 .. n /\ i \in 1 .. n
    BY <2>1
  <2>4. h = k
    BY <2>2, <2>3
  <2> QED
    BY <2>2, <2>3, <2>4
<1> QED
  BY <1>1, <1>2 DEF Messages

\* The bytes a torn reception takes from a frame.
LEMMA TakenBounds ==
    ASSUME NEW n \in 8 .. 111, NEW q \in 1 .. 16, NEW l, l = 6 + 7 * (q - 1), l < n
    PROVE  /\ l \in Nat /\ l >= 6 /\ l + 1 = 7 * q
           /\ (IF n - l < 7 THEN n - l ELSE 7) \in 1 .. 7
           /\ l + (IF n - l < 7 THEN n - l ELSE 7) <= n
           /\ n \in Nat /\ n > 7 /\ ~ (n <= 6)
OBVIOUS

\* A consecutive frame that is not the one awaited, by its number or by its bytes,
\* leaves a torn reception spoilt or ends it; a payload completed with it is none
\* of the tester's messages.
LEMMA TornHandled ==
    ASSUME Inv, NEW id \in UdsId, state[id] = "RECEIVING_MULTIFRAME",
           NEW k, total_length[id] \in 8 .. 111, payload[id][1] = <<k, 1>>,
           NEW f \in GoodFrames, f.pci = "consecutive", Handle(id, f),
           \/ Spoilt(id, k)
           \/ f.seq = sequence_number[id] => f.data[1] # <<k, 7 * sequence_number[id]>>
    PROVE  /\ state'[id] = "RECEIVING_MULTIFRAME" =>
                 /\ total_length'[id] \in 8 .. 111
                 /\ payload'[id][1] = <<k, 1>>
                 /\ Spoilt(id, k)'
           /\ \/ processed' = processed
              \/ \E p \in Seq(Byte) \ Messages :
                    processed' = [processed EXCEPT ![id] = Append(@, p)]
<1> DEFINE n == total_length[id]
           q == sequence_number[id]
           l == Len(payload[id])
           t == Taken(id)
           b == Bytes(f, t)
           p == payload[id] \o b
<1>0. TypeOK /\ f \in Frames /\ n \in 8 .. 111 /\ payload[id] \in Seq(Byte)
  BY DEF Inv, GoodFrames, TypeOK
<1>1. q \in 1 .. 16 /\ l <= n /\ (IF n <= 6 THEN q = 1 ELSE l = 6 + 7 * (q - 1) /\ l < n)
  BY Zenon DEF Inv, ReceptionTracked
<1>2. ~ (n <= 6)
  <2> HIDE DEF n
  <2> QED
    BY <1>0
<1>3. /\ l \in Nat /\ l >= 6 /\ l + 1 = 7 * q
      /\ t \in 1 .. 7 /\ l + t <= n
      /\ n \in Nat /\ n > 7
  <2>1. t = IF n - l < 7 THEN n - l ELSE 7
    BY DEF Taken
  <2> HIDE DEF n, q, l, t
  <2> QED
    BY <1>0, <1>1, <1>2, <2>1, TakenBounds, Zenon
<1>4. SequenceMismatch(id, f) \/ ConsecutiveFrame(id, f)
  BY DEF Handle, SingleFrame, FirstFrame, Ignored
<1>5. CASE SequenceMismatch(id, f)
  BY <1>0, <1>5 DEF SequenceMismatch, Set, TypeOK
<1>6. CASE ConsecutiveFrame(id, f)
  <2>1. b \in Seq(Byte) /\ Len(b) = t
    <3>1. t \in Nat
      BY <1>3
    <3> QED
      BY <1>0, <3>1, BytesOfFrame
  <2>2. b[1] = f.data[1]
    <3>1. 1 \in 1 .. t /\ 1 <= 7
      BY <1>3
    <3> HIDE DEF t
    <3> QED
      BY <3>1, Zenon DEF Bytes
  <2> HIDE DEF b
  <2>3. /\ p \in Seq(Byte) /\ Len(p) = l + t
        /\ \A i \in 1 .. l : p[i] = payload[id][i]
        /\ p[l + 1] = b[1]
    <3> HIDE DEF t
    <3>1. payload[id] \in Seq(Byte) /\ b \in Seq(Byte) /\ Len(b) \in 1 .. 7
      BY <1>0, <1>3, <2>1
    <3> QED
      BY <2>1, <3>1
  <2> HIDE DEF p
  <2>4. p[1] = <<k, 1>>
    <3>1. 1 \in 1 .. l
      BY <1>3
    <3> QED
      BY <2>3, <3>1
  <2>5. PICK i \in 1 .. l + t : p[i] # <<k, i>>
    <3>0. 1 .. l \subseteq 1 .. l + t /\ l + 1 \in 1 .. l + t
      <4> HIDE DEF l, t
      <4> QED
        BY <1>3
    <3>1. CASE Spoilt(id, k)
      BY <2>3, <3>0, <3>1 DEF Spoilt
    <3>2. CASE ~ Spoilt(id, k)
      <4>1. f.seq = q
        BY <1>6 DEF ConsecutiveFrame, Awaited
      <4>2. b[1] # <<k, 7 * q>>
        BY <2>2, <3>2, <4>1
      <4>3. p[l + 1] # <<k, l + 1>>
        BY <1>3, <2>3, <4>2
      <4> QED
        BY <3>0, <4>3
    <3> QED
      BY <3>1, <3>2
  <2>6. Resized(p, n) = p
    <3>1. ~ (Len(p) > n)
      BY <1>3, <2>3
    <3> QED
      BY <3>1, Zenon DEF Resized
  <2>7. PICK next : Append7(id, f, 0, next)
    BY <1>6 DEF ConsecutiveFrame
  <2>8. CASE Len(p) + 0 >= n
    <3>1. Set(id, "COMPLETE", p, n, next) /\ Process(id, p)
      BY <2>6, <2>7, <2>8 DEF Append7, p, b
    <3>2. Len(p) > 7 /\ p # << >>
      <4>1. Len(p) \in Nat
        BY <2>3
      <4> QED
        BY <1>3, <2>8, <4>1
    <3>3. p \in Seq(Byte) \ Messages
      BY <2>3, <2>4, <2>5, <3>2, TornIsNoMessage
    <3>4. state'[id] = "COMPLETE"
      BY <1>0, <3>1 DEF Set, TypeOK
    <3>5. processed' = [processed EXCEPT ![id] = Append(@, p)]
      BY <3>1, <3>2 DEF Process
    <3> QED
      BY <3>3, <3>4, <3>5
  <2>9. CASE ~ (Len(p) + 0 >= n)
    <3>1. Set(id, state[id], p, n, next) /\ processed' = processed
      BY <2>7, <2>9 DEF Append7, p, b
    <3>2. payload'[id] = p /\ total_length'[id] = n
      BY <1>0, <3>1 DEF Set, TypeOK
    <3>3. Spoilt(id, k)'
      BY <2>3, <2>5, <3>2 DEF Spoilt
    <3> QED
      BY <1>0, <2>4, <3>1, <3>2, <3>3
  <2> QED
    BY <2>8, <2>9
<1> QED
  BY <1>4, <1>5, <1>6

\* An id none of whose variables change keeps what it has.
LEMMA StaysWhole ==
    ASSUME NEW j, Delivers(j), number'[j] = number[j],
           message'[j] = message[j], frames'[j] = frames[j], damaged'[j] = damaged[j],
           intact'[j] = intact[j], state'[j] = state[j], payload'[j] = payload[j],
           total_length'[j] = total_length[j], sequence_number'[j] = sequence_number[j],
           processed'[j] = processed[j]
    PROVE  Delivers(j)'
<1>1. Latest(j)' /\ Sifted(intact[j], processed[j])'
  BY Zenon DEF Delivers, Latest
<1>2. \A k : Torn(j, k)' <=> Torn(j, k)
  BY Zenon DEF Torn, Spoilt
<1>3. Received(j)'
  BY <1>2, Zenon DEF Delivers, Received, Faithful
<1> QED
  BY <1>1, <1>3, Zenon DEF Delivers

\* The first byte of the k-th frame, k > 0, is the one that continues the message.
LEMMA NextFrame ==
    ASSUME NEW m \in Seq(Byte), NEW k \in Nat, k >= 1, Len(m) \in 8 .. 111, 7 * k <= Len(m),
           NEW c, m = Data(c, Len(m))
    PROVE  LET f == FrameNumber(m, k)
           IN  /\ f.pci = "consecutive" /\ f.seq = k /\ f.data[1] = <<c, 7 * k>>
               /\ f \in GoodFrames
               /\ SubSeq(m, 1, 7 * k - 1)[1] = <<c, 1>>
<1>0. Len(m) \in Nat /\ Len(m) > 7 /\ k % 16 = k
  BY NumbersFit, Zenon
<1>1. FrameNumber(m, k) = FrameOf("consecutive", 0, k, Chunk(m, 7 * k))
  BY <1>0 DEF FrameNumber
<1>2. Chunk(m, 7 * k)[1] = m[7 * k]
  BY <1>0 DEF Chunk
<1>3. 7 * k \in 1 .. Len(m) /\ 1 \in 1 .. Len(m) /\ 1 \in 1 .. 7 * k - 1 /\ 7 * k - 1 <= Len(m)
  BY <1>0
<1>4. m[7 * k] = <<c, 7 * k>> /\ m[1] = <<c, 1>>
  <2> DEFINE n == Len(m)
  <2>1. m = Data(c, n) /\ 7 * k \in 1 .. n /\ 1 \in 1 .. n
    BY <1>3
  <2> HIDE DEF n
  <2> QED
    BY <2>1, Zenon DEF Data
<1>5. SubSeq(m, 1, 7 * k - 1)[1] = m[1]
  BY <1>0, <1>3
<1>6. Len(m) \in 1 .. MaxLength
  <2>1. \A n \in 8 .. 111 : n \in 1 .. MaxLength
    BY DEF MaxLength
  <2> QED
    BY <2>1, Zenon
<1>7. FrameNumber(m, k) \in GoodFrames
  BY <1>6, FramesAreGood
<1> QED
  BY <1>1, <1>2, <1>4, <1>5, <1>7 DEF FrameOf

\* What is received after a loss stays torn, whatever the tester sends next.
LEMMA TornLater ==
    ASSUME NEW id \in UdsId, NEW h, NEW c \in Nat, NEW k \in Nat, sequence_number[id] \in Nat,
           Torn(id, h), h \in 1 .. number[id], number'[id] = c,
           state'[id] = state[id], payload'[id] = payload[id],
           total_length'[id] = total_length[id], sequence_number'[id] = sequence_number[id],
           \/ k = 0 /\ c = number[id] + 1
           \/ k > 0 /\ c = number[id] /\ k = frames[id] /\ frames'[id] \in {0, k + 1},
           number[id] \in Nat
    PROVE  h \in 1 .. c /\ Torn(id, h)'
<1>1. h \in 1 .. c
  OBVIOUS
<1>2. total_length'[id] \in 8 .. 111 /\ payload'[id][1] = <<h, 1>>
  BY DEF Torn
<1>3. CASE Spoilt(id, h)
  BY <1>1, <1>2, <1>3 DEF Torn, Spoilt
<1>4. CASE ~ Spoilt(id, h)
  <2>1. \/ h < number'[id] \/ frames'[id] = 0 \/ frames'[id] > sequence_number'[id]
    BY <1>4 DEF Torn
  <2> QED
    BY <1>1, <1>2, <2>1, Zenon DEF Torn
<1> QED
  BY <1>3, <1>4

LEMMA SendKeepsWhole ==
    ASSUME Inv, TesterInv, LinkTypes, \A j \in UdsId : Unfinished(j) /\ Delivers(j),
           NEW id \in UdsId, NEW m \in Seq(Byte), Len(m) \in 1 .. 111, m \in Messages,
           NEW k \in Nat, k = frames[id], k > 0 => m = message[id],
           NEW c \in Nat, c = number'[id],
           c = IF k = 0 THEN number[id] + 1 ELSE number[id],
           \A j \in UdsId \ {id} : number'[j] = number[j],
           k = 0 /\ Len(m) > 7 => c \in 1 .. MaxMessages /\ m = Data(c, Len(m)),
           NEW gone \in BOOLEAN, SendFrame(id, m, k, gone)
    PROVE  \A j \in UdsId : Delivers(j)'
<1> DEFINE last == k + 1 = FrameCount(m)
           f == FrameNumber(m, k)
<1>1. Transmit(id, f, gone)
  BY DEF SendFrame
<1>2. Unfinished(id) /\ Received(id) /\ Latest(id) /\ Sifted(intact[id], processed[id])
  BY DEF Delivers
<1>3. k > 0 => /\ Len(m) \in 8 .. 111 /\ 7 * k <= Len(m)
               /\ c \in 1 .. MaxMessages /\ m = Data(c, Len(m)) /\ k >= 1
  <2>1. SUFFICES ASSUME k > 0
                 PROVE  /\ Len(m) \in 8 .. 111 /\ 7 * k <= Len(m)
                        /\ c \in 1 .. MaxMessages /\ m = Data(c, Len(m))
    OBVIOUS
  <2>2. m = message[id] /\ frames[id] > 0 /\ c = number[id]
    BY <2>1
  <2> QED
    BY <1>2, <2>2, Zenon DEF Unfinished, Latest
<1>4. /\ message'[id] = IF last THEN << >> ELSE m
      /\ frames'[id] = IF last THEN 0 ELSE k + 1
      /\ damaged'[id] = ((gone \/ (k > 0 /\ damaged[id])) /\ ~ last)
      /\ intact' = IF last /\ ~ (gone \/ (k > 0 /\ damaged[id]))
                     THEN [intact EXCEPT ![id] = Append(@, m)] ELSE intact
  BY SendFields
<1>5. /\ number \in [UdsId -> Nat] /\ sequence_number[id] \in Nat
      /\ processed \in [UdsId -> Seq(Seq(Byte))] /\ intact \in [UdsId -> Seq(Seq(Byte))]
  <2>1. sequence_number[id] \in 0 .. 255 /\ \A n \in 0 .. 255 : n \in Nat
    BY DEF Inv, TypeOK
  <2> QED
    BY <2>1, Zenon DEF Inv, TypeOK, TesterInv, LinkTypes
<1>6. ASSUME NEW j \in UdsId \ {id}
      PROVE  Delivers(j)'
  <2>1. Delivers(j) /\ number'[j] = number[j]
    OBVIOUS
  <2>2. /\ message'[j] = message[j] /\ frames'[j] = frames[j]
        /\ damaged'[j] = damaged[j] /\ intact'[j] = intact[j]
    BY SendFields
  <2>3. /\ state'[j] = state[j] /\ payload'[j] = payload[j]
        /\ total_length'[j] = total_length[j]
        /\ sequence_number'[j] = sequence_number[j]
        /\ processed'[j] = processed[j]
    BY <1>1, TransmitFields
  <2> QED
    BY <2>1, <2>2, <2>3, StaysWhole, Zenon
<1>7. Latest(id)'
  <2>1. CASE last
    <3>1. ~ (frames'[id] > 0)
      BY <1>4, <2>1
    <3> QED
      BY <3>1, Zenon DEF Latest
  <2>2. CASE ~ last
    <3>1. c \in 1 .. MaxMessages /\ m = Data(c, Len(m))
      <4>1. CASE k = 0
        <5>1. Len(m) \in 8 .. 111
          BY <2>2, <4>1, OneFrame, Zenon
        <5> QED
          BY <4>1, <5>1, MessageLength, Zenon
      <4>2. CASE k > 0
        BY <1>3, <4>2, Zenon
      <4> QED
        BY <4>1, <4>2
    <3>2. message'[id] = m
      BY <1>4, <2>2, Zenon
    <3> QED
      BY <3>1, <3>2, Zenon DEF Latest
  <2> QED
    BY <2>1, <2>2
<1> SUFFICES Received(id)' /\ Sifted(intact[id], processed[id])'
  BY <1>6, <1>7, Zenon DEF Delivers
<1>8. frames'[id] \in {0, k + 1}
  BY <1>4
<1>9. CASE gone
  <2>1. intact' = intact /\ damaged'[id] = ~ last
    BY <1>4, <1>9, Zenon
  <2>2. /\ processed' = processed /\ state' = state /\ payload' = payload
        /\ total_length' = total_length /\ sequence_number' = sequence_number
    BY <1>1, <1>9 DEF Transmit, pluginVars, reception
  <2>3. Sifted(intact[id], processed[id])'
    BY <1>2, <2>1, <2>2, Zenon
  <2>4. ~ (frames'[id] > 0 /\ ~ damaged'[id])
    <3>1. ~ (0 > 0)
      OBVIOUS
    <3> QED
      BY <1>4, <2>1, <3>1, Zenon
  <2>5. ASSUME state[id] = "RECEIVING_MULTIFRAME"
        PROVE  \E h \in 1 .. c : Torn(id, h)'
    <3>1. CASE ~ (frames[id] > 0 /\ ~ damaged[id])
      <4>1. PICK h \in 1 .. number[id] : Torn(id, h)
        BY <1>2, <2>5, <3>1, Zenon DEF Received
      <4>2. \/ k = 0 /\ c = number[id] + 1
            \/ k > 0 /\ c = number[id] /\ k = frames[id] /\ frames'[id] \in {0, k + 1}
        BY <1>8
      <4>3. h \in 1 .. c /\ Torn(id, h)'
        BY <1>5, <2>2, <4>1, <4>2, TornLater
      <4> QED
        BY <4>3
    <3>2. CASE frames[id] > 0 /\ ~ damaged[id]
      <4>1. Faithful(id) /\ k > 0
        BY <1>2, <3>2, Zenon DEF Received
      <4>2. /\ total_length[id] = Len(m) /\ sequence_number[id] = k
            /\ payload[id] = SubSeq(m, 1, 7 * k - 1)
        BY <4>1, Zenon DEF Faithful
      <4>3. payload'[id][1] = <<c, 1>> /\ total_length'[id] \in 8 .. 111
        BY <1>3, <2>2, <4>1, <4>2, NextFrame
      <4>4. frames'[id] = 0 \/ frames'[id] > sequence_number'[id]
        BY <1>8, <2>2, <4>2
      <4>5. Torn(id, c)'
        BY <4>3, <4>4, Zenon DEF Torn
      <4>6. c \in 1 .. c
        BY <1>3, <4>1
      <4> QED
        BY <4>5, <4>6
    <3> QED
      BY <3>1, <3>2
  <2>6. Received(id)'
    BY <2>2, <2>4, <2>5, Zenon DEF Received
  <2> QED
    BY <2>3, <2>6
<1>10. CASE ~ gone
  <2>1. Handle(id, f)
    BY <1>1, <1>10 DEF Transmit
  <2>2. CASE k = 0 /\ Len(m) \in 1 .. 7
    <3>1. last
      BY <2>2, OneFrame, Zenon DEF last
    <3>2. state'[id] = "COMPLETE" /\ processed' = [processed EXCEPT ![id] = Append(@, m)]
      BY <2>1, <2>2, SingleHandled
    <3>3. intact' = [intact EXCEPT ![id] = Append(@, m)] /\ frames'[id] = 0
      BY <1>4, <1>10, <2>2, <3>1
    <3>4. Sifted(intact[id], processed[id])'
      BY <1>2, <1>5, <3>2, <3>3, SiftedMessage
    <3>5. Received(id)'
      BY <3>2, <3>3 DEF Received
    <3> QED
      BY <3>4, <3>5
  <2>3. CASE k = 0 /\ Len(m) \in 8 .. 111
    <3>1. ~ last
      <4>1. \A n \in 8 .. 111 : n \notin 1 .. 7
        OBVIOUS
      <4> QED
        BY <2>3, <4>1, OneFrame, Zenon DEF last
    <3>2. Len(m) > 7
      BY <2>3, MessageLength, Zenon
    <3>3. /\ state'[id] = "RECEIVING_MULTIFRAME"
          /\ total_length'[id] = Len(m)
          /\ sequence_number'[id] = 1
          /\ payload'[id] = SubSeq(m, 1, 6)
          /\ processed' = processed
      BY <2>1, <2>3, <3>2, FirstHandled
    <3>4. /\ intact' = intact /\ frames'[id] = 1 /\ message'[id] = m
          /\ damaged'[id] = FALSE
      BY <1>4, <1>10, <2>3, <3>1
    <3>5. 7 * 1 - 1 = 6
      OBVIOUS
    <3>6. Received(id)'
      BY <3>3, <3>4, <3>5 DEF Received, Faithful
    <3> QED
      BY <1>2, <3>3, <3>4, <3>6
  <2>4. CASE k > 0 /\ ~ damaged[id]
    <3>1. state[id] = "RECEIVING_MULTIFRAME" /\ Faithful(id)
      BY <1>2, <2>4, Zenon DEF Received
    <3>2. /\ total_length[id] = Len(m) /\ sequence_number[id] = k
          /\ payload[id] = SubSeq(m, 1, 7 * k - 1)
      BY <2>4, <3>1, Zenon DEF Faithful
    <3>3. IF last
            THEN /\ state'[id] = "COMPLETE"
                 /\ processed' = [processed EXCEPT ![id] = Append(@, m)]
            ELSE /\ state'[id] = "RECEIVING_MULTIFRAME"
                 /\ total_length'[id] = Len(m)
                 /\ sequence_number'[id] = k + 1
                 /\ payload'[id] = SubSeq(m, 1, 7 * (k + 1) - 1)
                 /\ processed' = processed
      BY <1>3, <2>1, <2>4, <3>1, <3>2, NextHandled DEF last
    <3>4. CASE last
      <4>1. intact' = [intact EXCEPT ![id] = Append(@, m)] /\ frames'[id] = 0
        BY <1>4, <1>10, <2>4, <3>4, Zenon
      <4>2. Sifted(intact[id], processed[id])'
        <5>1. processed' = [processed EXCEPT ![id] = Append(@, m)]
          BY <3>3, <3>4, Zenon
        <5>2. /\ processed'[id] = Append(processed[id], m)
              /\ intact'[id] = Append(intact[id], m)
          BY <1>5, <4>1, <5>1
        <5> QED
          BY <1>2, <1>5, <5>2, SiftedMessage
      <4>3. Received(id)'
        BY <3>3, <3>4, <4>1 DEF Received
      <4> QED
        BY <4>2, <4>3
    <3>5. CASE ~ last
      <4>1. /\ intact' = intact /\ frames'[id] = k + 1 /\ message'[id] = m
            /\ damaged'[id] = FALSE
        BY <1>4, <1>10, <2>4, <3>5, Zenon
      <4>2. k + 1 > 0
        OBVIOUS
      <4>3. Received(id)'
        BY <3>3, <3>5, <4>1, <4>2 DEF Received, Faithful
      <4> QED
        BY <1>2, <3>3, <3>5, <4>1, <4>3
    <3> QED
      BY <3>4, <3>5
  <2>5. CASE k > 0 /\ damaged[id]
    <3>1. intact' = intact /\ damaged'[id] = ~ last
      BY <1>4, <2>5, Zenon
    <3>2. ~ (frames'[id] > 0 /\ ~ damaged'[id])
      <4>1. ~ (0 > 0)
        OBVIOUS
      <4> QED
        BY <1>4, <3>1, <4>1, Zenon
    <3>3. /\ f.pci = "consecutive" /\ f.seq = k /\ f.data[1] = <<c, 7 * k>>
          /\ f \in GoodFrames
      BY <1>3, <2>5, NextFrame
    <3> HIDE DEF f
    <3>4. CASE state[id] # "RECEIVING_MULTIFRAME"
      <4>1. Ignored(id, f)
        BY <2>1, <3>3, <3>4
           DEF Handle, SingleFrame, FirstFrame, SequenceMismatch, ConsecutiveFrame, Awaited
      <4>2. state' = state /\ processed' = processed
        BY <4>1 DEF Ignored, pluginVars, reception
      <4>3. Received(id)'
        BY <3>2, <3>4, <4>2, Zenon DEF Received
      <4> QED
        BY <1>2, <3>1, <4>2, <4>3
    <3>5. CASE state[id] = "RECEIVING_MULTIFRAME"
      <4>1. PICK h \in 1 .. number[id] : Torn(id, h)
        BY <1>2, <2>5, <3>5, Zenon DEF Received
      <4>2. \/ Spoilt(id, h)
            \/ f.seq = sequence_number[id] => f.data[1] # <<h, 7 * sequence_number[id]>>
        <5>1. h < c \/ k > sequence_number[id] \/ Spoilt(id, h)
          BY <2>5, <4>1 DEF Torn
        <5>2. h < c => <<c, 7 * k>> # <<h, 7 * sequence_number[id]>>
          BY <4>1, <1>5
        <5>3. k > sequence_number[id] => k # sequence_number[id]
          BY <1>5
        <5> QED
          BY <3>3, <5>1, <5>2, <5>3, Zenon
      <4>3. total_length[id] \in 8 .. 111 /\ payload[id][1] = <<h, 1>>
        BY <4>1, Zenon DEF Torn
      <4>4. /\ state'[id] = "RECEIVING_MULTIFRAME" =>
                 /\ total_length'[id] \in 8 .. 111
                 /\ payload'[id][1] = <<h, 1>>
                 /\ Spoilt(id, h)'
            /\ \/ processed' = processed
               \/ \E p \in Seq(Byte) \ Messages :
                     processed' = [processed EXCEPT ![id] = Append(@, p)]
        BY <2>1, <3>3, <3>5, <4>2, <4>3, TornHandled
      <4>5. h \in 1 .. number'[id]
        BY <2>5, <4>1
      <4>6. Received(id)'
        BY <3>2, <4>4, <4>5, Zenon DEF Received, Torn
      <4>7. Sifted(intact[id], processed[id])'
        <5>1. CASE processed' = processed
          BY <1>2, <3>1, <5>1, Zenon
        <5>2. ASSUME NEW p \in Seq(Byte) \ Messages,
                     processed' = [processed EXCEPT ![id] = Append(@, p)]
              PROVE  Sifted(intact[id], processed[id])'
          BY <1>2, <1>5, <3>1, <5>2, SiftedOther
        <5> QED
          BY <4>4, <5>1, <5>2
      <4> QED
        BY <4>6, <4>7
    <3> QED
      BY <3>4, <3>5
  <2>6. k > 0 \/ (k = 0 /\ (Len(m) \in 1 .. 7 \/ Len(m) \in 8 .. 111))
    <3>1. k > 0 \/ k = 0
      OBVIOUS
    <3> QED
      BY <3>1, OneFrame, Zenon
  <2> QED
    BY <2>2, <2>3, <2>4, <2>5, <2>6
<1> QED
  BY <1>9, <1>10

\* The byte that a raw request brings continues no message.
LEMMA SeedIsNoData ==
    ASSUME NEW h \in 1 .. MaxMessages, NEW i \in 1 .. MaxLength
    PROVE  RawRequest.data[1] # <<h, i>>
<1>1. RawRequest.data[1] = RequestSeed
  BY DEF RawRequest, FrameOf, Chunk
<1>2. <<h, i>> \in (1 .. MaxMessages) \X (1 .. MaxLength)
  BY Zenon
<1> QED
  BY <1>1, <1>2, DataAssumption

LEMMA RawKeepsWhole ==
    ASSUME Inv, TesterInv, LinkTypes, \A j \in UdsId : Delivers(j),
           NEW id \in UdsId, NEW gone \in BOOLEAN, SendRawRequest(id, gone)
    PROVE  \A j \in UdsId : Delivers(j)'
<1>1. /\ Transmit(id, RawRequest, gone) /\ frames[id] = 0
      /\ UNCHANGED <<message, frames, damaged, intact>>
      /\ number' = [number EXCEPT ![id] = @ + 1] /\ number[id] < MaxMessages
  BY DEF SendRawRequest, Begin
<1>2. /\ number \in [UdsId -> Nat] /\ sequence_number[id] \in Nat
      /\ processed \in [UdsId -> Seq(Seq(Byte))] /\ intact \in [UdsId -> Seq(Seq(Byte))]
  <2>1. sequence_number[id] \in 0 .. 255 /\ \A n \in 0 .. 255 : n \in Nat
    BY DEF Inv, TypeOK
  <2> QED
    BY <2>1, Zenon DEF Inv, TypeOK, TesterInv, LinkTypes
<1>3. number'[id] = number[id] + 1 /\ \A j \in UdsId \ {id} : number'[j] = number[j]
  BY <1>1, <1>2
<1>4. ASSUME NEW j \in UdsId \ {id}
      PROVE  Delivers(j)'
  <2>1. /\ state'[j] = state[j] /\ payload'[j] = payload[j]
        /\ total_length'[j] = total_length[j]
        /\ sequence_number'[j] = sequence_number[j]
        /\ processed'[j] = processed[j]
    BY <1>1, TransmitFields
  <2> QED
    BY <1>1, <1>3, <2>1, StaysWhole
<1>5. Received(id) /\ Sifted(intact[id], processed[id])
  BY DEF Delivers
<1>6. ~ (frames[id] > 0) /\ ~ (frames'[id] > 0) /\ frames'[id] = 0 /\ intact' = intact
  BY <1>1
<1>7. Latest(id)'
  BY <1>6, Zenon DEF Latest
<1>8. ASSUME state[id] = "RECEIVING_MULTIFRAME"
      PROVE  \E h \in 1 .. number[id] : Torn(id, h)
  BY <1>5, <1>6, <1>8, Zenon DEF Received
<1>9. Received(id)' /\ Sifted(intact[id], processed[id])'
  <2>1. CASE gone
    <3>1. /\ processed' = processed /\ state' = state /\ payload' = payload
          /\ total_length' = total_length /\ sequence_number' = sequence_number
      BY <1>1, <2>1 DEF Transmit, pluginVars, reception
    <3>2. ASSUME state[id] = "RECEIVING_MULTIFRAME"
          PROVE  \E h \in 1 .. number'[id] : Torn(id, h)'
      <4>1. PICK h \in 1 .. number[id] : Torn(id, h)
        BY <1>8, <3>2
      <4>2. number[id] \in Nat /\ number'[id] \in Nat /\ 0 \in Nat
        BY <1>2, <1>3
      <4>3. h \in 1 .. number'[id] /\ Torn(id, h)'
        BY <1>2, <1>3, <3>1, <4>1, <4>2, TornLater
      <4> QED
        BY <4>3
    <3> QED
      BY <1>5, <1>6, <3>1, <3>2, Zenon DEF Received
  <2>2. CASE ~ gone
    <3>1. Handle(id, RawRequest) /\ RawRequest \in GoodFrames
      BY <1>1, <2>2, RawIsGood DEF Transmit
    <3>2. RawRequest.pci = "consecutive"
      BY DEF RawRequest, FrameOf
    <3>3. CASE state[id] # "RECEIVING_MULTIFRAME"
      <4>1. Ignored(id, RawRequest)
        BY <3>1, <3>2, <3>3
           DEF Handle, SingleFrame, FirstFrame, SequenceMismatch, ConsecutiveFrame, Awaited
      <4>2. state' = state /\ processed' = processed
        BY <4>1 DEF Ignored, pluginVars, reception
      <4> QED
        BY <1>5, <1>6, <3>3, <4>2, Zenon DEF Received
    <3>4. CASE state[id] = "RECEIVING_MULTIFRAME"
      <4>1. PICK h \in 1 .. number[id] : Torn(id, h)
        BY <1>8, <3>4
      <4>2. h \in 1 .. MaxMessages /\ h \in 1 .. number'[id]
        BY <1>1, <1>2, <1>3, <4>1, LinkAssumption
      <4>3. 7 * sequence_number[id] \in 1 .. MaxLength
        <5>1. sequence_number[id] \in 1 .. 16
          BY <3>4 DEF Inv, ReceptionTracked
        <5>2. \A n \in 1 .. 16 : 7 * n \in 1 .. MaxLength
          BY DEF MaxLength
        <5> QED
          BY <5>1, <5>2, Zenon
      <4>4. RawRequest.data[1] # <<h, 7 * sequence_number[id]>>
        BY <4>2, <4>3, SeedIsNoData, Zenon
      <4>5. total_length[id] \in 8 .. 111 /\ payload[id][1] = <<h, 1>>
        BY <4>1, Zenon DEF Torn
      <4>6. /\ state'[id] = "RECEIVING_MULTIFRAME" =>
                 /\ total_length'[id] \in 8 .. 111
                 /\ payload'[id][1] = <<h, 1>>
                 /\ Spoilt(id, h)'
            /\ \/ processed' = processed
               \/ \E p \in Seq(Byte) \ Messages :
                     processed' = [processed EXCEPT ![id] = Append(@, p)]
        BY <3>1, <3>2, <3>4, <4>4, <4>5, TornHandled
      <4>7. Received(id)'
        BY <1>6, <4>2, <4>6, Zenon DEF Received, Torn
      <4>8. Sifted(intact[id], processed[id])'
        <5>1. CASE processed' = processed
          BY <1>5, <1>6, <5>1, Zenon
        <5>2. ASSUME NEW p \in Seq(Byte) \ Messages,
                     processed' = [processed EXCEPT ![id] = Append(@, p)]
              PROVE  Sifted(intact[id], processed[id])'
          BY <1>2, <1>5, <1>6, <5>2, SiftedOther
        <5> QED
          BY <4>6, <5>1, <5>2
      <4> QED
        BY <4>7, <4>8
    <3> QED
      BY <3>3, <3>4
  <2> QED
    BY <2>1, <2>2
<1> QED
  BY <1>4, <1>7, <1>9, Zenon DEF Delivers

\* The first frame of a message, with what SendKeepsWhole asks of it.
LEMMA BeginKeepsWhole ==
    ASSUME Inv, TesterInv, LinkTypes, \A j \in UdsId : Unfinished(j) /\ Delivers(j),
           NEW id \in UdsId, NEW m \in Seq(Byte), Len(m) \in 1 .. 111, m \in Messages,
           frames[id] = 0, number \in [UdsId -> Nat],
           number' = [number EXCEPT ![id] = @ + 1],
           Len(m) > 7 => number[id] + 1 \in 1 .. MaxMessages
                         /\ m = Data(number[id] + 1, Len(m)),
           NEW gone \in BOOLEAN, SendFrame(id, m, 0, gone)
    PROVE  \A j \in UdsId : Delivers(j)'
<1> DEFINE k == 0
           c == number[id] + 1
<1>1. c \in Nat /\ c = number'[id] /\ \A j \in UdsId \ {id} : number'[j] = number[j]
  OBVIOUS
<1>2. k \in Nat /\ k = frames[id] /\ ~ (k > 0) /\ k = 0
  OBVIOUS
<1>3. c = IF k = 0 THEN number[id] + 1 ELSE number[id]
  OBVIOUS
<1>4. SendFrame(id, m, k, gone) /\ (Len(m) > 7 => c \in 1 .. MaxMessages /\ m = Data(c, Len(m)))
  OBVIOUS
<1> HIDE DEF k, c
<1>5. k > 0 => m = message[id]
  BY <1>2
<1>6. k = 0 /\ Len(m) > 7 => c \in 1 .. MaxMessages /\ m = Data(c, Len(m))
  BY <1>4
<1> QED
  BY <1>1, <1>2, <1>3, <1>4, <1>5, <1>6, SendKeepsWhole, Zenon

LEMMA SendsWhole ==
    ASSUME MessagesFit, WholeInv, LinkNext
    PROVE  \A j \in UdsId : Delivers(j)'
<1>0. /\ Inv /\ TesterInv /\ LinkTypes
      /\ \A j \in UdsId : Unfinished(j) /\ Delivers(j)
      /\ number \in [UdsId -> Nat]
  BY DEF WholeInv, StepInv, LinkInv, TesterInv
<1>1. ASSUME NEW id \in UdsId, NEW gone \in BOOLEAN, NEW n \in Lengths, SendData(id, n, gone)
      PROVE  \A j \in UdsId : Delivers(j)'
  <2> DEFINE c == number[id] + 1
             m == Data(c, n)
  <2>1. /\ c \in 1 .. MaxMessages /\ c \in Nat
        /\ number' = [number EXCEPT ![id] = @ + 1]
    BY <1>0, <1>1, LinkAssumption DEF SendData, Begin
  <2>2. n \in 1 .. MaxLength /\ n \in 1 .. 111
    BY LinkAssumption DEF MessagesFit
  <2>3. m \in Seq(Byte) /\ Len(m) = n /\ m \in Messages
    BY <2>1, <2>2, DataIsBytes DEF Messages
  <2>4. SendFrame(id, m, 0, gone) /\ frames[id] = 0
    BY <1>1 DEF SendData, Begin
  <2>5. Len(m) > 7 => c \in 1 .. MaxMessages /\ m = Data(c, Len(m))
    BY <2>1, <2>3
  <2>6. Len(m) \in 1 .. 111
    BY <2>2, <2>3, Zenon
  <2> HIDE DEF m
  <2> QED
    BY <1>0, <2>1, <2>3, <2>4, <2>5, <2>6, BeginKeepsWhole, Zenon
<1>2. ASSUME NEW id \in UdsId, NEW gone \in BOOLEAN, SendRequest(id, gone)
      PROVE  \A j \in UdsId : Delivers(j)'
  <2>1. number' = [number EXCEPT ![id] = @ + 1]
    BY <1>0, <1>2 DEF SendRequest, Begin
  <2>2. Request \in Seq(Byte) /\ Len(Request) = 2 /\ Request \in Messages
    BY RequestIsBytes DEF Messages
  <2>3. SendFrame(id, Request, 0, gone) /\ frames[id] = 0
    BY <1>2 DEF SendRequest, Begin
  <2>4. ~ (2 > 7) /\ 2 \in 1 .. 111
    OBVIOUS
  <2>5. ~ (Len(Request) > 7) /\ Len(Request) \in 1 .. 111
    BY <2>2, <2>4, Zenon
  <2> QED
    BY <1>0, <2>1, <2>2, <2>3, <2>5, BeginKeepsWhole, Zenon
<1>3. ASSUME NEW id \in UdsId, NEW gone \in BOOLEAN, SendRawRequest(id, gone)
      PROVE  \A j \in UdsId : Delivers(j)'
  BY <1>0, <1>3, RawKeepsWhole
<1>4. ASSUME NEW id \in UdsId, NEW gone \in BOOLEAN, SendNext(id, gone)
      PROVE  \A j \in UdsId : Delivers(j)'
  <2> DEFINE m == message[id]
             k == frames[id]
             c == number[id]
  <2>1. m \in Seq(Byte) /\ k \in Nat /\ k > 0 /\ k # 0 /\ c \in Nat
    BY <1>0, <1>4 DEF SendNext, TesterInv
  <2>2. Len(m) \in 8 .. 111
    BY <1>0, <2>1 DEF Unfinished
  <2>3. \A n \in 8 .. 111 : n \in 1 .. 111 /\ n \in 1 .. MaxLength
    BY DEF MaxLength
  <2>4. SendFrame(id, m, k, gone) /\ number' = number
    BY <1>4 DEF SendNext
  <2>5. Len(m) \in 1 .. 111 /\ Len(m) \in 1 .. MaxLength
    BY <2>2, <2>3, Zenon
  <2>6. c \in 1 .. MaxMessages /\ m = Data(c, Len(m))
    <3>1. Latest(id) /\ frames[id] > 0
      BY <1>0, <2>1 DEF Delivers
    <3> QED
      BY <3>1, Zenon DEF Latest
  <2>7. m \in Messages
    <3> HIDE DEF m, c
    <3>1. Data(c, Len(m)) \in Messages
      BY <2>5, <2>6 DEF Messages
    <3> QED
      BY <2>6, <3>1
  <2>8. /\ k = frames[id] /\ (k > 0 => m = message[id]) /\ c = number'[id]
        /\ \A j \in UdsId \ {id} : number'[j] = number[j]
    BY <2>4
  <2>9. c = IF k = 0 THEN number[id] + 1 ELSE number[id]
    BY <2>1
  <2> HIDE DEF m, k, c
  <2> QED
    BY <1>0, <2>1, <2>4, <2>5, <2>6, <2>7, <2>8, <2>9, SendKeepsWhole
<1> QED
  BY <1>1, <1>2, <1>3, <1>4 DEF LinkNext

LEMMA WholeInductive ==
    ASSUME MessagesFit, WholeInv, [LinkNext]_linkVars
    PROVE  WholeInv'
<1>1. StepInv'
  BY StepInductive DEF WholeInv
<1>2. CASE LinkNext
  BY <1>1, <1>2, SendsWhole DEF WholeInv
<1>3. CASE UNCHANGED linkVars
  <2>1. ASSUME NEW j \in UdsId
        PROVE  Delivers(j)'
    <3>1. Delivers(j)
      BY DEF WholeInv
    <3> QED
      BY <1>3, <3>1, StaysWhole DEF linkVars, testerVars, pluginVars, reception
  <2> QED
    BY <1>1, <2>1 DEF WholeInv
<1> QED
  BY <1>2, <1>3

LEMMA WholeStarts == LinkInit => WholeInv
<1>1. SUFFICES ASSUME LinkInit, NEW id \in UdsId
               PROVE  Delivers(id)
  BY StepStarts DEF WholeInv
<1>2. /\ ~ (frames[id] > 0) /\ state[id] # "RECEIVING_MULTIFRAME"
      /\ processed[id] = << >> /\ intact[id] = << >>
  BY <1>1 DEF LinkInit, Init
<1>3. Sifted(<< >>, << >>)
  <2>1. DOMAIN << >> = {}
    OBVIOUS
  <2>2. << >> \in [{} -> {}]
    OBVIOUS
  <2> QED
    BY <2>1, <2>2 DEF Sifted, Places
<1> QED
  BY <1>2, <1>3, Zenon DEF Delivers, Received, Latest

\* If every message fits fifteen consecutive frames, then for any losses, before
\* it, in between and after it, and any raw requests, a message sent whole is
\* processed, once and in its order: damage never spreads to the next message.
THEOREM ProcessesIntact ==
    ASSUME MessagesFit
    PROVE  LinkSpec => []IntactIsProcessed
<1>1. WholeInv => IntactIsProcessed
  <2>1. WholeInv => \A id \in UdsId : Sifted(intact[id], processed[id])
    BY Zenon DEF WholeInv, Delivers
  <2> QED
    BY <2>1, SiftedIsProcessed DEF IntactIsProcessed
<1>2. WholeInv /\ [LinkNext]_linkVars => WholeInv'
  BY WholeInductive
<1> QED
  BY <1>1, <1>2, WholeStarts, PTL DEF LinkSpec
-----------------------------------------------------------------------------
(***************************************************************************)
(* What a payload put together from several messages looks like.           *)
(***************************************************************************)

InPlace(p, messages, raws) == \A j \in DOMAIN p : InItsPlace(p[j], j, messages, raws)

Placed(id) ==
    /\ state[id] = "RECEIVING_MULTIFRAME" =>
           total_length[id] \in 8 .. 111 /\ InPlace(payload[id], number[id], raw[id])
    /\ \A i \in DOMAIN processed[id] :
           processed[id][i] # Request => InPlace(processed[id][i], number[id], raw[id])

SpliceInv == WholeInv /\ \A id \in UdsId : Placed(id)

\* More messages and raw requests make no byte misplaced.
LEMMA PlacesKept ==
    ASSUME NEW c \in Nat, NEW d \in Nat, c <= d, NEW r \in Nat, NEW s \in Nat, r <= s,
           NEW p, InPlace(p, c, r)
    PROVE  InPlace(p, d, s)
<1>1. \A k \in 1 .. c : k \in 1 .. d
  OBVIOUS
<1>2. r > 0 => s > 0
  OBVIOUS
<1> QED
  BY <1>1, <1>2 DEF InPlace, InItsPlace

\* A message, and the beginning of one, has its bytes where they belong.
LEMMA DataInPlace ==
    ASSUME NEW c \in Nat, c >= 1, NEW r \in Nat, NEW n \in Nat, NEW l \in Nat, l <= n
    PROVE  InPlace(SubSeq(Data(c, n), 1, l), c, r) /\ InPlace(Data(c, n), c, r)
<1>1. c \in 1 .. c
  OBVIOUS
<1>2. \A j \in 1 .. n : InItsPlace(Data(c, n)[j], j, c, r)
  BY <1>1 DEF InItsPlace, Data
<1>3. DOMAIN Data(c, n) = 1 .. n
  BY DEF Data
<1>4. /\ DOMAIN SubSeq(Data(c, n), 1, l) = 1 .. l
      /\ \A j \in 1 .. l : j \in 1 .. n /\ SubSeq(Data(c, n), 1, l)[j] = Data(c, n)[j]
  <2>1. Data(c, n) \in Seq({c} \X (1 .. n)) /\ Len(Data(c, n)) = n
    BY DEF Data
  <2> QED
    BY <2>1
<1> QED
  BY <1>2, <1>3, <1>4, Zenon DEF InPlace

\* A consecutive frame all of whose bytes may stand where its number puts them.
FitsIn(f, messages, raws) ==
    \A i \in 1 .. 7 : InItsPlace(f.data[i], 7 * f.seq + i - 1, messages, raws)

\* Only the first of a frame's seven bytes stands at a multiple of seven.
LEMMA FrameBegins ==
    ASSUME NEW k \in Nat, NEW i \in 2 .. 7
    PROVE  (7 * k + i - 1) % 7 # 0
OBVIOUS

\* That is so of the frames of a message that fits, padding included,
LEMMA NextFitsIn ==
    ASSUME NEW m \in Seq(Byte), NEW k \in Nat, k >= 1, Len(m) \in 8 .. 111, 7 * k <= Len(m),
           NEW c \in Nat, c >= 1, m = Data(c, Len(m)), NEW r \in Nat
    PROVE  FitsIn(FrameNumber(m, k), c, r)
<1>1. FrameNumber(m, k).seq = k
  BY NextFrame
<1>2. FrameNumber(m, k).data = Chunk(m, 7 * k)
  <2>1. Len(m) > 7 /\ Len(m) \in Nat
    BY MessageLength, Zenon
  <2> QED
    BY <2>1 DEF FrameNumber, FrameOf
<1>3. ASSUME NEW i \in 1 .. 7
      PROVE  InItsPlace(Chunk(m, 7 * k)[i], 7 * k + i - 1, c, r)
  <2>1. CASE 7 * k + i - 1 <= Len(m)
    <3>1. Chunk(m, 7 * k)[i] = m[7 * k + i - 1]
      BY <2>1 DEF Chunk
    <3>2. 7 * k + i - 1 \in 1 .. Len(m)
      BY <2>1
    <3>3. m[7 * k + i - 1] = <<c, 7 * k + i - 1>>
      <4> DEFINE n == Len(m)
                 j == 7 * k + i - 1
      <4>1. m = Data(c, n) /\ j \in 1 .. n
        BY <3>2
      <4> HIDE DEF n, j
      <4>2. m[j] = <<c, j>>
        BY <4>1, Zenon DEF Data
      <4> QED
        BY <4>2 DEF j
    <3>4. c \in 1 .. c
      OBVIOUS
    <3> QED
      BY <3>1, <3>3, <3>4 DEF InItsPlace
  <2>2. CASE ~ (7 * k + i - 1 <= Len(m))
    <3>1. Chunk(m, 7 * k)[i] = Pad
      BY <2>2 DEF Chunk
    <3>2. 7 * k + i - 1 > 8 /\ i \in 2 .. 7
      <4> DEFINE n == Len(m)
      <4>1. n \in 8 .. 111 /\ 7 * k <= n /\ ~ (7 * k + i - 1 <= n)
        BY <2>2
      <4> HIDE DEF n
      <4> QED
        BY <4>1
    <3>3. (7 * k + i - 1) % 7 # 0
      BY <3>2, FrameBegins
    <3> QED
      BY <3>1, <3>2, <3>3 DEF InItsPlace
  <2> QED
    BY <2>1, <2>2
<1> QED
  BY <1>1, <1>2, <1>3 DEF FitsIn

\* and of a raw request.
LEMMA RawFitsIn ==
    ASSUME NEW c \in Nat, NEW r \in Nat, r > 0
    PROVE  FitsIn(RawRequest, c, r)
<1>1. RawRequest.seq = 7 /\ RawRequest.data = Chunk(<<RequestSeed>>, 1)
  BY DEF RawRequest, FrameOf
<1>2. ASSUME NEW i \in 1 .. 7
      PROVE  InItsPlace(Chunk(<<RequestSeed>>, 1)[i], 7 * 7 + i - 1, c, r)
  <2>1. CASE i = 1
    <3>1. Chunk(<<RequestSeed>>, 1)[i] = RequestSeed
      BY <2>1 DEF Chunk
    <3> QED
      BY <2>1, <3>1 DEF InItsPlace
  <2>2. CASE i # 1
    <3>1. Chunk(<<RequestSeed>>, 1)[i] = Pad
      BY <2>2 DEF Chunk
    <3>2. 7 * 7 + i - 1 > 8 /\ i \in 2 .. 7 /\ 7 \in Nat
      BY <2>2
    <3>3. (7 * 7 + i - 1) % 7 # 0
      BY <3>2, FrameBegins
    <3> QED
      BY <3>1, <3>2, <3>3 DEF InItsPlace
  <2> QED
    BY <2>1, <2>2
<1> QED
  BY <1>1, <1>2 DEF FitsIn

\* A payload that is processed joins those that are in place.
LEMMA OneMorePlaced ==
    ASSUME NEW s \in Seq(Seq(Byte)), NEW p \in Seq(Byte), NEW c, NEW r,
           \A i \in DOMAIN s : s[i] # Request => InPlace(s[i], c, r),
           p # Request => InPlace(p, c, r)
    PROVE  \A i \in DOMAIN Append(s, p) :
               Append(s, p)[i] # Request => InPlace(Append(s, p)[i], c, r)
<1>1. /\ DOMAIN Append(s, p) = 1 .. Len(s) + 1 /\ DOMAIN s = 1 .. Len(s) /\ Len(s) \in Nat
      /\ \A i \in 1 .. Len(s) : Append(s, p)[i] = s[i]
      /\ Append(s, p)[Len(s) + 1] = p
  OBVIOUS
<1>2. \A i \in 1 .. Len(s) + 1 : i \in 1 .. Len(s) \/ i = Len(s) + 1
  BY <1>1
<1> QED
  BY <1>1, <1>2, Zenon

\* Where the bytes of two sequences are in the joined one.
LEMMA TwoJoined ==
    ASSUME NEW a \in Seq(Byte), NEW b \in Seq(Byte)
    PROVE  /\ (a \o b) \in Seq(Byte) /\ Len(a \o b) = Len(a) + Len(b)
           /\ DOMAIN (a \o b) = 1 .. Len(a) + Len(b)
           /\ \A i \in 1 .. Len(a) : (a \o b)[i] = a[i]
           /\ \A i \in 1 .. Len(b) : (a \o b)[Len(a) + i] = b[i]
<1>1. (a \o b) \in Seq(Byte) /\ Len(a \o b) = Len(a) + Len(b)
  OBVIOUS
<1>2. DOMAIN (a \o b) = 1 .. Len(a) + Len(b)
  BY <1>1
<1>3. \A i \in 1 .. Len(a) : (a \o b)[i] = a[i]
  OBVIOUS
<1>4. \A i \in 1 .. Len(b) : (a \o b)[Len(a) + i] = b[i]
  OBVIOUS
<1> QED
  BY <1>1, <1>2, <1>3, <1>4

\* An id whose reception and payloads do not change stays placed.
LEMMA StaysPlaced ==
    ASSUME NEW j, Placed(j),
           number[j] \in Nat, number'[j] \in Nat, number[j] <= number'[j],
           raw[j] \in Nat, raw'[j] \in Nat, raw[j] <= raw'[j],
           state'[j] = state[j], payload'[j] = payload[j],
           total_length'[j] = total_length[j], processed'[j] = processed[j]
    PROVE  Placed(j)'
<1>1. \A p : InPlace(p, number[j], raw[j]) => InPlace(p, number'[j], raw'[j])
  BY PlacesKept
<1> QED
  BY <1>1, Zenon DEF Placed

\* A frame that fits in, be it of the same message, of another or a raw request,
\* is ignored, ends the reception or continues it in place.
LEMMA FitsHandled ==
    ASSUME Inv, NEW id \in UdsId, Placed(id),
           number[id] \in Nat, number'[id] \in Nat, number[id] <= number'[id],
           raw[id] \in Nat, raw'[id] \in Nat, raw[id] <= raw'[id],
           NEW f \in GoodFrames, f.pci = "consecutive",
           FitsIn(f, number'[id], raw'[id]), Handle(id, f)
    PROVE  Placed(id)'
<1> DEFINE c == number'[id]
           r == raw'[id]
           n == total_length[id]
           q == sequence_number[id]
           l == Len(payload[id])
           t == Taken(id)
           b == Bytes(f, t)
           p == payload[id] \o b
<1>0. /\ TypeOK /\ f \in Frames /\ payload[id] \in Seq(Byte)
      /\ processed[id] \in Seq(Seq(Byte)) /\ DOMAIN processed = UdsId
  BY DEF Inv, GoodFrames, TypeOK
<1>1. \A s : InPlace(s, number[id], raw[id]) => InPlace(s, c, r)
  BY PlacesKept
<1> HIDE DEF c, r
<1>2. /\ state[id] = "RECEIVING_MULTIFRAME" => n \in 8 .. 111 /\ InPlace(payload[id], c, r)
      /\ \A i \in DOMAIN processed[id] :
             processed[id][i] # Request => InPlace(processed[id][i], c, r)
  BY <1>1, Zenon DEF Placed
<1>3. CASE Ignored(id, f)
  BY <1>3, StaysPlaced DEF Ignored, pluginVars, reception
<1>4. CASE SequenceMismatch(id, f)
  <2>1. state'[id] = "IDLE" /\ processed' = processed
    BY <1>0, <1>4 DEF SequenceMismatch, Set, TypeOK
  <2> QED
    BY <1>2, <2>1, Zenon DEF Placed, c, r
<1>5. CASE ConsecutiveFrame(id, f)
  <2>1. state[id] = "RECEIVING_MULTIFRAME" /\ f.seq = q
    BY <1>5 DEF ConsecutiveFrame, Awaited
  <2>2. q \in 1 .. 16 /\ l <= n /\ (IF n <= 6 THEN q = 1 ELSE l = 6 + 7 * (q - 1) /\ l < n)
    BY <2>1, Zenon DEF Inv, ReceptionTracked
  <2>3. ~ (n <= 6)
    <3> HIDE DEF n
    <3> QED
      BY <1>2, <2>1
  <2>4. l \in Nat /\ l + 1 = 7 * q /\ t \in 1 .. 7 /\ l + t <= n /\ n \in Nat
    <3>1. t = IF n - l < 7 THEN n - l ELSE 7
      BY DEF Taken
    <3>2. n \in 8 .. 111
      BY <1>2, <2>1
    <3> HIDE DEF n, q, l, t
    <3> QED
      BY <2>2, <2>3, <3>1, <3>2, TakenBounds, Zenon
  <2>5. b \in Seq(Byte) /\ Len(b) = t
    <3>1. t \in Nat
      BY <2>4
    <3> QED
      BY <1>0, <3>1, BytesOfFrame
  <2>6. \A i \in 1 .. t : b[i] = f.data[i] /\ i \in 1 .. 7
    <3>1. \A i \in 1 .. t : i <= 7 /\ i \in 1 .. 7
      BY <2>4
    <3> HIDE DEF t
    <3> QED
      BY <3>1, Zenon DEF Bytes
  <2> HIDE DEF b
  <2>7. /\ p \in Seq(Byte) /\ Len(p) = l + t /\ DOMAIN p = 1 .. l + t
        /\ \A i \in 1 .. l : p[i] = payload[id][i]
        /\ \A i \in 1 .. t : p[l + i] = b[i]
    <3>1. payload[id] \in Seq(Byte) /\ b \in Seq(Byte)
      BY <1>0, <2>5
    <3>2. /\ (payload[id] \o b) \in Seq(Byte) /\ Len(payload[id] \o b) = l + Len(b)
          /\ DOMAIN (payload[id] \o b) = 1 .. l + Len(b)
          /\ \A i \in 1 .. l : (payload[id] \o b)[i] = payload[id][i]
          /\ \A i \in 1 .. Len(b) : (payload[id] \o b)[l + i] = b[i]
      BY <3>1, TwoJoined
    <3> HIDE DEF l, t
    <3> QED
      BY <2>5, <3>2, Zenon
  <2> HIDE DEF p
  <2>8. InPlace(p, c, r)
    <3>1. ASSUME NEW i \in 1 .. l
          PROVE  InItsPlace(p[i], i, c, r)
      BY <1>0, <1>2, <2>1, <2>7 DEF InPlace
    <3>2. ASSUME NEW i \in 1 .. t
          PROVE  InItsPlace(p[l + i], l + i, c, r)
      <4>1. InItsPlace(f.data[i], 7 * f.seq + i - 1, c, r) /\ p[l + i] = f.data[i]
        BY <2>6, <2>7 DEF FitsIn, c, r
      <4>2. 7 * f.seq + i - 1 = l + i
        <5> HIDE DEF l, q, t
        <5>1. i \in Int /\ q \in Int
          BY <2>2, <2>4
        <5> QED
          BY <2>1, <2>4, <5>1
      <4> QED
        BY <4>1, <4>2
    <3>3. ASSUME NEW j \in 1 .. l + t
          PROVE  j \in 1 .. l \/ \E i \in 1 .. t : j = l + i
      <4> HIDE DEF l, t
      <4>1. j \in 1 .. l \/ (j - l \in 1 .. t /\ j = l + (j - l))
        BY <2>4
      <4> QED
        BY <4>1
    <3> QED
      BY <2>7, <3>1, <3>2, <3>3, Zenon DEF InPlace
  <2>9. Resized(p, n) = p
    <3>1. ~ (Len(p) > n)
      BY <2>4, <2>7
    <3> QED
      BY <3>1, Zenon DEF Resized
  <2>10. PICK next : Append7(id, f, 0, next)
    BY <1>5 DEF ConsecutiveFrame
  <2>11. CASE Len(p) + 0 >= n
    <3>1. Set(id, "COMPLETE", p, n, next) /\ Process(id, p)
      BY <2>9, <2>10, <2>11 DEF Append7, p, b
    <3>2. state'[id] = "COMPLETE"
      BY <1>0, <3>1 DEF Set, TypeOK
    <3>3. processed'[id] = processed[id] \/ processed'[id] = Append(processed[id], p)
      BY <1>0, <3>1 DEF Process
    <3>4. \A i \in DOMAIN processed'[id] :
              processed'[id][i] # Request => InPlace(processed'[id][i], c, r)
      <4>1. CASE processed'[id] = processed[id]
        BY <1>2, <4>1
      <4>2. CASE processed'[id] = Append(processed[id], p)
        BY <1>0, <1>2, <2>7, <2>8, <4>2, OneMorePlaced
      <4> QED
        BY <3>3, <4>1, <4>2
    <3> QED
      BY <3>2, <3>4, Zenon DEF Placed, c, r
  <2>12. CASE ~ (Len(p) + 0 >= n)
    <3>1. Set(id, state[id], p, n, next) /\ processed' = processed
      BY <2>10, <2>12 DEF Append7, p, b
    <3>2. payload'[id] = p /\ total_length'[id] = n
      BY <1>0, <3>1 DEF Set, TypeOK
    <3> QED
      BY <1>2, <2>1, <2>8, <3>1, <3>2, Zenon DEF Placed, c, r
  <2> QED
    BY <2>11, <2>12
<1> QED
  BY <1>3, <1>4, <1>5 DEF Handle, SingleFrame, FirstFrame

\* The tester sends a frame of a message that fits.
LEMMA SendKeepsPlaces ==
    ASSUME Inv, TesterInv, LinkTypes, \A j \in UdsId : Placed(j),
           NEW id \in UdsId, NEW m \in Seq(Byte), Len(m) \in 1 .. 111,
           NEW k \in Nat, k > 0 => Len(m) \in 8 .. 111 /\ 7 * k <= Len(m),
           NEW c \in Nat, c >= 1, c = number'[id], number[id] <= c,
           (m = Request /\ Len(m) \in 1 .. 7) \/ m = Data(c, Len(m)),
           \A j \in UdsId \ {id} : number'[j] = number[j], raw' = raw,
           NEW gone \in BOOLEAN, SendFrame(id, m, k, gone)
    PROVE  \A j \in UdsId : Placed(j)'
<1> DEFINE f == FrameNumber(m, k)
<1>0. \A n \in 8 .. 111 : ~ (n \in 1 .. 7)
  OBVIOUS
<1>1. Transmit(id, f, gone)
  BY DEF SendFrame
<1>2. /\ number \in [UdsId -> Nat] /\ raw \in [UdsId -> Nat] /\ TypeOK
      /\ processed[id] \in Seq(Seq(Byte)) /\ DOMAIN processed = UdsId
  BY DEF TesterInv, LinkTypes, Inv, TypeOK
<1>3. /\ number[id] \in Nat /\ number'[id] \in Nat /\ number[id] <= number'[id]
      /\ raw[id] \in Nat /\ raw'[id] \in Nat /\ raw[id] <= raw'[id] /\ Placed(id)
  BY <1>2
<1>4. ASSUME NEW j \in UdsId \ {id}
      PROVE  Placed(j)'
  <2>1. /\ state'[j] = state[j] /\ payload'[j] = payload[j]
        /\ total_length'[j] = total_length[j] /\ processed'[j] = processed[j]
    BY <1>1, TransmitFields
  <2>2. /\ Placed(j) /\ number[j] \in Nat /\ number'[j] \in Nat /\ number[j] <= number'[j]
        /\ raw[j] \in Nat /\ raw'[j] \in Nat /\ raw[j] <= raw'[j]
    BY <1>2
  <2> QED
    BY <2>1, <2>2, StaysPlaced
<1>5. CASE gone
  <2>1. UNCHANGED pluginVars
    BY <1>1, <1>5 DEF Transmit
  <2>2. Placed(id)'
    BY <1>3, <2>1, StaysPlaced DEF pluginVars, reception
  <2> QED
    BY <1>4, <2>2
<1>6. CASE ~ gone
  <2>1. Handle(id, f)
    BY <1>1, <1>6 DEF Transmit
  <2>2. \A p : InPlace(p, number[id], raw[id]) => InPlace(p, c, raw'[id])
    BY <1>3, PlacesKept
  <2>3. \A i \in DOMAIN processed[id] :
            processed[id][i] # Request => InPlace(processed[id][i], c, raw'[id])
    BY <1>3, <2>2, Zenon DEF Placed
  <2>4. CASE k = 0 /\ Len(m) \in 1 .. 7
    <3>1. state'[id] = "COMPLETE" /\ processed' = [processed EXCEPT ![id] = Append(@, m)]
      BY <2>1, <2>4, SingleHandled
    <3>2. m # Request => InPlace(m, c, raw'[id])
      <4>1. Len(m) \in Nat /\ Len(m) <= Len(m)
        BY MessageLength
      <4>2. InPlace(Data(c, Len(m)), c, raw'[id])
        BY <1>3, <4>1, DataInPlace
      <4> QED
        BY <4>2
    <3>3. processed'[id] = Append(processed[id], m)
      BY <1>2, <3>1
    <3>4. \A i \in DOMAIN Append(processed[id], m) :
              Append(processed[id], m)[i] # Request
                  => InPlace(Append(processed[id], m)[i], c, raw'[id])
      BY <1>2, <2>3, <3>2, OneMorePlaced
    <3>5. Placed(id)'
      BY <3>1, <3>3, <3>4, Zenon DEF Placed
    <3> QED
      BY <1>4, <3>5
  <2>5. CASE k = 0 /\ Len(m) \in 8 .. 111
    <3>1. Len(m) > 7 /\ Len(m) \in Nat /\ 6 \in Nat /\ 6 <= Len(m)
      BY <2>5, MessageLength
    <3>2. /\ total_length'[id] = Len(m) /\ payload'[id] = SubSeq(m, 1, 6)
          /\ processed' = processed
      BY <2>1, <2>5, <3>1, FirstHandled
    <3>3. InPlace(SubSeq(m, 1, 6), c, raw'[id])
      <4>1. m = Data(c, Len(m))
        <5>1. ~ (Len(m) \in 1 .. 7)
          BY <2>5, <1>0, Zenon
        <5> QED
          BY <5>1
      <4>2. InPlace(SubSeq(Data(c, Len(m)), 1, 6), c, raw'[id])
        BY <1>3, <3>1, DataInPlace
      <4> QED
        BY <4>1, <4>2
    <3>4. Placed(id)'
      BY <2>3, <2>5, <3>2, <3>3, Zenon DEF Placed
    <3> QED
      BY <1>4, <3>4
  <2>6. CASE k # 0
    <3>1. k >= 1 /\ Len(m) \in 8 .. 111 /\ 7 * k <= Len(m) /\ Len(m) > 7
      BY <2>6, MessageLength
    <3>2. m = Data(c, Len(m))
      <4>1. ~ (Len(m) \in 1 .. 7)
        BY <3>1, <1>0, Zenon
      <4> QED
        BY <4>1
    <3>3. f.pci = "consecutive" /\ f \in GoodFrames
      BY <3>1, <3>2, NextFrame
    <3>4. FitsIn(f, number'[id], raw'[id])
      BY <1>3, <3>1, <3>2, NextFitsIn
    <3> HIDE DEF f
    <3>5. Placed(id)'
      BY <1>3, <2>1, <3>3, <3>4, FitsHandled
    <3> QED
      BY <1>4, <3>5
  <2> QED
    BY <2>4, <2>5, <2>6, OneFrame
<1> QED
  BY <1>5, <1>6

LEMMA RawKeepsPlaces ==
    ASSUME Inv, TesterInv, LinkTypes, \A j \in UdsId : Placed(j),
           NEW id \in UdsId, NEW gone \in BOOLEAN, SendRawRequest(id, gone)
    PROVE  \A j \in UdsId : Placed(j)'
<1>1. /\ Transmit(id, RawRequest, gone) /\ number' = [number EXCEPT ![id] = @ + 1]
      /\ raw' = IF gone THEN raw ELSE [raw EXCEPT ![id] = @ + 1]
  BY DEF SendRawRequest, Begin, Counted
<1>2. number \in [UdsId -> Nat] /\ raw \in [UdsId -> Nat]
  BY DEF TesterInv, LinkTypes
<1>3. \A j \in UdsId :
          /\ number[j] \in Nat /\ number'[j] \in Nat /\ number[j] <= number'[j]
          /\ raw[j] \in Nat /\ raw'[j] \in Nat /\ raw[j] <= raw'[j]
  BY <1>1, <1>2
<1>4. ASSUME NEW j \in UdsId \ {id}
      PROVE  Placed(j)'
  <2>1. /\ state'[j] = state[j] /\ payload'[j] = payload[j]
        /\ total_length'[j] = total_length[j] /\ processed'[j] = processed[j]
    BY <1>1, TransmitFields
  <2> QED
    BY <1>3, <2>1, StaysPlaced
<1>5. CASE gone
  <2>1. UNCHANGED pluginVars
    BY <1>1, <1>5 DEF Transmit
  <2>2. Placed(id)'
    BY <1>3, <2>1, StaysPlaced DEF pluginVars, reception
  <2> QED
    BY <1>4, <2>2
<1>6. CASE ~ gone
  <2>1. Handle(id, RawRequest)
    BY <1>1, <1>6 DEF Transmit
  <2>2. RawRequest.pci = "consecutive" /\ RawRequest \in GoodFrames
    BY RawIsGood DEF RawRequest, FrameOf
  <2>3. raw'[id] > 0
    BY <1>1, <1>2, <1>6
  <2>4. FitsIn(RawRequest, number'[id], raw'[id])
    BY <1>3, <2>3, RawFitsIn
  <2>5. Placed(id)'
    BY <1>3, <2>1, <2>2, <2>4, FitsHandled
  <2> QED
    BY <1>4, <2>5
<1> QED
  BY <1>5, <1>6

LEMMA SendsInPlace ==
    ASSUME MessagesFit, SpliceInv, LinkNext
    PROVE  \A j \in UdsId : Placed(j)'
<1>0. /\ Inv /\ TesterInv /\ LinkTypes
      /\ \A j \in UdsId : Unfinished(j) /\ Latest(j) /\ Placed(j)
      /\ number \in [UdsId -> Nat]
  BY DEF SpliceInv, WholeInv, Delivers, StepInv, LinkInv, TesterInv
<1>1. ASSUME NEW id \in UdsId, NEW gone \in BOOLEAN, NEW n \in Lengths, SendData(id, n, gone)
      PROVE  \A j \in UdsId : Placed(j)'
  <2> DEFINE c == number[id] + 1
             m == Data(c, n)
             k == 0
  <2>1. /\ c \in 1 .. MaxMessages /\ c \in Nat /\ c >= 1 /\ number[id] <= c
        /\ number' = [number EXCEPT ![id] = @ + 1] /\ raw' = raw
    BY <1>0, <1>1, LinkAssumption DEF SendData, Begin
  <2>2. n \in 1 .. MaxLength /\ n \in 1 .. 111
    BY LinkAssumption DEF MessagesFit
  <2>3. m \in Seq(Byte) /\ Len(m) = n
    BY <2>1, <2>2, DataIsBytes
  <2>4. SendFrame(id, m, k, gone)
    BY <1>1 DEF SendData
  <2>5. m = Data(c, Len(m)) /\ Len(m) \in 1 .. 111
    BY <2>2, <2>3, Zenon
  <2>6. c = number'[id] /\ \A j \in UdsId \ {id} : number'[j] = number[j]
    BY <1>0, <2>1
  <2>7. k \in Nat /\ ~ (k > 0)
    OBVIOUS
  <2> HIDE DEF m, c, k
  <2> QED
    BY <1>0, <2>1, <2>3, <2>4, <2>5, <2>6, <2>7, SendKeepsPlaces
<1>2. ASSUME NEW id \in UdsId, NEW gone \in BOOLEAN, SendRequest(id, gone)
      PROVE  \A j \in UdsId : Placed(j)'
  <2> DEFINE c == number[id] + 1
             m == Request
             k == 0
  <2>1. /\ c \in Nat /\ c >= 1 /\ number[id] <= c
        /\ number' = [number EXCEPT ![id] = @ + 1] /\ raw' = raw
    BY <1>0, <1>2 DEF SendRequest, Begin
  <2>2. m \in Seq(Byte) /\ Len(m) = 2
    BY RequestIsBytes
  <2>3. SendFrame(id, m, k, gone)
    BY <1>2 DEF SendRequest
  <2>4. Len(m) \in 1 .. 111 /\ m = Request /\ Len(m) \in 1 .. 7
    <3>1. 2 \in 1 .. 111 /\ 2 \in 1 .. 7
      OBVIOUS
    <3> QED
      BY <2>2, <3>1, Zenon
  <2>5. c = number'[id] /\ \A j \in UdsId \ {id} : number'[j] = number[j]
    BY <1>0, <2>1
  <2>6. k \in Nat /\ ~ (k > 0)
    OBVIOUS
  <2> HIDE DEF m, c, k
  <2> QED
    BY <1>0, <2>1, <2>2, <2>3, <2>4, <2>5, <2>6, SendKeepsPlaces
<1>3. ASSUME NEW id \in UdsId, NEW gone \in BOOLEAN, SendRawRequest(id, gone)
      PROVE  \A j \in UdsId : Placed(j)'
  BY <1>0, <1>3, RawKeepsPlaces
<1>4. ASSUME NEW id \in UdsId, NEW gone \in BOOLEAN, SendNext(id, gone)
      PROVE  \A j \in UdsId : Placed(j)'
  <2> DEFINE m == message[id]
             k == frames[id]
             c == number[id]
  <2>1. m \in Seq(Byte) /\ k \in Nat /\ k > 0 /\ c \in Nat /\ number[id] <= c
    BY <1>0, <1>4 DEF SendNext, TesterInv
  <2>2. Len(m) \in 8 .. 111 /\ 7 * k <= Len(m)
    BY <1>0, <2>1 DEF Unfinished
  <2>3. \A n \in 8 .. 111 : n \in 1 .. 111
    OBVIOUS
  <2>4. SendFrame(id, m, k, gone) /\ number' = number /\ raw' = raw
    BY <1>4 DEF SendNext
  <2>5. Len(m) \in 1 .. 111
    BY <2>2, <2>3, Zenon
  <2>6. c \in 1 .. MaxMessages /\ m = Data(c, Len(m))
    <3>1. Latest(id) /\ frames[id] > 0
      BY <1>0, <2>1
    <3> QED
      BY <3>1, Zenon DEF Latest
  <2>7. c = number'[id] /\ \A j \in UdsId \ {id} : number'[j] = number[j]
    BY <2>4
  <2>8. c >= 1
    <3> HIDE DEF c
    <3> QED
      BY <2>6, LinkAssumption
  <2> HIDE DEF m, k, c
  <2> QED
    BY <1>0, <2>1, <2>2, <2>4, <2>5, <2>6, <2>7, <2>8, SendKeepsPlaces
<1> QED
  BY <1>1, <1>2, <1>3, <1>4 DEF LinkNext

LEMMA SpliceInductive ==
    ASSUME MessagesFit, SpliceInv, [LinkNext]_linkVars
    PROVE  SpliceInv'
<1>1. WholeInv'
  BY WholeInductive DEF SpliceInv
<1>2. CASE LinkNext
  BY <1>1, <1>2, SendsInPlace DEF SpliceInv
<1>3. CASE UNCHANGED linkVars
  <2>1. UNCHANGED <<state, payload, total_length, processed, number, raw>>
    BY <1>3 DEF linkVars, testerVars, pluginVars, reception
  <2>2. ASSUME NEW j \in UdsId, Placed(j)
        PROVE  Placed(j)'
    BY <2>1, <2>2, Zenon DEF Placed
  <2> QED
    BY <1>1, <2>2 DEF SpliceInv
<1> QED
  BY <1>2, <1>3

\* If every message fits fifteen consecutive frames: whatever is lost, and however
\* many raw requests are taken for frames, a payload that mixes messages (nothing
\* but the sequence number tells their frames apart) mixes them byte by byte in
\* place, and takes no byte that was not sent for that place but padding and the
\* one of a raw request.
THEOREM SplicesInPlace ==
    ASSUME MessagesFit
    PROVE  LinkSpec => []SplicesKeepPlaces
<1>1. SpliceInv => SplicesKeepPlaces
  BY Zenon DEF SpliceInv, Placed, InPlace, SplicesKeepPlaces
<1>2. LinkInit => SpliceInv
  <2>1. SUFFICES ASSUME LinkInit, NEW id \in UdsId
                 PROVE  Placed(id)
    BY WholeStarts DEF SpliceInv
  <2>2. state[id] # "RECEIVING_MULTIFRAME" /\ processed[id] = << >>
    BY <2>1 DEF LinkInit, Init
  <2>3. DOMAIN << >> = {}
    OBVIOUS
  <2> QED
    BY <2>2, <2>3, Zenon DEF Placed
<1>3. SpliceInv /\ [LinkNext]_linkVars => SpliceInv'
  BY SpliceInductive
<1> QED
  BY <1>1, <1>2, <1>3, PTL DEF LinkSpec
=============================================================================

----------------------------- MODULE UdsProofs ------------------------------
(***************************************************************************)
(* Proofs about UdsPlugin, for any ids, bytes and frames: the reception    *)
(* invariant is inductive as it stands, together with the types.           *)
(***************************************************************************)
EXTENDS UdsPlugin, TLAPS

\* The frames handleDiagnosticFrame can be given.
GoodFrames == {f \in Frames : f.pci = "single" => f.length <= 15}

Inv == TypeOK /\ ReceptionTracked /\ CompleteIsWhole

\* ReceptionTracked for one id, of given field values.
Tracked(st, p, total, seq) ==
    st = "RECEIVING_MULTIFRAME" =>
        /\ seq \in 1 .. 16
        /\ Len(p) <= total
        /\ IF total <= 6 THEN seq = 1
           ELSE Len(p) = 6 + 7 * (seq - 1) /\ Len(p) < total

\* CompleteIsWhole for one id.
Whole(st, p, total) ==
    st = "COMPLETE" => Len(p) = total \/ (total = 0 /\ Len(p) <= 15)

\* What the proofs use of the announced lengths.
LEMMA LengthsAreNat == Length \subseteq Nat /\ 0 \in Length
BY DEF Length

\* The bytes copied out of a frame are bytes, as many as asked for.
LEMMA BytesOfFrame ==
    ASSUME NEW f \in Frames, NEW n \in Nat
    PROVE  Bytes(f, n) \in Seq(Byte) /\ Len(Bytes(f, n)) = n
<1>1. f.data \in [1 .. 7 -> Byte]
  BY DEF Frames
<1>2. \A i \in 1 .. n : (IF i <= 7 THEN f.data[i] ELSE PastFrame) \in Byte
  BY <1>1, ByteAssumption
<1> QED
  BY <1>2 DEF Bytes

\* Replacing one id's message by one of the right shape keeps the invariant.
LEMMA SetKeepsInv ==
    ASSUME Inv, NEW id \in UdsId,
           NEW st \in {"IDLE", "RECEIVING_MULTIFRAME", "COMPLETE"},
           NEW p \in Seq(Byte), NEW total \in Length, NEW seq \in 0 .. 255,
           Tracked(st, p, total, seq), Whole(st, p, total),
           Set(id, st, p, total, seq),
           processed' \in [UdsId -> Seq(Seq(Byte))], seeds' \in [UdsId -> Nat]
    PROVE  Inv'
<1>0. TypeOK
  BY DEF Inv
<1>1. TypeOK'
  <2>1. state' \in [UdsId -> {"IDLE", "RECEIVING_MULTIFRAME", "COMPLETE"}]
    BY <1>0 DEF TypeOK, Set
  <2>2. payload' \in [UdsId -> Seq(Byte)]
    BY <1>0 DEF TypeOK, Set
  <2>3. total_length' \in [UdsId -> Length]
    BY <1>0 DEF TypeOK, Set
  <2>4. sequence_number' \in [UdsId -> 0 .. 255]
    BY <1>0 DEF TypeOK, Set
  <2> QED
    BY <2>1, <2>2, <2>3, <2>4 DEF TypeOK
<1>2. ReceptionTracked'
  <2>1. SUFFICES ASSUME NEW j \in UdsId
                 PROVE  Tracked(state'[j], payload'[j], total_length'[j], sequence_number'[j])
    BY DEF ReceptionTracked, Tracked
  <2>2. CASE j = id
    BY <1>0, <2>2 DEF Set, TypeOK
  <2>3. CASE j # id
    <3>1. /\ state'[j] = state[j]
          /\ payload'[j] = payload[j]
          /\ total_length'[j] = total_length[j]
          /\ sequence_number'[j] = sequence_number[j]
      BY <1>0, <2>3 DEF Set, TypeOK
    <3>2. Tracked(state[j], payload[j], total_length[j], sequence_number[j])
      BY DEF Inv, ReceptionTracked, Tracked
    <3> QED
      BY <3>1, <3>2
  <2> QED
    BY <2>2, <2>3
<1>3. CompleteIsWhole'
  <2>1. SUFFICES ASSUME NEW j \in UdsId
                 PROVE  Whole(state'[j], payload'[j], total_length'[j])
    BY DEF CompleteIsWhole, Whole
  <2>2. CASE j = id
    BY <1>0, <2>2 DEF Set, TypeOK
  <2>3. CASE j # id
    <3>1. /\ state'[j] = state[j]
          /\ payload'[j] = payload[j]
          /\ total_length'[j] = total_length[j]
      BY <1>0, <2>3 DEF Set, TypeOK
    <3>2. Whole(state[j], payload[j], total_length[j])
      BY DEF Inv, CompleteIsWhole, Whole
    <3> QED
      BY <3>1, <3>2
  <2> QED
    BY <2>2, <2>3
<1> QED
  BY <1>1, <1>2, <1>3 DEF Inv

\* Handing a payload to processUdsMessage keeps the types.
LEMMA ProcessTypes ==
    ASSUME TypeOK, NEW id \in UdsId, NEW p \in Seq(Byte), Process(id, p)
    PROVE  processed' \in [UdsId -> Seq(Seq(Byte))] /\ seeds' \in [UdsId -> Nat]
<1>1. processed' \in [UdsId -> Seq(Seq(Byte))]
  BY DEF TypeOK, Process
<1>2. seeds' \in [UdsId -> Nat]
  BY DEF TypeOK, Process
<1> QED
  BY <1>1, <1>2

\* Whatever frame comes, handleDiagnosticFrame keeps the invariant.
LEMMA HandleKeepsInv ==
    ASSUME Inv, NEW id \in UdsId, NEW f \in GoodFrames, Handle(id, f)
    PROVE  Inv'
<1>0. /\ f \in Frames
      /\ f.length \in Length /\ f.length \in Nat
      /\ f.seq \in 0 .. 15
  BY LengthsAreNat DEF GoodFrames, Frames
<1>a. /\ 0 \in 0 .. 255 /\ 1 \in 0 .. 255 /\ 0 \in Length
       /\ "IDLE" \in {"IDLE", "RECEIVING_MULTIFRAME", "COMPLETE"}
       /\ "RECEIVING_MULTIFRAME" \in {"IDLE", "RECEIVING_MULTIFRAME", "COMPLETE"}
       /\ "COMPLETE" \in {"IDLE", "RECEIVING_MULTIFRAME", "COMPLETE"}
  BY LengthsAreNat
<1>1. CASE SingleFrame(id, f)
  <2>1. Bytes(f, f.length) \in Seq(Byte) /\ Len(Bytes(f, f.length)) = f.length
    BY <1>0, BytesOfFrame
  <2>2. f.length <= 15
    BY <1>1 DEF SingleFrame, GoodFrames
  <2>3. processed' \in [UdsId -> Seq(Seq(Byte))] /\ seeds' \in [UdsId -> Nat]
    BY <1>1, <2>1, ProcessTypes DEF SingleFrame, Inv
  <2>4. Set(id, "COMPLETE", Bytes(f, f.length), 0, 0)
    BY <1>1 DEF SingleFrame
  <2>5. /\ Tracked("COMPLETE", Bytes(f, f.length), 0, 0)
        /\ Whole("COMPLETE", Bytes(f, f.length), 0)
    BY <2>1, <2>2 DEF Tracked, Whole
  <2> QED
    BY <1>a, <2>1, <2>3, <2>4, <2>5, SetKeepsInv, ZenonT(20)
<1>2. CASE FirstFrame(id, f)
  <2> DEFINE n == IF f.length < 6 THEN f.length ELSE 6
  <2>1. n \in Nat /\ n <= f.length /\ (f.length > 6 => n = 6)
    BY <1>0
  <2> HIDE DEF n
  <2>2. Bytes(f, n) \in Seq(Byte) /\ Len(Bytes(f, n)) = n
    BY <1>0, <2>1, BytesOfFrame
  <2>3. processed' \in [UdsId -> Seq(Seq(Byte))] /\ seeds' \in [UdsId -> Nat]
    BY <1>2 DEF FirstFrame, Inv, TypeOK
  <2>4. Set(id, "RECEIVING_MULTIFRAME", Bytes(f, n), f.length, 1)
    BY <1>2 DEF FirstFrame, n
  <2>5. /\ Tracked("RECEIVING_MULTIFRAME", Bytes(f, n), f.length, 1)
        /\ Whole("RECEIVING_MULTIFRAME", Bytes(f, n), f.length)
    BY <1>0, <2>1, <2>2 DEF Tracked, Whole
  <2> QED
    BY <1>0, <1>a, <2>2, <2>3, <2>4, <2>5, SetKeepsInv, ZenonT(20)
<1>3. CASE SequenceMismatch(id, f)
  <2>1. processed' \in [UdsId -> Seq(Seq(Byte))] /\ seeds' \in [UdsId -> Nat]
    BY <1>3 DEF SequenceMismatch, Inv, TypeOK
  <2>2. Tracked("IDLE", << >>, 0, 0) /\ Whole("IDLE", << >>, 0)
    BY DEF Tracked, Whole
  <2>3. Set(id, "IDLE", << >>, 0, 0)
    BY <1>3 DEF SequenceMismatch
  <2>4. << >> \in Seq(Byte)
    OBVIOUS
  <2> QED
    BY <1>a, <2>1, <2>2, <2>3, <2>4, SetKeepsInv, ZenonT(20)
<1>4. CASE ConsecutiveFrame(id, f)
  <2> DEFINE total == total_length[id]
             seq == sequence_number[id]
             more == Bytes(f, Taken(id))
             p == payload[id] \o more
             st == IF Len(p) >= total THEN "COMPLETE" ELSE state[id]
  <2>1. /\ payload[id] \in Seq(Byte)
        /\ total \in Length /\ total \in Nat
        /\ seq \in 0 .. 255
        /\ state[id] = "RECEIVING_MULTIFRAME"
        /\ f.seq = seq
    BY <1>4, LengthsAreNat DEF ConsecutiveFrame, Awaited, Inv, TypeOK
  <2>2. Tracked(state[id], payload[id], total, seq)
    BY DEF Inv, ReceptionTracked, Tracked
  <2>3. /\ Taken(id) \in Nat
        /\ Taken(id) <= total - Len(payload[id])
        /\ Taken(id) = 7 \/ Taken(id) = total - Len(payload[id])
    <3>1. Len(payload[id]) \in Nat
      BY <2>1
    <3>2. Len(payload[id]) <= total
      BY <2>1, <2>2 DEF Tracked
    <3> QED
      BY <2>1, <3>1, <3>2 DEF Taken
  <2>4. more \in Seq(Byte) /\ Len(more) = Taken(id)
    <3> HIDE DEF total, seq, p, st
    <3> QED
      BY <1>0, <2>3, BytesOfFrame
  <2>5. p \in Seq(Byte) /\ Len(p) = Len(payload[id]) + Taken(id)
    <3> HIDE DEF more, total, seq, st
    <3> QED
      BY <2>1, <2>4
  <2>6. seq \in 1 .. 15 /\ (seq + 1) % 256 = seq + 1
    BY <1>0, <2>1, <2>2 DEF Tracked
  <2>7. st \in {"IDLE", "RECEIVING_MULTIFRAME", "COMPLETE"}
    BY <2>1
  <2>8. Len(p) \in Nat /\ Len(p) + 0 = Len(p) /\ Len(p) <= total
    <3> HIDE DEF more, seq, st, p
    <3> QED
      BY <2>1, <2>3, <2>5
  <2>9. Resized(p, total) = p
    <3> HIDE DEF p
    <3> QED
      BY <2>1, <2>8 DEF Resized
  <2>10. Append7(id, f, 0, seq + 1)
    BY <1>4, <2>6 DEF ConsecutiveFrame
  <2>11. Set(id, st, p, total, seq + 1)
    BY <2>8, <2>9, <2>10 DEF Append7
  <2>12. processed' \in [UdsId -> Seq(Seq(Byte))] /\ seeds' \in [UdsId -> Nat]
    <3>1. CASE Len(p) >= total
      <4>1. Process(id, p)
        BY <2>8, <2>9, <2>10, <3>1 DEF Append7
      <4> QED
        BY <4>1, <2>5, ProcessTypes DEF Inv
    <3>2. CASE ~ (Len(p) >= total)
      BY <2>8, <2>10, <3>2 DEF Append7, Inv, TypeOK
    <3> QED
      BY <3>1, <3>2
  <2>13. Tracked(st, p, total, seq + 1) /\ Whole(st, p, total)
    <3> HIDE DEF p, total, seq, more
    <3>1. Len(payload[id]) \in Nat
      BY <2>1
    <3>2. CASE Len(p) >= total
      BY <3>1, <3>2, <2>1, <2>2, <2>3, <2>5 DEF Tracked, Whole
    <3>3. CASE ~ (Len(p) >= total)
      <4>1. Taken(id) = 7 /\ Len(p) < total
        BY <3>1, <3>3, <2>1, <2>3, <2>5
      <4>2. Len(payload[id]) = 6 + 7 * (seq - 1) /\ total > 6
        BY <4>1, <3>1, <2>1, <2>2, <2>3, <2>5, <2>6 DEF Tracked
      <4> QED
        BY <4>1, <4>2, <3>1, <3>3, <2>1, <2>5, <2>6 DEF Tracked, Whole
    <3> QED
      BY <3>2, <3>3
  <2>14. seq + 1 \in 0 .. 255
    BY <2>6
  <2> HIDE DEF p, total, seq, st, more
  <2> QED
    BY <2>1, <2>5, <2>6, <2>7, <2>11, <2>12, <2>13, <2>14, SetKeepsInv, ZenonT(20)
<1>5. CASE Ignored(id, f)
  BY <1>5 DEF Ignored, pluginVars, reception, Inv, TypeOK, ReceptionTracked, CompleteIsWhole
<1> QED
  BY <1>1, <1>2, <1>3, <1>4, <1>5 DEF Handle

\* Before the first frame nothing is being received.
LEMMA InitHasInv == Init => Inv
BY LengthsAreNat DEF Init, Inv, TypeOK, ReceptionTracked, CompleteIsWhole

\* For every set of frames other nodes may send, in any order: the fields keep
\* their types, remaining never wraps, and a completed message is whole.
THEOREM ReceptionInvariant == Spec => [](TypeOK /\ ReceptionTracked /\ CompleteIsWhole)
<1>1. Inv /\ [Next]_pluginVars => Inv'
  <2>1. SUFFICES ASSUME Inv, [Next]_pluginVars
                 PROVE  Inv'
    OBVIOUS
  <2>2. CASE Next
    <3>1. PICK id \in UdsId, f \in Heard : Handle(id, f)
      BY <2>2 DEF Next
    <3>2. f \in GoodFrames
      BY HeardAssumption DEF GoodFrames
    <3> QED
      BY <2>1, <3>1, <3>2, HandleKeepsInv
  <2>3. CASE UNCHANGED pluginVars
    BY <2>1, <2>3
       DEF pluginVars, reception, Inv, TypeOK, ReceptionTracked, CompleteIsWhole
  <2> QED
    BY <2>1, <2>2, <2>3
<1> QED
  BY <1>1, InitHasInv, PTL DEF Spec, Inv
=============================================================================

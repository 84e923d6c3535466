----------------------------- MODULE UdsPlugin ------------------------------
(***************************************************************************)
(* The UDS diagnostic plug-in of CanParser: reassembly of segmented        *)
(* messages, one DiagnosticMessage per CAN id (handleDiagnosticFrame,      *)
(* processUdsMessage in src/src/can_parser.cpp).                           *)
(*                                                                         *)
(* A frame is a record: its PCI type, the length and sequence number of    *)
(* its PCI (whichever the type has) and the seven bytes after data[0].  A  *)
(* first frame has its length in data[1] too, so its data has six bytes    *)
(* and the seventh is unused.                                              *)
(***************************************************************************)
EXTENDS Integers, Sequences

CONSTANTS UdsId,        \* 0x7E0 and 0x7E8
          Byte,
          SecurityAccess, RequestSeed,  \* the bytes 0x27 and 0x01
          PastFrame,    \* what the memory after the eight data bytes holds
          Heard         \* the frames other nodes send under those ids

Pci == {"single", "first", "consecutive", "flowControl", "other"}
\* A single frame has four bits for the length, a first frame twelve.
Length == 0 .. 4095
Frames == [pci : Pci, length : Length, seq : 0 .. 15, data : [1 .. 7 -> Byte]]

ASSUME ByteAssumption == {SecurityAccess, RequestSeed, PastFrame} \subseteq Byte
ASSUME HeardAssumption ==
    Heard \subseteq {f \in Frames : f.pci = "single" => f.length <= 15}

VARIABLES
    \* diagnostic_messages_[id]
    state, payload, total_length, sequence_number,
    processed,   \* the non-empty payloads given to processUdsMessage, per id
    seeds        \* how many security seeds were sent in answer to each id

reception == <<state, payload, total_length, sequence_number>>
pluginVars == <<reception, processed, seeds>>

Init ==
    /\ state = [id \in UdsId |-> "IDLE"]
    /\ payload = [id \in UdsId |-> << >>]
    /\ total_length = [id \in UdsId |-> 0]
    /\ sequence_number = [id \in UdsId |-> 0]
    /\ processed = [id \in UdsId |-> << >>]
    /\ seeds = [id \in UdsId |-> 0]
-----------------------------------------------------------------------------
\* The message under id becomes this one.
Set(id, st, p, total, seq) ==
    /\ state' = [state EXCEPT ![id] = st]
    /\ payload' = [payload EXCEPT ![id] = p]
    /\ total_length' = [total_length EXCEPT ![id] = total]
    /\ sequence_number' = [sequence_number EXCEPT ![id] = seq]

\* Mutant: the length test is off by one.
AsksForSeedLonger(p) == Len(p) > 2 /\ p[1] = SecurityAccess /\ p[2] = RequestSeed

AsksForSeed(p) == Len(p) >= 2 /\ p[1] = SecurityAccess /\ p[2] = RequestSeed

\* processUdsMessage: an empty payload is ignored, 27 01 is answered.
Process(id, p) ==
    /\ processed' = IF p = << >> THEN processed
                    ELSE [processed EXCEPT ![id] = Append(@, p)]
    /\ seeds' = IF AsksForSeed(p) THEN [seeds EXCEPT ![id] = @ + 1] ELSE seeds

\* The n bytes from data[1] on: a single frame may claim more than it holds.
Bytes(f, n) == [i \in 1 .. n |-> IF i <= 7 THEN f.data[i] ELSE PastFrame]
-----------------------------------------------------------------------------
(***************************************************************************)
(* handleDiagnosticFrame, one action per outcome.                          *)
(***************************************************************************)
SingleFrame(id, f) ==
    /\ f.pci = "single"
    /\ Set(id, "COMPLETE", Bytes(f, f.length), 0, 0)
    /\ Process(id, Bytes(f, f.length))

\* Mutant: the bytes of an unfinished message are kept.
FirstFrameAppends(id, f) ==
    /\ f.pci = "first"
    /\ Set(id, "RECEIVING_MULTIFRAME",
           payload[id] \o Bytes(f, IF f.length < 6 THEN f.length ELSE 6), f.length, 1)
    /\ UNCHANGED <<processed, seeds>>

\* Mutant: a first frame does not interrupt a reception.
FirstFrameWaits(id, f) ==
    /\ f.pci = "first"
    /\ IF state[id] = "RECEIVING_MULTIFRAME"
         THEN UNCHANGED reception
         ELSE Set(id, "RECEIVING_MULTIFRAME",
                  Bytes(f, IF f.length < 6 THEN f.length ELSE 6), f.length, 1)
    /\ UNCHANGED <<processed, seeds>>

FirstFrame(id, f) ==
    /\ f.pci = "first"
    /\ Set(id, "RECEIVING_MULTIFRAME",
           Bytes(f, IF f.length < 6 THEN f.length ELSE 6), f.length, 1)
    /\ UNCHANGED <<processed, seeds>>

\* Mutant: the sequence number is reset to -1.
SequenceMismatchReset(id, f) ==
    /\ f.pci = "consecutive"
    /\ state[id] = "RECEIVING_MULTIFRAME"
    /\ f.seq # sequence_number[id]
    /\ Set(id, "IDLE", << >>, 0, -1)
    /\ UNCHANGED <<processed, seeds>>

\* An out-of-sequence frame abandons the message.
SequenceMismatch(id, f) ==
    /\ f.pci = "consecutive"
    /\ state[id] = "RECEIVING_MULTIFRAME"
    /\ f.seq # sequence_number[id]
    /\ Set(id, "IDLE", << >>, 0, 0)
    /\ UNCHANGED <<processed, seeds>>

\* payload.resize, which never has to lengthen it.
Resized(p, n) == IF Len(p) > n THEN SubSeq(p, 1, n) ELSE p

\* remaining and append_len.
Taken(id) ==
    LET remaining == total_length[id] - Len(payload[id])
    IN  IF remaining < 7 THEN remaining ELSE 7

\* The message grows by the bytes taken; slack and next are for the mutants.
Append7(id, f, slack, next) ==
    LET p == payload[id] \o Bytes(f, Taken(id))
        complete == Len(p) + slack >= total_length[id]
    IN  /\ Set(id, IF complete THEN "COMPLETE" ELSE state[id],
               IF complete THEN Resized(p, total_length[id]) ELSE p,
               total_length[id], next)
        /\ IF complete THEN Process(id, Resized(p, total_length[id]))
                       ELSE UNCHANGED <<processed, seeds>>

\* Mutant: the number is not looked at.
AwaitedAny(id, f) == f.pci = "consecutive" /\ state[id] = "RECEIVING_MULTIFRAME"

Awaited(id, f) ==
    /\ f.pci = "consecutive"
    /\ state[id] = "RECEIVING_MULTIFRAME"
    /\ f.seq = sequence_number[id]

\* Mutants: the number is not advanced, or the message is taken for complete one
\* byte early.
ConsecutiveStays(id, f) == Awaited(id, f) /\ Append7(id, f, 0, sequence_number[id])
ConsecutiveEarly(id, f) ==
    Awaited(id, f) /\ Append7(id, f, 1, (sequence_number[id] + 1) % 256)

ConsecutiveFrame(id, f) ==
    Awaited(id, f) /\ Append7(id, f, 0, (sequence_number[id] + 1) % 256)

\* A consecutive frame nobody waits for, flow control, and unknown types.
Ignored(id, f) ==
    /\ \/ f.pci \in {"flowControl", "other"}
       \/ f.pci = "consecutive" /\ state[id] # "RECEIVING_MULTIFRAME"
    /\ UNCHANGED pluginVars

Handle(id, f) ==
    \/ SingleFrame(id, f)
    \/ FirstFrame(id, f)
    \/ SequenceMismatch(id, f)
    \/ ConsecutiveFrame(id, f)
    \/ Ignored(id, f)

Next == \E id \in UdsId, f \in Heard : Handle(id, f)

Spec == Init /\ [][Next]_pluginVars
-----------------------------------------------------------------------------
(***************************************************************************)
(* Properties.                                                             *)
(***************************************************************************)

\* Each message is in one of three states; its length fits twelve bits and its
\* sequence number a byte.
TypeOK ==
    /\ state \in [UdsId -> {"IDLE", "RECEIVING_MULTIFRAME", "COMPLETE"}]
    /\ payload \in [UdsId -> Seq(Byte)]
    /\ total_length \in [UdsId -> Length]
    /\ sequence_number \in [UdsId -> 0 .. 255]
    /\ processed \in [UdsId -> Seq(Seq(Byte))]
    /\ seeds \in [UdsId -> Nat]

\* While a message is received, its sequence number says how much of it has
\* arrived, whatever frames come: so remaining = total_length - payload.size()
\* (an unsigned subtraction) never wraps around, and 6 + 15 * 7 = 111 bytes are
\* the most a reception can hold, since no frame has the sequence number 16.
ReceptionTracked ==
    \A id \in UdsId : state[id] = "RECEIVING_MULTIFRAME" =>
        /\ sequence_number[id] \in 1 .. 16
        /\ Len(payload[id]) <= total_length[id]
        /\ IF total_length[id] <= 6
             THEN sequence_number[id] = 1
             ELSE /\ Len(payload[id]) = 6 + 7 * (sequence_number[id] - 1)
                  /\ Len(payload[id]) < total_length[id]

\* A segmented message is complete only with exactly the announced length;
\* a single frame leaves total_length zero and brings at most 15 bytes.
CompleteIsWhole ==
    \A id \in UdsId : state[id] = "COMPLETE" =>
        \/ Len(payload[id]) = total_length[id]
        \/ total_length[id] = 0 /\ Len(payload[id]) <= 15
=============================================================================

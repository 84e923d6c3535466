---------------------------- MODULE MCCanParser -----------------------------
(***************************************************************************)
(* CanParser for TLC: one message, whose signals are a multiplexor and its *)
(* two branches or a single one, and an id nobody registered.  The         *)
(* checksum field is byte 6 of the frame, as in fault_tolerance_test.      *)
(***************************************************************************)
EXTENDS CanParser, Checksums

CONSTANTS engine, x7E0

MessageOf_ == [s \in Signal |-> engine]
MuxValue_ == [s \in Signal \cap {"volt", "amp"} |-> IF s = "volt" THEN 0 ELSE 1]
Timeout_ ==
    [s \in Signal |-> CASE s = "mode" -> {0, 1} [] s = "volt" -> {1} [] OTHER -> {0}]

\* The frames of fault_tolerance_test with this byte in the checksum field.
TestFrame(field) == [i \in 0 .. 7 |-> <<255, 255, 128, 0, 0, 0, field, 1>>[i + 1]]

Calculates(type) == [field \in Field |-> calculateChecksum(TestFrame(field), type, 48, 8)]
CalculatesXOR == Calculates("XOR")
CalculatesCRC8 == Calculates("CRC8")

\* Of one byte, XOR and SUM are the byte.
ASSUME OneByteIsItsChecksum ==
    \A b \in Byte, type \in {"XOR", "SUM"} : calculateChecksum(TestFrame(b), type, 48, 8) = b

\* The two CRCs, of every byte and of some messages of several bytes.
ASSUME CrcsAreRemainders ==
    \A bytes \in {<<b>> : b \in Byte} \cup {<<0, 1, 128>>, <<255, 255, 128, 0, 0, 0, 126>>} :
        CrcIsRemainder(bytes, 8, 7, 0) /\ CrcIsRemainder(bytes, 16, 4129, 65535)
=============================================================================

----------------------------- MODULE Checksums ------------------------------
(***************************************************************************)
(* CanMessage::calculateChecksum in src/src/can_parser.cpp: XOR, SUM, CRC8 *)
(* and CRC16 over some of a frame's eight bytes, cut to one byte.  Every   *)
(* other ChecksumType (CUSTOM) gives 0.                                    *)
(***************************************************************************)
EXTENDS Integers, Bitwise, SequencesExt

Byte == 0 .. 255
ByteNumbers == <<0, 1, 2, 3, 4, 5, 6, 7>>

\* The bytes whose first bit lies in the checksum field, in order.
Covered(data, start, length) ==
    LET inField(i) == i * 8 >= start /\ i * 8 < start + length
        numbers == SelectSeq(ByteNumbers, inField)
    IN  [k \in DOMAIN numbers |-> data[numbers[k]]]

Xored(bytes) == FoldLeft(LAMBDA sum, byte : sum ^^ byte, 0, bytes)
Summed(bytes) == FoldLeft(LAMBDA sum, byte : (sum + byte) % 2 ^ 16, 0, bytes)

\* A register of this many bits, shifted left; the bit that falls out decides.
Shifted(crc, bits, polynomial) ==
    IF crc >= 2 ^ (bits - 1) THEN ((2 * crc) % 2 ^ bits) ^^ polynomial ELSE 2 * crc

Crc(bytes, bits, polynomial, initial) ==
    LET addByte(crc, byte) ==
            FoldLeft(LAMBDA register, j : Shifted(register, bits, polynomial),
                     crc ^^ (byte * 2 ^ (bits - 8)), ByteNumbers)
    IN  FoldLeft(addByte, initial, bytes)

calculateChecksum(data, type, checksum_start_, checksum_length_) ==
    LET bytes == Covered(data, checksum_start_, checksum_length_)
    IN  CASE type = "XOR"   -> Xored(bytes)
          [] type = "SUM"   -> Summed(bytes) % 256
          [] type = "CRC8"  -> Crc(bytes, 8, 7, 0)
          [] type = "CRC16" -> Crc(bytes, 16, 4129, 65535) % 256
          [] OTHER          -> 0
-----------------------------------------------------------------------------
(***************************************************************************)
(* What the cyclic redundancy checks should compute: the remainder of the  *)
(* message, as a polynomial over the field of two elements, by the         *)
(* generator.  A polynomial is the set of the exponents in it.             *)
(***************************************************************************)
PolynomialOf(n) == {k \in 0 .. 16 : (n \div 2 ^ k) % 2 = 1}
Times(p, k) == {e + k : e \in p}
Plus(p, q) == (p \ q) \cup (q \ p)

RECURSIVE Remainder(_, _)
Remainder(p, generator) ==
    LET degree(q) == CHOOSE e \in q : \A f \in q : f <= e
    IN  IF p = {} \/ degree(p) < degree(generator)
          THEN p
          ELSE Remainder(Plus(p, Times(generator, degree(p) - degree(generator))), generator)

\* The message of these bytes, the first bit the highest, followed by as many
\* zeros as the register has bits; the initial value is added to its beginning.
Message(bytes, bits, initial) ==
    LET n == Len(bytes)
        placed == UNION {Times(PolynomialOf(bytes[k]), 8 * (n - k) + bits) : k \in 1 .. n}
    IN  Plus(placed, Times(PolynomialOf(initial), 8 * n))

CrcIsRemainder(bytes, bits, polynomial, initial) ==
    PolynomialOf(Crc(bytes, bits, polynomial, initial))
        = Remainder(Message(bytes, bits, initial), PolynomialOf(polynomial) \cup {bits})
=============================================================================

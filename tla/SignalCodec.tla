----------------------------- MODULE SignalCodec -----------------------------
(***************************************************************************)
(* How a signal is read from the bytes of a frame (extract_raw_signal in   *)
(* src/src/protocol.cpp) and where dbc_codegen.py says it begins.  A       *)
(* uint64_t is a function from bits to Booleans, bit 0 the lowest; so is a *)
(* byte.  The sizes are constants: 8 bytes of 8 bits in the code.          *)
(***************************************************************************)
EXTENDS Integers

CONSTANTS Bytes, ByteBits
ASSUME SizeAssumption == {Bytes, ByteBits} \subseteq Nat \ {0}

Width == Bytes * ByteBits
Bit == 0 .. Width - 1
Words == [Bit -> BOOLEAN]
Payloads == [0 .. Bytes - 1 -> [0 .. ByteBits - 1 -> BOOLEAN]]

\* SignalConfig.
Configs == [start_bit : Bit, length : 1 .. Width,
            is_big_endian : BOOLEAN, is_signed : BOOLEAN]
-----------------------------------------------------------------------------
\* The two containers: the first byte is the highest or the lowest.
BigEndian(data) ==
    [k \in Bit |-> data[Bytes - 1 - (k \div ByteBits)][k % ByteBits]]
\* Mutant: the bytes are taken in the wrong order.
LittleEndianReversed(data) == BigEndian(data)
LittleEndian(data) ==
    [k \in Bit |-> data[k \div ByteBits][k % ByteBits]]

\* Mutant: the last bit of a big-endian signal is left out.
ShiftShort(config) ==
    IF config.is_big_endian THEN Width - config.start_bit - config.length + 1
                            ELSE config.start_bit
\* The shift that brings the signal down to bit 0.  A big-endian one is counted
\* from the highest bit of the first byte, and its start_bit is its highest.
Shift(config) ==
    IF config.is_big_endian
      THEN (Width - 1 - config.start_bit) - config.length + 1
      ELSE config.start_bit

\* C++ defines shifts by these amounts only.
ShiftDefined(config) == Shift(config) \in Bit

ShiftedRight(word, n) == [k \in Bit |-> k + n < Width /\ word[k + n]]
Masked(word, length) == [k \in Bit |-> k < length /\ word[k]]

\* Shifted to the top as unsigned and back as signed.
SignExtended(word, length) ==
    [k \in Bit |-> word[IF k < length THEN k ELSE length - 1]]

extract_raw_signal(data, config) ==
    LET container == IF config.is_big_endian THEN BigEndian(data) ELSE LittleEndian(data)
        raw == Masked(ShiftedRight(container, Shift(config)), config.length)
    IN  IF config.is_signed /\ config.length < Width
          THEN SignExtended(raw, config.length)
          ELSE raw

\* What it may return: anything if the shift is undefined.
Extractions(data, config) ==
    IF ShiftDefined(config) THEN {extract_raw_signal(data, config)} ELSE Words
-----------------------------------------------------------------------------
(***************************************************************************)
(* Where a signal is.  A DBC numbers bit b of byte i as 8 * i + b.  From   *)
(* its start_bit a little-endian signal goes up; a big-endian one goes     *)
(* down, and from a byte's lowest bit on to the next byte's highest.       *)
(***************************************************************************)
Below(b) == IF b % ByteBits = 0 THEN b + 2 * ByteBits - 1 ELSE b - 1

Beside(s, b) == IF s.is_big_endian THEN Below(b) ELSE b + 1

\* The numbers of a signal's bits, from its start_bit on.
Walk(s) ==
    LET walk[i \in 0 .. s.length - 1] ==
            IF i = 0 THEN s.start_bit ELSE Beside(s, walk[i - 1])
    IN  walk

\* Bit k of the value is the one the walk comes to in this place.
Place(s, k) == IF s.is_big_endian THEN s.length - 1 - k ELSE k

\* The same bit when the bits of a byte are numbered from its highest.
Turned(b) == (b \div ByteBits) * ByteBits + (ByteBits - 1 - (b % ByteBits))

\* Mutant: the bit's number in its byte is kept.
final_start_bitKept(sg) == sg.start_bit

final_start_bit(sg) == IF sg.is_big_endian THEN Turned(sg.start_bit) ELSE sg.start_bit

\* The signal as the generated code registers it.
Registered(sg) == [sg EXCEPT !.start_bit = final_start_bit(sg)]
=============================================================================

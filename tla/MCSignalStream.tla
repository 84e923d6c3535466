--------------------------- MODULE MCSignalStream ----------------------------
(***************************************************************************)
(* SignalStream for TLC: every signal in a frame of two short bytes.  The  *)
(* patterns have one bit set each, or all: each bit of a signal is read    *)
(* from its own place.                                                     *)
(***************************************************************************)
EXTENDS SignalStream

Patterns_ ==
    {[i \in 0 .. Bytes - 1 |-> [b \in 0 .. ByteBits - 1 |-> i * ByteBits + b = n \/ n = Width]]
        : n \in 0 .. Width}
=============================================================================

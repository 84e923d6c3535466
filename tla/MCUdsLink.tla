----------------------------- MODULE MCUdsLink ------------------------------
(***************************************************************************)
(* UdsLink for TLC.  The lengths lie on both sides of every boundary: a    *)
(* single frame's seven bytes, the last byte of a consecutive frame, a raw *)
(* request's number seven, and the fifteen consecutive frames of 111 bytes. *)
(***************************************************************************)
EXTENDS UdsLink

CONSTANTS b27, b01, b00, mem

Bytes_ == {b27, b01, b00, mem} \cup ((1 .. MaxMessages) \X (1 .. MaxLength))

Lengths_ == {3, 7, 8, 13, 14, 21, 49, 111}
TooLong == {112}
=============================================================================

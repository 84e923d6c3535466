---------------------------- MODULE MCRingBuffer ----------------------------
(***************************************************************************)
(* RingBuffer for TLC.  By data independence two frames tell a lost,       *)
(* duplicated or reordered frame apart; four slots let both views lag and  *)
(* both indices wrap.  The frames are interchangeable.                     *)
(***************************************************************************)
EXTENDS RingBuffer, TLC

CONSTANTS f1, f2

Frame_ == {f1, f2}
=============================================================================

--------------------------- MODULE MCCanPipeline ----------------------------
(***************************************************************************)
(* CanPipeline for TLC: one frame of each kind the run needs, a ring of    *)
(* two or three slots, and a handful of frames in the socket.              *)
(***************************************************************************)
EXTENDS CanPipeline
=============================================================================

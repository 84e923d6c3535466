---------------------------- MODULE MCDoipServer -----------------------------
(***************************************************************************)
(* DoipServer for TLC, with a header of two bytes and room for three: a    *)
(* bare header, one with a payload that looks like another, a payload      *)
(* without header.                                                         *)
(***************************************************************************)
EXTENDS DoipServer

Messages_ == {<<"02", "FD">>, <<"02", "FD", "02">>, <<"FD">>}
=============================================================================

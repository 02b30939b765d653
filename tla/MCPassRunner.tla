---------------------------- MODULE MCPassRunner ----------------------------
(***************************************************************************)
(* Instance of PassRunner for TLC: every extent up to 5x5, so that each    *)
(* side is a single pixel, a single quad, and odd and even numbers of      *)
(* pixels that span up to three quads.                                     *)
(***************************************************************************)
EXTENDS PassRunner

MaxSide == 5
MCExtents == (1 .. MaxSide) \X (1 .. MaxSide)
=============================================================================

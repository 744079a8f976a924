------------------------------- MODULE MCRing -------------------------------
(* A ring of four slots whose index fields could hold more than four       *)
(* values, so that forgetting the wrap shows.                              *)
EXTENDS RingBuffer

MCByte == 0 .. 2
=============================================================================

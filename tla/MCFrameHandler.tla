--------------------------- MODULE MCFrameHandler ---------------------------
(* Six timestamps, of which the next one is within reach, the one after it *)
(* is a gap and the others are the past.  Those sent step over the end of  *)
(* the clock.  STATUS stands for all frames without an effect, RESET for a *)
(* manual reset.                                                           *)
EXTENDS FrameHandler

MCContents ==
  [type : {"MEAS"}, timestamp : {5, 0, 1, 2}] \union
  [type : {"RESET", "STATUS"}, timestamp : {0}]
=============================================================================

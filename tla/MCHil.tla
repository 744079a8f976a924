------------------------------- MODULE MCHil -------------------------------
(* A turn of one tick, a period of 2 with up to one tick of delay, and one *)
(* measurement lost in a row: the longest silence is 6 ticks, the timeout  *)
(* 8.  Four places are what two turns can fill, each with an INIT and the  *)
(* first measurement of its run, while a frame waits one tick for the      *)
(* thread: the smallest queue the rate allows.                             *)
EXTENDS Hil

MCContents == [type : {"MEAS"}, timestamp : 0 .. MAX_ELAPSED]

ASSUME MCAssumption == HilAssumption /\ RateAssumption
=============================================================================

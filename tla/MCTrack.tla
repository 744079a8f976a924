------------------------------ MODULE MCTrack ------------------------------
(* The hits and misses of the code; eight timestamps, two of them within   *)
(* reach, so that a gap, the past and a clock that starts over all occur.  *)
EXTENDS TrackMachine
=============================================================================

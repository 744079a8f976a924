----------------------------- MODULE MCSenders -----------------------------
(* A byte of 16 values: timestamps end at 65535 ms, distances at 255 m, and *)
(* half a turn is 32768 units.  Half milliseconds, half metres and half    *)
(* units, so that rounding has its middle.                                 *)
EXTENDS Senders, SequencesExt

MCByte == 0 .. 15

(* A checksum that depends on every byte and on its place, in two bytes.   *)
MCCrc(s) == LET total == FoldSeq(LAMBDA x, acc : (3 * acc + x) % 256, 15, s)
            IN  256 * (total \div 16) + (total % 16)

(* Distances: too short, the middle below and above one, the longest, too  *)
(* long, negative.  Directions: ahead, behind from both sides, a half unit *)
(* before it, and three half turns.                                        *)
MCReadings ==
  {[range |-> 1,   azimuth |-> 0],
   [range |-> 3,   azimuth |-> 65536],
   [range |-> 5,   azimuth |-> 65535],
   [range |-> 509, azimuth |-> -65536],
   [range |-> 510, azimuth |-> 196608],
   [range |-> 511, azimuth |-> -7],
   [range |-> -3,  azimuth |-> 7]}

Sender(port, period, total, azimuth) ==
  [program |-> "radar_sender", port |-> port, period |-> period,
   total |-> total, azimuth |-> azimuth, scenario |-> "single_approach",
   clutter |-> FALSE]

Approach == "single_approach"
Crossing == "two_crossing"

Sim(port, period, total, scenario, clutter) ==
  [program |-> "run_sim", port |-> port, period |-> period,
   total |-> total, azimuth |-> 0, scenario |-> scenario, clutter |-> clutter]

Gui(port, period, total, azimuth) ==
  [program |-> "gui_worker", port |-> port, period |-> period,
   total |-> total, azimuth |-> azimuth, scenario |-> "single_approach",
   clutter |-> FALSE]

(* Of each program: runs on a port, at 1000 Hz, below and (where possible) *)
(* above; runs without a port that reach the end of the timestamps; and    *)
(* one refusal for each condition.                                         *)
MCOptions ==
  {Sender(TRUE, 2, 3, -32768), Sender(TRUE, 3, 3, 32767), Sender(TRUE, 1, 3, 5),
   Sender(FALSE, 60000, 4, 5), Sender(TRUE, 0, 3, 5), Sender(TRUE, 2, 0, 5),
   Sender(TRUE, 2, 3, 32768)} \union
  {Sim(TRUE, 2, 6, Approach, FALSE), Sim(TRUE, 3, 9, Approach, FALSE),
   Sim(FALSE, 3, 4, Crossing, TRUE), Sim(FALSE, 65534, 131070, Approach, FALSE),
   Sim(TRUE, 1, 4, Approach, FALSE), Sim(TRUE, 2, 0, Approach, FALSE),
   Sim(FALSE, 65536, 131073, Approach, FALSE), Sim(TRUE, 2, 4, Crossing, FALSE),
   Sim(TRUE, 2, 4, Approach, TRUE)} \union
  {Gui(TRUE, 4, 9, 65536), Gui(TRUE, 5, 12, -65535), Gui(FALSE, 4, 12, 6),
   Gui(TRUE, 3, 9, 6), Gui(TRUE, 9, 9, 6), Gui(TRUE, 4, 0, 6),
   Gui(TRUE, 4, 4097, 6), Gui(TRUE, 4, 9, 65537)}
=============================================================================

---------------------------- MODULE Transmission ----------------------------
(***************************************************************************)
(* What the board may expect of whoever sends to it, as far as its track   *)
(* depends on it: INIT before anything else, and once; then measurements   *)
(* whose timestamps move forward.                                          *)
(***************************************************************************)
EXTENDS Integers

CONSTANT TIMESTAMPS     \* values of a timestamp

VARIABLE heard          \* the frame that was last on the line

Silence == [type |-> "SILENCE", timestamp |-> 0]
Init    == [type |-> "INIT", timestamp |-> 0]
Measurements(times) == [type : {"MEAS"}, timestamp : times]

Begin == heard = Silence /\ heard' = Init

First == heard = Init /\ heard' \in Measurements(0 .. TIMESTAMPS - 1)

(* A track ignores a measurement whose timestamp it has seen before, so a  *)
(* repetition is no more than a stutter.                                   *)
Later == /\ heard.type = "MEAS"
         /\ heard' \in Measurements(heard.timestamp + 1 .. TIMESTAMPS - 1)

Next == Begin \/ First \/ Later

Spec == heard = Silence /\ [][Next]_heard
=============================================================================

---------------------------- MODULE TrackMachine ----------------------------
(***************************************************************************)
(* A track under measurements with any timestamps, inside and outside the  *)
(* gate, in any order: update_track_from_measurement called for ever.      *)
(***************************************************************************)
EXTENDS Track, Sequences

CONSTANT MAX_OUTCOMES   \* bound on the outcomes of one track

ASSUME MachineAssumption == MAX_OUTCOMES \in Nat

VARIABLES track,
          latest,   \* the measurement that was handled last
          seen      \* auxiliary: outcomes since the track began

trackVars == <<track, latest, seen>>

Init == /\ track = TrackInit
        /\ latest = [timestamp |-> 0, inGate |-> FALSE]
        /\ seen = <<>>

Measure(ts, inGate) ==
  /\ track' = UpdateTrack(track, ts, inGate)
  /\ latest' = [timestamp |-> ts, inGate |-> inGate]
  /\ seen' = IF track'.state = "EMPTY" THEN <<>>
             ELSE IF track.state = "EMPTY" THEN <<TRUE>>
             ELSE IF Predicts(track, ts) THEN Append(seen, inGate)
             ELSE seen
  /\ Len(seen') <= MAX_OUTCOMES

Next == \E ts \in Timestamp, inGate \in BOOLEAN : Measure(ts, inGate)

Spec == Init /\ [][Next]_trackVars

----------------------------------------------------------------------------
(* Type invariant: in particular the two counters stay in their bounds.    *)
TrackTypeOK == /\ track \in TrackRecord
               /\ latest \in [timestamp : Timestamp, inGate : BOOLEAN]
               /\ seen \in Seq(BOOLEAN) /\ Len(seen) <= MAX_OUTCOMES

(* The states and counters of track.c implement the policy: confirmed by   *)
(* consecutive hits only, lost by consecutive misses only, ended by the    *)
(* first miss on trial and by a gap, ignoring the past also when the       *)
(* timestamps start over (track.c:62-74, :93-147).                         *)
Policy == INSTANCE TrackPolicy WITH asOf  <- track.last_measurement_time,
                                    state <- track.state

FollowsPolicy == Policy!PolicySpec

----------------------------------------------------------------------------
(* How the counters stand for the outcomes.                                *)

(* The last n outcomes were misses.                                        *)
MissesInRow(n) == /\ n <= Len(seen)
                  /\ \A i \in Len(seen) - n + 1 .. Len(seen) : ~seen[i]

CountInv ==
  /\ track.state = "EMPTY" =>
       seen = <<>> /\ track.last_measurement_time = 0
  /\ track.state = "TENTATIVE" =>
       /\ Len(seen) = track.hit_count /\ track.hit_count \in 1 .. CONFIRM_HITS - 1
       /\ track.miss_count = 0
       /\ seen[Len(seen)]
  /\ track.state \in {"CONFIRMED", "COASTING", "LOST"} =>
       Len(seen) >= CONFIRM_HITS
  /\ track.state = "CONFIRMED" =>
       track.miss_count = 0 /\ seen[Len(seen)]
  /\ track.state = "COASTING" =>
       track.miss_count \in 1 .. LOST_MISSES - 1
  /\ track.state = "LOST" => track.miss_count = LOST_MISSES
  /\ MissesInRow(track.miss_count)
  /\ Len(seen) > track.miss_count => seen[Len(seen) - track.miss_count]

IInv == TrackTypeOK /\ CountInv
=============================================================================

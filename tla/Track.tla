------------------------------- MODULE Track -------------------------------
(***************************************************************************)
(* One radar track, fcc_app/src/track.c, and what one valid measurement    *)
(* does to it (update_track_from_measurement in frame_handler.c).          *)
(*                                                                         *)
(* The two Kalman filters are numbers the control below never looks at:    *)
(* all it takes from them is the verdict of the gate, which is a parameter *)
(* of the update.                                                          *)
(***************************************************************************)
EXTENDS Integers

CONSTANTS CONFIRM_HITS,          \* TRACK_CONFIRM_HITS
          LOST_MISSES,           \* TRACK_LOST_MISSES
          MAX_PREDICT_INTERVAL,  \* TRACK_MAX_PREDICT_INTERVAL_MS
          TIMESTAMPS             \* how many timestamps there are: 2^32

ASSUME TrackAssumption ==
  /\ CONFIRM_HITS \in Nat /\ CONFIRM_HITS > 1
  /\ LOST_MISSES \in Nat \ {0}
  /\ MAX_PREDICT_INTERVAL \in Nat \ {0}
  /\ TIMESTAMPS \in Nat
  /\ 2 * MAX_PREDICT_INTERVAL < TIMESTAMPS

Timestamp == 0 .. TIMESTAMPS - 1

TrackStates == {"EMPTY", "TENTATIVE", "CONFIRMED", "COASTING", "LOST"}

TrackRecord == [state : TrackStates, hit_count : 0 .. CONFIRM_HITS,
                miss_count : 0 .. LOST_MISSES,
                last_measurement_time : Timestamp]

TrackInit == [state |-> "EMPTY", hit_count |-> 0, miss_count |-> 0,
              last_measurement_time |-> 0]

TrackStart(ts) == [state |-> "TENTATIVE", hit_count |-> 1, miss_count |-> 0,
                   last_measurement_time |-> ts]

\* Mutant: no wraparound: a timestamp below the last one is a duplicate.
DeltaNoWrap(t, ts) == IF ts >= t.last_measurement_time
                        THEN ts - t.last_measurement_time ELSE 0

(* timestamp_ms - last_measurement_time_ms, in unsigned arithmetic.        *)
Delta(t, ts) == IF ts >= t.last_measurement_time
                  THEN ts - t.last_measurement_time
                  ELSE ts - t.last_measurement_time + TIMESTAMPS

(* Duplicate, or backward: half of all timestamps count as the past.       *)
NotAfter(t, ts) == Delta(t, ts) = 0 \/ 2 * Delta(t, ts) >= TIMESTAMPS

(* What track_predict returns, and what it leaves of the track.            *)
Predicts(t, ts) == /\ t.state \notin {"EMPTY", "LOST"}
                   /\ ~NotAfter(t, ts)
                   /\ Delta(t, ts) <= MAX_PREDICT_INTERVAL

\* Mutant: the time of the measurement is not recorded.
TrackPredictKeepsTime(t, ts) ==
  CASE t.state = "EMPTY" -> t
    [] t.state = "LOST"  -> TrackInit
    [] OTHER -> IF NotAfter(t, ts) \/ Delta(t, ts) <= MAX_PREDICT_INTERVAL
                  THEN t ELSE TrackInit

TrackPredict(t, ts) ==
  CASE t.state = "EMPTY" -> t
    [] t.state = "LOST"  -> TrackInit
    [] OTHER -> IF NotAfter(t, ts) THEN t
                ELSE IF Delta(t, ts) > MAX_PREDICT_INTERVAL THEN TrackInit
                ELSE [t EXCEPT !.last_measurement_time = ts]

\* Mutant: the hits are counted without a limit.
TrackHitUnlimited(t) ==
  [t EXCEPT !.hit_count = @ + 1, !.miss_count = 0,
            !.state = IF @ = "TENTATIVE" /\ t.hit_count + 1 < CONFIRM_HITS
                        THEN "TENTATIVE" ELSE "CONFIRMED"]

(* A measurement inside the gate.                                          *)
TrackHit(t) ==
  LET hits == IF t.hit_count < CONFIRM_HITS THEN t.hit_count + 1 ELSE t.hit_count
  IN  IF t.state \in {"EMPTY", "LOST"} THEN t
      ELSE [t EXCEPT !.hit_count  = hits,
                     !.miss_count = 0,
                     !.state = IF @ = "TENTATIVE" /\ hits < CONFIRM_HITS
                                 THEN "TENTATIVE" ELSE "CONFIRMED"]

(* A measurement outside the gate.                                         *)
TrackMiss(t) ==
  LET misses == IF t.miss_count < LOST_MISSES THEN t.miss_count + 1
                                              ELSE t.miss_count
  IN  CASE t.state \in {"EMPTY", "LOST"} -> t
        [] t.state = "TENTATIVE" -> TrackInit
        [] OTHER -> [t EXCEPT !.hit_count  = 0,
                              !.miss_count = misses,
                              !.state = IF misses >= LOST_MISSES
                                          THEN "LOST" ELSE "COASTING"]

(* update_track_from_measurement.                                          *)
UpdateTrack(t, ts, inGate) ==
  IF t.state = "EMPTY" THEN TrackStart(ts)
  ELSE IF ~Predicts(t, ts) THEN TrackPredict(t, ts)
  ELSE IF inGate THEN TrackHit(TrackPredict(t, ts))
  ELSE TrackMiss(TrackPredict(t, ts))
=============================================================================

---------------------------- MODULE TrackProofs ----------------------------
(***************************************************************************)
(* What the operations of track.c do to a track, for every threshold,      *)
(* interval and clock: the lemmas that the proofs about a track alone and  *)
(* about the frame handler share.                                          *)
(***************************************************************************)
EXTENDS Track, TLAPS

LEMMA TrackInitTyped == TrackInit \in TrackRecord
BY TrackAssumption DEF TrackInit, TrackRecord, TrackStates, Timestamp

LEMMA TrackStartTyped ==
  ASSUME NEW ts \in Timestamp
  PROVE  TrackStart(ts) \in TrackRecord
BY TrackAssumption DEF TrackStart, TrackRecord, TrackStates

(* A track that predicts is only moved in time.                            *)
LEMMA PredictMoves ==
  ASSUME NEW t \in TrackRecord, NEW ts \in Timestamp, Predicts(t, ts)
  PROVE  /\ TrackPredict(t, ts) = [t EXCEPT !.last_measurement_time = ts]
         /\ TrackPredict(t, ts) \in TrackRecord
         /\ TrackPredict(t, ts).state = t.state
         /\ TrackPredict(t, ts).hit_count = t.hit_count
         /\ TrackPredict(t, ts).miss_count = t.miss_count
         /\ TrackPredict(t, ts).last_measurement_time = ts
<1>1. t.state \in TrackStates \ {"EMPTY", "LOST"}
  BY DEF Predicts, TrackRecord
<1>2. ~NotAfter(t, ts) /\ ~(Delta(t, ts) > MAX_PREDICT_INTERVAL)
  BY TrackAssumption DEF Predicts, Delta, TrackRecord, Timestamp
<1>3. TrackPredict(t, ts) = [t EXCEPT !.last_measurement_time = ts]
  BY <1>1, <1>2 DEF TrackPredict
<1>4. QED
  BY <1>3 DEF TrackRecord

(* One that does not is left alone or dropped.                             *)
LEMMA NoPredictLeavesOrDrops ==
  ASSUME NEW t \in TrackRecord, NEW ts \in Timestamp
  PROVE  \/ Predicts(t, ts) \/ TrackPredict(t, ts) = t
         \/ TrackPredict(t, ts) = TrackInit
<1>1. CASE t.state \in {"EMPTY", "LOST"}
  BY <1>1 DEF TrackPredict
<1>2. CASE t.state \notin {"EMPTY", "LOST"}
  <2>1. TrackPredict(t, ts) =
          IF NotAfter(t, ts) THEN t
          ELSE IF Delta(t, ts) > MAX_PREDICT_INTERVAL THEN TrackInit
          ELSE [t EXCEPT !.last_measurement_time = ts]
    BY <1>2 DEF TrackPredict
  <2>2. Delta(t, ts) > MAX_PREDICT_INTERVAL \/ Delta(t, ts) <= MAX_PREDICT_INTERVAL
    BY TrackAssumption DEF Delta, TrackRecord, Timestamp
  <2>3. QED
    BY <1>2, <2>1, <2>2 DEF Predicts
<1>3. QED
  BY <1>1, <1>2

(* Inside the gate: one hit more, up to the limit, and no misses.          *)
LEMMA HitCounts ==
  ASSUME NEW t \in TrackRecord, t.state \notin {"EMPTY", "LOST"}
  PROVE  /\ TrackHit(t) \in TrackRecord
         /\ TrackHit(t).hit_count =
              IF t.hit_count < CONFIRM_HITS THEN t.hit_count + 1 ELSE t.hit_count
         /\ TrackHit(t).miss_count = 0
         /\ TrackHit(t).last_measurement_time = t.last_measurement_time
         /\ TrackHit(t).state =
              IF t.state = "TENTATIVE" /\ TrackHit(t).hit_count < CONFIRM_HITS
                THEN "TENTATIVE" ELSE "CONFIRMED"
<1> DEFINE hits == IF t.hit_count < CONFIRM_HITS THEN t.hit_count + 1
                                                 ELSE t.hit_count
           shown == IF t.state = "TENTATIVE" /\ hits < CONFIRM_HITS
                      THEN "TENTATIVE" ELSE "CONFIRMED"
           t1 == [t EXCEPT !.hit_count = hits]
           t2 == [t1 EXCEPT !.miss_count = 0]
           t3 == [t2 EXCEPT !.state = shown]
<1>1. TrackHit(t) = t3
  BY DEF TrackHit, TrackRecord
<1>2. hits \in 0 .. CONFIRM_HITS /\ 0 \in 0 .. LOST_MISSES /\ shown \in TrackStates
  BY TrackAssumption DEF TrackRecord, TrackStates
<1>3. t1 \in TrackRecord
  <2> HIDE DEF hits
  <2>1. QED
    BY <1>2 DEF TrackRecord
<1>4. t2 \in TrackRecord
  <2> HIDE DEF t1
  <2>1. QED
    BY <1>2, <1>3 DEF TrackRecord
<1>5. t3 \in TrackRecord
  <2> HIDE DEF t2, shown
  <2>1. QED
    BY <1>2, <1>4 DEF TrackRecord
<1>6. /\ t3.hit_count = hits /\ t3.miss_count = 0 /\ t3.state = shown
      /\ t3.last_measurement_time = t.last_measurement_time
  BY DEF TrackRecord
<1>7. QED
  BY <1>1, <1>5, <1>6

(* Outside it: no hits, and one miss more until the track is lost.         *)
LEMMA MissCounts ==
  ASSUME NEW t \in TrackRecord, t.state \in {"CONFIRMED", "COASTING"}
  PROVE  /\ TrackMiss(t) \in TrackRecord
         /\ TrackMiss(t).hit_count = 0
         /\ TrackMiss(t).miss_count =
              IF t.miss_count < LOST_MISSES THEN t.miss_count + 1 ELSE t.miss_count
         /\ TrackMiss(t).last_measurement_time = t.last_measurement_time
         /\ TrackMiss(t).state =
              IF TrackMiss(t).miss_count >= LOST_MISSES THEN "LOST" ELSE "COASTING"
<1> DEFINE misses == IF t.miss_count < LOST_MISSES THEN t.miss_count + 1
                                                   ELSE t.miss_count
           shown == IF misses >= LOST_MISSES THEN "LOST" ELSE "COASTING"
           t1 == [t EXCEPT !.hit_count = 0]
           t2 == [t1 EXCEPT !.miss_count = misses]
           t3 == [t2 EXCEPT !.state = shown]
<1>1. TrackMiss(t) = t3
  BY DEF TrackMiss, TrackRecord
<1>2. /\ misses \in 0 .. LOST_MISSES /\ 0 \in 0 .. CONFIRM_HITS
      /\ shown \in TrackStates
  BY TrackAssumption DEF TrackRecord, TrackStates
<1>3. t1 \in TrackRecord
  BY <1>2 DEF TrackRecord
<1>4. t2 \in TrackRecord
  <2> HIDE DEF t1, misses
  <2>1. QED
    BY <1>2, <1>3 DEF TrackRecord
<1>5. t3 \in TrackRecord
  <2> HIDE DEF t2, shown
  <2>1. QED
    BY <1>2, <1>4 DEF TrackRecord
<1>6. /\ t3.hit_count = 0 /\ t3.miss_count = misses /\ t3.state = shown
      /\ t3.last_measurement_time = t.last_measurement_time
  BY DEF TrackRecord
<1>7. QED
  BY <1>1, <1>5, <1>6

(* What one measurement can make of a track.                               *)
LEMMA UpdateCases ==
  ASSUME NEW t \in TrackRecord, NEW ts \in Timestamp, NEW inGate \in BOOLEAN
  PROVE  LET u == UpdateTrack(t, ts, inGate)
             p == TrackPredict(t, ts)
         IN  \/ t.state = "EMPTY" /\ u = TrackStart(ts)
             \/ t.state /= "EMPTY" /\ ~Predicts(t, ts) /\ u \in {t, TrackInit} /\ u = p
             \/ Predicts(t, ts) /\ inGate /\ u = TrackHit(p)
             \/ Predicts(t, ts) /\ ~inGate /\ t.state = "TENTATIVE" /\ u = TrackInit
             \/ /\ Predicts(t, ts) /\ ~inGate /\ t.state \in {"CONFIRMED", "COASTING"}
                /\ u = TrackMiss(p)
<1>1. CASE t.state = "EMPTY"
  BY <1>1 DEF UpdateTrack
<1>2. CASE t.state /= "EMPTY" /\ ~Predicts(t, ts)
  BY <1>2, NoPredictLeavesOrDrops DEF UpdateTrack
<1>3. CASE Predicts(t, ts) /\ inGate
  BY <1>3 DEF UpdateTrack, Predicts
<1>4. CASE Predicts(t, ts) /\ ~inGate
  <2>1. TrackPredict(t, ts).state = t.state
    BY <1>4, PredictMoves
  <2>2. t.state \in {"TENTATIVE", "CONFIRMED", "COASTING"}
    BY <1>4 DEF Predicts, TrackRecord, TrackStates
  <2>3. UpdateTrack(t, ts, inGate) = TrackMiss(TrackPredict(t, ts))
    BY <1>4, <2>2 DEF UpdateTrack
  <2>4. t.state = "TENTATIVE" => TrackMiss(TrackPredict(t, ts)) = TrackInit
    BY <2>1 DEF TrackMiss
  <2>5. QED
    BY <1>4, <2>2, <2>3, <2>4
<1>5. QED
  BY <1>1, <1>2, <1>3, <1>4

LEMMA UpdateTyped ==
  ASSUME NEW t \in TrackRecord, NEW ts \in Timestamp, NEW inGate \in BOOLEAN
  PROVE  UpdateTrack(t, ts, inGate) \in TrackRecord
<1> DEFINE u == UpdateTrack(t, ts, inGate)
           p == TrackPredict(t, ts)
<1>1. CASE t.state = "EMPTY" /\ u = TrackStart(ts)
  BY <1>1, TrackStartTyped
<1>2. CASE u \in {t, TrackInit}
  BY <1>2, TrackInitTyped
<1>3. CASE Predicts(t, ts) /\ u = TrackHit(p)
  <2>1. p \in TrackRecord /\ p.state \notin {"EMPTY", "LOST"}
    BY <1>3, PredictMoves DEF Predicts
  <2>2. QED
    BY <1>3, <2>1, HitCounts
<1>4. CASE Predicts(t, ts) /\ t.state \in {"CONFIRMED", "COASTING"} /\ u = TrackMiss(p)
  <2>1. p \in TrackRecord /\ p.state \in {"CONFIRMED", "COASTING"}
    BY <1>4, PredictMoves
  <2>2. QED
    BY <1>4, <2>1, MissCounts
<1>5. QED
  BY <1>1, <1>2, <1>3, <1>4, UpdateCases
=============================================================================

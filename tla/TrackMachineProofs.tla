------------------------- MODULE TrackMachineProofs -------------------------
(***************************************************************************)
(* For every threshold, interval and clock: a track keeps its counters in  *)
(* their bounds and follows the policy on outcomes.                        *)
(***************************************************************************)
EXTENDS TrackMachine, TrackProofs

(* The step that Next comes down to.                                       *)
LEMMA MeasureTyped ==
  ASSUME TrackTypeOK, NEW ts \in Timestamp, NEW inGate \in BOOLEAN,
         Measure(ts, inGate)
  PROVE  TrackTypeOK'
<1>1. track' \in TrackRecord
  BY UpdateTyped DEF Measure, TrackTypeOK
<1>2. latest' \in [timestamp : Timestamp, inGate : BOOLEAN]
  BY DEF Measure
<1>3. <<>> \in Seq(BOOLEAN) /\ <<TRUE>> \in Seq(BOOLEAN)
      /\ Append(seen, inGate) \in Seq(BOOLEAN)
  BY DEF TrackTypeOK
<1>4. seen' \in {<<>>, <<TRUE>>, Append(seen, inGate), seen}
  BY DEF Measure
<1>5. seen' \in Seq(BOOLEAN)
  BY <1>3, <1>4 DEF TrackTypeOK
<1>6. Len(seen') <= MAX_OUTCOMES
  BY DEF Measure
<1>7. QED
  BY <1>1, <1>2, <1>5, <1>6 DEF TrackTypeOK

(* The latest outcome, and the ones before it.                             *)
LEMMA OneMore ==
  ASSUME TrackTypeOK, NEW g \in BOOLEAN, seen' = Append(seen, g)
  PROVE  /\ Len(seen) \in Nat /\ Len(seen') = Len(seen) + 1
         /\ seen'[Len(seen')] = g
         /\ \A i \in 1 .. Len(seen) : seen'[i] = seen[i]
BY DEF TrackTypeOK

(* The history is written from what the track does.                        *)
LEMMA SeenCases ==
  ASSUME TrackTypeOK, NEW ts \in Timestamp, NEW inGate \in BOOLEAN,
         Measure(ts, inGate)
  PROVE  /\ track'.state = "EMPTY" => seen' = <<>>
         /\ track'.state /= "EMPTY" /\ track.state = "EMPTY" => seen' = <<TRUE>>
         /\ track'.state /= "EMPTY" /\ Predicts(track, ts) =>
              seen' = Append(seen, inGate)
         /\ track'.state /= "EMPTY" /\ track.state /= "EMPTY"
              /\ ~Predicts(track, ts) => seen' = seen
BY DEF Measure, Predicts

LEMMA CountStep ==
  ASSUME IInv, NEW ts \in Timestamp, NEW inGate \in BOOLEAN, Measure(ts, inGate)
  PROVE  CountInv'
<1> DEFINE p == TrackPredict(track, ts)
<1>1. track \in TrackRecord /\ Len(seen) \in Nat /\ seen \in Seq(BOOLEAN)
  BY DEF IInv, TrackTypeOK
<1>2. /\ track.hit_count \in 0 .. CONFIRM_HITS /\ track.miss_count \in 0 .. LOST_MISSES
      /\ track.state \in TrackStates
  BY <1>1 DEF TrackRecord
<1>3. track' = UpdateTrack(track, ts, inGate)
  BY DEF Measure
<1>4. track' \in TrackRecord
  BY <1>1, <1>3, UpdateTyped
<1>5. CASE track' = TrackInit
  <2>1. /\ track'.state = "EMPTY" /\ track'.miss_count = 0
        /\ track'.last_measurement_time = 0
    BY <1>5 DEF TrackInit
  <2>2. seen' = <<>> /\ Len(seen') = 0
    BY <2>1, SeenCases DEF IInv
  <2>3. QED
    BY <2>1, <2>2 DEF CountInv, MissesInRow
<1>6. CASE track.state = "EMPTY" /\ track' = TrackStart(ts)
  <2>1. /\ track'.state = "TENTATIVE" /\ track'.hit_count = 1
        /\ track'.miss_count = 0
    BY <1>6 DEF TrackStart
  <2>2. seen' = <<TRUE>>
    BY <1>6, <2>1, SeenCases DEF IInv
  <2>3. Len(seen') = 1 /\ seen'[1] = TRUE
    BY <2>2
  <2>4. MissesInRow(track.miss_count)'
    BY <2>1, <2>3 DEF MissesInRow
  <2>5. QED
    BY <2>1, <2>3, <2>4, TrackAssumption DEF CountInv
<1>7. CASE track.state /= "EMPTY" /\ ~Predicts(track, ts) /\ track' = track
  <2>1. seen' = seen
    BY <1>7, SeenCases DEF IInv
  <2>2. QED
    BY <1>7, <2>1 DEF IInv, CountInv, MissesInRow
<1>8. CASE Predicts(track, ts) /\ inGate /\ track' = TrackHit(p)
  <2>1. /\ p \in TrackRecord /\ p.state = track.state
        /\ p.hit_count = track.hit_count
        /\ track.state \in {"TENTATIVE", "CONFIRMED", "COASTING"}
    BY <1>1, <1>2, <1>8, PredictMoves DEF Predicts, TrackStates
  <2>2. /\ track'.hit_count = IF track.hit_count < CONFIRM_HITS
                                THEN track.hit_count + 1 ELSE track.hit_count
        /\ track'.miss_count = 0
        /\ track'.state = IF track.state = "TENTATIVE" /\ track'.hit_count < CONFIRM_HITS
                            THEN "TENTATIVE" ELSE "CONFIRMED"
    BY <1>8, <2>1, HitCounts
  <2>3. seen' = Append(seen, TRUE)
    BY <1>8, <2>2, SeenCases DEF IInv
  <2>4. Len(seen') = Len(seen) + 1 /\ seen'[Len(seen')] = TRUE
    BY <2>3, OneMore DEF IInv
  <2>5. MissesInRow(track.miss_count)'
    BY <1>1, <2>2, <2>4 DEF MissesInRow
  <2>6. CASE track.state = "TENTATIVE"
    <3>1. Len(seen) = track.hit_count /\ track.hit_count \in 1 .. CONFIRM_HITS - 1
      BY <2>6 DEF IInv, CountInv
    <3>2. track'.hit_count = track.hit_count + 1
      BY <1>2, <2>2, <3>1, TrackAssumption
    <3>3. QED
      BY <1>1, <1>2, <2>2, <2>4, <2>5, <2>6, <3>1, <3>2, TrackAssumption DEF CountInv
  <2>7. CASE track.state \in {"CONFIRMED", "COASTING"}
    <3>1. Len(seen) >= CONFIRM_HITS
      BY <2>7 DEF IInv, CountInv
    <3>2. track'.state = "CONFIRMED"
      BY <2>2, <2>7
    <3>3. QED
      BY <1>1, <2>2, <2>4, <2>5, <3>1, <3>2, TrackAssumption DEF CountInv
  <2>8. QED
    BY <2>1, <2>6, <2>7
<1>9. CASE /\ Predicts(track, ts) /\ ~inGate /\ track.state \in {"CONFIRMED", "COASTING"}
           /\ track' = TrackMiss(p)
  <2> DEFINE m == track.miss_count
  <2>1. /\ p \in TrackRecord /\ p.state = track.state
        /\ p.miss_count = track.miss_count
    BY <1>1, <1>9, PredictMoves
  <2>2. /\ Len(seen) >= CONFIRM_HITS /\ MissesInRow(m)
        /\ m \in Nat /\ m < LOST_MISSES
        /\ Len(seen) > m => seen[Len(seen) - m]
    BY <1>1, <1>2, <1>9, TrackAssumption DEF IInv, CountInv
  <2>3. track'.miss_count = m + 1
    BY <1>9, <2>1, <2>2, MissCounts
  <2>4. track'.state = IF m + 1 >= LOST_MISSES THEN "LOST" ELSE "COASTING"
    BY <1>9, <2>1, <2>3, MissCounts
  <2>5. seen' = Append(seen, FALSE)
    BY <1>9, <2>4, SeenCases DEF IInv
  <2>6. /\ Len(seen') = Len(seen) + 1 /\ seen'[Len(seen')] = FALSE
        /\ \A i \in 1 .. Len(seen) : seen'[i] = seen[i]
    BY <2>5, OneMore DEF IInv
  <2>7. MissesInRow(track.miss_count)'
    <3>1. m + 1 <= Len(seen')
      BY <1>1, <2>2, <2>6 DEF MissesInRow
    <3>2. ASSUME NEW i \in Len(seen') - (m + 1) + 1 .. Len(seen')
          PROVE  ~seen'[i]
      <4>1. CASE i = Len(seen')
        BY <2>6, <4>1
      <4>2. CASE i /= Len(seen')
        <5>1. i \in Len(seen) - m + 1 .. Len(seen) /\ i \in 1 .. Len(seen)
          BY <1>1, <2>2, <2>6, <4>2 DEF MissesInRow
        <5>2. ~seen[i]
          BY <2>2, <5>1 DEF MissesInRow
        <5>3. QED
          BY <2>6, <5>1, <5>2
      <4>3. QED
        BY <4>1, <4>2
    <3>3. QED
      BY <2>3, <3>1, <3>2 DEF MissesInRow
  <2>8. Len(seen') > m + 1 => seen'[Len(seen') - (m + 1)]
    <3> SUFFICES ASSUME Len(seen') > m + 1 PROVE seen'[Len(seen') - (m + 1)]
      OBVIOUS
    <3>1. /\ Len(seen) > m /\ Len(seen') - (m + 1) = Len(seen) - m
          /\ Len(seen) - m \in 1 .. Len(seen)
      BY <1>1, <2>2, <2>6
    <3>2. QED
      BY <2>2, <2>6, <3>1
  <2>9. QED
    BY <1>1, <2>2, <2>3, <2>4, <2>6, <2>7, <2>8, TrackAssumption DEF CountInv
<1>10. QED
  BY <1>1, <1>3, <1>5, <1>6, <1>7, <1>8, <1>9, UpdateCases

----------------------------------------------------------------------------
(* The invariant.                                                          *)

LEMMA InitEstablishes == Init => IInv
<1> SUFFICES ASSUME Init PROVE IInv
  OBVIOUS
<1>1. TrackTypeOK
  <2>1. track \in TrackRecord
    BY TrackInitTyped DEF Init
  <2>2. latest \in [timestamp : Timestamp, inGate : BOOLEAN]
    BY TrackAssumption DEF Init, Timestamp
  <2>3. seen \in Seq(BOOLEAN) /\ Len(seen) <= MAX_OUTCOMES
    BY MachineAssumption DEF Init
  <2>4. QED
    BY <2>1, <2>2, <2>3 DEF TrackTypeOK
<1>2. CountInv
  BY DEF Init, TrackInit, CountInv, MissesInRow
<1>3. QED
  BY <1>1, <1>2 DEF IInv

LEMMA InvariantStep == IInv /\ [Next]_trackVars => IInv'
<1> SUFFICES ASSUME IInv, [Next]_trackVars PROVE IInv'
  OBVIOUS
<1>1. CASE Next
  <2>1. PICK ts \in Timestamp, inGate \in BOOLEAN : Measure(ts, inGate)
    BY <1>1 DEF Next
  <2>2. QED
    BY <2>1, MeasureTyped, CountStep DEF IInv
<1>2. CASE UNCHANGED trackVars
  BY <1>2 DEF trackVars, IInv, TrackTypeOK, CountInv, MissesInRow
<1>3. QED
  BY <1>1, <1>2

THEOREM TrackInvariant == Spec => []IInv
BY InitEstablishes, InvariantStep, PTL DEF Spec

(* The counters and the timestamp of a track stay in their bounds.         *)
THEOREM TrackIsTyped == Spec => []TrackTypeOK
<1>1. IInv => TrackTypeOK
  BY DEF IInv
<1>2. QED
  BY <1>1, TrackInvariant, PTL

----------------------------------------------------------------------------
(* The policy.                                                             *)

(* Unsigned subtraction undoes moving forward on the clock.                *)
LEMMA ClockAgrees ==
  ASSUME TrackTypeOK, NEW ts \in Timestamp
  PROVE  /\ Policy!Follows(ts) <=>
              ~NotAfter(track, ts) /\ Delta(track, ts) <= MAX_PREDICT_INTERVAL
         /\ Policy!Leaps(ts) <=>
              ~NotAfter(track, ts) /\ Delta(track, ts) > MAX_PREDICT_INTERVAL
<1> DEFINE n == Delta(track, ts)
           last == track.last_measurement_time
<1>1. last \in 0 .. TIMESTAMPS - 1 /\ ts \in 0 .. TIMESTAMPS - 1
  BY DEF TrackTypeOK, TrackRecord, Timestamp
<1>2. n = IF ts >= last THEN ts - last ELSE ts - last + TIMESTAMPS
  BY DEF Delta
<1>3. \A d \in Nat :
        Policy!After(d) = IF last + d < TIMESTAMPS THEN last + d ELSE last + d - TIMESTAMPS
  BY DEF Policy!After
<1>4. NotAfter(track, ts) <=> n = 0 \/ 2 * n >= TIMESTAMPS
  BY DEF NotAfter
<1> HIDE DEF n, last
<1>5. n \in 0 .. TIMESTAMPS - 1 /\ n \in Nat /\ Policy!After(n) = ts
  BY <1>1, <1>2, <1>3, TrackAssumption
<1>6. \A d \in 0 .. TIMESTAMPS - 1 : ts = Policy!After(d) => d = n
  BY <1>1, <1>2, <1>3, TrackAssumption
<1>7. Policy!Follows(ts) <=> n \in 1 .. MAX_PREDICT_INTERVAL
  BY <1>5, <1>6, TrackAssumption DEF Policy!Follows
<1>8. Policy!Leaps(ts) <=>
        n \in MAX_PREDICT_INTERVAL + 1 .. TIMESTAMPS /\ 2 * n < TIMESTAMPS
  <2>1. ASSUME Policy!Leaps(ts)
        PROVE  n \in MAX_PREDICT_INTERVAL + 1 .. TIMESTAMPS /\ 2 * n < TIMESTAMPS
    <3>1. PICK d \in MAX_PREDICT_INTERVAL + 1 .. TIMESTAMPS :
            2 * d < TIMESTAMPS /\ ts = Policy!After(d)
      BY <2>1 DEF Policy!Leaps
    <3>2. d \in 0 .. TIMESTAMPS - 1
      BY <3>1, TrackAssumption
    <3>3. QED
      BY <1>6, <3>1, <3>2
  <2>2. ASSUME n \in MAX_PREDICT_INTERVAL + 1 .. TIMESTAMPS, 2 * n < TIMESTAMPS
        PROVE  Policy!Leaps(ts)
    BY <1>5, <2>2 DEF Policy!Leaps
  <2>3. QED
    BY <2>1, <2>2
<1>9. Policy!Follows(ts) <=> ~NotAfter(track, ts) /\ n <= MAX_PREDICT_INTERVAL
  BY <1>4, <1>5, <1>7, TrackAssumption
<1>10. Policy!Leaps(ts) <=> ~NotAfter(track, ts) /\ n > MAX_PREDICT_INTERVAL
  BY <1>4, <1>5, <1>8, TrackAssumption
<1>11. QED
  BY <1>9, <1>10 DEF n

(* The counters stand for the outcomes.                                    *)
ShowsOutcomes == Policy!Shows(track.state, seen)

LEMMA CountersShowOutcomes == IInv => ShowsOutcomes
<1> SUFFICES ASSUME IInv PROVE Policy!Shows(track.state, seen)
  BY DEF ShowsOutcomes
<1>1. /\ seen \in Seq(BOOLEAN) /\ Len(seen) \in Nat
      /\ track.miss_count \in 0 .. LOST_MISSES /\ track.state \in TrackStates
  BY DEF IInv, TrackTypeOK, TrackRecord
<1>2. Policy!Lost(seen) <=> MissesInRow(LOST_MISSES)
  BY <1>1, TrackAssumption DEF Policy!Lost, MissesInRow
<1>3. CASE track.state = "EMPTY"
  BY <1>3 DEF IInv, CountInv, Policy!Shows
<1>4. CASE track.state = "TENTATIVE"
  <2>1. Len(seen) >= 1 /\ Len(seen) < CONFIRM_HITS
    BY <1>1, <1>4, TrackAssumption DEF IInv, CountInv
  <2>2. seen /= <<>> /\ ~Policy!Established(seen)
    BY <1>1, <2>1, TrackAssumption DEF Policy!Established
  <2>3. QED
    BY <1>4, <2>2 DEF Policy!Shows
<1>5. CASE track.state = "CONFIRMED"
  BY <1>5 DEF IInv, CountInv, Policy!Shows, Policy!Established
<1>6. CASE track.state = "LOST"
  BY <1>2, <1>6 DEF IInv, CountInv, Policy!Shows
<1>7. CASE track.state = "COASTING"
  <2> DEFINE m == track.miss_count
  <2>1. /\ m \in 1 .. LOST_MISSES - 1 /\ MissesInRow(m)
        /\ Len(seen) > m => seen[Len(seen) - m]
        /\ Len(seen) >= CONFIRM_HITS
    BY <1>7 DEF IInv, CountInv
  <2>2. ~seen[Len(seen)]
    BY <1>1, <2>1, TrackAssumption DEF MissesInRow
  <2>3. ~MissesInRow(LOST_MISSES)
    <3> SUFFICES ASSUME MissesInRow(LOST_MISSES) PROVE FALSE
      OBVIOUS
    <3>1. Len(seen) > m /\ Len(seen) - m \in Len(seen) - LOST_MISSES + 1 .. Len(seen)
      BY <1>1, <2>1, TrackAssumption DEF MissesInRow
    <3>2. QED
      BY <2>1, <3>1 DEF MissesInRow
  <2>4. QED
    BY <1>2, <1>7, <2>1, <2>2, <2>3 DEF Policy!Shows, Policy!Established
<1>8. QED
  BY <1>1, <1>3, <1>4, <1>5, <1>6, <1>7 DEF TrackStates

(* A track that is not empty or lost has outcomes that do not lose it.     *)
LEMMA ActiveAgrees ==
  ASSUME IInv, track.state \notin {"EMPTY", "LOST"}
  PROVE  /\ Policy!Active
         /\ Policy!Established(seen) <=> track.state \in {"CONFIRMED", "COASTING"}
<1>1. Policy!Shows(track.state, seen)
  BY CountersShowOutcomes DEF ShowsOutcomes
<1>2. /\ seen \in Seq(BOOLEAN) /\ Len(seen) \in Nat /\ track.state \in TrackStates
      /\ seen /= <<>> <=> Len(seen) >= 1
  BY DEF IInv, TrackTypeOK, TrackRecord
<1>3. Len(seen) >= 1
  <2>1. CASE track.state = "TENTATIVE"
    BY <1>2, <2>1, TrackAssumption DEF IInv, CountInv
  <2>2. CASE track.state \in {"CONFIRMED", "COASTING"}
    BY <1>2, <2>2, TrackAssumption DEF IInv, CountInv
  <2>3. QED
    BY <1>2, <2>1, <2>2 DEF TrackStates
<1>4. Policy!Established(seen) <=> track.state \in {"CONFIRMED", "COASTING"}
  BY <1>1, <1>2 DEF Policy!Shows, TrackStates
<1>5. ~Policy!Lost(seen)
  <2>1. CASE track.state \in {"TENTATIVE", "CONFIRMED"}
    <3>1. seen[Len(seen)]
      BY <2>1 DEF IInv, CountInv
    <3>2. QED
      BY <1>2, <1>3, <3>1, TrackAssumption DEF Policy!Lost
  <2>2. CASE track.state = "COASTING"
    BY <1>1, <2>2 DEF Policy!Shows
  <2>3. QED
    BY <1>2, <2>1, <2>2 DEF TrackStates
<1>6. QED
  BY <1>2, <1>3, <1>4, <1>5 DEF Policy!Active

LEMMA PolicyStep ==
  ASSUME IInv, ShowsOutcomes', NEW ts \in Timestamp, NEW inGate \in BOOLEAN,
         Measure(ts, inGate)
  PROVE  Policy!PolicyNext
<1> DEFINE m == [timestamp |-> ts, inGate |-> inGate]
           p == TrackPredict(track, ts)
           time == track.last_measurement_time
<1>1. /\ latest' = m /\ m \in Policy!Measurement
      /\ m.timestamp = ts /\ m.inGate = inGate
  BY DEF Measure, Policy!Measurement, Timestamp
<1>2. track \in TrackRecord /\ TrackTypeOK /\ track' = UpdateTrack(track, ts, inGate)
  BY DEF IInv, TrackTypeOK, Measure
<1>3. Policy!Shows(track'.state, seen')
  BY DEF ShowsOutcomes
<1>4. SUFFICES \/ Policy!Begin(m) \/ Policy!Hit(m) \/ Policy!Miss(m)
               \/ Policy!End(m) \/ Policy!Ignore(m)
  <2> HIDE DEF m
  <2>1. QED
    BY <1>1, <1>3, <1>4 DEF Policy!PolicyNext
<1>5. track' = TrackInit =>
        track'.state = "EMPTY" /\ seen' = <<>> /\ track'.last_measurement_time = 0
  BY <1>2, SeenCases DEF TrackInit
<1>6. CASE track.state = "EMPTY" /\ track' = TrackStart(ts)
  <2>1. track'.state = "TENTATIVE" /\ track'.last_measurement_time = ts
    BY <1>6 DEF TrackStart
  <2>2. seen = <<>> /\ seen' = <<TRUE>>
    BY <1>2, <1>6, <2>1, SeenCases DEF IInv, CountInv
  <2>3. Policy!Begin(m)
    BY <1>1, <2>1, <2>2 DEF Policy!Begin
  <2>4. QED
    BY <2>3
<1>7. CASE /\ track.state /= "EMPTY" /\ ~Predicts(track, ts)
           /\ track' \in {track, TrackInit} /\ track' = p
  <2>1. CASE track.state = "LOST"
    <3>1. track' = TrackInit
      BY <1>7, <2>1 DEF TrackPredict
    <3>2. Policy!Lost(seen) /\ seen /= <<>>
      <4>1. MissesInRow(LOST_MISSES) /\ Len(seen) >= CONFIRM_HITS /\ Len(seen) \in Nat
        BY <2>1 DEF IInv, CountInv, TrackTypeOK
      <4>2. QED
        BY <4>1, TrackAssumption DEF MissesInRow, Policy!Lost
    <3>3. Policy!End(m)
      BY <1>5, <3>1, <3>2 DEF Policy!End
    <3>4. QED
      BY <3>3
  <2>2. CASE track.state /= "LOST"
    <3>1. Policy!Active
      BY <1>7, <2>2, ActiveAgrees
    <3>2. p = IF NotAfter(track, ts) THEN track
              ELSE IF Delta(track, ts) > MAX_PREDICT_INTERVAL THEN TrackInit
              ELSE [track EXCEPT !.last_measurement_time = ts]
      BY <1>7, <2>2 DEF TrackPredict
    <3>3. CASE NotAfter(track, ts)
      <4>1. ~Policy!Follows(ts) /\ ~Policy!Leaps(ts)
        BY <1>2, <3>3, ClockAgrees
      <4>2. track' = track /\ seen' = seen
        BY <1>2, <1>7, <3>2, <3>3, SeenCases
      <4>3. Policy!Ignore(m)
        BY <1>1, <3>1, <4>1, <4>2 DEF Policy!Ignore
      <4>4. QED
        BY <4>3
    <3>4. CASE ~NotAfter(track, ts)
      <4>1. ~(Delta(track, ts) <= MAX_PREDICT_INTERVAL)
        BY <1>7, <2>2, <3>4 DEF Predicts
      <4>2. Delta(track, ts) > MAX_PREDICT_INTERVAL
        BY <1>2, <4>1, TrackAssumption DEF Delta, TrackRecord, Timestamp
      <4>3. track' = TrackInit /\ Policy!Leaps(ts)
        BY <1>2, <1>7, <3>2, <3>4, <4>2, ClockAgrees
      <4>4. Policy!End(m)
        BY <1>1, <1>5, <3>1, <4>3 DEF Policy!End, Policy!Active
      <4>5. QED
        BY <4>4
    <3>5. QED
      BY <3>3, <3>4
  <2>3. QED
    BY <2>1, <2>2
<1>8. ASSUME Predicts(track, ts)
      PROVE  /\ Policy!Active /\ Policy!Follows(ts)
             /\ Policy!Established(seen) <=> track.state \in {"CONFIRMED", "COASTING"}
  BY <1>2, <1>8, ActiveAgrees, ClockAgrees DEF Predicts
<1>9. CASE Predicts(track, ts) /\ inGate /\ track' = TrackHit(p)
  <2>1. /\ p \in TrackRecord /\ p.state \notin {"EMPTY", "LOST"}
        /\ p.last_measurement_time = ts
    BY <1>2, <1>9, PredictMoves DEF Predicts
  <2>2. track'.last_measurement_time = ts /\ track'.state \in {"TENTATIVE", "CONFIRMED"}
    BY <1>9, <2>1, HitCounts
  <2>3. seen' = Append(seen, TRUE)
    BY <1>2, <1>9, <2>2, SeenCases
  <2>4. Policy!Hit(m)
    BY <1>1, <1>8, <1>9, <2>2, <2>3 DEF Policy!Hit
  <2>5. QED
    BY <2>4
<1>10. CASE /\ Predicts(track, ts) /\ ~inGate /\ track.state = "TENTATIVE"
            /\ track' = TrackInit
  <2>1. ~Policy!Established(seen) /\ Policy!Active /\ Policy!Follows(ts)
    BY <1>8, <1>10
  <2>2. Policy!End(m)
    BY <1>1, <1>5, <1>10, <2>1 DEF Policy!End
  <2>3. QED
    BY <2>2
<1>11. CASE /\ Predicts(track, ts) /\ ~inGate
            /\ track.state \in {"CONFIRMED", "COASTING"} /\ track' = TrackMiss(p)
  <2>1. /\ p \in TrackRecord /\ p.state \in {"CONFIRMED", "COASTING"}
        /\ p.last_measurement_time = ts
    BY <1>2, <1>11, PredictMoves
  <2>2. track'.last_measurement_time = ts /\ track'.state \in {"LOST", "COASTING"}
    BY <1>11, <2>1, MissCounts
  <2>3. seen' = Append(seen, FALSE)
    BY <1>2, <1>11, <2>2, SeenCases
  <2>4. Policy!Miss(m)
    BY <1>1, <1>8, <1>11, <2>2, <2>3 DEF Policy!Miss
  <2>5. QED
    BY <2>4
<1>12. QED
  BY <1>2, <1>6, <1>7, <1>9, <1>10, <1>11, UpdateCases

(* track.c implements the policy on outcomes: confirmed, coasting, lost    *)
(* and ended exactly when the policy says so.                              *)
THEOREM TrackFollowsPolicy == Spec => FollowsPolicy
<1>1. Init => Policy!PolicyInit
  BY DEF Init, TrackInit, Policy!PolicyInit
<1>2. IInv /\ ShowsOutcomes' /\ [Next]_trackVars => [Policy!PolicyNext]_Policy!policyVars
  <2> SUFFICES ASSUME IInv, ShowsOutcomes', [Next]_trackVars
               PROVE  [Policy!PolicyNext]_Policy!policyVars
    OBVIOUS
  <2>1. CASE Next
    BY <2>1, PolicyStep DEF Next
  <2>2. CASE UNCHANGED trackVars
    BY <2>2 DEF trackVars, Policy!policyVars
  <2>3. QED
    BY <2>1, <2>2
<1>3. QED
  BY <1>1, <1>2, CountersShowOutcomes, TrackInvariant, PTL
     DEF Spec, FollowsPolicy, Policy!PolicySpec
=============================================================================

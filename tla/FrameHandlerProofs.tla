------------------------- MODULE FrameHandlerProofs -------------------------
(***************************************************************************)
(* For every set of frames, queue depth, timeout and number of restarts:   *)
(* every track is watched, old news leaves no track, and the measurements  *)
(* of two runs meet in a track only if an INIT was lost.                   *)
(*                                                                         *)
(* Then, for the composition with a sender in Hil and every rate that the  *)
(* board grants: no track is lost, no measurement wasted, the frame queue  *)
(* keeps up and news arrives in time.  The first part uses nothing of Hil. *)
(***************************************************************************)
EXTENDS Hil, TrackProofs, SequenceTheorems

(* What Next comes down to.                                                *)
LEMMA NextCases ==
  ASSUME [Next]_handlerVars
  PROVE  \/ Submit \/ SenderStarts \/ GetFrame \/ GetTimesOut \/ Handle
         \/ CheckTimeout \/ Tick \/ UNCHANGED handlerVars
BY DEF Next, HandlerThread

----------------------------------------------------------------------------
(* The queue as a sequence: appending, taking and growing older.           *)

LEMMA PutFacts ==
  ASSUME HandlerTypeOK, NEW f \in ReceivedFrame, Fits, Put(f)
  PROVE  /\ queue' \in Seq(ReceivedFrame) /\ Len(queue') <= QUEUE_DEPTH
         /\ Len(queue) \in Nat /\ Len(queue') = Len(queue) + 1 /\ queue' /= <<>>
         /\ \A i \in 1 .. Len(queue) : queue'[i] = queue[i]
         /\ queue'[Len(queue) + 1] = f
<1>1. queue' = Append(queue, f) /\ queue \in Seq(ReceivedFrame)
  BY DEF Put, HandlerTypeOK
<1>2. QED
  BY <1>1, AppendProperties, HandlerAssumption DEF Fits

LEMMA TakeFacts ==
  ASSUME HandlerTypeOK, queue /= <<>>
  PROVE  /\ Head(queue) = queue[1] /\ Head(queue) \in ReceivedFrame
         /\ Tail(queue) \in Seq(ReceivedFrame)
         /\ Len(queue) \in Nat /\ Len(queue) >= 1
         /\ Len(Tail(queue)) = Len(queue) - 1
         /\ \A i \in 1 .. Len(queue) - 1 : Tail(queue)[i] = queue[i + 1]
<1>1. queue \in Seq(ReceivedFrame)
  BY DEF HandlerTypeOK
<1>2. QED
  BY <1>1, HeadTailProperties, EmptySeq

LEMMA OlderTyped ==
  ASSUME NEW a \in Age
  PROVE  Older(a) \in Age
BY HandlerAssumption DEF Age, Older

LEMMA OlderFrame ==
  ASSUME NEW f \in ReceivedFrame
  PROVE  LET g == [f EXCEPT !.age = Older(@)]
         IN  /\ g \in ReceivedFrame /\ g.type = f.type /\ g.run = f.run
             /\ g.age = Older(f.age)
BY OlderTyped DEF ReceivedFrame

LEMMA TickFacts ==
  ASSUME HandlerTypeOK, Tick
  PROVE  /\ queue' \in Seq(ReceivedFrame) /\ Len(queue') = Len(queue)
         /\ Len(queue) \in Nat
         /\ \A i \in 1 .. Len(queue) :
              queue'[i].type = queue[i].type /\ queue'[i].run = queue[i].run
         /\ frame' \in ReceivedFrame /\ frame'.type = frame.type
         /\ frame'.run = frame.run /\ frame'.age = Older(frame.age)
         /\ last_valid_rx' = Older(last_valid_rx) /\ last_valid_rx' \in Age
<1>1. queue \in Seq(ReceivedFrame) /\ Len(queue) \in Nat /\ DOMAIN queue = 1 .. Len(queue)
  BY DEF HandlerTypeOK
<1>2. queue' = [i \in 1 .. Len(queue) |-> [queue[i] EXCEPT !.age = Older(@)]]
  BY <1>1 DEF Tick
<1>3. \A i \in 1 .. Len(queue) : queue[i] \in ReceivedFrame
  BY <1>1
<1>4. ASSUME NEW i \in 1 .. Len(queue)
      PROVE  /\ [queue[i] EXCEPT !.age = Older(@)] \in ReceivedFrame
             /\ queue'[i].type = queue[i].type /\ queue'[i].run = queue[i].run
  BY <1>2, <1>3, OlderFrame
<1>5. queue' \in Seq(ReceivedFrame)
  BY <1>1, <1>2, <1>4, IsASeq
<1>6. Len(queue') = Len(queue)
  BY <1>1, <1>2, <1>5, LenProperties
<1>7. /\ frame' \in ReceivedFrame /\ frame'.type = frame.type
      /\ frame'.run = frame.run /\ frame'.age = Older(frame.age)
  BY OlderFrame DEF Tick, HandlerTypeOK
<1>8. last_valid_rx' = Older(last_valid_rx) /\ last_valid_rx' \in Age
  BY OlderTyped DEF Tick, HandlerTypeOK
<1>9. QED
  BY <1>1, <1>4, <1>5, <1>6, <1>7, <1>8

LEMMA ContentTyped ==
  ASSUME NEW content \in Contents, NEW r \in Run
  PROVE  Received(content, r) \in ReceivedFrame /\ Received(content, r).run = r
BY HandlerAssumption DEF Received, ReceivedFrame, FrameContent, Age

LEMMA InitFrameTyped ==
  ASSUME NEW r \in Run
  PROVE  LET f == Received([type |-> "INIT", timestamp |-> 0], r)
         IN  f \in ReceivedFrame /\ f.run = r /\ f.type = "INIT"
BY HandlerAssumption, TrackAssumption
   DEF Received, ReceivedFrame, FrameTypes, Timestamp, Age

----------------------------------------------------------------------------
(* One handled frame.                                                      *)

LEMMA HandlerInitFacts ==
  ASSUME HandlerTypeOK, HandlerInit
  PROVE  /\ track' \in TrackRecord /\ track'.state = "EMPTY"
         /\ timeout_armed' \in BOOLEAN /\ last_valid_rx' \in Age
         /\ trackRun' = trackRun
<1>1. track' \in TrackRecord /\ track'.state = "EMPTY"
  BY TrackInitTyped DEF HandlerInit, TrackInit
<1>2. timeout_armed' \in BOOLEAN
  BY Zenon DEF HandlerInit
<1>3. last_valid_rx' \in Age
  BY HandlerAssumption DEF HandlerInit, Age
<1>4. QED
  BY <1>1, <1>2, <1>3 DEF HandlerInit

LEMMA MeasurementFacts ==
  ASSUME HandlerTypeOK, HandleMeasurement
  PROVE  /\ track' \in TrackRecord /\ timeout_armed' /\ timeout_armed' \in BOOLEAN
         /\ last_valid_rx' = frame.age /\ last_valid_rx' \in Age
         /\ trackRun' = IF track.state = "EMPTY" THEN frame.run ELSE trackRun
         /\ trackRun' \in Run
<1>1. frame.timestamp \in Timestamp /\ frame.age \in Age /\ frame.run \in Run
  BY DEF HandlerTypeOK, ReceivedFrame
<1>2. track' \in TrackRecord
  BY <1>1, UpdateTyped DEF HandleMeasurement, HandlerTypeOK
<1>3. timeout_armed'
  BY DEF HandleMeasurement
<1>4. timeout_armed' \in BOOLEAN
  BY Zenon DEF HandleMeasurement
<1>5. QED
  BY <1>1, <1>2, <1>3, <1>4 DEF HandleMeasurement, HandlerTypeOK

LEMMA TypeStep ==
  ASSUME HandlerTypeOK, [Next]_handlerVars
  PROVE  HandlerTypeOK'
<1> USE DEF handlerState, threadState, senderState
<1>1. CASE Submit
  <2>1. PICK content \in Contents : Put(Received(content, run))
    BY <1>1 DEF Submit
  <2>2. Received(content, run) \in ReceivedFrame
    BY ContentTyped DEF HandlerTypeOK
  <2>3. queue' \in Seq(ReceivedFrame) /\ Len(queue') <= QUEUE_DEPTH
    <3>1. CASE Fits
      BY <2>1, <2>2, <3>1, PutFacts
    <3>2. CASE ~Fits
      BY <2>1, <3>2 DEF Put, HandlerTypeOK
    <3>3. QED
      BY <3>1, <3>2
  <2>4. QED
    BY <1>1, <2>3 DEF Submit, HandlerTypeOK
<1>2. CASE SenderStarts
  <2> DEFINE f == Received([type |-> "INIT", timestamp |-> 0], run')
  <2>1. run' \in Run /\ lost' \subseteq Run
    <3>1. run' \in Run /\ lost \subseteq Run
      BY <1>2, HandlerAssumption DEF SenderStarts, HandlerTypeOK, Run
    <3>2. lost' = lost \/ lost' = lost \union {run'}
      BY <1>2 DEF SenderStarts
    <3>3. QED
      BY <3>1, <3>2
  <2>2. f \in ReceivedFrame /\ (Put(f) \/ queue' = queue)
    BY <1>2, <2>1, InitFrameTyped DEF SenderStarts
  <2> HIDE DEF f
  <2>3. queue' \in Seq(ReceivedFrame) /\ Len(queue') <= QUEUE_DEPTH
    <3>1. CASE Fits /\ Put(f)
      BY <2>2, <3>1, PutFacts
    <3>2. CASE queue' = queue
      BY <3>2 DEF HandlerTypeOK
    <3>3. QED
      BY <2>2, <3>1, <3>2 DEF Put
  <2>4. QED
    BY <1>2, <2>1, <2>3 DEF SenderStarts, HandlerTypeOK
<1>3. CASE GetFrame
  <2>1. Len(queue) <= QUEUE_DEPTH /\ QUEUE_DEPTH \in Nat
    BY HandlerAssumption DEF HandlerTypeOK
  <2>2. /\ queue' \in Seq(ReceivedFrame) /\ Len(queue') <= QUEUE_DEPTH
        /\ frame' \in ReceivedFrame
    BY <1>3, <2>1, TakeFacts DEF GetFrame
  <2>3. QED
    BY <1>3, <2>2 DEF GetFrame, HandlerTypeOK
<1>4. CASE GetTimesOut
  BY <1>4 DEF GetTimesOut, HandlerTypeOK
<1>5. CASE Handle
  <2>1. /\ track' \in TrackRecord /\ timeout_armed' \in BOOLEAN
        /\ last_valid_rx' \in Age /\ trackRun' \in Run
    <3>1. CASE HandlerInit
      BY <3>1, HandlerInitFacts DEF HandlerTypeOK
    <3>2. CASE HandleMeasurement
      BY <3>2, MeasurementFacts
    <3>3. CASE UNCHANGED handlerState
      BY <3>3 DEF HandlerTypeOK
    <3>4. QED
      BY <1>5, <3>1, <3>2, <3>3 DEF Handle, HandleFrame
  <2>2. QED
    BY <1>5, <2>1 DEF Handle, AfterFrame, HandlerTypeOK
<1>6. CASE CheckTimeout
  <2>1. /\ track' \in TrackRecord /\ timeout_armed' \in BOOLEAN
        /\ last_valid_rx' \in Age /\ trackRun' \in Run
    <3>1. CASE HandlerInit
      BY <3>1, HandlerInitFacts DEF HandlerTypeOK
    <3>2. CASE UNCHANGED handlerState
      BY <3>2 DEF HandlerTypeOK
    <3>3. QED
      BY <1>6, <3>1, <3>2 DEF CheckTimeout
  <2>2. QED
    BY <1>6, <2>1 DEF CheckTimeout, HandlerTypeOK
<1>7. CASE Tick
  <2>1. Len(queue') <= QUEUE_DEPTH
    BY <1>7, TickFacts DEF HandlerTypeOK
  <2>2. QED
    BY <1>7, <2>1, TickFacts DEF Tick, HandlerTypeOK
<1>8. CASE UNCHANGED handlerVars
  BY <1>8 DEF handlerVars, HandlerTypeOK
<1>9. QED
  BY NextCases, <1>1, <1>2, <1>3, <1>4, <1>5, <1>6, <1>7, <1>8

----------------------------------------------------------------------------
(* The timeout watches every track, and refers to the last frame.          *)
WatchInv == EveryTrackIsWatched /\ NewsInv

LEMMA WatchStep ==
  ASSUME HandlerTypeOK, WatchInv, [Next]_handlerVars
  PROVE  WatchInv'
<1> USE DEF handlerState, threadState, senderState, WatchInv,
            EveryTrackIsWatched, NewsInv
<1>1. CASE Submit
  BY <1>1 DEF Submit
<1>2. CASE SenderStarts
  BY <1>2 DEF SenderStarts
<1>3. CASE GetFrame
  BY <1>3 DEF GetFrame
<1>4. CASE GetTimesOut
  BY <1>4 DEF GetTimesOut
<1>5. CASE Handle
  <2>1. frame' = frame
    BY <1>5 DEF Handle
  <2>2. CASE frame.type \in {"INIT", "RESET"} /\ HandlerInit
    BY <2>1, <2>2, HandlerInitFacts
  <2>3. CASE HandleMeasurement
    BY <2>1, <2>3, MeasurementFacts
  <2>4. CASE /\ frame.type \in {"INVALID_MEAS", "STATUS", "COMMAND", "UNKNOWN"}
             /\ UNCHANGED handlerState
    BY <2>1, <2>4
  <2>5. QED
    BY <1>5, <2>2, <2>3, <2>4 DEF Handle, HandleFrame
<1>6. CASE CheckTimeout
  <2>1. frame' = frame /\ pc = "check"
    BY <1>6 DEF CheckTimeout
  <2>2. CASE HandlerInit
    BY <2>2, HandlerInitFacts
  <2>3. CASE UNCHANGED handlerState
    BY <2>1, <2>3
  <2>4. QED
    BY <1>6, <2>2, <2>3 DEF CheckTimeout
<1>7. CASE Tick
  BY <1>7, TickFacts DEF Tick
<1>8. CASE UNCHANGED handlerVars
  BY <1>8 DEF handlerVars
<1>9. QED
  BY NextCases, <1>1, <1>2, <1>3, <1>4, <1>5, <1>6, <1>7, <1>8

----------------------------------------------------------------------------
(* Runs of a sender: the queue and the track pass from one to the next     *)
(* with an INIT, or the INITs in between are lost.                         *)
RunInv == QueueRunInv /\ TrackRunInv

LEMMA LostTransitive ==
  ASSUME NEW a \in Nat, NEW b \in Nat, NEW c \in Nat,
         LostBetween(a, b), LostBetween(b, c)
  PROVE  LostBetween(a, c)
<1>1. \A r \in a + 1 .. c : r \in a + 1 .. b \/ r \in b + 1 .. c
  OBVIOUS
<1>2. QED
  BY <1>1 DEF LostBetween

LEMMA NoneBetween ==
  ASSUME NEW a \in Nat
  PROVE  a + 1 .. a = {} /\ a <= a
OBVIOUS

LEMMA RunsAreNumbers ==
  ASSUME HandlerTypeOK
  PROVE  /\ frame.run \in Nat /\ run \in Nat /\ trackRun \in Nat
         /\ Len(queue) \in Nat
         /\ \A i \in 1 .. Len(queue) : queue[i].run \in Nat
         /\ LastRun \in Nat /\ LastRun = RunBefore(Len(queue) + 1)
         /\ \A i \in 1 .. Len(queue) : RunBefore(i) \in Nat
<1>1. \A r \in Run : r \in Nat
  BY HandlerAssumption DEF Run
<1>2. /\ frame.run \in Nat /\ run \in Nat /\ trackRun \in Nat
      /\ queue \in Seq(ReceivedFrame) /\ Len(queue) \in Nat
  BY <1>1 DEF HandlerTypeOK, ReceivedFrame
<1>3. \A i \in 1 .. Len(queue) : queue[i].run \in Nat
  <2>1. \A i \in 1 .. Len(queue) : queue[i] \in ReceivedFrame
    BY <1>2
  <2>2. QED
    BY <1>1, <2>1 DEF ReceivedFrame
<1>4. (queue = <<>>) <=> (Len(queue) = 0)
  BY <1>2, EmptySeq
<1>5. LastRun \in Nat /\ LastRun = RunBefore(Len(queue) + 1)
  <2>1. CASE queue = <<>>
    BY <1>2, <1>4, <2>1 DEF LastRun, RunBefore
  <2>2. CASE queue /= <<>>
    <3>1. Len(queue) \in 1 .. Len(queue) /\ Len(queue) + 1 /= 1
          /\ (Len(queue) + 1) - 1 = Len(queue)
      BY <1>2, <1>4, <2>2
    <3>2. QED
      BY <1>3, <2>2, <3>1 DEF LastRun, RunBefore
  <2>3. QED
    BY <2>1, <2>2
<1>6. \A i \in 1 .. Len(queue) : RunBefore(i) \in Nat
  BY <1>2, <1>3 DEF RunBefore
<1>7. QED
  BY <1>2, <1>3, <1>5, <1>6

(* A frame joins a queue with room for it.                                 *)
LEMMA PutKeepsRuns ==
  ASSUME HandlerTypeOK, HandlerTypeOK', QueueRunInv, NEW f \in ReceivedFrame,
         Fits, Put(f), frame' = frame, f.run = run', LastRun <= run',
         lost \subseteq lost',
         f.type = "INIT" \/ (\A r \in LastRun + 1 .. run' : r \in lost')
  PROVE  QueueRunInv'
<1> DEFINE n == Len(queue)
<1>1. /\ n \in Nat /\ Len(queue') = n + 1 /\ queue' /= <<>>
      /\ \A i \in 1 .. n : queue'[i] = queue[i]
      /\ queue'[n + 1] = f
  BY PutFacts
<1>2. \A i \in 1 .. n + 1 : RunBefore(i)' = RunBefore(i)
  BY <1>1 DEF RunBefore
<1>3. LastRun = RunBefore(n + 1) /\ run' \in Nat /\ frame' = frame
  BY RunsAreNumbers, HandlerAssumption DEF HandlerTypeOK, Run
<1>4. \A i \in 1 .. n :
        /\ RunBefore(i) <= queue[i].run
        /\ queue[i].type = "INIT"
             \/ \A r \in RunBefore(i) + 1 .. queue[i].run : r \in lost'
  BY DEF QueueRunInv, LostBetween
<1>5. \A i \in 1 .. n + 1 :
        /\ RunBefore(i)' <= queue'[i].run
        /\ queue'[i].type = "INIT"
             \/ \A r \in RunBefore(i)' + 1 .. queue'[i].run : r \in lost'
  <2>1. ASSUME NEW i \in 1 .. n + 1
        PROVE  i \in 1 .. n \/ i = n + 1
    BY <1>1
  <2>2. QED
    BY <2>1, <1>1, <1>2, <1>3, <1>4
<1>6. LastRun' = run'
  BY <1>1, f.run = run' DEF LastRun
<1>7. LastRun' <= run' /\ LostBetween(LastRun, run)'
  <2>1. run' + 1 .. run' = {} /\ run' <= run'
    <3>1. run' \in Nat
      BY <1>3
    <3>2. QED
      BY ONLY <3>1, NoneBetween, Zenon
  <2>2. QED
    BY <1>6, <2>1 DEF LostBetween
<1>8. (\A i \in 1 .. Len(queue) :
         /\ RunBefore(i) <= queue[i].run
         /\ queue[i].type = "INIT" \/ LostBetween(RunBefore(i), queue[i].run))'
  BY <1>1, <1>5 DEF LostBetween, RunBefore
<1>9. QED
  BY <1>7, <1>8 DEF QueueRunInv

LEMMA RunStepSubmit ==
  ASSUME HandlerTypeOK, HandlerTypeOK', RunInv, Submit
  PROVE  RunInv'
<1> USE DEF handlerState, threadState, senderState
<1>1. PICK content \in Contents : Put(Received(content, run))
  BY DEF Submit
<1>2. Received(content, run) \in ReceivedFrame /\ Received(content, run).run = run
  BY ContentTyped DEF HandlerTypeOK
<1>3. CASE Fits
  <2>1. QueueRunInv /\ frame' = frame /\ run' = run /\ lost' = lost
    BY DEF Submit, RunInv
  <2>2. LastRun <= run' /\ \A r \in LastRun + 1 .. run' : r \in lost'
    BY <2>1 DEF QueueRunInv, LostBetween
  <2>3. QueueRunInv'
    BY <1>1, <1>2, <1>3, <2>1, <2>2, PutKeepsRuns
  <2>4. TrackRunInv'
    BY DEF Submit, RunInv, TrackRunInv, LostBetween
  <2>5. QED
    BY <2>3, <2>4 DEF RunInv
<1>4. CASE ~Fits
  BY <1>1, <1>4 DEF Submit, Put, RunInv, QueueRunInv, TrackRunInv, RunBefore,
     LastRun, LostBetween
<1>5. QED
  BY <1>3, <1>4

(* An INIT that does not get into the queue is one more that is lost.      *)
LEMMA RunStepSender ==
  ASSUME HandlerTypeOK, HandlerTypeOK', RunInv, SenderStarts
  PROVE  RunInv'
<1> USE DEF handlerState, threadState
<1> DEFINE f == Received([type |-> "INIT", timestamp |-> 0], run')
<1>1. f \in ReceivedFrame /\ f.run = run' /\ f.type = "INIT"
  BY InitFrameTyped DEF HandlerTypeOK
<1>2. /\ frame' = frame /\ run' = run + 1 /\ lost \subseteq lost'
      /\ \/ Fits /\ Put(f)
         \/ queue' = queue /\ run' \in lost'
  BY DEF SenderStarts, Put
<1> HIDE DEF f
<1>3. LastRun <= run /\ LostBetween(LastRun, run) /\ LastRun \in Nat /\ run \in Nat
  BY RunsAreNumbers DEF RunInv, QueueRunInv
<1>4. TrackRunInv'
  BY <1>2 DEF SenderStarts, RunInv, TrackRunInv, LostBetween
<1>5. CASE Fits /\ Put(f)
  <2>1. LastRun <= run' /\ QueueRunInv
    BY <1>2, <1>3 DEF RunInv
  <2>2. QueueRunInv'
    BY <1>1, <1>2, <1>5, <2>1, PutKeepsRuns
  <2>3. QED
    BY <1>4, <2>2 DEF RunInv
<1>6. CASE queue' = queue /\ run' \in lost'
  <2>1. queue' = queue /\ LastRun' = LastRun
    BY <1>2, <1>6 DEF LastRun
  <2>2. \A r \in LastRun + 1 .. run + 1 : r \in LastRun + 1 .. run \/ r = run + 1
    BY <1>3
  <2>3. LastRun <= run + 1 /\ \A r \in LastRun + 1 .. run + 1 : r \in lost'
    BY <1>2, <1>3, <1>6, <2>2 DEF LostBetween
  <2>4. (\A i \in 1 .. Len(queue) :
          /\ RunBefore(i) <= queue[i].run
          /\ queue[i].type = "INIT" \/ LostBetween(RunBefore(i), queue[i].run))'
    BY <1>2, <2>1 DEF RunInv, QueueRunInv, RunBefore, LostBetween
  <2>5. QueueRunInv'
    BY <1>2, <2>1, <2>3, <2>4 DEF QueueRunInv, LostBetween
  <2>6. QED
    BY <1>4, <2>5 DEF RunInv
<1>7. QED
  BY <1>2, <1>5, <1>6

LEMMA RunStepGet ==
  ASSUME HandlerTypeOK, HandlerTypeOK', RunInv, GetFrame
  PROVE  RunInv'
<1> USE DEF handlerState, senderState
<1> DEFINE n == Len(queue)
<1>1. /\ queue /= <<>> /\ frame' = queue[1] /\ queue' = Tail(queue)
      /\ n \in Nat /\ n >= 1 /\ Len(queue') = n - 1
      /\ \A i \in 1 .. n - 1 : queue'[i] = queue[i + 1]
      /\ pc = "get" /\ pc' = "handle" /\ run' = run /\ lost' = lost
      /\ track' = track /\ trackRun' = trackRun
  BY TakeFacts DEF GetFrame
<1>2. /\ \A i \in 1 .. n : queue[i].run \in Nat
      /\ frame.run \in Nat /\ trackRun \in Nat
  BY RunsAreNumbers
<1>3. RunBefore(1) = frame.run /\ \A i \in 1 .. n - 1 : RunBefore(i + 1) = queue[i].run
  BY <1>1 DEF RunBefore
<1>4. /\ frame.run <= queue[1].run
      /\ queue[1].type = "INIT" \/ LostBetween(frame.run, queue[1].run)
  BY <1>1, <1>3 DEF RunInv, QueueRunInv
<1>5. \A i \in 1 .. n - 1 :
        /\ queue[i].run <= queue[i + 1].run
        /\ queue[i + 1].type = "INIT" \/ LostBetween(queue[i].run, queue[i + 1].run)
  <2>1. \A i \in 1 .. n - 1 : i + 1 \in 1 .. n
    BY <1>1
  <2>2. QED
    BY <1>3, <2>1 DEF RunInv, QueueRunInv
<1>6. \A i \in 1 .. n - 1 : RunBefore(i)' = queue[i].run
  <2>1. \A i \in 1 .. n - 1 : i /= 1 => i - 1 \in 1 .. n - 1 /\ (i - 1) + 1 = i
    BY <1>1
  <2>2. QED
    BY <1>1, <2>1 DEF RunBefore
<1>7. LastRun' = LastRun
  <2>1. (queue' = <<>>) <=> (Len(queue') = 0)
    BY EmptySeq DEF HandlerTypeOK
  <2>2. CASE n = 1
    BY <1>1, <2>1, <2>2 DEF LastRun
  <2>3. CASE n /= 1
    <3>1. n - 1 \in 1 .. n - 1 /\ (n - 1) + 1 = n /\ n - 1 /= 0
      BY <1>1, <2>3
    <3>2. queue'[Len(queue')] = queue[n] /\ queue' /= <<>>
      BY <1>1, <2>1, <3>1
    <3>3. QED
      BY <1>1, <3>2 DEF LastRun
  <2>4. QED
    BY <2>2, <2>3
<1>8. QueueRunInv'
  <2>1. (\A i \in 1 .. Len(queue) :
          /\ RunBefore(i) <= queue[i].run
          /\ queue[i].type = "INIT" \/ LostBetween(RunBefore(i), queue[i].run))'
    BY <1>1, <1>5, <1>6 DEF RunBefore, LostBetween
  <2>2. (LastRun <= run /\ LostBetween(LastRun, run))'
    BY <1>1, <1>7 DEF RunInv, QueueRunInv, LostBetween
  <2>3. QED
    BY <2>1, <2>2 DEF QueueRunInv
<1>9. TrackRunInv'
  <2>1. trackRun <= queue[1].run
    BY <1>1, <1>2, <1>4 DEF RunInv, TrackRunInv
  <2>2. track.state /= "EMPTY" /\ queue[1].type /= "INIT" =>
          LostBetween(trackRun, queue[1].run)
    BY <1>1, <1>2, <1>4, LostTransitive DEF RunInv, TrackRunInv
  <2>3. QED
    BY <1>1, <2>1, <2>2 DEF TrackRunInv, LostBetween
<1>10. QED
  BY <1>8, <1>9 DEF RunInv

(* What leaves the queue and the runs alone.                               *)
LEMMA QueueRunKept ==
  ASSUME QueueRunInv, UNCHANGED <<queue, frame, run, lost>>
  PROVE  QueueRunInv'
<1>1. (\A i \in 1 .. Len(queue) :
         /\ RunBefore(i) <= queue[i].run
         /\ queue[i].type = "INIT" \/ LostBetween(RunBefore(i), queue[i].run))'
  BY DEF QueueRunInv, RunBefore, LostBetween
<1>2. (LastRun <= run /\ LostBetween(LastRun, run))'
  BY DEF QueueRunInv, LastRun, LostBetween
<1>3. QED
  BY <1>1, <1>2 DEF QueueRunInv

LEMMA RunStepHandle ==
  ASSUME HandlerTypeOK, RunInv, Handle
  PROVE  RunInv'
<1> USE DEF handlerState, senderState, RunInv
<1>1. /\ UNCHANGED <<queue, frame, run, lost>>
      /\ pc = "handle" /\ pc' = "check" /\ frame.run \in Nat
  BY RunsAreNumbers DEF Handle, AfterFrame
<1>2. QueueRunInv'
  BY <1>1, QueueRunKept
<1>3. CASE HandlerInit
  BY <1>1, <1>2, <1>3, HandlerInitFacts DEF TrackRunInv
<1>4. CASE frame.type = "MEAS" /\ HandleMeasurement
  <2>1. trackRun' = IF track.state = "EMPTY" THEN frame.run ELSE trackRun
    BY <1>4, MeasurementFacts
  <2>2. CASE track.state = "EMPTY"
    <3>1. frame.run + 1 .. frame.run = {} /\ frame.run <= frame.run
      BY <1>1, NoneBetween
    <3>2. QED
      BY <1>1, <1>2, <2>1, <2>2, <3>1 DEF TrackRunInv, LostBetween
  <2>3. CASE track.state /= "EMPTY"
    BY <1>1, <1>2, <1>4, <2>1, <2>3 DEF TrackRunInv, LostBetween
  <2>4. QED
    BY <2>2, <2>3
<1>5. CASE frame.type /= "INIT" /\ UNCHANGED handlerState
  BY <1>1, <1>2, <1>5 DEF TrackRunInv, LostBetween
<1>6. QED
  BY <1>3, <1>4, <1>5 DEF Handle, HandleFrame

LEMMA RunStep ==
  ASSUME HandlerTypeOK, HandlerTypeOK', RunInv, [Next]_handlerVars
  PROVE  RunInv'
<1> USE DEF handlerState, threadState, senderState
<1>1. CASE Submit
  BY <1>1, RunStepSubmit
<1>2. CASE SenderStarts
  BY <1>2, RunStepSender
<1>3. CASE GetFrame
  BY <1>3, RunStepGet
<1>4. CASE GetTimesOut
  BY <1>4, QueueRunKept DEF GetTimesOut, RunInv, TrackRunInv, LostBetween
<1>5. CASE Handle
  BY <1>5, RunStepHandle
<1>6. CASE CheckTimeout
  <2>1. QueueRunInv'
    BY <1>6, QueueRunKept DEF CheckTimeout, RunInv
  <2>2. CASE HandlerInit
    BY <1>6, <2>1, <2>2, HandlerInitFacts DEF CheckTimeout, RunInv, TrackRunInv
  <2>3. CASE UNCHANGED handlerState
    BY <1>6, <2>1, <2>3 DEF CheckTimeout, RunInv, TrackRunInv, LostBetween
  <2>4. QED
    BY <1>6, <2>2, <2>3 DEF CheckTimeout
<1>7. CASE Tick
  <2>1. /\ Len(queue') = Len(queue) /\ Len(queue) \in Nat
        /\ \A i \in 1 .. Len(queue) :
             queue'[i].type = queue[i].type /\ queue'[i].run = queue[i].run
        /\ frame'.type = frame.type /\ frame'.run = frame.run
        /\ UNCHANGED <<pc, track, run, lost, trackRun>>
    BY <1>7, TickFacts DEF Tick
  <2>2. \A i \in 1 .. Len(queue) : i /= 1 => i - 1 \in 1 .. Len(queue)
    BY <2>1
  <2>3. (\A i \in 1 .. Len(queue) :
          /\ RunBefore(i) <= queue[i].run
          /\ queue[i].type = "INIT" \/ LostBetween(RunBefore(i), queue[i].run))'
    BY <2>1, <2>2 DEF RunInv, QueueRunInv, RunBefore, LostBetween
  <2>4. LastRun' = LastRun
    <3>1. /\ (queue = <<>>) <=> (Len(queue) = 0)
          /\ (queue' = <<>>) <=> (Len(queue') = 0)
      BY EmptySeq DEF HandlerTypeOK
    <3>2. queue /= <<>> => Len(queue) \in 1 .. Len(queue)
      BY <2>1, <3>1
    <3>3. QED
      BY <2>1, <3>1, <3>2 DEF LastRun
  <2>5. (LastRun <= run /\ LostBetween(LastRun, run))'
    BY <2>1, <2>4 DEF RunInv, QueueRunInv, LostBetween
  <2>6. QED
    BY <2>1, <2>3, <2>5 DEF RunInv, QueueRunInv, TrackRunInv, LostBetween
<1>8. CASE UNCHANGED handlerVars
  BY <1>8, QueueRunKept DEF handlerVars, RunInv, TrackRunInv, LostBetween
<1>9. QED
  BY NextCases, <1>1, <1>2, <1>3, <1>4, <1>5, <1>6, <1>7, <1>8

----------------------------------------------------------------------------
(* The theorems.                                                           *)

LEMMA InitEstablishes ==
  ASSUME Init
  PROVE  IInv
<1>1. queue = <<>> /\ Len(queue) = 0 /\ queue \in Seq(ReceivedFrame)
  BY EmptySeq DEF Init
<1>2. track \in TrackRecord /\ track.state = "EMPTY"
  BY TrackInitTyped DEF Init, TrackInit
<1>3. frame \in ReceivedFrame /\ frame.run = 1 /\ frame.type = "UNKNOWN"
  BY HandlerAssumption, TrackAssumption
     DEF Init, NoFrame, ReceivedFrame, FrameTypes, Timestamp, Age, Run
<1>4. HandlerTypeOK
  <2>1. timeout_armed \in BOOLEAN
    BY Zenon DEF Init
  <2>2. QED
    BY <1>1, <1>2, <1>3, <2>1, HandlerAssumption DEF Init, HandlerTypeOK, Age, Run
<1>5. EveryTrackIsWatched /\ NewsInv
  BY <1>2 DEF Init, EveryTrackIsWatched, NewsInv
<1>6. 1 + 1 .. 1 = {}
  OBVIOUS
<1>7. QueueRunInv
  BY <1>1, <1>3, <1>6 DEF Init, QueueRunInv, LastRun, LostBetween
<1>8. TrackRunInv
  BY <1>2, <1>3 DEF Init, TrackRunInv
<1>9. QED
  BY <1>4, <1>5, <1>7, <1>8 DEF IInv

(* The inductive invariant of the handler holds in every reachable state   *)
(* (frame_handler.c:30-212).                                               *)
THEOREM HandlerInvariant == Spec => []IInv
<1>1. Init => IInv
  BY InitEstablishes
<1>2. IInv /\ [Next]_handlerVars => IInv'
  <2>1. IInv /\ [Next]_handlerVars => HandlerTypeOK'
    BY TypeStep DEF IInv
  <2>2. IInv /\ [Next]_handlerVars => WatchInv'
    BY WatchStep DEF IInv, WatchInv
  <2>3. IInv /\ [Next]_handlerVars => RunInv'
    BY <2>1, RunStep DEF IInv, RunInv
  <2>4. QED
    BY <2>1, <2>2, <2>3 DEF IInv, WatchInv, RunInv
<1>3. QED
  BY <1>1, <1>2, PTL DEF Spec

(* The queue never holds more than its depth, whatever the RX thread and a *)
(* starting sender put into it (frame_handler.c:19, :211).                 *)
THEOREM HandlerIsTyped == Spec => []HandlerTypeOK
<1>1. IInv => HandlerTypeOK
  BY DEF IInv
<1>2. QED
  BY <1>1, HandlerInvariant, PTL

(* No order of frames, resets and timeouts leaves a track that the timeout *)
(* does not watch (frame_handler.c:25, :74, :134-137).                     *)
THEOREM HandlerWatchesEveryTrack == Spec => []EveryTrackIsWatched
<1>1. IInv => EveryTrackIsWatched
  BY DEF IInv
<1>2. QED
  BY <1>1, HandlerInvariant, PTL

(* Measurements of two runs of a sender meet in one track only if the INIT *)
(* of the later run was lost (frame_handler.c:82-85, :211).                *)
THEOREM HandlerSeparatesRuns == Spec => []RunsMeetOnlyAfterLoss
<1>1. IInv => RunsMeetOnlyAfterLoss
  <2> SUFFICES ASSUME IInv, RunsMeet
               PROVE  frame.run \in lost
    BY DEF RunsMeetOnlyAfterLoss
  <2>1. LostBetween(trackRun, frame.run) /\ trackRun <= frame.run
    BY DEF IInv, TrackRunInv, RunsMeet
  <2>2. frame.run \in Nat /\ trackRun \in Nat /\ frame.run /= trackRun
    BY RunsAreNumbers DEF IInv, RunsMeet
  <2>3. frame.run \in trackRun + 1 .. frame.run
    BY <2>1, <2>2
  <2>4. QED
    BY <2>1, <2>3 DEF LostBetween
<1>2. QED
  BY <1>1, HandlerInvariant, PTL

(* A measurement that waited in the queue for the timeout leaves no track  *)
(* behind (frame_handler.c:50, :134-136).                                  *)
THEOREM HandlerClearsOldNews == Spec => OldNewsLeavesNoTrack
<1> DEFINE Cleared == pc = "check" /\ pc' = "get" /\ frame.type = "MEAS"
                        /\ frame.age >= RADAR_RX_TIMEOUT => track'.state = "EMPTY"
<1>1. IInv /\ [Next]_handlerVars => [Cleared]_handlerVars
  <2> SUFFICES ASSUME IInv, Next, pc = "check", pc' = "get", frame.type = "MEAS",
                      frame.age >= RADAR_RX_TIMEOUT
               PROVE  track'.state = "EMPTY"
    OBVIOUS
  <2>1. CheckTimeout
    BY DEF Next, HandlerThread, Submit, SenderStarts, GetFrame, GetTimesOut,
           Handle, AfterFrame, Tick, threadState
  <2>2. HandlerTypeOK /\ NewsInv
    BY DEF IInv
  <2>3. CASE track.state = "EMPTY"
    BY <2>1, <2>2, <2>3, HandlerInitFacts DEF CheckTimeout, handlerState
  <2>4. CASE track.state /= "EMPTY"
    <3>1. timeout_armed /\ last_valid_rx = frame.age
      BY <2>2, <2>4 DEF NewsInv
    <3>2. HandlerInit
      BY <2>1, <3>1 DEF CheckTimeout
    <3>3. QED
      BY <2>2, <3>2, HandlerInitFacts
  <2>5. QED
    BY <2>3, <2>4
<1>2. QED
  BY <1>1, HandlerInvariant, PTL DEF Spec, OldNewsLeavesNoTrack

----------------------------------------------------------------------------
(* The composition of sender, line and handler.                            *)

(* What HilNext comes down to.                                             *)
LEMMA HilNextCases ==
  ASSUME [HilNext]_hilVars
  PROVE  \/ HilNoCommand \/ HilStop \/ HilStart
         \/ HilSend \/ HilEnds \/ HilIdles
         \/ HilHandler \/ HilTick \/ UNCHANGED hilVars
BY DEF HilNext, HilWorker

(* A silence adds up to the longest one at most.                           *)
LEMMA SilenceFacts ==
  ASSUME HilAssumption
  PROVE  /\ PERIOD + SLACK \in Nat /\ LongestSilence \in Nat
         /\ PERIOD + SLACK <= LongestSilence /\ PERIOD + SLACK >= 1
         /\ \A m \in 0 .. MAX_LOST :
              /\ m * (PERIOD + SLACK) \in Nat
              /\ m * (PERIOD + SLACK) + (PERIOD + SLACK) <= LongestSilence
              /\ (m + 1) * (PERIOD + SLACK) = m * (PERIOD + SLACK) + (PERIOD + SLACK)
         /\ 0 * (PERIOD + SLACK) = 0
<1> DEFINE gap == PERIOD + SLACK
<1>1. gap \in Nat /\ gap >= 1 /\ MAX_LOST \in Nat
  BY DEF HilAssumption
<1>2. LongestSilence = (MAX_LOST + 1) * gap
  BY DEF LongestSilence
<1> HIDE DEF gap
<1>3. \A m \in Nat : m * gap \in Nat /\ (m + 1) * gap = m * gap + gap
  BY <1>1
<1>4. \A m \in 0 .. MAX_LOST : m * gap <= MAX_LOST * gap
  BY <1>1
<1>5. 0 * gap = 0
  BY <1>1
<1>6. LongestSilence = MAX_LOST * gap + gap /\ MAX_LOST * gap \in Nat
  BY <1>1, <1>2, <1>3
<1>7. ASSUME NEW m \in 0 .. MAX_LOST
      PROVE  /\ m * gap \in Nat /\ m * gap + gap <= LongestSilence
             /\ (m + 1) * gap = m * gap + gap
  <2>1. m \in Nat /\ m * gap <= MAX_LOST * gap
    BY <1>1, <1>4
  <2>2. m * gap \in Nat /\ (m + 1) * gap = m * gap + gap
    BY <1>3, <2>1
  <2>3. QED
    BY <1>1, <1>6, <2>1, <2>2
<1>8. LongestSilence \in Nat /\ gap <= LongestSilence
  BY <1>1, <1>6
<1>9. QED
  BY <1>1, <1>5, <1>7, <1>8 DEF gap

LEMMA ClockStep ==
  ASSUME HilAssumption, ClockInv, [HilNext]_hilVars
  PROVE  ClockInv'
<1> USE DEF ClockInv, HilAssumption, WakesUp, GoesOn, FallsAsleep, turnState
<1>1. CASE HilNoCommand
  BY <1>1 DEF HilNoCommand, clockState
<1>2. CASE HilStop
  BY <1>2 DEF HilStop
<1>3. CASE HilStart
  BY <1>3 DEF HilStart, StartsRun
<1>4. CASE HilSend
  BY <1>4 DEF HilSend
<1>5. CASE HilEnds
  <2>1. sending' \in BOOLEAN
    BY <1>5, Zenon DEF HilEnds
  <2>2. QED
    BY <1>5, <2>1 DEF HilEnds
<1>6. CASE HilIdles
  BY <1>6 DEF HilIdles, clockState
<1>7. CASE HilHandler
  BY <1>7 DEF HilHandler, clockState
<1>8. CASE HilTick
  BY <1>8 DEF HilTick, MayWait, RunGoesOn, Due
<1>9. CASE UNCHANGED hilVars
  BY <1>9 DEF hilVars, clockState
<1>10. QED
  BY HilNextCases, <1>1, <1>2, <1>3, <1>4, <1>5, <1>6, <1>7, <1>8, <1>9

(* What a measurement of the sender is to the handler.                     *)
LEMMA MeasurementTyped ==
  ASSUME HilAssumption, ClockInv
  PROVE  [type |-> "MEAS", timestamp |-> elapsed] \in Contents
BY DEF HilAssumption, ClockInv

LEMMA HandlerStep ==
  ASSUME HilAssumption, ClockInv, [HilNext]_hilVars
  PROVE  [Next]_handlerVars
<1> USE DEF Next
<1>1. CASE HilStart
  BY <1>1 DEF HilStart
<1>2. CASE HilSend
  <2>1. CASE Put(Received([type |-> "MEAS", timestamp |-> elapsed], run))
    BY <1>2, <2>1, MeasurementTyped DEF HilSend, Submit, handlerState, senderState
  <2>2. CASE UNCHANGED queue
    BY <1>2, <2>2 DEF HilSend, handlerVars, threadState, handlerState, senderState
  <2>3. QED
    BY <1>2, <2>1, <2>2 DEF HilSend
<1>3. CASE HilNoCommand \/ HilStop \/ HilEnds \/ HilIdles
  BY <1>3 DEF HilNoCommand, HilStop, HilEnds, HilIdles
<1>4. CASE HilHandler
  BY <1>4 DEF HilHandler
<1>5. CASE HilTick
  BY <1>5 DEF HilTick
<1>6. CASE UNCHANGED hilVars
  BY <1>6 DEF hilVars
<1>7. QED
  BY HilNextCases, <1>1, <1>2, <1>3, <1>4, <1>5, <1>6

LEMMA HilInitEstablishes ==
  ASSUME HilAssumption, HilInit
  PROVE  HilInv
<1>1. /\ queue = <<>> /\ Len(queue) = 0 /\ sending = FALSE
      /\ track.state = "EMPTY" /\ pc = "get"
      /\ trackRun = 1 /\ frame.run = 1 /\ run = 1
  BY EmptySeq DEF HilInit, Init, NoFrame, TrackInit
<1>2. ClockInv
  <2>1. sending \in BOOLEAN
    BY <1>1, Zenon
  <2>2. QED
    BY <2>1 DEF HilInit, ClockInv, HilAssumption
<1>3. WaitInv /\ SilenceInv /\ TrackTimeInv
  BY <1>1 DEF WaitInv, SilenceInv, TrackTimeInv
<1>4. TimestampInv /\ RoomInv /\ FirstNewsInv
  BY <1>1 DEF TimestampInv, RoomInv, FirstNewsInv
<1>5. QED
  BY <1>2, <1>3, <1>4 DEF HilInv

(* Every step of the composition is one of FrameHandler, or none of its:   *)
(* so its invariant may be used here.                                      *)
LEMMA HilRefinesHandler == HilAssumption => (HilSpec => Spec)
<1> SUFFICES ASSUME HilAssumption PROVE HilSpec => Spec
  OBVIOUS
<1>1. HilInit => ClockInv /\ Init
  BY HilInitEstablishes DEF HilInit, HilInv
<1>2. ClockInv /\ [HilNext]_hilVars => ClockInv'
  BY ClockStep
<1>3. ClockInv /\ [HilNext]_hilVars => [Next]_handlerVars
  BY HandlerStep
<1>4. QED
  BY <1>1, <1>2, <1>3, PTL DEF HilSpec, Spec

----------------------------------------------------------------------------
(* The invariant of the composition.                                       *)

(* The ages and timestamps that are compared are numbers.                  *)
LEMMA AgesAreNumbers ==
  ASSUME HandlerTypeOK
  PROVE  /\ \A i \in 1 .. Len(queue) :
              queue[i].age \in Nat /\ queue[i].timestamp \in Nat
         /\ frame.age \in Nat /\ frame.timestamp \in Nat
         /\ LastFrame.timestamp \in Nat
         /\ last_valid_rx \in Nat /\ track.last_measurement_time \in Nat
<1>1. \A f \in ReceivedFrame : f.age \in Nat /\ f.timestamp \in Nat
  BY HandlerAssumption, TrackAssumption DEF ReceivedFrame, Age, Timestamp
<1>2. \A i \in 1 .. Len(queue) : queue[i] \in ReceivedFrame
  BY DEF HandlerTypeOK
<1>3. frame \in ReceivedFrame /\ LastFrame \in ReceivedFrame
  <2>1. queue /= <<>> => Len(queue) \in 1 .. Len(queue)
    BY EmptySeq DEF HandlerTypeOK
  <2>2. QED
    BY <1>2, <2>1 DEF HandlerTypeOK, LastFrame
<1>4. last_valid_rx \in Nat
  BY HandlerAssumption DEF HandlerTypeOK, Age
<1>5. track.last_measurement_time \in Nat
  BY TrackAssumption DEF HandlerTypeOK, TrackRecord, Timestamp
<1>6. QED
  BY <1>1, <1>2, <1>3, <1>4, <1>5

(* A frame of the current run joins a queue with room for it.              *)
LEMMA PutWaits ==
  ASSUME HilAssumption, HandlerTypeOK, HilInv, NEW f \in ReceivedFrame,
         Fits, Put(f), UNCHANGED <<pc, frame, trackRun>>,
         f.run = run', run <= run', run' \in Nat,
         f.type \in {"INIT", "MEAS"}, f.age = 0
  PROVE  WaitInv'
<1> DEFINE n == Len(queue)
<1>1. /\ run \in Nat /\ frame.run \in Nat /\ trackRun \in Nat /\ n \in Nat
      /\ \A i \in 1 .. n : queue[i].run \in Nat
  BY RunsAreNumbers
<1>2. WaitInv
  BY DEF HilInv
<1>3. /\ Len(queue') = n + 1 /\ queue'[n + 1] = f
      /\ \A i \in 1 .. n : queue'[i] = queue[i]
  BY PutFacts
<1>4. ASSUME NEW i \in 1 .. n + 1
      PROVE  /\ queue'[i].age <= LATENCY /\ queue'[i].type \in {"INIT", "MEAS"}
             /\ frame.run <= queue'[i].run /\ queue'[i].run <= run'
  <2>1. CASE i \in 1 .. n
    BY <1>1, <1>2, <1>3, <2>1 DEF WaitInv
  <2>2. CASE i = n + 1
    BY <1>1, <1>2, <1>3, <2>2 DEF HilAssumption, WaitInv
  <2>3. QED
    BY <1>1, <2>1, <2>2
<1>5. ASSUME NEW i \in 1 .. n + 1, NEW j \in i .. n + 1
      PROVE  queue'[i].run <= queue'[j].run
  <2>1. CASE j \in 1 .. n
    <3>1. i \in 1 .. n /\ j \in i .. n
      BY <1>1, <2>1
    <3>2. QED
      BY <1>2, <1>3, <3>1 DEF WaitInv
  <2>2. CASE j = n + 1
    BY <1>3, <1>4, <2>2
  <2>3. QED
    BY <1>1, <2>1, <2>2
<1>6. trackRun' <= frame'.run /\ frame'.run <= run'
  BY <1>1, <1>2 DEF WaitInv
<1>7. QED
  BY <1>2, <1>3, <1>4, <1>5, <1>6 DEF WaitInv

LEMMA PutSucceeds ==
  ASSUME HandlerTypeOK, HilInv, NEW f \in ReceivedFrame, Fits, Put(f),
         frame' = frame, Succeeds(f, LastFrame)
  PROVE  /\ \A i \in 2 .. Len(queue') : Succeeds(queue'[i], queue'[i - 1])
         /\ Succeeds(queue'[1], frame')
         /\ queue' /= <<>> /\ LastFrame' = f
<1> DEFINE n == Len(queue)
<1>1. /\ n \in Nat /\ Len(queue') = n + 1 /\ queue'[n + 1] = f /\ queue' /= <<>>
      /\ \A i \in 1 .. n : queue'[i] = queue[i]
  BY PutFacts
<1>2. queue = <<>> <=> n = 0
  BY EmptySeq DEF HandlerTypeOK
<1>3. TimestampInv
  BY DEF HilInv
<1>4. ASSUME NEW i \in 2 .. n + 1
      PROVE  Succeeds(queue'[i], queue'[i - 1])
  <2>1. CASE i \in 2 .. n
    <3>1. i \in 1 .. n /\ i - 1 \in 1 .. n
      BY <1>1, <2>1
    <3>2. Succeeds(queue[i], queue[i - 1])
      BY <1>3, <2>1 DEF TimestampInv
    <3>3. QED
      BY <1>1, <3>1, <3>2
  <2>2. CASE i = n + 1
    <3>1. n \in 1 .. n /\ i - 1 = n
      BY <1>1, <2>2
    <3>2. LastFrame = queue[n]
      BY <1>1, <1>2, <3>1 DEF LastFrame
    <3>3. QED
      BY <1>1, <2>2, <3>1, <3>2
  <2>3. QED
    BY <1>1, <2>1, <2>2
<1>5. Succeeds(queue'[1], frame')
  <2>1. CASE n = 0
    <3>1. LastFrame = frame /\ queue'[1] = f
      BY <1>1, <1>2, <2>1 DEF LastFrame
    <3>2. QED
      BY <3>1
  <2>2. CASE n /= 0
    <3>1. 1 \in 1 .. n /\ queue /= <<>>
      BY <1>1, <1>2, <2>2
    <3>2. Succeeds(queue[1], frame)
      BY <1>3, <3>1 DEF TimestampInv
    <3>3. QED
      BY <1>1, <3>1, <3>2
  <2>3. QED
    BY <2>1, <2>2
<1>6. LastFrame' = f
  BY <1>1 DEF LastFrame
<1>7. QED
  BY <1>1, <1>4, <1>5, <1>6

(* A run of the next sender begins: what waits is of older runs.           *)
LEMMA StartStep ==
  ASSUME HilAssumption, HandlerTypeOK, HandlerTypeOK', HilInv, HilStart
  PROVE  WaitInv' /\ SilenceInv' /\ TimestampInv' /\ TrackTimeInv'
<1> DEFINE n == Len(queue)
           f == Received([type |-> "INIT", timestamp |-> 0], run')
<1>1. /\ frame' = frame /\ pc' = pc /\ track' = track /\ trackRun' = trackRun
      /\ last_valid_rx' = last_valid_rx
      /\ run' = run + 1 /\ since' = PERIOD /\ missing' = 0 /\ sending'
  BY DEF HilStart, SenderStarts, StartsRun, threadState, handlerState
<1>2. /\ run \in Nat /\ frame.run \in Nat /\ trackRun \in Nat /\ n \in Nat
      /\ \A i \in 1 .. n : queue[i].run \in Nat
  BY RunsAreNumbers
<1>3. WaitInv
  BY DEF HilInv
<1>4. TrackTimeInv'
  BY <1>1 DEF HilInv, TrackTimeInv
<1>5. Silence' = PERIOD /\ PERIOD \in Nat
  BY <1>1, SilenceFacts DEF Silence, HilAssumption
<1>6. frame.run < run' /\ trackRun < run' /\ \A i \in 1 .. n : queue[i].run < run'
  BY <1>1, <1>2, <1>3 DEF WaitInv
<1>7. CASE queue' = queue
  <2>1. WaitInv'
    BY <1>1, <1>2, <1>3, <1>6, <1>7 DEF WaitInv
  <2>2. SilenceInv'
    BY <1>1, <1>2, <1>6, <1>7 DEF SilenceInv
  <2>3. LastFrame' = LastFrame /\ LastFrame.run /= run'
    <3>1. queue /= <<>> => n \in 1 .. n
      BY <1>2, EmptySeq DEF HandlerTypeOK
    <3>2. QED
      BY <1>1, <1>2, <1>6, <1>7, <3>1 DEF LastFrame
  <2>4. TimestampInv'
    BY <1>1, <1>7, <2>3 DEF HilInv, TimestampInv, Succeeds
  <2>5. QED
    BY <1>4, <2>1, <2>2, <2>4
<1>8. CASE Fits /\ Put(f)
  <2>1. f \in ReceivedFrame /\ f.run = run' /\ f.type = "INIT" /\ f.age = 0
    BY InitFrameTyped DEF HandlerTypeOK, Received
  <2> HIDE DEF f
  <2>2. /\ Len(queue') = n + 1 /\ queue' /= <<>> /\ queue'[n + 1] = f
        /\ \A i \in 1 .. n : queue'[i] = queue[i]
    BY <1>8, <2>1, PutFacts
  <2>3. WaitInv'
    BY <1>1, <1>2, <1>8, <2>1, PutWaits
  <2>4. SilenceInv'
    <3>1. ASSUME NEW i \in 1 .. n + 1, queue'[i].run = run'
          PROVE  queue'[i].age <= OldestBefore(i)'
      <4>1. i = n + 1
        BY <1>2, <1>6, <2>2, <3>1
      <4>2. OldestBefore(i)' = Silence'
        BY <1>2, <2>2, <4>1 DEF OldestBefore
      <4>3. QED
        BY <1>5, <2>1, <2>2, <4>1, <4>2
    <3>2. QED
      BY <1>1, <1>2, <1>6, <2>2, <3>1 DEF SilenceInv
  <2>5. TimestampInv'
    <3>1. Succeeds(f, LastFrame)
      BY <2>1 DEF Succeeds
    <3>2. QED
      BY <1>1, <1>8, <2>1, <3>1, PutSucceeds DEF TimestampInv
  <2>6. QED
    BY <1>4, <2>3, <2>4, <2>5
<1>9. QED
  BY <1>7, <1>8 DEF HilStart, SenderStarts, Put

(* A measurement is sent, and the queue has room for it.                   *)
LEMMA SendStep ==
  ASSUME HilAssumption, HandlerTypeOK, HandlerTypeOK', HilInv, QueueKeepsUp, HilSend
  PROVE  WaitInv' /\ SilenceInv' /\ TimestampInv' /\ TrackTimeInv'
<1> DEFINE n == Len(queue)
           gap == PERIOD + SLACK
           f == Received([type |-> "MEAS", timestamp |-> elapsed], run)
<1>1. /\ frame' = frame /\ pc' = pc /\ track' = track /\ trackRun' = trackRun
      /\ last_valid_rx' = last_valid_rx /\ elapsed' = elapsed
      /\ run' = run /\ since' = 0 /\ sending' /\ sending /\ since >= PERIOD /\ Fits
  BY DEF HilSend, threadState, handlerState, senderState, FallsAsleep, Due, QueueKeepsUp
<1>2. /\ run \in Nat /\ frame.run \in Nat /\ trackRun \in Nat /\ n \in Nat
      /\ \A i \in 1 .. n : queue[i].run \in Nat
  BY RunsAreNumbers
<1>3. /\ ClockInv /\ WaitInv /\ SilenceInv /\ TimestampInv
      /\ since \in 0 .. gap /\ missing \in 0 .. MAX_LOST /\ elapsed \in Nat
      /\ PERIOD \in Nat /\ PERIOD >= 1
  BY DEF HilInv, ClockInv, HilAssumption
<1>4. TrackTimeInv'
  BY <1>1 DEF HilInv, TrackTimeInv
<1>5. /\ gap \in Nat /\ missing * gap \in Nat /\ LongestSilence \in Nat
      /\ Silence = missing * gap + since
      /\ missing * gap + gap <= LongestSilence
      /\ (missing + 1) * gap = missing * gap + gap
      /\ 0 * gap = 0
  BY <1>3, SilenceFacts DEF Silence
<1>6. Silence \in Nat /\ Silence <= LongestSilence
  BY <1>3, <1>5
<1>7. LastFrame.run = run /\ LastFrame.type = "MEAS" =>
        /\ LastFrame.timestamp + since <= elapsed
        /\ elapsed <= LastFrame.timestamp + Silence
  BY <1>1, <1>3 DEF TimestampInv
<1>8. queue = <<>> <=> n = 0
  BY EmptySeq DEF HandlerTypeOK
<1>9. CASE missing' = missing + 1 /\ queue' = queue
  <2>1. Silence' = missing * gap + gap
    BY <1>1, <1>5, <1>9 DEF Silence
  <2>2. Silence <= Silence' /\ Silence' \in Nat
    BY <1>3, <1>5, <2>1
  <2>3. /\ \A i \in 0 .. n : OldestBefore(i)' = IF i < n THEN OldestBefore(i) ELSE Silence'
        /\ OldestBefore(n) = Silence
    BY <1>2, <1>9 DEF OldestBefore
  <2>4. \A i \in 0 .. n, a \in Nat : a <= OldestBefore(i) => a <= OldestBefore(i)'
    BY <1>2, <1>6, <2>2, <2>3
  <2>5. WaitInv'
    BY <1>1, <1>3, <1>9 DEF WaitInv
  <2>6. SilenceInv'
    <3>1. ASSUME NEW i \in 1 .. n, queue[i].run = run
          PROVE  queue[i].age <= OldestBefore(i)'
      BY <1>1, <1>3, <2>4, <3>1, AgesAreNumbers DEF SilenceInv
    <3>2. pc = "handle" /\ frame.run = run => frame.age <= OldestBefore(0)'
      BY <1>1, <1>2, <1>3, <2>4, AgesAreNumbers DEF SilenceInv
    <3>3. trackRun = run /\ track.state /= "EMPTY" =>
            last_valid_rx <= IF pc = "handle" THEN frame.age + LongestSilence
                                              ELSE OldestBefore(0)'
      BY <1>1, <1>2, <1>3, <2>4, AgesAreNumbers DEF SilenceInv
    <3>4. QED
      BY <1>1, <1>9, <3>1, <3>2, <3>3 DEF SilenceInv
  <2>7. TimestampInv'
    <3>1. LastFrame' = LastFrame /\ LastFrame.timestamp \in Nat
      BY <1>1, <1>9, AgesAreNumbers DEF LastFrame
    <3>2. LastFrame.run = run /\ LastFrame.type = "MEAS" =>
            /\ LastFrame.timestamp + since' <= elapsed
            /\ elapsed <= LastFrame.timestamp + Silence'
      BY <1>1, <1>3, <1>6, <1>7, <2>2, <3>1
    <3>3. QED
      BY <1>1, <1>3, <1>9, <3>1, <3>2 DEF TimestampInv, Succeeds
  <2>8. QED
    BY <1>4, <2>5, <2>6, <2>7
<1>10. CASE missing' = 0 /\ Put(f)
  <2>1. /\ f \in ReceivedFrame /\ f.run = run /\ f.type = "MEAS" /\ f.age = 0
        /\ f.timestamp = elapsed
    BY <1>3, MeasurementTyped, ContentTyped DEF HandlerTypeOK, Received
  <2> HIDE DEF f
  <2>2. /\ Len(queue') = n + 1 /\ queue' /= <<>> /\ queue'[n + 1] = f
        /\ \A i \in 1 .. n : queue'[i] = queue[i]
    BY <1>1, <1>10, <2>1, PutFacts
  <2>3. WaitInv'
    BY <1>1, <1>2, <1>10, <2>1, PutWaits
  <2>4. Silence' = 0
    BY <1>1, <1>5, <1>10 DEF Silence
  <2> HIDE DEF gap
  <2>5. /\ \A i \in 0 .. n - 1 : OldestBefore(i)' = OldestBefore(i)
        /\ OldestBefore(n) = Silence
        /\ \A i \in 0 .. n + 1 :
             OldestBefore(i)' = IF i < n THEN OldestBefore(i)
                                ELSE IF i = n THEN LongestSilence ELSE 0
    <3>1. \A i \in 0 .. n - 1 : i + 1 \in 1 .. n
      BY <1>2
    <3>2. QED
      BY <1>2, <1>5, <2>1, <2>2, <2>4, <3>1 DEF OldestBefore
  <2>6. SilenceInv'
    <3>1. ASSUME NEW i \in 1 .. n + 1, queue'[i].run = run'
          PROVE  queue'[i].age <= OldestBefore(i)'
      <4>1. CASE i = n + 1
        BY <1>2, <2>1, <2>2, <2>5, <4>1
      <4>2. CASE i \in 1 .. n
        <5>1. queue'[i] = queue[i] /\ queue[i].age <= OldestBefore(i)
          BY <1>1, <1>3, <2>2, <3>1, <4>2 DEF SilenceInv
        <5>2. queue[i].age \in Nat
          BY <4>2, AgesAreNumbers
        <5>3. QED
          BY <1>2, <1>5, <1>6, <2>5, <4>2, <5>1, <5>2
      <4>3. QED
        BY <1>2, <4>1, <4>2
    <3>2. /\ frame.age \in Nat /\ last_valid_rx \in Nat
      BY AgesAreNumbers
    <3>3. \A a \in Nat : a <= OldestBefore(0) => a <= OldestBefore(0)'
      BY <1>2, <1>5, <1>6, <2>5
    <3>4. QED
      BY <1>1, <1>3, <2>2, <3>1, <3>2, <3>3 DEF SilenceInv
  <2>7. TimestampInv'
    <3>1. LastFrame.timestamp \in Nat
      BY AgesAreNumbers
    <3>2. Succeeds(f, LastFrame)
      BY <1>1, <1>3, <1>5, <1>6, <1>7, <2>1, <3>1 DEF Succeeds
    <3>3. /\ \A i \in 2 .. Len(queue') : Succeeds(queue'[i], queue'[i - 1])
          /\ Succeeds(queue'[1], frame') /\ LastFrame' = f
      BY <1>1, <1>10, <2>1, <3>2, PutSucceeds
    <3>4. f.timestamp + since' <= elapsed' /\ elapsed' <= f.timestamp + Silence'
      BY <1>1, <1>3, <2>1, <2>4
    <3>5. QED
      BY <3>3, <3>4 DEF TimestampInv
  <2>8. QED
    BY <1>4, <2>3, <2>6, <2>7
<1>11. QED
  BY <1>9, <1>10 DEF HilSend

(* The thread takes a frame: what was before the queue is before it.       *)
LEMMA TakeStep ==
  ASSUME HilAssumption, HandlerTypeOK, HandlerTypeOK', HilInv, GetFrame,
         UNCHANGED clockState
  PROVE  WaitInv' /\ SilenceInv' /\ TimestampInv' /\ TrackTimeInv'
<1> DEFINE n == Len(queue)
<1>1. /\ pc = "get" /\ pc' = "handle" /\ track' = track /\ trackRun' = trackRun
      /\ last_valid_rx' = last_valid_rx /\ run' = run
      /\ sending' = sending /\ elapsed' = elapsed /\ since' = since
      /\ missing' = missing /\ Silence' = Silence
  BY DEF GetFrame, handlerState, senderState, clockState, Silence
<1>2. /\ n \in Nat /\ n >= 1 /\ Len(queue') = n - 1 /\ frame' = queue[1]
      /\ \A i \in 1 .. n - 1 : queue'[i] = queue[i + 1]
  BY TakeFacts DEF GetFrame
<1>3. /\ run \in Nat /\ frame.run \in Nat /\ trackRun \in Nat
      /\ \A i \in 1 .. n : queue[i].run \in Nat
  BY RunsAreNumbers
<1>4. ClockInv /\ WaitInv /\ SilenceInv /\ TimestampInv /\ TrackTimeInv
  BY DEF HilInv
<1>5. 1 \in 1 .. n /\ \A i \in 1 .. n - 1 : i + 1 \in 1 .. n
  BY <1>2
<1>6. WaitInv'
  <2>1. ASSUME NEW i \in 1 .. n - 1
        PROVE  /\ queue'[i].age <= LATENCY /\ queue'[i].type \in {"INIT", "MEAS"}
               /\ queue[1].run <= queue'[i].run /\ queue'[i].run <= run
               /\ \A j \in i .. n - 1 : queue'[i].run <= queue'[j].run
    <3>1. i + 1 \in 1 .. n /\ i + 1 \in 1 .. n
          /\ \A j \in i .. n - 1 : j \in 1 .. n - 1 /\ j + 1 \in i + 1 .. n
      BY <1>2
    <3>2. QED
      BY <1>2, <1>4, <1>5, <3>1 DEF WaitInv
  <2>2. /\ queue[1].age <= LATENCY /\ queue[1].type \in {"INIT", "MEAS"}
        /\ trackRun <= queue[1].run /\ queue[1].run <= run
    BY <1>3, <1>4, <1>5 DEF WaitInv
  <2>3. QED
    BY <1>1, <1>2, <2>1, <2>2 DEF WaitInv
<1>7. \A i \in 0 .. n - 1 : OldestBefore(i)' = OldestBefore(i + 1)
  <2>1. ASSUME NEW i \in 0 .. n - 1
        PROVE  OldestBefore(i)' = OldestBefore(i + 1)
    <3>1. CASE i < n - 1
      <4>1. i + 1 \in 1 .. n - 1 /\ i + 1 < n
        BY <1>2, <3>1
      <4>2. QED
        BY <1>2, <3>1, <4>1 DEF OldestBefore
    <3>2. CASE i = n - 1
      BY <1>1, <1>2, <3>2 DEF OldestBefore
    <3>3. QED
      BY <1>2, <3>1, <3>2
  <2>2. QED
    BY <2>1
<1>8. SilenceInv'
  <2>1. ASSUME sending, NEW i \in 1 .. n - 1, queue'[i].run = run
        PROVE  queue'[i].age <= OldestBefore(i)'
    BY <1>2, <1>4, <1>5, <1>7, <2>1 DEF SilenceInv
  <2>2. sending /\ queue[1].run = run => queue[1].age <= OldestBefore(0)'
    BY <1>2, <1>4, <1>5, <1>7 DEF SilenceInv
  <2>3. OldestBefore(0) = queue[1].age + LongestSilence
    BY <1>2 DEF OldestBefore
  <2>4. sending /\ trackRun = run /\ track.state /= "EMPTY" =>
          last_valid_rx <= queue[1].age + LongestSilence
    BY <1>1, <1>4, <2>3 DEF SilenceInv
  <2>5. QED
    BY <1>1, <1>2, <2>1, <2>2, <2>4 DEF SilenceInv
<1>9. TimestampInv'
  <2>1. ASSUME NEW i \in 2 .. n - 1
        PROVE  Succeeds(queue'[i], queue'[i - 1])
    <3>1. i + 1 \in 2 .. n /\ (i + 1) - 1 = i /\ (i - 1) + 1 = i
          /\ i \in 1 .. n - 1 /\ i - 1 \in 1 .. n - 1
      BY <1>2
    <3>2. Succeeds(queue[i + 1], queue[(i + 1) - 1])
      BY <1>4, <3>1 DEF TimestampInv
    <3>3. QED
      BY <1>2, <3>1, <3>2
  <2>2. queue' /= <<>> => Succeeds(queue'[1], frame')
    <3>1. SUFFICES ASSUME queue' /= <<>> PROVE Succeeds(queue'[1], queue[1])
      BY <1>2
    <3>2. 2 \in 2 .. n /\ 2 - 1 = 1 /\ 1 \in 1 .. n - 1 /\ 1 + 1 = 2
      <4>1. Len(queue') /= 0
        BY <3>1, EmptySeq DEF HandlerTypeOK
      <4>2. QED
        BY <1>2, <4>1
    <3>3. Succeeds(queue[2], queue[2 - 1])
      BY <1>4, <3>2 DEF TimestampInv
    <3>4. QED
      BY <1>2, <3>2, <3>3
  <2>3. LastFrame' = LastFrame
    <3>1. LastFrame = queue[n]
      BY DEF LastFrame, GetFrame
    <3>2. CASE n = 1
      <4>1. queue' = <<>>
        BY <1>2, <3>2, EmptySeq DEF HandlerTypeOK
      <4>2. QED
        BY <1>2, <3>1, <3>2, <4>1 DEF LastFrame
    <3>3. CASE n > 1
      <4>1. queue' /= <<>> /\ n - 1 \in 1 .. n - 1 /\ (n - 1) + 1 = n
        BY <1>2, <3>3, EmptySeq DEF HandlerTypeOK
      <4>2. LastFrame' = queue'[n - 1]
        BY <1>2, <4>1 DEF LastFrame
      <4>3. QED
        BY <1>2, <3>1, <4>1, <4>2
    <3>4. QED
      BY <1>2, <3>2, <3>3
  <2>4. QED
    BY <1>1, <1>2, <1>4, <2>1, <2>2, <2>3 DEF TimestampInv
<1>10. TrackTimeInv'
  <2> SUFFICES ASSUME track.state /= "EMPTY", trackRun = queue[1].run,
                      queue[1].type = "MEAS"
               PROVE  /\ track.last_measurement_time < queue[1].timestamp
                      /\ queue[1].timestamp
                           <= track.last_measurement_time + LongestSilence
    BY <1>1, <1>2 DEF TrackTimeInv
  <2>1. frame.run = trackRun
    BY <1>3, <1>4, <1>5 DEF WaitInv
  <2>2. frame.type = "MEAS" /\ track.last_measurement_time = frame.timestamp
    BY <1>1, <1>4, <2>1 DEF TrackTimeInv
  <2>3. Succeeds(queue[1], frame)
    BY <1>4 DEF TimestampInv, GetFrame
  <2>4. QED
    BY <2>1, <2>2, <2>3 DEF Succeeds
<1>11. QED
  BY <1>6, <1>8, <1>9, <1>10

(* A measurement that follows the track's last one soon enough predicts,   *)
(* unless the track is lost.                                               *)
LEMMA SoonPredicts ==
  ASSUME RateAssumption, HilAssumption, NEW t \in TrackRecord, NEW ts \in Timestamp,
         t.state \notin {"EMPTY", "LOST"}, t.last_measurement_time < ts,
         ts <= t.last_measurement_time + LongestSilence
  PROVE  Predicts(t, ts)
<1>1. t.last_measurement_time \in Nat /\ ts \in Nat /\ LongestSilence \in Nat
  BY TrackAssumption, SilenceFacts DEF TrackRecord, Timestamp
<1>2. Delta(t, ts) = ts - t.last_measurement_time
  BY <1>1 DEF Delta
<1>3. QED
  BY <1>1, <1>2, TrackAssumption DEF Predicts, NotAfter, RateAssumption

(* A track that survives such a measurement is as of it.                   *)
LEMMA UpdateMoves ==
  ASSUME RateAssumption, HilAssumption, NEW t \in TrackRecord, NEW ts \in Timestamp,
         NEW inGate \in BOOLEAN, UpdateTrack(t, ts, inGate).state /= "EMPTY",
         t.state /= "EMPTY" => /\ t.last_measurement_time < ts
                               /\ ts <= t.last_measurement_time + LongestSilence
  PROVE  UpdateTrack(t, ts, inGate).last_measurement_time = ts
<1> DEFINE u == UpdateTrack(t, ts, inGate)
           p == TrackPredict(t, ts)
<1>1. CASE t.state = "EMPTY" /\ u = TrackStart(ts)
  BY <1>1 DEF TrackStart
<1>2. CASE t.state /= "EMPTY" /\ ~Predicts(t, ts) /\ u = p
  <2>1. t.state = "LOST"
    BY <1>2, SoonPredicts
  <2>2. u = TrackInit
    BY <1>2, <2>1 DEF TrackPredict
  <2>3. QED
    BY <2>2 DEF TrackInit
<1>3. CASE Predicts(t, ts) /\ u = TrackHit(p)
  <2>1. p \in TrackRecord /\ p.state \notin {"EMPTY", "LOST"} /\ p.last_measurement_time = ts
    BY <1>3, PredictMoves DEF Predicts
  <2>2. QED
    BY <1>3, <2>1, HitCounts
<1>4. CASE u = TrackInit
  BY <1>4 DEF TrackInit
<1>5. CASE Predicts(t, ts) /\ t.state \in {"CONFIRMED", "COASTING"} /\ u = TrackMiss(p)
  <2>1. /\ p \in TrackRecord /\ p.state \in {"CONFIRMED", "COASTING"}
        /\ p.last_measurement_time = ts
    BY <1>5, PredictMoves
  <2>2. QED
    BY <1>5, <2>1, MissCounts
<1>6. QED
  BY <1>1, <1>2, <1>3, <1>4, <1>5, UpdateCases

(* What leaves the queue, the frame and the clocks alone, and moves a      *)
(* track at most to the frame the thread has taken.                        *)
LEMMA QuietStep ==
  ASSUME HilInv, UNCHANGED <<queue, frame, run, clockState>>,
         \/ trackRun' = trackRun
         \/ pc = "handle" /\ trackRun' = frame.run,
         pc' /= "handle" \/ pc' = pc,
         HandlerTypeOK, HandlerTypeOK'
  PROVE  /\ WaitInv' /\ TimestampInv'
         /\ \A i \in 0 .. Len(queue) : OldestBefore(i)' = OldestBefore(i)
<1>1. /\ queue' = queue /\ frame' = frame /\ run' = run /\ sending' = sending
      /\ elapsed' = elapsed /\ since' = since /\ missing' = missing
      /\ Silence' = Silence
  BY DEF clockState, Silence
<1>2. WaitInv /\ TimestampInv
  BY DEF HilInv
<1>3. frame.run \in Nat /\ trackRun \in Nat
  BY RunsAreNumbers
<1>4. WaitInv'
  BY <1>1, <1>2, <1>3 DEF WaitInv
<1>5. TimestampInv'
  BY <1>1, <1>2 DEF TimestampInv, Succeeds, LastFrame
<1>6. \A i \in 0 .. Len(queue) : OldestBefore(i)' = OldestBefore(i)
  BY <1>1 DEF OldestBefore
<1>7. QED
  BY <1>4, <1>5, <1>6

(* The thread handles a frame: the track is as of it, or it is not.        *)
LEMMA HandleStep ==
  ASSUME HilAssumption, RateAssumption, HandlerTypeOK, HandlerTypeOK', HilInv,
         Handle, UNCHANGED clockState
  PROVE  WaitInv' /\ SilenceInv' /\ TimestampInv' /\ TrackTimeInv'
<1>1. /\ pc = "handle" /\ pc' = "check" /\ queue' = queue /\ frame' = frame
      /\ run' = run /\ sending' = sending
  BY DEF Handle, AfterFrame, senderState, clockState
<1>2. /\ WaitInv /\ SilenceInv /\ TrackTimeInv /\ frame.type \in {"INIT", "MEAS"}
      /\ trackRun <= frame.run /\ frame.run <= run
  BY <1>1 DEF HilInv, WaitInv
<1>3. frame.run \in Nat /\ trackRun \in Nat /\ run \in Nat /\ 0 \in 0 .. Len(queue)
  BY RunsAreNumbers
<1>4. CASE HandlerInit
  <2>1. track'.state = "EMPTY" /\ trackRun' = trackRun
    BY <1>4, HandlerInitFacts
  <2>2. /\ WaitInv' /\ TimestampInv'
        /\ \A i \in 0 .. Len(queue) : OldestBefore(i)' = OldestBefore(i)
    BY <1>1, <2>1, QuietStep
  <2>3. SilenceInv' /\ TrackTimeInv'
    BY <1>1, <1>2, <1>3, <2>1, <2>2 DEF SilenceInv, TrackTimeInv
  <2>4. QED
    BY <2>2, <2>3
<1>5. CASE frame.type = "MEAS" /\ HandleMeasurement
  <2>1. /\ last_valid_rx' = frame.age
        /\ trackRun' = IF track.state = "EMPTY" THEN frame.run ELSE trackRun
    BY <1>5, MeasurementFacts
  <2>2. /\ WaitInv' /\ TimestampInv'
        /\ \A i \in 0 .. Len(queue) : OldestBefore(i)' = OldestBefore(i)
    BY <1>1, <2>1, QuietStep
  <2>3. SilenceInv'
    <3>1. trackRun' = run => frame.run = run
      BY <1>2, <1>3, <2>1
    <3>2. sending /\ trackRun' = run => frame.age <= OldestBefore(0)
      BY <1>1, <1>2, <3>1 DEF SilenceInv
    <3>3. QED
      BY <1>1, <1>2, <1>3, <2>1, <2>2, <3>2 DEF SilenceInv
  <2>4. TrackTimeInv'
    <3>1. SUFFICES ASSUME track'.state /= "EMPTY", trackRun' = frame.run
                   PROVE  track'.last_measurement_time = frame.timestamp
      BY <1>1, <1>5 DEF TrackTimeInv
    <3>2. PICK inGate \in BOOLEAN : track' = UpdateTrack(track, frame.timestamp, inGate)
      BY <1>5 DEF HandleMeasurement
    <3>3. track \in TrackRecord /\ frame.timestamp \in Timestamp
      BY DEF HandlerTypeOK, ReceivedFrame
    <3>4. track.state /= "EMPTY" =>
            /\ track.last_measurement_time < frame.timestamp
            /\ frame.timestamp <= track.last_measurement_time + LongestSilence
      BY <1>1, <1>2, <1>5, <2>1, <3>1 DEF TrackTimeInv
    <3>5. QED
      BY <3>1, <3>2, <3>3, <3>4, UpdateMoves
  <2>5. QED
    BY <2>2, <2>3, <2>4
<1>6. QED
  BY <1>2, <1>4, <1>5 DEF Handle, HandleFrame

(* The thread waits, or checks the timeout.                                *)
LEMMA RestStep ==
  ASSUME HandlerTypeOK, HandlerTypeOK', HilInv, GetTimesOut \/ CheckTimeout,
         UNCHANGED clockState
  PROVE  WaitInv' /\ SilenceInv' /\ TimestampInv' /\ TrackTimeInv'
<1>1. /\ pc \in {"get", "check"} /\ pc' \in {"get", "check"} /\ queue' = queue
      /\ frame' = frame /\ run' = run /\ sending' = sending
  BY DEF GetTimesOut, CheckTimeout, senderState, clockState
<1>2. \/ track'.state = "EMPTY" /\ trackRun' = trackRun
      \/ track' = track /\ trackRun' = trackRun /\ last_valid_rx' = last_valid_rx
  BY HandlerInitFacts DEF GetTimesOut, CheckTimeout, handlerState
<1>3. /\ WaitInv' /\ TimestampInv'
      /\ \A i \in 0 .. Len(queue) : OldestBefore(i)' = OldestBefore(i)
  BY <1>1, <1>2, QuietStep
<1>4. SilenceInv /\ TrackTimeInv /\ 0 \in 0 .. Len(queue)
  BY RunsAreNumbers DEF HilInv
<1>5. SilenceInv' /\ TrackTimeInv'
  BY <1>1, <1>2, <1>3, <1>4 DEF SilenceInv, TrackTimeInv
<1>6. QED
  BY <1>3, <1>5

(* Neither a turn without a frame nor the end of a run tells the handler   *)
(* anything.                                                               *)
LEMMA SilentStep ==
  ASSUME HilInv, HilNoCommand \/ HilStop \/ HilEnds \/ HilIdles
  PROVE  WaitInv' /\ SilenceInv' /\ TimestampInv' /\ TrackTimeInv' /\ FirstNewsInv'
<1>1. /\ sending' => sending
      /\ UNCHANGED <<handlerVars, elapsed, since, missing>>
  BY DEF HilNoCommand, HilStop, HilEnds, HilIdles, clockState
<1>2. /\ queue' = queue /\ frame' = frame /\ run' = run /\ pc' = pc
      /\ track' = track /\ trackRun' = trackRun /\ last_valid_rx' = last_valid_rx
      /\ timeout_armed' = timeout_armed
  BY <1>1 DEF handlerVars, threadState, handlerState, senderState
<1>3. /\ Silence' = Silence /\ \A i : OldestBefore(i)' = OldestBefore(i)
      /\ LastFrame' = LastFrame
  BY <1>1, <1>2 DEF Silence, OldestBefore, LastFrame
<1>4. WaitInv' /\ TrackTimeInv'
  BY <1>2 DEF HilInv, WaitInv, TrackTimeInv
<1>5. SilenceInv'
  BY <1>1, <1>2, <1>3 DEF HilInv, SilenceInv
<1>6. TimestampInv'
  BY <1>1, <1>2, <1>3 DEF HilInv, TimestampInv, Succeeds
<1>7. FirstNewsInv'
  BY <1>1, <1>2, <1>3 DEF HilInv, FirstNewsInv, News, FrameBefore
<1>8. QED
  BY <1>4, <1>5, <1>6, <1>7

(* Time passes for the frames that wait, and for the silence that lasts.   *)
LEMMA HilTickFacts ==
  ASSUME HilAssumption, RateAssumption, HandlerTypeOK, HilInv, HilTick
  PROVE  /\ Len(queue') = Len(queue) /\ Len(queue) \in Nat
         /\ \A i \in 1 .. Len(queue) :
              /\ queue'[i].type = queue[i].type /\ queue'[i].run = queue[i].run
              /\ queue'[i].timestamp = queue[i].timestamp
              /\ queue'[i].age = queue[i].age + 1 /\ queue'[i].age <= LATENCY
         /\ frame'.type = frame.type /\ frame'.run = frame.run
         /\ frame'.timestamp = frame.timestamp
         /\ pc = "handle" =>
              frame'.age = frame.age + 1 /\ frame'.age <= LATENCY
         /\ last_valid_rx' <= last_valid_rx + 1
<1>1. MayWait /\ Tick /\ LATENCY \in Nat /\ RADAR_RX_TIMEOUT \in Nat
      /\ LATENCY < RADAR_RX_TIMEOUT
  BY SilenceFacts, HandlerAssumption DEF HilTick, HilAssumption, RateAssumption
<1>2. /\ queue \in Seq(ReceivedFrame) /\ Len(queue) \in Nat
      /\ DOMAIN queue = 1 .. Len(queue)
  BY DEF HandlerTypeOK
<1>3. Len(queue') = Len(queue) /\ last_valid_rx' = Older(last_valid_rx)
  BY <1>1, TickFacts
<1>4. queue' = [i \in 1 .. Len(queue) |-> [queue[i] EXCEPT !.age = Older(@)]]
  BY <1>1, <1>2 DEF Tick
<1>5. ASSUME NEW f \in ReceivedFrame, f.age < LATENCY
      PROVE  LET g == [f EXCEPT !.age = Older(@)]
             IN  /\ g.type = f.type /\ g.run = f.run /\ g.timestamp = f.timestamp
                 /\ g.age = f.age + 1 /\ g.age <= LATENCY
  <2>1. f.age \in Nat
    BY HandlerAssumption DEF ReceivedFrame, Age
  <2>2. Older(f.age) = f.age + 1 /\ f.age + 1 <= LATENCY
    BY <1>1, <1>5, <2>1 DEF Older
  <2>3. QED
    BY <2>2 DEF ReceivedFrame
<1>6. \A i \in 1 .. Len(queue) : queue[i] \in ReceivedFrame /\ queue[i].age < LATENCY
  BY <1>1, <1>2 DEF MayWait
<1>7. ASSUME NEW i \in 1 .. Len(queue)
      PROVE  /\ queue'[i].type = queue[i].type /\ queue'[i].run = queue[i].run
             /\ queue'[i].timestamp = queue[i].timestamp
             /\ queue'[i].age = queue[i].age + 1 /\ queue'[i].age <= LATENCY
  BY <1>4, <1>5, <1>6
<1>8. /\ frame' = [frame EXCEPT !.age = Older(@)] /\ frame \in ReceivedFrame
      /\ pc = "handle" => frame.age < LATENCY
  BY <1>1 DEF Tick, HandlerTypeOK, MayWait
<1>9. /\ frame'.type = frame.type /\ frame'.run = frame.run
      /\ frame'.timestamp = frame.timestamp
  BY <1>8 DEF ReceivedFrame
<1>10. pc = "handle" => frame'.age = frame.age + 1 /\ frame'.age <= LATENCY
  BY <1>5, <1>8
<1>11. last_valid_rx' <= last_valid_rx + 1
  BY <1>3, AgesAreNumbers DEF Older
<1>12. QED
  BY <1>2, <1>3, <1>7, <1>9, <1>10, <1>11

LEMMA TickStep ==
  ASSUME HilAssumption, RateAssumption, HandlerTypeOK, HandlerTypeOK', HilInv, HilTick
  PROVE  WaitInv' /\ SilenceInv' /\ TimestampInv' /\ TrackTimeInv'
<1> DEFINE n == Len(queue)
<1>1. /\ pc' = pc /\ track' = track /\ run' = run /\ trackRun' = trackRun
      /\ sending' = sending /\ missing' = missing
      /\ sending => since' = since + 1 /\ elapsed' = elapsed + 1
  BY DEF HilTick, Tick, senderState
<1>2. ClockInv /\ WaitInv /\ SilenceInv /\ TimestampInv /\ TrackTimeInv
  BY DEF HilInv
<1>3. /\ Len(queue') = n /\ n \in Nat
      /\ \A i \in 1 .. n :
           /\ queue'[i].type = queue[i].type /\ queue'[i].run = queue[i].run
           /\ queue'[i].timestamp = queue[i].timestamp
           /\ queue'[i].age = queue[i].age + 1 /\ queue'[i].age <= LATENCY
      /\ frame'.type = frame.type /\ frame'.run = frame.run
      /\ frame'.timestamp = frame.timestamp
      /\ pc = "handle" => frame'.age = frame.age + 1 /\ frame'.age <= LATENCY
      /\ last_valid_rx' <= last_valid_rx + 1
  BY HilTickFacts
<1>4. /\ \A i \in 1 .. n : queue[i].age \in Nat /\ queue[i].timestamp \in Nat
      /\ frame.age \in Nat /\ LastFrame.timestamp \in Nat
      /\ last_valid_rx \in Nat /\ last_valid_rx' \in Nat
  BY AgesAreNumbers, HandlerAssumption DEF HandlerTypeOK, Age
<1>5. /\ LongestSilence \in Nat /\ Silence \in Nat /\ since \in Nat /\ elapsed \in Nat
      /\ sending => Silence' = Silence + 1
  BY <1>1, <1>2, SilenceFacts DEF ClockInv, Silence, HilAssumption
<1>6. WaitInv'
  BY <1>1, <1>2, <1>3 DEF WaitInv
<1>7. sending => \A i \in 0 .. n :
        OldestBefore(i) \in Nat /\ OldestBefore(i)' = OldestBefore(i) + 1
  <2> SUFFICES ASSUME sending, NEW i \in 0 .. n
               PROVE  OldestBefore(i) \in Nat /\ OldestBefore(i)' = OldestBefore(i) + 1
    OBVIOUS
  <2>1. CASE i < n
    <3>1. i + 1 \in 1 .. n
      BY <1>3, <2>1
    <3>2. OldestBefore(i) = queue[i + 1].age + LongestSilence
      BY <2>1 DEF OldestBefore
    <3>3. OldestBefore(i)' = queue'[i + 1].age + LongestSilence
      BY <1>3, <2>1 DEF OldestBefore
    <3>4. QED
      BY <1>3, <1>4, <1>5, <3>1, <3>2, <3>3
  <2>2. CASE ~(i < n)
    BY <1>3, <1>5, <2>2 DEF OldestBefore
  <2>3. QED
    BY <2>1, <2>2
<1>8. SilenceInv'
  <2> SUFFICES ASSUME sending
               PROVE  /\ \A i \in 1 .. n :
                           queue'[i].run = run => queue'[i].age <= OldestBefore(i)'
                      /\ pc = "handle" /\ frame.run = run =>
                           frame'.age <= OldestBefore(0)'
                      /\ trackRun = run /\ track.state /= "EMPTY" =>
                           last_valid_rx' <= IF pc = "handle"
                                               THEN frame'.age + LongestSilence
                                               ELSE OldestBefore(0)'
    BY <1>1, <1>3 DEF SilenceInv
  <2>1. ASSUME NEW i \in 1 .. n, queue'[i].run = run
        PROVE  queue'[i].age <= OldestBefore(i)'
    <3>1. queue[i].age <= OldestBefore(i)
      BY <1>2, <1>3, <2>1 DEF SilenceInv
    <3>2. OldestBefore(i) \in Nat /\ OldestBefore(i)' = OldestBefore(i) + 1
      BY <1>3, <1>7
    <3>3. QED
      BY <1>3, <1>4, <3>1, <3>2
  <2>2. OldestBefore(0) \in Nat /\ OldestBefore(0)' = OldestBefore(0) + 1
    BY <1>3, <1>7
  <2>3. pc = "handle" /\ frame.run = run => frame'.age <= OldestBefore(0)'
    BY <1>2, <1>3, <1>4, <2>2 DEF SilenceInv
  <2>4. trackRun = run /\ track.state /= "EMPTY" =>
          last_valid_rx' <= IF pc = "handle" THEN frame'.age + LongestSilence
                                             ELSE OldestBefore(0)'
    BY <1>2, <1>3, <1>4, <1>5, <2>2 DEF SilenceInv
  <2>5. QED
    BY <2>1, <2>3, <2>4
<1>9. TimestampInv'
  <2>1. queue' = <<>> <=> queue = <<>>
    BY <1>3, EmptySeq DEF HandlerTypeOK
  <2>2. \A i \in 2 .. n : Succeeds(queue'[i], queue'[i - 1])
    <3>1. \A i \in 2 .. n : i \in 1 .. n /\ i - 1 \in 1 .. n
      BY <1>3
    <3>2. QED
      BY <1>2, <1>3, <3>1 DEF TimestampInv, Succeeds
  <2>3. queue' /= <<>> => Succeeds(queue'[1], frame')
    <3>1. queue /= <<>> => 1 \in 1 .. n
      BY <1>3, EmptySeq DEF HandlerTypeOK
    <3>2. QED
      BY <1>2, <1>3, <2>1, <3>1 DEF TimestampInv, Succeeds
  <2>4. /\ LastFrame'.type = LastFrame.type /\ LastFrame'.run = LastFrame.run
        /\ LastFrame'.timestamp = LastFrame.timestamp
    <3>1. queue /= <<>> => n \in 1 .. n
      BY <1>3, EmptySeq DEF HandlerTypeOK
    <3>2. QED
      BY <1>3, <2>1, <3>1 DEF LastFrame
  <2>5. QED
    BY <1>1, <1>2, <1>3, <1>4, <1>5, <2>2, <2>3, <2>4 DEF TimestampInv
<1>10. TrackTimeInv'
  BY <1>1, <1>2, <1>3 DEF TrackTimeInv
<1>11. QED
  BY <1>6, <1>8, <1>9, <1>10

----------------------------------------------------------------------------
(* Room in the queue: what waits in it came two in a turn at most.         *)

LEMMA TurnsForFacts ==
  ASSUME HilAssumption, NEW k \in Nat
  PROVE  /\ TurnsFor(k) \in Nat /\ TurnsFor(k + 2) = TurnsFor(k) + TURN
         /\ TURN \in Nat
<1>1. TURN \in Nat
  BY DEF HilAssumption
<1>2. k \div 2 \in Nat /\ (k + 2) \div 2 = (k \div 2) + 1
  OBVIOUS
<1>3. \A h \in Nat : h * TURN \in Nat /\ (h + 1) * TURN = h * TURN + TURN
  BY <1>1
<1>4. QED
  BY <1>1, <1>2, <1>3 DEF TurnsFor

LEMMA TurnsForOrdered ==
  ASSUME HilAssumption, NEW k \in Nat, NEW m \in Nat, k <= m
  PROVE  TurnsFor(k) <= TurnsFor(m)
<1>1. TURN \in Nat
  BY DEF HilAssumption
<1>2. k \div 2 \in Nat /\ m \div 2 \in Nat /\ k \div 2 <= m \div 2
  OBVIOUS
<1>3. \A h \in Nat, g \in Nat : h <= g => h * TURN <= g * TURN
  BY <1>1
<1>4. QED
  BY <1>2, <1>3 DEF TurnsFor

LEMMA FewTakeNoTurn ==
  ASSUME HilAssumption
  PROVE  TurnsFor(0) = 0 /\ TurnsFor(1) = 0
<1>1. TURN \in Nat /\ 0 \div 2 = 0 /\ 1 \div 2 = 0
  BY DEF HilAssumption
<1>2. 0 * TURN = 0
  BY <1>1
<1>3. QED
  BY <1>1, <1>2 DEF TurnsFor

(* What waits when the worker wakes up is old enough for a frame of the    *)
(* coming turn besides, and when it comes to the measurements, still.      *)
LEMMA WaitedATurn ==
  ASSUME HilAssumption, HandlerTypeOK, HilInv, WakesUp, NEW i \in 1 .. Len(queue)
  PROVE  /\ queue[i].age >= TurnsFor((Len(queue) - i) + 1)
         /\ queue[i].age >= TurnsFor((Len(queue) - i) + 2)
<1> DEFINE k == Len(queue) - i
<1>1. k \in Nat /\ queue[i].age \in Nat
  BY RunsAreNumbers, AgesAreNumbers
<1>2. queue[i].age >= slept + TurnsFor(k) /\ slept >= TURN /\ slept \in Nat
  BY DEF HilInv, RoomInv, TimeOf, WakesUp, ClockInv, HilAssumption
<1> HIDE DEF k
<1>3. /\ TurnsFor(k) \in Nat /\ TurnsFor(k + 2) = TurnsFor(k) + TURN /\ TURN \in Nat
      /\ TurnsFor(k + 1) \in Nat /\ TurnsFor(k + 1) <= TurnsFor(k + 2)
  <2>1. k + 1 \in Nat /\ k + 2 \in Nat /\ k + 1 <= k + 2
    BY <1>1
  <2>2. QED
    BY <1>1, <2>1, TurnsForFacts, TurnsForOrdered
<1>5. queue[i].age >= TurnsFor(k + 1) /\ queue[i].age >= TurnsFor(k + 2)
  BY <1>1, <1>2, <1>3
<1>6. QED
  BY <1>5 DEF k

LEMMA WaitedSoFar ==
  ASSUME HilAssumption, HandlerTypeOK, HilInv, phase = "sample",
         NEW i \in 1 .. Len(queue)
  PROVE  /\ queue[i].age >= TurnsFor(Len(queue) - i)
         /\ queue[i].age >= TurnsFor((Len(queue) - i) + 1)
<1> DEFINE k == Len(queue) - i
<1>1. k \in Nat /\ queue[i].age \in Nat
  BY RunsAreNumbers, AgesAreNumbers
<1>2. queue[i].age >= TurnsFor(k + 1)
  BY DEF HilInv, RoomInv, TimeOf
<1> HIDE DEF k
<1>3. /\ TurnsFor(k) \in Nat /\ TurnsFor(k + 1) \in Nat
      /\ TurnsFor(k) <= TurnsFor(k + 1)
  <2>1. k + 1 \in Nat /\ k <= k + 1
    BY <1>1
  <2>2. QED
    BY <1>1, <2>1, TurnsForFacts, TurnsForOrdered
<1>4. queue[i].age >= TurnsFor(k) /\ queue[i].age >= TurnsFor(k + 1)
  BY <1>1, <1>2, <1>3
<1>5. QED
  BY <1>4 DEF k

(* The sleep is over; an INIT may join the queue.                          *)
LEMMA RoomTurn ==
  ASSUME HilAssumption, HandlerTypeOK, HilInv, WakesUp, GoesOn, UNCHANGED queue
  PROVE  RoomInv'
<1>1. /\ Len(queue') = Len(queue) /\ phase' = "sample"
      /\ \A i \in 1 .. Len(queue) : queue'[i] = queue[i]
  BY DEF GoesOn
<1>2. \A i \in 1 .. Len(queue) : queue[i].age >= TurnsFor((Len(queue) - i) + 1)
  BY WaitedATurn
<1>3. QED
  BY <1>1, <1>2 DEF RoomInv, TimeOf

LEMMA RoomStart ==
  ASSUME HilAssumption, HandlerTypeOK, HandlerTypeOK', HilInv, HilStart
  PROVE  RoomInv'
<1> DEFINE n == Len(queue)
           f == Received([type |-> "INIT", timestamp |-> 0], run')
<1>1. WakesUp /\ GoesOn /\ phase' = "sample"
  BY DEF HilStart, GoesOn
<1>2. CASE queue' = queue
  BY <1>1, <1>2, RoomTurn
<1>3. CASE Fits /\ Put(f)
  <2>1. f \in ReceivedFrame /\ f.age = 0
    BY InitFrameTyped DEF HandlerTypeOK, Received
  <2> HIDE DEF f
  <2>2. /\ n \in Nat /\ Len(queue') = n + 1 /\ queue'[n + 1] = f
        /\ \A i \in 1 .. n : queue'[i] = queue[i]
    BY <1>3, <2>1, PutFacts
  <2>3. ASSUME NEW i \in 1 .. n + 1
        PROVE  queue'[i].age >= TurnsFor(((n + 1) - i) + 1)
    <3>1. CASE i \in 1 .. n
      <4>1. ((n + 1) - i) + 1 = (n - i) + 2
        BY <2>2, <3>1
      <4>2. queue[i].age >= TurnsFor((n - i) + 2)
        BY <1>1, <3>1, WaitedATurn
      <4>3. QED
        BY <2>2, <3>1, <4>1, <4>2
    <3>2. CASE i = n + 1
      <4>1. ((n + 1) - i) + 1 = 1
        BY <2>2, <3>2
      <4>2. queue'[i].age = 0 /\ TurnsFor(1) = 0
        BY <2>1, <2>2, <3>2, FewTakeNoTurn
      <4>3. QED
        BY <4>1, <4>2
    <3>3. QED
      BY <2>2, <3>1, <3>2
  <2>4. QED
    BY <1>1, <2>2, <2>3 DEF RoomInv, TimeOf
<1>4. QED
  BY <1>2, <1>3 DEF HilStart, SenderStarts, Put

(* The worker falls asleep; a measurement may join the queue.              *)
LEMMA RoomSleep ==
  ASSUME HilAssumption, HandlerTypeOK, HilInv, FallsAsleep, UNCHANGED queue
  PROVE  RoomInv'
<1>1. /\ Len(queue') = Len(queue) /\ phase' = "sleep" /\ phase' /= "sample"
      /\ slept' = 0 /\ phase = "sample" /\ Len(queue) \in Nat
      /\ \A i \in 1 .. Len(queue) : queue'[i] = queue[i]
  BY RunsAreNumbers DEF FallsAsleep
<1>2. ASSUME NEW i \in 1 .. Len(queue)
      PROVE  queue[i].age >= 0 + TurnsFor(Len(queue) - i)
  <2>1. queue[i].age >= TurnsFor(Len(queue) - i)
    BY <1>1, WaitedSoFar
  <2>2. TurnsFor(Len(queue) - i) \in Nat
    <3>1. Len(queue) - i \in Nat
      BY <1>1
    <3>2. QED
      BY <3>1, TurnsForFacts
  <2>3. QED
    BY <2>1, <2>2
<1>3. QED
  BY <1>1, <1>2 DEF RoomInv, TimeOf

LEMMA RoomSend ==
  ASSUME HilAssumption, HandlerTypeOK, HandlerTypeOK', HilInv, HilSend
  PROVE  RoomInv'
<1> DEFINE n == Len(queue)
           f == Received([type |-> "MEAS", timestamp |-> elapsed], run)
<1>1. FallsAsleep /\ phase = "sample" /\ phase' = "sleep" /\ slept' = 0
  BY DEF HilSend, FallsAsleep
<1>2. CASE queue' = queue
  BY <1>1, <1>2, RoomSleep
<1>3. CASE Fits /\ Put(f)
  <2>1. f \in ReceivedFrame /\ f.age = 0
    BY MeasurementTyped, ContentTyped DEF HandlerTypeOK, Received, HilInv
  <2> HIDE DEF f
  <2>2. /\ n \in Nat /\ Len(queue') = n + 1 /\ queue'[n + 1] = f
        /\ \A i \in 1 .. n : queue'[i] = queue[i]
    BY <1>3, <2>1, PutFacts
  <2>3. ASSUME NEW i \in 1 .. n + 1
        PROVE  queue'[i].age >= 0 + TurnsFor((n + 1) - i)
    <3>1. CASE i \in 1 .. n
      <4>1. (n + 1) - i = (n - i) + 1 /\ (n + 1) - i \in Nat
        BY <2>2, <3>1
      <4>2. queue[i].age >= TurnsFor((n - i) + 1)
        BY <1>1, <3>1, WaitedSoFar
      <4>3. TurnsFor((n + 1) - i) \in Nat
        BY <4>1, TurnsForFacts
      <4>4. queue'[i] = queue[i] /\ queue[i].age >= TurnsFor((n + 1) - i)
        BY <2>2, <3>1, <4>1, <4>2
      <4>5. QED
        BY <4>3, <4>4
    <3>2. CASE i = n + 1
      <4>1. (n + 1) - i = 0
        BY <2>2, <3>2
      <4>2. queue'[i].age = 0 /\ TurnsFor(0) = 0
        BY <2>1, <2>2, <3>2, FewTakeNoTurn
      <4>3. QED
        BY <4>1, <4>2
    <3>3. QED
      BY <2>2, <3>1, <3>2
  <2>4. QED
    BY <1>1, <2>2, <2>3 DEF RoomInv, TimeOf
<1>4. QED
  BY <1>2, <1>3 DEF HilSend, Put

LEMMA RoomThread ==
  ASSUME HandlerTypeOK, HilInv, HandlerThread, UNCHANGED turnState
  PROVE  RoomInv'
<1>1. RoomInv /\ phase' = phase /\ slept' = slept
  BY DEF turnState, HilInv
<1>2. CASE queue' = queue
  BY <1>1, <1>2 DEF RoomInv, TimeOf
<1>3. CASE GetFrame
  <2> DEFINE n == Len(queue)
  <2>1. /\ n \in Nat /\ Len(queue') = n - 1
        /\ \A i \in 1 .. n - 1 : queue'[i] = queue[i + 1]
    BY <1>3, TakeFacts DEF GetFrame
  <2>2. ASSUME NEW i \in 1 .. n - 1
        PROVE  queue'[i].age >= TimeOf((n - 1) - i)
    <3>1. i + 1 \in 1 .. n /\ (n - 1) - i = n - (i + 1)
      BY <2>1
    <3>2. queue[i + 1].age >= TimeOf(n - (i + 1))
      BY <1>1, <3>1 DEF RoomInv
    <3>3. QED
      BY <2>1, <3>1, <3>2
  <2>3. QED
    BY <1>1, <2>1, <2>2 DEF RoomInv, TimeOf
<1>4. QED
  BY <1>2, <1>3 DEF HandlerThread, GetTimesOut, Handle, CheckTimeout

LEMMA RoomTick ==
  ASSUME HilAssumption, RateAssumption, HandlerTypeOK, HilInv, HilTick
  PROVE  RoomInv'
<1> DEFINE n == Len(queue)
<1>1. /\ phase' = phase /\ slept \in Nat /\ slept' \in Nat /\ slept' <= slept + 1
      /\ RoomInv
  BY DEF HilTick, HilInv, ClockInv, HilAssumption
<1>2. /\ Len(queue') = n /\ n \in Nat
      /\ \A i \in 1 .. n :
           queue'[i].age = queue[i].age + 1 /\ queue[i].age \in Nat
  BY HilTickFacts, AgesAreNumbers
<1>3. ASSUME NEW i \in 1 .. n
      PROVE  queue'[i].age >= IF phase = "sleep" THEN slept' + TurnsFor(n - i)
                              ELSE TurnsFor((n - i) + 1)
  <2>1. queue[i].age >= IF phase = "sleep" THEN slept + TurnsFor(n - i)
                        ELSE TurnsFor((n - i) + 1)
    BY <1>1 DEF RoomInv, TimeOf
  <2>2. TurnsFor(n - i) \in Nat /\ TurnsFor((n - i) + 1) \in Nat
    <3>1. n - i \in Nat /\ (n - i) + 1 \in Nat
      BY <1>2
    <3>2. QED
      BY <3>1, TurnsForFacts
  <2>3. QED
    BY <1>1, <1>2, <2>1, <2>2
<1>4. QED
  BY <1>1, <1>2, <1>3 DEF RoomInv, TimeOf

(* Whoever wants to put a frame into the queue finds room.                 *)
LEMMA RoomSuffices ==
  ASSUME HilAssumption, RateAssumption, HandlerTypeOK, HilInv,
         WakesUp \/ phase = "sample"
  PROVE  Fits
<1> DEFINE n == Len(queue)
<1>1. /\ n \in Nat /\ LATENCY \in Nat /\ QUEUE_DEPTH \in Nat /\ QUEUE_DEPTH >= 1
  BY RunsAreNumbers, HandlerAssumption DEF HilAssumption
<1>2. CASE n = 0
  BY <1>1, <1>2 DEF Fits
<1>3. CASE n >= 1
  <2>1. 1 \in 1 .. n
    BY <1>1, <1>3
  <2>2. queue[1].age <= LATENCY /\ queue[1].age \in Nat
    BY <2>1, AgesAreNumbers DEF HilInv, WaitInv
  <2>3. queue[1].age >= TurnsFor((n - 1) + 1)
    BY <2>1, WaitedATurn, WaitedSoFar
  <2>4. (n - 1) + 1 = n
    BY <1>1
  <2>5. TurnsFor(n) <= LATENCY /\ TurnsFor(n) \in Nat
    <3>1. TurnsFor(n) \in Nat
      BY <1>1, TurnsForFacts
    <3>2. QED
      BY <1>1, <2>2, <2>3, <2>4, <3>1
  <2>6. ~(QUEUE_DEPTH <= n)
    <3>1. QUEUE_DEPTH <= n => TurnsFor(QUEUE_DEPTH) <= TurnsFor(n)
      BY <1>1, TurnsForOrdered
    <3>2. TurnsFor(QUEUE_DEPTH) \in Nat /\ LATENCY < TurnsFor(QUEUE_DEPTH)
      BY <1>1, TurnsForFacts DEF RateAssumption
    <3>3. QED
      BY <1>1, <2>5, <3>1, <3>2
  <2>7. QED
    BY <1>1, <2>6 DEF Fits
<1>4. QED
  BY <1>1, <1>2, <1>3

----------------------------------------------------------------------------
(* News of a run: the first comes in time, and there is some from then on. *)

LEMMA FirstNewsFacts ==
  ASSUME HilAssumption
  PROVE  FirstNews \in Nat /\ LongestSilence = FirstNews + PERIOD /\ PERIOD \in Nat
<1> DEFINE gap == PERIOD + SLACK
<1>1. gap \in Nat /\ MAX_LOST * gap \in Nat
      /\ (MAX_LOST + 1) * gap = MAX_LOST * gap + gap
  <2>1. MAX_LOST \in 0 .. MAX_LOST
    BY DEF HilAssumption
  <2>2. QED
    BY <2>1, SilenceFacts
<1>2. FirstNews = SLACK + MAX_LOST * gap /\ LongestSilence = (MAX_LOST + 1) * gap
  BY DEF FirstNews, LongestSilence
<1>3. SLACK \in Nat /\ PERIOD \in Nat /\ gap = PERIOD + SLACK
  BY DEF HilAssumption
<1> HIDE DEF gap
<1>4. QED
  BY <1>1, <1>2, <1>3

LEMMA SilenceBounded ==
  ASSUME HilAssumption, ClockInv
  PROVE  Silence \in Nat /\ Silence <= LongestSilence /\ LongestSilence \in Nat
BY SilenceFacts DEF ClockInv, Silence, HilAssumption

(* Nothing the handler refers to is older than the silence and the wait.   *)
LEMMA OldestBounded ==
  ASSUME HilAssumption, HandlerTypeOK, ClockInv, WaitInv
  PROVE  OldestBefore(0) \in Nat /\ OldestBefore(0) <= LongestSilence + LATENCY
<1>1. LATENCY \in Nat /\ LongestSilence \in Nat
  BY SilenceFacts DEF HilAssumption
<1>2. Silence \in Nat /\ Silence <= LongestSilence
  BY SilenceBounded
<1>3. Len(queue) \in Nat /\ (0 < Len(queue) => 1 \in 1 .. Len(queue))
  BY RunsAreNumbers
<1>4. 0 < Len(queue) => queue[1].age \in Nat /\ queue[1].age <= LATENCY
  BY <1>3, AgesAreNumbers DEF WaitInv
<1>5. QED
  BY <1>1, <1>2, <1>3, <1>4 DEF OldestBefore

(* Frames of older runs and INIT are no news.                              *)
LEMMA FirstNewsStart ==
  ASSUME HilAssumption, HandlerTypeOK, HandlerTypeOK', HilInv, HilStart
  PROVE  FirstNewsInv'
<1> DEFINE n == Len(queue)
           f == Received([type |-> "INIT", timestamp |-> 0], run')
<1>1. /\ frame' = frame /\ run' = run + 1 /\ since' = PERIOD /\ missing' = 0
      /\ elapsed' = 0
  BY DEF HilStart, SenderStarts, StartsRun, threadState
<1>2. /\ run \in Nat /\ frame.run \in Nat /\ n \in Nat
      /\ \A i \in 1 .. n : queue[i].run \in Nat /\ queue[i].run <= run
      /\ frame.run <= run
  BY RunsAreNumbers DEF HilInv, WaitInv
<1>3. frame.run /= run' /\ \A i \in 1 .. n : queue[i].run /= run'
  BY <1>1, <1>2
<1>4. Silence' = PERIOD /\ PERIOD \in Nat
  BY <1>1, SilenceFacts DEF Silence, HilAssumption
<1>5. \A i \in 1 .. Len(queue') : queue'[i].run /= run' \/ queue'[i].type = "INIT"
  <2>1. CASE queue' = queue
    BY <1>3, <2>1
  <2>2. CASE Fits /\ Put(f)
    <3>1. f \in ReceivedFrame /\ f.type = "INIT"
      BY InitFrameTyped DEF HandlerTypeOK
    <3> HIDE DEF f
    <3>2. /\ Len(queue') = n + 1 /\ queue'[n + 1] = f
          /\ \A i \in 1 .. n : queue'[i] = queue[i]
      BY <2>2, <3>1, PutFacts
    <3>3. \A i \in 1 .. n + 1 : i \in 1 .. n \/ i = n + 1
      BY <1>2
    <3>4. QED
      BY <1>3, <3>1, <3>2, <3>3
  <2>3. QED
    BY <2>1, <2>2 DEF HilStart, SenderStarts, Put
<1>6. ~News(frame)' /\ \A i \in 1 .. Len(queue') : ~News(queue[i])'
  BY <1>1, <1>3, <1>5 DEF News
<1>7. elapsed' + PERIOD <= Silence'
  BY <1>1, <1>4
<1>8. \A i \in 1 .. Len(queue') : elapsed' <= queue'[i].age
  <2>1. \A i \in 1 .. Len(queue') : queue'[i] \in ReceivedFrame
    BY DEF HandlerTypeOK
  <2>2. \A g \in ReceivedFrame : g.age \in Nat
    BY HandlerAssumption DEF ReceivedFrame, Age
  <2>3. QED
    BY <1>1, <2>1, <2>2
<1>9. QED
  BY <1>6, <1>7, <1>8 DEF FirstNewsInv

LEMMA FirstNewsSend ==
  ASSUME HilAssumption, HandlerTypeOK, HandlerTypeOK', HilInv, QueueKeepsUp, HilSend
  PROVE  FirstNewsInv'
<1> DEFINE n == Len(queue)
           f == Received([type |-> "MEAS", timestamp |-> elapsed], run)
<1>1. /\ frame' = frame /\ pc' = pc /\ run' = run /\ elapsed' = elapsed /\ since' = 0
      /\ timeout_armed' = timeout_armed /\ last_valid_rx' = last_valid_rx
      /\ sending /\ Fits
  BY DEF HilSend, threadState, handlerState, senderState, FallsAsleep, Due, QueueKeepsUp
<1>2. ClockInv /\ FirstNewsInv /\ n \in Nat /\ elapsed \in Nat /\ since \in Nat
      /\ missing \in 0 .. MAX_LOST /\ since <= PERIOD + SLACK
  BY RunsAreNumbers DEF HilInv, ClockInv, HilAssumption
<1>3. Silence \in Nat /\ Silence <= LongestSilence /\ LongestSilence \in Nat
  BY <1>2, SilenceBounded
<1>4. FirstNews \in Nat /\ LongestSilence = FirstNews + PERIOD /\ PERIOD \in Nat
  BY FirstNewsFacts
<1>5. last_valid_rx \in Nat
  BY AgesAreNumbers
<1>6. /\ News(frame)' = News(frame)
      /\ ~News(LastFrame) => elapsed + PERIOD <= Silence
  BY <1>1, <1>2 DEF News, FirstNewsInv
<1>7. CASE missing' = missing + 1 /\ queue' = queue
  <2>1. Silence <= Silence' /\ Silence' \in Nat
    <3>1. Silence' = missing * (PERIOD + SLACK) + (PERIOD + SLACK)
      BY <1>1, <1>2, <1>7, SilenceFacts DEF Silence
    <3>2. missing * (PERIOD + SLACK) \in Nat /\ PERIOD + SLACK \in Nat
      BY <1>2, SilenceFacts
    <3>3. QED
      BY <1>2, <3>1, <3>2 DEF Silence
  <2>2. \A a \in Nat : a <= OldestBefore(0) => a <= OldestBefore(0)'
    <3>1. OldestBefore(0) = IF 0 < n THEN queue[1].age + LongestSilence ELSE Silence
      BY DEF OldestBefore
    <3>2. OldestBefore(0)' = IF 0 < n THEN queue[1].age + LongestSilence ELSE Silence'
      BY <1>7 DEF OldestBefore
    <3>3. QED
      BY <1>2, <1>3, <2>1, <3>1, <3>2
  <2>3. \A i \in 1 .. n :
          News(queue[i])' = News(queue[i]) /\ FrameBefore(i)' = FrameBefore(i)
            /\ News(FrameBefore(i))' = News(FrameBefore(i))
    BY <1>1, <1>7 DEF News, FrameBefore
  <2>4. LastFrame' = LastFrame /\ News(LastFrame)' = News(LastFrame)
    BY <1>1, <1>7 DEF LastFrame, News
  <2>5. ~News(LastFrame) => elapsed + PERIOD <= Silence'
    BY <1>2, <1>3, <1>4, <1>6, <2>1
  <2>6. News(frame) =>
          IF pc = "handle"
            THEN \/ timeout_armed /\ last_valid_rx <= frame.age + LongestSilence
                 \/ elapsed <= frame.age + FirstNews
            ELSE timeout_armed /\ last_valid_rx <= OldestBefore(0)'
    BY <1>1, <1>2, <1>5, <2>2 DEF FirstNewsInv
  <2>7. \A i \in 1 .. n : News(queue[i]) /\ ~News(FrameBefore(i)) =>
                             elapsed <= queue[i].age + FirstNews
    BY <1>1, <1>2 DEF FirstNewsInv
  <2>8. \A i \in 1 .. n : ~News(queue[i]) => elapsed <= queue[i].age
    BY <1>1, <1>2 DEF FirstNewsInv
  <2>9. QED
    BY <1>1, <1>6, <1>7, <2>3, <2>4, <2>5, <2>6, <2>7, <2>8 DEF FirstNewsInv
<1>8. CASE missing' = 0 /\ Put(f)
  <2>1. f \in ReceivedFrame /\ f.run = run /\ f.type = "MEAS" /\ f.age = 0
    BY <1>2, MeasurementTyped, ContentTyped DEF HandlerTypeOK, Received
  <2> HIDE DEF f
  <2>2. /\ Len(queue') = n + 1 /\ queue' /= <<>> /\ queue'[n + 1] = f
        /\ \A i \in 1 .. n : queue'[i] = queue[i]
    BY <1>1, <1>8, <2>1, PutFacts
  <2>3. LastFrame' = f /\ News(LastFrame)'
    BY <1>1, <2>1, <2>2 DEF LastFrame, News
  <2>4. ASSUME NEW i \in 1 .. n + 1, News(queue[i])', ~News(FrameBefore(i))'
        PROVE  elapsed <= queue'[i].age + FirstNews
    <3>1. CASE i \in 1 .. n
      <4>1. queue'[i] = queue[i] /\ FrameBefore(i)' = FrameBefore(i)
        <5>1. i = 1 \/ i - 1 \in 1 .. n
          BY <1>2, <3>1
        <5>2. QED
          BY <1>1, <2>2, <3>1, <5>1 DEF FrameBefore
      <4>2. News(queue[i]) /\ ~News(FrameBefore(i))
        BY <1>1, <2>4, <4>1 DEF News
      <4>3. QED
        BY <1>1, <1>2, <3>1, <4>1, <4>2 DEF FirstNewsInv
    <3>2. CASE i = n + 1
      <4>1. FrameBefore(i)' = LastFrame
        <5>1. n = 0 <=> queue = <<>>
          BY EmptySeq DEF HandlerTypeOK
        <5>2. n = 0 \/ n \in 1 .. n
          BY <1>2
        <5>3. QED
          BY <1>1, <1>2, <2>2, <3>2, <5>1, <5>2 DEF FrameBefore, LastFrame
      <4>2. ~News(LastFrame)
        BY <1>1, <2>4, <4>1 DEF News
      <4>3. elapsed + PERIOD <= Silence /\ queue'[i].age = 0
        BY <1>6, <2>1, <2>2, <3>2, <4>2
      <4>4. QED
        BY <1>2, <1>3, <1>4, <4>3
    <3>3. QED
      BY <1>2, <3>1, <3>2
  <2>5. News(frame) =>
          IF pc = "handle"
            THEN \/ timeout_armed /\ last_valid_rx <= frame.age + LongestSilence
                 \/ elapsed <= frame.age + FirstNews
            ELSE timeout_armed /\ last_valid_rx <= OldestBefore(0)'
    <3>1. \A a \in Nat : a <= OldestBefore(0) => a <= OldestBefore(0)'
      <4>1. OldestBefore(0) = IF 0 < n THEN queue[1].age + LongestSilence ELSE Silence
        BY DEF OldestBefore
      <4>2. OldestBefore(0)' = queue'[1].age + LongestSilence
        BY <1>2, <2>2 DEF OldestBefore
      <4>3. CASE n = 0
        BY <1>3, <2>1, <2>2, <4>1, <4>2, <4>3
      <4>4. CASE 0 < n
        <5>1. 1 \in 1 .. n
          BY <1>2, <4>4
        <5>2. QED
          BY <2>2, <4>1, <4>2, <4>4, <5>1
      <4>5. QED
        BY <1>2, <4>3, <4>4
    <3>2. QED
      BY <1>1, <1>2, <1>5, <3>1 DEF FirstNewsInv
  <2>6. ASSUME NEW i \in 1 .. n + 1, ~News(queue[i])'
        PROVE  elapsed <= queue'[i].age
    <3>1. i /= n + 1
      BY <1>1, <2>1, <2>2, <2>6 DEF News
    <3>2. i \in 1 .. n
      BY <1>2, <3>1
    <3>3. queue'[i] = queue[i] /\ ~News(queue[i])
      BY <1>1, <2>2, <2>6, <3>2 DEF News
    <3>4. QED
      BY <1>1, <1>2, <3>2, <3>3 DEF FirstNewsInv
  <2>7. QED
    BY <1>1, <1>6, <2>2, <2>3, <2>4, <2>5, <2>6 DEF FirstNewsInv
<1>9. QED
  BY <1>7, <1>8 DEF HilSend

LEMMA FirstNewsTake ==
  ASSUME HilAssumption, HandlerTypeOK, HandlerTypeOK', HilInv, GetFrame,
         UNCHANGED clockState
  PROVE  FirstNewsInv'
<1> DEFINE n == Len(queue)
<1>1. /\ pc = "get" /\ pc' = "handle" /\ run' = run
      /\ timeout_armed' = timeout_armed /\ last_valid_rx' = last_valid_rx
      /\ sending' = sending /\ elapsed' = elapsed /\ Silence' = Silence
  BY DEF GetFrame, handlerState, senderState, clockState, Silence
<1>2. /\ n \in Nat /\ n >= 1 /\ Len(queue') = n - 1 /\ frame' = queue[1]
      /\ \A i \in 1 .. n - 1 : queue'[i] = queue[i + 1]
  BY TakeFacts DEF GetFrame
<1>3. FirstNewsInv /\ 1 \in 1 .. n
  BY <1>2 DEF HilInv
<1>4. News(frame)' = News(queue[1])
  BY <1>1, <1>2 DEF News
<1>5. SUFFICES ASSUME sending PROVE FirstNewsInv'
  BY <1>1 DEF FirstNewsInv
<1>6. ASSUME NEW i \in 1 .. n - 1, News(queue[i])', ~News(FrameBefore(i))'
      PROVE  elapsed <= queue'[i].age + FirstNews
  <2>1. i + 1 \in 1 .. n /\ queue'[i] = queue[i + 1]
    BY <1>2
  <2>2. FrameBefore(i)' = FrameBefore(i + 1)
    <3>1. FrameBefore(i + 1) = queue[i]
      BY <1>2 DEF FrameBefore
    <3>2. CASE i = 1
      BY <1>2, <3>1, <3>2 DEF FrameBefore
    <3>3. CASE i /= 1
      <4>1. i - 1 \in 1 .. n - 1 /\ (i - 1) + 1 = i
        BY <1>2, <3>3
      <4>2. QED
        BY <1>2, <3>1, <3>3, <4>1 DEF FrameBefore
    <3>4. QED
      BY <3>2, <3>3
  <2>3. News(queue[i + 1]) /\ ~News(FrameBefore(i + 1))
    BY <1>1, <1>6, <2>1, <2>2 DEF News
  <2>4. QED
    BY <1>3, <1>5, <2>1, <2>3 DEF FirstNewsInv
<1>7. LastFrame' = LastFrame
  <2>1. LastFrame = queue[n]
    BY DEF LastFrame, GetFrame
  <2>2. CASE n = 1
    <3>1. queue' = <<>>
      BY <1>2, <2>2, EmptySeq DEF HandlerTypeOK
    <3>2. QED
      BY <1>2, <2>1, <2>2, <3>1 DEF LastFrame
  <2>3. CASE n > 1
    <3>1. queue' /= <<>> /\ n - 1 \in 1 .. n - 1 /\ (n - 1) + 1 = n
      BY <1>2, <2>3, EmptySeq DEF HandlerTypeOK
    <3>2. QED
      BY <1>2, <2>1, <3>1 DEF LastFrame
  <2>4. QED
    BY <1>2, <2>2, <2>3
<1>8. ~News(LastFrame)' => elapsed + PERIOD <= Silence
  BY <1>1, <1>3, <1>5, <1>7 DEF News, FirstNewsInv
<1>9. ASSUME News(queue[1])
      PROVE  \/ timeout_armed /\ last_valid_rx <= queue[1].age + LongestSilence
             \/ elapsed <= queue[1].age + FirstNews
  <2>1. FrameBefore(1) = frame /\ OldestBefore(0) = queue[1].age + LongestSilence
    BY <1>2 DEF FrameBefore, OldestBefore
  <2>2. CASE News(frame)
    BY <1>1, <1>3, <1>5, <2>1, <2>2 DEF FirstNewsInv
  <2>3. CASE ~News(frame)
    BY <1>3, <1>5, <1>9, <2>1, <2>3 DEF FirstNewsInv
  <2>4. QED
    BY <2>2, <2>3
<1>10. ASSUME NEW i \in 1 .. n - 1, ~News(queue[i])'
       PROVE  elapsed <= queue'[i].age
  <2>1. i + 1 \in 1 .. n /\ queue'[i] = queue[i + 1]
    BY <1>2
  <2>2. ~News(queue[i + 1])
    BY <1>1, <1>10, <2>1 DEF News
  <2>3. QED
    BY <1>3, <1>5, <2>1, <2>2 DEF FirstNewsInv
<1>11. QED
  BY <1>1, <1>2, <1>4, <1>6, <1>8, <1>9, <1>10 DEF FirstNewsInv

(* What the thread does between two frames.                                *)
LEMMA FirstNewsThread ==
  ASSUME HilAssumption, RateAssumption, HandlerTypeOK, HandlerTypeOK', HilInv,
         Handle \/ GetTimesOut \/ CheckTimeout, UNCHANGED clockState
  PROVE  FirstNewsInv'
<1>1. /\ queue' = queue /\ frame' = frame /\ run' = run /\ sending' = sending
      /\ elapsed' = elapsed /\ Silence' = Silence /\ pc' /= "handle"
      /\ OldestBefore(0)' = OldestBefore(0)
  BY DEF Handle, AfterFrame, GetTimesOut, CheckTimeout, senderState, clockState,
         Silence, OldestBefore
<1>2. ClockInv /\ WaitInv /\ SilenceInv /\ FirstNewsInv
  BY DEF HilInv
<1>3. ASSUME sending, News(frame)
      PROVE  timeout_armed' /\ last_valid_rx' <= OldestBefore(0)
  <2>1. CASE Handle
    <3>1. frame.type = "MEAS" /\ frame.run = run /\ pc = "handle"
      BY <1>3, <2>1 DEF News, Handle
    <3>2. HandleMeasurement
      BY <2>1, <3>1 DEF Handle, HandleFrame
    <3>3. timeout_armed' /\ last_valid_rx' = frame.age
      BY <3>2, MeasurementFacts
    <3>4. frame.age <= OldestBefore(0)
      BY <1>2, <1>3, <3>1 DEF SilenceInv
    <3>5. QED
      BY <3>3, <3>4
  <2>2. CASE GetTimesOut \/ CheckTimeout
    <3>1. pc /= "handle"
      BY <2>2 DEF GetTimesOut, CheckTimeout
    <3>2. timeout_armed /\ last_valid_rx <= OldestBefore(0)
      BY <1>2, <1>3, <3>1 DEF FirstNewsInv
    <3>3. ~(last_valid_rx >= RADAR_RX_TIMEOUT)
      <4>1. OldestBefore(0) \in Nat /\ OldestBefore(0) <= LongestSilence + LATENCY
        BY <1>2, OldestBounded
      <4>2. LongestSilence \in Nat /\ LATENCY \in Nat /\ RADAR_RX_TIMEOUT \in Nat
            /\ last_valid_rx \in Nat
        BY SilenceFacts, HandlerAssumption, AgesAreNumbers DEF HilAssumption
      <4>3. QED
        BY <3>2, <4>1, <4>2 DEF RateAssumption
    <3>4. timeout_armed' = timeout_armed /\ last_valid_rx' = last_valid_rx
      BY <2>2, <3>3 DEF GetTimesOut, CheckTimeout, handlerState
    <3>5. QED
      BY <3>2, <3>4
  <2>3. QED
    BY <2>1, <2>2
<1>4. /\ News(frame)' = News(frame) /\ News(LastFrame)' = News(LastFrame)
      /\ \A i \in 1 .. Len(queue) :
           /\ News(queue[i])' = News(queue[i])
           /\ News(FrameBefore(i))' = News(FrameBefore(i))
  BY <1>1 DEF News, LastFrame, FrameBefore
<1>5. QED
  BY <1>1, <1>2, <1>3, <1>4 DEF FirstNewsInv

LEMMA FirstNewsTick ==
  ASSUME HilAssumption, RateAssumption, HandlerTypeOK, HandlerTypeOK', HilInv, HilTick
  PROVE  FirstNewsInv'
<1> DEFINE n == Len(queue)
<1>1. SUFFICES ASSUME sending PROVE FirstNewsInv'
  BY DEF HilTick, FirstNewsInv
<1>2. /\ pc' = pc /\ run' = run /\ sending' = sending /\ missing' = missing
      /\ since' = since + 1 /\ elapsed' = elapsed + 1
      /\ timeout_armed' = timeout_armed
  BY <1>1 DEF HilTick, Tick, senderState
<1>3. ClockInv /\ FirstNewsInv
  BY DEF HilInv
<1>4. /\ Len(queue') = n /\ n \in Nat
      /\ \A i \in 1 .. n :
           /\ queue'[i].type = queue[i].type /\ queue'[i].run = queue[i].run
           /\ queue'[i].age = queue[i].age + 1
      /\ frame'.type = frame.type /\ frame'.run = frame.run
      /\ pc = "handle" => frame'.age = frame.age + 1
      /\ last_valid_rx' <= last_valid_rx + 1
  BY HilTickFacts
<1>5. /\ \A i \in 1 .. n : queue[i].age \in Nat
      /\ frame.age \in Nat /\ last_valid_rx \in Nat /\ last_valid_rx' \in Nat
  BY AgesAreNumbers, HandlerAssumption DEF HandlerTypeOK, Age
<1>6. /\ LongestSilence \in Nat /\ FirstNews \in Nat /\ PERIOD \in Nat
      /\ Silence \in Nat /\ since \in Nat /\ elapsed \in Nat /\ Silence' = Silence + 1
  BY <1>2, <1>3, SilenceFacts, FirstNewsFacts DEF ClockInv, Silence, HilAssumption
<1>7. (queue' = <<>> <=> queue = <<>>) /\ (queue = <<>> <=> n = 0)
  BY <1>4, EmptySeq DEF HandlerTypeOK
<1>8. News(frame)' = News(frame)
      /\ \A i \in 1 .. n : News(queue[i])' = News(queue[i])
  BY <1>2, <1>4 DEF News
<1>9. \A i \in 1 .. n : News(FrameBefore(i))' = News(FrameBefore(i))
  <2>1. \A i \in 1 .. n : i = 1 \/ i - 1 \in 1 .. n
    BY <1>4
  <2>2. QED
    BY <1>2, <1>4, <2>1 DEF News, FrameBefore
<1>10. News(LastFrame)' = News(LastFrame)
  <2>1. queue = <<>> \/ n \in 1 .. n
    BY <1>4, <1>7
  <2>2. QED
    BY <1>2, <1>4, <1>7, <2>1 DEF News, LastFrame
<1>11. OldestBefore(0) \in Nat /\ OldestBefore(0)' = OldestBefore(0) + 1
  <2>1. CASE 0 < n
    <3>1. 1 \in 1 .. n
      BY <1>4, <2>1
    <3>2. /\ OldestBefore(0) = queue[1].age + LongestSilence
          /\ OldestBefore(0)' = queue'[1].age + LongestSilence
      BY <1>4, <2>1 DEF OldestBefore
    <3>3. QED
      BY <1>4, <1>5, <1>6, <3>1, <3>2
  <2>2. CASE ~(0 < n)
    BY <1>4, <1>6, <2>2 DEF OldestBefore
  <2>3. QED
    BY <2>1, <2>2
<1>12. ASSUME NEW i \in 1 .. n, News(queue[i]), ~News(FrameBefore(i))
       PROVE  elapsed' <= queue'[i].age + FirstNews
  <2>1. elapsed <= queue[i].age + FirstNews
    BY <1>1, <1>3, <1>12 DEF FirstNewsInv
  <2>2. QED
    BY <1>2, <1>4, <1>5, <1>6, <2>1
<1>13. ~News(LastFrame) => elapsed' + PERIOD <= Silence'
  BY <1>1, <1>2, <1>3, <1>6 DEF FirstNewsInv
<1>14. ASSUME News(frame)
       PROVE  IF pc = "handle"
                THEN \/ timeout_armed /\ last_valid_rx' <= frame'.age + LongestSilence
                     \/ elapsed' <= frame'.age + FirstNews
                ELSE timeout_armed /\ last_valid_rx' <= OldestBefore(0)'
  <2>1. CASE pc = "handle"
    <3>1. \/ timeout_armed /\ last_valid_rx <= frame.age + LongestSilence
          \/ elapsed <= frame.age + FirstNews
      BY <1>1, <1>3, <1>14, <2>1 DEF FirstNewsInv
    <3>2. QED
      BY <1>2, <1>4, <1>5, <1>6, <2>1, <3>1
  <2>2. CASE pc /= "handle"
    <3>1. timeout_armed /\ last_valid_rx <= OldestBefore(0)
      BY <1>1, <1>3, <1>14, <2>2 DEF FirstNewsInv
    <3>2. QED
      BY <1>4, <1>5, <1>11, <2>2, <3>1
  <2>3. QED
    BY <2>1, <2>2
<1>15. ASSUME NEW i \in 1 .. n, ~News(queue[i])
       PROVE  elapsed' <= queue'[i].age
  <2>1. elapsed <= queue[i].age
    BY <1>1, <1>3, <1>15 DEF FirstNewsInv
  <2>2. QED
    BY <1>2, <1>4, <1>5, <1>6, <2>1
<1>16. QED
  BY <1>2, <1>4, <1>8, <1>9, <1>10, <1>12, <1>13, <1>14, <1>15 DEF FirstNewsInv

----------------------------------------------------------------------------
(* The theorems about the composition.                                     *)

LEMMA HilStep ==
  ASSUME HilAssumption, RateAssumption, HandlerTypeOK, HandlerTypeOK', HilInv,
         [HilNext]_hilVars
  PROVE  HilInv'
<1>1. ClockInv'
  BY ClockStep DEF HilInv
<1>2. QueueKeepsUp
  BY RoomSuffices DEF QueueKeepsUp
<1>3. /\ WaitInv' /\ SilenceInv' /\ TimestampInv' /\ TrackTimeInv' /\ RoomInv'
      /\ FirstNewsInv'
  <2>1. CASE HilNoCommand \/ HilStop
    <3>1. WakesUp /\ GoesOn /\ UNCHANGED queue
      BY <2>1 DEF HilNoCommand, HilStop, handlerVars
    <3>2. QED
      BY <2>1, <3>1, SilentStep, RoomTurn
  <2>2. CASE HilStart
    BY <2>2, StartStep, RoomStart, FirstNewsStart
  <2>3. CASE HilSend
    BY <1>2, <2>3, SendStep, RoomSend, FirstNewsSend
  <2>4. CASE HilEnds \/ HilIdles
    <3>1. FallsAsleep /\ UNCHANGED queue
      BY <2>4 DEF HilEnds, HilIdles, handlerVars
    <3>2. QED
      BY <2>4, <3>1, SilentStep, RoomSleep
  <2>5. CASE HilHandler
    BY <2>5, TakeStep, HandleStep, RestStep, RoomThread, FirstNewsTake, FirstNewsThread
       DEF HilHandler, HandlerThread
  <2>6. CASE HilTick
    BY <2>6, TickStep, RoomTick, FirstNewsTick
  <2>7. CASE UNCHANGED hilVars
    <3>1. WaitInv' /\ SilenceInv' /\ TimestampInv' /\ TrackTimeInv'
      BY <2>7 DEF hilVars, clockState, handlerVars, HilInv, WaitInv, SilenceInv,
                  TimestampInv, TrackTimeInv, OldestBefore, Silence, LastFrame, Succeeds
    <3>2. RoomInv' /\ FirstNewsInv'
      BY <2>7 DEF hilVars, turnState, clockState, handlerVars, HilInv, RoomInv, TimeOf,
                  FirstNewsInv, News, FrameBefore, OldestBefore, Silence, LastFrame
    <3>3. QED
      BY <3>1, <3>2
  <2>8. QED
    BY HilNextCases, <2>1, <2>2, <2>3, <2>4, <2>5, <2>6, <2>7
<1>4. QED
  BY <1>1, <1>3 DEF HilInv

(* The inductive invariant of the composition holds in every reachable     *)
(* state (gui_worker.py:62-107, frame_handler.c:30-212).                   *)
THEOREM HilInvariant ==
  HilAssumption /\ RateAssumption => (HilSpec => [](IInv /\ HilInv))
<1> SUFFICES ASSUME HilAssumption, RateAssumption
             PROVE  HilSpec => [](IInv /\ HilInv)
  OBVIOUS
<1>1. HilInit => HilInv
  BY HilInitEstablishes
<1>2. IInv /\ IInv' /\ HilInv /\ [HilNext]_hilVars => HilInv'
  BY HilStep DEF IInv
<1>3. HilSpec => []IInv
  BY HilRefinesHandler, HandlerInvariant, PTL
<1>4. QED
  BY <1>1, <1>2, <1>3, PTL DEF HilSpec

(* A sender that keeps the rate the board grants never loses its track to  *)
(* the timeout.                                                            *)
THEOREM HilKeepsTrack ==
  HilAssumption /\ RateAssumption => (HilSpec => KeepsTrack)
<1> SUFFICES ASSUME HilAssumption, RateAssumption
             PROVE  HilSpec => KeepsTrack
  OBVIOUS
<1> DEFINE Kept == sending /\ trackRun = run /\ track.state /= "EMPTY"
                     /\ pc = "check" /\ pc' /= pc => track'.state /= "EMPTY"
<1>1. IInv /\ HilInv /\ [HilNext]_hilVars => [Kept]_hilVars
  <2> SUFFICES ASSUME IInv, HilInv, HilNext, sending, trackRun = run,
                      track.state /= "EMPTY", pc = "check", pc' /= pc
               PROVE  track'.state /= "EMPTY"
    OBVIOUS
  <2>1. CheckTimeout
    BY DEF HilNext, HilWorker, HilNoCommand, HilStop, HilStart, HilSend, HilEnds,
           HilIdles, HilHandler, HilTick, SenderStarts, HandlerThread, GetFrame,
           GetTimesOut, Handle, Tick, threadState, handlerVars
  <2>2. HandlerTypeOK /\ ClockInv /\ WaitInv /\ SilenceInv
    BY DEF IInv, HilInv
  <2>3. last_valid_rx <= OldestBefore(0)
    BY <2>2 DEF SilenceInv
  <2>4. OldestBefore(0) <= LongestSilence + LATENCY /\ OldestBefore(0) \in Nat
    BY <2>2, OldestBounded
  <2>5. ~(last_valid_rx >= RADAR_RX_TIMEOUT)
    BY <2>2, <2>3, <2>4, AgesAreNumbers, SilenceFacts, HandlerAssumption
       DEF RateAssumption, HilAssumption
  <2>6. QED
    BY <2>1, <2>5 DEF CheckTimeout, handlerState
<1>2. QED
  BY <1>1, HilInvariant, PTL DEF HilSpec, KeepsTrack

(* Nor does it waste a measurement on the track its run began.             *)
THEOREM HilUsesMeasurements ==
  HilAssumption /\ RateAssumption => (HilSpec => []MeasurementsAreUsed)
<1> SUFFICES ASSUME HilAssumption, RateAssumption
             PROVE  HilSpec => []MeasurementsAreUsed
  OBVIOUS
<1>1. IInv /\ HilInv => MeasurementsAreUsed
  <2> SUFFICES ASSUME IInv, HilInv, pc = "handle", frame.type = "MEAS",
                      frame.run = trackRun, track.state \notin {"EMPTY", "LOST"}
               PROVE  Predicts(track, frame.timestamp)
    BY DEF MeasurementsAreUsed
  <2>1. track \in TrackRecord /\ frame.timestamp \in Timestamp
    BY DEF IInv, HandlerTypeOK, ReceivedFrame
  <2>2. /\ track.last_measurement_time < frame.timestamp
        /\ frame.timestamp <= track.last_measurement_time + LongestSilence
    BY DEF HilInv, TrackTimeInv
  <2>3. QED
    BY <2>1, <2>2, SoonPredicts
<1>2. QED
  BY <1>1, HilInvariant, PTL

(* The frame queue has room for the INIT of every start and for every      *)
(* measurement that is due, however often runs are started and stopped     *)
(* (frame_handler.c:19, gui_worker.py:65-107).                             *)
THEOREM HilQueueKeepsUp ==
  HilAssumption /\ RateAssumption => (HilSpec => []QueueKeepsUp)
<1> SUFFICES ASSUME HilAssumption, RateAssumption
             PROVE  HilSpec => []QueueKeepsUp
  OBVIOUS
<1>1. IInv /\ HilInv => QueueKeepsUp
  BY RoomSuffices DEF IInv, QueueKeepsUp
<1>2. QED
  BY <1>1, HilInvariant, PTL

(* Once the first measurement of a run has had its time, the handler has   *)
(* news of the run and the timeout refers to it (frame_handler.c:134-137). *)
THEOREM HilNewsArrives ==
  HilAssumption /\ RateAssumption => (HilSpec => []NewsArrives)
<1> SUFFICES ASSUME HilAssumption, RateAssumption
             PROVE  HilSpec => []NewsArrives
  OBVIOUS
<1>1. IInv /\ HilInv => NewsArrives
  <2> SUFFICES ASSUME IInv, HilInv, sending, elapsed > FirstNews + LATENCY
               PROVE  timeout_armed /\ last_valid_rx <= LongestSilence + LATENCY
    BY DEF NewsArrives
  <2>1. HandlerTypeOK /\ ClockInv /\ WaitInv /\ FirstNewsInv
    BY DEF IInv, HilInv
  <2>2. /\ FirstNews \in Nat /\ LATENCY \in Nat /\ elapsed \in Nat /\ PERIOD \in Nat
        /\ LongestSilence = FirstNews + PERIOD /\ LongestSilence \in Nat
        /\ Silence \in Nat /\ Silence <= LongestSilence
    BY <2>1, FirstNewsFacts, SilenceBounded DEF ClockInv, HilAssumption
  <2>3. frame.age \in Nat /\ last_valid_rx \in Nat
    BY <2>1, AgesAreNumbers
  <2>4. News(frame)
    <3> SUFFICES ASSUME ~News(frame) PROVE FALSE
      OBVIOUS
    <3>1. CASE queue = <<>>
      <4>1. elapsed + PERIOD <= Silence
        BY <2>1, <3>1 DEF FirstNewsInv, LastFrame
      <4>2. QED
        BY <2>2, <4>1
    <3>2. CASE queue /= <<>>
      <4>1. 1 \in 1 .. Len(queue)
        BY <2>1, <3>2, EmptySeq DEF HandlerTypeOK
      <4>2. queue[1].age \in Nat /\ queue[1].age <= LATENCY
        BY <2>1, <4>1, AgesAreNumbers DEF WaitInv
      <4>3. CASE News(queue[1])
        <5>1. elapsed <= queue[1].age + FirstNews
          BY <2>1, <4>1, <4>3 DEF FirstNewsInv, FrameBefore
        <5>2. QED
          BY <2>2, <4>2, <5>1
      <4>4. CASE ~News(queue[1])
        <5>1. elapsed <= queue[1].age
          BY <2>1, <4>1, <4>4 DEF FirstNewsInv
        <5>2. QED
          BY <2>2, <4>2, <5>1
      <4>5. QED
        BY <4>3, <4>4
    <3>3. QED
      BY <3>1, <3>2
  <2>5. CASE pc = "handle"
    <3>1. frame.age <= LATENCY
      BY <2>1, <2>5 DEF WaitInv
    <3>2. \/ timeout_armed /\ last_valid_rx <= frame.age + LongestSilence
          \/ elapsed <= frame.age + FirstNews
      BY <2>1, <2>4, <2>5 DEF FirstNewsInv
    <3>3. QED
      BY <2>2, <2>3, <3>1, <3>2
  <2>6. CASE pc /= "handle"
    <3>1. timeout_armed /\ last_valid_rx <= OldestBefore(0)
      BY <2>1, <2>4, <2>6 DEF FirstNewsInv
    <3>2. OldestBefore(0) \in Nat /\ OldestBefore(0) <= LongestSilence + LATENCY
      BY <2>1, OldestBounded
    <3>3. QED
      BY <2>2, <2>3, <3>1, <3>2
  <2>7. QED
    BY <2>5, <2>6
<1>2. QED
  BY <1>1, HilInvariant, PTL
=============================================================================

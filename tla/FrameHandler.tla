---------------------------- MODULE FrameHandler ----------------------------
(***************************************************************************)
(* The frame handler, fcc_app/src/frame_handler.c: the frame queue, the    *)
(* thread that takes frames from it, the track it keeps and the timeout    *)
(* that clears a track nobody reports on any more.                         *)
(*                                                                         *)
(* Board time enters only through differences, so a moment is an age: the  *)
(* ticks since then, counted up to RADAR_RX_TIMEOUT.  The frame handler is *)
(* reset by the INIT a sender transmits when it is started; the frames of  *)
(* one start of the sender are a run.                                      *)
(***************************************************************************)
EXTENDS Track, Sequences

CONSTANTS Contents,           \* frames that may come: type, timestamp
          QUEUE_DEPTH,        \* messages frame_queue can hold
          RADAR_RX_TIMEOUT,   \* RADAR_RX_TIMEOUT_MS, in clock ticks
          LINE_LOSES_INIT,    \* does the line lose an INIT now and then?
          MAX_RUNS            \* bound on the starts of the sender

(* "INVALID_MEAS" is a TYPE_RADAR_MEAS that decode_radar_measurement or    *)
(* validate_radar_measurement rejects.  Only a measurement has a           *)
(* timestamp; it is 0 in the others.                                       *)
FrameTypes == {"INIT", "RESET", "MEAS", "INVALID_MEAS", "STATUS", "COMMAND",
               "UNKNOWN"}

FrameContent == [type : FrameTypes, timestamp : Timestamp]

ASSUME HandlerAssumption ==
  /\ Contents \subseteq FrameContent
  /\ QUEUE_DEPTH \in Nat \ {0}
  /\ RADAR_RX_TIMEOUT \in Nat \ {0}
  /\ LINE_LOSES_INIT \in BOOLEAN
  /\ MAX_RUNS \in Nat \ {0}

VARIABLES
  queue,          \* frame_queue
  pc, frame,      \* the handler thread, and the frame it took last
  track,          \* handler.track
  timeout_armed,  \* handler.timeout_armed
  last_valid_rx,  \* the age of handler.last_valid_rx_ms
  run,            \* auxiliary: starts of the sender so far
  lost,           \* auxiliary: the runs whose INIT did not reach the queue
  trackRun        \* auxiliary: the run whose frame the track began with

handlerState == <<track, timeout_armed, last_valid_rx, trackRun>>
threadState  == <<pc, frame>>
senderState  == <<run, lost>>
handlerVars == <<queue, pc, frame, track, timeout_armed, last_valid_rx, run,
                 lost, trackRun>>

Age == 0 .. RADAR_RX_TIMEOUT
Run == 1 .. MAX_RUNS

(* struct received_frame; the age is that of received_at_ms.               *)
ReceivedFrame == [type : FrameTypes, timestamp : Timestamp, age : Age, run : Run]

Received(content, r) == [type |-> content.type, timestamp |-> content.timestamp,
                         age |-> 0, run |-> r]

(* What the variable `frame` of the thread holds before the first one: no  *)
(* content anything depends on.                                            *)
NoFrame == [type |-> "UNKNOWN", timestamp |-> 0, age |-> RADAR_RX_TIMEOUT,
            run |-> 1]

Init == /\ queue = <<>>
        /\ pc = "get" /\ frame = NoFrame
        /\ track = TrackInit
        /\ timeout_armed = FALSE
        /\ last_valid_rx = RADAR_RX_TIMEOUT
        /\ run = 1 /\ lost = {} /\ trackRun = 1

----------------------------------------------------------------------------
(* frame_handler_submit, called by the RX thread for every valid frame.    *)

\* Mutant: the limit is off by one.
FitsOffByOne == Len(queue) <= QUEUE_DEPTH

Fits == Len(queue) < QUEUE_DEPTH

\* Mutant: a full queue is emptied for the new frame.
PutPurges(f) == queue' = IF Fits THEN Append(queue, f) ELSE <<f>>

Put(f) == queue' = IF Fits THEN Append(queue, f) ELSE queue

Submit == /\ \E content \in Contents : Put(Received(content, run))
          /\ UNCHANGED <<threadState, handlerState, senderState>>

(* A sender is started: the first thing it transmits is INIT.  Reception   *)
(* passes it on, and the queue may refuse it; or, on a line that is not    *)
(* perfect, it was damaged or lost to an overflow of the ring, and never   *)
(* gets here.                                                              *)
SenderStarts == /\ run < MAX_RUNS
                /\ run' = run + 1
                /\ \/ /\ Put(Received([type |-> "INIT", timestamp |-> 0], run'))
                      /\ lost' = IF Fits THEN lost ELSE lost \union {run'}
                   \/ /\ LINE_LOSES_INIT
                      /\ UNCHANGED queue
                      /\ lost' = lost \union {run'}
                /\ UNCHANGED <<threadState, handlerState>>

----------------------------------------------------------------------------
(* frame_handler_thread.                                                   *)

GetFrame == /\ pc = "get"
            /\ queue /= <<>>
            /\ frame' = Head(queue) /\ queue' = Tail(queue)
            /\ pc' = "handle"
            /\ UNCHANGED <<handlerState, senderState>>

(* k_msgq_get finds nothing for 50 ms.                                     *)
GetTimesOut == /\ pc = "get"
               /\ queue = <<>>
               /\ pc' = "check"
               /\ UNCHANGED <<queue, frame, handlerState, senderState>>

\* Mutant: the timeout is disarmed, and the track left as it is.
InitKeepsTrack == /\ timeout_armed' = FALSE
                  /\ last_valid_rx' = RADAR_RX_TIMEOUT
                  /\ UNCHANGED <<track, trackRun>>

(* frame_handler_init, frame_handler_reset: last_valid_rx_ms is set to     *)
(* zero, longer ago than anything.                                         *)
HandlerInit == /\ track' = TrackInit
               /\ timeout_armed' = FALSE
               /\ last_valid_rx' = RADAR_RX_TIMEOUT
               /\ UNCHANGED trackRun

\* Mutant: the time of handling is recorded, not the time of reception.
HandleMeasurementNow ==
  /\ last_valid_rx' = 0
  /\ timeout_armed' = TRUE
  /\ \E inGate \in BOOLEAN : track' = UpdateTrack(track, frame.timestamp, inGate)
  /\ trackRun' = IF track.state = "EMPTY" THEN frame.run ELSE trackRun

\* Mutant: only the measurement that arms the timeout is recorded.
HandleMeasurementFirst ==
  /\ last_valid_rx' = IF timeout_armed THEN last_valid_rx ELSE frame.age
  /\ timeout_armed' = TRUE
  /\ \E inGate \in BOOLEAN : track' = UpdateTrack(track, frame.timestamp, inGate)
  /\ trackRun' = IF track.state = "EMPTY" THEN frame.run ELSE trackRun

(* handle_radar_measurement, for a valid one.                              *)
HandleMeasurement ==
  /\ last_valid_rx' = frame.age
  /\ timeout_armed' = TRUE
  /\ \E inGate \in BOOLEAN : track' = UpdateTrack(track, frame.timestamp, inGate)
  /\ trackRun' = IF track.state = "EMPTY" THEN frame.run ELSE trackRun

(* handle_frame; STATUS only reads the reception counters.                 *)
HandleFrame ==
  \/ frame.type \in {"INIT", "RESET"} /\ HandlerInit
  \/ frame.type = "MEAS" /\ HandleMeasurement
  \/ frame.type \in {"INVALID_MEAS", "STATUS", "COMMAND", "UNKNOWN"}
       /\ UNCHANGED handlerState

\* Mutant: the timeout is checked only when no frame has come.
AfterFrameGets == "get"

AfterFrame == "check"

Handle == /\ pc = "handle"
          /\ HandleFrame
          /\ pc' = AfterFrame
          /\ UNCHANGED <<queue, frame, senderState>>

(* frame_handler_check_timeout *)
CheckTimeout == /\ pc = "check"
                /\ IF timeout_armed /\ last_valid_rx >= RADAR_RX_TIMEOUT
                     THEN HandlerInit ELSE UNCHANGED handlerState
                /\ pc' = "get"
                /\ UNCHANGED <<queue, frame, senderState>>

HandlerThread == GetFrame \/ GetTimesOut \/ Handle \/ CheckTimeout

Older(a) == IF a < RADAR_RX_TIMEOUT THEN a + 1 ELSE a

Tick == /\ queue' = [i \in DOMAIN queue |->
                       [queue[i] EXCEPT !.age = Older(@)]]
        /\ frame' = [frame EXCEPT !.age = Older(@)]
        /\ last_valid_rx' = Older(last_valid_rx)
        /\ UNCHANGED <<pc, track, timeout_armed, senderState, trackRun>>

Next == Submit \/ SenderStarts \/ HandlerThread \/ Tick

Spec == Init /\ [][Next]_handlerVars

(* The handler thread is scheduled whenever the RX thread, the only one of *)
(* higher priority, sleeps, which it does between bytes; time passes.      *)
(* Nothing obliges anyone to send.                                         *)
LiveSpec == Spec /\ WF_handlerVars(HandlerThread) /\ WF_handlerVars(Tick)

----------------------------------------------------------------------------
HandlerTypeOK ==
  /\ queue \in Seq(ReceivedFrame) /\ Len(queue) <= QUEUE_DEPTH
  /\ pc \in {"get", "handle", "check"} /\ frame \in ReceivedFrame
  /\ track \in TrackRecord
  /\ timeout_armed \in BOOLEAN
  /\ last_valid_rx \in Age
  /\ run \in Run /\ lost \subseteq Run /\ trackRun \in Run

(* No track escapes the timeout: whatever frames, resets and timeouts come *)
(* in whatever order, a track that exists is being watched                 *)
(* (frame_handler.c:25, :74, :134-137).                                    *)
EveryTrackIsWatched == track.state /= "EMPTY" => timeout_armed

(* When no valid measurement is handled any more, the track is cleared and *)
(* stays so, however many other frames keep the thread from waiting for    *)
(* its 50 ms (frame_handler.c:9, :50).                                     *)
MeasurementHandled == pc = "handle" /\ frame.type = "MEAS" /\ pc' /= pc

SilenceClearsTrack ==
  <>[][~MeasurementHandled]_handlerVars => <>[](track.state = "EMPTY")

(* A measurement that waited in the queue for as long as the timeout       *)
(* leaves no track behind: the board does not show a target on the         *)
(* strength of old news (frame_handler.c:134-136, :50).                    *)
OldNewsLeavesNoTrack ==
  [][pc = "check" /\ pc' = "get"
     /\ frame.type = "MEAS" /\ frame.age >= RADAR_RX_TIMEOUT =>
       track'.state = "EMPTY"]_handlerVars

(* The measurements of two runs of a sender, whose timestamps have nothing *)
(* to do with each other, never meet in one track, unless the INIT of the  *)
(* later run was lost, on the line or to a full queue: the queue keeps the *)
(* order, and INIT ends the track (frame_handler.c:82-85, :211).           *)
RunsMeet == /\ pc = "handle" /\ frame.type = "MEAS"
            /\ track.state /= "EMPTY" /\ frame.run /= trackRun

RunsMeetOnlyAfterLoss == RunsMeet => frame.run \in lost

(* docs/board-bringup.md:48 says of a sender that is started again: INIT   *)
(* is sent automatically, so neither a reboot nor a manual INIT is needed. *)
(* On a perfect line the frame queue alone could make it false.            *)
RestartNeedsNoManualInit == ~RunsMeet

(* The comment at frame_handler.h:13 says of last_valid_rx_ms: the uptime  *)
(* when the last valid measurement was processed.                          *)
LastValidIsTimeOfProcessing ==
  [][MeasurementHandled => last_valid_rx' = 0]_handlerVars

----------------------------------------------------------------------------
(* Why these hold: an inductive invariant, in named parts.                 *)

LostBetween(a, b) == \A r \in a + 1 .. b : r \in lost

(* The run of the frame that came before the i-th of the queue, and of the *)
(* one that came last.                                                     *)
RunBefore(i) == IF i = 1 THEN frame.run ELSE queue[i - 1].run
LastRun == IF queue = <<>> THEN frame.run ELSE queue[Len(queue)].run

(* The queue passes from one run to the next with an INIT, or the INITs in *)
(* between are lost.                                                       *)
QueueRunInv ==
  /\ \A i \in 1 .. Len(queue) :
       /\ RunBefore(i) <= queue[i].run
       /\ queue[i].type = "INIT" \/ LostBetween(RunBefore(i), queue[i].run)
  /\ LastRun <= run
  /\ LostBetween(LastRun, run)

(* So does the track: the thread is handling the INIT, or has handled it.  *)
TrackRunInv ==
  /\ trackRun <= frame.run
  /\ track.state /= "EMPTY" /\ ~(pc = "handle" /\ frame.type = "INIT") =>
       LostBetween(trackRun, frame.run)

(* Between frames, the last one taken is the one the timeout refers to.    *)
NewsInv ==
  pc /= "handle" /\ frame.type = "MEAS" =>
    track.state = "EMPTY" \/ (timeout_armed /\ last_valid_rx = frame.age)

IInv == /\ HandlerTypeOK /\ EveryTrackIsWatched /\ QueueRunInv /\ TrackRunInv
        /\ NewsInv
=============================================================================

-------------------------------- MODULE Hil --------------------------------
(***************************************************************************)
(* Sender and board in one model of time: the loop of the session worker,  *)
(* pc_sim/gui_worker.py, which looks at one command and at the time of the *)
(* next measurement in each turn and then sleeps; a line that may lose     *)
(* frames; and the frame handler of FrameHandler behind it.  Starts and    *)
(* stops come whenever the user likes, one in a turn.  It is one session   *)
(* of the GUI: one that fails sends nothing more, as after a stop.         *)
(*                                                                         *)
(* The two clocks run at the same speed.  The sender stamps a measurement  *)
(* with the ticks since its run began; the board compares its own ticks.   *)
(***************************************************************************)
EXTENDS FrameHandler

CONSTANTS TURN,         \* the sleep between two turns of the loop
          PERIOD,       \* 1 / settings.hz
          SLACK,        \* how late a measurement may be: poll, write, line
          LATENCY,      \* how long a frame may wait for the handler thread
          MAX_LOST,     \* measurements in a row that the line may lose
          MAX_ELAPSED   \* bound on the duration of a run

HilAssumption ==
  /\ TURN \in Nat \ {0} /\ PERIOD \in Nat \ {0}
  /\ SLACK \in Nat /\ TURN <= SLACK
  /\ LATENCY \in Nat /\ MAX_LOST \in Nat
  /\ MAX_ELAPSED \in Nat /\ 2 * MAX_ELAPSED < TIMESTAMPS
  /\ Contents = [type : {"MEAS"}, timestamp : 0 .. MAX_ELAPSED]

(* What the board grants a sender: the longest silence, and the wait in    *)
(* the queue after it, are shorter than its timeout, the silence is not    *)
(* longer than a track can be predicted, and a frame does not wait while   *)
(* the queue fills up, with an INIT and a measurement in every turn.  At   *)
(* 1 Hz this is not so: the period alone is as long as the timeout.        *)
LongestSilence == (MAX_LOST + 1) * (PERIOD + SLACK)

(* What n frames take at least to come, two in a turn.                     *)
TurnsFor(n) == (n \div 2) * TURN

RateAssumption ==
  /\ LongestSilence + LATENCY < RADAR_RX_TIMEOUT
  /\ LongestSilence <= MAX_PREDICT_INTERVAL
  /\ LATENCY < TurnsFor(QUEUE_DEPTH)

(* Both are hypotheses of the theorems about this module and assumed in    *)
(* the instance: FrameHandlerProofs, which proves those theorems from the  *)
(* ones about FrameHandler, states the latter without them.                *)

VARIABLES
  phase,     \* the worker sleeps, or comes to the measurements of its turn
  slept,     \* for how long it has slept, up to TURN
  sending,   \* settings is not None: a run is going on
  elapsed,   \* the time since it began
  since,     \* the time since its last measurement
  missing    \* how many in a row the line has lost

turnState  == <<phase, slept>>
clockState == <<sending, elapsed, since, missing>>
hilVars == <<handlerVars, turnState, clockState>>

HilInit == /\ Init
           /\ phase = "sleep" /\ slept = TURN
           /\ sending = FALSE /\ elapsed = 0 /\ since = PERIOD /\ missing = 0

----------------------------------------------------------------------------
(* SessionWorker._loop, the first half of a turn: the sleep is over, and   *)
(* at most one command is taken.                                           *)

WakesUp == phase = "sleep" /\ slept >= TURN

GoesOn == phase' = "sample" /\ UNCHANGED slept

HilNoCommand == /\ WakesUp /\ GoesOn
                /\ UNCHANGED <<handlerVars, clockState>>

(* A stop may come when nothing is sent any more.                          *)
HilStop == /\ WakesUp /\ GoesOn
           /\ sending' = FALSE
           /\ UNCHANGED <<handlerVars, elapsed, since, missing>>

(* A run begins with INIT, and its first measurement is due at once.       *)
StartsRun == /\ sending' = TRUE /\ elapsed' = 0 /\ since' = PERIOD
             /\ missing' = 0

\* Mutant: as long as there is a command, the next one is taken at once.
HilStartAtOnce == /\ WakesUp
                  /\ phase' \in {"sleep", "sample"} /\ UNCHANGED slept
                  /\ SenderStarts
                  /\ StartsRun

(* A start may come while a run goes on, which it ends.                    *)
HilStart == /\ WakesUp /\ GoesOn
            /\ SenderStarts
            /\ StartsRun

----------------------------------------------------------------------------
(* The second half: a measurement, if it is time for one, and the sleep.   *)

Due == sending /\ since >= PERIOD

FallsAsleep == phase = "sample" /\ phase' = "sleep" /\ slept' = 0

HilSend ==
  /\ FallsAsleep
  /\ Due
  /\ since' = 0
  /\ \/ /\ Put(Received([type |-> "MEAS", timestamp |-> elapsed], run))
        /\ missing' = 0
     \/ /\ missing < MAX_LOST
        /\ missing' = missing + 1
        /\ UNCHANGED queue
  /\ UNCHANGED <<threadState, handlerState, senderState, sending, elapsed>>

(* The time of the run is up, or make_sample refuses the measurement; so   *)
(* does a run end whose frame cannot be written, and the session with it.  *)
HilEnds == /\ FallsAsleep
           /\ Due
           /\ sending' = FALSE
           /\ UNCHANGED <<handlerVars, elapsed, since, missing>>

HilIdles == /\ FallsAsleep
            /\ ~Due
            /\ UNCHANGED <<handlerVars, clockState>>

HilWorker == \/ HilNoCommand \/ HilStop \/ HilStart
             \/ HilSend \/ HilEnds \/ HilIdles

HilHandler == HandlerThread /\ UNCHANGED <<turnState, clockState>>

(* Time passes unless the sender is as late as it can be, or a frame has   *)
(* waited for the handler as long as it can.                               *)
MayWait == /\ Due => since < PERIOD + SLACK
           /\ \A i \in DOMAIN queue : queue[i].age < LATENCY
           /\ pc = "handle" => frame.age < LATENCY

RunGoesOn == sending => elapsed < MAX_ELAPSED

HilTick == /\ MayWait /\ RunGoesOn
           /\ Tick
           /\ slept' = IF phase = "sleep" /\ slept < TURN THEN slept + 1 ELSE slept
           /\ IF sending THEN elapsed' = elapsed + 1 /\ since' = since + 1
                         ELSE UNCHANGED <<elapsed, since>>
           /\ UNCHANGED <<phase, sending, missing>>

HilNext == HilWorker \/ HilHandler \/ HilTick

HilSpec == HilInit /\ [][HilNext]_hilVars

----------------------------------------------------------------------------
(* While a sender keeps its rate, the board never takes its target away:   *)
(* the timeout does not fire, however the waiting of frames, the delays of *)
(* the sender and the losses of the line fall together                     *)
(* (frame_handler.c:10, :60-76, gui_worker.py:89-107).                     *)
KeepsTrack ==
  [][sending /\ trackRun = run /\ track.state /= "EMPTY"
     /\ pc = "check" /\ pc' /= pc => track'.state /= "EMPTY"]_hilVars

(* No measurement is wasted on the track its own run began: none is taken  *)
(* for a duplicate, for an old one or for one beyond a gap (track.c:58-70).*)
MeasurementsAreUsed ==
  pc = "handle" /\ frame.type = "MEAS" /\ frame.run = trackRun
  /\ track.state \notin {"EMPTY", "LOST"} => Predicts(track, frame.timestamp)

(* The frame queue keeps up: the INIT of a start and a measurement that is *)
(* due find room, though the INITs and first measurements of several runs  *)
(* may wait there together, when starts come turn after turn               *)
(* (frame_handler.c:19, gui_worker.py:70-81, :105-107).                    *)
QueueKeepsUp == WakesUp \/ (phase = "sample" /\ Due) => Fits

(* The board is never long without news of a run: whatever the old track  *)
(* was, and whether INIT and the first measurements arrived or not, once   *)
(* the first measurement that the line lets through has had its time to    *)
(* come and to be handled, the last one handled is never older than the    *)
(* silence and the wait in the queue (frame_handler.c:134-137,             *)
(* gui_worker.py:106).                                                     *)
FirstNews == SLACK + MAX_LOST * (PERIOD + SLACK)

NewsArrives ==
  sending /\ elapsed > FirstNews + LATENCY =>
    timeout_armed /\ last_valid_rx <= LongestSilence + LATENCY

----------------------------------------------------------------------------
(* Why a track is kept: an inductive invariant, in named parts.            *)

ClockInv == /\ phase \in {"sleep", "sample"} /\ slept \in 0 .. TURN
            /\ sending \in BOOLEAN /\ elapsed \in 0 .. MAX_ELAPSED
            /\ since \in 0 .. PERIOD + SLACK /\ missing \in 0 .. MAX_LOST

(* Only frames of a sender are on their way, they are recent, and their    *)
(* runs are in order from the track to the sender.                         *)
WaitInv ==
  /\ \A i \in 1 .. Len(queue) :
       /\ queue[i].age <= LATENCY /\ queue[i].type \in {"INIT", "MEAS"}
       /\ frame.run <= queue[i].run /\ queue[i].run <= run
       /\ \A j \in i .. Len(queue) : queue[i].run <= queue[j].run
  /\ pc = "handle" => frame.age <= LATENCY /\ frame.type \in {"INIT", "MEAS"}
  /\ trackRun <= frame.run /\ frame.run <= run

(* The longest that the silence which lasts may have lasted already.       *)
Silence == missing * (PERIOD + SLACK) + since

(* How old the frame before the (i + 1)-th of the queue may be, the one    *)
(* the thread took last being the 0-th.                                    *)
OldestBefore(i) == IF i < Len(queue) THEN queue[i + 1].age + LongestSilence
                   ELSE Silence

(* In a run no silence is longer than the longest, in the queue, between   *)
(* the queue and the thread, and between the thread and the track.         *)
SilenceInv ==
  sending =>
    /\ \A i \in 1 .. Len(queue) :
         queue[i].run = run => queue[i].age <= OldestBefore(i)
    /\ pc = "handle" /\ frame.run = run => frame.age <= OldestBefore(0)
    /\ trackRun = run /\ track.state /= "EMPTY" =>
         last_valid_rx <= IF pc = "handle" THEN frame.age + LongestSilence
                                           ELSE OldestBefore(0)

(* Of two measurements of a run, one after the other.                      *)
Succeeds(g, f) ==
  f.type = "MEAS" /\ g.type = "MEAS" /\ f.run = g.run =>
    f.timestamp < g.timestamp /\ g.timestamp <= f.timestamp + LongestSilence

LastFrame == IF queue = <<>> THEN frame ELSE queue[Len(queue)]

(* The timestamps of a run tell its silences, up to the one that lasts.    *)
TimestampInv ==
  /\ \A i \in 2 .. Len(queue) : Succeeds(queue[i], queue[i - 1])
  /\ queue /= <<>> => Succeeds(queue[1], frame)
  /\ sending /\ LastFrame.type = "MEAS" /\ LastFrame.run = run =>
       /\ LastFrame.timestamp + since <= elapsed
       /\ elapsed <= LastFrame.timestamp + Silence

(* A track of the run is as of the frame before.                           *)
TrackTimeInv ==
  track.state /= "EMPTY" /\ trackRun = frame.run =>
    IF pc = "handle"
      THEN frame.type = "MEAS" =>
             /\ track.last_measurement_time < frame.timestamp
             /\ frame.timestamp <= track.last_measurement_time + LongestSilence
      ELSE frame.type = "MEAS" /\ track.last_measurement_time = frame.timestamp

(* How long ago at least a frame came after which n others have come.      *)
TimeOf(n) == IF phase = "sleep" THEN slept + TurnsFor(n) ELSE TurnsFor(n + 1)

(* What waits is as old as what came after it took to come.                *)
RoomInv == \A i \in 1 .. Len(queue) : queue[i].age >= TimeOf(Len(queue) - i)

News(f) == f.type = "MEAS" /\ f.run = run

FrameBefore(i) == IF i = 1 THEN frame ELSE queue[i - 1]

(* The first news of a run comes in time, what else waits is of before it, *)
(* and once it has been handled the handler always has some.               *)
FirstNewsInv ==
  sending =>
    /\ \A i \in 1 .. Len(queue) :
         News(queue[i]) /\ ~News(FrameBefore(i)) =>
           elapsed <= queue[i].age + FirstNews
    /\ \A i \in 1 .. Len(queue) : ~News(queue[i]) => elapsed <= queue[i].age
    /\ ~News(LastFrame) => elapsed + PERIOD <= Silence
    /\ News(frame) =>
         IF pc = "handle"
           THEN \/ timeout_armed /\ last_valid_rx <= frame.age + LongestSilence
                \/ elapsed <= frame.age + FirstNews
           ELSE timeout_armed /\ last_valid_rx <= OldestBefore(0)

HilInv == /\ ClockInv /\ WaitInv /\ SilenceInv /\ TimestampInv /\ TrackTimeInv
          /\ RoomInv /\ FirstNewsInv
=============================================================================

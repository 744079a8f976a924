------------------------------ MODULE Senders ------------------------------
(***************************************************************************)
(* The three programs of pc_sim that send measurements: radar_sender.py,   *)
(* run_sim.py with the sensor of targets.py, and a run of the session      *)
(* worker, gui_worker.py with gui_model.py.  Each decides for itself when  *)
(* a measurement is due and which timestamp it carries; a run of one of    *)
(* them is modelled, from its options to its end.                          *)
(*                                                                         *)
(* Time is counted in parts of a millisecond and may pass between any two  *)
(* steps: a write, a read or the scheduler may delay a program at will.    *)
(***************************************************************************)
EXTENDS Wire

CONSTANTS Options,            \* options the programs are started with
          Readings,           \* what noise and sensor can make of a target
          MIN_GUI_PERIOD, MAX_GUI_PERIOD,   \* 50 Hz and 1 Hz
          MAX_GUI_DURATION,   \* 3600 s
          MAX_CLUTTER,        \* bound on the false alarms of a scan
          MAX_CLOCK           \* bound on the clock

Programs == {"radar_sender", "run_sim", "gui_worker"}

(* SCENARIOS, of which only the number of targets matters here.            *)
ScenarioSize == [two_crossing |-> 2, single_approach |-> 1, four_targets |-> 4]

(* `total` is the number of measurements for radar_sender, and a duration  *)
(* for the others.  Range, rate and noise only show in the readings.  The  *)
(* azimuth of radar_sender is in whole units of the wire.                  *)
OptionRecord == [program : Programs, port : BOOLEAN, period : Int, total : Int,
                 azimuth : Int, scenario : DOMAIN ScenarioSize, clutter : BOOLEAN]

(* A distance and a direction, both in parts.                              *)
Reading == [range : Int, azimuth : Int]

ASSUME SenderAssumption ==
  /\ Options \subseteq OptionRecord
  /\ Readings \subseteq Reading /\ Readings /= {}
  /\ MIN_GUI_PERIOD \in Nat /\ MAX_GUI_PERIOD \in Nat /\ MAX_GUI_DURATION \in Nat
  /\ MIN_GUI_PERIOD >= 2 * PARTS
  /\ MAX_GUI_DURATION <= (LONG - 1) * PARTS
  /\ MAX_CLUTTER \in Nat /\ MAX_CLOCK \in Nat

VARIABLES
  options,    \* the options of this run
  at,         \* where the program is
  now,        \* the monotonic clock
  started,    \* start, started: when the run began
  due,        \* when the program goes on
  step,       \* i, step: measurements or scans done
  scan,       \* measurements of the scan that are still to be sent
  stamp,      \* timestamp_ms
  measured,   \* auxiliary: what the frame is made from
  frame,      \* the frame made last
  wire,       \* the last frame written to the port
  lastWrite   \* auxiliary: when that was

senderVars == <<options, at, now, started, due, step, scan, stamp, measured,
                frame, wire, lastWrite>>
dataState  == <<scan, stamp, measured, frame>>
portState  == <<wire, lastWrite>>

Ends == {"done", "refused", "crashed", "failed"}

Is(program) == options.program = program

NoReading == [range |-> 0, azimuth |-> 0]

Init == /\ options \in Options
        /\ at = "check"
        /\ now = 0 /\ started = 0 /\ due = 0
        /\ step = 0 /\ scan = <<>> /\ stamp = 0
        /\ measured = NoReading /\ frame = <<>>
        /\ wire = <<>> /\ lastWrite = 0

----------------------------------------------------------------------------
(* The options: the calls of parser.error at the beginning of the mains,   *)
(* and Settings.validate.                                                  *)

RadarSenderTakes(o) == o.period > 0 /\ o.total > 0 /\ IsInt32(o.azimuth)

\* Mutant: any scenario may be sent to the board.
RunSimTakesAnyScenario(o) ==
  o.period >= PARTS /\ o.total > 0 /\ o.total <= (LONG - 1) * PARTS

\* Mutant: the duration is not compared with the clock of the board.
RunSimTakesAnyDuration(o) ==
  /\ o.period >= PARTS /\ o.total > 0
  /\ o.port => ScenarioSize[o.scenario] = 1 /\ ~o.clutter

RunSimTakes(o) ==
  /\ o.period >= PARTS /\ o.total > 0 /\ o.total <= (LONG - 1) * PARTS
  /\ o.port => ScenarioSize[o.scenario] = 1 /\ ~o.clutter

GuiWorkerTakes(o) ==
  /\ MIN_GUI_PERIOD <= o.period /\ o.period <= MAX_GUI_PERIOD
  /\ 0 < o.total /\ o.total <= MAX_GUI_DURATION
  /\ -PI <= o.azimuth /\ o.azimuth <= PI

Takes(o) == CASE o.program = "radar_sender" -> RadarSenderTakes(o)
              [] o.program = "run_sim"      -> RunSimTakes(o)
              [] o.program = "gui_worker"   -> GuiWorkerTakes(o)

Check == /\ at = "check"
         /\ at' = IF Takes(options) THEN "init" ELSE "refused"
         /\ UNCHANGED <<options, now, started, due, step, dataState, portState>>

----------------------------------------------------------------------------
(* What the programs share: INIT at the start of a run, and the writing of *)
(* a frame.  Without a port nothing is written.                            *)

\* Mutant: INIT is made and not written.
SendInitUnwritten ==
  /\ at = "init"
  /\ frame' = BuildInitFrame
  /\ at' = "begin"
  /\ UNCHANGED <<options, now, started, due, step, scan, stamp, measured,
                 portState>>

SendInit ==
  /\ at = "init"
  /\ frame' = BuildInitFrame
  /\ wire' = IF options.port THEN frame' ELSE wire
  /\ lastWrite' = now
  /\ at' = "begin"
  /\ UNCHANGED <<options, now, started, due, step, scan, stamp, measured>>

(* The time that started the run is taken after INIT is written.           *)
Begin == /\ at = "begin"
         /\ started' = now /\ due' = now
         /\ at' = IF Is("gui_worker") THEN "wait" ELSE "top"
         /\ UNCHANGED <<options, now, step, dataState, portState>>

(* A frame of a reading is made, to be sent; or struct.pack refuses one of *)
(* its numbers, and nothing catches struct.error.                          *)
Send(reading, timestamp, azimuth) ==
  IF Packs(timestamp, Round(reading.range), azimuth)
    THEN /\ measured' = reading
         /\ frame' = BuildRadarFrame(timestamp, Round(reading.range), azimuth)
         /\ at' = "send"
    ELSE /\ at' = "crashed"
         /\ UNCHANGED <<measured, frame>>

(* The same for build_radar_frame_from_radians.                            *)
SendFromRadians(reading, timestamp) ==
  Send(reading, timestamp, Semicircles(reading.azimuth))

Write == /\ at = "send"
         /\ wire' = IF options.port THEN frame ELSE wire
         /\ lastWrite' = now
         /\ at' = "sent"
         /\ UNCHANGED <<options, now, started, due, step, dataState>>

(* The write times out, or the port is gone.                               *)
WriteFails == /\ at \in {"init", "send"} /\ options.port
              /\ at' = "failed"
              /\ UNCHANGED <<options, now, started, due, step, dataState,
                             portState>>

----------------------------------------------------------------------------
(* radar_sender.py: a fixed number of measurements, with a sleep of one    *)
(* period after each write.                                                *)

RadarSenderEnds == /\ Is("radar_sender") /\ at = "top"
                   /\ step >= options.total
                   /\ at' = "done"
                   /\ UNCHANGED <<options, now, started, due, step, dataState,
                                  portState>>

(* int(i * dt * 1000): the product is one of floating-point numbers and    *)
(* may fall just short of the integer it would be, as at i = 4007 and      *)
(* 1000 Hz; zero times anything is zero.                                   *)
Truncations(t) == IF t = 0 THEN {0} ELSE {t \div PARTS, (t - 1) \div PARTS}

RadarSenderMeasures ==
  /\ Is("radar_sender") /\ at = "top"
  /\ step < options.total
  /\ stamp' \in Truncations(step * options.period)
  /\ \E r \in Readings :
       IF RangeIsRepresentable(r.range)
         THEN Send([range |-> r.range, azimuth |-> PARTS * options.azimuth],
                   stamp', options.azimuth)
         ELSE at' = "refused" /\ UNCHANGED <<measured, frame>>
  /\ UNCHANGED <<options, now, started, due, step, scan, portState>>

RadarSenderSleeps ==
  /\ Is("radar_sender") /\ at = "sent"
  /\ step' = step + 1
  /\ IF options.port /\ step' < options.total
       THEN due' = now + options.period /\ at' = "wait"
       ELSE at' = "top" /\ UNCHANGED due
  /\ UNCHANGED <<options, now, started, dataState, portState>>

----------------------------------------------------------------------------
(* run_sim.py: a scan in every period, timed from the start of the run.    *)

RunSimEnds == /\ Is("run_sim") /\ at = "top"
              /\ step * options.period >= options.total
              /\ at' = "done"
              /\ UNCHANGED <<options, now, started, due, step, dataState,
                             portState>>

(* A distance is never negative.                                           *)
Clamped(r) == [r EXCEPT !.range = IF @ < 0 THEN 0 ELSE @]

(* How many false alarms there are, for a mean that is positive or zero.   *)
FalseAlarms(mean) == IF mean THEN 0 .. MAX_CLUTTER ELSE {0}

(* RadarSensorModel.measure: each target is detected or not, false alarms  *)
(* are added, and the result is shuffled.                                  *)
Measure(o) ==
  UNION {[1 .. n + k -> {Clamped(r) : r \in Readings}] :
           n \in 0 .. ScenarioSize[o.scenario], k \in FalseAlarms(o.clutter)}

RunSimMeasures ==
  /\ Is("run_sim") /\ at = "top"
  /\ step * options.period < options.total
  /\ stamp' = Round(step * options.period)
  /\ scan' \in Measure(options)
  /\ at' = "scan"
  /\ UNCHANGED <<options, now, started, due, step, measured, frame, portState>>

(* A measurement that does not fit into a frame is left out.               *)
RunSimSends ==
  /\ Is("run_sim") /\ at = "scan"
  /\ scan /= <<>>
  /\ scan' = Tail(scan)
  /\ IF RangeIsRepresentable(Head(scan).range)
       THEN SendFromRadians(Head(scan), stamp)
       ELSE UNCHANGED <<at, measured, frame>>
  /\ UNCHANGED <<options, now, started, due, step, stamp, portState>>

RunSimGoesOn == /\ Is("run_sim") /\ at = "sent"
                /\ at' = "scan"
                /\ UNCHANGED <<options, now, started, due, step, dataState,
                               portState>>

\* Mutant: sleeps until the scan that has just been sent was due.
NextScanLate == started + step * options.period

NextScan == started + (step + 1) * options.period

(* A scan without a detection takes its time like any other.  A program    *)
(* that is late does not sleep.                                            *)
RunSimSleeps ==
  /\ Is("run_sim") /\ at = "scan"
  /\ scan = <<>>
  /\ step' = step + 1
  /\ IF options.port /\ step' * options.period < options.total
       THEN due' = NextScan /\ at' = "wait"
       ELSE at' = "top" /\ UNCHANGED due
  /\ UNCHANGED <<options, now, started, dataState, portState>>

----------------------------------------------------------------------------
(* gui_worker.py, the loop of a run: samples in real time, with a port or  *)
(* without.  The rest of the worker is in GuiSession.                      *)

GuiWorkerEnds == /\ Is("gui_worker") /\ at = "wait" /\ now >= due
                 /\ now - started >= options.total
                 /\ at' = "done"
                 /\ UNCHANGED <<options, now, started, due, step, dataState,
                                portState>>

(* make_sample raises ValueError when the true distance or the measured    *)
(* one is out of range; both end the run.                                  *)
MakeSample(timestamp) ==
  \/ at' = "refused" /\ UNCHANGED <<measured, frame>>
  \/ \E r \in {s \in Readings : RangeIsRepresentable(s.range)} :
       SendFromRadians([range |-> r.range, azimuth |-> options.azimuth], timestamp)

GuiWorkerMeasures ==
  /\ Is("gui_worker") /\ at = "wait" /\ now >= due
  /\ now - started < options.total
  /\ stamp' = Round(now - started)
  /\ MakeSample(stamp')
  /\ UNCHANGED <<options, now, started, due, step, scan, portState>>

\* Mutant: the next sample is due one period after the last was.
NextSampleCatchesUp == due + options.period

NextSample == now + options.period

GuiWorkerGoesOn == /\ Is("gui_worker") /\ at = "sent"
                   /\ due' = NextSample
                   /\ at' = "wait"
                   /\ UNCHANGED <<options, now, started, step, dataState,
                                  portState>>

----------------------------------------------------------------------------
(* The end of a sleep.                                                     *)
Wake == /\ at = "wait" /\ ~Is("gui_worker")
        /\ now >= due
        /\ at' = "top"
        /\ UNCHANGED <<options, now, started, due, step, dataState, portState>>

(* Without a port the two command line programs never look at the clock.   *)
Tick == /\ options.port \/ Is("gui_worker")
        /\ at \notin Ends /\ now < MAX_CLOCK
        /\ now' = now + 1
        /\ UNCHANGED <<options, at, started, due, step, dataState, portState>>

Next == \/ Check \/ SendInit \/ Begin \/ Write \/ WriteFails
        \/ RadarSenderEnds \/ RadarSenderMeasures \/ RadarSenderSleeps
        \/ RunSimEnds \/ RunSimMeasures \/ RunSimSends \/ RunSimGoesOn
        \/ RunSimSleeps
        \/ GuiWorkerEnds \/ GuiWorkerMeasures \/ GuiWorkerGoesOn
        \/ Wake \/ Tick

SenderSpec == Init /\ [][Next]_senderVars

----------------------------------------------------------------------------
(* What a board that hears `wire` makes of it.                             *)
Heard ==
  CASE wire = <<>> -> [type |-> "SILENCE", timestamp |-> 0]
    [] wire /= <<>> /\ TypeOf(wire) = TYPE_INIT ->
         [type |-> "INIT", timestamp |-> 0]
    [] wire /= <<>> /\ TypeOf(wire) /= TYPE_INIT ->
         [type |-> "MEAS",
          timestamp |-> DecodeRadarMeasurement(PayloadBytes(wire)).timestamp]

(* Seen from the other end of the line, through encoding and decoding, all *)
(* three programs send one INIT and then measurements whose timestamps do  *)
(* not go back, also when scans are empty, measurements are left out, or   *)
(* the program is late (run_sim.py:22-26, :32-54, gui_worker.py:74-106).   *)
ToldTo == INSTANCE Transmission WITH TIMESTAMPS <- LONG, heard <- Heard

TransmitsRuns == ToldTo!Spec

WritesMeasurement == at = "send" /\ at' = "sent" /\ options.port

(* No two measurements of a run have the same timestamp, of which the      *)
(* board would ignore the second (track.c:62), but for radar_sender at     *)
(* 1000 Hz and above, which nothing forbids: not after rounding or         *)
(* truncation, and not in a scenario with several measurements per scan    *)
(* (run_sim.py:33, :81, radar_sender.py:28, :54).                          *)
TimestampsAdvance ==
  [][WritesMeasurement /\ Heard.type = "MEAS"
       /\ (Is("radar_sender") => options.period > PARTS) =>
         Heard'.timestamp > Heard.timestamp]_senderVars

(* No measurement is sent before the time it bears, whatever delays came   *)
(* before it, up to rounding (run_sim.py:54, gui_worker.py:90-97,          *)
(* radar_sender.py:86).                                                    *)
NeverAhead ==
  Heard.type = "MEAS" =>
    2 * PARTS * Heard.timestamp <= 2 * (lastWrite - started) + PARTS

(* After a delay radar_sender and the GUI do not send faster than their    *)
(* period to catch up (gui_worker.py:105, GUI.md:55); run_sim does.        *)
NoCatchUp ==
  [][WritesMeasurement /\ Heard.type = "MEAS" /\ ~Is("run_sim") =>
       now - lastWrite >= options.period]_senderVars

Apart(x, y) == IF x < y THEN y - x ELSE x - y

(* x and y, in parts, are the same direction up to half a unit.            *)
SameDirection(x, y) == LET d == (x - y) % (2 * PI)
                       IN 2 * d <= PARTS \/ 2 * (2 * PI - d) <= PARTS

(* A frame that is sent is one that the board's parser accepts and that    *)
(* decodes to what was measured, rounded: the range to the metre, and the  *)
(* direction across the cut at half a turn (protocol.py:46-56,             *)
(* radar_message.c:20-43).  What is compared is the integer the board      *)
(* reads, before radar_message.c:41-43 makes radians of it.                *)
CarriesMeasurement ==
  at = "send" =>
    LET m == DecodeRadarMeasurement(PayloadBytes(frame))
    IN /\ AcceptedMeasurement(frame)
       /\ m.timestamp = stamp
       /\ 2 * Apart(PARTS * m.range, measured.range) <= PARTS
       /\ SameDirection(PARTS * m.azimuth, measured.azimuth)

(* The limits on the options and the rounding keep every number inside its *)
(* field of the wire: only radar_sender, which has no limit on its         *)
(* duration, can fail in the middle of a run because a timestamp cannot be *)
(* packed (run_sim.py:74, gui_model.py:27, protocol.py:52-55).             *)
FramesPack == at = "crashed" => Is("radar_sender")

----------------------------------------------------------------------------
(* Why all this holds: an inductive invariant, in named parts.             *)

Waiting == {"check", "init", "begin"}
Running == {"top", "scan", "send", "sent", "wait"}

HasSent == Heard.type = "MEAS"

SenderTypeOK ==
  /\ options \in Options
  /\ at \in Waiting \union Running \union Ends
  /\ now \in Nat /\ started \in 0 .. now /\ lastWrite \in 0 .. now
  /\ due \in Nat /\ step \in Nat /\ stamp \in Int
  /\ scan \in Seq({Clamped(r) : r \in Readings})
  /\ measured \in Reading

(* Only the programs that have such a place come to it, and with options   *)
(* they take.                                                              *)
PlaceInv ==
  /\ at \in Waiting => step = 0
  /\ at \in Running \union {"init", "begin"} => Takes(options)
  /\ at = "scan" => Is("run_sim")
  /\ at = "top" => ~Is("gui_worker")
  /\ FramesPack

(* The azimuth that goes into the frame of what is measured.               *)
SentAzimuth == IF Is("radar_sender") THEN options.azimuth
                                     ELSE Semicircles(measured.azimuth)

(* The frame to be written is made from the measurement.                   *)
MadeInv ==
  at = "send" =>
    /\ RangeIsRepresentable(measured.range)
    /\ Is("radar_sender") => measured.azimuth = PARTS * options.azimuth
    /\ Packs(stamp, Round(measured.range), SentAzimuth)
    /\ frame = BuildRadarFrame(stamp, Round(measured.range), SentAzimuth)

(* What the line carries tells where in its run a program is.              *)
LineInv ==
  /\ Heard \in {ToldTo!Silence, ToldTo!Init}
               \union ToldTo!Measurements(0 .. LONG - 1)
  /\ at \in {"check", "init"} => Heard = ToldTo!Silence
  /\ at = "begin" => ~HasSent
  /\ Heard /= ToldTo!Silence => options.port
  /\ options.port /\ at \in {"begin"} \union Running => Heard /= ToldTo!Silence

(* A scan that goes to the board is of one measurement at most.            *)
ScanInv ==
  options.port =>
    /\ Len(scan) <= 1
    /\ at \in Waiting \union (Running \ {"scan"}) => scan = <<>>

(* For the command line programs: whether the run goes on, and the         *)
(* timestamps its k-th measurement or scan may bear.                       *)
Remains == IF Is("radar_sender") THEN step < options.total
                                 ELSE step * options.period < options.total

StampsOf(k) == IF Is("radar_sender") THEN Truncations(k * options.period)
                                     ELSE {Round(k * options.period)}

(* They are never before their schedule.                                   *)
ScheduleInv ==
  ~Is("gui_worker") =>
    /\ at \in {"scan", "send", "sent"} => Remains /\ stamp \in StampsOf(step)
    /\ at = "wait" => Remains
    /\ options.port /\ at = "wait" => step * options.period <= due - started
    /\ options.port /\ at \in Running \ {"wait"} /\ Remains =>
         step * options.period <= now - started

(* Nor is what is about to be sent.                                        *)
AheadInv ==
  at = "send" /\ (options.port \/ Is("gui_worker")) =>
    2 * PARTS * stamp <= 2 * (now - started) + PARTS

(* Timestamps that follow each other never go back, and but for            *)
(* radar_sender at 1000 Hz and above they advance.                         *)
Advances(earlier, later) ==
  /\ earlier <= later
  /\ (Is("radar_sender") => options.period > PARTS) => earlier < later

(* The step that comes next, once the scan of this one is used up.         *)
UsedUp == at = "sent" \/ (at = "scan" /\ scan = <<>>)

Coming == IF UsedUp THEN step + 1 ELSE step

AdvanceInv ==
  HasSent =>
    /\ at = "send" => Advances(Heard.timestamp, stamp)
    /\ ~Is("gui_worker") /\ at \in Running =>
         \A s \in StampsOf(Coming) : Advances(Heard.timestamp, s)

(* Whoever goes on after a write has slept, but for run_sim.               *)
PaceInv ==
  HasSent /\ ~Is("run_sim") =>
    /\ at = "wait" => due - lastWrite >= options.period
    /\ at = "send" \/ (at = "top" /\ Remains) => now - lastWrite >= options.period

IInv == /\ SenderTypeOK /\ PlaceInv /\ MadeInv /\ LineInv /\ ScanInv
        /\ ScheduleInv /\ AheadInv /\ NeverAhead /\ AdvanceInv /\ PaceInv
=============================================================================

# A specification of the FCC radar-tracking firmware and its PC side

This directory specifies and verifies `radar-track-fcc-hil`: an STM32/Zephyr
program (`fcc_app/`) that receives radar measurements over a UART and keeps one
track, and the PC programs (`pc_sim/`) that send to it. The modules are
TLA+; TLC checks them on small instances, and TLAPS proves all the safety
and refinement properties for every value of their constants (section 4). Paths below are
relative to the repository; C files without a directory are in `fcc_app/src/`,
Python files without one in `pc_sim/`.

## 1. The system

    PC sender --UART--> ISR --ring--> RX thread --frame queue--> handler thread --> track
    (pc_sim)            uart_callback  uart_rx_thread             frame_handler_thread
                                       frame parser               reception timeout

    window  --command queue, interruption flag-->  session worker --serial ports--> board
    gui.py  <--queued signals--------------------  gui_worker.py

| Part | State it keeps | Operations | Interacts with |
| --- | --- | --- | --- |
| Ring (`ring_buffer.c`) | 256 bytes, `head`, `tail` (bytes) | init, push, pop | pushed by the ISR, popped by the RX thread |
| Reception (`uart_rx.c`) | `rx_overflow`, `rx_sem`, `rx_ready_sem` | `uart_rx_init`, `uart_callback`, `uart_rx_thread`, overflow recovery | ring, RX frame processor; ISR and thread share ring and flag |
| RX frame processor (`rx_frame_processor.c`) | the parser, time of the last byte, four counters | reset, feed, check timeout, statistics | parser; `frame_handler_submit` |
| Frame parser (`frame_parser.c`) | `struct frame_parser` | init, feed | owned by the RX thread |
| Frame handler (`frame_handler.c`) | `frame_queue` (8 messages), the track, `timeout_armed`, `last_valid_rx_ms` | submit, dispatch by type, reception timeout | RX thread puts, handler thread gets |
| Track (`track.c`) | state, hits, misses, timestamp, two Kalman filters | init, start, predict, hit, miss | called by the handler; `gating.c` decides hit or miss |
| Radar messages (`radar_message.c`) | none | decode, validate | handler |
| Filters, gate, angles (`kalman_cv.c`, `gating.c`, `angle_utils.c`) | the filter matrices | predict, correct, gate | track, handler |
| UART transmission (`uart_tx.c`) | `tx_queue`, `tx_ready_sem` | init, submit, a thread that discards what it takes | nothing submits yet |
| Boot (`main.c`) | none | `uart_tx_init`, `uart_rx_init`, then a periodic print | all of the above |
| Command line senders (`radar_sender.py`, `run_sim.py`, `small_byte_test.py`) | step, start time | check options, INIT once, then measurements on a schedule | the port; `protocol.py` |
| Window (`gui.py`) | `connected`, `closing`, `worker`, which controls are enabled, the samples | connect, disconnect, start, stop, close; one slot per signal of the worker | session worker |
| Session worker (`gui_worker.py`) | the ports, `commands`, the settings of a run, `next_sample` | take a command, send a sample, read the console, end | window (another thread), the ports |
| Protocol (`protocol.py`) | none | frames, packing, rounding, angles | senders, worker; read by `radar_message.c` |
| Settings and samples (`gui_model.py`) | none | validate, make a sample | worker |
| Targets and sensor (`targets.py`) | targets | scenarios, scans | `run_sim.py` |

What is hard here, and hardly reachable by the host tests, which call the C
functions one after the other:

- the UART interrupt runs between any two instructions of the RX thread that
  `irq_lock` does not cover, and throws bytes away while the ring is full or a
  recovery is going on;
- the overflow recovery pops without a lock, by a convention about one flag;
- one binary semaphore announces any number of bytes;
- a frame can stop anywhere, and noise can look like a frame;
- the frame queue refuses what comes when it is full, INIT and RESET included,
  and delays what it holds, while the clock goes on;
- a sender can be started again at any time, with timestamps from zero;
- window and worker are two threads: a command may be waiting while the answer
  to an earlier one is still to be heard, either side may be ending, and any
  port may fail at any time;
- each sender has a schedule of its own, and board and sender must agree on how
  long silence may be although delays and losses add up;
- two languages encode and decode the same ten bytes;
- timestamps are 32-bit and wrap; confirmation and loss depend on long histories.

What makes the parts correct: the ring is a FIFO; the parser accepts exactly the
frames of the wire format and stays in its array; reception delivers only
gap-free, valid frames, in order, counts what it drops, and always comes back
from an overflow or a fragment; a track is confirmed, coasts, is lost and ends
by the policy of `track.c`; no track outlives its measurements; and two runs of
a sender do not meet in one track. On the PC side: what the window offers agrees
with what the worker does, a stopped window stays quiet, a session leaves no
port open, closing and waiting end; a run is one INIT and measurements with
advancing timestamps, never early and, where promised, never in a burst; what is
sent is what the board decodes; and a sender that keeps its rate keeps its track.

`PROJECT.json` lists the hazards line by line with the properties that cover
them.

## 2. The modules

| Module | What it is |
| --- | --- |
| `FrameParser` | `parser_init` and `parser_feed` as operators on a record, one per `case`; the wire format, stated independently of the parser; the abstract state (`Partial`) of a parser |
| `ParserMachine` | the parser alone, fed anything and reset at any time; its properties |
| `FrameScanner` | abstract: keep the bytes that may become a frame, decide at the last, give up only at a reset |
| `RingBuffer` / `BoundedFifo` | the ring on its array and two indexes / a bounded queue of bytes |
| `UartRx` | reception: `uart_rx_init`, ISR, RX thread, recovery, processor, clock |
| `FrameDelivery` | abstract: what reception promises at the frame queue |
| `Track` | `track.c` and `update_track_from_measurement` as operators on a record |
| `TrackMachine` / `TrackPolicy` | a track under any measurements / the policy it implements, on the history of hits and misses and without counters |
| `FrameHandler` | frame queue, handler thread, timeout, clock, a sender that restarts |
| `GuiSession` | window and session worker, their commands and signals, ports that fail |
| `Wire` | `protocol.py` and `radar_message.c` as operators: the frames of one, the decoding of the other |
| `Senders` | a run of `radar_sender.py`, of `run_sim.py` with `targets.py`, or of the worker, from options to bytes, on a clock |
| `Transmission` | abstract: what the board may expect of a sender |
| `Hil` | the loop of the session worker turn by turn, a line that loses frames, and `FrameHandler`, in one model of time |
| `MC...`, `*.cfg` | values of the constants for TLC |
| `...Proofs` | theorems and their proofs |

`UartRx` takes the parser's operators from `FrameParser`; `FrameHandler` takes
those of `Track`. `UartRx` uses a sequence for the ring, which `RingBuffer`
justifies. The two meet at the frame queue: `UartRx` puts frames in and lets an
unspecified handler take them, `FrameHandler` lets an unspecified RX thread put
them. `Wire` extends `FrameParser`, so that "valid frame" means the same on both
ends, and `Senders` extends `Wire`. `Hil` extends `FrameHandler` and uses its
actions, so that what is proved of the handler holds there. `GuiSession` leaves open when a sample is due, which is the subject
of `Senders` and `Hil`.

**Parser.** `parser` is `struct frame_parser`. `ParserInit` leaves the payload
and the received checksum as they are, as the code does. The CRC is the constant
operator `Crc`: nothing proved depends on which function it is, and the
instances use one of four bits that depends on every byte and its place.
`input` in `ParserMachine` is auxiliary: it records what was done last, a byte
or a reset, with a bit that alternates. Without it a byte that leaves the parser
as it was would be a stuttering step, which every refinement allows; with it,
each byte has to be one step of `FrameScanner` that treats this byte as the
format says, and only a reset may abandon a frame.
One disagreement in type is intended: the array write of `FeedPayload` outside
the array would leave the record unchanged in TLA+; `PayloadIndexInBounds`
shows that it never happens.

**Reception.** The bytes that will come are fixed at the start (`stream`), and
the ring holds positions of them, so that a property can say which bytes a frame
was made of. `sent` counts what the ISR has read. Each ISR action is one
iteration of the innermost loop of `uart_callback`; the ISR is not interrupted
by the thread, and the thread's steps are as large as the code permits: the
section under `irq_lock` (`CheckRing`), `rx_finish_recovery` (`FinishRecovery`),
and otherwise one call at a time. `TakeRxSem` is possible with and without a
count because of the 50 ms limit of `k_sem_take`. `idle` is the time since the
last byte, counted up to the timeout. `FeedByte` and `DrainFeed` stand for
`rx_frame_processor_feed` with everything below it, up to `k_msgq_put`: the
parser and the counters belong to the RX thread, and the put is atomic.
`frameAt`, `lastFed` and `upTo` are auxiliary: they record where in the stream
the parser's frame began, the byte it was last fed and the last byte of the last
valid frame, and influence nothing.

**Track.** The Kalman filters never influence the control except through
`gating_check`; its verdict is the parameter `inGate`, chosen freely. `Delta` is
the unsigned 32-bit subtraction modulo `TIMESTAMPS`. In `TrackMachine`, `seen`
is the history of outcomes since the track began.

**Frame handler.** A moment of the board's clock enters only through
differences, so the model keeps ages, up to the timeout. `frame.age` is the age
of `received_at_ms`. A frame is a type and a timestamp; `INVALID_MEAS` is one
that `decode_radar_measurement` or `validate_radar_measurement` refuses. `run`,
`lost` and `trackRun` are auxiliary: which start of a sender a frame belongs to,
which starts lost their INIT on the way or at the queue, and which start the
track came from. `LINE_LOSES_INIT` says whether the way may lose one; it may,
but in the run `restart`, where only the full queue can.

**Window and worker.** `enabled` is the set of controls that can be used; one
action per button, one operator per slot. `Deliver` is the event loop of the GUI
thread: it takes the first queued signal and runs the slot connected to it.
`running` and `stopped` are `running_changed(True)` and `(False)`. `thread` says
where the worker is: `open` (in `run`, before `connected`), `loop` (the `while`
condition and `get_nowait`), `turn` (the rest of an iteration), `raise` (an
exception on its way out), `final` (the `finally` clause), `return`, `dead` (has
finished, the window has not heard), `none` (`MainWindow.worker is None`). The
parts of an iteration are separate steps, so the window may act between any two.
Connecting, writing and reading may fail whenever a port is involved. Text for
the logs is left out; `status` is the last message of the status bar. `starts`,
`failed` and `overlapped` are auxiliary.

**Wire and senders.** A byte has `BASE` values; ten bytes of payload as in the
code. Distances, directions and times are integers in `PARTS` of their unit, so
that Python's `round`, with its ties to even, and the double reduction of an
angle are modelled by what they do. The truncation of `radar_sender.py:54` is
applied to a floating-point product, which may be just below the exact one:
`Truncations` is the set of both outcomes, and each step takes either.
`at` is the place in the program; `now` moves between any two steps. `Readings` stands for what targets, noise and sensor produce; `Measure` has every
combination of missed detections, false alarms and order, with negative
distances raised to zero as `measure` does. `Heard` decodes the last frame on
the wire with the board's own operators; through it `Senders` refines
`Transmission`.

**Sender and board together.** `Hil` has the loop of `gui_worker.py` as it is
paced: a turn wakes up, takes at most one command (none, `HilStop`, `HilStart`),
comes to the measurements (`HilSend` if one is due, `HilEnds` if the time is up or
the sample is refused, else `HilIdles`), and sleeps for `TURN` at least. A stop or a
start can come in any turn: a stop right after a start, a start in the middle of
a run, a start in every turn. `PERIOD` is the period of the measurements, `SLACK`
a bound on how late one is (the sleep of the loop, the write, the line), `LATENCY`
a bound on the wait of a frame for the handler thread, `MAX_LOST` one on
consecutive losses; INIT may be lost too. What the line adds to every frame alike
is left out, and what it adds to some is part of `SLACK` and `LATENCY`. It is one
session: after a failed write the session ends and sends no more, which the board
cannot tell from a stop.

`RateAssumption` says what the board grants: the longest silence plus the
wait is shorter than `RADAR_RX_TIMEOUT_MS`, the silence is not longer than
`MAX_PREDICT_INTERVAL`, and no frame waits as long as the loop takes to fill the
queue with two frames in every turn. With eight places and a sleep of 5 ms the
last means a wait below 20 ms.

Definitions marked "Mutant" stand before the one they vary. They are used by no
specification and serve to show that a property notices the change.

## 3. The runs

| Run | What it shows | Instance | States |
| --- | --- | --- | --- |
| `parser` | array bounds, progress, refinement of `FrameScanner` | 4-letter alphabet, payloads of 1 and 2 | 47617 |
| `ring` | index bounds, refinement of `BoundedFifo` | 4 slots, 3 byte values, index type of 8 values | 3645 |
| `uart_rx` | all reception properties, drain policy | ring of 3, queue of 1, timeout of 2, four lines of two frames | 79145 |
| `uart_rx_discard` | the same reception built with `RX_OVERFLOW_DISCARD_ALL` recovers too; its safety is proved (`UartRxProofs` holds for both policies) | as above | 46880 |
| `track` | counter limits, refinement of `TrackPolicy` | limits 3 and 5 as in the code, 8 timestamps, histories up to 10 | 19648 |
| `frame_handler` | timeout, queue and restart properties | queue of 2, timeout of 2, 6 timestamps, 2 runs | 678851 |
| `gui_session` | window and worker: safety, closing, waiting | 2 ports, 3 starts, 3 commands, 4 signals outstanding | 84514 |
| `senders` | schedules, timestamps, encoding and decoding, refinement of `Transmission` | 24 sets of options, 7 readings, bytes of 16 values, half units, clock to 14 | 1247010 |
| `hil` | a kept rate keeps the track, and the queue has room, for starts and stops in any turn | turn 1, period 2, slack, wait and loss of 1, timeout 8, queue of 4, 4 runs | 2131779 |
| `restart`, `processing_time`, `gui_errors` | statements of the repository that the code does not keep, see 5 | queue and window as above | |

Why these bounds are enough for the cases to occur. A frame with one payload byte
has six bytes: a ring of three cannot hold one, so an overflow can begin and end
at every place of a frame, and a second frame follows each first one. The lines
are: two good frames, a fragment and a frame, noise with an illegal length and a
frame, a frame with a bad checksum and a frame. A queue of one is full whenever
the handler has not taken the first of two frames. A four-letter alphabet has
the start byte among payload, length (as too long) and checksum. Eight
timestamps with a reach of two have a next one, a gap, a past and a wrap.
In `TrackMachine` ten outcomes suffice for confirmation, five misses in a row,
and each with an interruption. In `FrameHandler` two runs and a queue of two
have an INIT that is lost, one that waits behind old measurements, and one
between; measurements sent are at both sides of the wrap of the timestamps.
Two ports give a session without, with one and with both of them, and one whose
second port fails. Three starts with three commands and four signals outstanding
have two stale answers in front of a live one, a command left in the queue of a
dying worker, and a full queue of signals in front of a stop. The options of
`senders` have, for each program, runs on a port at and (where it can) above
1000 Hz, runs without a port that reach the last timestamp, and one refusal for
each condition; the readings lie below, at the middle of and above each limit of
distance and direction. With 65536 timestamps of half milliseconds the field is
reached within four steps of a large period. In `hil` the longest silence is 6
of 8 ticks and equals what a track can be predicted. A turn is as long as a frame
may wait, so the frames of two turns can be queued together, an INIT and the first
measurement of its run in each: the queue of 4 is the smallest that
`RateAssumption` allows there, and with 3 `QueueKeepsUp` fails. Four runs of up to
11 ticks allow starts in four turns one after the other.

`MAX_OUTCOMES`, `MAX_RUNS`, `MAX_COMMANDS`, `MAX_SIGNALS`, `MAX_CLUTTER`,
`MAX_CLOCK` and `MAX_ELAPSED` are the only bounds on behaviour; all other
constants are sizes or rates the code has too. A full queue of signals makes the
worker wait in the model where Qt would not; the properties do not depend on it
(`GuiSessionProofs` holds for every bound). Deadlock is checked in every run but
`senders`, whose programs end.

**Properties.** Each is stated in a comment above its definition. The ones that
carry most: `RecognisesFormat`, `ImplementsFifo`, `DeliversValidFrames` and
`FollowsPolicy` are refinements; `AssemblyIsContiguous` says that a partial
frame never bridges lost bytes; `NoLostWakeup` that the thread never sleeps on
work; `RecoveryOwnsRing` and `StoredBytesAreTaken` that draining without a lock
is safe and loses nothing stored; `RunsMeetOnlyAfterLoss` that only a lost
INIT lets two runs meet; `OldNewsLeavesNoTrack` and `SilenceClearsTrack` that a
track ends when its news is old; `StoppedMeansQuiet` and `ViewAgreesAtRest` that
stale answers never leave the window and the worker apart; `CarriesMeasurement`
that encoding and decoding agree up to half a unit; `TransmitsRuns` that every
sender is what the board expects; `KeepsTrack` and `NewsArrives` that delays,
losses, waiting and restarts together never take a live target away.
`RecoveryCompletes`, `FragmentIsDropped`, `SilenceClearsTrack`, `CloseCompletes`
and `WaitEnds` are liveness properties.

Two properties name the case they exclude. `PlotShowsOneRun` excepts a start
made while an earlier one was unanswered: Stop, Start pressed on the answer to
an older stop, and samples of the first run then reach the cleared plot.
`TimestampsAdvance` excepts `radar_sender.py` at 1000 Hz and above, where the
truncation at `radar_sender.py:54` repeats timestamps and the board ignores the
second: at 1000 Hz sample 4007 is stamped `int(4006.9999999999995)`, which is the
timestamp of sample 4006.

**Fairness.** `UartRx!Fairness` assumes that `main` finishes `uart_rx_init`, that
the RX thread is scheduled when it is ready (priority 5, above the handler at 6
and the transmitter at 7; the interrupt needs no more than a bounded time per
byte of a finite line), and that time passes. `FrameHandler!LiveSpec` assumes
that the handler thread is scheduled (the RX thread above it sleeps when the
ring is empty) and that time passes. `GuiSession!GuiLiveSpec` assumes that the
worker thread goes on (every call it makes returns: reads have timeout 0, writes
0.5 s, the sleep is 5 ms) and that the event loop of the window returns to its
queue (no slot blocks). Nothing is assumed of the user, the line, the sender
or of who empties the queue. All fairness is weak. `Senders` and `Hil` have
safety properties only: their runs are bounded, and "a measurement comes in
time" is said with clocks (`NewsArrives`, and the theorem about it).

## 4. The proofs

Every theorem holds for every value of the constants under the `ASSUME`s of the
modules: payload, ring, queue and timeouts are not empty, the ring has at least
two slots and its index type can hold them, the confirmation limit exceeds one,
and twice the prediction interval is less than the range of timestamps. The
values of the code satisfy them. The theorems about `Hil` have two hypotheses
more: `HilAssumption` (types, and a clock that does not come round within a run)
and `RateAssumption`. They are not `ASSUME`s of the module because
`FrameHandlerProofs`, which extends it, proves the theorems about the handler
without them; `MCHil` assumes both, so TLC evaluates them. The theorems about
what a frame of a sender decodes to have one hypothesis, `CrcAssumption`: the
checksum of any bytes is a number of two bytes, as `uint16_t` is. TLC cannot
enumerate all sequences of bytes, so it is not an `ASSUME` of `FrameParser`.

- **`ParserProofs`** (lemmas in `FrameParserProofs`): `ParserConsistent`, which
  ties the index and the length to the state, is inductive with the type. With
  it, each `case` maps to a step of `FrameScanner` for that byte: `Partial(parser)`
  grows by the byte fed, is dropped, or is complete and decided by its checksum.
  `AlwaysProgresses` is proved case by case for every byte that may come.
- **`ParserProofs`, second part**: all six properties of `senders`, for every
  size of a byte, unit of time and set of options and readings. `FramesDecode`
  and the lemmas before it are about `Wire` alone: dividing by `BASE` and putting
  together again gives the same number, for two bytes, for four and for a
  negative azimuth; `Round` is off by half a unit at most and monotone; an angle
  reduced to one turn, rounded and reduced again is the same direction. `IInv` of
  `Senders` has, besides the type and `NeverAhead`:
  `PlaceInv`, a run goes on only with options that were accepted, from which
  `FramesPack` follows (a timestamp of `run_sim.py` is below the duration, one of
  the GUI below its limit);
  `MadeInv`, a frame about to be written is that of the numbers measured, which
  with `FramesDecode` is `CarriesMeasurement`;
  `LineInv`, what the line carries fits the place of the program, so that
  `TransmitsRuns` is a step simulation;
  `ScanInv`, a scan sent to the board has one measurement at most;
  `ScheduleInv`, the step counter times the period is never after the clock
  (`AheadInv` says it of the timestamp about to be sent), without which
  `NeverAhead`, which speaks of a frame already written, is not inductive;
  `AdvanceInv`, the timestamps still to be sent are after the one on the line,
  which is `TimestampsAdvance`; for `radar_sender.py` these are all of `StampsOf`,
  whichever way their truncation falls; for the GUI, which reads the clock instead of
  counting, it rests on `NeverAhead` and on
  `PaceInv`, whoever is about to write again has let a period pass, which is
  `NoCatchUp`.
- **`ParserProofs`, third part**: the two ends put together.
  `ValidFramesAreTaken`: a valid frame that reaches a searching parser without
  loss is reported at its last byte and not before, with its type and payload.
  The parser refines `FrameScanner`, so after each byte it holds what it was fed.
  This is an induction along the frame, over the set of the places where that is
  so (`InductionUpTo`, from the well-foundedness of `<`), since an induction
  theorem over a predicate cannot be used here. `SendersReachTheBoard`: for every
  frame that one of the programs sends, the board ends up with the timestamp, the
  rounded range and the azimuth that were packed; `InitReachesTheBoard` says the
  same of INIT.
- **`RingBufferProofs`**: the type is inductive; the contents seen through the
  wrap (`SlotOf`) grow at the end, shrink at the front, and are full exactly
  when the slot after `head` is `tail`.
- **`UartRxProofs`**: the inductive invariant `IInv` adds four facts to the type.
  `BootInv`: the thread runs only after initialisation. `FlagInv`: a recovery
  runs under the raised flag, and a finished drain leaves an empty ring.
  `PositionInv`: the bytes between ISR and parser are consecutive and, unless
  the flag is up, reach up to the last one received. `FrameInv`: the parser's
  bytes are a stretch of the line that the next byte continues, as long as there
  is one that was received before a loss. `AssemblyIsContiguous` alone is not
  inductive: without `PositionInv` the next byte could be any. From `IInv`
  follow the invariants, the two action properties about the ring, and the
  refinement of `FrameDelivery`.
- **`TrackMachineProofs`** (lemmas in `TrackProofs`): `CountInv` reads the
  counters as facts about the history: as many hits as outcomes on trial, as
  many misses as the history ends with, and a hit before those. Each outcome of
  `update_track_from_measurement` then is a step of `TrackPolicy`.
- **`FrameHandlerProofs`**: `NewsInv` (between frames the timeout refers to the
  last one taken) carries `OldNewsLeavesNoTrack`; `QueueRunInv` and
  `TrackRunInv` (from frame to frame, and from track to frame, the run changes
  at an INIT or all INITs in between are lost) carry `RunsMeetOnlyAfterLoss`.
- **`FrameHandlerProofs`, second part**: all four properties of `hil`, for every
  turn, period, delay, loss, wait and queue depth within `RateAssumption`. Every
  step of `Hil` is one of `FrameHandler` or leaves it alone (a lemma,
  `HilRefinesHandler`), so `IInv` of the handler holds in it.
  Then `HilInv`, in seven parts. `ClockInv` and `WaitInv`: types, and frames
  that are recent and in the order of their runs. `SilenceInv`: between two
  frames of a run in the queue, between the queue and the thread, and between
  the thread and the track, no more than `LongestSilence` lies; `KeepsTrack`
  speaks of the last link of that chain only and is not inductive.
  `TimestampInv` and `TrackTimeInv`: the timestamps tell these silences, so a
  measurement advances the track and does not jump over a gap; this is
  `MeasurementsAreUsed`. `RoomInv`: a frame is as old as the frames behind it took
  to come, two in a turn, and what the worker has slept (`TimeOf`); as none is
  older than `LATENCY`, a full queue is impossible where a frame is put, which is
  `QueueKeepsUp`. Nothing in it depends on which runs the frames are of.
  `FirstNewsInv`: until the first measurement of a run is handled, the run is no
  older than the losses in a row allow, and what waits before it is older than
  the run; this is `NewsArrives`.

- **`GuiSessionProofs`**: six named parts. `SessionInv`: `finished` is the last
  signal of a worker, so sessions do not mix, and ports are closed from `final`
  on. `QuietInv`: for every sample on its way, and for the next one of a run
  that is on, Start cannot be pressed before it is heard (`NoStart`: it is off
  and no signal before turns it on, or a `running` comes after the last that
  does). `OneRunInv`: unless starts overlapped, every command, sample and the
  settings are of the last start; it needs `QuietInv`. `ConnectedInv`: in a
  session the window is connected, or `connected` is the first signal waiting
  and the only one of its kind. `ViewInv`: once all commands are taken, the last
  signal that tells the state of the worker, or else the window, is right about
  it. `ViewAgreesAtRest` and `StoppedMeansQuiet` speak of empty queues and of the
  first signal only, and are not inductive.

The inductive invariants were also checked with TLC on the instances above.

Only model-checked: the five liveness properties and everything under fairness,
and anything about ENABLED, which are out of the prover's reach; and the
statements of section 5, which fail. Every other property of every run is stated
by a theorem.

## 5. Where the code and its words differ

- `restart`: `docs/board-bringup.md:48` says that a sender can be started again
  without a manual INIT because INIT is sent automatically. The queue drops INIT
  like any frame when it is full (`frame_handler.c:211`; `README.md:137` says
  so), and then the new run is handled on the old track. The line of this run
  loses nothing, so it is the full queue that drops the INIT.
- `processing_time`: `frame_handler.h:13` says `last_valid_rx_ms` is the time of
  processing; the code stores the time of reception (`frame_handler.c:136`).
  The code is the better one: `OldNewsLeavesNoTrack` fails for the other.
- `gui_errors`: `pc_sim/GUI.md:69` says that errors of a port are shown in the
  log and in the status bar. After the error the worker's `finally` clause
  reports a stop (`gui_worker.py:54`), and `on_running` (`gui.py:296`) replaces
  the message: the window is ready to connect again and shows no error.
- Without a run of its own: `uart_rx.c:115` says `irq_lock` covers single-byte
  parsing; it is released at `:135`, before. No property suffers.

What is left out of a claim rather than contradicted: at 1 Hz, which the GUI
accepts, the period and the 5 ms poll exceed the board's 1000 ms, and every
measurement ends the track of the one before. `RateAssumption` is false there.

## 6. What is not modelled

- Kalman filters, gate and angles: floating point. Their influence on control is
  a free choice.
- `uart_tx.c`: nothing submits to it and its thread discards what it takes.
- Bytes lost in the UART hardware: the program cannot notice. Lines with missing
  and wrong bytes stand for them.
- STATUS output and other logging; `-EINVAL` of `frame_handler_submit`, which
  cannot happen for frames of the parser (`UartRxProofs`: LEN is legal).
- The function `crc16` itself: the checksum is a parameter on both sides.
- Floating point. The numbers of the models are exact. On the PC the product
  `i * dt * 1000` of `radar_sender.py:54` can fall below a whole millisecond and
  lose one: this is modelled, as both outcomes of the truncation, and is why
  `TimestampsAdvance` stops short of 1000 Hz. Elsewhere on the PC a double is finer
  than the unit by far, and an error can only turn a tie of `round`, by one unit;
  for two timestamps of `run_sim.py` to become equal by it, a run has to last for
  weeks at a period above a millisecond by less than its doubles can tell.
  On the board `azimuth_rad` is single precision (`radar_message.c:41-43`), which
  is coarser than the unit of the wire, by a hundred units and more near half a
  turn: `CarriesMeasurement` compares the integer that was decoded, before that
  product, and says nothing of the radians the filter is given.
- The motion and geometry of targets (`targets.py`): what it produces is a free
  choice among `Readings`.
- Layout, plots, `refresh_ports`, texts and the console log of the GUI; `samples`
  keeps the last 2000 in the code, the model keeps which runs they are of.
- A write that takes only part of a frame: it raises in the worker
  (`gui_worker.py:59`), like any failed write; what the line then carries is a
  fragment, which `UartRx` has. Ctrl-C in the command line senders.
- `UartRx` and `FrameHandler` in one state space: each leaves the other side of
  the queue free, which is more than the composition allows.
- `small_byte_test.py`, the periodic print of `main.c`, and the tests.

## 7. Order of the work

Parser, ring, reception, track and frame handler, with their proofs; then the
window and its worker with proofs; the wire and the senders; the composition of
sender and board with proofs; and the proofs about the senders.

Still worth doing: `uart_tx.c` and `uart_tx_init` once anything submits frames;
and a run of `Hil` below the rate the board grants, to show how the track is lost and
found.

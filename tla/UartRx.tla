------------------------------- MODULE UartRx -------------------------------
(***************************************************************************)
(* Frame reception: fcc_app/src/uart_rx.c and rx_frame_processor.c, around *)
(* the parser of FrameParser and up to the frame queue of frame_handler.c. *)
(*                                                                         *)
(* The UART interrupt stores bytes in a ring and raises rx_overflow when   *)
(* it cannot; the RX thread takes them out, feeds the parser, recovers     *)
(* from an overflow and gives up on frames that stop half-way.             *)
(*                                                                         *)
(* What goes over the line is fixed in advance, as `stream`, and the ring  *)
(* holds positions of it: the byte at position i is stream[i].  The ring   *)
(* itself is a sequence; RingBuffer shows that ring_buffer.c is one.       *)
(***************************************************************************)
EXTENDS FrameParser

CONSTANTS Streams,               \* what may come over the line
          BUFFER_SIZE,           \* slots of the ring, one of them unused
          QUEUE_DEPTH,           \* messages frame_queue can hold
          FRAME_RX_TIMEOUT,      \* FRAME_RX_TIMEOUT_MS, in clock ticks
          RX_OVERFLOW_POLICY     \* "DRAIN_BUFFER" (selected) or "DISCARD_ALL"

ASSUME RxAssumption ==
  /\ Streams \subseteq Seq(Byte)
  /\ BUFFER_SIZE \in Nat \ {0, 1}
  /\ QUEUE_DEPTH \in Nat \ {0}
  /\ FRAME_RX_TIMEOUT \in Nat \ {0}
  /\ RX_OVERFLOW_POLICY \in {"DRAIN_BUFFER", "DISCARD_ALL"}

Capacity == BUFFER_SIZE - 1

VARIABLES
  stream, sent,         \* the line, and how much of it the ISR has read
  ring,                 \* rx_ring: positions of stored bytes, oldest first
  rx_overflow,          \* bytes were lost and recovery is not finished
  rx_sem, rx_ready_sem, \* the two binary semaphores
  boot,                 \* how far uart_rx_init has come
  pc, c,                \* the RX thread, and the position of the byte it holds
  parser,               \* the parser, owned by the RX thread
  idle,                 \* ticks since last_byte_processed_ms, up to the timeout
  errors,               \* the four counters of rx_frame_stats
  queue,                \* frame_queue of frame_handler.c
  frameAt, lastFed,     \* auxiliary: where in the stream the parser's frame
                        \* began, and the byte it was last fed
  upTo                  \* auxiliary: the last byte of the last valid frame

lineVars    == <<stream, sent>>
bufferVars  == <<ring, rx_overflow, rx_sem>>
bootVars    == <<boot, rx_ready_sem>>
threadVars  == <<pc, c>>
frameVars   == <<parser, idle, errors, queue, frameAt, lastFed, upTo>>
rxVars == <<stream, sent, ring, rx_overflow, rx_sem, rx_ready_sem, boot, pc, c,
            parser, idle, errors, queue, frameAt, lastFed, upTo>>

Counters == {"crc_errors", "length_errors", "frame_timeouts", "queue_drops"}

(* struct received_frame, with the stretch of the line it came from.       *)
ReceivedFrame(type, payload, first, last) ==
  [type |-> type, payload |-> payload, first |-> first, last |-> last]

FrameRecord == [type : Byte, payload : Seq(Byte), first : Nat, last : Nat]

Init == /\ stream \in Streams /\ sent = 0
        /\ ring = <<>> /\ rx_overflow = FALSE
        /\ rx_sem = 0 /\ rx_ready_sem = 0
        /\ boot = "start"
        /\ pc = "ready" /\ c = 0
        /\ parser = StaticParser
        /\ idle = 0
        /\ errors = [k \in Counters |-> 0]
        /\ queue = <<>>
        /\ frameAt = 0 /\ lastFed = 0 /\ upTo = 0

----------------------------------------------------------------------------
(* uart_rx_init, run by main.                                              *)

(* The device is not ready, or the callback cannot be set: return -1.      *)
BootFails == /\ boot = "start"
             /\ boot' = "failed"
             /\ UNCHANGED <<lineVars, bufferVars, rx_ready_sem, threadVars,
                            frameVars>>

BootEnables == /\ boot = "start"
               /\ ring' = <<>>
               /\ parser' = ParserInit(parser)
               /\ boot' = "enabled"
               /\ UNCHANGED <<lineVars, rx_overflow, rx_sem, rx_ready_sem,
                              threadVars, idle, errors, queue, frameAt,
                              lastFed, upTo>>

BootGivesReady == /\ boot = "enabled"
                  /\ rx_ready_sem' = 1
                  /\ boot' = "done"
                  /\ UNCHANGED <<lineVars, bufferVars, threadVars, frameVars>>

Boot == BootFails \/ BootEnables \/ BootGivesReady

----------------------------------------------------------------------------
(* uart_callback: one action for each byte it reads from the hardware.  It *)
(* is not interrupted by the thread, and interrupts it anywhere but inside *)
(* irq_lock, which makes the actions CheckRing and FinishRecovery atomic.  *)

ReadFifo == /\ boot \in {"enabled", "done"}
            /\ sent < Len(stream)
            /\ sent' = sent + 1

IsrDrops == /\ ReadFifo
            /\ rx_overflow
            /\ UNCHANGED <<stream, bufferVars, bootVars, threadVars, frameVars>>

\* Mutants: only a waiting thread is woken; the semaphore has no limit.
GiveIfWaiting == rx_sem' = IF pc = "wait" THEN 1 ELSE rx_sem
GiveCounts    == rx_sem' = rx_sem + 1

GiveRxSem == rx_sem' = 1

\* Mutant: bytes are stored again as soon as the ring has room, during recovery.
MayStoreAlways == TRUE

(* atomic_get(&rx_overflow) == 0 *)
MayStore == ~rx_overflow

IsrStores == /\ ReadFifo
             /\ MayStore
             /\ Len(ring) < Capacity
             /\ ring' = Append(ring, sent')
             /\ GiveRxSem
             /\ UNCHANGED <<stream, rx_overflow, bootVars, threadVars,
                            frameVars>>

IsrOverflows == /\ ReadFifo
                /\ ~rx_overflow
                /\ Len(ring) >= Capacity
                /\ rx_overflow' = TRUE
                /\ GiveRxSem
                /\ UNCHANGED <<stream, ring, bootVars, threadVars, frameVars>>

Isr == IsrDrops \/ IsrStores \/ IsrOverflows

----------------------------------------------------------------------------
(* rx_frame_processor_feed: the byte at position `at` goes to the parser,  *)
(* and a complete frame to the queue, or to queue_drops when it is full.   *)
(* The queue never refuses a frame for its length: LEN is 1..MAX_PAYLOAD.  *)

Count(k) == errors' = [errors EXCEPT ![k] = @ + 1]

\* Mutant: a full queue gives up its oldest frame for the new one.
SubmitDropsOldest(p, at) ==
  IF Len(queue) < QUEUE_DEPTH
    THEN /\ queue' = Append(queue, ReceivedFrame(p.type, PayloadOf(p),
                                                 frameAt, at))
         /\ UNCHANGED errors
    ELSE /\ Count("queue_drops")
         /\ queue' = Append(Tail(queue), ReceivedFrame(p.type, PayloadOf(p),
                                                       frameAt, at))

SubmitParsedFrame(p, at) ==
  IF Len(queue) < QUEUE_DEPTH
    THEN /\ queue' = Append(queue, ReceivedFrame(p.type, PayloadOf(p),
                                                 frameAt, at))
         /\ UNCHANGED errors
    ELSE /\ Count("queue_drops")
         /\ UNCHANGED queue

ProcessParserResult(result, p, at) ==
  \/ result = "FRAME_READY" /\ SubmitParsedFrame(p, at)
  \/ result = "CRC_ERROR" /\ Count("crc_errors") /\ UNCHANGED queue
  \/ result = "LENGTH_ERROR" /\ Count("length_errors") /\ UNCHANGED queue
  \/ result = "INCOMPLETE" /\ UNCHANGED <<errors, queue>>

Feed(at) ==
  LET b      == stream[at]
      result == FeedResult(parser, b)
  IN  /\ idle' = 0
      /\ parser' = ParserFeed(parser, b)
      /\ ProcessParserResult(result, parser', at)
      /\ frameAt' = IF parser.state = "WAIT_STX" THEN at ELSE frameAt
      /\ lastFed' = at
      /\ upTo' = IF result = "FRAME_READY" THEN at ELSE upTo

----------------------------------------------------------------------------
(* uart_rx_thread.                                                         *)

StartThread == /\ pc = "ready" /\ rx_ready_sem = 1
               /\ rx_ready_sem' = 0
               /\ pc' = "wait"
               /\ UNCHANGED <<lineVars, bufferVars, boot, c, frameVars>>

(* k_sem_take with a timeout: the count is taken if there is one; without  *)
(* one the thread goes on some time later.                                 *)
TakeRxSem == /\ pc = "wait"
             /\ rx_sem' = 0
             /\ pc' = "check"
             /\ UNCHANGED <<lineVars, ring, rx_overflow, bootVars, c, frameVars>>

(* The three outcomes of the section under irq_lock.                       *)
SeeOverflow == /\ pc = "check"
               /\ rx_overflow
               /\ pc' = IF RX_OVERFLOW_POLICY = "DRAIN_BUFFER"
                          THEN "drain" ELSE "finish"
               /\ UNCHANGED <<lineVars, bufferVars, bootVars, c, frameVars>>

SeeEmpty == /\ pc = "check"
            /\ ~rx_overflow /\ ring = <<>>
            /\ pc' = "timeout"
            /\ UNCHANGED <<lineVars, bufferVars, bootVars, c, frameVars>>

PopByte == /\ pc = "check"
           /\ ~rx_overflow /\ ring /= <<>>
           /\ c' = Head(ring) /\ ring' = Tail(ring)
           /\ pc' = "feed"
           /\ UNCHANGED <<lineVars, rx_overflow, rx_sem, bootVars, frameVars>>

CheckRing == SeeOverflow \/ SeeEmpty \/ PopByte

FeedByte == /\ pc = "feed"
            /\ Feed(c)
            /\ pc' = "check"
            /\ UNCHANGED <<lineVars, bufferVars, bootVars, c>>

(* rx_recover_drain_buffer: without irq_lock, relying on the raised flag.  *)
DrainPop == /\ pc = "drain"
            /\ ring /= <<>>
            /\ c' = Head(ring) /\ ring' = Tail(ring)
            /\ pc' = "drainFeed"
            /\ UNCHANGED <<lineVars, rx_overflow, rx_sem, bootVars, frameVars>>

DrainFeed == /\ pc = "drainFeed"
             /\ Feed(c)
             /\ pc' = "drain"
             /\ UNCHANGED <<lineVars, bufferVars, bootVars, c>>

\* Mutant: `if` where the code has `while`: one byte is drained at most.
DrainEndsAtOnce == TRUE

DrainEnds == ring = <<>>

DrainDone == /\ pc = "drain"
             /\ DrainEnds
             /\ pc' = "finish"
             /\ UNCHANGED <<lineVars, bufferVars, bootVars, c, frameVars>>

\* Mutants: the partial frame survives the recovery; the flag is not cleared.
FinishKeepsFrame == /\ ring' = <<>>
                    /\ rx_overflow' = FALSE
                    /\ UNCHANGED parser
FinishKeepsFlag  == /\ ring' = <<>>
                    /\ parser' = ParserInit(parser)
                    /\ UNCHANGED rx_overflow

(* rx_finish_recovery, under irq_lock.                                     *)
ResetReception == /\ ring' = <<>>
                  /\ parser' = ParserInit(parser)
                  /\ rx_overflow' = FALSE

FinishRecovery == /\ pc = "finish"
                  /\ ResetReception
                  /\ pc' = "timeout"
                  /\ UNCHANGED <<lineVars, rx_sem, bootVars, c, idle, errors,
                                 queue, frameAt, lastFed, upTo>>

Recover == DrainPop \/ DrainFeed \/ DrainDone \/ FinishRecovery

\* Mutant: only a frame whose payload has begun is timed out.
TimedOutInPayload == parser.state = "READ_PAYLOAD" /\ idle >= FRAME_RX_TIMEOUT

(* rx_frame_processor_check_timeout *)
TimedOut == parser.state /= "WAIT_STX" /\ idle >= FRAME_RX_TIMEOUT

CheckTimeout == /\ pc = "timeout"
                /\ IF TimedOut
                     THEN parser' = ParserInit(parser) /\ Count("frame_timeouts")
                     ELSE UNCHANGED <<parser, errors>>
                /\ pc' = "wait"
                /\ UNCHANGED <<lineVars, bufferVars, bootVars, c, idle, queue,
                               frameAt, lastFed, upTo>>

RxThread == \/ StartThread \/ TakeRxSem \/ CheckRing \/ FeedByte \/ Recover
            \/ CheckTimeout

----------------------------------------------------------------------------
(* The environment: the clock, and the frame handler taking frames.        *)

Tick == /\ idle' = IF idle < FRAME_RX_TIMEOUT THEN idle + 1 ELSE idle
        /\ UNCHANGED <<lineVars, bufferVars, bootVars, threadVars, parser,
                       errors, queue, frameAt, lastFed, upTo>>

HandlerTakes == /\ queue /= <<>>
                /\ queue' = Tail(queue)
                /\ UNCHANGED <<lineVars, bufferVars, bootVars, threadVars,
                               parser, idle, errors, frameAt, lastFed, upTo>>

Next == Boot \/ Isr \/ RxThread \/ Tick \/ HandlerTakes

Spec == Init /\ [][Next]_rxVars

(* Once started, main finishes uart_rx_init; the RX thread is the highest- *)
(* priority thread of the application and is scheduled whenever it is      *)
(* ready; time passes.  Nothing obliges the line to send or the handler to *)
(* take.                                                                   *)
Fairness == /\ WF_rxVars(Boot)
            /\ WF_rxVars(RxThread)
            /\ WF_rxVars(Tick)

LiveSpec == Spec /\ Fairness

----------------------------------------------------------------------------
(* Type invariant.                                                         *)
RxTypeOK ==
  /\ stream \in Streams /\ sent \in 0 .. Len(stream)
  /\ ring \in Seq(1 .. sent) /\ Len(ring) <= Capacity
  /\ rx_overflow \in BOOLEAN
  /\ rx_sem \in 0 .. 1 /\ rx_ready_sem \in 0 .. 1
  /\ boot \in {"start", "failed", "enabled", "done"}
  /\ pc \in {"ready", "wait", "check", "feed", "drain", "drainFeed", "finish",
             "timeout"}
  /\ c \in 0 .. sent
  /\ parser \in ParserRecord
  /\ idle \in 0 .. FRAME_RX_TIMEOUT
  /\ errors \in [Counters -> Nat]
  /\ queue \in Seq(FrameRecord)
  /\ Len(queue) <= QUEUE_DEPTH
  /\ frameAt \in 0 .. sent /\ lastFed \in 0 .. sent /\ upTo \in 0 .. sent

(* No frame is put together across lost bytes: what the parser holds is    *)
(* always a gap-free stretch of the line that ends with the byte it was    *)
(* last fed, although bytes vanish whenever the ring is full, and while    *)
(* the thread is anywhere in its loop (uart_rx.c:83, :118, :187-193).      *)
AssemblyIsContiguous ==
  parser.state /= "WAIT_STX" => Partial(parser) = SubSeq(stream, frameAt, lastFed)

(* The thread never goes to sleep on work: rx_sem counts to one and many   *)
(* bytes give it once, yet whenever the thread is about to wait, a stored  *)
(* byte or a raised overflow has left the semaphore given (uart_rx.c:92,   *)
(* :110), also for what arrives after the last look at the ring.           *)
NoLostWakeup ==
  pc \in {"ready", "timeout", "wait"} /\ (ring /= <<>> \/ rx_overflow) => rx_sem = 1

(* While the thread pops without irq_lock the interrupt keeps off the ring *)
(* (comments at uart_rx.c:82 and :154), so that the recovery empties it    *)
(* however fast bytes keep coming.                                         *)
RecoveryOwnsRing ==
  [][pc' = pc /\ pc \in {"drain", "drainFeed", "finish"} => ring' = ring]_rxVars

(* Under the drain policy a stored byte is never thrown away: it leaves    *)
(* the ring only into the hands of the thread, also during a recovery,     *)
(* whose ring_init finds nothing left (uart_rx.c:157-162, :189).           *)
StoredBytesAreTaken ==
  [][ring' /= ring /\ Len(ring') <= Len(ring) /\ boot = "done" =>
       ring' = Tail(ring) /\ c' = Head(ring)]_rxVars

(* Seen from the frame queue all of this is invisible.                     *)
Delivery == INSTANCE FrameDelivery WITH drops <- errors["queue_drops"]

DeliversValidFrames == Delivery!DeliverySpec

(* An overflow does not last: the interrupt drops input only until the     *)
(* thread has recovered (uart_rx.c:20).                                    *)
RecoveryCompletes == rx_overflow ~> ~rx_overflow

(* When the line falls silent in the middle of a frame, the fragment is    *)
(* given up, by completing, by an error or by the timeout, and cannot      *)
(* swallow the first frame after the silence (rx_frame_processor.c:39-51). *)
FragmentIsDropped == parser.state /= "WAIT_STX" ~> parser.state = "WAIT_STX"

----------------------------------------------------------------------------
(* Why these hold: an inductive invariant, in named parts.                 *)

(* The thread runs only after uart_rx_init is over.                        *)
BootInv == boot /= "done" => pc = "ready" /\ rx_ready_sem = 0

(* A recovery runs under the raised flag, and the drain leaves no byte.    *)
FlagInv ==
  /\ pc \in {"drain", "drainFeed", "finish"} => rx_overflow
  /\ pc = "finish" /\ RX_OVERFLOW_POLICY = "DRAIN_BUFFER" => ring = <<>>

Holding == pc \in {"feed", "drainFeed"}

(* The byte that will be fed next.                                         *)
NextFed == IF Holding THEN c ELSE IF ring /= <<>> THEN ring[1] ELSE sent + 1

(* The bytes between the ISR and the parser are consecutive, and nothing   *)
(* is missing behind them unless the flag is up.                           *)
PositionInv ==
  /\ Holding => c \in 1 .. sent
  /\ \A i \in 1 .. Len(ring) : ring[i] = ring[1] + (i - 1)
  /\ Holding /\ ring /= <<>> => ring[1] = c + 1
  /\ ~rx_overflow /\ ring /= <<>> => ring[1] + (Len(ring) - 1) = sent
  /\ ~rx_overflow /\ ring = <<>> /\ Holding => c = sent
  /\ lastFed < NextFed

(* The parser's frame began after the last delivered one, is a stretch of  *)
(* the line, and is continued by the next byte as long as there is one     *)
(* that was received before a loss.                                        *)
FrameInv ==
  /\ ParserConsistent(parser)
  /\ upTo <= lastFed
  /\ parser.state /= "WAIT_STX" =>
       /\ upTo < frameAt /\ frameAt <= lastFed
       /\ Holding \/ ring /= <<>> \/ ~rx_overflow => NextFed = lastFed + 1
  /\ AssemblyIsContiguous

IInv == /\ RxTypeOK /\ BootInv /\ FlagInv /\ PositionInv /\ FrameInv
        /\ NoLostWakeup
=============================================================================

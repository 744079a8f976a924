---------------------------- MODULE UartRxProofs ----------------------------
(***************************************************************************)
(* For every line, ring size, queue depth, timeout and recovery policy:    *)
(* the reception path keeps its types, never sleeps on work, assembles no  *)
(* frame across lost bytes, and delivers only frames that were on the      *)
(* line.                                                                   *)
(***************************************************************************)
EXTENDS UartRx, FrameParserProofs

----------------------------------------------------------------------------
(* Feeding one byte.                                                       *)

LEMMA StreamByte ==
  ASSUME RxTypeOK, NEW at \in 1 .. sent
  PROVE  /\ stream \in Seq(Byte) /\ at \in 1 .. Len(stream)
         /\ stream[at] \in Byte
  BY RxAssumption DEF RxTypeOK

(* The parser yields one result, and what it does to queue and counters    *)
(* is well typed.                                                          *)
LEMMA SubmitTyped ==
  ASSUME RxTypeOK, NEW p \in ParserRecord, NEW at \in 1 .. sent,
         NEW result, ProcessParserResult(result, p, at)
  PROVE  /\ queue' \in Seq(FrameRecord) /\ Len(queue') <= QUEUE_DEPTH
         /\ errors' \in [Counters -> Nat]
<1>1. ASSUME NEW k \in Counters, Count(k)
      PROVE  errors' \in [Counters -> Nat]
  BY <1>1 DEF Count, RxTypeOK
<1>2. CASE result = "FRAME_READY" /\ SubmitParsedFrame(p, at)
  <2> DEFINE f == ReceivedFrame(p.type, PayloadOf(p), frameAt, at)
  <2>1. PayloadOf(p) \in Seq(Byte)
    <3>1. p.payload_length \in Nat
      BY ParserAssumption DEF ParserRecord
    <3>2. ASSUME NEW i \in 1 .. p.payload_length
          PROVE  p.payload[i - 1] \in Byte
      <4>1. i - 1 \in 0 .. MAX_PAYLOAD - 1
        BY ParserAssumption DEF ParserRecord
      <4>2. QED
        BY <4>1 DEF ParserRecord
    <3>3. QED
      BY <3>1, <3>2, IsASeq DEF PayloadOf
  <2>2. f \in FrameRecord
    <3>1. frameAt \in Nat /\ at \in Nat
      BY DEF RxTypeOK
    <3>2. p.type \in Byte
      BY DEF ParserRecord
    <3>3. QED
      BY <2>1, <3>1, <3>2 DEF ReceivedFrame, FrameRecord
  <2>3. CASE Len(queue) < QUEUE_DEPTH
    <3>1. queue' = Append(queue, f) /\ errors' = errors
      BY <1>2, <2>3 DEF SubmitParsedFrame
    <3> HIDE DEF f
    <3>2. QED
      BY <2>2, <2>3, <3>1, RxAssumption DEF RxTypeOK
  <2>4. CASE ~(Len(queue) < QUEUE_DEPTH)
    BY <1>1, <1>2, <2>4 DEF SubmitParsedFrame, RxTypeOK, Counters
  <2>5. QED
    BY <2>3, <2>4
<1>3. CASE result /= "FRAME_READY" \/ ~SubmitParsedFrame(p, at)
  BY <1>1, <1>3 DEF ProcessParserResult, RxTypeOK, Counters
<1>4. QED
  BY <1>2, <1>3

LEMMA FeedTyped ==
  ASSUME RxTypeOK, ParserConsistent(parser), NEW at \in 1 .. sent, Feed(at)
  PROVE  /\ parser' \in ParserRecord /\ ParserConsistent(parser')
         /\ queue' \in Seq(FrameRecord) /\ Len(queue') <= QUEUE_DEPTH
         /\ errors' \in [Counters -> Nat]
         /\ idle' \in 0 .. FRAME_RX_TIMEOUT
         /\ frameAt' \in 0 .. sent /\ lastFed' \in 0 .. sent /\ upTo' \in 0 .. sent
<1>1. stream[at] \in Byte
  BY StreamByte
<1>2. parser' = ParserFeed(parser, stream[at])
  BY DEF Feed
<1>3. parser' \in ParserRecord /\ ParserConsistent(parser')
  BY <1>1, <1>2, FeedConsistent DEF RxTypeOK
<1>4. ProcessParserResult(FeedResult(parser, stream[at]), parser', at)
  BY DEF Feed
<1>5. /\ queue' \in Seq(FrameRecord) /\ Len(queue') <= QUEUE_DEPTH
      /\ errors' \in [Counters -> Nat]
  BY <1>3, <1>4, SubmitTyped
<1>6. idle' \in 0 .. FRAME_RX_TIMEOUT
  BY RxAssumption DEF Feed
<1>7. /\ frameAt' \in {at, frameAt} /\ lastFed' = at /\ upTo' \in {at, upTo}
  BY DEF Feed
<1>8. frameAt' \in 0 .. sent /\ lastFed' \in 0 .. sent /\ upTo' \in 0 .. sent
  BY <1>7 DEF RxTypeOK
<1>9. QED
  BY <1>3, <1>5, <1>6, <1>8

----------------------------------------------------------------------------
(* The actions of the ISR and of the thread, one by one: what Next comes   *)
(* down to.                                                                *)
LEMMA NextCases ==
  ASSUME [Next]_rxVars
  PROVE  \/ BootFails \/ BootEnables \/ BootGivesReady
         \/ IsrDrops \/ IsrStores \/ IsrOverflows
         \/ StartThread \/ TakeRxSem \/ SeeOverflow \/ SeeEmpty \/ PopByte
         \/ FeedByte \/ DrainPop \/ DrainFeed \/ DrainDone \/ FinishRecovery
         \/ CheckTimeout \/ Tick \/ HandlerTakes \/ UNCHANGED rxVars
  BY DEF Next, Boot, Isr, RxThread, CheckRing, Recover

LEMMA ReadMore ==
  ASSUME RxTypeOK, ReadFifo
  PROVE  /\ sent' = sent + 1 /\ sent \in Nat
         /\ sent' \in 0 .. Len(stream)
         /\ ring \in Seq(1 .. sent')
         /\ c \in 0 .. sent'
         /\ frameAt \in 0 .. sent' /\ lastFed \in 0 .. sent' /\ upTo \in 0 .. sent'
<1>1. stream \in Seq(Byte)
  BY RxAssumption DEF RxTypeOK
<1>2. Len(stream) \in Nat
  BY <1>1
<1>3. sent' = sent + 1 /\ sent \in Nat /\ sent' \in 0 .. Len(stream)
  BY <1>2 DEF ReadFifo, RxTypeOK
<1>4. 1 .. sent \subseteq 1 .. sent'
  BY <1>3
<1>5. ring \in Seq(1 .. sent')
  BY <1>4, SeqMonotonic DEF RxTypeOK
<1>6. QED
  BY <1>3, <1>5 DEF RxTypeOK

LEMMA TypeStep ==
  ASSUME RxTypeOK, ParserConsistent(parser), Holding => c \in 1 .. sent,
         [Next]_rxVars
  PROVE  RxTypeOK' /\ ParserConsistent(parser')
<1> USE DEF lineVars, bufferVars, bootVars, threadVars, frameVars
<1>1. CASE BootFails
  BY <1>1 DEF BootFails, RxTypeOK
<1>2. CASE BootEnables
  <2>1. parser' \in ParserRecord /\ ParserConsistent(parser')
    BY <1>2, InitConsistent DEF BootEnables, RxTypeOK
  <2>2. ring' = <<>> /\ Len(ring') <= Capacity
    BY <1>2, RxAssumption DEF BootEnables, Capacity
  <2>3. QED
    BY <1>2, <2>1, <2>2 DEF BootEnables, RxTypeOK
<1>3. CASE BootGivesReady
  BY <1>3 DEF BootGivesReady, RxTypeOK
<1>4. CASE IsrDrops
  BY <1>4, ReadMore DEF IsrDrops, RxTypeOK
<1>5. CASE IsrStores
  <2>1. ReadFifo
    BY <1>5 DEF IsrStores
  <2>2. ring' = Append(ring, sent') /\ Len(ring) < Capacity
    BY <1>5 DEF IsrStores
  <2>3. sent' \in 1 .. sent'
    BY <2>1, ReadMore
  <2>4. ring' \in Seq(1 .. sent') /\ Len(ring') <= Capacity
    BY <2>1, <2>2, <2>3, ReadMore, RxAssumption DEF Capacity
  <2>5. QED
    BY <1>5, <2>1, <2>4, ReadMore DEF IsrStores, GiveRxSem, RxTypeOK
<1>6. CASE IsrOverflows
  BY <1>6, ReadMore DEF IsrOverflows, GiveRxSem, RxTypeOK
<1>7. CASE StartThread
  BY <1>7 DEF StartThread, RxTypeOK
<1>8. CASE TakeRxSem
  BY <1>8 DEF TakeRxSem, RxTypeOK
<1>9. CASE SeeOverflow
  BY <1>9 DEF SeeOverflow, RxTypeOK
<1>10. CASE SeeEmpty
  BY <1>10 DEF SeeEmpty, RxTypeOK
<1>11. ASSUME ring /= <<>>, c' = Head(ring), ring' = Tail(ring), sent' = sent
       PROVE  ring' \in Seq(1 .. sent') /\ Len(ring') <= Capacity /\ c' \in 0 .. sent'
  <2>1. /\ Head(ring) \in 1 .. sent /\ Tail(ring) \in Seq(1 .. sent)
        /\ Len(Tail(ring)) = Len(ring) - 1
    BY <1>11, HeadTailProperties DEF RxTypeOK
  <2>2. Len(ring) \in Nat /\ Capacity \in Nat /\ sent \in Nat
    BY RxAssumption DEF RxTypeOK, Capacity
  <2>3. QED
    BY <1>11, <2>1, <2>2 DEF RxTypeOK
<1>12. CASE PopByte
  BY <1>11, <1>12 DEF PopByte, RxTypeOK
<1>13. CASE FeedByte
  BY <1>13, FeedTyped DEF FeedByte, Holding, RxTypeOK
<1>14. CASE DrainPop
  BY <1>11, <1>14 DEF DrainPop, RxTypeOK
<1>15. CASE DrainFeed
  BY <1>15, FeedTyped DEF DrainFeed, Holding, RxTypeOK
<1>16. CASE DrainDone
  BY <1>16 DEF DrainDone, RxTypeOK
<1>17. CASE FinishRecovery
  <2>1. parser' \in ParserRecord /\ ParserConsistent(parser')
    BY <1>17, InitConsistent DEF FinishRecovery, ResetReception, RxTypeOK
  <2>2. ring' = <<>> /\ Len(ring') <= Capacity
    BY <1>17, RxAssumption DEF FinishRecovery, ResetReception, Capacity
  <2>3. rx_overflow' \in BOOLEAN
    BY <1>17 DEF FinishRecovery, ResetReception
  <2>4. /\ pc' = "timeout"
        /\ UNCHANGED <<stream, sent, rx_sem, boot, rx_ready_sem, c, idle, errors,
                       queue, frameAt, lastFed, upTo>>
    BY <1>17 DEF FinishRecovery
  <2>5. QED
    BY <2>1, <2>2, <2>3, <2>4 DEF RxTypeOK
<1>18. CASE CheckTimeout
  <2>1. parser' \in ParserRecord /\ ParserConsistent(parser')
    BY <1>18, InitConsistent DEF CheckTimeout, RxTypeOK
  <2>2. errors' \in [Counters -> Nat]
    BY <1>18 DEF CheckTimeout, Count, RxTypeOK, Counters
  <2>3. QED
    BY <1>18, <2>1, <2>2 DEF CheckTimeout, RxTypeOK
<1>19. CASE Tick
  BY <1>19, RxAssumption DEF Tick, RxTypeOK
<1>20. CASE HandlerTakes
  <2>1. queue' \in Seq(FrameRecord) /\ Len(queue') <= QUEUE_DEPTH
    BY <1>20, HeadTailProperties, RxAssumption DEF HandlerTakes, RxTypeOK
  <2>2. QED
    BY <1>20, <2>1 DEF HandlerTakes, RxTypeOK
<1>21. CASE UNCHANGED rxVars
  BY <1>21 DEF rxVars, RxTypeOK
<1>22. QED
  BY NextCases, <1>1, <1>2, <1>3, <1>4, <1>5, <1>6, <1>7, <1>8, <1>9, <1>10,
     <1>12, <1>13, <1>14, <1>15, <1>16, <1>17, <1>18, <1>19, <1>20, <1>21

----------------------------------------------------------------------------
(* Control: the order of start-up, the flag and the semaphore.             *)
ControlInv == BootInv /\ FlagInv /\ NoLostWakeup

LEMMA ControlStep ==
  ASSUME RxTypeOK, ControlInv, [Next]_rxVars
  PROVE  ControlInv'
<1> USE DEF lineVars, bufferVars, bootVars, threadVars, frameVars,
            ControlInv, BootInv, FlagInv, NoLostWakeup
<1>1. CASE BootFails
  BY <1>1 DEF BootFails
<1>2. CASE BootEnables
  BY <1>2 DEF BootEnables
<1>3. CASE BootGivesReady
  BY <1>3 DEF BootGivesReady
<1>4. CASE IsrDrops
  BY <1>4 DEF IsrDrops, ReadFifo
<1>5. CASE IsrStores
  BY <1>5 DEF IsrStores, ReadFifo, MayStore, GiveRxSem
<1>6. CASE IsrOverflows
  BY <1>6 DEF IsrOverflows, ReadFifo, GiveRxSem
<1>7. CASE StartThread
  BY <1>7 DEF StartThread
<1>8. CASE TakeRxSem
  BY <1>8 DEF TakeRxSem
<1>9. CASE SeeOverflow
  BY <1>9 DEF SeeOverflow, RxTypeOK
<1>10. CASE SeeEmpty
  BY <1>10 DEF SeeEmpty
<1>11. CASE PopByte
  BY <1>11 DEF PopByte
<1>12. CASE FeedByte
  BY <1>12 DEF FeedByte
<1>13. CASE DrainPop
  BY <1>13 DEF DrainPop
<1>14. CASE DrainFeed
  BY <1>14 DEF DrainFeed
<1>15. CASE DrainDone
  BY <1>15 DEF DrainDone, DrainEnds
<1>16. CASE FinishRecovery
  BY <1>16 DEF FinishRecovery, ResetReception
<1>17. CASE CheckTimeout
  BY <1>17 DEF CheckTimeout
<1>18. CASE Tick
  BY <1>18 DEF Tick
<1>19. CASE HandlerTakes
  BY <1>19 DEF HandlerTakes
<1>20. CASE UNCHANGED rxVars
  BY <1>20 DEF rxVars
<1>21. QED
  BY NextCases, <1>1, <1>2, <1>3, <1>4, <1>5, <1>6, <1>7, <1>8, <1>9, <1>10,
     <1>11, <1>12, <1>13, <1>14, <1>15, <1>16, <1>17, <1>18, <1>19, <1>20

----------------------------------------------------------------------------
(* Positions: what the ring, the thread's hand and the line have to do     *)
(* with each other.                                                        *)

(* The ring as numbers: its length, its first and its other elements.      *)
LEMMA RingFacts ==
  ASSUME RxTypeOK
  PROVE  /\ sent \in Nat /\ Len(ring) \in Nat /\ lastFed \in Nat /\ c \in Nat
         /\ lastFed <= sent /\ c <= sent
         /\ ring /= <<>> <=> Len(ring) >= 1
         /\ \A i \in 1 .. Len(ring) : ring[i] \in 1 .. sent
<1>1. stream \in Seq(Byte)
  BY RxAssumption DEF RxTypeOK
<1>2. sent \in Nat
  BY <1>1 DEF RxTypeOK
<1>3. ring \in Seq(1 .. sent)
  BY DEF RxTypeOK
<1>4. Len(ring) \in Nat /\ (ring /= <<>> <=> Len(ring) >= 1)
  BY <1>3, EmptySeq
<1>5. QED
  BY <1>2, <1>3, <1>4, ElementOfSeq DEF RxTypeOK

(* The oldest byte goes into the thread's hand.                            *)
LEMMA PopFacts ==
  ASSUME RxTypeOK, PositionInv, ring /= <<>>, c' = Head(ring), ring' = Tail(ring)
  PROVE  /\ c' = ring[1] /\ c' \in 1 .. sent
         /\ Len(ring') = Len(ring) - 1
         /\ ring' /= <<>> <=> Len(ring) >= 2
         /\ \A i \in 1 .. Len(ring') : ring'[i] = c' + i
<1>1. ring \in Seq(1 .. sent)
  BY DEF RxTypeOK
<1>2. /\ Head(ring) = ring[1]
      /\ Tail(ring) \in Seq(1 .. sent) /\ Len(Tail(ring)) = Len(ring) - 1
      /\ \A i \in 1 .. Len(Tail(ring)) : Tail(ring)[i] = ring[i + 1]
  BY <1>1, HeadTailProperties
<1>3. Len(ring) \in Nat /\ Len(ring) >= 1 /\ sent \in Nat
  BY RingFacts
<1>4. ring[1] \in 1 .. sent
  BY <1>3, RingFacts
<1>5. ring' /= <<>> <=> Len(ring) >= 2
  <2>1. ring' \in Seq(1 .. sent) /\ Len(ring') = Len(ring) - 1
    BY <1>2
  <2>2. ring' /= <<>> <=> Len(ring') /= 0
    BY <2>1, EmptySeq
  <2>3. QED
    BY <1>3, <2>1, <2>2
<1>6. ASSUME NEW i \in 1 .. Len(ring) - 1
      PROVE  Tail(ring)[i] = ring[1] + i
  <2>1. Tail(ring)[i] = ring[i + 1]
    BY <1>2
  <2>2. i + 1 \in 1 .. Len(ring)
    BY <1>3
  <2>3. ring[i + 1] = ring[1] + (i + 1 - 1)
    BY <2>2 DEF PositionInv
  <2>4. QED
    BY <1>3, <1>4, <2>1, <2>3
<1>7. QED
  BY <1>2, <1>4, <1>5, <1>6

(* A byte read from the line goes behind the newest one.                   *)
LEMMA StoreFacts ==
  ASSUME RxTypeOK, ring' = Append(ring, sent + 1)
  PROVE  /\ ring' /= <<>> /\ Len(ring') = Len(ring) + 1
         /\ \A i \in 1 .. Len(ring) : ring'[i] = ring[i]
         /\ ring'[Len(ring) + 1] = sent + 1
<1>1. sent \in Nat /\ Len(ring) \in Nat
  BY RingFacts
<1>2. ring \in Seq(Nat) /\ sent + 1 \in Nat
  <2>1. 1 .. sent \subseteq Nat
    BY <1>1
  <2>2. QED
    BY <1>1, <2>1, SeqMonotonic DEF RxTypeOK
<1>3. /\ Len(Append(ring, sent + 1)) = Len(ring) + 1
      /\ \A i \in 1 .. Len(ring) : Append(ring, sent + 1)[i] = ring[i]
      /\ Append(ring, sent + 1)[Len(ring) + 1] = sent + 1
      /\ Append(ring, sent + 1) \in Seq(Nat)
  BY <1>2
<1>4. Append(ring, sent + 1) /= <<>>
  BY <1>1, <1>3, EmptySeq
<1>5. QED
  BY <1>3, <1>4

(* Taking the oldest byte in hand, with irq_lock or during a drain.        *)
LEMMA PopKeepsPositions ==
  ASSUME RxTypeOK, PositionInv, ~Holding, ring /= <<>>,
         c' = Head(ring), ring' = Tail(ring), Holding',
         sent' = sent, rx_overflow' = rx_overflow, lastFed' = lastFed
  PROVE  PositionInv' /\ NextFed' = NextFed
<1>1. /\ sent \in Nat /\ Len(ring) \in Nat /\ Len(ring) >= 1 /\ lastFed \in Nat
      /\ ring[1] \in 1 .. sent
  BY RingFacts
<1>2. /\ c' = ring[1] /\ c' \in 1 .. sent
      /\ Len(ring') = Len(ring) - 1
      /\ ring' /= <<>> <=> Len(ring) >= 2
      /\ \A i \in 1 .. Len(ring') : ring'[i] = c' + i
  BY PopFacts
<1>3. ring' /= <<>> => ring'[1] = c' + 1
  BY <1>1, <1>2
<1>4. \A i \in 1 .. Len(ring') : ring'[i] = ring'[1] + (i - 1)
  BY <1>1, <1>2
<1>5. NextFed = ring[1] /\ NextFed' = c'
  BY DEF NextFed
<1>6. lastFed' < NextFed'
  BY <1>2, <1>5 DEF PositionInv
<1>7. ~rx_overflow => ring[1] + (Len(ring) - 1) = sent
  BY DEF PositionInv
<1>8. ASSUME ~rx_overflow', ring' /= <<>>
      PROVE  ring'[1] + (Len(ring') - 1) = sent'
  <2>1. ring[1] + (Len(ring) - 1) = sent
    BY <1>7, <1>8
  <2>2. ring'[1] = ring[1] + 1 /\ Len(ring') = Len(ring) - 1
    BY <1>2, <1>3, <1>8
  <2>3. \A r, n \in Nat : r + (n - 1) = sent => (r + 1) + ((n - 1) - 1) = sent
    BY <1>1
  <2>4. ring[1] \in Nat
    BY <1>1
  <2>5. (ring[1] + 1) + ((Len(ring) - 1) - 1) = sent
    BY <1>1, <2>1, <2>3, <2>4
  <2>6. QED
    BY <1>8, <2>2, <2>5
<1>9. ~rx_overflow' /\ ring' = <<>> => c' = sent'
  BY <1>1, <1>2, <1>7
<1>10. QED
  BY <1>2, <1>3, <1>4, <1>5, <1>6, <1>8, <1>9 DEF PositionInv

(* Feeding the byte in hand.                                               *)
LEMMA FeedKeepsPositions ==
  ASSUME RxTypeOK, PositionInv, Holding, ~Holding', lastFed' = c,
         ring' = ring, c' = c, sent' = sent, rx_overflow' = rx_overflow
  PROVE  /\ PositionInv'
         /\ ring' /= <<>> \/ ~rx_overflow' => NextFed' = lastFed' + 1
<1>1. /\ sent \in Nat /\ Len(ring) \in Nat
      /\ ring /= <<>> <=> Len(ring) >= 1
      /\ c \in 1 .. sent
  BY RingFacts DEF PositionInv
<1>2. NextFed' = IF ring /= <<>> THEN ring[1] ELSE sent + 1
  BY DEF NextFed
<1>3. ring /= <<>> => ring[1] = c + 1
  BY DEF PositionInv
<1>4. ~rx_overflow /\ ring = <<>> => c = sent
  BY DEF PositionInv
<1>5. lastFed' < NextFed'
  BY <1>1, <1>2, <1>3
<1>6. ring' /= <<>> \/ ~rx_overflow' => NextFed' = lastFed' + 1
  <2>1. CASE ring /= <<>>
    BY <1>2, <1>3, <2>1
  <2>2. CASE ring = <<>> /\ ~rx_overflow
    <3>1. c = sent
      BY <1>4, <2>2
    <3>2. NextFed' = sent + 1
      BY <1>2, <2>2
    <3>3. QED
      BY <3>1, <3>2
  <2>3. QED
    BY <2>1, <2>2
<1>7. QED
  BY <1>5, <1>6 DEF PositionInv

(* Reading a byte from the line.                                           *)
LEMMA IsrKeepsPositions ==
  ASSUME RxTypeOK, PositionInv, UNCHANGED <<pc, c, lastFed>>, sent' = sent + 1,
         \/ ring' = ring /\ rx_overflow'
         \/ ring' = Append(ring, sent + 1) /\ ~rx_overflow /\ ~rx_overflow'
  PROVE  /\ PositionInv'
         /\ Holding \/ ring /= <<>> \/ ~rx_overflow' => NextFed' = NextFed
<1>1. /\ sent \in Nat /\ Len(ring) \in Nat /\ lastFed \in Nat /\ c \in Nat
      /\ ring /= <<>> <=> Len(ring) >= 1
      /\ lastFed <= sent
      /\ \A i \in 1 .. Len(ring) : ring[i] \in 1 .. sent
  BY RingFacts
<1>2. Holding' <=> Holding
  BY DEF Holding
<1>3. CASE ring' = ring /\ rx_overflow'
  <2>1. Holding \/ ring /= <<>> => NextFed' = NextFed
    BY <1>2, <1>3 DEF NextFed
  <2>2. ~Holding /\ ring = <<>> => NextFed' = sent' + 1
    BY <1>2, <1>3 DEF NextFed
  <2>3. lastFed' < NextFed'
    BY <1>1, <2>1, <2>2 DEF PositionInv
  <2>4. Holding' => c' \in 1 .. sent'
    BY <1>1, <1>2 DEF PositionInv
  <2>5. QED
    BY <1>2, <1>3, <2>1, <2>3, <2>4 DEF PositionInv
<1>4. CASE ring' = Append(ring, sent + 1) /\ ~rx_overflow /\ ~rx_overflow'
  <2>1. /\ ring' /= <<>> /\ Len(ring') = Len(ring) + 1
        /\ \A i \in 1 .. Len(ring) : ring'[i] = ring[i]
        /\ ring'[Len(ring) + 1] = sent + 1
    BY <1>4, StoreFacts
  <2>2. CASE ring = <<>>
    <3>1. Len(ring) = 0 /\ ring'[1] = sent + 1
      BY <1>1, <2>1, <2>2
    <3>2. NextFed' = NextFed
      BY <1>2, <2>1, <2>2, <3>1 DEF NextFed
    <3>3. Holding' => c' \in 1 .. sent' /\ ring'[1] = c' + 1
      BY <1>1, <1>2, <1>4, <2>2, <3>1 DEF PositionInv
    <3>4. \A i \in 1 .. Len(ring') : ring'[i] = ring'[1] + (i - 1)
      BY <1>1, <2>1, <3>1
    <3>5. ring'[1] + (Len(ring') - 1) = sent'
      BY <1>1, <2>1, <3>1
    <3>6. lastFed' < NextFed'
      BY <3>2 DEF PositionInv
    <3>7. QED
      BY <2>1, <3>2, <3>3, <3>4, <3>5, <3>6 DEF PositionInv
  <2>3. CASE ring /= <<>>
    <3>1. Len(ring) >= 1 /\ ring'[1] = ring[1] /\ ring[1] \in Nat
      BY <1>1, <2>1, <2>3
    <3>2. NextFed' = NextFed
      BY <1>2, <2>1, <2>3, <3>1 DEF NextFed
    <3>3. Holding' => c' \in 1 .. sent' /\ ring'[1] = c' + 1
      BY <1>1, <1>2, <2>3, <3>1 DEF PositionInv
    <3>4. ring[1] + (Len(ring) - 1) = sent
      BY <1>4, <2>3 DEF PositionInv
    <3>5. ASSUME NEW i \in 1 .. Len(ring')
          PROVE  ring'[i] = ring'[1] + (i - 1)
      <4>1. CASE i \in 1 .. Len(ring)
        BY <2>1, <3>1, <4>1 DEF PositionInv
      <4>2. CASE i = Len(ring) + 1
        BY <1>1, <2>1, <3>1, <3>4, <4>2
      <4>3. QED
        BY <1>1, <2>1, <4>1, <4>2
    <3>6. ring'[1] + (Len(ring') - 1) = sent'
      BY <1>1, <2>1, <3>1, <3>4
    <3>7. lastFed' < NextFed'
      BY <3>2 DEF PositionInv
    <3>8. QED
      BY <2>1, <3>2, <3>3, <3>5, <3>6, <3>7 DEF PositionInv
  <2>4. QED
    BY <2>2, <2>3
<1>5. QED
  BY <1>3, <1>4

(* Emptying the ring.                                                      *)
LEMMA ClearKeepsPositions ==
  ASSUME RxTypeOK, ring' = <<>>, ~Holding', sent' = sent, lastFed' = lastFed
  PROVE  PositionInv'
<1>1. lastFed < sent + 1
  BY RingFacts
<1>2. Len(ring') = 0
  OBVIOUS
<1>3. NextFed' = sent + 1
  BY DEF NextFed
<1>4. QED
  BY <1>1, <1>2, <1>3 DEF PositionInv

(* Everything else.                                                        *)
LEMMA SameKeepsPositions ==
  ASSUME PositionInv, Holding' <=> Holding, UNCHANGED <<c, ring, sent, lastFed>>,
         rx_overflow' = rx_overflow
  PROVE  PositionInv' /\ NextFed' = NextFed
  BY DEF PositionInv, NextFed

LEMMA PositionStep ==
  ASSUME RxTypeOK, PositionInv, FlagInv, BootInv, [Next]_rxVars
  PROVE  PositionInv'
<1> USE DEF lineVars, bufferVars, bootVars, threadVars, frameVars
<1>1. CASE BootFails
  BY <1>1, SameKeepsPositions DEF BootFails, Holding
<1>2. CASE BootEnables
  BY <1>2, ClearKeepsPositions DEF BootEnables, BootInv, Holding
<1>3. CASE BootGivesReady
  BY <1>3, SameKeepsPositions DEF BootGivesReady, Holding
<1>4. CASE IsrDrops
  BY <1>4, IsrKeepsPositions DEF IsrDrops, ReadFifo
<1>5. CASE IsrStores
  <2>1. /\ sent' = sent + 1 /\ ring' = Append(ring, sent + 1)
        /\ ~rx_overflow /\ rx_overflow' = rx_overflow
    BY <1>5 DEF IsrStores, ReadFifo, MayStore
  <2>2. UNCHANGED <<pc, c, lastFed>>
    BY <1>5 DEF IsrStores
  <2>3. QED
    BY <2>1, <2>2, IsrKeepsPositions
<1>6. CASE IsrOverflows
  <2>1. sent' = sent + 1 /\ ring' = ring /\ rx_overflow'
    BY <1>6 DEF IsrOverflows, ReadFifo
  <2>2. UNCHANGED <<pc, c, lastFed>>
    BY <1>6 DEF IsrOverflows
  <2>3. QED
    BY <2>1, <2>2, IsrKeepsPositions
<1>7. CASE StartThread
  BY <1>7, SameKeepsPositions DEF StartThread, Holding
<1>8. CASE TakeRxSem
  BY <1>8, SameKeepsPositions DEF TakeRxSem, Holding
<1>9. CASE SeeOverflow
  BY <1>9, SameKeepsPositions DEF SeeOverflow, Holding
<1>10. CASE SeeEmpty
  BY <1>10, SameKeepsPositions DEF SeeEmpty, Holding
<1>11. CASE PopByte
  BY <1>11, PopKeepsPositions DEF PopByte, Holding
<1>12. CASE FeedByte
  <2>1. /\ Holding /\ ~Holding' /\ lastFed' = c
        /\ UNCHANGED <<ring, c, sent, rx_overflow>>
    BY <1>12 DEF FeedByte, Feed, Holding
  <2>2. QED
    BY <2>1, FeedKeepsPositions
<1>13. CASE DrainPop
  BY <1>13, PopKeepsPositions DEF DrainPop, Holding
<1>14. CASE DrainFeed
  <2>1. /\ Holding /\ ~Holding' /\ lastFed' = c
        /\ UNCHANGED <<ring, c, sent, rx_overflow>>
    BY <1>14 DEF DrainFeed, Feed, Holding
  <2>2. QED
    BY <2>1, FeedKeepsPositions
<1>15. CASE DrainDone
  BY <1>15, SameKeepsPositions DEF DrainDone, Holding
<1>16. CASE FinishRecovery
  <2>1. ring' = <<>> /\ ~Holding' /\ UNCHANGED <<sent, lastFed>>
    BY <1>16 DEF FinishRecovery, ResetReception, Holding
  <2>2. QED
    BY <2>1, ClearKeepsPositions
<1>17. CASE CheckTimeout
  BY <1>17, SameKeepsPositions DEF CheckTimeout, Holding
<1>18. CASE Tick
  BY <1>18, SameKeepsPositions DEF Tick, Holding
<1>19. CASE HandlerTakes
  BY <1>19, SameKeepsPositions DEF HandlerTakes, Holding
<1>20. CASE UNCHANGED rxVars
  BY <1>20, SameKeepsPositions DEF rxVars, Holding
<1>21. QED
  BY NextCases, <1>1, <1>2, <1>3, <1>4, <1>5, <1>6, <1>7, <1>8, <1>9, <1>10,
     <1>11, <1>12, <1>13, <1>14, <1>15, <1>16, <1>17, <1>18, <1>19, <1>20

----------------------------------------------------------------------------
(* Frames: the parser's frame and the stretch of the line it came from.    *)

(* The place in the line where the frame begins that the byte in hand      *)
(* belongs to.                                                             *)
FrameStart == IF parser.state = "WAIT_STX" THEN c ELSE frameAt

(* The byte in hand continues the stretch the parser has received.         *)
LEMMA StretchGrows ==
  ASSUME RxTypeOK, PositionInv, FrameInv, Holding
  PROVE  /\ c \in 1 .. Len(stream) /\ lastFed < c
         /\ FrameStart \in 1 .. c /\ upTo < FrameStart
         /\ Append(Partial(parser), stream[c]) = SubSeq(stream, FrameStart, c)
<1>1. /\ stream \in Seq(Byte) /\ c \in 1 .. sent /\ c \in 1 .. Len(stream)
      /\ stream[c] \in Byte
  BY StreamByte DEF PositionInv
<1>2. sent \in Nat /\ lastFed \in Nat /\ upTo \in Nat /\ frameAt \in Nat
  BY RingFacts DEF RxTypeOK
<1>3. NextFed = c /\ lastFed < c /\ upTo <= lastFed
  BY DEF PositionInv, NextFed, FrameInv
<1>4. parser \in ParserRecord /\ ParserConsistent(parser)
  BY DEF RxTypeOK, FrameInv
<1>5. CASE parser.state = "WAIT_STX"
  <2>1. Partial(parser) = <<>>
    BY <1>4, <1>5, SearchHoldsNothing
  <2>2. SubSeq(stream, c, c) = SubSeq(stream, c, c - 1) \o <<stream[c]>>
    BY <1>1, SubSeqRecursiveSecond
  <2>3. SubSeq(stream, c, c - 1) = <<>>
    BY <1>1, SubSeqEmpty
  <2>4. Append(<<>>, stream[c]) = <<stream[c]>> /\ <<>> \o <<stream[c]>> = <<stream[c]>>
    BY <1>1
  <2>5. FrameStart = c
    BY <1>5 DEF FrameStart
  <2>6. QED
    BY <1>1, <1>2, <1>3, <2>1, <2>2, <2>3, <2>4, <2>5
<1>6. CASE parser.state /= "WAIT_STX"
  <2>1. /\ upTo < frameAt /\ frameAt <= lastFed /\ c = lastFed + 1
        /\ Partial(parser) = SubSeq(stream, frameAt, lastFed)
    BY <1>3, <1>6 DEF FrameInv, AssemblyIsContiguous
  <2>2. frameAt \in 1 .. Len(stream) /\ c \in frameAt .. Len(stream)
    BY <1>1, <1>2, <2>1
  <2>3. SubSeq(stream, frameAt, c) = SubSeq(stream, frameAt, c - 1) \o <<stream[c]>>
    BY <1>1, <2>2, SubSeqRecursiveSecond
  <2>4. c - 1 = lastFed
    BY <1>2, <2>1
  <2>5. Partial(parser) \in Seq(Nat) /\ stream[c] \in Nat
    BY <1>1, <1>4, PartialIsSeq, ParserAssumption
  <2>6. Append(Partial(parser), stream[c]) = Partial(parser) \o <<stream[c]>>
    BY <2>5, AppendIsConcat
  <2>7. FrameStart = frameAt
    BY <1>6 DEF FrameStart
  <2>8. QED
    BY <1>1, <1>2, <1>3, <2>1, <2>2, <2>3, <2>4, <2>6, <2>7
<1>7. QED
  BY <1>5, <1>6

(* Feeding the byte in hand.                                               *)
LEMMA FeedKeepsFrame ==
  ASSUME RxTypeOK, PositionInv, FrameInv, Holding, ~Holding', Feed(c),
         UNCHANGED stream,
         ring' /= <<>> \/ ~rx_overflow' => NextFed' = lastFed' + 1
  PROVE  FrameInv'
<1>1. /\ c \in 1 .. Len(stream) /\ lastFed < c
      /\ FrameStart \in 1 .. c /\ upTo < FrameStart
      /\ Append(Partial(parser), stream[c]) = SubSeq(stream, FrameStart, c)
  BY StretchGrows
<1>2. parser \in ParserRecord /\ ParserConsistent(parser) /\ stream[c] \in Byte
  BY StreamByte DEF RxTypeOK, FrameInv, PositionInv
<1>3. parser' = ParserFeed(parser, stream[c])
  BY DEF Feed
<1>4. ParserConsistent(parser')
  BY <1>2, <1>3, FeedConsistent
<1>5. lastFed' = c /\ frameAt' = FrameStart /\ upTo' \in {c, upTo}
  BY DEF Feed, FrameStart
<1>6. upTo \in Nat /\ lastFed \in Nat /\ c \in Nat /\ upTo <= lastFed
  BY RingFacts DEF RxTypeOK, FrameInv
<1>7. upTo' <= lastFed'
  BY <1>1, <1>5, <1>6
<1>8. ASSUME parser'.state /= "WAIT_STX"
      PROVE  /\ upTo' < frameAt' /\ frameAt' <= lastFed'
             /\ Partial(parser') = SubSeq(stream', frameAt', lastFed')
  <2>1. /\ Partial(parser') = Append(Partial(parser), stream[c])
        /\ FeedResult(parser, stream[c]) = "INCOMPLETE"
    BY <1>2, <1>3, <1>8, FeedGrows
  <2>2. upTo' = upTo
    BY <2>1 DEF Feed
  <2>3. QED
    BY <1>1, <1>5, <2>1, <2>2
<1>9. QED
  BY <1>4, <1>7, <1>8 DEF FrameInv, AssemblyIsContiguous

(* parser_init.                                                            *)
LEMMA ResetKeepsFrame ==
  ASSUME RxTypeOK, FrameInv, parser' = ParserInit(parser),
         UNCHANGED <<lastFed, upTo>>
  PROVE  FrameInv'
<1>1. ParserConsistent(parser') /\ parser'.state = "WAIT_STX"
  BY InitConsistent DEF RxTypeOK
<1>2. QED
  BY <1>1 DEF FrameInv, AssemblyIsContiguous

(* Everything else: the next byte to be fed stays the same as long as it   *)
(* was received before a loss.                                             *)
LEMMA SameKeepsFrame ==
  ASSUME FrameInv, UNCHANGED <<stream, parser, frameAt, lastFed, upTo>>,
         Holding' \/ ring' /= <<>> \/ ~rx_overflow' =>
           /\ Holding \/ ring /= <<>> \/ ~rx_overflow
           /\ NextFed' = NextFed
  PROVE  FrameInv'
  BY DEF FrameInv, AssemblyIsContiguous

LEMMA FrameStep ==
  ASSUME RxTypeOK, PositionInv, FrameInv, [Next]_rxVars
  PROVE  FrameInv'
<1> USE DEF lineVars, bufferVars, bootVars, threadVars, frameVars
<1>1. CASE BootFails
  BY <1>1, SameKeepsFrame DEF BootFails, Holding, NextFed
<1>2. CASE BootEnables
  BY <1>2, ResetKeepsFrame DEF BootEnables
<1>3. CASE BootGivesReady
  BY <1>3, SameKeepsFrame DEF BootGivesReady, Holding, NextFed
<1>4. CASE IsrDrops
  <2>1. /\ UNCHANGED <<pc, c, lastFed>> /\ sent' = sent + 1 /\ ring' = ring
        /\ rx_overflow /\ rx_overflow'
    BY <1>4 DEF IsrDrops, ReadFifo
  <2>2. Holding \/ ring /= <<>> => NextFed' = NextFed
    BY <2>1, IsrKeepsPositions
  <2>3. QED
    BY <1>4, <2>1, <2>2, SameKeepsFrame DEF IsrDrops, Holding
<1>5. CASE IsrStores
  <2>1. /\ sent' = sent + 1 /\ ring' = Append(ring, sent + 1)
        /\ ~rx_overflow /\ rx_overflow' = rx_overflow
    BY <1>5 DEF IsrStores, ReadFifo, MayStore
  <2>2. UNCHANGED <<pc, c, stream, parser, frameAt, lastFed, upTo>>
    BY <1>5 DEF IsrStores
  <2>3. NextFed' = NextFed
    BY <2>1, <2>2, IsrKeepsPositions
  <2>4. QED
    BY <2>1, <2>2, <2>3, SameKeepsFrame
<1>6. CASE IsrOverflows
  <2>1. /\ sent' = sent + 1 /\ ring' = ring /\ rx_overflow'
        /\ UNCHANGED <<pc, c, stream, parser, frameAt, lastFed, upTo>>
    BY <1>6 DEF IsrOverflows, ReadFifo
  <2>2. Holding \/ ring /= <<>> => NextFed' = NextFed
    BY <2>1, IsrKeepsPositions
  <2>3. QED
    BY <2>1, <2>2, SameKeepsFrame DEF Holding
<1>7. CASE StartThread
  BY <1>7, SameKeepsFrame DEF StartThread, Holding, NextFed
<1>8. CASE TakeRxSem
  BY <1>8, SameKeepsFrame DEF TakeRxSem, Holding, NextFed
<1>9. CASE SeeOverflow
  BY <1>9, SameKeepsFrame DEF SeeOverflow, Holding, NextFed
<1>10. CASE SeeEmpty
  BY <1>10, SameKeepsFrame DEF SeeEmpty, Holding, NextFed
<1>11. CASE PopByte
  <2>1. NextFed' = NextFed
    BY <1>11, PopKeepsPositions DEF PopByte, Holding
  <2>2. QED
    BY <1>11, <2>1, SameKeepsFrame DEF PopByte
<1>12. CASE FeedByte
  <2>1. /\ Holding /\ ~Holding' /\ lastFed' = c /\ Feed(c)
        /\ UNCHANGED <<stream, ring, c, sent, rx_overflow>>
    BY <1>12 DEF FeedByte, Feed, Holding
  <2>2. QED
    BY <2>1, FeedKeepsPositions, FeedKeepsFrame
<1>13. CASE DrainPop
  <2>1. NextFed' = NextFed
    BY <1>13, PopKeepsPositions DEF DrainPop, Holding
  <2>2. QED
    BY <1>13, <2>1, SameKeepsFrame DEF DrainPop
<1>14. CASE DrainFeed
  <2>1. /\ Holding /\ ~Holding' /\ lastFed' = c /\ Feed(c)
        /\ UNCHANGED <<stream, ring, c, sent, rx_overflow>>
    BY <1>14 DEF DrainFeed, Feed, Holding
  <2>2. QED
    BY <2>1, FeedKeepsPositions, FeedKeepsFrame
<1>15. CASE DrainDone
  BY <1>15, SameKeepsFrame DEF DrainDone, Holding, NextFed
<1>16. CASE FinishRecovery
  BY <1>16, ResetKeepsFrame DEF FinishRecovery, ResetReception
<1>17. CASE CheckTimeout
  <2>1. CASE TimedOut
    BY <1>17, <2>1, ResetKeepsFrame DEF CheckTimeout
  <2>2. CASE ~TimedOut
    BY <1>17, <2>2, SameKeepsFrame DEF CheckTimeout, Holding, NextFed
  <2>3. QED
    BY <2>1, <2>2
<1>18. CASE Tick
  BY <1>18, SameKeepsFrame DEF Tick, Holding, NextFed
<1>19. CASE HandlerTakes
  BY <1>19, SameKeepsFrame DEF HandlerTakes, Holding, NextFed
<1>20. CASE UNCHANGED rxVars
  BY <1>20, SameKeepsFrame DEF rxVars, Holding, NextFed
<1>21. QED
  BY NextCases, <1>1, <1>2, <1>3, <1>4, <1>5, <1>6, <1>7, <1>8, <1>9, <1>10,
     <1>11, <1>12, <1>13, <1>14, <1>15, <1>16, <1>17, <1>18, <1>19, <1>20

----------------------------------------------------------------------------
(* The invariant.                                                          *)

LEMMA StaticParserConsistent ==
  StaticParser \in ParserRecord /\ ParserConsistent(StaticParser)
  /\ StaticParser.state = "WAIT_STX"
BY ParserAssumption DEF StaticParser, ParserRecord, ParserStates, ParserConsistent

LEMMA InitEstablishes == Init => IInv
<1> SUFFICES ASSUME Init PROVE IInv
  OBVIOUS
<1>1. stream \in Seq(Byte) /\ Len(stream) \in Nat
  BY RxAssumption DEF Init
<1>2. RxTypeOK
  <2>1. ring \in Seq(1 .. sent) /\ Len(ring) <= Capacity
    BY RxAssumption DEF Init, Capacity
  <2>2. errors \in [Counters -> Nat]
    BY DEF Init
  <2>3. queue \in Seq(FrameRecord) /\ Len(queue) <= QUEUE_DEPTH
    BY RxAssumption DEF Init
  <2>4. idle \in 0 .. FRAME_RX_TIMEOUT
    BY RxAssumption DEF Init
  <2>5. parser \in ParserRecord
    BY StaticParserConsistent DEF Init
  <2>6. /\ stream \in Streams /\ sent \in 0 .. Len(stream)
        /\ c \in 0 .. sent /\ frameAt \in 0 .. sent /\ lastFed \in 0 .. sent
        /\ upTo \in 0 .. sent
    BY <1>1 DEF Init
  <2>7. rx_overflow \in BOOLEAN
    BY Zenon DEF Init
  <2>8. /\ rx_sem \in 0 .. 1 /\ rx_ready_sem \in 0 .. 1
        /\ boot = "start" /\ pc = "ready"
    BY DEF Init
  <2>9. QED
    BY <2>1, <2>2, <2>3, <2>4, <2>5, <2>6, <2>7, <2>8 DEF RxTypeOK
<1>3. BootInv /\ FlagInv /\ NoLostWakeup
  BY DEF Init, BootInv, FlagInv, NoLostWakeup
<1>4. PositionInv
  BY DEF Init, PositionInv, NextFed, Holding
<1>5. FrameInv
  BY StaticParserConsistent DEF Init, FrameInv, AssemblyIsContiguous
<1>6. QED
  BY <1>2, <1>3, <1>4, <1>5 DEF IInv

LEMMA InvariantStep == IInv /\ [Next]_rxVars => IInv'
<1> SUFFICES ASSUME IInv, [Next]_rxVars PROVE IInv'
  OBVIOUS
<1>1. ParserConsistent(parser) /\ (Holding => c \in 1 .. sent)
  BY DEF IInv, FrameInv, PositionInv
<1>2. RxTypeOK'
  BY <1>1, TypeStep DEF IInv
<1>3. ControlInv'
  BY ControlStep DEF IInv, ControlInv
<1>4. PositionInv'
  BY PositionStep DEF IInv
<1>5. FrameInv'
  BY FrameStep DEF IInv
<1>6. QED
  BY <1>2, <1>3, <1>4, <1>5 DEF IInv, ControlInv

THEOREM RxInvariant == Spec => []IInv
BY InitEstablishes, InvariantStep, PTL DEF Spec

(* The reception path is well typed, whatever comes over the line.         *)
THEOREM RxIsTyped == Spec => []RxTypeOK
<1>1. IInv => RxTypeOK
  BY DEF IInv
<1>2. QED
  BY <1>1, RxInvariant, PTL

(* The RX thread never waits without a count in rx_sem while there is      *)
(* something to do.                                                        *)
THEOREM RxNeverSleepsOnWork == Spec => []NoLostWakeup
<1>1. IInv => NoLostWakeup
  BY DEF IInv
<1>2. QED
  BY <1>1, RxInvariant, PTL

(* No frame is put together across lost bytes, under either policy.        *)
THEOREM RxAssemblyIsContiguous == Spec => []AssemblyIsContiguous
<1>1. IInv => AssemblyIsContiguous
  BY DEF IInv, FrameInv
<1>2. QED
  BY <1>1, RxInvariant, PTL

----------------------------------------------------------------------------
(* What a step may do to the ring.                                         *)

LEMMA RecoveryKeepsRing ==
  ASSUME IInv, [Next]_rxVars, pc' = pc, pc \in {"drain", "drainFeed", "finish"}
  PROVE  ring' = ring
<1> USE DEF lineVars, bufferVars, bootVars, threadVars, frameVars
<1>1. rx_overflow /\ boot = "done"
  BY DEF IInv, FlagInv, BootInv
<1>2. ~BootEnables /\ ~IsrStores
  BY <1>1 DEF BootEnables, IsrStores, MayStore
<1>3. ~PopByte /\ ~DrainPop /\ ~FinishRecovery
  BY DEF PopByte, DrainPop, FinishRecovery
<1>4. QED
  BY NextCases, <1>2, <1>3
     DEF BootFails, BootGivesReady, IsrDrops, IsrOverflows, StartThread,
         TakeRxSem, SeeOverflow, SeeEmpty, FeedByte, DrainFeed, DrainDone,
         CheckTimeout, Tick, HandlerTakes, rxVars

(* The interrupt keeps off the ring while a recovery is under way.         *)
THEOREM RxRecoveryOwnsRing == Spec => RecoveryOwnsRing
<1>1. IInv /\ [Next]_rxVars =>
        [pc' = pc /\ pc \in {"drain", "drainFeed", "finish"} => ring' = ring]_rxVars
  BY RecoveryKeepsRing
<1>2. QED
  BY <1>1, RxInvariant, PTL DEF Spec, RecoveryOwnsRing

LEMMA ShrinksByTaking ==
  ASSUME IInv, [Next]_rxVars, RX_OVERFLOW_POLICY = "DRAIN_BUFFER",
         ring' /= ring, Len(ring') <= Len(ring), boot = "done"
  PROVE  ring' = Tail(ring) /\ c' = Head(ring)
<1> USE DEF lineVars, bufferVars, bootVars, threadVars, frameVars
<1>1. ~BootEnables
  BY DEF BootEnables
<1>2. ~IsrStores
  <2> SUFFICES ASSUME IsrStores PROVE FALSE
    OBVIOUS
  <2>1. ring' = Append(ring, sent + 1)
    BY DEF IsrStores, ReadFifo
  <2>2. Len(ring') = Len(ring) + 1 /\ Len(ring) \in Nat
    BY <2>1, StoreFacts, RingFacts DEF IInv
  <2>3. QED
    BY <2>2
<1>3. ~FinishRecovery
  BY DEF FinishRecovery, ResetReception, IInv, FlagInv
<1>4. QED
  BY NextCases, <1>1, <1>2, <1>3
     DEF BootFails, BootGivesReady, IsrDrops, IsrOverflows, StartThread,
         TakeRxSem, SeeOverflow, SeeEmpty, PopByte, FeedByte, DrainPop,
         DrainFeed, DrainDone, CheckTimeout, Tick, HandlerTakes, rxVars

(* Under the policy uart_rx.h selects, no stored byte is thrown away.      *)
THEOREM RxStoredBytesAreTaken ==
  RX_OVERFLOW_POLICY = "DRAIN_BUFFER" => (Spec => StoredBytesAreTaken)
<1> SUFFICES ASSUME RX_OVERFLOW_POLICY = "DRAIN_BUFFER"
             PROVE  Spec => StoredBytesAreTaken
  OBVIOUS
<1>1. IInv /\ [Next]_rxVars =>
        [ring' /= ring /\ Len(ring') <= Len(ring) /\ boot = "done" =>
           ring' = Tail(ring) /\ c' = Head(ring)]_rxVars
  BY ShrinksByTaking
<1>2. QED
  BY <1>1, RxInvariant, PTL DEF Spec, StoredBytesAreTaken

----------------------------------------------------------------------------
(* Delivery: what reaches the queue.                                       *)

(* Only the last byte of a frame can complete it.                          *)
LEMMA ReadyAtLastByte ==
  ASSUME NEW p \in ParserRecord, NEW b \in Byte, FeedResult(p, b) = "FRAME_READY"
  PROVE  p.state = "WAIT_CRC_L" /\ ParserFeed(p, b) = FeedCrcL(p, b)
<1>1. p.state \in ParserStates
  BY DEF ParserRecord
<1>2. p.state = "WAIT_CRC_L"
  BY <1>1 DEF FeedResult, ParserStates
<1>3. QED
  BY <1>2 DEF ParserFeed

(* FeedCrcL leaves what will be submitted as it is.                        *)
LEMMA LastByteKeepsMessage ==
  ASSUME NEW p \in ParserRecord, NEW b \in Byte
  PROVE  /\ FeedCrcL(p, b).type = p.type
         /\ PayloadOf(FeedCrcL(p, b)) = PayloadOf(p)
<1> DEFINE q == FeedCrcL(p, b)
<1>1. /\ q.type = p.type /\ q.payload_length = p.payload_length
      /\ q.payload = p.payload
  BY DEF FeedCrcL, WithCrcL, ParserRecord
<1> HIDE DEF q
<1>2. PayloadOf(q) = PayloadOf(p)
  BY <1>1 DEF PayloadOf
<1>3. QED
  BY <1>1, <1>2 DEF q

(* A completed frame is the stretch of the line it was assembled from.     *)
LEMMA CompletedFrame ==
  ASSUME RxTypeOK, PositionInv, FrameInv, Holding,
         FeedResult(parser, stream[c]) = "FRAME_READY"
  PROVE  /\ frameAt \in upTo + 1 .. Len(stream) /\ c \in upTo + 1 .. Len(stream)
         /\ ValidFrame(SubSeq(stream, frameAt, c))
         /\ parser.type = stream[frameAt + 2]
         /\ PayloadOf(parser) = SubSeq(stream, frameAt + 3, c - 2)
<1> DEFINE p == parser
           n == parser.payload_length
<1>1. /\ stream \in Seq(Byte) /\ c \in 1 .. Len(stream) /\ Len(stream) \in Nat
      /\ stream[c] \in Byte
      /\ p \in ParserRecord /\ ParserConsistent(p)
  BY StreamByte DEF RxTypeOK, FrameInv, PositionInv
<1>2. p.state = "WAIT_CRC_L"
  BY <1>1, ReadyAtLastByte
<1>3. FrameStart = frameAt
  BY <1>2 DEF FrameStart
<1>4. /\ lastFed < c /\ frameAt \in 1 .. c /\ upTo < frameAt
      /\ Append(Partial(p), stream[c]) = SubSeq(stream, frameAt, c)
  BY <1>3, StretchGrows
<1>5. upTo \in Nat /\ frameAt \in Nat /\ lastFed \in Nat
  BY RingFacts DEF RxTypeOK
<1>6. frameAt \in upTo + 1 .. Len(stream) /\ c \in upTo + 1 .. Len(stream)
  BY <1>1, <1>4, <1>5
<1>7. ValidFrame(SubSeq(stream, frameAt, c))
  BY <1>1, <1>2, <1>4, LastByteDecides
<1>8. /\ n \in 1 .. MAX_PAYLOAD /\ n \in Nat /\ p.payload_index = n
      /\ ParserPosition(p) = n + 4
  BY <1>1, <1>2, ParserAssumption DEF ParserConsistent, ParserPosition, ParserRecord
<1> HIDE DEF n
<1>9. /\ frameAt <= lastFed /\ c = lastFed + 1
      /\ Partial(p) = SubSeq(stream, frameAt, lastFed)
  BY <1>2 DEF FrameInv, AssemblyIsContiguous, NextFed
<1>10. /\ Len(Partial(p)) = lastFed - frameAt + 1
       /\ \A i \in 1 .. lastFed - frameAt + 1 : Partial(p)[i] = stream[frameAt + i - 1]
  <2>1. \A i \in frameAt .. lastFed : stream[i] \in Byte
    <3>1. \A i \in frameAt .. lastFed : i \in 1 .. Len(stream)
      BY <1>1, <1>4, <1>5, <1>9
    <3>2. QED
      BY <1>1, <3>1, ElementOfSeq
  <2>2. QED
    BY <1>5, <1>9, <2>1, SubSeqProperties
<1>11. lastFed = frameAt + n + 3
  <2>1. Len(Partial(p)) = n + 4
    BY <1>1, <1>8, PartialIsSeq
  <2>2. lastFed - frameAt + 1 = n + 4
    BY <1>10, <2>1
  <2>3. n \in Nat
    BY <1>8
  <2>4. QED
    BY <1>5, <2>2, <2>3
<1>12. \A i \in 1 .. n + 4 : WireByte(p, i) = stream[frameAt + i - 1]
  <2>1. \A i \in 1 .. n + 4 : Partial(p)[i] = WireByte(p, i)
    BY <1>1, <1>8, PartialIsSeq
  <2>2. n + 4 = lastFed - frameAt + 1
    <3>1. n \in Nat
      BY <1>8
    <3>2. QED
      BY <1>5, <1>11, <3>1
  <2>3. QED
    BY <1>10, <2>1, <2>2
<1>13. parser.type = stream[frameAt + 2]
  <2>1. WireByte(p, 3) = p.type
    BY DEF WireByte
  <2>2. 3 \in 1 .. n + 4 /\ frameAt + 3 - 1 = frameAt + 2
    BY <1>5, <1>8
  <2>3. QED
    BY <1>12, <2>1, <2>2
<1>14. ASSUME NEW i \in 1 .. n
       PROVE  p.payload[i - 1] = stream[frameAt + 3 + i - 1]
  <2>1. WireByte(p, i + 3) = p.payload[i - 1]
    BY <1>8 DEF WireByte
  <2>2. i + 3 \in 1 .. n + 4 /\ frameAt + (i + 3) - 1 = frameAt + 3 + i - 1
    BY <1>5, <1>8
  <2>3. QED
    BY <1>12, <2>1, <2>2
<1>15. PayloadOf(p) = SubSeq(stream, frameAt + 3, c - 2)
  <2> DEFINE body == SubSeq(stream, frameAt + 3, c - 2)
  <2>1. c - 2 = frameAt + 3 + n - 1 /\ c - 2 - (frameAt + 3) + 1 = n
    <3>1. n \in Nat /\ c = lastFed + 1
      BY <1>8, <1>9
    <3>2. QED
      BY <1>5, <1>11, <3>1
  <2>2. \A i \in frameAt + 3 .. c - 2 : stream[i] \in Byte
    <3>1. \A i \in frameAt + 3 .. c - 2 : i \in 1 .. Len(stream)
      BY <1>1, <1>4, <1>5, <1>9
    <3>2. QED
      BY <1>1, <3>1, ElementOfSeq
  <2>3. /\ body \in Seq(Byte) /\ Len(body) = n
        /\ \A i \in 1 .. n : body[i] = stream[frameAt + 3 + i - 1]
    <3>1. frameAt + 3 \in Int /\ c - 2 \in Int /\ frameAt + 3 <= c - 2
      BY <1>5, <1>8, <2>1
    <3>2. QED
      BY <2>1, <2>2, <3>1, SubSeqProperties
  <2>4. body = [i \in 1 .. n |-> body[i]]
    BY <2>3, LenProperties
  <2>5. \A i \in 1 .. n : body[i] = p.payload[i - 1]
    BY <1>14, <2>3
  <2> HIDE DEF body
  <2>6. body = [i \in 1 .. n |-> p.payload[i - 1]]
    BY <2>4, <2>5
  <2>7. QED
    BY <2>6 DEF PayloadOf, body, n
<1>16. QED
  BY <1>6, <1>7, <1>13, <1>15

(* The formulas of FrameDelivery, in terms of this module.                 *)
LEMMA DeliveryValid ==
  ASSUME NEW s
  PROVE  Delivery!ValidFrame(s) <=> ValidFrame(s)
BY DEF Delivery!ValidFrame, ValidFrame, Delivery!FramePrefix, FramePrefix,
       Delivery!Complete, Complete

LEMMA OtherCounter ==
  ASSUME RxTypeOK, NEW k \in Counters, k /= "queue_drops", Count(k)
  PROVE  errors'["queue_drops"] = errors["queue_drops"]
BY DEF Count, RxTypeOK, Counters

LEMMA FeedDelivers ==
  ASSUME RxTypeOK, PositionInv, FrameInv, Holding, Feed(c), UNCHANGED stream
  PROVE  [Delivery!DeliveryNext]_Delivery!deliveryVars
<1> DEFINE r == FeedResult(parser, stream[c])
<1>1. /\ ProcessParserResult(r, parser', c)
      /\ parser' = ParserFeed(parser, stream[c])
      /\ upTo' = IF r = "FRAME_READY" THEN c ELSE upTo
  BY DEF Feed
<1>2. parser \in ParserRecord /\ stream[c] \in Byte
  BY StreamByte DEF RxTypeOK, PositionInv
<1>3. CASE r = "FRAME_READY"
  <2>1. SubmitParsedFrame(parser', c)
    BY <1>1, <1>3 DEF ProcessParserResult
  <2>2. /\ frameAt \in upTo + 1 .. Len(stream) /\ c \in upTo + 1 .. Len(stream)
        /\ ValidFrame(SubSeq(stream, frameAt, c))
        /\ parser.type = stream[frameAt + 2]
        /\ PayloadOf(parser) = SubSeq(stream, frameAt + 3, c - 2)
    BY <1>3, CompletedFrame
  <2>3. parser'.type = parser.type /\ PayloadOf(parser') = PayloadOf(parser)
    BY <1>1, <1>2, <1>3, ReadyAtLastByte, LastByteKeepsMessage
  <2>4. ReceivedFrame(parser'.type, PayloadOf(parser'), frameAt, c)
          = Delivery!FrameFrom(frameAt, c)
    BY <2>2, <2>3 DEF ReceivedFrame, Delivery!FrameFrom
  <2>5. Delivery!ValidFrame(SubSeq(stream, frameAt, c))
    BY <2>2, DeliveryValid
  <2>6. upTo' = c
    BY <1>1, <1>3
  <2>7. IF Len(queue) < QUEUE_DEPTH
          THEN queue' = Append(queue, Delivery!FrameFrom(frameAt, c))
               /\ UNCHANGED errors["queue_drops"]
          ELSE errors'["queue_drops"] = errors["queue_drops"] + 1 /\ UNCHANGED queue
    <3>1. CASE Len(queue) < QUEUE_DEPTH
      BY <2>1, <2>4, <3>1 DEF SubmitParsedFrame
    <3>2. CASE ~(Len(queue) < QUEUE_DEPTH)
      BY <2>1, <3>2 DEF SubmitParsedFrame, Count, RxTypeOK, Counters
    <3>3. QED
      BY <3>1, <3>2
  <2>8. Delivery!Deliver(frameAt, c)
    BY <2>5, <2>6, <2>7 DEF Delivery!Deliver
  <2>9. QED
    BY <2>2, <2>8 DEF Delivery!DeliveryNext
<1>4. CASE r /= "FRAME_READY"
  <2>1. upTo' = upTo /\ queue' = queue
    BY <1>1, <1>4 DEF ProcessParserResult
  <2>2. errors' = errors \/ Count("crc_errors") \/ Count("length_errors")
    BY <1>1, <1>4 DEF ProcessParserResult
  <2>3. errors'["queue_drops"] = errors["queue_drops"]
    BY <2>2, OtherCounter DEF Counters
  <2>4. QED
    BY <2>1, <2>3 DEF Delivery!deliveryVars
<1>5. QED
  BY <1>3, <1>4

LEMMA DeliveryStep ==
  ASSUME IInv, [Next]_rxVars
  PROVE  [Delivery!DeliveryNext]_Delivery!deliveryVars
<1> USE DEF lineVars, bufferVars, bootVars, threadVars, frameVars
<1>1. RxTypeOK /\ PositionInv /\ FrameInv
  BY DEF IInv
<1>2. CASE UNCHANGED <<stream, upTo, queue, errors>>
  BY <1>2 DEF Delivery!deliveryVars
<1>3. CASE FeedByte
  <2>1. Holding /\ Feed(c) /\ UNCHANGED stream
    BY <1>3 DEF FeedByte, Holding
  <2>2. QED
    BY <1>1, <2>1, FeedDelivers
<1>4. CASE DrainFeed
  <2>1. Holding /\ Feed(c) /\ UNCHANGED stream
    BY <1>4 DEF DrainFeed, Holding
  <2>2. QED
    BY <1>1, <2>1, FeedDelivers
<1>5. CASE CheckTimeout
  <2>1. errors' = errors \/ Count("frame_timeouts")
    BY <1>5 DEF CheckTimeout
  <2>2. errors'["queue_drops"] = errors["queue_drops"]
    BY <1>1, <2>1, OtherCounter DEF Counters
  <2>3. UNCHANGED <<stream, upTo, queue>>
    BY <1>5 DEF CheckTimeout
  <2>4. QED
    BY <2>2, <2>3 DEF Delivery!deliveryVars
<1>6. CASE HandlerTakes
  BY <1>6 DEF HandlerTakes, Delivery!Take, Delivery!DeliveryNext
<1>7. QED
  BY NextCases, <1>2, <1>3, <1>4, <1>5, <1>6
     DEF BootFails, BootEnables, BootGivesReady, IsrDrops, IsrStores,
         IsrOverflows, ReadFifo, StartThread, TakeRxSem, SeeOverflow, SeeEmpty,
         PopByte, DrainPop, DrainDone, FinishRecovery, Tick, rxVars

(* Reception implements FrameDelivery: the handler is given only valid     *)
(* frames of the line, in order, without overlap and none twice, and one   *)
(* is lost only to a full queue.                                           *)
THEOREM RxDeliversValidFrames == Spec => DeliversValidFrames
<1>1. Init => Delivery!DeliveryInit
  BY DEF Init, Delivery!DeliveryInit, Counters
<1>2. IInv /\ [Next]_rxVars => [Delivery!DeliveryNext]_Delivery!deliveryVars
  BY DeliveryStep
<1>3. QED
  BY <1>1, <1>2, RxInvariant, PTL DEF Spec, DeliversValidFrames, Delivery!DeliverySpec
=============================================================================

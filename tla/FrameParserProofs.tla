------------------------- MODULE FrameParserProofs -------------------------
(***************************************************************************)
(* What parser_init and parser_feed do to a parser, for every alphabet,    *)
(* payload size and checksum: the lemmas that the proofs about the parser  *)
(* alone and about the reception path share.                               *)
(***************************************************************************)
EXTENDS FrameParser, SequenceTheorems, TLAPS

(* Writing one field of the right type keeps the record well typed.        *)
LEMMA FieldUpdates ==
  ASSUME NEW p \in ParserRecord
  PROVE  /\ \A s \in ParserStates : [p EXCEPT !.state = s] \in ParserRecord
         /\ \A n \in 0 .. MAX_PAYLOAD :
              /\ [p EXCEPT !.payload_length = n] \in ParserRecord
              /\ [p EXCEPT !.payload_index = n] \in ParserRecord
         /\ \A t \in Byte : [p EXCEPT !.type = t] \in ParserRecord
         /\ \A i \in 0 .. MAX_PAYLOAD - 1, x \in Byte :
              [p EXCEPT !.payload[i] = x] \in ParserRecord
         /\ \A n \in Nat : [p EXCEPT !.received_crc = n] \in ParserRecord
  BY DEF ParserRecord

(* parser_init leaves a consistent parser, in the search for STX.          *)
LEMMA InitConsistent ==
  ASSUME NEW p \in ParserRecord
  PROVE  /\ ParserInit(p) \in ParserRecord
         /\ ParserConsistent(ParserInit(p))
         /\ ParserInit(p).state = "WAIT_STX"
<1> DEFINE p1 == [p EXCEPT !.state = "WAIT_STX"]
           p2 == [p1 EXCEPT !.payload_length = 0]
           p3 == [p2 EXCEPT !.payload_index = 0]
           p4 == [p3 EXCEPT !.type = 0]
<1>1. 0 \in Byte /\ 0 \in 0 .. MAX_PAYLOAD /\ "WAIT_STX" \in ParserStates
  BY ParserAssumption DEF ParserStates
<1>2. ParserInit(p) = p4
  BY DEF ParserInit
<1>3. p1 \in ParserRecord
  BY <1>1, FieldUpdates
<1>4. p2 \in ParserRecord
  BY <1>1, <1>3, FieldUpdates
<1>5. p3 \in ParserRecord
  BY <1>1, <1>4, FieldUpdates
<1>6. p4 \in ParserRecord
  BY <1>1, <1>5, FieldUpdates
<1>7. p4.state = "WAIT_STX" /\ p4.payload_index = 0
  BY DEF ParserRecord
<1>8. QED
  BY <1>2, <1>6, <1>7 DEF ParserConsistent

(* parser_feed keeps the parser consistent whatever byte comes.            *)
LEMMA FeedConsistent ==
  ASSUME NEW p \in ParserRecord, ParserConsistent(p), NEW b \in Byte
  PROVE  ParserFeed(p, b) \in ParserRecord /\ ParserConsistent(ParserFeed(p, b))
<1> DEFINE q == ParserFeed(p, b)
<1> SUFFICES q \in ParserRecord /\ ParserConsistent(q)
  OBVIOUS
<1>1. CASE p.state = "WAIT_STX"
  <2>1. q = FeedStx(p, b)
    BY <1>1 DEF ParserFeed
  <2>2. CASE b = STX
    <3>1. q = [p EXCEPT !.state = "WAIT_LEN"]
      BY <2>1, <2>2 DEF FeedStx
    <3>2. q \in ParserRecord
      BY <3>1, FieldUpdates DEF ParserStates
    <3>3. q.state = "WAIT_LEN" /\ q.payload_index = p.payload_index
      BY <3>1 DEF ParserRecord
    <3>4. QED
      BY <1>1, <3>2, <3>3 DEF ParserConsistent
  <2>3. CASE b /= STX
    BY <2>1, <2>3 DEF FeedStx
  <2>4. QED
    BY <2>2, <2>3
<1>2. CASE p.state = "WAIT_LEN"
  <2>1. q = FeedLen(p, b)
    BY <1>2 DEF ParserFeed
  <2>2. CASE LengthIsBad(b)
    <3>1. q = [p EXCEPT !.state = "WAIT_STX"]
      BY <2>1, <2>2 DEF FeedLen
    <3>2. q \in ParserRecord
      BY <3>1, FieldUpdates DEF ParserStates
    <3>3. q.state = "WAIT_STX" /\ q.payload_index = p.payload_index
      BY <3>1 DEF ParserRecord
    <3>4. QED
      BY <1>2, <3>2, <3>3 DEF ParserConsistent
  <2>3. CASE ~LengthIsBad(b)
    <3> DEFINE r == [p EXCEPT !.payload_length = b]
    <3>1. b \in 1 .. MAX_PAYLOAD /\ b \in 0 .. MAX_PAYLOAD
      BY <2>3, ParserAssumption DEF LengthIsBad
    <3>2. q = [r EXCEPT !.state = "WAIT_TYPE"]
      BY <2>1, <2>3 DEF FeedLen
    <3>3. r \in ParserRecord
      BY <3>1, FieldUpdates
    <3>4. q \in ParserRecord
      BY <3>2, <3>3, FieldUpdates DEF ParserStates
    <3>5. /\ q.state = "WAIT_TYPE" /\ q.payload_length = b
          /\ q.payload_index = p.payload_index
      BY <3>2 DEF ParserRecord
    <3>6. p.payload_index = 0
      BY <1>2 DEF ParserConsistent
    <3> HIDE DEF q
    <3>7. QED
      BY <3>1, <3>4, <3>5, <3>6 DEF ParserConsistent
  <2>4. QED
    BY <2>2, <2>3
<1>3. CASE p.state = "WAIT_TYPE"
  <2> DEFINE r == [p EXCEPT !.type = b]
  <2>1. q = [r EXCEPT !.state = "READ_PAYLOAD"]
    BY <1>3 DEF ParserFeed, FeedType
  <2>2. r \in ParserRecord
    BY FieldUpdates
  <2>3. q \in ParserRecord
    BY <2>1, <2>2, FieldUpdates DEF ParserStates
  <2>4. /\ q.state = "READ_PAYLOAD" /\ q.payload_length = p.payload_length
        /\ q.payload_index = p.payload_index
    BY <2>1 DEF ParserRecord
  <2>5. QED
    BY <1>3, <2>3, <2>4 DEF ParserConsistent
<1>4. CASE p.state = "READ_PAYLOAD"
  <2> DEFINE r == [p EXCEPT !.payload[p.payload_index] = b]
             s == [r EXCEPT !.payload_index = p.payload_index + 1]
             next == IF p.payload_index + 1 = p.payload_length
                       THEN "WAIT_CRC_H" ELSE "READ_PAYLOAD"
  <2>1. q = [s EXCEPT !.state = next]
    BY <1>4 DEF ParserFeed, FeedPayload
  <2>2. /\ p.payload_index \in 0 .. MAX_PAYLOAD - 1
        /\ p.payload_index + 1 \in 0 .. MAX_PAYLOAD
        /\ p.payload_index + 1 <= p.payload_length
        /\ next \in ParserStates
    BY <1>4, ParserAssumption DEF ParserConsistent, ParserRecord, ParserStates
  <2>3. r \in ParserRecord
    BY <2>2, FieldUpdates
  <2>4. s \in ParserRecord
    BY <2>2, <2>3, FieldUpdates
  <2>5. q \in ParserRecord
    <3> HIDE DEF s, next
    <3>1. QED
      BY <2>1, <2>2, <2>4, FieldUpdates
  <2>6. /\ q.state = next /\ q.payload_length = p.payload_length
        /\ q.payload_index = p.payload_index + 1
    BY <2>1 DEF ParserRecord
  <2>7. QED
    BY <1>4, <2>2, <2>5, <2>6, ParserAssumption DEF ParserConsistent, ParserRecord
<1>5. CASE p.state = "WAIT_CRC_H"
  <2> DEFINE r == [p EXCEPT !.received_crc = 256 * b]
  <2>1. q = [r EXCEPT !.state = "WAIT_CRC_L"]
    BY <1>5 DEF ParserFeed, FeedCrcH
  <2>2. 256 * b \in Nat
    BY ParserAssumption
  <2>3. r \in ParserRecord
    BY <2>2, FieldUpdates
  <2>4. q \in ParserRecord
    BY <2>1, <2>3, FieldUpdates DEF ParserStates
  <2>5. /\ q.state = "WAIT_CRC_L" /\ q.payload_length = p.payload_length
        /\ q.payload_index = p.payload_index /\ q.received_crc = 256 * b
    BY <2>1 DEF ParserRecord
  <2>6. /\ p.payload_length \in 1 .. MAX_PAYLOAD
        /\ p.payload_index = p.payload_length
    BY <1>5 DEF ParserConsistent
  <2> HIDE DEF q
  <2>7. q.received_crc \in {256 * x : x \in Byte}
    BY <2>5
  <2>8. QED
    BY <2>4, <2>5, <2>6, <2>7 DEF ParserConsistent
<1>6. CASE p.state = "WAIT_CRC_L"
  <2> DEFINE r == [p EXCEPT !.received_crc = p.received_crc + b]
             s == [r EXCEPT !.state = "WAIT_STX"]
  <2>1. q = [s EXCEPT !.payload_index = 0]
    BY <1>6 DEF ParserFeed, FeedCrcL, WithCrcL
  <2>2. p.received_crc + b \in Nat /\ 0 \in 0 .. MAX_PAYLOAD
    BY ParserAssumption DEF ParserRecord
  <2>3. r \in ParserRecord
    BY <2>2, FieldUpdates
  <2>4. s \in ParserRecord
    BY <2>3, FieldUpdates DEF ParserStates
  <2>5. q \in ParserRecord
    BY <2>1, <2>2, <2>4, FieldUpdates
  <2>6. q.state = "WAIT_STX" /\ q.payload_index = 0
    BY <2>1 DEF ParserRecord
  <2>7. QED
    BY <2>5, <2>6 DEF ParserConsistent
<1>7. QED
  BY <1>1, <1>2, <1>3, <1>4, <1>5, <1>6 DEF ParserRecord, ParserStates

----------------------------------------------------------------------------
(* The abstract state of a consistent parser as a sequence.                *)
LEMMA PartialIsSeq ==
  ASSUME NEW p \in ParserRecord, ParserConsistent(p)
  PROVE  /\ ParserPosition(p) \in Nat
         /\ Partial(p) \in Seq(Nat)
         /\ Len(Partial(p)) = ParserPosition(p)
         /\ \A i \in 1 .. ParserPosition(p) : Partial(p)[i] = WireByte(p, i)
<1>1. ParserPosition(p) \in Nat
  BY ParserAssumption DEF ParserRecord, ParserStates, ParserPosition
<1>2. ASSUME NEW i \in 1 .. ParserPosition(p)
      PROVE  WireByte(p, i) \in Nat
  <2>1. CASE i \in {1, 2, 3}
    BY <2>1, ParserAssumption DEF ParserRecord, WireByte
  <2>2. CASE i > 3 /\ i <= p.payload_index + 3
    <3>1. i - 4 \in 0 .. MAX_PAYLOAD - 1
      BY <2>2, ParserAssumption DEF ParserRecord
    <3>2. p.payload[i - 4] \in Byte
      BY <3>1 DEF ParserRecord
    <3>3. QED
      BY <2>2, <3>2, ParserAssumption DEF WireByte
  <2>3. CASE i > 3 /\ i > p.payload_index + 3
    <3>1. p.received_crc \div 256 \in Nat
      BY DEF ParserRecord
    <3>2. QED
      BY <2>3, <3>1, <1>1 DEF WireByte, ParserRecord
  <2>4. QED
    BY <2>1, <2>2, <2>3, <1>1 DEF ParserRecord
<1>3. Partial(p) \in Seq(Nat)
  BY <1>1, <1>2, IsASeq DEF Partial
<1>4. DOMAIN Partial(p) = 1 .. ParserPosition(p)
  BY DEF Partial
<1>5. Len(Partial(p)) = ParserPosition(p)
  BY <1>1, <1>3, <1>4, LenProperties
<1>6. QED
  BY <1>1, <1>3, <1>5 DEF Partial

(* A parser that searches for STX holds nothing.                           *)
LEMMA SearchHoldsNothing ==
  ASSUME NEW p \in ParserRecord, ParserConsistent(p), p.state = "WAIT_STX"
  PROVE  Partial(p) = <<>>
<1>1. ParserPosition(p) = 0
  BY DEF ParserPosition
<1>2. Partial(p) \in Seq(Nat) /\ Len(Partial(p)) = 0
  BY <1>1, PartialIsSeq
<1>3. QED
  BY <1>2, EmptySeq

(* A parser that has moved one place forward and kept what it had read     *)
(* stands for one byte more.                                               *)
LEMMA PartialGrows ==
  ASSUME NEW p \in ParserRecord, ParserConsistent(p),
         NEW q \in ParserRecord, ParserConsistent(q),
         NEW b \in Byte,
         ParserPosition(q) = ParserPosition(p) + 1,
         \A i \in 1 .. ParserPosition(p) : WireByte(q, i) = WireByte(p, i),
         WireByte(q, ParserPosition(q)) = b
  PROVE  Partial(q) = Append(Partial(p), b)
<1>1. b \in Nat
  BY ParserAssumption
<1>2. /\ Partial(p) \in Seq(Nat) /\ Len(Partial(p)) = ParserPosition(p)
      /\ Partial(q) \in Seq(Nat) /\ Len(Partial(q)) = ParserPosition(q)
      /\ ParserPosition(p) \in Nat
  BY PartialIsSeq
<1>3. /\ Append(Partial(p), b) \in Seq(Nat)
      /\ Len(Append(Partial(p), b)) = ParserPosition(q)
  BY <1>1, <1>2
<1>4. ASSUME NEW i \in 1 .. Len(Partial(q))
      PROVE  Partial(q)[i] = Append(Partial(p), b)[i]
  <2>1. Partial(q)[i] = WireByte(q, i)
    BY <1>2, PartialIsSeq
  <2>2. CASE i <= ParserPosition(p)
    <3>1. Append(Partial(p), b)[i] = Partial(p)[i]
      BY <1>1, <1>2, <2>2
    <3>2. QED
      BY <1>2, <2>1, <2>2, <3>1, PartialIsSeq
  <2>3. CASE i = ParserPosition(q)
    BY <1>1, <1>2, <2>1, <2>3
  <2>4. QED
    BY <1>2, <2>2, <2>3
<1>5. QED
  BY <1>2, <1>3, <1>4, SeqEqual

(* A byte that does not send the parser back to the search for STX is the  *)
(* next byte of the frame it stands for, and yields nothing yet.           *)
LEMMA FeedGrows ==
  ASSUME NEW p \in ParserRecord, ParserConsistent(p), NEW b \in Byte,
         ParserFeed(p, b).state /= "WAIT_STX"
  PROVE  /\ ParserPosition(ParserFeed(p, b)) = ParserPosition(p) + 1
         /\ Partial(ParserFeed(p, b)) = Append(Partial(p), b)
         /\ FeedResult(p, b) = "INCOMPLETE"
<1> DEFINE q == ParserFeed(p, b)
<1>1. q \in ParserRecord /\ ParserConsistent(q)
  BY FeedConsistent
<1>2. SUFFICES /\ ParserPosition(q) = ParserPosition(p) + 1
               /\ \A i \in 1 .. ParserPosition(p) : WireByte(q, i) = WireByte(p, i)
               /\ WireByte(q, ParserPosition(q)) = b
               /\ FeedResult(p, b) = "INCOMPLETE"
  BY <1>1, PartialGrows
<1>3. CASE p.state = "WAIT_STX"
  <2>1. b = STX /\ q.state = "WAIT_LEN"
    BY <1>3 DEF ParserFeed, FeedStx, ParserRecord
  <2>2. ParserPosition(p) = 0 /\ ParserPosition(q) = 1
    BY <1>3, <2>1 DEF ParserPosition
  <2>3. WireByte(q, 1) = STX
    BY DEF WireByte
  <2>4. FeedResult(p, b) = "INCOMPLETE"
    BY <1>3 DEF FeedResult
  <2>5. QED
    BY <2>1, <2>2, <2>3, <2>4
<1>4. CASE p.state = "WAIT_LEN"
  <2>1. ~LengthIsBad(b) /\ q.state = "WAIT_TYPE" /\ q.payload_length = b
    BY <1>4 DEF ParserFeed, FeedLen, ParserRecord
  <2>2. ParserPosition(p) = 1 /\ ParserPosition(q) = 2
    BY <1>4, <2>1 DEF ParserPosition
  <2>3. WireByte(q, 1) = STX /\ WireByte(p, 1) = STX /\ WireByte(q, 2) = b
    BY <2>1 DEF WireByte
  <2>4. FeedResult(p, b) = "INCOMPLETE"
    BY <1>4, <2>1 DEF FeedResult
  <2>5. QED
    BY <2>2, <2>3, <2>4
<1>5. CASE p.state = "WAIT_TYPE"
  <2>1. /\ q.state = "READ_PAYLOAD" /\ q.type = b
        /\ q.payload_length = p.payload_length
        /\ q.payload_index = p.payload_index
    BY <1>5 DEF ParserFeed, FeedType, ParserRecord
  <2>2. p.payload_index = 0
    BY <1>5 DEF ParserConsistent
  <2>3. ParserPosition(p) = 2 /\ ParserPosition(q) = 3
    BY <1>5, <2>1, <2>2 DEF ParserPosition
  <2>4. /\ \A i \in {1, 2} : WireByte(q, i) = WireByte(p, i)
        /\ WireByte(q, 3) = b
    BY <2>1 DEF WireByte
  <2>5. FeedResult(p, b) = "INCOMPLETE"
    BY <1>5 DEF FeedResult
  <2>6. QED
    BY <2>3, <2>4, <2>5
<1>6. CASE p.state = "READ_PAYLOAD"
  <2>1. /\ q.state \in {"READ_PAYLOAD", "WAIT_CRC_H"} /\ q.type = p.type
        /\ q.payload_length = p.payload_length
        /\ q.payload_index = p.payload_index + 1
        /\ q.payload = [p.payload EXCEPT ![p.payload_index] = b]
    BY <1>6 DEF ParserFeed, FeedPayload, ParserRecord
  <2>2. p.payload_index \in 0 .. MAX_PAYLOAD - 1
    BY <1>6, ParserAssumption DEF ParserRecord, ParserConsistent
  <2>3. /\ ParserPosition(p) = p.payload_index + 3
        /\ ParserPosition(q) = p.payload_index + 4
    BY <1>6, <2>1, <2>2 DEF ParserPosition
  <2>4. ASSUME NEW i \in 1 .. ParserPosition(p)
        PROVE  WireByte(q, i) = WireByte(p, i)
    <3>1. CASE i \in {1, 2, 3}
      BY <2>1, <3>1 DEF WireByte
    <3>2. CASE i > 3
      <4>1. i - 4 \in 0 .. MAX_PAYLOAD - 1 /\ i - 4 /= p.payload_index
        BY <2>2, <2>3, <3>2, ParserAssumption
      <4>2. q.payload[i - 4] = p.payload[i - 4]
        BY <2>1, <4>1 DEF ParserRecord
      <4>3. WireByte(p, i) = p.payload[i - 4]
        BY <2>2, <2>3, <3>2 DEF WireByte
      <4>4. WireByte(q, i) = q.payload[i - 4]
        BY <2>1, <2>2, <2>3, <3>2 DEF WireByte
      <4>5. QED
        BY <4>2, <4>3, <4>4
    <3>3. QED
      BY <2>2, <2>3, <3>1, <3>2
  <2>5. WireByte(q, p.payload_index + 4) = b
    <3>1. q.payload[p.payload_index] = b
      BY <2>1, <2>2 DEF ParserRecord
    <3>2. WireByte(q, p.payload_index + 4) = q.payload[p.payload_index]
      BY <2>1, <2>2, ParserAssumption DEF WireByte
    <3>3. QED
      BY <3>1, <3>2
  <2>6. FeedResult(p, b) = "INCOMPLETE"
    BY <1>6 DEF FeedResult
  <2>7. QED
    BY <2>2, <2>3, <2>4, <2>5, <2>6
<1>7. CASE p.state = "WAIT_CRC_H"
  <2>1. /\ q.state = "WAIT_CRC_L" /\ q.type = p.type
        /\ q.payload_length = p.payload_length
        /\ q.payload_index = p.payload_index
        /\ q.payload = p.payload /\ q.received_crc = 256 * b
    BY <1>7 DEF ParserFeed, FeedCrcH, ParserRecord
  <2>2. p.payload_index \in Nat
    BY DEF ParserRecord
  <2>3. /\ ParserPosition(p) = p.payload_index + 3
        /\ ParserPosition(q) = p.payload_index + 4
    BY <1>7, <2>1, <2>2 DEF ParserPosition
  <2>4. ASSUME NEW i \in 1 .. ParserPosition(p)
        PROVE  WireByte(q, i) = WireByte(p, i)
    BY <2>1, <2>2, <2>3 DEF WireByte
  <2>5. WireByte(q, p.payload_index + 4) = b
    <3>1. (256 * b) \div 256 = b
      BY ParserAssumption
    <3>2. QED
      BY <2>1, <2>2, <3>1 DEF WireByte
  <2>6. FeedResult(p, b) = "INCOMPLETE"
    BY <1>7 DEF FeedResult
  <2>7. QED
    BY <2>2, <2>3, <2>4, <2>5, <2>6
<1>8. CASE p.state = "WAIT_CRC_L"
  <2>1. q.state = "WAIT_STX"
    BY <1>8 DEF ParserFeed, FeedCrcL, WithCrcL, ParserRecord
  <2>2. QED
    BY <2>1
<1>9. QED
  BY <1>3, <1>4, <1>5, <1>6, <1>7, <1>8 DEF ParserRecord, ParserStates

(* What the parser holds can always still become a frame.                  *)
LEMMA PartialIsPrefix ==
  ASSUME NEW p \in ParserRecord, ParserConsistent(p)
  PROVE  FramePrefix(Partial(p)) /\ ~Complete(Partial(p))
<1>1. /\ Len(Partial(p)) = ParserPosition(p)
      /\ \A i \in 1 .. ParserPosition(p) : Partial(p)[i] = WireByte(p, i)
      /\ ParserPosition(p) \in Nat
  BY PartialIsSeq
<1>2. WireByte(p, 1) = STX /\ WireByte(p, 2) = p.payload_length
  BY DEF WireByte
<1>3. /\ ParserPosition(p) >= 1 => Partial(p)[1] = STX
      /\ ParserPosition(p) >= 2 => Partial(p)[2] = p.payload_length
  BY <1>1, <1>2
<1>4. ParserPosition(p) >= 2 =>
        /\ p.payload_length \in 1 .. MAX_PAYLOAD
        /\ ParserPosition(p) < p.payload_length + 5
  BY ParserAssumption DEF ParserPosition, ParserConsistent, ParserRecord, ParserStates
<1>5. QED
  BY <1>1, <1>3, <1>4, ParserAssumption DEF FramePrefix, Complete

(* The last byte completes a frame, and the parser accepts it exactly when *)
(* its checksum is right.                                                  *)
LEMMA LastByteDecides ==
  ASSUME NEW p \in ParserRecord, ParserConsistent(p), NEW b \in Byte,
         p.state = "WAIT_CRC_L"
  PROVE  LET s == Append(Partial(p), b) IN
         /\ FramePrefix(s) /\ Complete(s)
         /\ ValidFrame(s) <=> FeedResult(p, b) = "FRAME_READY"
         /\ ~ValidFrame(s) <=> FeedResult(p, b) = "CRC_ERROR"
<1> DEFINE s == Append(Partial(p), b)
           n == p.payload_length
           w == WithCrcL(p, b)
           body == <<n, p.type>> \o PayloadOf(w)
<1>1. n \in 1 .. MAX_PAYLOAD /\ p.payload_index = n /\ ParserPosition(p) = n + 4
  BY ParserAssumption DEF ParserConsistent, ParserPosition, ParserRecord
<1>2. b \in Nat /\ n \in Nat
  BY <1>1, ParserAssumption
<1>3. /\ Partial(p) \in Seq(Nat) /\ Len(Partial(p)) = n + 4
      /\ \A i \in 1 .. n + 4 : Partial(p)[i] = WireByte(p, i)
  BY <1>1, PartialIsSeq
<1>4. /\ s \in Seq(Nat) /\ Len(s) = n + 5 /\ s[n + 5] = b
      /\ \A i \in 1 .. n + 4 : s[i] = WireByte(p, i)
  <2>1. s \in Seq(Nat) /\ Len(s) = n + 5
    BY <1>2, <1>3
  <2>2. \A i \in 1 .. n + 4 : s[i] = Partial(p)[i]
    BY <1>2, <1>3
  <2>3. s[n + 5] = b
    BY <1>2, <1>3
  <2>4. QED
    BY <1>3, <2>1, <2>2, <2>3
<1>5. s[1] = STX /\ s[2] = n
  <2>1. WireByte(p, 1) = STX /\ WireByte(p, 2) = n
    BY DEF WireByte
  <2>2. QED
    BY <1>2, <1>4, <2>1
<1>6. FramePrefix(s) /\ Complete(s)
  <2> HIDE DEF s
  <2>1. QED
    BY <1>1, <1>2, <1>4, <1>5 DEF FramePrefix, Complete
<1>7. SubSeq(s, 2, n + 3) = body
  <2>1. /\ SubSeq(s, 2, n + 3) \in Seq(Nat)
        /\ Len(SubSeq(s, 2, n + 3)) = n + 2
        /\ \A i \in 1 .. n + 2 : SubSeq(s, 2, n + 3)[i] = s[i + 1]
    <3> DEFINE last == n + 3
    <3>1. \A i \in 2 .. last : s[i] \in Nat
      <4> HIDE DEF s
      <4>1. QED
        BY <1>2, <1>4
    <3>2. last \in Int
      BY <1>2
    <3> HIDE DEF s, last
    <3>3. /\ SubSeq(s, 2, last) \in Seq(Nat)
          /\ Len(SubSeq(s, 2, last)) = IF 2 <= last THEN last - 2 + 1 ELSE 0
          /\ \A i \in 1 .. last - 2 + 1 : SubSeq(s, 2, last)[i] = s[2 + i - 1]
      BY <3>1, <3>2, SubSeqProperties
    <3>4. \A i \in 1 .. n + 2 : 2 + i - 1 = i + 1
      BY <1>2
    <3>5. QED
      BY <1>2, <3>3, <3>4 DEF last
  <2>2. /\ <<n, p.type>> \in Seq(Nat) /\ Len(<<n, p.type>>) = 2
        /\ <<n, p.type>>[1] = n /\ <<n, p.type>>[2] = p.type
    <3>1. p.type \in Nat
      BY ParserAssumption DEF ParserRecord
    <3> HIDE DEF n
    <3>2. QED
      BY <1>2, <3>1
  <2>3. /\ PayloadOf(w) \in Seq(Nat) /\ Len(PayloadOf(w)) = n
        /\ \A i \in 1 .. n : PayloadOf(w)[i] = p.payload[i - 1]
    <3>1. w.payload = p.payload /\ w.payload_length = n
      BY DEF WithCrcL, ParserRecord
    <3>2. PayloadOf(w) = [i \in 1 .. n |-> p.payload[i - 1]]
      BY <3>1 DEF PayloadOf
    <3>3. ASSUME NEW i \in 1 .. n
          PROVE  p.payload[i - 1] \in Nat
      <4>1. i - 1 \in 0 .. MAX_PAYLOAD - 1
        BY <1>1, ParserAssumption
      <4>2. QED
        BY <4>1, ParserAssumption DEF ParserRecord
    <3>4. PayloadOf(w) \in Seq(Nat)
      BY <1>2, <3>2, <3>3, IsASeq
    <3>5. DOMAIN PayloadOf(w) = 1 .. n
      BY <3>2
    <3>6. Len(PayloadOf(w)) = n
      BY <1>2, <3>4, <3>5, LenProperties
    <3>7. QED
      BY <3>2, <3>4, <3>6
  <2>4. /\ body \in Seq(Nat) /\ Len(body) = n + 2
        /\ \A i \in 1 .. n + 2 :
             body[i] = IF i <= 2 THEN <<n, p.type>>[i] ELSE PayloadOf(w)[i - 2]
    BY <1>2, <2>2, <2>3, ConcatProperties
  <2>5. ASSUME NEW i \in 1 .. n + 2
        PROVE  s[i + 1] = body[i]
    <3>1. i + 1 \in 1 .. n + 4
      BY <1>2
    <3>2. s[i + 1] = WireByte(p, i + 1)
      BY <1>4, <3>1
    <3>3. CASE i = 1
      BY <1>2, <2>2, <2>4, <3>2, <3>3 DEF WireByte
    <3>4. CASE i = 2
      BY <1>2, <2>2, <2>4, <3>2, <3>4 DEF WireByte
    <3>5. CASE i > 2
      <4>1. WireByte(p, i + 1) = p.payload[i + 1 - 4]
        BY <1>1, <1>2, <3>5 DEF WireByte
      <4>2. body[i] = PayloadOf(w)[i - 2] /\ i - 2 \in 1 .. n
        BY <1>2, <2>4, <3>5
      <4>3. PayloadOf(w)[i - 2] = p.payload[i - 2 - 1]
        BY <2>3, <4>2
      <4>4. i + 1 - 4 = i - 2 - 1
        BY <1>2
      <4>5. QED
        BY <3>2, <4>1, <4>2, <4>3, <4>4
    <3> HIDE DEF s, body
    <3>6. QED
      BY <1>2, <3>3, <3>4, <3>5
  <2> HIDE DEF s, body
  <2>6. Len(SubSeq(s, 2, n + 3)) = Len(body)
    BY <2>1, <2>4
  <2>7. \A i \in 1 .. Len(SubSeq(s, 2, n + 3)) : SubSeq(s, 2, n + 3)[i] = body[i]
    BY <2>1, <2>5
  <2>8. QED
    BY <2>1, <2>4, <2>6, <2>7, SeqEqual
<1>8. 256 * s[Len(s) - 1] + s[Len(s)] = w.received_crc
  <2>1. PICK hi \in Byte : p.received_crc = 256 * hi
    BY DEF ParserConsistent
  <2>2. hi \in Nat /\ (256 * hi) \div 256 = hi
    BY ParserAssumption
  <2>3. WireByte(p, n + 4) = hi
    BY <1>1, <1>2, <2>1, <2>2 DEF WireByte
  <2>4. w.received_crc = 256 * hi + b
    BY <2>1 DEF WithCrcL, ParserRecord
  <2> HIDE DEF s, w
  <2>5. s[n + 4] = hi
    BY <1>2, <1>4, <2>3
  <2>6. Len(s) - 1 = n + 4 /\ Len(s) = n + 5
    BY <1>2, <1>4
  <2>7. QED
    BY <1>4, <2>4, <2>5, <2>6
<1>9. ValidFrame(s) <=> FrameCrcIsValid(w)
  <2>1. w.payload_length = n /\ w.type = p.type
    BY DEF WithCrcL, ParserRecord
  <2>2. FrameCrcIsValid(w) <=> Crc(body) = w.received_crc
    BY <2>1 DEF FrameCrcIsValid
  <2>3. Len(s) - 2 = n + 3
    BY <1>2, <1>4
  <2> HIDE DEF s, body, w
  <2>4. ValidFrame(s) <=> Crc(SubSeq(s, 2, n + 3)) = w.received_crc
    BY <1>6, <1>8, <2>3 DEF ValidFrame
  <2>5. QED
    BY <1>7, <2>2, <2>4
<1>10. FeedResult(p, b) = IF FrameCrcIsValid(w) THEN "FRAME_READY" ELSE "CRC_ERROR"
  BY DEF FeedResult
<1>11. QED
  <2> HIDE DEF s, w
  <2>1. /\ ValidFrame(s) <=> FeedResult(p, b) = "FRAME_READY"
        /\ ~ValidFrame(s) <=> FeedResult(p, b) = "CRC_ERROR"
    BY <1>9, <1>10
  <2>2. QED
    BY <1>6, <2>1 DEF s

(* One byte takes the abstract state where the frame format says.          *)
LEMMA FeedScans ==
  ASSUME NEW p \in ParserRecord, ParserConsistent(p), NEW b \in Byte
  PROVE  LET s == Append(Partial(p), b)
             q == ParserFeed(p, b)
             r == FeedResult(p, b)
         IN  \/ /\ ~FramePrefix(s) /\ Partial(q) = <<>>
                /\ r = IF Len(s) = 1 THEN "INCOMPLETE" ELSE "LENGTH_ERROR"
             \/ /\ FramePrefix(s) /\ ~Complete(s) /\ Partial(q) = s
                /\ r = "INCOMPLETE"
             \/ /\ FramePrefix(s) /\ Complete(s) /\ Partial(q) = <<>>
                /\ r = IF ValidFrame(s) THEN "FRAME_READY" ELSE "CRC_ERROR"
<1> DEFINE s == Append(Partial(p), b)
           q == ParserFeed(p, b)
           r == FeedResult(p, b)
<1>1. q \in ParserRecord /\ ParserConsistent(q)
  BY FeedConsistent
<1>2. CASE q.state /= "WAIT_STX"
  <2>1. Partial(q) = s /\ r = "INCOMPLETE"
    BY <1>2, FeedGrows
  <2>2. FramePrefix(s) /\ ~Complete(s)
    <3> HIDE DEF s, q
    <3>1. QED
      BY <1>1, <2>1, PartialIsPrefix
  <2>3. QED
    BY <2>1, <2>2
<1>3. CASE q.state = "WAIT_STX"
  <2>1. Partial(q) = <<>>
    BY <1>1, <1>3, SearchHoldsNothing
  <2>2. /\ Partial(p) \in Seq(Nat) /\ Len(Partial(p)) = ParserPosition(p)
        /\ b \in Nat
    BY PartialIsSeq, ParserAssumption
  <2>3. CASE p.state = "WAIT_STX"
    <3>1. b /= STX /\ r = "INCOMPLETE"
      BY <1>3, <2>3 DEF ParserFeed, FeedStx, FeedResult, ParserRecord
    <3>2. Len(Partial(p)) = 0
      BY <2>2, <2>3 DEF ParserPosition
    <3>3. Len(s) = 1 /\ s[1] = b
      BY <2>2, <3>2
    <3>4. ~FramePrefix(s)
      <4> HIDE DEF s
      <4>1. QED
        BY <3>1, <3>3 DEF FramePrefix
    <3>5. QED
      BY <2>1, <3>1, <3>3, <3>4
  <2>4. CASE p.state = "WAIT_LEN"
    <3>1. LengthIsBad(b)
      BY <1>3, <2>4 DEF ParserFeed, FeedLen, ParserRecord
    <3>2. r = "LENGTH_ERROR"
      BY <2>4, <3>1 DEF FeedResult
    <3>3. Len(Partial(p)) = 1
      BY <2>2, <2>4 DEF ParserPosition
    <3>4. Len(s) = 2 /\ s[2] = b
      <4>1. Len(s) = Len(Partial(p)) + 1 /\ s[Len(Partial(p)) + 1] = b
        BY <2>2
      <4>2. QED
        BY <3>3, <4>1
    <3>5. ~FramePrefix(s)
      <4> HIDE DEF s
      <4>1. QED
        BY <3>1, <3>4, ParserAssumption DEF FramePrefix, LengthIsBad
    <3>6. QED
      BY <2>1, <3>2, <3>4, <3>5
  <2>5. CASE p.state = "WAIT_CRC_L"
    <3>1. /\ FramePrefix(s) /\ Complete(s)
          /\ ValidFrame(s) <=> r = "FRAME_READY"
          /\ ~ValidFrame(s) <=> r = "CRC_ERROR"
      BY <2>5, LastByteDecides
    <3>2. r = IF ValidFrame(s) THEN "FRAME_READY" ELSE "CRC_ERROR"
      <4> HIDE DEF s, r
      <4>1. QED
        BY <3>1
    <3>3. QED
      BY <2>1, <3>1, <3>2
  <2>6. CASE p.state \in {"WAIT_TYPE", "READ_PAYLOAD", "WAIT_CRC_H"}
    BY <1>3, <2>6 DEF ParserFeed, FeedType, FeedPayload, FeedCrcH, ParserRecord
  <2>7. QED
    BY <2>3, <2>4, <2>5, <2>6 DEF ParserRecord, ParserStates
<1>4. QED
  BY <1>2, <1>3
=============================================================================

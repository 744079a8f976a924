---------------------------- MODULE ParserProofs ----------------------------
(***************************************************************************)
(* The frames at both ends of the line.                                    *)
(*                                                                         *)
(* At the board, for every alphabet, payload size and checksum: the parser *)
(* never indexes outside its payload array, and recognises exactly the     *)
(* frame format.                                                           *)
(*                                                                         *)
(* At the PC, for every size of a byte, unit of time and set of options:   *)
(* the senders write frames of that format, which decode to what was       *)
(* measured, and keep their schedules however they are delayed.            *)
(***************************************************************************)
EXTENDS ParserMachine, FrameParserProofs, Senders, WellFoundedInduction

(* The payload index stays inside the array, in every reachable state.     *)
THEOREM ParserIsSafe == MachineSpec => [](ParserTypeOK /\ PayloadIndexInBounds)
<1> DEFINE Inv == ParserTypeOK /\ PayloadIndexInBounds
<1>1. MachineInit => Inv
  <2> SUFFICES ASSUME MachineInit PROVE Inv
    OBVIOUS
  <2>1. StaticParser \in ParserRecord
    BY ParserAssumption DEF StaticParser, ParserRecord, ParserStates
  <2>2. QED
    BY <2>1, InitConsistent, ParserAssumption
    DEF MachineInit, ParserTypeOK, PayloadIndexInBounds, ParserResults,
        NoInput, InputRecord
<1>2. Inv /\ [MachineNext]_parserVars => Inv'
  <2> SUFFICES ASSUME Inv, [MachineNext]_parserVars PROVE Inv'
    OBVIOUS
  <2> USE DEF ParserTypeOK, PayloadIndexInBounds
  <2>1. CASE Reset
    BY <2>1, InitConsistent, ParserAssumption
    DEF Reset, ParserResults, NextInput, InputRecord
  <2>2. ASSUME NEW b \in Byte, Feed(b)
        PROVE  Inv'
    <3>1. FeedResult(parser, b) \in ParserResults
      BY DEF FeedResult, ParserResults
    <3>2. QED
      BY <2>2, <3>1, FeedConsistent DEF Feed, NextInput, InputRecord
  <2>3. CASE UNCHANGED parserVars
    BY <2>3 DEF parserVars
  <2>4. QED
    BY <2>1, <2>2, <2>3 DEF MachineNext
<1>3. QED
  BY <1>1, <1>2, PTL DEF MachineSpec

(* The parser keeps its type, and the payload array its length, whatever   *)
(* is fed to it.                                                           *)
THEOREM ParserIsTyped == MachineSpec => []ParserTypeOK
BY ParserIsSafe, PTL

(* Inside a frame, every byte ends it or brings its end closer.            *)
THEOREM ParserProgresses == MachineSpec => []AlwaysProgresses
<1>1. ASSUME ParserTypeOK, PayloadIndexInBounds, parser.state /= "WAIT_STX"
      PROVE  BytesLeft(parser) \in 1 .. MAX_PAYLOAD + 4
  <2>1. /\ parser.state \in ParserStates /\ parser.payload_index \in Nat
        /\ parser.payload_length \in 0 .. MAX_PAYLOAD /\ MAX_PAYLOAD \in Nat
    BY <1>1, ParserAssumption DEF ParserTypeOK, ParserRecord
  <2>2. QED
    BY <1>1, <2>1
    DEF PayloadIndexInBounds, ParserConsistent, BytesLeft, ParserPosition,
        ParserStates
<1>2. ASSUME ParserTypeOK, PayloadIndexInBounds, parser.state /= "WAIT_STX",
             NEW b \in Byte
      PROVE  LET next == ParserFeed(parser, b)
             IN  IF next.state = "WAIT_STX"
                   THEN FeedResult(parser, b) /= "INCOMPLETE"
                   ELSE BytesLeft(next) < BytesLeft(parser)
  <2> DEFINE p == parser
             q == ParserFeed(p, b)
  <2>1. p \in ParserRecord /\ ParserConsistent(p)
    BY <1>2 DEF ParserTypeOK, PayloadIndexInBounds
  <2>2. q \in ParserRecord /\ ParserConsistent(q)
    BY <2>1, FeedConsistent
  <2>3. CASE q.state = "WAIT_STX"
    BY <1>2, <2>1, <2>3
    DEF ParserFeed, FeedLen, FeedType, FeedPayload, FeedCrcH, FeedCrcL,
        FeedResult, ParserRecord, ParserStates
  <2>4. CASE q.state /= "WAIT_STX"
    <3> SUFFICES BytesLeft(q) < BytesLeft(p)
      BY <2>4
    <3>1. ParserPosition(q) = ParserPosition(p) + 1
      BY <2>1, <2>4, FeedGrows
    <3>2. /\ p.payload_index \in Nat /\ q.payload_index \in Nat
          /\ p.payload_length \in Nat /\ q.payload_length \in 0 .. MAX_PAYLOAD
          /\ MAX_PAYLOAD \in Nat /\ ParserPosition(p) \in Nat
      BY <2>1, <2>2, ParserAssumption
      DEF ParserRecord, ParserStates, ParserPosition
    <3>3. CASE p.state = "WAIT_LEN"
      <4>1. ParserPosition(q) = 2 /\ q.state = "WAIT_TYPE"
        BY <2>1, <2>4, <3>1, <3>3
        DEF ParserPosition, ParserFeed, FeedLen, ParserRecord
      <4>2. QED
        BY <3>2, <3>3, <4>1 DEF BytesLeft
    <3>4. CASE p.state /= "WAIT_LEN"
      <4>1. q.payload_length = p.payload_length /\ q.state /= "WAIT_LEN"
        <5>1. CASE p.state = "WAIT_TYPE"
          BY <2>1, <5>1 DEF ParserFeed, FeedType, ParserRecord
        <5>2. CASE p.state = "READ_PAYLOAD"
          BY <2>1, <5>2 DEF ParserFeed, FeedPayload, ParserRecord
        <5>3. CASE p.state = "WAIT_CRC_H"
          BY <2>1, <5>3 DEF ParserFeed, FeedCrcH, ParserRecord
        <5>4. CASE p.state = "WAIT_CRC_L"
          <6>1. q.state = "WAIT_STX"
            BY <2>1, <5>4 DEF ParserFeed, FeedCrcL, WithCrcL, ParserRecord
          <6>2. QED
            BY <2>4, <6>1
        <5>5. QED
          BY <1>2, <2>1, <3>4, <5>1, <5>2, <5>3, <5>4
          DEF ParserRecord, ParserStates
      <4> HIDE DEF p, q
      <4>2. QED
        BY <3>1, <3>2, <3>4, <4>1 DEF BytesLeft
    <3>5. QED
      BY <3>3, <3>4
  <2>5. QED
    BY <2>3, <2>4
<1>3. ParserTypeOK /\ PayloadIndexInBounds => AlwaysProgresses
  BY <1>1, <1>2 DEF AlwaysProgresses
<1>4. QED
  BY <1>3, ParserIsSafe, PTL

(* The parser implements the abstract scanner of the frame format, byte    *)
(* for byte: it neither ignores one nor gives up a frame by itself.        *)
THEOREM ParserRecognisesFormat == MachineSpec => RecognisesFormat
<1> DEFINE Inv == ParserTypeOK /\ PayloadIndexInBounds
<1>1. MachineInit => Scanner!ScannerInit
  <2> SUFFICES ASSUME MachineInit PROVE Scanner!ScannerInit
    OBVIOUS
  <2>1. StaticParser \in ParserRecord
    BY ParserAssumption DEF StaticParser, ParserRecord, ParserStates
  <2>2. QED
    BY <2>1, InitConsistent, SearchHoldsNothing
    DEF MachineInit, Scanner!ScannerInit, Scanner!NoInput, NoInput
<1>2. Inv /\ [MachineNext]_parserVars =>
        [Scanner!ScannerNext]_(Scanner!scannerVars)
  <2> SUFFICES ASSUME Inv, [MachineNext]_parserVars
               PROVE  [Scanner!ScannerNext]_(Scanner!scannerVars)
    OBVIOUS
  <2> USE DEF ParserTypeOK, PayloadIndexInBounds
  <2>1. CASE Reset
    <3>1. Partial(parser') = <<>>
      BY <2>1, InitConsistent, SearchHoldsNothing DEF Reset
    <3>2. QED
      BY <2>1, <3>1
      DEF Reset, Scanner!ScannerNext, Scanner!Abandon, Scanner!NextInput, NextInput
  <2>2. ASSUME NEW b \in Byte, Feed(b)
        PROVE  Scanner!Scan(b)
    <3>1. parser' = ParserFeed(parser, b) /\ result' = FeedResult(parser, b)
      BY <2>2 DEF Feed
    <3> DEFINE s == Append(Partial(parser), b)
    <3>2. /\ Scanner!FramePrefix(s) <=> FramePrefix(s)
          /\ Scanner!Complete(s) <=> Complete(s)
          /\ Scanner!ValidFrame(s) <=> ValidFrame(s)
      BY DEF Scanner!FramePrefix, Scanner!Complete, Scanner!ValidFrame,
             FramePrefix, Complete, ValidFrame
    <3>3. \/ /\ ~FramePrefix(s) /\ Partial(parser') = <<>>
             /\ result' = IF Len(s) = 1 THEN "INCOMPLETE" ELSE "LENGTH_ERROR"
          \/ /\ FramePrefix(s) /\ ~Complete(s) /\ Partial(parser') = s
             /\ result' = "INCOMPLETE"
          \/ /\ FramePrefix(s) /\ Complete(s) /\ Partial(parser') = <<>>
             /\ result' = IF ValidFrame(s) THEN "FRAME_READY" ELSE "CRC_ERROR"
      BY <3>1, FeedScans
    <3> HIDE DEF s
    <3>4. Scanner!Reject(s) \/ Scanner!Extend(s) \/ Scanner!Finish(s)
      BY <3>2, <3>3 DEF Scanner!Reject, Scanner!Extend, Scanner!Finish
    <3>5. input' = Scanner!NextInput(input, "byte", b)
      BY <2>2 DEF Feed, Scanner!NextInput, NextInput
    <3>6. QED
      BY <3>4, <3>5 DEF Scanner!Scan, s
  <2>3. CASE UNCHANGED parserVars
    BY <2>3 DEF parserVars, Scanner!scannerVars
  <2>4. QED
    BY <2>1, <2>2, <2>3 DEF MachineNext, Scanner!ScannerNext
<1>3. QED
  BY <1>1, <1>2, ParserIsSafe, PTL
  DEF MachineSpec, RecognisesFormat, Scanner!ScannerSpec

----------------------------------------------------------------------------
(* Division by a positive number.                                          *)

LEMMA DivisionFacts ==
  ASSUME NEW x \in Int, NEW n \in Nat \ {0}
  PROVE  /\ x \div n \in Int /\ x % n \in 0 .. n - 1
         /\ x = n * (x \div n) + (x % n)
OBVIOUS

LEMMA DivisionUnique ==
  ASSUME NEW q \in Int, NEW r \in Int, NEW n \in Nat \ {0}, 0 <= r, r < n
  PROVE  (n * q + r) \div n = q /\ (n * q + r) % n = r
OBVIOUS

LEMMA ProductMonotone ==
  ASSUME NEW a \in Int, NEW b \in Int, NEW n \in Nat
  PROVE  /\ n * a \in Int /\ n * (a + b) = n * a + n * b
         /\ a * n = n * a
         /\ a <= b => n * a <= n * b
OBVIOUS

LEMMA RemainderShifted ==
  ASSUME NEW x \in Int, NEW k \in Int, NEW n \in Nat \ {0}
  PROVE  (n * k + x) % n = x % n
<1>1. /\ x \div n \in Int /\ x % n \in 0 .. n - 1
      /\ x = n * (x \div n) + (x % n)
  BY DivisionFacts
<1> DEFINE q == x \div n
           r == x % n
<1> HIDE DEF q, r
<1>2. n * k + x = n * (k + q) + r
  <2>1. q \in Int /\ r \in Int /\ x = n * q + r
    BY <1>1 DEF q, r
  <2>2. n * (k + q) = n * k + n * q /\ n * k \in Int /\ n * q \in Int
    BY <2>1, ProductMonotone
  <2>3. QED
    BY <2>1, <2>2
<1>3. k + q \in Int /\ r \in Int /\ 0 <= r /\ r < n
  BY <1>1 DEF q, r
<1>4. (n * (k + q) + r) % n = r
  BY <1>3, DivisionUnique
<1>5. QED
  BY <1>2, <1>4 DEF r

----------------------------------------------------------------------------
(* The constants of the wire.                                              *)

LEMMA WireNumbers ==
  /\ BASE \in Nat /\ BASE >= 11 /\ PARTS \in Nat /\ PARTS > 0 /\ PARTS % 2 = 0
  /\ PARTS = 2 * (PARTS \div 2) /\ PARTS \div 2 \in Nat /\ PARTS \div 2 > 0
  /\ WORD \in Nat /\ WORD > BASE
  /\ LONG \in Nat /\ LONG > WORD
  /\ PI \in Nat /\ 2 * PI = PARTS * LONG
<1>1. /\ BASE \in Nat /\ BASE >= 11 /\ PARTS \in Nat /\ PARTS > 0
      /\ PARTS % 2 = 0
  BY WireAssumption
<1>2. PARTS = 2 * (PARTS \div 2) /\ PARTS \div 2 \in Nat /\ PARTS \div 2 > 0
  BY <1>1, DivisionFacts
<1>3. WORD \in Nat /\ WORD > BASE
  BY <1>1 DEF WORD
<1>4. LONG \in Nat /\ LONG > WORD
  BY <1>1, <1>3 DEF LONG
<1>5. PI \in Nat /\ 2 * PI = PARTS * LONG
  <2> DEFINE h == PARTS \div 2
  <2> HIDE DEF h
  <2>1. h \in Nat /\ PARTS = 2 * h /\ PI = h * LONG
    BY <1>2 DEF h, PI
  <2>2. QED
    BY <1>4, <2>1
<1>6. QED
  BY <1>1, <1>2, <1>3, <1>4, <1>5

(* What Python's round does: the nearest integer, and one for one across   *)
(* whole parts.                                                            *)
LEMMA RoundFacts ==
  ASSUME NEW x \in Int
  PROVE  /\ Round(x) \in Int
         /\ 2 * PARTS * Round(x) <= 2 * x + PARTS
         /\ 2 * x <= 2 * PARTS * Round(x) + PARTS
<1>1. PARTS \in Nat \ {0}
  BY WireNumbers
<1> DEFINE q == x \div PARTS
           r == x % PARTS
<1>2. q \in Int /\ r \in Int /\ 0 <= r /\ r < PARTS /\ x = PARTS * q + r
  BY <1>1, DivisionFacts
<1>3. Round(x) = IF 2 * r < PARTS \/ (2 * r = PARTS /\ q % 2 = 0) THEN q ELSE q + 1
  BY DEF Round
<1> HIDE DEF q, r
<1>4. PARTS * (q + 1) = PARTS * q + PARTS /\ PARTS * q \in Int
  BY <1>1, <1>2
<1>5. CASE Round(x) = q /\ 2 * r <= PARTS
  BY <1>1, <1>2, <1>4, <1>5
<1>6. CASE Round(x) = q + 1 /\ 2 * r >= PARTS
  <2>1. 2 * PARTS * Round(x) = 2 * (PARTS * (q + 1))
    BY <1>1, <1>2, <1>6
  <2>2. QED
    BY <1>1, <1>2, <1>4, <1>6, <2>1
<1>7. QED
  BY <1>1, <1>2, <1>3, <1>5, <1>6

LEMMA RoundWhole ==
  ASSUME NEW k \in Int
  PROVE  Round(PARTS * k) = k
<1>1. PARTS \in Nat \ {0}
  BY WireNumbers
<1>2. (PARTS * k + 0) \div PARTS = k /\ (PARTS * k + 0) % PARTS = 0
  BY <1>1, DivisionUnique
<1>3. PARTS * k + 0 = PARTS * k
  BY <1>1
<1>4. QED
  BY <1>1, <1>2, <1>3 DEF Round

(* Rounding keeps the order, strictly when more than a unit lies between.  *)
LEMMA RoundMonotone ==
  ASSUME NEW x \in Int, NEW y \in Int
  PROVE  /\ x <= y => Round(x) <= Round(y)
         /\ x + PARTS < y => Round(x) < Round(y)
<1>1. PARTS \in Nat \ {0}
  BY WireNumbers
<1>2. /\ Round(x) \in Int /\ Round(y) \in Int
      /\ 2 * PARTS * Round(x) <= 2 * x + PARTS
      /\ 2 * x <= 2 * PARTS * Round(x) + PARTS
      /\ 2 * PARTS * Round(y) <= 2 * y + PARTS
      /\ 2 * y <= 2 * PARTS * Round(y) + PARTS
  BY RoundFacts
<1> DEFINE u == Round(x)
           v == Round(y)
<1> HIDE DEF u, v
<1>3. /\ u \in Int /\ v \in Int
      /\ PARTS * u \in Int /\ PARTS * v \in Int
      /\ 2 * PARTS * u = 2 * (PARTS * u) /\ 2 * PARTS * v = 2 * (PARTS * v)
      /\ v <= u => PARTS * v <= PARTS * u
      /\ v + 1 <= u => PARTS * v + PARTS <= PARTS * u
  <2>1. u \in Int /\ v \in Int
    BY <1>2 DEF u, v
  <2>2. v + 1 <= u => PARTS * (v + 1) <= PARTS * u
    BY <1>1, <2>1, ProductMonotone
  <2>3. v <= u => PARTS * v <= PARTS * u
    BY <1>1, <2>1, ProductMonotone
  <2>4. PARTS * (v + 1) = PARTS * v + PARTS
    BY <1>1, <2>1
  <2>5. QED
    BY <1>1, <2>1, <2>2, <2>3, <2>4
<1>4. ASSUME x + PARTS < y PROVE u < v
  BY <1>1, <1>2, <1>3, <1>4 DEF u, v
<1>5. ASSUME x <= y PROVE u <= v
  <2> SUFFICES ASSUME v + 1 <= u PROVE FALSE
    BY <1>3
  <2>1. PARTS * u = PARTS * v + PARTS /\ x = y
    BY <1>1, <1>2, <1>3, <1>5 DEF u, v
  <2>2. QED
    BY <2>1, <1>3 DEF u, v
<1>6. QED
  BY <1>4, <1>5 DEF u, v
----------------------------------------------------------------------------
(* The frames of encode_frame, byte by byte.                               *)

LEMMA TupleFacts ==
  ASSUME NEW S, NEW a \in S, NEW b \in S
  PROVE  /\ <<a>> \in Seq(S) /\ Len(<<a>>) = 1 /\ <<a>>[1] = a
         /\ <<a, b>> \in Seq(S) /\ Len(<<a, b>>) = 2
         /\ <<a, b>>[1] = a /\ <<a, b>>[2] = b
OBVIOUS

(* Two sequences joined.                                                    *)
LEMMA JoinFacts ==
  ASSUME NEW S, NEW s \in Seq(S), NEW t \in Seq(S)
  PROVE  /\ s \o t \in Seq(S) /\ Len(s \o t) = Len(s) + Len(t)
         /\ \A i \in 1 .. Len(s) : (s \o t)[i] = s[i]
         /\ \A i \in 1 .. Len(t) : (s \o t)[Len(s) + i] = t[i]
<1>1. Len(s) \in Nat /\ Len(t) \in Nat
  BY LenProperties
<1>2. /\ s \o t \in Seq(S)
      /\ Len(s \o t) = Len(s) + Len(t)
      /\ \A i \in 1 .. Len(s) + Len(t) :
           (s \o t)[i] = IF i <= Len(s) THEN s[i] ELSE t[i - Len(s)]
  BY ConcatProperties, Zenon
<1>3. \A i \in 1 .. Len(s) : i \in 1 .. Len(s) + Len(t) /\ i <= Len(s)
  BY <1>1
<1>4. \A i \in 1 .. Len(t) : /\ Len(s) + i \in 1 .. Len(s) + Len(t)
                             /\ ~(Len(s) + i <= Len(s))
                             /\ (Len(s) + i) - Len(s) = i
  BY <1>1
<1>5. QED
  BY <1>2, <1>3, <1>4, Zenon

LEMMA OneInFront ==
  ASSUME NEW S, NEW a \in S, NEW t \in Seq(S)
  PROVE  /\ <<a>> \o t \in Seq(S) /\ Len(<<a>> \o t) = Len(t) + 1
         /\ (<<a>> \o t)[1] = a
         /\ \A i \in 1 .. Len(t) : (<<a>> \o t)[1 + i] = t[i]
<1> DEFINE s == <<a>>
<1>1. Len(s) = 1 /\ s[1] = a
  BY TupleFacts
<1>2. s \in Seq(S)
  BY TupleFacts
<1> HIDE DEF s
<1>3. /\ s \o t \in Seq(S) /\ Len(s \o t) = Len(s) + Len(t)
      /\ \A i \in 1 .. Len(s) : (s \o t)[i] = s[i]
      /\ \A i \in 1 .. Len(t) : (s \o t)[Len(s) + i] = t[i]
  BY <1>2, JoinFacts
<1>4. Len(t) \in Nat
  BY LenProperties
<1>5. QED
  BY <1>1, <1>3, <1>4 DEF s

LEMMA TwoInFront ==
  ASSUME NEW S, NEW a \in S, NEW b \in S, NEW t \in Seq(S)
  PROVE  /\ <<a, b>> \o t \in Seq(S) /\ Len(<<a, b>> \o t) = Len(t) + 2
         /\ (<<a, b>> \o t)[1] = a /\ (<<a, b>> \o t)[2] = b
         /\ \A i \in 1 .. Len(t) : (<<a, b>> \o t)[2 + i] = t[i]
<1> DEFINE s == <<a, b>>
<1>1. Len(s) = 2 /\ s[1] = a /\ s[2] = b
  BY TupleFacts
<1>2. s \in Seq(S)
  BY TupleFacts
<1> HIDE DEF s
<1>3. /\ s \o t \in Seq(S) /\ Len(s \o t) = Len(s) + Len(t)
      /\ \A i \in 1 .. Len(s) : (s \o t)[i] = s[i]
      /\ \A i \in 1 .. Len(t) : (s \o t)[Len(s) + i] = t[i]
  BY <1>2, JoinFacts
<1>4. Len(t) \in Nat
  BY LenProperties
<1>5. QED
  BY <1>1, <1>3, <1>4 DEF s

LEMMA TwoBehind ==
  ASSUME NEW S, NEW a \in S, NEW b \in S, NEW s \in Seq(S)
  PROVE  /\ s \o <<a, b>> \in Seq(S) /\ Len(s \o <<a, b>>) = Len(s) + 2
         /\ \A i \in 1 .. Len(s) : (s \o <<a, b>>)[i] = s[i]
         /\ (s \o <<a, b>>)[Len(s) + 1] = a /\ (s \o <<a, b>>)[Len(s) + 2] = b
<1> DEFINE t == <<a, b>>
<1>1. Len(t) = 2 /\ t[1] = a /\ t[2] = b
  BY TupleFacts
<1>2. t \in Seq(S)
  BY TupleFacts
<1> HIDE DEF t
<1>3. /\ s \o t \in Seq(S) /\ Len(s \o t) = Len(s) + Len(t)
      /\ \A i \in 1 .. Len(s) : (s \o t)[i] = s[i]
      /\ \A i \in 1 .. Len(t) : (s \o t)[Len(s) + i] = t[i]
  BY <1>2, JoinFacts
<1>4. Len(s) \in Nat
  BY LenProperties
<1>5. QED
  BY <1>1, <1>3, <1>4 DEF t

(* The bytes of a frame of encode_frame, whatever the checksum is.         *)
LEMMA FrameBytes ==
  ASSUME NEW S, NEW type \in S, NEW payload \in Seq(S), STX \in S,
         Len(payload) \in S,
         Crc(<<Len(payload), type>> \o payload) \div 256 \in S,
         Crc(<<Len(payload), type>> \o payload) % 256 \in S
  PROVE  LET f    == EncodeFrame(type, payload)
             n    == Len(payload)
             body == <<n, type>> \o payload
         IN  /\ Len(f) = n + 5 /\ f /= <<>>
             /\ f[1] = STX /\ f[2] = n /\ TypeOf(f) = type
             /\ f[n + 4] = Crc(body) \div 256 /\ f[n + 5] = Crc(body) % 256
             /\ SubSeq(f, 2, n + 3) = body /\ PayloadBytes(f) = payload
<1> DEFINE n    == Len(payload)
           body == <<n, type>> \o payload
           high == Crc(body) \div 256
           low  == Crc(body) % 256
           head == <<STX>> \o body
           f    == head \o <<high, low>>
<1>0. n \in Nat /\ n \in S
  BY LenProperties
<1>9. high \in S /\ low \in S /\ f = EncodeFrame(type, payload)
  BY DEF EncodeFrame
<1> HIDE DEF n, high, low
<1>1. /\ body \in Seq(S) /\ Len(body) = Len(payload) + 2
      /\ body[1] = n /\ body[2] = type
      /\ \A i \in 1 .. Len(payload) : body[2 + i] = payload[i]
  BY <1>0, TwoInFront
<1> HIDE DEF body
<1>2. /\ head \in Seq(S) /\ Len(head) = Len(body) + 1
      /\ head[1] = STX /\ \A i \in 1 .. Len(body) : head[1 + i] = body[i]
  BY <1>1, OneInFront
<1> HIDE DEF head
<1>3. /\ f \in Seq(S) /\ Len(f) = Len(head) + 2
      /\ \A i \in 1 .. Len(head) : f[i] = head[i]
      /\ f[Len(head) + 1] = high /\ f[Len(head) + 2] = low
  BY <1>2, <1>9, TwoBehind
<1> HIDE DEF f
<1>10. Len(body) = n + 2 /\ \A i \in 1 .. n : body[2 + i] = payload[i]
  BY <1>1 DEF n
<1>4. /\ Len(f) = n + 5 /\ f[1] = STX /\ f[n + 4] = high /\ f[n + 5] = low
      /\ \A i \in 1 .. n + 2 : f[1 + i] = body[i]
  BY <1>0, <1>2, <1>3, <1>10
<1>5. f[2] = n /\ f[3] = type /\ \A i \in 1 .. n : f[3 + i] = payload[i]
  <2>1. f[1 + 1] = body[1] /\ f[1 + 2] = body[2]
    BY <1>0, <1>4
  <2>2. ASSUME NEW i \in 1 .. n PROVE f[3 + i] = payload[i]
    <3>1. 2 + i \in 1 .. n + 2 /\ 1 + (2 + i) = 3 + i
      BY <1>0
    <3>2. QED
      BY <1>10, <1>4, <3>1
  <2>3. QED
    BY <1>1, <2>1, <2>2
<1>6. SubSeq(f, 2, n + 3) = body
  <2>1. \A i \in 2 .. n + 3 : f[i] \in S
    BY <1>0, <1>3, <1>4, ElementOfSeq
  <2>2. /\ SubSeq(f, 2, n + 3) \in Seq(S) /\ Len(SubSeq(f, 2, n + 3)) = n + 2
        /\ \A i \in 1 .. n + 2 : SubSeq(f, 2, n + 3)[i] = f[1 + i]
    BY <1>0, <2>1, SubSeqProperties
  <2>3. QED
    BY <1>1, <1>10, <1>4, <2>2, SeqEqual
<1>7. SubSeq(f, 4, n + 3) = payload
  <2>1. \A i \in 4 .. n + 3 : f[i] \in S
    BY <1>0, <1>3, <1>4, ElementOfSeq
  <2>2. /\ SubSeq(f, 4, n + 3) \in Seq(S) /\ Len(SubSeq(f, 4, n + 3)) = n
        /\ \A i \in 1 .. n : SubSeq(f, 4, n + 3)[i] = f[3 + i]
    BY <1>0, <2>1, SubSeqProperties
  <2>4. Len(payload) = n
    BY DEF n
  <2>3. QED
    BY <1>5, <2>2, <2>4, SeqEqual
<1>8. f /= <<>> /\ TypeOf(f) = type /\ PayloadBytes(f) = payload
  <2>1. Len(f) > 0 /\ Len(f) - 2 = n + 3
    BY <1>0, <1>4
  <2>2. f /= <<>>
    BY <2>1
  <2>3. QED
    BY <1>5, <1>7, <2>1, <2>2 DEF TypeOf, PayloadBytes
<1>11. QED
  BY <1>4, <1>5, <1>6, <1>8, <1>9 DEF n, high, low, body

----------------------------------------------------------------------------
(* Numbers to bytes and back.                                              *)

LEMMA Bytes2Facts ==
  ASSUME NEW n \in Int
  PROVE  /\ Bytes2(n)[1] \in Int /\ Bytes2(n)[2] \in Int
         /\ UInt16(Bytes2(n)[1], Bytes2(n)[2]) = n
         /\ Bytes2(n) \in Seq(Int) /\ Len(Bytes2(n)) = 2
<1>1. /\ n \div BASE \in Int /\ n % BASE \in Int
      /\ n = BASE * (n \div BASE) + (n % BASE)
  BY WireNumbers, DivisionFacts
<1>2. QED
  BY <1>1, TupleFacts DEF Bytes2, UInt16

LEMMA Bytes4Facts ==
  ASSUME NEW n \in Int
  PROVE  LET b == Bytes4(n) IN
         /\ b \in Seq(Int) /\ Len(b) = 4
         /\ WORD * UInt16(b[1], b[2]) + UInt16(b[3], b[4]) = n
<1>1. /\ n \div WORD \in Int /\ n % WORD \in Int
      /\ n = WORD * (n \div WORD) + (n % WORD)
  BY WireNumbers, DivisionFacts
<1> DEFINE I == Int
           u == Bytes2(n \div WORD)
           v == Bytes2(n % WORD)
<1>2. /\ u \in Seq(I) /\ v \in Seq(I) /\ Len(u) = 2 /\ Len(v) = 2
      /\ UInt16(u[1], u[2]) = n \div WORD /\ UInt16(v[1], v[2]) = n % WORD
  BY <1>1, Bytes2Facts
<1>3. Bytes4(n) = u \o v
  BY DEF Bytes4
<1> HIDE DEF u, v, I
<1>4. /\ u \o v \in Seq(I) /\ Len(u \o v) = Len(u) + Len(v)
      /\ \A i \in 1 .. Len(u) : (u \o v)[i] = u[i]
      /\ \A i \in 1 .. Len(v) : (u \o v)[Len(u) + i] = v[i]
  BY <1>2, JoinFacts
<1>5. /\ Len(u \o v) = 4
      /\ (u \o v)[1] = u[1] /\ (u \o v)[2] = u[2]
      /\ (u \o v)[3] = v[1] /\ (u \o v)[4] = v[2]
  BY <1>2, <1>4
<1>6. QED
  BY <1>1, <1>2, <1>3, <1>4, <1>5 DEF I

(* The payload of a measurement, and what decode_radar_measurement makes   *)
(* of it.                                                                  *)
MeasurementPayload(timestamp, range, azimuth) ==
  Bytes4(timestamp) \o Bytes2(range) \o Bytes4(TwosComplement(azimuth))

LEMMA PayloadJoins ==
  ASSUME NEW S, NEW t \in Seq(S), NEW r \in Seq(S), NEW a \in Seq(S)
  PROVE  LET p == t \o r \o a IN
         /\ p \in Seq(S)
         /\ Len(t) = 4 /\ Len(r) = 2 /\ Len(a) = 4 =>
              /\ Len(p) = 10
              /\ p[1] = t[1] /\ p[2] = t[2] /\ p[3] = t[3] /\ p[4] = t[4]
              /\ p[5] = r[1] /\ p[6] = r[2]
              /\ p[7] = a[1] /\ p[8] = a[2] /\ p[9] = a[3] /\ p[10] = a[4]
<1> DEFINE b == t \o r
           p == b \o a
<1>1. /\ Len(b) = Len(t) + Len(r)
      /\ \A i \in 1 .. Len(t) : b[i] = t[i]
      /\ \A i \in 1 .. Len(r) : b[Len(t) + i] = r[i]
  BY JoinFacts
<1>0. b \in Seq(S)
  BY JoinFacts
<1> HIDE DEF b
<1>2. /\ p \in Seq(S) /\ Len(p) = Len(b) + Len(a)
      /\ \A i \in 1 .. Len(b) : p[i] = b[i]
      /\ \A i \in 1 .. Len(a) : p[Len(b) + i] = a[i]
  BY <1>0, JoinFacts
<1> HIDE DEF p
<1>3. ASSUME Len(t) = 4, Len(r) = 2, Len(a) = 4
      PROVE  /\ Len(p) = 10
             /\ p[1] = t[1] /\ p[2] = t[2] /\ p[3] = t[3] /\ p[4] = t[4]
             /\ p[5] = r[1] /\ p[6] = r[2]
             /\ p[7] = a[1] /\ p[8] = a[2] /\ p[9] = a[3] /\ p[10] = a[4]
  <2>1. b[1] = t[1] /\ b[2] = t[2] /\ b[3] = t[3] /\ b[4] = t[4]
        /\ b[5] = r[1] /\ b[6] = r[2] /\ Len(b) = 6
    BY <1>1, <1>3
  <2>2. /\ p[1] = b[1] /\ p[2] = b[2] /\ p[3] = b[3] /\ p[4] = b[4]
        /\ p[5] = b[5] /\ p[6] = b[6] /\ Len(p) = 10
        /\ p[7] = a[1] /\ p[8] = a[2] /\ p[9] = a[3] /\ p[10] = a[4]
    BY <1>2, <1>3, <2>1
  <2>3. QED
    BY <2>1, <2>2
<1>4. QED
  BY <1>2, <1>3 DEF p, b

LEMMA PayloadDecodes ==
  ASSUME NEW timestamp, NEW range, NEW azimuth, azimuth \in Int,
         Packs(timestamp, range, azimuth)
  PROVE  LET p == MeasurementPayload(timestamp, range, azimuth)
         IN  /\ p \in Seq(Int) /\ Len(p) = 10
             /\ DecodeRadarMeasurement(p) =
                  [timestamp |-> timestamp, range |-> range, azimuth |-> azimuth]
<1>1. /\ timestamp \in Int /\ range \in Int
      /\ LONG \in Nat /\ LONG > 0
      /\ -LONG <= 2 * azimuth /\ 2 * azimuth < LONG
  BY WireNumbers DEF Packs, IsUint32, IsUint16, IsInt32
<1>2. TwosComplement(azimuth) \in Int /\ Signed(TwosComplement(azimuth)) = azimuth
  BY <1>1 DEF TwosComplement, Signed
<1> DEFINE I == Int
           t == Bytes4(timestamp)
           r == Bytes2(range)
           a == Bytes4(TwosComplement(azimuth))
           p == t \o r \o a
<1>3. t \in Seq(I) /\ Len(t) = 4 /\ r \in Seq(I) /\ Len(r) = 2
      /\ a \in Seq(I) /\ Len(a) = 4
  BY <1>1, <1>2, Bytes2Facts, Bytes4Facts
<1>4. /\ WORD * UInt16(t[1], t[2]) + UInt16(t[3], t[4]) = timestamp
      /\ UInt16(r[1], r[2]) = range
      /\ WORD * UInt16(a[1], a[2]) + UInt16(a[3], a[4]) = TwosComplement(azimuth)
  BY <1>1, <1>2, Bytes2Facts, Bytes4Facts
<1>5. p = MeasurementPayload(timestamp, range, azimuth)
  BY DEF MeasurementPayload
<1> HIDE DEF t, r, a, I
<1>6. /\ p \in Seq(I) /\ Len(p) = 10
      /\ p[1] = t[1] /\ p[2] = t[2] /\ p[3] = t[3] /\ p[4] = t[4]
      /\ p[5] = r[1] /\ p[6] = r[2]
      /\ p[7] = a[1] /\ p[8] = a[2] /\ p[9] = a[3] /\ p[10] = a[4]
  BY <1>3, PayloadJoins
<1> HIDE DEF p
<1>7. DecodeRadarMeasurement(p) =
        [timestamp |-> timestamp, range |-> range, azimuth |-> azimuth]
  BY <1>2, <1>4, <1>6 DEF DecodeRadarMeasurement
<1>8. QED
  BY <1>5, <1>6, <1>7 DEF I

LEMMA EncodedFrame ==
  ASSUME NEW type \in Int, NEW payload \in Seq(Int)
  PROVE  LET f    == EncodeFrame(type, payload)
             n    == Len(payload)
             body == <<n, type>> \o payload
         IN  /\ Len(f) = n + 5 /\ f /= <<>>
             /\ f[1] = STX /\ f[2] = n /\ TypeOf(f) = type
             /\ f[n + 4] = Crc(body) \div 256 /\ f[n + 5] = Crc(body) % 256
             /\ SubSeq(f, 2, n + 3) = body /\ PayloadBytes(f) = payload
<1> DEFINE body == <<Len(payload), type>> \o payload
           S == Int \union {STX, Crc(body) \div 256, Crc(body) % 256}
<1>1. payload \in Seq(S)
  BY SeqMonotonic
<1>2. type \in S /\ STX \in S /\ Len(payload) \in S
      /\ Crc(<<Len(payload), type>> \o payload) \div 256 \in S
      /\ Crc(<<Len(payload), type>> \o payload) % 256 \in S
  BY LenProperties
<1> HIDE DEF S
<1>3. QED
  BY <1>1, <1>2, FrameBytes

LEMMA RadarFrameFacts ==
  ASSUME NEW timestamp, NEW range, NEW azimuth, azimuth \in Int,
         Packs(timestamp, range, azimuth)
  PROVE  LET f == BuildRadarFrame(timestamp, range, azimuth)
             p == MeasurementPayload(timestamp, range, azimuth)
             body == <<10, TYPE_RADAR_MEAS>> \o p
         IN  /\ Len(f) = 15 /\ f /= <<>>
             /\ f[1] = STX /\ f[2] = 10 /\ TypeOf(f) = TYPE_RADAR_MEAS
             /\ f[14] = Crc(body) \div 256 /\ f[15] = Crc(body) % 256
             /\ SubSeq(f, 2, 13) = body /\ PayloadBytes(f) = p
<1> DEFINE p == MeasurementPayload(timestamp, range, azimuth)
           n == Len(p)
           f == EncodeFrame(TYPE_RADAR_MEAS, p)
           body == <<n, TYPE_RADAR_MEAS>> \o p
<1>1. f = BuildRadarFrame(timestamp, range, azimuth)
  BY DEF BuildRadarFrame, MeasurementPayload
<1>2. n = 10
  BY PayloadDecodes
<1>8. p \in Seq(Int)
  BY PayloadDecodes
<1>3. TYPE_RADAR_MEAS \in Int
  BY DEF TYPE_RADAR_MEAS
<1> HIDE DEF p
<1>4. /\ Len(f) = n + 5 /\ f /= <<>>
      /\ f[1] = STX /\ f[2] = n /\ TypeOf(f) = TYPE_RADAR_MEAS
      /\ f[n + 4] = Crc(body) \div 256 /\ f[n + 5] = Crc(body) % 256
      /\ SubSeq(f, 2, n + 3) = body /\ PayloadBytes(f) = p
  BY <1>3, <1>8, EncodedFrame
<1>5. n + 5 = 15 /\ n + 4 = 14 /\ n + 3 = 13
  BY <1>2
<1>9. body = <<10, TYPE_RADAR_MEAS>> \o p
  BY <1>2
<1> HIDE DEF f, body, n
<1>6. /\ Len(f) = 15 /\ f[2] = 10 /\ SubSeq(f, 2, 13) = body
      /\ f[14] = Crc(body) \div 256 /\ f[15] = Crc(body) % 256
  BY <1>2, <1>4, <1>5
<1>7. QED
  BY <1>1, <1>4, <1>6, <1>9 DEF p

LEMMA InitFrameFacts == BuildInitFrame /= <<>> /\ TypeOf(BuildInitFrame) = TYPE_INIT
<1> DEFINE p == <<0>>
<1>1. p \in Seq(Int) /\ TYPE_INIT \in Int
  BY TupleFacts DEF TYPE_INIT
<1>2. BuildInitFrame = EncodeFrame(TYPE_INIT, p)
  BY DEF BuildInitFrame
<1> HIDE DEF p
<1>3. QED
  BY <1>1, <1>2, EncodedFrame
----------------------------------------------------------------------------
(* What a board hears, for a frame `w` on the line.                        *)
HeardIn(w) ==
  CASE w = <<>> -> [type |-> "SILENCE", timestamp |-> 0]
    [] w /= <<>> /\ TypeOf(w) = TYPE_INIT -> [type |-> "INIT", timestamp |-> 0]
    [] w /= <<>> /\ TypeOf(w) /= TYPE_INIT ->
         [type |-> "MEAS",
          timestamp |-> DecodeRadarMeasurement(PayloadBytes(w)).timestamp]

LEMMA HeardFacts ==
  /\ HeardIn(<<>>) = [type |-> "SILENCE", timestamp |-> 0]
  /\ HeardIn(BuildInitFrame) = [type |-> "INIT", timestamp |-> 0]
  /\ \A timestamp, range : \A azimuth \in Int :
       Packs(timestamp, range, azimuth) =>
         /\ HeardIn(BuildRadarFrame(timestamp, range, azimuth))
              = [type |-> "MEAS", timestamp |-> timestamp]
         /\ timestamp \in 0 .. LONG - 1
<1>1. HeardIn(<<>>) = [type |-> "SILENCE", timestamp |-> 0]
  BY DEF HeardIn
<1>2. HeardIn(BuildInitFrame) = [type |-> "INIT", timestamp |-> 0]
  BY InitFrameFacts DEF HeardIn
<1>3. ASSUME NEW timestamp, NEW range, NEW azimuth \in Int,
             Packs(timestamp, range, azimuth)
      PROVE  /\ HeardIn(BuildRadarFrame(timestamp, range, azimuth))
                  = [type |-> "MEAS", timestamp |-> timestamp]
             /\ timestamp \in 0 .. LONG - 1
  <2> DEFINE f == BuildRadarFrame(timestamp, range, azimuth)
             p == MeasurementPayload(timestamp, range, azimuth)
  <2>1. f /= <<>> /\ TypeOf(f) = TYPE_RADAR_MEAS /\ PayloadBytes(f) = p
    BY <1>3, RadarFrameFacts
  <2>2. DecodeRadarMeasurement(p) =
          [timestamp |-> timestamp, range |-> range, azimuth |-> azimuth]
    BY <1>3, PayloadDecodes
  <2> HIDE DEF f, p
  <2>3. TYPE_RADAR_MEAS /= TYPE_INIT
    BY DEF TYPE_RADAR_MEAS, TYPE_INIT
  <2>4. HeardIn(f) = [type |-> "MEAS", timestamp |-> timestamp]
    BY <2>1, <2>2, <2>3 DEF HeardIn
  <2>5. QED
    BY <1>3, <2>4 DEF f, Packs, IsUint32
<1>4. QED
  BY <1>1, <1>2, <1>3

----------------------------------------------------------------------------
(* Angles.                                                                 *)

(* Reducing x to one turn of n, from -h up, keeps its direction.           *)
LEMMA TurnFacts ==
  ASSUME NEW x \in Int, NEW n \in Nat \ {0}, NEW h \in Int
  PROVE  \E k \in Int : ((x + h) % n) - h = x - n * k
<1>1. /\ (x + h) \div n \in Int /\ (x + h) % n \in Int
      /\ x + h = n * ((x + h) \div n) + ((x + h) % n)
  BY DivisionFacts
<1> DEFINE q == (x + h) \div n
           r == (x + h) % n
<1> HIDE DEF q, r
<1>2. q \in Int /\ r \in Int /\ x + h = n * q + r
  BY <1>1 DEF q, r
<1>3. r - h = x - n * q
  BY <1>2
<1>4. QED
  BY <1>2, <1>3 DEF r

LEMMA SemicirclesFacts ==
  ASSUME NEW angle \in Int
  PROVE  /\ Semicircles(angle) \in Int /\ IsInt32(Semicircles(angle))
         /\ SameDirection(PARTS * Semicircles(angle), angle)
<1> DEFINE turn == 2 * PI
           half == LONG \div 2
           wrapped == ((angle + PI) % turn) - PI
           u == Round(wrapped)
           s == ((u + half) % LONG) - half
<1>1. /\ PARTS \in Nat \ {0} /\ LONG \in Nat \ {0} /\ PI \in Nat
      /\ turn = PARTS * LONG /\ turn \in Nat \ {0}
  BY WireNumbers
<1>2. half \in Int /\ 2 * half <= LONG /\ LONG < 2 * half + 2
  BY <1>1
<1>3. s = Semicircles(angle)
  BY DEF Semicircles
<1> HIDE DEF turn
<1>4. PICK j \in Int : wrapped = angle - turn * j
  <2>1. turn \in Nat \ {0} /\ PI \in Int
    BY <1>1
  <2>2. \E k \in Int : ((angle + PI) % turn) - PI = angle - turn * k
    BY <2>1, TurnFacts
  <2>3. QED
    BY <2>2
<1>5. wrapped \in Int
  BY <1>1, <1>4
<1> HIDE DEF wrapped
<1>6. /\ u \in Int
      /\ 2 * PARTS * u <= 2 * wrapped + PARTS
      /\ 2 * wrapped <= 2 * PARTS * u + PARTS
  BY <1>5, RoundFacts
<1> HIDE DEF u, half
<1>7. PICK k \in Int : s = u - LONG * k
  BY <1>1, <1>2, <1>6, TurnFacts
<1>8. s \in Int /\ -half <= s /\ s < LONG - half
  <2> DEFINE v == u + half
  <2>3. v \in Int
    BY <1>2, <1>6
  <2> HIDE DEF v
  <2>4. v % LONG \in 0 .. LONG - 1
    BY <1>1, <2>3, DivisionFacts
  <2>1. (u + half) % LONG \in 0 .. LONG - 1
    BY <2>4 DEF v
  <2>2. QED
    BY <1>1, <1>2, <2>1
<1> HIDE DEF s
<1>9. IsInt32(s)
  BY <1>1, <1>2, <1>8 DEF IsInt32
<1> DEFINE e == PARTS * u - wrapped
<1>10. e \in Int /\ 2 * e <= PARTS /\ -PARTS <= 2 * e
  BY <1>1, <1>5, <1>6
<1>11. PARTS * s - angle = turn * (-(j + k)) + e
  <2>1. PARTS * s = PARTS * u - PARTS * (LONG * k)
    BY <1>1, <1>6, <1>7, <1>8
  <2>2. PARTS * (LONG * k) = turn * k
    BY <1>1
  <2>3. turn * (-(j + k)) = -(turn * j) - turn * k
    BY <1>1
  <2>4. QED
    BY <1>1, <1>4, <1>5, <1>6, <2>1, <2>2, <2>3
<1> HIDE DEF e
<1> DEFINE d == (PARTS * s - angle) % turn
<1>12. d = e % turn
  <2>1. turn \in Nat \ {0} /\ -(j + k) \in Int /\ e \in Int
    BY <1>1, <1>10
  <2>2. (turn * (-(j + k)) + e) % turn = e % turn
    BY <2>1, RemainderShifted
  <2>3. QED
    BY <1>11, <2>2
<1>13. PARTS <= turn
  BY <1>1
<1>14. d = IF e >= 0 THEN e ELSE turn + e
  <2>1. CASE e >= 0
    <3>1. e < turn
      BY <1>1, <1>10, <1>13, <2>1
    <3>2. (turn * 0 + e) % turn = e
      BY <1>1, <1>10, <2>1, <3>1, DivisionUnique
    <3>3. QED
      BY <1>1, <1>10, <1>12, <2>1, <3>2
  <2>2. CASE e < 0
    <3>1. 0 <= turn + e /\ turn + e < turn /\ turn + e \in Int
      BY <1>1, <1>10, <1>13, <2>2
    <3> DEFINE r == turn + e
    <3> HIDE DEF r
    <3>5. -1 \in Int /\ r \in Int /\ 0 <= r /\ r < turn /\ turn \in Nat \ {0}
      BY <1>1, <3>1 DEF r
    <3>6. (turn * (-1) + r) % turn = r
      BY <3>5, DivisionUnique
    <3>2. (turn * (-1) + (turn + e)) % turn = turn + e
      BY <3>6 DEF r
    <3>3. turn * (-1) + (turn + e) = e
      BY <1>1, <1>10
    <3>4. QED
      BY <1>10, <1>12, <2>2, <3>2, <3>3
  <2>3. QED
    BY <1>10, <2>1, <2>2
<1> HIDE DEF d
<1>15. 2 * d <= PARTS \/ 2 * (turn - d) <= PARTS
  BY <1>1, <1>10, <1>14
<1>16. SameDirection(PARTS * s, angle)
  BY <1>15 DEF SameDirection, d, turn
<1>17. QED
  BY <1>3, <1>8, <1>9, <1>16

LEMMA SameDirectionAsItself ==
  ASSUME NEW x \in Int
  PROVE  SameDirection(x, x)
<1>1. PARTS \in Nat \ {0} /\ 2 * PI \in Nat \ {0}
  BY WireNumbers
<1> DEFINE turn == 2 * PI
<1> HIDE DEF turn
<1>2. turn \in Nat \ {0}
  BY <1>1 DEF turn
<1>3. (turn * 0 + 0) % turn = 0
  BY <1>2, DivisionUnique
<1>4. turn * 0 + 0 = 0 /\ x - x = 0
  BY <1>2
<1>5. (x - x) % turn = 0
  BY <1>3, <1>4
<1>6. QED
  BY <1>1, <1>5 DEF SameDirection, turn

----------------------------------------------------------------------------
(* What a frame of a measurement says to the parser and the frame handler  *)
(* of the board.                                                           *)

(* The checksum of a sequence of bytes is a number of two bytes.  TLC      *)
(* cannot enumerate the sequences, so this is a hypothesis of the theorems *)
(* and not an ASSUME of FrameParser.                                       *)
CrcAssumption ==
  \A s \in Seq(Byte) : /\ Crc(s) \in Nat
                       /\ Crc(s) \div 256 \in Byte /\ Crc(s) % 256 \in Byte

LEMMA Bytes2AreBytes ==
  ASSUME NEW n \in 0 .. WORD - 1
  PROVE  Bytes2(n) \in Seq(Byte)
<1>1. n \in Int /\ BASE \in Nat \ {0} /\ WORD = BASE * BASE /\ n < WORD /\ n >= 0
  BY WireNumbers DEF WORD
<1> DEFINE q == n \div BASE
           r == n % BASE
<1>2. q \in Int /\ r \in 0 .. BASE - 1 /\ n = BASE * q + r
  BY <1>1, DivisionFacts
<1> HIDE DEF q, r
<1>3. q < BASE
  <2> SUFFICES ASSUME BASE <= q PROVE FALSE
    BY <1>1, <1>2
  <2>1. BASE * BASE <= BASE * q
    BY <1>1, <1>2, ProductMonotone
  <2>2. QED
    BY <1>1, <1>2, <2>1
<1>4. q >= 0
  <2> SUFFICES ASSUME q <= -1 PROVE FALSE
    BY <1>1, <1>2
  <2>1. BASE * q <= BASE * (-1)
    BY <1>1, <1>2, ProductMonotone
  <2>2. QED
    BY <1>1, <1>2, <2>1
<1>5. q \in Byte /\ r \in Byte
  BY <1>1, <1>2, <1>3, <1>4, WireAssumption
<1>6. QED
  BY <1>5, TupleFacts DEF Bytes2, q, r

LEMMA Bytes4AreBytes ==
  ASSUME NEW n \in 0 .. LONG - 1
  PROVE  Bytes4(n) \in Seq(Byte)
<1>1. n \in Int /\ WORD \in Nat \ {0} /\ LONG = WORD * WORD /\ n < LONG /\ n >= 0
  BY WireNumbers DEF LONG
<1> DEFINE q == n \div WORD
           r == n % WORD
<1>2. q \in Int /\ r \in 0 .. WORD - 1 /\ n = WORD * q + r
  BY <1>1, DivisionFacts
<1> HIDE DEF q, r
<1>3. q < WORD
  <2> SUFFICES ASSUME WORD <= q PROVE FALSE
    BY <1>1, <1>2
  <2>1. WORD * WORD <= WORD * q
    BY <1>1, <1>2, ProductMonotone
  <2>2. QED
    BY <1>1, <1>2, <2>1
<1>4. q >= 0
  <2> SUFFICES ASSUME q <= -1 PROVE FALSE
    BY <1>1, <1>2
  <2>1. WORD * q <= WORD * (-1)
    BY <1>1, <1>2, ProductMonotone
  <2>2. QED
    BY <1>1, <1>2, <2>1
<1>5. q \in 0 .. WORD - 1
  BY <1>1, <1>2, <1>3, <1>4
<1>6. Bytes2(q) \in Seq(Byte) /\ Bytes2(r) \in Seq(Byte)
  BY <1>2, <1>5, Bytes2AreBytes
<1>7. Bytes4(n) = Bytes2(q) \o Bytes2(r)
  BY DEF Bytes4, q, r
<1>8. QED
  BY <1>6, <1>7, ConcatProperties

LEMMA PayloadIsBytes ==
  ASSUME NEW timestamp, NEW range, NEW azimuth \in Int,
         Packs(timestamp, range, azimuth)
  PROVE  MeasurementPayload(timestamp, range, azimuth) \in Seq(Byte)
<1>1. LONG \in Nat /\ timestamp \in 0 .. LONG - 1 /\ range \in 0 .. WORD - 1
      /\ -LONG <= 2 * azimuth /\ 2 * azimuth < LONG
  BY WireNumbers DEF Packs, IsUint32, IsUint16, IsInt32
<1>2. TwosComplement(azimuth) \in 0 .. LONG - 1
  BY <1>1 DEF TwosComplement
<1>3. /\ Bytes4(timestamp) \in Seq(Byte) /\ Bytes2(range) \in Seq(Byte)
      /\ Bytes4(TwosComplement(azimuth)) \in Seq(Byte)
  BY <1>1, <1>2, Bytes2AreBytes, Bytes4AreBytes
<1>4. Bytes4(timestamp) \o Bytes2(range) \in Seq(Byte)
  BY <1>3, ConcatProperties
<1>5. QED
  BY <1>3, <1>4, ConcatProperties DEF MeasurementPayload

LEMMA BodyIsBytes ==
  ASSUME NEW timestamp, NEW range, NEW azimuth \in Int,
         Packs(timestamp, range, azimuth)
  PROVE  <<10, TYPE_RADAR_MEAS>> \o MeasurementPayload(timestamp, range, azimuth)
           \in Seq(Byte)
<1>1. 10 \in Byte /\ TYPE_RADAR_MEAS \in Byte
  BY WireAssumption DEF TYPE_RADAR_MEAS
<1>2. <<10, TYPE_RADAR_MEAS>> \in Seq(Byte)
  BY <1>1, TupleFacts
<1>3. MeasurementPayload(timestamp, range, azimuth) \in Seq(Byte)
  BY PayloadIsBytes
<1>4. QED
  BY <1>2, <1>3, ConcatProperties

LEMMA FrameIsBytes ==
  ASSUME CrcAssumption, NEW timestamp, NEW range, NEW azimuth \in Int,
         Packs(timestamp, range, azimuth)
  PROVE  BuildRadarFrame(timestamp, range, azimuth) \in Seq(Byte)
<1> DEFINE p == MeasurementPayload(timestamp, range, azimuth)
           body == <<10, TYPE_RADAR_MEAS>> \o p
           c == Crc(body)
<1>1. body \in Seq(Byte)
  BY BodyIsBytes
<1>2. c \div 256 \in Byte /\ c % 256 \in Byte
  BY <1>1 DEF CrcAssumption
<1>3. <<STX>> \in Seq(Byte) /\ <<c \div 256, c % 256>> \in Seq(Byte)
  <2> HIDE DEF c
  <2>1. QED
    BY <1>2, ParserAssumption, TupleFacts
<1>4. BuildRadarFrame(timestamp, range, azimuth) =
        <<STX>> \o body \o <<c \div 256, c % 256>>
  <2>1. Len(p) = 10
    BY PayloadDecodes
  <2>2. QED
    BY <2>1 DEF BuildRadarFrame, EncodeFrame, MeasurementPayload
<1> HIDE DEF body, c
<1>5. <<STX>> \o body \in Seq(Byte)
  BY <1>1, <1>3, ConcatProperties
<1>6. QED
  BY <1>3, <1>4, <1>5, ConcatProperties

(* Whatever numbers struct.pack takes, the frame made of them is one that  *)
(* the board's parser and validation accept and whose payload it decodes   *)
(* to the same numbers: no byte order, sign or length differs between      *)
(* protocol.py:46-56 and radar_message.c:20-43.                            *)
THEOREM FramesDecode ==
  ASSUME CrcAssumption, NEW timestamp, NEW range, NEW azimuth \in Int,
         Packs(timestamp, range, azimuth), range /= 0
  PROVE  LET f == BuildRadarFrame(timestamp, range, azimuth)
         IN  /\ AcceptedMeasurement(f)
             /\ DecodeRadarMeasurement(PayloadBytes(f)) =
                  [timestamp |-> timestamp, range |-> range, azimuth |-> azimuth]
<1> DEFINE f == BuildRadarFrame(timestamp, range, azimuth)
           p == MeasurementPayload(timestamp, range, azimuth)
           body == <<10, TYPE_RADAR_MEAS>> \o p
           m == [timestamp |-> timestamp, range |-> range, azimuth |-> azimuth]
<1>1. /\ Len(f) = 15 /\ f /= <<>>
      /\ f[1] = STX /\ f[2] = 10 /\ TypeOf(f) = TYPE_RADAR_MEAS
      /\ f[14] = Crc(body) \div 256 /\ f[15] = Crc(body) % 256
      /\ SubSeq(f, 2, 13) = body /\ PayloadBytes(f) = p
  BY RadarFrameFacts
<1>2. Len(p) = 10 /\ DecodeRadarMeasurement(p) = m
  BY PayloadDecodes
<1>3. body \in Seq(Byte)
  BY BodyIsBytes
<1> DEFINE c == Crc(body)
<1>4. c \in Nat
  BY <1>3 DEF CrcAssumption
<1> HIDE DEF f, p, body
<1>5. c = 256 * f[14] + f[15]
  <2> HIDE DEF c
  <2>1. c = 256 * (c \div 256) + (c % 256)
    BY <1>4, DivisionFacts
  <2>2. f[14] = c \div 256 /\ f[15] = c % 256
    BY <1>1 DEF c
  <2>3. QED
    BY <2>1, <2>2
<1>6. ValidFrame(f)
  <2>1. FramePrefix(f) /\ Complete(f)
    BY <1>1, WireAssumption, ParserAssumption DEF FramePrefix, Complete
  <2>2. Len(f) - 2 = 13 /\ Len(f) - 1 = 14
    BY <1>1
  <2>3. QED
    BY <1>1, <1>5, <2>1, <2>2 DEF ValidFrame
<1>7. ValidateRadarMeasurement(m)
  <2>1. LONG \in Nat /\ -LONG <= 2 * azimuth /\ 2 * azimuth < LONG
    BY WireNumbers DEF Packs, IsInt32
  <2>2. QED
    BY <2>1 DEF ValidateRadarMeasurement
<1>8. AcceptedMeasurement(f)
  BY <1>1, <1>2, <1>6, <1>7 DEF AcceptedMeasurement, DecodesLength
<1>9. QED
  BY <1>1, <1>2, <1>8 DEF f
----------------------------------------------------------------------------
(* Options and timestamps.                                                 *)

LEMMA ReadingFacts ==
  ASSUME NEW r \in Readings
  PROVE  r \in Reading /\ Clamped(r) \in Reading
BY SenderAssumption DEF Reading, Clamped

LEMMA OptionFacts ==
  ASSUME NEW o \in Options
  PROVE  /\ o.program \in Programs /\ o.port \in BOOLEAN /\ o.period \in Int
         /\ o.total \in Int /\ o.azimuth \in Int
         /\ o.scenario \in DOMAIN ScenarioSize
BY SenderAssumption DEF OptionRecord

LEMMA TakenFacts ==
  ASSUME NEW o \in Options, Takes(o)
  PROVE  /\ o.period \in Nat /\ o.period > 0
         /\ o.total \in Nat
         /\ o.program = "radar_sender" => IsInt32(o.azimuth)
         /\ o.program = "run_sim" => /\ o.period >= PARTS
                                     /\ o.total <= (LONG - 1) * PARTS
                                     /\ o.port => ScenarioSize[o.scenario] = 1
                                                  /\ ~o.clutter
         /\ o.program = "gui_worker" => /\ o.period >= 2 * PARTS
                                        /\ o.total <= (LONG - 1) * PARTS
<1>1. /\ o.program \in Programs /\ o.period \in Int /\ o.total \in Int
  BY OptionFacts
<1>2. /\ PARTS \in Nat /\ PARTS > 0 /\ MIN_GUI_PERIOD \in Nat
      /\ MIN_GUI_PERIOD >= 2 * PARTS /\ MAX_GUI_DURATION \in Nat
      /\ MAX_GUI_DURATION <= (LONG - 1) * PARTS
  BY WireNumbers, SenderAssumption
<1>3. (LONG - 1) * PARTS \in Int
  BY WireNumbers
<1> DEFINE limit == (LONG - 1) * PARTS
<1> HIDE DEF limit
<1>4. MAX_GUI_DURATION <= limit /\ limit \in Int
  BY <1>2, <1>3 DEF limit
<1>5. CASE o.program = "radar_sender"
  BY <1>1, <1>5 DEF Takes, RadarSenderTakes
<1>6. CASE o.program = "run_sim"
  <2>1. RunSimTakes(o)
    BY <1>6 DEF Takes
  <2>2. QED
    BY <1>1, <1>2, <1>6, <2>1 DEF RunSimTakes
<1>7. CASE o.program = "gui_worker"
  <2>1. GuiWorkerTakes(o)
    BY <1>7 DEF Takes
  <2>2. /\ MIN_GUI_PERIOD <= o.period /\ 0 < o.total
        /\ o.total <= MAX_GUI_DURATION
    BY <2>1 DEF GuiWorkerTakes
  <2>3. o.total <= limit
    BY <1>1, <1>2, <1>4, <2>2
  <2>4. QED
    BY <1>1, <1>2, <1>7, <2>2, <2>3 DEF limit
<1>8. QED
  BY <1>1, <1>5, <1>6, <1>7 DEF Programs

LEMMA FloorFacts ==
  ASSUME NEW x \in Int
  PROVE  x \div PARTS \in Int /\ 2 * PARTS * (x \div PARTS) <= 2 * x + PARTS
<1>1. PARTS \in Nat \ {0}
  BY WireNumbers
<1> DEFINE q == x \div PARTS
           r == x % PARTS
<1>2. q \in Int /\ r \in 0 .. PARTS - 1 /\ x = PARTS * q + r
  BY <1>1, DivisionFacts
<1> HIDE DEF q, r
<1>3. 2 * PARTS * q = 2 * (PARTS * q) /\ PARTS * q \in Int
  BY <1>1, <1>2
<1>4. 2 * PARTS * q <= 2 * x + PARTS
  BY <1>1, <1>2, <1>3
<1>5. QED
  BY <1>2, <1>4 DEF q

LEMMA FloorMonotone ==
  ASSUME NEW x \in Int, NEW y \in Int
  PROVE  /\ x <= y => x \div PARTS <= y \div PARTS
         /\ x + PARTS <= y => x \div PARTS < y \div PARTS
<1>1. PARTS \in Nat \ {0}
  BY WireNumbers
<1> DEFINE q == x \div PARTS
           r == x % PARTS
           u == y \div PARTS
           v == y % PARTS
<1>2. /\ q \in Int /\ r \in 0 .. PARTS - 1 /\ x = PARTS * q + r
      /\ u \in Int /\ v \in 0 .. PARTS - 1 /\ y = PARTS * u + v
  BY <1>1, DivisionFacts
<1> HIDE DEF q, r, u, v
<1>3. ASSUME x <= y PROVE q <= u
  <2> SUFFICES ASSUME u + 1 <= q PROVE FALSE
    BY <1>2
  <2>1. PARTS * (u + 1) <= PARTS * q /\ PARTS * (u + 1) = PARTS * u + PARTS
    BY <1>1, <1>2, ProductMonotone
  <2>2. QED
    BY <1>1, <1>2, <1>3, <2>1
<1>4. ASSUME x + PARTS <= y PROVE q < u
  <2> SUFFICES ASSUME u <= q PROVE FALSE
    BY <1>2
  <2>1. PARTS * u <= PARTS * q /\ PARTS * u \in Int /\ PARTS * q \in Int
    BY <1>1, <1>2, ProductMonotone
  <2>2. QED
    BY <1>1, <1>2, <1>4, <2>1
<1>5. QED
  BY <1>3, <1>4 DEF q, u

(* However the products fall, a truncated time is not ahead of the time,   *)
LEMMA TruncationFacts ==
  ASSUME NEW x \in Nat, NEW s \in Truncations(x)
  PROVE  /\ s \in Int /\ 2 * PARTS * s <= 2 * x + PARTS
         /\ s <= x \div PARTS
         /\ x > 0 => s >= (x - 1) \div PARTS
<1>1. PARTS \in Nat \ {0} /\ x - 1 \in Int
  BY WireNumbers
<1>2. CASE x = 0
  <2>1. (PARTS * 0 + 0) \div PARTS = 0 /\ PARTS * 0 + 0 = 0
    BY <1>1, DivisionUnique
  <2>2. s = 0
    BY <1>2 DEF Truncations
  <2>3. QED
    BY <1>1, <1>2, <2>1, <2>2
<1>3. CASE x > 0
  <2> DEFINE q == x \div PARTS
             u == (x - 1) \div PARTS
  <2>1. /\ q \in Int /\ 2 * PARTS * q <= 2 * x + PARTS
        /\ u \in Int /\ 2 * PARTS * u <= 2 * (x - 1) + PARTS
        /\ u <= q
    <3>1. q \in Int /\ 2 * PARTS * q <= 2 * x + PARTS
      BY FloorFacts
    <3>2. u \in Int /\ 2 * PARTS * u <= 2 * (x - 1) + PARTS
      BY <1>1, FloorFacts
    <3>3. x - 1 <= x
      OBVIOUS
    <3>4. u <= q
      BY <1>1, <3>3, FloorMonotone
    <3>5. QED
      BY <3>1, <3>2, <3>4
  <2>2. s = q \/ s = u
    BY <1>3 DEF Truncations
  <2> HIDE DEF q, u
  <2>3. 2 * PARTS * u \in Int
    BY <1>1, <2>1
  <2>4. 2 * PARTS * u <= 2 * x + PARTS
    BY <1>1, <2>1, <2>3
  <2>5. s \in Int /\ 2 * PARTS * s <= 2 * x + PARTS /\ s <= q /\ s >= u
    BY <2>1, <2>2, <2>4
  <2>6. QED
    BY <2>5 DEF q, u
<1>4. QED
  BY <1>2, <1>3

(* it does not go back, and it advances with more than a millisecond.      *)
LEMMA TruncationsAdvance ==
  ASSUME NEW x \in Nat, NEW y \in Nat, x < y,
         NEW s \in Truncations(x), NEW t \in Truncations(y)
  PROVE  /\ s <= t
         /\ x + PARTS < y => s < t
<1>1. PARTS \in Nat \ {0} /\ y > 0 /\ y - 1 \in Int
  BY WireNumbers
<1> DEFINE q == x \div PARTS
           u == (y - 1) \div PARTS
<1>2. s \in Int /\ t \in Int /\ s <= q /\ t >= u
  BY <1>1, TruncationFacts
<1>3. /\ q \in Int /\ u \in Int
      /\ x <= y - 1 => q <= u
      /\ x + PARTS <= y - 1 => q < u
  <2>1. q \in Int /\ u \in Int
    BY <1>1, FloorFacts
  <2>2. /\ x <= y - 1 => q <= u
        /\ x + PARTS <= y - 1 => q < u
    BY <1>1, FloorMonotone
  <2>3. QED
    BY <2>1, <2>2
<1> HIDE DEF q, u
<1>4. QED
  BY <1>1, <1>2, <1>3

(* A time within the limit on durations has a timestamp that packs.        *)
LEMMA RoundedFits ==
  ASSUME NEW x \in Nat, x <= (LONG - 1) * PARTS
  PROVE  IsUint32(Round(x))
<1>1. PARTS \in Nat \ {0} /\ LONG \in Nat /\ LONG > 0
  BY WireNumbers
<1>2. Round(PARTS * 0) = 0 /\ Round(PARTS * (LONG - 1)) = LONG - 1
  BY <1>1, RoundWhole
<1>3. PARTS * 0 = 0 /\ PARTS * (LONG - 1) = (LONG - 1) * PARTS
      /\ (LONG - 1) * PARTS \in Int
  BY <1>1
<1> DEFINE limit == (LONG - 1) * PARTS
<1>4. limit \in Int /\ x <= limit /\ Round(limit) = LONG - 1 /\ Round(0) = 0
  BY <1>2, <1>3
<1> HIDE DEF limit
<1>5. Round(0) <= Round(x) /\ Round(x) <= Round(limit) /\ Round(x) \in Int
  BY <1>4, RoundMonotone, RoundFacts
<1>6. QED
  BY <1>1, <1>4, <1>5 DEF IsUint32

(* The k-th measurement or scan of a command line program: when it is due, *)
(* and its timestamp.                                                      *)
LEMMA ProductFacts ==
  ASSUME NEW k \in Nat, NEW p \in Nat
  PROVE  k * p \in Nat /\ (k + 1) * p = k * p + p
OBVIOUS

LEMMA RunPeriod ==
  ASSUME options \in Options, Takes(options), NEW k \in Nat
  PROVE  /\ options.program \in Programs
         /\ options.period \in Nat /\ options.period > 0
         /\ Is("run_sim") => options.period >= PARTS
         /\ k * options.period \in Nat
         /\ (k + 1) * options.period = k * options.period + options.period
BY TakenFacts, OptionFacts, ProductFacts DEF Is

LEMMA StampFacts ==
  ASSUME options \in Options, Takes(options), NEW k \in Nat,
         NEW s \in StampsOf(k)
  PROVE  s \in Int /\ 2 * PARTS * s <= 2 * (k * options.period) + PARTS
<1> DEFINE x == k * options.period
<1>1. x \in Nat
  BY RunPeriod
<1>2. CASE Is("radar_sender")
  <2>1. s \in Truncations(x)
    BY <1>2 DEF StampsOf
  <2> HIDE DEF x
  <2>2. s \in Int /\ 2 * PARTS * s <= 2 * x + PARTS
    BY <1>1, <2>1, TruncationFacts
  <2>3. QED
    BY <2>2 DEF x
<1>3. CASE ~Is("radar_sender")
  <2>1. s = Round(x)
    BY <1>3 DEF StampsOf
  <2> HIDE DEF x
  <2>2. s \in Int /\ 2 * PARTS * s <= 2 * x + PARTS
    BY <1>1, <2>1, RoundFacts
  <2>3. QED
    BY <2>2 DEF x
<1>4. QED
  BY <1>2, <1>3

LEMMA StampsAdvance ==
  ASSUME options \in Options, Takes(options), NEW k \in Nat, ~Is("gui_worker"),
         NEW s \in StampsOf(k), NEW t \in StampsOf(k + 1)
  PROVE  Advances(s, t)
<1> DEFINE p == options.period
           x == k * p
           y == (k + 1) * p
<1>1. /\ p \in Nat /\ p > 0 /\ PARTS \in Nat /\ PARTS > 0
      /\ (Is("run_sim") => p >= PARTS) /\ options.program \in Programs
      /\ x \in Nat /\ y = x + p
  BY RunPeriod, WireNumbers
<1>2. y \in Nat /\ x < y
  BY <1>1
<1>3. CASE Is("radar_sender")
  <2>1. s \in Truncations(x) /\ t \in Truncations(y)
    BY <1>3 DEF StampsOf
  <2> HIDE DEF x, y
  <2>2. s \in Int /\ t \in Int /\ s <= t /\ (x + PARTS < y => s < t)
    BY <1>1, <1>2, <2>1, TruncationFacts, TruncationsAdvance
  <2>3. p > PARTS => x + PARTS < y
    BY <1>1
  <2>4. QED
    BY <2>2, <2>3, <1>3 DEF Advances
<1>4. CASE ~Is("radar_sender")
  <2>1. s = Round(x) /\ t = Round(y)
    BY <1>4 DEF StampsOf
  <2>2. CASE p = PARTS
    <3>1. x = PARTS * k /\ y = PARTS * (k + 1)
      BY <1>1, <2>2
    <3>2. Round(x) = k /\ Round(y) = k + 1
      BY <3>1, RoundWhole
    <3>3. QED
      BY <2>1, <3>2 DEF Advances
  <2>3. CASE p > PARTS
    <3> HIDE DEF x, y
    <3>1. x + PARTS < y
      BY <1>1, <2>3
    <3>2. Round(x) \in Int /\ Round(y) \in Int
      BY <1>1, <1>2, RoundFacts
    <3>3. Round(x) < Round(y)
      BY <1>1, <1>2, <3>1, RoundMonotone
    <3>4. QED
      BY <2>1, <3>2, <3>3 DEF Advances
  <2>4. QED
    BY <1>1, <1>4, <2>2, <2>3 DEF Is, Programs
<1>5. QED
  BY <1>3, <1>4

LEMMA AdvancesTransitive ==
  ASSUME NEW a \in Int, NEW b \in Int, NEW c \in Int,
         Advances(a, b), Advances(b, c)
  PROVE  Advances(a, c)
BY DEF Advances
----------------------------------------------------------------------------
(* What the steps that make, send and write a frame do.                    *)

LEMMA HeardKept ==
  ASSUME wire' = wire
  PROVE  Heard' = Heard /\ (HasSent' <=> HasSent)
BY DEF Heard, HasSent

(* Only SendInit and Write touch the port.                                 *)
LEMMA PortKept ==
  ASSUME Next, ~SendInit, ~Write
  PROVE  /\ wire' = wire /\ lastWrite' = lastWrite
         /\ Heard' = Heard /\ (HasSent' <=> HasSent)
         /\ ~Begin => started' = started
<1>1. wire' = wire /\ lastWrite' = lastWrite /\ (~Begin => started' = started)
  BY DEF Next, Check, Begin, WriteFails, RadarSenderEnds, RadarSenderMeasures,
         RadarSenderSleeps, RunSimEnds, RunSimMeasures, RunSimSends,
         RunSimGoesOn, RunSimSleeps, GuiWorkerEnds, GuiWorkerMeasures,
         GuiWorkerGoesOn, Wake, Tick, portState
<1>2. QED
  BY <1>1, HeardKept

LEMMA SendMakes ==
  ASSUME options' = options, measured \in Reading,
         NEW reading \in Reading, NEW azimuth,
         Send(reading, stamp', azimuth),
         RangeIsRepresentable(reading.range),
         Is("radar_sender") => reading.azimuth = PARTS * options.azimuth,
         azimuth = IF Is("radar_sender") THEN options.azimuth
                                         ELSE Semicircles(reading.azimuth)
  PROVE  /\ measured' \in Reading /\ MadeInv' /\ at' \in {"send", "crashed"}
         /\ at' = "crashed" => ~Packs(stamp', Round(reading.range), azimuth)
<1>1. CASE Packs(stamp', Round(reading.range), azimuth)
  <2>1. /\ measured' = reading /\ at' = "send"
        /\ frame' = BuildRadarFrame(stamp', Round(reading.range), azimuth)
    BY <1>1 DEF Send
  <2>2. SentAzimuth' = azimuth
    BY <2>1 DEF SentAzimuth, Is
  <2>3. MadeInv'
    BY <1>1, <2>1, <2>2 DEF MadeInv, Is
  <2>4. QED
    BY <2>1, <2>3
<1>2. CASE ~Packs(stamp', Round(reading.range), azimuth)
  <2>1. at' = "crashed" /\ measured' = measured
    BY <1>2 DEF Send
  <2>2. QED
    BY <1>2, <2>1 DEF MadeInv
<1>3. QED
  BY <1>1, <1>2

LEMMA RadarSenderMakes ==
  ASSUME IInv, RadarSenderMeasures
  PROVE  /\ measured' \in Reading /\ MadeInv'
         /\ at' \in {"send", "crashed", "refused"}
         /\ stamp' \in StampsOf(step) /\ Remains
<1>1. /\ options \in Options /\ options' = options /\ measured \in Reading
      /\ Is("radar_sender") /\ step < options.total
      /\ stamp' \in Truncations(step * options.period)
  BY DEF IInv, SenderTypeOK, RadarSenderMeasures
<1>2. stamp' \in StampsOf(step) /\ Remains
  BY <1>1 DEF StampsOf, Remains
<1>3. PICK r \in Readings :
        IF RangeIsRepresentable(r.range)
          THEN Send([range |-> r.range, azimuth |-> PARTS * options.azimuth],
                    stamp', options.azimuth)
          ELSE at' = "refused" /\ UNCHANGED <<measured, frame>>
  BY DEF RadarSenderMeasures
<1>4. CASE RangeIsRepresentable(r.range)
  <2> DEFINE reading == [range |-> r.range, azimuth |-> PARTS * options.azimuth]
  <2>1. reading \in Reading
    <3>1. r.range \in Int /\ options.azimuth \in Int /\ PARTS \in Int
      BY <1>1, ReadingFacts, OptionFacts, WireNumbers DEF Reading
    <3>2. PARTS * options.azimuth \in Int
      BY <3>1
    <3>3. QED
      BY <3>1, <3>2 DEF Reading
  <2>2. /\ RangeIsRepresentable(reading.range)
        /\ reading.azimuth = PARTS * options.azimuth
        /\ Send(reading, stamp', options.azimuth)
    BY <1>3, <1>4
  <2> HIDE DEF reading
  <2>3. measured' \in Reading /\ MadeInv' /\ at' \in {"send", "crashed"}
    BY <1>1, <2>1, <2>2, SendMakes
  <2>4. QED
    BY <1>2, <2>3
<1>5. CASE ~RangeIsRepresentable(r.range)
  <2>1. at' = "refused" /\ measured' = measured
    BY <1>3, <1>5
  <2>2. QED
    BY <1>1, <1>2, <2>1 DEF MadeInv
<1>6. QED
  BY <1>4, <1>5

(* The two others never give struct.pack a number that it does not take.   *)
LEMMA RadiansMake ==
  ASSUME options' = options, measured \in Reading, ~Is("radar_sender"),
         NEW reading \in Reading, RangeIsRepresentable(reading.range),
         IsUint32(stamp'), SendFromRadians(reading, stamp')
  PROVE  measured' \in Reading /\ MadeInv' /\ at' = "send"
<1>1. reading.azimuth \in Int
  BY DEF Reading
<1>2. IsInt32(Semicircles(reading.azimuth))
  BY <1>1, SemicirclesFacts
<1>3. IsUint16(Round(reading.range))
  BY WireNumbers DEF RangeIsRepresentable, IsUint16
<1>4. Packs(stamp', Round(reading.range), Semicircles(reading.azimuth))
  BY <1>2, <1>3 DEF Packs
<1>5. Send(reading, stamp', Semicircles(reading.azimuth))
  BY DEF SendFromRadians
<1>6. QED
  BY <1>4, <1>5, SendMakes

LEMMA RunSimMakes ==
  ASSUME IInv, RunSimSends
  PROVE  /\ measured' \in Reading /\ MadeInv'
         /\ at' \in {"send", "scan"} /\ stamp' = stamp
<1>1. /\ options \in Options /\ options' = options /\ measured \in Reading
      /\ Is("run_sim") /\ ~Is("radar_sender") /\ ~Is("gui_worker")
      /\ at = "scan"
      /\ scan \in Seq({Clamped(r) : r \in Readings}) /\ scan /= <<>>
      /\ step \in Nat /\ stamp' = stamp /\ Takes(options)
  BY DEF IInv, SenderTypeOK, PlaceInv, Running, RunSimSends, Is
<1>2. Head(scan) \in Reading
  <2>1. Head(scan) \in {Clamped(r) : r \in Readings}
    BY <1>1, HeadTailProperties
  <2>2. QED
    BY <2>1, ReadingFacts
<1>3. IsUint32(stamp')
  <2> DEFINE x == step * options.period
             limit == (LONG - 1) * PARTS
  <2>1. x < options.total /\ stamp = Round(x)
    BY <1>1 DEF IInv, ScheduleInv, Remains, StampsOf
  <2>2. /\ options.period \in Nat /\ options.total \in Nat
        /\ options.total <= limit
    BY <1>1, TakenFacts DEF Is
  <2>3. limit \in Int
    BY WireNumbers
  <2>4. x \in Nat
    BY <1>1, <2>2, ProductFacts
  <2> HIDE DEF x, limit
  <2>5. x \in Nat /\ x <= limit
    BY <2>1, <2>2, <2>3, <2>4
  <2>6. QED
    BY <1>1, <2>1, <2>5, RoundedFits DEF limit
<1>4. CASE RangeIsRepresentable(Head(scan).range)
  <2>1. SendFromRadians(Head(scan), stamp')
    BY <1>1, <1>4 DEF RunSimSends
  <2>2. QED
    BY <1>1, <1>2, <1>3, <1>4, <2>1, RadiansMake
<1>5. CASE ~RangeIsRepresentable(Head(scan).range)
  BY <1>1, <1>5 DEF RunSimSends, MadeInv
<1>6. QED
  BY <1>4, <1>5

LEMMA GuiWorkerMakes ==
  ASSUME IInv, GuiWorkerMeasures
  PROVE  /\ measured' \in Reading /\ MadeInv'
         /\ at' \in {"send", "refused"} /\ stamp' = Round(now - started)
<1>1. /\ options \in Options /\ options' = options /\ measured \in Reading
      /\ Is("gui_worker") /\ ~Is("radar_sender") /\ at = "wait"
      /\ now \in Nat /\ started \in 0 .. now /\ now - started < options.total
      /\ stamp' = Round(now - started) /\ Takes(options)
  BY DEF IInv, SenderTypeOK, PlaceInv, Running, GuiWorkerMeasures, Is
<1>2. IsUint32(stamp')
  <2> DEFINE x == now - started
             limit == (LONG - 1) * PARTS
  <2>1. options.total \in Nat /\ options.total <= limit
    BY <1>1, TakenFacts DEF Is
  <2>2. limit \in Int
    BY WireNumbers
  <2>3. x \in Nat /\ x < options.total /\ stamp' = Round(x)
    BY <1>1
  <2> HIDE DEF x, limit
  <2>4. x <= limit
    BY <2>1, <2>2, <2>3
  <2>5. QED
    BY <2>3, <2>4, RoundedFits DEF limit
<1>3. MakeSample(stamp')
  BY DEF GuiWorkerMeasures
<1>4. CASE at' = "refused" /\ UNCHANGED <<measured, frame>>
  BY <1>1, <1>4 DEF MadeInv
<1>5. CASE \E r \in {s \in Readings : RangeIsRepresentable(s.range)} :
             SendFromRadians([range |-> r.range, azimuth |-> options.azimuth],
                             stamp')
  <2>1. PICK r \in {s \in Readings : RangeIsRepresentable(s.range)} :
             SendFromRadians([range |-> r.range, azimuth |-> options.azimuth],
                             stamp')
    BY <1>5
  <2> DEFINE reading == [range |-> r.range, azimuth |-> options.azimuth]
  <2>2. r.range \in Int /\ options.azimuth \in Int
    BY <1>1, <2>1, ReadingFacts, OptionFacts DEF Reading
  <2>3. /\ reading \in Reading /\ RangeIsRepresentable(reading.range)
        /\ SendFromRadians(reading, stamp')
    BY <2>1, <2>2 DEF Reading
  <2> HIDE DEF reading
  <2>4. QED
    BY <1>1, <1>2, <2>3, RadiansMake
<1>6. QED
  BY <1>3, <1>4, <1>5 DEF MakeSample

LEMMA SendInitHears ==
  ASSUME IInv, SendInit
  PROVE  /\ Heard = ToldTo!Silence
         /\ Heard' = IF options.port THEN ToldTo!Init ELSE ToldTo!Silence
<1>1. Heard = ToldTo!Silence
  BY DEF IInv, LineInv, SendInit
<1>2. CASE options.port
  <2>1. wire' = BuildInitFrame
    BY <1>2 DEF SendInit
  <2>2. Heard' = HeardIn(wire')
    BY DEF Heard, HeardIn
  <2>3. QED
    BY <1>1, <1>2, <2>1, <2>2, HeardFacts DEF ToldTo!Init
<1>3. CASE ~options.port
  BY <1>1, <1>3, HeardKept DEF SendInit
<1>4. QED
  BY <1>2, <1>3

LEMMA WriteHears ==
  ASSUME IInv, Write
  PROVE  /\ options.port =>
              /\ Heard' = [type |-> "MEAS", timestamp |-> stamp]
              /\ stamp \in 0 .. LONG - 1
         /\ ~options.port => Heard' = Heard /\ Heard = ToldTo!Silence
<1>1. CASE options.port
  <2>1. /\ wire' = frame
        /\ Packs(stamp, Round(measured.range), SentAzimuth)
        /\ frame = BuildRadarFrame(stamp, Round(measured.range), SentAzimuth)
    BY <1>1 DEF Write, IInv, MadeInv
  <2>2. SentAzimuth \in Int
    <3>1. options.azimuth \in Int /\ measured.azimuth \in Int
      BY OptionFacts DEF IInv, SenderTypeOK, Reading
    <3>2. QED
      BY <3>1, SemicirclesFacts DEF SentAzimuth
  <2>3. Heard' = HeardIn(wire')
    BY DEF Heard, HeardIn
  <2>4. QED
    BY <1>1, <2>1, <2>2, <2>3, HeardFacts
<1>2. CASE ~options.port
  BY <1>2, HeardKept DEF Write, IInv, LineInv
<1>3. QED
  BY <1>1, <1>2
----------------------------------------------------------------------------
(* The invariant holds at the start, and every step keeps each of its      *)
(* parts.                                                                  *)

LEMMA SendersStart == Init => IInv
<1> SUFFICES ASSUME Init PROVE IInv
  OBVIOUS
<1>1. Heard = ToldTo!Silence /\ ~HasSent
  BY DEF Init, Heard, HasSent, ToldTo!Silence
<1>2. SenderTypeOK
  <2>1. scan \in Seq({Clamped(r) : r \in Readings})
    BY EmptySeq DEF Init
  <2>2. measured \in Reading
    BY DEF Init, NoReading, Reading
  <2>3. QED
    BY <2>1, <2>2 DEF Init, SenderTypeOK, Waiting
<1>3. PlaceInv /\ MadeInv
  BY DEF Init, PlaceInv, MadeInv, FramesPack, Waiting, Running
<1>4. LineInv
  BY <1>1 DEF Init, LineInv, Running
<1>5. ScanInv
  BY DEF Init, ScanInv
<1>6. ScheduleInv /\ AheadInv
  BY DEF Init, ScheduleInv, AheadInv, Running
<1>7. NeverAhead /\ AdvanceInv /\ PaceInv
  BY <1>1 DEF NeverAhead, AdvanceInv, PaceInv, HasSent
<1>8. QED
  BY <1>2, <1>3, <1>4, <1>5, <1>6, <1>7 DEF IInv

LEMMA RunFacts ==
  ASSUME IInv, Next
  PROVE  /\ options' = options /\ options \in Options
         /\ options.program \in Programs
         /\ at \in Running \union {"init", "begin"} =>
              /\ Takes(options)
              /\ options.period \in Nat /\ options.period > 0
              /\ Is("gui_worker") => options.period >= 2 * PARTS
<1>1. options' = options
  BY DEF Next, Check, SendInit, Begin, Write, WriteFails,
         RadarSenderEnds, RadarSenderMeasures, RadarSenderSleeps,
         RunSimEnds, RunSimMeasures, RunSimSends, RunSimGoesOn, RunSimSleeps,
         GuiWorkerEnds, GuiWorkerMeasures, GuiWorkerGoesOn, Wake, Tick
<1>2. options \in Options
  BY DEF IInv, SenderTypeOK
<1>3. ASSUME at \in Running \union {"init", "begin"} PROVE Takes(options)
  BY <1>3 DEF IInv, PlaceInv
<1>4. QED
  BY <1>1, <1>2, <1>3, OptionFacts, TakenFacts DEF Is

LEMMA TypeStep ==
  ASSUME IInv, Next
  PROVE  SenderTypeOK'
<1>1. /\ options \in Options /\ options' = options
      /\ at \in Waiting \union Running \union Ends
      /\ now \in Nat /\ started \in 0 .. now /\ lastWrite \in 0 .. now
      /\ due \in Nat /\ step \in Nat /\ stamp \in Int
      /\ scan \in Seq({Clamped(r) : r \in Readings})
      /\ measured \in Reading
  BY RunFacts DEF IInv, SenderTypeOK
<1>2. at \in Running => options.period \in Nat
  BY RunFacts
<1> USE DEF SenderTypeOK
<1>3. CASE Check \/ SendInit \/ Begin \/ Write \/ WriteFails \/ Wake \/ Tick
  BY <1>1, <1>3
  DEF Check, SendInit, Begin, Write, WriteFails, Wake, Tick, Waiting, Running,
      Ends, dataState, portState
<1>4. CASE RadarSenderEnds \/ RunSimEnds \/ RunSimGoesOn \/ GuiWorkerEnds
  BY <1>1, <1>4
  DEF RadarSenderEnds, RunSimEnds, RunSimGoesOn, GuiWorkerEnds, Running, Ends,
      dataState, portState
<1>5. CASE RadarSenderMeasures
  <2>1. step * options.period \in Nat
    BY <1>1, <1>2, <1>5, ProductFacts DEF RadarSenderMeasures, Running
  <2>2. stamp' \in Int
    BY <1>5, <2>1, TruncationFacts DEF RadarSenderMeasures
  <2>3. measured' \in Reading /\ at' \in {"send", "crashed", "refused"}
    BY <1>5, RadarSenderMakes
  <2>4. QED
    BY <1>1, <1>5, <2>2, <2>3 DEF RadarSenderMeasures, Running, Ends, portState
<1>6. CASE RadarSenderSleeps
  <2>1. now + options.period \in Nat
    BY <1>1, <1>2, <1>6 DEF RadarSenderSleeps, Running
  <2>2. QED
    BY <1>1, <1>6, <2>1 DEF RadarSenderSleeps, Running, dataState, portState
<1>7. CASE RunSimMeasures
  <2>1. step * options.period \in Int
    BY <1>1, <1>2, <1>7 DEF RunSimMeasures, Running
  <2>2. stamp' \in Int
    BY <1>7, <2>1, RoundFacts DEF RunSimMeasures
  <2>3. scan' \in Seq({Clamped(r) : r \in Readings})
    <3>1. PICK n \in 0 .. ScenarioSize[options.scenario],
               k \in FalseAlarms(options.clutter) :
                 scan' \in [1 .. n + k -> {Clamped(r) : r \in Readings}]
      BY <1>7 DEF RunSimMeasures, Measure
    <3>2. n + k \in Nat
      <4>1. options.scenario \in DOMAIN ScenarioSize
        BY <1>1, OptionFacts
      <4>2. n \in Nat
        BY <4>1 DEF ScenarioSize
      <4>3. k \in Nat
        BY SenderAssumption DEF FalseAlarms
      <4>4. QED
        BY <4>2, <4>3
    <3>3. QED
      BY <3>1, <3>2, SeqDef
  <2>4. QED
    BY <1>1, <1>7, <2>2, <2>3 DEF RunSimMeasures, Running, portState
<1>8. CASE RunSimSends
  <2>1. measured' \in Reading /\ at' \in {"send", "scan"} /\ stamp' = stamp
    BY <1>8, RunSimMakes
  <2>2. scan' \in Seq({Clamped(r) : r \in Readings})
    BY <1>1, <1>8, HeadTailProperties DEF RunSimSends
  <2>3. QED
    BY <1>1, <1>8, <2>1, <2>2 DEF RunSimSends, Running, portState
<1>9. CASE RunSimSleeps
  <2>1. started + (step + 1) * options.period \in Nat
    BY <1>1, <1>2, <1>9, ProductFacts DEF RunSimSleeps, Running
  <2>2. QED
    BY <1>1, <1>9, <2>1
    DEF RunSimSleeps, NextScan, Running, dataState, portState
<1>10. CASE GuiWorkerMeasures
  <2>1. /\ measured' \in Reading /\ at' \in {"send", "refused"}
        /\ stamp' = Round(now - started)
    BY <1>10, GuiWorkerMakes
  <2>2. stamp' \in Int
    BY <1>1, <2>1, RoundFacts
  <2>3. QED
    BY <1>1, <1>10, <2>1, <2>2 DEF GuiWorkerMeasures, Running, Ends, portState
<1>11. CASE GuiWorkerGoesOn
  <2>1. now + options.period \in Nat
    BY <1>1, <1>2, <1>11 DEF GuiWorkerGoesOn, Running
  <2>2. QED
    BY <1>1, <1>11, <2>1
    DEF GuiWorkerGoesOn, NextSample, Running, dataState, portState
<1>12. QED
  BY <1>3, <1>4, <1>5, <1>6, <1>7, <1>8, <1>9, <1>10, <1>11 DEF Next

LEMMA PlaceStep ==
  ASSUME IInv, Next
  PROVE  PlaceInv'
<1>1. /\ options' = options
      /\ at \in Waiting => step = 0
      /\ at \in Running \union {"init", "begin"} => Takes(options)
      /\ at = "scan" => Is("run_sim")
      /\ at = "top" => ~Is("gui_worker")
      /\ at = "crashed" => Is("radar_sender")
  BY RunFacts DEF IInv, PlaceInv, FramesPack
<1> USE DEF PlaceInv, FramesPack, Waiting, Running
<1>2. CASE Check
  BY <1>1, <1>2 DEF Check, Is
<1>3. CASE SendInit \/ Begin \/ Write \/ WriteFails \/ Wake \/ Tick
  BY <1>1, <1>3 DEF SendInit, Begin, Write, WriteFails, Wake, Tick, Is, Ends
<1>4. CASE RadarSenderEnds \/ RunSimEnds \/ RunSimGoesOn \/ GuiWorkerEnds
           \/ GuiWorkerGoesOn
  BY <1>1, <1>4 DEF RadarSenderEnds, RunSimEnds, RunSimGoesOn, GuiWorkerEnds,
                    GuiWorkerGoesOn, Is
<1>5. CASE RadarSenderMeasures
  <2>1. at' \in {"send", "crashed", "refused"}
    BY <1>5, RadarSenderMakes
  <2>2. QED
    BY <1>1, <1>5, <2>1 DEF RadarSenderMeasures, Is
<1>6. CASE RunSimSends
  <2>1. at' \in {"send", "scan"}
    BY <1>6, RunSimMakes
  <2>2. QED
    BY <1>1, <1>6, <2>1 DEF RunSimSends, Is
<1>7. CASE GuiWorkerMeasures
  <2>1. at' \in {"send", "refused"}
    BY <1>7, GuiWorkerMakes
  <2>2. QED
    BY <1>1, <1>7, <2>1 DEF GuiWorkerMeasures, Is
<1>8. CASE RadarSenderSleeps \/ RunSimMeasures \/ RunSimSleeps
  BY <1>1, <1>8 DEF RadarSenderSleeps, RunSimMeasures, RunSimSleeps, Is
<1>9. QED
  BY <1>2, <1>3, <1>4, <1>5, <1>6, <1>7, <1>8 DEF Next

LEMMA MadeStep ==
  ASSUME IInv, Next
  PROVE  MadeInv'
<1>1. CASE RadarSenderMeasures \/ RunSimSends \/ GuiWorkerMeasures
  BY <1>1, RadarSenderMakes, RunSimMakes, GuiWorkerMakes
<1>2. CASE Tick
  <2>1. /\ options' = options /\ at' = at /\ stamp' = stamp
        /\ measured' = measured /\ frame' = frame
    BY <1>2 DEF Tick, dataState
  <2>2. SentAzimuth' = SentAzimuth
    BY <2>1 DEF SentAzimuth, Is
  <2>3. QED
    BY <2>1, <2>2 DEF IInv, MadeInv, Is
<1>3. CASE ~RadarSenderMeasures /\ ~RunSimSends /\ ~GuiWorkerMeasures /\ ~Tick
  <2>1. at' /= "send"
    BY <1>3 DEF Next, Check, SendInit, Begin, Write, WriteFails,
         RadarSenderEnds, RadarSenderSleeps, RunSimEnds, RunSimMeasures,
         RunSimGoesOn, RunSimSleeps, GuiWorkerEnds, GuiWorkerGoesOn, Wake
  <2>2. QED
    BY <2>1 DEF MadeInv
<1>4. QED
  BY <1>1, <1>2, <1>3

LEMMA LineStep ==
  ASSUME IInv, Next
  PROVE  LineInv'
<1>1. /\ options' = options /\ options.port \in BOOLEAN
      /\ Heard \in {ToldTo!Silence, ToldTo!Init}
                   \union ToldTo!Measurements(0 .. LONG - 1)
      /\ at \in {"check", "init"} => Heard = ToldTo!Silence
      /\ at = "begin" => ~HasSent
      /\ Heard /= ToldTo!Silence => options.port
      /\ options.port /\ at \in {"begin"} \union Running =>
           Heard /= ToldTo!Silence
  BY RunFacts, OptionFacts DEF IInv, LineInv
<1>2. /\ ToldTo!Silence.type = "SILENCE" /\ ToldTo!Init.type = "INIT"
      /\ ToldTo!Init /= ToldTo!Silence
  BY DEF ToldTo!Silence, ToldTo!Init
<1> USE DEF LineInv
<1>3. CASE SendInit
  <2>1. Heard' = IF options.port THEN ToldTo!Init ELSE ToldTo!Silence
    BY <1>3, SendInitHears
  <2>2. at' = "begin"
    BY <1>3 DEF SendInit
  <2>3. Heard'.type /= "MEAS"
    BY <1>1, <1>2, <2>1
  <2>4. ~HasSent'
    BY <2>3 DEF HasSent
  <2>5. QED
    BY <1>1, <1>2, <2>1, <2>2, <2>4
    DEF Running, ToldTo!Silence, ToldTo!Init, ToldTo!Measurements
<1>4. CASE Write
  <2>1. at = "send" /\ at' = "sent"
    BY <1>4 DEF Write
  <2>2. CASE options.port
    <3>1. Heard' = [type |-> "MEAS", timestamp |-> stamp] /\ stamp \in 0 .. LONG - 1
      BY <1>4, <2>2, WriteHears
    <3>2. Heard' \in ToldTo!Measurements(0 .. LONG - 1) /\ Heard' /= ToldTo!Silence
      BY <3>1 DEF ToldTo!Measurements, ToldTo!Silence
    <3>3. QED
      BY <1>1, <2>1, <2>2, <3>2
      DEF ToldTo!Measurements, ToldTo!Silence, ToldTo!Init
  <2>3. CASE ~options.port
    <3>1. Heard' = Heard /\ Heard = ToldTo!Silence
      BY <1>4, <2>3, WriteHears
    <3>2. QED
      BY <1>1, <2>1, <2>3, <3>1
      DEF ToldTo!Measurements, ToldTo!Silence, ToldTo!Init
  <2>4. QED
    BY <1>1, <2>2, <2>3
<1>5. CASE ~SendInit /\ ~Write
  <2>2. Heard' = Heard /\ (HasSent' <=> HasSent)
    BY <1>5, PortKept
  <2>3. /\ at' \in {"check", "init"} => at \in {"check", "init"}
        /\ at' = "begin" => at = "begin"
    BY <1>5 DEF Next, Check, Begin, WriteFails, RadarSenderEnds,
         RadarSenderMeasures, RadarSenderSleeps, RunSimEnds, RunSimMeasures,
         RunSimSends, RunSimGoesOn, RunSimSleeps, GuiWorkerEnds,
         GuiWorkerMeasures, GuiWorkerGoesOn, Wake, Tick, MakeSample, Send,
         SendFromRadians
  <2>4. at' \in {"begin"} \union Running => at \in {"begin"} \union Running
    BY <1>5 DEF Next, Check, Begin, WriteFails, RadarSenderEnds,
         RadarSenderMeasures, RadarSenderSleeps, RunSimEnds, RunSimMeasures,
         RunSimSends, RunSimGoesOn, RunSimSleeps, GuiWorkerEnds,
         GuiWorkerMeasures, GuiWorkerGoesOn, Wake, Tick, Running
  <2>5. QED
    BY <1>1, <2>2, <2>3, <2>4
    DEF ToldTo!Measurements, ToldTo!Silence, ToldTo!Init
<1>6. QED
  BY <1>3, <1>4, <1>5

LEMMA ScanStep ==
  ASSUME IInv, Next
  PROVE  ScanInv'
<1>1. /\ options' = options /\ options \in Options
      /\ at \in Running => Takes(options)
      /\ scan \in Seq({Clamped(r) : r \in Readings})
      /\ options.port => Len(scan) <= 1
      /\ options.port /\ at \in Waiting \union (Running \ {"scan"}) =>
           scan = <<>>
  BY RunFacts DEF IInv, SenderTypeOK, ScanInv
<1> USE DEF ScanInv
<1>2. CASE RunSimMeasures
  <2> SUFFICES ASSUME options.port PROVE Len(scan') <= 1
    BY <1>1, <1>2 DEF RunSimMeasures, Waiting, Running
  <2>1. ScenarioSize[options.scenario] = 1 /\ ~options.clutter
    <3>1. Takes(options) /\ options.program = "run_sim"
      BY <1>1, <1>2 DEF RunSimMeasures, Running, Is
    <3>2. QED
      BY <1>1, <3>1, TakenFacts
  <2>2. PICK n \in 0 .. 1, k \in {0} :
               scan' \in [1 .. n + k -> {Clamped(r) : r \in Readings}]
    BY <1>2, <2>1 DEF RunSimMeasures, Measure, FalseAlarms
  <2>3. n + k \in Nat /\ n + k <= 1
    BY <2>2
  <2>4. Len(scan') = n + k
    BY <2>2, <2>3, LenProperties, SeqDef
  <2>5. QED
    BY <2>3, <2>4
<1>3. CASE RunSimSends
  <2> SUFFICES ASSUME options.port PROVE scan' = <<>>
    BY <1>1, <1>3, EmptySeq
  <2>1. scan' = Tail(scan) /\ scan /= <<>>
    BY <1>3 DEF RunSimSends
  <2>2. Len(scan') = 0 /\ scan' \in Seq({Clamped(r) : r \in Readings})
    <3>1. Len(scan) \in Nat /\ Len(scan) /= 0
      BY <1>1, <2>1, LenProperties, EmptySeq
    <3>2. Len(Tail(scan)) = Len(scan) - 1
          /\ Tail(scan) \in Seq({Clamped(r) : r \in Readings})
      BY <1>1, <2>1, HeadTailProperties
    <3>3. QED
      BY <1>1, <2>1, <3>1, <3>2
  <2>3. QED
    BY <2>2, EmptySeq
<1>4. CASE RunSimSleeps
  BY <1>1, <1>4 DEF RunSimSleeps, dataState
<1>5. CASE ~RunSimMeasures /\ ~RunSimSends /\ ~RunSimSleeps
  <2>1. /\ scan' = scan
        /\ at' \in Waiting \union (Running \ {"scan"}) =>
             at \in Waiting \union (Running \ {"scan"})
    BY <1>5 DEF Next, Check, SendInit, Begin, Write, WriteFails,
         RadarSenderEnds, RadarSenderMeasures, RadarSenderSleeps, RunSimEnds,
         RunSimGoesOn, GuiWorkerEnds, GuiWorkerMeasures, GuiWorkerGoesOn, Wake,
         Tick, dataState, Waiting, Running
  <2>2. QED
    BY <1>1, <2>1
<1>6. QED
  BY <1>2, <1>3, <1>4, <1>5

LEMMA ScheduleStep ==
  ASSUME IInv, Next
  PROVE  ScheduleInv'
<1> SUFFICES ASSUME ~Is("gui_worker") PROVE ScheduleInv'
  BY RunFacts DEF ScheduleInv, Is
<1> DEFINE elapsed == step * options.period
           period == options.period
<1>1. /\ options' = options /\ now \in Nat /\ started \in 0 .. now
      /\ due \in Nat
      /\ step \in Nat
      /\ at \in Running \union {"init", "begin"} => period \in Nat
  BY RunFacts DEF IInv, SenderTypeOK
<1>2. /\ at \in {"scan", "send", "sent"} => Remains /\ stamp \in StampsOf(step)
      /\ at = "wait" => Remains
      /\ options.port /\ at = "wait" => elapsed <= due - started
      /\ options.port /\ at \in Running \ {"wait"} /\ Remains =>
           elapsed <= now - started
  BY DEF IInv, ScheduleInv
<1>3. /\ at \in Running \union {"init", "begin"} => elapsed \in Nat
      /\ step' = step => /\ step' * options'.period = elapsed
                         /\ Remains' = Remains /\ StampsOf(step)' = StampsOf(step)
      /\ step' = step + 1 /\ at \in Running =>
           step' * options'.period = elapsed + period
  <2>1. at \in Running \union {"init", "begin"} =>
          elapsed \in Nat /\ (step + 1) * period = elapsed + period
    BY <1>1, ProductFacts
  <2>2. ASSUME step' = step
        PROVE /\ step' * options'.period = elapsed
              /\ Remains' = Remains /\ StampsOf(step)' = StampsOf(step)
    BY <1>1, <2>2 DEF Remains, StampsOf, Is
  <2>3. QED
    BY <1>1, <2>1, <2>2
<1> HIDE DEF elapsed, period
<1> USE DEF ScheduleInv
<1>4. CASE Check \/ SendInit \/ WriteFails \/ RadarSenderEnds \/ RunSimEnds
           \/ GuiWorkerEnds \/ GuiWorkerMeasures \/ GuiWorkerGoesOn
  <2>1. at' \notin Running \/ Is("gui_worker")
    BY <1>4 DEF Check, SendInit, WriteFails, RadarSenderEnds, RunSimEnds,
                GuiWorkerEnds, GuiWorkerMeasures, GuiWorkerGoesOn, Running
  <2>2. QED
    BY <1>1, <2>1 DEF Is, Running
<1>5. CASE Begin
  <2>1. step = 0
    BY <1>5 DEF IInv, PlaceInv, Begin, Waiting
  <2>2. step' = step /\ at' = "top" /\ started' = now /\ now' = now
    BY <1>5 DEF Begin
  <2>3. step' * options'.period = 0
    <3>1. period \in Nat
      BY <1>1, <1>5 DEF Begin
    <3>2. QED
      BY <1>1, <2>1, <2>2, <3>1 DEF period
  <2>4. QED
    BY <1>1, <2>2, <2>3
<1>6. CASE Write \/ RunSimGoesOn
  <2>1. /\ step' = step /\ now' = now /\ started' = started /\ stamp' = stamp
        /\ at \in {"send", "sent"} /\ at' \in {"sent", "scan"}
    BY <1>6 DEF Write, RunSimGoesOn, dataState
  <2>2. QED
    BY <1>1, <1>2, <1>3, <2>1 DEF Running
<1>7. CASE RadarSenderMeasures
  <2>1. /\ step' = step /\ now' = now /\ started' = started /\ at = "top"
    BY <1>7 DEF RadarSenderMeasures
  <2>2. at' \in {"send", "crashed", "refused"} /\ stamp' \in StampsOf(step) /\ Remains
    BY <1>7, RadarSenderMakes
  <2>3. QED
    BY <1>1, <1>2, <1>3, <2>1, <2>2 DEF Running
<1>8. CASE RadarSenderSleeps
  <2>1. /\ step' = step + 1 /\ now' = now /\ started' = started /\ at = "sent"
        /\ Is("radar_sender")
        /\ IF options.port /\ step' < options.total
             THEN due' = now + period /\ at' = "wait" ELSE at' = "top"
    BY <1>8 DEF RadarSenderSleeps, period
  <2>2. step' * options'.period = elapsed + period
        /\ elapsed \in Nat /\ period \in Nat
    BY <1>1, <1>3, <2>1 DEF Running
  <2>3. Remains' <=> step' < options.total
    BY <1>1, <2>1 DEF Remains, Is
  <2>4. options.port => elapsed <= now - started
    BY <1>2, <2>1 DEF Running
  <2>5. QED
    BY <1>1, <2>1, <2>2, <2>3, <2>4
<1>9. CASE RunSimMeasures
  <2>1. /\ step' = step /\ now' = now /\ started' = started /\ at = "top"
        /\ at' = "scan" /\ Is("run_sim") /\ stamp' = Round(elapsed)
        /\ elapsed < options.total
    BY <1>9 DEF RunSimMeasures, elapsed
  <2>2. Remains /\ stamp' \in StampsOf(step)
    BY <2>1 DEF Remains, StampsOf, Is, elapsed
  <2>3. QED
    BY <1>1, <1>2, <1>3, <2>1, <2>2 DEF Running
<1>10. CASE RunSimSends
  <2>1. /\ step' = step /\ now' = now /\ started' = started /\ at = "scan"
    BY <1>10 DEF RunSimSends
  <2>2. at' \in {"send", "scan"} /\ stamp' = stamp
    BY <1>10, RunSimMakes
  <2>3. QED
    BY <1>1, <1>2, <1>3, <2>1, <2>2 DEF Running
<1>11. CASE RunSimSleeps
  <2>1. /\ step' = step + 1 /\ now' = now /\ started' = started /\ at = "scan"
        /\ Is("run_sim")
        /\ IF options.port /\ step' * options.period < options.total
             THEN due' = started + (step + 1) * options.period /\ at' = "wait"
             ELSE at' = "top"
    BY <1>11 DEF RunSimSleeps, NextScan
  <2>2. step' * options'.period = elapsed + period
        /\ elapsed \in Nat /\ period \in Nat
    BY <1>1, <1>3, <2>1 DEF Running
  <2>3. Remains' <=> step' * options.period < options.total
    BY <1>1, <2>1 DEF Remains, Is
  <2>4. step' * options.period = elapsed + period
        /\ (step + 1) * options.period = elapsed + period
    BY <1>1, <2>1, <2>2
  <2>5. QED
    BY <1>1, <2>1, <2>2, <2>3, <2>4
<1>12. CASE Wake
  <2>1. /\ step' = step /\ now' = now /\ started' = started /\ at = "wait"
        /\ at' = "top" /\ now >= due
    BY <1>12 DEF Wake
  <2>2. elapsed \in Nat
    BY <1>3, <2>1 DEF Running
  <2>3. QED
    BY <1>1, <1>2, <1>3, <2>1, <2>2
<1>13. CASE Tick
  <2>1. /\ step' = step /\ now' = now + 1 /\ started' = started /\ at' = at
        /\ due' = due /\ stamp' = stamp
    BY <1>13 DEF Tick, dataState
  <2>2. at \in Running => elapsed \in Nat
    BY <1>3
  <2>3. QED
    BY <1>1, <1>2, <1>3, <2>1, <2>2 DEF Running
<1>14. QED
  BY <1>4, <1>5, <1>6, <1>7, <1>8, <1>9, <1>10, <1>11, <1>12, <1>13 DEF Next

LEMMA AheadStep ==
  ASSUME IInv, Next
  PROVE  AheadInv'
<1> SUFFICES ASSUME at' = "send", options.port \/ Is("gui_worker")
             PROVE  2 * PARTS * stamp' <= 2 * (now' - started') + PARTS
  BY RunFacts DEF AheadInv, Is
<1>1. /\ options \in Options /\ options' = options /\ PARTS \in Nat
      /\ now \in Nat /\ started \in 0 .. now /\ step \in Nat /\ stamp \in Int
  BY RunFacts, WireNumbers DEF IInv, SenderTypeOK
<1> DEFINE elapsed == step * options.period
<1>2. ASSUME options.port, ~Is("gui_worker"), at \in {"top", "scan"}, Remains,
             NEW s \in StampsOf(step)
      PROVE  2 * PARTS * s <= 2 * (now - started) + PARTS
  <2>1. elapsed <= now - started
    BY <1>2 DEF IInv, ScheduleInv, Running
  <2>2. Takes(options) /\ options.period \in Nat
    BY <1>2, RunFacts DEF Running
  <2>3. elapsed \in Nat
    BY <1>1, <2>2, ProductFacts
  <2>4. /\ s \in Int
        /\ 2 * PARTS * s <= 2 * elapsed + PARTS
    BY <1>1, <2>2, StampFacts
  <2> HIDE DEF elapsed
  <2>5. 2 * PARTS * s \in Int
    BY <1>1, <2>4
  <2>6. QED
    BY <1>1, <2>1, <2>3, <2>4, <2>5
<1>3. CASE RadarSenderMeasures
  <2>1. /\ now' = now /\ started' = started /\ at = "top" /\ options.port
        /\ ~Is("gui_worker")
    BY <1>3 DEF RadarSenderMeasures, Is
  <2>2. stamp' \in StampsOf(step) /\ Remains
    BY <1>3, RadarSenderMakes
  <2>3. QED
    BY <1>2, <2>1, <2>2
<1>4. CASE RunSimSends
  <2>1. /\ now' = now /\ started' = started /\ at = "scan" /\ options.port
        /\ ~Is("gui_worker") /\ stamp' = stamp
    BY <1>4 DEF RunSimSends, Is
  <2>2. stamp \in StampsOf(step) /\ Remains
    BY <2>1 DEF IInv, ScheduleInv
  <2>3. QED
    BY <1>2, <2>1, <2>2
<1>5. CASE GuiWorkerMeasures
  <2>1. now' = now /\ started' = started /\ stamp' = Round(now - started)
    BY <1>5, GuiWorkerMakes DEF GuiWorkerMeasures
  <2>2. now - started \in Int
    BY <1>1
  <2>3. 2 * PARTS * Round(now - started) <= 2 * (now - started) + PARTS
    BY <2>2, RoundFacts
  <2>4. QED
    BY <2>1, <2>3
<1>6. CASE Tick
  <2>1. now' = now + 1 /\ started' = started /\ stamp' = stamp /\ at = "send"
    BY <1>6 DEF Tick, dataState
  <2>2. 2 * PARTS * stamp <= 2 * (now - started) + PARTS
    BY <2>1 DEF IInv, AheadInv
  <2>3. 2 * PARTS * stamp \in Int
    BY <1>1
  <2>4. QED
    BY <1>1, <2>1, <2>2, <2>3
<1>7. CASE ~RadarSenderMeasures /\ ~RunSimSends /\ ~GuiWorkerMeasures /\ ~Tick
  BY <1>7 DEF Next, Check, SendInit, Begin, Write, WriteFails,
       RadarSenderEnds, RadarSenderSleeps, RunSimEnds, RunSimMeasures,
       RunSimGoesOn, RunSimSleeps, GuiWorkerEnds, GuiWorkerGoesOn, Wake
<1>8. QED
  BY <1>3, <1>4, <1>5, <1>6, <1>7

LEMMA NeverAheadStep ==
  ASSUME IInv, Next
  PROVE  NeverAhead'
<1> SUFFICES ASSUME Heard'.type = "MEAS"
             PROVE  2 * PARTS * Heard'.timestamp <=
                      2 * (lastWrite' - started') + PARTS
  BY DEF NeverAhead
<1>1. CASE SendInit
  <2>1. Heard'.type /= "MEAS"
    BY <1>1, SendInitHears DEF ToldTo!Silence, ToldTo!Init
  <2>2. QED
    BY <2>1
<1>2. CASE Write
  <2>1. CASE options.port
    <3>1. Heard'.timestamp = stamp
      BY <1>2, <2>1, WriteHears
    <3>2. 2 * PARTS * stamp <= 2 * (now - started) + PARTS
      BY <1>2, <2>1 DEF IInv, AheadInv, Write
    <3>3. lastWrite' = now /\ started' = started
      BY <1>2 DEF Write
    <3>4. QED
      BY <3>1, <3>2, <3>3
  <2>2. CASE ~options.port
    <3>1. Heard'.type /= "MEAS"
      BY <1>2, <2>2, WriteHears DEF ToldTo!Silence
    <3>2. QED
      BY <3>1
  <2>3. QED
    BY <2>1, <2>2
<1>3. CASE Begin
  <2>1. Heard' = Heard /\ ~HasSent
    BY <1>3, HeardKept DEF Begin, portState, IInv, LineInv
  <2>2. QED
    BY <2>1 DEF HasSent
<1>4. CASE ~SendInit /\ ~Write /\ ~Begin
  <2>1. Heard' = Heard /\ lastWrite' = lastWrite /\ started' = started
    BY <1>4, PortKept
  <2>2. QED
    BY <2>1 DEF IInv, NeverAhead
<1>5. QED
  BY <1>1, <1>2, <1>3, <1>4

LEMMA HeardTimestamp ==
  ASSUME IInv, HasSent
  PROVE  Heard.timestamp \in 0 .. LONG - 1 /\ options.port
<1>1. /\ Heard \in {ToldTo!Silence, ToldTo!Init}
                   \union ToldTo!Measurements(0 .. LONG - 1)
      /\ Heard /= ToldTo!Silence => options.port
  BY DEF IInv, LineInv
<1>2. Heard.type = "MEAS"
  BY DEF HasSent
<1>3. Heard /= ToldTo!Silence /\ Heard /= ToldTo!Init
  BY <1>2 DEF ToldTo!Silence, ToldTo!Init
<1>4. QED
  BY <1>1, <1>3 DEF ToldTo!Measurements

(* A period of at least two milliseconds keeps the timestamps of the GUI   *)
(* apart, although each is read off the clock.                             *)
LEMMA GuiWorkerAdvances ==
  ASSUME IInv, Next, GuiWorkerMeasures, HasSent
  PROVE  Advances(Heard.timestamp, stamp')
<1>1. /\ now \in Nat /\ started \in 0 .. now /\ lastWrite \in 0 .. now
      /\ due \in Nat /\ at = "wait" /\ now >= due /\ Is("gui_worker")
      /\ PARTS \in Nat /\ PARTS > 0 /\ options.period \in Nat
      /\ options.period >= 2 * PARTS
  BY RunFacts, WireNumbers DEF IInv, SenderTypeOK, GuiWorkerMeasures, Running
<1>2. due - lastWrite >= options.period
  BY <1>1 DEF IInv, PaceInv, Is
<1>3. Heard.timestamp \in Int
  BY HeardTimestamp
<1>4. 2 * PARTS * Heard.timestamp <= 2 * (lastWrite - started) + PARTS
  BY DEF IInv, NeverAhead, HasSent
<1>5. stamp' = Round(now - started) /\ now - started \in Int
  BY <1>1 DEF GuiWorkerMeasures
<1> DEFINE h == Heard.timestamp
           t == Round(now - started)
<1>6. t \in Int /\ 2 * (now - started) <= 2 * PARTS * t + PARTS
  BY <1>5, RoundFacts
<1> HIDE DEF h, t
<1>7. h \in Int /\ 2 * PARTS * h <= 2 * (lastWrite - started) + PARTS
  BY <1>3, <1>4 DEF h
<1>8. 2 * PARTS * h \in Int /\ 2 * PARTS * t \in Int
      /\ 2 * PARTS * h = 2 * (PARTS * h) /\ 2 * PARTS * t = 2 * (PARTS * t)
  BY <1>1, <1>6, <1>7
<1>9. 2 * PARTS * h < 2 * PARTS * t
  BY <1>1, <1>2, <1>6, <1>7, <1>8
<1>10. h < t
  <2> SUFFICES ASSUME t <= h PROVE FALSE
    BY <1>6, <1>7
  <2>1. PARTS * t <= PARTS * h
    BY <1>1, <1>6, <1>7, ProductMonotone
  <2>2. PARTS * t \in Int /\ PARTS * h \in Int
    BY <1>1, <1>6, <1>7
  <2>3. QED
    BY <1>8, <1>9, <2>1, <2>2
<1>11. QED
  BY <1>5, <1>6, <1>7, <1>10 DEF Advances, h, t

(* A board that has heard less than the next stamp has heard less than the *)
(* one after it.                                                           *)
LEMMA StampReached ==
  ASSUME IInv, HasSent, ~Is("gui_worker"), at \in Running,
         \A s \in StampsOf(step) : Advances(Heard.timestamp, s)
  PROVE  \A s \in StampsOf(step + 1) : Advances(Heard.timestamp, s)
<1>1. /\ options \in Options /\ Takes(options) /\ step \in Nat
      /\ step + 1 \in Nat /\ Heard.timestamp \in Int
  BY HeardTimestamp DEF IInv, SenderTypeOK, PlaceInv
<1>2. PICK t : t \in StampsOf(step)
  BY DEF StampsOf, Truncations
<1>3. SUFFICES ASSUME NEW s \in StampsOf(step + 1)
               PROVE  Advances(Heard.timestamp, s)
  OBVIOUS
<1>4. t \in Int /\ s \in Int
  BY <1>1, <1>2, StampFacts
<1>5. Advances(Heard.timestamp, t) /\ Advances(t, s)
  BY <1>1, <1>2, StampsAdvance
<1>6. QED
  BY <1>1, <1>4, <1>5, AdvancesTransitive

LEMMA AdvanceStep ==
  ASSUME IInv, Next
  PROVE  AdvanceInv'
<1> SUFFICES ASSUME HasSent'
             PROVE /\ at' = "send" => Advances(Heard.timestamp, stamp)'
                   /\ ~Is("gui_worker")' /\ at' \in Running =>
                        \A s \in StampsOf(Coming)' : Advances(Heard.timestamp, s)'
  BY DEF AdvanceInv
<1>1. /\ options' = options /\ options \in Options /\ step \in Nat
      /\ stamp \in Int
      /\ at \in Running => Takes(options)
  BY RunFacts DEF IInv, SenderTypeOK
<1>2. \A x, y : Advances(x, y)' <=> Advances(x, y)
  BY <1>1 DEF Advances, Is
<1>3. CASE SendInit
  <2>1. Heard'.type /= "MEAS"
    BY <1>3, SendInitHears DEF ToldTo!Silence, ToldTo!Init
  <2>2. QED
    BY <2>1 DEF HasSent
<1>4. CASE Write
  <2>1. Heard'.timestamp = stamp /\ options.port
    <3>1. CASE ~options.port
      BY <1>4, <3>1, WriteHears DEF HasSent, ToldTo!Silence
    <3>2. QED
      BY <1>4, <3>1, WriteHears
  <2>2. /\ at = "send" /\ at' = "sent" /\ step' = step
    BY <1>4 DEF Write
  <2>3. ASSUME ~Is("gui_worker"), NEW s \in StampsOf(Coming)'
        PROVE  Advances(Heard.timestamp, s)'
    <3>1. stamp \in StampsOf(step)
      BY <2>2, <2>3 DEF IInv, ScheduleInv
    <3>2. Coming' = step + 1
      BY <2>2 DEF Coming, UsedUp
    <3>3. StampsOf(Coming)' = StampsOf(step + 1)
      BY <1>1, <3>2 DEF StampsOf, Is
    <3>4. Takes(options)
      BY <1>1, <2>2 DEF Running
    <3>5. Advances(stamp, s)
      BY <1>1, <2>3, <3>1, <3>3, <3>4, StampsAdvance
    <3>6. QED
      BY <1>1, <2>1, <3>5 DEF Advances, Is
  <2>4. QED
    BY <1>1, <2>2, <2>3 DEF Is
<1>5. CASE ~SendInit /\ ~Write
  <2>2. Heard' = Heard /\ HasSent
    BY <1>5, PortKept
  <2>3. /\ Heard.timestamp \in Int /\ options.port
    BY <2>2, HeardTimestamp
  <2>4. /\ at = "send" => Advances(Heard.timestamp, stamp)
        /\ ~Is("gui_worker") /\ at \in Running =>
             \A s \in StampsOf(Coming) : Advances(Heard.timestamp, s)
    BY <2>2 DEF IInv, AdvanceInv
  <2>6. SUFFICES
          /\ at' = "send" => Advances(Heard.timestamp, stamp')
          /\ ~Is("gui_worker") /\ at' \in Running =>
               \A s \in StampsOf(Coming') : Advances(Heard.timestamp, s)
    <3>1. StampsOf(Coming)' = StampsOf(Coming')
      BY <1>1 DEF StampsOf, Is
    <3>2. QED
      BY <1>1, <2>2, <3>1 DEF Advances, Is
  <2>7. CASE Check \/ Begin
    <3>1. at \in {"check", "begin"}
      BY <2>7 DEF Check, Begin
    <3>2. ~HasSent
      BY <3>1 DEF IInv, LineInv, HasSent, ToldTo!Silence
    <3>3. QED
      BY <2>2, <3>2
  <2>8. CASE WriteFails \/ RadarSenderEnds \/ RunSimEnds \/ GuiWorkerEnds
    BY <2>8 DEF WriteFails, RadarSenderEnds, RunSimEnds, GuiWorkerEnds, Running
  <2>9. CASE RadarSenderMeasures
    <3>1. at = "top" /\ step' = step /\ ~Is("gui_worker")
      BY <2>9 DEF RadarSenderMeasures, Is
    <3>2. at' \in {"send", "crashed", "refused"} /\ stamp' \in StampsOf(step)
      BY <2>9, RadarSenderMakes
    <3>3. Coming = step /\ Coming' = step
      BY <3>1, <3>2 DEF Coming, UsedUp
    <3>4. QED
      BY <2>4, <3>1, <3>2, <3>3 DEF Running
  <2>10. CASE RadarSenderSleeps \/ RunSimSleeps
    <3>1. /\ at = "sent" \/ (at = "scan" /\ scan = <<>>)
          /\ step' = step + 1 /\ ~Is("gui_worker") /\ at' \in {"wait", "top"}
      BY <2>10 DEF RadarSenderSleeps, RunSimSleeps, Is
    <3>2. Coming = step + 1 /\ Coming' = step + 1
      BY <3>1 DEF Coming, UsedUp
    <3>3. QED
      BY <2>4, <3>1, <3>2 DEF Running
  <2>11. CASE RunSimMeasures
    <3>1. at = "top" /\ at' = "scan" /\ step' = step /\ ~Is("gui_worker")
      BY <2>11 DEF RunSimMeasures, Is
    <3>2. Coming = step /\ Coming' \in {step, step + 1}
      BY <3>1 DEF Coming, UsedUp
    <3>3. \A s \in StampsOf(Coming') : Advances(Heard.timestamp, s)
      BY <2>2, <2>4, <3>1, <3>2, StampReached DEF Running
    <3>4. QED
      BY <3>1, <3>3
  <2>12. CASE RunSimSends
    <3>1. /\ at = "scan" /\ step' = step /\ ~Is("gui_worker") /\ scan /= <<>>
      BY <2>12 DEF RunSimSends, Is
    <3>2. at' \in {"send", "scan"} /\ stamp' = stamp
      BY <2>12, RunSimMakes
    <3>3. stamp \in StampsOf(step)
      BY <3>1 DEF IInv, ScheduleInv
    <3>4. Coming = step /\ Coming' \in {step, step + 1}
      BY <3>1 DEF Coming, UsedUp
    <3>5. \A s \in StampsOf(Coming') : Advances(Heard.timestamp, s)
      BY <2>2, <2>4, <3>1, <3>4, StampReached DEF Running
    <3>6. QED
      BY <2>4, <3>1, <3>2, <3>3, <3>4, <3>5 DEF Running
  <2>13. CASE RunSimGoesOn
    <3>1. /\ at = "sent" /\ at' = "scan" /\ step' = step /\ scan' = scan
          /\ ~Is("gui_worker")
      BY <2>13 DEF RunSimGoesOn, Is, dataState
    <3>2. scan = <<>>
      BY <2>3, <3>1 DEF IInv, ScanInv, Running, Waiting
    <3>3. Coming = step + 1 /\ Coming' = step + 1
      BY <3>1, <3>2 DEF Coming, UsedUp
    <3>4. QED
      BY <2>4, <3>1, <3>3 DEF Running
  <2>14. CASE GuiWorkerMeasures
    <3>1. Is("gui_worker") /\ Advances(Heard.timestamp, stamp')
      BY <2>2, <2>14, GuiWorkerAdvances DEF GuiWorkerMeasures
    <3>2. QED
      BY <3>1
  <2>15. CASE GuiWorkerGoesOn
    BY <2>15 DEF GuiWorkerGoesOn
  <2>16. CASE Wake
    <3>1. at = "wait" /\ at' = "top" /\ step' = step
      BY <2>16 DEF Wake
    <3>2. Coming = step /\ Coming' = step
      BY <3>1 DEF Coming, UsedUp
    <3>3. QED
      BY <2>4, <3>1, <3>2 DEF Running
  <2>17. CASE Tick
    <3>1. at' = at /\ step' = step /\ scan' = scan /\ stamp' = stamp
      BY <2>17 DEF Tick, dataState
    <3>2. Coming' = Coming
      BY <3>1 DEF Coming, UsedUp
    <3>3. QED
      BY <2>4, <3>1, <3>2
  <2>18. QED
    BY <1>5, <2>7, <2>8, <2>9, <2>10, <2>11, <2>12, <2>13, <2>14, <2>15, <2>16,
       <2>17 DEF Next
<1>6. QED
  BY <1>3, <1>4, <1>5

LEMMA PaceStep ==
  ASSUME IInv, Next
  PROVE  PaceInv'
<1> SUFFICES ASSUME HasSent', ~Is("run_sim")
             PROVE /\ at' = "wait" => due' - lastWrite' >= options.period
                   /\ at' = "send" \/ (at' = "top" /\ Remains') =>
                        now' - lastWrite' >= options.period
  BY RunFacts DEF PaceInv, Is
<1>1. /\ options' = options /\ now \in Nat /\ lastWrite \in 0 .. now
      /\ due \in Nat
      /\ at \in Running => options.period \in Nat
  BY RunFacts DEF IInv, SenderTypeOK
<1>2. CASE SendInit
  <2>1. Heard'.type /= "MEAS"
    BY <1>2, SendInitHears DEF ToldTo!Silence, ToldTo!Init
  <2>2. QED
    BY <2>1 DEF HasSent
<1>3. CASE Write
  BY <1>3 DEF Write
<1>4. CASE ~SendInit /\ ~Write
  <2>1. lastWrite' = lastWrite
    BY <1>4, PortKept
  <2>2. HasSent
    BY <1>4, PortKept
  <2>3. options.port
    BY <2>2, HeardTimestamp
  <2>4. /\ at = "wait" => due - lastWrite >= options.period
        /\ at = "send" \/ (at = "top" /\ Remains) =>
             now - lastWrite >= options.period
    BY <2>2 DEF IInv, PaceInv
  <2>5. CASE Check \/ Begin
    <3>1. at \in {"check", "begin"}
      BY <2>5 DEF Check, Begin
    <3>2. ~HasSent
      BY <3>1 DEF IInv, LineInv, HasSent, ToldTo!Silence
    <3>3. QED
      BY <2>2, <3>2
  <2>6. CASE WriteFails \/ RadarSenderEnds \/ RunSimEnds \/ GuiWorkerEnds
             \/ RunSimMeasures \/ RunSimSends \/ RunSimGoesOn \/ RunSimSleeps
    BY <2>6 DEF WriteFails, RadarSenderEnds, RunSimEnds, GuiWorkerEnds,
                RunSimMeasures, RunSimSends, RunSimGoesOn, RunSimSleeps
  <2>7. CASE RadarSenderMeasures
    <3>1. at = "top" /\ now' = now
      BY <2>7 DEF RadarSenderMeasures
    <3>2. at' \in {"send", "crashed", "refused"} /\ Remains
      BY <2>7, RadarSenderMakes
    <3>3. QED
      BY <2>1, <2>4, <3>1, <3>2
  <2>8. CASE RadarSenderSleeps
    <3>1. /\ at = "sent" /\ Is("radar_sender") /\ step' = step + 1
          /\ IF step' < options.total
               THEN due' = now + options.period /\ at' = "wait"
               ELSE at' = "top"
      BY <2>3, <2>8 DEF RadarSenderSleeps
    <3>2. Remains' <=> step' < options.total
      BY <1>1, <3>1 DEF Remains, Is
    <3>3. options.period \in Nat
      BY <1>1, <3>1 DEF Running
    <3>4. QED
      BY <1>1, <2>1, <3>1, <3>2, <3>3
  <2>9. CASE GuiWorkerMeasures
    <3>1. at = "wait" /\ now' = now /\ now >= due
      BY <2>9 DEF GuiWorkerMeasures
    <3>2. at' \in {"send", "refused"}
      BY <2>9, GuiWorkerMakes
    <3>3. options.period \in Nat
      BY <1>1, <3>1 DEF Running
    <3>4. QED
      BY <1>1, <2>1, <2>4, <3>1, <3>2, <3>3
  <2>10. CASE GuiWorkerGoesOn
    <3>1. at = "sent" /\ at' = "wait" /\ due' = now + options.period
      BY <2>10 DEF GuiWorkerGoesOn, NextSample
    <3>2. options.period \in Nat
      BY <1>1, <3>1 DEF Running
    <3>3. QED
      BY <1>1, <2>1, <3>1, <3>2
  <2>11. CASE Wake
    <3>1. at = "wait" /\ at' = "top" /\ now' = now /\ now >= due
      BY <2>11 DEF Wake
    <3>2. options.period \in Nat
      BY <1>1, <3>1 DEF Running
    <3>3. QED
      BY <1>1, <2>1, <2>4, <3>1, <3>2
  <2>12. CASE Tick
    <3>1. at' = at /\ now' = now + 1 /\ due' = due /\ step' = step
      BY <2>12 DEF Tick
    <3>2. Remains' = Remains
      BY <1>1, <3>1 DEF Remains, Is
    <3>3. at \in Running => options.period \in Nat
      BY <1>1
    <3>4. QED
      BY <1>1, <2>1, <2>4, <3>1, <3>2, <3>3 DEF Running
  <2>13. QED
    BY <1>4, <2>5, <2>6, <2>7, <2>8, <2>9, <2>10, <2>11, <2>12 DEF Next
<1>5. QED
  BY <1>2, <1>3, <1>4

LEMMA SendersStep == IInv /\ [Next]_senderVars => IInv'
<1> SUFFICES ASSUME IInv, [Next]_senderVars PROVE IInv'
  OBVIOUS
<1>1. CASE Next
  BY <1>1, TypeStep, PlaceStep, MadeStep, LineStep, ScanStep, ScheduleStep,
     AheadStep, NeverAheadStep, AdvanceStep, PaceStep DEF IInv
<1>2. CASE UNCHANGED senderVars
  <2>1. /\ options' = options /\ at' = at /\ now' = now /\ started' = started
        /\ due' = due /\ step' = step /\ scan' = scan /\ stamp' = stamp
        /\ measured' = measured /\ frame' = frame /\ wire' = wire
        /\ lastWrite' = lastWrite
    BY <1>2 DEF senderVars
  <2>2. /\ Heard' = Heard /\ HasSent' = HasSent /\ SentAzimuth' = SentAzimuth
        /\ Remains' = Remains /\ Coming' = Coming
    BY <2>1 DEF Heard, HasSent, SentAzimuth, Remains, Coming, UsedUp, Is
  <2>3. StampsOf(step)' = StampsOf(step) /\ StampsOf(Coming)' = StampsOf(Coming)
    BY <2>1, <2>2 DEF StampsOf, Is
  <2>4. (SenderTypeOK /\ PlaceInv /\ MadeInv)'
    BY <2>1, <2>2 DEF IInv, SenderTypeOK, PlaceInv, MadeInv, FramesPack, Is
  <2>5. (LineInv /\ ScanInv)'
    BY <2>1, <2>2 DEF IInv, LineInv, ScanInv
  <2>6. (ScheduleInv /\ AheadInv /\ NeverAhead)'
    BY <2>1, <2>2, <2>3 DEF IInv, ScheduleInv, AheadInv, NeverAhead, Is
  <2>7. (AdvanceInv /\ PaceInv)'
    BY <2>1, <2>2, <2>3 DEF IInv, AdvanceInv, PaceInv, Advances, Is
  <2>8. QED
    BY <2>4, <2>5, <2>6, <2>7 DEF IInv
<1>3. QED
  BY <1>1, <1>2

----------------------------------------------------------------------------
(* What follows.                                                           *)

(* Everything the three senders rely on, together, in every reachable      *)
(* state: places and options, what a frame is made from, what the line     *)
(* carries, the schedule and the pace (run_sim.py:main,                    *)
(* radar_sender.py:main, gui_worker.py:_run).                              *)
THEOREM SendersInvariant == SenderSpec => []IInv
BY SendersStart, SendersStep, PTL DEF SenderSpec

(* No measurement is sent before the time it bears, whatever the sleeps    *)
(* and delays were (run_sim.py:54, gui_worker.py:90-97,                    *)
(* radar_sender.py:86).                                                    *)
THEOREM SendersNeverAhead == SenderSpec => []NeverAhead
<1>1. IInv => NeverAhead
  BY DEF IInv
<1>2. QED
  BY <1>1, SendersInvariant, PTL

(* Only radar_sender can fail in the middle of a run because a number does *)
(* not fit into its field: the limits on the options of the others are     *)
(* enough (run_sim.py:74, gui_model.py:27, protocol.py:52-55).             *)
THEOREM SendersFramesPack == SenderSpec => []FramesPack
<1>1. IInv => FramesPack
  BY DEF IInv, PlaceInv
<1>2. QED
  BY <1>1, SendersInvariant, PTL

(* Every frame that is sent is accepted by the board and decodes to what   *)
(* was measured, rounded, if the checksum of bytes is a number             *)
(* (protocol.py:46-56, radar_message.c:20-43).                             *)
THEOREM SendersCarryMeasurement ==
  ASSUME CrcAssumption
  PROVE  SenderSpec => []CarriesMeasurement
<1>1. IInv => CarriesMeasurement
  <2> SUFFICES ASSUME IInv, at = "send"
               PROVE  LET m == DecodeRadarMeasurement(PayloadBytes(frame))
                      IN /\ AcceptedMeasurement(frame)
                         /\ m.timestamp = stamp
                         /\ 2 * Apart(PARTS * m.range, measured.range) <= PARTS
                         /\ SameDirection(PARTS * m.azimuth, measured.azimuth)
    BY DEF CarriesMeasurement
  <2> DEFINE range == Round(measured.range)
             azimuth == SentAzimuth
  <2>1. /\ Packs(stamp, range, azimuth)
        /\ frame = BuildRadarFrame(stamp, range, azimuth)
        /\ RangeIsRepresentable(measured.range)
        /\ Is("radar_sender") => measured.azimuth = PARTS * options.azimuth
    BY DEF IInv, MadeInv
  <2>2. /\ measured.range \in Int /\ measured.azimuth \in Int
        /\ options.azimuth \in Int
        /\ PARTS \in Nat /\ PARTS > 0
    BY OptionFacts, WireNumbers DEF IInv, SenderTypeOK, Reading
  <2>3. azimuth \in Int /\ SameDirection(PARTS * azimuth, measured.azimuth)
    <3>1. CASE Is("radar_sender")
      <4>1. azimuth = options.azimuth /\ measured.azimuth = PARTS * options.azimuth
        BY <2>1, <3>1 DEF SentAzimuth
      <4>2. measured.azimuth \in Int /\ azimuth \in Int
        BY <2>2, <4>1
      <4>3. SameDirection(measured.azimuth, measured.azimuth)
        BY <4>2, SameDirectionAsItself
      <4>4. QED
        BY <4>1, <4>2, <4>3
    <3>2. CASE ~Is("radar_sender")
      <4>1. azimuth = Semicircles(measured.azimuth)
        BY <3>2 DEF SentAzimuth
      <4>2. QED
        BY <2>2, <4>1, SemicirclesFacts
    <3>3. QED
      BY <3>1, <3>2
  <2>4. range /= 0
    BY <2>1, WireNumbers DEF RangeIsRepresentable
  <2>5. 2 * Apart(PARTS * range, measured.range) <= PARTS
    <3>1. /\ range \in Int /\ 2 * PARTS * range <= 2 * measured.range + PARTS
          /\ 2 * measured.range <= 2 * PARTS * range + PARTS
      BY <2>2, RoundFacts
    <3> DEFINE d == measured.range
    <3> HIDE DEF range, d
    <3>2. range \in Int /\ d \in Int /\ PARTS * range \in Int
          /\ 2 * PARTS * range = 2 * (PARTS * range)
      BY <2>2, <3>1 DEF d
    <3>3. 2 * PARTS * range <= 2 * d + PARTS /\ 2 * d <= 2 * PARTS * range + PARTS
      BY <3>1 DEF d
    <3>4. 2 * Apart(PARTS * range, d) <= PARTS
      BY <2>2, <3>2, <3>3 DEF Apart
    <3>5. QED
      BY <3>4 DEF d
  <2> HIDE DEF range, azimuth
  <2>6. /\ AcceptedMeasurement(frame)
        /\ DecodeRadarMeasurement(PayloadBytes(frame)) =
             [timestamp |-> stamp, range |-> range, azimuth |-> azimuth]
    BY <2>1, <2>3, <2>4, FramesDecode
  <2>7. QED
    BY <2>3, <2>5, <2>6
<1>2. QED
  BY <1>1, SendersInvariant, PTL

(* Seen from the board, all three programs send one INIT and then          *)
(* measurements whose timestamps do not go back (run_sim.py:22-26, :32-54, *)
(* gui_worker.py:74-106).                                                  *)
THEOREM SendersTransmitRuns == SenderSpec => TransmitsRuns
<1>1. Init => Heard = ToldTo!Silence
  BY DEF Init, Heard, ToldTo!Silence
<1>2. IInv /\ [Next]_senderVars => [ToldTo!Next]_Heard
  <2> SUFFICES ASSUME IInv, [Next]_senderVars, Heard' /= Heard
               PROVE  ToldTo!Next
    OBVIOUS
  <2>1. CASE SendInit
    <3>1. ToldTo!Begin
      BY <2>1, SendInitHears DEF ToldTo!Begin
    <3>2. QED
      BY <3>1 DEF ToldTo!Next
  <2>2. CASE Write
    <3>1. /\ options.port /\ at = "send"
          /\ Heard' = [type |-> "MEAS", timestamp |-> stamp]
          /\ stamp \in 0 .. LONG - 1
      BY <2>2, WriteHears DEF Write
    <3>2. Heard' \in ToldTo!Measurements(0 .. LONG - 1)
      BY <3>1 DEF ToldTo!Measurements
    <3>3. Heard \in {ToldTo!Init} \union ToldTo!Measurements(0 .. LONG - 1)
      BY <3>1 DEF IInv, LineInv, Running
    <3>4. CASE Heard = ToldTo!Init
      BY <3>2, <3>4 DEF ToldTo!Next, ToldTo!First
    <3>5. CASE Heard \in ToldTo!Measurements(0 .. LONG - 1)
      <4>1. /\ Heard.type = "MEAS" /\ Heard.timestamp \in 0 .. LONG - 1
            /\ Heard = [type |-> "MEAS", timestamp |-> Heard.timestamp]
        BY <3>5 DEF ToldTo!Measurements
      <4>2. Heard.timestamp <= stamp
        BY <3>1, <4>1 DEF IInv, AdvanceInv, HasSent, Advances
      <4>3. Heard.timestamp /= stamp
        BY <3>1, <4>1
      <4> DEFINE h == Heard.timestamp
      <4> HIDE DEF h
      <4>7. /\ h \in Int /\ stamp \in Int /\ h <= stamp /\ h /= stamp
            /\ stamp <= LONG - 1 /\ LONG \in Nat
        BY <3>1, <4>1, <4>2, <4>3, WireNumbers DEF h
      <4>8. stamp \in h + 1 .. LONG - 1
        BY <4>7
      <4>4. stamp \in Heard.timestamp + 1 .. LONG - 1
        BY <4>8 DEF h
      <4>5. Heard' \in ToldTo!Measurements(Heard.timestamp + 1 .. LONG - 1)
        BY <3>1, <4>4 DEF ToldTo!Measurements
      <4>6. QED
        BY <4>1, <4>5 DEF ToldTo!Next, ToldTo!Later
    <3>6. QED
      BY <3>3, <3>4, <3>5
  <2>3. CASE Next /\ ~SendInit /\ ~Write
    BY <2>3, PortKept
  <2>4. CASE UNCHANGED senderVars
    BY <2>4, HeardKept DEF senderVars
  <2>5. QED
    BY <2>1, <2>2, <2>3, <2>4
<1>3. QED
  BY <1>1, <1>2, SendersInvariant, PTL
  DEF SenderSpec, TransmitsRuns, ToldTo!Spec

(* Two measurements of a run never have the same timestamp, but for        *)
(* radar_sender at 1000 Hz and above, where the truncated products may     *)
(* repeat (run_sim.py:33, :81, radar_sender.py:28, :54).                   *)
THEOREM SendersTimestampsAdvance == SenderSpec => TimestampsAdvance
<1> DEFINE Step == WritesMeasurement /\ Heard.type = "MEAS"
                     /\ (Is("radar_sender") => options.period > PARTS) =>
                       Heard'.timestamp > Heard.timestamp
<1>1. IInv /\ [Next]_senderVars => [Step]_senderVars
  <2> SUFFICES ASSUME IInv, Next, WritesMeasurement, Heard.type = "MEAS",
                      Is("radar_sender") => options.period > PARTS
               PROVE  Heard'.timestamp > Heard.timestamp
    OBVIOUS
  <2>1. Write /\ options.port /\ at = "send"
    <3>1. at = "send" /\ at' = "sent" /\ options.port
      BY DEF WritesMeasurement
    <3>2. Write
      BY <3>1 DEF Next, Check, SendInit, Begin, WriteFails, RadarSenderEnds,
         RadarSenderMeasures, RadarSenderSleeps, RunSimEnds, RunSimMeasures,
         RunSimSends, RunSimGoesOn, RunSimSleeps, GuiWorkerEnds,
         GuiWorkerMeasures, GuiWorkerGoesOn, Wake, Tick
    <3>3. QED
      BY <3>1, <3>2
  <2>2. Heard'.timestamp = stamp /\ stamp \in Int
    BY <2>1, WriteHears
  <2>3. HasSent /\ Heard.timestamp \in Int
    BY HeardTimestamp DEF HasSent
  <2>4. Heard.timestamp < stamp
    BY <2>1, <2>3 DEF IInv, AdvanceInv, Advances
  <2>5. QED
    BY <2>2, <2>3, <2>4
<1>2. QED
  BY <1>1, SendersInvariant, PTL DEF SenderSpec, TimestampsAdvance

(* After a delay radar_sender and the GUI keep a period between two        *)
(* writes (gui_worker.py:105, GUI.md:55).                                  *)
THEOREM SendersDoNotCatchUp == SenderSpec => NoCatchUp
<1> DEFINE Step == WritesMeasurement /\ Heard.type = "MEAS" /\ ~Is("run_sim") =>
                     now - lastWrite >= options.period
<1>1. IInv /\ [Next]_senderVars => [Step]_senderVars
  BY DEF WritesMeasurement, IInv, PaceInv, HasSent
<1>2. QED
  BY <1>1, SendersInvariant, PTL DEF SenderSpec, NoCatchUp

----------------------------------------------------------------------------
(* Induction up to a number, over a set instead of a predicate.            *)

LEMMA LeastElement ==
  ASSUME NEW T, T \subseteq Nat, T /= {}
  PROVE  \E x \in T : \A y \in T : x <= y
<1> DEFINE R == OpToRel(<, Nat)
<1>1. IsWellFoundedOn(R, Nat)
  BY NatLessThanWellFounded
<1>2. \A x, y \in Nat : x < y => <<x, y>> \in R
  BY DEF OpToRel
<1> HIDE DEF R
<1>3. PICK x \in T : \A y \in T : ~(<<y, x>> \in R)
  BY <1>1, WFMin
<1>4. ASSUME NEW y \in T PROVE x <= y
  <2>1. ~(y < x)
    BY <1>2, <1>3
  <2>2. x \in Nat /\ y \in Nat
    OBVIOUS
  <2>3. QED
    BY <2>1, <2>2
<1>5. QED
  BY <1>4

LEMMA InductionUpTo ==
  ASSUME NEW T, NEW n \in Nat, 0 \in T,
         \A i \in 0 .. n - 1 : i \in T => i + 1 \in T
  PROVE  0 .. n \subseteq T
<1> DEFINE U == (0 .. n) \ T
<1> SUFFICES ASSUME U /= {} PROVE FALSE
  OBVIOUS
<1>1. U \subseteq Nat /\ U /= {}
  OBVIOUS
<1> HIDE DEF U
<1>2. PICK x \in U : \A y \in U : x <= y
  BY <1>1, LeastElement
<1>3. x /= 0 /\ x \in 0 .. n /\ x \notin T
  BY <1>2 DEF U
<1>4. x - 1 \in 0 .. n - 1 /\ ~(x <= x - 1) /\ (x - 1) + 1 = x
  BY <1>3
<1>5. x - 1 \in T
  BY <1>2, <1>3, <1>4 DEF U
<1>6. QED
  BY <1>3, <1>4, <1>5

----------------------------------------------------------------------------
(* A frame on a line without loss, from the search for STX on: `run` is    *)
(* the parser before the first byte and after each.                        *)
Parses(f, run) ==
  /\ run \in [0 .. Len(f) -> ParserRecord]
  /\ ParserConsistent(run[0]) /\ run[0].state = "WAIT_STX"
  /\ \A i \in 0 .. Len(f) - 1 : run[i + 1] = ParserFeed(run[i], f[i + 1])

LEMMA ValidFrameFacts ==
  ASSUME NEW f \in Seq(Byte), ValidFrame(f)
  PROVE  /\ Len(f) \in Nat /\ f[2] \in 1 .. MAX_PAYLOAD /\ Len(f) = f[2] + 5
         /\ f[1] = STX /\ Len(f) >= 6
<1>1. Len(f) \in Nat
  BY LenProperties
<1>2. QED
  BY <1>1, ParserAssumption DEF ValidFrame, FramePrefix, Complete

(* What a beginning of a valid frame looks like.                           *)
LEMMA Beginnings ==
  ASSUME NEW f \in Seq(Byte), ValidFrame(f), NEW i \in 0 .. Len(f) - 1
  PROVE  LET s == Append(SubSeq(f, 1, i), f[i + 1])
         IN  /\ s = SubSeq(f, 1, i + 1) /\ Len(s) = i + 1 /\ FramePrefix(s)
             /\ Complete(s) <=> i + 1 = Len(f)
             /\ i + 1 = Len(f) => s = f
<1>1. /\ Len(f) \in Nat /\ f[2] \in 1 .. MAX_PAYLOAD /\ Len(f) = f[2] + 5
      /\ f[1] = STX /\ Len(f) >= 6
  BY ValidFrameFacts
<1>2. \A k \in 1 .. Len(f) : f[k] \in Byte
  BY ElementOfSeq
<1>3. \A k \in 0 .. Len(f) :
        /\ SubSeq(f, 1, k) \in Seq(Byte) /\ Len(SubSeq(f, 1, k)) = k
        /\ \A j \in 1 .. k : SubSeq(f, 1, k)[j] = f[j]
  <2> TAKE k \in 0 .. Len(f)
  <2>1. k \in Nat /\ \A j \in 1 .. k : f[j] \in Byte
    BY <1>1, <1>2
  <2>2. QED
    BY <1>1, <2>1, SubSeqProperties
<1> DEFINE t == SubSeq(f, 1, i)
           u == SubSeq(f, 1, i + 1)
           s == Append(t, f[i + 1])
<1>4. /\ i \in Nat /\ i \in 0 .. Len(f)
      /\ i + 1 \in 0 .. Len(f) /\ i + 1 \in 1 .. Len(f)
  BY <1>1
<1>5. /\ t \in Seq(Byte) /\ Len(t) = i /\ \A j \in 1 .. i : t[j] = f[j]
      /\ u \in Seq(Byte) /\ Len(u) = i + 1 /\ \A j \in 1 .. i + 1 : u[j] = f[j]
  BY <1>3, <1>4
<1> HIDE DEF t, u
<1>6. /\ s \in Seq(Byte) /\ Len(s) = i + 1
      /\ \A j \in 1 .. i : s[j] = t[j]
      /\ s[i + 1] = f[i + 1]
  BY <1>2, <1>4, <1>5, AppendProperties
<1> HIDE DEF s
<1>7. \A j \in 1 .. i + 1 : s[j] = f[j]
  BY <1>4, <1>5, <1>6
<1>8. s = u
  BY <1>5, <1>6, <1>7, SeqEqual
<1>9. i + 1 = Len(f) => s = f
  BY <1>6, <1>7, SeqEqual
<1>10. FramePrefix(s) /\ (Complete(s) <=> i + 1 = Len(f))
  <2>1. s[1] = STX
    BY <1>1, <1>4, <1>7
  <2>2. Len(s) >= 2 => s[2] = f[2]
    BY <1>4, <1>6, <1>7
  <2>3. QED
    BY <1>1, <1>4, <1>6, <2>1, <2>2 DEF FramePrefix, Complete
<1>11. QED
  BY <1>6, <1>8, <1>9, <1>10 DEF s, t, u

LEMMA FrameIsRead ==
  ASSUME NEW f \in Seq(Byte), ValidFrame(f), NEW run, Parses(f, run),
         NEW i \in 0 .. Len(f) - 1
  PROVE  /\ run[i] \in ParserRecord /\ ParserConsistent(run[i])
         /\ Partial(run[i]) = SubSeq(f, 1, i)
<1> DEFINE n == Len(f) - 1
           T == {k \in 0 .. n : /\ run[k] \in ParserRecord
                                /\ ParserConsistent(run[k])
                                /\ Partial(run[k]) = SubSeq(f, 1, k)}
<1>1. Len(f) \in Nat /\ Len(f) >= 6 /\ \A k \in 1 .. Len(f) : f[k] \in Byte
  BY ValidFrameFacts, ElementOfSeq
<1>2. n \in Nat
  BY <1>1
<1>3. 0 \in T
  <2>1. run[0] \in ParserRecord /\ ParserConsistent(run[0])
    BY <1>1 DEF Parses
  <2>2. Partial(run[0]) = <<>>
    BY <2>1, SearchHoldsNothing DEF Parses
  <2>3. SubSeq(f, 1, 0) = <<>>
    BY <1>1, SubSeqProperties, EmptySeq
  <2>4. Partial(run[0]) = SubSeq(f, 1, 0)
    BY <2>2, <2>3
  <2>5. 0 \in 0 .. n
    BY <1>2
  <2> HIDE DEF n
  <2>6. QED
    BY <2>1, <2>4, <2>5, Zenon
<1>4. ASSUME NEW k \in 0 .. n - 1, k \in T PROVE k + 1 \in T
  <2> DEFINE p == run[k]
             b == f[k + 1]
             q == run[k + 1]
             s == Append(Partial(p), b)
  <2>1. /\ k \in 0 .. Len(f) - 1 /\ k + 1 \in 1 .. Len(f) /\ k + 1 \in 0 .. n
        /\ k + 1 /= Len(f)
    BY <1>1
  <2>2. /\ p \in ParserRecord /\ ParserConsistent(p)
        /\ Partial(p) = SubSeq(f, 1, k)
    BY <1>4
  <2>3. b \in Byte /\ q = ParserFeed(p, b)
    BY <1>1, <2>1 DEF Parses
  <2>4. s = SubSeq(f, 1, k + 1) /\ FramePrefix(s) /\ ~Complete(s)
    BY <2>1, <2>2, Beginnings
  <2>5. q \in ParserRecord /\ ParserConsistent(q)
    BY <2>2, <2>3, FeedConsistent
  <2> HIDE DEF s
  <2>6. Partial(q) = s
    BY <2>2, <2>3, <2>4, FeedScans DEF s
  <2>7. QED
    BY <2>1, <2>4, <2>5, <2>6
<1> HIDE DEF T
<1>5. 0 .. n \subseteq T
  BY <1>2, <1>3, <1>4, InductionUpTo
<1>6. QED
  BY <1>5 DEF T

(* A valid frame that reaches a searching parser without loss is reported  *)
(* at its last byte and not before, and the fields then are its type and   *)
(* its payload (frame_parser.c:12-72).                                     *)
THEOREM ValidFramesAreTaken ==
  ASSUME NEW f \in Seq(Byte), ValidFrame(f), NEW run, Parses(f, run)
  PROVE  /\ \A i \in 1 .. Len(f) :
              FeedResult(run[i - 1], f[i]) =
                IF i = Len(f) THEN "FRAME_READY" ELSE "INCOMPLETE"
         /\ run[Len(f)].type = TypeOf(f)
         /\ PayloadOf(run[Len(f)]) = PayloadBytes(f)
<1>1. /\ Len(f) \in Nat /\ f[2] \in 1 .. MAX_PAYLOAD /\ Len(f) = f[2] + 5
      /\ f[1] = STX /\ Len(f) >= 6
  BY ValidFrameFacts
<1>2. \A k \in 1 .. Len(f) : f[k] \in Byte
  BY ElementOfSeq
<1>3. ASSUME NEW i \in 1 .. Len(f)
      PROVE  FeedResult(run[i - 1], f[i]) =
               IF i = Len(f) THEN "FRAME_READY" ELSE "INCOMPLETE"
  <2> DEFINE k == i - 1
             p == run[k]
             b == f[i]
             s == Append(Partial(p), b)
  <2>1. k \in 0 .. Len(f) - 1 /\ k + 1 = i
    BY <1>1
  <2>2. /\ p \in ParserRecord /\ ParserConsistent(p)
        /\ Partial(p) = SubSeq(f, 1, k)
    BY <2>1, FrameIsRead
  <2>3. b \in Byte
    BY <1>2
  <2>4. /\ FramePrefix(s) /\ (Complete(s) <=> i = Len(f))
        /\ i = Len(f) => s = f
    <3> HIDE DEF k
    <3>1. s = Append(SubSeq(f, 1, k), f[k + 1])
      BY <2>1, <2>2
    <3>2. QED
      BY <2>1, <3>1, Beginnings
  <2> HIDE DEF s
  <2>5. \/ ~FramePrefix(s)
        \/ FramePrefix(s) /\ ~Complete(s) /\ FeedResult(p, b) = "INCOMPLETE"
        \/ /\ FramePrefix(s) /\ Complete(s)
           /\ FeedResult(p, b) = IF ValidFrame(s) THEN "FRAME_READY" ELSE "CRC_ERROR"
    BY <2>2, <2>3, FeedScans DEF s
  <2>6. QED
    BY <2>4, <2>5
<1> DEFINE last == Len(f) - 1
           n == f[2]
           p == run[last]
           q == run[Len(f)]
<1>4. /\ last \in 0 .. Len(f) - 1 /\ last + 1 = Len(f)
      /\ last = n + 4 /\ n \in Nat /\ n >= 1
  BY <1>1, ParserAssumption
<1>5. /\ p \in ParserRecord /\ ParserConsistent(p)
      /\ Partial(p) = SubSeq(f, 1, last)
  BY <1>4, FrameIsRead
<1>6. /\ Len(Partial(p)) = last /\ ParserPosition(p) = last
      /\ \A i \in 1 .. last : WireByte(p, i) = f[i]
  <2>1. /\ last \in Nat /\ \A j \in 1 .. last : f[j] \in Byte
    BY <1>1, <1>2, <1>4
  <2>2. /\ Len(SubSeq(f, 1, last)) = last
        /\ \A j \in 1 .. last : SubSeq(f, 1, last)[j] = f[j]
    BY <1>1, <2>1, SubSeqProperties
  <2>3. /\ Len(Partial(p)) = ParserPosition(p)
        /\ \A j \in 1 .. ParserPosition(p) : Partial(p)[j] = WireByte(p, j)
    BY <1>5, PartialIsSeq
  <2>4. QED
    BY <1>5, <2>2, <2>3
<1>7. q = ParserFeed(p, f[Len(f)])
  BY <1>4 DEF Parses
<1> HIDE DEF last, q, n
<1>8. p.payload_length = n /\ p.type = f[3]
  <2>1. WireByte(p, 2) = p.payload_length /\ WireByte(p, 3) = p.type
    BY DEF WireByte
  <2>2. 2 \in 1 .. last /\ 3 \in 1 .. last
    BY <1>4
  <2>3. QED
    BY <1>6, <2>1, <2>2 DEF n
<1>9. p.state = "WAIT_CRC_L" /\ p.payload_index = n
  <2>1. ParserPosition(p) = n + 4
    BY <1>4, <1>6
  <2>2. p.state \in ParserStates /\ p.payload_index \in Nat
    BY <1>5, ParserAssumption DEF ParserRecord
  <2>3. QED
    BY <1>4, <1>5, <1>8, <2>1, <2>2
    DEF ParserConsistent, ParserPosition, ParserStates
<1>10. \A i \in 1 .. n : p.payload[i - 1] = f[i + 3]
  <2> TAKE i \in 1 .. n
  <2>1. /\ i + 3 \in 1 .. last /\ i + 3 > 3 /\ i + 3 <= p.payload_index + 3
        /\ (i + 3) - 4 = i - 1
    BY <1>4, <1>9
  <2>2. WireByte(p, i + 3) = p.payload[(i + 3) - 4]
    BY <2>1 DEF WireByte
  <2>3. QED
    BY <1>6, <2>1, <2>2
<1>11. q.payload_length = n /\ q.type = f[3] /\ q.payload = p.payload
  BY <1>5, <1>7, <1>8, <1>9
  DEF ParserFeed, FeedCrcL, WithCrcL, ParserRecord
<1>12. PayloadOf(q) = PayloadBytes(f)
  <2>1. Len(f) - 2 = n + 3
    BY <1>1 DEF n
  <2>2. /\ SubSeq(f, 4, n + 3) \in Seq(Byte) /\ Len(SubSeq(f, 4, n + 3)) = n
        /\ \A i \in 1 .. n : SubSeq(f, 4, n + 3)[i] = f[3 + i]
    <3>1. \A i \in 4 .. n + 3 : f[i] \in Byte
      BY <1>1, <1>2, <1>4, <2>1
    <3>2. QED
      BY <1>4, <3>1, SubSeqProperties
  <2>3. PayloadOf(q) = [i \in 1 .. n |-> p.payload[i - 1]]
    BY <1>11 DEF PayloadOf
  <2>4. \A i \in 1 .. n : PayloadOf(q)[i] = f[i + 3] /\ f[i + 3] \in Byte
    BY <1>1, <1>2, <1>4, <1>10, <2>1, <2>3
  <2>5. PayloadOf(q) \in Seq(Byte) /\ Len(PayloadOf(q)) = n
    <3>1. PayloadOf(q) \in [1 .. n -> Byte]
      BY <2>3, <2>4
    <3>2. QED
      BY <1>4, <3>1, SeqDef, LenProperties
  <2>6. \A i \in 1 .. n : 3 + i = i + 3
    BY <1>4
  <2>7. PayloadOf(q) = SubSeq(f, 4, n + 3)
    BY <2>2, <2>4, <2>5, <2>6, SeqEqual
  <2>8. QED
    BY <2>1, <2>7 DEF PayloadBytes
<1>13. QED
  BY <1>3, <1>11, <1>12 DEF q, TypeOf

(* From the numbers of the sender to those of the receiver: when a program *)
(* of pc_sim writes a frame and nothing of it is lost, a parser that       *)
(* searches reports it at its last byte, and the board decodes and accepts *)
(* the timestamp, the rounded range and the azimuth that were packed       *)
(* (protocol.py:46-56, frame_parser.c:12-72, radar_message.c:20-43).       *)
IsTakenAs(f, m) ==
  \A run : Parses(f, run) =>
    LET payload == PayloadOf(run[Len(f)])
    IN  /\ \A i \in 1 .. Len(f) :
             FeedResult(run[i - 1], f[i]) =
               IF i = Len(f) THEN "FRAME_READY" ELSE "INCOMPLETE"
        /\ run[Len(f)].type = TYPE_RADAR_MEAS /\ DecodesLength(payload)
        /\ DecodeRadarMeasurement(payload) = m /\ ValidateRadarMeasurement(m)

THEOREM SendersReachTheBoard ==
  ASSUME CrcAssumption
  PROVE  SenderSpec =>
           [](at = "send" =>
                IsTakenAs(frame, [timestamp |-> stamp,
                                  range     |-> Round(measured.range),
                                  azimuth   |-> SentAzimuth]))
<1>1. ASSUME IInv, at = "send"
      PROVE  IsTakenAs(frame, [timestamp |-> stamp,
                               range     |-> Round(measured.range),
                               azimuth   |-> SentAzimuth])
  <2> DEFINE range == Round(measured.range)
             azimuth == SentAzimuth
             m == [timestamp |-> stamp, range |-> range, azimuth |-> azimuth]
  <2>1. /\ Packs(stamp, range, azimuth)
        /\ frame = BuildRadarFrame(stamp, range, azimuth)
        /\ RangeIsRepresentable(measured.range)
    BY <1>1 DEF IInv, MadeInv
  <2>2. /\ measured.azimuth \in Int /\ options.azimuth \in Int
    BY <1>1, OptionFacts DEF IInv, SenderTypeOK, Reading
  <2>3. azimuth \in Int
    BY <2>2, SemicirclesFacts DEF SentAzimuth
  <2>4. range /= 0
    BY <2>1, WireNumbers DEF RangeIsRepresentable
  <2> HIDE DEF range, azimuth
  <2>5. frame \in Seq(Byte)
    BY <2>1, <2>3, FrameIsBytes
  <2>6. AcceptedMeasurement(frame) /\ DecodeRadarMeasurement(PayloadBytes(frame)) = m
    BY <2>1, <2>3, <2>4, FramesDecode
  <2> HIDE DEF m
  <2>7. /\ ValidFrame(frame) /\ TypeOf(frame) = TYPE_RADAR_MEAS
        /\ DecodesLength(PayloadBytes(frame)) /\ ValidateRadarMeasurement(m)
    BY <2>6 DEF AcceptedMeasurement
  <2>8. ASSUME NEW run, Parses(frame, run)
        PROVE  /\ \A i \in 1 .. Len(frame) :
                    FeedResult(run[i - 1], frame[i]) =
                      IF i = Len(frame) THEN "FRAME_READY" ELSE "INCOMPLETE"
               /\ run[Len(frame)].type = TypeOf(frame)
               /\ PayloadOf(run[Len(frame)]) = PayloadBytes(frame)
    BY <2>5, <2>7, <2>8, ValidFramesAreTaken
  <2>9. IsTakenAs(frame, m)
    BY <2>6, <2>7, <2>8 DEF IsTakenAs
  <2>10. QED
    BY <2>9 DEF m, range, azimuth
<1>2. QED
  BY <1>1, SendersInvariant, PTL

LEMMA InitFrameIsValid ==
  ASSUME CrcAssumption
  PROVE  BuildInitFrame \in Seq(Byte) /\ ValidFrame(BuildInitFrame)
<1> DEFINE f == BuildInitFrame
           p == <<0>>
           n == Len(p)
           body == <<n, TYPE_INIT>> \o p
           c == Crc(body)
<1>1. p \in Seq(Byte) /\ n = 1 /\ p \in Seq(Int) /\ TYPE_INIT \in Int
  BY ParserAssumption, TupleFacts DEF TYPE_INIT
<1>2. f = EncodeFrame(TYPE_INIT, p)
  BY DEF BuildInitFrame
<1>3. n \in Byte /\ TYPE_INIT \in Byte
  BY <1>1, WireAssumption DEF TYPE_INIT
<1>4. body \in Seq(Byte)
  <2> HIDE DEF p, n
  <2>1. <<n, TYPE_INIT>> \in Seq(Byte)
    BY <1>3, TupleFacts
  <2>2. QED
    BY <1>1, <2>1, ConcatProperties
<1>5. c \in Nat /\ c \div 256 \in Byte /\ c % 256 \in Byte
  BY <1>4 DEF CrcAssumption
<1>6. f = <<STX>> \o body \o <<c \div 256, c % 256>>
  BY <1>2 DEF EncodeFrame
<1> HIDE DEF p
<1>7. /\ Len(f) = n + 5 /\ f[1] = STX /\ f[2] = n
      /\ f[n + 4] = c \div 256 /\ f[n + 5] = c % 256
      /\ SubSeq(f, 2, n + 3) = body
  BY <1>1, <1>2, EncodedFrame
<1> HIDE DEF f, n, body
<1>8. f \in Seq(Byte)
  <2> HIDE DEF c
  <2>1. <<STX>> \in Seq(Byte) /\ <<c \div 256, c % 256>> \in Seq(Byte)
    BY <1>5, ParserAssumption, TupleFacts
  <2>2. <<STX>> \o body \in Seq(Byte)
    BY <1>4, <2>1, ConcatProperties
  <2>3. QED
    BY <1>6, <2>1, <2>2, ConcatProperties
<1>9. c = 256 * (c \div 256) + (c % 256)
  <2> HIDE DEF c
  <2>1. QED
    BY <1>5, DivisionFacts
<1>10. ValidFrame(f)
  <2>1. /\ Len(f) = 6 /\ f[1] = STX /\ f[2] = 1
        /\ f[5] = c \div 256 /\ f[6] = c % 256 /\ SubSeq(f, 2, 4) = body
    <3>1. n + 5 = 6 /\ n + 4 = 5 /\ n + 3 = 4
      BY <1>1
    <3>2. QED
      BY <1>1, <1>7, <3>1
  <2>2. FramePrefix(f) /\ Complete(f)
    BY <2>1, ParserAssumption DEF FramePrefix, Complete
  <2>3. Len(f) - 2 = 4 /\ Len(f) - 1 = 5
    BY <2>1
  <2> HIDE DEF c
  <2>4. Crc(SubSeq(f, 2, Len(f) - 2)) = c
    BY <2>1, <2>3 DEF c
  <2>5. QED
    BY <1>9, <2>1, <2>2, <2>3, <2>4 DEF ValidFrame
<1>11. QED
  BY <1>8, <1>10 DEF f

(* The same for INIT: a searching parser reports it at its last byte, and  *)
(* handle_frame, which looks at the type only, resets the track            *)
(* (protocol.py:28, frame_parser.c:12-72, frame_handler.c:82).             *)
THEOREM InitReachesTheBoard ==
  ASSUME CrcAssumption, NEW run, Parses(BuildInitFrame, run)
  PROVE  LET n == Len(BuildInitFrame)
         IN  /\ \A i \in 1 .. n :
                  FeedResult(run[i - 1], BuildInitFrame[i]) =
                    IF i = n THEN "FRAME_READY" ELSE "INCOMPLETE"
             /\ run[n].type = TYPE_INIT
<1> DEFINE f == BuildInitFrame
<1>1. f \in Seq(Byte) /\ ValidFrame(f)
  BY InitFrameIsValid
<1>2. TypeOf(f) = TYPE_INIT
  BY InitFrameFacts
<1>3. Parses(f, run)
  OBVIOUS
<1> HIDE DEF f
<1>4. /\ \A i \in 1 .. Len(f) :
           FeedResult(run[i - 1], f[i]) =
             IF i = Len(f) THEN "FRAME_READY" ELSE "INCOMPLETE"
      /\ run[Len(f)].type = TypeOf(f)
  BY <1>1, <1>3, ValidFramesAreTaken
<1>5. QED
  BY <1>2, <1>4 DEF f
=============================================================================

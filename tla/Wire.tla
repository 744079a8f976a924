-------------------------------- MODULE Wire --------------------------------
(***************************************************************************)
(* The two ends of the line: pc_sim/protocol.py, which makes frames, and   *)
(* fcc_app/src/radar_message.c, which reads the payload of a measurement.  *)
(*                                                                         *)
(*    payload:  timestamp[4]  range[2]  azimuth[4]     most significant    *)
(*              ms            m         semicircles    byte first          *)
(*                                                                         *)
(* A byte has BASE values.  A real number is given in PARTS of its unit:   *)
(* metres, milliseconds, and for an angle the unit of the wire, of which   *)
(* there are LONG in a full turn.  What floating point adds to that, less  *)
(* than a part, is left out.                                               *)
(***************************************************************************)
EXTENDS FrameParser

CONSTANTS BASE,    \* values of a byte
          PARTS    \* parts per unit of a real number

ASSUME WireAssumption == /\ BASE \in Nat /\ BASE >= 11
                         /\ Byte = 0 .. BASE - 1
                         /\ MAX_PAYLOAD >= 10
                         /\ PARTS \in Nat \ {0} /\ PARTS % 2 = 0

WORD == BASE * BASE      \* values of a uint16
LONG == WORD * WORD      \* values of a uint32

TYPE_INIT       == 1
TYPE_RADAR_MEAS == 2

----------------------------------------------------------------------------
(* encode_frame.  Its two callers pass payloads of 1 and 10 bytes, so it   *)
(* never refuses one.                                                      *)
EncodeFrame(type, payload) ==
  LET body == <<Len(payload), type>> \o payload
  IN <<STX>> \o body \o <<Crc(body) \div 256, Crc(body) % 256>>

BuildInitFrame == EncodeFrame(TYPE_INIT, <<0>>)

\* Mutant: the less significant byte first.
Bytes2Swapped(n) == <<n % BASE, n \div BASE>>

Bytes2(n) == <<n \div BASE, n % BASE>>

Bytes4(n) == Bytes2(n \div WORD) \o Bytes2(n % WORD)

TwosComplement(n) == IF n < 0 THEN n + LONG ELSE n

IsUint32(n) == n \in 0 .. LONG - 1
IsUint16(n) == n \in 0 .. WORD - 1
IsInt32(n)  == -LONG <= 2 * n /\ 2 * n < LONG

(* Whether struct.pack(">IHi", ...) takes the three numbers.               *)
Packs(timestamp, range, azimuth) ==
  IsUint32(timestamp) /\ IsUint16(range) /\ IsInt32(azimuth)

BuildRadarFrame(timestamp, range, azimuth) ==
  EncodeFrame(TYPE_RADAR_MEAS,
              Bytes4(timestamp) \o Bytes2(range) \o Bytes4(TwosComplement(azimuth)))

(* Python's round: to the nearest integer, and from the middle to the even *)
(* one.                                                                    *)
Round(x) ==
  LET below == x \div PARTS
      rest  == x % PARTS
  IN IF 2 * rest < PARTS \/ (2 * rest = PARTS /\ below % 2 = 0)
       THEN below ELSE below + 1

(* Half a turn, in parts.                                                  *)
PI == (PARTS \div 2) * LONG

(* An angle is reduced to one turn, rounded, and reduced again: it may     *)
(* have been rounded up to half a turn.                                    *)
Semicircles(angle) ==
  LET wrapped == ((angle + PI) % (2 * PI)) - PI
  IN ((Round(wrapped) + LONG \div 2) % LONG) - LONG \div 2

(* build_radar_frame_from_radians raises ValueError otherwise; then it     *)
(* builds the frame of the rounded numbers.  No sender passes it an        *)
(* infinite number or one that is none.                                    *)
RangeIsRepresentable(range) == Round(range) \in 1 .. WORD - 1

----------------------------------------------------------------------------
(* decode_radar_measurement and validate_radar_measurement.  The azimuth   *)
(* stays in semicircles: the C code multiplies it by a constant.           *)

(* `payload` is the bytes between TYPE and CRC.                            *)
DecodesLength(payload) == Len(payload) = 10

UInt16(high, low) == BASE * high + low

Signed(n) == IF 2 * n >= LONG THEN n - LONG ELSE n

DecodeRadarMeasurement(payload) ==
  [timestamp |-> WORD * UInt16(payload[1], payload[2])
                   + UInt16(payload[3], payload[4]),
   range     |-> UInt16(payload[5], payload[6]),
   azimuth   |-> Signed(WORD * UInt16(payload[7], payload[8])
                   + UInt16(payload[9], payload[10]))]

(* In single precision the azimuth may be rounded up to half a turn, which *)
(* is still accepted.                                                      *)
ValidateRadarMeasurement(m) ==
  m.range /= 0 /\ -LONG <= 2 * m.azimuth /\ 2 * m.azimuth <= LONG

(* What handle_frame and handle_radar_measurement make of the frame that   *)
(* the parser has taken from the line.                                     *)
TypeOf(frame) == frame[3]

PayloadBytes(frame) == SubSeq(frame, 4, Len(frame) - 2)

AcceptedMeasurement(frame) ==
  /\ ValidFrame(frame)
  /\ TypeOf(frame) = TYPE_RADAR_MEAS
  /\ DecodesLength(PayloadBytes(frame))
  /\ ValidateRadarMeasurement(DecodeRadarMeasurement(PayloadBytes(frame)))
=============================================================================

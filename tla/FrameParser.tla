---------------------------- MODULE FrameParser ----------------------------
(***************************************************************************)
(* The byte-by-byte frame parser, fcc_app/src/frame_parser.c: `struct      *)
(* frame_parser` as a record, parser_init and parser_feed as operators on  *)
(* it, and the frame format the parser is meant to recognise.              *)
(*                                                                         *)
(*    STX  LEN  TYPE  PAYLOAD[1..LEN]  CRC_H  CRC_L                        *)
(*                                                                         *)
(* The checksum is a parameter: nothing here depends on which function of  *)
(* LEN, TYPE and PAYLOAD it is.                                            *)
(***************************************************************************)
EXTENDS Integers, Sequences

CONSTANTS Byte,          \* the values of a uint8_t
          STX,           \* the start-of-frame byte
          MAX_PAYLOAD,   \* size of the payload array
          Crc(_)         \* checksum of the sequence <<LEN, TYPE>> \o PAYLOAD

ASSUME ParserAssumption == /\ Byte \subseteq Nat
                           /\ 0 \in Byte
                           /\ STX \in Byte
                           /\ MAX_PAYLOAD \in Nat \ {0}

ParserStates == {"WAIT_STX", "WAIT_LEN", "WAIT_TYPE", "READ_PAYLOAD",
                 "WAIT_CRC_H", "WAIT_CRC_L"}

ParserResults == {"INCOMPLETE", "FRAME_READY", "CRC_ERROR", "LENGTH_ERROR"}

(* struct frame_parser.  The enum field `type` holds any received byte.    *)
ParserRecord == [state          : ParserStates,
                 payload_length : 0 .. MAX_PAYLOAD,
                 payload_index  : 0 .. MAX_PAYLOAD,
                 type           : Byte,
                 payload        : [0 .. MAX_PAYLOAD - 1 -> Byte],
                 received_crc   : Nat]

(* A static object: all zeroes before anything runs.                       *)
StaticParser == [state          |-> "WAIT_STX",
                 payload_length |-> 0,
                 payload_index  |-> 0,
                 type           |-> 0,
                 payload        |-> [i \in 0 .. MAX_PAYLOAD - 1 |-> 0],
                 received_crc   |-> 0]

(* payload and received_crc keep what an earlier frame left in them.       *)
ParserInit(p) == [p EXCEPT !.state          = "WAIT_STX",
                           !.payload_length = 0,
                           !.payload_index  = 0,
                           !.type           = 0]

PayloadOf(p) == [i \in 1 .. p.payload_length |-> p.payload[i - 1]]

FrameCrcIsValid(p) ==
  Crc(<<p.payload_length, p.type>> \o PayloadOf(p)) = p.received_crc

----------------------------------------------------------------------------
(* What one byte does to the parser: one operator per `case` of            *)
(* parser_feed, and what parser_feed returns for it.                       *)

\* Mutants: LEN may be zero; LEN may be one too long.
LengthIsBadNoZero(b)   == b > MAX_PAYLOAD
LengthIsBadOffByOne(b) == b = 0 \/ b > MAX_PAYLOAD + 1

LengthIsBad(b) == b = 0 \/ b > MAX_PAYLOAD

FeedStx(p, b) == IF b = STX THEN [p EXCEPT !.state = "WAIT_LEN"] ELSE p

FeedLen(p, b) ==
  IF LengthIsBad(b) THEN [p EXCEPT !.state = "WAIT_STX"]
                    ELSE [p EXCEPT !.payload_length = b, !.state = "WAIT_TYPE"]

\* Mutant: a second start byte is taken for the first.
FeedTypeSkipsStx(p, b) ==
  IF b = STX THEN p ELSE [p EXCEPT !.type = b, !.state = "READ_PAYLOAD"]

FeedType(p, b) == [p EXCEPT !.type = b, !.state = "READ_PAYLOAD"]

FeedPayload(p, b) ==
  [p EXCEPT !.payload[p.payload_index] = b,
            !.payload_index = p.payload_index + 1,
            !.state = IF p.payload_index + 1 = p.payload_length
                        THEN "WAIT_CRC_H" ELSE "READ_PAYLOAD"]

FeedCrcH(p, b) == [p EXCEPT !.received_crc = 256 * b, !.state = "WAIT_CRC_L"]

(* received_crc |= byte: the low half is still zero.                       *)
WithCrcL(p, b) == [p EXCEPT !.received_crc = p.received_crc + b]

\* Mutant: the index is not rewound after a frame.
FeedCrcLNoRewind(p, b) == [WithCrcL(p, b) EXCEPT !.state = "WAIT_STX"]

FeedCrcL(p, b) == [WithCrcL(p, b) EXCEPT !.state = "WAIT_STX",
                                         !.payload_index = 0]

ParserFeed(p, b) ==
  CASE p.state = "WAIT_STX"     -> FeedStx(p, b)
    [] p.state = "WAIT_LEN"     -> FeedLen(p, b)
    [] p.state = "WAIT_TYPE"    -> FeedType(p, b)
    [] p.state = "READ_PAYLOAD" -> FeedPayload(p, b)
    [] p.state = "WAIT_CRC_H"   -> FeedCrcH(p, b)
    [] p.state = "WAIT_CRC_L"   -> FeedCrcL(p, b)

FeedResult(p, b) ==
  CASE p.state = "WAIT_LEN" /\ LengthIsBad(b) -> "LENGTH_ERROR"
    [] p.state = "WAIT_CRC_L" ->
         IF FrameCrcIsValid(WithCrcL(p, b)) THEN "FRAME_READY" ELSE "CRC_ERROR"
    [] OTHER -> "INCOMPLETE"

----------------------------------------------------------------------------
(* The format, independently of the parser: a sequence of bytes that can   *)
(* still become a frame, one that has the length of a frame, and one whose *)
(* checksum is right as well.                                              *)

FramePrefix(s) ==
  /\ Len(s) >= 1 => s[1] = STX
  /\ Len(s) >= 2 => s[2] \in 1 .. MAX_PAYLOAD /\ Len(s) <= s[2] + 5

Complete(s) == Len(s) >= 2 /\ Len(s) = s[2] + 5

ValidFrame(s) ==
  /\ FramePrefix(s)
  /\ Complete(s)
  /\ Crc(SubSeq(s, 2, Len(s) - 2)) = 256 * s[Len(s) - 1] + s[Len(s)]

(* What was done to a parser last; `odd` tells it from the step before.    *)
InputRecord == [kind : {"none", "reset", "byte"}, byte : Byte, odd : BOOLEAN]

NoInput == [kind |-> "none", byte |-> 0, odd |-> FALSE]

NextInput(last, kind, b) == [kind |-> kind, byte |-> b, odd |-> ~last.odd]

(* Every byte of a frame but the last moves the parser one place forward;  *)
(* this is the place: how many bytes of a frame it has taken in.           *)
ParserPosition(p) ==
  CASE p.state = "WAIT_STX"     -> 0
    [] p.state = "WAIT_LEN"     -> 1
    [] p.state = "WAIT_TYPE"    -> 2
    [] p.state \in {"READ_PAYLOAD", "WAIT_CRC_H"} -> 3 + p.payload_index
    [] p.state = "WAIT_CRC_L"   -> 4 + p.payload_index

(* The bytes of the frame being received that the parser's fields stand    *)
(* for: its abstract state.                                                *)
WireByte(p, i) ==
  CASE i = 1 -> STX
    [] i = 2 -> p.payload_length
    [] i = 3 -> p.type
    [] i > 3 /\ i <= p.payload_index + 3 -> p.payload[i - 4]
    [] OTHER -> p.received_crc \div 256

Partial(p) == [i \in 1 .. ParserPosition(p) |-> WireByte(p, i)]

(* The fields agree with the state they are read in: the index points      *)
(* inside the payload while it is being read, and is zero whenever a new   *)
(* frame can begin.                                                        *)
ParserConsistent(p) ==
  /\ p.state \in {"WAIT_STX", "WAIT_LEN", "WAIT_TYPE"} => p.payload_index = 0
  /\ p.state \in {"WAIT_TYPE", "READ_PAYLOAD", "WAIT_CRC_H", "WAIT_CRC_L"} =>
       p.payload_length \in 1 .. MAX_PAYLOAD
  /\ p.state = "READ_PAYLOAD" => p.payload_index < p.payload_length
  /\ p.state \in {"WAIT_CRC_H", "WAIT_CRC_L"} =>
       p.payload_index = p.payload_length
  /\ p.state = "WAIT_CRC_L" => p.received_crc \in {256 * b : b \in Byte}
=============================================================================

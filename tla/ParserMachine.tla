--------------------------- MODULE ParserMachine ---------------------------
(***************************************************************************)
(* The parser alone, driven by any bytes at all and reset at any moment:   *)
(* what frame_parser.c promises to whoever feeds it.                       *)
(***************************************************************************)
EXTENDS FrameParser

VARIABLES parser,   \* the object parser_init and parser_feed work on
          result,   \* what the last parser_feed returned
          input     \* auxiliary: what was done last, see FrameScanner

parserVars == <<parser, result, input>>

MachineInit == /\ parser = ParserInit(StaticParser) /\ result = "INCOMPLETE"
               /\ input = NoInput

Feed(b) == /\ parser' = ParserFeed(parser, b)
           /\ result' = FeedResult(parser, b)
           /\ input' = NextInput(input, "byte", b)

Reset == /\ parser' = ParserInit(parser)
         /\ result' = "INCOMPLETE"
         /\ input' = NextInput(input, "reset", 0)

MachineNext == Reset \/ \E b \in Byte : Feed(b)

MachineSpec == MachineInit /\ [][MachineNext]_parserVars

----------------------------------------------------------------------------
(* Type invariant, with the index and the length inside the payload array. *)
ParserTypeOK == /\ parser \in ParserRecord /\ result \in ParserResults
                /\ input \in InputRecord

(* parser_feed writes payload[payload_index++] with no bounds check of its *)
(* own (frame_parser.c:37): what it relies on is that the index is zero    *)
(* wherever a frame can begin and below LEN <= MAX_PAYLOAD while the       *)
(* payload is read, after any mix of noise, resets and abandoned frames.   *)
PayloadIndexInBounds == ParserConsistent(parser)

(* Noise that looks like a frame cannot hold the parser: inside a frame,   *)
(* whatever byte comes either ends it with a verdict or brings the end     *)
(* closer, which is MAX_PAYLOAD + 4 bytes away at most                     *)
(* (frame_parser.c:18-66).                                                 *)
BytesLeft(p) == IF p.state = "WAIT_LEN" THEN MAX_PAYLOAD + 4
                ELSE p.payload_length + 5 - ParserPosition(p)

AlwaysProgresses ==
  parser.state /= "WAIT_STX" =>
    /\ BytesLeft(parser) \in 1 .. MAX_PAYLOAD + 4
    /\ \A b \in Byte :
         LET next == ParserFeed(parser, b)
         IN  IF next.state = "WAIT_STX"
               THEN FeedResult(parser, b) /= "INCOMPLETE"
               ELSE BytesLeft(next) < BytesLeft(parser)

(* The parser recognises exactly the frame format: at every byte it keeps  *)
(* those that can still become a frame and no others, and it reports every *)
(* frame whose checksum is right, no other, and at its last byte           *)
(* (frame_parser.c:12-72).  Only a reset makes it give up a frame.         *)
Scanner == INSTANCE FrameScanner WITH partial <- Partial(parser)

RecognisesFormat == Scanner!ScannerSpec
=============================================================================

---------------------------- MODULE FrameScanner ----------------------------
(***************************************************************************)
(* What a frame parser promises, without saying how it stores anything: it *)
(* keeps the bytes that may still become a frame, gives up on them as soon *)
(* as they no longer can, and decides on the checksum at the last byte.    *)
(*                                                                         *)
(* `input` changes with every byte and reset, so neither is ever a step    *)
(* that changes nothing: a parser implements this only if it does the      *)
(* right thing for each byte it is fed.                                    *)
(***************************************************************************)
EXTENDS FrameParser

VARIABLES partial,   \* the bytes of the frame being received
          result,    \* what the last byte led to
          input      \* what was done last: a byte was fed, or a reset

scannerVars == <<partial, result, input>>

ScannerInit == partial = <<>> /\ result = "INCOMPLETE" /\ input = NoInput

(* Outside a frame, anything but STX is noise; inside one, only the length *)
(* byte can make the frame impossible.                                     *)
Reject(s) ==
  /\ ~FramePrefix(s)
  /\ partial' = <<>>
  /\ result' = IF Len(s) = 1 THEN "INCOMPLETE" ELSE "LENGTH_ERROR"

Extend(s) ==
  /\ FramePrefix(s) /\ ~Complete(s)
  /\ partial' = s
  /\ result' = "INCOMPLETE"

Finish(s) ==
  /\ FramePrefix(s) /\ Complete(s)
  /\ partial' = <<>>
  /\ result' = IF ValidFrame(s) THEN "FRAME_READY" ELSE "CRC_ERROR"

Scan(b) == /\ input' = NextInput(input, "byte", b)
           /\ LET s == Append(partial, b) IN Reject(s) \/ Extend(s) \/ Finish(s)

Abandon == /\ input' = NextInput(input, "reset", 0)
           /\ partial' = <<>> /\ result' = "INCOMPLETE"

ScannerNext == Abandon \/ \E b \in Byte : Scan(b)

ScannerSpec == ScannerInit /\ [][ScannerNext]_scannerVars
=============================================================================

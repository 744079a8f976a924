------------------------------ MODULE MCUartRx ------------------------------
(* Lines of two frames, with and without damage, over the alphabet of      *)
(* MCParser: a frame of one payload byte is six bytes long.                *)
EXTENDS UartRx, FiniteSetsExt, SequencesExt

MCByte == {0, 1, 2, 3}

MCCrc(s) == LET total == FoldSeq(LAMBDA x, acc : (2 * acc + x) % 16, 1, s)
            IN  256 * (total \div 4) + (total % 4)

FrameOf(type, payload) ==
  LET body == <<Len(payload), type>> \o payload
      crc  == MCCrc(body)
  IN  <<STX>> \o body \o <<crc \div 256, crc % 256>>

First  == FrameOf(1, <<2>>)
Second == FrameOf(2, <<3>>)

Damaged == [First EXCEPT ![4] = 1]

MCStreams == {First \o Second,                        \* back to back
              SubSeq(First, 1, 4) \o Second,          \* the first stops short
              <<0, STX, 0>> \o Second,                \* noise, a bad length
              Damaged \o Second}                      \* a bad checksum
=============================================================================

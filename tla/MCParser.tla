------------------------------ MODULE MCParser ------------------------------
(* The parser over a four-letter alphabet that still has a start byte, a   *)
(* zero, both legal lengths, and bytes that are several of them at once.   *)
EXTENDS ParserMachine, FiniteSetsExt, SequencesExt

MCByte == {0, 1, 2, 3}

(* A checksum that depends on every byte and on the order of LEN and TYPE, *)
(* and whose halves are bytes of the alphabet.                             *)
MCCrc(s) == LET total == FoldSeq(LAMBDA x, acc : (2 * acc + x) % 16, 1, s)
            IN  256 * (total \div 4) + (total % 4)
=============================================================================

----------------------------- MODULE RingBuffer -----------------------------
(***************************************************************************)
(* fcc_app/src/ring_buffer.c: the ring between the UART interrupt and the  *)
(* RX thread.  One slot stays free so that full and empty can be told      *)
(* apart; head and tail are stored in IndexRange-valued (uint8_t) fields,  *)
(* while head + 1 is computed in an int and reduced before it is stored.   *)
(***************************************************************************)
EXTENDS Integers, Sequences

CONSTANTS Byte, BUFFER_SIZE,
          IndexRange   \* number of values of the type of head and tail

ASSUME RingAssumption == /\ 0 \in Byte
                         /\ BUFFER_SIZE \in Nat \ {0, 1}
                         /\ IndexRange \in Nat
                         /\ BUFFER_SIZE <= IndexRange

Index == 0 .. BUFFER_SIZE - 1

VARIABLES data, head, tail,   \* struct ring_buffer
          c,                  \* the byte ring_pop stored for its caller
          outcome             \* which operation ended last, and how

ringVars == <<data, head, tail, c, outcome>>

Init == /\ data = [i \in Index |-> 0]
        /\ head = 0 /\ tail = 0
        /\ c = 0 /\ outcome = "cleared"

\* Mutant: the int result is cut to the field before the wrap, not after it.
SuccNoWrap(i) == (i + 1) % IndexRange

Succ(i) == ((i + 1) % BUFFER_SIZE) % IndexRange

\* Mutant: head + 1 is compared with tail before it wraps.
FullNoWrap == head + 1 = tail

Full == Succ(head) = tail

Empty == head = tail

RingInit == /\ head' = 0 /\ tail' = 0
            /\ outcome' = "cleared"
            /\ UNCHANGED <<data, c>>

RingPush(b) ==
  \/ /\ Full
     /\ outcome' = "full"
     /\ UNCHANGED <<data, head, tail, c>>
  \/ /\ ~Full
     /\ data' = [data EXCEPT ![head] = b]
     /\ head' = Succ(head)
     /\ outcome' = "pushed"
     /\ UNCHANGED <<tail, c>>

RingPop ==
  \/ /\ Empty
     /\ outcome' = "empty"
     /\ UNCHANGED <<data, head, tail, c>>
  \/ /\ ~Empty
     /\ c' = data[tail]
     /\ tail' = Succ(tail)
     /\ outcome' = "popped"
     /\ UNCHANGED <<data, head>>

Next == RingInit \/ RingPop \/ \E b \in Byte : RingPush(b)

Spec == Init /\ [][Next]_ringVars

----------------------------------------------------------------------------
(* Type invariant: the indexes are inside the array.                       *)
RingTypeOK == /\ data \in [Index -> Byte]
              /\ head \in Index /\ tail \in Index
              /\ c \in Byte
              /\ outcome \in {"cleared", "pushed", "full", "popped", "empty"}

(* The bytes between tail and head, oldest first, across the wrap.         *)
Count == IF head >= tail THEN head - tail ELSE head + BUFFER_SIZE - tail

SlotOf(i) == IF tail + i - 1 < BUFFER_SIZE THEN tail + i - 1
                                           ELSE tail + i - 1 - BUFFER_SIZE

Contents == [i \in 1 .. Count |-> data[SlotOf(i)]]

(* The ring is a bounded FIFO of BUFFER_SIZE - 1 bytes: no byte is lost,   *)
(* repeated or reordered at any fill level, wrap or reset, and push and    *)
(* pop refuse exactly at full and empty (ring_buffer.c:9 and :18).         *)
Fifo == INSTANCE BoundedFifo WITH Value <- Byte, Capacity <- BUFFER_SIZE - 1,
                                  contents <- Contents, popped <- c

ImplementsFifo == Fifo!FifoSpec
=============================================================================

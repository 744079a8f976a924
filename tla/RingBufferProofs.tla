-------------------------- MODULE RingBufferProofs --------------------------
(***************************************************************************)
(* For every buffer size that fits the index type: the ring is a bounded   *)
(* FIFO of one byte less than it has slots.                                *)
(***************************************************************************)
EXTENDS RingBuffer, SequenceTheorems, TLAPS

(* The index after i, with neither of the two remainders.                  *)
LEMMA SuccIs ==
  ASSUME NEW i \in Index
  PROVE  /\ Succ(i) = IF i + 1 = BUFFER_SIZE THEN 0 ELSE i + 1
         /\ Succ(i) \in Index
<1>1. /\ BUFFER_SIZE \in Nat /\ BUFFER_SIZE > 1
      /\ IndexRange \in Nat /\ BUFFER_SIZE <= IndexRange
      /\ i \in Nat /\ i + 1 <= BUFFER_SIZE
  BY RingAssumption DEF Index
<1>2. \A x, n \in Nat : x < n => x % n = x
  OBVIOUS
<1>3. \A n \in Nat : n > 0 => n % n = 0
  OBVIOUS
<1>4. (i + 1) % BUFFER_SIZE = IF i + 1 = BUFFER_SIZE THEN 0 ELSE i + 1
  BY <1>1, <1>2, <1>3
<1>5. Succ(i) = (i + 1) % BUFFER_SIZE
  BY <1>1, <1>2, <1>4 DEF Succ
<1>6. QED
  BY <1>1, <1>4, <1>5 DEF Index

(* How many bytes are stored, where, and what full and empty mean.         *)
LEMMA CountIs ==
  RingTypeOK =>
    /\ Count \in 0 .. BUFFER_SIZE - 1
    /\ Empty <=> Count = 0
    /\ Full <=> Count = BUFFER_SIZE - 1
    /\ SlotOf(Count + 1) = head
    /\ \A i \in 1 .. Count : SlotOf(i) \in Index /\ SlotOf(i) /= head
<1> HAVE RingTypeOK
<1>1. /\ BUFFER_SIZE \in Nat /\ BUFFER_SIZE > 1
      /\ head \in 0 .. BUFFER_SIZE - 1 /\ tail \in 0 .. BUFFER_SIZE - 1
  BY RingAssumption DEF RingTypeOK, Index
<1>2. Succ(head) = IF head + 1 = BUFFER_SIZE THEN 0 ELSE head + 1
  BY SuccIs DEF RingTypeOK
<1>3. QED
  BY <1>1, <1>2 DEF Count, Empty, Full, SlotOf, Index

(* What the refinement mapping yields, as a predicate of one state.        *)
ContentsOK == /\ Contents \in Seq(Byte)
              /\ Len(Contents) = Count
              /\ \A i \in 1 .. Count : Contents[i] = data[SlotOf(i)]

LEMMA ContentsIsSeq == RingTypeOK => ContentsOK
<1> HAVE RingTypeOK
<1>1. Count \in Nat
  BY CountIs, RingAssumption
<1>2. \A i \in 1 .. Count : data[SlotOf(i)] \in Byte
  BY CountIs DEF RingTypeOK
<1>3. Contents \in Seq(Byte)
  BY <1>1, <1>2, IsASeq DEF Contents
<1>4. DOMAIN Contents = 1 .. Count
  BY DEF Contents
<1>5. Len(Contents) = Count
  BY <1>1, <1>3, <1>4, LenProperties
<1>6. QED
  BY <1>3, <1>5 DEF Contents, ContentsOK

LEMMA ContentsIsSeqNext == RingTypeOK' => ContentsOK'
  BY ContentsIsSeq, PTL

----------------------------------------------------------------------------
(* The indexes stay inside the array.                                      *)
THEOREM RingIsSafe == Spec => []RingTypeOK
<1>1. Init => RingTypeOK
  BY RingAssumption DEF Init, RingTypeOK, Index
<1>2. RingTypeOK /\ [Next]_ringVars => RingTypeOK'
  <2> SUFFICES ASSUME RingTypeOK, [Next]_ringVars PROVE RingTypeOK'
    OBVIOUS
  <2> USE DEF RingTypeOK
  <2>1. CASE RingInit
    BY <2>1, RingAssumption DEF RingInit, Index
  <2>2. CASE RingPop
    BY <2>2, SuccIs DEF RingPop
  <2>3. ASSUME NEW b \in Byte, RingPush(b)
        PROVE  RingTypeOK'
    BY <2>3, SuccIs DEF RingPush
  <2>4. CASE UNCHANGED ringVars
    BY <2>4 DEF ringVars
  <2>5. QED
    BY <2>1, <2>2, <2>3, <2>4 DEF Next
<1>3. QED
  BY <1>1, <1>2, PTL DEF Spec

(* A successful push appends, a successful pop removes the oldest byte.    *)
LEMMA PushAppends ==
  ASSUME RingTypeOK, RingTypeOK', NEW b \in Byte, RingPush(b), ~Full
  PROVE  Contents' = Append(Contents, b)
<1>1. /\ data' = [data EXCEPT ![head] = b]
      /\ head' = Succ(head) /\ tail' = tail
  BY DEF RingPush
<1>2. BUFFER_SIZE \in Nat /\ BUFFER_SIZE > 1
  BY RingAssumption
<1>3. Count' = Count + 1
  <2>1. head' = IF head + 1 = BUFFER_SIZE THEN 0 ELSE head + 1
    BY <1>1, SuccIs DEF RingTypeOK
  <2>2. head' /= tail
    BY <1>1 DEF Full
  <2>3. QED
    BY <1>1, <1>2, <2>1, <2>2 DEF Count, RingTypeOK, Index
<1>4. \A i \in Nat : SlotOf(i)' = SlotOf(i)
  BY <1>1 DEF SlotOf
<1>5. /\ Contents \in Seq(Byte) /\ Len(Contents) = Count
      /\ \A i \in 1 .. Count : Contents[i] = data[SlotOf(i)]
  BY ContentsIsSeq DEF ContentsOK
<1>6. /\ Contents' \in Seq(Byte) /\ Len(Contents') = Count'
      /\ \A i \in 1 .. Count' : Contents'[i] = data'[SlotOf(i)']
  BY ContentsIsSeqNext DEF ContentsOK
<1>7. Count \in Nat
  BY <1>2, CountIs
<1>8. Append(Contents, b) \in Seq(Byte) /\ Len(Append(Contents, b)) = Count + 1
  BY <1>5
<1>9. ASSUME NEW i \in 1 .. Len(Contents')
      PROVE  Contents'[i] = Append(Contents, b)[i]
  <2>1. Contents'[i] = data'[SlotOf(i)]
    BY <1>4, <1>6
  <2>2. CASE i <= Count
    <3>1. SlotOf(i) \in Index /\ SlotOf(i) /= head
      BY <1>6, <1>7, <2>2, CountIs
    <3>2. data'[SlotOf(i)] = data[SlotOf(i)]
      BY <1>1, <3>1 DEF RingTypeOK
    <3>3. Append(Contents, b)[i] = Contents[i]
      BY <1>5, <1>7, <2>2
    <3>4. Contents[i] = data[SlotOf(i)]
      BY <1>5, <1>7, <2>2
    <3>5. QED
      BY <2>1, <3>2, <3>3, <3>4
  <2>3. CASE i = Count + 1
    <3>1. SlotOf(i) = head
      BY <2>3, CountIs
    <3>2. data'[head] = b
      BY <1>1 DEF RingTypeOK
    <3>3. Append(Contents, b)[i] = b
      BY <1>5, <1>7, <2>3
    <3>4. QED
      BY <2>1, <3>1, <3>2, <3>3
  <2>4. i <= Count \/ i = Count + 1
    BY <1>3, <1>6, <1>7
  <2>5. QED
    BY <2>2, <2>3, <2>4
<1>10. QED
  BY <1>3, <1>6, <1>8, <1>9, SeqEqual

LEMMA PopTakesOldest ==
  ASSUME RingTypeOK, RingTypeOK', RingPop, ~Empty
  PROVE  /\ Contents /= <<>>
         /\ c' = Head(Contents)
         /\ Contents' = Tail(Contents)
<1>1. data' = data /\ head' = head /\ tail' = Succ(tail) /\ c' = data[tail]
  BY DEF RingPop
<1>2. BUFFER_SIZE \in Nat /\ BUFFER_SIZE > 1
  BY RingAssumption
<1>3. tail' = IF tail + 1 = BUFFER_SIZE THEN 0 ELSE tail + 1
  BY <1>1, SuccIs DEF RingTypeOK
<1>4. Count' = Count - 1 /\ Count > 0 /\ Count \in Nat
  BY <1>1, <1>2, <1>3 DEF Count, Empty, RingTypeOK, Index
<1>5. \A i \in 1 .. Count - 1 : SlotOf(i)' = SlotOf(i + 1)
  BY <1>1, <1>2, <1>3 DEF SlotOf, Count, RingTypeOK, Index
<1>6. SlotOf(1) = tail
  BY <1>2 DEF SlotOf, RingTypeOK, Index
<1>7. /\ Contents \in Seq(Byte) /\ Len(Contents) = Count
      /\ \A i \in 1 .. Count : Contents[i] = data[SlotOf(i)]
  BY ContentsIsSeq DEF ContentsOK
<1>8. /\ Contents' \in Seq(Byte) /\ Len(Contents') = Count'
      /\ \A i \in 1 .. Count' : Contents'[i] = data'[SlotOf(i)']
  BY ContentsIsSeqNext DEF ContentsOK
<1>9. Contents /= <<>>
  BY <1>4, <1>7, EmptySeq
<1>10. /\ Head(Contents) = Contents[1]
       /\ Tail(Contents) \in Seq(Byte)
       /\ Len(Tail(Contents)) = Count - 1
       /\ \A i \in 1 .. Count - 1 : Tail(Contents)[i] = Contents[i + 1]
  BY <1>7, <1>9, HeadTailProperties
<1>11. c' = Head(Contents)
  BY <1>1, <1>4, <1>6, <1>7, <1>10
<1>12. ASSUME NEW i \in 1 .. Count - 1
       PROVE  Contents'[i] = Tail(Contents)[i]
  <2>1. Contents'[i] = data[SlotOf(i + 1)]
    BY <1>1, <1>4, <1>5, <1>8
  <2>2. Contents[i + 1] = data[SlotOf(i + 1)]
    BY <1>4, <1>7
  <2>3. QED
    BY <1>10, <2>1, <2>2
<1>13. QED
  BY <1>4, <1>8, <1>9, <1>10, <1>11, <1>12, SeqEqual

(* The ring implements the bounded FIFO.                                   *)
THEOREM RingImplementsFifo == Spec => ImplementsFifo
<1>1. Init => Fifo!FifoInit
  <2> SUFFICES ASSUME Init PROVE Fifo!FifoInit
    OBVIOUS
  <2>1. RingTypeOK
    BY RingAssumption DEF Init, RingTypeOK, Index
  <2>2. Len(Contents) = 0 /\ Contents \in Seq(Byte)
    BY <2>1, ContentsIsSeq DEF Init, Count, ContentsOK
  <2>3. Contents = <<>>
    BY <2>2, EmptySeq
  <2>4. QED
    BY <2>3, RingAssumption DEF Init, Fifo!FifoInit
<1>2. RingTypeOK /\ RingTypeOK' /\ [Next]_ringVars => [Fifo!FifoNext]_(Fifo!fifoVars)
  <2> SUFFICES ASSUME RingTypeOK, RingTypeOK', [Next]_ringVars
               PROVE  [Fifo!FifoNext]_(Fifo!fifoVars)
    OBVIOUS
  <2>1. /\ Contents \in Seq(Byte) /\ Len(Contents) = Count
        /\ Count \in Nat
        /\ Empty <=> Count = 0
        /\ Full <=> Count = BUFFER_SIZE - 1
        /\ Full <=> ~(Len(Contents) < BUFFER_SIZE - 1)
        /\ BUFFER_SIZE \in Nat
    BY ContentsIsSeq, CountIs, RingAssumption DEF ContentsOK
  <2>2. Empty <=> Contents = <<>>
    BY <2>1, EmptySeq
  <2>3. CASE RingInit
    <3>1. Count' = 0
      BY <2>3 DEF RingInit, Count
    <3>2. Contents' \in Seq(Byte) /\ Len(Contents') = Count'
      BY ContentsIsSeqNext DEF ContentsOK
    <3>3. Contents' = <<>>
      BY <3>1, <3>2, EmptySeq
    <3>4. QED
      BY <2>3, <3>3 DEF RingInit, Fifo!FifoNext, Fifo!FifoClear
  <2>4. CASE RingPop
    <3>1. CASE Empty
      <4>1. outcome' = "empty" /\ UNCHANGED <<data, head, tail, c>>
        BY <2>4, <3>1 DEF RingPop
      <4>2. Contents' = Contents
        BY <4>1 DEF Contents, Count, SlotOf
      <4>3. QED
        BY <2>2, <3>1, <4>1, <4>2 DEF Fifo!FifoNext, Fifo!FifoPop
    <3>2. CASE ~Empty
      <4>1. outcome' = "popped"
        BY <2>4, <3>2 DEF RingPop
      <4>2. QED
        BY <2>4, <3>2, <4>1, PopTakesOldest DEF Fifo!FifoNext, Fifo!FifoPop
    <3>3. QED
      BY <3>1, <3>2
  <2>5. ASSUME NEW b \in Byte, RingPush(b)
        PROVE  Fifo!FifoNext
    <3>1. CASE Full
      <4>1. outcome' = "full" /\ UNCHANGED <<data, head, tail, c>>
        BY <2>5, <3>1 DEF RingPush
      <4>2. Contents' = Contents
        BY <4>1 DEF Contents, Count, SlotOf
      <4>3. Fifo!FifoPush(b)
        BY <2>1, <3>1, <4>1, <4>2 DEF Fifo!FifoPush
      <4>4. QED
        BY <4>3 DEF Fifo!FifoNext
    <3>2. CASE ~Full
      <4>1. outcome' = "pushed" /\ c' = c
        BY <2>5, <3>2 DEF RingPush
      <4>2. Fifo!FifoPush(b)
        BY <2>1, <2>5, <3>2, <4>1, PushAppends DEF Fifo!FifoPush
      <4>3. QED
        BY <4>2 DEF Fifo!FifoNext
    <3>3. QED
      BY <3>1, <3>2
  <2>6. CASE UNCHANGED ringVars
    BY <2>6 DEF ringVars, Fifo!fifoVars, Contents, Count, SlotOf
  <2>7. QED
    BY <2>3, <2>4, <2>5, <2>6 DEF Next
<1>3. QED
  BY <1>1, <1>2, RingIsSafe, PTL DEF Spec, ImplementsFifo, Fifo!FifoSpec
=============================================================================

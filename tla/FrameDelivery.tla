--------------------------- MODULE FrameDelivery ---------------------------
(***************************************************************************)
(* What reception promises to the frame handler, whatever the ring, the    *)
(* interrupt and the recovery do: every frame in the queue is a stretch of *)
(* consecutive bytes of the line with a valid checksum, frames arrive in   *)
(* the order of the line and do not overlap, none arrives twice, and one   *)
(* is dropped only because the queue is full, and is then counted.         *)
(***************************************************************************)
EXTENDS FrameParser

CONSTANTS Streams, QUEUE_DEPTH

VARIABLES stream,   \* what comes over the line
          upTo,     \* the line up to here has been delivered or skipped
          queue,    \* frames the handler has not taken yet
          drops     \* frames lost to a full queue

deliveryVars == <<stream, upTo, queue, drops>>

DeliveryInit == /\ stream \in Streams
                /\ upTo = 0 /\ queue = <<>> /\ drops = 0

FrameFrom(first, last) ==
  [type |-> stream[first + 2], payload |-> SubSeq(stream, first + 3, last - 2),
   first |-> first, last |-> last]

Deliver(first, last) ==
  /\ ValidFrame(SubSeq(stream, first, last))
  /\ upTo' = last
  /\ IF Len(queue) < QUEUE_DEPTH
       THEN queue' = Append(queue, FrameFrom(first, last)) /\ UNCHANGED drops
       ELSE drops' = drops + 1 /\ UNCHANGED queue
  /\ UNCHANGED stream

Take == /\ queue /= <<>>
        /\ queue' = Tail(queue)
        /\ UNCHANGED <<stream, upTo, drops>>

DeliveryNext ==
  \/ Take
  \/ \E first, last \in upTo + 1 .. Len(stream) : Deliver(first, last)

DeliverySpec == DeliveryInit /\ [][DeliveryNext]_deliveryVars
=============================================================================

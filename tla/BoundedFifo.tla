---------------------------- MODULE BoundedFifo ----------------------------
(***************************************************************************)
(* A bounded queue of bytes as its users see it: what went in comes out    *)
(* once and in order, a push is refused exactly when the queue is full and *)
(* a pop exactly when it is empty.                                         *)
(***************************************************************************)
EXTENDS Integers, Sequences

CONSTANTS Value, Capacity

VARIABLES contents,   \* oldest value first
          popped,     \* the value of the last successful pop
          outcome     \* which operation ended last, and how

fifoVars == <<contents, popped, outcome>>

FifoInit == contents = <<>> /\ popped \in Value /\ outcome = "cleared"

FifoPush(v) ==
  /\ IF Len(contents) < Capacity
       THEN outcome' = "pushed" /\ contents' = Append(contents, v)
       ELSE outcome' = "full" /\ UNCHANGED contents
  /\ UNCHANGED popped

FifoPop ==
  IF contents /= <<>>
    THEN /\ outcome' = "popped"
         /\ popped' = Head(contents)
         /\ contents' = Tail(contents)
    ELSE outcome' = "empty" /\ UNCHANGED <<contents, popped>>

FifoClear == contents' = <<>> /\ outcome' = "cleared" /\ UNCHANGED popped

FifoNext == FifoPop \/ FifoClear \/ \E v \in Value : FifoPush(v)

FifoSpec == FifoInit /\ [][FifoNext]_fifoVars
=============================================================================

---------------------------- MODULE TrackPolicy ----------------------------
(***************************************************************************)
(* What a track promises, without counters: a policy on the outcomes of    *)
(* the measurements since it began, TRUE for one inside the gate.          *)
(*                                                                         *)
(* A track is on trial until it has been measured CONFIRM_HITS times in a  *)
(* row and ends with the first miss before that.  Later it takes           *)
(* LOST_MISSES misses in a row to lose it.  Only measurements that follow  *)
(* the last one by at most MAX_PREDICT_INTERVAL count, on a clock that     *)
(* starts over; a later one ends the track, one from the past is ignored.  *)
(***************************************************************************)
EXTENDS Integers, Sequences

CONSTANTS CONFIRM_HITS, LOST_MISSES, MAX_PREDICT_INTERVAL, TIMESTAMPS

VARIABLES latest,  \* the measurement that was handled last
          seen,    \* outcomes since the track began; empty without a track
          asOf,    \* the timestamp the track is valid for
          state    \* what is shown of the track

policyVars == <<latest, seen, asOf, state>>

Established(h) == Len(h) >= CONFIRM_HITS

Lost(h) == /\ Len(h) >= LOST_MISSES
           /\ \A i \in Len(h) - LOST_MISSES + 1 .. Len(h) : ~h[i]

(* What is shown of a track with these outcomes.                           *)
Shows(s, h) ==
  \/ s = "EMPTY" /\ h = <<>>
  \/ s = "LOST" /\ Lost(h)
  \/ s = "TENTATIVE" /\ h /= <<>> /\ ~Established(h)
  \/ s = "CONFIRMED" /\ Established(h) /\ h[Len(h)]
  \/ s = "COASTING" /\ Established(h) /\ ~h[Len(h)] /\ ~Lost(h)

(* The timestamp d milliseconds after asOf.                                *)
After(d) == IF asOf + d < TIMESTAMPS THEN asOf + d ELSE asOf + d - TIMESTAMPS

Follows(ts) == \E d \in 1 .. MAX_PREDICT_INTERVAL : ts = After(d)

(* Too far in the future, and not yet the past.                            *)
Leaps(ts) == \E d \in MAX_PREDICT_INTERVAL + 1 .. TIMESTAMPS :
               2 * d < TIMESTAMPS /\ ts = After(d)

Active == seen /= <<>> /\ ~Lost(seen)

PolicyInit == /\ latest = [timestamp |-> 0, inGate |-> FALSE]
              /\ seen = <<>> /\ asOf = 0 /\ state = "EMPTY"

Begin(m) == /\ seen = <<>>
            /\ seen' = <<TRUE>> /\ asOf' = m.timestamp

Hit(m) == /\ Active /\ Follows(m.timestamp) /\ m.inGate
          /\ seen' = Append(seen, TRUE) /\ asOf' = m.timestamp

Miss(m) == /\ Active /\ Established(seen) /\ Follows(m.timestamp) /\ ~m.inGate
           /\ seen' = Append(seen, FALSE) /\ asOf' = m.timestamp

End(m) == /\ \/ seen /= <<>> /\ Lost(seen)
             \/ Active /\ Leaps(m.timestamp)
             \/ Active /\ ~Established(seen) /\ Follows(m.timestamp) /\ ~m.inGate
          /\ seen' = <<>> /\ asOf' = 0

Ignore(m) == /\ Active /\ ~Follows(m.timestamp) /\ ~Leaps(m.timestamp)
             /\ UNCHANGED <<seen, asOf>>

Measurement == [timestamp : 0 .. TIMESTAMPS - 1, inGate : BOOLEAN]

PolicyNext ==
  \E m \in Measurement :
    /\ latest' = m
    /\ Begin(m) \/ Hit(m) \/ Miss(m) \/ End(m) \/ Ignore(m)
    /\ Shows(state', seen')

PolicySpec == PolicyInit /\ [][PolicyNext]_policyVars
=============================================================================

------------------------------- MODULE Channel -------------------------------
(***************************************************************************)
(* What the cable promises (src/sentry_mode/satellites/link.py): frames    *)
(* arrive in order, whole and once; a fault costs one frame at most, or,   *)
(* if it closes the port, the ones under way; and nothing else costs any.  *)
(***************************************************************************)
EXTENDS Naturals, Sequences, SequencesExt

CONSTANT Messages

VARIABLES chan,   \* the frames that will still arrive
          got,    \* the frames handed over last
          faults  \* how many there have been

vars == <<chan, got, faults>>

Init == chan = << >> /\ got = << >> /\ faults = 0

Put(m) == chan' = Append(chan, m) /\ UNCHANGED <<got, faults>>

Get(k) ==
  /\ got' = SubSeq(chan, 1, k)
  /\ chan' = SubSeq(chan, k + 1, Len(chan))
  /\ UNCHANGED faults

Fault ==
  /\ faults' = faults + 1 /\ UNCHANGED got
  /\ \/ chan' \in {chan, << >>}
     \/ \E k \in 1..Len(chan) : chan' = RemoveAt(chan, k)

Next ==
  \/ \E m \in Messages : Put(m)
  \/ \E k \in 1..Len(chan) : Get(k)
  \/ Fault

Spec == Init /\ [][Next]_vars
==============================================================================

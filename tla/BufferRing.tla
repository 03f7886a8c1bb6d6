----------------------------- MODULE BufferRing -----------------------------
(***************************************************************************)
(* The size of the two rings of the Android build, which threadoutaudio.c  *)
(* and threadinaudio.c define alike.                                       *)
(***************************************************************************)
EXTENDS Naturals, Sequences

CONSTANTS
  NUMBER_BUFFERS,
  MaxPeriods       \* bound on the periods that are filled or recorded

ASSUME RingAssumption == NUMBER_BUFFERS \in Nat \ {0, 1} /\ MaxPeriods \in Nat

Ring == 0..NUMBER_BUFFERS - 1

\* No buffer is in the queue of the device twice.
Distinct(q) == \A i, j \in DOMAIN q : q[i] = q[j] => i = j

\* Enqueue: the device takes no more buffers than the locator's numBuffers.
Enqueued(q, b) == IF Len(q) < NUMBER_BUFFERS THEN Append(q, b) ELSE q

Queued(b, q) == \E i \in DOMAIN q : q[i] = b
=============================================================================

----------------------------- MODULE AudioRings -----------------------------
(***************************************************************************)
(* The sound and the microphone thread of the Android build side by side.  *)
(* They share nothing here: the mutexes that end them are those of         *)
(* AudioThread.                                                            *)
(***************************************************************************)
EXTENDS PlayRing, RecordRing

vars == <<playvars, recvars>>

Init == PlayInit /\ RecInit

Next ==
  \/ PlayNext /\ UNCHANGED recvars
  \/ RecNext /\ UNCHANGED playvars

Spec == Init /\ [][Next]_vars

\* No callback works on a buffer that the device has, and the device has none twice,
\* however late the callbacks of either thread are; and it has room for each buffer that
\* a callback gives it, which is why nothing is lost by not looking at what Enqueue returns.
RingsSeparated == PlaySeparated /\ RecSeparated

\* Every period is heard once and in order, and every period is sent once, in order and
\* under the next count.
PeriodsInOrder == HeardInOrder /\ SentInOrder

\* A thread that has ended leaves no OpenSL object but a recorder that could not be
\* realized or refused its record interface, and nothing that may still call back
\* outlives the callback's memory.
ObjectsDestroyed ==
  /\ pstage = "done" => pobjects = {}
  /\ rstage = "done" => robjects \subseteq {"recorder"}
  /\ registered /\ "recorder" \in robjects => "data" \in robjects
=============================================================================

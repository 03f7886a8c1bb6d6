--------------------------- MODULE MCJitterBuffer ---------------------------
(* Bounds for model checking JitterBuffer. *)
EXTENDS JitterBuffer

CONSTANTS
  MaxCount,    \* largest packet count
  MaxUseBuf    \* largest useBuf: restarts let it grow without limit

MCCounts == 0 .. MaxCount

MCNext == Next /\ useBuf' <= MaxUseBuf

\* The playback thread polls for as long as it runs.
MCSpec == Init /\ [][MCNext]_vars /\ WF_vars(getBufForAllUsers)
=============================================================================

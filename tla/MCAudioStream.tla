---------------------------- MODULE MCAudioStream ----------------------------
(* Bounds for model checking AudioStream. *)
EXTENDS AudioStream

CONSTANT MaxCount    \* the last packet of an epoch

MCCounts == 0 .. MaxCount
MCData == 0 .. MaxEpoch
=============================================================================

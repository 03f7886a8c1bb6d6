------------------------------- MODULE MCGsm -------------------------------
(* The codec for a few signals, from silence to full scale. *)
EXTENDS Gsm

Samples == 160 * P_CountFrameDataInPocket

\* From one end of the scale to the other every 32 samples, then silence.
Square == [n \in 1 .. Samples |-> IF n > 192 THEN 0
                                  ELSE IF (n \div 32) % 2 = 0 THEN MAX_WORD ELSE MIN_WORD]
\* Like a voice: a pulse every 57 samples that rings down, on a little hum.
Voice == [n \in 1 .. Samples |->
            (18000 \div (1 + (n % 57))) * (IF n % 3 = 0 THEN -1 ELSE 1) + 11 * (n % 100)]

MCSignals == {Array(Square), Array(Voice)}

\* Smallest and greatest parameters; no magic.
AllLow == gsm_implode([i \in 1 .. 76 |-> 0])
AllHigh == gsm_implode([i \in 1 .. 76 |-> 2^Widths[i] - 1])
NoMagic == [i \in 1 .. 33 |-> 0]
MCStrange == {AllLow, AllHigh, NoMagic}
=============================================================================

--------------------------- MODULE GsmPreprocess ---------------------------
(***************************************************************************)
(* Gsm_Preprocess, one sample at a time: the 16-bit sample is scaled down  *)
(* to 13 bits, a recursive filter of 31 bits removes its mean ("offset     *)
(* compensation"), and the highs are raised ("preemphasis").  The filter's *)
(* memory z1, L_z2 and mp lives in gsm_state from frame to frame, for as   *)
(* long as the talk lasts: what it may not do is creep out of its width.   *)
(***************************************************************************)
EXTENDS GsmWord

VARIABLES
  z1,     \* the last scaled sample
  L_z2,   \* the filter's output, times 2^15
  mp,     \* L_z2 rounded to a word
  so      \* the last output sample

prevars == <<z1, L_z2, mp, so>>

PreInit == z1 = 0 /\ L_z2 = 0 /\ mp = 0 /\ so = 0

Downscaled(s) == SASR(s, 3) * 4

\* L_z2 * 32735 / 2^15, in two parts: a word times a word is all there is.
msp == FitWord(SASR(L_z2, 15))
lsp == L_z2 - msp * 32768
Decayed(L_s2) == GSM_L_ADD(msp * 32735, L_s2 + GSM_MULT_R(lsp, 32735))

\* Faulty variant of Sample: z1 is saved from the difference, not from the input.
SampleSavesS1(s) ==
  LET s1 == FitWord(Downscaled(s) - z1)
  IN  /\ z1' = s1
      /\ L_z2' = Decayed(s1 * 32768)
      /\ mp' = FitWord(SASR(GSM_L_ADD(L_z2', 16384), 15))
      /\ so' = GSM_ADD(mp', FitWord(GSM_MULT_R(mp, -28180)))

Sample(s) ==
  LET s1 == FitWord(Downscaled(s) - z1)
  IN  /\ z1' = Downscaled(s)
      /\ L_z2' = Decayed(s1 * 32768)
      /\ mp' = FitWord(SASR(GSM_L_ADD(L_z2', 16384), 15))
      /\ so' = GSM_ADD(mp', FitWord(GSM_MULT_R(mp, -28180)))

PreNext == \E s \in Word : Sample(s)

PreSpec == PreInit /\ [][PreNext]_prevars

-----------------------------------------------------------------------------
\* The asserts of the loop, and what its narrow variables rely on: the scaled sample has
\* 13 bits, the difference of two is never MIN_WORD, and the filter's output never reaches
\* the point where its upper half would not fit a word or an addition would saturate.
OffsetInRange ==
  /\ z1 >= -16384 /\ z1 <= 16380
  /\ L_z2 > -1073741824 /\ L_z2 < 1073741824 - 16384
  /\ mp \in Word /\ so \in Word

\* Why: what the filter subtracts is its estimate of the signal's mean, and the
\* estimate moves towards each sample, by 33/2^15 of the distance and at most half a unit
\* of rounding.  It never leaves the samples' range by more than that rounding adds up to.
Mean == z1 * 32768 - L_z2
MeanInRange == Mean >= -16384 * 32768 - 500 /\ Mean <= 16380 * 32768 + 500

PreIInv ==
  /\ z1 \in Int /\ z1 >= -16384 /\ z1 <= 16380
  /\ L_z2 \in Int
  /\ MeanInRange
  /\ mp \in Word
  /\ so \in Word
=============================================================================

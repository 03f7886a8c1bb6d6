------------------------------- MODULE GsmRpe -------------------------------
(***************************************************************************)
(* Regular pulse excitation: of the 40 residual samples of a sub-frame     *)
(* every third is kept, coded in three bits relative to the largest.       *)
(***************************************************************************)
EXTENDS GsmWord, SequencesExt

gsm_H == <<-134, -374, 0, 2054, 5741, 8192, 5741, 2054, 0, -374, -134>>
gsm_NRFAC == <<29128, 26215, 23832, 21846, 20165, 18725, 17476, 16384>>
gsm_FAC == <<18431, 20479, 22527, 24575, 26623, 28671, 30719, 32767>>

\* The five words before and after the sub-frame are zero and stay so.
Weighting_filter(e) ==
  LET E(k) == IF k \in 1 .. 40 THEN e[k] ELSE 0
      Terms(k) == [i \in 1 .. 11 |-> E(k + i - 6) * gsm_H[i]]
  IN  Array([k \in 1 .. 40 |-> saturate(SASR(4096 + SumOf(11, Terms(k)), 13))])

\* The k-th of the 13 samples of grid m.
OnGrid(x, m, k) == x[m + 3 * (k - 1) + 1]

\* The first grid with the greatest energy.
RPE_grid_selection(x) ==
  LET Squares(m) == [k \in 1 .. 13 |-> SASR(OnGrid(x, m, k), 2) * SASR(OnGrid(x, m, k), 2)]
      EM == Array([m \in 1 .. 4 |-> 2 * SumOf(13, Squares(m - 1))])
  IN  SelectInSeq(EM, LAMBDA energy : energy = Max({EM[m] : m \in 1 .. 4})) - 1

Grid(x, m) == [k \in 1 .. 13 |-> OnGrid(x, m, k)]

\* APCM_quantization_xmaxc_to_exp_mant: at most three shifts normalise the mantissa.
ExpMant(xmaxc) ==
  LET exp == IF xmaxc > 15 THEN SASR(xmaxc, 3) - 1 ELSE 0
      mant == xmaxc - exp * 8
      Normalise(c, n) == IF c.mant <= 7
                         THEN [exp |-> c.exp - 1, mant |-> 2 * c.mant + 1] ELSE c
      n == Loop(Normalise, [exp |-> exp, mant |-> mant], 3)
  IN  IF mant = 0 THEN [exp |-> -4, mant |-> 7]
      ELSE [exp |-> n.exp, mant |-> n.mant - 8]

\* The block maximum in six bits: three of exponent and three below them.
CodedMaximum(xM) ==
  LET xmax == Max({GSM_ABS(xM[k]) : k \in 1 .. 13})
      \* itest stays set once the shifted maximum has become zero
      Count(c, n) == IF c.itest \/ c.temp <= 0
                     THEN [c EXCEPT !.itest = TRUE]
                     ELSE [c EXCEPT !.exp = @ + 1, !.temp = SASR(@, 1)]
      exp == Loop(Count, [exp |-> 0, temp |-> SASR(xmax, 9), itest |-> FALSE], 6).exp
  IN  GSM_ADD(SASR(xmax, exp + 5), exp * 8)

\* Faulty variant of CodedPulse: the pulses are not made positive.
CodedPulseUnshifted(v, xmaxc) ==
  LET em == ExpMant(xmaxc)
  IN  SASR(GSM_MULT(FitWord(v * 2^(6 - em.exp)), gsm_NRFAC[em.mant + 1]), 12)

\* The second half of APCM_quantization: samples relative to the maximum, 0 .. 7.
CodedPulse(v, xmaxc) ==
  LET em == ExpMant(xmaxc)
  IN  SASR(GSM_MULT(FitWord(v * 2^(6 - em.exp)), gsm_NRFAC[em.mant + 1]), 12) + 4

APCM_inverse_quantization(xMc, xmaxc) ==
  LET em == ExpMant(xmaxc)
      temp1 == gsm_FAC[em.mant + 1]
      temp2 == GSM_SUB(6, em.exp)
      temp3 == gsm_asl(1, GSM_SUB(temp2, 1))
      Pulse(c) == gsm_asr(GSM_ADD(GSM_MULT_R(temp1, (2 * c - 7) * 4096), temp3), temp2)
  IN  Array([k \in 1 .. 13 |-> Pulse(xMc[k])])

\* The 13 pulses on grid Mc, zeros between them.
RPE_grid_positioning(Mc, xMp) ==
  [k \in 1 .. 40 |->
     IF k - 1 >= Mc /\ (k - 1 - Mc) % 3 = 0 /\ (k - 1 - Mc) \div 3 <= 12
     THEN xMp[(k - 1 - Mc) \div 3 + 1] ELSE 0]

\* Gsm_RPE_Decoding, which ends Gsm_RPE_Encoding, too.
Excitation(Mc, xmaxc, xMc) ==
  RPE_grid_positioning(Mc, APCM_inverse_quantization(xMc, xmaxc))
=============================================================================

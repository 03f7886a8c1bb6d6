---------------------------- MODULE GsmShortTerm ----------------------------
(***************************************************************************)
(* The short-term filters of coder and decoder.  Both decode the same LARc *)
(* and move from the last frame's ratios to this frame's in four segments, *)
(* so that they filter with the same coefficients as long as their stored  *)
(* ratios agree.                                                           *)
(***************************************************************************)
EXTENDS GsmLpc

gsm_INVA == <<13107, 13107, 13107, 13107, 19223, 17476, 31454, 29708>>

Decoding_of_the_coded_Log_Area_Ratios(LARc) ==
  LET Ratio(i) ==
        LET temp1 == FitWord(GSM_ADD(LARc[i], gsm_MIC[i]) * 1024)
            t == GSM_MULT_R(gsm_INVA[i], GSM_SUB(temp1, gsm_B[i] * 2))
        IN  GSM_ADD(t, t)
  IN  Array([i \in 1 .. 8 |-> Ratio(i)])

\* LARp_to_rp: the exponential that undoes LogAreaRatio.
LARp_to_rp(lar) ==
  LET t == GSM_ABS(lar)
      rp == IF t < 11059 THEN t * 2
            ELSE IF t < 20070 THEN t + 11059
            ELSE GSM_ADD(t \div 4, 26112)
  IN  IF lar < 0 THEN -rp ELSE rp

\* The last sample of each of the four segments, and their interpolations.
SegmentEnds == <<13, 27, 40, 160>>
Segment(k) == CHOOSE g \in 1 .. 4 :
                k <= SegmentEnds[g] /\ (g > 1 => k > SegmentEnds[g - 1])

Interpolated(g, old, new) ==
  CASE g = 1 -> GSM_ADD(GSM_ADD(SASR(old, 2), SASR(new, 2)), SASR(old, 1))
    [] g = 2 -> GSM_ADD(SASR(old, 1), SASR(new, 1))
    [] g = 3 -> GSM_ADD(GSM_ADD(SASR(old, 2), SASR(new, 2)), SASR(new, 1))
    [] g = 4 -> new

\* The filter coefficients for the k-th sample of the frame.
Reflections(LARpp_j_1, LARpp_j, k) ==
  Array([i \in 1 .. 8 |->
           LARp_to_rp(Interpolated(Segment(k), LARpp_j_1[i], LARpp_j[i]))])

-----------------------------------------------------------------------------
\* Short_term_analysis_filtering: one sample through the eight stages of a lattice with
\* memory u.
AnalysisStages(rp, u, sample) ==
  LET Stage(c, i) ==
        [u   |-> [c.u EXCEPT ![i] = c.sav],
         sav |-> GSM_ADD(c.u[i], GSM_MULT_R(rp[i], c.di)),
         di  |-> GSM_ADD(c.di, GSM_MULT_R(rp[i], c.u[i]))]
  IN  Loop(Stage, [u |-> u, sav |-> sample, di |-> sample], 8)

\* Short_term_synthesis_filtering: one sample through the inverse lattice, last stage
\* first; the memory v has nine words, of which v[0] is the last output.
SynthesisStages(rrp, v, sample) ==
  LET Stage(c, n) ==
        LET i == 8 - n
            sri == GSM_SUB(c.sri, gsm_mult_r(rrp[i + 1], c.v[i]))
        IN  [sri |-> sri,
             v |-> [c.v EXCEPT ![i + 1] = GSM_ADD(c.v[i], gsm_mult_r(rrp[i + 1], sri))]]
      last == Loop(Stage, [sri |-> sample, v |-> v], 8)
  IN  [last.v EXCEPT ![0] = last.sri]
=============================================================================

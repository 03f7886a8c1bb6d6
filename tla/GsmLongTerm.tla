---------------------------- MODULE GsmLongTerm ----------------------------
(***************************************************************************)
(* The long-term predictor: the 40 samples of a sub-frame are compared     *)
(* with the last 120 samples of the reconstructed residual (here: hist, of *)
(* which hist[120] is the newest), at a distance of 40 to 120 samples.     *)
(***************************************************************************)
EXTENDS GsmWord, SequencesExt

gsm_DLB == <<6554, 16384, 26214, 32767>>
gsm_QLB == <<3277, 11469, 21299, 32767>>

\* The k-th sample, counted from 1, of what the history holds lag samples ago.
Ago(hist, k, lag) == hist[Len(hist) + k - lag]

\* By how many bits a sub-frame is scaled down before it is correlated.
Scaling(d) ==
  LET dmax == Max({GSM_ABS(d[k]) : k \in 1 .. 40})
      temp == IF dmax = 0 THEN 0 ELSE gsm_norm(dmax * 65536)
  IN  IF dmax = 0 \/ temp <= 6 THEN 6 - temp ELSE 0

\* The first of the lags with the greatest positive correlation; 40 if none is positive.
BestLag(d, hist, scal) ==
  LET wt == Array([k \in 1 .. 40 |-> SASR(d[k], scal)])
      \* of the lags 40 .. 120
      Terms(lag) == [k \in 1 .. 40 |-> wt[k] * Ago(hist, k, lag)]
      L_result == Array([n \in 1 .. 81 |-> SumOf(40, Terms(39 + n))])
      L_max == Max({L_result[n] : n \in 1 .. 81})
  IN  IF L_max <= 0 THEN [Nc |-> 40, L_max |-> 0]
      ELSE [Nc |-> 39 + SelectInSeq(L_result, LAMBDA c : c = L_max), L_max |-> L_max]

Power(hist, Nc) ==
  2 * SumOf(40, [k \in 1 .. 40 |-> SASR(Ago(hist, k, Nc), 3) * SASR(Ago(hist, k, Nc), 3)])

\* The gain, correlation by power, in four levels.
CodedGain(L_max, L_power) ==
  LET temp == gsm_norm(L_power)
      R == SASR(L_max * 2^temp, 16)
      S == SASR(L_power * 2^temp, 16)
      Under == {bc \in 0 .. 2 : R <= gsm_mult(S, gsm_DLB[bc + 1])}
  IN  CASE L_max <= 0 -> 0
        [] L_max > 0 /\ L_max >= L_power -> 3
        [] OTHER -> IF Under = {} THEN 3
                    ELSE Min(Under)

Calculation_of_the_LTP_parameters(d, hist) ==
  LET scal == Scaling(d)
      best == BestLag(d, hist, scal)
  IN  [Nc |-> best.Nc,
       bc |-> CodedGain(SASR(2 * best.L_max, 6 - scal), Power(hist, best.Nc))]

\* Long_term_analysis_filtering: the estimate and what it leaves of d.
Estimate(bc, Nc, hist) ==
  Array([k \in 1 .. 40 |-> GSM_MULT_R(gsm_QLB[bc + 1], Ago(hist, k, Nc))])
Remainder(d, dpp) == Array([k \in 1 .. 40 |-> GSM_SUB(d[k], dpp[k])])

\* Gsm_Long_Term_Synthesis_Filtering: a lag out of range repeats the last one.
ReceivedLag(Ncr, nrp) == IF Ncr < 40 \/ Ncr > 120 THEN nrp ELSE Ncr
Synthesized(erp, Nr, bcr, hist) ==
  Array([k \in 1 .. 40 |->
           GSM_ADD(erp[k], GSM_MULT_R(gsm_QLB[bcr + 1], Ago(hist, k, Nr)))])
=============================================================================

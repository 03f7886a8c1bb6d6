------------------------------- MODULE GsmLpc -------------------------------
(***************************************************************************)
(* Gsm_LPC_Analysis: from the 160 samples s of a frame to the eight coded  *)
(* log area ratios LARc.  Signals are sequences: s[1] is the code's s[0].  *)
(***************************************************************************)
EXTENDS GsmWord

-----------------------------------------------------------------------------
(* Autocorrelation *)

Loudest(s) == Max({GSM_ABS(s[k]) : k \in DOMAIN s})

\* By how many bits the samples are scaled down so that no sum of products overflows.
scalauto(s) ==
  LET smax == Loudest(s)
  IN  IF smax = 0 THEN 0 ELSE 4 - gsm_norm(smax * 65536)

Scaled(s, n) ==
  IF n > 0 THEN Array([k \in 1 .. Len(s) |-> GSM_MULT_R(s[k], 2^(15 - n))]) ELSE s

\* The code's L_ACF[k] is L_ACF(sc)[k + 1], and so on for the arrays of the recursion.
L_ACF(sc) ==
  LET Terms(k) == [i \in 1 .. Len(sc) - k + 1 |-> sc[i + k - 1] * sc[i]]
  IN  Array([k \in 1 .. 9 |-> 2 * SumOf(Len(sc) - k + 1, Terms(k))])

\* The samples go on scaled down and up again: their low bits are lost.
Rescaled(sc, n) ==
  IF n > 0 THEN [k \in 1 .. Len(sc) |-> FitWord(sc[k] * 2^n)] ELSE sc

-----------------------------------------------------------------------------
(* Reflection_coefficients: a Schur recursion on 16-bit words, which gives *)
(* up, with zeros for the rest, when the next coefficient would exceed 1.  *)

SchurInit(acf) ==
  LET temp == gsm_norm(acf[1])
      ACF == Array([i \in 1 .. 9 |-> SASR(acf[i] * 2^temp, 16)])
  IN  [P |-> ACF, K |-> Tail(ACF), r |-> <<>>, over |-> FALSE, divisible |-> TRUE]

\* The assert of gsm_div.
Divisible(num, denum) == num >= 0 /\ denum >= num

\* c.P[m] is P[m - 1], c.K[m] is K[m]; either array is one shorter after each round.
SchurRound(c, n) ==
  LET temp == GSM_ABS(c.P[2])
      quotient == gsm_div(temp, c.P[1])
      rn == IF c.P[2] > 0 THEN -quotient ELSE quotient
  IN  IF c.over \/ c.P[1] < temp
      THEN [c EXCEPT !.over = TRUE, !.r = Append(@, 0)]
      ELSE [P |-> <<GSM_ADD(c.P[1], GSM_MULT_R(c.P[2], rn))>>
                  \o [m \in 1 .. 8 - n |->
                        GSM_ADD(c.P[m + 2], GSM_MULT_R(c.K[m], rn))],
            K |-> Array([m \in 1 .. 8 - n |->
                           GSM_ADD(c.K[m], GSM_MULT_R(c.P[m + 2], rn))]),
            r |-> Append(c.r, rn),
            over |-> FALSE,
            divisible |-> c.divisible /\ Divisible(temp, c.P[1])]

Reflection_coefficients(acf) ==
  IF acf[1] = 0 THEN [i \in 1 .. 8 |-> 0]
  ELSE Loop(SchurRound, SchurInit(acf), 8).r

\* gsm_div is asked for nothing it asserts against, in none of the rounds.
DivisionsFit(acf) == acf[1] = 0 \/ Loop(SchurRound, SchurInit(acf), 8).divisible

-----------------------------------------------------------------------------
(* Coding *)

\* Transformation_to_Log_Area_Ratios: a piecewise linear logarithm.
LogAreaRatio(r) ==
  LET t == GSM_ABS(r)
      lar == IF t < 22118 THEN t \div 2
             ELSE IF t < 31130 THEN t - 11059
             ELSE (t - 26112) * 4
  IN  IF r < 0 THEN -lar ELSE lar

gsm_A == <<20480, 20480, 20480, 20480, 13964, 15360, 8534, 9036>>
gsm_B == <<0, 0, 2048, -2560, 94, -1792, -341, -1144>>
gsm_MIC == <<-32, -32, -16, -16, -8, -8, -4, -4>>
gsm_MAC == <<31, 31, 15, 15, 7, 7, 3, 3>>

\* Quantization_and_coding: to MAC - MIC + 1 levels, counted from 0.
CodedLAR(i, lar) ==
  LET level == SASR(GSM_ADD(GSM_ADD(GSM_MULT(gsm_A[i], lar), gsm_B[i]), 256), 9)
  IN  IF level > gsm_MAC[i] THEN gsm_MAC[i] - gsm_MIC[i]
      ELSE IF level < gsm_MIC[i] THEN 0
      ELSE level - gsm_MIC[i]

Coded(r) == [i \in 1 .. 8 |-> CodedLAR(i, LogAreaRatio(r[i]))]
=============================================================================

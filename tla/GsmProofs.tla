------------------------------ MODULE GsmProofs ------------------------------
(***************************************************************************)
(* The codec, for every signal, every number of frames in a packet and     *)
(* whatever frames others send.  The preprocessing filter keeps within its *)
(* widths.  No assert of the coder fails, and a frame carries its          *)
(* parameters: AssertsInv says what each stage leaves to the next.  And a  *)
(* packet that the listener accepts takes its decoder no farther from the  *)
(* speaker's coder than it was before: FollowInv says that the packet is a *)
(* chain of frames that leads the coder from one history to another, and   *)
(* would lead the decoder from its own history to one as near.             *)
(***************************************************************************)
EXTENDS Gsm, GsmLemmas

-----------------------------------------------------------------------------
(* The arithmetic of the filter. *)

\* Scaling a sample down to 13 bits.
LEMMA ScaledRange ==
  ASSUME NEW x \in Word
  PROVE  Downscaled(x) \in Int /\ Downscaled(x) >= -16384 /\ Downscaled(x) <= 16380
<1>1. SASR(x, 3) = x \div 8
  BY Shifts DEF Word
<1>2. x \div 8 \in Int /\ x \div 8 >= -4096 /\ x \div 8 <= 4095
  BY DEF Word, MIN_WORD, MAX_WORD
<1> QED
  BY <1>1, <1>2 DEF Downscaled

\* An addition of longwords whose sum fits does not saturate.
LEMMA LAddOfSmall ==
  ASSUME NEW a \in Int, NEW b \in Int,
         a + b >= -2147483648, a + b <= 2147483647
  PROVE  GSM_L_ADD(a, b) = a + b
BY DEF GSM_L_ADD, MIN_LONGWORD, MAX_LONGWORD

\* One step of the recursive part: the two partial products add up to 32735/2^15 of
\* the old output, rounded to the nearest unit.
LEMMA DecayedIs ==
  ASSUME NEW x \in Int, x >= -32764, x <= 32764,
         L_z2 \in Int, L_z2 > -1073741824, L_z2 < 1073741824
  PROVE  /\ Decayed(x * 32768) \in Int
         /\ 32768 * (Decayed(x * 32768) - x * 32768) <= 32735 * L_z2 + 16384
         /\ 32768 * (Decayed(x * 32768) - x * 32768) > 32735 * L_z2 - 16384
<1> DEFINE hi == L_z2 \div 32768
           lo == L_z2 - hi * 32768
           part == (lo * 32735 + 16384) \div 32768
<1>1. hi \in Int /\ hi >= -32768 /\ hi <= 32767 /\ lo \in Int /\ lo >= 0 /\ lo <= 32767
  OBVIOUS
<1>2. msp = hi /\ lsp = lo
  BY <1>1, Shifts, FitWordOfWord DEF msp, lsp
<1>3. GSM_MULT_R(lsp, 32735) = part
  <2>1. lo * 32735 + 16384 \in Int
    BY <1>1
  <2>2. SASR(lo * 32735 + 16384, 15) = (lo * 32735 + 16384) \div 32768
    <3> HIDE DEF lo
    <3> QED
      BY <2>1, Shifts
  <2> QED
    BY <2>2, <1>2 DEF GSM_MULT_R
<1>4. /\ part \in Int /\ part >= 0 /\ part <= 32767
      /\ 32768 * part <= lo * 32735 + 16384
      /\ 32768 * part > lo * 32735 - 16384
  BY <1>1
<1>5. Decayed(x * 32768) = hi * 32735 + (x * 32768 + part)
  <2>1. hi * 32735 \in Int /\ x * 32768 + part \in Int
    BY <1>1, <1>4
  <2>2. /\ hi * 32735 + (x * 32768 + part) >= -2147483648
        /\ hi * 32735 + (x * 32768 + part) <= 2147483647
    BY <1>1, <1>4
  <2>3. GSM_L_ADD(hi * 32735, x * 32768 + part) = hi * 32735 + (x * 32768 + part)
    BY <2>1, <2>2, LAddOfSmall
  <2> QED
    BY <2>3, <1>2, <1>3 DEF Decayed
<1> HIDE DEF part
<1>6. L_z2 = hi * 32768 + lo
  BY <1>1
<1> HIDE DEF hi, lo
<1> QED
  BY <1>1, <1>4, <1>5, <1>6

-----------------------------------------------------------------------------
(* The filter's invariant. *)

\* The memory of a new gsm_state.
LEMMA PreInitIInv == PreInit => PreIInv
BY DEF PreInit, PreIInv, MeanInRange, Mean, Word, MIN_WORD, MAX_WORD

\* The estimate of the mean bounds the output: it is the distance between the two.
LEMMA OutputBound ==
  ASSUME PreIInv
  PROVE  L_z2 >= -1073612000 /\ L_z2 <= 1073612000
BY DEF PreIInv, MeanInRange, Mean

\* The estimate, moved by 33/2^15 of its distance from a sample, stays in the range.
LEMMA MeanStep ==
  ASSUME NEW m \in Int, m >= -536871412, m <= 536740340,
         NEW z \in Int, z >= -16384, z <= 16380,
         NEW n \in Int,
         32768 * n >= 32735 * m + 1081344 * z - 16384,
         32768 * n <= 32735 * m + 1081344 * z + 16384
  PROVE  n >= -536871412 /\ n <= 536740340
OBVIOUS

\* A sample keeps the estimate within the samples' range.
LEMMA SampleKeepsIInv ==
  ASSUME PreIInv, NEW y \in Word, Sample(y)
  PROVE  PreIInv'
<1> DEFINE x == Downscaled(y) - z1
           left == L_z2' - x * 32768
<1>1. /\ Downscaled(y) \in Int /\ Downscaled(y) >= -16384 /\ Downscaled(y) <= 16380
      /\ z1' = Downscaled(y)
  BY ScaledRange DEF Sample
<1>2. x \in Int /\ x >= -32764 /\ x <= 32764
  BY <1>1 DEF PreIInv
<1>3. L_z2' = Decayed(x * 32768)
  BY <1>2, FitWordOfWord DEF Sample
<1>4. L_z2 \in Int /\ L_z2 > -1073741824 /\ L_z2 < 1073741824
  BY OutputBound DEF PreIInv
<1>5. /\ L_z2' \in Int
      /\ 32768 * left <= 32735 * L_z2 + 16384
      /\ 32768 * left > 32735 * L_z2 - 16384
  <2>1. Decayed(x * 32768) \in Int
    BY <1>2, <1>4, DecayedIs
  <2>2. 32768 * (Decayed(x * 32768) - x * 32768) <= 32735 * L_z2 + 16384
    BY <1>2, <1>4, DecayedIs
  <2>3. 32768 * (Decayed(x * 32768) - x * 32768) > 32735 * L_z2 - 16384
    BY <1>2, <1>4, DecayedIs
  <2> QED
    BY <1>3, <2>1, <2>2, <2>3
<1>6. MeanInRange'
  <2>1. left \in Int
    BY <1>2, <1>5
  <2>2. Mean' = z1 * 32768 - left
    BY <1>1, <1>2, <1>5 DEF Mean, PreIInv
  <2>3. z1 \in Int /\ z1 >= -16384 /\ z1 <= 16380 /\ Mean \in Int /\ MeanInRange
    BY <1>4 DEF PreIInv, Mean
  <2>4. L_z2 = z1 * 32768 - Mean
    BY <2>3, <1>4 DEF Mean
  <2> HIDE DEF left, x
  <2>5. 32768 * Mean' >= 32735 * Mean + 1081344 * z1 - 16384
    BY <1>5, <2>1, <2>2, <2>3, <2>4
  <2>6. 32768 * Mean' <= 32735 * Mean + 1081344 * z1 + 16384
    BY <1>5, <2>1, <2>2, <2>3, <2>4
  <2>7. Mean' \in Int
    BY <2>1, <2>2, <2>3
  <2>8. Mean >= -536871412 /\ Mean <= 536740340
    BY <2>3 DEF MeanInRange
  <2>9. PICK m \in Int, n \in Int : m = Mean /\ n = Mean'
    BY <2>3, <2>7
  <2>10. /\ m >= -536871412 /\ m <= 536740340
         /\ 32768 * n >= 32735 * m + 1081344 * z1 - 16384
         /\ 32768 * n <= 32735 * m + 1081344 * z1 + 16384
    BY <2>5, <2>6, <2>8, <2>9
  <2>11. n >= -536871412 /\ n <= 536740340
    BY <2>3, <2>10, MeanStep
  <2> QED
    BY <2>9, <2>11 DEF MeanInRange
<1>7. mp' \in Word
  <2>1. Mean' \in Int /\ L_z2' = z1' * 32768 - Mean'
    BY <1>1, <1>5 DEF Mean
  <2>2. L_z2' >= -1073612000 /\ L_z2' <= 1073612000
    BY <2>1, <1>1, <1>6 DEF MeanInRange
  <2>3. GSM_L_ADD(L_z2', 16384) = L_z2' + 16384
    BY <1>5, <2>2, LAddOfSmall
  <2>4. SASR(L_z2' + 16384, 15) \in Int
    BY <1>5, Shifts
  <2> QED
    BY <2>3, <2>4, FitWordIsWord DEF Sample
<1>8. so' \in Word
  <2>1. mp \in Int /\ mp' \in Int
    BY <1>7 DEF PreIInv, Word
  <2>2. mp * (-28180) + 16384 \in Int
    BY <2>1
  <2>3. SASR(mp * (-28180) + 16384, 15) \in Int
    BY <2>2, Shifts
  <2>4. FitWord(GSM_MULT_R(mp, -28180)) \in Int
    BY <2>3, FitWordIsWord DEF GSM_MULT_R, Word
  <2>5. mp' + FitWord(GSM_MULT_R(mp, -28180)) \in Int
    BY <2>1, <2>4
  <2> QED
    BY <2>5, SaturateIsWord DEF Sample, GSM_ADD
<1> QED
  BY <1>1, <1>5, <1>6, <1>7, <1>8 DEF PreIInv

\* The invariant says what the widths need.
LEMMA IInvImpliesRange == PreIInv => OffsetInRange
BY OutputBound DEF PreIInv, OffsetInRange

\* The filter of Gsm_Preprocess never leaves the range its asserts and its narrow
\* variables rely on, for any sequence of 16-bit samples.
THEOREM OffsetStaysInRange == PreSpec => []OffsetInRange
<1>1. PreIInv /\ [PreNext]_prevars => PreIInv'
  <2>1. CASE UNCHANGED prevars
    BY <2>1 DEF prevars, PreIInv, MeanInRange, Mean
  <2>2. CASE PreNext
    BY <2>2, SampleKeepsIInv DEF PreNext
  <2> QED
    BY <2>1, <2>2
<1> QED
  BY <1>1, PreInitIInv, IInvImpliesRange, PTL DEF PreSpec

-----------------------------------------------------------------------------
(* One sub-frame. *)

\* A history of 120 samples, with 40 more.
Pushed(w, d) == SubSeq(w \o d, 41, 160)

\* The decoder's history after sub-frame i of parameters p, from history w.
AfterSubframe(w, p, i) ==
  Pushed(w, Synthesized(Excitation(p.Mc[i], p.xmaxc[i], p.xMc[i]), p.Nc[i], p.bc[i], w))

\* After the first n sub-frames.
After(w, p, n) ==
  LET w1 == AfterSubframe(w, p, 1)
      w2 == AfterSubframe(w1, p, 2)
      w3 == AfterSubframe(w2, p, 3)
  IN  CASE n = 0 -> w
        [] n = 1 -> w1
        [] n = 2 -> w2
        [] n = 3 -> w3
        [] n = 4 -> AfterSubframe(w3, p, 4)

\* The newest 120 samples of a history of m.
Newest(hist, m) == SubSeq(hist, m - 119, m)

\* One sub-frame more.
LEMMA AfterStep ==
  ASSUME NEW w, NEW p, NEW n \in 1 .. 4
  PROVE  After(w, p, n) = AfterSubframe(After(w, p, n - 1), p, n)
<1>1. n \in {1, 2, 3, 4}
  OBVIOUS
<1>2. CASE n = 1 BY <1>2 DEF After
<1>3. CASE n = 2 BY <1>3 DEF After
<1>4. CASE n = 3 BY <1>4 DEF After
<1>5. CASE n = 4 BY <1>5 DEF After
<1> QED BY <1>1, <1>2, <1>3, <1>4, <1>5

\* The first sub-frames do not depend on the parameters of the later ones.
LEMMA AfterAgrees ==
  ASSUME NEW w, NEW p, NEW q, NEW n \in 0 .. 4,
         \A i \in 1 .. n : /\ p.Mc[i] = q.Mc[i] /\ p.xmaxc[i] = q.xmaxc[i] /\ p.xMc[i] = q.xMc[i]
                           /\ p.Nc[i] = q.Nc[i] /\ p.bc[i] = q.bc[i]
  PROVE  After(w, p, n) = After(w, q, n)
<1>1. \A i \in 1 .. n : \A v : AfterSubframe(v, p, i) = AfterSubframe(v, q, i)
  BY DEF AfterSubframe
<1>2. n \in {0, 1, 2, 3, 4}
  OBVIOUS
<1> HIDE DEF AfterSubframe
<1>3. CASE n = 0 BY <1>3 DEF After
<1>4. CASE n = 1 BY <1>1, <1>4 DEF After
<1>5. CASE n = 2
  <2>1. 1 \in 1 .. n /\ 2 \in 1 .. n
    BY <1>5
  <2> QED BY <1>1, <1>5, <2>1 DEF After
<1>6. CASE n = 3
  <2>1. 1 \in 1 .. n /\ 2 \in 1 .. n /\ 3 \in 1 .. n
    BY <1>6
  <2> QED BY <1>1, <1>6, <2>1 DEF After
<1>7. CASE n = 4
  <2>1. 1 \in 1 .. n /\ 2 \in 1 .. n /\ 3 \in 1 .. n /\ 4 \in 1 .. n
    BY <1>7
  <2> QED BY <1>1, <1>7, <2>1 DEF After
<1> QED BY <1>2, <1>3, <1>4, <1>5, <1>6, <1>7

\* Two histories of which no sample is more than n away from the other's.
Within(w, v, n) == /\ w \in [1 .. 120 -> Int] /\ v \in [1 .. 120 -> Int]
                   /\ \A i \in 1 .. 120 : w[i] - v[i] <= n /\ v[i] - w[i] <= n

\* What is synthesized from two of them is no farther apart.
LEMMA SynthesizedNear ==
  ASSUME NEW n \in Nat, NEW w, NEW v, Within(w, v, n),
         NEW ex \in [1 .. 40 -> Int], NEW Nc \in 40 .. 120, NEW bc \in 0 .. 3
  PROVE  LET d == Synthesized(ex, Nc, bc, w)
             f == Synthesized(ex, Nc, bc, v)
         IN  /\ d \in [1 .. 40 -> Int] /\ f \in [1 .. 40 -> Int]
             /\ \A i \in 1 .. 40 : d[i] - f[i] <= n /\ f[i] - d[i] <= n
<1> DEFINE At(x, i) == GSM_ADD(ex[i], GSM_MULT_R(gsm_QLB[bc + 1], Ago(x, i, Nc)))
<1>1. PICK q \in Int : q = gsm_QLB[bc + 1]
  BY GainIsInt
<1>2. ASSUME NEW x \in [1 .. 120 -> Int], NEW i \in 1 .. 40
      PROVE  At(x, i) \in Int /\ Ago(x, i, Nc) \in Int
  <2>1. Ago(x, i, Nc) \in Int
    <3>1. PICK m \in Nat : m = 120 /\ m >= 120
      OBVIOUS
    <3>2. x \in [1 .. m -> Int]
      BY <3>1
    <3> QED BY ONLY <3>1, <3>2, m \in Nat, i \in 1 .. 40, Nc \in 40 .. 120, AgoIs
  <2>2. GSM_MULT_R(q, Ago(x, i, Nc)) \in Int /\ ex[i] \in Int
    BY <2>1, WordsOf
  <2>3. GSM_ADD(ex[i], GSM_MULT_R(q, Ago(x, i, Nc))) \in Int
    BY ONLY <2>2, WordsOf
  <2> QED BY ONLY <1>1, <2>1, <2>3
<1>3. ASSUME NEW x \in [1 .. 120 -> Int]
      PROVE  /\ Synthesized(ex, Nc, bc, x) \in [1 .. 40 -> Int]
             /\ \A i \in 1 .. 40 : Synthesized(ex, Nc, bc, x)[i] = At(x, i)
  <2> DEFINE f == [i \in 1 .. 40 |-> At(x, i)]
  <2>1. Synthesized(ex, Nc, bc, x) = Array(f)
    BY DEF Synthesized
  <2> HIDE DEF At
  <2>2. f \in [1 .. 40 -> Int] /\ \A i \in 1 .. 40 : f[i] = At(x, i)
    BY <1>2
  <2> HIDE DEF f
  <2>3. Array(f) = f
    <3>1. PICK m \in Nat : m = 40
      OBVIOUS
    <3>2. PICK x1 \in [1 .. m -> Int] : x1 = f
      BY <2>2, <3>1
    <3>3. Array(x1) = x1
      BY ONLY m \in Nat, x1 \in [1 .. m -> Int], FcnIsSeq
    <3> QED BY ONLY <3>2, <3>3
  <2> QED BY ONLY <2>1, <2>2, <2>3
<1>4. ASSUME NEW x \in [1 .. 120 -> Int], NEW y \in [1 .. 120 -> Int],
             \A i \in 1 .. 120 : x[i] - y[i] <= n,
             NEW i \in 1 .. 40
      PROVE  At(x, i) - At(y, i) <= n
  <2>1. Len(x) = 120 /\ Len(y) = 120
    BY FcnIsSeq, 120 \in Nat
  <2>2. PICK l \in 1 .. 120 : l = 120 + i - Nc
    OBVIOUS
  <2>3. PICK a \in Int, b \in Int : a = Ago(x, i, Nc) /\ b = Ago(y, i, Nc) /\ a - b <= n
    <3>1. Ago(x, i, Nc) = x[l] /\ Ago(y, i, Nc) = y[l] /\ x[l] \in Int /\ y[l] \in Int
      BY <2>1, <2>2 DEF Ago
    <3>2. x[l] - y[l] <= n
      BY <1>4
    <3> QED BY ONLY <3>1, <3>2
  <2>4. PICK a1 \in Int, b1 \in Int : /\ a1 = GSM_MULT_R(gsm_QLB[bc + 1], a)
                                     /\ b1 = GSM_MULT_R(gsm_QLB[bc + 1], b)
    BY ONLY <1>1, a \in Int, b \in Int, WordsOf
  <2>5. a1 - b1 <= n
    BY ONLY <2>3, <2>4, a \in Int, b \in Int, n \in Nat, bc \in 0 .. 3, ScaledNear
  <2>6. PICK z \in Int : z = ex[i]
    OBVIOUS
  <2>7. GSM_ADD(z, a1) - GSM_ADD(z, b1) <= n
    BY ONLY <2>5, a1 \in Int, b1 \in Int, z \in Int, n \in Nat, SumNear
  <2> QED BY ONLY <2>3, <2>4, <2>6, <2>7
<1>5. /\ w \in [1 .. 120 -> Int] /\ v \in [1 .. 120 -> Int]
      /\ \A i \in 1 .. 120 : w[i] - v[i] <= n /\ v[i] - w[i] <= n
  BY DEF Within
<1> HIDE DEF At
<1> QED BY <1>3, <1>4, <1>5

\* Where the newest 120 samples stand.
LEMMA NewestIs ==
  ASSUME NEW m \in Nat, m >= 120, NEW hist, Vec(hist, m)
  PROVE  /\ Vec(Newest(hist, m), 120)
         /\ \A i \in 1 .. 120 : Newest(hist, m)[i] = hist[m - 120 + i]
<1>1. m - 119 \in Nat \ {0} /\ 120 \in Nat /\ m = m - 119 + 120 - 1
  OBVIOUS
<1>2. Newest(hist, m) = Cut(hist, m - 119, m)
  BY DEF Newest, Cut
<1>3. Vec(Cut(hist, m - 119, m), 120)
  BY <1>1, VecCut
<1>4. \A i \in 1 .. 120 : Cut(hist, m - 119, m)[i] = hist[m - 119 + i - 1]
  BY <1>1, VecCut
<1> QED BY <1>2, <1>3, <1>4

\* 40 samples push the oldest 40 of 120 out.
LEMMA MovedIs ==
  ASSUME NEW w, Vec(w, 120), NEW d, Vec(d, 40)
  PROVE  /\ Vec(Pushed(w, d), 120)
         /\ \A i \in 1 .. 120 : Pushed(w, d)[i] = IF i <= 80 THEN w[40 + i] ELSE d[i - 80]
<1> DEFINE both == Cat(w, d)
           moved == Cut(both, 41, 160)
<1>1. 120 \in Nat /\ 40 \in Nat /\ 160 \in Nat /\ 160 = 120 + 40
  OBVIOUS
<1>2. Vec(both, 160)
  BY <1>1, VecCat
<1>3. \A i \in 1 .. 160 : both[i] = IF i <= 120 THEN w[i] ELSE d[i - 120]
  BY <1>1, VecCat
<1> HIDE DEF both
<1>4. 41 \in Nat \ {0} /\ 160 \in Nat /\ 120 \in Nat /\ 160 = 41 + 120 - 1
  OBVIOUS
<1>5. Vec(moved, 120)
  BY ONLY <1>2, <1>4, VecCut
<1>6. \A i \in 1 .. 120 : moved[i] = both[41 + i - 1]
  BY ONLY <1>2, <1>4, VecCut
<1> HIDE DEF moved
<1>7. \A i \in 1 .. 120 : moved[i] = IF i <= 80 THEN w[40 + i] ELSE d[i - 80]
  BY ONLY <1>3, <1>6
<1> QED BY <1>5, <1>7 DEF both, moved, Cat, Cut, Pushed

\* Pushed behind them, it leaves the two no farther apart.
LEMMA SubframeNear ==
  ASSUME NEW n \in Nat, NEW w, NEW v, Within(w, v, n),
         NEW ex \in [1 .. 40 -> Int], NEW Nc \in 40 .. 120, NEW bc \in 0 .. 3
  PROVE  Within(Pushed(w, Synthesized(ex, Nc, bc, w)), Pushed(v, Synthesized(ex, Nc, bc, v)), n)
<1>1. PICK d : d = Synthesized(ex, Nc, bc, w)
  OBVIOUS
<1>2. PICK f : f = Synthesized(ex, Nc, bc, v)
  OBVIOUS
<1>3. /\ d \in [1 .. 40 -> Int] /\ f \in [1 .. 40 -> Int]
      /\ \A i \in 1 .. 40 : d[i] - f[i] <= n /\ f[i] - d[i] <= n
  BY <1>1, <1>2, SynthesizedNear
<1>4. /\ w \in [1 .. 120 -> Int] /\ v \in [1 .. 120 -> Int]
      /\ \A i \in 1 .. 120 : w[i] - v[i] <= n /\ v[i] - w[i] <= n
  BY DEF Within
<1>5. Vec(w, 120) /\ Vec(v, 120) /\ Vec(d, 40) /\ Vec(f, 40)
  BY ONLY <1>3, <1>4 DEF Vec
<1>6. PICK x, y : x = Pushed(w, d) /\ y = Pushed(v, f)
  OBVIOUS
<1>7. Vec(x, 120) /\ \A i \in 1 .. 120 : x[i] = IF i <= 80 THEN w[40 + i] ELSE d[i - 80]
  BY ONLY <1>5, <1>6, MovedIs
<1>8. Vec(y, 120) /\ \A i \in 1 .. 120 : y[i] = IF i <= 80 THEN v[40 + i] ELSE f[i - 80]
  BY ONLY <1>5, <1>6, MovedIs
<1>9. ASSUME NEW i \in 1 .. 120
      PROVE  /\ x[i] \in Int /\ y[i] \in Int
             /\ x[i] - y[i] <= n /\ y[i] - x[i] <= n
  <2>1. CASE i <= 80
    <3>1. 40 + i \in 1 .. 120
      BY <2>1
    <3> QED BY ONLY <1>4, <1>7, <1>8, <2>1, <3>1, i \in 1 .. 120
  <2>2. CASE ~(i <= 80)
    <3>1. i - 80 \in 1 .. 40
      BY <2>2
    <3> QED BY ONLY <1>3, <1>7, <1>8, <2>2, <3>1, i \in 1 .. 120
  <2> QED BY <2>1, <2>2
<1>10. Within(x, y, n)
  BY ONLY <1>7, <1>8, <1>9 DEF Within, Vec
<1> QED BY ONLY <1>1, <1>2, <1>6, <1>10

\* 40 samples behind a history, or behind its newest 120: the newest 120 are the same.
LEMMA NewestMoved ==
  ASSUME NEW m \in Nat, m >= 120, NEW hist, Vec(hist, m), NEW l \in Nat, l = m + 40,
         NEW d, Vec(d, 40)
  PROVE  /\ Vec(Cat(hist, d), l)
         /\ Newest(Cat(hist, d), l) = Pushed(Newest(hist, m), d)
<1> DEFINE w == Newest(hist, m)
           longer == Cat(hist, d)
           new == Newest(longer, l)
           moved == Pushed(w, d)
<1>1. Vec(w, 120) /\ \A i \in 1 .. 120 : w[i] = hist[m - 120 + i]
  BY NewestIs
<1> HIDE DEF w
<1>2. /\ Vec(longer, l)
      /\ \A i \in 1 .. l : longer[i] = IF i <= m THEN hist[i] ELSE d[i - m]
  <2>1. 40 \in Nat
    OBVIOUS
  <2> QED BY <2>1, VecCat
<1> HIDE DEF longer
<1>3. Vec(new, 120) /\ \A i \in 1 .. 120 : new[i] = longer[l - 120 + i]
  <2>1. l >= 120
    OBVIOUS
  <2> QED BY <1>2, <2>1, NewestIs
<1>4. Vec(moved, 120) /\ \A i \in 1 .. 120 : moved[i] = IF i <= 80 THEN w[40 + i] ELSE d[i - 80]
  BY <1>1, MovedIs
<1> HIDE DEF new, moved
<1>5. ASSUME NEW i \in 1 .. 120
      PROVE  new[i] = moved[i]
  <2>1. new[i] = longer[l - 120 + i] /\ moved[i] = IF i <= 80 THEN w[40 + i] ELSE d[i - 80]
    BY <1>3, <1>4
  <2>2. CASE i <= 80
    <3>1. 40 + i \in 1 .. 120 /\ m - 120 + (40 + i) = l - 120 + i
      BY <2>2
    <3>2. longer[l - 120 + i] = hist[l - 120 + i]
      BY <1>2, <2>2
    <3> QED BY <1>1, <2>1, <2>2, <3>1, <3>2
  <2>3. CASE i > 80
    <3>1. longer[l - 120 + i] = d[i - 80]
      BY <1>2, <2>3
    <3> QED BY <2>1, <2>3, <3>1
  <2> QED BY <2>2, <2>3
<1>6. new = moved
  BY <1>3, <1>4, <1>5, VecEqual
<1> QED BY <1>2, <1>6 DEF w, longer, new, moved

\* What the coder adds to its history after a sub-frame.
Reconstructed(ex, Nc, bc, hist) ==
  [i \in 1 .. 40 |-> GSM_ADD(ex[i], Estimate(bc, Nc, hist)[i])]

\* The coder reconstructs from a history of m samples what the decoder synthesizes from
\* the newest 120.
LEMMA SameSamples ==
  ASSUME NEW m \in Nat, m >= 120, NEW hist, Vec(hist, m),
         NEW Nc \in 40 .. 120, NEW bc, NEW ex
  PROVE  /\ Vec(Reconstructed(ex, Nc, bc, hist), 40)
         /\ Reconstructed(ex, Nc, bc, hist) = Synthesized(ex, Nc, bc, Newest(hist, m))
<1> DEFINE w == Newest(hist, m)
           d == Reconstructed(ex, Nc, bc, hist)
           est == Estimate(bc, Nc, hist)
           drp == Synthesized(ex, Nc, bc, w)
           Scaled1(x, i) == GSM_MULT_R(gsm_QLB[bc + 1], Ago(x, i, Nc))
<1>1. Vec(w, 120) /\ \A i \in 1 .. 120 : w[i] = hist[m - 120 + i]
  BY NewestIs
<1>2. Len(w) = 120 /\ Len(hist) = m
  BY <1>1, VecIsSeq
<1> HIDE DEF w
<1>3. \A i \in 1 .. 40 : Ago(w, i, Nc) = Ago(hist, i, Nc)
  <2>1. SUFFICES ASSUME NEW i \in 1 .. 40 PROVE w[120 + i - Nc] = hist[m + i - Nc]
    BY <1>2 DEF Ago
  <2>2. 120 + i - Nc \in 1 .. 120 /\ m - 120 + (120 + i - Nc) = m + i - Nc
    OBVIOUS
  <2> QED BY <1>1, <2>2
<1>4. \A i \in 1 .. 40 : est[i] = Scaled1(hist, i)
  <2> DEFINE f == [i \in 1 .. 40 |-> Scaled1(hist, i)]
  <2>1. Vec(f, 40) /\ \A i \in 1 .. 40 : f[i] = Scaled1(hist, i)
    BY DEF Vec
  <2>2. est = Array(f)
    BY DEF Estimate
  <2> HIDE DEF f
  <2> QED BY <2>1, <2>2, VecArray
<1>5. Vec(drp, 40) /\ \A i \in 1 .. 40 : drp[i] = GSM_ADD(ex[i], Scaled1(w, i))
  <2> DEFINE f == [i \in 1 .. 40 |-> GSM_ADD(ex[i], Scaled1(w, i))]
  <2>1. Vec(f, 40) /\ \A i \in 1 .. 40 : f[i] = GSM_ADD(ex[i], Scaled1(w, i))
    BY DEF Vec
  <2>2. drp = Array(f)
    BY DEF Synthesized
  <2> HIDE DEF f
  <2> QED BY <2>1, <2>2, VecArray
<1> HIDE DEF est
<1>6. Vec(d, 40) /\ \A i \in 1 .. 40 : d[i] = drp[i]
  BY <1>3, <1>4, <1>5 DEF Vec, est, Reconstructed
<1> HIDE DEF drp
<1>7. d = drp
  BY <1>5, <1>6, VecEqual
<1> QED BY <1>6, <1>7 DEF drp, w

\* A history of 120 samples is all new.
LEMMA NewestOf120 ==
  ASSUME NEW hist, Vec(hist, 120)
  PROVE  Newest(hist, 120) = hist
<1>1. 120 \in Nat /\ 120 >= 120 /\ \A i \in 1 .. 120 : 120 - 120 + i = i
  OBVIOUS
<1>2. Vec(Newest(hist, 120), 120) /\ \A i \in 1 .. 120 : Newest(hist, 120)[i] = hist[i]
  BY <1>1, NewestIs
<1> QED BY <1>2, VecEqual

-----------------------------------------------------------------------------
(* Frame by frame. *)

\* What the two states have in common, and what a frame makes of it.
Track(state) == [dp0 |-> state.dp0, LARpp |-> state.LARpp, j |-> state.j]
NewLARpp(t, LARc) == [t.LARpp EXCEPT ![t.j] = Decoding_of_the_coded_Log_Area_Ratios(LARc)]
FrameStep(t, p) == [dp0 |-> After(t.dp0, p, 4), LARpp |-> NewLARpp(t, p.LARc), j |-> 1 - t.j]

FrameBegun == {"preprocess", "lpc", "ratios"}
RatiosMoved == {"analysis", "ltp", "rpe", "pack"}
Encoding == FrameBegun \cup RatiosMoved
Decoding == {"unpack", "decode", "newratios", "synthesis"}

\* A gsm_state has all its fields.
Whole(state) ==
  state = [dp0 |-> state.dp0, LARpp |-> state.LARpp, j |-> state.j, u |-> state.u,
           nrp |-> state.nrp, v |-> state.v, msr |-> state.msr]

\* Nc and bc of n sub-frames are known, and the rest of m.
ParametersOf(n, m) ==
  /\ par = [LARc |-> par.LARc, Nc |-> par.Nc, bc |-> par.bc, Mc |-> par.Mc,
            xmaxc |-> par.xmaxc, xMc |-> par.xMc]
  /\ Vec(par.Nc, n) /\ Vec(par.bc, n)
  /\ Vec(par.Mc, m) /\ Vec(par.xmaxc, m) /\ Vec(par.xMc, m)

\* The order of the stages, and how much of the parameters is known at each.
StagesOK ==
  /\ pc \in {"idle"} \cup Encoding \cup Decoding
  /\ frame \in 1 .. P_CountFrameDataInPocket
  /\ pc = "idle" => frame = 1
  /\ sub \in 1 .. 4
  /\ Whole(enc) /\ Whole(dec)
  /\ pc \in {"ratios", "analysis"} => ParametersOf(0, 0)
  /\ pc = "ltp" => ParametersOf(sub - 1, sub - 1)
  /\ pc = "rpe" => ParametersOf(sub, sub - 1)
  /\ pc = "pack" => ParametersOf(4, 4)

-----------------------------------------------------------------------------
(* The stages. *)

\* At first the codec is idle, with two whole states.
LEMMA StagesInit == GsmInit => StagesOK
BY FramesAssumption DEF GsmInit, StagesOK, Whole, NewState, Encoding, Decoding, FrameBegun,
                        RatiosMoved

\* What the two actions that know more of the parameters do.
LEMMA LongTermEffect ==
  ASSUME StagesOK, LongTermPredictor
  PROVE  \E Nc, bc :
           /\ par' = [LARc |-> par.LARc, Nc |-> Longer(par.Nc, Nc), bc |-> Longer(par.bc, bc),
                      Mc |-> par.Mc, xmaxc |-> par.xmaxc, xMc |-> par.xMc]
           /\ dpp' = Estimate(bc, Nc, enc.dp0)
<1> DEFINE ltp == Calculation_of_the_LTP_parameters(SubSeq(s, 40 * sub - 39, 40 * sub), enc.dp0)
<1>1. /\ par' = [par EXCEPT !.Nc = Append(@, ltp.Nc), !.bc = Append(@, ltp.bc)]
      /\ dpp' = Estimate(ltp.bc, ltp.Nc, enc.dp0)
  BY DEF LongTermPredictor
<1>2. par = [LARc |-> par.LARc, Nc |-> par.Nc, bc |-> par.bc, Mc |-> par.Mc,
             xmaxc |-> par.xmaxc, xMc |-> par.xMc]
  BY DEF LongTermPredictor, StagesOK, ParametersOf
<1> HIDE DEF ltp
<1>3. par' = [LARc |-> par.LARc, Nc |-> Longer(par.Nc, ltp.Nc), bc |-> Longer(par.bc, ltp.bc),
              Mc |-> par.Mc, xmaxc |-> par.xmaxc, xMc |-> par.xMc]
  BY ONLY <1>1, <1>2 DEF Longer
<1> QED BY <1>1, <1>3

\* And of the grid and its pulses.
LEMMA RpeEffect ==
  ASSUME StagesOK, RpeEncoding
  PROVE  \E Mc, xmaxc, xMc :
           /\ par' = [LARc |-> par.LARc, Nc |-> par.Nc, bc |-> par.bc,
                      Mc |-> Longer(par.Mc, Mc), xmaxc |-> Longer(par.xmaxc, xmaxc),
                      xMc |-> Longer(par.xMc, xMc)]
           /\ e' = Excitation(Mc, xmaxc, xMc)
<1> DEFINE Mc == RPE_grid_selection(Weighting_filter(e))
           xmaxc == CodedMaximum(xM')
           xMc == Array([i \in 1 .. 13 |-> CodedPulse(xM'[i], xmaxc)])
<1>1. /\ par' = [par EXCEPT !.Mc = Append(@, Mc), !.xmaxc = Append(@, xmaxc),
                            !.xMc = Append(@, xMc)]
      /\ e' = Excitation(Mc, xmaxc, xMc)
  BY DEF RpeEncoding
<1>2. par = [LARc |-> par.LARc, Nc |-> par.Nc, bc |-> par.bc, Mc |-> par.Mc,
             xmaxc |-> par.xmaxc, xMc |-> par.xMc]
  BY DEF RpeEncoding, StagesOK, ParametersOf
<1> HIDE DEF Mc, xmaxc, xMc
<1>3. par' = [LARc |-> par.LARc, Nc |-> par.Nc, bc |-> par.bc,
              Mc |-> Longer(par.Mc, Mc), xmaxc |-> Longer(par.xmaxc, xmaxc),
              xMc |-> Longer(par.xMc, xMc)]
  BY ONLY <1>1, <1>2 DEF Longer
<1> QED BY <1>1, <1>3

\* The stages of the coder follow each other and fill in the parameters in order.
LEMMA EncodeStages ==
  ASSUME StagesOK, Encode
  PROVE  StagesOK'
<1> USE DEF StagesOK, Encoding, Decoding, FrameBegun, RatiosMoved, prevars, codervars,
            decodervars, ParametersOf
<1>1. CASE Record BY <1>1, FramesAssumption DEF Record, Whole
<1>2. CASE Preprocess BY <1>2 DEF Preprocess, Whole
<1>3. CASE LpcAnalysis
  <2>1. par' = [LARc |-> par'.LARc, Nc |-> <<>>, bc |-> <<>>, Mc |-> <<>>,
                xmaxc |-> <<>>, xMc |-> <<>>]
    BY <1>3 DEF LpcAnalysis, NoParameters
  <2>2. Vec(<<>>, 0)
    BY DEF Vec
  <2> QED BY <1>3, <2>1, <2>2 DEF LpcAnalysis, Whole
<1>4. CASE AnalysisRatios
  BY <1>4 DEF AnalysisRatios, NewRatios, Whole
<1>5. CASE ShortTermAnalysis
  BY <1>5 DEF ShortTermAnalysis, Whole
<1>6. CASE LongTermPredictor
  <2>1. pc = "ltp" /\ pc' = "rpe" /\ UNCHANGED <<frame, sub, enc, dec>>
    BY <1>6 DEF LongTermPredictor
  <2>2. PICK Nc, bc :
          par' = [LARc |-> par.LARc, Nc |-> Longer(par.Nc, Nc), bc |-> Longer(par.bc, bc),
                  Mc |-> par.Mc, xmaxc |-> par.xmaxc, xMc |-> par.xMc]
    BY <1>6, LongTermEffect
  <2>3. /\ sub - 1 \in Nat /\ sub = (sub - 1) + 1
        /\ Vec(par.Nc, sub - 1) /\ Vec(par.bc, sub - 1) /\ Vec(par.Mc, sub - 1)
        /\ Vec(par.xmaxc, sub - 1) /\ Vec(par.xMc, sub - 1)
    BY <2>1
  <2>4. Vec(Longer(par.Nc, Nc), sub) /\ Vec(Longer(par.bc, bc), sub)
    BY ONLY <2>3, VecAppend
  <2>5. ParametersOf(sub, sub - 1)'
    BY ONLY <2>1, <2>2, <2>3, <2>4 DEF ParametersOf
  <2> QED BY <2>1, <2>5 DEF Whole
<1>7. CASE RpeEncoding
  <2>1. /\ pc = "rpe" /\ UNCHANGED <<frame, dec>>
        /\ sub' = (sub % 4) + 1 /\ pc' = IF sub = 4 THEN "pack" ELSE "ltp"
    BY <1>7 DEF RpeEncoding
  <2>2. PICK Mc, xmaxc, xMc :
          par' = [LARc |-> par.LARc, Nc |-> par.Nc, bc |-> par.bc,
                  Mc |-> Longer(par.Mc, Mc), xmaxc |-> Longer(par.xmaxc, xmaxc),
                  xMc |-> Longer(par.xMc, xMc)]
    BY <1>7, RpeEffect
  <2>3. /\ sub - 1 \in Nat /\ sub = (sub - 1) + 1
        /\ Vec(par.Nc, sub) /\ Vec(par.bc, sub) /\ Vec(par.Mc, sub - 1)
        /\ Vec(par.xmaxc, sub - 1) /\ Vec(par.xMc, sub - 1)
    BY <2>1
  <2>4. Vec(Longer(par.Mc, Mc), sub) /\ Vec(Longer(par.xmaxc, xmaxc), sub)
        /\ Vec(Longer(par.xMc, xMc), sub)
    BY ONLY <2>3, VecAppend
  <2>5. /\ par' = [LARc |-> par'.LARc, Nc |-> par'.Nc, bc |-> par'.bc, Mc |-> par'.Mc,
                   xmaxc |-> par'.xmaxc, xMc |-> par'.xMc]
        /\ Vec(par'.Nc, sub) /\ Vec(par'.bc, sub) /\ Vec(par'.Mc, sub)
        /\ Vec(par'.xmaxc, sub) /\ Vec(par'.xMc, sub)
    BY ONLY <2>2, <2>3, <2>4
  <2>6. /\ sub' \in 1 .. 4
        /\ pc' = "pack" => sub = 4
        /\ pc' = "ltp" => sub = sub' - 1
        /\ pc' \in {"pack", "ltp"}
    BY <2>1
  <2>7. Whole(enc)'
    <3>1. PICK x : enc' = [enc EXCEPT !.dp0 = x]
      BY <1>7 DEF RpeEncoding
    <3> QED BY <3>1 DEF Whole
  <2> QED BY <2>1, <2>5, <2>6, <2>7 DEF Whole
<1>8. CASE Pack
  <2>1. /\ pc' \in {"preprocess", "idle"} /\ UNCHANGED <<sub, enc, dec>>
        /\ pc' = "idle" => frame' = 1
    BY <1>8 DEF Pack
  <2>2. frame' \in 1 .. P_CountFrameDataInPocket
    BY <1>8, FramesAssumption DEF Pack
  <2> QED BY <2>1, <2>2 DEF Whole
<1>9. CASE RestartMic BY <1>9 DEF RestartMic, Whole, NewState
<1> QED BY <1>1, <1>2, <1>3, <1>4, <1>5, <1>6, <1>7, <1>8, <1>9 DEF Encode

\* The packet travels and is decoded, frame by frame.
LEMMA DecodeStages ==
  ASSUME StagesOK, Travel \/ Decode
  PROVE  StagesOK'
<1> USE DEF StagesOK, Encoding, Decoding, FrameBegun, RatiosMoved, prevars, codervars,
            decodervars, ParametersOf
<1>1. CASE Accept BY <1>1 DEF Accept, OnItsWay, Whole
<1>2. CASE Discard \/ Poll BY <1>2 DEF Discard, Poll, OnItsWay, Whole
<1>3. CASE Replace BY <1>3 DEF Replace, OnItsWay, Whole
<1>4. CASE Refuse BY <1>4, FramesAssumption DEF Refuse, NextFrame, Whole
<1>5. CASE Unpack BY <1>5 DEF Unpack, Whole
<1>6. CASE DecodeSubframe
  <2>1. PICK x, y : dec' = [dec EXCEPT !.nrp = x, !.dp0 = y]
    BY <1>6 DEF DecodeSubframe
  <2>2. Whole(dec)'
    BY <2>1 DEF Whole
  <2>3. /\ pc' \in {"decode", "newratios"} /\ sub' = (sub % 4) + 1
        /\ UNCHANGED <<frame, enc>>
    BY <1>6 DEF DecodeSubframe
  <2> QED BY <2>2, <2>3 DEF Whole
<1>7. CASE SynthesisRatios BY <1>7 DEF SynthesisRatios, NewRatios, Whole
<1>8. CASE ShortTermSynthesis
  <2> DEFINE v == SynthesisStages(Coefficients(dec), dec.v, wt[k])
             msr == GSM_ADD(v[0], GSM_MULT_R(dec.msr, 28180))
  <2>1. dec' = [dec EXCEPT !.v = v, !.msr = msr]
    BY <1>8 DEF ShortTermSynthesis
  <2> HIDE DEF v, msr
  <2>2. Whole(dec)'
    BY <2>1 DEF Whole
  <2>3. /\ pc' \in {"synthesis", "unpack", "idle"} /\ frame' \in 1 .. P_CountFrameDataInPocket
        /\ (pc' = "idle" => frame' = 1) /\ UNCHANGED <<sub, enc>>
    BY <1>8, FramesAssumption DEF ShortTermSynthesis, NextFrame
  <2> QED BY <2>2, <2>3 DEF Whole
<1>9. CASE NewListener BY <1>9 DEF NewListener, Whole, NewState
<1> QED BY <1>1, <1>2, <1>3, <1>4, <1>5, <1>6, <1>7, <1>8, <1>9 DEF Travel, Decode

-----------------------------------------------------------------------------
(* What is left alone. *)

\* What most actions leave alone.
LEMMA OtherActions ==
  ASSUME Encode \/ Travel \/ Decode, ~Preprocess, ~Record, ~Pack, ~RestartMic
  PROVE  /\ UNCHANGED <<z1, L_z2, mp, so, pcm>>
         /\ pc' # "preprocess" /\ (pc' \in Encoding => pc \in Encoding)
<1> USE DEF prevars, codervars, decodervars, Encoding, FrameBegun, RatiosMoved
<1>1. CASE LpcAnalysis BY <1>1 DEF LpcAnalysis
<1>2. CASE AnalysisRatios BY <1>2 DEF AnalysisRatios
<1>3. CASE ShortTermAnalysis BY <1>3 DEF ShortTermAnalysis
<1>4. CASE LongTermPredictor BY <1>4 DEF LongTermPredictor
<1>5. CASE RpeEncoding BY <1>5 DEF RpeEncoding
<1>6. CASE Accept BY <1>6 DEF Accept
<1>7. CASE Discard \/ Poll \/ NewListener
  BY <1>7 DEF Discard, Poll, NewListener, OnItsWay
<1>8. CASE Replace BY <1>8 DEF Replace, OnItsWay
<1>9. CASE Refuse BY <1>9 DEF Refuse, NextFrame
<1>10. CASE Unpack BY <1>10 DEF Unpack
<1>11. CASE DecodeSubframe BY <1>11 DEF DecodeSubframe
<1>12. CASE SynthesisRatios BY <1>12 DEF SynthesisRatios
<1>13. CASE ShortTermSynthesis BY <1>13 DEF ShortTermSynthesis, NextFrame
<1> QED BY <1>1, <1>2, <1>3, <1>4, <1>5, <1>6, <1>7, <1>8, <1>9, <1>10, <1>11,
            <1>12, <1>13 DEF Encode, Travel, Decode

-----------------------------------------------------------------------------
(* The filter inside of the codec. *)

\* The samples are words, and enough of them.
OffsetInv ==
  /\ StagesOK /\ PreIInv
  /\ pc \in Encoding => pcm \in [1 .. 160 * P_CountFrameDataInPocket -> Word]
  /\ pc = "preprocess" => s \in Seq(Word) /\ Len(s) < 160

\* One sample through the filter, from within what was recorded.
LEMMA PreprocessOffset ==
  ASSUME OffsetInv, Preprocess
  PROVE  PreIInv' /\ (pc' = "preprocess" => s' \in Seq(Word) /\ Len(s') < 160)
<1>1. /\ pc = "preprocess" /\ s \in Seq(Word) /\ Len(s) < 160 /\ Len(s) \in Nat
      /\ pcm \in [1 .. 160 * P_CountFrameDataInPocket -> Word]
      /\ frame \in 1 .. P_CountFrameDataInPocket /\ P_CountFrameDataInPocket \in Nat
  BY FramesAssumption DEF Preprocess, OffsetInv, StagesOK, Encoding, FrameBegun
<1>2. 160 * (frame - 1) + Len(s) + 1 \in 1 .. 160 * P_CountFrameDataInPocket
  BY <1>1
<1>3. PICK x \in Word : Sample(x)
  BY <1>1, <1>2 DEF Preprocess
<1>4. PreIInv'
  BY <1>3, SampleKeepsIInv DEF OffsetInv
<1>5. so' \in Word
  BY <1>4 DEF PreIInv
<1>6. s' \in Seq(Word) /\ Len(s') = Len(s) + 1
  BY <1>1, <1>5 DEF Preprocess
<1>7. pc' = "preprocess" => Len(s') # 160
  BY DEF Preprocess
<1> QED BY <1>1, <1>4, <1>6, <1>7

\* Only Gsm_Preprocess touches the filter, and it finds a sample for each of its steps.
LEMMA OffsetNext ==
  ASSUME OffsetInv, [Encode \/ Travel \/ Decode]_gsmvars
  PROVE  OffsetInv'
<1>1. CASE UNCHANGED gsmvars
  BY <1>1 DEF gsmvars, prevars, codervars, decodervars, OffsetInv, StagesOK, Whole, ParametersOf,
              PreIInv, MeanInRange, Mean
<1>2. CASE Encode \/ Travel \/ Decode
  <2>1. StagesOK'
    BY <1>2, EncodeStages, DecodeStages DEF OffsetInv
  <2>2. CASE Preprocess
    BY <2>1, <2>2, PreprocessOffset DEF OffsetInv, Preprocess, Encoding, FrameBegun
  <2>3. CASE Record
    <3>1. pcm' \in [1 .. 160 * P_CountFrameDataInPocket -> Word] /\ s' = <<>>
      BY <2>3, SignalsAssumption DEF Record
    <3>2. PreIInv'
      BY <2>3 DEF Record, prevars, OffsetInv, PreIInv, MeanInRange, Mean
    <3> QED BY <2>1, <3>1, <3>2 DEF OffsetInv
  <2>4. CASE Pack
    <3>1. pcm' = pcm /\ pc \in Encoding /\ (pc' = "preprocess" => s' = <<>>)
      BY <2>4 DEF Pack, Encoding, RatiosMoved
    <3>2. UNCHANGED prevars /\ PreIInv
      BY <2>4 DEF Pack, OffsetInv
    <3>3. PreIInv'
      BY ONLY <3>2 DEF prevars, PreIInv, MeanInRange, Mean
    <3>4. pcm' \in [1 .. 160 * P_CountFrameDataInPocket -> Word]
      BY <3>1 DEF OffsetInv
    <3>5. pc' = "preprocess" => s' \in Seq(Word) /\ Len(s') < 160
      BY <3>1
    <3> QED BY <2>1, <3>3, <3>4, <3>5 DEF OffsetInv
  <2>5. CASE RestartMic
    <3>1. pc' = "idle" /\ z1' = 0 /\ L_z2' = 0 /\ mp' = 0 /\ so' = 0
      BY <2>5 DEF RestartMic
    <3>2. PreIInv'
      BY ONLY <3>1 DEF PreIInv, MeanInRange, Mean, Word, MIN_WORD, MAX_WORD
    <3> QED BY <2>1, <3>1, <3>2 DEF OffsetInv, Encoding, FrameBegun, RatiosMoved
  <2>6. CASE ~(Preprocess \/ Record \/ Pack \/ RestartMic)
    <3>1. /\ UNCHANGED prevars /\ UNCHANGED pcm
          /\ pc' # "preprocess" /\ (pc' \in Encoding => pc \in Encoding)
      BY <1>2, <2>6, OtherActions DEF prevars
    <3>2. PreIInv'
      BY <3>1 DEF prevars, OffsetInv, PreIInv, MeanInRange, Mean
    <3> QED BY <2>1, <3>1, <3>2 DEF OffsetInv
  <2> QED BY <2>2, <2>3, <2>4, <2>5, <2>6
<1> QED BY <1>1, <1>2

\* The filter keeps its range inside of the codec, for any signals of 16-bit samples.
THEOREM CodecOffsetInRange == GsmSpec => []OffsetInRange
<1>1. GsmInit => OffsetInv
  BY StagesInit, PreInitIInv DEF GsmInit, OffsetInv, Encoding, FrameBegun, RatiosMoved
<1>2. OffsetInv /\ [Encode \/ Travel \/ Decode]_gsmvars => OffsetInv'
  BY OffsetNext
<1>3. OffsetInv => OffsetInRange
  BY IInvImpliesRange DEF OffsetInv
<1> QED BY <1>1, <1>2, <1>3, PTL DEF GsmSpec

-----------------------------------------------------------------------------
(* The invariant of the asserts. *)

\* What one sub-frame's grid, maximum and pulses may be.
Fine(g, q, x) == g \in 0 .. 3 /\ q \in 0 .. 63 /\ x \in [1 .. 13 -> 0 .. 7]

\* And those of all sub-frames so far.
Sound(p) == /\ \A i \in DOMAIN p.bc : p.bc[i] \in 0 .. 3
            /\ \A i \in DOMAIN p.xmaxc : Fine(p.Mc[i], p.xmaxc[i], p.xMc[i])

\* What the coder has computed of the frame.
SoundParameters ==
  /\ Vec(par.LARc, 8) /\ \A i \in 1 .. 8 : par.LARc[i] \in 0 .. Levels(i)
  /\ Sound(par)
  /\ \A i \in DOMAIN par.Nc : par.Nc[i] \in 40 .. 120

\* The samples of the last grid fit a word after the shift.
SoundShift ==
  par.xmaxc # <<>> =>
    \A i \in 1 .. 13 : xM[i] * 2^(6 - ExpMant(par.xmaxc[Len(par.xmaxc)]).exp) \in Word

\* What the decoder works on.
SoundReceived ==
  /\ Sound(received) /\ dec.nrp \in 40 .. 120
  /\ pc = "decode" => /\ DOMAIN received.bc = 1 .. 4 /\ DOMAIN received.xmaxc = 1 .. 4
                      /\ \A i \in 1 .. 4 : received.Nc[i] \in Nat

\* The signal on its way through the coder.
SoundSignal ==
  /\ k \in 1 .. 160 /\ r \in [1 .. 8 -> Narrow]
  /\ pc \in {"lpc", "ratios", "analysis", "ltp", "rpe"} => s \in [1 .. 160 -> Word]

\* The memory of the lattice, and the ratios of the last two frames.
SoundFilter ==
  /\ enc.u \in [1 .. 8 -> Word]
  /\ enc.j \in 0 .. 1 /\ enc.LARpp \in [0 .. 1 -> [1 .. 8 -> Int]]

\* The reconstructed residual, which grows with every sub-frame, and the estimate.
SoundHistory ==
  /\ pc \in {"ltp", "rpe"} => enc.dp0 \in [1 .. 80 + 40 * sub -> Int]
  /\ pc \notin {"ltp", "rpe"} => enc.dp0 \in [1 .. 120 -> Int]
  /\ pc = "rpe" => e \in [1 .. 40 -> Word] /\ dpp \in [1 .. 40 -> Int]

\* The decoder's.
SoundDecoder ==
  /\ dec.dp0 \in [1 .. 120 -> Int] /\ dec.j \in 0 .. 1
  /\ dec.LARpp = [i \in 0 .. 1 |-> dec.LARpp[i]]

\* A frame.
Bytes == [1 .. 33 -> 0 .. 255]

\* The frames of the packet are bytes, and as many as have been coded.
SoundPacket ==
  /\ packet \in Seq(Bytes)
  /\ pc \in Encoding => Len(packet) = frame - 1
  /\ pc \in Decoding \/ OnItsWay => Len(packet) = P_CountFrameDataInPocket

\* The invariant behind the asserts.
AssertsInv == /\ OffsetInv
              /\ SoundParameters /\ SoundShift /\ SoundReceived /\ SoundSignal
              /\ SoundFilter /\ SoundHistory /\ SoundDecoder /\ SoundPacket

\* What gsm_create makes.
LEMMA NewStateSound ==
  /\ NewState.u \in [1 .. 8 -> Word] /\ NewState.j \in 0 .. 1
  /\ NewState.LARpp \in [0 .. 1 -> [1 .. 8 -> Int]]
  /\ NewState.LARpp = [i \in 0 .. 1 |-> NewState.LARpp[i]]
  /\ NewState.dp0 \in [1 .. 120 -> Int] /\ NewState.nrp \in 40 .. 120
<1>1. \A n \in Nat : Zeros(n) \in [1 .. n -> Int] /\ Zeros(n) \in [1 .. n -> Word]
  BY DEF Zeros, Word, MIN_WORD, MAX_WORD
<1>2. /\ Zeros(120) \in [1 .. 120 -> Int] /\ Zeros(8) \in [1 .. 8 -> Word]
      /\ Zeros(8) \in [1 .. 8 -> Int]
  BY <1>1
<1>3. /\ NewState.dp0 = Zeros(120) /\ NewState.u = Zeros(8) /\ NewState.j = 0
      /\ NewState.LARpp = [i \in 0 .. 1 |-> Zeros(8)] /\ NewState.nrp = 40
  BY DEF NewState
<1> QED BY ONLY <1>2, <1>3

-----------------------------------------------------------------------------
(* Parts of sequences. *)

\* A part of a sequence of n elements of S.
LEMMA CutIn ==
  ASSUME NEW n \in Nat, NEW S, NEW x \in [1 .. n -> S], NEW lo \in Nat \ {0}, NEW hi \in Nat,
         NEW l \in Nat, hi = lo + l - 1, hi <= n
  PROVE  Cut(x, lo, hi) \in [1 .. l -> S]
<1>1. Vec(x, n)
  BY DEF Vec
<1>2. Vec(Cut(x, lo, hi), l) /\ \A i \in 1 .. l : Cut(x, lo, hi)[i] = x[lo + i - 1]
  BY <1>1, VecCut
<1>3. \A i \in 1 .. l : x[lo + i - 1] \in S
  <2> TAKE i \in 1 .. l
  <2>1. lo + i - 1 \in 1 .. n
    OBVIOUS
  <2> QED BY <2>1
<1> QED BY ONLY <1>2, <1>3 DEF Vec

\* Two of them, one behind the other.
LEMMA CatIn ==
  ASSUME NEW m \in Nat, NEW n \in Nat, NEW l \in Nat, l = m + n, NEW S,
         NEW x \in [1 .. m -> S], NEW y \in [1 .. n -> S]
  PROVE  Cat(x, y) \in [1 .. l -> S]
<1>1. Vec(x, m) /\ Vec(y, n)
  BY DEF Vec
<1>2. /\ Vec(Cat(x, y), l)
      /\ \A i \in 1 .. l : Cat(x, y)[i] = IF i <= m THEN x[i] ELSE y[i - m]
  BY <1>1, VecCat
<1>3. \A i \in 1 .. l : (IF i <= m THEN x[i] ELSE y[i - m]) \in S
  <2> TAKE i \in 1 .. l
  <2>1. CASE i <= m
    <3>1. i \in 1 .. m
      BY <2>1
    <3> QED BY <2>1, <3>1
  <2>2. CASE i > m
    <3>1. i - m \in 1 .. n /\ ~(i <= m)
      BY <2>2
    <3> QED BY <3>1
  <2> QED BY <2>1, <2>2
<1> QED BY ONLY <1>2, <1>3 DEF Vec

-----------------------------------------------------------------------------
(* The parameters. *)

\* What the long-term predictor adds is in range.
LEMMA LongTermResult ==
  ASSUME AssertsInv, LongTermPredictor
  PROVE  \E Nc \in 40 .. 120 : \E bc \in 0 .. 3 :
           /\ par' = [LARc |-> par.LARc, Nc |-> Longer(par.Nc, Nc), bc |-> Longer(par.bc, bc),
                      Mc |-> par.Mc, xmaxc |-> par.xmaxc, xMc |-> par.xMc]
           /\ dpp' \in [1 .. 40 -> Int] /\ e' \in [1 .. 40 -> Word]
<1> DEFINE d == SubSeq(s, 40 * sub - 39, 40 * sub)
           ltp == Calculation_of_the_LTP_parameters(d, enc.dp0)
<1>1. /\ pc = "ltp"
      /\ par' = [par EXCEPT !.Nc = Append(@, ltp.Nc), !.bc = Append(@, ltp.bc)]
      /\ dpp' = Estimate(ltp.bc, ltp.Nc, enc.dp0)
      /\ e' = Remainder(d, Estimate(ltp.bc, ltp.Nc, enc.dp0))
  BY DEF LongTermPredictor
<1>2. /\ sub \in 1 .. 4
      /\ par = [LARc |-> par.LARc, Nc |-> par.Nc, bc |-> par.bc, Mc |-> par.Mc,
                xmaxc |-> par.xmaxc, xMc |-> par.xMc]
  BY <1>1 DEF AssertsInv, OffsetInv, StagesOK, ParametersOf
<1>3. PICK m \in Nat : m = 80 + 40 * sub /\ m >= 120
  BY <1>2
<1>4. PICK hist \in [1 .. m -> Int] : hist = enc.dp0
  BY <1>1, <1>3 DEF AssertsInv, SoundHistory
<1>5. s \in [1 .. 160 -> Word]
  BY <1>1 DEF AssertsInv, SoundSignal
<1>6. d \in [1 .. 40 -> Word]
  <2>1. PICK lo \in Nat \ {0}, hi \in Nat, l \in Nat, n \in Nat :
          lo = 40 * sub - 39 /\ hi = 40 * sub /\ l = 40 /\ n = 160 /\ hi = lo + l - 1 /\ hi <= n
    BY ONLY <1>2
  <2>2. s \in [1 .. n -> Word]
    BY ONLY <1>5, <2>1
  <2>3. PICK W : W = Word
    OBVIOUS
  <2>4. PICK x \in [1 .. n -> W] : x = s
    BY ONLY <2>2, <2>3
  <2>5. lo \in Nat \ {0} /\ hi \in Nat /\ l \in Nat /\ n \in Nat /\ hi = lo + l - 1 /\ hi <= n
        /\ x \in [1 .. n -> W]
    BY <2>1
  <2>6. Cut(x, lo, hi) \in [1 .. l -> W]
    BY ONLY <2>5, CutIn
  <2> QED BY ONLY <2>1, <2>3, <2>4, <2>6 DEF Cut
<1> HIDE DEF d
<1>7. ltp.Nc \in 40 .. 120 /\ ltp.bc \in 0 .. 3
  <2>1. LET l == Calculation_of_the_LTP_parameters(d, hist)
        IN  l.Nc \in 40 .. 120 /\ l.bc \in 0 .. 3
    BY ONLY <1>3, <1>6, m \in Nat, hist \in [1 .. m -> Int], LtpIs
  <2> QED BY ONLY <1>4, <2>1
<1>8. PICK Nc \in 40 .. 120, bc \in 0 .. 3 : Nc = ltp.Nc /\ bc = ltp.bc
  BY ONLY <1>7
<1> HIDE DEF ltp
<1>9. /\ Estimate(bc, Nc, hist) \in [1 .. 40 -> Int]
      /\ Remainder(d, Estimate(bc, Nc, hist)) \in [1 .. 40 -> Word]
  BY ONLY <1>3, <1>6, m \in Nat, hist \in [1 .. m -> Int], Nc \in 40 .. 120, bc \in 0 .. 3,
          EstimateIs
<1>10. par' = [LARc |-> par.LARc, Nc |-> Longer(par.Nc, Nc), bc |-> Longer(par.bc, bc),
               Mc |-> par.Mc, xmaxc |-> par.xmaxc, xMc |-> par.xMc]
  BY ONLY <1>1, <1>2, <1>8 DEF Longer
<1> QED BY ONLY <1>1, <1>4, <1>8, <1>9, <1>10, Nc \in 40 .. 120, bc \in 0 .. 3

\* What the coding of the residual adds is in range.
LEMMA RpeResult ==
  ASSUME AssertsInv, RpeEncoding
  PROVE  \E g, q, c :
           /\ Regular(xM', g, q, c)
           /\ par' = [LARc |-> par.LARc, Nc |-> par.Nc, bc |-> par.bc,
                      Mc |-> Longer(par.Mc, g), xmaxc |-> Longer(par.xmaxc, q),
                      xMc |-> Longer(par.xMc, c)]
           /\ e' = Excitation(g, q, c)
<1> DEFINE x == Weighting_filter(e)
           g == RPE_grid_selection(x)
           z == Grid(x, g)
           q == CodedMaximum(z)
           c == Array([i \in 1 .. 13 |-> CodedPulse(z[i], q)])
<1>1. /\ pc = "rpe" /\ xM' = z
      /\ par' = [par EXCEPT !.Mc = Append(@, g), !.xmaxc = Append(@, q), !.xMc = Append(@, c)]
      /\ e' = Excitation(g, q, c)
  BY DEF RpeEncoding
<1>2. par = [LARc |-> par.LARc, Nc |-> par.Nc, bc |-> par.bc, Mc |-> par.Mc,
             xmaxc |-> par.xmaxc, xMc |-> par.xMc]
  BY <1>1 DEF AssertsInv, OffsetInv, StagesOK, ParametersOf
<1>3. e \in [1 .. 40 -> Word]
  BY <1>1 DEF AssertsInv, SoundHistory
<1>4. Regular(z, g, q, c)
  BY ONLY <1>3, RpeIs
<1> HIDE DEF z, g, q, c
<1>5. par' = [LARc |-> par.LARc, Nc |-> par.Nc, bc |-> par.bc,
              Mc |-> Longer(par.Mc, g), xmaxc |-> Longer(par.xmaxc, q),
              xMc |-> Longer(par.xMc, c)]
  BY ONLY <1>1, <1>2 DEF Longer
<1> QED BY ONLY <1>1, <1>4, <1>5

\* What the coder's three computing stages alone change.
LEMMA ParametersKept ==
  ASSUME Encode \/ Travel \/ Decode, ~LpcAnalysis, ~LongTermPredictor, ~RpeEncoding
  PROVE  UNCHANGED <<par, xM>>
<1> USE DEF codervars
<1>1. CASE Encode
  BY <1>1 DEF Encode, Record, Preprocess, AnalysisRatios, ShortTermAnalysis, Pack, RestartMic
<1>2. CASE Travel
  BY <1>2 DEF Travel, Accept, Discard, Replace, Poll, NewListener
<1>3. CASE Decode
  BY <1>3 DEF Decode, Refuse, Unpack, DecodeSubframe, SynthesisRatios, ShortTermSynthesis
<1> QED BY <1>1, <1>2, <1>3

\* A sequence of n elements and one more have n + 1 places.
LEMMA LongerIs ==
  ASSUME NEW n \in Nat, NEW x, Vec(x, n), NEW y, NEW l, l = n + 1
  PROVE  /\ DOMAIN x = 1 .. n /\ DOMAIN Longer(x, y) = 1 .. l
         /\ \A i \in 1 .. n : Longer(x, y)[i] = x[i]
         /\ Longer(x, y)[l] = y
<1>1. Vec(Longer(x, y), l)
  BY VecAppend
<1>2. DOMAIN x = 1 .. n /\ DOMAIN Longer(x, y) = 1 .. l
  BY ONLY <1>1, Vec(x, n) DEF Vec
<1> QED BY <1>2, VecAppend

\* What holds for the elements of a sequence and for one more, holds for all of them.
LEMMA LongerIn ==
  ASSUME NEW n \in Nat, NEW x, Vec(x, n), NEW y, NEW S, y \in S,
         \A i \in DOMAIN x : x[i] \in S
  PROVE  \A i \in DOMAIN Longer(x, y) : Longer(x, y)[i] \in S
<1>1. /\ DOMAIN x = 1 .. n /\ DOMAIN Longer(x, y) = 1 .. (n + 1)
      /\ \A i \in 1 .. n : Longer(x, y)[i] = x[i]
      /\ Longer(x, y)[n + 1] = y
  BY LongerIs
<1> TAKE i \in DOMAIN Longer(x, y)
<1>2. i \in 1 .. n \/ i = n + 1
  BY <1>1
<1> QED BY <1>1, <1>2

\* The analysis of a frame begins its parameters.
LEMMA LpcParameters ==
  ASSUME AssertsInv, LpcAnalysis
  PROVE  SoundParameters' /\ SoundShift' /\ r' \in [1 .. 8 -> Narrow] /\ s' \in [1 .. 160 -> Word]
<1>1. s \in [1 .. 160 -> Word]
  BY DEF LpcAnalysis, AssertsInv, SoundSignal
<1> DEFINE n == scalauto(s)
           sc == Scaled(s, n)
<1>2. r' = Reflection_coefficients(L_ACF(sc)) /\ s' = Rescaled(sc, n)
  BY DEF LpcAnalysis
<1>3. r' \in [1 .. 8 -> Narrow] /\ s' \in [1 .. 160 -> Word]
  BY ONLY <1>1, <1>2, LpcIs
<1>4. par' = [NoParameters EXCEPT !.LARc = Coded(r')]
  BY DEF LpcAnalysis
<1>5. par'.LARc = Coded(r') /\ par'.Nc = <<>> /\ par'.bc = <<>> /\ par'.xmaxc = <<>>
  BY ONLY <1>4 DEF NoParameters
<1>6. PICK x \in [1 .. 8 -> Narrow] : x = r'
  BY <1>3
<1>7. Vec(Coded(x), 8) /\ \A i \in 1 .. 8 : Coded(x)[i] \in 0 .. Levels(i)
  BY ONLY <1>6, x \in [1 .. 8 -> Narrow], CodedIs
<1>8. DOMAIN par'.Nc = {} /\ DOMAIN par'.bc = {} /\ DOMAIN par'.xmaxc = {}
  BY ONLY <1>5
<1>9. SoundParameters'
  BY ONLY <1>5, <1>6, <1>7, <1>8 DEF SoundParameters, Sound
<1> QED BY ONLY <1>3, <1>5, <1>9 DEF SoundShift

\* A lag and a gain more.
LEMMA LongTermParameters ==
  ASSUME AssertsInv, LongTermPredictor
  PROVE  SoundParameters' /\ SoundShift'
<1>1. PICK Nc \in 40 .. 120, bc \in 0 .. 3 :
        par' = [LARc |-> par.LARc, Nc |-> Longer(par.Nc, Nc), bc |-> Longer(par.bc, bc),
                Mc |-> par.Mc, xmaxc |-> par.xmaxc, xMc |-> par.xMc]
  BY LongTermResult
<1>2. /\ par'.LARc = par.LARc /\ par'.Nc = Longer(par.Nc, Nc) /\ par'.bc = Longer(par.bc, bc)
      /\ par'.Mc = par.Mc /\ par'.xmaxc = par.xmaxc /\ par'.xMc = par.xMc
  BY ONLY <1>1
<1>3. sub - 1 \in Nat /\ Vec(par.Nc, sub - 1) /\ Vec(par.bc, sub - 1)
  BY DEF LongTermPredictor, AssertsInv, OffsetInv, StagesOK, ParametersOf
<1>4. PICK n \in Nat : n = sub - 1
  BY <1>3
<1>5. SoundParameters /\ SoundShift /\ xM' = xM
  BY DEF AssertsInv, LongTermPredictor
<1>6. \A i \in DOMAIN par'.Nc : par'.Nc[i] \in 40 .. 120
  <2> DEFINE S == 40 .. 120
  <2>1. Nc \in S /\ \A i \in DOMAIN par.Nc : par.Nc[i] \in S
    BY <1>5 DEF SoundParameters
  <2> HIDE DEF S
  <2>2. \A i \in DOMAIN par'.Nc : par'.Nc[i] \in S
    BY ONLY <1>2, <1>3, <1>4, n \in Nat, <2>1, LongerIn
  <2> QED BY <2>2 DEF S
<1>7. \A i \in DOMAIN par'.bc : par'.bc[i] \in 0 .. 3
  <2> DEFINE S == 0 .. 3
  <2>1. bc \in S /\ \A i \in DOMAIN par.bc : par.bc[i] \in S
    BY <1>5 DEF SoundParameters, Sound
  <2> HIDE DEF S
  <2>2. \A i \in DOMAIN par'.bc : par'.bc[i] \in S
    BY ONLY <1>2, <1>3, <1>4, n \in Nat, <2>1, LongerIn
  <2> QED BY <2>2 DEF S
<1>8. SoundParameters'
  BY ONLY <1>2, <1>5, <1>6, <1>7 DEF SoundParameters, Sound
<1>9. SoundShift'
  BY ONLY <1>2, <1>5 DEF SoundShift
<1> QED BY <1>8, <1>9

\* A grid, a maximum and the pulses more.
LEMMA RpeParameters ==
  ASSUME AssertsInv, RpeEncoding
  PROVE  SoundParameters' /\ SoundShift'
<1>1. PICK g, q, c :
        /\ Regular(xM', g, q, c)
        /\ par' = [LARc |-> par.LARc, Nc |-> par.Nc, bc |-> par.bc,
                   Mc |-> Longer(par.Mc, g), xmaxc |-> Longer(par.xmaxc, q),
                   xMc |-> Longer(par.xMc, c)]
  BY RpeResult
<1>2. /\ par'.LARc = par.LARc /\ par'.Nc = par.Nc /\ par'.bc = par.bc
      /\ par'.Mc = Longer(par.Mc, g) /\ par'.xmaxc = Longer(par.xmaxc, q)
      /\ par'.xMc = Longer(par.xMc, c)
  BY ONLY <1>1
<1>3. sub - 1 \in Nat /\ Vec(par.Mc, sub - 1) /\ Vec(par.xmaxc, sub - 1) /\ Vec(par.xMc, sub - 1)
  <2>1. ParametersOf(sub, sub - 1) /\ sub \in 1 .. 4
    BY DEF RpeEncoding, AssertsInv, OffsetInv, StagesOK
  <2> QED BY <2>1 DEF ParametersOf
<1>4. PICK n \in Nat : n = sub - 1
  BY <1>3
<1>5. SoundParameters
  BY DEF AssertsInv
<1>6. /\ DOMAIN par.xmaxc = 1 .. n /\ DOMAIN par'.xmaxc = 1 .. (n + 1)
      /\ \A i \in 1 .. n : par'.xmaxc[i] = par.xmaxc[i]
      /\ par'.xmaxc[n + 1] = q
  BY ONLY <1>2, <1>3, <1>4, n \in Nat, LongerIs
<1>7. /\ \A i \in 1 .. n : par'.Mc[i] = par.Mc[i]
      /\ par'.Mc[n + 1] = g
  BY ONLY <1>2, <1>3, <1>4, n \in Nat, LongerIs
<1>8. /\ \A i \in 1 .. n : par'.xMc[i] = par.xMc[i]
      /\ par'.xMc[n + 1] = c
  BY ONLY <1>2, <1>3, <1>4, n \in Nat, LongerIs
<1>9. Fine(g, q, c)
  BY <1>1 DEF Regular, Fine
<1>10. ASSUME NEW i \in DOMAIN par'.xmaxc
       PROVE  Fine(par'.Mc[i], par'.xmaxc[i], par'.xMc[i])
  <2>1. i \in 1 .. n \/ i = n + 1
    BY <1>6
  <2>2. CASE i \in 1 .. n
    BY ONLY <1>5, <1>6, <1>7, <1>8, <2>2 DEF SoundParameters, Sound
  <2>3. CASE i = n + 1
    BY ONLY <1>6, <1>7, <1>8, <1>9, <2>3
  <2> QED BY <2>1, <2>2, <2>3
<1>11. SoundParameters'
  BY ONLY <1>2, <1>5, <1>10 DEF SoundParameters, Sound
<1>12. Vec(par'.xmaxc, n + 1) /\ Len(par'.xmaxc) = n + 1
  <2>1. Vec(par'.xmaxc, n + 1)
    BY ONLY <1>2, <1>3, <1>4, n \in Nat, VecAppend
  <2> QED BY <2>1, VecIsSeq
<1>13. SoundShift'
  <2>1. par'.xmaxc[Len(par'.xmaxc)] = q
    BY ONLY <1>6, <1>12
  <2> QED BY ONLY <1>1, <2>1 DEF SoundShift, Regular
<1> QED BY <1>11, <1>13

\* The parameters stay sound, step by step.
LEMMA ParametersNext ==
  ASSUME AssertsInv, Encode \/ Travel \/ Decode
  PROVE  SoundParameters' /\ SoundShift'
<1>1. CASE LpcAnalysis BY <1>1, LpcParameters
<1>2. CASE LongTermPredictor BY <1>2, LongTermParameters
<1>3. CASE RpeEncoding BY <1>3, RpeParameters
<1>4. CASE ~LpcAnalysis /\ ~LongTermPredictor /\ ~RpeEncoding
  <2>1. par' = par /\ xM' = xM
    BY <1>4, ParametersKept
  <2> QED BY ONLY <2>1, AssertsInv DEF AssertsInv, SoundParameters, SoundShift
<1> QED BY <1>1, <1>2, <1>3, <1>4

-----------------------------------------------------------------------------
(* What the decoder works on. *)

\* What the decoder alone changes.
LEMMA ReceivedKept ==
  ASSUME StagesOK, SoundReceived, Encode \/ Travel \/ Decode, ~Unpack, ~DecodeSubframe
  PROVE  /\ received' = received /\ dec'.nrp \in 40 .. 120
         /\ pc' # "decode"
<1> USE DEF decodervars
<1>0. dec.nrp \in 40 .. 120
  BY DEF SoundReceived
<1>1. CASE Encode
  BY <1>0, <1>1 DEF Encode, Record, Preprocess, LpcAnalysis, AnalysisRatios, ShortTermAnalysis,
                    LongTermPredictor, RpeEncoding, Pack, RestartMic
<1>2. CASE Travel /\ ~NewListener
  BY <1>0, <1>2 DEF Travel, Accept, Discard, Replace, Poll, OnItsWay
<1>3. CASE NewListener
  BY <1>3 DEF NewListener, NewState
<1>4. CASE Refuse
  BY <1>0, <1>4 DEF Refuse, NextFrame
<1>5. CASE SynthesisRatios
  BY <1>0, <1>5 DEF SynthesisRatios, NewRatios, StagesOK, Whole
<1>6. CASE ShortTermSynthesis
  <2> DEFINE v == SynthesisStages(Coefficients(dec), dec.v, wt[k])
             msr == GSM_ADD(v[0], GSM_MULT_R(dec.msr, 28180))
  <2>1. dec' = [dec EXCEPT !.v = v, !.msr = msr]
    BY <1>6 DEF ShortTermSynthesis
  <2> HIDE DEF v, msr
  <2>2. dec'.nrp = dec.nrp
    BY <2>1 DEF StagesOK, Whole
  <2>3. received' = received /\ (pc' = pc \/ pc' \in {"unpack", "idle"}) /\ pc = "synthesis"
    BY <1>6 DEF ShortTermSynthesis, NextFrame
  <2> QED BY <1>0, <2>2, <2>3
<1> QED BY <1>1, <1>2, <1>3, <1>4, <1>5, <1>6 DEF Decode

\* A frame of bytes is unpacked to sound parameters.
LEMMA UnpackSound ==
  ASSUME AssertsInv, Unpack
  PROVE  SoundReceived'
<1>1. /\ pc = "unpack" /\ received' = Carried(packet[frame]) /\ dec' = dec
  BY DEF Unpack, Carried
<1>2. frame \in 1 .. P_CountFrameDataInPocket
  BY DEF AssertsInv, OffsetInv, StagesOK
<1>3. packet \in Seq(Bytes) /\ Len(packet) = P_CountFrameDataInPocket
  BY <1>1 DEF AssertsInv, SoundPacket, Decoding
<1>4. packet[frame] \in Bytes
  BY <1>2, <1>3, FramesAssumption
<1>5. \A j \in 1 .. 33 : packet[frame][j] \in Int
  <2>1. PICK c \in Bytes : c = packet[frame]
    BY <1>4
  <2>2. \A j \in 1 .. 33 : c[j] \in Int
    <3> TAKE j \in 1 .. 33
    <3>1. c[j] \in 0 .. 255
      BY DEF Bytes
    <3> QED BY <3>1
  <2> QED BY <2>1, <2>2
<1>6. InRange(received', Nat) /\ InOrder(received')
  <2>1. PICK c : c = packet[frame]
    OBVIOUS
  <2>2. InRange(Carried(c), Nat) /\ InOrder(Carried(c))
    BY ONLY <1>5, <2>1, CarriedInRange
  <2> QED BY ONLY <1>1, <2>1, <2>2
<1>7. PICK p : p = received'
  OBVIOUS
<1>8. InRange(p, Nat) /\ InOrder(p)
  BY <1>6, <1>7
<1>9. DOMAIN p.bc = 1 .. 4 /\ DOMAIN p.xmaxc = 1 .. 4
  <2>1. Vec(p.bc, 4) /\ Vec(p.xmaxc, 4)
    BY <1>8 DEF InOrder
  <2> QED BY <2>1 DEF Vec
<1>10. \A i \in 1 .. 4 : p.xMc[i] \in [1 .. 13 -> 0 .. 7]
  BY ONLY <1>8 DEF InRange, Vec
<1>11. /\ \A i \in 1 .. 4 : /\ p.bc[i] \in 0 .. 3 /\ p.Mc[i] \in 0 .. 3
                            /\ p.xmaxc[i] \in 0 .. 63 /\ p.Nc[i] \in Nat
  BY ONLY <1>8 DEF InRange
<1>12. Sound(p)
  BY ONLY <1>9, <1>10, <1>11 DEF Sound, Fine
<1>13. dec'.nrp \in 40 .. 120
  BY <1>1 DEF AssertsInv, SoundReceived
<1> QED BY ONLY <1>7, <1>9, <1>11, <1>12, <1>13 DEF SoundReceived

\* A lag out of range is replaced by the last one.
LEMMA SubframeSound ==
  ASSUME AssertsInv, DecodeSubframe
  PROVE  SoundReceived'
<1> DEFINE Nr == ReceivedLag(received.Nc[sub], dec.nrp)
<1>1. PICK x : /\ pc = "decode" /\ received' = received
               /\ dec' = [dec EXCEPT !.nrp = Nr, !.dp0 = x]
  BY DEF DecodeSubframe
<1>2. sub \in 1 .. 4 /\ Whole(dec)
  BY DEF AssertsInv, OffsetInv, StagesOK
<1>3. SoundReceived
  BY DEF AssertsInv
<1>4. received.Nc[sub] \in Nat /\ dec.nrp \in 40 .. 120
  BY <1>1, <1>2, <1>3 DEF SoundReceived
<1>5. Nr \in 40 .. 120
  BY <1>4 DEF ReceivedLag
<1> HIDE DEF Nr
<1>6. dec'.nrp = Nr
  BY <1>1, <1>2 DEF Whole
<1> QED BY ONLY <1>1, <1>3, <1>5, <1>6 DEF SoundReceived

\* The decoder's history stays one of 120 samples, and its ratios stay two sets.
LEMMA DecoderNext ==
  ASSUME AssertsInv, Encode \/ Travel \/ Decode
  PROVE  SoundDecoder'
<1>0. /\ dec.dp0 \in [1 .. 120 -> Int] /\ dec.j \in 0 .. 1
      /\ dec.LARpp = [i \in 0 .. 1 |-> dec.LARpp[i]]
      /\ Whole(dec)
  BY DEF AssertsInv, OffsetInv, StagesOK, SoundDecoder
<1>1. CASE DecodeSubframe
  <2> DEFINE ex == Excitation(received.Mc[sub], received.xmaxc[sub], received.xMc[sub])
             Nr == ReceivedLag(received.Nc[sub], dec.nrp)
             drp == Synthesized(ex, Nr, received.bc[sub], dec.dp0)
  <2>1. /\ pc = "decode" /\ dec' = [dec EXCEPT !.nrp = Nr, !.dp0 = Pushed(dec.dp0, drp)]
    BY <1>1 DEF DecodeSubframe, Pushed
  <2>2. /\ DOMAIN received.bc = 1 .. 4 /\ DOMAIN received.xmaxc = 1 .. 4
        /\ \A i \in 1 .. 4 : received.Nc[i] \in Nat
        /\ Sound(received) /\ dec.nrp \in 40 .. 120 /\ sub \in 1 .. 4
    BY <2>1 DEF AssertsInv, OffsetInv, StagesOK, SoundReceived
  <2>3. Nr \in 40 .. 120
    BY <2>2 DEF ReceivedLag
  <2>4. PICK bc \in 0 .. 3 : bc = received.bc[sub]
    BY <2>2 DEF Sound
  <2>5. ex \in [1 .. 40 -> Int]
    <3>1. Fine(received.Mc[sub], received.xmaxc[sub], received.xMc[sub])
      BY <2>2 DEF Sound
    <3>2. PICK g \in 0 .. 3, q \in 0 .. 63, x \in [1 .. 13 -> 0 .. 7] :
            g = received.Mc[sub] /\ q = received.xmaxc[sub] /\ x = received.xMc[sub]
      BY <3>1 DEF Fine
    <3>3. Excitation(g, q, x) \in [1 .. 40 -> Int]
      BY ONLY g \in 0 .. 3, q \in 0 .. 63, x \in [1 .. 13 -> 0 .. 7], ExcitationIs
    <3> QED BY ONLY <3>2, <3>3
  <2>6. PICK w : w = dec.dp0
    OBVIOUS
  <2>7. Within(w, w, 0)
    BY <1>0, <2>6 DEF Within
  <2> HIDE DEF ex, Nr
  <2>8. Within(Pushed(w, Synthesized(ex, Nr, bc, w)), Pushed(w, Synthesized(ex, Nr, bc, w)), 0)
    BY ONLY <2>3, <2>5, <2>7, bc \in 0 .. 3, SubframeNear, 0 \in Nat
  <2>9. Pushed(dec.dp0, drp) \in [1 .. 120 -> Int]
    BY ONLY <2>4, <2>6, <2>8 DEF Within
  <2> HIDE DEF drp
  <2>10. dec'.dp0 = Pushed(dec.dp0, drp) /\ dec'.j = dec.j /\ dec'.LARpp = dec.LARpp
    BY ONLY <1>0, <2>1 DEF Whole
  <2> QED BY ONLY <1>0, <2>9, <2>10 DEF SoundDecoder
<1>2. CASE SynthesisRatios
  <2>1. PICK x : dec' = [dec EXCEPT !.LARpp[dec.j] = x, !.j = 1 - @]
    BY <1>2 DEF SynthesisRatios, NewRatios
  <2>2. /\ dec'.dp0 = dec.dp0 /\ dec'.j = 1 - dec.j
        /\ dec'.LARpp = [dec.LARpp EXCEPT ![dec.j] = x]
    BY ONLY <1>0, <2>1 DEF Whole
  <2>3. DOMAIN dec.LARpp = 0 .. 1
    BY ONLY <1>0
  <2>4. dec'.LARpp = [i \in 0 .. 1 |-> dec'.LARpp[i]] /\ dec'.j \in 0 .. 1
    BY ONLY <1>0, <2>2, <2>3
  <2> QED BY ONLY <1>0, <2>2, <2>4 DEF SoundDecoder
<1>3. CASE ShortTermSynthesis
  <2> DEFINE v == SynthesisStages(Coefficients(dec), dec.v, wt[k])
             msr == GSM_ADD(v[0], GSM_MULT_R(dec.msr, 28180))
  <2>1. dec' = [dec EXCEPT !.v = v, !.msr = msr]
    BY <1>3 DEF ShortTermSynthesis
  <2> HIDE DEF v, msr
  <2>2. dec'.dp0 = dec.dp0 /\ dec'.j = dec.j /\ dec'.LARpp = dec.LARpp
    BY ONLY <1>0, <2>1 DEF Whole
  <2> QED BY ONLY <1>0, <2>2 DEF SoundDecoder
<1>4. CASE NewListener
  <2>1. dec' = NewState
    BY <1>4 DEF NewListener
  <2> QED BY ONLY <2>1, NewStateSound DEF SoundDecoder
<1>5. CASE ~(DecodeSubframe \/ SynthesisRatios \/ ShortTermSynthesis \/ NewListener)
  <2>1. dec' = dec
    <3> USE DEF decodervars
    <3>1. CASE Encode
      BY <3>1 DEF Encode, Record, Preprocess, LpcAnalysis, AnalysisRatios, ShortTermAnalysis,
                  LongTermPredictor, RpeEncoding, Pack, RestartMic
    <3>2. CASE Travel
      BY <1>5, <3>2 DEF Travel, Accept, Discard, Replace, Poll
    <3>3. CASE Decode
      BY <1>5, <3>3 DEF Decode, Refuse, Unpack
    <3> QED BY <3>1, <3>2, <3>3
  <2> QED BY ONLY <1>0, <2>1 DEF SoundDecoder
<1> QED BY <1>1, <1>2, <1>3, <1>4, <1>5

\* What the decoder works on stays sound.
LEMMA ReceivedNext ==
  ASSUME AssertsInv, Encode \/ Travel \/ Decode
  PROVE  SoundReceived'
<1>1. CASE Unpack BY <1>1, UnpackSound
<1>2. CASE DecodeSubframe BY <1>2, SubframeSound
<1>3. CASE ~Unpack /\ ~DecodeSubframe
  <2>1. received' = received /\ dec'.nrp \in 40 .. 120 /\ pc' # "decode"
    BY <1>3, ReceivedKept DEF AssertsInv, OffsetInv
  <2> QED BY ONLY <2>1, AssertsInv DEF AssertsInv, SoundReceived
<1> QED BY <1>1, <1>2, <1>3

-----------------------------------------------------------------------------
(* The packet. *)

\* Where the packet is unpacked again it is complete.
LEMMA PacketStays ==
  ASSUME AssertsInv, Encode \/ Travel \/ Decode, ~Record, ~Pack, ~Replace
  PROVE  SoundPacket'
<1> USE DEF Encoding, Decoding, FrameBegun, RatiosMoved
<1>1. /\ packet' = packet
      /\ pc' \in Encoding => pc \in Encoding /\ frame' = frame
      /\ pc' \in Decoding \/ OnItsWay' => pc \in Decoding \/ OnItsWay
  <2> USE DEF OnItsWay, Spoiled
  <2>1. CASE Encode
    BY <2>1 DEF Encode, Preprocess, LpcAnalysis, AnalysisRatios, ShortTermAnalysis,
                LongTermPredictor, RpeEncoding, RestartMic
  <2>2. CASE Travel
    BY <2>2 DEF Travel, Accept, Discard, Poll, NewListener, travelvars
  <2>3. CASE Decode
    BY <2>3 DEF Decode, Refuse, NextFrame, Unpack, DecodeSubframe, SynthesisRatios,
                ShortTermSynthesis
  <2> QED BY <2>1, <2>2, <2>3
<1> QED BY ONLY <1>1, AssertsInv DEF AssertsInv, SoundPacket

\* All four sub-frames are computed when a frame is packed.
LEMMA PackedInRange ==
  ASSUME AssertsInv, pc = "pack"
  PROVE  InRange(par, 40 .. 120) /\ InOrder(par)
<1>1. ParametersOf(4, 4)
  BY DEF AssertsInv, OffsetInv, StagesOK
<1>2. InOrder(par)
  BY ONLY <1>1 DEF InOrder, ParametersOf
<1>3. /\ DOMAIN par.Nc = 1 .. 4 /\ DOMAIN par.bc = 1 .. 4 /\ DOMAIN par.xmaxc = 1 .. 4
  <2>1. Vec(par.Nc, 4) /\ Vec(par.bc, 4) /\ Vec(par.xmaxc, 4)
    BY <1>1 DEF ParametersOf
  <2> QED BY <2>1 DEF Vec
<1>4. SoundParameters
  BY DEF AssertsInv
<1>5. \A j \in 1 .. 4 : par.Nc[j] \in 40 .. 120 /\ par.bc[j] \in 0 .. 3
  BY ONLY <1>3, <1>4 DEF SoundParameters, Sound
<1>6. \A j \in 1 .. 4 : Fine(par.Mc[j], par.xmaxc[j], par.xMc[j])
  BY ONLY <1>3, <1>4 DEF SoundParameters, Sound
<1>7. ASSUME NEW j \in 1 .. 4
      PROVE  /\ par.Mc[j] \in 0 .. 3 /\ par.xmaxc[j] \in 0 .. 63
             /\ Vec(par.xMc[j], 13) /\ \A n \in 1 .. 13 : par.xMc[j][n] \in 0 .. 7
  <2>1. Fine(par.Mc[j], par.xmaxc[j], par.xMc[j])
    BY <1>6
  <2>2. PICK x \in [1 .. 13 -> 0 .. 7] : x = par.xMc[j]
    BY <2>1 DEF Fine
  <2>3. Vec(x, 13) /\ \A n \in 1 .. 13 : x[n] \in 0 .. 7
    BY DEF Vec
  <2> QED BY ONLY <2>1, <2>2, <2>3 DEF Fine
<1>8. Vec(par.LARc, 8) /\ \A i \in 1 .. 8 : par.LARc[i] \in 0 .. Levels(i)
  BY ONLY <1>4 DEF SoundParameters
<1>9. InRange(par, 40 .. 120)
  BY ONLY <1>5, <1>7, <1>8 DEF InRange
<1> QED BY <1>2, <1>9

\* A frame more, of bytes.
LEMMA PackSound ==
  ASSUME AssertsInv, Pack
  PROVE  SoundPacket'
<1>1. /\ pc = "pack" /\ packet' = Append(packet, gsm_implode(Words(par)))
      /\ \/ frame < P_CountFrameDataInPocket /\ frame' = frame + 1 /\ pc' = "preprocess"
         \/ ~(frame < P_CountFrameDataInPocket) /\ pc' = "idle"
  BY DEF Pack
<1>2. frame \in 1 .. P_CountFrameDataInPocket
  BY DEF AssertsInv, OffsetInv, StagesOK
<1>3. packet \in Seq(Bytes) /\ Len(packet) = frame - 1
  BY <1>1 DEF AssertsInv, SoundPacket, Encoding, RatiosMoved
<1>4. InRange(par, 40 .. 120) /\ InOrder(par)
  BY <1>1, PackedInRange
<1>5. gsm_implode(Words(par)) \in Bytes
  <2>1. PICK p : p = par
    OBVIOUS
  <2>2. gsm_implode(Words(p)) \in [1 .. 33 -> 0 .. 255]
    BY ONLY <1>4, <2>1, RoundTrip
  <2> QED BY ONLY <2>1, <2>2 DEF Bytes
<1>6. PICK c \in Bytes : c = gsm_implode(Words(par))
  BY <1>5
<1>7. packet' \in Seq(Bytes) /\ Len(packet') = frame
  BY ONLY <1>1, <1>2, <1>3, <1>6, c \in Bytes, FramesAssumption
<1>8. /\ pc' \in Encoding => Len(packet') = frame' - 1
      /\ pc' \in Decoding \/ OnItsWay' => Len(packet') = P_CountFrameDataInPocket
  BY <1>1, <1>2, <1>7, FramesAssumption DEF Encoding, Decoding, FrameBegun, RatiosMoved, OnItsWay
<1> QED BY ONLY <1>7, <1>8 DEF SoundPacket

\* The packet stays made of bytes.
LEMMA PacketNext ==
  ASSUME AssertsInv, Encode \/ Travel \/ Decode
  PROVE  SoundPacket'
<1>1. CASE Record
  <2>1. packet' = <<>> /\ frame' = 1 /\ pc' = "preprocess"
    BY <1>1 DEF Record
  <2>2. packet' \in Seq(Bytes) /\ Len(packet') = 0
    BY <2>1
  <2> QED BY <2>1, <2>2 DEF SoundPacket, Encoding, Decoding, FrameBegun, RatiosMoved, OnItsWay
<1>2. CASE Pack BY <1>2, PackSound
<1>3. CASE Replace
  <2>1. PICK c \in Strange : /\ packet' = [packet EXCEPT ![1] = c]
                             /\ OnItsWay /\ pc = "idle" /\ pc' = "idle"
    BY <1>3 DEF Replace, OnItsWay
  <2>2. c \in Bytes
    BY c \in Strange, StrangeAssumption DEF Bytes
  <2>3. packet \in Seq(Bytes) /\ Len(packet) = P_CountFrameDataInPocket
    BY <2>1 DEF AssertsInv, SoundPacket
  <2>4. packet' \in Seq(Bytes) /\ Len(packet') = Len(packet)
    <3>1. 1 \in 1 .. Len(packet)
      BY <2>3, FramesAssumption
    <3> QED BY ONLY <2>1, <2>2, <2>3, <3>1, ExceptSeq
  <2> QED BY <2>1, <2>3, <2>4 DEF SoundPacket, Encoding, Decoding, FrameBegun, RatiosMoved
<1>4. CASE ~Record /\ ~Pack /\ ~Replace BY <1>4, PacketStays
<1> QED BY <1>1, <1>2, <1>3, <1>4

-----------------------------------------------------------------------------
(* The signal. *)

\* The signal from stage to stage.
LEMMA SignalKept ==
  ASSUME StagesOK, Encode \/ Travel \/ Decode,
         ~Preprocess, ~LpcAnalysis, ~AnalysisRatios, ~ShortTermAnalysis, ~SynthesisRatios,
         ~ShortTermSynthesis
  PROVE  /\ k' = k /\ r' = r
         /\ pc' \in {"lpc", "ratios", "analysis", "ltp", "rpe"} =>
              s' = s /\ pc \in {"lpc", "ratios", "analysis", "ltp", "rpe"}
<1> USE DEF codervars
<1>1. CASE Encode
  BY <1>1 DEF Encode, Record, LongTermPredictor, RpeEncoding, Pack, RestartMic
<1>2. CASE Travel
  BY <1>2 DEF Travel, Accept, Discard, Replace, Poll, NewListener, OnItsWay
<1>3. CASE Decode
  BY <1>3 DEF Decode, Refuse, NextFrame, Unpack, DecodeSubframe
<1> QED BY <1>1, <1>2, <1>3

\* The last sample of a frame makes it 160 words.
LEMMA PreprocessSignal ==
  ASSUME AssertsInv, Preprocess
  PROVE  SoundSignal'
<1>1. pc = "preprocess" /\ s \in Seq(Word) /\ Len(s) < 160 /\ r' = r /\ k' = k
  BY DEF Preprocess, AssertsInv, OffsetInv
<1>2. so' \in Word
  <2>1. PreIInv'
    BY PreprocessOffset DEF AssertsInv
  <2> QED BY <2>1 DEF PreIInv
<1>3. s' = Append(s, so') /\ pc' = IF Len(s') = 160 THEN "lpc" ELSE pc
  BY DEF Preprocess
<1>4. s' \in Seq(Word)
  BY ONLY <1>1, <1>2, <1>3
<1>5. CASE Len(s') = 160
  <2>1. s' \in [1 .. 160 -> Word]
    <3>1. PICK x \in Seq(Word) : x = s'
      BY <1>4
    <3>2. x \in [1 .. Len(x) -> Word]
      OBVIOUS
    <3> QED BY ONLY <1>5, <3>1, <3>2
  <2> QED BY ONLY <1>1, <2>1, AssertsInv DEF AssertsInv, SoundSignal
<1>6. CASE Len(s') # 160
  <2>1. pc' = "preprocess"
    BY <1>1, <1>3, <1>6
  <2> QED BY ONLY <1>1, <2>1, AssertsInv DEF AssertsInv, SoundSignal
<1> QED BY <1>5, <1>6

\* What one sample through the lattice leaves.
LEMMA AnalysisSound ==
  ASSUME AssertsInv, ShortTermAnalysis
  PROVE  SoundSignal' /\ SoundFilter'
<1> DEFINE f == AnalysisStages(Coefficients(enc), enc.u, s[k])
<1>1. /\ pc = "analysis" /\ k' = (k % 160) + 1 /\ r' = r
      /\ enc' = [enc EXCEPT !.u = f.u] /\ s' = [s EXCEPT ![k] = f.di]
  BY DEF ShortTermAnalysis
<1>2. /\ k \in 1 .. 160 /\ r \in [1 .. 8 -> Narrow] /\ s \in [1 .. 160 -> Word]
  BY <1>1 DEF AssertsInv, SoundSignal
<1>3. /\ enc.u \in [1 .. 8 -> Word] /\ enc.j \in 0 .. 1
      /\ enc.LARpp \in [0 .. 1 -> [1 .. 8 -> Int]]
  BY DEF AssertsInv, SoundFilter
<1>4. Coefficients(enc) \in [1 .. 8 -> Int]
  <2>1. 1 - enc.j \in 0 .. 1
    BY <1>3
  <2>2. PICK old \in [1 .. 8 -> Int] : old = enc.LARpp[enc.j]
    BY <1>3
  <2>3. PICK new \in [1 .. 8 -> Int] : new = enc.LARpp[1 - enc.j]
    BY <1>3, <2>1
  <2>4. Reflections(old, new, k) \in [1 .. 8 -> Int]
    BY ONLY <1>2, old \in [1 .. 8 -> Int], new \in [1 .. 8 -> Int], CoefficientsAre
  <2> QED BY ONLY <2>2, <2>3, <2>4 DEF Coefficients
<1>5. f \in Stages
  <2>1. PICK rp \in [1 .. 8 -> Int] : rp = Coefficients(enc)
    BY <1>4
  <2>2. PICK u \in [1 .. 8 -> Word] : u = enc.u
    BY <1>3
  <2>3. PICK x \in Word : x = s[k]
    BY <1>2
  <2>4. AnalysisStages(rp, u, x) \in Stages
    BY ONLY rp \in [1 .. 8 -> Int], u \in [1 .. 8 -> Word], x \in Word, AnalysisIs
  <2> QED BY ONLY <2>1, <2>2, <2>3, <2>4
<1> HIDE DEF f
<1>6. f.u \in [1 .. 8 -> Word] /\ f.di \in Word
  BY ONLY <1>5 DEF Stages
<1>7. s' \in [1 .. 160 -> Word]
  BY ONLY <1>1, <1>2, <1>6
<1>8. k' \in 1 .. 160
  BY ONLY <1>1, <1>2
<1>9. SoundSignal'
  BY ONLY <1>1, <1>2, <1>7, <1>8 DEF SoundSignal
<1>10. enc'.u = f.u /\ enc'.j = enc.j /\ enc'.LARpp = enc.LARpp
  BY <1>1 DEF AssertsInv, OffsetInv, StagesOK, Whole
<1>11. SoundFilter'
  BY ONLY <1>3, <1>6, <1>10 DEF SoundFilter
<1> QED BY <1>9, <1>11

\* Every stage leaves words to the next.
LEMMA SignalNext ==
  ASSUME AssertsInv, Encode \/ Travel \/ Decode
  PROVE  SoundSignal'
<1>0. SoundSignal /\ StagesOK
  BY DEF AssertsInv, OffsetInv
<1>1. CASE Preprocess BY <1>1, PreprocessSignal
<1>2. CASE LpcAnalysis
  <2>1. r' \in [1 .. 8 -> Narrow] /\ s' \in [1 .. 160 -> Word] /\ k' = k
    BY <1>2, LpcParameters DEF LpcAnalysis
  <2> QED BY ONLY <1>0, <2>1 DEF SoundSignal
<1>3. CASE AnalysisRatios
  <2>1. r' = r /\ s' = s /\ k' = 1 /\ pc = "ratios"
    BY <1>3 DEF AnalysisRatios
  <2>2. s \in [1 .. 160 -> Word] /\ k' \in 1 .. 160
    BY <1>0, <2>1 DEF SoundSignal
  <2> QED BY ONLY <1>0, <2>1, <2>2 DEF SoundSignal
<1>4. CASE ShortTermAnalysis BY <1>4, AnalysisSound
<1>5. CASE SynthesisRatios
  <2>1. r' = r /\ k' = 1 /\ pc' = "synthesis"
    BY <1>5 DEF SynthesisRatios, codervars
  <2>2. k' \in 1 .. 160
    BY <2>1
  <2> QED BY ONLY <1>0, <2>1, <2>2 DEF SoundSignal
<1>6. CASE ShortTermSynthesis
  <2>1. /\ r' = r /\ k' = (k % 160) + 1
        /\ pc' \notin {"lpc", "ratios", "analysis", "ltp", "rpe"}
    BY <1>6 DEF ShortTermSynthesis, NextFrame, codervars
  <2>2. k' \in 1 .. 160
    BY <1>0, <2>1 DEF SoundSignal
  <2> QED BY ONLY <1>0, <2>1, <2>2 DEF SoundSignal
<1>7. CASE ~(\/ Preprocess \/ LpcAnalysis \/ AnalysisRatios \/ ShortTermAnalysis
             \/ SynthesisRatios \/ ShortTermSynthesis)
  <2>1. /\ k' = k /\ r' = r
        /\ pc' \in {"lpc", "ratios", "analysis", "ltp", "rpe"} =>
             s' = s /\ pc \in {"lpc", "ratios", "analysis", "ltp", "rpe"}
    BY <1>0, <1>7, SignalKept
  <2> QED BY ONLY <1>0, <2>1 DEF SoundSignal
<1> QED BY <1>1, <1>2, <1>3, <1>4, <1>5, <1>6, <1>7

-----------------------------------------------------------------------------
(* The coder's state. *)

\* The coder's state, but for its history, is touched by its filter alone.
LEMMA FilterKept ==
  ASSUME StagesOK, Encode \/ Travel \/ Decode,
         ~AnalysisRatios, ~ShortTermAnalysis, ~RestartMic
  PROVE  enc'.u = enc.u /\ enc'.j = enc.j /\ enc'.LARpp = enc.LARpp
<1> USE DEF codervars
<1>1. CASE RpeEncoding
  <2>1. PICK x : enc' = [enc EXCEPT !.dp0 = x]
    BY <1>1 DEF RpeEncoding
  <2> QED BY <2>1 DEF StagesOK, Whole
<1>2. CASE Encode /\ ~RpeEncoding
  BY <1>2 DEF Encode, Record, Preprocess, LpcAnalysis, LongTermPredictor, Pack
<1>3. CASE Travel
  BY <1>3 DEF Travel, Accept, Discard, Replace, Poll, NewListener
<1>4. CASE Decode
  BY <1>4 DEF Decode, Refuse, Unpack, DecodeSubframe, SynthesisRatios, ShortTermSynthesis
<1> QED BY <1>1, <1>2, <1>3, <1>4

\* The memory of the lattice stays one of words, the ratios integers.
LEMMA FilterNext ==
  ASSUME AssertsInv, Encode \/ Travel \/ Decode
  PROVE  SoundFilter'
<1>1. CASE ShortTermAnalysis BY <1>1, AnalysisSound
<1>2. CASE AnalysisRatios
  <2> DEFINE new == Decoding_of_the_coded_Log_Area_Ratios(par.LARc)
  <2>1. enc' = [enc EXCEPT !.LARpp[enc.j] = new, !.j = 1 - @]
    BY <1>2 DEF AnalysisRatios, NewRatios
  <2>2. par.LARc \in [1 .. 8 -> Int]
    <3>1. Vec(par.LARc, 8) /\ \A i \in 1 .. 8 : par.LARc[i] \in 0 .. Levels(i)
      BY DEF AssertsInv, SoundParameters
    <3>2. \A i \in 1 .. 8 : par.LARc[i] \in Int
      BY ONLY <3>1
    <3> QED BY ONLY <3>1, <3>2 DEF Vec
  <2>3. new \in [1 .. 8 -> Int]
    <3>1. PICK x \in [1 .. 8 -> Int] : x = par.LARc
      BY <2>2
    <3>2. Decoding_of_the_coded_Log_Area_Ratios(x) \in [1 .. 8 -> Int]
      BY ONLY x \in [1 .. 8 -> Int], RatiosAre
    <3> QED BY ONLY <3>1, <3>2
  <2> HIDE DEF new
  <2>4. /\ enc.u \in [1 .. 8 -> Word] /\ enc.j \in 0 .. 1
        /\ enc.LARpp \in [0 .. 1 -> [1 .. 8 -> Int]]
    BY DEF AssertsInv, SoundFilter
  <2>5. enc'.u = enc.u /\ enc'.j = 1 - enc.j /\ enc'.LARpp = [enc.LARpp EXCEPT ![enc.j] = new]
    BY <2>1 DEF AssertsInv, OffsetInv, StagesOK, Whole
  <2>6. enc'.j \in 0 .. 1
    BY ONLY <2>4, <2>5
  <2>7. enc'.LARpp \in [0 .. 1 -> [1 .. 8 -> Int]]
    BY ONLY <2>3, <2>4, <2>5
  <2> QED BY ONLY <2>4, <2>5, <2>6, <2>7 DEF SoundFilter
<1>3. CASE RestartMic
  <2>1. enc' = NewState
    BY <1>3 DEF RestartMic
  <2> QED BY <2>1, NewStateSound DEF SoundFilter
<1>4. CASE ~ShortTermAnalysis /\ ~AnalysisRatios /\ ~RestartMic
  <2>1. enc'.u = enc.u /\ enc'.j = enc.j /\ enc'.LARpp = enc.LARpp
    BY <1>4, FilterKept DEF AssertsInv, OffsetInv
  <2> QED BY ONLY <2>1, AssertsInv DEF AssertsInv, SoundFilter
<1> QED BY <1>1, <1>2, <1>3, <1>4

\* Outside of the sub-frames' loop the coder's history is left alone.
LEMMA HistoryKept ==
  ASSUME StagesOK, Encode \/ Travel \/ Decode,
         ~ShortTermAnalysis, ~LongTermPredictor, ~RpeEncoding, ~RestartMic
  PROVE  /\ enc'.dp0 = enc.dp0
         /\ pc \notin {"ltp", "rpe"} /\ pc' \notin {"ltp", "rpe"}
<1> USE DEF codervars
<1>1. CASE AnalysisRatios
  BY <1>1 DEF AnalysisRatios, NewRatios, StagesOK, Whole
<1>2. CASE Encode /\ ~AnalysisRatios
  BY <1>2 DEF Encode, Record, Preprocess, LpcAnalysis, Pack
<1>3. CASE Travel
  BY <1>3 DEF Travel, Accept, Discard, Replace, Poll, NewListener, OnItsWay
<1>4. CASE Decode
  BY <1>4 DEF Decode, Refuse, NextFrame, Unpack, DecodeSubframe, SynthesisRatios,
              ShortTermSynthesis
<1> QED BY <1>1, <1>2, <1>3, <1>4

\* A sub-frame more behind the history, and the move after the fourth.
LEMMA RpeHistory ==
  ASSUME AssertsInv, RpeEncoding
  PROVE  SoundHistory'
<1> DEFINE d == [i \in 1 .. 40 |-> GSM_ADD(e'[i], dpp[i])]
<1>1. /\ pc = "rpe" /\ sub' = (sub % 4) + 1 /\ pc' = IF sub = 4 THEN "pack" ELSE "ltp"
      /\ enc' = [enc EXCEPT !.dp0 = Moved(enc.dp0 \o d)]
  BY DEF RpeEncoding
<1>2. sub \in 1 .. 4 /\ Whole(enc)
  BY DEF AssertsInv, OffsetInv, StagesOK
<1>3. enc.dp0 \in [1 .. 80 + 40 * sub -> Int] /\ dpp \in [1 .. 40 -> Int]
  BY <1>1 DEF AssertsInv, SoundHistory
<1>4. e' \in [1 .. 40 -> Int]
  <2>1. PICK g, q, c : Regular(xM', g, q, c) /\ e' = Excitation(g, q, c)
    BY RpeResult
  <2> QED BY ONLY <2>1 DEF Regular
<1>5. d \in [1 .. 40 -> Int]
  <2>1. \A i \in 1 .. 40 : GSM_ADD(e'[i], dpp[i]) \in Int
    BY <1>3, <1>4, WordsOf
  <2> QED BY <2>1
<1> HIDE DEF d
<1>6. PICK m \in Nat, n \in Nat, l \in Nat :
        m = 80 + 40 * sub /\ n = 40 /\ l = 120 + 40 * sub /\ l = m + n
  BY ONLY <1>2
<1>7. PICK x \in [1 .. m -> Int] : x = enc.dp0
  BY ONLY <1>3, <1>6
<1>8. PICK y \in [1 .. n -> Int] : y = d
  BY ONLY <1>5, <1>6
<1>9. Cat(x, y) \in [1 .. l -> Int]
  <2>1. /\ m \in Nat /\ n \in Nat /\ l \in Nat /\ l = m + n
        /\ x \in [1 .. m -> Int] /\ y \in [1 .. n -> Int]
    BY <1>6
  <2> QED BY ONLY <2>1, CatIn
<1>10. PICK z : z = Cat(x, y)
  OBVIOUS
<1>11. enc'.dp0 = Moved(z)
  <2>1. z = enc.dp0 \o d
    BY ONLY <1>7, <1>8, <1>10 DEF Cat
  <2> QED BY <1>1, <1>2, <2>1 DEF Whole
<1>12. CASE sub = 4
  <2>1. PICK lo \in Nat, hi \in Nat, w \in Nat : lo = 161 /\ hi = 280 /\ w = 120
    OBVIOUS
  <2>2. /\ lo \in Nat \ {0} /\ hi \in Nat /\ w \in Nat /\ l \in Nat
        /\ hi = lo + w - 1 /\ hi <= l /\ z \in [1 .. l -> Int]
    BY <1>6, <1>9, <1>10, <1>12, <2>1
  <2>3. Cut(z, lo, hi) \in [1 .. w -> Int]
    BY ONLY <2>2, CutIn
  <2>4. enc'.dp0 = Cut(z, lo, hi)
    BY ONLY <1>11, <1>12, <2>1 DEF Moved, Cut
  <2>5. pc' = "pack"
    BY <1>1, <1>12
  <2> QED BY ONLY <2>1, <2>3, <2>4, <2>5 DEF SoundHistory
<1>13. CASE sub # 4
  <2>1. pc' = "ltp" /\ sub' = sub + 1 /\ l = 80 + 40 * sub'
    <3>1. sub \in {1, 2, 3} /\ sub' = (sub % 4) + 1 /\ l = 120 + 40 * sub
      BY <1>1, <1>2, <1>6, <1>13
    <3>2. sub' = sub + 1 /\ l = 80 + 40 * sub'
      BY ONLY <3>1
    <3>3. pc' = "ltp"
      BY <1>1, <1>13
    <3> QED BY <3>2, <3>3
  <2>2. enc'.dp0 = z
    BY ONLY <1>11, <1>13 DEF Moved
  <2> QED BY ONLY <1>9, <1>10, <2>1, <2>2 DEF SoundHistory
<1> QED BY <1>12, <1>13

\* The history is as long as the stage needs it.
LEMMA HistoryNext ==
  ASSUME AssertsInv, Encode \/ Travel \/ Decode
  PROVE  SoundHistory'
<1>0. SoundHistory /\ StagesOK
  BY DEF AssertsInv, OffsetInv
<1>1. CASE ShortTermAnalysis
  <2>1. PICK x : enc' = [enc EXCEPT !.u = x]
    BY <1>1 DEF ShortTermAnalysis
  <2>2. enc'.dp0 = enc.dp0
    BY <1>0, <2>1 DEF StagesOK, Whole
  <2>3. pc = "analysis" /\ sub' = 1 /\ pc' \in {"ltp", "analysis"}
    BY <1>1 DEF ShortTermAnalysis
  <2>4. enc.dp0 \in [1 .. 120 -> Int] /\ 80 + 40 * sub' = 120
    BY <1>0, <2>3 DEF SoundHistory
  <2> QED BY ONLY <2>2, <2>3, <2>4 DEF SoundHistory
<1>2. CASE LongTermPredictor
  <2>1. dpp' \in [1 .. 40 -> Int] /\ e' \in [1 .. 40 -> Word]
    BY <1>2, LongTermResult
  <2>2. pc = "ltp" /\ pc' = "rpe" /\ enc' = enc /\ sub' = sub
    BY <1>2 DEF LongTermPredictor
  <2> QED BY ONLY <1>0, <2>1, <2>2 DEF SoundHistory
<1>3. CASE RpeEncoding BY <1>3, RpeHistory
<1>4. CASE RestartMic
  <2>1. enc' = NewState /\ pc' = "idle"
    BY <1>4 DEF RestartMic
  <2> QED BY <2>1, NewStateSound DEF SoundHistory
<1>5. CASE ~ShortTermAnalysis /\ ~LongTermPredictor /\ ~RpeEncoding /\ ~RestartMic
  <2>1. enc'.dp0 = enc.dp0 /\ pc \notin {"ltp", "rpe"} /\ pc' \notin {"ltp", "rpe"}
    BY <1>0, <1>5, HistoryKept
  <2> QED BY ONLY <1>0, <2>1 DEF SoundHistory
<1> QED BY <1>1, <1>2, <1>3, <1>4, <1>5

-----------------------------------------------------------------------------
(* The theorems. *)

\* The invariant holds at first.
LEMMA AssertsInit == GsmInit => AssertsInv
<1> SUFFICES ASSUME GsmInit PROVE AssertsInv
  OBVIOUS
<1>1. /\ pc = "idle" /\ r = Zeros(8) /\ par = NoParameters /\ received = NoParameters
      /\ enc = NewState /\ dec = NewState /\ packet = <<>> /\ k = 1 /\ fate = "none"
  BY DEF GsmInit
<1>2. OffsetInv
  BY StagesInit, PreInitIInv DEF GsmInit, OffsetInv, Encoding, FrameBegun, RatiosMoved
<1>3. \A n \in Nat : Vec(Zeros(n), n) /\ Zeros(n) \in [1 .. n -> Int]
                     /\ Zeros(n) \in [1 .. n -> Word] /\ Zeros(n) \in [1 .. n -> Narrow]
                     /\ \A i \in 1 .. n : Zeros(n)[i] = 0
  BY DEF Zeros, Vec, Word, Narrow, MIN_WORD, MAX_WORD
<1>4. SoundParameters
  <2>1. par.LARc = Zeros(8) /\ par.Nc = <<>> /\ par.bc = <<>> /\ par.xmaxc = <<>>
    BY ONLY <1>1 DEF NoParameters
  <2>2. Vec(Zeros(8), 8) /\ \A i \in 1 .. 8 : Zeros(8)[i] \in 0 .. Levels(i)
    <3>1. \A i \in 1 .. 8 : 0 \in 0 .. Levels(i)
      BY LevelsFit
    <3> QED BY <1>3, <3>1
  <2>3. DOMAIN par.Nc = {} /\ DOMAIN par.bc = {} /\ DOMAIN par.xmaxc = {}
    BY ONLY <2>1
  <2> QED BY ONLY <2>1, <2>2, <2>3 DEF SoundParameters, Sound
<1>5. SoundShift
  BY ONLY <1>1 DEF SoundShift, NoParameters
<1>6. SoundReceived
  <2>1. received.bc = <<>> /\ received.xmaxc = <<>> /\ dec.nrp = 40 /\ pc = "idle"
    BY ONLY <1>1 DEF NoParameters, NewState
  <2>2. DOMAIN received.bc = {} /\ DOMAIN received.xmaxc = {}
    BY ONLY <2>1
  <2>3. dec.nrp \in 40 .. 120
    BY <2>1
  <2> QED BY ONLY <2>1, <2>2, <2>3 DEF SoundReceived, Sound
<1>7. SoundSignal
  <2>1. k \in 1 .. 160
    BY <1>1
  <2>2. Zeros(8) \in [1 .. 8 -> Narrow]
    BY <1>3
  <2>3. r \in [1 .. 8 -> Narrow]
    BY ONLY <1>1, <2>2
  <2> QED BY ONLY <1>1, <2>1, <2>3 DEF SoundSignal
<1>8. SoundFilter /\ SoundHistory /\ SoundDecoder
  BY ONLY <1>1, NewStateSound DEF SoundFilter, SoundHistory, SoundDecoder
<1>9. SoundPacket
  <2>1. packet \in Seq(Bytes)
    BY <1>1
  <2> QED BY <1>1, <2>1 DEF SoundPacket, Encoding, Decoding, FrameBegun, RatiosMoved, OnItsWay
<1> QED BY <1>2, <1>4, <1>5, <1>6, <1>7, <1>8, <1>9 DEF AssertsInv

\* Every step of the codec keeps it.
LEMMA AssertsNext ==
  ASSUME AssertsInv, [Encode \/ Travel \/ Decode]_gsmvars
  PROVE  AssertsInv'
<1>1. CASE UNCHANGED gsmvars
  <2>1. OffsetInv'
    BY OffsetNext DEF AssertsInv
  <2>2. UNCHANGED <<pc, frame, sub, k, s, r, par, e, dpp, xM, enc, packet, received, dec, fate>>
    BY <1>1 DEF gsmvars, codervars, decodervars, travelvars
  <2>3. (SoundParameters /\ SoundShift)'
    BY ONLY <2>2, AssertsInv DEF AssertsInv, SoundParameters, SoundShift
  <2>4. (SoundReceived /\ SoundSignal /\ SoundFilter)'
    BY ONLY <2>2, AssertsInv DEF AssertsInv, SoundReceived, SoundSignal, SoundFilter
  <2>5. (SoundHistory /\ SoundDecoder /\ SoundPacket)'
    BY ONLY <2>2, AssertsInv DEF AssertsInv, SoundHistory, SoundDecoder, SoundPacket, OnItsWay
  <2> QED BY <2>1, <2>3, <2>4, <2>5 DEF AssertsInv
<1>2. CASE Encode \/ Travel \/ Decode
  <2>1. OffsetInv'
    BY OffsetNext DEF AssertsInv
  <2> QED BY <1>2, <2>1, ParametersNext, ReceivedNext, SignalNext, FilterNext, HistoryNext,
             DecoderNext, PacketNext DEF AssertsInv
<1> QED BY <1>1, <1>2

\* It says what the asserts need.
LEMMA AssertsInvImplies == AssertsInv => CodecAsserts
<1> SUFFICES ASSUME AssertsInv PROVE CodecAsserts
  OBVIOUS
<1>1. SoundParameters /\ SoundShift /\ SoundReceived /\ SoundSignal
  BY DEF AssertsInv
<1>2. \A i \in 1 .. 8 : r[i] > MIN_WORD /\ par.LARc[i] \in 0 .. gsm_MAC[i] - gsm_MIC[i]
  <2> TAKE i \in 1 .. 8
  <2>1. r[i] \in Narrow
    BY <1>1 DEF SoundSignal
  <2>2. par.LARc[i] \in 0 .. Levels(i)
    BY <1>1 DEF SoundParameters
  <2>3. r[i] > MIN_WORD
    BY <2>1 DEF Narrow, MIN_WORD
  <2> QED BY <2>2, <2>3 DEF Levels
<1>3. ASSUME NEW p, Sound(p)
      PROVE  /\ \A i \in DOMAIN p.bc : p.bc[i] \in 0 .. 3
             /\ \A i \in DOMAIN p.xmaxc :
                  /\ p.Mc[i] \in 0 .. 3
                  /\ ExpMant(p.xmaxc[i]).exp \in -4 .. 6
                  /\ ExpMant(p.xmaxc[i]).mant \in 0 .. 7
                  /\ \A n \in 1 .. 13 : p.xMc[i][n] \in 0 .. 7
  <2>1. ASSUME NEW i \in DOMAIN p.xmaxc
        PROVE  /\ p.Mc[i] \in 0 .. 3
               /\ ExpMant(p.xmaxc[i]).exp \in -4 .. 6
               /\ ExpMant(p.xmaxc[i]).mant \in 0 .. 7
               /\ \A n \in 1 .. 13 : p.xMc[i][n] \in 0 .. 7
    <3>1. Fine(p.Mc[i], p.xmaxc[i], p.xMc[i])
      BY <1>3 DEF Sound
    <3>2. PICK q \in 0 .. 63 : q = p.xmaxc[i]
      BY <3>1 DEF Fine
    <3>3. ExpMant(q).exp \in -4 .. 6 /\ ExpMant(q).mant \in 0 .. 7
      BY ONLY q \in 0 .. 63, ExpMantFits
    <3>4. p.Mc[i] \in 0 .. 3 /\ \A n \in 1 .. 13 : p.xMc[i][n] \in 0 .. 7
      BY <3>1 DEF Fine
    <3> QED BY ONLY <3>2, <3>3, <3>4
  <2>2. \A i \in DOMAIN p.bc : p.bc[i] \in 0 .. 3
    BY <1>3 DEF Sound
  <2> QED BY <2>1, <2>2
<1>4. \A p \in {par, received} : Sound(p)
  BY <1>1 DEF SoundParameters, SoundReceived
<1>5. \A i \in DOMAIN par.Nc : par.Nc[i] \in 40 .. 120
  BY <1>1 DEF SoundParameters
<1>6. dec.nrp \in 40 .. 120
  BY <1>1 DEF SoundReceived
<1>7. par.xmaxc # <<>> =>
        \A i \in 1 .. 13 : xM[i] * 2^(6 - ExpMant(par.xmaxc[Len(par.xmaxc)]).exp) \in Word
  BY <1>1 DEF SoundShift
<1>8. pc = "lpc" => DivisionsFit(L_ACF(Scaled(s, scalauto(s))))
  <2>1. pc = "lpc" => s \in [1 .. 160 -> Word]
    BY ONLY <1>1 DEF SoundSignal
  <2> QED BY ONLY <2>1, LpcIs
<1> QED BY ONLY <1>2, <1>3, <1>4, <1>5, <1>6, <1>7, <1>8 DEF CodecAsserts

\* And that a frame carries its parameters.
LEMMA RoundTripOfInv == AssertsInv => FrameRoundTrip
<1> SUFFICES ASSUME AssertsInv, pc = "pack"
             PROVE  LET c == gsm_implode(Words(par))
                    IN  /\ HasMagic(c) /\ \A i \in 1 .. 33 : c[i] \in 0 .. 255
                        /\ Parameters(gsm_explode(c)) = par
  BY DEF FrameRoundTrip
<1>1. PICK p : p = par
  OBVIOUS
<1>2. InRange(p, 40 .. 120) /\ InOrder(p)
  BY <1>1, PackedInRange
<1>3. /\ HasMagic(gsm_implode(Words(p)))
      /\ gsm_implode(Words(p)) \in [1 .. 33 -> 0 .. 255]
      /\ Parameters(gsm_explode(gsm_implode(Words(p)))) = p
  BY ONLY <1>2, RoundTrip
<1>4. PICK c \in [1 .. 33 -> 0 .. 255] : c = gsm_implode(Words(p))
  BY <1>3
<1>5. \A i \in 1 .. 33 : c[i] \in 0 .. 255
  OBVIOUS
<1> QED BY ONLY <1>1, <1>3, <1>4, <1>5

\* No assert of the coder fails, for the speaker's own frames or those of others, and no
\* shift loses the high bits of a sample: whatever is recorded, and whatever arrives.
THEOREM CodecAssertsHold == GsmSpec => []CodecAsserts
<1>1. AssertsInv /\ [Encode \/ Travel \/ Decode]_gsmvars => AssertsInv'
  BY AssertsNext
<1> QED BY <1>1, AssertsInit, AssertsInvImplies, PTL DEF GsmSpec

\* Whatever has been recorded, its parameters fit a frame and come out of it as they went in.
THEOREM FramesCarryParameters == GsmSpec => []FrameRoundTrip
<1>1. AssertsInv /\ [Encode \/ Travel \/ Decode]_gsmvars => AssertsInv'
  BY AssertsNext
<1> QED BY <1>1, AssertsInit, RoundTripOfInv, PTL DEF GsmSpec

-----------------------------------------------------------------------------
(* Coder and decoder. *)

\* The two states at the ends of the same n frames, however they were before: their
\* histories are not farther apart than they were then, and after one frame they have its
\* ratios in common, after two all ratios.
Near(t, u, n) ==
  /\ Within(t.dp0, u.dp0, gap)
  /\ t.j \in 0 .. 1 /\ t.LARpp = [i \in 0 .. 1 |-> t.LARpp[i]]
  /\ u.j \in 0 .. 1 /\ u.LARpp = [i \in 0 .. 1 |-> u.LARpp[i]]
  /\ n >= 1 => t.LARpp[1 - t.j] = u.LARpp[1 - u.j]
  /\ n >= 2 => t.LARpp[t.j] = u.LARpp[u.j]

\* The first n frames of the packet lead from h[0] to h[n].
Chain(h, n) ==
  \A i \in 1 .. n : /\ HasMagic(packet[i])
                    /\ \A m \in 1 .. 4 : Carried(packet[i]).Nc[m] \in 40 .. 120
                    /\ h[i] = FrameStep(h[i - 1], Carried(packet[i]))

\* How many frames of the packet have been coded.
FramesCoded == IF pc \in Encoding THEN frame - 1 ELSE P_CountFrameDataInPocket

\* The packet, as far as it is coded, leads the coder along the chain h, and would lead the
\* decoder along the chain g, which stays near h.
Paired(h, g) ==
  /\ Vec(packet, FramesCoded) /\ Chain(h, FramesCoded) /\ Chain(g, FramesCoded)
  /\ \A i \in 0 .. FramesCoded : Near(h[i], g[i], i)

\* Where the coder is on its chain: inside of a frame, as many sub-frames further as it has
\* reconstructed.
CoderAt(h) ==
  /\ pc \in FrameBegun => Track(enc) = h[frame - 1]
  /\ pc \in RatiosMoved => /\ enc.LARpp = NewLARpp(h[frame - 1], par.LARc)
                           /\ enc.j = 1 - h[frame - 1].j
  /\ pc = "analysis" => enc.dp0 = h[frame - 1].dp0
  /\ pc \in {"ltp", "rpe"} =>
       /\ Vec(enc.dp0, 80 + 40 * sub)
       /\ Newest(enc.dp0, 80 + 40 * sub) = After(h[frame - 1].dp0, par, sub - 1)
  /\ pc = "rpe" => dpp = Estimate(par.bc[sub], par.Nc[sub], enc.dp0)
  /\ pc = "pack" => enc.dp0 = After(h[frame - 1].dp0, par, 4)
  /\ pc \notin Encoding => Track(enc) = h[P_CountFrameDataInPocket]
  /\ pc \notin {"ltp", "rpe"} => Vec(enc.dp0, 120)

\* Where the decoder is on its own.
DecoderAt(g) ==
  /\ pc \notin Decoding => Track(dec) = g[0]
  /\ pc = "unpack" => Track(dec) = g[frame - 1]
  /\ pc \in {"decode", "newratios"} =>
       /\ received = Carried(packet[frame])
       /\ dec.LARpp = g[frame - 1].LARpp /\ dec.j = g[frame - 1].j
  /\ pc = "decode" => dec.dp0 = After(g[frame - 1].dp0, received, sub - 1)
  /\ pc = "newratios" => dec.dp0 = After(g[frame - 1].dp0, received, 4)
  /\ pc = "synthesis" => Track(dec) = g[frame]

InStep(h, g) == Paired(h, g) /\ CoderAt(h) /\ DecoderAt(g)

\* Where both have got to when the packet has been decoded.
Followed == \E t, u : /\ t = Track(enc) /\ u = Track(dec)
                     /\ Near(t, u, P_CountFrameDataInPocket)

\* What is known of the packet while it is coded and decoded.
FateOK ==
  /\ pc \in Encoding => fate = "coded"
  /\ fate = "decoded" => pc = "idle"

\* What waits in the listener's buffer is not older than what was played.
BufferOK ==
  /\ audioBuf \in [Buffer!Slot -> [use : {0, 1}, count : Nat, bufData : {"voice", "silence"}]]
  /\ lastBufCount \in Nat /\ next \in Nat /\ count \in Nat
  /\ \A i \in Buffer!Slot : audioBuf[i].use = 1 => audioBuf[i].count >= lastBufCount

\* The packet is not accepted a second time: it waits, or it was played, or the buffer was
\* emptied for something as old.
Known ==
  \/ count <= lastBufCount
  \/ \E i \in Buffer!Slot : audioBuf[i].use = 1 /\ audioBuf[i].count = count

\* The invariant: what was coded leads the coder from one history to another, would lead the
\* decoder to one as near, and does so once.
FollowInv ==
  /\ FateOK /\ BufferOK /\ gap \in Nat
  /\ pc \in Decoding \/ fate = "decoded" => Known
  /\ fate = "coded" => \E h, g : InStep(h, g)
  /\ fate = "decoded" => Followed

-----------------------------------------------------------------------------
(* How far they are apart. *)

\* The distance says what Within says.
LEMMA DistanceIs ==
  ASSUME NEW w \in [1 .. 120 -> Int], NEW v \in [1 .. 120 -> Int]
  PROVE  /\ Distance(w, v) \in Nat /\ Within(w, v, Distance(w, v))
         /\ \A n \in Nat : Within(w, v, n) => Distance(w, v) <= n
<1> DEFINE d == [i \in 1 .. 120 |-> IF w[i] > v[i] THEN w[i] - v[i] ELSE v[i] - w[i]]
<1>1. Distance(w, v) = Max({d[i] : i \in 1 .. 120})
  BY DEF Distance
<1>2. \A i \in 1 .. 120 : d[i] \in Nat /\ w[i] - v[i] <= d[i] /\ v[i] - w[i] <= d[i]
                          /\ (d[i] = w[i] - v[i] \/ d[i] = v[i] - w[i])
  <2>1. SUFFICES ASSUME NEW i \in 1 .. 120
                 PROVE  d[i] \in Nat /\ w[i] - v[i] <= d[i] /\ v[i] - w[i] <= d[i]
                        /\ (d[i] = w[i] - v[i] \/ d[i] = v[i] - w[i])
    OBVIOUS
  <2>2. PICK a \in Int, b \in Int : a = w[i] /\ b = v[i]
    OBVIOUS
  <2>3. d[i] = IF a > b THEN a - b ELSE b - a
    BY <2>2
  <2> QED BY ONLY <2>2, <2>3, a \in Int, b \in Int
<1>3. d = [i \in 1 .. 120 |-> d[i]]
  OBVIOUS
<1> HIDE DEF d
<1>4. /\ \E i \in 1 .. 120 : Max({d[j] : j \in 1 .. 120}) = d[i]
      /\ \A i \in 1 .. 120 : Max({d[j] : j \in 1 .. 120}) >= d[i]
  <2>1. PICK N \in Nat \ {0} : N = 120
    OBVIOUS
  <2>2. d \in [1 .. N -> Int] /\ N \in Nat \ {0}
    BY <1>2, <1>3, <2>1
  <2>3. /\ \E i \in 1 .. N : Max({d[j] : j \in 1 .. N}) = d[i]
        /\ \A i \in 1 .. N : Max({d[j] : j \in 1 .. N}) >= d[i]
    BY ONLY <2>2, MaxOf
  <2> QED BY <2>1, <2>3
<1>5. PICK n \in Nat : n = Distance(w, v)
  BY ONLY <1>1, <1>2, <1>4
<1>6. \A i \in 1 .. 120 : w[i] - v[i] <= n /\ v[i] - w[i] <= n
  <2>1. SUFFICES ASSUME NEW i \in 1 .. 120 PROVE w[i] - v[i] <= n /\ v[i] - w[i] <= n
    OBVIOUS
  <2>2. PICK a \in Int, b \in Int, c \in Nat : a = w[i] /\ b = v[i] /\ c = d[i]
    BY <1>2
  <2>3. c <= n /\ a - b <= c /\ b - a <= c
    BY ONLY <1>1, <1>2, <1>4, <1>5, <2>2, i \in 1 .. 120
  <2> QED BY ONLY <2>2, <2>3, a \in Int, b \in Int, c \in Nat, n \in Nat
<1>7. \A m \in Nat : Within(w, v, m) => n <= m
  <2>1. PICK i \in 1 .. 120 : n = d[i]
    BY ONLY <1>1, <1>4, <1>5
  <2> QED BY ONLY <1>2, <2>1 DEF Within
<1> QED BY ONLY <1>5, <1>6, <1>7, w \in [1 .. 120 -> Int], v \in [1 .. 120 -> Int] DEF Within

\* The same sub-frame keeps them within the same distance.
LEMMA AfterSubframeNear ==
  ASSUME NEW n \in Nat, NEW w, NEW v, Within(w, v, n), NEW p, InRange(p, 40 .. 120),
         NEW i \in 1 .. 4
  PROVE  Within(AfterSubframe(w, p, i), AfterSubframe(v, p, i), n)
<1>1. /\ p.Nc[i] \in 40 .. 120 /\ p.bc[i] \in 0 .. 3
      /\ p.Mc[i] \in 0 .. 3 /\ p.xmaxc[i] \in 0 .. 63
      /\ Vec(p.xMc[i], 13) /\ \A m \in 1 .. 13 : p.xMc[i][m] \in 0 .. 7
  BY DEF InRange
<1>2. PICK x : x = p.xMc[i]
  OBVIOUS
<1>3. x \in [1 .. 13 -> 0 .. 7]
  BY ONLY <1>1, <1>2 DEF Vec
<1>4. PICK ex : ex = Excitation(p.Mc[i], p.xmaxc[i], x)
  OBVIOUS
<1>5. ex \in [1 .. 40 -> Int]
  BY ONLY <1>1, <1>3, <1>4, ExcitationIs
<1>6. PICK Nc \in 40 .. 120, bc \in 0 .. 3 : Nc = p.Nc[i] /\ bc = p.bc[i]
  BY <1>1
<1>7. Within(Pushed(w, Synthesized(ex, Nc, bc, w)), Pushed(v, Synthesized(ex, Nc, bc, v)), n)
  BY <1>5, SubframeNear
<1> QED BY ONLY <1>2, <1>4, <1>6, <1>7 DEF AfterSubframe

\* And a whole frame.
LEMMA FrameNear ==
  ASSUME gap \in Nat, NEW t, NEW u, NEW n \in Nat, Near(t, u, n),
         NEW p, InRange(p, 40 .. 120)
  PROVE  Near(FrameStep(t, p), FrameStep(u, p), n + 1)
<1>1. Within(After(t.dp0, p, 4), After(u.dp0, p, 4), gap)
  <2>1. \A w, v : Within(w, v, gap)
          => \A i \in 1 .. 4 : Within(AfterSubframe(w, p, i), AfterSubframe(v, p, i), gap)
    BY AfterSubframeNear
  <2>2. Within(t.dp0, u.dp0, gap)
    BY DEF Near
  <2> DEFINE At(i) == Within(After(t.dp0, p, i), After(u.dp0, p, i), gap)
  <2>3. At(0)
    BY <2>2 DEF After
  <2>4. ASSUME NEW i \in 1 .. 4, At(i - 1) PROVE At(i)
    BY <2>1, <2>4, AfterStep
  <2> HIDE DEF At
  <2>5. At(1) /\ At(2) /\ At(3) /\ At(4)
    BY ONLY <2>3, <2>4
  <2> QED BY <2>5 DEF At
<1>2. PICK L : L = Decoding_of_the_coded_Log_Area_Ratios(p.LARc)
  OBVIOUS
<1>3. ASSUME NEW x, x.j \in 0 .. 1, x.LARpp = [i \in 0 .. 1 |-> x.LARpp[i]]
      PROVE  /\ FrameStep(x, p).j = 1 - x.j /\ FrameStep(x, p).j \in 0 .. 1
             /\ FrameStep(x, p).LARpp = [i \in 0 .. 1 |-> FrameStep(x, p).LARpp[i]]
             /\ FrameStep(x, p).LARpp[x.j] = L
             /\ FrameStep(x, p).LARpp[1 - x.j] = x.LARpp[1 - x.j]
             /\ FrameStep(x, p).dp0 = After(x.dp0, p, 4)
  <2>0. PICK j \in 0 .. 1 : j = x.j
    BY <1>3
  <2>1. PICK f : f = [x.LARpp EXCEPT ![j] = L]
    OBVIOUS
  <2>2. FrameStep(x, p).j = 1 - j /\ FrameStep(x, p).LARpp = f
        /\ FrameStep(x, p).dp0 = After(x.dp0, p, 4)
    BY ONLY <1>2, <2>0, <2>1 DEF FrameStep, NewLARpp
  <2>3. 1 - j \in 0 .. 1 /\ 1 - j # j
    BY ONLY j \in 0 .. 1
  <2>4. f = [i \in 0 .. 1 |-> f[i]] /\ f[j] = L /\ f[1 - j] = x.LARpp[1 - j]
    BY ONLY <1>3, <2>1, <2>3, j \in 0 .. 1
  <2> QED BY ONLY <2>0, <2>2, <2>3, <2>4
<1>4. /\ t.j \in 0 .. 1 /\ t.LARpp = [i \in 0 .. 1 |-> t.LARpp[i]]
      /\ u.j \in 0 .. 1 /\ u.LARpp = [i \in 0 .. 1 |-> u.LARpp[i]]
      /\ n >= 1 => t.LARpp[1 - t.j] = u.LARpp[1 - u.j]
  BY DEF Near
<1>5. PICK x, y : x = FrameStep(t, p) /\ y = FrameStep(u, p)
  OBVIOUS
<1>6. /\ x.j = 1 - t.j /\ x.j \in 0 .. 1 /\ x.LARpp = [i \in 0 .. 1 |-> x.LARpp[i]]
      /\ x.LARpp[t.j] = L /\ x.LARpp[1 - t.j] = t.LARpp[1 - t.j]
      /\ x.dp0 = After(t.dp0, p, 4)
  BY ONLY <1>3, <1>4, <1>5
<1>7. /\ y.j = 1 - u.j /\ y.j \in 0 .. 1 /\ y.LARpp = [i \in 0 .. 1 |-> y.LARpp[i]]
      /\ y.LARpp[u.j] = L /\ y.LARpp[1 - u.j] = u.LARpp[1 - u.j]
      /\ y.dp0 = After(u.dp0, p, 4)
  BY ONLY <1>3, <1>4, <1>5
<1>8. 1 - x.j = t.j /\ 1 - y.j = u.j /\ (n + 1 >= 2 => n >= 1)
  BY ONLY <1>4, <1>6, <1>7, n \in Nat
<1>9. Near(x, y, n + 1)
  BY ONLY <1>1, <1>4, <1>6, <1>7, <1>8 DEF Near
<1> QED BY ONLY <1>5, <1>9

-----------------------------------------------------------------------------
(* The listener's buffer. *)

\* What waits does not get older than what was played, and what is known stays known.
LEMMA ListenKeeps ==
  ASSUME BufferOK, Poll \/ Discard
  PROVE  BufferOK' /\ (Known => Known')
<1> USE DEF Buffer!Slot, Buffer!InUse, Buffer!isPacketInBuffers
<1>1. UNCHANGED <<next, count>>
  BY DEF Poll, Discard, travelvars
<1>2. CASE Poll
  <2>1. CASE Buffer!PlayOldest
    <3>1. PICK i \in Buffer!Slot : /\ Buffer!IsMinCountBuf(i)
                                   /\ audioBuf' = [audioBuf EXCEPT ![i].use = 0]
                                   /\ lastBufCount' = audioBuf[i].count
      BY <2>1 DEF Buffer!PlayOldest
    <3>2. /\ audioBuf[i].use = 1 /\ audioBuf[i].count \in Nat
          /\ \A j \in Buffer!Slot : audioBuf[j].use = 1 =>
               \/ audioBuf[i].count < audioBuf[j].count
               \/ audioBuf[i].count = audioBuf[j].count /\ i <= j
      BY <3>1 DEF Buffer!IsMinCountBuf, BufferOK
    <3>3. \A j \in Buffer!Slot :
            /\ audioBuf'[j].count = audioBuf[j].count
            /\ j # i => audioBuf'[j].use = audioBuf[j].use
            /\ audioBuf'[i].use = 0
      BY <3>1 DEF BufferOK
    <3>4. audioBuf' \in [Buffer!Slot -> [use : {0, 1}, count : Nat, bufData : {"voice", "silence"}]]
      BY <3>1 DEF BufferOK
    <3>5. BufferOK'
      BY <1>1, <3>1, <3>2, <3>3, <3>4 DEF BufferOK
    <3>6. ASSUME Known PROVE Known'
      BY <1>1, <3>1, <3>2, <3>3, <3>6 DEF BufferOK, Known
    <3> QED BY <3>5, <3>6
  <2>2. CASE Buffer!Underrun \/ Buffer!WaitForFill
    BY <1>1, <2>2 DEF Buffer!Underrun, Buffer!WaitForFill, BufferOK, Known
  <2> QED BY <1>2, <2>1, <2>2 DEF Poll, Buffer!getBufForAllUsers
<1>3. CASE Discard
  <2>1. CASE Buffer!DropPacket(Arriving)
    BY <1>1, <2>1 DEF Buffer!DropPacket, Buffer!vars, BufferOK, Known
  <2>2. CASE Buffer!RestartStream(Arriving)
    <3>1. /\ lastBufCount' = count
          /\ audioBuf' = [i \in Buffer!Slot |-> [audioBuf[i] EXCEPT !.use = 0]]
      BY <2>2 DEF Buffer!RestartStream, Arriving
    <3> QED BY <1>1, <3>1 DEF BufferOK, Known
  <2> QED BY <1>3, <2>1, <2>2 DEF Discard
<1> QED BY <1>2, <1>3

\* Only what is not known is accepted, and then it is.
LEMMA AcceptKnows ==
  ASSUME BufferOK, Accept
  PROVE  BufferOK' /\ ~Known /\ Known'
<1> USE DEF Buffer!Slot, Buffer!InUse, Buffer!isPacketInBuffers
<1>1. PICK i \in Buffer!Slot :
        /\ count > lastBufCount /\ ~\E n \in Buffer!InUse : audioBuf[n].count = count
        /\ audioBuf' = [audioBuf EXCEPT ![i] = [use |-> 1, count |-> count, bufData |-> "voice"]]
        /\ UNCHANGED <<lastBufCount, next, count>>
  BY DEF Accept, Buffer!StorePacket, Arriving, travelvars
<1>2. /\ audioBuf'[i].use = 1 /\ audioBuf'[i].count = count
      /\ \A n \in Buffer!Slot : n # i => audioBuf'[n] = audioBuf[n]
      /\ audioBuf' \in [Buffer!Slot -> [use : {0, 1}, count : Nat, bufData : {"voice", "silence"}]]
  BY <1>1 DEF BufferOK
<1>3. ~Known
  BY <1>1 DEF BufferOK, Known
<1>4. Known'
  BY <1>1, <1>2 DEF Known
<1>5. BufferOK'
  BY <1>1, <1>2 DEF BufferOK
<1> QED BY <1>3, <1>4, <1>5

-----------------------------------------------------------------------------
(* Every step keeps the two on their chains. *)

\* What is paired stays so while the packet is left alone.
LEMMA PairedKept ==
  ASSUME NEW h, NEW g, Paired(h, g), UNCHANGED <<packet, gap>>, FramesCoded' = FramesCoded
  PROVE  Paired(h, g)'
BY DEF Paired, Chain, Near

\* A packet begins: the states are where its chains start, as far apart as gap says.
LEMMA RecordFollows ==
  ASSUME AssertsInv, Record
  PROVE  gap' \in Nat /\ \E h, g : InStep(h, g)'
<1>0. PICK h, g : h = [i \in 0 .. 0 |-> Track(enc)] /\ g = [i \in 0 .. 0 |-> Track(dec)]
  OBVIOUS
<1>1. /\ pc = "idle" /\ pc' = "preprocess" /\ frame' = 1 /\ packet' = <<>>
      /\ UNCHANGED <<enc, dec>> /\ gap' = Distance(enc.dp0, dec.dp0)
  BY DEF Record, decodervars
<1>2. FramesCoded' = 0
  BY <1>1 DEF FramesCoded, Encoding, FrameBegun
<1>3. /\ enc.dp0 \in [1 .. 120 -> Int] /\ dec.dp0 \in [1 .. 120 -> Int]
      /\ enc.j \in 0 .. 1 /\ enc.LARpp = [i \in 0 .. 1 |-> enc.LARpp[i]]
      /\ dec.j \in 0 .. 1 /\ dec.LARpp = [i \in 0 .. 1 |-> dec.LARpp[i]]
  BY <1>1 DEF AssertsInv, SoundHistory, SoundFilter, SoundDecoder
<1>4. gap' \in Nat /\ Within(enc.dp0, dec.dp0, gap')
  BY ONLY <1>1, <1>3, DistanceIs
<1>5. h[0] = Track(enc) /\ g[0] = Track(dec)
  BY <1>0
<1>6. Near(h[0], g[0], 0)'
  BY ONLY <1>3, <1>4, <1>5 DEF Near, Track
<1>7. Paired(h, g)'
  BY ONLY <1>1, <1>2, <1>6 DEF Paired, Vec, Chain
<1>8. frame' - 1 = 0 /\ Vec(enc.dp0, 120)
  <2>1. frame' - 1 = 0
    BY ONLY <1>1
  <2>2. Vec(enc.dp0, 120)
    BY ONLY <1>3 DEF Vec
  <2> QED BY ONLY <2>1, <2>2
<1>9. CoderAt(h)'
  BY ONLY <1>1, <1>5, <1>8 DEF CoderAt, Encoding, FrameBegun, RatiosMoved, Track
<1>10. DecoderAt(g)'
  BY ONLY <1>1, <1>5 DEF DecoderAt, Decoding, Track
<1> QED BY <1>4, <1>7, <1>9, <1>10 DEF InStep

\* Filtering and the ratios of a frame do not touch either history.
LEMMA BeginsFollow ==
  ASSUME StagesOK, NEW h, NEW g, InStep(h, g), Preprocess \/ LpcAnalysis
  PROVE  InStep(h, g)'
<1>1. /\ pc \in FrameBegun /\ pc' \in FrameBegun /\ UNCHANGED <<frame, packet, gap, enc, dec>>
  BY DEF Preprocess, LpcAnalysis, decodervars, travelvars, FrameBegun
<1>2. Paired(h, g)'
  <2>1. FramesCoded' = FramesCoded
    BY <1>1 DEF FramesCoded, Encoding
  <2> QED BY <1>1, <2>1, PairedKept DEF InStep
<1>3. CoderAt(h)'
  BY <1>1 DEF InStep, CoderAt, Encoding, FrameBegun, RatiosMoved, Track
<1>4. DecoderAt(g)'
  BY <1>1 DEF InStep, DecoderAt, FrameBegun, Decoding, Track
<1> QED BY <1>2, <1>3, <1>4 DEF InStep

\* The coder takes up the ratios of its frame.
LEMMA AnalysisRatiosFollow ==
  ASSUME StagesOK, NEW h, NEW g, InStep(h, g), AnalysisRatios
  PROVE  InStep(h, g)'
<1>1. /\ pc = "ratios" /\ pc' = "analysis" /\ UNCHANGED <<frame, packet, gap, par, dec>>
      /\ enc' = NewRatios(enc, par.LARc)
  BY DEF AnalysisRatios, decodervars, travelvars
<1>2. Paired(h, g)'
  <2>1. FramesCoded' = FramesCoded
    BY <1>1 DEF FramesCoded, Encoding, FrameBegun, RatiosMoved
  <2> QED BY <1>1, <2>1, PairedKept DEF InStep
<1>3. Track(enc) = h[frame - 1] /\ Vec(enc.dp0, 120)
  BY <1>1 DEF InStep, CoderAt, FrameBegun
<1>4. /\ enc'.dp0 = enc.dp0 /\ enc'.j = 1 - enc.j
      /\ enc'.LARpp = NewLARpp(Track(enc), par.LARc)
  BY <1>1 DEF NewRatios, NewLARpp, StagesOK, Whole, Track
<1>5. CoderAt(h)'
  BY ONLY <1>1, <1>3, <1>4 DEF CoderAt, Encoding, FrameBegun, RatiosMoved, Track
<1>6. DecoderAt(g)'
  BY <1>1 DEF InStep, DecoderAt, Decoding, Track
<1> QED BY <1>2, <1>5, <1>6 DEF InStep

\* The short-term filter leaves history and ratios alone.
LEMMA AnalysisFollows ==
  ASSUME StagesOK, NEW h, NEW g, InStep(h, g), ShortTermAnalysis
  PROVE  InStep(h, g)'
<1>1. /\ pc = "analysis" /\ pc' \in {"analysis", "ltp"} /\ sub' = 1
      /\ UNCHANGED <<frame, packet, gap, par, dec>>
      /\ enc' = [enc EXCEPT !.u = AnalysisStages(Coefficients(enc), enc.u, s[k]).u]
  BY DEF ShortTermAnalysis, decodervars, travelvars
<1>2. Paired(h, g)'
  <2>1. FramesCoded' = FramesCoded
    BY <1>1 DEF FramesCoded, Encoding, FrameBegun, RatiosMoved
  <2> QED BY <1>1, <2>1, PairedKept DEF InStep
<1>3. enc'.dp0 = enc.dp0 /\ enc'.j = enc.j /\ enc'.LARpp = enc.LARpp
  BY <1>1 DEF StagesOK, Whole
<1>4. /\ Vec(enc.dp0, 120) /\ enc.dp0 = h[frame - 1].dp0
      /\ enc.LARpp = NewLARpp(h[frame - 1], par.LARc) /\ enc.j = 1 - h[frame - 1].j
  BY <1>1 DEF InStep, CoderAt, RatiosMoved
<1>5. 80 + 40 * sub' = 120 /\ sub' - 1 = 0
  BY <1>1
<1>6. Newest(enc.dp0, 120) = After(h[frame - 1].dp0, par, 0)
  BY <1>4, NewestOf120 DEF After
<1>7. CoderAt(h)'
  BY ONLY <1>1, <1>3, <1>4, <1>5, <1>6 DEF CoderAt, Encoding, FrameBegun, RatiosMoved, Track
<1>8. DecoderAt(g)'
  BY <1>1 DEF InStep, DecoderAt, Decoding, Track
<1> QED BY <1>2, <1>7, <1>8 DEF InStep

\* Lag and gain join the parameters; the estimate is taken from the history as it is.
LEMMA LongTermFollows ==
  ASSUME StagesOK, NEW h, NEW g, InStep(h, g), LongTermPredictor
  PROVE  InStep(h, g)'
<1>1. /\ pc = "ltp" /\ pc' = "rpe" /\ UNCHANGED <<frame, sub, packet, gap, enc, dec>>
  BY DEF LongTermPredictor, decodervars, travelvars
<1>2. Paired(h, g)'
  <2>1. FramesCoded' = FramesCoded
    BY <1>1 DEF FramesCoded, Encoding, FrameBegun, RatiosMoved
  <2> QED BY <1>1, <2>1, PairedKept DEF InStep
<1>3. PICK Nc, bc :
        /\ par' = [LARc |-> par.LARc, Nc |-> Longer(par.Nc, Nc), bc |-> Longer(par.bc, bc),
                   Mc |-> par.Mc, xmaxc |-> par.xmaxc, xMc |-> par.xMc]
        /\ dpp' = Estimate(bc, Nc, enc.dp0)
  BY LongTermEffect
<1>4. /\ sub \in 1 .. 4 /\ sub - 1 \in Nat /\ sub = (sub - 1) + 1
      /\ Vec(par.Nc, sub - 1) /\ Vec(par.bc, sub - 1)
  BY <1>1 DEF StagesOK, ParametersOf
<1>5. /\ \A i \in 1 .. sub - 1 : par'.Nc[i] = par.Nc[i] /\ par'.bc[i] = par.bc[i]
      /\ par'.Nc[sub] = Nc /\ par'.bc[sub] = bc
      /\ par'.LARc = par.LARc /\ par'.Mc = par.Mc /\ par'.xmaxc = par.xmaxc /\ par'.xMc = par.xMc
  <2>0. PICK n \in Nat : n = sub - 1 /\ sub = n + 1
    BY ONLY <1>4
  <2>1. /\ \A i \in 1 .. n : Longer(par.Nc, Nc)[i] = par.Nc[i]
        /\ Longer(par.Nc, Nc)[sub] = Nc
    BY ONLY <1>4, <2>0, n \in Nat, VecAppend
  <2>2. /\ \A i \in 1 .. n : Longer(par.bc, bc)[i] = par.bc[i]
        /\ Longer(par.bc, bc)[sub] = bc
    BY ONLY <1>4, <2>0, n \in Nat, VecAppend
  <2>3. /\ par'.Nc = Longer(par.Nc, Nc) /\ par'.bc = Longer(par.bc, bc)
        /\ par'.LARc = par.LARc /\ par'.Mc = par.Mc
        /\ par'.xmaxc = par.xmaxc /\ par'.xMc = par.xMc
    BY ONLY <1>3
  <2> QED BY ONLY <2>0, <2>1, <2>2, <2>3
<1>6. After(h[frame - 1].dp0, par', sub - 1) = After(h[frame - 1].dp0, par, sub - 1)
  <2>1. sub - 1 \in 0 .. 4
    BY <1>4
  <2> QED BY <1>5, <2>1, AfterAgrees
<1>7. /\ Vec(enc.dp0, 80 + 40 * sub)
      /\ Newest(enc.dp0, 80 + 40 * sub) = After(h[frame - 1].dp0, par, sub - 1)
      /\ enc.LARpp = NewLARpp(h[frame - 1], par.LARc) /\ enc.j = 1 - h[frame - 1].j
  BY <1>1 DEF InStep, CoderAt, RatiosMoved
<1>8. CoderAt(h)'
  BY ONLY <1>1, <1>3, <1>5, <1>6, <1>7 DEF CoderAt, Encoding, FrameBegun, RatiosMoved
<1>9. DecoderAt(g)'
  BY <1>1 DEF InStep, DecoderAt, Decoding, Track
<1> QED BY <1>2, <1>8, <1>9 DEF InStep

\* The coder reconstructs the sub-frame, and has the history the decoder will have after it.
LEMMA RpeFollows ==
  ASSUME StagesOK, CodecAsserts, NEW h, NEW g, InStep(h, g), RpeEncoding
  PROVE  InStep(h, g)'
<1> DEFINE hist == enc.dp0
           m == 80 + 40 * sub
           l == m + 40
           t == h[frame - 1].dp0
           d == [i \in 1 .. 40 |-> GSM_ADD(e'[i], dpp[i])]
<1>1. /\ pc = "rpe" /\ pc' = IF sub = 4 THEN "pack" ELSE "ltp"
      /\ sub' = (sub % 4) + 1 /\ UNCHANGED <<frame, packet, gap, dec>>
      /\ enc' = [enc EXCEPT !.dp0 = Moved(Cat(hist, d))]
  BY DEF RpeEncoding, decodervars, travelvars, Cat
<1>2. Paired(h, g)'
  <2>1. FramesCoded' = FramesCoded
    BY <1>1 DEF FramesCoded, Encoding, FrameBegun, RatiosMoved
  <2> QED BY <1>1, <2>1, PairedKept DEF InStep
<1>3. PICK Mc, xmaxc, xMc :
        /\ par' = [LARc |-> par.LARc, Nc |-> par.Nc, bc |-> par.bc,
                   Mc |-> Longer(par.Mc, Mc), xmaxc |-> Longer(par.xmaxc, xmaxc),
                   xMc |-> Longer(par.xMc, xMc)]
        /\ e' = Excitation(Mc, xmaxc, xMc)
  BY RpeEffect
<1>4. /\ sub \in 1 .. 4 /\ sub - 1 \in Nat /\ sub = (sub - 1) + 1
      /\ Vec(par.Nc, sub) /\ Vec(par.bc, sub)
      /\ Vec(par.Mc, sub - 1) /\ Vec(par.xmaxc, sub - 1) /\ Vec(par.xMc, sub - 1)
  BY <1>1 DEF StagesOK, ParametersOf
<1>5. /\ \A i \in 1 .. sub - 1 : /\ par'.Mc[i] = par.Mc[i] /\ par'.xmaxc[i] = par.xmaxc[i]
                                 /\ par'.xMc[i] = par.xMc[i]
      /\ par'.Mc[sub] = Mc /\ par'.xmaxc[sub] = xmaxc /\ par'.xMc[sub] = xMc
      /\ par'.LARc = par.LARc /\ par'.Nc = par.Nc /\ par'.bc = par.bc
  <2>1. /\ \A i \in 1 .. sub - 1 : Longer(par.Mc, Mc)[i] = par.Mc[i]
        /\ Longer(par.Mc, Mc)[sub] = Mc
    BY ONLY <1>4, VecAppend
  <2>2. /\ \A i \in 1 .. sub - 1 : Longer(par.xmaxc, xmaxc)[i] = par.xmaxc[i]
        /\ Longer(par.xmaxc, xmaxc)[sub] = xmaxc
    BY ONLY <1>4, VecAppend
  <2>3. /\ \A i \in 1 .. sub - 1 : Longer(par.xMc, xMc)[i] = par.xMc[i]
        /\ Longer(par.xMc, xMc)[sub] = xMc
    BY ONLY <1>4, VecAppend
  <2> QED BY ONLY <1>3, <2>1, <2>2, <2>3
<1>6. After(t, par', sub - 1) = After(t, par, sub - 1)
  <2>1. sub - 1 \in 0 .. 4
    BY <1>4
  <2> QED BY <1>5, <2>1, AfterAgrees
<1>7. /\ Vec(hist, m) /\ Newest(hist, m) = After(t, par, sub - 1)
      /\ enc.LARpp = NewLARpp(h[frame - 1], par.LARc) /\ enc.j = 1 - h[frame - 1].j
      /\ dpp = Estimate(par.bc[sub], par.Nc[sub], hist)
  BY <1>1 DEF InStep, CoderAt, RatiosMoved
<1>8. par.Nc[sub] \in 40 .. 120
  <2>1. sub \in DOMAIN par.Nc
    BY ONLY <1>4 DEF Vec
  <2> QED BY <2>1 DEF CodecAsserts
<1>9. m \in Nat /\ m >= 120 /\ l \in Nat /\ l = m + 40
  BY <1>4
<1>10. d = [i \in 1 .. 40 |-> GSM_ADD(e'[i], Estimate(par.bc[sub], par.Nc[sub], hist)[i])]
  BY <1>7
<1> HIDE DEF hist, m, l, t, d
<1>11. /\ Vec(Cat(hist, d), l)
       /\ Newest(Cat(hist, d), l)
            = Pushed(Newest(hist, m), Synthesized(e', par.Nc[sub], par.bc[sub], Newest(hist, m)))
  <2>1. PICK ex, bc, Nc : ex = e' /\ bc = par.bc[sub] /\ Nc = par.Nc[sub] /\ Nc \in 40 .. 120
    BY <1>8
  <2>2. d = Reconstructed(ex, Nc, bc, hist)
    BY <1>10, <2>1 DEF Reconstructed
  <2>3. Vec(d, 40)
    BY ONLY <1>7, <1>9, <2>1, <2>2, SameSamples
  <2>4. d = Synthesized(ex, Nc, bc, Newest(hist, m))
    BY ONLY <1>7, <1>9, <2>1, <2>2, SameSamples
  <2>5. Vec(Cat(hist, d), l)
    BY ONLY <1>7, <1>9, <2>3, NewestMoved
  <2>6. Newest(Cat(hist, d), l) = Pushed(Newest(hist, m), d)
    BY ONLY <1>7, <1>9, <2>3, NewestMoved
  <2> QED BY <2>1, <2>4, <2>5, <2>6
<1>12. Newest(Cat(hist, d), l) = After(t, par', sub)
  <2>1. After(t, par', sub) = AfterSubframe(After(t, par', sub - 1), par', sub)
    BY <1>4, AfterStep
  <2>2. AfterSubframe(After(t, par, sub - 1), par', sub)
          = Pushed(After(t, par, sub - 1),
                   Synthesized(e', par.Nc[sub], par.bc[sub], After(t, par, sub - 1)))
    BY <1>3, <1>5 DEF AfterSubframe
  <2> QED BY <1>6, <1>7, <1>11, <2>1, <2>2
<1>13. enc'.dp0 = Moved(Cat(hist, d)) /\ enc'.LARpp = enc.LARpp /\ enc'.j = enc.j
  BY <1>1 DEF StagesOK, Whole
<1>14. CoderAt(h)'
  <2>1. CASE sub = 4
    <3>1. m = 240 /\ l = 280 /\ l - 119 = 161 /\ pc' = "pack"
      BY <1>1, <2>1 DEF m, l
    <3>2. enc'.dp0 = Newest(Cat(hist, d), l)
      BY <1>13, <2>1, <3>1 DEF Moved, Newest
    <3>3. l \in Nat /\ l >= 120
      BY <3>1
    <3>4. Vec(enc'.dp0, 120)
      BY <1>11, <3>2, <3>3, NewestIs
    <3>5. enc'.dp0 = After(h[frame - 1].dp0, par', 4)
      BY <1>12, <2>1, <3>2 DEF t
    <3> QED
      BY ONLY <1>1, <1>5, <1>7, <1>13, <3>1, <3>4, <3>5
      DEF CoderAt, Encoding, FrameBegun, RatiosMoved
  <2>2. CASE sub < 4
    <3>1. 80 + 40 * sub' = l /\ sub' - 1 = sub /\ pc' = "ltp"
      BY <1>1, <1>4, <2>2 DEF m, l
    <3>2. enc'.dp0 = Cat(hist, d)
      BY <1>13, <2>2 DEF Moved
    <3>3. /\ Vec(enc'.dp0, 80 + 40 * sub')
          /\ Newest(enc'.dp0, 80 + 40 * sub') = After(h[frame - 1].dp0, par', sub' - 1)
      BY <1>11, <1>12, <3>1, <3>2 DEF t
    <3> QED
      BY ONLY <1>1, <1>5, <1>7, <1>13, <3>1, <3>3 DEF CoderAt, Encoding, FrameBegun, RatiosMoved
  <2> QED BY <1>4, <2>1, <2>2
<1>15. DecoderAt(g)'
  BY <1>1 DEF InStep, DecoderAt, Decoding, Track
<1> QED BY <1>2, <1>14, <1>15 DEF InStep

\* A packed frame is a further step of both chains, and leaves them as near.
LEMMA PackFollows ==
  ASSUME AssertsInv, CodecAsserts, FrameRoundTrip, gap \in Nat,
         NEW h, NEW g, InStep(h, g), Pack
  PROVE  \E h2, g2 : InStep(h2, g2)'
<1> DEFINE c == gsm_implode(Words(par))
           n == frame - 1
<1>1. /\ pc = "pack" /\ packet' = Longer(packet, c) /\ UNCHANGED <<enc, dec, gap>>
      /\ \/ frame < P_CountFrameDataInPocket /\ frame' = frame + 1 /\ pc' = "preprocess"
         \/ frame = P_CountFrameDataInPocket /\ frame' = 1 /\ pc' = "idle"
  BY FramesAssumption DEF Pack, decodervars, AssertsInv, OffsetInv, StagesOK, Longer
<1>2. FramesCoded = n /\ FramesCoded' = frame
  BY <1>1, FramesAssumption DEF AssertsInv, OffsetInv, StagesOK, FramesCoded, Encoding,
                                FrameBegun, RatiosMoved
<1>3. /\ n \in Nat /\ frame \in Nat /\ frame = n + 1
      /\ Vec(packet, n) /\ Chain(h, n) /\ Chain(g, n)
      /\ \A i \in 0 .. n : Near(h[i], g[i], i)
  BY <1>1, <1>2, FramesAssumption DEF InStep, Paired, AssertsInv, OffsetInv, StagesOK
<1>4. /\ Vec(packet', frame)
      /\ \A i \in 1 .. n : packet'[i] = packet[i]
      /\ packet'[frame] = c
  <2>1. Vec(Longer(packet, c), frame)
    BY ONLY <1>3, VecAppend
  <2>2. \A i \in 1 .. n : Longer(packet, c)[i] = packet[i]
    BY ONLY <1>3, VecAppend
  <2>3. Longer(packet, c)[frame] = c
    BY ONLY <1>3, VecAppend
  <2> QED BY <1>1, <2>1, <2>2, <2>3
<1>5. HasMagic(c) /\ Carried(c) = par
  BY <1>1 DEF FrameRoundTrip, Carried
<1>6. InRange(par, 40 .. 120) /\ \A i \in 1 .. 4 : par.Nc[i] \in 40 .. 120
  BY <1>1, PackedInRange DEF InRange
<1>7. /\ enc.LARpp = NewLARpp(h[n], par.LARc) /\ enc.j = 1 - h[n].j
      /\ enc.dp0 = After(h[n].dp0, par, 4)
      /\ Vec(enc.dp0, 120) /\ Track(dec) = g[0]
  BY <1>1 DEF InStep, CoderAt, DecoderAt, RatiosMoved, Decoding
<1>8. Track(enc) = FrameStep(h[n], par)
  BY ONLY <1>7 DEF Track, FrameStep
<1> HIDE DEF c, n
<1>9. PICK h2, g2 : /\ h2 = [i \in 0 .. frame |-> IF i <= n THEN h[i] ELSE FrameStep(h[n], par)]
                    /\ g2 = [i \in 0 .. frame |-> IF i <= n THEN g[i] ELSE FrameStep(g[n], par)]
  OBVIOUS
<1>10. /\ \A i \in 0 .. n : h2[i] = h[i] /\ g2[i] = g[i]
       /\ h2[frame] = FrameStep(h[n], par) /\ g2[frame] = FrameStep(g[n], par)
  BY ONLY <1>3, <1>9
<1>11. ASSUME NEW x, NEW y, Chain(x, n), \A i \in 0 .. n : y[i] = x[i],
              y[frame] = FrameStep(x[n], par)
       PROVE  Chain(y, FramesCoded)'
  <2>1. SUFFICES ASSUME NEW i \in 1 .. frame
                 PROVE  /\ HasMagic(packet'[i])
                        /\ \A m \in 1 .. 4 : Carried(packet'[i]).Nc[m] \in 40 .. 120
                        /\ y[i] = FrameStep(y[i - 1], Carried(packet'[i]))
    BY <1>2 DEF Chain
  <2>2. CASE i = frame
    <3>1. i - 1 = n /\ n \in 0 .. n
      BY <1>3, <2>2
    <3> QED BY <1>4, <1>5, <1>6, <1>11, <2>2, <3>1
  <2>3. CASE i # frame
    <3>1. i \in 1 .. n /\ i \in 0 .. n /\ i - 1 \in 0 .. n
      BY <1>3, <2>3
    <3> QED BY <1>3, <1>4, <1>11, <3>1 DEF Chain
  <2> QED BY <2>2, <2>3
<1>12. Chain(h2, FramesCoded)' /\ Chain(g2, FramesCoded)'
  BY ONLY <1>3, <1>10, <1>11
<1>13. \A i \in 0 .. frame : Near(h2[i], g2[i], i)'
  <2>1. SUFFICES ASSUME NEW i \in 0 .. frame PROVE Near(h2[i], g2[i], i)'
    OBVIOUS
  <2>2. CASE i \in 0 .. n
    BY ONLY <1>1, <1>3, <1>10, <2>2 DEF Near
  <2>3. CASE i = frame
    <3>1. Near(h[n], g[n], n)
      BY ONLY <1>3
    <3>2. Near(FrameStep(h[n], par), FrameStep(g[n], par), n + 1)
      BY ONLY <1>3, <1>6, <3>1, gap \in Nat, FrameNear
    <3>3. Near(h2[i], g2[i], i)
      BY ONLY <1>3, <1>10, <2>3, <3>2
    <3> QED BY ONLY <1>1, <3>3 DEF Near
  <2>4. i \in 0 .. n \/ i = frame
    BY ONLY <1>3, i \in 0 .. frame
  <2> QED BY <2>2, <2>3, <2>4
<1>14. Paired(h2, g2)'
  BY ONLY <1>2, <1>4, <1>12, <1>13 DEF Paired
<1>15. CoderAt(h2)'
  <2>1. h2[frame] = Track(enc) /\ Vec(enc.dp0, 120)
    BY ONLY <1>7, <1>8, <1>10
  <2>2. CASE pc' = "preprocess"
    <3>1. frame' - 1 = frame
      BY <1>1, <1>3, <2>2
    <3> QED
      BY ONLY <1>1, <2>1, <2>2, <3>1 DEF CoderAt, Encoding, FrameBegun, RatiosMoved, Track
  <2>3. CASE pc' = "idle"
    BY ONLY <1>1, <2>1, <2>3 DEF CoderAt, Encoding, FrameBegun, RatiosMoved, Track
  <2> QED BY <1>1, <2>2, <2>3
<1>16. DecoderAt(g2)'
  <2>1. g2[0] = Track(dec)
    <3>1. 0 \in 0 .. n
      BY <1>3
    <3> QED BY <1>7, <1>10, <3>1
  <2>2. pc' \notin Decoding
    BY <1>1 DEF Decoding
  <2>3. UNCHANGED dec
    BY <1>1
  <2> QED BY ONLY <2>1, <2>2, <2>3 DEF DecoderAt, Decoding, Track
<1> QED BY <1>14, <1>15, <1>16 DEF InStep

\* While the packet is on its way both states wait at the ends of it.
LEMMA IdleFollows ==
  ASSUME StagesOK, NEW h, NEW g, InStep(h, g),
         pc = "idle", pc' = "idle", UNCHANGED <<packet, gap, enc, dec>>
  PROVE  InStep(h, g)'
<1>1. pc \notin Encoding /\ pc' \notin Encoding /\ pc \notin Decoding /\ pc' \notin Decoding
  BY DEF Encoding, FrameBegun, RatiosMoved, Decoding
<1>2. Paired(h, g)'
  <2>1. FramesCoded' = FramesCoded
    BY <1>1 DEF FramesCoded
  <2> QED BY <2>1, PairedKept DEF InStep
<1>3. CoderAt(h)'
  BY <1>1 DEF InStep, CoderAt, Encoding, FrameBegun, RatiosMoved, Track
<1>4. DecoderAt(g)'
  BY <1>1 DEF InStep, DecoderAt, Decoding, Track
<1> QED BY <1>2, <1>3, <1>4 DEF InStep

\* A packet that is accepted is the one that was coded.
LEMMA AcceptFollows ==
  ASSUME StagesOK, NEW h, NEW g, InStep(h, g), Accept
  PROVE  InStep(h, g)'
<1>1. /\ pc = "idle" /\ pc' = "unpack" /\ UNCHANGED <<frame, packet, gap, enc, dec>>
      /\ frame = 1
  BY DEF Accept, OnItsWay, codervars, travelvars, StagesOK
<1>2. Paired(h, g)'
  <2>1. FramesCoded' = FramesCoded
    BY <1>1 DEF FramesCoded, Encoding, FrameBegun, RatiosMoved
  <2> QED BY <1>1, <2>1, PairedKept DEF InStep
<1>3. CoderAt(h)'
  BY <1>1 DEF InStep, CoderAt, Encoding, FrameBegun, RatiosMoved, Track
<1>4. DecoderAt(g)'
  <2>1. frame - 1 = 0
    BY <1>1
  <2> QED BY <1>1, <2>1 DEF InStep, DecoderAt, Decoding, Track
<1> QED BY <1>2, <1>3, <1>4 DEF InStep

\* No frame of the coder's lacks the magic.
LEMMA RefuseFollows ==
  ASSUME StagesOK, NEW h, NEW g, InStep(h, g), Refuse
  PROVE  FALSE
<1>1. pc = "unpack" /\ ~HasMagic(packet[frame])
  BY DEF Refuse
<1>2. FramesCoded = P_CountFrameDataInPocket
  BY <1>1 DEF FramesCoded, Encoding, FrameBegun, RatiosMoved
<1> QED BY <1>1, <1>2 DEF InStep, Paired, Chain, StagesOK

\* The decoder takes up the parameters of its frame.
LEMMA UnpackFollows ==
  ASSUME StagesOK, NEW h, NEW g, InStep(h, g), Unpack
  PROVE  InStep(h, g)'
<1>1. /\ pc = "unpack" /\ pc' = "decode" /\ sub' = 1
      /\ UNCHANGED <<frame, packet, gap, enc, dec>>
      /\ received' = Carried(packet[frame])
  BY DEF Unpack, codervars, travelvars, Carried
<1>2. Paired(h, g)'
  <2>1. FramesCoded' = FramesCoded
    BY <1>1 DEF FramesCoded, Encoding, FrameBegun, RatiosMoved
  <2> QED BY <1>1, <2>1, PairedKept DEF InStep
<1>3. CoderAt(h)'
  BY <1>1 DEF InStep, CoderAt, Encoding, FrameBegun, RatiosMoved, Track
<1>4. DecoderAt(g)'
  <2>1. sub' - 1 = 0
    BY <1>1
  <2>2. Track(dec) = g[frame - 1]
    BY <1>1 DEF InStep, DecoderAt
  <2>3. After(g[frame - 1].dp0, received', 0) = dec.dp0
    BY <2>2 DEF After, Track
  <2> QED BY ONLY <1>1, <2>1, <2>2, <2>3 DEF DecoderAt, Decoding, Track
<1> QED BY <1>2, <1>3, <1>4 DEF InStep

\* The decoder reconstructs a sub-frame.
LEMMA DecodeSubframeFollows ==
  ASSUME StagesOK, NEW h, NEW g, InStep(h, g), DecodeSubframe
  PROVE  InStep(h, g)'
<1> DEFINE w == dec.dp0
           Nr == ReceivedLag(received.Nc[sub], dec.nrp)
           drp == Synthesized(Excitation(received.Mc[sub], received.xmaxc[sub], received.xMc[sub]),
                              Nr, received.bc[sub], w)
<1>1. /\ pc = "decode" /\ pc' = (IF sub = 4 THEN "newratios" ELSE "decode")
      /\ sub' = (sub % 4) + 1 /\ UNCHANGED <<frame, packet, gap, received, enc>>
      /\ dec' = [dec EXCEPT !.nrp = Nr, !.dp0 = Pushed(w, drp)]
  BY DEF DecodeSubframe, codervars, travelvars, Pushed
<1>2. Paired(h, g)'
  <2>1. FramesCoded' = FramesCoded
    BY <1>1 DEF FramesCoded, Encoding, FrameBegun, RatiosMoved
  <2> QED BY <1>1, <2>1, PairedKept DEF InStep
<1>3. CoderAt(h)'
  BY <1>1 DEF InStep, CoderAt, Encoding, FrameBegun, RatiosMoved, Track
<1>4. /\ received = Carried(packet[frame])
      /\ dec.LARpp = g[frame - 1].LARpp /\ dec.j = g[frame - 1].j
      /\ w = After(g[frame - 1].dp0, received, sub - 1)
  BY <1>1 DEF InStep, DecoderAt
<1>5. received.Nc[sub] \in 40 .. 120
  <2>1. Chain(g, P_CountFrameDataInPocket)
    BY <1>1 DEF InStep, Paired, FramesCoded, Encoding, FrameBegun, RatiosMoved
  <2> QED BY <1>4, <2>1 DEF Chain, StagesOK
<1>6. Nr = received.Nc[sub]
  BY <1>5 DEF ReceivedLag
<1>7. sub \in 1 .. 4
  BY DEF StagesOK
<1>8. Pushed(w, drp) = After(g[frame - 1].dp0, received, sub)
  <2>1. Pushed(w, drp) = AfterSubframe(w, received, sub)
    BY <1>6 DEF AfterSubframe
  <2> HIDE DEF drp, w
  <2> QED BY <1>4, <1>7, <2>1, AfterStep
<1> HIDE DEF w, Nr, drp
<1>9. dec'.dp0 = Pushed(w, drp) /\ dec'.LARpp = dec.LARpp /\ dec'.j = dec.j
  BY <1>1 DEF StagesOK, Whole
<1>10. DecoderAt(g)'
  <2>1. CASE sub = 4
    <3>1. pc' = "newratios" /\ dec'.dp0 = After(g[frame - 1].dp0, received, 4)
      BY <1>1, <1>8, <1>9, <2>1
    <3> QED BY ONLY <1>1, <1>4, <1>9, <3>1 DEF DecoderAt, Decoding
  <2>2. CASE sub < 4
    <3>1. pc' = "decode" /\ sub' - 1 = sub
      BY <1>1, <1>7, <2>2
    <3> QED BY ONLY <1>1, <1>4, <1>8, <1>9, <3>1 DEF DecoderAt, Decoding
  <2> QED BY <1>7, <2>1, <2>2
<1> QED BY <1>2, <1>3, <1>10 DEF InStep

\* The decoder takes up the ratios: one step of its chain is done.
LEMMA SynthesisRatiosFollow ==
  ASSUME StagesOK, NEW h, NEW g, InStep(h, g), SynthesisRatios
  PROVE  InStep(h, g)'
<1>1. /\ pc = "newratios" /\ pc' = "synthesis"
      /\ UNCHANGED <<frame, packet, gap, received, enc>>
      /\ dec' = NewRatios(dec, received.LARc)
  BY DEF SynthesisRatios, codervars, travelvars
<1>2. Paired(h, g)'
  <2>1. FramesCoded' = FramesCoded
    BY <1>1 DEF FramesCoded, Encoding, FrameBegun, RatiosMoved
  <2> QED BY <1>1, <2>1, PairedKept DEF InStep
<1>3. CoderAt(h)'
  BY <1>1 DEF InStep, CoderAt, Encoding, FrameBegun, RatiosMoved, Track
<1>4. /\ received = Carried(packet[frame])
      /\ dec.LARpp = g[frame - 1].LARpp /\ dec.j = g[frame - 1].j
      /\ dec.dp0 = After(g[frame - 1].dp0, received, 4)
  BY <1>1 DEF InStep, DecoderAt
<1>5. /\ dec'.dp0 = dec.dp0 /\ dec'.j = 1 - dec.j
      /\ dec'.LARpp = NewLARpp(dec, received.LARc)
  BY <1>1 DEF NewRatios, NewLARpp, StagesOK, Whole
<1>6. Track(dec') = FrameStep(g[frame - 1], received)
  BY ONLY <1>4, <1>5 DEF Track, FrameStep, NewLARpp
<1>7. g[frame] = FrameStep(g[frame - 1], received)
  <2>1. Chain(g, P_CountFrameDataInPocket)
    BY <1>1 DEF InStep, Paired, FramesCoded, Encoding, FrameBegun, RatiosMoved
  <2> QED BY <1>4, <2>1 DEF Chain, StagesOK
<1>8. DecoderAt(g)'
  BY ONLY <1>1, <1>6, <1>7 DEF DecoderAt, Decoding, Track
<1> QED BY <1>2, <1>3, <1>8 DEF InStep

\* The short-term filter of the decoder leaves history and ratios alone; after the last
\* frame both states are at the ends of their chains.
LEMMA SynthesisFollows ==
  ASSUME StagesOK, NEW h, NEW g, InStep(h, g), ShortTermSynthesis
  PROVE  /\ pc' # "idle" => InStep(h, g)'
         /\ pc' = "idle" => Followed'
<1> DEFINE v == SynthesisStages(Coefficients(dec), dec.v, wt[k])
           msr == GSM_ADD(v[0], GSM_MULT_R(dec.msr, 28180))
<1>1. /\ pc = "synthesis" /\ UNCHANGED <<packet, gap, enc>>
      /\ dec' = [dec EXCEPT !.v = v, !.msr = msr]
      /\ \/ UNCHANGED <<pc, frame>>
         \/ frame < P_CountFrameDataInPocket /\ frame' = frame + 1 /\ pc' = "unpack"
         \/ frame = P_CountFrameDataInPocket /\ pc' = "idle"
  BY FramesAssumption DEF ShortTermSynthesis, NextFrame, codervars, StagesOK
<1> HIDE DEF v, msr
<1>2. dec'.dp0 = dec.dp0 /\ dec'.LARpp = dec.LARpp /\ dec'.j = dec.j
  BY <1>1 DEF StagesOK, Whole
<1>3. /\ Track(dec') = g[frame] /\ Track(enc) = h[P_CountFrameDataInPocket]
      /\ Vec(enc.dp0, 120)
  BY <1>1, <1>2 DEF InStep, CoderAt, DecoderAt, Encoding, FrameBegun, RatiosMoved, Track
<1>4. CASE pc' # "idle"
  <2>1. Paired(h, g)'
    <3>1. FramesCoded' = FramesCoded
      BY <1>1, <1>4 DEF FramesCoded, Encoding, FrameBegun, RatiosMoved
    <3> QED BY <1>1, <3>1, PairedKept DEF InStep
  <2>2. CoderAt(h)'
    BY ONLY <1>1, <1>3, <1>4 DEF CoderAt, Encoding, FrameBegun, RatiosMoved, Track
  <2>3. DecoderAt(g)'
    <3>1. CASE pc' = "unpack"
      <4>1. frame' - 1 = frame
        BY <1>1, <3>1 DEF StagesOK
      <4> QED BY ONLY <1>3, <3>1, <4>1 DEF DecoderAt, Decoding, Track
    <3>2. CASE pc' = "synthesis" /\ frame' = frame
      BY ONLY <1>3, <3>2 DEF DecoderAt, Decoding, Track
    <3> QED BY <1>1, <1>4, <3>1, <3>2
  <2> QED BY <1>4, <2>1, <2>2, <2>3 DEF InStep
<1>5. CASE pc' = "idle"
  <2>1. frame = P_CountFrameDataInPocket
    BY <1>1, <1>5
  <2>2. P_CountFrameDataInPocket \in 0 .. FramesCoded
    BY <1>1, FramesAssumption DEF FramesCoded, Encoding, FrameBegun, RatiosMoved
  <2>3. Near(h[P_CountFrameDataInPocket], g[P_CountFrameDataInPocket], P_CountFrameDataInPocket)
    BY <2>2 DEF InStep, Paired
  <2>4. Near(Track(enc), Track(dec'), P_CountFrameDataInPocket)
    BY ONLY <1>3, <2>1, <2>3
  <2>5. PICK t, u : t = Track(enc) /\ u = Track(dec') /\ Near(t, u, P_CountFrameDataInPocket)
    BY ONLY <2>4
  <2>6. t = Track(enc') /\ u = Track(dec') /\ gap' = gap
    BY <1>1, <2>5
  <2>7. Near(t, u, P_CountFrameDataInPocket)'
    BY ONLY <2>5, <2>6 DEF Near
  <2> QED BY ONLY <1>5, <2>6, <2>7 DEF Followed
<1> QED BY <1>4, <1>5

-----------------------------------------------------------------------------
(* And so the decoder follows the coder. *)

\* At first nothing has been coded, and nothing waits.
LEMMA FollowInit == GsmInit => FollowInv
<1> SUFFICES ASSUME GsmInit PROVE FollowInv
  OBVIOUS
<1>1. /\ pc = "idle" /\ fate = "none" /\ gap = 0 /\ count = 0 /\ next = 0 /\ Buffer!Init
  BY DEF GsmInit
<1>2. BufferOK
  BY <1>1 DEF Buffer!Init, Buffer!Slot, BufferOK
<1>3. FateOK
  BY <1>1 DEF FateOK, Encoding, FrameBegun, RatiosMoved
<1> QED BY <1>1, <1>2, <1>3 DEF FollowInv, Decoding

\* What the other steps leave alone of the packet and of the listener's buffer.
LEMMA BufferKept ==
  ASSUME FollowInv, Encode \/ Travel \/ Decode,
         ~Record, ~Pack, ~RestartMic, ~Accept, ~Discard, ~Poll, ~NewListener
  PROVE  /\ UNCHANGED <<next, count, gap, audioBuf, lastBufCount>>
         /\ pc \in Decoding <=> Decode
         /\ pc' \in Encoding <=> pc \in Encoding
         /\ pc' \in Decoding => pc \in Decoding
         /\ \/ fate' = fate /\ pc # "idle" /\ pc' # "idle"
            \/ Replace /\ fate' = "other" /\ pc' = "idle"
            \/ Decode /\ pc' = "idle" /\ fate' = IF fate = "coded" THEN "decoded" ELSE fate
<1> USE DEF travelvars, buffervars, Encoding, FrameBegun, RatiosMoved, Decoding
<1>1. CASE Encode
  <2>1. pc \in Encoding
    BY <1>1 DEF Encode, Preprocess, LpcAnalysis, AnalysisRatios, ShortTermAnalysis,
                LongTermPredictor, RpeEncoding
  <2>2. Decode => pc \in Decoding
    BY DEF Decode, Refuse, Unpack, DecodeSubframe, SynthesisRatios, ShortTermSynthesis
  <2> QED
    BY <1>1, <2>1, <2>2 DEF Encode, Preprocess, LpcAnalysis, AnalysisRatios, ShortTermAnalysis,
                      LongTermPredictor, RpeEncoding
<1>2. CASE Replace
  <2>1. pc = "idle" /\ ~Decode
    BY <1>2 DEF Replace, OnItsWay, Decode, Refuse, Unpack, DecodeSubframe, SynthesisRatios,
                ShortTermSynthesis
  <2> QED BY <1>2, <2>1 DEF Replace
<1>3. CASE Decode
  BY <1>3 DEF Decode, Refuse, NextFrame, Unpack, DecodeSubframe, SynthesisRatios,
              ShortTermSynthesis
<1> QED BY <1>1, <1>2, <1>3 DEF Travel

\* The buffer's part of it, and the order of the packet's fates.
LEMMA FateNext ==
  ASSUME FollowInv, StagesOK, Encode \/ Travel \/ Decode
  PROVE  FateOK' /\ BufferOK' /\ (pc' \in Decoding \/ fate' = "decoded" => Known')
<1> USE DEF Encoding, FrameBegun, RatiosMoved, Decoding
<1>1. CASE Record
  BY <1>1 DEF Record, buffervars, FollowInv, FateOK, BufferOK
<1>2. CASE Pack
  <2>1. /\ pc' \in {"idle", "preprocess"} /\ fate' = fate /\ fate = "coded"
        /\ UNCHANGED <<audioBuf, lastBufCount>>
        /\ UNCHANGED <<next, count>> \/ (count' = next /\ next' = next + 1)
    BY <1>2 DEF Pack, buffervars, FollowInv, FateOK
  <2> QED BY <2>1 DEF FollowInv, FateOK, BufferOK
<1>3. CASE RestartMic
  BY <1>3 DEF RestartMic, Spoiled, buffervars, FollowInv, FateOK, BufferOK
<1>4. CASE Accept
  <2>1. fate # "decoded" /\ fate' = fate /\ pc' = "unpack"
    BY <1>4, AcceptKnows DEF Accept, travelvars, FollowInv
  <2> QED BY <1>4, <2>1, AcceptKnows DEF FollowInv, FateOK
<1>5. CASE Discard \/ Poll
  <2>1. UNCHANGED <<pc, fate>> /\ pc = "idle"
    BY <1>5 DEF Discard, Poll, OnItsWay, travelvars
  <2> QED BY <1>5, <2>1, ListenKeeps DEF FollowInv, FateOK
<1>6. CASE NewListener
  <2>1. /\ pc' = "idle" /\ fate' = Spoiled /\ UNCHANGED <<next, count>> /\ lastBufCount' = 0
        /\ audioBuf' = [i \in Buffer!Slot |-> [use |-> 0, count |-> 0, bufData |-> "silence"]]
    BY <1>6 DEF NewListener
  <2> QED BY <2>1 DEF Spoiled, FollowInv, FateOK, BufferOK
<1>7. CASE ~(Record \/ Pack \/ RestartMic \/ Accept \/ Discard \/ Poll \/ NewListener)
  <2>1. /\ UNCHANGED <<next, count, audioBuf, lastBufCount>>
        /\ pc \in Decoding <=> Decode
        /\ pc' \in Encoding <=> pc \in Encoding
        /\ pc' \in Decoding => pc \in Decoding
        /\ \/ fate' = fate /\ pc # "idle" /\ pc' # "idle"
           \/ Replace /\ fate' = "other" /\ pc' = "idle"
           \/ Decode /\ pc' = "idle" /\ fate' = IF fate = "coded" THEN "decoded" ELSE fate
    BY <1>7, BufferKept
  <2>2. BufferOK' /\ (Known => Known')
    BY ONLY <2>1, FollowInv DEF FollowInv, BufferOK, Known
  <2>3. FateOK /\ (pc \in Decoding \/ fate = "decoded" => Known)
    BY DEF FollowInv
  <2>4. FateOK'
    BY ONLY <2>1, <2>3, StagesOK DEF FateOK
  <2> QED BY <2>1, <2>2, <2>3, <2>4
<1> QED BY <1>1, <1>2, <1>3, <1>4, <1>5, <1>6, <1>7

\* Every step keeps the two on their chains, or spoils the packet.
LEMMA FollowNext ==
  ASSUME FollowInv, AssertsInv, [Encode \/ Travel \/ Decode]_gsmvars
  PROVE  FollowInv'
<1>1. StagesOK /\ CodecAsserts /\ FrameRoundTrip
  <2>1. StagesOK
    BY DEF AssertsInv, OffsetInv
  <2> QED BY <2>1, AssertsInvImplies, RoundTripOfInv
<1>2. CASE UNCHANGED gsmvars
  <2>1. UNCHANGED <<pc, frame, sub, par, dpp, enc, dec, received, packet, fate, gap, next, count,
                    audioBuf, lastBufCount>>
    BY <1>2 DEF gsmvars, codervars, travelvars, buffervars, decodervars
  <2>2. ASSUME NEW h, NEW g, InStep(h, g) PROVE InStep(h, g)'
    BY ONLY <2>1, <2>2 DEF InStep, Paired, Near, CoderAt, DecoderAt, Chain, FramesCoded, Track
  <2>3. FateOK' = FateOK /\ BufferOK' = BufferOK /\ Known' = Known
    BY ONLY <2>1 DEF FateOK, BufferOK, Known
  <2>4. Followed => Followed'
    BY ONLY <2>1 DEF Followed, Near, Track
  <2> QED BY <2>1, <2>2, <2>3, <2>4 DEF FollowInv
<1>3. CASE Encode \/ Travel \/ Decode
  <2>1. FateOK' /\ BufferOK' /\ (pc' \in Decoding \/ fate' = "decoded" => Known')
    BY <1>1, <1>3, FateNext
  <2>2. SUFFICES /\ gap' \in Nat
                 /\ fate' = "coded" => \E h, g : InStep(h, g)'
                 /\ fate' = "decoded" => Followed'
    BY <2>1 DEF FollowInv
  <2>3. gap \in Nat /\ FateOK
    BY DEF FollowInv
  <2>4. CASE Record
    BY <2>4, RecordFollows DEF Record
  <2>5. CASE RestartMic \/ NewListener \/ Replace
    BY <2>3, <2>5 DEF RestartMic, NewListener, Replace, Spoiled, travelvars
  <2>6. CASE Discard \/ Poll
    <3>1. pc = "idle" /\ pc' = "idle" /\ UNCHANGED <<packet, gap, fate, enc, dec>>
      BY <2>6 DEF Discard, Poll, OnItsWay, codervars, decodervars, travelvars
    <3>2. fate' = "coded" => \E h, g : InStep(h, g)'
      BY <1>1, <3>1, IdleFollows DEF FollowInv
    <3>3. fate' = "decoded" => Followed'
      <4>1. fate = "decoded" => Followed
        BY DEF FollowInv
      <4> QED BY ONLY <3>1, <4>1 DEF Followed, Near, Track
    <3> QED BY <2>3, <3>1, <3>2, <3>3
  <2>7. CASE Accept
    <3>1. fate' = fate /\ gap' = gap /\ fate # "decoded"
      BY <2>7, AcceptKnows DEF Accept, travelvars, FollowInv
    <3> QED BY <1>1, <2>3, <2>7, <3>1, AcceptFollows DEF FollowInv
  <2>8. CASE Encode /\ ~Record /\ ~RestartMic
    <3>1. fate' = fate /\ gap' = gap /\ fate = "coded"
      BY <2>3, <2>8 DEF Encode, Preprocess, LpcAnalysis, AnalysisRatios, ShortTermAnalysis,
         LongTermPredictor, RpeEncoding, Pack, travelvars, FateOK, Encoding, FrameBegun, RatiosMoved
    <3>2. PICK h, g : InStep(h, g)
      BY <3>1 DEF FollowInv
    <3>3. \E h2, g2 : InStep(h2, g2)'
      BY <1>1, <2>3, <2>8, <3>2, BeginsFollow, AnalysisRatiosFollow, AnalysisFollows,
         LongTermFollows, RpeFollows, PackFollows DEF Encode
    <3> QED BY <2>3, <3>1, <3>3
  <2>9. CASE Decode
    <3>1. /\ gap' = gap /\ pc # "idle" /\ fate # "decoded"
          /\ \/ fate' = fate /\ pc' # "idle"
             \/ pc' = "idle" /\ fate' = IF fate = "coded" THEN "decoded" ELSE fate
      BY <2>3, <2>9 DEF Decode, Refuse, NextFrame, Unpack, DecodeSubframe, SynthesisRatios,
                        ShortTermSynthesis, travelvars, FateOK
    <3>2. CASE fate # "coded"
      BY <2>3, <3>1, <3>2
    <3>3. CASE fate = "coded"
      <4>1. PICK h, g : InStep(h, g)
        BY <3>3 DEF FollowInv
      <4>2. CASE ShortTermSynthesis
        BY <1>1, <2>3, <3>1, <3>3, <4>1, <4>2, SynthesisFollows
      <4>3. CASE Unpack \/ DecodeSubframe \/ SynthesisRatios
        <5>1. InStep(h, g)'
          BY <1>1, <4>1, <4>3, UnpackFollows, DecodeSubframeFollows, SynthesisRatiosFollow
        <5>2. pc' # "idle"
          BY <4>3 DEF Unpack, DecodeSubframe, SynthesisRatios
        <5> QED BY <2>3, <3>1, <3>3, <5>1, <5>2
      <4> QED BY <1>1, <2>9, <4>1, <4>2, <4>3, RefuseFollows DEF Decode
    <3> QED BY <3>2, <3>3
  <2> QED BY <1>3, <2>4, <2>5, <2>6, <2>7, <2>8, <2>9 DEF Encode, Travel
<1> QED BY <1>2, <1>3

\* Near, at the end of a packet, is what the property asks for.
LEMMA FollowInvImplies == FollowInv /\ AssertsInv => DecoderFollowsCoder
<1> SUFFICES ASSUME FollowInv, AssertsInv, pc = "idle", fate = "decoded"
             PROVE  /\ Distance(enc.dp0, dec.dp0) <= gap
                    /\ dec.LARpp[1 - dec.j] = enc.LARpp[1 - enc.j]
                    /\ P_CountFrameDataInPocket > 1 => dec.LARpp[dec.j] = enc.LARpp[enc.j]
  BY DEF DecoderFollowsCoder
<1>1. Followed /\ gap \in Nat
  BY DEF FollowInv
<1>2. PICK n \in Nat \ {0} : n = P_CountFrameDataInPocket
  BY FramesAssumption
<1>3. /\ Within(enc.dp0, dec.dp0, gap)
      /\ n >= 1 => enc.LARpp[1 - enc.j] = dec.LARpp[1 - dec.j]
      /\ n >= 2 => enc.LARpp[enc.j] = dec.LARpp[dec.j]
  BY ONLY <1>1, <1>2 DEF Followed, Near, Track
<1>4. Distance(enc.dp0, dec.dp0) <= gap
  BY <1>1, <1>3, DistanceIs DEF Within
<1>5. n >= 1 /\ (n > 1 => n >= 2)
  BY ONLY n \in Nat \ {0}
<1> QED BY ONLY <1>2, <1>3, <1>4, <1>5

\* A packet that the listener accepted takes its decoder no farther from the speaker's coder,
\* whatever was recorded, lost, dropped or replaced before, whoever started anew, and however
\* playback empties the buffer.
THEOREM DecoderAlwaysFollows == GsmSpec => []DecoderFollowsCoder
<1>1. AssertsInv /\ [Encode \/ Travel \/ Decode]_gsmvars => AssertsInv'
  BY AssertsNext
<1>2. FollowInv /\ AssertsInv /\ [Encode \/ Travel \/ Decode]_gsmvars => FollowInv'
  BY FollowNext
<1> QED BY <1>1, <1>2, AssertsInit, FollowInit, FollowInvImplies, PTL DEF GsmSpec

=============================================================================

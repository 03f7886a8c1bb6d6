------------------------------ MODULE GsmLemmas ------------------------------
(***************************************************************************)
(* What the functions of the codec return, for every argument: that the    *)
(* words of a frame come out of it as they went in, that the parameters    *)
(* of a frame fit their fields and satisfy the asserts of lpc.c,           *)
(* long_term.c and rpe.c, and that what one stage leaves is what the next  *)
(* one expects.  A loop of the code is a recursive function here; what it  *)
(* leads to is shown with sets of the states that each of its rounds may   *)
(* leave.                                                                  *)
(***************************************************************************)
EXTENDS GsmShortTerm, GsmLongTerm, GsmRpe, GsmFrame, TLAPS, SequenceTheorems,
        WellFoundedInduction

-----------------------------------------------------------------------------
(* Sets and sums of numbers. *)

\* A set of naturals that holds something holds a smallest.
LEMMA LeastOf ==
  ASSUME NEW T \in SUBSET Nat, T # {}
  PROVE  \E x \in T : \A y \in T : x <= y
<1> DEFINE R == OpToRel(<, Nat)
<1>1. \A x, y \in Nat : y < x => <<y, x>> \in R
  BY DEF OpToRel
<1> HIDE DEF R
<1>2. IsWellFoundedOn(R, Nat)
  BY NatLessThanWellFounded DEF R
<1>3. \E x \in T : \A y \in T : ~ (<<y, x>> \in R)
  <2>1. T \subseteq Nat
    OBVIOUS
  <2>2. T # {}
    OBVIOUS
  <2> QED BY ONLY <1>2, <2>1, <2>2, WFMin, Zenon
<1>4. PICK x \in T : \A y \in T : ~ (<<y, x>> \in R)
  BY <1>3
<1>5. ASSUME NEW y \in T PROVE x <= y
  <2>1. x \in Nat /\ y \in Nat /\ ~ (<<y, x>> \in R)
    BY <1>4, <1>5
  <2>2. ~ (y < x)
    BY ONLY <1>1, <2>1
  <2> QED BY ONLY <2>1, <2>2
<1> QED BY <1>5

\* Induction, for a set.
LEMMA AllOf ==
  ASSUME NEW T \in SUBSET Nat, 0 \in T, \A n \in T : n + 1 \in T
  PROVE  \A n \in Nat : n \in T
<1> DEFINE Rest == {n \in Nat : n \notin T}
<1> SUFFICES ASSUME Rest # {} PROVE FALSE
  OBVIOUS
<1>1. Rest \in SUBSET Nat
  OBVIOUS
<1>2. PICK x \in Rest : \A y \in Rest : x <= y
  BY <1>1, LeastOf
<1>3. x # 0 /\ x - 1 \in Nat
  BY <1>2
<1>4. x - 1 \in T
  BY <1>2, <1>3
<1> QED BY <1>2, <1>3, <1>4

\* Finitely many integers have a greatest.
LEMMA GreatestOf ==
  ASSUME NEW N \in Nat \ {0}, NEW f \in [1 .. N -> Int]
  PROVE  \E i \in 1 .. N : \A j \in 1 .. N : f[i] >= f[j]
<1> DEFINE T == {n \in Nat : n + 1 <= N => \E i \in 1 .. n + 1 : \A j \in 1 .. n + 1 : f[i] >= f[j]}
<1>1. 0 \in T
  OBVIOUS
<1>2. \A n \in T : n + 1 \in T
  <2> TAKE n \in T
  <2> SUFFICES ASSUME n + 2 <= N
               PROVE  \E i \in 1 .. n + 2 : \A j \in 1 .. n + 2 : f[i] >= f[j]
    OBVIOUS
  <2>1. PICK i \in 1 .. n + 1 : \A j \in 1 .. n + 1 : f[i] >= f[j]
    OBVIOUS
  <2>2. f[i] \in Int /\ f[n + 2] \in Int
    OBVIOUS
  <2>3. CASE f[i] >= f[n + 2]
    BY <2>1, <2>3
  <2>4. CASE f[n + 2] > f[i]
    <3>1. \A j \in 1 .. n + 2 : f[n + 2] >= f[j]
      BY <2>1, <2>2, <2>4
    <3> QED BY <3>1
  <2> QED BY <2>2, <2>3, <2>4
<1>3. N - 1 \in T
  <2>1. T \in SUBSET Nat
    OBVIOUS
  <2>2. N - 1 \in Nat
    OBVIOUS
  <2> HIDE DEF T
  <2>3. \A n \in Nat : n \in T
    BY ONLY <1>1, <1>2, <2>1, AllOf
  <2> QED BY ONLY <2>2, <2>3
<1> QED BY <1>3

\* So the library's maximum of them is one of them, and no less than any.
LEMMA MaxOf ==
  ASSUME NEW N \in Nat \ {0}, NEW f \in [1 .. N -> Int]
  PROVE  /\ \E i \in 1 .. N : Max({f[j] : j \in 1 .. N}) = f[i]
         /\ \A i \in 1 .. N : Max({f[j] : j \in 1 .. N}) >= f[i]
<1> DEFINE S == {f[j] : j \in 1 .. N}
<1>1. PICK i \in 1 .. N : \A j \in 1 .. N : f[i] >= f[j]
  BY GreatestOf
<1>2. f[i] \in S /\ \A y \in S : f[i] >= y
  BY <1>1
<1>3. Max(S) \in S /\ \A y \in S : Max(S) >= y
  BY <1>2 DEF Max
<1> QED BY <1>3

\* And its minimum of some naturals is one of them.
LEMMA MinOf ==
  ASSUME NEW S \in SUBSET Nat, S # {}
  PROVE  Min(S) \in S
BY LeastOf DEF Min

\* Partial sums of some integers.
LEMMA PartialSums ==
  ASSUME NEW N \in Nat, NEW term \in [1 .. N -> Int]
  PROVE  \E p \in [0 .. N -> Int] : p[0] = 0 /\ \A i \in 1 .. N : p[i] = p[i - 1] + term[i]
<1> DEFINE Sums(n) == n <= N =>
                        \E p \in [0 .. n -> Int] :
                          p[0] = 0 /\ \A i \in 1 .. n : p[i] = p[i - 1] + term[i]
           T == {n \in Nat : Sums(n)}
<1>1. 0 \in T
  <2>1. \E p \in [0 .. 0 -> Int] : p[0] = 0 /\ \A i \in 1 .. 0 : p[i] = p[i - 1] + term[i]
    <3> DEFINE q == [i \in 0 .. 0 |-> 0]
    <3>1. q \in [0 .. 0 -> Int] /\ q[0] = 0
      OBVIOUS
    <3>2. \A i \in 1 .. 0 : q[i] = q[i - 1] + term[i]
      OBVIOUS
    <3> HIDE DEF q
    <3> QED BY <3>1, <3>2
  <2> QED BY <2>1
<1>2. \A n \in T : n + 1 \in T
  <2>1. ASSUME NEW n \in Nat, Sums(n) PROVE Sums(n + 1)
    <3>1. SUFFICES ASSUME n + 1 <= N
                   PROVE  \E p \in [0 .. n + 1 -> Int] :
                            p[0] = 0 /\ \A i \in 1 .. n + 1 : p[i] = p[i - 1] + term[i]
      OBVIOUS
    <3>2. PICK p \in [0 .. n -> Int] : p[0] = 0 /\ \A i \in 1 .. n : p[i] = p[i - 1] + term[i]
      BY <2>1, <3>1
    <3> DEFINE q == [i \in 0 .. n + 1 |-> IF i <= n THEN p[i] ELSE p[n] + term[n + 1]]
    <3>3. term[n + 1] \in Int /\ p[n] \in Int
      BY <3>1
    <3>4. q \in [0 .. n + 1 -> Int] /\ q[0] = 0
      BY <3>2, <3>3
    <3>5. \A i \in 1 .. n + 1 : q[i] = q[i - 1] + term[i]
      <4> TAKE i \in 1 .. n + 1
      <4>1. CASE i <= n
        BY <3>2, <4>1
      <4>2. CASE i = n + 1
        BY <4>2
      <4> QED BY <4>1, <4>2
    <3> HIDE DEF q
    <3> QED BY <3>4, <3>5
  <2> HIDE DEF Sums
  <2> QED BY <2>1
<1>3. N \in T
  <2>1. T \in SUBSET Nat
    OBVIOUS
  <2> HIDE DEF T
  <2>2. \A n \in Nat : n \in T
    BY ONLY <1>1, <1>2, <2>1, AllOf
  <2> QED BY ONLY <2>2, N \in Nat
<1> QED BY <1>3

\* The halves add up to the last of them.
LEMMA SumIs ==
  ASSUME NEW N \in Nat \ {0}, NEW term \in [1 .. N -> Int],
         NEW p \in [0 .. N -> Int], p[0] = 0, \A i \in 1 .. N : p[i] = p[i - 1] + term[i]
  PROVE  SumOf(N, term) = p[N]
<1> DEFINE Pairs == (1 .. N) \X (1 .. N)
           Halves(f, lo, hi) == IF lo = hi THEN term[lo]
                                ELSE f[<<lo, (lo + hi) \div 2>>] + f[<<(lo + hi) \div 2 + 1, hi>>]
           All(f) == [span \in Pairs |-> Halves(f, span[1], span[2])]
           sum == CHOOSE f : f = All(f)
           g == [span \in Pairs |-> p[span[2]] - p[span[1] - 1]]
<1>1. \A lo, hi \in 1 .. N : lo # hi =>
        (lo + hi) \div 2 \in 1 .. N /\ (lo + hi) \div 2 + 1 \in 1 .. N
  OBVIOUS
<1>2. \A lo, hi \in 1 .. N : g[<<lo, hi>>] = p[hi] - p[lo - 1]
  OBVIOUS
<1>3. ASSUME NEW lo \in 1 .. N, NEW hi \in 1 .. N
      PROVE  g[<<lo, hi>>] = Halves(g, lo, hi)
  <2>1. CASE lo = hi
    <3>1. p[lo] = p[lo - 1] + term[lo] /\ p[lo - 1] \in Int /\ term[lo] \in Int
      OBVIOUS
    <3> HIDE DEF g
    <3> QED BY <1>2, <2>1, <3>1
  <2>2. CASE lo # hi
    <3>1. PICK m, m1 \in 1 .. N : m = (lo + hi) \div 2 /\ m1 = m + 1 /\ m1 - 1 = m
      BY <1>1, <2>2
    <3>2. g[<<lo, m>>] = p[m] - p[lo - 1] /\ g[<<m1, hi>>] = p[hi] - p[m]
      <4> HIDE DEF g
      <4>1. g[<<lo, m>>] = p[m] - p[lo - 1] /\ g[<<m1, hi>>] = p[hi] - p[m1 - 1]
        BY <1>2
      <4> QED BY <3>1, <4>1
    <3>3. p[m] \in Int /\ p[lo - 1] \in Int /\ p[hi] \in Int
      OBVIOUS
    <3>4. Halves(g, lo, hi) = g[<<lo, m>>] + g[<<m1, hi>>]
      BY <2>2, <3>1
    <3>5. g[<<lo, hi>>] = p[hi] - p[lo - 1]
      BY <1>2
    <3> HIDE DEF g, Halves
    <3>6. \A x, y, z \in Int : x - y = (z - y) + (x - z)
      OBVIOUS
    <3>7. p[hi] - p[lo - 1] = (p[m] - p[lo - 1]) + (p[hi] - p[m])
      BY ONLY <3>3, <3>6
    <3> QED BY ONLY <3>2, <3>4, <3>5, <3>7
  <2> QED BY <2>1, <2>2
<1>4. g = All(g)
  <2> HIDE DEF g, Halves
  <2>1. \A span \in Pairs : g[span] = Halves(g, span[1], span[2])
    BY <1>3
  <2>2. g = [span \in Pairs |-> g[span]]
    BY DEF g
  <2> QED BY <2>1, <2>2
<1>5. sum = All(sum)
  <2> HIDE DEF g, All
  <2> QED BY <1>4
<1>6. SumOf(N, term) = sum[<<1, N>>]
  BY DEF SumOf
<1>7. ASSUME NEW lo \in 1 .. N, NEW hi \in 1 .. N
      PROVE  sum[<<lo, hi>>] = Halves(sum, lo, hi)
  <2> HIDE DEF sum, Halves
  <2>1. <<lo, hi>> \in Pairs
    OBVIOUS
  <2> QED BY <1>5, <2>1
<1> DEFINE Spans(n) == \A lo, hi \in 1 .. N :
                         0 <= hi - lo /\ hi - lo <= n => sum[<<lo, hi>>] = p[hi] - p[lo - 1]
           T == {n \in Nat : Spans(n)}
<1> HIDE DEF sum
<1>8. 0 \in T
  <2>1. ASSUME NEW lo \in 1 .. N, NEW hi \in 1 .. N, 0 <= hi - lo, hi - lo <= 0
        PROVE  sum[<<lo, hi>>] = p[hi] - p[lo - 1]
    <3>1. lo = hi /\ p[lo] = p[lo - 1] + term[lo] /\ p[lo - 1] \in Int /\ term[lo] \in Int
      BY <2>1
    <3>2. sum[<<lo, hi>>] = term[lo]
      BY <1>7, <3>1
    <3> QED BY <3>1, <3>2
  <2> QED BY <2>1
<1>9. \A n \in T : n + 1 \in T
  <2>1. ASSUME NEW n \in Nat, Spans(n) PROVE Spans(n + 1)
    <3>1. SUFFICES ASSUME NEW lo \in 1 .. N, NEW hi \in 1 .. N, 0 <= hi - lo, hi - lo <= n + 1
                   PROVE  sum[<<lo, hi>>] = p[hi] - p[lo - 1]
      OBVIOUS
    <3>2. \A l, h \in 1 .. N : 0 <= h - l /\ h - l <= n => sum[<<l, h>>] = p[h] - p[l - 1]
      BY <2>1
    <3>3. CASE lo = hi
      BY <1>8, <3>3
    <3>4. CASE lo # hi
      <4>1. PICK m, m1 \in 1 .. N : m = (lo + hi) \div 2 /\ m1 = m + 1 /\ m1 - 1 = m
        BY <1>1, <3>4
      <4>2. sum[<<lo, hi>>] = sum[<<lo, m>>] + sum[<<m1, hi>>]
        BY <1>7, <3>4, <4>1
      <4>3. 0 <= m - lo /\ m - lo <= n /\ 0 <= hi - m1 /\ hi - m1 <= n
        BY <3>1, <3>4, <4>1
      <4>4. sum[<<lo, m>>] = p[m] - p[lo - 1] /\ sum[<<m1, hi>>] = p[hi] - p[m1 - 1]
        BY ONLY <3>2, <4>3
      <4>5. p[m] \in Int /\ p[lo - 1] \in Int /\ p[hi] \in Int
        OBVIOUS
      <4>6. \A x, y, z \in Int : x - y = (z - y) + (x - z)
        OBVIOUS
      <4>7. p[hi] - p[lo - 1] = (p[m] - p[lo - 1]) + (p[hi] - p[m])
        BY ONLY <4>5, <4>6
      <4> QED BY ONLY <4>1, <4>2, <4>4, <4>7
    <3> QED BY <3>3, <3>4
  <2> HIDE DEF Spans
  <2> QED BY <2>1
<1>10. N \in T
  <2>1. T \in SUBSET Nat
    OBVIOUS
  <2> HIDE DEF T
  <2>2. \A n \in Nat : n \in T
    BY ONLY <1>8, <1>9, <2>1, AllOf
  <2> QED BY ONLY <2>2, N \in Nat \ {0}
<1>11. sum[<<1, N>>] = p[N] - p[0]
  <2>1. Spans(N)
    BY <1>10
  <2>2. 1 \in 1 .. N /\ N \in 1 .. N /\ 0 <= N - 1 /\ N - 1 <= N /\ 1 - 1 = 0
    OBVIOUS
  <2> QED BY ONLY <2>1, <2>2
<1> QED BY <1>6, <1>11

\* So it is an integer.
LEMMA SumIsInt ==
  ASSUME NEW N \in Nat \ {0}, NEW term \in [1 .. N -> Int]
  PROVE  SumOf(N, term) \in Int
<1>1. PICK p \in [0 .. N -> Int] : p[0] = 0 /\ \A i \in 1 .. N : p[i] = p[i - 1] + term[i]
  BY PartialSums
<1>2. SumOf(N, term) = p[N]
  BY <1>1, SumIs
<1> QED BY <1>2

-----------------------------------------------------------------------------
(* Sequences of n elements, of whatever kind. *)

\* x has exactly the places 1 .. n, whatever they hold.
Vec(x, n) == x = [i \in 1 .. n |-> x[i]]

\* As a sequence, of whatever it holds.
LEMMA VecIsSeq ==
  ASSUME NEW n \in Nat, NEW x, Vec(x, n)
  PROVE  \E S : x \in Seq(S) /\ Len(x) = n /\ DOMAIN x = 1 .. n
<1> DEFINE S == {x[i] : i \in 1 .. n}
<1>1. DOMAIN x = 1 .. n
  BY DEF Vec
<1>2. x \in [1 .. n -> S]
  BY DEF Vec
<1>3. x \in Seq(S)
  BY <1>2
<1>4. Len(x) = n
  BY <1>1, <1>3
<1> QED BY <1>1, <1>3, <1>4

\* Every sequence is one.
LEMMA SeqIsVec ==
  ASSUME NEW S, NEW x \in Seq(S)
  PROVE  Vec(x, Len(x))
BY DEF Vec

\* Two are equal when they agree in every place.
LEMMA VecEqual ==
  ASSUME NEW n, NEW x, Vec(x, n), NEW y, Vec(y, n), \A i \in 1 .. n : x[i] = y[i]
  PROVE  x = y
BY DEF Vec

\* Names that the provers do not see through.
Cat(x, y) == x \o y
Cut(x, lo, hi) == SubSeq(x, lo, hi)
Longer(x, y) == Append(x, y)

\* One behind the other.
LEMMA VecCat ==
  ASSUME NEW m \in Nat, NEW n \in Nat, NEW l \in Nat, l = m + n,
         NEW x, Vec(x, m), NEW y, Vec(y, n)
  PROVE  /\ Vec(Cat(x, y), l)
         /\ \A i \in 1 .. l : Cat(x, y)[i] = IF i <= m THEN x[i] ELSE y[i - m]
<1>1. PICK S : x \in Seq(S) /\ Len(x) = m
  BY VecIsSeq
<1>2. PICK T : y \in Seq(T) /\ Len(y) = n
  BY VecIsSeq
<1>3. x \in Seq(S \cup T) /\ y \in Seq(S \cup T)
  BY <1>1, <1>2
<1>4. x \o y \in Seq(S \cup T) /\ Len(x \o y) = l
  BY <1>1, <1>2, <1>3, ConcatProperties
<1>5. \A i \in 1 .. l : (x \o y)[i] = IF i <= m THEN x[i] ELSE y[i - m]
  BY <1>1, <1>2, <1>3, ConcatProperties
<1> QED BY <1>4, <1>5, SeqIsVec DEF Cat

\* A part of one.
LEMMA VecCut ==
  ASSUME NEW n \in Nat, NEW x, Vec(x, n), NEW lo \in Nat \ {0}, NEW hi \in Nat,
         NEW l \in Nat, hi = lo + l - 1, hi <= n
  PROVE  /\ Vec(Cut(x, lo, hi), l)
         /\ \A i \in 1 .. l : Cut(x, lo, hi)[i] = x[lo + i - 1]
<1>1. PICK S : x \in Seq(S) /\ Len(x) = n
  BY VecIsSeq
<1> DEFINE y == SubSeq(x, lo, hi)
<1>2. y \in Seq(S) /\ Len(y) = l /\ \A i \in 1 .. l : y[i] = x[lo + i - 1]
  BY <1>1
<1> QED BY <1>2, SeqIsVec DEF Cut

\* One element more.
LEMMA VecAppend ==
  ASSUME NEW n \in Nat, NEW x, Vec(x, n), NEW y, NEW m, m = n + 1
  PROVE  /\ Vec(Longer(x, y), m)
         /\ \A i \in 1 .. n : Longer(x, y)[i] = x[i]
         /\ Longer(x, y)[m] = y
<1>1. PICK S : x \in Seq(S) /\ Len(x) = n
  BY VecIsSeq
<1>2. x \in Seq(S \cup {y}) /\ y \in S \cup {y}
  BY <1>1
<1>3. /\ Append(x, y) \in Seq(S \cup {y}) /\ Len(Append(x, y)) = m
      /\ \A i \in 1 .. n : Append(x, y)[i] = x[i]
      /\ Append(x, y)[m] = y
  BY <1>1, <1>2, AppendProperties
<1> QED BY <1>3, SeqIsVec DEF Longer

\* What the model computes once for TLC is still the same.
LEMMA VecArray ==
  ASSUME NEW n \in Nat, NEW x, Vec(x, n)
  PROVE  Array(x) = x
<1>1. PICK S : x \in Seq(S) /\ Len(x) = n
  BY VecIsSeq
<1> QED BY <1>1, ConcatEmptySeq DEF Array

-----------------------------------------------------------------------------
(* The bits of a frame. *)

\* The powers of two of a byte.
LEMMA Powers ==
  /\ 2^0 = 1 /\ 2^1 = 2 /\ 2^2 = 4 /\ 2^3 = 8 /\ 2^4 = 16
  /\ 2^5 = 32 /\ 2^6 = 64 /\ 2^7 = 128 /\ 2^8 = 256
OBVIOUS

\* Each is twice the one before.
LEMMA PowerStep ==
  ASSUME NEW n \in 0 .. 7
  PROVE  /\ 2^n \in {1, 2, 4, 8, 16, 32, 64, 128}
         /\ 2^(n + 1) = 2 * 2^n
<1>1. n \in {0, 1, 2, 3, 4, 5, 6, 7}
  OBVIOUS
<1>2. CASE n = 0 BY <1>2, Powers
<1>3. CASE n = 1 BY <1>3, Powers
<1>4. CASE n = 2 BY <1>4, Powers
<1>5. CASE n = 3 BY <1>5, Powers
<1>6. CASE n = 4 BY <1>6, Powers
<1>7. CASE n = 5 BY <1>7, Powers
<1>8. CASE n = 6 BY <1>8, Powers
<1>9. CASE n = 7 BY <1>9, Powers
<1> QED BY <1>1, <1>2, <1>3, <1>4, <1>5, <1>6, <1>7, <1>8, <1>9

\* One bit more of a value.
LEMMA BitStep ==
  ASSUME NEW v \in Nat, NEW q \in {1, 2, 4, 8, 16, 32, 64, 128}
  PROVE  (v \div (2 * q)) * (2 * q) + ((v \div q) % 2) * q = (v \div q) * q
<1>1. CASE q = 1 BY <1>1
<1>2. CASE q = 2 BY <1>2
<1>3. CASE q = 4 BY <1>3
<1>4. CASE q = 8 BY <1>4
<1>5. CASE q = 16 BY <1>5
<1>6. CASE q = 32 BY <1>6
<1>7. CASE q = 64 BY <1>7
<1>8. CASE q = 128 BY <1>8
<1> QED BY <1>1, <1>2, <1>3, <1>4, <1>5, <1>6, <1>7, <1>8

\* A bit is 0 or 1.
LEMMA BitIs ==
  ASSUME NEW v \in Int, NEW w \in 1 .. 8, NEW b \in 1 .. w
  PROVE  BitOf(v, w, b) \in 0 .. 1
<1>1. PICK n \in 0 .. 7 : n = w - b
  OBVIOUS
<1>2. PICK q \in {1, 2, 4, 8, 16, 32, 64, 128} : q = 2^n
  BY PowerStep
<1>3. (v \div q) \in Int
  BY <1>2
<1> QED BY <1>1, <1>2, <1>3 DEF BitOf

\* The bits of a value, put together again, are the value.
LEMMA ValueOfBits ==
  ASSUME NEW w \in 1 .. 8, NEW v \in Nat, v < 2^w, NEW bits, NEW start \in Int,
         \A b \in 1 .. w : bits[start + b] = BitOf(v, w, b)
  PROVE  ValueOf(bits, start, w) = v
<1> DEFINE term == [b \in 1 .. w |-> bits[start + b] * 2^(w - b)]
<1>1. \A b \in 1 .. w : term[b] = ((v \div 2^(w - b)) % 2) * 2^(w - b)
  BY DEF BitOf
<1>2. \A n \in 0 .. 8 : 2^n \in Nat \ {0}
  <2> TAKE n \in 0 .. 8
  <2>1. CASE n = 8
    BY <2>1, Powers
  <2>2. CASE n \in 0 .. 7
    <3>1. 2^n \in {1, 2, 4, 8, 16, 32, 64, 128}
      BY ONLY <2>2, PowerStep
    <3> QED BY <3>1
  <2> QED BY <2>1, <2>2
<1>3. term \in [1 .. w -> Int]
  <2>1. ASSUME NEW b \in 1 .. w PROVE term[b] \in Int
    <3>0. w - b \in 0 .. 8
      OBVIOUS
    <3>1. PICK q \in Nat \ {0} : q = 2^(w - b)
      BY <1>2, <3>0
    <3>2. ((v \div q) % 2) \in Int
      BY <3>1
    <3>3. ((v \div q) % 2) * q \in Int
      BY <3>1, <3>2
    <3> QED BY <1>1, <3>1, <3>3
  <2>2. term = [b \in 1 .. w |-> term[b]]
    OBVIOUS
  <2> HIDE DEF term
  <2> QED BY <2>1, <2>2
<1>0. w \in Nat /\ w \in Nat \ {0}
  OBVIOUS
<1> HIDE DEF term
<1>4. PICK p \in [0 .. w -> Int] : p[0] = 0 /\ \A i \in 1 .. w : p[i] = p[i - 1] + term[i]
  BY ONLY <1>0, <1>3, PartialSums
<1> DEFINE Done(i) == i <= w => p[i] = (v \div 2^(w - i)) * 2^(w - i)
           T == {i \in Nat : Done(i)}
<1>5. 0 \in T
  <2>1. PICK q \in Nat \ {0} : q = 2^w /\ v < q
    BY <1>2
  <2>2. v \div q = 0 /\ w - 0 = w
    BY <2>1
  <2> QED BY <1>4, <2>1, <2>2
<1>6. \A i \in T : i + 1 \in T
  <2>1. ASSUME NEW i \in Nat, Done(i) PROVE Done(i + 1)
    <3>1. SUFFICES ASSUME i + 1 <= w
                   PROVE  p[i + 1] = (v \div 2^(w - (i + 1))) * 2^(w - (i + 1))
      OBVIOUS
    <3>2. PICK n \in 0 .. 7 : n = w - (i + 1) /\ n + 1 = w - i
      BY <3>1
    <3>3. PICK q \in {1, 2, 4, 8, 16, 32, 64, 128} : q = 2^n /\ 2 * q = 2^(n + 1)
      BY PowerStep
    <3>4. PICK j \in 1 .. w : j = i + 1 /\ j - 1 = i /\ w - j = n
      BY <3>1, <3>2
    <3>5. p[j] = p[i] + term[j] /\ term[j] = ((v \div q) % 2) * q
      BY <1>1, <1>4, <3>3, <3>4
    <3>6. p[i] = (v \div (2 * q)) * (2 * q)
      BY <2>1, <3>1, <3>2, <3>3
    <3>7. p[j] = (v \div q) * q
      BY ONLY <3>5, <3>6, BitStep, q \in {1, 2, 4, 8, 16, 32, 64, 128}, v \in Nat
    <3> QED BY <3>2, <3>3, <3>4, <3>7
  <2> HIDE DEF Done
  <2> QED BY <2>1
<1>7. w \in T
  <2>1. T \in SUBSET Nat
    OBVIOUS
  <2> HIDE DEF T
  <2>2. \A n \in Nat : n \in T
    BY ONLY <1>5, <1>6, <2>1, AllOf
  <2> QED BY <2>2
<1>8. p[w] = v
  <2>1. w - w = 0 /\ (v \div 1) * 1 = v /\ w <= w
    OBVIOUS
  <2> QED BY <1>7, <2>1, Powers
<1>9. SumOf(w, term) = v
  BY ONLY <1>0, <1>3, <1>4, <1>8, SumIs
<1> QED BY <1>9 DEF ValueOf, term

\* Eight bits, put together, are a byte that has these bits; it begins with the first four.
LEMMA ByteOfBits ==
  ASSUME NEW bits, NEW start \in Int, \A b \in 1 .. 8 : bits[start + b] \in 0 .. 1
  PROVE  /\ ValueOf(bits, start, 8) \in 0 .. 255
         /\ \A b \in 1 .. 8 : BitOf(ValueOf(bits, start, 8), 8, b) = bits[start + b]
         /\ ValueOf(bits, start, 8) \div 16
              = 8 * bits[start + 1] + 4 * bits[start + 2] + 2 * bits[start + 3] + bits[start + 4]
<1> DEFINE term == [b \in 1 .. 8 |-> bits[start + b] * 2^(8 - b)]
<1>1. PICK x1, x2, x3, x4, x5, x6, x7, x8 \in 0 .. 1 :
        /\ x1 = bits[start + 1] /\ x2 = bits[start + 2] /\ x3 = bits[start + 3]
        /\ x4 = bits[start + 4] /\ x5 = bits[start + 5] /\ x6 = bits[start + 6]
        /\ x7 = bits[start + 7] /\ x8 = bits[start + 8]
  OBVIOUS
<1>2. /\ term[1] = 128 * x1 /\ term[2] = 64 * x2 /\ term[3] = 32 * x3 /\ term[4] = 16 * x4
      /\ term[5] = 8 * x5 /\ term[6] = 4 * x6 /\ term[7] = 2 * x7 /\ term[8] = x8
  BY <1>1, Powers
<1>3. term \in [1 .. 8 -> Int]
  <2>1. \A b \in 1 .. 8 : b \in {1, 2, 3, 4, 5, 6, 7, 8}
    OBVIOUS
  <2>2. term = [b \in 1 .. 8 |-> term[b]]
    OBVIOUS
  <2> HIDE DEF term
  <2>3. \A b \in 1 .. 8 : term[b] \in Int
    BY <1>2, <2>1
  <2> QED BY <2>2, <2>3
<1>4. SumOf(8, term) = ValueOf(bits, start, 8)
  BY DEF ValueOf
<1> HIDE DEF term
<1>5. PICK p \in [0 .. 8 -> Int] : p[0] = 0 /\ \A i \in 1 .. 8 : p[i] = p[i - 1] + term[i]
  BY <1>3, PartialSums
<1>6. p[8] = 128 * x1 + 64 * x2 + 32 * x3 + 16 * x4 + 8 * x5 + 4 * x6 + 2 * x7 + x8
  <2>1. /\ p[1] = p[0] + term[1] /\ p[2] = p[1] + term[2] /\ p[3] = p[2] + term[3]
        /\ p[4] = p[3] + term[4] /\ p[5] = p[4] + term[5] /\ p[6] = p[5] + term[6]
        /\ p[7] = p[6] + term[7] /\ p[8] = p[7] + term[8]
    BY <1>5
  <2> QED BY <1>2, <1>5, <2>1
<1>7. PICK v \in Int : /\ v = ValueOf(bits, start, 8)
            /\ v = 128 * x1 + 64 * x2 + 32 * x3 + 16 * x4 + 8 * x5 + 4 * x6 + 2 * x7 + x8
  <2>1. 8 \in Nat \ {0} /\ p[8] \in Int
    OBVIOUS
  <2>2. SumOf(8, term) = p[8]
    BY ONLY <1>3, <1>5, <2>1, SumIs
  <2> QED BY <1>4, <1>6, <2>1, <2>2
<1>8. v \in 0 .. 255 /\ v \div 16 = 8 * x1 + 4 * x2 + 2 * x3 + x4
  BY ONLY <1>7
<1>9. /\ (v \div 128) % 2 = x1 /\ (v \div 64) % 2 = x2
      /\ (v \div 32) % 2 = x3 /\ (v \div 16) % 2 = x4
  BY ONLY <1>7
<1>10. (v \div 8) % 2 = x5 /\ (v \div 4) % 2 = x6 /\ (v \div 2) % 2 = x7 /\ (v \div 1) % 2 = x8
  BY ONLY <1>7
<1>11. \A b \in 1 .. 8 : BitOf(v, 8, b) = bits[start + b]
  <2>1. \A b \in 1 .. 8 : b \in {1, 2, 3, 4, 5, 6, 7, 8}
    OBVIOUS
  <2>2. /\ BitOf(v, 8, 1) = x1 /\ BitOf(v, 8, 2) = x2 /\ BitOf(v, 8, 3) = x3
        /\ BitOf(v, 8, 4) = x4 /\ BitOf(v, 8, 5) = x5 /\ BitOf(v, 8, 6) = x6
        /\ BitOf(v, 8, 7) = x7 /\ BitOf(v, 8, 8) = x8
    BY <1>9, <1>10, Powers DEF BitOf
  <2> QED BY <1>1, <2>1, <2>2
<1> QED BY <1>1, <1>7, <1>8, <1>11

\* The fields follow each other without a gap, from the magic to the end of the frame.
LEMMA Fields ==
  ASSUME NEW i \in 1 .. 76
  PROVE  /\ Widths[i] \in Int /\ 1 <= Widths[i] /\ Widths[i] <= 8
         /\ Starts[i] \in Int /\ 4 <= Starts[i] /\ Starts[i] <= 264
         /\ i = 1 => Starts[i] = 4
         /\ i < 76 => Starts[i + 1] = Starts[i] + Widths[i]
         /\ i = 76 => Starts[i] + Widths[i] = 264
<1>1. CASE i <= 7
  <2>1. i \in {1, 2, 3, 4, 5, 6, 7}
    BY <1>1
  <2> QED BY <1>1, <2>1 DEF Widths, Starts
<1>2. CASE i = 8
  <2>1. Ofs(9) = 1 /\ Subframe(9) = 1
    BY DEF Ofs, Subframe
  <2> QED BY <1>2, <2>1 DEF Widths, Starts
<1>3. CASE i > 8
  <2>1. PICK f \in 1 .. 17, j \in 1 .. 4 : f = Ofs(i) /\ j = Subframe(i)
    BY <1>3 DEF Ofs, Subframe
  <2>2. i = 17 * j + f - 9
    BY <1>3, <2>1 DEF Ofs, Subframe
  <2>3. f < 17 => Ofs(i + 1) = f + 1 /\ Subframe(i + 1) = j
    BY <1>3, <2>1 DEF Ofs, Subframe
  <2>4. f = 17 => Ofs(i + 1) = 1 /\ Subframe(i + 1) = j + 1
    BY <1>3, <2>1 DEF Ofs, Subframe
  <2> DEFINE Offset(g) == IF g <= 4 THEN <<0, 7, 9, 11>>[g] ELSE 3 * g + 2
             Width(g) == IF g <= 4 THEN <<7, 2, 2, 6>>[g] ELSE 3
  <2>5. Widths[i] = Width(f) /\ Starts[i] = 56 * j - 16 + Offset(f)
    BY <1>3, <2>1 DEF Widths, Starts
  <2>6. i < 76 => Starts[i + 1] = 56 * Subframe(i + 1) - 16 + Offset(Ofs(i + 1))
    BY <1>3 DEF Starts
  <2>7. /\ Width(f) \in Int /\ 1 <= Width(f) /\ Width(f) <= 8
        /\ Offset(f) \in Int /\ 0 <= Offset(f) /\ Offset(f) <= 53
        /\ f < 17 => Offset(f + 1) = Offset(f) + Width(f)
        /\ f = 17 => Offset(f) + Width(f) = 56
        /\ Offset(1) = 0
    <3>1. CASE f <= 4
      <4>1. f \in {1, 2, 3, 4}
        BY <3>1
      <4> QED BY <4>1
    <3>2. CASE f > 4
      BY <3>2
    <3> QED BY <3>1, <3>2
  <2> HIDE DEF Width, Offset
  <2>8. CASE f < 17
    <3>1. PICK o, w \in Int : o = Offset(f) /\ w = Width(f)
      BY <2>7
    <3>2. /\ Widths[i] = w /\ Starts[i] = 56 * j - 16 + o
          /\ 1 <= w /\ w <= 8 /\ 0 <= o /\ o <= 53
      BY ONLY <2>5, <2>7, <3>1
    <3>3. i # 1 /\ i # 76
      BY <1>3, <2>1, <2>2, <2>8
    <3>4. Offset(f + 1) = o + w
      BY <2>7, <2>8, <3>1
    <3>5. i < 76 => Starts[i + 1] = 56 * j - 16 + (o + w)
      BY <2>3, <2>6, <2>8, <3>4
    <3> QED BY <2>1, <3>2, <3>3, <3>5
  <2>9. CASE f = 17
    <3>1. PICK o, w \in Int : o = Offset(f) /\ w = Width(f)
      BY <2>7
    <3>2. /\ Widths[i] = w /\ Starts[i] = 56 * j - 16 + o
          /\ 1 <= w /\ w <= 8 /\ 0 <= o /\ o <= 53 /\ o + w = 56
      BY ONLY <2>5, <2>7, <2>9, <3>1
    <3>3. i # 1 /\ (i = 76 => j = 4)
      BY <1>3, <2>1, <2>2, <2>9
    <3>4. i < 76 => Starts[i + 1] = 56 * (j + 1) - 16 + 0
      BY <2>4, <2>6, <2>7, <2>9
    <3> QED BY <2>1, <3>2, <3>3, <3>4
  <2> QED BY <2>1, <2>8, <2>9
<1> QED BY <1>1, <1>2, <1>3

\* Each ends before those after it begin.
LEMMA FieldsApart ==
  ASSUME NEW i \in 1 .. 76, NEW l \in 1 .. 76, i < l
  PROVE  Starts[i] + Widths[i] <= Starts[l]
<1> DEFINE Apart(n) == i + 1 + n <= 76 => Starts[i] + Widths[i] <= Starts[i + 1 + n]
           T == {n \in Nat : Apart(n)}
<1>1. 0 \in T
  <2>1. i + 1 + 0 = i + 1
    OBVIOUS
  <2>2. i < 76
    OBVIOUS
  <2>3. Starts[i + 1] = Starts[i] + Widths[i] /\ Starts[i] \in Int /\ Widths[i] \in Int
    BY <2>2, Fields
  <2>4. Starts[i] + Widths[i] <= Starts[i + 1]
    BY ONLY <2>3
  <2> QED BY <2>1, <2>4
<1>2. \A n \in T : n + 1 \in T
  <2>1. ASSUME NEW n \in Nat, Apart(n) PROVE Apart(n + 1)
    <3>1. SUFFICES ASSUME i + 1 + (n + 1) <= 76
                   PROVE  Starts[i] + Widths[i] <= Starts[i + 1 + (n + 1)]
      OBVIOUS
    <3>2. PICK m \in 1 .. 75 : m = i + 1 + n /\ m + 1 = i + 1 + (n + 1)
      BY <3>1
    <3>3. Starts[i] + Widths[i] <= Starts[m]
      BY <2>1, <3>2
    <3>4. /\ Starts[m + 1] = Starts[m] + Widths[m]
          /\ Widths[m] \in Int /\ 1 <= Widths[m] /\ Starts[m] \in Int
      <4>1. m \in 1 .. 76 /\ m < 76
        OBVIOUS
      <4> QED BY ONLY <4>1, Fields
    <3>5. Widths[i] \in Int /\ Starts[i] \in Int
      BY Fields
    <3> QED BY ONLY <3>2, <3>3, <3>4, <3>5
  <2> HIDE DEF Apart
  <2> QED BY <2>1
<1>3. T \in SUBSET Nat
  OBVIOUS
<1> HIDE DEF T
<1>4. \A n \in Nat : n \in T
  BY ONLY <1>1, <1>2, <1>3, AllOf
<1>5. PICK n \in Nat : l = i + 1 + n
  OBVIOUS
<1>6. n \in T
  BY <1>4
<1> QED BY <1>5, <1>6 DEF T

\* Every bit after the magic belongs to a field.
LEMMA FieldOfBit ==
  ASSUME NEW n \in 5 .. 264
  PROVE  \E i \in 1 .. 76 : Starts[i] < n /\ n <= Starts[i] + Widths[i]
<1> DEFINE T == {i \in 1 .. 76 : n <= Starts[i] + Widths[i]}
<1>1. 76 \in T
  <2>1. Starts[76] + Widths[76] = 264
    BY Fields
  <2> QED BY <2>1
<1>2. PICK i \in T : \A l \in T : i <= l
  <2>1. T \in SUBSET Nat /\ T # {}
    BY <1>1
  <2> HIDE DEF T
  <2> QED BY <2>1, LeastOf
<1>3. i \in 1 .. 76 /\ n <= Starts[i] + Widths[i]
  BY <1>2
<1>4. Starts[i] < n
  <2>1. CASE i = 1
    <3>1. Starts[i] = 4
      BY <2>1, Fields
    <3> QED BY <3>1
  <2>2. CASE i > 1
    <3>1. PICK m \in 1 .. 76 : m + 1 = i /\ m < 76
      BY <1>3, <2>2
    <3>2. m \notin T
      BY <1>2, <3>1
    <3>3. ~(n <= Starts[m] + Widths[m])
      BY <3>2
    <3>4. Starts[i] = Starts[m] + Widths[m] /\ Starts[m] \in Int /\ Widths[m] \in Int
      BY <3>1, Fields
    <3>5. n \in Int
      OBVIOUS
    <3> QED BY ONLY <3>3, <3>4, <3>5
  <2> QED BY <1>3, <2>1, <2>2
<1> QED BY <1>3, <1>4

\* To no other than the one the model names.
LEMMA OwnerIs ==
  /\ \A n \in 5 .. 264 : /\ Owner[n] \in 1 .. 76
                         /\ Starts[Owner[n]] < n /\ n <= Starts[Owner[n]] + Widths[Owner[n]]
  /\ \A i \in 1 .. 76 : \A b \in 1 .. 8 :
       b <= Widths[i] => Starts[i] + b \in 5 .. 264 /\ Owner[Starts[i] + b] = i
<1>1. ASSUME NEW n \in 5 .. 264
      PROVE  /\ Owner[n] \in 1 .. 76
             /\ Starts[Owner[n]] < n /\ n <= Starts[Owner[n]] + Widths[Owner[n]]
  <2>1. \E i \in 1 .. 76 : Starts[i] < n /\ n <= Starts[i] + Widths[i]
    BY FieldOfBit
  <2>2. Owner[n] = CHOOSE i \in 1 .. 76 : Starts[i] < n /\ n <= Starts[i] + Widths[i]
    BY DEF Owner
  <2> QED BY ONLY <2>1, <2>2
<1>2. ASSUME NEW i \in 1 .. 76, NEW b \in 1 .. 8, b <= Widths[i]
      PROVE  Starts[i] + b \in 5 .. 264 /\ Owner[Starts[i] + b] = i
  <2>1. Widths[i] \in Int /\ 1 <= Widths[i] /\ Starts[i] \in Int /\ 4 <= Starts[i]
    BY Fields
  <2>2. Starts[i] + Widths[i] <= 264
    <3>1. CASE i = 76
      BY <2>1, <3>1, Fields
    <3>2. CASE i < 76
      <4>1. 76 \in 1 .. 76
        OBVIOUS
      <4>2. Starts[i] + Widths[i] <= Starts[76]
        BY <3>2, <4>1, FieldsApart
      <4>3. Starts[76] \in Int /\ Starts[76] <= 264
        BY <4>1, Fields
      <4> QED BY ONLY <2>1, <4>2, <4>3
    <3> QED BY <3>1, <3>2
  <2>3. Starts[i] + b \in Int /\ 5 <= Starts[i] + b /\ Starts[i] + b <= 264
    BY <1>2, <2>1, <2>2
  <2>4. PICK n \in 5 .. 264 : n = Starts[i] + b
    BY ONLY <2>3
  <2>5. PICK l \in 1 .. 76 : l = Owner[n] /\ Starts[l] < n /\ n <= Starts[l] + Widths[l]
    BY <1>1
  <2>6. Widths[l] \in Int /\ Starts[l] \in Int /\ n \in Int /\ b \in Int /\ b >= 1
    <3>1. n \in Int /\ b \in Int /\ b >= 1
      OBVIOUS
    <3> QED BY <3>1, Fields
  <2>7. ~(i < l)
    <3>1. i < l => Starts[i] + Widths[i] <= Starts[l]
      BY FieldsApart
    <3> QED BY ONLY <1>2, <2>1, <2>4, <2>5, <2>6, <3>1
  <2>8. ~(l < i)
    <3>1. l < i => Starts[l] + Widths[l] <= Starts[i]
      BY FieldsApart
    <3> QED BY ONLY <2>1, <2>4, <2>5, <2>6, <3>1
  <2>9. i = l
    BY <2>7, <2>8
  <2> QED BY <2>4, <2>5, <2>9
<1> QED BY <1>1, <1>2

\* The bits of the words of a frame.
FrameBit(w, n) == IF n <= 4 THEN BitOf(GSM_MAGIC, 4, n)
                  ELSE BitOf(w[Owner[n]], Widths[Owner[n]], n - Starts[Owner[n]])

\* Each of them is a bit.
LEMMA FrameBitIs ==
  ASSUME NEW w, \A i \in 1 .. 76 : w[i] \in Int, NEW n \in 1 .. 264
  PROVE  FrameBit(w, n) \in 0 .. 1
<1>1. CASE n <= 4
  <2>1. n \in 1 .. 4 /\ 4 \in 1 .. 8 /\ GSM_MAGIC \in Int
    BY <1>1 DEF GSM_MAGIC
  <2>2. BitOf(GSM_MAGIC, 4, n) \in 0 .. 1
    BY ONLY <2>1, BitIs
  <2> QED BY <1>1, <2>2 DEF FrameBit
<1>2. CASE n > 4
  <2>1. n \in 5 .. 264
    BY <1>2
  <2>2. PICK i \in 1 .. 76 : i = Owner[n] /\ Starts[i] < n /\ n <= Starts[i] + Widths[i]
    BY <2>1, OwnerIs
  <2>3. Starts[i] \in Int /\ Widths[i] \in Int /\ 1 <= Widths[i] /\ Widths[i] <= 8
    BY Fields
  <2>4. Widths[i] \in 1 .. 8 /\ n - Starts[i] \in 1 .. Widths[i]
    BY <2>1, <2>2, <2>3
  <2>5. BitOf(w[i], Widths[i], n - Starts[i]) \in 0 .. 1
    BY ONLY <2>4, w[i] \in Int, BitIs
  <2> QED BY <1>2, <2>2, <2>5 DEF FrameBit
<1> QED BY <1>1, <1>2

\* The bytes of a frame are bytes, and have the bits of its words.
LEMMA ImplodedBits ==
  ASSUME NEW w, \A i \in 1 .. 76 : w[i] \in Int
  PROVE  LET c == gsm_implode(w)
         IN  /\ c \in [1 .. 33 -> 0 .. 255]
             /\ HasMagic(c)
             /\ \A n \in 1 .. 264 : BitOf(c[(n - 1) \div 8 + 1], 8, ((n - 1) % 8) + 1)
                                      = FrameBit(w, n)
<1> DEFINE bits == [n \in 1 .. 264 |-> FrameBit(w, n)]
           c == [i \in 1 .. 33 |-> ValueOf(bits, 8 * i - 8, 8)]
<1>1. gsm_implode(w) = Array([i \in 1 .. 33 |-> ValueOf(Array(bits), 8 * i - 8, 8)])
  BY DEF gsm_implode, FrameBit
<1>2. Vec(bits, 264) /\ Vec(c, 33)
  BY DEF Vec
<1>3. \A n \in 1 .. 264 : bits[n] = FrameBit(w, n)
  OBVIOUS
<1>4. \A i \in 1 .. 33 : c[i] = ValueOf(bits, 8 * i - 8, 8)
  OBVIOUS
<1> HIDE DEF bits
<1>5. Array(bits) = bits
  BY <1>2, VecArray
<1>6. Array(c) = c
  <2> HIDE DEF c
  <2> QED BY <1>2, VecArray
<1>7. gsm_implode(w) = c
  BY <1>1, <1>5, <1>6
<1> HIDE DEF c
<1>8. \A n \in 1 .. 264 : bits[n] \in 0 .. 1
  BY <1>3, FrameBitIs
<1>9. ASSUME NEW i \in 1 .. 33
      PROVE  /\ c[i] \in 0 .. 255
             /\ \A b \in 1 .. 8 : BitOf(c[i], 8, b) = bits[8 * i - 8 + b]
             /\ c[i] \div 16 = 8 * bits[8 * i - 8 + 1] + 4 * bits[8 * i - 8 + 2]
                               + 2 * bits[8 * i - 8 + 3] + bits[8 * i - 8 + 4]
  <2>1. PICK m \in Int : m = 8 * i - 8 /\ \A b \in 1 .. 8 : m + b \in 1 .. 264
    OBVIOUS
  <2>2. \A b \in 1 .. 8 : bits[m + b] \in 0 .. 1
    BY <1>8, <2>1
  <2>3. /\ ValueOf(bits, m, 8) \in 0 .. 255
        /\ \A b \in 1 .. 8 : BitOf(ValueOf(bits, m, 8), 8, b) = bits[m + b]
        /\ ValueOf(bits, m, 8) \div 16 = 8 * bits[m + 1] + 4 * bits[m + 2]
                                         + 2 * bits[m + 3] + bits[m + 4]
    BY ONLY <2>2, ByteOfBits, m \in Int
  <2>4. c[i] = ValueOf(bits, m, 8)
    BY <1>4, <2>1
  <2> QED BY <2>1, <2>3, <2>4
<1>10. c \in [1 .. 33 -> 0 .. 255]
  BY <1>2, <1>9 DEF Vec
<1>11. HasMagic(c)
  <2>1. 1 \in 1 .. 33 /\ 8 * 1 - 8 + 1 = 1 /\ 8 * 1 - 8 + 2 = 2 /\ 8 * 1 - 8 + 3 = 3
        /\ 8 * 1 - 8 + 4 = 4
    OBVIOUS
  <2>2. c[1] \div 16 = 8 * bits[1] + 4 * bits[2] + 2 * bits[3] + bits[4]
    BY <1>9, <2>1
  <2>3. bits[1] = 1 /\ bits[2] = 1 /\ bits[3] = 0 /\ bits[4] = 1
    BY <1>3, Powers DEF FrameBit, BitOf, GSM_MAGIC
  <2> QED BY <2>2, <2>3 DEF HasMagic, GSM_MAGIC
<1>12. ASSUME NEW n \in 1 .. 264
       PROVE  BitOf(c[(n - 1) \div 8 + 1], 8, ((n - 1) % 8) + 1) = FrameBit(w, n)
  <2>1. PICK i \in 1 .. 33, b \in 1 .. 8 :
          i = (n - 1) \div 8 + 1 /\ b = ((n - 1) % 8) + 1 /\ 8 * i - 8 + b = n
    OBVIOUS
  <2>2. BitOf(c[i], 8, b) = bits[n]
    BY <1>9, <2>1
  <2> QED BY <1>3, <2>1, <2>2
<1> QED BY <1>7, <1>10, <1>11, <1>12

\* Whatever the bytes of a frame, what they unpack to has the bits of its field.
LEMMA ExplodedIs ==
  ASSUME NEW c, NEW i \in 1 .. 76
  PROVE  gsm_explode(c)[i] =
           ValueOf([n \in 1 .. 264 |-> BitOf(c[(n - 1) \div 8 + 1], 8, ((n - 1) % 8) + 1)],
                   Starts[i], Widths[i])
<1> DEFINE bits == [n \in 1 .. 264 |-> BitOf(c[(n - 1) \div 8 + 1], 8, ((n - 1) % 8) + 1)]
<1>1. gsm_explode(c)[i] = ValueOf(Array(bits), Starts[i], Widths[i])
  BY DEF gsm_explode
<1>2. Vec(bits, 264)
  BY DEF Vec
<1> HIDE DEF bits
<1>3. Array(bits) = bits
  BY <1>2, VecArray
<1> QED BY <1>1, <1>3 DEF bits

\* Words that fit their fields come out of a frame as they went in.
LEMMA ExplodeImplode ==
  ASSUME NEW w, \A i \in 1 .. 76 : w[i] \in Nat /\ w[i] < 2^Widths[i], NEW i \in 1 .. 76
  PROVE  gsm_explode(gsm_implode(w))[i] = w[i]
<1> DEFINE c == gsm_implode(w)
           bits == [n \in 1 .. 264 |-> BitOf(c[(n - 1) \div 8 + 1], 8, ((n - 1) % 8) + 1)]
<1>1. gsm_explode(c)[i] = ValueOf(bits, Starts[i], Widths[i])
  BY ExplodedIs
<1>2. \A n \in 1 .. 264 : bits[n] = FrameBit(w, n)
  <2>1. \A j \in 1 .. 76 : w[j] \in Int
    OBVIOUS
  <2>2. \A n \in 1 .. 264 : BitOf(c[(n - 1) \div 8 + 1], 8, ((n - 1) % 8) + 1) = FrameBit(w, n)
    BY ONLY <2>1, ImplodedBits
  <2> QED BY <2>2
<1> HIDE DEF bits
<1>3. PICK m, l \in Int : m = Starts[i] /\ l = Widths[i] /\ 4 <= m /\ l \in 1 .. 8
  <2>1. Starts[i] \in Int /\ 4 <= Starts[i]
    BY Fields
  <2>2. Widths[i] \in Int /\ 1 <= Widths[i] /\ Widths[i] <= 8
    BY Fields
  <2>3. Widths[i] \in 1 .. 8
    BY ONLY <2>2
  <2> QED BY <2>1, <2>2, <2>3
<1>4. \A b \in 1 .. l : bits[m + b] = BitOf(w[i], l, b)
  <2> TAKE b \in 1 .. l
  <2>1. b \in 1 .. 8 /\ b <= Widths[i]
    BY <1>3
  <2>2. m + b \in 5 .. 264 /\ Owner[m + b] = i
    BY <1>3, <2>1, OwnerIs
  <2>3. ~(m + b <= 4) /\ (m + b) - m = b /\ m + b \in 1 .. 264
    BY <1>3, <2>2
  <2>4. FrameBit(w, m + b) = BitOf(w[i], l, (m + b) - m)
    BY <1>3, <2>2, <2>3 DEF FrameBit
  <2> QED BY <1>2, <2>3, <2>4
<1>5. w[i] \in Nat /\ w[i] < 2^l
  BY <1>3
<1>6. ValueOf(bits, m, l) = w[i]
  BY ONLY <1>3, <1>4, <1>5, ValueOfBits
<1> QED BY <1>1, <1>3, <1>6


\* What w bits make is less than 2^w.
LEMMA ValueFits ==
  ASSUME NEW w \in 1 .. 8, NEW bits, NEW start \in Int,
         \A b \in 1 .. w : bits[start + b] \in 0 .. 1
  PROVE  ValueOf(bits, start, w) \in Nat /\ ValueOf(bits, start, w) < 2^w
<1> DEFINE term == [b \in 1 .. w |-> bits[start + b] * 2^(w - b)]
<1>0. w \in Nat /\ w \in Nat \ {0}
  OBVIOUS
<1>1. ASSUME NEW b \in 1 .. w
      PROVE  term[b] \in Int /\ 0 <= term[b] /\ term[b] <= 2^(w - b)
  <2>1. PICK n \in 0 .. 7 : n = w - b
    OBVIOUS
  <2>2. PICK q \in {1, 2, 4, 8, 16, 32, 64, 128} : q = 2^n
    BY PowerStep
  <2>3. PICK x \in 0 .. 1 : x = bits[start + b]
    OBVIOUS
  <2>4. term[b] = x * q
    BY <2>1, <2>2, <2>3
  <2>5. x = 0 \/ x = 1
    OBVIOUS
  <2> HIDE DEF term
  <2> QED BY <2>1, <2>2, <2>4, <2>5
<1>2. term \in [1 .. w -> Int]
  <2>1. term = [b \in 1 .. w |-> term[b]]
    OBVIOUS
  <2> HIDE DEF term
  <2> QED BY <1>1, <2>1
<1> HIDE DEF term
<1>3. PICK p \in [0 .. w -> Int] : p[0] = 0 /\ \A i \in 1 .. w : p[i] = p[i - 1] + term[i]
  BY ONLY <1>0, <1>2, PartialSums
<1>4. PICK top \in Int : top = 2^w
  <2>1. PICK n \in 0 .. 7 : n + 1 = w
    OBVIOUS
  <2>2. 2^n \in {1, 2, 4, 8, 16, 32, 64, 128} /\ 2^(n + 1) = 2 * 2^n
    BY PowerStep
  <2> QED BY <2>1, <2>2
<1> DEFINE Done(i) == i <= w => 0 <= p[i] /\ p[i] <= top - 2^(w - i)
           T == {i \in Nat : Done(i)}
<1>5. 0 \in T
  <2>1. w - 0 = w /\ top - top = 0
    OBVIOUS
  <2> QED BY <1>3, <1>4, <2>1
<1>6. \A i \in T : i + 1 \in T
  <2>1. ASSUME NEW i \in Nat, Done(i) PROVE Done(i + 1)
    <3>1. SUFFICES ASSUME i + 1 <= w
                   PROVE  0 <= p[i + 1] /\ p[i + 1] <= top - 2^(w - (i + 1))
      OBVIOUS
    <3>2. PICK n \in 0 .. 7 : n = w - (i + 1) /\ n + 1 = w - i
      BY <3>1
    <3>3. PICK q \in {1, 2, 4, 8, 16, 32, 64, 128} : q = 2^n /\ 2 * q = 2^(n + 1)
      BY PowerStep
    <3>4. PICK j \in 1 .. w : j = i + 1 /\ j - 1 = i /\ w - j = n
      BY <3>1, <3>2
    <3>5. p[j] = p[i] + term[j] /\ term[j] \in Int /\ 0 <= term[j] /\ term[j] <= q
      BY <1>1, <1>3, <3>3, <3>4
    <3>6. p[i] \in Int /\ 0 <= p[i] /\ p[i] <= top - 2 * q
      BY <2>1, <3>1, <3>2, <3>3
    <3>7. 0 <= p[j] /\ p[j] <= top - q
      BY ONLY <3>5, <3>6, q \in Int, top \in Int
    <3> QED BY <3>2, <3>3, <3>4, <3>7
  <2> HIDE DEF Done
  <2> QED BY <2>1
<1>7. w \in T
  <2>1. T \in SUBSET Nat
    OBVIOUS
  <2> HIDE DEF T
  <2>2. \A n \in Nat : n \in T
    BY ONLY <1>5, <1>6, <2>1, AllOf
  <2> QED BY <2>2
<1>8. p[w] \in Int /\ 0 <= p[w] /\ p[w] < top
  <2>1. w - w = 0 /\ w <= w
    OBVIOUS
  <2>2. 0 <= p[w] /\ p[w] <= top - 1 /\ p[w] \in Int
    BY <1>7, <2>1, Powers
  <2> QED BY ONLY <2>2, top \in Int
<1>9. SumOf(w, term) = p[w]
  BY ONLY <1>0, <1>2, <1>3, SumIs
<1>10. ValueOf(bits, start, w) = p[w]
  BY <1>9 DEF ValueOf, term
<1> QED BY <1>4, <1>8, <1>10

\* The words of any frame of bytes fit their fields.
LEMMA ExplodedFits ==
  ASSUME NEW c, \A j \in 1 .. 33 : c[j] \in Int, NEW i \in 1 .. 76
  PROVE  gsm_explode(c)[i] \in Nat /\ gsm_explode(c)[i] < 2^Widths[i]
<1> DEFINE bits == [n \in 1 .. 264 |-> BitOf(c[(n - 1) \div 8 + 1], 8, ((n - 1) % 8) + 1)]
<1>1. gsm_explode(c)[i] = ValueOf(bits, Starts[i], Widths[i])
  BY ExplodedIs
<1>2. \A n \in 1 .. 264 : bits[n] \in 0 .. 1
  <2> TAKE n \in 1 .. 264
  <2>1. PICK j \in 1 .. 33, b \in 1 .. 8 : j = (n - 1) \div 8 + 1 /\ b = ((n - 1) % 8) + 1
    OBVIOUS
  <2>2. 8 \in 1 .. 8 /\ c[j] \in Int
    OBVIOUS
  <2>3. BitOf(c[j], 8, b) \in 0 .. 1
    BY <2>2, BitIs
  <2> QED BY <2>1, <2>3
<1> HIDE DEF bits
<1>3. Starts[i] \in Int /\ 4 <= Starts[i] /\ Widths[i] \in Int /\ 1 <= Widths[i] /\ Widths[i] <= 8
  BY Fields
<1>4. \A b \in 1 .. 8 : b <= Widths[i] => Starts[i] + b \in 5 .. 264
  BY OwnerIs
<1>5. PICK m, l \in Int : m = Starts[i] /\ l = Widths[i]
  BY <1>3
<1>6. l \in 1 .. 8
  BY <1>3, <1>5
<1>7. \A b \in 1 .. l : bits[m + b] \in 0 .. 1
  <2> TAKE b \in 1 .. l
  <2>1. m + b \in 5 .. 264
    BY <1>4, <1>5, <1>6
  <2> QED BY <1>2, <2>1
<1> QED BY <1>1, <1>5, <1>6, <1>7, ValueFits

-----------------------------------------------------------------------------
(* The parameters in a frame. *)

\* What the listener makes of a frame.
Carried(c) == Parameters(gsm_explode(c))

\* The coded ratios have this many levels, less one.
Levels(i) == gsm_MAC[i] - gsm_MIC[i]

\* What each parameter may be: what the coder makes of it, and what its field holds.
InRange(p, Lags) ==
  /\ Vec(p.LARc, 8) /\ \A i \in 1 .. 8 : p.LARc[i] \in 0 .. Levels(i)
  /\ \A j \in 1 .. 4 : /\ p.Nc[j] \in Lags
                       /\ p.bc[j] \in 0 .. 3 /\ p.Mc[j] \in 0 .. 3
                       /\ p.xmaxc[j] \in 0 .. 63
                       /\ Vec(p.xMc[j], 13) /\ \A n \in 1 .. 13 : p.xMc[j][n] \in 0 .. 7

\* All four sub-frames are there.
InOrder(p) ==
  /\ p = [LARc |-> p.LARc, Nc |-> p.Nc, bc |-> p.bc, Mc |-> p.Mc,
          xmaxc |-> p.xmaxc, xMc |-> p.xMc]
  /\ Vec(p.Nc, 4) /\ Vec(p.bc, 4) /\ Vec(p.Mc, 4) /\ Vec(p.xmaxc, 4) /\ Vec(p.xMc, 4)

\* The levels of the eight ratios fill the width of their fields.
LEMMA LevelsFit ==
  ASSUME NEW i \in 1 .. 8
  PROVE  Levels(i) \in Nat /\ 2^Widths[i] = Levels(i) + 1
<1>1. i \in {1, 2, 3, 4, 5, 6, 7, 8}
  OBVIOUS
<1>2. Widths[i] = <<6, 6, 5, 5, 4, 4, 3, 3>>[i]
  <2>1. i \in 1 .. 76 /\ i <= 8
    OBVIOUS
  <2> QED BY <2>1 DEF Widths
<1>3. Levels(i) = <<63, 63, 31, 31, 15, 15, 7, 7>>[i]
  BY <1>1 DEF Levels, gsm_MAC, gsm_MIC
<1>4. CASE i \in {1, 2}
  <2>1. Widths[i] = 6 /\ Levels(i) = 63
    BY ONLY <1>2, <1>3, <1>4
  <2> QED BY ONLY <2>1, 2^6 = 64
<1>5. CASE i \in {3, 4}
  <2>1. Widths[i] = 5 /\ Levels(i) = 31
    BY ONLY <1>2, <1>3, <1>5
  <2> QED BY ONLY <2>1, 2^5 = 32
<1>6. CASE i \in {5, 6}
  <2>1. Widths[i] = 4 /\ Levels(i) = 15
    BY ONLY <1>2, <1>3, <1>6
  <2> QED BY ONLY <2>1, 2^4 = 16
<1>7. CASE i \in {7, 8}
  <2>1. Widths[i] = 3 /\ Levels(i) = 7
    BY ONLY <1>2, <1>3, <1>7
  <2> QED BY ONLY <2>1, 2^3 = 8
<1> QED BY <1>1, <1>4, <1>5, <1>6, <1>7

\* The f-th word of the j-th sub-frame.
Place(j, f) == 8 + 17 * (j - 1) + f

\* Its sub-frame, its place there, and its width.
LEMMA PlaceIs ==
  ASSUME NEW j \in 1 .. 4, NEW f \in 1 .. 17
  PROVE  /\ Place(j, f) \in 9 .. 76 /\ Subframe(Place(j, f)) = j /\ Ofs(Place(j, f)) = f
         /\ Widths[Place(j, f)] = IF f <= 4 THEN <<7, 2, 2, 6>>[f] ELSE 3
<1>1. Place(j, f) \in 9 .. 76
  BY DEF Place
<1>2. Place(j, f) - 9 = 17 * (j - 1) + (f - 1)
  BY DEF Place
<1>3. (17 * (j - 1) + (f - 1)) \div 17 = j - 1 /\ (17 * (j - 1) + (f - 1)) % 17 = f - 1
  OBVIOUS
<1>4. Subframe(Place(j, f)) = j /\ Ofs(Place(j, f)) = f
  BY <1>1, <1>2, <1>3 DEF Subframe, Ofs
<1> HIDE DEF Place
<1>5. PICK i \in 9 .. 76 : i = Place(j, f)
  BY <1>1
<1>6. i \in 1 .. 76 /\ ~(i <= 8)
  OBVIOUS
<1>7. Widths[i] = IF Ofs(i) <= 4 THEN <<7, 2, 2, 6>>[Ofs(i)] ELSE 3
  BY <1>6 DEF Widths
<1> QED BY <1>1, <1>4, <1>5, <1>7

\* Every later word is one of a sub-frame.
LEMMA PlaceOf ==
  ASSUME NEW i \in 9 .. 76
  PROVE  \E j \in 1 .. 4, f \in 1 .. 17 : i = Place(j, f)
<1>1. PICK j \in 1 .. 4, f \in 1 .. 17 : j = (i - 9) \div 17 + 1 /\ f = ((i - 9) % 17) + 1
  OBVIOUS
<1>2. i = 8 + 17 * (j - 1) + f
  BY <1>1
<1> QED BY <1>2 DEF Place

\* Where the parameters stand.
LEMMA WordsAre ==
  ASSUME NEW p
  PROVE  /\ \A i \in 1 .. 8 : Words(p)[i] = p.LARc[i]
         /\ \A j \in 1 .. 4 : /\ Words(p)[Place(j, 1)] = p.Nc[j]
                              /\ Words(p)[Place(j, 2)] = p.bc[j]
                              /\ Words(p)[Place(j, 3)] = p.Mc[j]
                              /\ Words(p)[Place(j, 4)] = p.xmaxc[j]
                              /\ \A n \in 1 .. 13 : Words(p)[Place(j, 4 + n)] = p.xMc[j][n]
<1> DEFINE At(j, f) == IF f <= 4 THEN <<p.Nc[j], p.bc[j], p.Mc[j], p.xmaxc[j]>>[f]
                       ELSE p.xMc[j][f - 4]
<1>1. \A i \in 1 .. 76 : Words(p)[i] = IF i <= 8 THEN p.LARc[i] ELSE At(Subframe(i), Ofs(i))
  BY DEF Words
<1>2. \A i \in 1 .. 8 : Words(p)[i] = p.LARc[i]
  <2> TAKE i \in 1 .. 8
  <2>1. i \in 1 .. 76 /\ i <= 8
    OBVIOUS
  <2> QED BY <1>1, <2>1
<1>3. ASSUME NEW j \in 1 .. 4, NEW f \in 1 .. 17
      PROVE  Words(p)[Place(j, f)] = At(j, f)
  <2>1. PICK i \in 9 .. 76 : i = Place(j, f) /\ Subframe(i) = j /\ Ofs(i) = f
    BY PlaceIs
  <2>2. i \in 1 .. 76 /\ ~(i <= 8)
    OBVIOUS
  <2> HIDE DEF At
  <2> QED BY <1>1, <2>1, <2>2
<1>4. ASSUME NEW j \in 1 .. 4
      PROVE  /\ Words(p)[Place(j, 1)] = p.Nc[j]
             /\ Words(p)[Place(j, 2)] = p.bc[j]
             /\ Words(p)[Place(j, 3)] = p.Mc[j]
             /\ Words(p)[Place(j, 4)] = p.xmaxc[j]
             /\ \A n \in 1 .. 13 : Words(p)[Place(j, 4 + n)] = p.xMc[j][n]
  <2>1. 1 \in 1 .. 17 /\ 2 \in 1 .. 17 /\ 3 \in 1 .. 17 /\ 4 \in 1 .. 17
    OBVIOUS
  <2>2. At(j, 1) = p.Nc[j] /\ At(j, 2) = p.bc[j] /\ At(j, 3) = p.Mc[j] /\ At(j, 4) = p.xmaxc[j]
    OBVIOUS
  <2>3. ASSUME NEW n \in 1 .. 13 PROVE Words(p)[Place(j, 4 + n)] = p.xMc[j][n]
    <3>1. PICK f \in 1 .. 17 : f = 4 + n /\ ~(f <= 4) /\ f - 4 = n
      OBVIOUS
    <3>2. At(j, f) = p.xMc[j][n]
      BY <3>1
    <3> HIDE DEF At
    <3> QED BY <1>3, <3>1, <3>2
  <2> HIDE DEF At
  <2> QED BY <1>3, <2>1, <2>2, <2>3
<1> QED BY <1>2, <1>4

\* The parameters a coder may come to fit the fields of a frame.
LEMMA WordsFit ==
  ASSUME NEW p, InRange(p, 40 .. 120), NEW i \in 1 .. 76
  PROVE  Words(p)[i] \in Nat /\ Words(p)[i] < 2^Widths[i]
<1>1. CASE i <= 8
  <2>1. i \in 1 .. 8
    BY <1>1
  <2>2. Words(p)[i] = p.LARc[i] /\ p.LARc[i] \in 0 .. Levels(i)
    BY <2>1, WordsAre DEF InRange
  <2>3. Levels(i) \in Nat /\ 2^Widths[i] = Levels(i) + 1
    BY <2>1, LevelsFit
  <2> QED BY ONLY <2>2, <2>3
<1>2. CASE i > 8
  <2>1. i \in 9 .. 76
    BY <1>2
  <2>2. PICK j \in 1 .. 4, f \in 1 .. 17 : i = Place(j, f)
    BY <2>1, PlaceOf
  <2>3. Widths[i] = IF f <= 4 THEN <<7, 2, 2, 6>>[f] ELSE 3
    BY <2>2, PlaceIs
  <2>4. /\ p.Nc[j] \in 40 .. 120 /\ p.bc[j] \in 0 .. 3 /\ p.Mc[j] \in 0 .. 3
        /\ p.xmaxc[j] \in 0 .. 63 /\ \A n \in 1 .. 13 : p.xMc[j][n] \in 0 .. 7
    BY DEF InRange
  <2>5. f \in {1, 2, 3, 4} \/ f - 4 \in 1 .. 13
    OBVIOUS
  <2>6. CASE f = 1
    <3>1. Words(p)[i] = p.Nc[j] /\ Widths[i] = 7
      BY <2>2, <2>3, <2>6, WordsAre
    <3> QED BY <2>4, <3>1, Powers
  <2>7. CASE f = 2
    <3>1. Words(p)[i] = p.bc[j] /\ Widths[i] = 2
      BY <2>2, <2>3, <2>7, WordsAre
    <3> QED BY <2>4, <3>1, Powers
  <2>8. CASE f = 3
    <3>1. Words(p)[i] = p.Mc[j] /\ Widths[i] = 2
      BY <2>2, <2>3, <2>8, WordsAre
    <3> QED BY <2>4, <3>1, Powers
  <2>9. CASE f = 4
    <3>1. Words(p)[i] = p.xmaxc[j] /\ Widths[i] = 6
      BY <2>2, <2>3, <2>9, WordsAre
    <3> QED BY <2>4, <3>1, Powers
  <2>10. CASE f - 4 \in 1 .. 13
    <3>1. PICK n \in 1 .. 13 : n = f - 4 /\ 4 + n = f /\ ~(f <= 4)
      BY <2>10
    <3>2. Words(p)[i] = p.xMc[j][n] /\ Widths[i] = 3
      <4>1. Words(p)[Place(j, 4 + n)] = p.xMc[j][n]
        BY ONLY WordsAre, j \in 1 .. 4, n \in 1 .. 13, Zenon
      <4>2. Widths[i] = 3
        BY ONLY <2>3, <3>1
      <4> QED BY ONLY <2>2, <3>1, <4>1, <4>2
    <3> QED BY <2>4, <3>2, Powers
  <2> QED BY <2>5, <2>6, <2>7, <2>8, <2>9, <2>10
<1> QED BY <1>1, <1>2

\* They come out of a frame as they went in.
LEMMA RoundTrip ==
  ASSUME NEW p, InRange(p, 40 .. 120), InOrder(p)
  PROVE  /\ HasMagic(gsm_implode(Words(p)))
         /\ gsm_implode(Words(p)) \in [1 .. 33 -> 0 .. 255]
         /\ Parameters(gsm_explode(gsm_implode(Words(p)))) = p
<1> DEFINE w == Words(p)
           x == gsm_explode(gsm_implode(w))
           q == Parameters(x)
<1>1. \A i \in 1 .. 76 : w[i] \in Nat /\ w[i] < 2^Widths[i]
  BY WordsFit
<1>2. \A j \in 1 .. 4 : /\ w[Place(j, 1)] = p.Nc[j] /\ w[Place(j, 2)] = p.bc[j]
                        /\ w[Place(j, 3)] = p.Mc[j] /\ w[Place(j, 4)] = p.xmaxc[j]
                        /\ \A n \in 1 .. 13 : w[Place(j, 4 + n)] = p.xMc[j][n]
  <2> TAKE j \in 1 .. 4
  <2>1. /\ Words(p)[Place(j, 1)] = p.Nc[j] /\ Words(p)[Place(j, 2)] = p.bc[j]
        /\ Words(p)[Place(j, 3)] = p.Mc[j] /\ Words(p)[Place(j, 4)] = p.xmaxc[j]
    BY ONLY WordsAre, j \in 1 .. 4, Zenon
  <2>2. \A n \in 1 .. 13 : Words(p)[Place(j, 4 + n)] = p.xMc[j][n]
    BY ONLY WordsAre, j \in 1 .. 4, Zenon
  <2> QED BY ONLY <2>1, <2>2
<1>3. \A i \in 1 .. 8 : w[i] = p.LARc[i]
  BY WordsAre
<1> HIDE DEF w
<1>4. \A i \in 1 .. 76 : x[i] = w[i]
  BY ONLY <1>1, ExplodeImplode
<1>5. HasMagic(gsm_implode(w)) /\ gsm_implode(w) \in [1 .. 33 -> 0 .. 255]
  <2>1. \A i \in 1 .. 76 : w[i] \in Int
    BY <1>1
  <2> QED BY ONLY <2>1, ImplodedBits
<1> HIDE DEF x
<1>6. q = [LARc  |-> [i \in 1 .. 8 |-> x[i]],
           Nc    |-> [j \in 1 .. 4 |-> x[Place(j, 1)]],
           bc    |-> [j \in 1 .. 4 |-> x[Place(j, 2)]],
           Mc    |-> [j \in 1 .. 4 |-> x[Place(j, 3)]],
           xmaxc |-> [j \in 1 .. 4 |-> x[Place(j, 4)]],
           xMc   |-> [j \in 1 .. 4 |-> [n \in 1 .. 13 |-> x[Place(j, 4 + n)]]]]
  BY DEF Parameters, Place
<1>7. \A j \in 1 .. 4 : \A f \in 1 .. 17 : x[Place(j, f)] = w[Place(j, f)]
  <2> TAKE j \in 1 .. 4, f \in 1 .. 17
  <2>1. Place(j, f) \in 9 .. 76
    BY PlaceIs
  <2>2. Place(j, f) \in 1 .. 76
    BY ONLY <2>1
  <2> QED BY <1>4, <2>2
<1>8. q.LARc = p.LARc
  <2>1. \A i \in 1 .. 8 : x[i] = p.LARc[i]
    <3> TAKE i \in 1 .. 8
    <3>1. i \in 1 .. 76
      OBVIOUS
    <3> QED BY <1>3, <1>4, <3>1
  <2>2. q.LARc = [i \in 1 .. 8 |-> p.LARc[i]]
    BY ONLY <1>6, <2>1
  <2>3. Vec(p.LARc, 8)
    BY DEF InRange
  <2> QED BY ONLY <2>2, <2>3 DEF Vec
<1>9. 1 \in 1 .. 17 /\ 2 \in 1 .. 17 /\ 3 \in 1 .. 17 /\ 4 \in 1 .. 17
  OBVIOUS
<1>10. q.Nc = p.Nc
  <2>1. \A j \in 1 .. 4 : x[Place(j, 1)] = p.Nc[j]
    BY <1>2, <1>7, <1>9
  <2>2. Vec(p.Nc, 4)
    BY DEF InOrder
  <2> QED BY ONLY <1>6, <2>1, <2>2 DEF Vec
<1>11. q.bc = p.bc
  <2>1. \A j \in 1 .. 4 : x[Place(j, 2)] = p.bc[j]
    BY <1>2, <1>7, <1>9
  <2>2. Vec(p.bc, 4)
    BY DEF InOrder
  <2> QED BY ONLY <1>6, <2>1, <2>2 DEF Vec
<1>12. q.Mc = p.Mc
  <2>1. \A j \in 1 .. 4 : x[Place(j, 3)] = p.Mc[j]
    BY <1>2, <1>7, <1>9
  <2>2. Vec(p.Mc, 4)
    BY DEF InOrder
  <2> QED BY ONLY <1>6, <2>1, <2>2 DEF Vec
<1>13. q.xmaxc = p.xmaxc
  <2>1. \A j \in 1 .. 4 : x[Place(j, 4)] = p.xmaxc[j]
    BY <1>2, <1>7, <1>9
  <2>2. Vec(p.xmaxc, 4)
    BY DEF InOrder
  <2> QED BY ONLY <1>6, <2>1, <2>2 DEF Vec
<1>14. q.xMc = p.xMc
  <2>1. \A j \in 1 .. 4 : [n \in 1 .. 13 |-> x[Place(j, 4 + n)]] = p.xMc[j]
    <3> TAKE j \in 1 .. 4
    <3>1. \A n \in 1 .. 13 : x[Place(j, 4 + n)] = p.xMc[j][n]
      <4> TAKE n \in 1 .. 13
      <4>1. 4 + n \in 1 .. 17
        OBVIOUS
      <4> QED BY <1>2, <1>7, <4>1
    <3>2. Vec(p.xMc[j], 13)
      BY DEF InRange
    <3> QED BY ONLY <3>1, <3>2 DEF Vec
  <2>2. Vec(p.xMc, 4)
    BY DEF InOrder
  <2>3. q.xMc = [j \in 1 .. 4 |-> [n \in 1 .. 13 |-> x[Place(j, 4 + n)]]]
    BY ONLY <1>6
  <2> QED BY ONLY <2>1, <2>2, <2>3 DEF Vec
<1>15. q = p
  <2>1. p = [LARc |-> p.LARc, Nc |-> p.Nc, bc |-> p.bc, Mc |-> p.Mc,
             xmaxc |-> p.xmaxc, xMc |-> p.xMc]
    BY DEF InOrder
  <2>2. q = [LARc |-> q.LARc, Nc |-> q.Nc, bc |-> q.bc, Mc |-> q.Mc,
             xmaxc |-> q.xmaxc, xMc |-> q.xMc]
    BY ONLY <1>6
  <2> QED BY ONLY <1>8, <1>10, <1>11, <1>12, <1>13, <1>14, <2>1, <2>2
<1> QED BY <1>5, <1>15 DEF x, w

\* Whatever the bytes of a frame, its parameters fit their fields.
LEMMA CarriedInRange ==
  ASSUME NEW c, \A j \in 1 .. 33 : c[j] \in Int
  PROVE  InRange(Carried(c), Nat) /\ InOrder(Carried(c))
<1> DEFINE x == gsm_explode(c)
           q == Parameters(x)
<1>1. \A i \in 1 .. 76 : x[i] \in Nat /\ x[i] < 2^Widths[i]
  BY ExplodedFits
<1> HIDE DEF x
<1>2. q = [LARc  |-> [i \in 1 .. 8 |-> x[i]],
           Nc    |-> [j \in 1 .. 4 |-> x[Place(j, 1)]],
           bc    |-> [j \in 1 .. 4 |-> x[Place(j, 2)]],
           Mc    |-> [j \in 1 .. 4 |-> x[Place(j, 3)]],
           xmaxc |-> [j \in 1 .. 4 |-> x[Place(j, 4)]],
           xMc   |-> [j \in 1 .. 4 |-> [n \in 1 .. 13 |-> x[Place(j, 4 + n)]]]]
  BY DEF Parameters, Place
<1>3. InOrder(q)
  BY ONLY <1>2 DEF InOrder, Vec
<1>4. ASSUME NEW i \in 1 .. 8 PROVE q.LARc[i] \in 0 .. Levels(i)
  <2>1. i \in 1 .. 76
    OBVIOUS
  <2>2. q.LARc[i] = x[i]
    BY ONLY <1>2, i \in 1 .. 8
  <2>3. q.LARc[i] \in Nat /\ q.LARc[i] < 2^Widths[i]
    BY <1>1, <2>1, <2>2
  <2>4. Levels(i) \in Nat /\ 2^Widths[i] = Levels(i) + 1
    BY LevelsFit
  <2> QED BY ONLY <2>3, <2>4
<1>5. ASSUME NEW j \in 1 .. 4, NEW f \in 1 .. 17
      PROVE  /\ x[Place(j, f)] \in Nat
             /\ x[Place(j, f)] < 2^(IF f <= 4 THEN <<7, 2, 2, 6>>[f] ELSE 3)
  <2>1. PICK i \in 9 .. 76 : i = Place(j, f)
                             /\ Widths[i] = IF f <= 4 THEN <<7, 2, 2, 6>>[f] ELSE 3
    BY PlaceIs
  <2>2. i \in 1 .. 76
    OBVIOUS
  <2>3. x[i] \in Nat /\ x[i] < 2^Widths[i]
    BY <1>1, <2>2
  <2> QED BY ONLY <2>1, <2>3
<1>6. ASSUME NEW j \in 1 .. 4
      PROVE  /\ q.Nc[j] \in Nat /\ q.bc[j] \in 0 .. 3 /\ q.Mc[j] \in 0 .. 3
             /\ q.xmaxc[j] \in 0 .. 63
             /\ Vec(q.xMc[j], 13) /\ \A n \in 1 .. 13 : q.xMc[j][n] \in 0 .. 7
  <2>1. /\ q.Nc[j] = x[Place(j, 1)] /\ q.bc[j] = x[Place(j, 2)] /\ q.Mc[j] = x[Place(j, 3)]
        /\ q.xmaxc[j] = x[Place(j, 4)] /\ q.xMc[j] = [n \in 1 .. 13 |-> x[Place(j, 4 + n)]]
    BY ONLY <1>2, j \in 1 .. 4
  <2>2. 1 \in 1 .. 17 /\ 2 \in 1 .. 17 /\ 3 \in 1 .. 17 /\ 4 \in 1 .. 17
    OBVIOUS
  <2>3. x[Place(j, 1)] \in Nat
    BY ONLY <1>5, <2>2, j \in 1 .. 4
  <2>4. x[Place(j, 2)] \in Nat /\ x[Place(j, 2)] < 2^2
    <3>1. x[Place(j, 2)] \in Nat /\ x[Place(j, 2)] < 2^(IF 2 <= 4 THEN <<7, 2, 2, 6>>[2] ELSE 3)
      BY ONLY <1>5, <2>2, j \in 1 .. 4
    <3> QED BY ONLY <3>1
  <2>5. x[Place(j, 3)] \in Nat /\ x[Place(j, 3)] < 2^2
    <3>1. x[Place(j, 3)] \in Nat /\ x[Place(j, 3)] < 2^(IF 3 <= 4 THEN <<7, 2, 2, 6>>[3] ELSE 3)
      BY ONLY <1>5, <2>2, j \in 1 .. 4
    <3> QED BY ONLY <3>1
  <2>6. x[Place(j, 4)] \in Nat /\ x[Place(j, 4)] < 2^6
    <3>1. x[Place(j, 4)] \in Nat /\ x[Place(j, 4)] < 2^(IF 4 <= 4 THEN <<7, 2, 2, 6>>[4] ELSE 3)
      BY ONLY <1>5, <2>2, j \in 1 .. 4
    <3> QED BY ONLY <3>1
  <2>7. ASSUME NEW n \in 1 .. 13 PROVE q.xMc[j][n] \in 0 .. 7
    <3>1. PICK f \in 1 .. 17 : f = 4 + n /\ ~(f <= 4)
      OBVIOUS
    <3>2. x[Place(j, f)] \in Nat /\ x[Place(j, f)] < 2^3
      <4>1. x[Place(j, f)] < 2^(IF f <= 4 THEN <<7, 2, 2, 6>>[f] ELSE 3) /\ x[Place(j, f)] \in Nat
        BY ONLY <1>5, f \in 1 .. 17, j \in 1 .. 4
      <4> QED BY ONLY <3>1, <4>1
    <3>3. q.xMc[j][n] = x[Place(j, f)]
      BY ONLY <2>1, <3>1, n \in 1 .. 13
    <3> QED BY ONLY <3>2, <3>3, Powers
  <2>8. Vec(q.xMc[j], 13)
    BY ONLY <2>1 DEF Vec
  <2>9. q.bc[j] \in 0 .. 3 /\ q.Mc[j] \in 0 .. 3 /\ q.xmaxc[j] \in 0 .. 63
    BY ONLY <2>1, <2>4, <2>5, <2>6, Powers
  <2> QED BY ONLY <2>1, <2>3, <2>7, <2>8, <2>9
<1>7. Vec(q.LARc, 8)
  BY ONLY <1>2 DEF Vec
<1>8. InRange(q, Nat)
  BY ONLY <1>4, <1>6, <1>7 DEF InRange
<1> QED BY <1>3, <1>8 DEF Carried, x

-----------------------------------------------------------------------------
(* The arithmetic. *)

\* A word assigned to a word stays what it is.
LEMMA FitWordOfWord ==
  ASSUME NEW x \in Int, x >= -32768, x <= 32767
  PROVE  FitWord(x) = x
BY DEF FitWord

\* The result of assigning to a word is one.
LEMMA FitWordIsWord ==
  ASSUME NEW x \in Int
  PROVE  FitWord(x) \in Word
BY DEF FitWord, Word, MIN_WORD, MAX_WORD

\* What saturates, fits.
LEMMA SaturateIsWord ==
  ASSUME NEW x \in Int
  PROVE  saturate(x) \in Word
BY DEF saturate, Word, MIN_WORD, MAX_WORD

\* The shifts the filter uses divide by 8 and by 2^15.
LEMMA Shifts ==
  ASSUME NEW x \in Int
  PROVE  SASR(x, 3) = x \div 8 /\ SASR(x, 15) = x \div 32768
<1>1. 2^3 = 8 /\ 2^15 = 32768
  OBVIOUS
<1> QED
  BY <1>1 DEF SASR

\* The shifts of the codec, by at most 31 places, divide by something positive.
LEMMA PowerIs ==
  ASSUME NEW n \in 0 .. 31
  PROVE  2^n \in Int /\ 2^n >= 1 /\ 2^(n + 1) = 2 * 2^n
<1>1. CASE n = 0 BY <1>1
<1>2. CASE n = 1 BY <1>2
<1>3. CASE n = 2 BY <1>3
<1>4. CASE n = 3 BY <1>4
<1>5. CASE n = 4 BY <1>5
<1>6. CASE n = 5 BY <1>6
<1>7. CASE n = 6 BY <1>7
<1>8. CASE n = 7 BY <1>8
<1>9. CASE n = 8 BY <1>9
<1>10. CASE n = 9 BY <1>10
<1>11. CASE n = 10 BY <1>11
<1>12. CASE n = 11 BY <1>12
<1>13. CASE n = 12 BY <1>13
<1>14. CASE n = 13 BY <1>14
<1>15. CASE n = 14 BY <1>15
<1>16. CASE n = 15 BY <1>16
<1>17. CASE n = 16 BY <1>17
<1>18. CASE n = 17 BY <1>18
<1>19. CASE n = 18 BY <1>19
<1>20. CASE n = 19 BY <1>20
<1>21. CASE n = 20 BY <1>21
<1>22. CASE n = 21 BY <1>22
<1>23. CASE n = 22 BY <1>23
<1>24. CASE n = 23 BY <1>24
<1>25. CASE n = 24 BY <1>25
<1>26. CASE n = 25 BY <1>26
<1>27. CASE n = 26 BY <1>27
<1>28. CASE n = 27 BY <1>28
<1>29. CASE n = 28 BY <1>29
<1>30. CASE n = 29 BY <1>30
<1>31. CASE n = 30 BY <1>31
<1>32. CASE n = 31 BY <1>32
<1> QED
  BY <1>1, <1>2, <1>3, <1>4, <1>5, <1>6, <1>7, <1>8, <1>9, <1>10, <1>11, <1>12,
     <1>13, <1>14, <1>15, <1>16, <1>17, <1>18, <1>19, <1>20, <1>21, <1>22, <1>23,
     <1>24, <1>25, <1>26, <1>27, <1>28, <1>29, <1>30, <1>31, <1>32

\* What is shifted stays an integer.
LEMMA SasrIsInt ==
  ASSUME NEW x \in Int, NEW n \in 0 .. 31
  PROVE  SASR(x, n) \in Int
<1>1. PICK q \in Int : q = 2^n /\ q >= 1
  BY PowerIs
<1> QED BY <1>1 DEF SASR

\* The arithmetic of add.c makes words of integers, or at least integers.
LEMMA WordsOf ==
  ASSUME NEW a \in Int, NEW b \in Int
  PROVE  /\ GSM_ADD(a, b) \in Word /\ GSM_SUB(a, b) \in Word
         /\ GSM_ADD(a, b) \in Int /\ GSM_SUB(a, b) \in Int
         /\ GSM_MULT(a, b) \in Int /\ GSM_MULT_R(a, b) \in Int
         /\ gsm_mult(a, b) \in Int /\ gsm_mult_r(a, b) \in Int
         /\ GSM_ABS(a) \in Int
<1>1. a + b \in Int /\ a - b \in Int
  OBVIOUS
<1>2. GSM_ADD(a, b) \in Word /\ GSM_SUB(a, b) \in Word
  BY <1>1, SaturateIsWord DEF GSM_ADD, GSM_SUB
<1>3. \A w : w \in Word => w \in Int
  BY DEF Word
<1>4. a * b \in Int /\ a * b + 16384 \in Int
  OBVIOUS
<1>5. \A x \in Int : SASR(x, 15) \in Int
  BY SasrIsInt
<1>6. GSM_MULT(a, b) \in Int /\ GSM_MULT_R(a, b) \in Int
  BY ONLY <1>4, <1>5 DEF GSM_MULT, GSM_MULT_R
<1>7. FitWord(GSM_MULT_R(a, b)) \in Int
  BY <1>3, <1>6, FitWordIsWord
<1>8. gsm_mult(a, b) \in Int /\ gsm_mult_r(a, b) \in Int
  BY ONLY <1>6, <1>7 DEF gsm_mult, gsm_mult_r, MAX_WORD
<1>9. GSM_ABS(a) \in Int
  BY DEF GSM_ABS, MAX_WORD, MIN_WORD
<1> QED BY <1>2, <1>3, <1>6, <1>8, <1>9

\* The absolute value of a word is a word, and that of MIN_WORD the greatest.
LEMMA AbsOf ==
  ASSUME NEW a \in Word
  PROVE  /\ GSM_ABS(a) \in Nat /\ GSM_ABS(a) <= 32767 /\ a <= GSM_ABS(a)
         /\ a # MIN_WORD => -a <= GSM_ABS(a)
         /\ a = MIN_WORD => GSM_ABS(a) = 32767
BY DEF GSM_ABS, Word, MIN_WORD, MAX_WORD

\* gsm_norm shifts by 0 to 31 places.
LEMMA NormIs ==
  ASSUME NEW a \in Int
  PROVE  gsm_norm(a) \in 0 .. 31
<1> DEFINE m == IF a < 0 THEN -a - 1 ELSE a
           Fills(n) == (n < 31 => m >= 2^(30 - n)) /\ (n > 0 => m < 2^(31 - n))
           T == {n \in Nat : n = 31 \/ (n < 31 /\ m >= 2^(30 - n))}
<1>1. m \in Int
  OBVIOUS
<1> HIDE DEF m
<1>2. T \in SUBSET Nat /\ T # {}
  <2>1. 31 \in T
    OBVIOUS
  <2> QED BY <2>1
<1>3. PICK x \in T : \A y \in T : x <= y
  <2> HIDE DEF T
  <2> QED BY <1>2, LeastOf
<1>4. x \in 0 .. 31 /\ (x < 31 => m >= 2^(30 - x))
  BY <1>3
<1>5. x > 0 => m < 2^(31 - x)
  <2>1. SUFFICES ASSUME x > 0 PROVE m < 2^(31 - x)
    OBVIOUS
  <2>2. PICK y \in 0 .. 30 : y = x - 1 /\ 30 - y = 31 - x
    BY <1>4, <2>1
  <2>3. y \notin T
    <3>1. ~(x <= y)
      BY <1>4, <2>2
    <3> HIDE DEF T
    <3> QED BY <1>3, <3>1
  <2>4. ~(m >= 2^(30 - y))
    BY <2>2, <2>3
  <2>5. 30 - y \in 0 .. 31
    OBVIOUS
  <2>6. PICK q \in Int : q = 2^(30 - y)
    BY <2>5, PowerIs
  <2>7. m < q
    BY <1>1, <2>4, <2>6
  <2> QED BY <2>2, <2>6, <2>7
<1>6. \E n \in 0 .. 31 : Fills(n)
  BY <1>4, <1>5
<1>7. (CHOOSE n \in 0 .. 31 : Fills(n)) \in 0 .. 31
  <2> HIDE DEF Fills
  <2> QED BY ONLY <1>6
<1>8. gsm_norm(a) = IF a <= -(2^30) THEN 0 ELSE CHOOSE n \in 0 .. 31 : Fills(n)
  BY DEF gsm_norm, m
<1> HIDE DEF Fills
<1>9. 0 \in 0 .. 31
  OBVIOUS
<1> QED BY ONLY <1>7, <1>8, <1>9

-----------------------------------------------------------------------------
(* Loops. *)

\* The course of a loop of n rounds.
Course(g, n, init, B) == g = [i \in 0 .. n |-> IF i = 0 THEN init ELSE B[<<g[i - 1], i>>]]

\* A loop whose rounds lead from each of some sets into the next goes through them.
LEMMA RoundsExist ==
  ASSUME NEW n \in Nat, NEW init, NEW J, NEW B, init \in J[0],
         \A i \in 1 .. n : \A c \in J[i - 1] : B[<<c, i>>] \in J[i]
  PROVE  \E g : Course(g, n, init, B) /\ \A i \in 0 .. n : g[i] \in J[i]
<1> DEFINE All(m, g) == [i \in 0 .. m |-> IF i = 0 THEN init ELSE B[<<g[i - 1], i>>]]
           Through(m) == m <= n => \E g : g = All(m, g) /\ \A i \in 0 .. m : g[i] \in J[i]
           T == {m \in Nat : Through(m)}
<1>1. 0 \in T
  <2>1. PICK g : g = [i \in 0 .. 0 |-> init]
    OBVIOUS
  <2>2. g = All(0, g) /\ \A i \in 0 .. 0 : g[i] \in J[i]
    BY <2>1
  <2> QED BY <2>2
<1>2. \A m \in T : m + 1 \in T
  <2>1. ASSUME NEW m \in Nat, Through(m) PROVE Through(m + 1)
    <3>1. SUFFICES ASSUME m + 1 <= n
                   PROVE  \E g : g = All(m + 1, g) /\ \A i \in 0 .. m + 1 : g[i] \in J[i]
      OBVIOUS
    <3>2. PICK g : g = All(m, g) /\ \A i \in 0 .. m : g[i] \in J[i]
      BY <2>1, <3>1
    <3>3. PICK l \in 1 .. n : l = m + 1 /\ l - 1 = m
      BY <3>1
    <3>4. PICK x : x = B[<<g[m], l>>]
      OBVIOUS
    <3>5. x \in J[l]
      <4>1. g[l - 1] \in J[l - 1]
        BY <3>2, <3>3
      <4> QED BY <3>3, <3>4, <4>1
    <3>6. PICK h : h = [i \in 0 .. l |-> IF i <= m THEN g[i] ELSE x]
      OBVIOUS
    <3>7. \A i \in 0 .. l : h[i] = IF i <= m THEN g[i] ELSE x
      BY <3>6
    <3>8. \A i \in 0 .. l : h[i] \in J[i]
      <4> TAKE i \in 0 .. l
      <4>1. CASE i <= m
        <5>1. i \in 0 .. m
          BY <4>1
        <5> QED BY <3>2, <3>7, <4>1, <5>1
      <4>2. CASE i > m
        <5>1. i = l /\ ~(i <= m)
          BY <3>3, <4>2
        <5> QED BY <3>5, <3>7, <5>1
      <4> QED BY <3>3, <4>1, <4>2
    <3>9. \A i \in 0 .. l : h[i] = IF i = 0 THEN init ELSE B[<<h[i - 1], i>>]
      <4> TAKE i \in 0 .. l
      <4>1. CASE i = 0
        <5>1. g[0] = init
          BY <3>2
        <5>2. 0 \in 0 .. l /\ 0 <= m
          BY <3>3
        <5>3. h[0] = init
          BY ONLY <3>7, <5>1, <5>2
        <5> QED BY ONLY <4>1, <5>3
      <4>2. CASE i # 0 /\ i <= m
        <5>1. i - 1 \in 0 .. l /\ i - 1 <= m /\ i \in 0 .. m
          BY <3>3, <4>2
        <5>2. g[i] = B[<<g[i - 1], i>>]
          BY <3>2, <4>2, <5>1
        <5> QED BY <3>7, <4>2, <5>1, <5>2
      <4>3. CASE i > m
        <5>1. i = l /\ i - 1 \in 0 .. l /\ i - 1 = m /\ i # 0 /\ ~(i <= m)
          BY <3>3, <4>3
        <5> QED BY <3>4, <3>7, <5>1
      <4> QED BY <3>3, <4>1, <4>2, <4>3
    <3>10. h = All(l, h)
      BY <3>6, <3>9
    <3> HIDE DEF All
    <3> QED BY <3>3, <3>8, <3>10
  <2> HIDE DEF Through
  <2> QED BY <2>1
<1>3. n \in T
  <2>1. T \in SUBSET Nat
    OBVIOUS
  <2> HIDE DEF T
  <2>2. \A m \in Nat : m \in T
    BY ONLY <1>1, <1>2, <2>1, AllOf
  <2> QED BY ONLY <2>2, n \in Nat
<1> QED BY <1>3 DEF Course

\* What is in one set after another is in the last.
LEMMA RoundsIn ==
  ASSUME NEW n \in Nat, NEW h, NEW J, h[0] \in J[0],
         \A i \in 1 .. n : h[i - 1] \in J[i - 1] => h[i] \in J[i]
  PROVE  h[n] \in J[n]
<1> DEFINE In(m) == m <= n => h[m] \in J[m]
           T == {m \in Nat : In(m)}
<1>1. 0 \in T
  OBVIOUS
<1>2. \A m \in T : m + 1 \in T
  <2>1. ASSUME NEW m \in Nat, In(m) PROVE In(m + 1)
    <3>1. SUFFICES ASSUME m + 1 <= n PROVE h[m + 1] \in J[m + 1]
      OBVIOUS
    <3>2. PICK l \in 1 .. n : l = m + 1 /\ l - 1 = m
      BY <3>1
    <3>3. h[l - 1] \in J[l - 1]
      BY <2>1, <3>1, <3>2
    <3> QED BY <3>2, <3>3
  <2> HIDE DEF In
  <2> QED BY <2>1
<1>3. n \in T
  <2>1. T \in SUBSET Nat
    OBVIOUS
  <2> HIDE DEF T
  <2>2. \A m \in Nat : m \in T
    BY ONLY <1>1, <1>2, <2>1, AllOf
  <2> QED BY ONLY <2>2, n \in Nat
<1> QED BY <1>3

-----------------------------------------------------------------------------
(* The division. *)

\* The quotient has 15 bits.
LEMMA DivIs ==
  ASSUME NEW num \in Int, NEW denum \in Int
  PROVE  gsm_div(num, denum) \in Nat /\ gsm_div(num, denum) < 32768
<1> DEFINE Step(d, i) == IF 2 * d.num >= denum
                         THEN [num |-> 2 * d.num - denum, div |-> 2 * d.div + 1]
                         ELSE [num |-> 2 * d.num, div |-> 2 * d.div]
           init == [num |-> num, div |-> 0]
           All(f) == [i \in 0 .. 15 |-> IF i = 0 THEN init ELSE Step(f[i - 1], i)]
           after == CHOOSE f : f = All(f)
           Within(q) == [num : Int, div : {x \in Nat : x < q}]
           J == [i \in 0 .. 15 |-> Within(2^i)]
           S == [num : Int, div : Nat]
           B == [x \in S \X (1 .. 15) |-> Step(x[1], x[2])]
<1>1. gsm_div(num, denum) = IF num = 0 THEN 0 ELSE after[15].div
  BY DEF gsm_div, Loop
<1>0. \A i \in 0 .. 15 : J[i] = Within(2^i)
  OBVIOUS
<1>2. init \in J[0]
  <2>1. J[0] = Within(1)
    BY <1>0, Powers
  <2>2. init \in Within(1)
    OBVIOUS
  <2> HIDE DEF J, Within, init
  <2> QED BY <2>1, <2>2
<1>3. ASSUME NEW i \in 1 .. 15, NEW c \in J[i - 1]
      PROVE  Step(c, i) \in J[i] /\ B[<<c, i>>] = Step(c, i)
  <2>1. PICK m \in 0 .. 31 : m = i - 1 /\ m + 1 = i /\ m \in 0 .. 15
    OBVIOUS
  <2>2. PICK q \in Int : q = 2^m /\ 2 * q = 2^i
    BY <2>1, PowerIs
  <2>3. c \in Within(q) /\ J[i] = Within(2 * q)
    <3> HIDE DEF J, Within
    <3>1. m \in 0 .. 15 /\ i \in 0 .. 15
      BY <2>1
    <3>2. J[m] = Within(2^m) /\ J[i] = Within(2^i)
      BY <1>0, <3>1
    <3> QED BY <2>1, <2>2, <3>2
  <2>4. c \in S /\ c.num \in Int /\ c.div \in Nat /\ c.div < q
    BY <2>3
  <2>5. B[<<c, i>>] = Step(c, i)
    <3>1. <<c, i>> \in S \X (1 .. 15)
      BY <2>4
    <3> HIDE DEF Step, S
    <3> QED BY <3>1
  <2>6. Step(c, i) \in Within(2 * q)
    BY <2>4
  <2> HIDE DEF J, B, Step, Within
  <2> QED BY <2>3, <2>5, <2>6
<1> HIDE DEF Step, J, B, init
<1>4. \E f : f = All(f)
  <2>0. 15 \in Nat
    OBVIOUS
  <2>1. \A i \in 1 .. 15 : \A c \in J[i - 1] : B[<<c, i>>] \in J[i]
    BY <1>3
  <2>2. PICK g : Course(g, 15, init, B) /\ \A i \in 0 .. 15 : g[i] \in J[i]
    BY ONLY <1>2, <2>0, <2>1, RoundsExist
  <2>3. \A i \in 1 .. 15 : B[<<g[i - 1], i>>] = Step(g[i - 1], i)
    <3> TAKE i \in 1 .. 15
    <3>1. i - 1 \in 0 .. 15
      OBVIOUS
    <3> QED BY <1>3, <2>2, <3>1
  <2>4. \A i \in 0 .. 15 : (IF i = 0 THEN init ELSE B[<<g[i - 1], i>>])
                           = (IF i = 0 THEN init ELSE Step(g[i - 1], i))
    BY <2>3
  <2>5. g = All(g)
    BY ONLY <2>2, <2>4 DEF Course
  <2> QED BY ONLY <2>5
<1>5. after = All(after)
  <2> HIDE DEF All
  <2> QED BY ONLY <1>4 DEF after
<1> HIDE DEF after
<1>6. after[15] \in J[15]
  <2>1. after[0] \in J[0]
    BY <1>2, <1>5
  <2>2. \A i \in 1 .. 15 : after[i - 1] \in J[i - 1] => after[i] \in J[i]
    <3> TAKE i \in 1 .. 15
    <3>1. after[i] = Step(after[i - 1], i)
      BY <1>5
    <3> QED BY <1>3, <3>1
  <2> QED BY ONLY <2>1, <2>2, 15 \in Nat, RoundsIn
<1>7. after[15] \in Within(32768)
  <2>1. 2^15 = 32768 /\ 15 \in 0 .. 15
    OBVIOUS
  <2> HIDE DEF Within
  <2> QED BY ONLY <1>0, <1>6, <2>1
<1>8. PICK d : d = after[15]
  OBVIOUS
<1>9. d \in Within(32768)
  BY ONLY <1>7, <1>8
<1>10. d.div \in Nat /\ d.div < 32768
  BY ONLY <1>9
<1>11. gsm_div(num, denum) = IF num = 0 THEN 0 ELSE d.div
  BY ONLY <1>1, <1>8
<1> QED BY ONLY <1>10, <1>11

-----------------------------------------------------------------------------
(* Linear prediction. *)

\* Functions on 1 .. n are sequences, and Array keeps them.
LEMMA FcnIsSeq ==
  ASSUME NEW n \in Nat, NEW S, NEW f \in [1 .. n -> S]
  PROVE  f \in Seq(S) /\ Len(f) = n /\ Array(f) = f /\ Vec(f, n)
<1>1. f \in Seq(S) /\ Len(f) = n
  OBVIOUS
<1>2. Vec(f, n)
  BY DEF Vec
<1> QED BY <1>1, <1>2, VecArray

\* One element more.
LEMMA FcnAppend ==
  ASSUME NEW n \in Nat, NEW S, NEW f \in [1 .. n -> S], NEW x \in S, NEW m, m = n + 1
  PROVE  Append(f, x) \in [1 .. m -> S]
<1>1. f \in Seq(S) /\ Len(f) = n
  OBVIOUS
<1>2. Append(f, x) \in Seq(S) /\ Len(Append(f, x)) = m
  BY <1>1, AppendProperties
<1>3. \A y \in Seq(S) : y \in [1 .. Len(y) -> S]
  OBVIOUS
<1> QED BY ONLY <1>2, <1>3

\* The reflection coefficients are never MIN_WORD.
Narrow == {x \in Int : -32767 <= x /\ x <= 32767}

\* After i rounds of the recursion.
Schur(i) ==
  {c \in [P : Seq(Int), K : Seq(Int), r : [1 .. i -> Narrow], over : BOOLEAN,
          divisible : {TRUE}] :
     ~c.over => Len(c.P) = 9 - i /\ Len(c.K) = 8 - i}

\* It starts with the autocorrelation, and no coefficient.
LEMMA SchurStarts ==
  ASSUME NEW acf \in [1 .. 9 -> Int]
  PROVE  SchurInit(acf) \in Schur(0)
<1> DEFINE temp == gsm_norm(acf[1])
           ACF == [i \in 1 .. 9 |-> SASR(acf[i] * 2^temp, 16)]
<1>1. temp \in 0 .. 31
  BY NormIs
<1>2. PICK q \in Int : q = 2^temp
  BY <1>1, PowerIs
<1>3. \A i \in 1 .. 9 : SASR(acf[i] * q, 16) \in Int
  <2> TAKE i \in 1 .. 9
  <2>1. acf[i] * q \in Int /\ 16 \in 0 .. 31
    OBVIOUS
  <2> QED BY ONLY <2>1, SasrIsInt
<1>4. ACF \in [1 .. 9 -> Int]
  BY <1>2, <1>3
<1>5. SchurInit(acf) = [P |-> Array(ACF), K |-> Tail(Array(ACF)), r |-> <<>>, over |-> FALSE,
                        divisible |-> TRUE]
  BY DEF SchurInit
<1> HIDE DEF ACF
<1>6. Array(ACF) = ACF /\ ACF \in Seq(Int) /\ Len(ACF) = 9
  BY <1>4, FcnIsSeq, 9 \in Nat
<1>7. Tail(ACF) \in Seq(Int) /\ Len(Tail(ACF)) = 8
  <2>1. ACF # <<>>
    <3>1. Len(<<>>) = 0
      BY EmptySeq
    <3> SUFFICES ASSUME ACF = <<>> PROVE FALSE
      OBVIOUS
    <3>2. Len(ACF) = 9
      BY <1>6
    <3> QED BY <3>1, <3>2
  <2> QED BY <1>6, <2>1, HeadTailProperties
<1>8. <<>> \in [1 .. 0 -> Narrow]
  OBVIOUS
<1>9. SchurInit(acf) = [P |-> ACF, K |-> Tail(ACF), r |-> <<>>, over |-> FALSE,
                        divisible |-> TRUE]
  BY ONLY <1>5, <1>6
<1>10. 9 - 0 = 9 /\ 8 - 0 = 8
  OBVIOUS
<1>11. PICK c : c = SchurInit(acf)
  OBVIOUS
<1>12. c \in [P : Seq(Int), K : Seq(Int), r : [1 .. 0 -> Narrow], over : BOOLEAN,
              divisible : {TRUE}]
  BY ONLY <1>6, <1>7, <1>8, <1>9, <1>11
<1>13. Len(c.P) = 9 /\ Len(c.K) = 8
  BY ONLY <1>6, <1>7, <1>9, <1>11
<1> QED BY ONLY <1>10, <1>11, <1>12, <1>13 DEF Schur

\* The quotient of a round.
LEMMA QuotientIs ==
  ASSUME NEW p1 \in Int, NEW p2 \in Int
  PROVE  \E q \in Nat : q = gsm_div(GSM_ABS(p2), p1) /\ q < 32768
<1>1. PICK t \in Int : t = GSM_ABS(p2)
  BY WordsOf
<1>2. gsm_div(t, p1) \in Nat /\ gsm_div(t, p1) < 32768
  BY ONLY DivIs, t \in Int, p1 \in Int
<1> QED BY <1>1, <1>2

\* A round leaves one coefficient more, and divides by nothing smaller.
LEMMA SchurGoesOn ==
  ASSUME NEW i \in 1 .. 8, NEW c \in Schur(i - 1)
  PROVE  SchurRound(c, i) \in Schur(i)
<1> DEFINE temp == GSM_ABS(c.P[2])
           quotient == gsm_div(temp, c.P[1])
           rn == IF c.P[2] > 0 THEN -quotient ELSE quotient
<1>1. PICK m \in Nat : m = i - 1 /\ i = m + 1
  OBVIOUS
<1>2. /\ c.P \in Seq(Int) /\ c.K \in Seq(Int) /\ c.r \in [1 .. m -> Narrow] /\ c.over \in BOOLEAN
      /\ c = [P |-> c.P, K |-> c.K, r |-> c.r, over |-> c.over, divisible |-> c.divisible]
      /\ c.divisible = TRUE
      /\ ~c.over => Len(c.P) = 10 - i /\ Len(c.K) = 9 - i
  <2>1. /\ c \in [P : Seq(Int), K : Seq(Int), r : [1 .. m -> Narrow], over : BOOLEAN,
                  divisible : {TRUE}]
        /\ ~c.over => Len(c.P) = 9 - m /\ Len(c.K) = 8 - m
    BY <1>1 DEF Schur
  <2>2. 9 - m = 10 - i /\ 8 - m = 9 - i
    BY <1>1
  <2> QED BY ONLY <2>1, <2>2
<1>3. CASE c.over \/ c.P[1] < temp
  <2>1. SchurRound(c, i) = [P |-> c.P, K |-> c.K, r |-> Append(c.r, 0), over |-> TRUE,
                            divisible |-> c.divisible]
    <3>1. SchurRound(c, i) = [c EXCEPT !.over = TRUE, !.r = Append(@, 0)]
      BY <1>3 DEF SchurRound
    <3> QED BY ONLY <1>2, <3>1
  <2>2. Append(c.r, 0) \in [1 .. i -> Narrow]
    <3>1. 0 \in Narrow
      BY DEF Narrow
    <3> QED BY ONLY <1>1, <1>2, <3>1, FcnAppend
  <2>3. PICK d \in {TRUE} : d = c.divisible
    BY ONLY <1>2
  <2>4. /\ SchurRound(c, i) = [P |-> c.P, K |-> c.K, r |-> Append(c.r, 0), over |-> TRUE,
                               divisible |-> d]
        /\ c.P \in Seq(Int) /\ c.K \in Seq(Int)
    BY ONLY <1>2, <2>1, <2>3
  <2> QED BY ONLY <2>2, <2>4, d \in {TRUE} DEF Schur
<1>4. CASE ~c.over /\ ~(c.P[1] < temp)
  <2> DEFINE head == <<GSM_ADD(c.P[1], GSM_MULT_R(c.P[2], rn))>>
             tail == [m1 \in 1 .. 8 - i |-> GSM_ADD(c.P[m1 + 2], GSM_MULT_R(c.K[m1], rn))]
             K1 == [m1 \in 1 .. 8 - i |-> GSM_ADD(c.K[m1], GSM_MULT_R(c.P[m1 + 2], rn))]
  <2>1. SchurRound(c, i) = [P |-> head \o tail, K |-> Array(K1), r |-> Append(c.r, rn),
                            over |-> FALSE, divisible |-> c.divisible /\ Divisible(temp, c.P[1])]
    BY <1>4 DEF SchurRound
  <2>2. Len(c.P) = 10 - i /\ Len(c.K) = 9 - i
    BY <1>2, <1>4
  <2>3. PICK p1 \in Int, p2 \in Int : p1 = c.P[1] /\ p2 = c.P[2]
    <3>1. 1 \in 1 .. Len(c.P) /\ 2 \in 1 .. Len(c.P)
      BY <2>2
    <3> QED BY <1>2, <3>1
  <2>4. temp \in Int
    BY <2>3, WordsOf
  <2>5. PICK quo \in Nat : quo = quotient /\ quo < 32768
    <3>1. p1 \in Int /\ p2 \in Int
      BY <2>3
    <3>2. \E q \in Nat : q = gsm_div(GSM_ABS(p2), p1) /\ q < 32768
      BY ONLY <3>1, QuotientIs
    <3>3. quotient = gsm_div(GSM_ABS(p2), p1)
      BY <2>3
    <3> HIDE DEF quotient
    <3> QED BY ONLY <3>2, <3>3
  <2>6. PICK n \in Int : n = rn /\ n \in Narrow
    <3>1. rn = IF p2 > 0 THEN -quo ELSE quo
      BY <2>3, <2>5
    <3>2. -quo \in Narrow /\ quo \in Narrow /\ -quo \in Int /\ quo \in Int
      BY <2>5 DEF Narrow
    <3> HIDE DEF rn
    <3> QED BY <3>1, <3>2
  <2> HIDE DEF rn
  <2>7. GSM_ADD(p1, GSM_MULT_R(p2, n)) \in Int
    BY WordsOf
  <2>8. ASSUME NEW j \in 1 .. 8 - i
        PROVE  /\ GSM_ADD(c.P[j + 2], GSM_MULT_R(c.K[j], n)) \in Int
               /\ GSM_ADD(c.K[j], GSM_MULT_R(c.P[j + 2], n)) \in Int
    <3>1. j + 2 \in 1 .. Len(c.P) /\ j \in 1 .. Len(c.K)
      BY <2>2
    <3>2. PICK x \in Int, y \in Int : x = c.P[j + 2] /\ y = c.K[j]
      BY <1>2, <3>1
    <3>3. GSM_MULT_R(x, n) \in Int /\ GSM_MULT_R(y, n) \in Int
      BY WordsOf
    <3>4. GSM_ADD(x, GSM_MULT_R(y, n)) \in Int /\ GSM_ADD(y, GSM_MULT_R(x, n)) \in Int
      BY <3>3, WordsOf
    <3> QED BY <3>2, <3>4
  <2>9. PICK l \in Nat : l = 8 - i
    OBVIOUS
  <2>10. tail \in [1 .. l -> Int] /\ K1 \in [1 .. l -> Int]
    BY <2>6, <2>8, <2>9
  <2>11. head \in Seq(Int) /\ Len(head) = 1
    BY <2>3, <2>6, <2>7
  <2> HIDE DEF head, tail, K1
  <2>12. tail \in Seq(Int) /\ Len(tail) = l
    BY ONLY <2>10, <2>9, FcnIsSeq
  <2>13. Array(K1) \in Seq(Int) /\ Len(Array(K1)) = l
    BY ONLY <2>10, <2>9, FcnIsSeq
  <2>14. head \o tail \in Seq(Int) /\ Len(head \o tail) = 9 - i
    <3>1. head \o tail \in Seq(Int) /\ Len(head \o tail) = 1 + l
      BY ONLY <2>11, <2>12, ConcatProperties
    <3> QED BY <2>9, <3>1
  <2>15. Append(c.r, rn) \in [1 .. i -> Narrow]
    BY ONLY <1>1, <1>2, <2>6, FcnAppend
  <2>16. Len(Array(K1)) = 8 - i
    BY <2>9, <2>13
  <2>17. PICK d \in {TRUE} : d = (c.divisible /\ Divisible(temp, c.P[1]))
    <3>1. PICK a \in Int : a = temp /\ a >= 0
      BY <2>3, <2>4 DEF GSM_ABS, MIN_WORD, MAX_WORD
    <3>2. p1 >= a
      BY <1>4, <2>3, <3>1
    <3>3. Divisible(a, p1)
      BY ONLY <3>1, <3>2 DEF Divisible
    <3> QED BY <1>2, <2>3, <3>1, <3>3
  <2>18. SchurRound(c, i) = [P |-> head \o tail, K |-> Array(K1), r |-> Append(c.r, rn),
                             over |-> FALSE, divisible |-> d]
    BY ONLY <2>1, <2>17
  <2> QED BY ONLY <2>13, <2>14, <2>15, <2>16, <2>18, d \in {TRUE} DEF Schur
<1> QED BY <1>3, <1>4

\* Whatever the autocorrelation, the coefficients fit the tables of the logarithm, and
\* gsm_div is asked for fractions only.
LEMMA ReflectionIs ==
  ASSUME NEW acf \in [1 .. 9 -> Int]
  PROVE  Reflection_coefficients(acf) \in [1 .. 8 -> Narrow] /\ DivisionsFit(acf)
<1> DEFINE init == SchurInit(acf)
           All(f) == [i \in 0 .. 8 |-> IF i = 0 THEN init ELSE SchurRound(f[i - 1], i)]
           after == CHOOSE f : f = All(f)
           J == [i \in 0 .. 8 |-> Schur(i)]
           B == [x \in (UNION {J[i] : i \in 0 .. 8}) \X (1 .. 8) |-> SchurRound(x[1], x[2])]
<1>1. /\ Reflection_coefficients(acf) = IF acf[1] = 0 THEN [i \in 1 .. 8 |-> 0] ELSE after[8].r
      /\ DivisionsFit(acf) = (acf[1] = 0 \/ after[8].divisible)
  BY DEF Reflection_coefficients, DivisionsFit, Loop
<1>2. \A i \in 0 .. 8 : J[i] = Schur(i)
  OBVIOUS
<1>3. init \in J[0]
  BY <1>2, SchurStarts
<1> HIDE DEF J, init
<1>4. ASSUME NEW i \in 1 .. 8, NEW c \in J[i - 1]
      PROVE  SchurRound(c, i) \in J[i] /\ B[<<c, i>>] = SchurRound(c, i)
  <2>1. i - 1 \in 0 .. 8 /\ i \in 0 .. 8
    OBVIOUS
  <2>2. SchurRound(c, i) \in J[i]
    BY <1>2, <2>1, SchurGoesOn
  <2>3. <<c, i>> \in (UNION {J[n] : n \in 0 .. 8}) \X (1 .. 8)
    <3>1. c \in UNION {J[n] : n \in 0 .. 8}
      BY <2>1
    <3> QED BY ONLY <3>1, i \in 1 .. 8
  <2> QED BY <2>2, <2>3
<1> HIDE DEF B
<1>5. \E f : f = All(f)
  <2>1. \A i \in 1 .. 8 : \A c \in J[i - 1] : B[<<c, i>>] \in J[i]
    BY <1>4
  <2>2. PICK g : Course(g, 8, init, B) /\ \A i \in 0 .. 8 : g[i] \in J[i]
    BY ONLY <1>3, <2>1, 8 \in Nat, RoundsExist
  <2>3. \A i \in 1 .. 8 : B[<<g[i - 1], i>>] = SchurRound(g[i - 1], i)
    <3> TAKE i \in 1 .. 8
    <3>1. i - 1 \in 0 .. 8
      OBVIOUS
    <3> QED BY <1>4, <2>2, <3>1
  <2>4. \A i \in 0 .. 8 : (IF i = 0 THEN init ELSE B[<<g[i - 1], i>>])
                          = (IF i = 0 THEN init ELSE SchurRound(g[i - 1], i))
    BY <2>3
  <2>5. g = All(g)
    BY ONLY <2>2, <2>4 DEF Course
  <2> QED BY ONLY <2>5
<1>6. after = All(after)
  <2> HIDE DEF All
  <2> QED BY ONLY <1>5 DEF after
<1> HIDE DEF after
<1>7. after[8] \in J[8]
  <2>1. after[0] \in J[0]
    BY <1>3, <1>6
  <2>2. \A i \in 1 .. 8 : after[i - 1] \in J[i - 1] => after[i] \in J[i]
    <3> TAKE i \in 1 .. 8
    <3>1. after[i] = SchurRound(after[i - 1], i)
      BY <1>6
    <3> QED BY <1>4, <3>1
  <2> QED BY ONLY <2>1, <2>2, 8 \in Nat, RoundsIn
<1>8. after[8].r \in [1 .. 8 -> Narrow] /\ after[8].divisible = TRUE
  <2>1. after[8] \in Schur(8)
    BY <1>2, <1>7
  <2> QED BY ONLY <2>1 DEF Schur
<1>9. [i \in 1 .. 8 |-> 0] \in [1 .. 8 -> Narrow]
  BY DEF Narrow
<1> QED BY <1>1, <1>8, <1>9

\* The loudest of some words.
LoudestOf(m, x, N) == /\ m = Loudest(x) /\ m <= 32767
                      /\ \A i \in 1 .. N : GSM_ABS(x[i]) <= m

\* There is one, and it is a word.
LEMMA LoudestIs ==
  ASSUME NEW N \in Nat \ {0}, NEW x \in [1 .. N -> Word]
  PROVE  \E m \in Nat : LoudestOf(m, x, N)
<1> DEFINE f == [j \in 1 .. N |-> GSM_ABS(x[j])]
<1>1. \A j \in 1 .. N : f[j] \in Nat /\ f[j] <= 32767 /\ f[j] = GSM_ABS(x[j])
  BY AbsOf
<1>2. f \in [1 .. N -> Int]
  <2>1. f = [j \in 1 .. N |-> f[j]]
    OBVIOUS
  <2> HIDE DEF f
  <2> QED BY <1>1, <2>1
<1> HIDE DEF f
<1>3. /\ \E i \in 1 .. N : Max({f[j] : j \in 1 .. N}) = f[i]
      /\ \A i \in 1 .. N : Max({f[j] : j \in 1 .. N}) >= f[i]
  BY <1>2, MaxOf
<1>4. {f[j] : j \in 1 .. N} = {GSM_ABS(x[j]) : j \in 1 .. N}
  BY <1>1
<1>5. PICK m : m = Max({GSM_ABS(x[j]) : j \in 1 .. N})
  OBVIOUS
<1>9. DOMAIN x = 1 .. N
  OBVIOUS
<1>10. m = Loudest(x)
  BY <1>5, <1>9 DEF Loudest
<1>6. (\E i \in 1 .. N : m = f[i]) /\ \A i \in 1 .. N : m >= f[i]
  BY ONLY <1>3, <1>4, <1>5
<1>7. m \in Nat /\ m <= 32767
  BY <1>1, <1>6
<1>8. \A i \in 1 .. N : GSM_ABS(x[i]) <= m
  BY <1>1, <1>6
<1> QED BY ONLY <1>7, <1>8, <1>10 DEF LoudestOf

\* The factor of the scaling.
LEMMA ScalautoIs ==
  ASSUME NEW x \in [1 .. 160 -> Word]
  PROVE  \E n \in Int : n = scalauto(x) /\ n <= 4
<1>1. PICK m \in Nat : m = Loudest(x)
  <2>1. PICK N \in Nat \ {0} : N = 160
    OBVIOUS
  <2>2. x \in [1 .. N -> Word] /\ N \in Nat \ {0}
    BY <2>1
  <2>3. PICK m \in Nat : LoudestOf(m, x, N)
    BY ONLY <2>2, LoudestIs
  <2> QED BY ONLY <2>3 DEF LoudestOf
<1>2. PICK l \in Int : l = m * 65536
  OBVIOUS
<1>3. PICK g \in 0 .. 31 : g = gsm_norm(l)
  BY NormIs
<1>4. scalauto(x) = IF m = 0 THEN 0 ELSE 4 - g
  BY <1>1, <1>2, <1>3 DEF scalauto
<1>5. 4 - g \in Int /\ 4 - g <= 4
  OBVIOUS
<1> QED BY <1>4, <1>5

\* Scaling down leaves integers, scaling up again words.
LEMMA ScaledIs ==
  ASSUME NEW x \in [1 .. 160 -> Word], NEW n \in Int, n <= 4
  PROVE  Scaled(x, n) \in [1 .. 160 -> Int] /\ Rescaled(Scaled(x, n), n) \in [1 .. 160 -> Word]
<1>1. \A y \in Word : y \in Int
  BY DEF Word
<1>2. CASE ~(n > 0)
  <2>1. Scaled(x, n) = x /\ Rescaled(x, n) = x
    BY <1>2 DEF Scaled, Rescaled
  <2> QED BY <1>1, <2>1
<1>3. CASE n > 0
  <2>1. n \in 0 .. 31 /\ 15 - n \in 0 .. 31
    BY <1>3
  <2>2. PICK p \in Int, q \in Int : p = 2^(15 - n) /\ q = 2^n
    BY <2>1, PowerIs
  <2> DEFINE f == [j \in 1 .. 160 |-> GSM_MULT_R(x[j], p)]
             g == [j \in 1 .. 160 |-> FitWord(f[j] * q)]
  <2>3. x \in Seq(Word) /\ Len(x) = 160
    BY FcnIsSeq, 160 \in Nat
  <2>4. f \in [1 .. 160 -> Int]
    <3>1. \A j \in 1 .. 160 : GSM_MULT_R(x[j], p) \in Int
      <4> TAKE j \in 1 .. 160
      <4>1. x[j] \in Int
        BY <1>1
      <4> QED BY <4>1, WordsOf
    <3> QED BY <3>1
  <2>5. Scaled(x, n) = Array(f)
    BY <1>3, <2>2, <2>3 DEF Scaled
  <2> HIDE DEF f
  <2>6. Array(f) = f /\ Len(f) = 160
    BY <2>4, FcnIsSeq, 160 \in Nat
  <2>7. Rescaled(f, n) = g
    BY <1>3, <2>2, <2>6 DEF Rescaled
  <2>8. \A j \in 1 .. 160 : FitWord(f[j] * q) \in Word
    <3> TAKE j \in 1 .. 160
    <3>1. f[j] * q \in Int
      BY <2>4
    <3> QED BY ONLY <3>1, FitWordIsWord
  <2>9. g \in [1 .. 160 -> Word]
    BY <2>8
  <2> QED BY ONLY <2>4, <2>5, <2>6, <2>7, <2>9
<1> QED BY <1>2, <1>3

\* The autocorrelation of integers.
LEMMA AutocorrelationIs ==
  ASSUME NEW x \in [1 .. 160 -> Int]
  PROVE  L_ACF(x) \in [1 .. 9 -> Int]
<1> DEFINE Terms(j) == [i \in 1 .. 160 - j + 1 |-> x[i + j - 1] * x[i]]
           f == [j \in 1 .. 9 |-> 2 * SumOf(160 - j + 1, Terms(j))]
<1>1. x \in Seq(Int) /\ Len(x) = 160
  BY FcnIsSeq, 160 \in Nat
<1>2. L_ACF(x) = Array(f)
  BY <1>1 DEF L_ACF
<1>3. ASSUME NEW j \in 1 .. 9 PROVE 2 * SumOf(160 - j + 1, Terms(j)) \in Int
  <2>1. PICK n \in Nat \ {0} : n = 160 - j + 1
    OBVIOUS
  <2>2. \A i \in 1 .. n : x[i + j - 1] * x[i] \in Int
    <3> TAKE i \in 1 .. n
    <3>1. i \in 1 .. 160 /\ i + j - 1 \in 1 .. 160
      BY <2>1
    <3>2. x[i] \in Int /\ x[i + j - 1] \in Int
      BY <3>1
    <3> QED BY ONLY <3>2
  <2>3. PICK term : term = [i \in 1 .. n |-> x[i + j - 1] * x[i]]
    OBVIOUS
  <2>4. term \in [1 .. n -> Int]
    BY <2>2, <2>3
  <2>5. PICK sum \in Int : sum = SumOf(n, term)
    BY ONLY <2>1, <2>4, SumIsInt
  <2>6. term = Terms(j)
    BY <2>1, <2>3
  <2> HIDE DEF Terms
  <2>7. sum = SumOf(160 - j + 1, Terms(j))
    BY ONLY <2>1, <2>5, <2>6
  <2> QED BY ONLY <2>7, sum \in Int
<1>4. f \in [1 .. 9 -> Int]
  BY <1>3
<1> HIDE DEF f
<1>5. Array(f) = f
  BY <1>4, FcnIsSeq, 9 \in Nat
<1> QED BY ONLY <1>2, <1>4, <1>5

\* The analysis of a frame of words.
LEMMA LpcIs ==
  ASSUME NEW x \in [1 .. 160 -> Word]
  PROVE  LET n == scalauto(x)
             sc == Scaled(x, n)
         IN  /\ Reflection_coefficients(L_ACF(sc)) \in [1 .. 8 -> Narrow]
             /\ DivisionsFit(L_ACF(sc))
             /\ Rescaled(sc, n) \in [1 .. 160 -> Word]
<1>1. PICK n \in Int : n = scalauto(x) /\ n <= 4
  BY ScalautoIs
<1>2. PICK sc : sc = Scaled(x, n)
  OBVIOUS
<1>3. sc \in [1 .. 160 -> Int] /\ Rescaled(sc, n) \in [1 .. 160 -> Word]
  BY <1>1, <1>2, ScaledIs
<1>4. L_ACF(sc) \in [1 .. 9 -> Int]
  BY <1>3, AutocorrelationIs
<1>5. Reflection_coefficients(L_ACF(sc)) \in [1 .. 8 -> Narrow] /\ DivisionsFit(L_ACF(sc))
  BY <1>4, ReflectionIs
<1> QED BY ONLY <1>1, <1>2, <1>3, <1>5

\* A ratio is coded to one of its levels.
LEMMA CodedIs ==
  ASSUME NEW x \in [1 .. 8 -> Narrow]
  PROVE  Vec(Coded(x), 8) /\ \A i \in 1 .. 8 : Coded(x)[i] \in 0 .. Levels(i)
<1>1. ASSUME NEW i \in 1 .. 8, NEW y \in Int PROVE CodedLAR(i, y) \in 0 .. Levels(i)
  <2>1. /\ gsm_A[i] \in Int /\ gsm_B[i] \in Int /\ gsm_MIC[i] \in Int /\ gsm_MAC[i] \in Int
        /\ gsm_MIC[i] <= gsm_MAC[i]
    <3>1. i \in {1, 2, 3, 4, 5, 6, 7, 8}
      OBVIOUS
    <3> QED BY <3>1 DEF gsm_A, gsm_B, gsm_MIC, gsm_MAC
  <2>2. PICK a \in Int, b \in Int, lo \in Int, hi \in Int :
          a = gsm_A[i] /\ b = gsm_B[i] /\ lo = gsm_MIC[i] /\ hi = gsm_MAC[i] /\ lo <= hi
    BY ONLY <2>1
  <2>3. PICK t \in Int : t = GSM_ADD(GSM_ADD(GSM_MULT(a, y), b), 256)
    <3>1. PICK u \in Int : u = GSM_MULT(a, y)
      BY <2>2, WordsOf
    <3>2. PICK v \in Int : v = GSM_ADD(u, b)
      BY <2>2, <3>1, WordsOf
    <3>3. GSM_ADD(v, 256) \in Int
      BY ONLY WordsOf, v \in Int, 256 \in Int
    <3> QED BY ONLY <3>1, <3>2, <3>3
  <2>4. PICK level \in Int : level = SASR(t, 9)
    BY SasrIsInt, 9 \in 0 .. 31
  <2>5. CodedLAR(i, y) = IF level > hi THEN hi - lo ELSE IF level < lo THEN 0 ELSE level - lo
    BY <2>2, <2>3, <2>4 DEF CodedLAR
  <2>6. Levels(i) = hi - lo
    BY <2>2 DEF Levels
  <2> QED BY <2>2, <2>5, <2>6
<1>2. ASSUME NEW y \in Int PROVE LogAreaRatio(y) \in Int
  <2>1. PICK t \in Int : t = GSM_ABS(y)
    BY WordsOf
  <2>2. LogAreaRatio(y) = LET lar == IF t < 22118 THEN t \div 2
                                     ELSE IF t < 31130 THEN t - 11059
                                     ELSE (t - 26112) * 4
                          IN  IF y < 0 THEN -lar ELSE lar
    BY <2>1 DEF LogAreaRatio
  <2> QED BY <2>2
<1>3. \A i \in 1 .. 8 : x[i] \in Int
  BY DEF Narrow
<1>4. \A i \in 1 .. 8 : CodedLAR(i, LogAreaRatio(x[i])) \in 0 .. Levels(i)
  <2> TAKE i \in 1 .. 8
  <2>1. LogAreaRatio(x[i]) \in Int
    BY <1>2, <1>3
  <2> QED BY <1>1, <2>1
<1>5. \A i \in 1 .. 8 : Coded(x)[i] = CodedLAR(i, LogAreaRatio(x[i]))
  BY DEF Coded
<1>6. Vec(Coded(x), 8)
  BY DEF Vec, Coded
<1> QED BY <1>4, <1>5, <1>6

-----------------------------------------------------------------------------
(* The long-term predictor. *)

\* A sample of a history that is long enough.
LEMMA AgoIs ==
  ASSUME NEW m \in Nat, m >= 120, NEW hist \in [1 .. m -> Int],
         NEW i \in 1 .. 40, NEW lag \in 40 .. 120
  PROVE  Ago(hist, i, lag) \in Int
<1>1. Len(hist) = m
  BY FcnIsSeq
<1>2. m + i - lag \in 1 .. m
  <2>1. i \in Int /\ 1 <= i /\ i <= 40 /\ lag \in Int /\ 40 <= lag /\ lag <= 120
    BY ONLY i \in 1 .. 40, lag \in 40 .. 120
  <2> QED BY ONLY <2>1, m \in Nat, m >= 120
<1>3. hist[m + i - lag] \in Int
  BY <1>2
<1> QED BY ONLY <1>1, <1>3 DEF Ago

\* By how many bits a sub-frame is scaled down.
LEMMA ScalingIs ==
  ASSUME NEW d \in [1 .. 40 -> Word]
  PROVE  Scaling(d) \in 0 .. 6
<1>1. PICK N \in Nat \ {0} : N = 40
  OBVIOUS
<1>2. d \in [1 .. N -> Word] /\ N \in Nat \ {0}
  BY <1>1
<1>3. PICK m \in Nat : LoudestOf(m, d, N)
  BY ONLY <1>2, LoudestIs
<1>4. DOMAIN d = 1 .. 40
  OBVIOUS
<1>5. m = Max({GSM_ABS(d[i]) : i \in 1 .. 40})
  BY ONLY <1>3, <1>4 DEF LoudestOf, Loudest
<1>6. PICK l \in Int : l = m * 65536
  OBVIOUS
<1>7. PICK g \in 0 .. 31 : g = gsm_norm(l)
  BY NormIs
<1>8. Scaling(d) = LET temp == IF m = 0 THEN 0 ELSE g
                   IN  IF m = 0 \/ temp <= 6 THEN 6 - temp ELSE 0
  BY ONLY <1>5, <1>6, <1>7 DEF Scaling
<1>9. g \in 0 .. 31 /\ m \in Nat
  BY <1>7
<1> QED BY ONLY <1>8, <1>9

\* The lag found is one of those compared.
LEMMA BestLagIs ==
  ASSUME NEW m \in Nat, m >= 120, NEW hist \in [1 .. m -> Int],
         NEW d \in [1 .. 40 -> Word], NEW scal \in 0 .. 6
  PROVE  BestLag(d, hist, scal).Nc \in 40 .. 120
<1> DEFINE w == [i \in 1 .. 40 |-> SASR(d[i], scal)]
           Terms(lag) == [i \in 1 .. 40 |-> w[i] * Ago(hist, i, lag)]
           res == [n \in 1 .. 81 |-> SumOf(40, Terms(39 + n))]
           peak == Max({res[n] : n \in 1 .. 81})
           I == {n \in 1 .. Len(res) : res[n] = peak}
<1>1. w \in [1 .. 40 -> Int]
  <2>1. \A i \in 1 .. 40 : SASR(d[i], scal) \in Int
    <3> TAKE i \in 1 .. 40
    <3>1. d[i] \in Int
      BY DEF Word
    <3> QED BY <3>1, SasrIsInt, scal \in 0 .. 31
  <2> QED BY <2>1
<1>2. Array(w) = w
  <2> HIDE DEF w
  <2> QED BY <1>1, FcnIsSeq, 40 \in Nat
<1>3. \A n \in 1 .. 81 : SumOf(40, Terms(39 + n)) \in Int
  <2> TAKE n \in 1 .. 81
  <2> HIDE DEF w
  <2>1. PICK lag \in 40 .. 120 : lag = 39 + n
    OBVIOUS
  <2>2. \A i \in 1 .. 40 : Ago(hist, i, lag) \in Int
    BY <2>1, AgoIs
  <2>3. PICK N \in Nat \ {0} : N = 40
    OBVIOUS
  <2>4. PICK term : term = [i \in 1 .. 40 |-> w[i] * Ago(hist, i, lag)]
    OBVIOUS
  <2>5. term \in [1 .. N -> Int] /\ N \in Nat \ {0}
    <3>1. \A i \in 1 .. 40 : w[i] * Ago(hist, i, lag) \in Int
      <4> TAKE i \in 1 .. 40
      <4>1. PICK x \in Int, y \in Int : x = w[i] /\ y = Ago(hist, i, lag)
        BY <1>1, <2>2
      <4>2. x * y \in Int
        BY ONLY x \in Int, y \in Int
      <4> QED BY <4>1, <4>2
    <3> QED BY <2>3, <2>4, <3>1
  <2>6. SumOf(N, term) \in Int
    BY ONLY <2>5, SumIsInt
  <2> QED BY ONLY <2>1, <2>3, <2>4, <2>6
<1> HIDE DEF Terms
<1>4. res \in [1 .. 81 -> Int]
  BY <1>3
<1>5. BestLag(d, hist, scal).Nc = IF peak <= 0 THEN 40 ELSE 39 + (IF I # {} THEN Min(I) ELSE 0)
  <2> DEFINE Terms2(lag) == [i \in 1 .. 40 |-> Array(w)[i] * Ago(hist, i, lag)]
             res2 == Array([n \in 1 .. 81 |-> SumOf(40, Terms2(39 + n))])
             peak2 == Max({res2[n] : n \in 1 .. 81})
             I2 == {n \in 1 .. Len(res2) : res2[n] = peak2}
  <2>1. BestLag(d, hist, scal).Nc
          = IF peak2 <= 0 THEN 40 ELSE 39 + (IF I2 # {} THEN Min(I2) ELSE 0)
    BY DEF BestLag, SelectInSeq
  <2>2. \A lag : Terms2(lag) = Terms(lag)
    <3> HIDE DEF w
    <3> QED BY <1>2 DEF Terms
  <2>3. res2 = Array(res)
    <3> HIDE DEF w, Terms2
    <3> QED BY <2>2
  <2>4. Array(res) = res
    <3> HIDE DEF res
    <3>1. PICK N \in Nat : N = 81
      OBVIOUS
    <3>2. res \in [1 .. N -> Int] /\ N \in Nat
      BY ONLY <1>4, <3>1
    <3> QED BY ONLY <3>2, FcnIsSeq
  <2>5. res2 = res
    BY ONLY <2>3, <2>4
  <2> HIDE DEF res, res2
  <2> QED BY <2>1, <2>5
<1> HIDE DEF res
<1>6. PICK N \in Nat \ {0} : N = 81
  OBVIOUS
<1>7. \E i \in 1 .. 81 : peak = res[i]
  <2>1. res \in [1 .. N -> Int] /\ N \in Nat \ {0}
    BY <1>4, <1>6
  <2>2. \E i \in 1 .. N : Max({res[j] : j \in 1 .. N}) = res[i]
    BY ONLY <2>1, MaxOf
  <2> QED BY <1>6, <2>2
<1>8. Len(res) = 81
  BY <1>4, FcnIsSeq, 81 \in Nat
<1>9. I # {} /\ I \in SUBSET Nat /\ I \subseteq 1 .. 81
  <2>1. 1 .. Len(res) = 1 .. 81
    BY <1>8
  <2>2. I \subseteq 1 .. 81 /\ (1 .. 81) \subseteq Nat
    BY ONLY <2>1
  <2>3. I # {}
    BY ONLY <1>7, <2>1
  <2> QED BY ONLY <2>2, <2>3
<1>10. Min(I) \in I
  BY <1>9, MinOf
<1>11. Min(I) \in 1 .. 81
  BY ONLY <1>9, <1>10
<1>12. peak <= 0 \/ ~(peak <= 0)
  OBVIOUS
<1> HIDE DEF I, peak
<1>13. PICK n \in 1 .. 81 : n = Min(I)
  BY <1>11
<1>14. BestLag(d, hist, scal).Nc = IF peak <= 0 THEN 40 ELSE 39 + n
  BY ONLY <1>5, <1>9, <1>13
<1>15. 39 + n \in 40 .. 120 /\ 40 \in 40 .. 120
  OBVIOUS
<1> QED BY ONLY <1>14, <1>15

\* The gain has four levels.
LEMMA GainIs ==
  ASSUME NEW x, NEW p
  PROVE  CodedGain(x, p) \in 0 .. 3
<1> DEFINE temp == gsm_norm(p)
           R == SASR(x * 2^temp, 16)
           S == SASR(p * 2^temp, 16)
           Under == {bc \in 0 .. 2 : R <= gsm_mult(S, gsm_DLB[bc + 1])}
<1>1. CodedGain(x, p) \in {0, 3, IF Under = {} THEN 3 ELSE Min(Under)}
  BY DEF CodedGain
<1>2. Under \in SUBSET Nat /\ Under \subseteq 0 .. 2
  OBVIOUS
<1> HIDE DEF Under
<1>3. Under # {} => Min(Under) \in Under
  BY <1>2, MinOf
<1>4. (IF Under = {} THEN 3 ELSE Min(Under)) \in 0 .. 3
  <2>1. CASE Under = {}
    BY ONLY <2>1
  <2>2. CASE Under # {}
    <3>1. Min(Under) \in 0 .. 2
      BY ONLY <1>2, <1>3, <2>2
    <3> QED BY ONLY <2>2, <3>1
  <2> QED BY ONLY <2>1, <2>2
<1> QED BY ONLY <1>1, <1>4

\* The parameters of a sub-frame.
LEMMA LtpIs ==
  ASSUME NEW m \in Nat, m >= 120, NEW hist \in [1 .. m -> Int],
         NEW d \in [1 .. 40 -> Word]
  PROVE  LET ltp == Calculation_of_the_LTP_parameters(d, hist)
         IN  ltp.Nc \in 40 .. 120 /\ ltp.bc \in 0 .. 3
<1>1. PICK scal \in 0 .. 6 : scal = Scaling(d)
  BY ScalingIs
<1>2. BestLag(d, hist, scal).Nc \in 40 .. 120
  BY BestLagIs
<1> QED BY ONLY <1>1, <1>2, GainIs DEF Calculation_of_the_LTP_parameters

\* The gains are integers.
LEMMA GainIsInt ==
  ASSUME NEW bc \in 0 .. 3
  PROVE  gsm_QLB[bc + 1] \in Int
<1>1. bc = 0 \/ bc = 1 \/ bc = 2 \/ bc = 3
  OBVIOUS
<1>2. gsm_QLB[1] \in Int /\ gsm_QLB[2] \in Int /\ gsm_QLB[3] \in Int /\ gsm_QLB[4] \in Int
  BY DEF gsm_QLB
<1>3. CASE bc = 0
  BY ONLY <1>2, <1>3
<1>4. CASE bc = 1
  BY ONLY <1>2, <1>4
<1>5. CASE bc = 2
  BY ONLY <1>2, <1>5
<1>6. CASE bc = 3
  BY ONLY <1>2, <1>6
<1> QED BY ONLY <1>1, <1>3, <1>4, <1>5, <1>6

\* Scaling by one of the gains takes two samples no farther apart.
LEMMA ScaledNear ==
  ASSUME NEW bc \in 0 .. 3, NEW a \in Int, NEW b \in Int, NEW n \in Nat, a - b <= n
  PROVE  GSM_MULT_R(gsm_QLB[bc + 1], a) - GSM_MULT_R(gsm_QLB[bc + 1], b) <= n
<1>1. \A x \in Int : SASR(x, 15) = x \div 32768
  BY Shifts
<1>2. /\ gsm_QLB[1] = 3277 /\ gsm_QLB[2] = 11469 /\ gsm_QLB[3] = 21299
      /\ gsm_QLB[4] = 32767
  BY DEF gsm_QLB
<1>3. CASE bc = 0
  <2>1. (3277 * a + 16384) \div 32768 - (3277 * b + 16384) \div 32768 <= n
    OBVIOUS
  <2>2. 3277 * a + 16384 \in Int /\ 3277 * b + 16384 \in Int /\ gsm_QLB[bc + 1] = 3277
    BY <1>2, <1>3
  <2> QED BY ONLY <1>1, <2>1, <2>2 DEF GSM_MULT_R
<1>4. CASE bc = 1
  <2>1. (11469 * a + 16384) \div 32768 - (11469 * b + 16384) \div 32768 <= n
    OBVIOUS
  <2>2. 11469 * a + 16384 \in Int /\ 11469 * b + 16384 \in Int /\ gsm_QLB[bc + 1] = 11469
    BY <1>2, <1>4
  <2> QED BY ONLY <1>1, <2>1, <2>2 DEF GSM_MULT_R
<1>5. CASE bc = 2
  <2>1. (21299 * a + 16384) \div 32768 - (21299 * b + 16384) \div 32768 <= n
    OBVIOUS
  <2>2. 21299 * a + 16384 \in Int /\ 21299 * b + 16384 \in Int /\ gsm_QLB[bc + 1] = 21299
    BY <1>2, <1>5
  <2> QED BY ONLY <1>1, <2>1, <2>2 DEF GSM_MULT_R
<1>6. CASE bc = 3
  <2>1. (32767 * a + 16384) \div 32768 - (32767 * b + 16384) \div 32768 <= n
    OBVIOUS
  <2>2. 32767 * a + 16384 \in Int /\ 32767 * b + 16384 \in Int /\ gsm_QLB[bc + 1] = 32767
    BY <1>2, <1>6
  <2> QED BY ONLY <1>1, <2>1, <2>2 DEF GSM_MULT_R
<1> QED BY <1>3, <1>4, <1>5, <1>6

\* Nor does adding the same to both, although it saturates.
LEMMA SumNear ==
  ASSUME NEW x \in Int, NEW a \in Int, NEW b \in Int, NEW n \in Nat, a - b <= n
  PROVE  GSM_ADD(x, a) - GSM_ADD(x, b) <= n
BY DEF GSM_ADD, saturate, MIN_WORD, MAX_WORD

\* The estimate, and what it leaves.
LEMMA EstimateIs ==
  ASSUME NEW m \in Nat, m >= 120, NEW hist \in [1 .. m -> Int],
         NEW d \in [1 .. 40 -> Word], NEW bc \in 0 .. 3, NEW Nc \in 40 .. 120
  PROVE  /\ Estimate(bc, Nc, hist) \in [1 .. 40 -> Int]
         /\ Remainder(d, Estimate(bc, Nc, hist)) \in [1 .. 40 -> Word]
<1> DEFINE f == [i \in 1 .. 40 |-> GSM_MULT_R(gsm_QLB[bc + 1], Ago(hist, i, Nc))]
<1>1. PICK q \in Int : q = gsm_QLB[bc + 1]
  BY GainIsInt
<1>2. f \in [1 .. 40 -> Int]
  <2>1. \A i \in 1 .. 40 : GSM_MULT_R(q, Ago(hist, i, Nc)) \in Int
    <3> TAKE i \in 1 .. 40
    <3>1. Ago(hist, i, Nc) \in Int
      BY AgoIs
    <3> QED BY ONLY <3>1, q \in Int, WordsOf
  <2> QED BY <1>1, <2>1
<1>3. Estimate(bc, Nc, hist) = f
  <2>1. Estimate(bc, Nc, hist) = Array(f)
    BY DEF Estimate
  <2> HIDE DEF f
  <2> QED BY <1>2, <2>1, FcnIsSeq, 40 \in Nat
<1> HIDE DEF f
<1> DEFINE g == [i \in 1 .. 40 |-> GSM_SUB(d[i], f[i])]
<1>4. g \in [1 .. 40 -> Word]
  <2>1. \A i \in 1 .. 40 : GSM_SUB(d[i], f[i]) \in Word
    <3> TAKE i \in 1 .. 40
    <3>1. d[i] \in Int /\ f[i] \in Int
      BY <1>2 DEF Word
    <3> QED BY ONLY <3>1, WordsOf
  <2> QED BY <2>1
<1>5. Remainder(d, f) = g
  <2>1. Remainder(d, f) = Array(g)
    BY DEF Remainder
  <2> HIDE DEF g
  <2> QED BY <1>4, <2>1, FcnIsSeq, 40 \in Nat
<1> QED BY ONLY <1>2, <1>3, <1>4, <1>5

-----------------------------------------------------------------------------
(* The residual: weighting, grid, maximum and pulses. *)

\* The weighted residual.
LEMMA WeightingIs ==
  ASSUME NEW x \in [1 .. 40 -> Word]
  PROVE  Weighting_filter(x) \in [1 .. 40 -> Word]
<1> DEFINE E(n) == IF n \in 1 .. 40 THEN x[n] ELSE 0
           Terms(n) == [i \in 1 .. 11 |-> E(n + i - 6) * gsm_H[i]]
           f == [n \in 1 .. 40 |-> saturate(SASR(4096 + SumOf(11, Terms(n)), 13))]
<1>1. \A n \in Int : E(n) \in Int
  BY DEF Word
<1>2. \A i \in 1 .. 11 : gsm_H[i] \in Int
  <2> TAKE i \in 1 .. 11
  <2>1. i \in {1, 2, 3, 4, 5, 6, 7, 8, 9, 10, 11}
    BY ONLY i \in 1 .. 11
  <2> QED BY ONLY <2>1 DEF gsm_H
<1> HIDE DEF E
<1>3. \A n \in 1 .. 40 : saturate(SASR(4096 + SumOf(11, Terms(n)), 13)) \in Word
  <2> TAKE n \in 1 .. 40
  <2>1. PICK N \in Nat \ {0} : N = 11
    OBVIOUS
  <2>2. PICK term : term = Terms(n)
    OBVIOUS
  <2>3. \A i \in 1 .. 11 : E(n + i - 6) * gsm_H[i] \in Int
    <3> TAKE i \in 1 .. 11
    <3>1. n + i - 6 \in Int
      BY ONLY n \in 1 .. 40, i \in 1 .. 11
    <3>2. PICK a \in Int, b \in Int : a = E(n + i - 6) /\ b = gsm_H[i]
      BY <1>1, <1>2, <3>1
    <3>3. a * b \in Int
      BY ONLY a \in Int, b \in Int
    <3> QED BY <3>2, <3>3
  <2>4. term \in [1 .. N -> Int] /\ N \in Nat \ {0}
    BY <2>1, <2>2, <2>3
  <2>5. PICK sum \in Int : sum = SumOf(N, term)
    BY ONLY <2>4, SumIsInt
  <2>6. PICK y \in Int : y = 4096 + sum
    BY ONLY sum \in Int
  <2>7. SASR(y, 13) \in Int
    BY SasrIsInt, 13 \in 0 .. 31
  <2>8. saturate(SASR(y, 13)) \in Word
    BY ONLY <2>7, SaturateIsWord
  <2>9. SumOf(11, Terms(n)) = sum
    BY ONLY <2>1, <2>2, <2>5
  <2> HIDE DEF Terms
  <2> QED BY ONLY <2>6, <2>8, <2>9
<1> HIDE DEF Terms
<1>4. f \in [1 .. 40 -> Word]
  BY <1>3
<1>5. Weighting_filter(x) = Array(f)
  BY DEF Weighting_filter, Terms, E
<1> HIDE DEF f
<1>6. Array(f) = f
  BY ONLY <1>4, FcnIsSeq, 40 \in Nat
<1> QED BY ONLY <1>4, <1>5, <1>6

\* The samples of a grid.
LEMMA OnGridIs ==
  ASSUME NEW x \in [1 .. 40 -> Word], NEW m \in 0 .. 3, NEW n \in 1 .. 13
  PROVE  OnGrid(x, m, n) \in Word /\ OnGrid(x, m, n) \in Int
<1>1. m + 3 * (n - 1) + 1 \in 1 .. 40
  BY ONLY m \in 0 .. 3, n \in 1 .. 13
<1>2. x[m + 3 * (n - 1) + 1] \in Word
  BY <1>1
<1> QED BY ONLY <1>2 DEF OnGrid, Word

\* The grid selected has 13 of them.
LEMMA GridIs ==
  ASSUME NEW x \in [1 .. 40 -> Word], NEW m \in 0 .. 3
  PROVE  Grid(x, m) \in [1 .. 13 -> Word]
BY OnGridIs DEF Grid

\* The grid is one of four.
LEMMA GridSelectionIs ==
  ASSUME NEW x \in [1 .. 40 -> Word]
  PROVE  RPE_grid_selection(x) \in 0 .. 3
<1> DEFINE Squares(m) == [n \in 1 .. 13 |-> SASR(OnGrid(x, m, n), 2) * SASR(OnGrid(x, m, n), 2)]
           f == [m \in 1 .. 4 |-> 2 * SumOf(13, Squares(m - 1))]
           peak == Max({f[m] : m \in 1 .. 4})
           I == {i \in 1 .. Len(f) : f[i] = peak}
<1>1. \A m \in 1 .. 4 : 2 * SumOf(13, Squares(m - 1)) \in Int
  <2> TAKE m \in 1 .. 4
  <2>1. PICK g \in 0 .. 3 : g = m - 1
    BY ONLY m \in 1 .. 4
  <2>2. PICK N \in Nat \ {0} : N = 13
    OBVIOUS
  <2>3. PICK term : term = Squares(m - 1)
    OBVIOUS
  <2>4. \A n \in 1 .. 13 : SASR(OnGrid(x, g, n), 2) * SASR(OnGrid(x, g, n), 2) \in Int
    <3> TAKE n \in 1 .. 13
    <3>1. PICK y \in Int : y = OnGrid(x, g, n)
      BY OnGridIs
    <3>2. PICK z \in Int : z = SASR(y, 2)
      BY SasrIsInt, 2 \in 0 .. 31
    <3>3. z * z \in Int
      BY ONLY z \in Int
    <3> QED BY ONLY <3>1, <3>2, <3>3
  <2>5. term \in [1 .. N -> Int] /\ N \in Nat \ {0}
    BY <2>1, <2>2, <2>3, <2>4
  <2>6. PICK sum \in Int : sum = SumOf(N, term)
    BY ONLY <2>5, SumIsInt
  <2>7. SumOf(13, Squares(m - 1)) = sum
    BY ONLY <2>2, <2>3, <2>6
  <2> HIDE DEF Squares
  <2> QED BY ONLY <2>7, sum \in Int
<1> HIDE DEF Squares
<1>2. f \in [1 .. 4 -> Int]
  BY <1>1
<1>3. RPE_grid_selection(x) = (IF I # {} THEN Min(I) ELSE 0) - 1
  <2> DEFINE f2 == Array(f)
             peak2 == Max({f2[m] : m \in 1 .. 4})
             I2 == {i \in 1 .. Len(f2) : f2[i] = peak2}
  <2>1. RPE_grid_selection(x) = (IF I2 # {} THEN Min(I2) ELSE 0) - 1
    BY DEF RPE_grid_selection, SelectInSeq, Squares
  <2>2. f2 = f
    <3> HIDE DEF f
    <3> QED BY ONLY <1>2, FcnIsSeq, 4 \in Nat
  <2> HIDE DEF f, f2
  <2> QED BY ONLY <2>1, <2>2
<1> HIDE DEF f
<1>4. \E i \in 1 .. 4 : peak = f[i]
  <2>1. PICK N \in Nat \ {0} : N = 4
    OBVIOUS
  <2>2. f \in [1 .. N -> Int] /\ N \in Nat \ {0}
    BY <1>2, <2>1
  <2>3. \E i \in 1 .. N : Max({f[j] : j \in 1 .. N}) = f[i]
    BY ONLY <2>2, MaxOf
  <2> QED BY <2>1, <2>3
<1>5. Len(f) = 4
  BY ONLY <1>2, FcnIsSeq, 4 \in Nat
<1>6. I # {} /\ I \in SUBSET Nat /\ I \subseteq 1 .. 4
  <2>1. 1 .. Len(f) = 1 .. 4
    BY <1>5
  <2>2. I \subseteq 1 .. 4 /\ (1 .. 4) \subseteq Nat
    BY ONLY <2>1
  <2>3. I # {}
    BY ONLY <1>4, <2>1
  <2> QED BY ONLY <2>2, <2>3
<1> HIDE DEF I
<1>7. PICK n \in 1 .. 4 : n = Min(I)
  <2>1. Min(I) \in I
    BY <1>6, MinOf
  <2> QED BY ONLY <1>6, <2>1
<1>8. n - 1 \in 0 .. 3
  BY ONLY n \in 1 .. 4
<1> QED BY ONLY <1>3, <1>6, <1>7, <1>8

\* One round of the loop of APCM_quantization_xmaxc_to_exp_mant.
Normal(c) == IF c.mant <= 7 THEN [exp |-> c.exp - 1, mant |-> 2 * c.mant + 1] ELSE c

\* Where a loop gets that goes from one value to the next.
LEMMA ThreeRounds ==
  ASSUME NEW x
  PROVE  LET first == IF x > 15 THEN SASR(x, 3) - 1 ELSE 0
             start == [exp |-> first, mant |-> x - first * 8]
             last == Normal(Normal(Normal(start)))
         IN  ExpMant(x) = IF start.mant = 0 THEN [exp |-> -4, mant |-> 7]
                          ELSE [exp |-> last.exp, mant |-> last.mant - 8]
<1> DEFINE first == IF x > 15 THEN SASR(x, 3) - 1 ELSE 0
           start == [exp |-> first, mant |-> x - first * 8]
           All(f) == [i \in 0 .. 3 |-> IF i = 0 THEN start ELSE Normal(f[i - 1])]
           after == CHOOSE f : f = All(f)
<1>1. ExpMant(x) = IF x - first * 8 = 0 THEN [exp |-> -4, mant |-> 7]
                   ELSE [exp |-> after[3].exp, mant |-> after[3].mant - 8]
  BY DEF ExpMant, Loop, Normal
<1>2. start.mant = x - first * 8
  OBVIOUS
<1> HIDE DEF start
<1>3. \E f : f = All(f)
  <2>1. PICK g : g = [i \in 0 .. 3 |-> IF i = 0 THEN start ELSE IF i = 1 THEN Normal(start)
                        ELSE IF i = 2 THEN Normal(Normal(start))
                        ELSE Normal(Normal(Normal(start)))]
    OBVIOUS
  <2>2. g[0] = start /\ g[1] = Normal(start) /\ g[2] = Normal(Normal(start))
        /\ g[3] = Normal(Normal(Normal(start)))
    BY <2>1
  <2>3. \A i \in 0 .. 3 : g[i] = IF i = 0 THEN start ELSE Normal(g[i - 1])
    <3> TAKE i \in 0 .. 3
    <3>1. i = 0 \/ i = 1 \/ i = 2 \/ i = 3
      BY ONLY i \in 0 .. 3
    <3>2. CASE i = 0
      BY ONLY <2>2, <3>2
    <3>3. CASE i = 1
      BY ONLY <2>2, <3>3
    <3>4. CASE i = 2
      BY ONLY <2>2, <3>4
    <3>5. CASE i = 3
      BY ONLY <2>2, <3>5
    <3> QED BY ONLY <3>1, <3>2, <3>3, <3>4, <3>5
  <2>4. g = All(g)
    BY ONLY <2>1, <2>3
  <2> QED BY ONLY <2>4
<1>4. after = All(after)
  <2> HIDE DEF All
  <2> QED BY ONLY <1>3 DEF after
<1> HIDE DEF after
<1>5. \A i \in 0 .. 3 : after[i] = IF i = 0 THEN start ELSE Normal(after[i - 1])
  BY <1>4
<1>6. after[3] = Normal(Normal(Normal(start)))
  <2>1. after[0] = start
    BY ONLY <1>5
  <2>2. after[1] = Normal(after[0])
    BY ONLY <1>5
  <2>3. after[2] = Normal(after[1])
    BY ONLY <1>5
  <2>4. after[3] = Normal(after[2])
    BY ONLY <1>5
  <2> QED BY ONLY <2>1, <2>2, <2>3, <2>4
<1> HIDE DEF first
<1>7. ExpMant(x) = IF start.mant = 0 THEN [exp |-> -4, mant |-> 7]
                   ELSE [exp |-> Normal(Normal(Normal(start))).exp,
                         mant |-> Normal(Normal(Normal(start))).mant - 8]
  BY ONLY <1>1, <1>2, <1>6
<1> QED BY ONLY <1>7 DEF start, first

\* The table of APCM_quantization_xmaxc_to_exp_mant.
LEMMA ExpMantIs ==
  ASSUME NEW x \in Nat, x <= 63
  PROVE  ExpMant(x) =
           IF x = 0 THEN [exp |-> -4, mant |-> 7]
           ELSE IF x = 1 THEN [exp |-> -3, mant |-> 7]
           ELSE IF x <= 3 THEN [exp |-> -2, mant |-> 4 * x - 5]
           ELSE IF x <= 7 THEN [exp |-> -1, mant |-> 2 * x - 7]
           ELSE IF x <= 15 THEN [exp |-> 0, mant |-> x - 8]
           ELSE [exp |-> x \div 8 - 1, mant |-> x % 8]
<1> DEFINE first == IF x > 15 THEN SASR(x, 3) - 1 ELSE 0
           start == [exp |-> first, mant |-> x - first * 8]
           last == Normal(Normal(Normal(start)))
<1>1. ExpMant(x) = IF start.mant = 0 THEN [exp |-> -4, mant |-> 7]
                   ELSE [exp |-> last.exp, mant |-> last.mant - 8]
  BY ThreeRounds
<1>2. SASR(x, 3) = x \div 8
  BY Powers DEF SASR
<1>3. \A a, b \in Int : Normal([exp |-> a, mant |-> b])
                          = IF b <= 7 THEN [exp |-> a - 1, mant |-> 2 * b + 1]
                            ELSE [exp |-> a, mant |-> b]
  BY DEF Normal
<1>11. ASSUME NEW c, NEW a \in Int, NEW b \in Int, c = [exp |-> a, mant |-> b], b > 7
       PROVE  Normal(c) = c
  <2>1. c.mant = b /\ ~(b <= 7)
    BY <1>11
  <2> QED BY ONLY <2>1 DEF Normal
<1>4. start = IF x > 15 THEN [exp |-> x \div 8 - 1, mant |-> (x % 8) + 8]
              ELSE [exp |-> 0, mant |-> x]
  <2>1. CASE x > 15
    <3>1. x - (x \div 8 - 1) * 8 = (x % 8) + 8
      BY ONLY x \in Nat
    <3> QED BY ONLY <1>2, <2>1, <3>1
  <2>2. CASE ~(x > 15)
    <3>1. x - 0 * 8 = x
      BY ONLY x \in Nat
    <3> QED BY ONLY <2>2, <3>1
  <2> QED BY ONLY <2>1, <2>2
<1> HIDE DEF start
<1>5. CASE x = 0
  <2>1. start.mant = 0
    BY <1>4, <1>5
  <2> QED BY ONLY <1>1, <1>5, <2>1
<1>6. CASE x > 7 /\ x <= 15
  <2>1. start = [exp |-> 0, mant |-> x] /\ Normal([exp |-> 0, mant |-> x]) = [exp |-> 0, mant |-> x]
    <3>1. start = [exp |-> 0, mant |-> x]
      BY <1>4, <1>6
    <3>2. x \in Int /\ x > 7
      BY <1>6
    <3>3. Normal(start) = start
      BY ONLY <1>11, <3>1, <3>2, 0 \in Int
    <3> QED BY ONLY <3>1, <3>3
  <2>2. last = [exp |-> 0, mant |-> x]
    BY ONLY <2>1
  <2>3. start.mant # 0 /\ last.exp = 0 /\ last.mant = x
    BY <1>6, <2>1, <2>2
  <2> HIDE DEF last
  <2> QED BY <1>1, <1>6, <2>3
<1>7. CASE x > 15
  <2>1. PICK a \in Int, b \in 8 .. 15 : a = x \div 8 - 1 /\ b = (x % 8) + 8
    BY ONLY x \in Nat
  <2>2. start = [exp |-> a, mant |-> b] /\ Normal([exp |-> a, mant |-> b]) = [exp |-> a, mant |-> b]
    <3>1. start = [exp |-> a, mant |-> b]
      BY <1>4, <1>7, <2>1
    <3>2. b \in Int /\ b > 7
      BY ONLY b \in 8 .. 15
    <3>3. Normal(start) = start
      BY ONLY <1>11, <3>1, <3>2, a \in Int
    <3> QED BY ONLY <3>1, <3>3
  <2>3. last = [exp |-> a, mant |-> b]
    BY ONLY <2>2
  <2>4. start.mant # 0 /\ last.exp = a /\ last.mant = b
    BY <2>2, <2>3
  <2> HIDE DEF last
  <2>5. b - 8 = x % 8
    BY <2>1
  <2> QED BY <1>1, <1>7, <2>1, <2>4, <2>5
<1>8. CASE x > 3 /\ x <= 7
  <2>1. PICK b \in 8 .. 15 : b = 2 * x + 1
    BY <1>8
  <2>2. start = [exp |-> 0, mant |-> x]
    BY <1>4, <1>8
  <2>3. Normal([exp |-> 0, mant |-> x]) = [exp |-> -1, mant |-> b]
    BY <1>3, <1>8, <2>1
  <2>4. Normal([exp |-> -1, mant |-> b]) = [exp |-> -1, mant |-> b]
    <3>1. b \in Int /\ b > 7 /\ -1 \in Int
      BY ONLY b \in 8 .. 15
    <3> QED BY ONLY <1>11, <3>1
  <2>5. last = [exp |-> -1, mant |-> b]
    BY ONLY <2>2, <2>3, <2>4
  <2>6. start.mant # 0 /\ last.exp = -1 /\ last.mant = b
    BY <1>8, <2>2, <2>5
  <2> HIDE DEF last
  <2>7. b - 8 = 2 * x - 7
    BY <2>1
  <2> QED BY <1>1, <1>8, <2>6, <2>7
<1>9. CASE x = 2 \/ x = 3
  <2>1. PICK b \in Int, d \in 8 .. 15 : b = 2 * x + 1 /\ d = 2 * b + 1 /\ b <= 7
    BY <1>9
  <2>2. start = [exp |-> 0, mant |-> x]
    BY <1>4, <1>9
  <2>3. Normal([exp |-> 0, mant |-> x]) = [exp |-> -1, mant |-> b]
    BY <1>3, <1>9, <2>1
  <2>4. Normal([exp |-> -1, mant |-> b]) = [exp |-> -2, mant |-> d]
    BY <1>3, <2>1
  <2>5. Normal([exp |-> -2, mant |-> d]) = [exp |-> -2, mant |-> d]
    <3>1. d \in Int /\ d > 7 /\ -2 \in Int
      BY ONLY d \in 8 .. 15
    <3> QED BY ONLY <1>11, <3>1
  <2>6. last = [exp |-> -2, mant |-> d]
    BY ONLY <2>2, <2>3, <2>4, <2>5
  <2>7. start.mant # 0 /\ last.exp = -2 /\ last.mant = d
    BY <1>9, <2>2, <2>6
  <2> HIDE DEF last
  <2>8. d - 8 = 4 * x - 5 /\ x <= 3 /\ x # 0 /\ x # 1
    BY <1>9, <2>1
  <2> QED BY ONLY <1>1, <2>7, <2>8
<1>10. CASE x = 1
  <2>1. start = [exp |-> 0, mant |-> 1]
    BY <1>4, <1>10
  <2>2. Normal([exp |-> 0, mant |-> 1]) = [exp |-> -1, mant |-> 3]
    BY <1>3
  <2>3. Normal([exp |-> -1, mant |-> 3]) = [exp |-> -2, mant |-> 7]
    BY <1>3
  <2>4. Normal([exp |-> -2, mant |-> 7]) = [exp |-> -3, mant |-> 15]
    BY <1>3
  <2>5. last = [exp |-> -3, mant |-> 15]
    BY ONLY <2>1, <2>2, <2>3, <2>4
  <2>6. start.mant # 0 /\ last.exp = -3 /\ last.mant - 8 = 7
    BY <2>1, <2>5
  <2> HIDE DEF last
  <2> QED BY <1>1, <1>10, <2>6
<1> QED BY <1>5, <1>6, <1>7, <1>8, <1>9, <1>10

\* So exponent and mantissa are in range.
LEMMA ExpMantFits ==
  ASSUME NEW x \in 0 .. 63
  PROVE  ExpMant(x).exp \in -4 .. 6 /\ ExpMant(x).mant \in 0 .. 7
<1> DEFINE em == ExpMant(x)
<1>1. x \in Nat /\ x <= 63
  OBVIOUS
<1>2. x \div 8 - 1 <= 6
  BY <1>1
<1>3. x % 8 \in 0 .. 7
  BY <1>1
<1>4. em = IF x = 0 THEN [exp |-> -4, mant |-> 7]
           ELSE IF x = 1 THEN [exp |-> -3, mant |-> 7]
           ELSE IF x <= 3 THEN [exp |-> -2, mant |-> 4 * x - 5]
           ELSE IF x <= 7 THEN [exp |-> -1, mant |-> 2 * x - 7]
           ELSE IF x <= 15 THEN [exp |-> 0, mant |-> x - 8]
           ELSE [exp |-> x \div 8 - 1, mant |-> x % 8]
  BY <1>1, ExpMantIs
<1> HIDE DEF em
<1>5. em.exp = (IF x = 0 THEN -4 ELSE IF x = 1 THEN -3 ELSE IF x <= 3 THEN -2
               ELSE IF x <= 7 THEN -1 ELSE IF x <= 15 THEN 0 ELSE x \div 8 - 1)
  BY <1>4
<1>6. em.mant = (IF x = 0 THEN 7 ELSE IF x = 1 THEN 7 ELSE IF x <= 3 THEN 4 * x - 5
                ELSE IF x <= 7 THEN 2 * x - 7 ELSE IF x <= 15 THEN x - 8 ELSE x % 8)
  BY <1>4
<1>7. em.exp \in -4 .. 6
  BY <1>1, <1>2, <1>5
<1>8. em.mant \in 0 .. 7
  <2>1. CASE x > 15
    BY <1>3, <1>6, <2>1
  <2>2. CASE x <= 15
    BY <1>1, <1>6, <2>2
  <2> QED BY <1>1, <2>1, <2>2
<1> QED BY <1>7, <1>8 DEF em

\* A shift by one more.
LEMMA ShiftAgain ==
  ASSUME NEW t \in Int, NEW n \in 0 .. 5
  PROVE  SASR(SASR(t, n), 1) = SASR(t, n + 1)
<1>1. n = 0 \/ n = 1 \/ n = 2 \/ n = 3 \/ n = 4 \/ n = 5
  OBVIOUS
<1>2. 2^0 = 1 /\ 2^1 = 2 /\ 2^2 = 4 /\ 2^3 = 8 /\ 2^4 = 16 /\ 2^5 = 32 /\ 2^6 = 64
  BY Powers
<1>3. CASE n = 0 BY ONLY <1>2, <1>3, t \in Int DEF SASR
<1>4. CASE n = 1 BY ONLY <1>2, <1>4, t \in Int DEF SASR
<1>5. CASE n = 2 BY ONLY <1>2, <1>5, t \in Int DEF SASR
<1>6. CASE n = 3 BY ONLY <1>2, <1>6, t \in Int DEF SASR
<1>7. CASE n = 4 BY ONLY <1>2, <1>7, t \in Int DEF SASR
<1>8. CASE n = 5 BY ONLY <1>2, <1>8, t \in Int DEF SASR
<1> QED BY ONLY <1>1, <1>3, <1>4, <1>5, <1>6, <1>7, <1>8

\* One round of the search for the exponent.
Counting(c) == IF c.itest \/ c.temp <= 0 THEN [c EXCEPT !.itest = TRUE]
               ELSE [c EXCEPT !.exp = @ + 1, !.temp = SASR(@, 1)]

\* After i rounds of the search for the exponent of t.
Counts(c, t, i) ==
  /\ c.exp >= 0 /\ c.exp <= i
  /\ ~c.itest => c.exp = i
  /\ c.itest => c.temp <= 0
  /\ c.temp = SASR(t, c.exp)
  /\ c.exp > 0 => SASR(t, c.exp - 1) > 0
Counted(t, i) == {c \in [exp : Int, temp : Int, itest : BOOLEAN] : Counts(c, t, i)}

\* Each round shifts by one more until nothing is left.
LEMMA CountGoesOn ==
  ASSUME NEW t \in Int, NEW i \in 1 .. 6, NEW c \in Counted(t, i - 1)
  PROVE  Counting(c) \in Counted(t, i)
<1>1. c \in [exp : Int, temp : Int, itest : BOOLEAN] /\ Counts(c, t, i - 1)
  BY DEF Counted
<1>2. PICK x \in Int, y \in Int, b \in BOOLEAN : x = c.exp /\ y = c.temp /\ b = c.itest
  BY ONLY <1>1
<1>3. c.exp = x /\ c.temp = y /\ c.itest = b
  BY ONLY <1>2
<1>4. /\ x >= 0 /\ x <= i - 1
      /\ ~b => x = i - 1
      /\ b => y <= 0
      /\ y = SASR(t, x)
      /\ x > 0 => SASR(t, x - 1) > 0
  BY ONLY <1>1, <1>3 DEF Counts
<1>5. CASE b \/ y <= 0
  <2>1. PICK d : d = [c EXCEPT !.itest = TRUE]
    OBVIOUS
  <2>2. Counting(c) = d
    <3>1. c.itest \/ c.temp <= 0
      BY ONLY <1>3, <1>5
    <3> QED BY ONLY <2>1, <3>1 DEF Counting
  <2>3. d.exp = x /\ d.temp = y /\ d.itest = TRUE
    BY ONLY <1>1, <1>3, <2>1
  <2>4. d \in [exp : Int, temp : Int, itest : BOOLEAN]
    BY ONLY <1>1, <2>1
  <2>5. y <= 0 /\ x <= i
    BY <1>4, <1>5
  <2>6. Counts(d, t, i)
    BY ONLY <1>4, <2>3, <2>5 DEF Counts
  <2> QED BY ONLY <2>2, <2>4, <2>6 DEF Counted
<1>6. CASE ~b /\ ~(y <= 0)
  <2>1. PICK n \in 0 .. 5 : n = x
    BY <1>4, <1>6
  <2>2. PICK z \in Int : z = SASR(y, 1)
    BY SasrIsInt, 1 \in 0 .. 31
  <2>3. PICK w \in Int : w = x + 1
    OBVIOUS
  <2>4. PICK d : d = [c EXCEPT !.exp = @ + 1, !.temp = SASR(@, 1)]
    OBVIOUS
  <2>5. Counting(c) = d
    <3>1. ~(c.itest \/ c.temp <= 0)
      BY ONLY <1>3, <1>6
    <3> QED BY ONLY <2>4, <3>1 DEF Counting
  <2>6. d.exp = w /\ d.temp = z /\ d.itest = b
    BY ONLY <1>1, <1>3, <2>2, <2>3, <2>4
  <2>7. d \in [exp : Int, temp : Int, itest : BOOLEAN]
    <3>1. c.exp + 1 \in Int /\ SASR(c.temp, 1) \in Int
      BY <1>3, <2>2, <2>3
    <3> QED BY ONLY <1>1, <2>4, <3>1
  <2>8. z = SASR(t, w)
    <3>1. SASR(SASR(t, n), 1) = SASR(t, n + 1)
      BY ShiftAgain
    <3> QED BY ONLY <1>4, <2>1, <2>2, <2>3, <3>1
  <2>9. w >= 0 /\ w <= i /\ w = i /\ w - 1 = x
    BY <1>4, <1>6, <2>3
  <2>10. y > 0
    BY <1>6
  <2>11. Counts(d, t, i)
    BY ONLY <1>4, <1>6, <2>6, <2>8, <2>9, <2>10 DEF Counts
  <2> QED BY ONLY <2>5, <2>7, <2>11 DEF Counted
<1> QED BY ONLY <1>5, <1>6

\* The search, as CodedMaximum makes it.
Exponent(xmax) ==
  LET Count(c, n) == IF c.itest \/ c.temp <= 0
                     THEN [c EXCEPT !.itest = TRUE]
                     ELSE [c EXCEPT !.exp = @ + 1, !.temp = SASR(@, 1)]
  IN  Loop(Count, [exp |-> 0, temp |-> SASR(xmax, 9), itest |-> FALSE], 6).exp

\* The exponent that the search finds: the first shift that leaves nothing.
LEMMA ExponentIs ==
  ASSUME NEW m \in Nat, m <= 32767
  PROVE  \E x \in 0 .. 6 : /\ x = Exponent(m)
                           /\ SASR(SASR(m, 9), x) <= 0
                           /\ x > 0 => SASR(SASR(m, 9), x - 1) > 0
<1> DEFINE init == [exp |-> 0, temp |-> SASR(m, 9), itest |-> FALSE]
           All(f) == [i \in 0 .. 6 |-> IF i = 0 THEN init ELSE Counting(f[i - 1])]
           after == CHOOSE f : f = All(f)
           t == SASR(m, 9)
           J == [i \in 0 .. 6 |-> Counted(t, i)]
           B == [x \in (UNION {J[i] : i \in 0 .. 6}) \X (1 .. 6) |-> Counting(x[1])]
<1>1. Exponent(m) = after[6].exp
  BY DEF Exponent, Loop, Counting
<1>16. t \in Int /\ t >= 0 /\ t <= 63 /\ init.temp = t
  BY Powers DEF SASR
<1> HIDE DEF t
<1>2. \A i \in 0 .. 6 : J[i] = Counted(t, i)
  OBVIOUS
<1>3. init \in J[0]
  <2>1. init \in [exp : Int, temp : Int, itest : BOOLEAN]
    BY <1>16 DEF t
  <2>2. init.exp = 0 /\ init.temp = t /\ init.itest = FALSE
    BY <1>16
  <2> HIDE DEF init
  <2>3. SASR(t, 0) = t
    BY ONLY <1>16, Powers DEF SASR
  <2>4. Counts(init, t, 0)
    BY ONLY <2>2, <2>3 DEF Counts
  <2>5. init \in Counted(t, 0)
    BY ONLY <2>1, <2>4 DEF Counted
  <2> QED BY <1>2, <2>5
<1> HIDE DEF J, init
<1>4. ASSUME NEW i \in 1 .. 6, NEW c \in J[i - 1]
      PROVE  Counting(c) \in J[i] /\ B[<<c, i>>] = Counting(c)
  <2>1. i - 1 \in 0 .. 6 /\ i \in 0 .. 6
    OBVIOUS
  <2>2. Counting(c) \in J[i]
    BY <1>2, <1>16, <2>1, CountGoesOn
  <2>3. <<c, i>> \in (UNION {J[n] : n \in 0 .. 6}) \X (1 .. 6)
    <3>1. c \in UNION {J[n] : n \in 0 .. 6}
      BY <2>1
    <3> QED BY ONLY <3>1, i \in 1 .. 6
  <2> QED BY <2>2, <2>3
<1> HIDE DEF B
<1>5. \E f : f = All(f)
  <2>1. \A i \in 1 .. 6 : \A c \in J[i - 1] : B[<<c, i>>] \in J[i]
    BY <1>4
  <2>2. PICK g : Course(g, 6, init, B) /\ \A i \in 0 .. 6 : g[i] \in J[i]
    BY ONLY <1>3, <2>1, 6 \in Nat, RoundsExist
  <2>3. \A i \in 1 .. 6 : B[<<g[i - 1], i>>] = Counting(g[i - 1])
    <3> TAKE i \in 1 .. 6
    <3>1. i - 1 \in 0 .. 6
      OBVIOUS
    <3> QED BY <1>4, <2>2, <3>1
  <2>4. \A i \in 0 .. 6 : (IF i = 0 THEN init ELSE B[<<g[i - 1], i>>])
                          = (IF i = 0 THEN init ELSE Counting(g[i - 1]))
    BY <2>3
  <2>5. g = All(g)
    BY ONLY <2>2, <2>4 DEF Course
  <2> QED BY ONLY <2>5
<1>6. after = All(after)
  <2> HIDE DEF All
  <2> QED BY ONLY <1>5 DEF after
<1> HIDE DEF after
<1>7. after[6] \in J[6]
  <2>1. after[0] \in J[0]
    BY <1>3, <1>6
  <2>2. \A i \in 1 .. 6 : after[i - 1] \in J[i - 1] => after[i] \in J[i]
    <3> TAKE i \in 1 .. 6
    <3>1. after[i] = Counting(after[i - 1])
      BY <1>6
    <3> QED BY ONLY <1>4, <3>1, i \in 1 .. 6
  <2> QED BY ONLY <2>1, <2>2, 6 \in Nat, RoundsIn
<1>8. PICK c \in Counted(t, 6) : c = after[6]
  BY <1>2, <1>7
<1>9. c \in [exp : Int, temp : Int, itest : BOOLEAN] /\ Counts(c, t, 6)
  BY ONLY c \in Counted(t, 6) DEF Counted
<1>10. PICK x \in Int : x = c.exp
  BY ONLY <1>9
<1>11. x >= 0 /\ x <= 6 /\ (x > 0 => SASR(t, x - 1) > 0) /\ (x = 6 \/ SASR(t, x) <= 0)
  <2>1. c.itest => SASR(t, x) <= 0
    BY ONLY <1>9, <1>10 DEF Counts
  <2>2. ~c.itest => x = 6
    BY ONLY <1>9, <1>10 DEF Counts
  <2> QED BY ONLY <1>9, <1>10, <2>1, <2>2 DEF Counts
<1>12. SASR(t, 6) <= 0
  BY <1>16, Powers DEF SASR
<1>13. SASR(t, x) <= 0
  BY ONLY <1>11, <1>12
<1>14. x \in 0 .. 6
  BY ONLY <1>11, x \in Int
<1>15. x = Exponent(m)
  BY ONLY <1>1, <1>8, <1>10
<1> QED BY ONLY <1>11, <1>13, <1>14, <1>15 DEF t

\* What the maximum m of a block and its code q have to do with each other: the samples
\* fit a word when they are scaled by the code's exponent, and its mantissa covers them.
Covers(m, q) == LET em == ExpMant(q)
                IN  m * 2^(6 - em.exp) <= (em.mant + 9) * 2048 - 1

\* The powers of two that the samples are scaled by.
LEMMA Scales ==
  /\ 2^0 = 1 /\ 2^1 = 2 /\ 2^2 = 4 /\ 2^3 = 8 /\ 2^4 = 16 /\ 2^5 = 32
  /\ 2^6 = 64 /\ 2^7 = 128 /\ 2^8 = 256 /\ 2^9 = 512 /\ 2^10 = 1024 /\ 2^11 = 2048
OBVIOUS

\* A quiet block: the code is linear.
LEMMA QuietCovered ==
  ASSUME NEW m \in Nat, m < 512
  PROVE  m \div 32 \in 0 .. 15 /\ Covers(m, m \div 32)
<1>1. PICK q \in 0 .. 15 : q = m \div 32
  OBVIOUS
<1>2. m <= 32 * q + 31 /\ q \in Nat /\ q <= 63
  BY <1>1
<1>3. PICK em : em = ExpMant(q)
  OBVIOUS
<1>4. em = IF q = 0 THEN [exp |-> -4, mant |-> 7]
           ELSE IF q = 1 THEN [exp |-> -3, mant |-> 7]
           ELSE IF q <= 3 THEN [exp |-> -2, mant |-> 4 * q - 5]
           ELSE IF q <= 7 THEN [exp |-> -1, mant |-> 2 * q - 7]
           ELSE IF q <= 15 THEN [exp |-> 0, mant |-> q - 8]
           ELSE [exp |-> q \div 8 - 1, mant |-> q % 8]
  BY <1>2, <1>3, ExpMantIs
<1>5. CASE q = 0
  <2>1. em.exp = -4 /\ em.mant = 7
    BY ONLY <1>4, <1>5
  <2>2. 2^(6 - em.exp) = 1024
    <3>1. 6 - em.exp = 10
      BY ONLY <2>1
    <3>2. 2^10 = 1024
      BY Scales
    <3> QED BY ONLY <3>1, <3>2, Zenon
  <2>3. m * 1024 <= (em.mant + 9) * 2048 - 1
    BY ONLY <1>2, <1>5, <2>1, m \in Nat
  <2> QED BY ONLY <1>1, <1>3, <2>2, <2>3 DEF Covers
<1>6. CASE q = 1
  <2>1. em.exp = -3 /\ em.mant = 7
    BY ONLY <1>4, <1>6
  <2>2. 2^(6 - em.exp) = 512
    <3>1. 6 - em.exp = 9
      BY ONLY <2>1
    <3>2. 2^9 = 512
      BY Scales
    <3> QED BY ONLY <3>1, <3>2, Zenon
  <2>3. m * 512 <= (em.mant + 9) * 2048 - 1
    BY ONLY <1>2, <1>6, <2>1, m \in Nat
  <2> QED BY ONLY <1>1, <1>3, <2>2, <2>3 DEF Covers
<1>7. CASE q = 2 \/ q = 3
  <2>1. em.exp = -2 /\ em.mant = 4 * q - 5
    BY ONLY <1>4, <1>7
  <2>2. 2^(6 - em.exp) = 256
    <3>1. 6 - em.exp = 8
      BY ONLY <2>1
    <3>2. 2^8 = 256
      BY Scales
    <3> QED BY ONLY <3>1, <3>2, Zenon
  <2>3. m * 256 <= (em.mant + 9) * 2048 - 1
    BY ONLY <1>2, <1>7, <2>1, m \in Nat
  <2> QED BY ONLY <1>1, <1>3, <2>2, <2>3 DEF Covers
<1>8. CASE q > 3 /\ q <= 7
  <2>1. em.exp = -1 /\ em.mant = 2 * q - 7
    BY <1>4, <1>8
  <2>2. 2^(6 - em.exp) = 128
    <3>1. 6 - em.exp = 7
      BY ONLY <2>1
    <3>2. 2^7 = 128
      BY Scales
    <3> QED BY ONLY <3>1, <3>2, Zenon
  <2>3. m * 128 <= (em.mant + 9) * 2048 - 1
    BY ONLY <1>2, <1>8, <2>1, m \in Nat
  <2> QED BY ONLY <1>1, <1>3, <2>2, <2>3 DEF Covers
<1>9. CASE q > 7
  <2>1. em.exp = 0 /\ em.mant = q - 8
    BY <1>2, <1>4, <1>9
  <2>2. 2^(6 - em.exp) = 64
    <3>1. 6 - em.exp = 6
      BY ONLY <2>1
    <3>2. 2^6 = 64
      BY Scales
    <3> QED BY ONLY <3>1, <3>2, Zenon
  <2>3. m * 64 <= (em.mant + 9) * 2048 - 1
    BY ONLY <1>2, <1>9, <2>1, m \in Nat
  <2> QED BY ONLY <1>1, <1>3, <2>2, <2>3 DEF Covers
<1>10. q = 0 \/ q = 1 \/ (q = 2 \/ q = 3) \/ (q > 3 /\ q <= 7) \/ q > 7
  OBVIOUS
<1> QED BY ONLY <1>5, <1>6, <1>7, <1>8, <1>9, <1>10

\* The scale w of exponent x, and that v + 1 steps of it reach beyond m.
Reached(m, x, v, w) == w = 2^(6 - x) /\ (m + 1) * w <= (v + 1) * 2048

\* A loud block: the exponent and the four highest bits.
LEMMA LoudCovered ==
  ASSUME NEW m \in Nat, NEW x \in 1 .. 6, NEW w \in Nat, NEW v \in 8 .. 15,
         Reached(m, x, v, w)
  PROVE  v + 8 * x \in 0 .. 63 /\ Covers(m, v + 8 * x)
<1>0. w = 2^(6 - x) /\ (m + 1) * w <= (v + 1) * 2048
  BY DEF Reached
<1>1. PICK q \in 0 .. 63 : q = v + 8 * x
  OBVIOUS
<1>2. q \div 8 - 1 = x /\ q % 8 = v - 8 /\ q > 15 /\ q \in Nat /\ q <= 63
  BY <1>1
<1>3. PICK em : em = ExpMant(q)
  OBVIOUS
<1>4. em = [exp |-> x, mant |-> v - 8]
  <2>1. em = IF q = 0 THEN [exp |-> -4, mant |-> 7]
             ELSE IF q = 1 THEN [exp |-> -3, mant |-> 7]
             ELSE IF q <= 3 THEN [exp |-> -2, mant |-> 4 * q - 5]
             ELSE IF q <= 7 THEN [exp |-> -1, mant |-> 2 * q - 7]
             ELSE IF q <= 15 THEN [exp |-> 0, mant |-> q - 8]
             ELSE [exp |-> q \div 8 - 1, mant |-> q % 8]
    BY <1>2, <1>3, ExpMantIs
  <2> QED BY <1>2, <2>1
<1>5. em.exp = x /\ em.mant + 9 = v + 1
  BY <1>4
<1>6. w >= 1
  <2>1. PICK n \in 0 .. 31 : n = 6 - x
    OBVIOUS
  <2>2. n \in 0 .. 31
    OBVIOUS
  <2>3. 2^n >= 1
    BY ONLY <2>2, PowerIs
  <2>4. w = 2^n
    BY ONLY <1>0, <2>1, Zenon
  <2> QED BY ONLY <2>3, <2>4
<1>7. m * w <= (v + 1) * 2048 - 1
  <2>1. (m + 1) * w = m * w + w
    OBVIOUS
  <2>2. PICK z \in Nat : z = m * w
    OBVIOUS
  <2> QED BY <1>0, <1>6, <2>1, <2>2
<1> QED BY ONLY <1>1, <1>3, <1>0, <1>5, <1>7 DEF Covers

\* The code of the maximum of a block.
LEMMA CodeCovers ==
  ASSUME NEW m \in Nat, m <= 32767
  PROVE  \E q \in 0 .. 63 : /\ q = GSM_ADD(SASR(m, Exponent(m) + 5), Exponent(m) * 8)
                            /\ Covers(m, q)
<1>1. PICK x \in 0 .. 6 : /\ x = Exponent(m)
                          /\ SASR(SASR(m, 9), x) <= 0
                          /\ x > 0 => SASR(SASR(m, 9), x - 1) > 0
  BY ExponentIs
<1>2. \A q \in 0 .. 63 : q = SASR(m, x + 5) + x * 8 => q = GSM_ADD(SASR(m, x + 5), x * 8)
  BY DEF GSM_ADD, saturate, MIN_WORD, MAX_WORD
<1>3. CASE x = 0
  <2>1. m < 512 /\ SASR(m, x + 5) + x * 8 = m \div 32
    BY <1>1, <1>3, Scales DEF SASR
  <2>2. PICK q \in 0 .. 63 : q = m \div 32 /\ Covers(m, q)
    BY <2>1, QuietCovered
  <2> QED BY <1>1, <1>2, <2>1, <2>2
<1>4. ASSUME NEW v \in 8 .. 15, NEW w \in Nat, x \in 1 .. 6,
             v = SASR(m, x + 5), Reached(m, x, v, w)
      PROVE  \E q \in 0 .. 63 : q = GSM_ADD(SASR(m, x + 5), x * 8) /\ Covers(m, q)
  <2>1. v + 8 * x \in 0 .. 63 /\ Covers(m, v + 8 * x)
    <3>1. x \in 1 .. 6 /\ Reached(m, x, v, w)
      BY ONLY <1>4
    <3> QED BY ONLY <3>1, v \in 8 .. 15, w \in Nat, m \in Nat, LoudCovered
  <2>2. PICK q \in 0 .. 63 : q = v + 8 * x /\ Covers(m, q)
    BY <2>1
  <2>3. v + 8 * x = v + x * 8
    OBVIOUS
  <2> QED BY <1>2, <1>4, <2>2, <2>3
<1>5. CASE x = 1
  <2>1. m \div 512 >= 1 /\ (m \div 512) \div 2 <= 0
    BY <1>1, <1>5, Scales DEF SASR
  <2>2. PICK v \in 8 .. 15 : v = m \div 64
    BY <2>1
  <2>3. v = SASR(m, x + 5) /\ 32 = 2^(6 - x) /\ (m + 1) * 32 <= (v + 1) * 2048
    BY <1>5, <2>2, Scales DEF SASR
  <2>4. x \in 1 .. 6 /\ v \in 8 .. 15 /\ 32 \in Nat
    BY <1>5
  <2>5. Reached(m, x, v, 32)
    BY ONLY <2>3 DEF Reached
  <2>6. \E q \in 0 .. 63 : q = GSM_ADD(SASR(m, x + 5), x * 8) /\ Covers(m, q)
    BY ONLY <1>4, <2>3, <2>4, <2>5
  <2> QED BY ONLY <1>1, <2>6
<1>6. CASE x = 2
  <2>1. (m \div 512) \div 2 >= 1 /\ (m \div 512) \div 4 <= 0
    BY <1>1, <1>6, Scales DEF SASR
  <2>2. PICK v \in 8 .. 15 : v = m \div 128
    BY <2>1
  <2>3. v = SASR(m, x + 5) /\ 16 = 2^(6 - x) /\ (m + 1) * 16 <= (v + 1) * 2048
    BY <1>6, <2>2, Scales DEF SASR
  <2>4. x \in 1 .. 6 /\ v \in 8 .. 15 /\ 16 \in Nat
    BY <1>6
  <2>5. Reached(m, x, v, 16)
    BY ONLY <2>3 DEF Reached
  <2>6. \E q \in 0 .. 63 : q = GSM_ADD(SASR(m, x + 5), x * 8) /\ Covers(m, q)
    BY ONLY <1>4, <2>3, <2>4, <2>5
  <2> QED BY ONLY <1>1, <2>6
<1>7. CASE x = 3
  <2>1. (m \div 512) \div 4 >= 1 /\ (m \div 512) \div 8 <= 0
    BY <1>1, <1>7, Scales DEF SASR
  <2>2. PICK v \in 8 .. 15 : v = m \div 256
    BY <2>1
  <2>3. v = SASR(m, x + 5) /\ 8 = 2^(6 - x) /\ (m + 1) * 8 <= (v + 1) * 2048
    BY <1>7, <2>2, Scales DEF SASR
  <2>4. x \in 1 .. 6 /\ v \in 8 .. 15 /\ 8 \in Nat
    BY <1>7
  <2>5. Reached(m, x, v, 8)
    BY ONLY <2>3 DEF Reached
  <2>6. \E q \in 0 .. 63 : q = GSM_ADD(SASR(m, x + 5), x * 8) /\ Covers(m, q)
    BY ONLY <1>4, <2>3, <2>4, <2>5
  <2> QED BY ONLY <1>1, <2>6
<1>8. CASE x = 4
  <2>1. (m \div 512) \div 8 >= 1 /\ (m \div 512) \div 16 <= 0
    BY <1>1, <1>8, Scales DEF SASR
  <2>2. PICK v \in 8 .. 15 : v = m \div 512
    BY <2>1
  <2>3. v = SASR(m, x + 5) /\ 4 = 2^(6 - x) /\ (m + 1) * 4 <= (v + 1) * 2048
    BY <1>8, <2>2, Scales DEF SASR
  <2>4. x \in 1 .. 6 /\ v \in 8 .. 15 /\ 4 \in Nat
    BY <1>8
  <2>5. Reached(m, x, v, 4)
    BY ONLY <2>3 DEF Reached
  <2>6. \E q \in 0 .. 63 : q = GSM_ADD(SASR(m, x + 5), x * 8) /\ Covers(m, q)
    BY ONLY <1>4, <2>3, <2>4, <2>5
  <2> QED BY ONLY <1>1, <2>6
<1>9. CASE x = 5
  <2>1. (m \div 512) \div 16 >= 1 /\ (m \div 512) \div 32 <= 0
    BY <1>1, <1>9, Scales DEF SASR
  <2>2. PICK v \in 8 .. 15 : v = m \div 1024
    BY <2>1
  <2>3. v = SASR(m, x + 5) /\ 2 = 2^(6 - x) /\ (m + 1) * 2 <= (v + 1) * 2048
    BY <1>9, <2>2, Scales DEF SASR
  <2>4. x \in 1 .. 6 /\ v \in 8 .. 15 /\ 2 \in Nat
    BY <1>9
  <2>5. Reached(m, x, v, 2)
    BY ONLY <2>3 DEF Reached
  <2>6. \E q \in 0 .. 63 : q = GSM_ADD(SASR(m, x + 5), x * 8) /\ Covers(m, q)
    BY ONLY <1>4, <2>3, <2>4, <2>5
  <2> QED BY ONLY <1>1, <2>6
<1>10. CASE x = 6
  <2>1. (m \div 512) \div 32 >= 1 /\ (m \div 512) \div 64 <= 0
    BY <1>1, <1>10, Scales DEF SASR
  <2>2. PICK v \in 8 .. 15 : v = m \div 2048
    BY <2>1
  <2>3. v = SASR(m, x + 5) /\ 1 = 2^(6 - x) /\ (m + 1) * 1 <= (v + 1) * 2048
    BY <1>10, <2>2, Scales DEF SASR
  <2>4. x \in 1 .. 6 /\ v \in 8 .. 15 /\ 1 \in Nat
    BY <1>10
  <2>5. Reached(m, x, v, 1)
    BY ONLY <2>3 DEF Reached
  <2>6. \E q \in 0 .. 63 : q = GSM_ADD(SASR(m, x + 5), x * 8) /\ Covers(m, q)
    BY ONLY <1>4, <2>3, <2>4, <2>5
  <2> QED BY ONLY <1>1, <2>6
<1>11. x = 0 \/ x = 1 \/ x = 2 \/ x = 3 \/ x = 4 \/ x = 5 \/ x = 6
  OBVIOUS
<1> QED BY ONLY <1>3, <1>5, <1>6, <1>7, <1>8, <1>9, <1>10, <1>11

\* The coded maximum of a block covers its samples.
LEMMA MaximumIs ==
  ASSUME NEW x \in [1 .. 13 -> Word]
  PROVE  \E m \in Nat : \E q \in 0 .. 63 :
           /\ m <= 32767 /\ \A i \in 1 .. 13 : GSM_ABS(x[i]) <= m
           /\ q = CodedMaximum(x) /\ Covers(m, q)
<1>1. PICK N \in Nat \ {0} : N = 13
  OBVIOUS
<1>2. x \in [1 .. N -> Word] /\ N \in Nat \ {0}
  BY <1>1
<1>3. PICK m \in Nat : LoudestOf(m, x, N)
  BY ONLY <1>2, LoudestIs
<1>4. m = Loudest(x) /\ m <= 32767 /\ \A i \in 1 .. 13 : GSM_ABS(x[i]) <= m
  BY ONLY <1>1, <1>3 DEF LoudestOf
<1>5. DOMAIN x = 1 .. 13
  OBVIOUS
<1>6. m = Max({GSM_ABS(x[i]) : i \in 1 .. 13})
  BY ONLY <1>4, <1>5 DEF Loudest
<1>7. CodedMaximum(x) = LET xmax == Max({GSM_ABS(x[i]) : i \in 1 .. 13})
                        IN  GSM_ADD(SASR(xmax, Exponent(xmax) + 5), Exponent(xmax) * 8)
  BY DEF CodedMaximum, Exponent
<1>8. CodedMaximum(x) = GSM_ADD(SASR(m, Exponent(m) + 5), Exponent(m) * 8)
  BY ONLY <1>6, <1>7
<1>9. PICK q \in 0 .. 63 : q = GSM_ADD(SASR(m, Exponent(m) + 5), Exponent(m) * 8) /\ Covers(m, q)
  BY ONLY m \in Nat, <1>4, CodeCovers
<1> QED BY ONLY <1>4, <1>8, <1>9, m \in Nat

\* Factors keep an order.
LEMMA TimesLeq ==
  ASSUME NEW x \in Int, NEW y \in Int, NEW p \in Nat, x <= y
  PROVE  x * p <= y * p
OBVIOUS

\* The products of APCM_quantization stay below 2^29.
LEMMA ProductFits ==
  ASSUME NEW y \in Int, NEW M \in Int, M >= 0, M <= 7, y <= (M + 9) * 2048 - 1,
         -y <= (M + 9) * 2048 - 1 \/ (M = 7 /\ y = -32768)
  PROVE  \E z \in Int : /\ z = y * gsm_NRFAC[M + 1]
                        /\ z >= -536870912 /\ z < 536870912
<1>1. /\ gsm_NRFAC[1] = 29128 /\ gsm_NRFAC[2] = 26215 /\ gsm_NRFAC[3] = 23832
      /\ gsm_NRFAC[4] = 21846 /\ gsm_NRFAC[5] = 20165 /\ gsm_NRFAC[6] = 18725
      /\ gsm_NRFAC[7] = 17476 /\ gsm_NRFAC[8] = 16384
  BY DEF gsm_NRFAC
<1> DEFINE Fits(N) == y * N \in Int /\ y * N >= -536870912 /\ y * N < 536870912
<1>2. CASE M = 0
  <2>1. Fits(29128)
    BY <1>2
  <2>2. gsm_NRFAC[M + 1] = 29128
    BY ONLY <1>1, <1>2
  <2> QED BY ONLY <2>1, <2>2
<1>3. CASE M = 1
  <2>1. Fits(26215)
    BY <1>3
  <2>2. gsm_NRFAC[M + 1] = 26215
    BY ONLY <1>1, <1>3
  <2> QED BY ONLY <2>1, <2>2
<1>4. CASE M = 2
  <2>1. Fits(23832)
    BY <1>4
  <2>2. gsm_NRFAC[M + 1] = 23832
    BY ONLY <1>1, <1>4
  <2> QED BY ONLY <2>1, <2>2
<1>5. CASE M = 3
  <2>1. Fits(21846)
    BY <1>5
  <2>2. gsm_NRFAC[M + 1] = 21846
    BY ONLY <1>1, <1>5
  <2> QED BY ONLY <2>1, <2>2
<1>6. CASE M = 4
  <2>1. Fits(20165)
    BY <1>6
  <2>2. gsm_NRFAC[M + 1] = 20165
    BY ONLY <1>1, <1>6
  <2> QED BY ONLY <2>1, <2>2
<1>7. CASE M = 5
  <2>1. Fits(18725)
    BY <1>7
  <2>2. gsm_NRFAC[M + 1] = 18725
    BY ONLY <1>1, <1>7
  <2> QED BY ONLY <2>1, <2>2
<1>8. CASE M = 6
  <2>1. Fits(17476)
    BY <1>8
  <2>2. gsm_NRFAC[M + 1] = 17476
    BY ONLY <1>1, <1>8
  <2> QED BY ONLY <2>1, <2>2
<1>9. CASE M = 7
  <2>1. Fits(16384)
    BY <1>9
  <2>2. gsm_NRFAC[M + 1] = 16384
    BY ONLY <1>1, <1>9
  <2> QED BY ONLY <2>1, <2>2
<1>10. M = 0 \/ M = 1 \/ M = 2 \/ M = 3 \/ M = 4 \/ M = 5 \/ M = 6 \/ M = 7
  OBVIOUS
<1> QED BY ONLY <1>2, <1>3, <1>4, <1>5, <1>6, <1>7, <1>8, <1>9, <1>10

\* A sample that is covered fits a word when it is scaled, and three bits when it is coded.
LEMMA PulseIs ==
  ASSUME NEW v \in Word, NEW m \in Nat, m <= 32767, GSM_ABS(v) <= m,
         NEW q \in 0 .. 63, Covers(m, q)
  PROVE  v * 2^(6 - ExpMant(q).exp) \in Word /\ CodedPulse(v, q) \in 0 .. 7
<1>1. PICK em : em = ExpMant(q)
  OBVIOUS
<1>2. PICK E \in Int, M \in Int : /\ E = em.exp /\ M = em.mant
                                  /\ E >= -4 /\ E <= 6 /\ M >= 0 /\ M <= 7
  <2>1. em.exp \in -4 .. 6 /\ em.mant \in 0 .. 7
    BY ONLY <1>1, ExpMantFits, q \in 0 .. 63
  <2> QED BY <2>1
<1>3. PICK n \in 0 .. 31 : n = 6 - E
  BY <1>2
<1>4. PICK p \in Nat : p = 2^n /\ p >= 1
  <2>1. n \in 0 .. 31
    BY <1>3
  <2>2. 2^n \in Int /\ 2^n >= 1
    BY ONLY <2>1, PowerIs
  <2> QED BY ONLY <2>2
<1>5. 2^(6 - em.exp) = p
  BY ONLY <1>2, <1>3, <1>4, Zenon
<1>6. m * p <= (M + 9) * 2048 - 1
  <2>1. m * 2^(6 - em.exp) <= (em.mant + 9) * 2048 - 1
    BY <1>1 DEF Covers
  <2> QED BY ONLY <1>2, <1>5, <2>1
<1>7. PICK y \in Int : y = v * p
  <2>1. v \in Int
    BY DEF Word
  <2> QED BY <2>1
<1>8. PICK L \in Int : L = m * p
  OBVIOUS
<1>9. L <= (M + 9) * 2048 - 1 /\ y <= L /\ (-y <= L \/ (M = 7 /\ y = -32768))
  <2>0. L <= (M + 9) * 2048 - 1
    BY <1>6, <1>8
  <2>1. v \in Int /\ v <= m
    BY AbsOf DEF Word
  <2>2. y <= L
    BY ONLY <1>7, <1>8, <2>1, TimesLeq, p \in Nat, m \in Nat
  <2>3. CASE v # MIN_WORD
    <3>1. -v \in Int /\ -v <= m
      BY <2>1, <2>3, AbsOf
    <3>2. (-v) * p <= m * p
      BY ONLY <3>1, TimesLeq, p \in Nat, m \in Nat
    <3>3. (-v) * p = -(v * p)
      BY ONLY <2>1, p \in Nat
    <3>4. -y <= L
      BY ONLY <1>7, <1>8, <3>2, <3>3
    <3> QED BY ONLY <2>0, <2>2, <3>4
  <2>4. CASE v = MIN_WORD
    <3>1. m = 32767
      BY <2>4, AbsOf
    <3>2. L = 32767 * p
      BY <1>8, <3>1
    <3>3. p = 1
      BY ONLY <1>2, <1>4, <2>0, <3>2, p \in Nat, M \in Int
    <3>4. M = 7 /\ y = -32768
      BY <1>2, <1>7, <2>0, <2>4, <3>2, <3>3 DEF MIN_WORD
    <3> QED BY ONLY <2>0, <2>2, <3>4
  <2> QED BY ONLY <2>3, <2>4
<1>10. y \in Word
  <2>1. y >= -32768 /\ y <= 32767
    BY ONLY <1>2, <1>9, y \in Int, L \in Int, M \in Int
  <2> QED BY <2>1 DEF Word, MIN_WORD, MAX_WORD
<1>11. v * 2^(6 - em.exp) = y
  BY ONLY <1>5, <1>7
<1>12. FitWord(y) = y
  BY <1>10 DEF FitWord, Word, MIN_WORD, MAX_WORD
<1>13. PICK z \in Int : /\ z = y * gsm_NRFAC[M + 1]
                        /\ z >= -536870912 /\ z < 536870912
  <2>1. /\ y <= (M + 9) * 2048 - 1
        /\ -y <= (M + 9) * 2048 - 1 \/ (M = 7 /\ y = -32768)
    BY ONLY <1>9, y \in Int, L \in Int, M \in Int
  <2> QED BY ONLY <1>2, <2>1, y \in Int, M \in Int, ProductFits
<1>14. GSM_MULT(FitWord(y), gsm_NRFAC[M + 1]) = SASR(z, 15)
  BY ONLY <1>12, <1>13 DEF GSM_MULT
<1>15. SASR(SASR(z, 15), 12) + 4 \in 0 .. 7
  <2>1. 2^15 = 32768 /\ 2^12 = 4096
    OBVIOUS
  <2>2. SASR(SASR(z, 15), 12) = (z \div 32768) \div 4096
    BY ONLY <2>1 DEF SASR
  <2>3. PICK u \in Int : u = z \div 32768
    OBVIOUS
  <2>4. u >= -16384 /\ u < 16384
    BY ONLY <1>13, <2>3, z \in Int, u \in Int
  <2>5. (u \div 4096) + 4 \in 0 .. 7
    BY ONLY <2>4, u \in Int
  <2> QED BY ONLY <2>2, <2>3, <2>5
<1>16. CodedPulse(v, q)
       = SASR(GSM_MULT(FitWord(v * 2^(6 - em.exp)), gsm_NRFAC[em.mant + 1]), 12) + 4
  BY <1>1 DEF CodedPulse
<1>17. CodedPulse(v, q) = SASR(SASR(z, 15), 12) + 4
  BY ONLY <1>2, <1>11, <1>14, <1>16
<1> QED BY ONLY <1>1, <1>10, <1>11, <1>15, <1>17

\* Shifts by any number of places are integers.
LEMMA ShiftsAre ==
  ASSUME NEW a \in Int, NEW n \in Int
  PROVE  gsm_asr(a, n) \in Int /\ gsm_asl(a, n) \in Int
<1>0. \A x \in Int : FitWord(x) \in Int
  BY FitWordIsWord DEF Word
<1>1. ASSUME NEW l \in 0 .. 15 PROVE SASR(a, l) \in Int /\ FitWord(a * 2^l) \in Int
  <2>1. PICK p \in Int : p = 2^l
    <3>1. l \in 0 .. 31
      OBVIOUS
    <3> QED BY ONLY <3>1, PowerIs
  <2>2. a * p \in Int
    OBVIOUS
  <2>3. FitWord(a * 2^l) \in Int
    BY ONLY <1>0, <2>1, <2>2
  <2>4. l \in 0 .. 31
    OBVIOUS
  <2> QED BY ONLY <2>3, <2>4, a \in Int, SasrIsInt
<1>2. ASSUME NEW x \in Int PROVE gsm_asr(a, x) \in Int
  <2>1. CASE x >= 16
    <3>1. gsm_asr(a, x) = IF a < 0 THEN -1 ELSE 0
      BY <2>1 DEF gsm_asr
    <3> QED BY <3>1
  <2>2. CASE x <= -16
    <3>1. gsm_asr(a, x) = 0
      BY <2>2 DEF gsm_asr
    <3> QED BY <3>1
  <2>3. CASE x \in -15 .. -1
    <3>1. gsm_asr(a, x) = FitWord(a * 2^(-x))
      BY <2>3 DEF gsm_asr
    <3>2. PICK l \in 0 .. 15 : l = -x
      BY <2>3
    <3> QED BY ONLY <1>1, <3>1, <3>2
  <2>4. CASE x \in 0 .. 15
    <3>1. gsm_asr(a, x) = SASR(a, x)
      BY <2>4 DEF gsm_asr
    <3> QED BY ONLY <1>1, <2>4, <3>1
  <2> QED BY <2>1, <2>2, <2>3, <2>4
<1>3. gsm_asl(a, n) \in Int
  <2>1. CASE n >= 16
    <3>1. gsm_asl(a, n) = 0
      BY <2>1 DEF gsm_asl
    <3> QED BY <3>1
  <2>2. CASE n <= -16
    <3>1. gsm_asl(a, n) = IF a < 0 THEN -1 ELSE 0
      BY <2>2 DEF gsm_asl
    <3> QED BY <3>1
  <2>3. CASE n \in -15 .. -1
    <3>1. gsm_asl(a, n) = gsm_asr(a, -n)
      BY <2>3 DEF gsm_asl
    <3>2. PICK x \in Int : x = -n
      OBVIOUS
    <3> QED BY ONLY <1>2, <3>1, <3>2
  <2>4. CASE n \in 0 .. 15
    <3>1. gsm_asl(a, n) = FitWord(a * 2^n)
      BY <2>4 DEF gsm_asl
    <3> QED BY ONLY <1>1, <2>4, <3>1
  <2> QED BY <2>1, <2>2, <2>3, <2>4
<1> QED BY ONLY <1>2, <1>3, n \in Int

\* The decoded pulses are integers.
LEMMA InverseIs ==
  ASSUME NEW q \in 0 .. 63, NEW x \in [1 .. 13 -> 0 .. 7]
  PROVE  APCM_inverse_quantization(x, q) \in [1 .. 13 -> Int]
<1> DEFINE em == ExpMant(q)
           temp1 == gsm_FAC[em.mant + 1]
           temp2 == GSM_SUB(6, em.exp)
           temp3 == gsm_asl(1, GSM_SUB(temp2, 1))
           Pulse(c) == gsm_asr(GSM_ADD(GSM_MULT_R(temp1, (2 * c - 7) * 4096), temp3), temp2)
           f == [i \in 1 .. 13 |-> Pulse(x[i])]
<1>1. em.exp \in Int /\ em.mant \in 0 .. 7
  BY ExpMantFits
<1>2. temp1 \in Int
  <2>1. PICK i \in 1 .. 8 : i = em.mant + 1
    BY <1>1
  <2>2. gsm_FAC[i] \in Int
    <3>1. i \in {1, 2, 3, 4, 5, 6, 7, 8}
      BY ONLY i \in 1 .. 8
    <3> QED BY ONLY <3>1 DEF gsm_FAC
  <2> QED BY ONLY <2>1, <2>2
<1>3. temp2 \in Int
  BY ONLY <1>1, 6 \in Int, WordsOf
<1> HIDE DEF temp1, temp2
<1>4. temp3 \in Int
  <2>1. GSM_SUB(temp2, 1) \in Int
    BY ONLY <1>3, 1 \in Int, WordsOf
  <2> QED BY ONLY <2>1, 1 \in Int, ShiftsAre
<1> HIDE DEF temp3
<1>5. ASSUME NEW c \in Int PROVE Pulse(c) \in Int
  <2>1. PICK a \in Int : a = (2 * c - 7) * 4096
    OBVIOUS
  <2>2. GSM_MULT_R(temp1, a) \in Int
    BY ONLY <1>2, a \in Int, WordsOf
  <2>3. GSM_ADD(GSM_MULT_R(temp1, a), temp3) \in Int
    BY ONLY <1>4, <2>2, WordsOf
  <2>4. gsm_asr(GSM_ADD(GSM_MULT_R(temp1, a), temp3), temp2) \in Int
    BY ONLY <1>3, <2>3, ShiftsAre
  <2> QED BY ONLY <2>1, <2>4
<1> HIDE DEF Pulse
<1>6. f \in [1 .. 13 -> Int]
  <2>1. \A i \in 1 .. 13 : x[i] \in Int
    OBVIOUS
  <2> QED BY <1>5, <2>1
<1>7. APCM_inverse_quantization(x, q) = Array(f)
  BY DEF APCM_inverse_quantization, Pulse, temp1, temp2, temp3
<1> HIDE DEF f
<1>8. Array(f) = f
  BY ONLY <1>6, FcnIsSeq, 13 \in Nat
<1> QED BY ONLY <1>6, <1>7, <1>8

\* The excitation is made of integers.
LEMMA ExcitationIs ==
  ASSUME NEW g \in 0 .. 3, NEW q \in 0 .. 63, NEW x \in [1 .. 13 -> 0 .. 7]
  PROVE  Excitation(g, q, x) \in [1 .. 40 -> Int]
<1>1. PICK y : y = APCM_inverse_quantization(x, q)
  OBVIOUS
<1>2. y \in [1 .. 13 -> Int]
  BY <1>1, InverseIs
<1>3. RPE_grid_positioning(g, y) \in [1 .. 40 -> Int]
  <2> DEFINE On(i) == i - 1 >= g /\ (i - 1 - g) % 3 = 0 /\ (i - 1 - g) \div 3 <= 12
             Value(i) == IF On(i) THEN y[(i - 1 - g) \div 3 + 1] ELSE 0
  <2>1. \A i \in 1 .. 40 : Value(i) \in Int
    <3> TAKE i \in 1 .. 40
    <3>1. CASE On(i)
      <4>1. (i - 1 - g) \div 3 + 1 \in 1 .. 13
        BY <3>1
      <4>2. y[(i - 1 - g) \div 3 + 1] \in Int
        BY ONLY <1>2, <4>1
      <4> QED BY <3>1, <4>2
    <3>2. CASE ~On(i)
      BY <3>2
    <3> QED BY <3>1, <3>2
  <2>2. RPE_grid_positioning(g, y) = [i \in 1 .. 40 |-> Value(i)]
    BY DEF RPE_grid_positioning
  <2> HIDE DEF Value
  <2> QED BY ONLY <2>1, <2>2
<1> QED BY ONLY <1>1, <1>3 DEF Excitation

\* What the coding of a residual leaves: a grid, a maximum and pulses that fit their
\* fields, and samples that are not too large for the shift.
Regular(x, g, q, c) ==
  /\ g \in 0 .. 3 /\ q \in 0 .. 63 /\ c \in [1 .. 13 -> 0 .. 7]
  /\ \A i \in 1 .. 13 : x[i] * 2^(6 - ExpMant(q).exp) \in Word
  /\ Excitation(g, q, c) \in [1 .. 40 -> Int]

\* That is what Gsm_RPE_Encoding leaves of any residual.
LEMMA RpeIs ==
  ASSUME NEW x \in [1 .. 40 -> Word]
  PROVE  LET y == Weighting_filter(x)
             g == RPE_grid_selection(y)
             z == Grid(y, g)
             q == CodedMaximum(z)
         IN  Regular(z, g, q, Array([i \in 1 .. 13 |-> CodedPulse(z[i], q)]))
<1>1. PICK y \in [1 .. 40 -> Word] : y = Weighting_filter(x)
  BY WeightingIs
<1>2. PICK g \in 0 .. 3 : g = RPE_grid_selection(y)
  BY GridSelectionIs
<1>3. PICK z \in [1 .. 13 -> Word] : z = Grid(y, g)
  BY GridIs
<1>4. PICK m \in Nat, q \in 0 .. 63 :
        /\ m <= 32767 /\ \A i \in 1 .. 13 : GSM_ABS(z[i]) <= m
        /\ q = CodedMaximum(z) /\ Covers(m, q)
  BY ONLY z \in [1 .. 13 -> Word], MaximumIs
<1>5. PICK c : c = [i \in 1 .. 13 |-> CodedPulse(z[i], q)]
  OBVIOUS
<1>6. \A i \in 1 .. 13 : z[i] * 2^(6 - ExpMant(q).exp) \in Word /\ CodedPulse(z[i], q) \in 0 .. 7
  <2> TAKE i \in 1 .. 13
  <2>1. PICK v \in Word : v = z[i]
    OBVIOUS
  <2>2. GSM_ABS(v) <= m /\ m <= 32767 /\ Covers(m, q)
    BY ONLY <1>4, <2>1, i \in 1 .. 13
  <2>3. v * 2^(6 - ExpMant(q).exp) \in Word /\ CodedPulse(v, q) \in 0 .. 7
    BY ONLY <2>2, v \in Word, m \in Nat, q \in 0 .. 63, PulseIs
  <2> QED BY ONLY <2>1, <2>3
<1>7. c \in [1 .. 13 -> 0 .. 7]
  BY ONLY <1>5, <1>6
<1>8. Array(c) = c
  BY ONLY <1>7, FcnIsSeq, 13 \in Nat
<1>9. Excitation(g, q, c) \in [1 .. 40 -> Int]
  BY ONLY <1>7, g \in 0 .. 3, q \in 0 .. 63, ExcitationIs
<1>10. Regular(z, g, q, Array(c))
  BY ONLY <1>6, <1>7, <1>8, <1>9, g \in 0 .. 3, q \in 0 .. 63 DEF Regular
<1> QED BY ONLY <1>1, <1>2, <1>3, <1>4, <1>5, <1>10

-----------------------------------------------------------------------------
(* The short-term filter. *)

\* The ratios that are decoded are integers.
LEMMA RatiosAre ==
  ASSUME NEW x \in [1 .. 8 -> Int]
  PROVE  Decoding_of_the_coded_Log_Area_Ratios(x) \in [1 .. 8 -> Int]
<1> DEFINE temp1(i) == FitWord(GSM_ADD(x[i], gsm_MIC[i]) * 1024)
           t(i) == GSM_MULT_R(gsm_INVA[i], GSM_SUB(temp1(i), gsm_B[i] * 2))
           f == [i \in 1 .. 8 |-> GSM_ADD(t(i), t(i))]
<1>1. ASSUME NEW i \in 1 .. 8 PROVE GSM_ADD(t(i), t(i)) \in Int
  <2>1. gsm_MIC[i] \in Int /\ gsm_B[i] * 2 \in Int /\ gsm_INVA[i] \in Int
    <3>1. i \in {1, 2, 3, 4, 5, 6, 7, 8}
      BY ONLY i \in 1 .. 8
    <3> QED BY ONLY <3>1 DEF gsm_MIC, gsm_B, gsm_INVA
  <2>2. PICK a \in Int : a = GSM_ADD(x[i], gsm_MIC[i])
    <3>1. x[i] \in Int
      OBVIOUS
    <3> QED BY ONLY <2>1, <3>1, WordsOf
  <2>3. PICK b \in Int : b = a * 1024
    OBVIOUS
  <2>4. FitWord(b) \in Int
    BY ONLY b \in Int, FitWordIsWord DEF Word
  <2>5. GSM_SUB(FitWord(b), gsm_B[i] * 2) \in Int
    BY ONLY <2>1, <2>4, WordsOf
  <2>6. GSM_MULT_R(gsm_INVA[i], GSM_SUB(FitWord(b), gsm_B[i] * 2)) \in Int
    BY ONLY <2>1, <2>5, WordsOf
  <2>7. t(i) \in Int
    BY ONLY <2>2, <2>3, <2>6
  <2> HIDE DEF t
  <2> QED BY ONLY <2>7, WordsOf
<1> HIDE DEF t
<1>2. f \in [1 .. 8 -> Int]
  BY ONLY <1>1
<1>3. Decoding_of_the_coded_Log_Area_Ratios(x) = Array(f)
  BY DEF Decoding_of_the_coded_Log_Area_Ratios, t
<1> HIDE DEF f
<1>4. Array(f) = f
  BY ONLY <1>2, FcnIsSeq, 8 \in Nat
<1> QED BY ONLY <1>2, <1>3, <1>4

\* Each sample of a frame is in one of the segments.
LEMMA SegmentIs ==
  ASSUME NEW n \in 1 .. 160
  PROVE  Segment(n) \in 1 .. 4
<1> DEFINE In(g) == n <= SegmentEnds[g] /\ (g > 1 => n > SegmentEnds[g - 1])
<1>1. SegmentEnds[1] = 13 /\ SegmentEnds[2] = 27 /\ SegmentEnds[3] = 40 /\ SegmentEnds[4] = 160
  BY DEF SegmentEnds
<1>2. n \in Int /\ n >= 1 /\ n <= 160
  OBVIOUS
<1>3. \E g \in 1 .. 4 : In(g)
  <2>1. CASE n <= 13
    <3>1. In(1)
      BY <1>1, <2>1
    <3> QED BY ONLY <3>1
  <2>2. CASE n > 13 /\ n <= 27
    <3>1. In(2)
      BY <1>1, <2>2
    <3> QED BY ONLY <3>1
  <2>3. CASE n > 27 /\ n <= 40
    <3>1. In(3)
      BY <1>1, <2>3
    <3> QED BY ONLY <3>1
  <2>4. CASE n > 40
    <3>1. In(4)
      BY <1>1, <1>2, <2>4
    <3> QED BY ONLY <3>1
  <2> QED BY ONLY <1>2, <2>1, <2>2, <2>3, <2>4
<1>4. Segment(n) = CHOOSE g \in 1 .. 4 : In(g)
  BY DEF Segment
<1> HIDE DEF In
<1> QED BY ONLY <1>3, <1>4

\* The coefficients interpolated for a sample are integers.
LEMMA CoefficientsAre ==
  ASSUME NEW old \in [1 .. 8 -> Int], NEW new \in [1 .. 8 -> Int], NEW n \in 1 .. 160
  PROVE  Reflections(old, new, n) \in [1 .. 8 -> Int]
<1>1. ASSUME NEW x \in Int PROVE LARp_to_rp(x) \in Int
  <2>1. PICK t \in Int : t = GSM_ABS(x)
    BY WordsOf
  <2>2. PICK l \in Int : l = GSM_ADD(t \div 4, 26112)
    <3>1. PICK a \in Int, b \in Int : a = t \div 4 /\ b = 26112
      OBVIOUS
    <3>2. GSM_ADD(a, b) \in Int
      BY ONLY a \in Int, b \in Int, WordsOf
    <3> QED BY ONLY <3>1, <3>2
  <2>3. LARp_to_rp(x) = LET rp == IF t < 11059 THEN t * 2 ELSE IF t < 20070 THEN t + 11059 ELSE l
                        IN  IF x < 0 THEN -rp ELSE rp
    BY ONLY <2>1, <2>2 DEF LARp_to_rp
  <2> QED BY <2>3
<1>2. ASSUME NEW g \in 1 .. 4, NEW x \in Int, NEW y \in Int PROVE Interpolated(g, x, y) \in Int
  <2>1. 1 \in 0 .. 31 /\ 2 \in 0 .. 31
    OBVIOUS
  <2>2. PICK x1 \in Int, x2 \in Int, y1 \in Int, y2 \in Int :
          x1 = SASR(x, 1) /\ x2 = SASR(x, 2) /\ y1 = SASR(y, 1) /\ y2 = SASR(y, 2)
    <3>1. SASR(x, 1) \in Int /\ SASR(x, 2) \in Int /\ SASR(y, 1) \in Int /\ SASR(y, 2) \in Int
      BY ONLY <2>1, x \in Int, y \in Int, SasrIsInt
    <3> QED BY ONLY <3>1
  <2>3. PICK a \in Int : a = GSM_ADD(x2, y2)
    BY ONLY x2 \in Int, y2 \in Int, WordsOf
  <2>4. GSM_ADD(a, x1) \in Int /\ GSM_ADD(x1, y1) \in Int /\ GSM_ADD(a, y1) \in Int
    BY ONLY a \in Int, x1 \in Int, y1 \in Int, WordsOf
  <2>5. CASE g = 1
    <3>1. Interpolated(g, x, y) = GSM_ADD(a, x1)
      BY ONLY <2>2, <2>3, <2>5 DEF Interpolated
    <3> QED BY ONLY <2>4, <3>1
  <2>6. CASE g = 2
    <3>1. Interpolated(g, x, y) = GSM_ADD(x1, y1)
      BY ONLY <2>2, <2>6 DEF Interpolated
    <3> QED BY ONLY <2>4, <3>1
  <2>7. CASE g = 3
    <3>1. Interpolated(g, x, y) = GSM_ADD(a, y1)
      BY ONLY <2>2, <2>3, <2>7 DEF Interpolated
    <3> QED BY ONLY <2>4, <3>1
  <2>8. CASE g = 4
    <3>1. Interpolated(g, x, y) = y
      BY ONLY <2>8 DEF Interpolated
    <3> QED BY ONLY <3>1, y \in Int
  <2>9. g = 1 \/ g = 2 \/ g = 3 \/ g = 4
    BY ONLY g \in 1 .. 4
  <2> QED BY ONLY <2>5, <2>6, <2>7, <2>8, <2>9
<1> DEFINE f == [i \in 1 .. 8 |-> LARp_to_rp(Interpolated(Segment(n), old[i], new[i]))]
<1>3. f \in [1 .. 8 -> Int]
  <2>1. ASSUME NEW i \in 1 .. 8
        PROVE  LARp_to_rp(Interpolated(Segment(n), old[i], new[i])) \in Int
    <3>1. PICK g \in 1 .. 4 : g = Segment(n)
      BY SegmentIs
    <3>2. PICK x \in Int, y \in Int : x = old[i] /\ y = new[i]
      OBVIOUS
    <3>3. LARp_to_rp(Interpolated(g, x, y)) \in Int
      BY ONLY <1>1, <1>2, g \in 1 .. 4, x \in Int, y \in Int
    <3> QED BY ONLY <3>1, <3>2, <3>3
  <2> QED BY ONLY <2>1
<1>4. Reflections(old, new, n) = Array(f)
  BY DEF Reflections
<1> HIDE DEF f
<1>5. Array(f) = f
  BY ONLY <1>3, FcnIsSeq, 8 \in Nat
<1> QED BY ONLY <1>3, <1>4, <1>5

\* The lattice, as AnalysisStages goes through it.
Stages == [u : [1 .. 8 -> Word], sav : Word, di : Word]
AtStage(rp, c, i) ==
  [u   |-> [c.u EXCEPT ![i] = c.sav],
   sav |-> GSM_ADD(c.u[i], GSM_MULT_R(rp[i], c.di)),
   di  |-> GSM_ADD(c.di, GSM_MULT_R(rp[i], c.u[i]))]

\* A stage of the lattice leaves words.
LEMMA StageIs ==
  ASSUME NEW rp \in [1 .. 8 -> Int], NEW c \in Stages, NEW i \in 1 .. 8
  PROVE  AtStage(rp, c, i) \in Stages
<1>0. \A x \in Word : x \in Int
  BY DEF Word
<1>1. c.u \in [1 .. 8 -> Word] /\ c.sav \in Word /\ c.di \in Word
  BY DEF Stages
<1>2. PICK x \in Int, y \in Int, z \in Int : x = c.u[i] /\ y = c.di /\ z = rp[i]
  <2>1. c.u[i] \in Word /\ rp[i] \in Int
    BY <1>1
  <2> QED BY ONLY <1>0, <1>1, <2>1
<1>3. GSM_ADD(x, GSM_MULT_R(z, y)) \in Word /\ GSM_ADD(y, GSM_MULT_R(z, x)) \in Word
  <2>1. GSM_MULT_R(z, y) \in Int /\ GSM_MULT_R(z, x) \in Int
    BY ONLY x \in Int, y \in Int, z \in Int, WordsOf
  <2> QED BY ONLY <2>1, x \in Int, y \in Int, WordsOf
<1>4. [c.u EXCEPT ![i] = c.sav] \in [1 .. 8 -> Word]
  BY ONLY <1>1
<1> QED BY ONLY <1>2, <1>3, <1>4 DEF Stages, AtStage

\* One sample through the lattice.
LEMMA AnalysisIs ==
  ASSUME NEW rp \in [1 .. 8 -> Int], NEW u \in [1 .. 8 -> Word], NEW x \in Word
  PROVE  AnalysisStages(rp, u, x) \in Stages
<1> DEFINE init == [u |-> u, sav |-> x, di |-> x]
           All(f) == [i \in 0 .. 8 |-> IF i = 0 THEN init ELSE AtStage(rp, f[i - 1], i)]
           after == CHOOSE f : f = All(f)
           J == [i \in 0 .. 8 |-> Stages]
           B == [y \in Stages \X (1 .. 8) |-> AtStage(rp, y[1], y[2])]
<1>1. AnalysisStages(rp, u, x) = after[8]
  BY DEF AnalysisStages, Loop, AtStage
<1>2. \A i \in 0 .. 8 : J[i] = Stages
  OBVIOUS
<1>3. init \in J[0]
  <2>1. init \in Stages
    BY DEF Stages
  <2> QED BY <1>2, <2>1
<1> HIDE DEF J, init
<1>4. ASSUME NEW i \in 1 .. 8, NEW c \in J[i - 1]
      PROVE  AtStage(rp, c, i) \in J[i] /\ B[<<c, i>>] = AtStage(rp, c, i)
  <2>1. i - 1 \in 0 .. 8 /\ i \in 0 .. 8
    OBVIOUS
  <2>2. c \in Stages
    BY <1>2, <2>1
  <2>3. AtStage(rp, c, i) \in J[i]
    BY <1>2, <2>1, <2>2, StageIs
  <2>4. <<c, i>> \in Stages \X (1 .. 8)
    BY ONLY <2>2, i \in 1 .. 8
  <2> QED BY <2>3, <2>4
<1> HIDE DEF B
<1>5. \E f : f = All(f)
  <2>1. \A i \in 1 .. 8 : \A c \in J[i - 1] : B[<<c, i>>] \in J[i]
    BY <1>4
  <2>2. PICK g : Course(g, 8, init, B) /\ \A i \in 0 .. 8 : g[i] \in J[i]
    BY ONLY <1>3, <2>1, 8 \in Nat, RoundsExist
  <2>3. \A i \in 1 .. 8 : B[<<g[i - 1], i>>] = AtStage(rp, g[i - 1], i)
    <3> TAKE i \in 1 .. 8
    <3>1. i - 1 \in 0 .. 8
      OBVIOUS
    <3>2. g[i - 1] \in J[i - 1]
      BY ONLY <2>2, <3>1
    <3> QED BY ONLY <1>4, <3>2, i \in 1 .. 8
  <2>4. \A i \in 0 .. 8 : (IF i = 0 THEN init ELSE B[<<g[i - 1], i>>])
                          = (IF i = 0 THEN init ELSE AtStage(rp, g[i - 1], i))
    BY <2>3
  <2>5. g = All(g)
    BY ONLY <2>2, <2>4 DEF Course
  <2> QED BY ONLY <2>5
<1>6. after = All(after)
  <2> HIDE DEF All
  <2> QED BY ONLY <1>5 DEF after
<1> HIDE DEF after
<1>7. after[8] \in J[8]
  <2>1. after[0] \in J[0]
    BY <1>3, <1>6
  <2>2. \A i \in 1 .. 8 : after[i - 1] \in J[i - 1] => after[i] \in J[i]
    <3> TAKE i \in 1 .. 8
    <3>1. after[i] = AtStage(rp, after[i - 1], i)
      BY <1>6
    <3> QED BY ONLY <1>4, <3>1, i \in 1 .. 8
  <2> QED BY ONLY <2>1, <2>2, 8 \in Nat, RoundsIn
<1> QED BY <1>1, <1>2, <1>7
=============================================================================

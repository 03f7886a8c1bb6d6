------------------------------ MODULE GsmWord ------------------------------
(***************************************************************************)
(* The arithmetic of the GSM 06.10 codec on 16-bit words and 32-bit        *)
(* longwords: the macros of private.h and the functions of add.c that the  *)
(* codec calls.  TLC's integers have 32 bits and it stops at an overflow,  *)
(* so a run that ends also shows that no intermediate result of the        *)
(* configured signals needs more than a longword.                          *)
(***************************************************************************)
EXTENDS Integers, Sequences, FiniteSetsExt

MIN_WORD == -32768
MAX_WORD == 32767
Word == {x \in Int : MIN_WORD <= x /\ x <= MAX_WORD}
MAX_LONGWORD == 2147483647
MIN_LONGWORD == -MAX_LONGWORD - 1

\* What remains of x when C assigns it to a word.
FitWord(x) == ((x + 32768) % 65536) - 32768

\* Arithmetic shift to the right: rounds towards minus infinity, by both definitions of
\* the macro.
SASR(x, by) == x \div 2^by

saturate(x) == IF x < MIN_WORD THEN MIN_WORD ELSE IF x > MAX_WORD THEN MAX_WORD ELSE x

GSM_ADD(a, b) == saturate(a + b)
GSM_SUB(a, b) == saturate(a - b)
GSM_ABS(a) == IF a = MIN_WORD THEN MAX_WORD ELSE IF a < 0 THEN -a ELSE a

\* The macros leave out the case that both operands are MIN_WORD; the functions do not.
GSM_MULT(a, b) == SASR(a * b, 15)
GSM_MULT_R(a, b) == SASR(a * b + 16384, 15)
BothMin(a, b) == a = MIN_WORD /\ b = MIN_WORD
gsm_mult(a, b) == IF BothMin(a, b) THEN MAX_WORD ELSE GSM_MULT(a, b)
gsm_mult_r(a, b) == IF BothMin(a, b) THEN MAX_WORD ELSE FitWord(GSM_MULT_R(a, b))

GSM_L_ADD(a, b) ==
  IF a < 0 /\ b < 0 /\ b < MIN_LONGWORD - a THEN MIN_LONGWORD
  ELSE IF a > 0 /\ b > 0 /\ b > MAX_LONGWORD - a THEN MAX_LONGWORD
  ELSE a + b

\* Shifts of a word by any number of places, the wrong way if it is negative.
gsm_asr(a, n) ==
  CASE n >= 16  -> IF a < 0 THEN -1 ELSE 0
    [] n <= -16 -> 0
    [] n \in -15 .. -1 -> FitWord(a * 2^(-n))
    [] OTHER    -> SASR(a, n)
gsm_asl(a, n) ==
  CASE n >= 16  -> 0
    [] n <= -16 -> IF a < 0 THEN -1 ELSE 0
    [] n \in -15 .. -1 -> gsm_asr(a, -n)
    [] OTHER    -> FitWord(a * 2^n)

-----------------------------------------------------------------------------
\* A loop of n rounds: round i computes Body(what round i - 1 left, i).
Loop(Body(_, _), init, n) ==
  LET after[i \in 0 .. n] == IF i = 0 THEN init ELSE Body(after[i - 1], i)
  IN  after[n]

\* term[1] + ... + term[n], in halves for the sake of TLC's stack.
SumOf(n, term) ==
  LET sum[span \in (1 .. n) \X (1 .. n)] ==
        LET lo == span[1]
            hi == span[2]
            mid == (lo + hi) \div 2
        IN  IF lo = hi THEN term[lo] ELSE sum[<<lo, mid>>] + sum[<<mid + 1, hi>>]
  IN  sum[<<1, n>>]

\* The sequence itself; TLC computes each of its elements once.
Array(seq) == <<>> \o seq

\* The number of places a # 0 is shifted to the left to fill 31 bits.
\* gsm_norm looks the highest byte up in a table of bit offsets.
gsm_norm(a) ==
  LET m == IF a < 0 THEN -a - 1 ELSE a
  IN  IF a <= -(2^30) THEN 0
      ELSE CHOOSE n \in 0 .. 31 :
             /\ n < 31 => m >= 2^(30 - n)
             /\ n > 0  => m < 2^(31 - n)

\* num / denum as a fraction of 2^15, by 15 steps of restoring division.
gsm_div(num, denum) ==
  LET Step(d, k) == IF 2 * d.num >= denum
                    THEN [num |-> 2 * d.num - denum, div |-> 2 * d.div + 1]
                    ELSE [num |-> 2 * d.num, div |-> 2 * d.div]
  IN  IF num = 0 THEN 0 ELSE Loop(Step, [num |-> num, div |-> 0], 15).div
=============================================================================

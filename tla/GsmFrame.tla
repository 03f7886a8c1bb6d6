------------------------------ MODULE GsmFrame ------------------------------
(***************************************************************************)
(* A coded frame: 76 parameters in 33 bytes, most significant bit first,   *)
(* after four bits of magic.  gsm_encode and gsm_decode take the           *)
(* parameters from, and to, arrays of their own; gsm_implode and           *)
(* gsm_explode keep them in one array of 76 words, in the order they are   *)
(* sent.  The layout is the same.                                          *)
(***************************************************************************)
EXTENDS GsmWord

GSM_MAGIC == 13

\* The eight LARc come first; then, for each sub-frame, Nc, bc, Mc, xmaxc and the 13 of xmc.
Ofs(i) == ((i - 9) % 17) + 1
Subframe(i) == (i - 9) \div 17 + 1

\* The bits of each parameter, and how many bits are sent before it.
Widths ==
  [i \in 1 .. 76 |-> IF i <= 8 THEN <<6, 6, 5, 5, 4, 4, 3, 3>>[i]
                     ELSE IF Ofs(i) <= 4 THEN <<7, 2, 2, 6>>[Ofs(i)] ELSE 3]
Starts ==
  [i \in 1 .. 76 |-> IF i <= 8 THEN <<4, 10, 16, 21, 26, 30, 34, 37>>[i]
                     ELSE 56 * Subframe(i) - 16
                          + IF Ofs(i) <= 4 THEN <<0, 7, 9, 11>>[Ofs(i)] ELSE 3 * Ofs(i) + 2]

\* The parameter that the n-th bit belongs to.
Owner == [n \in 5 .. 264 |->
            CHOOSE i \in 1 .. 76 : Starts[i] < n /\ n <= Starts[i] + Widths[i]]

\* Faulty variant of Words: the grid before the gain.
WordsSwapped(p) ==
  LET At(j, f) == IF f <= 4 THEN <<p.Nc[j], p.Mc[j], p.bc[j], p.xmaxc[j]>>[f]
                  ELSE p.xMc[j][f - 4]
  IN  [i \in 1 .. 76 |-> IF i <= 8 THEN p.LARc[i] ELSE At(Subframe(i), Ofs(i))]

\* The parameters of a frame in the order they are sent.
Words(p) ==
  LET At(j, f) == IF f <= 4 THEN <<p.Nc[j], p.bc[j], p.Mc[j], p.xmaxc[j]>>[f]
                  ELSE p.xMc[j][f - 4]
  IN  [i \in 1 .. 76 |-> IF i <= 8 THEN p.LARc[i] ELSE At(Subframe(i), Ofs(i))]

Parameters(w) ==
  LET At(j, f) == w[8 + 17 * (j - 1) + f]
  IN  [LARc  |-> [i \in 1 .. 8 |-> w[i]],
       Nc    |-> [j \in 1 .. 4 |-> At(j, 1)],
       bc    |-> [j \in 1 .. 4 |-> At(j, 2)],
       Mc    |-> [j \in 1 .. 4 |-> At(j, 3)],
       xmaxc |-> [j \in 1 .. 4 |-> At(j, 4)],
       xMc   |-> [j \in 1 .. 4 |-> [k \in 1 .. 13 |-> At(j, 4 + k)]]]

\* The b-th of the width lowest bits of a value, from the left: of a value too wide for its
\* field, the low bits are sent.
BitOf(value, width, b) == (value \div 2^(width - b)) % 2
\* The value of the width bits that follow the first start.
ValueOf(bits, start, width) ==
  SumOf(width, [b \in 1 .. width |-> bits[start + b] * 2^(width - b)])

\* The packing of gsm_encode and gsm_implode.
gsm_implode(w) ==
  LET bits == Array([n \in 1 .. 264 |->
                IF n <= 4 THEN BitOf(GSM_MAGIC, 4, n)
                ELSE BitOf(w[Owner[n]], Widths[Owner[n]], n - Starts[Owner[n]])])
  IN  Array([c \in 1 .. 33 |-> ValueOf(bits, 8 * c - 8, 8)])

\* The unpacking of gsm_decode and gsm_explode, which refuse a frame without the magic.
HasMagic(c) == c[1] \div 16 = GSM_MAGIC

gsm_explode(c) ==
  LET bits == Array([n \in 1 .. 264 |-> BitOf(c[(n - 1) \div 8 + 1], 8, ((n - 1) % 8) + 1)])
  IN  [i \in 1 .. 76 |-> ValueOf(bits, Starts[i], Widths[i])]
=============================================================================

------------------------------- MODULE Sparkle -------------------------------
(***************************************************************************)
(* sparkle.c, of which the compiler has one copy and the element two.  A   *)
(* byte is a number below 2^8, a word four bytes, the lowest first, as on  *)
(* the little-endian machines the code runs on, and a state a sequence of  *)
(* words.  TLC has no 32-bit unsigned integers; bytes also make rotations  *)
(* by multiples of 8, and the padding in Schwaemm and Esch, what they are  *)
(* in memory.                                                              *)
(***************************************************************************)
EXTENDS Naturals, Sequences, SequencesExt, Functions

Byte == 0 .. 255

-----------------------------------------------------------------------------
(***************************************************************************)
(* Machine words.                                                          *)
(***************************************************************************)
\* Exclusive or, from a table: bit by bit it would be slow.
BitXor(a, b) == (a + b) % 2

NibbleXor ==
  [a \in 0 .. 15 |-> [b \in 0 .. 15 |->
     BitXor(a, b) + 2 * BitXor(a \div 2, b \div 2)
       + 4 * BitXor(a \div 4, b \div 4) + 8 * BitXor(a \div 8, b \div 8)]]

ByteXor ==
  [a \in Byte |-> [b \in Byte |->
     16 * NibbleXor[a \div 16][b \div 16] + NibbleXor[a % 16][b % 16]]]

Xor(x, y) == <<ByteXor[x[1]][y[1]], ByteXor[x[2]][y[2]],
               ByteXor[x[3]][y[3]], ByteXor[x[4]][y[4]]>>

\* x + y modulo 2^32, two bytes at a time.
Half(x, k) == x[k] + 256 * x[k + 1]

Word(lo, hi) == <<lo % 256, lo \div 256, hi % 256, hi \div 256>>

HalfSize == 256 * 256

Add(x, y) ==
  LET lo == Half(x, 1) + Half(y, 1)
      hi == Half(x, 3) + Half(y, 3) + lo \div HalfSize
  IN  Word(lo % HalfSize, hi % HalfSize)

\* ROT(x, n), the rotations to the right that the code uses.
ROT1(x) == [k \in 1 .. 4 |-> x[k] \div 2 + 128 * (x[(k % 4) + 1] % 2)]
ROT16(x) == <<x[3], x[4], x[1], x[2]>>
ROT17(x) == ROT1(ROT16(x))
ROT24(x) == <<x[4], x[1], x[2], x[3]>>
ROT31(x) == [k \in 1 .. 4 |-> ((2 * x[k]) % 256) + x[((k + 2) % 4) + 1] \div 128]

\* ROT(x ^ (x << 16), 16).
ELL(x) == <<ByteXor[x[3]][x[1]], ByteXor[x[4]][x[2]], x[1], x[2]>>

\* A number below 2^16 as a word.
FromNat(n) == Word(n, 0)

-----------------------------------------------------------------------------
RCON == <<<<98, 81, 225, 183>>, <<128, 88, 113, 191>>, <<86, 218, 180, 56>>,
          <<56, 119, 78, 50>>, <<235, 133, 17, 187>>, <<87, 123, 124, 79>>,
          <<200, 161, 191, 207>>, <<61, 41, 179, 194>>>>

\* Mutant: the number of the step is left out.
AddRoundConstant_NoStep(st, i) ==
  [st EXCEPT ![2] = Xor(@, RCON[(i % 8) + 1])]

AddRoundConstant(st, i) ==
  [st EXCEPT ![2] = Xor(@, RCON[(i % 8) + 1]), ![4] = Xor(@, FromNat(i))]

\* The four rounds of the ARX-box on a branch (x, y): how y is rotated before it
\* is added, and x before it is added to y.
Turn(y, q) == <<ROT31(y), ROT17(y), y, ROT24(y)>>[q]
Back(x, q) == <<ROT24(x), ROT17(x), ROT31(x), ROT16(x)>>[q]

Round(b, q, rc) ==
  LET x == Add(b[1], Turn(b[2], q))
      y == Xor(b[2], Back(x, q))
  IN  <<Xor(x, rc), y>>

ARXBox(b, rc) == FoldLeft(LAMBDA acc, q : Round(acc, q, rc), b, <<1, 2, 3, 4>>)

\* A state as branches, and back.
Branches(st) == [j \in 1 .. Len(st) \div 2 |-> <<st[2 * j - 1], st[2 * j]>>]
Words(bs) == FlattenSeq(bs)

XorAll(sq) == FoldLeft(Xor, FromNat(0), sq)

\* The linear layer: the left half of the branches goes to the right, and the
\* right half, mixed with the left, to the left and on by one branch.
LinearLayer(bs) ==
  LET h    == Len(bs) \div 2
      tmpx == ELL(XorAll([j \in 1 .. h |-> bs[j][1]]))
      tmpy == ELL(XorAll([j \in 1 .. h |-> bs[j][2]]))
      Mixed(j) == <<Xor(Xor(bs[h + j][1], bs[j][1]), tmpy),
                    Xor(Xor(bs[h + j][2], bs[j][2]), tmpx)>>
  IN  [j \in 1 .. 2 * h |-> IF j > h THEN bs[j - h] ELSE Mixed((j % h) + 1)]

\* One step.
SparkleStep(st, i) ==
  LET bs == Branches(AddRoundConstant(st, i))
  IN  Words(LinearLayer([j \in DOMAIN bs |-> ARXBox(bs[j], RCON[j])]))

sparkle(st, steps) == FoldLeft(SparkleStep, st, [i \in 1 .. steps |-> i - 1])
=============================================================================

----------------------------- MODULE MCSchwaemm -----------------------------
(***************************************************************************)
(* Schwaemm and Esch over Sparkle.  A job has a message to encrypt and     *)
(* associated data, which is also hashed, first.  The lengths lie around   *)
(* the ends of blocks; the instances are the one both copies are built as  *)
(* and the one whose test vector the compiler's copy comes with.           *)
(***************************************************************************)
EXTENDS Schwaemm, Esch

\* Conversions between the bytes of Sparkle and those of Schwaemm.
BitsOf == [n \in 0 .. 255 |-> [k \in 0 .. 7 |-> (n \div (2 ^ k)) % 2]]

NumberOf(b) ==
  b[0] + 2 * (b[1] + 2 * (b[2] + 2 * (b[3] + 2 * (b[4] + 2 * (b[5] + 2 * (b[6] + 2 * b[7]))))))

WordsOf(st) ==
  [w \in 1 .. (RATE + CAP) \div 4 |->
     [k \in 1 .. 4 |-> NumberOf(st[4 * w + k - 5])]]

StateOf(ws) == [k \in Index |-> BitsOf[ws[k \div 4 + 1][(k % 4) + 1]]]

\* The permutation.
MCsparkle(st, steps) == StateOf(S!sparkle(WordsOf(st), steps))

Bits(sq) == [k \in 0 .. Len(sq) - 1 |-> BitsOf[sq[k + 1]]]

\* n bytes to tell apart.
Data(n, seed) == [k \in 1 .. n |-> (seed + 7 * k) % 256]

\* The instances.
Schwaemm256128 == [rate |-> 32, cap |-> 16, slim |-> 7, big |-> 11]
Schwaemm128128 == [rate |-> 16, cap |-> 16, slim |-> 7, big |-> 10]

Job(inst, key, nonce, ad, m) ==
  [rate |-> inst.rate, cap |-> inst.cap, slim |-> inst.slim, big |-> inst.big,
   key |-> Bits(key), nonce |-> Bits(nonce),
   ad |-> Bits(ad), adlen |-> Len(ad), m |-> Bits(m), mlen |-> Len(m)]

\* The vector of the compiler's test.py.
UpTo(n) == [k \in 1 .. n |-> k - 1]

Vector == Job(Schwaemm128128, UpTo(16), UpTo(16), UpTo(32), UpTo(32))

VectorCT ==
  <<156, 138, 120, 2, 157, 112, 57, 123, 99, 164, 202, 24, 200, 36, 139, 122,
    93, 93, 193, 222, 113, 76, 176, 26, 165, 142, 245, 141, 176, 32, 199, 246,
    3, 59, 245, 203, 8, 250, 15, 6, 248, 249, 144, 208, 119, 35, 130, 63>>

\* Bounds: how long the data may be, around the ends of the blocks of the cipher
\* (32) and of the hash (16), and how long the messages.
AdLengths == {0, 1, 15, 16, 17, 32, 33, 64}
MLengths == {0, 1, 15, 31, 32, 33, 64, 65}
LongMLengths == {1, 32}

MCTasks ==
  {Job(Schwaemm256128, Data(16, 200), Data(32, 3), Data(a, 11), Data(l, 90)) :
     a \in {0, 33}, l \in MLengths}
  \cup
  {Job(Schwaemm256128, Data(16, 200), Data(32, 3), Data(a, 11), Data(l, 90)) :
     a \in AdLengths, l \in LongMLengths}
  \cup {Vector}

\* The first and the last bit of the tag, and one in between.
MCFlips == {<<0, 0>>, <<9, 3>>, <<15, 7>>}

\* Ends of data: one byte with zeros behind it or what padding would put there,
\* and a full block that is the padding of a shorter one.
MCEnds ==
  {<<1>>, <<1, 0>>, <<1, 128>>, <<128>>,
   [k \in 1 .. 16 |-> IF k = 1 THEN 1 ELSE IF k = 2 THEN 128 ELSE 0],
   [k \in 1 .. 32 |-> IF k = 1 THEN 1 ELSE IF k = 2 THEN 128 ELSE 0],
   [k \in 1 .. 31 |-> IF k = 1 THEN 1 ELSE IF k = 2 THEN 128 ELSE 0]}

MCLastBlocks == {e \in MCEnds : Len(e) <= 16} \cup {<<>>}

MCAeadEnds == {[bytes |-> Bits(e), len |-> Len(e)] : e \in MCEnds}

MCMessages == {[k \in 1 .. t.adlen |-> NumberOf(t.ad[k - 1])] : t \in MCTasks}

-----------------------------------------------------------------------------
MCInit ==
  /\ Init /\ Esch_Init
  /\ Len(in) = task.adlen
  /\ \A k \in 1 .. task.adlen : BitsOf[in[k]] = task.ad[k - 1]

Returned == op = "decrypt" /\ pc = "done"

\* The data is hashed, then the message encrypted and decrypted.
MCNext ==
  \/ Esch_Next /\ UNCHANGED vars
  \/ phase = "end" /\ Next /\ UNCHANGED evars
  \/ Returned /\ UNCHANGED <<vars, evars>>

MCSpec == MCInit /\ [][MCNext]_<<vars, evars>>

\* "assert CT == schwaemm128128_encrypt(PT, AD, Nonce, Key)" (compiler/schwaemm/
\* test.py:19), for Schwaemm and Sparkle as they are modelled here.
KnownAnswer ==
  task = Vector /\ op = "encrypt" /\ pc = "done" => c = Bits(VectorCT)
=============================================================================

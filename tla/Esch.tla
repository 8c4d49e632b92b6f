-------------------------------- MODULE Esch --------------------------------
(***************************************************************************)
(* esch.c: crypto_hash() of the element, in its instance Esch256.  One     *)
(* step per block.  A message is a sequence of bytes, a state one of words *)
(* (see Sparkle).                                                          *)
(***************************************************************************)
EXTENDS Naturals, Sequences

CONSTANTS
  Messages,
  LastBlocks   \* blocks to compare at the end of a message

S == INSTANCE Sparkle

\* Blocks to compare are not longer than a block of the hash, which is 16 bytes.
ASSUME BytesAssumption ==
  /\ \A m \in Messages : m \in Seq(S!Byte)
  /\ \A b \in LastBlocks : b \in Seq(S!Byte) /\ Len(b) =< 16

VARIABLES
  in,
  phase,    \* "start", "absorb", "squeeze", "end"
  inpos,    \* how far the input pointer has moved
  words,    \* the state
  digest

evars == <<in, phase, inpos, words, digest>>

RATE_BYTES == 16
RATE_WORDS == 4
STATE_WORDS == 12
STEPS_SLIM == 7
STEPS_BIG == 11
ESCH_DIGEST_BYTES == 32

Zero == S!FromNat(0)

\* CONST_M1 and CONST_M2, for n = 1, 2.
CONST_M(n) == <<0, 0, 0, n>>

-----------------------------------------------------------------------------
\* The buffer with inlen bytes of the message, padded if that is not a block.
PaddedBlock(msg, off, inlen) ==
  [k \in 1 .. RATE_BYTES |->
     IF k <= inlen THEN msg[off + k] ELSE IF k = inlen + 1 THEN 128 ELSE 0]

\* Mutant: the branches behind the block are left alone.
add_msg_blk_RateOnly(st, blk) ==
  LET w(k) == SubSeq(blk, 4 * k - 3, 4 * k)
      tmpx == S!ELL(S!Xor(w(1), w(3)))
      tmpy == S!ELL(S!Xor(w(2), w(4)))
  IN  [k \in 1 .. STATE_WORDS |->
         IF k > RATE_WORDS THEN st[k]
         ELSE S!Xor(st[k], S!Xor(w(k), IF k % 2 = 1 THEN tmpy ELSE tmpx))]

\* The block, of which w(k) is the k-th word, is injected into the state.
add_msg_blk(st, blk) ==
  LET w(k) == IF k > RATE_WORDS THEN Zero ELSE SubSeq(blk, 4 * k - 3, 4 * k)
      tmpx == S!ELL(S!Xor(w(1), w(3)))
      tmpy == S!ELL(S!Xor(w(2), w(4)))
  IN  [k \in 1 .. STATE_WORDS |->
         IF k > STATE_WORDS \div 2 THEN st[k]
         ELSE S!Xor(st[k], S!Xor(w(k), IF k % 2 = 1 THEN tmpy ELSE tmpx))]

\* Mutant: a full last block is marked as a short one is.
AddLast_OneConstant(st, msg, off, inlen) ==
  LET word == STATE_WORDS \div 2
  IN  add_msg_blk([st EXCEPT ![word] = S!Xor(@, CONST_M(1))], PaddedBlock(msg, off, inlen))

\* The constant, in word STATE_BRANS - 1 counted from 0, and the last block.
AddLast(st, msg, off, inlen) ==
  LET word == STATE_WORDS \div 2
      n    == IF inlen < RATE_BYTES THEN 1 ELSE 2
  IN  add_msg_blk([st EXCEPT ![word] = S!Xor(@, CONST_M(n))], PaddedBlock(msg, off, inlen))

-----------------------------------------------------------------------------
Esch_Init ==
  /\ in \in Messages
  /\ phase = "start" /\ inpos = 0 /\ words = <<>> /\ digest = <<>>

Esch_Initialize ==
  /\ phase = "start"
  /\ words' = [k \in 1 .. STATE_WORDS |-> Zero]
  /\ phase' = "absorb"
  /\ UNCHANGED <<in, inpos, digest>>

Left == Len(in) - inpos

\* Esch_ProcessMessage(): a block that is not the last.
Esch_Block ==
  /\ phase = "absorb" /\ Left > RATE_BYTES
  /\ words' = S!sparkle(add_msg_blk(words, SubSeq(in, inpos + 1, inpos + RATE_BYTES)),
                        STEPS_SLIM)
  /\ inpos' = inpos + RATE_BYTES
  /\ UNCHANGED <<in, phase, digest>>

\* Esch_ProcessMessage(): the last block, empty if the message is.
Esch_Last ==
  /\ phase = "absorb" /\ Left <= RATE_BYTES
  /\ words' = S!sparkle(AddLast(words, in, inpos, Left), STEPS_BIG)
  /\ phase' = "squeeze"
  /\ UNCHANGED <<in, inpos, digest>>

\* The bytes of the first words of a state.
RateBytes(st) == [k \in 1 .. RATE_BYTES |-> st[(k + 3) \div 4][((k + 3) % 4) + 1]]

\* Esch_Finalize(): copy the rate, and permute if the digest is not complete.
Esch_Finalize ==
  /\ phase = "squeeze"
  /\ digest' = digest \o RateBytes(words)
  /\ IF Len(digest') < ESCH_DIGEST_BYTES
     THEN words' = S!sparkle(words, STEPS_SLIM) /\ UNCHANGED phase
     ELSE phase' = "end" /\ UNCHANGED words
  /\ UNCHANGED <<in, inpos>>

Esch_Next == Esch_Initialize \/ Esch_Block \/ Esch_Last \/ Esch_Finalize

Esch_Spec == Esch_Init /\ [][Esch_Next]_evars

-----------------------------------------------------------------------------
\* "the Feistel function is performed on a message block that is padded with
\* 0-bytes to reach a length of STATE_BYTES/2 bytes" (esch.c:149).  The Feistel
\* function on half a state:
Feistel(ws) ==
  LET sumx == S!XorAll([j \in 1 .. Len(ws) \div 2 |-> ws[2 * j - 1]])
      sumy == S!XorAll([j \in 1 .. Len(ws) \div 2 |-> ws[2 * j]])
  IN  [k \in 1 .. Len(ws) |-> S!Xor(ws[k], S!ELL(IF k % 2 = 1 THEN sumy ELSE sumx))]

\* A block as words, padded with 0-bytes.
HalfState(blk) ==
  [k \in 1 .. STATE_WORDS \div 2 |->
     IF k <= RATE_WORDS THEN SubSeq(blk, 4 * k - 3, 4 * k) ELSE Zero]

\* The shortened Feistel of the code adds to the left half of the state what the
\* specification's would, for each of the blocks to compare.
FeistelIsWhole ==
  phase = "absorb" =>
    \A b \in LastBlocks :
      LET blk == PaddedBlock(b, 0, Len(b))
          f   == Feistel(HalfState(blk))
      IN  add_msg_blk(words, blk) =
            [k \in 1 .. STATE_WORDS |->
               IF k <= STATE_WORDS \div 2 THEN S!Xor(words[k], f[k]) ELSE words[k]]

\* Two messages that differ in their last block only, also by their length, are
\* never in the same state after it: what separates them is the bit that ends the
\* data and, since a full block has none, the constant.
HashesApart ==
  phase = "absorb" =>
    \A a, b \in LastBlocks :
      a # b => AddLast(words, a, 0, Len(a)) # AddLast(words, b, 0, Len(b))
=============================================================================

------------------------------ MODULE Schwaemm ------------------------------
(***************************************************************************)
(* schwaemm.c: crypto_aead_encrypt() as the compiler's copy has it, and    *)
(* crypto_aead_decrypt() as the element's has it.  One step per block: the *)
(* compiler encrypts, the message travels, the element decrypts.           *)
(*                                                                         *)
(* Everything but the permutation is exclusive or and copying, byte by     *)
(* byte, so a state is a function from byte numbers to bytes and a byte a  *)
(* function from bit numbers to bits; the permutation is a parameter.  The *)
(* last byte of a word is the one that << 24 reaches.  An instance of      *)
(* Schwaemm has nonces as long as the rate, keys and tags as long as the   *)
(* capacity.                                                               *)
(***************************************************************************)
EXTENDS Integers

CONSTANTS
  Tasks,           \* [rate, cap, slim, big, key, nonce, ad, adlen, m, mlen]:
                   \* the instance (sizes in bytes, numbers of steps) and what
                   \* to encrypt
  schwaemm_sparkle(_, _),  \* the permutation, on a state, with a number of steps
  Flips,           \* the bits of the tag, <<byte, bit>>, that the way to the
                   \* element may flip
  Ends             \* [bytes, len]: last blocks to compare

Byte == [0 .. 7 -> {0, 1}]

\* Instances whose rate is two halves that are not longer than the capacity,
\* which rho and rate-whitening read beside them.
ASSUME TasksAssumption ==
  \A t \in Tasks :
    /\ {t.rate, t.cap} \subseteq Nat \ {0} /\ {t.adlen, t.mlen} \subseteq Nat
    /\ t.rate % 2 = 0 /\ t.rate =< 2 * t.cap
    /\ t.nonce \in [0 .. t.rate - 1 -> Byte] /\ t.key \in [0 .. t.cap - 1 -> Byte]
    /\ t.ad \in [0 .. t.adlen - 1 -> Byte] /\ t.m \in [0 .. t.mlen - 1 -> Byte]

ASSUME FlipsAssumption == Flips \subseteq Nat \X (0 .. 7)

ASSUME EndsAssumption ==
  \A e \in Ends :
    /\ e = [bytes |-> e.bytes, len |-> e.len]
    /\ e.len \in Nat /\ e.bytes \in [0 .. e.len - 1 -> Byte]

VARIABLES
  task,
  op,       \* "encrypt" or "decrypt"
  pc,       \* "initialize", "ad", "text", "finalize", "done"
  state,
  pos,      \* how far the input pointer has moved
  out,      \* what was written
  c,        \* the ciphertext and the tag behind it
  flip,     \* the bit that was flipped, or NoFlip
  retval,   \* of crypto_aead_decrypt
  hist      \* history: the <<pc, pos, state>> that the encryption came through

vars == <<task, op, pc, state, pos, out, c, flip, retval, hist>>

-----------------------------------------------------------------------------
Xor(a, b) == [k \in 0 .. 7 |-> (a[k] + b[k]) % 2]

Bit(n) == [k \in 0 .. 7 |-> IF k = n THEN 1 ELSE 0]
ZeroByte == [k \in 0 .. 7 |-> 0]
PAD == Bit(7)

RATE == task.rate
CAP == task.cap
half == RATE \div 2
Rate == 0 .. RATE - 1
Index == 0 .. RATE + CAP - 1
State == [Index -> Byte]

\* The index into the capacity is reduced only where the rate is larger, in
\* Schwaemm256-128.  (The code takes the lowest bits; CAP is a power of 2 there.)
CAP_INDEX(j) == IF RATE > CAP THEN j % CAP ELSE j

\* CONST_A0, CONST_A1, CONST_M2 and CONST_M3, for n = 0 .. 3.
Const(n) ==
  Xor([k \in 0 .. 7 |-> IF k = 0 THEN n % 2 ELSE IF k = 1 THEN n \div 2 ELSE 0],
      Bit(CAP \div 8))

AddConst(st, n) == [st EXCEPT ![RATE + CAP - 1] = Xor(@, Const(n))]

-----------------------------------------------------------------------------
(***************************************************************************)
(* Rho and rate-whitening.  Each turn of the loops touches bytes of its    *)
(* own, so the loops are functions on the bytes, and it makes no           *)
(* difference whether in and out are the same array or are copied first.   *)
(***************************************************************************)
\* The state after rho_whi_aut and rho_whi_enc, for a block x of plain data.
rho_whi(st, x) ==
  [k \in Index |->
     IF k < half THEN Xor(Xor(st[k + half], x[k]), st[RATE + k])
     ELSE IF k < RATE
     THEN Xor(st[k], Xor(Xor(st[k - half], x[k]), st[RATE + CAP_INDEX(k)]))
     ELSE st[k]]

\* The state after rho_whi_dec, for a block x of ciphertext.
rho_whi_dec(st, x) ==
  [k \in Index |->
     IF k < half THEN Xor(st[k], Xor(Xor(st[k + half], x[k]), st[RATE + k]))
     ELSE IF k < RATE THEN Xor(Xor(st[k - half], x[k]), st[RATE + CAP_INDEX(k)])
     ELSE st[k]]

\* What is written: in32[i] ^ tmp.
Masked(st, x) == [k \in Rate |-> Xor(x[k], st[k])]

\* A block of the input.
Block(in) == [k \in Rate |-> in[pos + k]]

\* The last block in the buffer, for inlen bytes of plain data.
Padded(in, off, inlen) ==
  [k \in Rate |-> IF k < inlen THEN in[off + k] ELSE IF k = inlen THEN PAD ELSE ZeroByte]

\* Mutant: the padding is added to zeros, as for plain data.
PaddedDec_Zeros(in, off, inlen, st) == Padded(in, off, inlen)

\* The last block in the buffer of rho_whi_dec_last: behind the ciphertext
\* stands what padded plain data would have become.
PaddedDec(in, off, inlen, st) ==
  [k \in Rate |-> IF k < inlen THEN in[off + k]
                  ELSE IF k = inlen THEN Xor(st[k], PAD) ELSE st[k]]

\* memcpy(out, x, n) at the output pointer.
Written(x, n) == [k \in 0 .. pos + n - 1 |-> IF k < pos THEN out[k] ELSE x[k - pos]]

-----------------------------------------------------------------------------
NoFlip == <<>>

Init ==
  /\ task \in Tasks
  /\ op = "encrypt" /\ pc = "initialize"
  /\ state = [k \in Index |-> ZeroByte]
  /\ pos = 0 /\ out = <<>> /\ c = <<>> /\ flip = NoFlip /\ retval = 1 /\ hist = {}

Go(next, off, st) ==
  /\ pc' = next /\ pos' = off /\ state' = st
  /\ hist' = IF op = "encrypt" THEN hist \cup {<<next, off, st>>} ELSE hist

\* The element is given the length that the encryption returned, and takes that
\* of the tag off it.  (A length below that of a tag would wrap around; the
\* encryption returns none.)
clen == task.mlen + CAP
csize == clen - CAP

\* An empty text is not processed, and neither is empty associated data.
TextLen == IF op = "encrypt" THEN task.mlen ELSE csize
AfterAd == IF TextLen # 0 THEN "text" ELSE "finalize"
AfterInit == IF task.adlen # 0 THEN "ad" ELSE AfterAd

Initialize ==
  /\ pc = "initialize"
  /\ Go(AfterInit, 0,
        schwaemm_sparkle([k \in Index |-> IF k < RATE THEN task.nonce[k] ELSE task.key[k - RATE]],
                task.big))
  /\ UNCHANGED <<task, op, out, c, flip, retval>>

\* A block that is not the last: a full one at the end is the last.
MoreThanABlock(len) == len - pos > RATE

AuthBlock ==
  /\ pc = "ad" /\ MoreThanABlock(task.adlen)
  /\ Go("ad", pos + RATE, schwaemm_sparkle(rho_whi(state, Block(task.ad)), task.slim))
  /\ UNCHANGED <<task, op, out, c, flip, retval>>

\* Mutant: a full last block has the constant of a short one.
LastConst_Same(first, inlen) == first

\* Which constant is added, of the two from the first on.
LastConst(first, inlen) == IF inlen < RATE THEN first ELSE first + 1

AuthLast ==
  /\ pc = "ad" /\ ~MoreThanABlock(task.adlen)
  /\ LET inlen == task.adlen - pos IN
     Go(AfterAd, 0,
        schwaemm_sparkle(rho_whi(AddConst(state, LastConst(0, inlen)), Padded(task.ad, pos, inlen)),
                task.big))
  /\ UNCHANGED <<task, op, out, c, flip, retval>>

EncBlock ==
  /\ op = "encrypt" /\ pc = "text" /\ MoreThanABlock(task.mlen)
  /\ Go("text", pos + RATE, schwaemm_sparkle(rho_whi(state, Block(task.m)), task.slim))
  /\ out' = Written(Masked(state, Block(task.m)), RATE)
  /\ UNCHANGED <<task, op, c, flip, retval>>

EncLast ==
  /\ op = "encrypt" /\ pc = "text" /\ ~MoreThanABlock(task.mlen)
  /\ LET inlen == task.mlen - pos
         x == Padded(task.m, pos, inlen)
     IN  /\ Go("finalize", 0,
               schwaemm_sparkle(rho_whi(AddConst(state, LastConst(2, inlen)), x), task.big))
         /\ out' = Written(Masked(state, x), inlen)
  /\ UNCHANGED <<task, op, c, flip, retval>>

\* Mutant: the rate is not saved before it is overwritten.
DecBlock_LateMask ==
  /\ op = "decrypt" /\ pc = "text" /\ MoreThanABlock(csize)
  /\ Go("text", pos + RATE, schwaemm_sparkle(rho_whi_dec(state, Block(c)), task.slim))
  /\ out' = Written(Masked(rho_whi_dec(state, Block(c)), Block(c)), RATE)
  /\ UNCHANGED <<task, op, c, flip, retval>>

DecBlock ==
  /\ op = "decrypt" /\ pc = "text" /\ MoreThanABlock(csize)
  /\ Go("text", pos + RATE, schwaemm_sparkle(rho_whi_dec(state, Block(c)), task.slim))
  /\ out' = Written(Masked(state, Block(c)), RATE)
  /\ UNCHANGED <<task, op, c, flip, retval>>

DecLast ==
  /\ op = "decrypt" /\ pc = "text" /\ ~MoreThanABlock(csize)
  /\ LET inlen == csize - pos
         x == PaddedDec(c, pos, inlen, state)
     IN  /\ Go("finalize", 0,
               schwaemm_sparkle(rho_whi_dec(AddConst(state, LastConst(2, inlen)), x), task.big))
         /\ out' = Written(Masked(state, x), inlen)
  /\ UNCHANGED <<task, op, c, flip, retval>>

\* Finalize(): the key is added to the capacity.
Finalized(k) == Xor(state[RATE + k], task.key[k])

\* Finalize() and GenerateTag().
GenerateTag ==
  /\ op = "encrypt" /\ pc = "finalize"
  /\ c' = [k \in 0 .. task.mlen + CAP - 1 |->
             IF k < task.mlen THEN out[k] ELSE Finalized(k - task.mlen)]
  /\ pc' = "done"
  /\ UNCHANGED <<task, op, state, pos, out, flip, retval, hist>>

\* The message goes to the element, which starts with a state of its own.
Transmit ==
  /\ op = "encrypt" /\ pc = "done"
  /\ \/ flip' = NoFlip /\ UNCHANGED c
     \/ \E f \in Flips :
          /\ f[1] < CAP
          /\ flip' = f
          /\ c' = [c EXCEPT ![task.mlen + f[1]] = Xor(@, Bit(f[2]))]
  /\ op' = "decrypt" /\ pc' = "initialize" /\ pos' = 0 /\ out' = <<>>
  /\ state' = [k \in Index |-> ZeroByte]
  /\ UNCHANGED <<task, retval, hist>>

\* Finalize() and VerifyTag().
VerifyTag ==
  /\ op = "decrypt" /\ pc = "finalize"
  /\ retval' = IF \A k \in 0 .. CAP - 1 : Finalized(k) = c[csize + k] THEN 0 ELSE -1
  /\ pc' = "done"
  /\ UNCHANGED <<task, op, state, pos, out, c, flip, hist>>

Next == Initialize \/ AuthBlock \/ AuthLast \/ EncBlock \/ EncLast \/ DecBlock \/ DecLast
          \/ GenerateTag \/ Transmit \/ VerifyTag

Spec == Init /\ [][Next]_vars

-----------------------------------------------------------------------------
\* "decrypts the ciphertext (in blocks of size RATE_BYTES)" (schwaemm.c:500): at
\* the same place the element has the state that the compiler had, block for
\* block, although it feeds back what it has just decrypted.
SameStates ==
  op = "decrypt" /\ pc \in {"ad", "text", "finalize"} => <<pc, pos, state>> \in hist

\* "returns 0 if the provided tag matches the computed tag and -1 otherwise"
\* (schwaemm.c:481): what has been decrypted is what was encrypted, the element
\* accepts it whatever the lengths, and accepts nothing if a bit of the tag was
\* flipped.
Decrypts ==
  op = "decrypt" =>
    /\ pc = "text" => \A k \in 0 .. pos - 1 : out[k] = task.m[k]
    /\ pc \in {"finalize", "done"} => \A k \in 0 .. task.mlen - 1 : out[k] = task.m[k]
    /\ pc = "done" => retval = IF flip = NoFlip THEN 0 ELSE -1

\* The state when a last block has been added, for the given pair of constants.
Absorbed(first, e) ==
  rho_whi(AddConst(state, LastConst(first, e.len)), Padded(e.bytes, 0, e.len))

\* Data that ends differently, also by its length only, and text in the place of
\* associated data, never lead to the same state: what separates them is the bit
\* that ends the data and the constants, of which full blocks need one of their
\* own (CONST_A0 .. CONST_M3, schwaemm.c:82).
LastBlocksApart ==
  pc \in {"ad", "text"} =>
    LET fit == {e \in Ends : e.len <= RATE}
    IN  \A a, b \in fit, i, j \in {0, 2} :
          <<a, i>> # <<b, j>> => Absorbed(i, a) # Absorbed(j, b)
=============================================================================

--------------------------- MODULE SparkleProofs ----------------------------
(***************************************************************************)
(* Proofs about Schwaemm: whatever the permutation, the instance and the   *)
(* lengths, the element comes through the states the compiler came         *)
(* through, and returns what was encrypted.  The invariant says that the   *)
(* places of the encryption lead from one to the next, and what each of    *)
(* them has left in the ciphertext; decryption walks along them.           *)
(*                                                                         *)
(* And about Esch, with the permutation as it is written: it maps states   *)
(* to states, which takes the induction behind its three folds, and the    *)
(* ends of two messages are never one.                                     *)
(***************************************************************************)
EXTENDS Schwaemm, Esch, SequenceTheorems, SetInduction, TLAPS

\* All that is asked of the permutation: it maps states to states.
PermutesStates ==
  \A t \in Tasks : \A st \in [0 .. t.rate + t.cap - 1 -> Byte], n \in {t.slim, t.big} :
    schwaemm_sparkle(st, n) \in [0 .. t.rate + t.cap - 1 -> Byte]

-----------------------------------------------------------------------------
(***************************************************************************)
(* The places of an encryption, <<pc, pos, state>>.                        *)
(***************************************************************************)
BlockAt(data, off) == [k \in Rate |-> data[off + k]]

Keyed == [k \in Index |-> IF k < RATE THEN task.nonce[k] ELSE task.key[k - RATE]]

\* Where associated data and initialization lead to, for either of the two.
AdEnd == IF task.mlen # 0 THEN "text" ELSE "finalize"
InitEnd == IF task.adlen # 0 THEN "ad" ELSE AdEnd

FirstPlace == <<InitEnd, 0, schwaemm_sparkle(Keyed, task.big)>>

AuthNext(off, st) ==
  LET inlen == task.adlen - off IN
  IF inlen > RATE
  THEN <<"ad", off + RATE, schwaemm_sparkle(rho_whi(st, BlockAt(task.ad, off)), task.slim)>>
  ELSE <<AdEnd, 0,
         schwaemm_sparkle(rho_whi(AddConst(st, LastConst(0, inlen)), Padded(task.ad, off, inlen)),
                          task.big)>>

TextNext(off, st) ==
  LET inlen == task.mlen - off IN
  IF inlen > RATE
  THEN <<"text", off + RATE, schwaemm_sparkle(rho_whi(st, BlockAt(task.m, off)), task.slim)>>
  ELSE <<"finalize", 0,
         schwaemm_sparkle(rho_whi(AddConst(st, LastConst(2, inlen)), Padded(task.m, off, inlen)),
                          task.big)>>

\* The ciphertext o holds what was encrypted at <<"text", off, st>>.
Covers(o, off, st) ==
  \A k \in Rate : off + k < task.mlen => o[off + k] = Xor(task.m[off + k], st[k])

Tag(st, k) == Xor(st[RATE + k], task.key[k])

-----------------------------------------------------------------------------
(***************************************************************************)
(* The invariant.                                                          *)
(***************************************************************************)
Place(x) ==
  /\ x \in {"ad", "text", "finalize"} \X Nat \X State
  /\ x[1] = "ad" => x[2] < task.adlen
  /\ x[1] = "text" => x[2] < task.mlen
  /\ x[1] = "finalize" => x[2] = 0

PlacesOk ==
  /\ task \in Tasks
  /\ op \in {"encrypt", "decrypt"}
  /\ pc \in {"initialize", "ad", "text", "finalize", "done"}
  /\ state \in State /\ pos \in Nat
  /\ pc = "ad" => pos < task.adlen
  /\ pc = "text" => pos < task.mlen
  /\ \A x \in hist : Place(x)

\* Where a place leads to.
Led(x, o) ==
  /\ x[1] = "ad" => AuthNext(x[2], x[3]) \in hist
  /\ x[1] = "text" => TextNext(x[2], x[3]) \in hist /\ Covers(o, x[2], x[3])

Here == <<pc, pos, state>>

\* While the compiler encrypts, all places but the one it is at lead on; text
\* that is yet to be written does not overwrite what was.
Encrypting ==
  op = "encrypt" =>
    /\ flip = NoFlip
    /\ pc = "initialize" => hist = {}
    /\ pc \in {"ad", "text", "finalize"} =>
         /\ FirstPlace \in hist /\ Here \in hist
         /\ \A x \in hist \ {Here} :
              /\ Led(x, out)
              /\ x[1] # "finalize"
              /\ pc = "ad" => x[1] = "ad"
              /\ pc = "text" /\ x[1] = "text" => x[2] + RATE =< pos

\* Then every place leads on, and the last one to the tag.
Encrypted ==
  op = "decrypt" \/ pc = "done" =>
    /\ FirstPlace \in hist
    /\ DOMAIN c = 0 .. task.mlen + CAP - 1
    /\ \A x \in hist :
         /\ Led(x, c)
         /\ x[1] = "finalize" =>
              \/ flip = NoFlip /\ \A k \in 0 .. CAP - 1 : c[task.mlen + k] = Tag(x[3], k)
              \/ /\ flip # NoFlip /\ flip[1] \in 0 .. CAP - 1 /\ flip[2] \in 0 .. 7
                 /\ c[task.mlen + flip[1]] = Xor(Tag(x[3], flip[1]), Bit(flip[2]))

SInv == PlacesOk /\ Encrypting /\ Encrypted /\ SameStates /\ Decrypts

-----------------------------------------------------------------------------
(***************************************************************************)
(* Exclusive or.                                                           *)
(***************************************************************************)
LEMMA BitFacts ==
  ASSUME NEW h \in {0, 1}, NEW s \in {0, 1}, NEW x \in {0, 1}, NEW y \in {0, 1}
  PROVE  /\ (x + s) % 2 \in {0, 1} /\ (x + s) % 2 = (s + x) % 2
         /\ (0 + s) % 2 = s
         /\ (((x + s) % 2) + s) % 2 = x
         /\ (s + ((((h + ((x + s) % 2)) % 2) + y) % 2)) % 2 = (((h + x) % 2) + y) % 2
         /\ (((h + ((x + s) % 2)) % 2) + y) % 2 = (s + ((((h + x) % 2) + y) % 2)) % 2
         /\ (s + 1) % 2 # s
<1>1. (x + s) % 2 \in {0, 1} /\ (x + s) % 2 = (s + x) % 2 /\ (0 + s) % 2 = s /\ (s + 1) % 2 # s
  OBVIOUS
<1>2. (((x + s) % 2) + s) % 2 = x
  OBVIOUS
<1>3. (s + ((((h + ((x + s) % 2)) % 2) + y) % 2)) % 2 = (((h + x) % 2) + y) % 2
  OBVIOUS
<1>4. (((h + ((x + s) % 2)) % 2) + y) % 2 = (s + ((((h + x) % 2) + y) % 2)) % 2
  OBVIOUS
<1>5. QED
  BY <1>1, <1>2, <1>3, <1>4

LEMMA XorFacts ==
  ASSUME NEW h \in Byte, NEW s \in Byte, NEW x \in Byte, NEW y \in Byte
  PROVE  /\ Xor(x, s) \in Byte /\ Xor(x, s) = Xor(s, x)
         /\ Xor(ZeroByte, s) = s
         /\ Xor(Xor(x, s), s) = x
         /\ Xor(s, Xor(Xor(h, Xor(x, s)), y)) = Xor(Xor(h, x), y)
         /\ Xor(Xor(h, Xor(x, s)), y) = Xor(s, Xor(Xor(h, x), y))
         /\ \A n \in 0 .. 7 : Xor(s, Bit(n)) # s
<1>1. \A k \in 0 .. 7 : h[k] \in {0, 1} /\ s[k] \in {0, 1} /\ x[k] \in {0, 1} /\ y[k] \in {0, 1}
  BY DEF Byte
<1>2. Xor(x, s) \in Byte /\ Xor(x, s) = Xor(s, x)
  BY <1>1, BitFacts DEF Xor, Byte
<1>3. Xor(ZeroByte, s) = s
  BY <1>1, BitFacts DEF Xor, Byte, ZeroByte
<1>4. Xor(Xor(x, s), s) = x
  BY <1>1, BitFacts DEF Xor, Byte
<1>5. Xor(s, Xor(Xor(h, Xor(x, s)), y)) = Xor(Xor(h, x), y)
  BY <1>1, BitFacts DEF Xor
<1>6. Xor(Xor(h, Xor(x, s)), y) = Xor(s, Xor(Xor(h, x), y))
  BY <1>1, BitFacts DEF Xor
<1>7. ASSUME NEW n \in 0 .. 7
      PROVE  Xor(s, Bit(n)) # s
  <2>1. Xor(s, Bit(n))[n] = (s[n] + 1) % 2
    BY DEF Xor, Bit
  <2>2. QED
    BY <1>1, <2>1, BitFacts
<1>8. QED
  BY <1>2, <1>3, <1>4, <1>5, <1>6, <1>7

LEMMA XorByte ==
  \A x, s \in Byte : Xor(x, s) \in Byte /\ Xor(x, s) = Xor(s, x)
  BY XorFacts

LEMMA ConstBytes ==
  /\ ZeroByte \in Byte /\ PAD \in Byte /\ \A n \in 0 .. 7 : Bit(n) \in Byte
  /\ \A n \in {0, 1, 2, 3} : Const(n) \in Byte
<1>1. ZeroByte \in Byte /\ \A n : Bit(n) \in Byte
  BY DEF ZeroByte, Bit, Byte
<1>2. PAD \in Byte
  BY <1>1 DEF PAD
<1>3. ASSUME NEW n \in {0, 1, 2, 3} PROVE Const(n) \in Byte
  <2> DEFINE u == [k \in 0 .. 7 |-> IF k = 0 THEN n % 2 ELSE IF k = 1 THEN n \div 2 ELSE 0]
  <2>1. n % 2 \in {0, 1} /\ n \div 2 \in {0, 1}
    OBVIOUS
  <2>2. u \in Byte
    BY <2>1 DEF Byte
  <2> HIDE DEF u
  <2>3. Xor(u, Bit(CAP \div 8)) \in Byte
    BY <1>1, <2>2, XorFacts
  <2>4. QED
    BY <2>3 DEF Const, u
<1>4. QED
  BY <1>1, <1>2, <1>3

-----------------------------------------------------------------------------
(***************************************************************************)
(* States.                                                                 *)
(***************************************************************************)
LEMMA Sizes ==
  ASSUME task \in Tasks
  PROVE  /\ RATE \in Nat \ {0} /\ CAP \in Nat \ {0} /\ half \in Nat /\ half + half = RATE
         /\ half =< CAP /\ task.adlen \in Nat /\ task.mlen \in Nat
         /\ \A k \in Rate : CAP_INDEX(k) \in 0 .. CAP - 1
<1>1. /\ RATE \in Nat \ {0} /\ CAP \in Nat \ {0} /\ RATE % 2 = 0 /\ RATE =< 2 * CAP
      /\ task.adlen \in Nat /\ task.mlen \in Nat
  BY TasksAssumption DEF RATE, CAP
<1>2. half \in Nat /\ half + half = RATE
  BY <1>1 DEF half
<1>3. half =< CAP
  BY <1>1, <1>2
<1>4. ASSUME NEW k \in Rate
      PROVE  CAP_INDEX(k) \in 0 .. CAP - 1
  <2>1. k \in Nat /\ k < RATE
    BY <1>1 DEF Rate
  <2>2. k % CAP \in 0 .. CAP - 1
    BY <1>1, <2>1
  <2>3. QED
    BY <1>1, <2>1, <2>2 DEF CAP_INDEX
<1>5. QED
  BY <1>1, <1>2, <1>3, <1>4

LEMMA StateBytes ==
  ASSUME task \in Tasks, NEW st \in State
  PROVE  /\ \A k \in Rate : st[k] \in Byte /\ st[RATE + CAP_INDEX(k)] \in Byte
         /\ \A k \in 0 .. half - 1 : st[k + half] \in Byte /\ st[RATE + k] \in Byte
         /\ \A k \in half .. RATE - 1 : st[k - half] \in Byte
         /\ \A k \in 0 .. CAP - 1 : st[RATE + k] \in Byte
<1>1. st \in [0 .. RATE + CAP - 1 -> Byte]
  BY DEF State, Index
<1>2. \A k \in Rate : k \in 0 .. RATE + CAP - 1 /\ RATE + CAP_INDEX(k) \in 0 .. RATE + CAP - 1
  BY Sizes DEF Rate
<1>3. \A k \in 0 .. half - 1 : k + half \in 0 .. RATE + CAP - 1 /\ RATE + k \in 0 .. RATE + CAP - 1
  BY Sizes
<1>4. \A k \in half .. RATE - 1 : k - half \in 0 .. RATE + CAP - 1
  BY Sizes
<1>5. \A k \in 0 .. CAP - 1 : RATE + k \in 0 .. RATE + CAP - 1
  BY Sizes
<1>6. QED
  BY <1>1, <1>2, <1>3, <1>4, <1>5

LEMMA RhoIsState ==
  ASSUME task \in Tasks, NEW st \in State, NEW x \in [Rate -> Byte]
  PROVE  rho_whi(st, x) \in State
<1> SUFFICES ASSUME NEW k \in Index PROVE rho_whi(st, x)[k] \in Byte
  BY DEF rho_whi, State
<1>1. k \in Nat /\ k < RATE + CAP /\ RATE \in Nat /\ half \in Nat /\ half + half = RATE
  BY Sizes DEF Index
<1>2. CASE k < half
  <2>1. k \in 0 .. half - 1 /\ k \in Rate
    BY <1>1, <1>2 DEF Rate
  <2>2. rho_whi(st, x)[k] = Xor(Xor(st[k + half], x[k]), st[RATE + k])
    BY <1>2 DEF rho_whi
  <2>3. st[k + half] \in Byte /\ x[k] \in Byte /\ st[RATE + k] \in Byte
    BY <2>1, StateBytes
  <2>4. Xor(st[k + half], x[k]) \in Byte
    BY <2>3, XorFacts
  <2>5. QED
    BY <2>2, <2>3, <2>4, XorFacts
<1>3. CASE ~ (k < half) /\ k < RATE
  <2>1. k \in half .. RATE - 1 /\ k \in Rate
    BY <1>1, <1>3 DEF Rate
  <2>2. rho_whi(st, x)[k] = Xor(st[k], Xor(Xor(st[k - half], x[k]), st[RATE + CAP_INDEX(k)]))
    BY <1>3 DEF rho_whi
  <2>3. st[k] \in Byte /\ st[k - half] \in Byte /\ x[k] \in Byte /\ st[RATE + CAP_INDEX(k)] \in Byte
    BY <2>1, StateBytes
  <2>4. Xor(st[k - half], x[k]) \in Byte
    BY <2>3, XorFacts
  <2>5. Xor(Xor(st[k - half], x[k]), st[RATE + CAP_INDEX(k)]) \in Byte
    BY <2>3, <2>4, XorFacts
  <2>6. QED
    BY <2>2, <2>3, <2>5, XorByte
<1>4. CASE ~ (k < half) /\ ~ (k < RATE)
  BY <1>4 DEF rho_whi, State
<1>5. QED
  BY <1>2, <1>3, <1>4

\* What rho_whi_dec does with a block of ciphertext is what rho_whi_enc did
\* with the plain data.
LEMMA RhoDecrypts ==
  ASSUME task \in Tasks, NEW st \in State, NEW x \in [Rate -> Byte]
  PROVE  rho_whi_dec(st, Masked(st, x)) = rho_whi(st, x)
<1> DEFINE y == Masked(st, x)
<1> SUFFICES ASSUME NEW k \in Index PROVE rho_whi_dec(st, y)[k] = rho_whi(st, x)[k]
  BY DEF rho_whi, rho_whi_dec
<1>1. k \in Nat /\ k < RATE + CAP /\ RATE \in Nat /\ half \in Nat /\ half + half = RATE
  BY Sizes DEF Index
<1>2. CASE k < half
  <2>1. k \in 0 .. half - 1 /\ k \in Rate
    BY <1>1, <1>2 DEF Rate
  <2>2. /\ rho_whi(st, x)[k] = Xor(Xor(st[k + half], x[k]), st[RATE + k])
        /\ rho_whi_dec(st, y)[k] = Xor(st[k], Xor(Xor(st[k + half], y[k]), st[RATE + k]))
    BY <1>2 DEF rho_whi, rho_whi_dec
  <2>3. st[k + half] \in Byte /\ x[k] \in Byte /\ st[RATE + k] \in Byte /\ st[k] \in Byte
    BY <2>1, StateBytes
  <2>4. y[k] = Xor(x[k], st[k])
    BY <2>1 DEF Masked
  <2>5. Xor(st[k], Xor(Xor(st[k + half], Xor(x[k], st[k])), st[RATE + k]))
          = Xor(Xor(st[k + half], x[k]), st[RATE + k])
    <3>1. \A h, s, u, v \in Byte : Xor(s, Xor(Xor(h, Xor(u, s)), v)) = Xor(Xor(h, u), v)
      BY XorFacts
    <3>2. QED BY <2>3, <3>1
  <2>6. QED
    BY <2>2, <2>4, <2>5
<1>3. CASE ~ (k < half) /\ k < RATE
  <2>1. k \in half .. RATE - 1 /\ k \in Rate
    BY <1>1, <1>3 DEF Rate
  <2>2. /\ rho_whi(st, x)[k] = Xor(st[k], Xor(Xor(st[k - half], x[k]), st[RATE + CAP_INDEX(k)]))
        /\ rho_whi_dec(st, y)[k] = Xor(Xor(st[k - half], y[k]), st[RATE + CAP_INDEX(k)])
    BY <1>3 DEF rho_whi, rho_whi_dec
  <2>3. st[k] \in Byte /\ st[k - half] \in Byte /\ x[k] \in Byte /\ st[RATE + CAP_INDEX(k)] \in Byte
    BY <2>1, StateBytes
  <2>4. y[k] = Xor(x[k], st[k])
    BY <2>1 DEF Masked
  <2>5. QED
    BY <2>2, <2>3, <2>4, XorFacts
<1>4. CASE ~ (k < half) /\ ~ (k < RATE)
  BY <1>4 DEF rho_whi, rho_whi_dec
<1>5. QED
  BY <1>2, <1>3, <1>4

\* The constant goes into the capacity.
LEMMA ConstAdded ==
  ASSUME task \in Tasks, NEW st \in State, NEW n \in {0, 1, 2, 3}
  PROVE  AddConst(st, n) \in State /\ \A k \in Rate : AddConst(st, n)[k] = st[k]
<1>1. RATE + CAP - 1 \in Index /\ \A k \in Rate : k \in Index /\ k # RATE + CAP - 1
  BY Sizes DEF Index, Rate
<1>2. Const(n) \in Byte /\ st[RATE + CAP - 1] \in Byte
  BY <1>1, ConstBytes DEF State
<1>3. Xor(st[RATE + CAP - 1], Const(n)) \in Byte
  BY <1>2, XorFacts
<1>4. QED
  BY <1>1, <1>3 DEF AddConst, State

LEMMA LastConstIs ==
  ASSUME NEW n \in Int
  PROVE  LastConst(0, n) \in {0, 1, 2, 3} /\ LastConst(2, n) \in {0, 1, 2, 3}
  BY DEF LastConst

LEMMA PermutedIsState ==
  ASSUME PermutesStates, task \in Tasks, NEW st \in State, NEW n \in {task.slim, task.big}
  PROVE  schwaemm_sparkle(st, n) \in State
  BY DEF PermutesStates, State, Index, RATE, CAP

LEMMA BlockBytes ==
  ASSUME task \in Tasks, NEW len \in Nat, NEW data \in [0 .. len - 1 -> Byte],
         NEW off \in Nat
  PROVE  /\ Padded(data, off, len - off) \in [Rate -> Byte]
         /\ len - off > RATE => BlockAt(data, off) \in [Rate -> Byte]
<1>1. ASSUME NEW k \in Rate
      PROVE  Padded(data, off, len - off)[k] \in Byte
  <2>1. k \in Nat
    BY Sizes DEF Rate
  <2>2. k < len - off => off + k \in 0 .. len - 1
    BY <2>1
  <2>3. QED
    BY <2>2, ConstBytes DEF Padded
<1>2. ASSUME len - off > RATE, NEW k \in Rate
      PROVE  BlockAt(data, off)[k] \in Byte
  <2>1. off + k \in 0 .. len - 1
    BY <1>2, Sizes DEF Rate
  <2>2. QED
    BY <2>1 DEF BlockAt
<1>3. Padded(data, off, len - off) \in [Rate -> Byte]
  BY <1>1 DEF Padded
<1>4. len - off > RATE => BlockAt(data, off) \in [Rate -> Byte]
  BY <1>2 DEF BlockAt
<1>5. QED
  BY <1>3, <1>4

LEMMA KeyedIsState ==
  ASSUME task \in Tasks
  PROVE  Keyed \in State
<1>1. task.nonce \in [0 .. RATE - 1 -> Byte] /\ task.key \in [0 .. CAP - 1 -> Byte]
  BY TasksAssumption DEF RATE, CAP
<1>2. ASSUME NEW k \in Index
      PROVE  (IF k < RATE THEN task.nonce[k] ELSE task.key[k - RATE]) \in Byte
  <2>1. k < RATE => k \in 0 .. RATE - 1
    BY <1>2, Sizes DEF Index
  <2>2. ~ (k < RATE) => k - RATE \in 0 .. CAP - 1
    BY <1>2, Sizes DEF Index
  <2>3. QED
    BY <1>1, <2>1, <2>2
<1>3. QED
  BY <1>2 DEF Keyed, State

LEMMA AfterAre ==
  ASSUME task \in Tasks
  PROVE  /\ AdEnd \in {"text", "finalize"} /\ InitEnd \in {"ad", "text", "finalize"}
         /\ AdEnd = "text" => 0 < task.mlen
         /\ InitEnd = "text" => 0 < task.mlen
         /\ InitEnd = "ad" => 0 < task.adlen
         /\ AdEnd = "finalize" => task.mlen = 0
         /\ InitEnd = "finalize" => task.mlen = 0
  BY Sizes DEF AdEnd, InitEnd

\* What the element takes for the length of the text is that of the text.
LEMMA LengthIs ==
  ASSUME task \in Tasks
  PROVE  csize = task.mlen /\ AfterAd = AdEnd /\ AfterInit = InitEnd
<1>1. task.mlen \in Nat /\ CAP \in Nat
  BY Sizes
<1>2. csize = task.mlen
  BY <1>1 DEF csize, clen
<1>3. QED
  BY <1>2 DEF AfterAd, AfterInit, AdEnd, InitEnd, TextLen

-----------------------------------------------------------------------------
(***************************************************************************)
(* Places lead to places.                                                  *)
(***************************************************************************)
LEMMA FirstIsPlace ==
  ASSUME PermutesStates, task \in Tasks
  PROVE  Place(FirstPlace)
<1>1. schwaemm_sparkle(Keyed, task.big) \in State
  BY KeyedIsState, PermutedIsState
<1>2. QED
  BY <1>1, AfterAre DEF Place, FirstPlace

\* The state after a last block, and after another one.
LEMMA AbsorbedIsState ==
  ASSUME PermutesStates, task \in Tasks, NEW st \in State, NEW x \in [Rate -> Byte]
  PROVE  /\ schwaemm_sparkle(rho_whi(st, x), task.slim) \in State
         /\ \A n \in {0, 1, 2, 3} : schwaemm_sparkle(rho_whi(AddConst(st, n), x), task.big) \in State
<1>1. schwaemm_sparkle(rho_whi(st, x), task.slim) \in State
  <2>1. rho_whi(st, x) \in State
    BY RhoIsState
  <2>2. QED
    BY <2>1, PermutedIsState
<1>2. ASSUME NEW n \in {0, 1, 2, 3}
      PROVE  schwaemm_sparkle(rho_whi(AddConst(st, n), x), task.big) \in State
  <2>1. AddConst(st, n) \in State
    BY ConstAdded
  <2>2. rho_whi(AddConst(st, n), x) \in State
    BY <2>1, RhoIsState
  <2>3. QED
    BY <2>2, PermutedIsState
<1>3. QED
  BY <1>1, <1>2

LEMMA AuthToPlace ==
  ASSUME PermutesStates, task \in Tasks, NEW st \in State, NEW off \in Nat, off < task.adlen
  PROVE  /\ Place(AuthNext(off, st))
         /\ AuthNext(off, st)[1] # "ad" => AuthNext(off, st)[1] = AdEnd
         /\ AuthNext(off, st)[1] = "text" => AuthNext(off, st)[2] = 0
<1> DEFINE inlen == task.adlen - off
<1>1. task.ad \in [0 .. task.adlen - 1 -> Byte] /\ task.adlen \in Nat /\ RATE \in Nat
  BY TasksAssumption, Sizes
<1>2. Padded(task.ad, off, inlen) \in [Rate -> Byte]
  BY <1>1, BlockBytes
<1>3. inlen > RATE => BlockAt(task.ad, off) \in [Rate -> Byte]
  BY <1>1, BlockBytes
<1>4. LastConst(0, inlen) \in {0, 1, 2, 3}
  BY <1>1, LastConstIs
<1>5. CASE inlen > RATE
  <2>1. AuthNext(off, st)
          = <<"ad", off + RATE, schwaemm_sparkle(rho_whi(st, BlockAt(task.ad, off)), task.slim)>>
    BY <1>5 DEF AuthNext
  <2>2. schwaemm_sparkle(rho_whi(st, BlockAt(task.ad, off)), task.slim) \in State
    BY <1>3, <1>5, AbsorbedIsState
  <2>3. off + RATE \in Nat /\ off + RATE < task.adlen
    BY <1>1, <1>5
  <2>4. QED
    BY <2>1, <2>2, <2>3 DEF Place
<1>6. CASE ~ (inlen > RATE)
  <2> DEFINE st2 == schwaemm_sparkle(rho_whi(AddConst(st, LastConst(0, inlen)),
                                             Padded(task.ad, off, inlen)), task.big)
  <2>1. AuthNext(off, st) = <<AdEnd, 0, st2>>
    BY <1>6 DEF AuthNext
  <2>2. st2 \in State
    BY <1>2, <1>4, AbsorbedIsState
  <2> HIDE DEF st2
  <2>3. QED
    BY <2>1, <2>2, AfterAre DEF Place
<1>7. QED
  BY <1>5, <1>6

LEMMA TextToPlace ==
  ASSUME PermutesStates, task \in Tasks, NEW st \in State, NEW off \in Nat, off < task.mlen
  PROVE  /\ Place(TextNext(off, st))
         /\ TextNext(off, st)[1] \in {"text", "finalize"}
         /\ TextNext(off, st)[1] = "text" =>
              TextNext(off, st)[2] = off + RATE /\ task.mlen - off > RATE
         /\ TextNext(off, st)[1] = "finalize" => task.mlen - off =< RATE
<1> DEFINE inlen == task.mlen - off
<1>1. task.m \in [0 .. task.mlen - 1 -> Byte] /\ task.mlen \in Nat /\ RATE \in Nat
  BY TasksAssumption, Sizes
<1>2. Padded(task.m, off, inlen) \in [Rate -> Byte]
  BY <1>1, BlockBytes
<1>3. inlen > RATE => BlockAt(task.m, off) \in [Rate -> Byte]
  BY <1>1, BlockBytes
<1>4. LastConst(2, inlen) \in {0, 1, 2, 3}
  BY <1>1, LastConstIs
<1>5. CASE inlen > RATE
  <2>1. TextNext(off, st)
          = <<"text", off + RATE, schwaemm_sparkle(rho_whi(st, BlockAt(task.m, off)), task.slim)>>
    BY <1>5 DEF TextNext
  <2>2. schwaemm_sparkle(rho_whi(st, BlockAt(task.m, off)), task.slim) \in State
    BY <1>3, <1>5, AbsorbedIsState
  <2>3. off + RATE \in Nat /\ off + RATE < task.mlen
    BY <1>1, <1>5
  <2>4. QED
    BY <1>5, <2>1, <2>2, <2>3 DEF Place
<1>6. CASE ~ (inlen > RATE)
  <2> DEFINE st2 == schwaemm_sparkle(rho_whi(AddConst(st, LastConst(2, inlen)),
                                             Padded(task.m, off, inlen)), task.big)
  <2>1. TextNext(off, st) = <<"finalize", 0, st2>>
    BY <1>6 DEF TextNext
  <2>2. st2 \in State
    BY <1>2, <1>4, AbsorbedIsState
  <2> HIDE DEF st2
  <2>3. task.mlen - off =< RATE
    BY <1>1, <1>6
  <2>4. QED
    BY <2>1, <2>2, <2>3 DEF Place
<1>7. QED
  BY <1>5, <1>6
-----------------------------------------------------------------------------
(***************************************************************************)
(* The ciphertext that was written is what decryption expects.             *)
(***************************************************************************)
LEMMA MaskedByRate ==
  ASSUME task \in Tasks, NEW st \in State, NEW n \in {0, 1, 2, 3}, NEW x
  PROVE  Masked(AddConst(st, n), x) = Masked(st, x)
  BY ConstAdded DEF Masked

LEMMA CoveredBlock ==
  ASSUME task \in Tasks, NEW st \in State, NEW off \in Nat, NEW o,
         task.mlen - off > RATE, Covers(o, off, st)
  PROVE  BlockAt(o, off) = Masked(st, BlockAt(task.m, off))
<1>1. ASSUME NEW k \in Rate
      PROVE  o[off + k] = Xor(task.m[off + k], st[k])
  <2>1. off + k < task.mlen
    BY Sizes DEF Rate
  <2>2. QED
    BY <2>1 DEF Covers
<1>2. QED
  BY <1>1 DEF BlockAt, Masked

LEMMA CoveredLast ==
  ASSUME task \in Tasks, NEW st \in State, NEW off \in Nat, NEW o, off < task.mlen,
         Covers(o, off, st)
  PROVE  PaddedDec(o, off, task.mlen - off, st)
           = Masked(st, Padded(task.m, off, task.mlen - off))
<1> DEFINE inlen == task.mlen - off
<1> DEFINE x == Padded(task.m, off, inlen)
<1>1. ASSUME NEW k \in Rate
      PROVE  PaddedDec(o, off, inlen, st)[k] = Xor(x[k], st[k])
  <2>1. k \in Nat /\ st[k] \in Byte
    BY Sizes, StateBytes DEF Rate
  <2>2. CASE k < inlen
    <3>1. off + k < task.mlen
      BY <2>1, <2>2, Sizes
    <3>2. o[off + k] = Xor(task.m[off + k], st[k])
      BY <3>1 DEF Covers
    <3>3. PaddedDec(o, off, inlen, st)[k] = o[off + k] /\ x[k] = task.m[off + k]
      BY <2>2 DEF PaddedDec, Padded
    <3>4. QED
      BY <3>2, <3>3
  <2>3. CASE ~ (k < inlen) /\ k = inlen
    <3>1. PaddedDec(o, off, inlen, st)[k] = Xor(st[k], PAD) /\ x[k] = PAD
      BY <2>3 DEF PaddedDec, Padded
    <3>2. QED
      BY <2>1, <3>1, ConstBytes, XorByte
  <2>4. CASE ~ (k < inlen) /\ k # inlen
    <3>1. PaddedDec(o, off, inlen, st)[k] = st[k] /\ x[k] = ZeroByte
      BY <2>4 DEF PaddedDec, Padded
    <3>2. Xor(ZeroByte, st[k]) = st[k]
      BY <2>1, ConstBytes, XorFacts
    <3>3. QED
      BY <3>1, <3>2
  <2>5. QED
    BY <2>2, <2>3, <2>4
<1>2. QED
  BY <1>1 DEF PaddedDec, Masked

-----------------------------------------------------------------------------
(***************************************************************************)
(* What the steps do, in terms of places.                                  *)
(***************************************************************************)
\* The place is now y; everything but what is written stays.
Walk(y) ==
  /\ Here' = y
  /\ hist' = IF op = "encrypt" THEN hist \cup {y} ELSE hist
  /\ UNCHANGED <<task, op, c, flip, retval>>

LEMMA InitializeWalks ==
  ASSUME Initialize, task \in Tasks
  PROVE  Walk(FirstPlace) /\ pc = "initialize" /\ out' = out
  BY LengthIs DEF Initialize, Go, Walk, Here, FirstPlace, Keyed

LEMMA AuthWalks ==
  ASSUME AuthBlock \/ AuthLast, task \in Tasks
  PROVE  Walk(AuthNext(pos, state)) /\ pc = "ad" /\ out' = out
<1>1. CASE AuthBlock
  <2>1. AuthNext(pos, state)
          = <<"ad", pos + RATE, schwaemm_sparkle(rho_whi(state, Block(task.ad)), task.slim)>>
    BY <1>1 DEF AuthBlock, MoreThanABlock, AuthNext, Block, BlockAt
  <2>2. QED
    BY <1>1, <2>1 DEF AuthBlock, Go, Walk, Here
<1>2. CASE AuthLast
  <2> DEFINE inlen == task.adlen - pos
  <2>1. AuthNext(pos, state)
          = <<AdEnd, 0, schwaemm_sparkle(rho_whi(AddConst(state, LastConst(0, inlen)),
                                                   Padded(task.ad, pos, inlen)), task.big)>>
    BY <1>2 DEF AuthLast, MoreThanABlock, AuthNext
  <2>2. QED
    BY <1>2, <2>1, LengthIs DEF AuthLast, Go, Walk, Here
<1>3. QED
  BY <1>1, <1>2

LEMMA WrittenIs ==
  ASSUME pos \in Nat, NEW n \in Nat, NEW x
  PROVE  /\ \A k \in 0 .. pos - 1 : Written(x, n)[k] = out[k]
         /\ \A k \in 0 .. n - 1 : Written(x, n)[pos + k] = x[k]
<1>1. \A k \in 0 .. pos - 1 : Written(x, n)[k] = out[k]
  BY DEF Written
<1>2. ASSUME NEW k \in 0 .. n - 1
      PROVE  Written(x, n)[pos + k] = x[k]
  <2> DEFINE i == pos + k
  <2>1. i \in 0 .. pos + n - 1 /\ ~ (i < pos) /\ i - pos = k
    OBVIOUS
  <2> HIDE DEF i
  <2>2. Written(x, n)[i] = x[i - pos]
    BY <2>1 DEF Written
  <2>3. QED
    BY <2>1, <2>2 DEF i
<1>3. QED
  BY <1>1, <1>2

\* What has been written stays, and the ciphertext of this block is behind it.
LEMMA EncWalks ==
  ASSUME PlacesOk, EncBlock \/ EncLast
  PROVE  /\ Walk(TextNext(pos, state)) /\ op = "encrypt" /\ pc = "text"
         /\ \A k \in 0 .. pos - 1 : out'[k] = out[k]
         /\ Covers(out', pos, state)
<1> USE DEF PlacesOk
<1>1. CASE EncBlock
  <2>1. TextNext(pos, state)
          = <<"text", pos + RATE, schwaemm_sparkle(rho_whi(state, Block(task.m)), task.slim)>>
    BY <1>1 DEF EncBlock, MoreThanABlock, TextNext, Block, BlockAt
  <2>2. Walk(TextNext(pos, state)) /\ op = "encrypt" /\ pc = "text"
    BY <1>1, <2>1 DEF EncBlock, Go, Walk, Here
  <2>3. \A k \in 0 .. pos - 1 : out'[k] = out[k]
    BY <1>1, Sizes DEF EncBlock, Written
  <2>4. ASSUME NEW k \in Rate
        PROVE  out'[pos + k] = Xor(task.m[pos + k], state[k])
    <3>1. k \in 0 .. RATE - 1 /\ RATE \in Nat
      BY Sizes DEF Rate
    <3>2. out'[pos + k] = Masked(state, Block(task.m))[k]
      BY <1>1, <3>1, WrittenIs DEF EncBlock
    <3>3. QED
      BY <3>2 DEF Masked, Block
  <2>5. QED
    BY <2>2, <2>3, <2>4 DEF Covers
<1>2. CASE EncLast
  <2> DEFINE inlen == task.mlen - pos
  <2> DEFINE x == Padded(task.m, pos, inlen)
  <2>1. TextNext(pos, state)
          = <<"finalize", 0,
              schwaemm_sparkle(rho_whi(AddConst(state, LastConst(2, inlen)), x), task.big)>>
    BY <1>2 DEF EncLast, MoreThanABlock, TextNext
  <2>2. Walk(TextNext(pos, state)) /\ op = "encrypt" /\ pc = "text"
    BY <1>2, <2>1 DEF EncLast, Go, Walk, Here
  <2>3. inlen \in Nat /\ inlen =< RATE /\ pos + inlen = task.mlen
    BY <1>2, Sizes DEF EncLast, MoreThanABlock
  <2>4. out' = Written(Masked(state, x), inlen)
    BY <1>2 DEF EncLast
  <2>5. \A k \in 0 .. pos - 1 : out'[k] = out[k]
    BY <2>3, <2>4 DEF Written
  <2>6. ASSUME NEW k \in Rate, pos + k < task.mlen
        PROVE  out'[pos + k] = Xor(task.m[pos + k], state[k])
    <3>1. k \in 0 .. inlen - 1 /\ k < inlen
      BY <2>3, <2>6, Sizes DEF Rate
    <3>2. out'[pos + k] = Masked(state, x)[k]
      BY <2>3, <2>4, <3>1, WrittenIs
    <3>3. x[k] = task.m[pos + k]
      BY <3>1 DEF Padded
    <3>4. QED
      BY <3>2, <3>3 DEF Masked
  <2>7. QED
    BY <2>2, <2>5, <2>6 DEF Covers
<1>3. QED
  BY <1>1, <1>2
\* The element finds the place the compiler went to, and the text it read.
LEMMA DecWalks ==
  ASSUME PlacesOk, DecBlock \/ DecLast, Covers(c, pos, state)
  PROVE  /\ Walk(TextNext(pos, state)) /\ op = "decrypt" /\ pc = "text"
         /\ \A k \in 0 .. pos - 1 : out'[k] = out[k]
         /\ \A k \in Rate : pos + k < task.mlen => out'[pos + k] = task.m[pos + k]
<1> USE DEF PlacesOk
<1>0. /\ op = "decrypt" /\ pc = "text" /\ pos < task.mlen
      /\ task.m \in [0 .. task.mlen - 1 -> Byte]
  BY TasksAssumption DEF DecBlock, DecLast
<1>a. ASSUME NEW k \in Rate, pos + k < task.mlen
      PROVE  Xor(c[pos + k], state[k]) = task.m[pos + k]
  <2>1. pos + k \in 0 .. task.mlen - 1
    BY <1>a, Sizes DEF Rate
  <2>2. task.m[pos + k] \in Byte /\ state[k] \in Byte
    BY <1>0, <2>1, StateBytes
  <2>3. c[pos + k] = Xor(task.m[pos + k], state[k])
    BY <1>a DEF Covers
  <2>4. QED
    BY <2>2, <2>3, XorFacts
<1>1. CASE DecBlock
  <2> DEFINE x == BlockAt(task.m, pos)
  <2>1. task.mlen - pos > RATE
    BY <1>1, LengthIs DEF DecBlock, MoreThanABlock
  <2>2. Block(c) = Masked(state, x)
    BY <2>1, CoveredBlock DEF Block, BlockAt
  <2>3. x \in [Rate -> Byte]
    BY <1>0, <2>1, Sizes, BlockBytes
  <2>4. rho_whi_dec(state, Block(c)) = rho_whi(state, x)
    BY <2>2, <2>3, RhoDecrypts
  <2>5. TextNext(pos, state)
          = <<"text", pos + RATE, schwaemm_sparkle(rho_whi_dec(state, Block(c)), task.slim)>>
    BY <2>1, <2>4 DEF TextNext
  <2>6. Walk(TextNext(pos, state))
    BY <1>1, <2>5 DEF DecBlock, Go, Walk, Here
  <2>7. out' = Written(Masked(state, Block(c)), RATE) /\ RATE \in Nat
    BY <1>1, Sizes DEF DecBlock
  <2>8. ASSUME NEW k \in Rate
        PROVE  out'[pos + k] = Xor(c[pos + k], state[k])
    <3>1. out'[pos + k] = Masked(state, Block(c))[k]
      BY <2>7, WrittenIs DEF Rate
    <3>2. QED
      BY <3>1 DEF Masked, Block
  <2>9. QED
    BY <1>0, <1>a, <2>6, <2>7, <2>8, WrittenIs
<1>2. CASE DecLast
  <2> DEFINE inlen == task.mlen - pos
  <2> DEFINE x == Padded(task.m, pos, inlen)
  <2> DEFINE y == PaddedDec(c, pos, inlen, state)
  <2> DEFINE n == LastConst(2, inlen)
  <2>1. inlen \in Nat /\ inlen =< RATE /\ pos + inlen = task.mlen /\ ~ (inlen > RATE)
    BY <1>2, Sizes, LengthIs DEF DecLast, MoreThanABlock
  <2>2. n \in {0, 1, 2, 3} /\ AddConst(state, n) \in State
    BY <2>1, LastConstIs, ConstAdded
  <2>3. x \in [Rate -> Byte]
    BY <1>0, Sizes, BlockBytes
  <2>4. y = Masked(state, x)
    BY <1>0, CoveredLast
  <2>5. y = Masked(AddConst(state, n), x)
    BY <2>2, <2>4, MaskedByRate
  <2>6. rho_whi_dec(AddConst(state, n), y) = rho_whi(AddConst(state, n), x)
    BY <2>2, <2>3, <2>5, RhoDecrypts
  <2>7. TextNext(pos, state)
          = <<"finalize", 0, schwaemm_sparkle(rho_whi_dec(AddConst(state, n), y), task.big)>>
    BY <2>1, <2>6 DEF TextNext
  <2>8. Walk(TextNext(pos, state))
    BY <1>2, <2>7, LengthIs DEF DecLast, Go, Walk, Here
  <2>9. out' = Written(Masked(state, y), inlen)
    BY <1>2, LengthIs DEF DecLast
  <2>10. ASSUME NEW k \in Rate, pos + k < task.mlen
         PROVE  out'[pos + k] = Xor(c[pos + k], state[k])
    <3>1. k \in 0 .. inlen - 1 /\ k < inlen
      BY <2>1, <2>10, Sizes DEF Rate
    <3>2. out'[pos + k] = Masked(state, y)[k]
      BY <2>1, <2>9, <3>1, WrittenIs
    <3>3. y[k] = c[pos + k]
      BY <3>1 DEF PaddedDec
    <3>4. QED
      BY <3>2, <3>3 DEF Masked
  <2>11. \A k \in 0 .. pos - 1 : out'[k] = out[k]
    BY <2>1, <2>9, WrittenIs
  <2>12. QED
    BY <1>0, <1>a, <2>8, <2>10, <2>11
<1>3. QED
  BY <1>1, <1>2
-----------------------------------------------------------------------------
(***************************************************************************)
(* What the steps keep.                                                    *)
(***************************************************************************)
LEMMA SameTask ==
  ASSUME task' = task
  PROVE  /\ RATE' = RATE /\ CAP' = CAP /\ State' = State /\ FirstPlace' = FirstPlace
         /\ \A x : Place(x)' <=> Place(x)
         /\ \A off, st : AuthNext(off, st)' = AuthNext(off, st)
         /\ \A off, st : TextNext(off, st)' = TextNext(off, st)
         /\ \A st, k : Tag(st, k)' = Tag(st, k)
<1>1. RATE' = RATE /\ CAP' = CAP /\ half' = half /\ Rate' = Rate /\ Index' = Index
  BY DEF RATE, CAP, half, Rate, Index
<1>2. State' = State /\ AdEnd' = AdEnd /\ InitEnd' = InitEnd
  BY <1>1 DEF State, AdEnd, InitEnd
<1>3. /\ \A st, x : rho_whi(st, x)' = rho_whi(st, x)
      /\ \A st, n : AddConst(st, n)' = AddConst(st, n)
      /\ \A data, off, n : Padded(data, off, n)' = Padded(data, off, n)
      /\ \A data, off : BlockAt(data, off)' = BlockAt(data, off)
      /\ \A f, n : LastConst(f, n)' = LastConst(f, n)
      /\ Keyed' = Keyed
  BY <1>1 DEF rho_whi, AddConst, Padded, BlockAt, LastConst, Keyed, CAP_INDEX, Const
<1>4. FirstPlace' = FirstPlace
  BY <1>2, <1>3 DEF FirstPlace
<1>5. \A x : Place(x)' <=> Place(x)
  BY <1>2 DEF Place
<1>6. \A off, st : AuthNext(off, st)' = AuthNext(off, st)
  BY <1>1, <1>2, <1>3 DEF AuthNext
<1>7. \A off, st : TextNext(off, st)' = TextNext(off, st)
  BY <1>1, <1>3 DEF TextNext
<1>8. \A st, k : Tag(st, k)' = Tag(st, k)
  BY <1>1 DEF Tag
<1>9. QED
  BY <1>1, <1>2, <1>4, <1>5, <1>6, <1>7, <1>8

LEMMA WalkKeepsPlaces ==
  ASSUME PlacesOk, NEW y, Place(y), Walk(y)
  PROVE  PlacesOk' /\ <<pc', pos', state'>> = y /\ pc' = y[1] /\ pos' = y[2] /\ state' = y[3]
<1>1. task' = task /\ op' = op /\ <<pc', pos', state'>> = y
  BY DEF Walk, Here
<1>2. y \in {"ad", "text", "finalize"} \X Nat \X State
  BY DEF Place
<1>3. pc' = y[1] /\ pos' = y[2] /\ state' = y[3]
  BY <1>1
<1>4. State' = State /\ \A x : Place(x)' <=> Place(x)
  BY <1>1, SameTask
<1>5. /\ pc' \in {"ad", "text", "finalize"} /\ state' \in State' /\ pos' \in Nat
      /\ pc' = "ad" => pos' < task'.adlen
      /\ pc' = "text" => pos' < task'.mlen
  BY <1>1, <1>2, <1>3, <1>4 DEF Place
<1>6. \A x \in hist' : Place(x)'
  BY <1>4 DEF PlacesOk, Walk
<1>7. QED
  BY <1>1, <1>3, <1>5, <1>6 DEF PlacesOk

\* A place that leads on keeps doing so when the text it wrote is left alone.
LEMMA LedByOut ==
  ASSUME task' = task, hist \subseteq hist', NEW x, Led(x, out),
         x[1] = "text" => Covers(out', x[2], x[3])
  PROVE  Led(x, out)'
<1>1. AuthNext(x[2], x[3])' = AuthNext(x[2], x[3]) /\ TextNext(x[2], x[3])' = TextNext(x[2], x[3])
  BY SameTask
<1>2. x[1] = "text" => Covers(out, x[2], x[3])'
  BY DEF Covers, Rate, RATE
<1>3. QED
  BY <1>1, <1>2 DEF Led

LEMMA EncryptedKept ==
  ASSUME UNCHANGED <<task, hist, c, flip>>, Encrypted, op = "decrypt" \/ pc = "done"
  PROVE  Encrypted'
<1>1. FirstPlace' = FirstPlace /\ CAP' = CAP
  BY SameTask
<1>2. ASSUME NEW x \in hist'
      PROVE  /\ Led(x, c)'
             /\ x[1] = "finalize" =>
                  \/ flip' = NoFlip /\ \A k \in 0 .. CAP' - 1 : c'[task'.mlen + k] = Tag(x[3], k)'
                  \/ /\ flip' # NoFlip /\ flip'[1] \in 0 .. CAP' - 1 /\ flip'[2] \in 0 .. 7
                     /\ c'[task'.mlen + flip'[1]]
                          = Xor(Tag(x[3], flip[1])', Bit(flip'[2]))
  <2>1. /\ AuthNext(x[2], x[3])' = AuthNext(x[2], x[3])
        /\ TextNext(x[2], x[3])' = TextNext(x[2], x[3])
    BY SameTask
  <2>2. Led(x, c)
    BY <1>2 DEF Encrypted
  <2>3. x[1] = "text" => Covers(c, x[2], x[3])'
    BY <2>2 DEF Led, Covers, Rate, RATE
  <2>4. Led(x, c)'
    BY <2>1, <2>2, <2>3 DEF Led
  <2>5. (\A k : Tag(x[3], k)' = Tag(x[3], k)) /\ Tag(x[3], flip[1])' = Tag(x[3], flip[1])
    BY DEF Tag, RATE
  <2>6. QED
    BY <1>1, <1>2, <2>4, <2>5 DEF Encrypted
<1>3. QED
  BY <1>1, <1>2 DEF Encrypted, Bit, NoFlip, Xor

LEMMA InitializeKeeps ==
  ASSUME PermutesStates, SInv, Initialize
  PROVE  SInv'
<1>1. Walk(FirstPlace) /\ pc = "initialize" /\ out' = out
  BY InitializeWalks DEF SInv, PlacesOk
<1>2. task \in Tasks /\ PlacesOk /\ op \in {"encrypt", "decrypt"}
  BY DEF SInv, PlacesOk
<1>3. Place(FirstPlace)
  BY <1>2, FirstIsPlace
<1>4. /\ PlacesOk' /\ Here' = FirstPlace
      /\ pc' = FirstPlace[1] /\ pos' = FirstPlace[2] /\ state' = FirstPlace[3]
  BY <1>1, <1>2, <1>3, WalkKeepsPlaces DEF Here
<1>5. pc' = InitEnd /\ pos' = 0 /\ pc' \in {"ad", "text", "finalize"}
  BY <1>2, <1>4, AfterAre DEF FirstPlace
<1>6. FirstPlace' = FirstPlace /\ task' = task /\ op' = op
  BY <1>1, SameTask DEF Walk
<1>7. CASE op = "encrypt"
  <2>1. hist' = {FirstPlace} /\ flip' = NoFlip
    BY <1>1, <1>7 DEF SInv, Encrypting, Walk, NoFlip
  <2>2. Encrypting'
    BY <1>4, <1>5, <1>6, <2>1 DEF Encrypting, NoFlip
  <2>3. Encrypted' /\ SameStates' /\ Decrypts'
    BY <1>5, <1>6, <1>7 DEF Encrypted, SameStates, Decrypts
  <2>4. QED
    BY <1>4, <2>2, <2>3 DEF SInv
<1>8. CASE op = "decrypt"
  <2>1. UNCHANGED <<task, hist, c, flip>> /\ op' = "decrypt"
    BY <1>1, <1>8 DEF Walk
  <2>2. Encrypted'
    BY <1>8, <2>1, EncryptedKept DEF SInv
  <2>3. SameStates'
    BY <1>4, <1>8, <2>1 DEF SInv, Encrypted, SameStates, Here
  <2>4. pc' = "finalize" => task'.mlen = 0
    BY <1>2, <1>5, <1>6, AfterAre
  <2>5. Decrypts'
    BY <1>5, <2>4 DEF Decrypts
  <2>6. QED
    BY <1>4, <2>1, <2>2, <2>3, <2>5 DEF SInv, Encrypting
<1>9. QED
  BY <1>2, <1>7, <1>8
LEMMA AuthKeeps ==
  ASSUME PermutesStates, SInv, AuthBlock \/ AuthLast
  PROVE  SInv'
<1> DEFINE y == AuthNext(pos, state)
<1>1. Walk(y) /\ pc = "ad" /\ out' = out
  BY AuthWalks DEF SInv, PlacesOk
<1>2. /\ task \in Tasks /\ PlacesOk /\ op \in {"encrypt", "decrypt"}
      /\ state \in State /\ pos \in Nat /\ pos < task.adlen
  BY <1>1 DEF SInv, PlacesOk
<1>3. Place(y) /\ (y[1] # "ad" => y[1] = AdEnd) /\ (y[1] = "text" => y[2] = 0)
  BY <1>2, AuthToPlace
<1>4. /\ PlacesOk' /\ Here' = y /\ pc' = y[1] /\ pos' = y[2] /\ state' = y[3]
      /\ pc' \in {"ad", "text", "finalize"}
  BY <1>1, <1>2, <1>3, WalkKeepsPlaces DEF Here, Place
<1>5. FirstPlace' = FirstPlace /\ task' = task /\ op' = op
  BY <1>1, SameTask DEF Walk
<1>6. CASE op = "encrypt"
  <2>1. hist' = hist \cup {y} /\ flip' = NoFlip
    BY <1>1, <1>6 DEF SInv, Encrypting, Walk, NoFlip
  <2>2. /\ FirstPlace \in hist
        /\ \A x \in hist \ {Here} : Led(x, out) /\ x[1] # "finalize" /\ x[1] = "ad"
    BY <1>1, <1>6 DEF SInv, Encrypting
  <2>3. ASSUME NEW x \in hist' \ {Here'}
        PROVE  Led(x, out)' /\ x[1] = "ad"
    <3>1. x \in hist
      BY <1>4, <2>1
    <3>2. CASE x = Here
      <4>1. x[1] = "ad" /\ x[2] = pos /\ x[3] = state
        BY <1>1, <3>2 DEF Here
      <4>2. AuthNext(x[2], x[3])' = AuthNext(x[2], x[3])
        BY <1>5, SameTask
      <4>3. QED
        BY <2>1, <4>1, <4>2 DEF Led
    <3>3. CASE x # Here
      <4>1. Led(x, out) /\ x[1] = "ad"
        BY <2>2, <3>1, <3>3
      <4>2. Led(x, out)'
        BY <1>5, <2>1, <4>1, LedByOut
      <4>3. QED
        BY <4>1, <4>2
    <3>4. QED
      BY <3>2, <3>3
  <2>4. FirstPlace' \in hist' /\ Here' \in hist'
    BY <1>4, <1>5, <2>1, <2>2
  <2>5. Encrypting'
    BY <1>4, <2>1, <2>3, <2>4 DEF Encrypting, NoFlip
  <2>6. Encrypted' /\ SameStates' /\ Decrypts'
    BY <1>4, <1>5, <1>6 DEF Encrypted, SameStates, Decrypts
  <2>7. QED
    BY <1>4, <2>5, <2>6 DEF SInv
<1>7. CASE op = "decrypt"
  <2>1. UNCHANGED <<task, hist, c, flip>> /\ op' = "decrypt"
    BY <1>1, <1>7 DEF Walk
  <2>2. Encrypted'
    BY <1>7, <2>1, EncryptedKept DEF SInv
  <2>3. Here \in hist
    BY <1>1, <1>7 DEF SInv, SameStates, Here
  <2>4. Led(Here, c)
    BY <1>7, <2>3 DEF SInv, Encrypted
  <2>5. y \in hist
    BY <1>1, <2>4 DEF Led, Here
  <2>6. SameStates'
    BY <1>4, <2>1, <2>5 DEF SameStates, Here
  <2>7. pc' = "finalize" => task'.mlen = 0
    BY <1>2, <1>3, <1>4, <1>5, AfterAre
  <2>8. Decrypts'
    BY <1>3, <1>4, <2>7 DEF Decrypts
  <2>9. QED
    BY <1>4, <2>1, <2>2, <2>6, <2>8 DEF SInv, Encrypting
<1>8. QED
  BY <1>2, <1>6, <1>7

LEMMA EncKeeps ==
  ASSUME PermutesStates, SInv, EncBlock \/ EncLast
  PROVE  SInv'
<1> DEFINE y == TextNext(pos, state)
<1>1. PlacesOk
  BY DEF SInv
<1>2. /\ Walk(y) /\ op = "encrypt" /\ pc = "text"
      /\ \A k \in 0 .. pos - 1 : out'[k] = out[k]
      /\ Covers(out', pos, state)
  BY <1>1, EncWalks
<1>3. /\ task \in Tasks /\ state \in State /\ pos \in Nat /\ pos < task.mlen
      /\ RATE \in Nat \ {0} /\ task.mlen \in Nat
  BY <1>1, <1>2, Sizes DEF PlacesOk
<1>4. /\ Place(y) /\ y[1] \in {"text", "finalize"}
      /\ y[1] = "text" => y[2] = pos + RATE
  BY <1>3, TextToPlace
<1>5. PlacesOk' /\ Here' = y /\ pc' = y[1] /\ pos' = y[2] /\ state' = y[3]
  BY <1>1, <1>2, <1>4, WalkKeepsPlaces DEF Here
<1>6. FirstPlace' = FirstPlace /\ task' = task /\ op' = op /\ RATE' = RATE
  BY <1>2, SameTask DEF Walk
<1>7. hist' = hist \cup {y} /\ flip' = NoFlip
  BY <1>2 DEF SInv, Encrypting, Walk, NoFlip
<1>8. /\ FirstPlace \in hist
      /\ \A x \in hist \ {Here} :
           Led(x, out) /\ x[1] # "finalize" /\ (x[1] = "text" => x[2] + RATE =< pos)
  BY <1>2 DEF SInv, Encrypting
<1>9. ASSUME NEW x \in hist' \ {Here'}
      PROVE  /\ Led(x, out)' /\ x[1] # "finalize"
             /\ pc' = "text" /\ x[1] = "text" => x[2] + RATE =< pos'
  <2>1. x \in hist /\ Place(x)
    BY <1>1, <1>5, <1>7 DEF PlacesOk
  <2>2. CASE x = Here
    <3>1. x[1] = "text" /\ x[2] = pos /\ x[3] = state
      BY <1>2, <2>2 DEF Here
    <3>2. TextNext(x[2], x[3])' = TextNext(x[2], x[3])
      BY <1>6, SameTask
    <3>3. Covers(out, x[2], x[3])'
      BY <1>2, <1>6, <3>1 DEF Covers, Rate, RATE
    <3>4. Led(x, out)'
      BY <1>7, <3>1, <3>2, <3>3 DEF Led
    <3>5. QED
      BY <1>3, <1>4, <1>5, <3>1, <3>4
  <2>3. CASE x # Here
    <3>1. Led(x, out) /\ x[1] # "finalize" /\ (x[1] = "text" => x[2] + RATE =< pos)
      BY <1>8, <2>1, <2>3
    <3>2. x[2] \in Nat
      BY <2>1 DEF Place
    <3>3. ASSUME x[1] = "text"
          PROVE  Covers(out', x[2], x[3])
      <4>1. Covers(out, x[2], x[3]) /\ x[2] + RATE =< pos
        BY <3>1, <3>3 DEF Led
      <4>2. \A k \in Rate : x[2] + k \in 0 .. pos - 1
        BY <1>3, <3>2, <4>1 DEF Rate
      <4>3. \A k \in Rate : out'[x[2] + k] = out[x[2] + k]
        BY <1>2, <4>2
      <4>4. QED
        BY <4>1, <4>3 DEF Covers
    <3>4. Led(x, out)'
      BY <1>6, <1>7, <3>1, <3>3, LedByOut
    <3>5. QED
      BY <1>3, <1>4, <1>5, <3>1, <3>2, <3>4
  <2>4. QED
    BY <2>2, <2>3
<1>10. FirstPlace' \in hist' /\ Here' \in hist'
  BY <1>5, <1>6, <1>7, <1>8
<1>11. Encrypting'
  BY <1>4, <1>5, <1>6, <1>7, <1>9, <1>10 DEF Encrypting, NoFlip
<1>12. Encrypted' /\ SameStates' /\ Decrypts'
  BY <1>2, <1>4, <1>5, <1>6 DEF Encrypted, SameStates, Decrypts
<1>13. QED
  BY <1>5, <1>11, <1>12 DEF SInv

LEMMA DecKeeps ==
  ASSUME PermutesStates, SInv, DecBlock \/ DecLast
  PROVE  SInv'
<1> DEFINE y == TextNext(pos, state)
<1>1. PlacesOk /\ op = "decrypt" /\ pc = "text"
  BY DEF SInv, DecBlock, DecLast
<1>2. Here \in hist
  BY <1>1 DEF SInv, SameStates, Here
<1>3. Led(Here, c)
  BY <1>1, <1>2 DEF SInv, Encrypted
<1>4. y \in hist /\ Covers(c, pos, state)
  BY <1>1, <1>3 DEF Led, Here
<1>5. /\ Walk(y)
      /\ \A k \in 0 .. pos - 1 : out'[k] = out[k]
      /\ \A k \in Rate : pos + k < task.mlen => out'[pos + k] = task.m[pos + k]
  BY <1>1, <1>4, DecWalks
<1>6. /\ task \in Tasks /\ state \in State /\ pos \in Nat /\ pos < task.mlen
      /\ RATE \in Nat \ {0} /\ task.mlen \in Nat
  BY <1>1, Sizes DEF PlacesOk
<1>7. /\ Place(y) /\ y[1] \in {"text", "finalize"}
      /\ y[1] = "text" => y[2] = pos + RATE /\ task.mlen - pos > RATE
      /\ y[1] = "finalize" => task.mlen - pos =< RATE
  BY <1>6, TextToPlace
<1>8. PlacesOk' /\ Here' = y /\ pc' = y[1] /\ pos' = y[2] /\ state' = y[3]
  BY <1>1, <1>5, <1>7, WalkKeepsPlaces DEF Here
<1>9. UNCHANGED <<task, hist, c, flip>> /\ op' = "decrypt"
  BY <1>1, <1>5 DEF Walk
<1>10. Encrypted'
  BY <1>1, <1>9, EncryptedKept DEF SInv
<1>11. SameStates'
  BY <1>4, <1>8, <1>9 DEF SameStates, Here
<1>12. ASSUME NEW k \in Nat, k < pos + RATE, k < task.mlen
       PROVE  out'[k] = task.m[k]
  <2>1. CASE k < pos
    <3>1. k \in 0 .. pos - 1
      BY <1>6, <2>1
    <3>2. out[k] = task.m[k]
      BY <1>1, <3>1 DEF SInv, Decrypts
    <3>3. QED
      BY <1>5, <3>1, <3>2
  <2>2. CASE ~ (k < pos)
    <3> DEFINE i == k - pos
    <3>1. i \in Rate /\ pos + i = k
      BY <1>6, <1>12, <2>2 DEF Rate
    <3>2. out'[pos + i] = task.m[pos + i]
      BY <1>5, <1>12, <3>1
    <3>3. QED
      BY <3>1, <3>2
  <2>3. QED
    BY <2>1, <2>2
<1>13. pc' = "text" => \A k \in 0 .. pos' - 1 : out'[k] = task'.m[k]
  BY <1>6, <1>7, <1>8, <1>9, <1>12
<1>14. pc' = "finalize" => \A k \in 0 .. task'.mlen - 1 : out'[k] = task'.m[k]
  BY <1>6, <1>7, <1>8, <1>9, <1>12
<1>15. Decrypts'
  BY <1>7, <1>8, <1>13, <1>14 DEF Decrypts
<1>16. QED
  BY <1>8, <1>9, <1>10, <1>11, <1>15 DEF SInv, Encrypting
LEMMA GenerateTagKeeps ==
  ASSUME SInv, GenerateTag
  PROVE  SInv'
<1>1. /\ op = "encrypt" /\ pc = "finalize" /\ pc' = "done"
      /\ UNCHANGED <<task, op, state, pos, out, flip, retval, hist>>
      /\ c' = [k \in 0 .. task.mlen + CAP - 1 |->
                 IF k < task.mlen THEN out[k] ELSE Finalized(k - task.mlen)]
  BY DEF GenerateTag
<1>2. /\ PlacesOk /\ task \in Tasks /\ CAP \in Nat \ {0} /\ task.mlen \in Nat
      /\ RATE \in Nat /\ FirstPlace \in hist /\ flip = NoFlip
      /\ \A x \in hist \ {Here} : Led(x, out) /\ x[1] # "finalize"
  BY <1>1, Sizes DEF SInv, PlacesOk, Encrypting
<1>3. CAP' = CAP /\ FirstPlace' = FirstPlace /\ State' = State /\ \A x : Place(x)' <=> Place(x)
  BY <1>1, SameTask
<1>4. PlacesOk'
  BY <1>1, <1>2, <1>3 DEF PlacesOk
<1>5. ASSUME NEW x \in hist
      PROVE  Led(x, c)'
  <2>1. CASE x = Here
    BY <1>1, <2>1 DEF Led, Here
  <2>2. CASE x # Here
    <3>1. Led(x, out) /\ Place(x)
      BY <1>2, <2>2 DEF PlacesOk
    <3>2. /\ AuthNext(x[2], x[3])' = AuthNext(x[2], x[3])
          /\ TextNext(x[2], x[3])' = TextNext(x[2], x[3])
      BY <1>1, SameTask
    <3>3. x[2] \in Nat
      BY <3>1 DEF Place
    <3>4. ASSUME x[1] = "text", NEW k \in Rate, x[2] + k < task.mlen
          PROVE  c'[x[2] + k] = Xor(task.m[x[2] + k], x[3][k])
      <4>1. x[2] + k \in 0 .. task.mlen + CAP - 1
        BY <1>2, <3>3, <3>4 DEF Rate
      <4>2. c'[x[2] + k] = out[x[2] + k]
        BY <1>1, <3>4, <4>1
      <4>3. out[x[2] + k] = Xor(task.m[x[2] + k], x[3][k])
        BY <3>1, <3>4 DEF Led, Covers
      <4>4. QED
        BY <4>2, <4>3
    <3>5. x[1] = "text" => Covers(c, x[2], x[3])'
      BY <1>1, <3>4 DEF Covers, Rate, RATE
    <3>6. QED
      BY <1>1, <3>1, <3>2, <3>5 DEF Led
  <2>3. QED
    BY <2>1, <2>2
<1>6. ASSUME NEW x \in hist, x[1] = "finalize"
      PROVE  \A k \in 0 .. CAP - 1 : c'[task.mlen + k] = Tag(x[3], k)'
  <2>1. x[3] = state
    BY <1>2, <1>6 DEF Here
  <2>2. ASSUME NEW k \in 0 .. CAP - 1
        PROVE  c'[task.mlen + k] = Tag(x[3], k)'
    <3> DEFINE i == task.mlen + k
    <3>1. i \in 0 .. task.mlen + CAP - 1 /\ ~ (i < task.mlen) /\ i - task.mlen = k
      BY <1>2
    <3> HIDE DEF i
    <3>2. c'[i] = Finalized(i - task.mlen)
      BY <1>1, <3>1
    <3>3. Finalized(k) = Tag(x[3], k)'
      BY <1>1, <2>1 DEF Finalized, Tag, RATE
    <3>4. QED
      BY <3>1, <3>2, <3>3 DEF i
  <2>3. QED
    BY <2>2
<1>7. DOMAIN c' = 0 .. task.mlen + CAP - 1
  BY <1>1
<1>8. Encrypted'
  BY <1>1, <1>2, <1>3, <1>5, <1>6, <1>7 DEF Encrypted, NoFlip
<1>9. Encrypting' /\ SameStates' /\ Decrypts'
  BY <1>1, <1>2 DEF Encrypting, SameStates, Decrypts, NoFlip
<1>10. QED
  BY <1>4, <1>8, <1>9 DEF SInv

LEMMA TransmitKeeps ==
  ASSUME SInv, Transmit
  PROVE  SInv'
<1>1. /\ op = "encrypt" /\ pc = "done" /\ op' = "decrypt" /\ pc' = "initialize" /\ pos' = 0
      /\ state' = [k \in Index |-> ZeroByte] /\ task' = task /\ hist' = hist
  BY DEF Transmit
<1>2. /\ PlacesOk /\ task \in Tasks /\ CAP \in Nat \ {0} /\ task.mlen \in Nat /\ RATE \in Nat
      /\ FirstPlace \in hist /\ flip = NoFlip
      /\ DOMAIN c = 0 .. task.mlen + CAP - 1
      /\ \A x \in hist : Led(x, c)
      /\ \A x \in hist : x[1] = "finalize" => \A k \in 0 .. CAP - 1 : c[task.mlen + k] = Tag(x[3], k)
  BY <1>1, Sizes DEF SInv, PlacesOk, Encrypting, Encrypted
<1>3. CAP' = CAP /\ FirstPlace' = FirstPlace /\ State' = State /\ \A x : Place(x)' <=> Place(x)
  BY <1>1, SameTask
<1>4. state' \in State
  BY <1>1, ConstBytes DEF State
<1>5. PlacesOk'
  BY <1>1, <1>2, <1>3, <1>4 DEF PlacesOk
<1>6. Encrypting' /\ SameStates' /\ Decrypts'
  BY <1>1 DEF Encrypting, SameStates, Decrypts
<1>7. CASE flip' = NoFlip /\ c' = c
  <2>1. UNCHANGED <<task, hist, c, flip>>
    BY <1>1, <1>2, <1>7
  <2>2. Encrypted'
    BY <1>1, <2>1, EncryptedKept DEF SInv
  <2>3. QED
    BY <1>5, <1>6, <2>2 DEF SInv
<1>8. ASSUME NEW f \in Flips, f[1] < CAP, flip' = f,
             c' = [c EXCEPT ![task.mlen + f[1]] = Xor(@, Bit(f[2]))]
      PROVE  SInv'
  <2> DEFINE i == task.mlen + f[1]
  <2>1. f \in Nat \X (0 .. 7)
    BY FlipsAssumption
  <2>2. f # NoFlip /\ f[1] \in 0 .. CAP - 1 /\ f[2] \in 0 .. 7
    BY <1>2, <1>8, <2>1 DEF NoFlip
  <2>3. i \in DOMAIN c /\ \A k \in Int : k < task.mlen => k # i
    BY <1>2, <2>2
  <2>4. DOMAIN c' = DOMAIN c /\ c'[i] = Xor(c[i], Bit(f[2]))
    BY <1>8, <2>3
  <2>5. \A k : k \in DOMAIN c /\ k # i => c'[k] = c[k]
    BY <1>8
  <2> HIDE DEF i
  <2>6. ASSUME NEW x \in hist
        PROVE  Led(x, c)'
    <3>1. Led(x, c) /\ Place(x)
      BY <1>2 DEF PlacesOk
    <3>2. /\ AuthNext(x[2], x[3])' = AuthNext(x[2], x[3])
          /\ TextNext(x[2], x[3])' = TextNext(x[2], x[3])
      BY <1>1, SameTask
    <3>3. x[2] \in Nat
      BY <3>1 DEF Place
    <3>4. ASSUME x[1] = "text", NEW k \in Rate, x[2] + k < task.mlen
          PROVE  c'[x[2] + k] = Xor(task.m[x[2] + k], x[3][k])
      <4>1. x[2] + k \in DOMAIN c /\ x[2] + k # i
        BY <1>2, <2>3, <3>3, <3>4 DEF Rate
      <4>2. c'[x[2] + k] = c[x[2] + k]
        BY <2>5, <4>1
      <4>3. c[x[2] + k] = Xor(task.m[x[2] + k], x[3][k])
        BY <3>1, <3>4 DEF Led, Covers
      <4>4. QED
        BY <4>2, <4>3
    <3>5. x[1] = "text" => Covers(c, x[2], x[3])'
      BY <1>1, <3>4 DEF Covers, Rate, RATE
    <3>6. QED
      BY <1>1, <3>1, <3>2, <3>5 DEF Led
  <2>7. ASSUME NEW x \in hist, x[1] = "finalize"
        PROVE  c'[i] = Xor(Tag(x[3], flip[1])', Bit(f[2]))
    <3>1. c[i] = Tag(x[3], f[1])
      BY <1>2, <2>2, <2>7 DEF i
    <3>2. Tag(x[3], flip[1])' = Tag(x[3], f[1])
      BY <1>1, <1>8 DEF Tag, RATE
    <3>3. QED
      BY <2>4, <3>1, <3>2
  <2>8. ASSUME NEW x \in hist', x[1] = "finalize"
        PROVE  /\ flip' # NoFlip /\ flip'[1] \in 0 .. CAP' - 1 /\ flip'[2] \in 0 .. 7
               /\ c'[task'.mlen + flip'[1]] = Xor(Tag(x[3], flip[1])', Bit(flip'[2]))
    BY <1>1, <1>3, <1>8, <2>2, <2>7, <2>8 DEF i
  <2>9. Encrypted'
    BY <1>1, <1>2, <1>3, <2>4, <2>6, <2>8 DEF Encrypted, NoFlip, Bit, Xor
  <2>10. QED
    BY <1>5, <1>6, <2>9 DEF SInv
<1>9. QED
  BY <1>7, <1>8 DEF Transmit

LEMMA VerifyTagKeeps ==
  ASSUME SInv, VerifyTag
  PROVE  SInv'
<1>1. /\ op = "decrypt" /\ pc = "finalize" /\ pc' = "done"
      /\ UNCHANGED <<task, op, state, pos, out, c, flip, hist>>
      /\ retval' = IF \A k \in 0 .. CAP - 1 : Finalized(k) = c[task.mlen + k] THEN 0 ELSE -1
  <2>1. task \in Tasks
    BY DEF SInv, PlacesOk
  <2>2. QED BY <2>1, LengthIs DEF VerifyTag
<1>2. /\ PlacesOk /\ task \in Tasks /\ state \in State /\ Here \in hist
      /\ Here[1] = "finalize" /\ Here[3] = state
  BY <1>1 DEF SInv, PlacesOk, SameStates, Here
<1>3. \/ flip = NoFlip /\ \A k \in 0 .. CAP - 1 : c[task.mlen + k] = Tag(state, k)
      \/ /\ flip # NoFlip /\ flip[1] \in 0 .. CAP - 1 /\ flip[2] \in 0 .. 7
         /\ c[task.mlen + flip[1]] = Xor(Tag(state, flip[1]), Bit(flip[2]))
  BY <1>1, <1>2 DEF SInv, Encrypted
<1>4. \A k : Finalized(k) = Tag(state, k)
  BY DEF Finalized, Tag
<1>5. \A k \in 0 .. CAP - 1 : Tag(state, k) \in Byte
  <2>1. task.key \in [0 .. CAP - 1 -> Byte]
    BY <1>2, TasksAssumption DEF CAP
  <2>2. \A k \in 0 .. CAP - 1 : task.key[k] \in Byte /\ state[RATE + k] \in Byte
    BY <1>2, <2>1, StateBytes
  <2>3. QED
    BY <2>2, XorByte DEF Tag
<1>6. retval' = IF flip = NoFlip THEN 0 ELSE -1
  <2>1. CASE flip = NoFlip
    BY <1>1, <1>3, <1>4, <2>1
  <2>2. CASE flip # NoFlip
    <3>1. Tag(state, flip[1]) \in Byte /\ flip[2] \in 0 .. 7 /\ flip[1] \in 0 .. CAP - 1
      BY <1>3, <1>5, <2>2
    <3>2. Xor(Tag(state, flip[1]), Bit(flip[2])) # Tag(state, flip[1])
      BY <3>1, XorFacts
    <3>3. c[task.mlen + flip[1]] # Finalized(flip[1])
      BY <1>3, <1>4, <2>2, <3>2
    <3>4. QED
      BY <1>1, <2>2, <3>1, <3>3
  <2>3. QED
    BY <2>1, <2>2
<1>7. PlacesOk'
  <2>1. State' = State /\ \A x : Place(x)' <=> Place(x)
    BY <1>1, SameTask
  <2>2. QED
    BY <1>1, <1>2, <2>1 DEF PlacesOk
<1>8. Encrypted'
  BY <1>1, EncryptedKept DEF SInv
<1>9. Decrypts'
  BY <1>1, <1>6 DEF SInv, Decrypts, NoFlip
<1>10. Encrypting' /\ SameStates'
  BY <1>1 DEF Encrypting, SameStates
<1>11. QED
  BY <1>7, <1>8, <1>9, <1>10 DEF SInv
LEMMA NothingKeeps ==
  ASSUME SInv, UNCHANGED vars
  PROVE  SInv'
<1> USE DEF vars
<1>1. /\ RATE' = RATE /\ State' = State /\ FirstPlace' = FirstPlace
      /\ \A x : Place(x)' <=> Place(x)
  BY SameTask
<1>2. PlacesOk'
  BY <1>1 DEF SInv, PlacesOk
<1>3. Encrypted'
  <2>1. CASE op = "decrypt" \/ pc = "done"
    BY <2>1, EncryptedKept DEF SInv
  <2>2. CASE ~ (op = "decrypt" \/ pc = "done")
    BY <2>2 DEF Encrypted
  <2>3. QED
    BY <2>1, <2>2
<1>4. Encrypting'
  <2>1. Here' = Here
    BY DEF Here
  <2>2. \A x : Led(x, out) => Led(x, out)'
    BY LedByOut DEF Led
  <2>3. QED
    BY <1>1, <2>1, <2>2 DEF SInv, Encrypting, NoFlip
<1>5. SameStates' /\ Decrypts'
  BY DEF SInv, SameStates, Decrypts, NoFlip
<1>6. QED
  BY <1>2, <1>3, <1>4, <1>5 DEF SInv

LEMMA InitHolds ==
  ASSUME Init
  PROVE  SInv
<1>1. state \in State
  BY ConstBytes DEF Init, State
<1>2. QED
  BY <1>1 DEF Init, SInv, PlacesOk, Encrypting, Encrypted, SameStates, Decrypts

-----------------------------------------------------------------------------
(***************************************************************************)
(* The theorems.                                                           *)
(***************************************************************************)
\* crypto_aead_encrypt and crypto_aead_decrypt, block by block: the places of
\* the encryption lead from one to the next and leave their ciphertext behind,
\* whatever the lengths, the sizes and the permutation of states.
THEOREM EncryptionIsRetraced ==
  ASSUME PermutesStates
  PROVE  Spec => []SInv
<1>1. Init => SInv
  BY InitHolds
<1>2. SInv /\ [Next]_vars => SInv'
  BY InitializeKeeps, AuthKeeps, EncKeeps, DecKeeps, GenerateTagKeeps, TransmitKeeps,
     VerifyTagKeeps, NothingKeeps DEF Next
<1>3. QED
  BY <1>1, <1>2, PTL DEF Spec

\* "decrypts the ciphertext (in blocks of size RATE_BYTES)": the element is never
\* in a state that the compiler was not in at the same block.
THEOREM StatesMeet ==
  ASSUME PermutesStates
  PROVE  Spec => []SameStates
<1>1. SInv => SameStates
  BY DEF SInv
<1>2. Spec => []SInv
  BY EncryptionIsRetraced
<1>3. QED
  BY <1>1, <1>2, PTL

\* crypto_aead_decrypt returns the message that crypto_aead_encrypt was given, and
\* 0 exactly when no bit of the tag was flipped on the way.
THEOREM MessagesReturn ==
  ASSUME PermutesStates
  PROVE  Spec => []Decrypts
<1>1. SInv => Decrypts
  BY DEF SInv
<1>2. Spec => []SInv
  BY EncryptionIsRetraced
<1>3. QED
  BY <1>1, <1>2, PTL

-----------------------------------------------------------------------------
(***************************************************************************)
(* Last blocks: the constant and the block can be read off the state.      *)
(***************************************************************************)
LEMMA XorCancels ==
  ASSUME NEW x \in Byte, NEW y \in Byte, NEW s \in Byte
  PROVE  /\ Xor(x, s) = Xor(y, s) => x = y
         /\ Xor(s, x) = Xor(s, y) => x = y
<1>1. Xor(Xor(x, s), s) = x /\ Xor(Xor(y, s), s) = y
  BY XorFacts
<1>2. Xor(x, s) = Xor(s, x) /\ Xor(y, s) = Xor(s, y)
  BY XorByte
<1>3. QED
  BY <1>1, <1>2

LEMMA ConstsApart ==
  ASSUME NEW m \in {0, 1, 2, 3}, NEW n \in {0, 1, 2, 3}, Const(m) = Const(n)
  PROVE  m = n
<1> DEFINE u(i) == [k \in 0 .. 7 |-> IF k = 0 THEN i % 2 ELSE IF k = 1 THEN i \div 2 ELSE 0]
<1>1. m % 2 \in {0, 1} /\ m \div 2 \in {0, 1} /\ n % 2 \in {0, 1} /\ n \div 2 \in {0, 1}
  OBVIOUS
<1>2. u(m) \in Byte /\ u(n) \in Byte
  BY <1>1 DEF Byte
<1>3. Bit(CAP \div 8) \in Byte
  BY DEF Bit, Byte
<1>4. u(m)[0] = m % 2 /\ u(n)[0] = n % 2 /\ u(m)[1] = m \div 2 /\ u(n)[1] = n \div 2
  OBVIOUS
<1>5. Xor(u(m), Bit(CAP \div 8)) = Xor(u(n), Bit(CAP \div 8))
  BY DEF Const
<1> HIDE DEF u
<1>6. u(m) = u(n)
  BY <1>2, <1>3, <1>5, XorCancels
<1>7. m % 2 = n % 2 /\ m \div 2 = n \div 2
  BY <1>4, <1>6
<1>8. QED
  BY <1>7

LEMMA RhoInjective ==
  ASSUME task \in Tasks, NEW st \in State, NEW x \in [Rate -> Byte], NEW y \in [Rate -> Byte],
         rho_whi(st, x) = rho_whi(st, y)
  PROVE  x = y
<1> SUFFICES ASSUME NEW k \in Rate PROVE x[k] = y[k]
  OBVIOUS
<1>1. k \in Nat /\ k < RATE /\ half \in Nat /\ k \in Index
  BY Sizes DEF Rate, Index
<1>2. rho_whi(st, x)[k] = rho_whi(st, y)[k] /\ x[k] \in Byte /\ y[k] \in Byte
  OBVIOUS
<1>3. CASE k < half
  <2> DEFINE h == st[k + half]
  <2> DEFINE s == st[RATE + k]
  <2>1. h \in Byte /\ s \in Byte
    BY <1>1, <1>3, StateBytes
  <2>2. Xor(Xor(h, x[k]), s) = Xor(Xor(h, y[k]), s)
    BY <1>1, <1>2, <1>3 DEF rho_whi
  <2> HIDE DEF h, s
  <2>3. Xor(h, x[k]) \in Byte /\ Xor(h, y[k]) \in Byte
    BY <1>2, <2>1, XorByte
  <2>4. Xor(h, x[k]) = Xor(h, y[k])
    BY <2>1, <2>2, <2>3, XorCancels
  <2>5. QED
    BY <1>2, <2>1, <2>4, XorCancels
<1>4. CASE ~ (k < half)
  <2> DEFINE h == st[k - half]
  <2> DEFINE s == st[RATE + CAP_INDEX(k)]
  <2> DEFINE t == st[k]
  <2>0. k \in half .. RATE - 1
    BY <1>1, <1>4, Sizes
  <2>1. h \in Byte /\ s \in Byte /\ t \in Byte
    BY <2>0, StateBytes
  <2>2. Xor(t, Xor(Xor(h, x[k]), s)) = Xor(t, Xor(Xor(h, y[k]), s))
    BY <1>1, <1>2, <1>4 DEF rho_whi
  <2> HIDE DEF h, s, t
  <2>3. Xor(h, x[k]) \in Byte /\ Xor(h, y[k]) \in Byte
    BY <1>2, <2>1, XorByte
  <2>4. Xor(Xor(h, x[k]), s) \in Byte /\ Xor(Xor(h, y[k]), s) \in Byte
    BY <2>1, <2>3, XorByte
  <2>5. Xor(Xor(h, x[k]), s) = Xor(Xor(h, y[k]), s)
    BY <2>1, <2>2, <2>4, XorCancels
  <2>6. Xor(h, x[k]) = Xor(h, y[k])
    BY <2>1, <2>3, <2>5, XorCancels
  <2>7. QED
    BY <1>2, <2>1, <2>6, XorCancels
<1>5. QED
  BY <1>3, <1>4

\* Of two blocks that look alike, both full or both short, the bit that ends the
\* data is in the same place.
LEMMA PaddedApart ==
  ASSUME task \in Tasks, NEW a \in Ends, NEW b \in Ends, a.len =< RATE, b.len =< RATE,
         a.len < RATE <=> b.len < RATE,
         Padded(a.bytes, 0, a.len) = Padded(b.bytes, 0, b.len)
  PROVE  a = b
<1> DEFINE p == Padded(a.bytes, 0, a.len)
<1> DEFINE q == Padded(b.bytes, 0, b.len)
<1>1. /\ a.len \in Nat /\ b.len \in Nat /\ RATE \in Nat
      /\ a.bytes \in [0 .. a.len - 1 -> Byte] /\ b.bytes \in [0 .. b.len - 1 -> Byte]
  BY EndsAssumption, Sizes
<1>2. PAD # ZeroByte
  <2>1. PAD[7] = 1 /\ ZeroByte[7] = 0
    BY DEF PAD, Bit, ZeroByte
  <2>2. QED
    BY <2>1
<1>3. ~ (a.len < b.len)
  <2> SUFFICES ASSUME a.len < b.len PROVE FALSE
    OBVIOUS
  <2>1. b.len \in Rate /\ ~ (b.len < a.len) /\ b.len # a.len
    BY <1>1 DEF Rate
  <2>2. p[b.len] = ZeroByte /\ q[b.len] = PAD
    BY <1>1, <2>1 DEF Padded
  <2>3. QED
    BY <1>2, <2>2
<1>4. ~ (b.len < a.len)
  <2> SUFFICES ASSUME b.len < a.len PROVE FALSE
    OBVIOUS
  <2>1. a.len \in Rate /\ ~ (a.len < b.len) /\ b.len # a.len
    BY <1>1 DEF Rate
  <2>2. q[a.len] = ZeroByte /\ p[a.len] = PAD
    BY <1>1, <2>1 DEF Padded
  <2>3. QED
    BY <1>2, <2>2
<1>5. a.len = b.len
  BY <1>1, <1>3, <1>4
<1>6. ASSUME NEW k \in 0 .. a.len - 1
      PROVE  a.bytes[k] = b.bytes[k]
  <2>1. k \in Rate /\ k < a.len /\ k < b.len /\ 0 + k = k
    BY <1>1, <1>5 DEF Rate
  <2>2. p[k] = a.bytes[k] /\ q[k] = b.bytes[k]
    BY <2>1 DEF Padded
  <2>3. QED
    BY <2>2
<1>7. a.bytes = b.bytes
  BY <1>1, <1>5, <1>6
<1>8. QED
  BY <1>5, <1>7, EndsAssumption

LEMMA EndsApart ==
  ASSUME PlacesOk
  PROVE  LastBlocksApart
<1>1. task \in Tasks /\ state \in State
  BY DEF PlacesOk
<1> SUFFICES ASSUME NEW a \in Ends, NEW b \in Ends, a.len =< RATE, b.len =< RATE,
                    NEW i \in {0, 2}, NEW j \in {0, 2}, Absorbed(i, a) = Absorbed(j, b)
             PROVE  a = b /\ i = j
  BY DEF LastBlocksApart
<1> DEFINE m == LastConst(i, a.len)
<1> DEFINE n == LastConst(j, b.len)
<1> DEFINE p == Padded(a.bytes, 0, a.len)
<1> DEFINE q == Padded(b.bytes, 0, b.len)
<1> DEFINE last == RATE + CAP - 1
<1>2. /\ a.len \in Nat /\ b.len \in Nat
      /\ a.bytes \in [0 .. a.len - 1 -> Byte] /\ b.bytes \in [0 .. b.len - 1 -> Byte]
  BY EndsAssumption
<1>3. p \in [Rate -> Byte] /\ q \in [Rate -> Byte]
  <2>1. a.len - 0 = a.len /\ b.len - 0 = b.len /\ 0 \in Nat
    BY <1>2
  <2>2. /\ Padded(a.bytes, 0, a.len - 0) \in [Rate -> Byte]
        /\ Padded(b.bytes, 0, b.len - 0) \in [Rate -> Byte]
    BY <1>1, <1>2, <2>1, BlockBytes
  <2>3. QED
    BY <2>1, <2>2
<1>4. m \in {0, 1, 2, 3} /\ n \in {0, 1, 2, 3}
  BY DEF LastConst
<1>5. last \in Index /\ ~ (last < half) /\ ~ (last < RATE) /\ state[last] \in Byte
  <2>1. last \in Index /\ ~ (last < half) /\ ~ (last < RATE)
    BY <1>1, Sizes DEF Index
  <2>2. QED
    BY <1>1, <2>1 DEF State
<1>6. Absorbed(i, a) = rho_whi(AddConst(state, m), p) /\ Absorbed(j, b) = rho_whi(AddConst(state, n), q)
  BY DEF Absorbed
<1> HIDE DEF m, n, p, q
<1>7. m = n
  <2>1. /\ rho_whi(AddConst(state, m), p)[last] = AddConst(state, m)[last]
        /\ rho_whi(AddConst(state, n), q)[last] = AddConst(state, n)[last]
    BY <1>5 DEF rho_whi
  <2>2. /\ AddConst(state, m)[last] = Xor(state[last], Const(m))
        /\ AddConst(state, n)[last] = Xor(state[last], Const(n))
    BY <1>1, <1>5 DEF AddConst, State
  <2>3. Const(m) \in Byte /\ Const(n) \in Byte
    BY <1>4, ConstBytes
  <2> HIDE DEF last
  <2>4. Xor(state[last], Const(m)) = Xor(state[last], Const(n))
    BY <1>6, <2>1, <2>2
  <2>5. Const(m) = Const(n)
    BY <1>5, <2>3, <2>4, XorCancels
  <2>6. QED
    BY <1>4, <2>5, ConstsApart
<1>8. p = q
  <2>1. AddConst(state, m) \in State
    BY <1>1, <1>4, ConstAdded
  <2>2. QED
    BY <1>1, <1>3, <1>6, <1>7, <2>1, RhoInjective
<1>9. i = j /\ (a.len < RATE <=> b.len < RATE)
  BY <1>7 DEF m, n, LastConst
<1>10. a = b
  BY <1>1, <1>8, <1>9, PaddedApart DEF p, q
<1>11. QED
  BY <1>9, <1>10

\* Of the constants CONST_A0 .. CONST_M3 and the padding: no two ends of data, and
\* no end of a text and of associated data, lead to the same state.
THEOREM EndsNeverMeet ==
  ASSUME PermutesStates
  PROVE  Spec => []LastBlocksApart
<1>1. SInv => LastBlocksApart
  BY EndsApart DEF SInv
<1>2. Spec => []SInv
  BY EncryptionIsRetraced
<1>3. QED
  BY <1>1, <1>2, PTL

-----------------------------------------------------------------------------
(***************************************************************************)
(* The hash.  Exclusive or of bytes and words, then the Feistel function   *)
(* and the padding of a last block.                                        *)
(***************************************************************************)
Nibble == 0 .. 15

\* A number of four bits is the sum of its bits.
LEMMA BitsOfNibble ==
  ASSUME NEW x \in Nibble
  PROVE  x = (x % 2) + 2 * ((x \div 2) % 2) + 4 * ((x \div 4) % 2) + 8 * ((x \div 8) % 2)
  BY DEF Nibble

\* The exclusive or of two bits is a bit, and tells them apart.
LEMMA BitXorFacts ==
  ASSUME NEW x \in Nat, NEW y \in Nat, NEW z \in Nat
  PROVE  /\ S!BitXor(x, y) \in {0, 1}
         /\ S!BitXor(x, y) = S!BitXor(x, z) => y % 2 = z % 2
         /\ S!BitXor(0, y) = y % 2 /\ S!BitXor(y, 0) = y % 2
  BY DEF S!BitXor

\* The table of NibbleXor: closed, one to one in either place, 0 is neutral.
LEMMA NibbleXorFacts ==
  ASSUME NEW x \in Nibble, NEW y \in Nibble, NEW z \in Nibble
  PROVE  /\ S!NibbleXor[x][y] \in Nibble
         /\ S!NibbleXor[x][y] = S!NibbleXor[x][z] => y = z
         /\ S!NibbleXor[0][y] = y /\ S!NibbleXor[y][0] = y
<1> DEFINE N(a, b) == S!BitXor(a, b) + 2 * S!BitXor(a \div 2, b \div 2)
                        + 4 * S!BitXor(a \div 4, b \div 4) + 8 * S!BitXor(a \div 8, b \div 8)
<1>1. \A a, b \in Nibble : S!NibbleXor[a][b] = N(a, b)
  BY DEF S!NibbleXor, Nibble
<1>2. \A a \in Nibble : a \in Nat /\ a \div 2 \in Nat /\ a \div 4 \in Nat /\ a \div 8 \in Nat
  BY DEF Nibble
<1>3. 0 \in Nibble /\ 0 \div 2 = 0 /\ 0 \div 4 = 0 /\ 0 \div 8 = 0
  BY DEF Nibble
<1>4. \A a, b \in Nibble : /\ S!BitXor(a, b) \in {0, 1} /\ S!BitXor(a \div 2, b \div 2) \in {0, 1}
         /\ S!BitXor(a \div 4, b \div 4) \in {0, 1} /\ S!BitXor(a \div 8, b \div 8) \in {0, 1}
  BY <1>2, BitXorFacts
<1>5. N(x, y) \in Nibble
  BY <1>4 DEF Nibble
<1>6. ASSUME N(x, y) = N(x, z) PROVE y = z
  <2>1. /\ S!BitXor(x, y) = S!BitXor(x, z) /\ S!BitXor(x \div 2, y \div 2) = S!BitXor(x \div 2, z \div 2)
        /\ S!BitXor(x \div 4, y \div 4) = S!BitXor(x \div 4, z \div 4)
        /\ S!BitXor(x \div 8, y \div 8) = S!BitXor(x \div 8, z \div 8)
    BY <1>4, <1>6
  <2>2. /\ y % 2 = z % 2 /\ (y \div 2) % 2 = (z \div 2) % 2
        /\ (y \div 4) % 2 = (z \div 4) % 2 /\ (y \div 8) % 2 = (z \div 8) % 2
    <3>1. \A m, j, k \in Nat : S!BitXor(m, j) = S!BitXor(m, k) => j % 2 = k % 2
      BY BitXorFacts
    <3>2. /\ x \in Nat /\ x \div 2 \in Nat /\ x \div 4 \in Nat /\ x \div 8 \in Nat
          /\ y \in Nat /\ y \div 2 \in Nat /\ y \div 4 \in Nat /\ y \div 8 \in Nat
          /\ z \in Nat /\ z \div 2 \in Nat /\ z \div 4 \in Nat /\ z \div 8 \in Nat
      BY <1>2
    <3>3. y % 2 = z % 2 /\ (y \div 2) % 2 = (z \div 2) % 2
      BY <2>1, <3>1, <3>2
    <3>4. (y \div 4) % 2 = (z \div 4) % 2 /\ (y \div 8) % 2 = (z \div 8) % 2
      BY <2>1, <3>1, <3>2
    <3>5. QED BY <3>3, <3>4
  <2>3. QED
    BY <2>2, BitsOfNibble
<1>7. N(0, y) = y /\ N(y, 0) = y
  <2>1. /\ S!BitXor(0, y) = y % 2 /\ S!BitXor(y, 0) = y % 2
        /\ S!BitXor(0, y \div 2) = (y \div 2) % 2 /\ S!BitXor(y \div 2, 0) = (y \div 2) % 2
        /\ S!BitXor(0, y \div 4) = (y \div 4) % 2 /\ S!BitXor(y \div 4, 0) = (y \div 4) % 2
        /\ S!BitXor(0, y \div 8) = (y \div 8) % 2 /\ S!BitXor(y \div 8, 0) = (y \div 8) % 2
    BY <1>2, BitXorFacts
  <2>2. QED
    BY <2>1, <1>3, BitsOfNibble
<1> HIDE DEF N
<1>8. QED
  BY <1>1, <1>3, <1>5, <1>6, <1>7

\* Two nibbles make a byte, and the byte has them both.
LEMMA TwoNibbles ==
  ASSUME NEW a \in Nibble, NEW b \in Nibble, NEW e \in Nibble, NEW d \in Nibble
  PROVE  /\ 16 * a + b \in 0 .. 255
         /\ 16 * a + b = 16 * e + d => a = e /\ b = d
  BY DEF Nibble

\* The table of ByteXor: closed, one to one, 0 is neutral.
LEMMA ByteXorFacts ==
  ASSUME NEW x \in S!Byte, NEW y \in S!Byte, NEW z \in S!Byte
  PROVE  /\ S!ByteXor[x][y] \in S!Byte
         /\ S!ByteXor[x][y] = S!ByteXor[x][z] => y = z
         /\ S!ByteXor[0][y] = y /\ S!ByteXor[y][0] = y
<1> DEFINE N(a, b) == 16 * S!NibbleXor[a \div 16][b \div 16] + S!NibbleXor[a % 16][b % 16]
<1>1. \A a, b \in S!Byte : S!ByteXor[a][b] = N(a, b)
  BY DEF S!ByteXor, S!Byte
<1>2. \A a \in S!Byte : a \div 16 \in Nibble /\ a % 16 \in Nibble /\ a = 16 * (a \div 16) + (a % 16)
  BY DEF Nibble, S!Byte
<1>3. 0 \in S!Byte /\ 0 \div 16 = 0 /\ 0 % 16 = 0
  BY DEF S!Byte
<1>4. \A a, b \in S!Byte : S!NibbleXor[a \div 16][b \div 16] \in Nibble /\ S!NibbleXor[a % 16][b % 16] \in Nibble
  BY <1>2, NibbleXorFacts
<1>5. N(x, y) \in S!Byte
  <2>1. S!NibbleXor[x \div 16][y \div 16] \in Nibble /\ S!NibbleXor[x % 16][y % 16] \in Nibble
    BY <1>4
  <2> DEFINE p == S!NibbleXor[x \div 16][y \div 16]
  <2> DEFINE q == S!NibbleXor[x % 16][y % 16]
  <2>02. p \in Nibble /\ q \in Nibble /\ N(x, y) = 16 * p + q
    BY <2>1
  <2> HIDE DEF p, q, N
  <2>2. N(x, y) \in 0 .. 255
    BY <2>02, TwoNibbles
  <2>3. QED
    BY <2>2 DEF S!Byte
<1>6. ASSUME N(x, y) = N(x, z) PROVE y = z
  <2>1. /\ S!NibbleXor[x \div 16][y \div 16] = S!NibbleXor[x \div 16][z \div 16]
        /\ S!NibbleXor[x % 16][y % 16] = S!NibbleXor[x % 16][z % 16]
    BY <1>4, <1>6, TwoNibbles
  <2>2. y \div 16 = z \div 16 /\ y % 16 = z % 16
    BY <2>1, <1>2, NibbleXorFacts
  <2>3. QED
    BY <2>2, <1>2
<1>7. N(0, y) = y /\ N(y, 0) = y
  <2>1. /\ S!NibbleXor[0][y \div 16] = y \div 16 /\ S!NibbleXor[y \div 16][0] = y \div 16
        /\ S!NibbleXor[0][y % 16] = y % 16 /\ S!NibbleXor[y % 16][0] = y % 16
    BY <1>2, NibbleXorFacts
  <2>2. QED
    BY <2>1, <1>2, <1>3
<1> HIDE DEF N
<1>8. QED
  BY <1>1, <1>3, <1>5, <1>6, <1>7

\* ByteXor commutes.
LEMMA ByteXorCommutes ==
  ASSUME NEW x \in S!Byte, NEW y \in S!Byte
  PROVE  S!ByteXor[x][y] = S!ByteXor[y][x]
<1>1. \A a, b \in Nat : S!BitXor(a, b) = S!BitXor(b, a)
  BY DEF S!BitXor
<1>2. \A a \in Nibble : a \in Nat /\ a \div 2 \in Nat /\ a \div 4 \in Nat /\ a \div 8 \in Nat
  BY DEF Nibble
<1>3. \A a, b \in Nibble : S!NibbleXor[a][b] = S!NibbleXor[b][a]
  <2> TAKE a, b \in Nibble
  <2>1. /\ S!BitXor(a, b) = S!BitXor(b, a) /\ S!BitXor(a \div 2, b \div 2) = S!BitXor(b \div 2, a \div 2)
        /\ S!BitXor(a \div 4, b \div 4) = S!BitXor(b \div 4, a \div 4)
        /\ S!BitXor(a \div 8, b \div 8) = S!BitXor(b \div 8, a \div 8)
    BY <1>1, <1>2
  <2>2. QED BY <2>1 DEF S!NibbleXor, Nibble
<1>4. x \div 16 \in Nibble /\ x % 16 \in Nibble /\ y \div 16 \in Nibble /\ y % 16 \in Nibble
  BY DEF Nibble, S!Byte
<1>5. QED
  BY <1>3, <1>4 DEF S!ByteXor, S!Byte

\* A word: four bytes, the least one first.
EWord == [1 .. 4 -> S!Byte]

\* Four bytes make a word.
LEMMA TupleIsWord ==
  ASSUME NEW a \in S!Byte, NEW b \in S!Byte, NEW e \in S!Byte, NEW d \in S!Byte
  PROVE  /\ <<a, b, e, d>> \in EWord
         /\ <<a, b, e, d>>[1] = a /\ <<a, b, e, d>>[2] = b
         /\ <<a, b, e, d>>[3] = e /\ <<a, b, e, d>>[4] = d
  BY DEF EWord

\* The bytes of a word.
LEMMA WordBytes ==
  ASSUME NEW x \in EWord
  PROVE  x[1] \in S!Byte /\ x[2] \in S!Byte /\ x[3] \in S!Byte /\ x[4] \in S!Byte
  BY DEF EWord

\* The exclusive or of two words is a word,
LEMMA XorIsWord ==
  ASSUME NEW x \in EWord, NEW y \in EWord
  PROVE  S!Xor(x, y) \in EWord
<1>1. \A k \in 1 .. 4 : x[k] \in S!Byte /\ y[k] \in S!Byte
  BY DEF EWord
<1>2. \A k \in 1 .. 4 : S!ByteXor[x[k]][y[k]] \in S!Byte
  BY <1>1, ByteXorFacts
<1>3. /\ S!ByteXor[x[1]][y[1]] \in S!Byte /\ S!ByteXor[x[2]][y[2]] \in S!Byte
      /\ S!ByteXor[x[3]][y[3]] \in S!Byte /\ S!ByteXor[x[4]][y[4]] \in S!Byte
  BY <1>2
<1> DEFINE B(k) == S!ByteXor[x[k]][y[k]]
<1>4. S!Xor(x, y) = <<B(1), B(2), B(3), B(4)>>
  BY DEF S!Xor
<1>5. B(1) \in S!Byte /\ B(2) \in S!Byte /\ B(3) \in S!Byte /\ B(4) \in S!Byte
  BY <1>3
<1> HIDE DEF B
<1>6. QED
  BY <1>4, <1>5, TupleIsWord

\* ... byte by byte.
LEMMA XorAt ==
  ASSUME NEW x \in EWord, NEW y \in EWord, NEW k \in 1 .. 4
  PROVE  S!Xor(x, y)[k] = S!ByteXor[x[k]][y[k]]
  BY DEF S!Xor

\* Words whose exclusive or with x is the same are the same.
LEMMA XorCancelsWord ==
  ASSUME NEW x \in EWord, NEW y \in EWord, NEW z \in EWord, S!Xor(x, y) = S!Xor(x, z)
  PROVE  y = z
<1>1. ASSUME NEW k \in 1 .. 4 PROVE y[k] = z[k]
  <2>1. x[k] \in S!Byte /\ y[k] \in S!Byte /\ z[k] \in S!Byte
    BY DEF EWord
  <2>2. S!ByteXor[x[k]][y[k]] = S!ByteXor[x[k]][z[k]]
    BY XorAt
  <2>3. QED
    BY <2>1, <2>2, ByteXorFacts
<1>2. QED
  BY <1>1 DEF EWord

\* The same on the other side.
LEMMA XorCancelsWordRight ==
  ASSUME NEW x \in EWord, NEW y \in EWord, NEW z \in EWord, S!Xor(y, x) = S!Xor(z, x)
  PROVE  y = z
<1>1. ASSUME NEW k \in 1 .. 4 PROVE y[k] = z[k]
  <2>1. x[k] \in S!Byte /\ y[k] \in S!Byte /\ z[k] \in S!Byte
    BY DEF EWord
  <2>2. S!ByteXor[y[k]][x[k]] = S!ByteXor[z[k]][x[k]]
    BY XorAt
  <2>3. S!ByteXor[y[k]][x[k]] = S!ByteXor[x[k]][y[k]] /\ S!ByteXor[z[k]][x[k]] = S!ByteXor[x[k]][z[k]]
    BY <2>1, ByteXorCommutes
  <2>4. S!ByteXor[x[k]][y[k]] = S!ByteXor[x[k]][z[k]]
    BY <2>2, <2>3
  <2>5. QED
    BY <2>1, <2>4, ByteXorFacts
<1>2. QED
  BY <1>1 DEF EWord

\* The word 0,
LEMMA ZeroIsWord ==
  Zero \in EWord /\ \A k \in 1 .. 4 : Zero[k] = 0
<1>1. Zero = <<0, 0, 0, 0>>
  <2>1. 0 % 256 = 0 /\ 0 \div 256 = 0
    OBVIOUS
  <2>2. QED BY <2>1 DEF Zero, S!FromNat, S!Word
<1>2. 0 \in S!Byte
  BY DEF S!Byte
<1>3. QED
  BY <1>1, <1>2, TupleIsWord

\* ... which changes no word.
LEMMA ZeroIsNeutral ==
  ASSUME NEW x \in EWord
  PROVE  S!Xor(Zero, x) = x /\ S!Xor(x, Zero) = x
<1>3. Zero \in EWord /\ \A k \in 1 .. 4 : Zero[k] = 0
  BY ZeroIsWord
<1>4. ASSUME NEW k \in 1 .. 4 PROVE S!Xor(Zero, x)[k] = x[k] /\ S!Xor(x, Zero)[k] = x[k]
  <2>1. x[k] \in S!Byte
    BY DEF EWord
  <2>2. S!ByteXor[0][x[k]] = x[k] /\ S!ByteXor[x[k]][0] = x[k]
    BY <2>1, ByteXorFacts
  <2>3. QED
    BY <1>3, <2>2, XorAt
<1>5. S!Xor(Zero, x) \in EWord /\ S!Xor(x, Zero) \in EWord
  BY <1>3, XorIsWord
<1>6. QED
  BY <1>3, <1>4, <1>5 DEF EWord

\* ELL() of a word is a word.
LEMMA ELLIsWord ==
  ASSUME NEW x \in EWord
  PROVE  S!ELL(x) \in EWord
<1>1. x[1] \in S!Byte /\ x[2] \in S!Byte /\ x[3] \in S!Byte /\ x[4] \in S!Byte
  BY WordBytes
<1>2. S!ByteXor[x[3]][x[1]] \in S!Byte /\ S!ByteXor[x[4]][x[2]] \in S!Byte
  BY <1>1, ByteXorFacts
<1>3. QED
  BY <1>1, <1>2, TupleIsWord DEF S!ELL

\* The twelve words of a state and the sixteen bytes of a block.
EState == [1 .. 12 -> EWord]
EBlock == [1 .. 16 -> S!Byte]

\* The k-th word of a block, and what is added to the odd and to the even words.
BlockWord(blk, k) == IF k > RATE_WORDS THEN Zero ELSE SubSeq(blk, 4 * k - 3, 4 * k)
TmpX(blk) == S!ELL(S!Xor(BlockWord(blk, 1), BlockWord(blk, 3)))
TmpY(blk) == S!ELL(S!Xor(BlockWord(blk, 2), BlockWord(blk, 4)))

\* The words 5 and 6 of a block are 0; the others are its bytes.
LEMMA BlockWordIs ==
  ASSUME NEW blk \in EBlock, NEW k \in 1 .. 6
  PROVE  /\ BlockWord(blk, k) \in EWord
         /\ k > 4 => BlockWord(blk, k) = Zero
         /\ k =< 4 => \A i \in 1 .. 4 : BlockWord(blk, k)[i] = blk[4 * k - 4 + i]
<1>1. CASE k > 4
  BY <1>1, ZeroIsWord DEF BlockWord, RATE_WORDS
<1>2. CASE k =< 4
  <2>0. BlockWord(blk, k) = SubSeq(blk, 4 * k - 3, 4 * k)
    BY <1>2 DEF BlockWord, RATE_WORDS
  <2>1. SubSeq(blk, 4 * k - 3, 4 * k) = [i \in 1 .. (4 * k) - (4 * k - 3) + 1 |-> blk[i + (4 * k - 3) - 1]]
    OBVIOUS
  <2>2. (4 * k) - (4 * k - 3) + 1 = 4 /\ \A i \in 1 .. 4 : i + (4 * k - 3) - 1 = 4 * k - 4 + i /\ 4 * k - 4 + i \in 1 .. 16
    BY <1>2
  <2>3. SubSeq(blk, 4 * k - 3, 4 * k) = [i \in 1 .. 4 |-> blk[4 * k - 4 + i]]
    BY <2>1, <2>2
  <2>4. \A i \in 1 .. 4 : blk[4 * k - 4 + i] \in S!Byte
    BY <2>2 DEF EBlock
  <2>5. BlockWord(blk, k) \in EWord
    BY <2>0, <2>3, <2>4 DEF EWord
  <2>6. \A i \in 1 .. 4 : BlockWord(blk, k)[i] = blk[4 * k - 4 + i]
    BY <2>0, <2>3
  <2>7. QED
    BY <1>2, <2>5, <2>6
<1>3. QED
  BY <1>1, <1>2

\* What is added to the odd and to the even words are words.
LEMMA TmpAreWords ==
  ASSUME NEW blk \in EBlock
  PROVE  TmpX(blk) \in EWord /\ TmpY(blk) \in EWord
<1>1. \A k \in 1 .. 6 : BlockWord(blk, k) \in EWord
  BY BlockWordIs
<1>2. QED
  BY <1>1, XorIsWord, ELLIsWord DEF TmpX, TmpY

\* add_msg_blk() as one function of the words.
LEMMA AddedIs ==
  ASSUME NEW st, NEW blk
  PROVE  add_msg_blk(st, blk) =
           [k \in 1 .. 12 |-> IF k > 6 THEN st[k]
              ELSE S!Xor(st[k], S!Xor(BlockWord(blk, k), IF k % 2 = 1 THEN TmpY(blk) ELSE TmpX(blk)))]
<1>1. STATE_WORDS = 12 /\ STATE_WORDS \div 2 = 6
  BY DEF STATE_WORDS
<1>2. QED
  BY <1>1 DEF add_msg_blk, BlockWord, TmpX, TmpY

\* add_msg_blk() leaves a state.
LEMMA AddedIsState ==
  ASSUME NEW st \in EState, NEW blk \in EBlock
  PROVE  add_msg_blk(st, blk) \in EState
<1>1. ASSUME NEW k \in 1 .. 12, ~ (k > 6)
      PROVE  S!Xor(st[k], S!Xor(BlockWord(blk, k), IF k % 2 = 1 THEN TmpY(blk) ELSE TmpX(blk))) \in EWord
  <2>1. st[k] \in EWord /\ BlockWord(blk, k) \in EWord
    BY <1>1, BlockWordIs DEF EState
  <2>2. QED
    BY <2>1, TmpAreWords, XorIsWord
<1>2. \A k \in 1 .. 12 : st[k] \in EWord
  BY DEF EState
<1>3. QED
  BY <1>1, <1>2, AddedIs DEF EState

\* The state with a constant in its word 6.
Marked(st, e) == [st EXCEPT ![6] = S!Xor(@, e)]

\* What is added can be told from the result.
LEMMA AddedApart ==
  ASSUME NEW st \in EState, NEW c1 \in EWord, NEW c2 \in EWord, NEW b1 \in EBlock, NEW b2 \in EBlock,
         add_msg_blk(Marked(st, c1), b1) = add_msg_blk(Marked(st, c2), b2)
  PROVE  c1 = c2 /\ b1 = b2
<1> DEFINE s1 == Marked(st, c1)
<1> DEFINE s2 == Marked(st, c2)
<1>1. /\ \A k \in 1 .. 5 : s1[k] = st[k] /\ s2[k] = st[k]
      /\ s1[6] = S!Xor(st[6], c1) /\ s2[6] = S!Xor(st[6], c2)
      /\ \A k \in 1 .. 6 : st[k] \in EWord
  BY DEF EState, Marked
<1>01. add_msg_blk(s1, b1) = add_msg_blk(s2, b2)
  OBVIOUS
<1> HIDE DEF s1, s2
<1>2. \A k \in 1 .. 6 : /\ BlockWord(b1, k) \in EWord /\ BlockWord(b2, k) \in EWord
                        /\ k > 4 => BlockWord(b1, k) = Zero /\ BlockWord(b2, k) = Zero
  BY BlockWordIs
<1>3. TmpX(b1) \in EWord /\ TmpY(b1) \in EWord /\ TmpX(b2) \in EWord /\ TmpY(b2) \in EWord
  BY TmpAreWords
<1>4. ASSUME NEW k \in 1 .. 6
      PROVE  S!Xor(s1[k], S!Xor(BlockWord(b1, k), IF k % 2 = 1 THEN TmpY(b1) ELSE TmpX(b1)))
               = S!Xor(s2[k], S!Xor(BlockWord(b2, k), IF k % 2 = 1 THEN TmpY(b2) ELSE TmpX(b2)))
  <2>1. add_msg_blk(s1, b1)[k] = add_msg_blk(s2, b2)[k]
    BY <1>01
  <2>2. k \in 1 .. 12 /\ ~ (k > 6)
    OBVIOUS
  <2>3. QED
    BY <2>1, <2>2, AddedIs
<1>5. TmpY(b1) = TmpY(b2)
  <2>1. S!Xor(st[5], S!Xor(Zero, TmpY(b1))) = S!Xor(st[5], S!Xor(Zero, TmpY(b2)))
    BY <1>4, <1>1, <1>2
  <2>2. S!Xor(Zero, TmpY(b1)) = TmpY(b1) /\ S!Xor(Zero, TmpY(b2)) = TmpY(b2)
    BY <1>3, ZeroIsNeutral
  <2>3. QED
    BY <2>1, <2>2, <1>1, <1>3, XorCancelsWord
<1>6. BlockWord(b1, 1) = BlockWord(b2, 1) /\ BlockWord(b1, 3) = BlockWord(b2, 3)
  <2>1. ASSUME NEW k \in {1, 3} PROVE S!Xor(BlockWord(b1, k), TmpY(b1)) = S!Xor(BlockWord(b2, k), TmpY(b1))
    <3>1. S!Xor(st[k], S!Xor(BlockWord(b1, k), TmpY(b1))) = S!Xor(st[k], S!Xor(BlockWord(b2, k), TmpY(b1)))
      BY <1>4, <1>1, <1>5
    <3>2. S!Xor(BlockWord(b1, k), TmpY(b1)) \in EWord /\ S!Xor(BlockWord(b2, k), TmpY(b1)) \in EWord
      BY <1>2, <1>3, XorIsWord
    <3>3. QED
      BY <3>1, <3>2, <1>1, XorCancelsWord
  <2>2. QED
    BY <2>1, <1>2, <1>3, XorCancelsWordRight
<1>7. TmpX(b1) = TmpX(b2)
  BY <1>6 DEF TmpX
<1>8. BlockWord(b1, 2) = BlockWord(b2, 2) /\ BlockWord(b1, 4) = BlockWord(b2, 4)
  <2>1. ASSUME NEW k \in {2, 4} PROVE S!Xor(BlockWord(b1, k), TmpX(b1)) = S!Xor(BlockWord(b2, k), TmpX(b1))
    <3>1. S!Xor(st[k], S!Xor(BlockWord(b1, k), TmpX(b1))) = S!Xor(st[k], S!Xor(BlockWord(b2, k), TmpX(b1)))
      BY <1>4, <1>1, <1>7
    <3>2. S!Xor(BlockWord(b1, k), TmpX(b1)) \in EWord /\ S!Xor(BlockWord(b2, k), TmpX(b1)) \in EWord
      BY <1>2, <1>3, XorIsWord
    <3>3. QED
      BY <3>1, <3>2, <1>1, XorCancelsWord
  <2>2. QED
    BY <2>1, <1>2, <1>3, XorCancelsWordRight
<1>9. c1 = c2
  <2> DEFINE t == S!Xor(Zero, TmpX(b1))
  <2>1. t \in EWord
    BY <1>3, ZeroIsNeutral
  <2>2. S!Xor(S!Xor(st[6], c1), t) = S!Xor(S!Xor(st[6], c2), t)
    BY <1>4, <1>1, <1>2, <1>7
  <2> HIDE DEF t
  <2>3. S!Xor(st[6], c1) \in EWord /\ S!Xor(st[6], c2) \in EWord
    BY <1>1, XorIsWord
  <2>4. S!Xor(st[6], c1) = S!Xor(st[6], c2)
    BY <2>1, <2>2, <2>3, XorCancelsWordRight
  <2>5. QED
    BY <2>4, <1>1, XorCancelsWord
<1>10. b1 = b2
  <2>1. ASSUME NEW j \in 1 .. 16 PROVE b1[j] = b2[j]
    <3>1. PICK k \in 1 .. 4, i \in 1 .. 4 : j = 4 * k - 4 + i
      <4>1. (j + 3) \div 4 \in 1 .. 4 /\ ((j + 3) % 4) + 1 \in 1 .. 4
            /\ j = 4 * ((j + 3) \div 4) - 4 + ((j + 3) % 4) + 1
        OBVIOUS
      <4>2. QED BY <4>1
    <3>2. BlockWord(b1, k) = BlockWord(b2, k)
      BY <1>6, <1>8
    <3>3. k \in 1 .. 6 /\ k =< 4
      OBVIOUS
    <3>4. BlockWord(b1, k)[i] = b1[4 * k - 4 + i] /\ BlockWord(b2, k)[i] = b2[4 * k - 4 + i]
      BY <3>3, BlockWordIs
    <3>5. QED BY <3>1, <3>2, <3>4
  <2>2. QED
    BY <2>1 DEF EBlock
<1>11. QED
  BY <1>9, <1>10

\* A last piece, padded, is a block.
LEMMA PaddedIsBlock ==
  ASSUME NEW msg \in Seq(S!Byte), NEW off \in Nat, NEW inlen \in Nat, off + inlen =< Len(msg)
  PROVE  PaddedBlock(msg, off, inlen) \in EBlock
<1>1. ASSUME NEW k \in 1 .. 16
      PROVE  (IF k <= inlen THEN msg[off + k] ELSE IF k = inlen + 1 THEN 128 ELSE 0) \in S!Byte
  <2>1. k =< inlen => off + k \in 1 .. Len(msg)
    OBVIOUS
  <2>2. k =< inlen => msg[off + k] \in S!Byte
    BY <2>1
  <2>3. 128 \in S!Byte /\ 0 \in S!Byte
    BY DEF S!Byte
  <2>4. QED
    BY <2>2, <2>3
<1>2. QED
  BY <1>1 DEF PaddedBlock, EBlock, RATE_BYTES

\* The constant that goes with a last block of this length.
ConstOf(len) == CONST_M(IF len < RATE_BYTES THEN 1 ELSE 2)

\* It tells full last blocks from padded ones.
LEMMA ConstIsWord ==
  ASSUME NEW len \in Nat
  PROVE  ConstOf(len) \in EWord /\ ConstOf(len)[4] = IF len < 16 THEN 1 ELSE 2
<1>1. 0 \in S!Byte /\ 1 \in S!Byte /\ 2 \in S!Byte
  BY DEF S!Byte
<1>2. QED
  BY <1>1, TupleIsWord DEF ConstOf, CONST_M, RATE_BYTES

\* Esch_Last adds the constant, then the padded block.
LEMMA AddLastIs ==
  ASSUME NEW st, NEW msg, NEW off, NEW inlen
  PROVE  AddLast(st, msg, off, inlen) =
           add_msg_blk(Marked(st, ConstOf(inlen)), PaddedBlock(msg, off, inlen))
<1>1. STATE_WORDS \div 2 = 6
  BY DEF STATE_WORDS
<1>2. QED
  BY <1>1 DEF AddLast, ConstOf, Marked

\* ... and leaves a state.
LEMMA AddLastIsState ==
  ASSUME NEW st \in EState, NEW msg \in Seq(S!Byte), NEW off \in Nat, NEW inlen \in Nat,
         off + inlen =< Len(msg)
  PROVE  AddLast(st, msg, off, inlen) \in EState
<1>1. st[6] \in EWord
  BY DEF EState
<1>2. S!Xor(st[6], ConstOf(inlen)) \in EWord
  BY <1>1, ConstIsWord, XorIsWord
<1>3. Marked(st, ConstOf(inlen)) \in EState
  BY <1>2 DEF EState, Marked
<1>4. QED
  BY <1>3, PaddedIsBlock, AddedIsState, AddLastIs

\* Two sequences that are padded to one block and marked with one constant are
\* the same.
LEMMA EndsAreApart ==
  ASSUME NEW a \in Seq(S!Byte), NEW b \in Seq(S!Byte), Len(a) =< 16, Len(b) =< 16,
         PaddedBlock(a, 0, Len(a)) = PaddedBlock(b, 0, Len(b)), ConstOf(Len(a)) = ConstOf(Len(b))
  PROVE  a = b
<1> DEFINE la == Len(a)
<1> DEFINE lb == Len(b)
<1>0. la \in Nat /\ lb \in Nat /\ la =< 16 /\ lb =< 16
  OBVIOUS
<1>1. la < 16 <=> lb < 16
  BY <1>0, ConstIsWord
<1> DEFINE pa == PaddedBlock(a, 0, la)
<1> DEFINE pb == PaddedBlock(b, 0, lb)
<1>01. pa = pb
  OBVIOUS
<1>2. \A k \in 1 .. 16 : pa[k] = IF k =< la THEN a[k] ELSE IF k = la + 1 THEN 128 ELSE 0
  BY <1>0 DEF PaddedBlock, RATE_BYTES
<1>3. \A k \in 1 .. 16 : pb[k] = IF k =< lb THEN b[k] ELSE IF k = lb + 1 THEN 128 ELSE 0
  BY <1>0 DEF PaddedBlock, RATE_BYTES
<1> HIDE DEF pa, pb, la, lb
<1>4. la = lb
  <2>1. CASE la < lb
    <3>1. lb + 1 \in 1 .. 16 /\ lb + 1 > la + 1
      BY <2>1, <1>0, <1>1
    <3>2. pa[lb + 1] = 0
      <4>1. ~ (lb + 1 =< la) /\ lb + 1 # la + 1
        BY <3>1, <1>0
      <4>2. QED BY <3>1, <4>1, <1>2
    <3>20. pb[lb + 1] = 128
      <4>1. ~ (lb + 1 =< lb)
        BY <1>0
      <4>2. QED BY <3>1, <4>1, <1>3
    <3>3. QED BY <3>2, <3>20, <1>01
  <2>2. CASE lb < la
    <3>1. la + 1 \in 1 .. 16 /\ la + 1 > lb + 1
      BY <2>2, <1>0, <1>1
    <3>2. pb[la + 1] = 0
      <4>1. ~ (la + 1 =< lb) /\ la + 1 # lb + 1
        BY <3>1, <1>0
      <4>2. QED BY <3>1, <4>1, <1>3
    <3>20. pa[la + 1] = 128
      <4>1. ~ (la + 1 =< la)
        BY <1>0
      <4>2. QED BY <3>1, <4>1, <1>2
    <3>3. QED BY <3>2, <3>20, <1>01
  <2>3. QED BY <2>1, <2>2, <1>0
<1>5. \A k \in 1 .. la : a[k] = b[k]
  <2> TAKE k \in 1 .. la
  <2>1. k \in 1 .. 16 /\ k =< la /\ k =< lb
    BY <1>0, <1>4
  <2>2. pa[k] = a[k] /\ pb[k] = b[k]
    BY <2>1, <1>2, <1>3
  <2>3. QED BY <2>2, <1>01
<1>6. QED
  BY <1>4, <1>5, SeqEqual DEF la, lb

\* From one state, two last blocks lead to two states: the words 5 and 6 of a
\* block are 0, so they give away what the Feistel function added, and with it
\* the constant and every word of the block.
LEMMA LastBlocksNeverMeet ==
  ASSUME NEW st \in EState, NEW a \in LastBlocks, NEW b \in LastBlocks, a # b
  PROVE  AddLast(st, a, 0, Len(a)) # AddLast(st, b, 0, Len(b))
<1>1. SUFFICES ASSUME AddLast(st, a, 0, Len(a)) = AddLast(st, b, 0, Len(b)) PROVE FALSE
  OBVIOUS
<1>2. a \in Seq(S!Byte) /\ b \in Seq(S!Byte) /\ Len(a) =< 16 /\ Len(b) =< 16
  BY BytesAssumption
<1>3. Len(a) \in Nat /\ Len(b) \in Nat /\ 0 + Len(a) =< Len(a) /\ 0 + Len(b) =< Len(b) /\ 0 \in Nat
  BY <1>2
<1>4. PaddedBlock(a, 0, Len(a)) \in EBlock /\ PaddedBlock(b, 0, Len(b)) \in EBlock
  BY <1>2, <1>3, PaddedIsBlock
<1>5. ConstOf(Len(a)) \in EWord /\ ConstOf(Len(b)) \in EWord
  BY <1>3, ConstIsWord
<1>6. ConstOf(Len(a)) = ConstOf(Len(b)) /\ PaddedBlock(a, 0, Len(a)) = PaddedBlock(b, 0, Len(b))
  <2> DEFINE c1 == ConstOf(Len(a))
  <2> DEFINE c2 == ConstOf(Len(b))
  <2> DEFINE b1 == PaddedBlock(a, 0, Len(a))
  <2> DEFINE b2 == PaddedBlock(b, 0, Len(b))
  <2>1. add_msg_blk(Marked(st, c1), b1) = add_msg_blk(Marked(st, c2), b2)
    BY <1>1, AddLastIs
  <2>2. c1 \in EWord /\ c2 \in EWord /\ b1 \in EBlock /\ b2 \in EBlock
    BY <1>4, <1>5
  <2> HIDE DEF c1, c2, b1, b2
  <2>3. c1 = c2 /\ b1 = b2
    BY <2>1, <2>2, AddedApart
  <2>4. QED BY <2>3 DEF c1, c2, b1, b2
<1>7. QED
  BY <1>2, <1>6, EndsAreApart

(***************************************************************************)
(* Sparkle maps states to states.                                          *)
(***************************************************************************)
\* Addition modulo 2^32 of two words is a word.
LEMMA AddIsWord ==
  ASSUME NEW x \in EWord, NEW y \in EWord
  PROVE  S!Add(x, y) \in EWord
<1>1. \A z \in EWord : S!Half(z, 1) \in Nat /\ S!Half(z, 3) \in Nat
  <2> TAKE z \in EWord
  <2>0. S!Byte \subseteq Nat
    BY DEF S!Byte
  <2>1. z[1] \in Nat /\ z[2] \in Nat /\ z[3] \in Nat /\ z[4] \in Nat
    BY <2>0, WordBytes
  <2>2. S!Half(z, 1) = z[1] + 256 * z[2] /\ S!Half(z, 3) = z[3] + 256 * z[4]
    BY DEF S!Half
  <2>3. QED
    BY <2>1, <2>2
<1>2. \A m \in Nat : m % S!HalfSize \in Nat /\ m % S!HalfSize < 256 * 256 /\ m \div S!HalfSize \in Nat
  BY DEF S!HalfSize
<1>3. \A m \in Nat : m < 256 * 256 => m % 256 \in S!Byte /\ m \div 256 \in S!Byte
  BY DEF S!Byte
<1>4. \A m, k \in Nat : m < 256 * 256 /\ k < 256 * 256 => S!Word(m, k) \in EWord
  BY <1>3, TupleIsWord DEF S!Word
<1> DEFINE lo == S!Half(x, 1) + S!Half(y, 1)
<1> DEFINE hi == S!Half(x, 3) + S!Half(y, 3) + lo \div S!HalfSize
<1>5. lo \in Nat
  BY <1>1
<1>6. lo \div S!HalfSize \in Nat
  BY <1>2, <1>5
<1> HIDE DEF lo
<1>7. hi \in Nat
  BY <1>1, <1>6
<1> HIDE DEF hi
<1>8. S!Word(lo % S!HalfSize, hi % S!HalfSize) \in EWord
  BY <1>2, <1>4, <1>5, <1>7
<1>9. QED
  BY <1>8 DEF S!Add, lo, hi

\* So are the rotations,
LEMMA RotationsAreWords ==
  ASSUME NEW x \in EWord
  PROVE  /\ S!ROT1(x) \in EWord /\ S!ROT16(x) \in EWord /\ S!ROT17(x) \in EWord
         /\ S!ROT24(x) \in EWord /\ S!ROT31(x) \in EWord
<1>1. \A z \in EWord : S!ROT1(z) \in EWord
  <2> TAKE z \in EWord
  <2>1. ASSUME NEW k \in 1 .. 4 PROVE z[k] \div 2 + 128 * (z[(k % 4) + 1] % 2) \in S!Byte
    <3>1. (k % 4) + 1 \in 1 .. 4
      OBVIOUS
    <3>2. z[k] \in 0 .. 255 /\ z[(k % 4) + 1] \in 0 .. 255
      BY <3>1 DEF EWord, S!Byte
    <3>3. \A m, j \in 0 .. 255 : m \div 2 + 128 * (j % 2) \in 0 .. 255
      OBVIOUS
    <3>4. QED BY <3>2, <3>3 DEF S!Byte
  <2>2. QED BY <2>1 DEF S!ROT1, EWord
<1>2. S!ROT16(x) \in EWord /\ S!ROT24(x) \in EWord
  BY WordBytes, TupleIsWord DEF S!ROT16, S!ROT24
<1>3. S!ROT17(x) \in EWord
  BY <1>1, <1>2 DEF S!ROT17
<1>4. S!ROT31(x) \in EWord
  <2>1. ASSUME NEW k \in 1 .. 4 PROVE ((2 * x[k]) % 256) + x[((k + 2) % 4) + 1] \div 128 \in S!Byte
    <3>1. ((k + 2) % 4) + 1 \in 1 .. 4
      OBVIOUS
    <3>2. x[k] \in 0 .. 255 /\ x[((k + 2) % 4) + 1] \in 0 .. 255
      BY <3>1 DEF EWord, S!Byte
    <3>3. \A m, j \in 0 .. 255 : ((2 * m) % 256) + j \div 128 \in 0 .. 255
      OBVIOUS
    <3>4. QED BY <3>2, <3>3 DEF S!Byte
  <2>2. QED BY <2>1 DEF S!ROT31, EWord
<1>5. QED
  BY <1>1, <1>2, <1>3, <1>4

\* ... and the round constants.
LEMMA RCONIsWord ==
  ASSUME NEW i \in 1 .. 8
  PROVE  S!RCON[i] \in EWord
<1>2. <<98, 81, 225, 183>> \in EWord
  BY DEF EWord, S!Byte
<1>3. <<128, 88, 113, 191>> \in EWord
  BY DEF EWord, S!Byte
<1>4. <<86, 218, 180, 56>> \in EWord
  BY DEF EWord, S!Byte
<1>5. <<56, 119, 78, 50>> \in EWord
  BY DEF EWord, S!Byte
<1>6. <<235, 133, 17, 187>> \in EWord
  BY DEF EWord, S!Byte
<1>7. <<87, 123, 124, 79>> \in EWord
  BY DEF EWord, S!Byte
<1>8. <<200, 161, 191, 207>> \in EWord
  BY DEF EWord, S!Byte
<1>9. <<61, 41, 179, 194>> \in EWord
  BY DEF EWord, S!Byte
<1>10. i = 1 \/ i = 2 \/ i = 3 \/ i = 4 \/ i = 5 \/ i = 6 \/ i = 7 \/ i = 8
  OBVIOUS
<1>11. QED
  BY <1>2, <1>3, <1>4, <1>5, <1>6, <1>7, <1>8, <1>9, <1>10 DEF S!RCON

\* The two words of a branch.
Branch == EWord \X EWord

\* One of the four rounds of Alzette maps branches to branches,
LEMMA RoundIsBranch ==
  ASSUME NEW b \in Branch, NEW q \in 1 .. 4, NEW rc \in EWord
  PROVE  S!Round(b, q, rc) \in Branch
<1>1. b[1] \in EWord /\ b[2] \in EWord
  BY DEF Branch
<1>2. \A z \in EWord : S!Turn(z, q) \in EWord /\ S!Back(z, q) \in EWord
  <2> TAKE z \in EWord
  <2>1. /\ S!ROT16(z) \in EWord /\ S!ROT17(z) \in EWord
        /\ S!ROT24(z) \in EWord /\ S!ROT31(z) \in EWord
    BY RotationsAreWords
  <2>2. q = 1 \/ q = 2 \/ q = 3 \/ q = 4
    OBVIOUS
  <2>3. S!Turn(z, q) \in EWord
    BY <2>1, <2>2 DEF S!Turn
  <2>4. S!Back(z, q) \in EWord
    BY <2>1, <2>2 DEF S!Back
  <2>5. QED BY <2>3, <2>4
<1> DEFINE x == S!Add(b[1], S!Turn(b[2], q))
<1>3. x \in EWord
  BY <1>1, <1>2, AddIsWord
<1>4. S!Round(b, q, rc) = <<S!Xor(x, rc), S!Xor(b[2], S!Back(x, q))>>
  BY DEF S!Round
<1> HIDE DEF x
<1>5. S!Xor(x, rc) \in EWord /\ S!Xor(b[2], S!Back(x, q)) \in EWord
  BY <1>1, <1>2, <1>3, XorIsWord
<1>6. QED
  BY <1>4, <1>5 DEF Branch

\* ... and so do the four of them, folded.
LEMMA ARXBoxIsBranch ==
  ASSUME NEW b \in Branch, NEW rc \in EWord
  PROVE  S!ARXBox(b, rc) \in Branch
<1> DEFINE sq == <<1, 2, 3, 4>>
<1> DEFINE Eq(it) == it = [s \in SUBSET (1 .. 4) |-> IF s = {} THEN b
                            ELSE S!Round(it[s \ {Max(s)}], sq[Max(s)], rc)]
<1>1. S!ARXBox(b, rc) = (CHOOSE it : Eq(it))[1 .. 4]
  <2>1. DOMAIN sq = 1 .. 4
    OBVIOUS
  <2>2. \A s : S!Max(s) = Max(s)
    BY DEF S!Max, Max
  <2>3. QED
    BY <2>1, <2>2 DEF S!ARXBox, S!FoldLeft, S!MapThenFoldSet
<1>2. \E it : Eq(it)
  <2> DEFINE G == [x \in Branch \X (1 .. 4) |-> S!Round(x[1], sq[x[2]], rc)]
  <2>0. \A k \in 1 .. 4 : sq[k] = k
    OBVIOUS
  <2>1. G \in [Branch \X (1 .. 4) -> Branch]
    BY <2>0, RoundIsBranch
  <2>2. \A x \in Branch, k \in 1 .. 4 : G[<<x, k>>] = S!Round(x, sq[k], rc)
    OBVIOUS
  <2> HIDE DEF G, sq
  <2>3. PICK it : FoldsBy(Branch, b, 4, G, it)
    BY <2>1, FoldEquation
  <2>4. \A s \in SUBSET (1 .. 4) : s # {} =>
          G[<<it[s \ {Max(s)}], Max(s)>>] = S!Round(it[s \ {Max(s)}], sq[Max(s)], rc)
    BY <2>2, <2>3, MaxInRange DEF FoldsBy
  <2>5. Eq(it)
    BY <2>3, <2>4 DEF FoldsBy
  <2> HIDE DEF Eq
  <2>6. QED BY <2>5
<1> DEFINE it == CHOOSE it : Eq(it)
<1>3. Eq(it)
  <2> HIDE DEF Eq
  <2> QED BY <1>2
<1> HIDE DEF it
<1> DEFINE Y == {k \in 0 .. 4 : it[1 .. k] \in Branch}
<1>4. 0 \in Y
  <2>1. it[{}] = b
    BY <1>3
  <2>2. 1 .. 0 = {}
    OBVIOUS
  <2>3. QED BY <2>1, <2>2
<1>5. \A k \in 0 .. 4 - 1 : k \in Y => k + 1 \in Y
  <2> SUFFICES ASSUME NEW k \in 0 .. 4 - 1, k \in Y PROVE k + 1 \in Y
    OBVIOUS
  <2>1. Max(1 .. k + 1) = k + 1 /\ (1 .. k + 1) \ {k + 1} = 1 .. k /\ 1 .. k + 1 # {}
    BY MaxOfRange
  <2>2. 1 .. k + 1 \in SUBSET (1 .. 4)
    OBVIOUS
  <2>3. it[1 .. k + 1] = S!Round(it[1 .. k], sq[k + 1], rc)
    BY <1>3, <2>1, <2>2
  <2>4. sq[k + 1] = k + 1 /\ k + 1 \in 1 .. 4
    OBVIOUS
  <2>5. QED BY <2>3, <2>4, RoundIsBranch
<1> HIDE DEF Y
<1>6. 4 \in Y
  BY <1>4, <1>5, RangeInduction
<1>7. QED
  BY <1>1, <1>6 DEF Y, it

\* The exclusive or of n words, one after the other.
XorChain(sq, n, h) ==
  /\ h \in [0 .. n -> EWord] /\ h[0] = Zero
  /\ \A k \in 1 .. n : h[k] = S!Xor(h[k - 1], sq[k])

\* XorAll adds the words in turn.
LEMMA XorAllIs ==
  ASSUME NEW n \in Nat, NEW sq \in [1 .. n -> EWord]
  PROVE  \E h : XorChain(sq, n, h) /\ S!XorAll(sq) = h[n]
<1> DEFINE Eq(it) == it = [s \in SUBSET (1 .. n) |-> IF s = {} THEN Zero
                            ELSE S!Xor(it[s \ {Max(s)}], sq[Max(s)])]
<1>1. S!XorAll(sq) = (CHOOSE it : Eq(it))[1 .. n]
  <2>1. DOMAIN sq = 1 .. n
    OBVIOUS
  <2>2. \A s : S!Max(s) = Max(s)
    BY DEF S!Max, Max
  <2>3. QED
    BY <2>1, <2>2 DEF S!XorAll, S!FoldLeft, S!MapThenFoldSet, Zero
<1>2. \E it : Eq(it)
  <2> DEFINE G == [x \in EWord \X (1 .. n) |-> S!Xor(x[1], sq[x[2]])]
  <2>1. G \in [EWord \X (1 .. n) -> EWord]
    BY XorIsWord
  <2>2. \A x \in EWord, k \in 1 .. n : G[<<x, k>>] = S!Xor(x, sq[k])
    OBVIOUS
  <2> HIDE DEF G
  <2>3. PICK it : FoldsBy(EWord, Zero, n, G, it)
    BY <2>1, ZeroIsWord, FoldEquation
  <2>4. \A s \in SUBSET (1 .. n) : s # {} =>
          G[<<it[s \ {Max(s)}], Max(s)>>] = S!Xor(it[s \ {Max(s)}], sq[Max(s)])
    BY <2>2, <2>3, MaxInRange DEF FoldsBy
  <2>5. Eq(it)
    BY <2>3, <2>4 DEF FoldsBy
  <2> HIDE DEF Eq
  <2>6. QED BY <2>5
<1> DEFINE it == CHOOSE it : Eq(it)
<1>3. Eq(it)
  <2> HIDE DEF Eq
  <2> QED BY <1>2
<1> HIDE DEF it
<1>4. it[1 .. 0] = Zero
  <2>1. it[{}] = Zero
    BY <1>3
  <2>2. 1 .. 0 = {}
    OBVIOUS
  <2>3. QED BY <2>1, <2>2
<1>5. ASSUME NEW k \in 1 .. n PROVE it[1 .. k] = S!Xor(it[1 .. k - 1], sq[k])
  <2>0. k \in Nat /\ k # 0
    OBVIOUS
  <2>1. Max(1 .. k) = k /\ (1 .. k) \ {k} = 1 .. k - 1 /\ 1 .. k # {}
    BY <2>0, MaxOfRange
  <2>2. 1 .. k \in SUBSET (1 .. n)
    OBVIOUS
  <2>3. it[1 .. k] = S!Xor(it[(1 .. k) \ {Max(1 .. k)}], sq[Max(1 .. k)])
    BY <1>3, <2>1, <2>2
  <2>4. QED
    BY <2>1, <2>3
<1> DEFINE Y == {k \in 0 .. n : it[1 .. k] \in EWord}
<1>6. 0 \in Y
  BY <1>4, ZeroIsWord
<1>7. \A k \in 0 .. n - 1 : k \in Y => k + 1 \in Y
  <2> SUFFICES ASSUME NEW k \in 0 .. n - 1, k \in Y PROVE k + 1 \in Y
    OBVIOUS
  <2>1. k + 1 \in 1 .. n /\ (k + 1) - 1 = k
    OBVIOUS
  <2>2. it[1 .. k + 1] = S!Xor(it[1 .. k], sq[k + 1])
    BY <2>1, <1>5
  <2>3. QED BY <2>1, <2>2, XorIsWord
<1>8. \A k \in 0 .. n : it[1 .. k] \in EWord
  <2> HIDE DEF Y
  <2>1. \A k \in 0 .. n : k \in Y
    BY <1>6, <1>7, RangeInduction
  <2>2. QED BY <2>1 DEF Y
<1> DEFINE h == [k \in 0 .. n |-> it[1 .. k]]
<1>9. h \in [0 .. n -> EWord] /\ h[0] = Zero
  BY <1>4, <1>8
<1>10. ASSUME NEW k \in 1 .. n PROVE h[k] = S!Xor(h[k - 1], sq[k])
  <2>1. k \in 0 .. n /\ k - 1 \in 0 .. n
    OBVIOUS
  <2>2. h[k] = it[1 .. k] /\ h[k - 1] = it[1 .. k - 1]
    BY <2>1
  <2>3. QED BY <2>2, <1>5
<1>11. S!XorAll(sq) = h[n]
  BY <1>1 DEF it
<1> HIDE DEF h
<1>12. XorChain(sq, n, h)
  BY <1>9, <1>10 DEF XorChain
<1>13. QED
  BY <1>11, <1>12

\* What it returns is a word.
LEMMA XorAllIsWord ==
  ASSUME NEW n \in Nat, NEW sq \in [1 .. n -> EWord]
  PROVE  S!XorAll(sq) \in EWord
<1>1. PICK h : XorChain(sq, n, h) /\ S!XorAll(sq) = h[n]
  BY XorAllIs
<1>2. QED
  BY <1>1 DEF XorChain

\* XorAll of three words.
LEMMA XorOfThree ==
  ASSUME NEW sq \in [1 .. 3 -> EWord]
  PROVE  S!XorAll(sq) = S!Xor(S!Xor(sq[1], sq[2]), sq[3])
<1>1. PICK h : XorChain(sq, 3, h) /\ S!XorAll(sq) = h[3]
  BY XorAllIs
<1>2. h[1] = S!Xor(h[0], sq[1]) /\ h[2] = S!Xor(h[1], sq[2]) /\ h[3] = S!Xor(h[2], sq[3]) /\ h[0] = Zero
  BY <1>1 DEF XorChain
<1>3. S!Xor(Zero, sq[1]) = sq[1]
  BY ZeroIsNeutral
<1>4. QED
  BY <1>1, <1>2, <1>3

\* add_msg_blk(), which takes words 5 and 6 of a block to be 0, adds what the
\* Feistel function makes of the whole half of a state.
LEMMA FeistelAdds ==
  ASSUME NEW st, NEW blk \in EBlock
  PROVE  add_msg_blk(st, blk) =
           [k \in 1 .. STATE_WORDS |->
              IF k <= STATE_WORDS \div 2 THEN S!Xor(st[k], Feistel(HalfState(blk))[k]) ELSE st[k]]
<1> DEFINE ws == HalfState(blk)
<1>1. STATE_WORDS = 12 /\ STATE_WORDS \div 2 = 6 /\ 6 \div 2 = 3
  BY DEF STATE_WORDS
<1>2. ws = [k \in 1 .. 6 |-> BlockWord(blk, k)]
  BY <1>1 DEF HalfState, BlockWord, RATE_WORDS
<1>3. \A k \in 1 .. 6 : BlockWord(blk, k) \in EWord /\ (k > 4 => BlockWord(blk, k) = Zero)
  BY BlockWordIs
<1>4. Len(ws) = 6 /\ \A k \in 1 .. 6 : ws[k] = BlockWord(blk, k)
  BY <1>2
<1> HIDE DEF ws
<1> DEFINE xs == [j \in 1 .. 3 |-> ws[2 * j - 1]]
<1> DEFINE ys == [j \in 1 .. 3 |-> ws[2 * j]]
<1>5. xs \in [1 .. 3 -> EWord] /\ xs[1] = BlockWord(blk, 1) /\ xs[2] = BlockWord(blk, 3) /\ xs[3] = Zero
  BY <1>3, <1>4
<1>6. ys \in [1 .. 3 -> EWord] /\ ys[1] = BlockWord(blk, 2) /\ ys[2] = BlockWord(blk, 4) /\ ys[3] = Zero
  BY <1>3, <1>4
<1>7. Feistel(ws) = [k \in 1 .. 6 |-> S!Xor(ws[k], S!ELL(IF k % 2 = 1 THEN S!XorAll(ys) ELSE S!XorAll(xs)))]
  BY <1>1, <1>4 DEF Feistel
<1> HIDE DEF xs, ys
<1>8. S!XorAll(xs) = S!Xor(BlockWord(blk, 1), BlockWord(blk, 3))
  <2>1. S!XorAll(xs) = S!Xor(S!Xor(xs[1], xs[2]), xs[3])
    BY <1>5, XorOfThree
  <2>2. S!Xor(xs[1], xs[2]) \in EWord
    BY <1>5, XorIsWord
  <2>3. S!Xor(S!Xor(xs[1], xs[2]), Zero) = S!Xor(xs[1], xs[2])
    BY <2>2, ZeroIsNeutral
  <2>4. QED BY <2>1, <2>3, <1>5
<1>9. S!XorAll(ys) = S!Xor(BlockWord(blk, 2), BlockWord(blk, 4))
  <2>1. S!XorAll(ys) = S!Xor(S!Xor(ys[1], ys[2]), ys[3])
    BY <1>6, XorOfThree
  <2>2. S!Xor(ys[1], ys[2]) \in EWord
    BY <1>6, XorIsWord
  <2>3. S!Xor(S!Xor(ys[1], ys[2]), Zero) = S!Xor(ys[1], ys[2])
    BY <2>2, ZeroIsNeutral
  <2>4. QED BY <2>1, <2>3, <1>6
<1>10. \A k \in 1 .. 6 : Feistel(ws)[k] = S!Xor(BlockWord(blk, k), IF k % 2 = 1 THEN TmpY(blk) ELSE TmpX(blk))
  BY <1>4, <1>7, <1>8, <1>9 DEF TmpX, TmpY
<1>11. \A k \in 1 .. 12 : k > 6 <=> ~ (k =< 6)
  OBVIOUS
<1>12. QED
  BY <1>1, <1>10, <1>11, AddedIs DEF ws

\* ... of every last block.
LEMMA FeistelWhole ==
  FeistelIsWhole
<1> SUFFICES ASSUME NEW b \in LastBlocks
             PROVE  add_msg_blk(words, PaddedBlock(b, 0, Len(b))) =
                      [k \in 1 .. STATE_WORDS |->
                         IF k <= STATE_WORDS \div 2
                         THEN S!Xor(words[k], Feistel(HalfState(PaddedBlock(b, 0, Len(b))))[k])
                         ELSE words[k]]
  BY DEF FeistelIsWhole
<1>1. b \in Seq(S!Byte) /\ Len(b) \in Nat /\ 0 + Len(b) =< Len(b) /\ 0 \in Nat
  BY BytesAssumption
<1>2. PaddedBlock(b, 0, Len(b)) \in EBlock
  BY <1>1, PaddedIsBlock
<1>3. QED
  BY <1>2, FeistelAdds

\* The first part of a step: the round constant and the number of the step.
LEMMA RoundConstantAdded ==
  ASSUME NEW st \in EState, NEW i \in 0 .. 10
  PROVE  S!AddRoundConstant(st, i) \in EState
<1>1. st[2] \in EWord /\ st[4] \in EWord
  BY DEF EState
<1>2. (i % 8) + 1 \in 1 .. 8
  OBVIOUS
<1>3. S!Xor(st[2], S!RCON[(i % 8) + 1]) \in EWord
  BY <1>1, <1>2, RCONIsWord, XorIsWord
<1>4. S!FromNat(i) \in EWord
  <2>1. i % 256 \in S!Byte /\ i \div 256 \in S!Byte /\ 0 % 256 \in S!Byte /\ 0 \div 256 \in S!Byte
    BY DEF S!Byte
  <2>2. QED
    BY <2>1, TupleIsWord DEF S!FromNat, S!Word
<1>5. S!Xor(st[4], S!FromNat(i)) \in EWord
  BY <1>1, <1>4, XorIsWord
<1>6. QED
  BY <1>3, <1>5 DEF S!AddRoundConstant, EState

\* A state as six branches.
EBranches == [1 .. 6 -> Branch]

\* The linear layer maps branches to branches.
LEMMA LinearLayerIsState ==
  ASSUME NEW bs \in EBranches
  PROVE  S!LinearLayer(bs) \in EBranches
<1>1. Len(bs) = 6 /\ 6 \div 2 = 3
  BY DEF EBranches
<1>2. \A j \in 1 .. 6 : bs[j] \in Branch /\ bs[j][1] \in EWord /\ bs[j][2] \in EWord
  BY DEF EBranches, Branch
<1> DEFINE tmpx == S!ELL(S!XorAll([j \in 1 .. 3 |-> bs[j][1]]))
<1> DEFINE tmpy == S!ELL(S!XorAll([j \in 1 .. 3 |-> bs[j][2]]))
<1> DEFINE Mixed(j) == <<S!Xor(S!Xor(bs[3 + j][1], bs[j][1]), tmpy),
                         S!Xor(S!Xor(bs[3 + j][2], bs[j][2]), tmpx)>>
<1>3. S!LinearLayer(bs) = [j \in 1 .. 2 * 3 |-> IF j > 3 THEN bs[j - 3] ELSE Mixed((j % 3) + 1)]
  BY <1>1 DEF S!LinearLayer
<1>4. tmpx \in EWord /\ tmpy \in EWord
  <2>1. /\ [j \in 1 .. 3 |-> bs[j][1]] \in [1 .. 3 -> EWord]
        /\ [j \in 1 .. 3 |-> bs[j][2]] \in [1 .. 3 -> EWord]
    BY <1>2
  <2>2. S!XorAll([j \in 1 .. 3 |-> bs[j][1]]) \in EWord /\ S!XorAll([j \in 1 .. 3 |-> bs[j][2]]) \in EWord
    BY <2>1, XorAllIsWord
  <2>3. QED BY <2>2, ELLIsWord
<1> HIDE DEF tmpx, tmpy
<1>5. \A j \in 1 .. 3 : Mixed(j) \in Branch
  <2> TAKE j \in 1 .. 3
  <2>1. bs[j][1] \in EWord /\ bs[j][2] \in EWord /\ bs[3 + j][1] \in EWord /\ bs[3 + j][2] \in EWord
    BY <1>2
  <2>2. S!Xor(bs[3 + j][1], bs[j][1]) \in EWord /\ S!Xor(bs[3 + j][2], bs[j][2]) \in EWord
    BY <2>1, XorIsWord
  <2>3. /\ S!Xor(S!Xor(bs[3 + j][1], bs[j][1]), tmpy) \in EWord
        /\ S!Xor(S!Xor(bs[3 + j][2], bs[j][2]), tmpx) \in EWord
    BY <2>2, <1>4, XorIsWord
  <2>4. QED BY <2>3 DEF Branch
<1> HIDE DEF Mixed
<1>6. \A j \in 1 .. 6 : j > 3 => j - 3 \in 1 .. 6
  OBVIOUS
<1>7. \A j \in 1 .. 6 : (j % 3) + 1 \in 1 .. 3
  OBVIOUS
<1>8. \A j \in 1 .. 6 : (IF j > 3 THEN bs[j - 3] ELSE Mixed((j % 3) + 1)) \in Branch
  BY <1>2, <1>5, <1>6, <1>7
<1>9. 2 * 3 = 6
  OBVIOUS
<1>10. QED
  BY <1>3, <1>8, <1>9 DEF EBranches

\* Six branches laid out in turn are the words of a state.
LEMMA WordsAreState ==
  ASSUME NEW bs \in EBranches
  PROVE  S!Words(bs) \in EState
<1>1. S!Words(bs) = FlattenSeq(bs)
  BY DEF S!Words, S!FlattenSeq, FlattenSeq
<1>2. \A j \in 1 .. 6 : bs[j] \in Seq(EWord) /\ Len(bs[j]) = 2
  <2> TAKE j \in 1 .. 6
  <2>1. PICK x \in EWord, y \in EWord : bs[j] = <<x, y>>
    BY DEF EBranches, Branch
  <2>2. <<x, y>> \in Seq(EWord) /\ Len(<<x, y>>) = 2
    OBVIOUS
  <2>3. QED BY <2>1, <2>2
<1>3. bs \in Seq(Seq(EWord)) /\ Len(bs) = 6
  <2>1. bs \in [1 .. 6 -> Seq(EWord)]
    BY <1>2 DEF EBranches
  <2>2. QED BY <2>1, FunctionIsSeq, Zenon
<1> DEFINE f == FlattenSeq(bs)
<1>4. PICK start : Laid(EWord, bs, 6, f, start)
  BY <1>3, FlattenLays
<1> HIDE DEF f
<1>5. f \in Seq(EWord) /\ start[7] = Len(f)
  BY <1>4 DEF Laid
<1>6. start[1] = 0 /\ \A k \in 1 .. 6 : start[k + 1] = start[k] + 2
  BY <1>2, <1>4 DEF Laid
<1>7. start[2] = 2 /\ start[3] = 4 /\ start[4] = 6
  BY <1>6
<1>8. start[5] = 8 /\ start[6] = 10 /\ start[7] = 12
  BY <1>6, <1>7
<1>9. Len(f) = 12
  BY <1>5, <1>8
<1>10. f \in [1 .. 12 -> EWord]
  <2>1. f \in [1 .. Len(f) -> EWord]
    BY <1>5, LenProperties
  <2>2. QED BY <2>1, <1>9
<1>11. QED
  BY <1>1, <1>10 DEF f, EState

\* A step of Sparkle maps states to states,
LEMMA StepIsState ==
  ASSUME NEW st \in EState, NEW i \in 0 .. 10
  PROVE  S!SparkleStep(st, i) \in EState
<1> DEFINE st2 == S!AddRoundConstant(st, i)
<1>1. st2 \in EState
  BY RoundConstantAdded
<1> DEFINE bs == S!Branches(st2)
<1>2. S!SparkleStep(st, i) = S!Words(S!LinearLayer([j \in DOMAIN bs |-> S!ARXBox(bs[j], S!RCON[j])]))
  BY DEF S!SparkleStep
<1> HIDE DEF st2
<1>3. Len(st2) = 12 /\ 12 \div 2 = 6
  BY <1>1 DEF EState
<1>4. bs = [j \in 1 .. 6 |-> <<st2[2 * j - 1], st2[2 * j]>>]
  BY <1>3 DEF S!Branches
<1> HIDE DEF bs
<1>5. ASSUME NEW j \in 1 .. 6 PROVE S!ARXBox(bs[j], S!RCON[j]) \in Branch
  <2>1. 2 * j - 1 \in 1 .. 12 /\ 2 * j \in 1 .. 12
    OBVIOUS
  <2>2. st2[2 * j - 1] \in EWord /\ st2[2 * j] \in EWord
    BY <1>1, <2>1 DEF EState
  <2>3. bs[j] \in Branch
    BY <1>4, <2>2 DEF Branch
  <2>4. S!RCON[j] \in EWord
    BY RCONIsWord
  <2>5. QED BY <2>3, <2>4, ARXBoxIsBranch
<1>6. DOMAIN bs = 1 .. 6
  BY <1>4
<1>7. [j \in DOMAIN bs |-> S!ARXBox(bs[j], S!RCON[j])] \in EBranches
  BY <1>5, <1>6 DEF EBranches
<1>8. QED
  BY <1>2, <1>7, LinearLayerIsState, WordsAreState

\* ... and so does sparkle(), which folds the steps.
LEMMA SparkleIsState ==
  ASSUME NEW st \in EState, NEW n \in 0 .. 11
  PROVE  S!sparkle(st, n) \in EState
<1> DEFINE sq == [i \in 1 .. n |-> i - 1]
<1>0. n \in Nat /\ \A k \in 1 .. n : sq[k] \in 0 .. 10
  OBVIOUS
<1> DEFINE Eq(it) == it = [s \in SUBSET (1 .. n) |-> IF s = {} THEN st
                            ELSE S!SparkleStep(it[s \ {Max(s)}], sq[Max(s)])]
<1>1. S!sparkle(st, n) = (CHOOSE it : Eq(it))[1 .. n]
  <2>1. S!sparkle(st, n) =
          (CHOOSE it : it = [s \in SUBSET (DOMAIN sq) |-> IF s = {} THEN st
                               ELSE S!SparkleStep(it[s \ {S!Max(s)}], sq[S!Max(s)])])[DOMAIN sq]
    BY DEF S!sparkle, S!FoldLeft, S!MapThenFoldSet
  <2>2. DOMAIN sq = 1 .. n
    OBVIOUS
  <2>3. \A s : S!Max(s) = Max(s)
    BY DEF S!Max, Max
  <2> HIDE DEF sq
  <2>4. QED
    BY <2>1, <2>2, <2>3
<1> HIDE DEF sq
<1>2. \E it : Eq(it)
  <2> DEFINE G == [x \in EState \X (1 .. n) |-> S!SparkleStep(x[1], sq[x[2]])]
  <2>1. G \in [EState \X (1 .. n) -> EState]
    <3>1. \A x \in EState \X (1 .. n) : S!SparkleStep(x[1], sq[x[2]]) \in EState
      <4> TAKE x \in EState \X (1 .. n)
      <4>1. x[1] \in EState /\ x[2] \in 1 .. n
        OBVIOUS
      <4>2. sq[x[2]] \in 0 .. 10
        BY <4>1, <1>0
      <4>3. QED BY <4>1, <4>2, StepIsState
    <3>2. QED BY <3>1
  <2>2. \A x \in EState, k \in 1 .. n : G[<<x, k>>] = S!SparkleStep(x, sq[k])
    OBVIOUS
  <2> HIDE DEF G
  <2>3. PICK it : FoldsBy(EState, st, n, G, it)
    BY <1>0, <2>1, FoldEquation
  <2>4. \A s \in SUBSET (1 .. n) : s # {} =>
          G[<<it[s \ {Max(s)}], Max(s)>>] = S!SparkleStep(it[s \ {Max(s)}], sq[Max(s)])
    BY <1>0, <2>2, <2>3, MaxInRange DEF FoldsBy
  <2>5. Eq(it)
    BY <2>3, <2>4 DEF FoldsBy
  <2> HIDE DEF Eq
  <2>6. QED BY <2>5
<1> DEFINE it == CHOOSE it : Eq(it)
<1>3. Eq(it)
  <2> HIDE DEF Eq
  <2> QED BY <1>2
<1> HIDE DEF it
<1> DEFINE Y == {k \in 0 .. n : it[1 .. k] \in EState}
<1>4. 0 \in Y
  <2>1. it[{}] = st
    BY <1>3
  <2>2. 1 .. 0 = {}
    OBVIOUS
  <2>3. QED BY <2>1, <2>2, <1>0
<1>5. \A k \in 0 .. n - 1 : k \in Y => k + 1 \in Y
  <2> SUFFICES ASSUME NEW k \in 0 .. n - 1, k \in Y PROVE k + 1 \in Y
    OBVIOUS
  <2>0. k + 1 \in Nat /\ k + 1 # 0 /\ (k + 1) - 1 = k /\ k + 1 \in 1 .. n /\ k + 1 \in 0 .. n
    BY <1>0
  <2>1. Max(1 .. k + 1) = k + 1 /\ (1 .. k + 1) \ {k + 1} = 1 .. k /\ 1 .. k + 1 # {}
    BY <2>0, MaxOfRange
  <2>2. 1 .. k + 1 \in SUBSET (1 .. n)
    BY <1>0
  <2>3. it[1 .. k + 1] = S!SparkleStep(it[(1 .. k + 1) \ {Max(1 .. k + 1)}], sq[Max(1 .. k + 1)])
    BY <1>3, <2>1, <2>2
  <2>4. it[1 .. k + 1] = S!SparkleStep(it[1 .. k], sq[k + 1])
    BY <2>1, <2>3
  <2>5. it[1 .. k] \in EState
    OBVIOUS
  <2>6. QED BY <1>0, <2>0, <2>4, <2>5, StepIsState
<1> HIDE DEF Y
<1>6. n \in Y
  <2>1. \A k \in 0 .. n : k \in Y
    BY <1>4, <1>5, <1>0, RangeInduction
  <2>2. QED BY <2>1, <1>0
<1>7. QED
  BY <1>1, <1>6 DEF Y, it

-----------------------------------------------------------------------------
(***************************************************************************)
(* The hash.                                                               *)
(***************************************************************************)
\* The state is one once Initialize has run, and the blocks read are in the
\* message.
EschInv ==
  /\ in \in Seq(S!Byte)
  /\ phase \in {"start", "absorb", "squeeze", "end"}
  /\ inpos \in Nat /\ inpos =< Len(in)
  /\ phase \in {"absorb", "squeeze"} => words \in EState

\* It holds at the start,
LEMMA EschInitHolds ==
  ASSUME Esch_Init
  PROVE  EschInv
<1>1. in \in Seq(S!Byte)
  BY BytesAssumption DEF Esch_Init
<1>2. QED
  BY <1>1 DEF EschInv, Esch_Init

\* ... and every step of the hash keeps it.
LEMMA EschStepKeeps ==
  ASSUME EschInv, [Esch_Next]_evars
  PROVE  EschInv'
<1>1. CASE Esch_Initialize
  <2>1. words' = [k \in 1 .. 12 |-> Zero]
    BY <1>1 DEF Esch_Initialize, STATE_WORDS
  <2>2. words' \in EState
    BY <2>1, ZeroIsWord DEF EState
  <2>3. QED
    BY <1>1, <2>2 DEF EschInv, Esch_Initialize
<1>2. CASE Esch_Block
  <2> DEFINE blk == SubSeq(in, inpos + 1, inpos + RATE_BYTES)
  <2>1. Len(in) - inpos > 16 /\ inpos \in Nat /\ in \in Seq(S!Byte) /\ Len(in) \in Nat /\ words \in EState
    BY <1>2 DEF Esch_Block, Left, RATE_BYTES, EschInv
  <2>2. blk \in EBlock
    <3>1. blk = [i \in 1 .. (inpos + 16) - (inpos + 1) + 1 |-> in[i + (inpos + 1) - 1]]
      BY <2>1 DEF RATE_BYTES
    <3>2. (inpos + 16) - (inpos + 1) + 1 = 16
      BY <2>1
    <3>3. \A i \in 1 .. 16 : i + (inpos + 1) - 1 \in 1 .. Len(in)
      BY <2>1
    <3>4. \A i \in 1 .. 16 : in[i + (inpos + 1) - 1] \in S!Byte
      <4>1. \A j \in 1 .. Len(in) : in[j] \in S!Byte
        BY <2>1
      <4>2. QED BY <3>3, <4>1
    <3>5. QED
      BY <3>1, <3>2, <3>4 DEF EBlock
  <2> HIDE DEF blk
  <2>3. words' = S!sparkle(add_msg_blk(words, blk), 7)
    BY <1>2 DEF Esch_Block, STEPS_SLIM, blk
  <2>4. add_msg_blk(words, blk) \in EState
    BY <2>1, <2>2, AddedIsState
  <2>5. words' \in EState
    BY <2>3, <2>4, SparkleIsState
  <2>6. inpos' = inpos + 16 /\ in' = in /\ phase' = phase
    BY <1>2 DEF Esch_Block, RATE_BYTES
  <2>7. inpos' \in Nat /\ inpos' =< Len(in')
    BY <2>1, <2>6
  <2>8. QED
    BY <2>5, <2>6, <2>7 DEF EschInv
<1>3. CASE Esch_Last
  <2>1. inpos \in Nat /\ in \in Seq(S!Byte) /\ Len(in) \in Nat /\ words \in EState /\ inpos =< Len(in)
    BY <1>3 DEF Esch_Last, EschInv
  <2>2. Left \in Nat /\ inpos + Left =< Len(in)
    BY <2>1 DEF Left
  <2>3. AddLast(words, in, inpos, Left) \in EState
    BY <2>1, <2>2, AddLastIsState
  <2>4. words' = S!sparkle(AddLast(words, in, inpos, Left), 11)
    BY <1>3 DEF Esch_Last, STEPS_BIG
  <2>5. words' \in EState
    BY <2>3, <2>4, SparkleIsState
  <2>6. QED
    BY <1>3, <2>5 DEF EschInv, Esch_Last
<1>4. CASE Esch_Finalize
  <2>1. words \in EState
    BY <1>4 DEF Esch_Finalize, EschInv
  <2>2. S!sparkle(words, 7) \in EState
    BY <2>1, SparkleIsState
  <2>3. phase' \in {"squeeze", "end"} /\ (phase' = "squeeze" => words' = S!sparkle(words, 7))
    BY <1>4 DEF Esch_Finalize, STEPS_SLIM
  <2>4. in' = in /\ inpos' = inpos
    BY <1>4 DEF Esch_Finalize
  <2>5. QED
    BY <2>2, <2>3, <2>4 DEF EschInv
<1>5. CASE UNCHANGED evars
  BY <1>5 DEF evars, EschInv
<1>6. QED
  BY <1>1, <1>2, <1>3, <1>4, <1>5 DEF Esch_Next

\* Of esch.c: every block and every call of sparkle() leaves a state of twelve
\* words of four bytes, and no block reaches past the end of the message.
THEOREM HashStates ==
  Esch_Spec => []EschInv
<1>1. Esch_Init => EschInv
  BY EschInitHolds
<1>2. EschInv /\ [Esch_Next]_evars => EschInv'
  BY EschStepKeeps
<1>3. QED
  BY <1>1, <1>2, PTL DEF Esch_Spec

\* Of crypto_hash() and its padding: from every state the hash comes through, no
\* two last blocks of at most 16 bytes lead to the same state.
THEOREM HashesNeverMeet ==
  Esch_Spec => []HashesApart
<1>1. EschInv => HashesApart
  BY LastBlocksNeverMeet DEF EschInv, HashesApart
<1>2. QED
  BY <1>1, HashStates, PTL

\* Of add_msg_blk(), which skips the words of the capacity: it does what the
\* Feistel function of the whole half state does.
THEOREM ShortFeistelIsWhole ==
  Esch_Spec => []FeistelIsWhole
<1>1. EschInv => FeistelIsWhole
  BY FeistelWhole
<1>2. QED
  BY <1>1, HashStates, PTL
=============================================================================

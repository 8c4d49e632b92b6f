--------------------------- MODULE BytecodeProofs ---------------------------
(***************************************************************************)
(* Proof that what serialize() wrote is what host and element read.  The   *)
(* file is a list of fields, and nothing in it says how wide they are:     *)
(* Holds(bs, p, fs, e) says that the bytes from p to e are those of the    *)
(* fields fs.  Writing gives it (WrittenIsHeld), lists of fields share it  *)
(* out (HeldInTurn, FlattenedIsHeld), and reading a field uses it          *)
(* (FieldIsRead), if the reader comes with the right width to the right    *)
(* place.  The inductive invariant says that it does.                      *)
(***************************************************************************)
EXTENDS Bytecode, SequenceTheorems, SetInduction, TLAPS

-----------------------------------------------------------------------------
(***************************************************************************)
(* Numbers and their bytes.                                                *)
(***************************************************************************)
LEMMA PowersOf256 ==
  /\ Power256(0) = 1 /\ Power256(1) = 256
  /\ Power256(2) = 256 * 256 /\ Power256(3) = 256 * 256 * 256
  BY DEF Power256

\* The quotients by the powers of 256, one after the other.
LEMMA Quotients ==
  ASSUME NEW n \in Nat
  PROVE  /\ n = 256 * (n \div 256) + (n % 256)
         /\ (n \div 256) \div 256 = n \div (256 * 256)
         /\ (n \div (256 * 256)) \div 256 = n \div (256 * 256 * 256)
         /\ n \div 256 \in Nat /\ n \div (256 * 256) \in Nat /\ n \div (256 * 256 * 256) \in Nat
         /\ n \div 1 = n
  OBVIOUS

Value(b, len) ==
  CASE len = 1 -> b[1]
    [] len = 2 -> 256 * b[1] + b[2]
    [] len = 3 -> 256 * (256 * b[1] + b[2]) + b[3]
    [] len = 4 -> 256 * (256 * (256 * b[1] + b[2]) + b[3]) + b[4]
    [] OTHER -> 0

\* What the readers make of the bytes of a number that fits is the number.
LEMMA BytesGiveNumber ==
  ASSUME NEW n \in Nat, NEW len \in 0 .. 4, Fits(n, len)
  PROVE  n = Value(uint_tobytes(n, len), len)
<1> DEFINE q1 == n \div 256
<1> DEFINE q2 == n \div (256 * 256)
<1> DEFINE q3 == n \div (256 * 256 * 256)
<1>1. /\ q1 \in Nat /\ q2 \in Nat /\ q3 \in Nat
      /\ n = 256 * q1 + (n % 256)
      /\ q1 = 256 * q2 + (q1 % 256)
      /\ q2 = 256 * q3 + (q2 % 256)
      /\ n \div 1 = n
  BY Quotients
<1> HIDE DEF q1, q2, q3
<1>2. \A m \in Nat : m < 256 => m % 256 = m
  OBVIOUS
<1>3. CASE len = 0
  BY <1>3 DEF Fits, Value
<1>4. CASE len = 1
  <2>1. n < 256
    BY <1>4, <1>1, PowersOf256 DEF Fits
  <2>2. uint_tobytes(n, len)[1] = n % 256
    BY <1>4, <1>1, PowersOf256 DEF uint_tobytes
  <2>3. QED BY <1>2, <1>4, <2>1, <2>2 DEF Value
<1>5. CASE len = 2
  <2>1. q1 < 256
    BY <1>5, PowersOf256 DEF Fits, q1
  <2>2. uint_tobytes(n, len)[1] = q1 % 256 /\ uint_tobytes(n, len)[2] = n % 256
    BY <1>5, <1>1, PowersOf256 DEF uint_tobytes, q1
  <2>3. QED BY <1>1, <1>2, <1>5, <2>1, <2>2 DEF Value
<1>6. CASE len = 3
  <2>1. q2 < 256
    BY <1>6, PowersOf256 DEF Fits, q2
  <2>2. uint_tobytes(n, len)[1] = q2 % 256 /\ uint_tobytes(n, len)[2] = q1 % 256
    BY <1>6, PowersOf256 DEF uint_tobytes, q1, q2
  <2>3. uint_tobytes(n, len)[3] = n % 256
    BY <1>6, <1>1, PowersOf256 DEF uint_tobytes
  <2>4. QED BY <1>1, <1>2, <1>6, <2>1, <2>2, <2>3 DEF Value
<1>7. CASE len = 4
  <2>1. q3 < 256
    BY <1>7, PowersOf256 DEF Fits, q3
  <2>2. uint_tobytes(n, len)[1] = q3 % 256 /\ uint_tobytes(n, len)[2] = q2 % 256
    BY <1>7, PowersOf256 DEF uint_tobytes, q3, q2
  <2>3. uint_tobytes(n, len)[3] = q1 % 256 /\ uint_tobytes(n, len)[4] = n % 256
    BY <1>7, <1>1, PowersOf256 DEF uint_tobytes, q1
  <2>4. QED BY <1>1, <1>2, <1>7, <2>1, <2>2, <2>3 DEF Value
<1>8. QED
  BY <1>3, <1>4, <1>5, <1>6, <1>7

\* The bytes of n, len of them, are in bs from p on.
BytesAt(bs, p, n, len) ==
  \A i \in 1 .. len : p + i - 1 \in DOMAIN bs /\ bs[p + i - 1] = uint_tobytes(n, len)[i]

\* load_bytes() gives back the number whose bytes are there.
LEMMA NumberIsRead ==
  ASSUME NEW bs, NEW p \in Nat, NEW n \in Nat, NEW len \in 0 .. 4, Fits(n, len), BytesAt(bs, p, n, len)
  PROVE  BigEndian(bs, p, len) = n
<1> DEFINE b == uint_tobytes(n, len)
<1>1. n = Value(b, len)
  BY BytesGiveNumber
<1>2. \A i \in 1 .. len : ByteAt(bs, p + i - 1) = b[i]
  BY DEF BytesAt, ByteAt
<1> HIDE DEF b
<1>3. /\ len >= 1 => ByteAt(bs, p) = b[1]
      /\ len >= 2 => ByteAt(bs, p + 1) = b[2]
      /\ len >= 3 => ByteAt(bs, p + 2) = b[3]
      /\ len >= 4 => ByteAt(bs, p + 3) = b[4]
  <2>1. p + 1 - 1 = p /\ p + 2 - 1 = p + 1 /\ p + 3 - 1 = p + 2 /\ p + 4 - 1 = p + 3
    OBVIOUS
  <2>2. QED BY <1>2, <2>1
<1>4. len = 0 \/ len = 1 \/ len = 2 \/ len = 3 \/ len = 4
  OBVIOUS
<1>5. QED
  BY <1>1, <1>3, <1>4 DEF BigEndian, Value

\* What uint_tobytes returns.
LEMMA ToBytesIs ==
  ASSUME NEW n \in Nat, NEW len \in 0 .. 4
  PROVE  uint_tobytes(n, len) \in Seq(Byte) /\ Len(uint_tobytes(n, len)) = len
<1>1. ASSUME NEW j \in 1 .. len PROVE (n \div Power256(len - j)) % 256 \in Byte
  <2>1. len - j = 0 \/ len - j = 1 \/ len - j = 2 \/ len - j = 3
    OBVIOUS
  <2>2. n \div Power256(len - j) \in Nat
    BY <2>1, PowersOf256, Quotients
  <2>3. \A m \in Nat : m % 256 \in 0 .. 255
    OBVIOUS
  <2>4. QED BY <2>2, <2>3 DEF Byte
<1>2. QED
  BY <1>1 DEF uint_tobytes

-----------------------------------------------------------------------------
(***************************************************************************)
(* Widths.                                                                 *)
(***************************************************************************)
LEMMA Pow2Is ==
  Pow2 \in [0 .. 30 -> Nat] /\ Pow2[0] = 1 /\ \A k \in 1 .. 30 : Pow2[k] = 2 * Pow2[k - 1]
<1> DEFINE G == [x \in Nat \X (1 .. 30) |-> 2 * x[1]]
<1>1. G \in [Nat \X (1 .. 30) -> Nat]
  OBVIOUS
<1>2. \A m \in Nat, k \in 1 .. 30 : G[<<m, k>>] = 2 * m
  OBVIOUS
<1> HIDE DEF G
<1>3. PICK h : Iterates(Nat, 1, 30, G, h)
  BY <1>1, PrimitiveRecursion
<1>4. h \in [0 .. 30 -> Nat] /\ h[0] = 1
  BY <1>3 DEF Iterates
<1>5. \A k \in 1 .. 30 : h[k] = 2 * h[k - 1]
  <2> TAKE k \in 1 .. 30
  <2>1. k - 1 \in 0 .. 30
    OBVIOUS
  <2>2. h[k - 1] \in Nat
    BY <1>4, <2>1
  <2>3. QED BY <1>2, <1>3, <2>2 DEF Iterates
<1> DEFINE Eq(f) == f = [k \in 0 .. 30 |-> IF k = 0 THEN 1 ELSE 2 * f[k - 1]]
<1>6. Eq(h)
  <2>1. \A k \in 0 .. 30 : h[k] = IF k = 0 THEN 1 ELSE 2 * h[k - 1]
    BY <1>4, <1>5
  <2>2. QED BY <1>4, <2>1
<1>7. Eq(Pow2)
  <2>1. Pow2 = CHOOSE f : Eq(f)
    BY DEF Pow2
  <2> HIDE DEF Eq
  <2>2. QED BY <1>6, <2>1
<1>8. Pow2[0] = 1 /\ \A k \in 1 .. 30 : Pow2[k] = 2 * Pow2[k - 1]
  BY <1>7
<1>9. DOMAIN Pow2 = 0 .. 30
  BY <1>7
<1> DEFINE Y == {k \in 0 .. 30 : Pow2[k] \in Nat}
<1>10. 0 \in Y
  BY <1>8
<1>11. \A k \in 0 .. 30 - 1 : k \in Y => k + 1 \in Y
  <2> SUFFICES ASSUME NEW k \in 0 .. 30 - 1, k \in Y PROVE k + 1 \in Y
    OBVIOUS
  <2>1. k + 1 \in 1 .. 30 /\ (k + 1) - 1 = k
    OBVIOUS
  <2>2. Pow2[k + 1] = 2 * Pow2[k]
    BY <1>8, <2>1
  <2>3. QED BY <2>1, <2>2
<1> HIDE DEF Y
<1>12. \A k \in 0 .. 30 : k \in Y
  BY <1>10, <1>11, RangeInduction
<1>13. \A k \in 0 .. 30 : Pow2[k] \in Nat
  BY <1>12 DEF Y
<1>14. Pow2 = [k \in 0 .. 30 |-> Pow2[k]]
  BY <1>7
<1>15. QED
  <2> HIDE DEF Eq
  <2> QED BY <1>8, <1>13, <1>14

\* Writer and host agree on how many bytes a number below n takes: from 1 to 4.
LEMMA WidthsAgree ==
  ASSUME NEW n, Measured(n)
  PROVE  lb(n) \in 1 .. 4 /\ host_lb(n) = lb(n)
<1>1. n \in Nat /\ n >= 2 /\ n =< Pow2[30] /\ n \notin RoundsDown
  BY Pow2Is DEF Measured
<1> DEFINE T == {k \in 0 .. 30 : Pow2[k] >= n}
<1>2. T \subseteq Nat /\ T # {}
  BY <1>1
<1>3. PICK m \in T : m \in Nat /\ \A y \in T : m =< y
  BY <1>2, LeastNat
<1> DEFINE Good(k) == Pow2[k] >= n /\ (k = 0 \/ Pow2[k - 1] < n)
<1>4. Good(m)
  <2>1. Pow2[m] >= n /\ m \in 0 .. 30
    BY <1>3
  <2>2. ASSUME m # 0 PROVE Pow2[m - 1] < n
    <3>1. m - 1 \in 0 .. 30 /\ m - 1 \notin T
      BY <1>3, <2>1, <2>2
    <3>2. Pow2[m - 1] \in Nat
      BY <3>1, Pow2Is
    <3>3. QED BY <3>1, <3>2, <1>1
  <2>3. QED BY <2>1, <2>2
<1> DEFINE k == CeilLog2(n)
<1>5. k = CHOOSE i \in 0 .. 30 : Good(i)
  BY DEF CeilLog2
<1>6. k \in 0 .. 30 /\ Good(k)
  <2>1. m \in 0 .. 30
    OBVIOUS
  <2> HIDE DEF Good, k
  <2>2. QED BY <1>4, <1>5, <2>1
<1> HIDE DEF k
<1>7. k # 0
  BY <1>1, <1>6, Pow2Is
<1>8. (k + 7) \div 8 \in 1 .. 4
  BY <1>6, <1>7
<1>9. QED
  BY <1>1, <1>8 DEF lb, host_lb, k

-----------------------------------------------------------------------------
(***************************************************************************)
(* What Concat puts where.                                                 *)
(***************************************************************************)
LEMMA RowSizes ==
  ASSUME NEW n \in Nat
  PROVE  /\ Rows(n) \in Nat /\ (Rows(n) = 0 <=> n = 0)
         /\ \A k \in 1 .. Rows(n) :
              LET l == IF k = Rows(n) THEN n - (k - 1) * RowLen ELSE RowLen IN
              l \in 1 .. 16 /\ (k - 1) * 16 + l =< n /\ (k # Rows(n) => l = 16)
                /\ (k = Rows(n) => (k - 1) * 16 + l = n)
         /\ \A j \in 1 .. n :
              LET k == (j + 15) \div 16 IN
              k \in 1 .. Rows(n) /\ j - (k - 1) * 16 \in 1 .. 16
                /\ (k # Rows(n) \/ j - (k - 1) * 16 =< n - (k - 1) * 16)
  BY DEF Rows, RowLen

\* Concat lays the sequences out in turn.
LEMMA ConcatLays ==
  ASSUME NEW A, NEW ss \in Seq(Seq(A))
  PROVE  \E st : Laid(A, ss, Len(ss), Concat(ss), st)
<1> DEFINE n == Len(ss)
<1> DEFINE m == Rows(n)
<1> DEFINE L(k) == IF k = m THEN n - (k - 1) * RowLen ELSE RowLen
<1> DEFINE R == [k \in 1 .. m |-> FlattenSeq(Row(ss, k))]
<1>1. n \in Nat /\ m \in Nat /\ (m = 0 <=> n = 0)
  BY RowSizes
<1>2. \A k \in 1 .. m : /\ L(k) \in 1 .. 16 /\ (k - 1) * 16 + L(k) =< n /\ (k # m => L(k) = 16)
                        /\ (k = m => (k - 1) * 16 + L(k) = n)
  BY <1>1, RowSizes
<1>3. \A j \in 1 .. n : /\ (j + 15) \div 16 \in 1 .. m
                        /\ j - ((j + 15) \div 16 - 1) * 16 \in 1 .. L((j + 15) \div 16)
  <2> TAKE j \in 1 .. n
  <2> DEFINE k == (j + 15) \div 16
  <2>1. k \in 1 .. m /\ j - (k - 1) * 16 \in 1 .. 16 /\ (k # m \/ j - (k - 1) * 16 =< n - (k - 1) * 16)
    BY <1>1, RowSizes
  <2>02. n \in Nat /\ k \in Nat /\ j \in Nat
    BY <1>1, <2>1
  <2> HIDE DEF k, m, n
  <2>2. j - (k - 1) * 16 \in 1 .. L(k)
    BY <2>1, <2>02 DEF RowLen
  <2>3. QED BY <2>1, <2>2 DEF k
<1>4. Concat(ss) = FlattenSeq(R) /\ n = Len(ss)
  BY DEF Concat
<1>5. \A k \in 1 .. m : Row(ss, k) = [i \in 1 .. L(k) |-> ss[(k - 1) * 16 + i]]
  BY DEF Row, RowLen
<1> HIDE DEF L, m, n
<1>06. \A k \in 1 .. m : L(k) \in Nat /\ L(k) >= 1 /\ L(k) =< 16
  <2> HIDE DEF R
  <2> TAKE k \in 1 .. m
  <2>1. L(k) \in 1 .. 16
    BY <1>2, Zenon
  <2> QED BY <2>1
<1>6. ASSUME NEW k \in 1 .. m
      PROVE  /\ Row(ss, k) \in Seq(Seq(A)) /\ Len(Row(ss, k)) = L(k)
             /\ \A i \in 1 .. L(k) : Row(ss, k)[i] = ss[(k - 1) * 16 + i]
  <2>1. L(k) \in Nat /\ k \in Nat /\ k >= 1 /\ (k - 1) * 16 + L(k) =< n
    BY <1>06, <1>1, <1>2
  <2>2. \A i \in 1 .. L(k) : (k - 1) * 16 + i \in 1 .. n
    BY <1>1, <2>1
  <2>3. \A i \in 1 .. L(k) : ss[(k - 1) * 16 + i] \in Seq(A)
    BY <2>2, <1>4
  <2> DEFINE rw == [i \in 1 .. L(k) |-> ss[(k - 1) * 16 + i]]
  <2>4. rw \in [1 .. L(k) -> Seq(A)]
    BY <2>3
  <2> HIDE DEF rw
  <2>5. rw \in Seq(Seq(A)) /\ Len(rw) = L(k)
    BY <2>1, <2>4, FunctionIsSeq
  <2>6. Row(ss, k) = rw
    BY <1>5 DEF rw
  <2>7. QED BY <2>5, <2>6, <1>5
<1> DEFINE In(k, s) == Laid(A, Row(ss, k), L(k), FlattenSeq(Row(ss, k)), s)
<1>7. \A k \in 1 .. m : \E s : In(k, s)
  <2> TAKE k \in 1 .. m
  <2> DEFINE rw == Row(ss, k)
  <2>1. rw \in Seq(Seq(A)) /\ Len(rw) = L(k)
    BY <1>6
  <2> HIDE DEF rw
  <2>2. \E s : Laid(A, rw, Len(rw), FlattenSeq(rw), s)
    BY <2>1, FlattenLays
  <2>3. QED BY <2>1, <2>2 DEF rw
<1> DEFINE S(k) == CHOOSE s : In(k, s)
<1>8. \A k \in 1 .. m : In(k, S(k))
  <2> TAKE k \in 1 .. m
  <2> HIDE DEF In
  <2>1. PICK s : In(k, s)
    BY <1>7
  <2>2. QED BY <2>1
<1> HIDE DEF S, In
<1>9. R \in Seq(Seq(A)) /\ Len(R) = m
  <2>1. \A k \in 1 .. m : FlattenSeq(Row(ss, k)) \in Seq(A)
    BY <1>8 DEF In, Laid
  <2>2. R \in [1 .. m -> Seq(A)]
    BY <2>1
  <2> HIDE DEF R
  <2>3. QED BY <1>1, <2>2, FunctionIsSeq
<1>10. \A k \in 1 .. m : R[k] = FlattenSeq(Row(ss, k))
  OBVIOUS
<1> HIDE DEF R
<1> DEFINE F == FlattenSeq(R)
<1>11. PICK q : Laid(A, R, m, F, q)
  BY <1>9, FlattenLays
<1> HIDE DEF F
<1>12. /\ F \in Seq(A) /\ q \in [1 .. m + 1 -> Nat] /\ q[1] = 0 /\ q[m + 1] = Len(F)
       /\ \A k \in 1 .. m + 1 : q[k] =< Len(F) /\ q[k] \in Nat
       /\ \A k \in 1 .. m : /\ q[k + 1] = q[k] + Len(R[k])
                            /\ \A i \in 1 .. Len(R[k]) : F[q[k] + i] = R[k][i]
  BY <1>11 DEF Laid
<1>13. \A k \in 1 .. m :
         /\ S(k) \in [1 .. L(k) + 1 -> Nat] /\ S(k)[1] = 0 /\ S(k)[L(k) + 1] = Len(R[k])
         /\ \A i \in 1 .. L(k) + 1 : S(k)[i] =< Len(R[k]) /\ S(k)[i] \in Nat
         /\ Len(R[k]) \in Nat
         /\ \A i \in 1 .. L(k) :
              /\ S(k)[i + 1] = S(k)[i] + Len(ss[(k - 1) * 16 + i])
              /\ \A b \in 1 .. Len(ss[(k - 1) * 16 + i]) : R[k][S(k)[i] + b] = ss[(k - 1) * 16 + i][b]
  <2> TAKE k \in 1 .. m
  <2>1. Laid(A, Row(ss, k), L(k), R[k], S(k))
    BY <1>8, <1>10 DEF In
  <2>2. \A i \in 1 .. L(k) : Row(ss, k)[i] = ss[(k - 1) * 16 + i]
    BY <1>6
  <2>3. R[k] \in Seq(A) /\ Len(R[k]) \in Nat
    BY <2>1 DEF Laid
  <2>4. /\ S(k) \in [1 .. L(k) + 1 -> Nat] /\ S(k)[1] = 0 /\ S(k)[L(k) + 1] = Len(R[k])
        /\ \A i \in 1 .. L(k) + 1 : S(k)[i] =< Len(R[k]) /\ S(k)[i] \in Nat
    BY <2>1 DEF Laid
  <2>5. \A i \in 1 .. L(k) :
              /\ S(k)[i + 1] = S(k)[i] + Len(ss[(k - 1) * 16 + i])
              /\ \A b \in 1 .. Len(ss[(k - 1) * 16 + i]) : R[k][S(k)[i] + b] = ss[(k - 1) * 16 + i][b]
    <3>1. \A i \in 1 .. L(k) :
            /\ S(k)[i + 1] = S(k)[i] + Len(Row(ss, k)[i])
            /\ \A b \in 1 .. Len(Row(ss, k)[i]) : R[k][S(k)[i] + b] = Row(ss, k)[i][b]
      BY ONLY <2>1, Zenon DEF Laid
    <3> TAKE i \in 1 .. L(k)
    <3>2. Row(ss, k)[i] = ss[(k - 1) * 16 + i]
      BY <2>2, Zenon
    <3>3. /\ S(k)[i + 1] = S(k)[i] + Len(Row(ss, k)[i])
          /\ \A b \in 1 .. Len(Row(ss, k)[i]) : R[k][S(k)[i] + b] = Row(ss, k)[i][b]
      BY <3>1, Zenon
    <3>4. QED BY ONLY <3>2, <3>3, Zenon
  <2>6. QED BY <2>3, <2>4, <2>5
<1> DEFINE K(j) == (j + 15) \div 16
<1> DEFINE I(j) == j - (K(j) - 1) * 16
<1> DEFINE st == [j \in 1 .. n + 1 |-> IF j = n + 1 THEN Len(F) ELSE q[K(j)] + S(K(j))[I(j)]]
<1>14. ASSUME NEW j \in 1 .. n
       PROVE  /\ K(j) \in 1 .. m /\ I(j) \in 1 .. L(K(j)) /\ L(K(j)) \in 1 .. 16 /\ I(j) \in 1 .. 16
              /\ st[j] = q[K(j)] + S(K(j))[I(j)] /\ st[j] \in Nat
              /\ (K(j) - 1) * 16 + I(j) = j /\ I(j) \in 1 .. L(K(j)) + 1
  <2>1. K(j) \in 1 .. m /\ I(j) \in 1 .. L(K(j))
    BY <1>3
  <2>2. L(K(j)) \in 1 .. 16
    BY <2>1, <1>2
  <2>3. (K(j) - 1) * 16 + I(j) = j
    BY <1>1
  <2>4. st[j] = q[K(j)] + S(K(j))[I(j)]
    BY <1>1
  <2> HIDE DEF K, I, st
  <2>05. \A l \in 1 .. 16 : \A i \in 1 .. l : i \in 1 .. l + 1 /\ i \in 1 .. 16
    OBVIOUS
  <2>5. I(j) \in 1 .. L(K(j)) + 1 /\ I(j) \in 1 .. 16 /\ K(j) \in 1 .. m + 1
    <3>1. I(j) \in 1 .. L(K(j)) + 1 /\ I(j) \in 1 .. 16
      BY <2>1, <2>2, <2>05
    <3>2. K(j) \in 1 .. m + 1
      BY <2>1, <1>1
    <3>3. QED BY <3>1, <3>2
  <2>6. q[K(j)] \in Nat /\ S(K(j))[I(j)] \in Nat
    BY <2>1, <2>5, <1>12, <1>13
  <2>7. QED BY <2>1, <2>2, <2>3, <2>4, <2>5, <2>6
<1>15. st[n + 1] = Len(F) /\ Len(F) \in Nat
  BY <1>1, <1>12
<1>16. st \in [1 .. n + 1 -> Nat]
  <2>1. \A j \in 1 .. n + 1 : st[j] \in Nat
    <3> TAKE j \in 1 .. n + 1
    <3>1. CASE j = n + 1
      BY <3>1, <1>15
    <3>2. CASE j # n + 1
      <4>1. j \in 1 .. n
        BY <3>2, <1>1
      <4>2. QED BY <4>1, <1>14
    <3>3. QED BY <3>1, <3>2
  <2>2. DOMAIN st = 1 .. n + 1 /\ st = [j \in 1 .. n + 1 |-> st[j]]
    OBVIOUS
  <2> HIDE DEF st
  <2>3. QED BY <2>1, <2>2
\* One row is followed by the next, and the last one by the end.
<1>17. ASSUME NEW j \in 1 .. n PROVE st[j + 1] = q[K(j)] + S(K(j))[I(j) + 1]
  <2>1. K(j) \in 1 .. m /\ I(j) \in 1 .. L(K(j)) /\ L(K(j)) \in 1 .. 16
    BY <1>14
  <2>2. CASE j = n
    <3>1. K(j) = m
      <4>1. K(j) # m => L(K(j)) = 16 /\ (K(j) - 1) * 16 + 16 =< n
        BY <2>1, <1>2
      <4>2. m \in Nat /\ K(j) \in Nat /\ K(j) =< m
        BY <2>1, <1>1
      <4>3. K(j) # m => (m - 1) * 16 + 1 > n
        <5>1. n =< K(j) * 16
          BY <2>2, <1>1
        <5>2. QED BY <4>2, <5>1, <1>1
      <4>4. K(j) # m => (m - 1) * 16 + L(m) = n /\ L(m) \in 1 .. 16
        BY <2>1, <1>2, <4>2
      <4>5. \A l \in 1 .. 16 : (m - 1) * 16 + l >= (m - 1) * 16 + 1
        BY <4>2
      <4>6. SUFFICES ASSUME K(j) # m PROVE FALSE
        OBVIOUS
      <4>7. (m - 1) * 16 + L(m) >= (m - 1) * 16 + 1
        BY <4>4, <4>5, <4>6
      <4>8. n >= (m - 1) * 16 + 1 /\ (m - 1) * 16 + 1 > n
        BY <4>3, <4>4, <4>6, <4>7
      <4>9. QED BY <4>2, <4>8, <1>1
    <3>2. I(j) = L(K(j))
      <4>1. (K(j) - 1) * 16 + L(K(j)) = n
        BY <2>1, <3>1, <1>2
      <4>2. (K(j) - 1) * 16 + I(j) = n
        BY <1>14, <2>2
      <4> DEFINE a == K(j)
      <4> DEFINE i == I(j)
      <4> DEFINE l == L(K(j))
      <4>3. a \in Nat /\ l \in 1 .. 16 /\ i \in 1 .. l /\ (a - 1) * 16 + l = n /\ (a - 1) * 16 + i = n
        <5>1. a \in Nat
          BY <2>1, <1>1
        <5> HIDE DEF K, I
        <5>2. QED BY <4>1, <4>2, <2>1, <5>1
      <4> HIDE DEF a, i, l
      <4>4. i = l
        BY <4>3
      <4>5. QED BY <4>4 DEF i, l
    <3>3. st[j + 1] = Len(F)
      BY <2>2, <1>15
    <3> HIDE DEF K, I, st
    <3>4. q[m + 1] = q[m] + Len(R[m]) /\ q[m + 1] = Len(F) /\ S(m)[L(m) + 1] = Len(R[m])
      BY <2>1, <3>1, <1>12, <1>13
    <3>5. QED BY <3>1, <3>2, <3>3, <3>4
  <2>3. CASE j # n /\ I(j) # 16
    <3>1. j + 1 \in 1 .. n /\ K(j + 1) = K(j) /\ I(j + 1) = I(j) + 1
      BY <2>3, <1>1
    <3> HIDE DEF K, I, st
    <3>2. QED BY <3>1, <1>14
  <2>4. CASE j # n /\ I(j) = 16
    <3>01. j + 1 \in 1 .. n /\ j \in Nat
      BY <2>4, <1>1
    <3>02. K(j + 1) = K(j) + 1
      BY <2>4, <3>01
    <3>1. j + 1 \in 1 .. n /\ K(j + 1) = K(j) + 1 /\ I(j + 1) = 1
      BY <2>4, <3>01, <3>02
    <3> HIDE DEF K, I, st
    <3>2. L(K(j)) = 16
      BY <2>1, <2>4
    <3>3. st[j + 1] = q[K(j) + 1] + S(K(j) + 1)[1] /\ K(j) + 1 \in 1 .. m
      BY <3>1, <1>14
    <3>4. S(K(j) + 1)[1] = 0 /\ q[K(j) + 1] = q[K(j)] + Len(R[K(j)]) /\ S(K(j))[16 + 1] = Len(R[K(j)])
      BY <2>1, <3>2, <3>3, <1>12, <1>13
    <3>5. q[K(j) + 1] \in Nat
      BY <3>3, <1>12, <1>1
    <3>6. QED BY <2>4, <3>3, <3>4, <3>5
  <2>5. QED BY <2>2, <2>3, <2>4
<1>18. st[1] = 0
  <2>1. CASE n = 0
    <3>1. m = 0 /\ Len(F) = 0
      BY <2>1, <1>1, <1>12
    <3>2. QED BY <2>1, <3>1, <1>15
  <2>2. CASE n # 0
    <3>1. 1 \in 1 .. n /\ K(1) = 1 /\ I(1) = 1
      BY <2>2, <1>1
    <3> HIDE DEF K, I, st
    <3>2. st[1] = q[1] + S(1)[1] /\ 1 \in 1 .. m
      BY <3>1, <1>14
    <3>3. QED BY <3>2, <1>12, <1>13
  <2>3. QED BY <2>1, <2>2
<1> HIDE DEF K, I, st
<1>19. \A j \in 1 .. n + 1 : st[j] =< Len(F)
  <2> TAKE j \in 1 .. n + 1
  <2>1. CASE j = n + 1
    BY <2>1, <1>15
  <2>2. CASE j # n + 1
    <3>1. j \in 1 .. n
      BY <2>2, <1>1
    <3>2. /\ K(j) \in 1 .. m /\ I(j) \in 1 .. L(K(j)) + 1
          /\ st[j] = q[K(j)] + S(K(j))[I(j)]
      BY <3>1, <1>14
    <3>3. /\ S(K(j))[I(j)] =< Len(R[K(j)]) /\ S(K(j))[I(j)] \in Nat /\ Len(R[K(j)]) \in Nat
          /\ q[K(j) + 1] = q[K(j)] + Len(R[K(j)])
      BY <3>2, <1>12, <1>13
    <3>4. K(j) + 1 \in 1 .. m + 1 /\ K(j) \in 1 .. m + 1
      BY <3>2, <1>1
    <3>5. q[K(j) + 1] =< Len(F) /\ q[K(j)] \in Nat
      BY <3>4, <1>12
    <3>6. QED BY <3>2, <3>3, <3>5, <1>15
  <2>3. QED BY <2>1, <2>2
<1>20. ASSUME NEW j \in 1 .. n
       PROVE  /\ st[j + 1] = st[j] + Len(ss[j])
              /\ \A b \in 1 .. Len(ss[j]) : F[st[j] + b] = ss[j][b]
  <2>1. /\ K(j) \in 1 .. m /\ I(j) \in 1 .. L(K(j)) /\ (K(j) - 1) * 16 + I(j) = j
        /\ st[j] = q[K(j)] + S(K(j))[I(j)] /\ I(j) \in 1 .. L(K(j)) + 1
        /\ L(K(j)) \in 1 .. 16
    BY <1>14
  <2>2. st[j + 1] = q[K(j)] + S(K(j))[I(j) + 1]
    BY <1>17
  <2>3. /\ S(K(j))[I(j) + 1] = S(K(j))[I(j)] + Len(ss[j])
        /\ \A b \in 1 .. Len(ss[j]) : R[K(j)][S(K(j))[I(j)] + b] = ss[j][b]
    <3> DEFINE a == K(j)
    <3> DEFINE i == I(j)
    <3>1. /\ S(a)[i + 1] = S(a)[i] + Len(ss[(a - 1) * 16 + i])
          /\ \A b \in 1 .. Len(ss[(a - 1) * 16 + i]) : R[a][S(a)[i] + b] = ss[(a - 1) * 16 + i][b]
      BY <2>1, <1>13, Zenon
    <3>2. (a - 1) * 16 + i = j
      BY <2>1
    <3> HIDE DEF a, i
    <3>3. /\ S(a)[i + 1] = S(a)[i] + Len(ss[j])
          /\ \A b \in 1 .. Len(ss[j]) : R[a][S(a)[i] + b] = ss[j][b]
      BY <3>1, <3>2
    <3>4. QED BY <3>3 DEF a, i
  <2>4. I(j) + 1 \in 1 .. L(K(j)) + 1 /\ K(j) \in 1 .. m + 1
    <3>1. \A l \in 1 .. 16 : \A i \in 1 .. l : i + 1 \in 1 .. l + 1
      OBVIOUS
    <3>2. I(j) + 1 \in 1 .. L(K(j)) + 1
      BY <2>1, <3>1
    <3>3. K(j) \in 1 .. m + 1
      BY <2>1, <1>1
    <3>4. QED BY <3>2, <3>3
  <2>5. /\ S(K(j))[I(j)] \in Nat /\ S(K(j))[I(j) + 1] =< Len(R[K(j)]) /\ q[K(j)] \in Nat
        /\ Len(R[K(j)]) \in Nat
    BY <2>1, <2>4, <1>12, <1>13
  <2>6. Len(ss[j]) \in Nat
    <3>1. ss[j] \in Seq(A)
      BY <1>4
    <3>2. QED BY <3>1
  <2>7. st[j + 1] = st[j] + Len(ss[j])
    <3>1. \A x, y, z \in Nat : x + (y + z) = (x + y) + z
      OBVIOUS
    <3>2. q[K(j)] + (S(K(j))[I(j)] + Len(ss[j])) = (q[K(j)] + S(K(j))[I(j)]) + Len(ss[j])
      BY ONLY <2>5, <2>6, <3>1, Zenon
    <3>3. QED BY ONLY <2>1, <2>2, <2>3, <3>2, Zenon
  <2>8. ASSUME NEW b \in 1 .. Len(ss[j]) PROVE F[st[j] + b] = ss[j][b]
    <3> DEFINE u == S(K(j))[I(j)] + b
    <3>1. u \in 1 .. Len(R[K(j)])
      BY <2>3, <2>5, <2>6
    <3>2. R[K(j)][u] = ss[j][b]
      BY <2>3
    <3>3. st[j] + b = q[K(j)] + u
      <4>1. \A x, y, z \in Nat : (x + y) + z = x + (y + z)
        OBVIOUS
      <4>2. b \in Nat
        BY <2>6
      <4>3. (q[K(j)] + S(K(j))[I(j)]) + b = q[K(j)] + u
        BY ONLY <2>5, <4>1, <4>2, Zenon
      <4>4. QED BY ONLY <2>1, <4>3, Zenon
    <3> HIDE DEF u
    <3>4. F[q[K(j)] + u] = R[K(j)][u]
      BY <3>1, <2>1, <1>12
    <3>5. QED BY <3>2, <3>3, <3>4
  <2>9. QED BY <2>7, <2>8
<1>21. Laid(A, ss, n, F, st)
  BY <1>12, <1>15, <1>16, <1>18, <1>19, <1>20 DEF Laid
<1>22. QED
  BY <1>4, <1>21 DEF F, n

-----------------------------------------------------------------------------
(***************************************************************************)
(* Fields in a sequence of bytes.                                          *)
(***************************************************************************)
FieldSet == Nat \X (0 .. 4)

\* st says where each of the fields starts in bs, the first one at p, and that
\* they end before e.
Placed(bs, p, fs, e, st) ==
  /\ st \in [1 .. Len(fs) + 1 -> Nat] /\ st[1] = p /\ st[Len(fs) + 1] = e
  /\ \A j \in 1 .. Len(fs) + 1 : p =< st[j] /\ st[j] =< e
  /\ \A j \in 1 .. Len(fs) :
       st[j + 1] = st[j] + fs[j][2] /\ BytesAt(bs, st[j], fs[j][1], fs[j][2])

\* From p to e, bs holds these fields.
Holds(bs, p, fs, e) ==
  /\ fs \in Seq(FieldSet) /\ AllFit(fs)
  /\ bs \in Seq(Byte) /\ p \in Nat /\ e \in Nat /\ 1 =< p /\ p =< e /\ e =< Len(bs) + 1
  /\ \E st : Placed(bs, p, fs, e, st)

\* A field is a number and a width of at most four bytes.
LEMMA FieldParts ==
  ASSUME NEW f \in FieldSet
  PROVE  f[1] \in Nat /\ f[2] \in 0 .. 4 /\ f[2] \in Nat
  BY DEF FieldSet

\* Some fields in a row are held where they start.
LEMMA GroupHeld ==
  ASSUME NEW bs \in Seq(Byte), NEW p \in Nat, NEW fs \in Seq(FieldSet), NEW e \in Nat, NEW st,
         AllFit(fs), 1 =< p, e =< Len(bs) + 1, Placed(bs, p, fs, e, st),
         NEW x \in Nat, NEW g \in Seq(FieldSet), x + Len(g) =< Len(fs),
         \A i \in 1 .. Len(g) : fs[x + i] = g[i]
  PROVE  /\ Holds(bs, st[x + 1], g, st[x + Len(g) + 1])
         /\ st[x + 1] \in p .. e /\ st[x + Len(g) + 1] \in p .. e
<1> DEFINE n == Len(fs)
<1> DEFINE l == Len(g)
<1>1. n \in Nat /\ l \in Nat /\ x + l =< n /\ n = Len(fs) /\ l = Len(g)
  OBVIOUS
<1> HIDE DEF n, l
<1>2. /\ st \in [1 .. n + 1 -> Nat]
      /\ \A j \in 1 .. n + 1 : p =< st[j] /\ st[j] =< e
      /\ \A j \in 1 .. n : st[j + 1] = st[j] + fs[j][2] /\ BytesAt(bs, st[j], fs[j][1], fs[j][2])
  BY <1>1 DEF Placed
<1> DEFINE s2 == [j \in 1 .. l + 1 |-> st[x + j]]
<1>3. \A j \in 1 .. l + 1 : x + j \in 1 .. n + 1
  BY <1>1
<1>4. \A j \in 1 .. l + 1 : st[x + j] \in Nat /\ p =< st[x + j] /\ st[x + j] =< e
  BY <1>2, <1>3
<1>5. s2 \in [1 .. l + 1 -> Nat]
  BY <1>4
<1>6. \A j \in 1 .. l + 1 : s2[j] = st[x + j]
  OBVIOUS
<1> HIDE DEF s2
<1>7. 1 \in 1 .. l + 1 /\ l + 1 \in 1 .. l + 1 /\ x + (l + 1) = x + l + 1
  BY <1>1
<1>8. s2[1] = st[x + 1] /\ s2[l + 1] = st[x + l + 1]
  BY <1>6, <1>7
<1>9. ASSUME NEW j \in 1 .. l
      PROVE  s2[j + 1] = s2[j] + g[j][2] /\ BytesAt(bs, s2[j], g[j][1], g[j][2])
  <2>1. x + j \in 1 .. n /\ x + (j + 1) = (x + j) + 1 /\ j \in 1 .. l + 1 /\ j + 1 \in 1 .. l + 1
    BY <1>1
  <2>2. s2[j] = st[x + j] /\ s2[j + 1] = st[(x + j) + 1] /\ fs[x + j] = g[j]
    BY <2>1, <1>6, <1>1
  <2>3. QED BY <2>1, <2>2, <1>2
\* The places of a row never go back.
<1> DEFINE Y == {j \in 1 .. l + 1 : \A i \in 1 .. j : s2[i] =< s2[j]}
<1>10. \A j \in 1 .. l + 1 : j \in Y
  <2>1. 1 \in Y
    <3>1. s2[1] \in Nat
      BY <1>5, <1>7
    <3>2. \A i \in 1 .. 1 : s2[i] =< s2[1]
      BY <3>1
    <3>3. QED BY <3>2, <1>7
  <2>2. \A j \in 1 .. (l + 1) - 1 : j \in Y => j + 1 \in Y
    <3> SUFFICES ASSUME NEW j \in 1 .. (l + 1) - 1, j \in Y PROVE j + 1 \in Y
      OBVIOUS
    <3>1. j \in 1 .. l /\ j + 1 \in 1 .. l + 1 /\ j \in 1 .. l + 1
      BY <1>1
    <3>2. s2[j + 1] = s2[j] + g[j][2] /\ g[j][2] \in Nat /\ s2[j] \in Nat /\ s2[j + 1] \in Nat
      <4>1. g[j] \in FieldSet
        BY <3>1, <1>1
      <4>2. QED BY <3>1, <4>1, <1>5, <1>9, FieldParts
    <3>3. ASSUME NEW i \in 1 .. j + 1 PROVE s2[i] =< s2[j + 1]
      <4>1. CASE i = j + 1
        BY <4>1, <3>2
      <4>2. CASE i # j + 1
        <5>1. i \in 1 .. j /\ i \in 1 .. l + 1
          BY <4>2, <3>1, <1>1
        <5>2. s2[i] =< s2[j] /\ s2[i] \in Nat
          BY <5>1, <1>5
        <5>3. \A u, y, z \in Nat : u =< y => u =< y + z
          OBVIOUS
        <5>4. QED BY <5>2, <5>3, <3>2
      <4>3. QED BY <4>1, <4>2
    <3>4. QED BY <3>1, <3>3
  <2> HIDE DEF Y
  <2> DEFINE top == l + 1
  <2>3. top \in Int /\ 1 \in Int /\ \A j \in 1 .. top - 1 : j \in Y => j + 1 \in Y
    BY <1>1, <2>2
  <2> HIDE DEF top
  <2>4. \A j \in 1 .. top : j \in Y
    BY <2>1, <2>3, RangeInduction
  <2>5. QED BY <2>4 DEF top
<1>11. \A j \in 1 .. l + 1 : s2[1] =< s2[j] /\ s2[j] =< s2[l + 1]
  BY <1>7, <1>10, <1>1
<1>12. Placed(bs, st[x + 1], g, st[x + l + 1], s2)
  BY <1>1, <1>5, <1>8, <1>9, <1>11 DEF Placed
<1>13. AllFit(g)
  <2>1. ASSUME NEW i \in 1 .. l PROVE Fits(g[i][1], g[i][2])
    <3>1. x + i \in DOMAIN fs /\ fs[x + i] = g[i]
      BY <1>1
    <3>2. QED BY <3>1 DEF AllFit
  <2>2. DOMAIN g = 1 .. l
    BY <1>1
  <2>3. QED BY <2>1, <2>2 DEF AllFit
<1>14. /\ st[x + 1] \in Nat /\ st[x + l + 1] \in Nat /\ p =< st[x + 1] /\ st[x + 1] =< e
       /\ st[x + l + 1] =< e /\ p =< st[x + l + 1] /\ st[x + 1] =< st[x + l + 1]
  BY <1>4, <1>7, <1>8, <1>11
<1>15. 1 =< st[x + 1] /\ st[x + l + 1] =< Len(bs) + 1
  BY <1>14
<1>16. QED
  BY <1>1, <1>12, <1>13, <1>14, <1>15 DEF Holds

\* Two lists of fields are held one after the other.
LEMMA HeldInTurn ==
  ASSUME NEW bs, NEW p, NEW a \in Seq(FieldSet), NEW b \in Seq(FieldSet), NEW e,
         Holds(bs, p, a \o b, e)
  PROVE  \E m \in Nat : Holds(bs, p, a, m) /\ Holds(bs, m, b, e)
<1> DEFINE fs == a \o b
<1>1. /\ fs \in Seq(FieldSet) /\ AllFit(fs) /\ bs \in Seq(Byte) /\ p \in Nat /\ e \in Nat
      /\ 1 =< p /\ p =< e /\ e =< Len(bs) + 1
  BY DEF Holds
<1>2. PICK st : Placed(bs, p, fs, e, st)
  BY DEF Holds
<1>3. /\ Len(fs) = Len(a) + Len(b) /\ Len(a) \in Nat /\ Len(b) \in Nat
      /\ \A i \in 1 .. Len(a) : fs[i] = a[i]
      /\ \A i \in 1 .. Len(b) : fs[Len(a) + i] = b[i]
  OBVIOUS
<1> HIDE DEF fs
<1>4. Holds(bs, st[0 + 1], a, st[0 + Len(a) + 1])
  <2>1. \A i \in 1 .. Len(a) : fs[0 + i] = a[i]
    BY <1>3
  <2>2. 0 + Len(a) =< Len(fs) /\ 0 \in Nat
    BY <1>3
  <2>3. QED BY <1>1, <1>2, <2>1, <2>2, GroupHeld
<1>5. Holds(bs, st[Len(a) + 1], b, st[Len(a) + Len(b) + 1])
  <2>1. Len(a) + Len(b) =< Len(fs)
    BY <1>3
  <2>2. QED BY <1>1, <1>2, <1>3, <2>1, GroupHeld
<1>6. st[0 + 1] = p /\ 0 + Len(a) + 1 = Len(a) + 1 /\ st[Len(a) + Len(b) + 1] = e
  BY <1>2, <1>3 DEF Placed
<1>7. st[Len(a) + 1] \in Nat
  BY <1>5 DEF Holds
<1>8. QED
  BY <1>4, <1>5, <1>6, <1>7

\* A single field is read.
LEMMA FieldIsRead ==
  ASSUME NEW bs, NEW p, NEW n, NEW len, NEW e, Holds(bs, p, <<Field(n, len)>>, e)
  PROVE  BigEndian(bs, p, len) = n /\ e = p + len /\ p \in Nat /\ len \in 0 .. 4 /\ e =< Len(bs) + 1
<1> DEFINE fs == <<Field(n, len)>>
<1>1. /\ fs \in Seq(FieldSet) /\ AllFit(fs) /\ bs \in Seq(Byte) /\ p \in Nat /\ e \in Nat
      /\ e =< Len(bs) + 1
  BY DEF Holds
<1>2. PICK st : Placed(bs, p, fs, e, st)
  BY DEF Holds
<1>3. Len(fs) = 1 /\ fs[1] = <<n, len>> /\ 1 \in DOMAIN fs
  BY DEF Field
<1> HIDE DEF fs
<1>4. fs[1] \in FieldSet
  <2>1. 1 \in 1 .. Len(fs)
    BY <1>3
  <2>2. QED BY <1>1, <2>1, ElementOfSeq
<1>5. n \in Nat /\ len \in 0 .. 4 /\ fs[1][1] = n /\ fs[1][2] = len
  BY <1>3, <1>4 DEF FieldSet
<1>6. Fits(n, len)
  BY <1>1, <1>3, <1>5 DEF AllFit
<1>7. st[1] = p /\ st[2] = e /\ st[2] = st[1] + len /\ BytesAt(bs, p, n, len)
  BY <1>2, <1>3, <1>5 DEF Placed
<1>8. BigEndian(bs, p, len) = n
  BY <1>1, <1>5, <1>6, <1>7, NumberIsRead
<1>9. QED
  BY <1>1, <1>5, <1>7, <1>8

\* A list of numbers of one width is read, one after the other.
LEMMA ListIsRead ==
  ASSUME NEW bs, NEW p, NEW w \in 0 .. 4, NEW v \in Seq(Nat), NEW e,
         Holds(bs, p, [j \in DOMAIN v |-> Field(v[j], w)], e)
  PROVE  /\ e = p + Len(v) * w
         /\ \A j \in 1 .. Len(v) : BigEndian(bs, p + (j - 1) * w, w) = v[j]
<1> DEFINE fs == [j \in DOMAIN v |-> Field(v[j], w)]
<1> DEFINE n == Len(v)
<1>1. /\ fs \in Seq(FieldSet) /\ AllFit(fs) /\ bs \in Seq(Byte) /\ p \in Nat /\ e \in Nat
  BY DEF Holds
<1>2. PICK st : Placed(bs, p, fs, e, st)
  BY DEF Holds
<1>3. n \in Nat /\ Len(fs) = n /\ DOMAIN fs = 1 .. n
  OBVIOUS
<1>4. \A j \in 1 .. n : fs[j][1] = v[j] /\ fs[j][2] = w /\ v[j] \in Nat
  BY DEF Field
<1> HIDE DEF fs, n
<1>5. /\ st \in [1 .. n + 1 -> Nat] /\ st[1] = p /\ st[n + 1] = e
      /\ \A j \in 1 .. n : st[j + 1] = st[j] + w /\ BytesAt(bs, st[j], v[j], w)
  BY <1>2, <1>3, <1>4 DEF Placed
<1>6. \A j \in 1 .. n : Fits(v[j], w)
  BY <1>1, <1>3, <1>4 DEF AllFit
<1> DEFINE Y == {j \in 1 .. n + 1 : st[j] = p + (j - 1) * w}
<1>7. 1 \in Y
  BY <1>1, <1>3, <1>5
<1>8. \A j \in 1 .. (n + 1) - 1 : j \in Y => j + 1 \in Y
  <2> SUFFICES ASSUME NEW j \in 1 .. (n + 1) - 1, j \in Y PROVE j + 1 \in Y
    OBVIOUS
  <2>1. j \in 1 .. n /\ j + 1 \in 1 .. n + 1
    BY <1>3
  <2>2. st[j + 1] = p + (j - 1) * w + w
    BY <2>1, <1>5
  <2>3. (j - 1) * w + w = ((j + 1) - 1) * w
    OBVIOUS
  <2>4. st[j + 1] = p + ((j + 1) - 1) * w
    BY <1>1, <2>2, <2>3
  <2>5. QED BY <2>1, <2>4
<1> HIDE DEF Y
<1>9. \A j \in 1 .. n + 1 : j \in Y
  <2> DEFINE top == n + 1
  <2>1. top \in Int /\ 1 \in Int /\ \A j \in 1 .. top - 1 : j \in Y => j + 1 \in Y
    BY <1>3, <1>8
  <2> HIDE DEF top
  <2>2. \A j \in 1 .. top : j \in Y
    BY <1>7, <2>1, RangeInduction
  <2>3. QED BY <2>2 DEF top
<1>10. \A j \in 1 .. n + 1 : st[j] = p + (j - 1) * w
  BY <1>9 DEF Y
<1>11. e = p + n * w
  <2>1. n + 1 \in 1 .. n + 1 /\ (n + 1) - 1 = n
    BY <1>3
  <2>2. QED BY <1>5, <1>10, <2>1
<1>12. ASSUME NEW j \in 1 .. n PROVE BigEndian(bs, p + (j - 1) * w, w) = v[j]
  <2>1. j \in 1 .. n + 1 /\ st[j] \in Nat /\ st[j] = p + (j - 1) * w
    <3>1. j \in 1 .. n + 1
      BY <1>3
    <3>2. QED BY <3>1, <1>5, <1>10
  <2>2. BigEndian(bs, st[j], w) = v[j]
    BY <2>1, <1>4, <1>5, <1>6, NumberIsRead
  <2>3. QED BY <2>1, <2>2
<1>13. QED
  BY <1>11, <1>12 DEF n

\* Lists of fields that are flattened are held one after the other.
Parted(bs, p, fss, e, at) ==
  /\ at \in [1 .. Len(fss) + 1 -> Nat] /\ at[1] = p /\ at[Len(fss) + 1] = e
  /\ \A k \in 1 .. Len(fss) + 1 : p =< at[k] /\ at[k] =< e
  /\ \A k \in 1 .. Len(fss) : Holds(bs, at[k], fss[k], at[k + 1])

\* As FlattenSeq has them.
LEMMA FlattenedIsHeld ==
  ASSUME NEW bs, NEW p, NEW fss \in Seq(Seq(FieldSet)), NEW e, Holds(bs, p, FlattenSeq(fss), e)
  PROVE  \E at : Parted(bs, p, fss, e, at)
<1> DEFINE fs == FlattenSeq(fss)
<1> DEFINE m == Len(fss)
<1>1. /\ fs \in Seq(FieldSet) /\ AllFit(fs) /\ bs \in Seq(Byte) /\ p \in Nat /\ e \in Nat
      /\ 1 =< p /\ p =< e /\ e =< Len(bs) + 1
  BY DEF Holds
<1>2. PICK st : Placed(bs, p, fs, e, st)
  BY DEF Holds
<1>3. PICK q : Laid(FieldSet, fss, m, fs, q)
  BY FlattenLays
<1>4. m \in Nat /\ Len(fs) \in Nat /\ m = Len(fss)
  BY <1>1
<1> HIDE DEF fs, m
<1>5. /\ q \in [1 .. m + 1 -> Nat] /\ q[1] = 0 /\ q[m + 1] = Len(fs)
      /\ \A k \in 1 .. m + 1 : q[k] \in Nat /\ q[k] =< Len(fs)
      /\ \A k \in 1 .. m : q[k + 1] = q[k] + Len(fss[k])
      /\ \A k \in 1 .. m : \A i \in 1 .. Len(fss[k]) : fs[q[k] + i] = fss[k][i]
  BY <1>3 DEF Laid
<1>6. /\ st \in [1 .. Len(fs) + 1 -> Nat] /\ st[1] = p /\ st[Len(fs) + 1] = e
      /\ \A j \in 1 .. Len(fs) + 1 : st[j] \in Nat /\ p =< st[j] /\ st[j] =< e
  BY <1>2 DEF Placed
<1> DEFINE at == [k \in 1 .. m + 1 |-> st[q[k] + 1]]
<1>7. \A k \in 1 .. m + 1 : q[k] + 1 \in 1 .. Len(fs) + 1
  <2> TAKE k \in 1 .. m + 1
  <2>1. q[k] \in Nat /\ q[k] =< Len(fs)
    BY <1>5
  <2>2. QED BY <2>1, <1>4
<1>8. \A k \in 1 .. m + 1 : at[k] = st[q[k] + 1] /\ at[k] \in Nat /\ p =< at[k] /\ at[k] =< e
  BY <1>6, <1>7
<1>9. at \in [1 .. m + 1 -> Nat]
  BY <1>8
<1> HIDE DEF at
<1>10. at[1] = p /\ at[m + 1] = e
  <2>1. 1 \in 1 .. m + 1 /\ m + 1 \in 1 .. m + 1 /\ 0 + 1 = 1
    BY <1>4
  <2>2. at[1] = st[0 + 1]
    BY <1>5, <1>8, <2>1
  <2>3. at[m + 1] = st[Len(fs) + 1]
    BY <1>5, <1>8, <2>1
  <2>4. QED BY <1>6, <2>1, <2>2, <2>3
<1>11. ASSUME NEW k \in 1 .. m PROVE Holds(bs, at[k], fss[k], at[k + 1])
  <2> DEFINE g == fss[k]
  <2> DEFINE x == q[k]
  <2>1. k \in 1 .. m + 1 /\ k + 1 \in 1 .. m + 1
    BY <1>4
  <2>2. g \in Seq(FieldSet) /\ Len(g) \in Nat
    BY <1>4
  <2>3. x \in Nat /\ q[k + 1] = x + Len(g) /\ x + Len(g) =< Len(fs)
    BY <2>1, <1>5
  <2>4. \A i \in 1 .. Len(g) : fs[x + i] = g[i]
    BY <1>5
  <2>5. at[k] = st[x + 1] /\ at[k + 1] = st[x + Len(g) + 1]
    BY <2>1, <2>3, <1>8
  <2> HIDE DEF g, x
  <2>6. Holds(bs, st[x + 1], g, st[x + Len(g) + 1])
    BY <1>1, <1>2, <2>2, <2>3, <2>4, GroupHeld
  <2>7. QED BY <2>5, <2>6 DEF g
<1>12. Parted(bs, p, fss, e, at)
  BY <1>4, <1>8, <1>9, <1>10, <1>11 DEF Parted
<1>13. QED
  BY <1>12

\* What is written later moves nothing.
LEMMA HeldIsKept ==
  ASSUME NEW bs, NEW p, NEW fs, NEW e, Holds(bs, p, fs, e), NEW more \in Seq(Byte)
  PROVE  Holds(bs \o more, p, fs, e)
<1> DEFINE b2 == bs \o more
<1>1. /\ fs \in Seq(FieldSet) /\ AllFit(fs) /\ bs \in Seq(Byte) /\ p \in Nat /\ e \in Nat
      /\ 1 =< p /\ p =< e /\ e =< Len(bs) + 1
  BY DEF Holds
<1>2. PICK st : Placed(bs, p, fs, e, st)
  BY DEF Holds
<1>3. /\ b2 \in Seq(Byte) /\ Len(b2) = Len(bs) + Len(more) /\ Len(bs) \in Nat /\ Len(more) \in Nat
      /\ DOMAIN bs = 1 .. Len(bs) /\ DOMAIN b2 = 1 .. Len(b2)
      /\ \A i \in 1 .. Len(bs) : b2[i] = bs[i]
  BY <1>1
<1> HIDE DEF b2
<1>4. \A i \in DOMAIN bs : i \in DOMAIN b2 /\ b2[i] = bs[i]
  BY <1>3
<1>5. \A x, n, len : BytesAt(bs, x, n, len) => BytesAt(b2, x, n, len)
  BY <1>4 DEF BytesAt
<1>6. Placed(b2, p, fs, e, st)
  BY <1>2, <1>5 DEF Placed
<1>7. e =< Len(b2) + 1
  BY <1>1, <1>3
<1>8. Holds(b2, p, fs, e)
  BY <1>1, <1>3, <1>6, <1>7 DEF Holds
<1>9. QED
  BY <1>8 DEF b2

\* A copy of the bytes holds the same fields, from 1 on.
LEMMA CopyIsHeld ==
  ASSUME NEW bs, NEW p, NEW fs, NEW e, Holds(bs, p, fs, e)
  PROVE  /\ Holds(SubSeq(bs, p, e - 1), 1, fs, e - p + 1)
         /\ Len(SubSeq(bs, p, e - 1)) = e - p
<1> DEFINE b2 == SubSeq(bs, p, e - 1)
<1>1. /\ fs \in Seq(FieldSet) /\ AllFit(fs) /\ bs \in Seq(Byte) /\ p \in Nat /\ e \in Nat
      /\ 1 =< p /\ p =< e /\ e =< Len(bs) + 1 /\ Len(bs) \in Nat
  BY DEF Holds
<1>2. PICK st : Placed(bs, p, fs, e, st)
  BY DEF Holds
<1>3. b2 = [i \in 1 .. (e - p) |-> bs[p + i - 1]]
  <2>1. b2 = [i \in 1 .. (e - 1) - p + 1 |-> bs[i + p - 1]]
    BY <1>1
  <2>2. (e - 1) - p + 1 = e - p /\ \A i \in 1 .. (e - p) : i + p - 1 = p + i - 1
    BY <1>1
  <2>3. QED BY <2>1, <2>2
<1>4. \A i \in 1 .. (e - p) : p + i - 1 \in 1 .. Len(bs) /\ bs[p + i - 1] \in Byte
  <2>1. \A i \in 1 .. (e - p) : p + i - 1 \in 1 .. Len(bs)
    BY <1>1
  <2>2. QED BY <1>1, <2>1, ElementOfSeq
<1>5. e - p \in Nat
  BY <1>1
<1>6. b2 \in [1 .. (e - p) -> Byte]
  BY <1>3, <1>4
<1>7. \A i \in 1 .. (e - p) : b2[i] = bs[p + i - 1]
  BY <1>3
<1> HIDE DEF b2
<1>8. b2 \in Seq(Byte) /\ Len(b2) = e - p /\ DOMAIN b2 = 1 .. (e - p)
  BY <1>5, <1>6, FunctionIsSeq
<1> DEFINE n == Len(fs)
<1>9. n \in Nat /\ n = Len(fs)
  BY <1>1
<1> HIDE DEF n
<1>10. /\ st \in [1 .. n + 1 -> Nat] /\ st[1] = p /\ st[n + 1] = e
       /\ \A j \in 1 .. n + 1 : st[j] \in Nat /\ p =< st[j] /\ st[j] =< e
       /\ \A j \in 1 .. n : st[j + 1] = st[j] + fs[j][2] /\ BytesAt(bs, st[j], fs[j][1], fs[j][2])
  BY <1>2, <1>9 DEF Placed
<1> DEFINE s2 == [j \in 1 .. n + 1 |-> st[j] - p + 1]
<1>11. \A j \in 1 .. n + 1 : st[j] - p + 1 \in Nat /\ 1 =< st[j] - p + 1 /\ st[j] - p + 1 =< e - p + 1
  <2> TAKE j \in 1 .. n + 1
  <2>1. st[j] \in Nat /\ p =< st[j] /\ st[j] =< e
    BY <1>10
  <2>2. QED BY <2>1, <1>1
<1>12. s2 \in [1 .. n + 1 -> Nat] /\ \A j \in 1 .. n + 1 : s2[j] = st[j] - p + 1
  BY <1>11
<1> HIDE DEF s2
<1>13. s2[1] = 1 /\ s2[n + 1] = e - p + 1
  <2>1. 1 \in 1 .. n + 1 /\ n + 1 \in 1 .. n + 1
    BY <1>9
  <2>2. QED BY <2>1, <1>1, <1>10, <1>12
<1>14. ASSUME NEW j \in 1 .. n
       PROVE  s2[j + 1] = s2[j] + fs[j][2] /\ BytesAt(b2, s2[j], fs[j][1], fs[j][2])
  <2>1. j \in 1 .. n + 1 /\ j + 1 \in 1 .. n + 1
    BY <1>9
  <2>2. st[j] \in Nat /\ st[j + 1] \in Nat /\ p =< st[j] /\ st[j + 1] =< e /\ st[j + 1] = st[j] + fs[j][2]
    BY <2>1, <1>10
  <2>3. fs[j] \in FieldSet
    BY <1>1, <1>9, ElementOfSeq
  <2>4. fs[j][1] \in Nat /\ fs[j][2] \in 0 .. 4
    BY <2>3, FieldParts
  <2>5. s2[j] = st[j] - p + 1 /\ s2[j + 1] = st[j + 1] - p + 1
    BY <2>1, <1>12
  <2>6. s2[j + 1] = s2[j] + fs[j][2]
    <3>1. fs[j][2] \in Nat
      BY <2>4
    <3> DEFINE a == st[j]
    <3> DEFINE b == fs[j][2]
    <3>2. a \in Nat /\ b \in Nat /\ s2[j] = a - p + 1 /\ s2[j + 1] = (a + b) - p + 1
      BY <2>2, <2>5, <3>1
    <3> HIDE DEF a, b
    <3>3. s2[j + 1] = s2[j] + b
      BY <3>2, <1>1
    <3>4. QED BY <3>3 DEF b
  <2> DEFINE len == fs[j][2]
  <2> DEFINE num == fs[j][1]
  <2>7. BytesAt(bs, st[j], num, len) /\ len \in 0 .. 4 /\ st[j] + len =< e
    BY <1>10, <2>2, <2>4
  <2> HIDE DEF len, num
  <2>8. ASSUME NEW i \in 1 .. len
        PROVE  s2[j] + i - 1 \in DOMAIN b2 /\ b2[s2[j] + i - 1] = uint_tobytes(num, len)[i]
    <3> DEFINE u == s2[j] + i - 1
    <3> DEFINE a == st[j]
    <3>01. a \in Nat /\ p =< a /\ a + len =< e /\ s2[j] = a - p + 1 /\ i \in 1 .. len /\ len \in 0 .. 4
      BY <2>2, <2>5, <2>7
    <3> HIDE DEF a
    <3>02. u \in 1 .. (e - p) /\ p + u - 1 = a + i - 1
      BY <3>01, <1>1
    <3>1. u \in 1 .. (e - p) /\ p + u - 1 = st[j] + i - 1
      BY <3>02 DEF a
    <3>2. b2[u] = bs[st[j] + i - 1]
      BY <3>1, <1>7
    <3>3. bs[st[j] + i - 1] = uint_tobytes(num, len)[i]
      BY <2>7 DEF BytesAt
    <3>4. u \in DOMAIN b2
      BY <3>1, <1>8
    <3>5. QED BY <3>2, <3>3, <3>4
  <2>9. BytesAt(b2, s2[j], num, len)
    BY <2>8 DEF BytesAt
  <2>10. QED BY <2>6, <2>9 DEF num, len
<1>15. Placed(b2, 1, fs, e - p + 1, s2)
  <2>1. \A j \in 1 .. n + 1 : 1 =< s2[j] /\ s2[j] =< e - p + 1
    BY <1>11, <1>12
  <2>2. QED BY <2>1, <1>9, <1>12, <1>13, <1>14 DEF Placed
<1>16. e - p + 1 \in Nat /\ 1 =< e - p + 1 /\ e - p + 1 =< Len(b2) + 1
  BY <1>1, <1>8
<1>17. Holds(b2, 1, fs, e - p + 1)
  BY <1>1, <1>8, <1>15, <1>16 DEF Holds
<1>18. QED
  BY <1>8, <1>17 DEF b2

\* What Flush appends holds its fields.
LEMMA WrittenIsHeld ==
  ASSUME NEW bs \in Seq(Byte), NEW fs \in Seq(FieldSet), AllFit(fs)
  PROVE  /\ Bytes(fs) \in Seq(Byte)
         /\ Holds(bs \o Bytes(fs), Len(bs) + 1, fs, Len(bs \o Bytes(fs)) + 1)
<1> DEFINE ss == [j \in DOMAIN fs |-> uint_tobytes(fs[j][1], fs[j][2])]
<1> DEFINE n == Len(fs)
<1>1. n \in Nat /\ DOMAIN fs = 1 .. n /\ n = Len(fs)
  OBVIOUS
<1> HIDE DEF n
<1>2. \A j \in 1 .. n : fs[j][1] \in Nat /\ fs[j][2] \in 0 .. 4 /\ fs[j][2] \in Nat
  <2> TAKE j \in 1 .. n
  <2>1. fs[j] \in FieldSet
    BY <1>1, ElementOfSeq
  <2>2. QED BY <2>1, FieldParts
<1>3. \A j \in 1 .. n : /\ ss[j] = uint_tobytes(fs[j][1], fs[j][2])
                        /\ ss[j] \in Seq(Byte) /\ Len(ss[j]) = fs[j][2]
  BY <1>1, <1>2, ToBytesIs
<1>4. ss \in [1 .. n -> Seq(Byte)]
  BY <1>1, <1>3
<1>5. Bytes(fs) = Concat(ss)
  BY DEF Bytes
<1> HIDE DEF ss
<1>6. ss \in Seq(Seq(Byte)) /\ Len(ss) = n
  BY <1>1, <1>4, FunctionIsSeq
<1> DEFINE new == Bytes(fs)
<1>7. PICK q : Laid(Byte, ss, n, new, q)
  BY <1>5, <1>6, ConcatLays
<1> HIDE DEF new
<1>8. /\ new \in Seq(Byte) /\ q \in [1 .. n + 1 -> Nat] /\ q[1] = 0 /\ q[n + 1] = Len(new)
      /\ \A k \in 1 .. n + 1 : q[k] \in Nat /\ q[k] =< Len(new)
      /\ \A k \in 1 .. n : q[k + 1] = q[k] + Len(ss[k])
      /\ \A k \in 1 .. n : \A i \in 1 .. Len(ss[k]) : new[q[k] + i] = ss[k][i]
  BY <1>7 DEF Laid
<1> DEFINE b2 == bs \o new
<1>9. /\ b2 \in Seq(Byte) /\ Len(b2) = Len(bs) + Len(new) /\ DOMAIN b2 = 1 .. Len(b2)
      /\ Len(bs) \in Nat /\ Len(new) \in Nat
      /\ \A i \in 1 .. Len(new) : b2[Len(bs) + i] = new[i]
  BY <1>8
<1> HIDE DEF b2
<1> DEFINE l == Len(bs)
<1> DEFINE st == [j \in 1 .. n + 1 |-> l + 1 + q[j]]
<1>10. \A j \in 1 .. n + 1 : /\ l + 1 + q[j] \in Nat /\ l + 1 =< l + 1 + q[j]
                             /\ l + 1 + q[j] =< Len(b2) + 1
  <2> TAKE j \in 1 .. n + 1
  <2>1. q[j] \in Nat /\ q[j] =< Len(new) /\ l \in Nat /\ Len(new) \in Nat /\ Len(b2) = l + Len(new)
    BY <1>8, <1>9
  <2> HIDE DEF l
  <2>2. QED BY <2>1
<1>11. st \in [1 .. n + 1 -> Nat] /\ \A j \in 1 .. n + 1 : st[j] = l + 1 + q[j]
  BY <1>10
<1>12. l \in Nat /\ l = Len(bs)
  BY <1>9
<1> HIDE DEF st, l
<1>13. st[1] = l + 1 /\ st[n + 1] = Len(b2) + 1
  <2>1. 1 \in 1 .. n + 1 /\ n + 1 \in 1 .. n + 1
    BY <1>1
  <2>2. st[1] = l + 1 + 0 /\ st[n + 1] = l + 1 + Len(new)
    BY <2>1, <1>8, <1>11
  <2>3. QED BY <2>2, <1>9, <1>12
<1>14. ASSUME NEW j \in 1 .. n
       PROVE  st[j + 1] = st[j] + fs[j][2] /\ BytesAt(b2, st[j], fs[j][1], fs[j][2])
  <2>1. j \in 1 .. n + 1 /\ j + 1 \in 1 .. n + 1
    BY <1>1
  <2> DEFINE a == q[j]
  <2> DEFINE len == fs[j][2]
  <2>2. /\ st[j] = l + 1 + a /\ st[j + 1] = l + 1 + (a + len)
        /\ a \in Nat /\ len \in 0 .. 4 /\ a + len =< Len(new)
    <3>1. q[j + 1] = q[j] + fs[j][2] /\ q[j + 1] =< Len(new)
      BY <2>1, <1>3, <1>8
    <3>2. QED BY <2>1, <3>1, <1>2, <1>8, <1>11
  <2>3. \A i \in 1 .. len : new[a + i] = uint_tobytes(fs[j][1], len)[i]
    BY <1>3, <1>8
  <2>4. ASSUME NEW i \in 1 .. len
        PROVE  st[j] + i - 1 \in DOMAIN b2 /\ b2[st[j] + i - 1] = uint_tobytes(fs[j][1], len)[i]
    <3> HIDE DEF a, len
    <3>1. a + i \in 1 .. Len(new) /\ st[j] + i - 1 = l + (a + i)
      BY <2>2, <1>9, <1>12
    <3>2. st[j] + i - 1 \in DOMAIN b2
      BY <3>1, <1>9, <1>12
    <3>3. b2[l + (a + i)] = new[a + i]
      BY <3>1, <1>9, <1>12
    <3>4. QED BY <3>1, <3>2, <3>3, <2>3
  <2>5. st[j + 1] = st[j] + len
    <3> HIDE DEF a, len
    <3> QED BY <2>2, <1>12
  <2>6. QED BY <2>4, <2>5 DEF BytesAt
<1>15. Placed(b2, l + 1, fs, Len(b2) + 1, st)
  <2>1. \A j \in 1 .. n + 1 : l + 1 =< st[j] /\ st[j] =< Len(b2) + 1
    BY <1>10, <1>11
  <2>2. QED BY <2>1, <1>1, <1>11, <1>13, <1>14 DEF Placed
<1>16. l + 1 \in Nat /\ Len(b2) + 1 \in Nat /\ 1 =< l + 1 /\ l + 1 =< Len(b2) + 1 /\ Len(b2) + 1 =< Len(b2) + 1
  BY <1>9, <1>12
<1>17. Holds(b2, l + 1, fs, Len(b2) + 1)
  BY <1>9, <1>15, <1>16 DEF Holds
<1>18. QED
  BY <1>8, <1>12, <1>17 DEF b2, new

\* The same fields take the same room wherever they are.
LEMMA RoomIsSame ==
  ASSUME NEW bs, NEW p, NEW e, NEW b2, NEW p2, NEW e2, NEW fs,
         Holds(bs, p, fs, e), Holds(b2, p2, fs, e2)
  PROVE  e - p = e2 - p2
<1> DEFINE n == Len(fs)
<1>1. fs \in Seq(FieldSet) /\ p \in Nat /\ e \in Nat /\ p2 \in Nat /\ e2 \in Nat
  BY DEF Holds
<1>2. n \in Nat /\ n = Len(fs) /\ \A j \in 1 .. n : fs[j][2] \in Nat
  <2>1. \A j \in 1 .. Len(fs) : fs[j] \in FieldSet
    BY <1>1, ElementOfSeq
  <2>2. QED BY <1>1, <2>1, FieldParts
<1>3. PICK st : Placed(bs, p, fs, e, st)
  BY DEF Holds
<1>4. PICK s2 : Placed(b2, p2, fs, e2, s2)
  BY DEF Holds
<1> HIDE DEF n
<1>5. /\ st \in [1 .. n + 1 -> Nat] /\ st[1] = p /\ st[n + 1] = e
      /\ \A j \in 1 .. n : st[j + 1] = st[j] + fs[j][2]
  BY <1>2, <1>3 DEF Placed
<1>6. /\ s2 \in [1 .. n + 1 -> Nat] /\ s2[1] = p2 /\ s2[n + 1] = e2
      /\ \A j \in 1 .. n : s2[j + 1] = s2[j] + fs[j][2]
  BY <1>2, <1>4 DEF Placed
<1> DEFINE Y == {j \in 1 .. n + 1 : st[j] + p2 = s2[j] + p}
<1>7. 1 \in Y
  BY <1>1, <1>2, <1>5, <1>6
<1> DEFINE top == n + 1
<1>8. ASSUME NEW j \in 1 .. top - 1, j \in Y PROVE j + 1 \in Y
  <2>1. j \in 1 .. n /\ j + 1 \in 1 .. n + 1 /\ j \in 1 .. n + 1
    BY <1>2
  <2> DEFINE a == st[j]
  <2> DEFINE b == s2[j]
  <2> DEFINE w == fs[j][2]
  <2>2. /\ a \in Nat /\ b \in Nat /\ w \in Nat /\ a + p2 = b + p
        /\ st[j + 1] = a + w /\ s2[j + 1] = b + w
    BY <1>2, <1>5, <1>6, <1>8, <2>1
  <2> HIDE DEF a, b, w
  <2>3. st[j + 1] + p2 = s2[j + 1] + p
    BY <2>2, <1>1
  <2>4. QED BY <2>1, <2>3
<1>9. top \in Int /\ top \in 1 .. top
  BY <1>2
<1> HIDE DEF Y, top
<1>10. \A j \in 1 .. top : j \in Y
  BY <1>7, <1>8, <1>9, RangeInduction
<1>11. e + p2 = e2 + p
  BY <1>5, <1>6, <1>9, <1>10 DEF Y, top
<1>12. QED
  BY <1>1, <1>11

\* The room fields take is the number of their bytes.
LEMMA RoomIsLength ==
  ASSUME NEW bs, NEW p, NEW fs, NEW e, Holds(bs, p, fs, e)
  PROVE  Len(Bytes(fs)) = e - p /\ Len(Bytes(fs)) \in Nat
<1>1. fs \in Seq(FieldSet) /\ AllFit(fs) /\ p \in Nat /\ e \in Nat /\ p =< e
  BY DEF Holds
<1> DEFINE b2 == <<>> \o Bytes(fs)
<1>2. <<>> \in Seq(Byte) /\ Len(<<>>) = 0
  OBVIOUS
<1>3. Bytes(fs) \in Seq(Byte) /\ Holds(b2, Len(<<>>) + 1, fs, Len(b2) + 1)
  BY <1>1, <1>2, WrittenIsHeld
<1>4. b2 = Bytes(fs)
  BY <1>3
<1> HIDE DEF b2
<1>5. Holds(b2, 0 + 1, fs, Len(b2) + 1)
  BY <1>2, <1>3
<1>6. e - p = (Len(b2) + 1) - (0 + 1)
  BY <1>5, RoomIsSame
<1>7. Len(b2) \in Nat
  BY <1>3, <1>4
<1>8. QED
  BY <1>1, <1>4, <1>6, <1>7

-----------------------------------------------------------------------------
(***************************************************************************)
(* The lists of fields that serialize() writes, as they are read.          *)
(***************************************************************************)
Given == config \in Configs /\ se \in Configs /\ prog \in Programs(config)

\* The widths of cells, of outputs, of registers and of constants.
WM == lb(prog.memory_count)
WO == lb(config.l_out)
WR == lb(config.r)
WC == config.word_size \div 8

\* Writer and host compute the same widths, of one to four bytes.
LEMMA WidthsGiven ==
  ASSUME Given
  PROVE  /\ WM \in 1 .. 4 /\ WO \in 1 .. 4 /\ WR \in 1 .. 4 /\ WC \in 0 .. 4
         /\ host_lb(prog.memory_count) = WM /\ host_lb(config.l_out) = WO /\ host_lb(config.r) = WR
<1>1. Measured(prog.memory_count) /\ Measured(config.l_out) /\ Measured(config.r)
  BY ConfigsAssumption, ProgramsAssumption DEF Given
<1>2. config.word_size \in Nat /\ config.word_size \div 8 =< 4
  BY ConfigsAssumption DEF Given
<1>3. WC \in 0 .. 4
  BY <1>2 DEF WC
<1>4. QED
  BY <1>1, <1>3, WidthsAgree DEF WM, WO, WR

\* What the assumptions say of the program.
LEMMA ProgramGiven ==
  ASSUME Given
  PROVE  /\ prog.memory_count \in Nat
         /\ prog.inputs \in Seq(Nat) /\ prog.outputs \in Seq(Nat) /\ prog.llmis \in Seq(LLMI)
         /\ Len(prog.llmis) \in Nat
<1>1. Measured(prog.memory_count)
  BY ProgramsAssumption DEF Given
<1>2. prog.memory_count \in Nat
  BY <1>1, Pow2Is DEF Measured
<1>3. prog.inputs \in Seq(Nat) /\ prog.outputs \in Seq(Nat) /\ prog.llmis \in Seq(LLMI)
  BY ProgramsAssumption DEF Given
<1>4. QED
  BY <1>2, <1>3

\* What the assumptions say of its LLMIs.
LEMMA LLMIGiven ==
  ASSUME Given, NEW k \in 1 .. Len(prog.llmis)
  PROVE  LET mi == prog.llmis[k] IN
         /\ mi = [inputs |-> mi.inputs, outputs |-> mi.outputs, instrID |-> mi.instrID,
                  reveal_flag |-> mi.reveal_flag, inputIDs |-> mi.inputIDs, seq |-> mi.seq]
         /\ mi.inputs \in Seq(Nat) /\ mi.outputs \in Seq(Nat) /\ mi.instrID \in Nat
         /\ mi.reveal_flag \in Nat /\ mi.inputIDs \in Seq(Nat \X Nat) /\ mi.seq \in Seq(LLI)
         /\ Len(mi.inputIDs) = Len(mi.inputs)
         /\ Len(mi.seq) =< config.s
         /\ \A j \in 1 .. Len(mi.seq) : Kinds(mi.seq[j]) \in Range(OperandCode)
<1> DEFINE mi == prog.llmis[k]
<1>1. prog.llmis \in Seq(LLMI)
  BY ProgramGiven
<1>2. mi \in LLMI /\ k \in DOMAIN prog.llmis
  BY <1>1, ElementOfSeq
<1>3. /\ Len(mi.inputIDs) = Len(mi.inputs) /\ Len(mi.seq) =< config.s
      /\ \A j \in DOMAIN mi.seq : Kinds(mi.seq[j]) \in Range(OperandCode)
  BY <1>2, ProgramsAssumption DEF Given
<1> HIDE DEF mi
<1>4. /\ mi = [inputs |-> mi.inputs, outputs |-> mi.outputs, instrID |-> mi.instrID,
               reveal_flag |-> mi.reveal_flag, inputIDs |-> mi.inputIDs, seq |-> mi.seq]
      /\ mi.inputs \in Seq(Nat) /\ mi.outputs \in Seq(Nat) /\ mi.instrID \in Nat
      /\ mi.reveal_flag \in Nat /\ mi.inputIDs \in Seq(Nat \X Nat) /\ mi.seq \in Seq(LLI)
  BY <1>2 DEF LLMI
<1>5. DOMAIN mi.seq = 1 .. Len(mi.seq)
  BY <1>4
<1>6. QED
  BY <1>3, <1>4, <1>5 DEF mi

\* Lists of numbers of one width are lists of fields.
LEMMA ListIsFields ==
  ASSUME NEW v \in Seq(Nat), NEW w \in 0 .. 4
  PROVE  [j \in DOMAIN v |-> Field(v[j], w)] \in Seq(FieldSet)
<1>1. DOMAIN v = 1 .. Len(v) /\ Len(v) \in Nat /\ \A j \in 1 .. Len(v) : v[j] \in Nat
  OBVIOUS
<1>2. \A j \in 1 .. Len(v) : Field(v[j], w) \in FieldSet
  BY <1>1 DEF Field, FieldSet
<1>3. [j \in DOMAIN v |-> Field(v[j], w)] \in [1 .. Len(v) -> FieldSet]
  BY <1>1, <1>2
<1>4. QED
  BY <1>1, <1>3, FunctionIsSeq

\* A number that has a width is a field.
LEMMA OneIsFields ==
  ASSUME NEW n \in Nat, NEW w \in 0 .. 4
  PROVE  <<Field(n, w)>> \in Seq(FieldSet) /\ Field(n, w) \in FieldSet
  BY DEF Field, FieldSet

\* A list of cells is its length and the cells, of one width.
LEMMA CellsAreFields ==
  ASSUME Given, NEW cells \in Seq(Nat)
  PROVE  /\ CellFields(cells, WM) \in Seq(FieldSet)
         /\ CellFields(cells, WM) = <<Field(Len(cells), WM)>> \o [j \in DOMAIN cells |-> Field(cells[j], WM)]
<1>1. CellFields(cells, WM) = <<Field(Len(cells), WM)>> \o [j \in DOMAIN cells |-> Field(cells[j], WM)]
  BY DEF CellFields
<1>2. WM \in 0 .. 4 /\ Len(cells) \in Nat
  BY WidthsGiven
<1>3. [j \in DOMAIN cells |-> Field(cells[j], WM)] \in Seq(FieldSet)
  BY <1>2, ListIsFields
<1>4. <<Field(Len(cells), WM)>> \in Seq(FieldSet)
  BY <1>2, OneIsFields
<1>5. QED
  BY <1>1, <1>3, <1>4, ConcatProperties

\* The list of cells that is read, and where it ends.
ReadsCells(bs, p, cells, e) ==
  /\ BigEndian(bs, p, WM) = Len(cells)
  /\ [j \in 1 .. Len(cells) |-> BigEndian(bs, p + WM + (j - 1) * WM, WM)] = cells
  /\ e = p + (Len(cells) + 1) * WM

\* A list of cells is read as it was written.
LEMMA CellsAreRead ==
  ASSUME Given, NEW cells \in Seq(Nat), NEW bs, NEW p, NEW e, Holds(bs, p, CellFields(cells, WM), e)
  PROVE  ReadsCells(bs, p, cells, e)
<1> DEFINE l == Len(cells)
<1> DEFINE tl == [j \in DOMAIN cells |-> Field(cells[j], WM)]
<1>1. WM \in 0 .. 4 /\ WM \in Nat /\ l \in Nat
  BY WidthsGiven
<1>2. tl \in Seq(FieldSet)
  BY <1>1, ListIsFields
<1>3. <<Field(l, WM)>> \in Seq(FieldSet)
  BY <1>1, OneIsFields
<1>4. Holds(bs, p, <<Field(l, WM)>> \o tl, e)
  BY CellsAreFields
<1> DEFINE hd == <<Field(l, WM)>>
<1>5. PICK m \in Nat : Holds(bs, p, hd, m) /\ Holds(bs, m, tl, e)
  <2>1. hd \in Seq(FieldSet) /\ Holds(bs, p, hd \o tl, e)
    BY <1>3, <1>4
  <2> HIDE DEF hd, tl
  <2>2. QED BY <1>2, <2>1, HeldInTurn
<1>6. BigEndian(bs, p, WM) = l /\ m = p + WM /\ p \in Nat
  <2>1. Holds(bs, p, <<Field(l, WM)>>, m)
    BY <1>5
  <2> HIDE DEF l
  <2>2. QED BY <2>1, FieldIsRead
<1>7. e = m + l * WM /\ \A j \in 1 .. l : BigEndian(bs, m + (j - 1) * WM, WM) = cells[j]
  BY <1>1, <1>5, ListIsRead
<1>8. [j \in 1 .. l |-> BigEndian(bs, p + WM + (j - 1) * WM, WM)] = cells
  <2>1. \A j \in 1 .. l : BigEndian(bs, p + WM + (j - 1) * WM, WM) = cells[j]
    BY <1>6, <1>7
  <2>2. cells = [j \in 1 .. l |-> cells[j]]
    OBVIOUS
  <2> HIDE DEF l
  <2>3. QED BY <2>1, <2>2
<1>9. e = p + (l + 1) * WM
  <2> HIDE DEF l
  <2>1. (l + 1) * WM = WM + l * WM
    BY <1>1
  <2>2. l * WM \in Nat
    BY <1>1
  <2>3. QED BY <1>1, <1>6, <1>7, <2>1, <2>2
<1>10. QED
  BY <1>6, <1>8, <1>9 DEF ReadsCells

\* Two fields in a row.
Two(n1, w1, n2, w2) == <<Field(n1, w1), Field(n2, w2)>>
\* They are found from p to e.
TwoRead(bs, p, n1, w1, n2, w2, e) ==
  /\ BigEndian(bs, p, w1) = n1 /\ BigEndian(bs, p + w1, w2) = n2
  /\ e = p + w1 + w2 /\ p \in Nat

\* Both are read, one after the other.
LEMMA TwoAreRead ==
  ASSUME NEW bs, NEW p, NEW n1 \in Nat, NEW w1 \in 0 .. 4, NEW n2 \in Nat, NEW w2 \in 0 .. 4, NEW e,
         Holds(bs, p, Two(n1, w1, n2, w2), e)
  PROVE  TwoRead(bs, p, n1, w1, n2, w2, e)
<1> DEFINE a == <<Field(n1, w1)>>
<1> DEFINE b == <<Field(n2, w2)>>
<1>1. a \in Seq(FieldSet) /\ b \in Seq(FieldSet)
  BY OneIsFields
<1>2. a \o b = <<Field(n1, w1), Field(n2, w2)>>
  <2> DEFINE f1 == Field(n1, w1)
  <2> DEFINE f2 == Field(n2, w2)
  <2>0. f1 \in FieldSet /\ f2 \in FieldSet
    BY OneIsFields
  <2> HIDE DEF f1, f2
  <2>1. <<f1>> \o <<f2>> = <<f1, f2>>
    <3>1. <<f1>> \in Seq(FieldSet) /\ <<f2>> \in Seq(FieldSet) /\ <<f1, f2>> \in Seq(FieldSet)
      BY <2>0
    <3>2. /\ <<f1>> \o <<f2>> \in Seq(FieldSet) /\ Len(<<f1>> \o <<f2>>) = 2
          /\ (<<f1>> \o <<f2>>)[1] = f1 /\ (<<f1>> \o <<f2>>)[2] = f2
      BY <3>1, ConcatProperties
    <3>3. \A i \in 1 .. 2 : (<<f1>> \o <<f2>>)[i] = <<f1, f2>>[i]
      BY <3>2
    <3>4. QED BY <3>1, <3>2, <3>3, SeqEqual
  <2>2. QED BY <2>1 DEF f1, f2
<1>3. Holds(bs, p, a \o b, e)
  BY <1>2 DEF Two
<1> HIDE DEF a, b
<1>4. PICK m \in Nat : Holds(bs, p, a, m) /\ Holds(bs, m, b, e)
  BY <1>1, <1>3, HeldInTurn
<1>5. BigEndian(bs, p, w1) = n1 /\ m = p + w1 /\ p \in Nat
  BY <1>4, FieldIsRead DEF a
<1>6. BigEndian(bs, m, w2) = n2 /\ e = m + w2
  BY <1>4, FieldIsRead DEF b
<1>7. QED
  BY <1>5, <1>6 DEF TwoRead

\* Two numbers that have widths are fields.
LEMMA TwoAreFields ==
  ASSUME NEW n1 \in Nat, NEW w1 \in 0 .. 4, NEW n2 \in Nat, NEW w2 \in 0 .. 4
  PROVE  <<Field(n1, w1), Field(n2, w2)>> \in Seq(FieldSet)
  BY DEF Field, FieldSet

\* The metadata are six numbers.
LEMMA MetadataGiven ==
  ASSUME NEW c \in Configs
  PROVE  Metadata(c) \in Seq(Nat) /\ Len(Metadata(c)) = 6 /\ DOMAIN Metadata(c) = 1 .. 6
<1>1. /\ c.l_in \in Nat /\ c.l_out \in Nat /\ c.r \in Nat /\ c.s \in Nat /\ c.word_size \in Nat
  BY ConfigsAssumption
<1>2. VERSION \in Nat
  BY DEF VERSION
<1>3. QED
  BY <1>1, <1>2 DEF Metadata

\* So many zeros, one byte each.
Zeros(n) == [j \in 1 .. n |-> 0]

\* They stand for what encryption adds.
LEMMA ZerosAreFields ==
  ASSUME NEW n \in Nat
  PROVE  /\ Zeros(n) \in Seq(Nat) /\ Len(Zeros(n)) = n
         /\ [j \in 1 .. n |-> Field(0, 1)] = [j \in DOMAIN Zeros(n) |-> Field(Zeros(n)[j], 1)]
         /\ [j \in 1 .. n |-> Field(0, 1)] \in Seq(FieldSet)
<1>1. Zeros(n) \in [1 .. n -> Nat]
  BY DEF Zeros
<1>2. Zeros(n) \in Seq(Nat) /\ Len(Zeros(n)) = n
  BY <1>1, FunctionIsSeq
<1>3. [j \in 1 .. n |-> Field(0, 1)] = [j \in DOMAIN Zeros(n) |-> Field(Zeros(n)[j], 1)]
  BY DEF Zeros
<1>4. [j \in 1 .. n |-> Field(0, 1)] \in Seq(FieldSet)
  <2>1. [j \in DOMAIN Zeros(n) |-> Field(Zeros(n)[j], 1)] \in Seq(FieldSet)
    <3> DEFINE z == Zeros(n)
    <3>1. z \in Seq(Nat) /\ 1 \in 0 .. 4
      BY <1>2
    <3> HIDE DEF z
    <3>2. [j \in DOMAIN z |-> Field(z[j], 1)] \in Seq(FieldSet)
      BY <3>1, ListIsFields
    <3>3. QED BY <3>2 DEF z
  <2>2. QED BY <1>3, <2>1
<1>5. QED
  BY <1>2, <1>3, <1>4

\* They take as many bytes as there are.
LEMMA ZerosTakeRoom ==
  ASSUME NEW n \in Nat, NEW bs, NEW p, NEW e, Holds(bs, p, [j \in 1 .. n |-> Field(0, 1)], e)
  PROVE  e = p + n
<1>1. Zeros(n) \in Seq(Nat) /\ Len(Zeros(n)) = n
  BY ZerosAreFields
<1>2. Holds(bs, p, [j \in DOMAIN Zeros(n) |-> Field(Zeros(n)[j], 1)], e)
  BY ZerosAreFields
<1>3. p \in Nat
  BY DEF Holds
<1>4. e = p + Len(Zeros(n)) * 1
  <2> DEFINE z == Zeros(n)
  <2> DEFINE one == 1
  <2>1. z \in Seq(Nat) /\ one \in 0 .. 4 /\ Holds(bs, p, [j \in DOMAIN z |-> Field(z[j], one)], e)
    BY <1>1, <1>2
  <2> HIDE DEF z, one
  <2>2. e = p + Len(z) * one
    BY ONLY <2>1, ListIsRead, Zenon
  <2>3. QED BY <2>2 DEF z, one
<1>5. QED
  BY <1>1, <1>3, <1>4

\* What the header tells its reader.
HeaderRead(bs, e) ==
  /\ [j \in 1 .. 6 |-> BigEndian(bs, 1 + (j - 1) * U32, U32)] = Metadata(config)
  /\ BigEndian(bs, 1 + 6 * U32, U32) = prog.memory_count
  /\ \E p2, p3 : /\ ReadsCells(bs, 1 + 7 * U32 + CT, prog.inputs, p2)
                 /\ ReadsCells(bs, p2, prog.outputs, p3)
                 /\ BigEndian(bs, p3, U32) = Len(prog.llmis)
                 /\ e = p3 + U32

\* The parts of the header.
MetaFields == [j \in DOMAIN Metadata(config) |-> Field(Metadata(config)[j], U32)]
CountField == <<Field(prog.memory_count, U32)>>
InputFields == CellFields(prog.inputs, WM)
OutputFields == CellFields(prog.outputs, WM)
LLMICount == <<Field(Len(prog.llmis), U32)>>

\* The header is a list of fields, in these six parts.
LEMMA HeaderIsFields ==
  ASSUME Given
  PROVE  /\ MetaFields \in Seq(FieldSet) /\ CountField \in Seq(FieldSet) /\ Sealed \in Seq(FieldSet)
         /\ InputFields \in Seq(FieldSet) /\ OutputFields \in Seq(FieldSet) /\ LLMICount \in Seq(FieldSet)
         /\ HeaderFields(config, prog) = MetaFields \o CountField \o Sealed \o InputFields \o OutputFields \o LLMICount
         /\ HeaderFields(config, prog) \in Seq(FieldSet)
<1>1. U32 \in 0 .. 4 /\ CT \in Nat
  BY DEF U32, CT
<1>2. MetaFields \in Seq(FieldSet)
  <2>1. config \in Configs
    BY DEF Given
  <2>2. Metadata(config) \in Seq(Nat)
    BY <2>1, MetadataGiven
  <2>3. QED BY <1>1, <2>2, ListIsFields DEF MetaFields
<1>3. CountField \in Seq(FieldSet) /\ LLMICount \in Seq(FieldSet)
  BY <1>1, ProgramGiven, OneIsFields DEF CountField, LLMICount
<1>4. Sealed \in Seq(FieldSet)
  BY <1>1, ZerosAreFields DEF Sealed
<1>5. InputFields \in Seq(FieldSet) /\ OutputFields \in Seq(FieldSet)
  BY ProgramGiven, CellsAreFields DEF InputFields, OutputFields
<1>6. HeaderFields(config, prog) = MetaFields \o CountField \o Sealed \o InputFields \o OutputFields \o LLMICount
  BY DEF HeaderFields, MetaFields, CountField, InputFields, OutputFields, LLMICount, WM
<1>7. MetaFields \o CountField \o Sealed \o InputFields \o OutputFields \o LLMICount \in Seq(FieldSet)
  BY <1>2, <1>3, <1>4, <1>5
<1>8. QED
  BY <1>2, <1>3, <1>4, <1>5, <1>6, <1>7

\* The header is read as it was written: peeled from the right, as the parts
\* before it say where each of them starts.
LEMMA HeaderIsRead ==
  ASSUME Given, NEW bs, NEW e, Holds(bs, 1, HeaderFields(config, prog), e)
  PROVE  HeaderRead(bs, e)
<1>1. Holds(bs, 1, (MetaFields \o CountField \o Sealed \o InputFields \o OutputFields) \o LLMICount, e)
  BY HeaderIsFields
<1>2. /\ MetaFields \o CountField \in Seq(FieldSet) /\ MetaFields \o CountField \o Sealed \in Seq(FieldSet)
      /\ MetaFields \o CountField \o Sealed \o InputFields \in Seq(FieldSet)
      /\ MetaFields \o CountField \o Sealed \o InputFields \o OutputFields \in Seq(FieldSet)
  BY HeaderIsFields
<1>3. PICK p3 \in Nat : Holds(bs, 1, MetaFields \o CountField \o Sealed \o InputFields \o OutputFields, p3) /\ Holds(bs, p3, LLMICount, e)
  BY <1>1, <1>2, HeaderIsFields, HeldInTurn
<1>4. PICK p2 \in Nat : Holds(bs, 1, MetaFields \o CountField \o Sealed \o InputFields, p2) /\ Holds(bs, p2, OutputFields, p3)
  BY <1>2, <1>3, HeaderIsFields, HeldInTurn
<1>5. PICK p1 \in Nat : Holds(bs, 1, MetaFields \o CountField \o Sealed, p1) /\ Holds(bs, p1, InputFields, p2)
  BY <1>2, <1>4, HeaderIsFields, HeldInTurn
<1>6. PICK q2 \in Nat : Holds(bs, 1, MetaFields \o CountField, q2) /\ Holds(bs, q2, Sealed, p1)
  BY <1>2, <1>5, HeaderIsFields, HeldInTurn
<1>7. PICK q1 \in Nat : Holds(bs, 1, MetaFields, q1) /\ Holds(bs, q1, CountField, q2)
  BY <1>2, <1>6, HeaderIsFields, HeldInTurn
<1>8. /\ q1 = 1 + 6 * U32
      /\ [j \in 1 .. 6 |-> BigEndian(bs, 1 + (j - 1) * U32, U32)] = Metadata(config)
  <2>1. Metadata(config) \in Seq(Nat) /\ Len(Metadata(config)) = 6
    BY MetadataGiven DEF Given
  <2> DEFINE v == Metadata(config)
  <2>2. v \in Seq(Nat) /\ Len(v) = 6 /\ Holds(bs, 1, [j \in DOMAIN v |-> Field(v[j], U32)], q1)
    BY <1>7, <2>1 DEF MetaFields
  <2>3. U32 \in 0 .. 4
    BY DEF U32
  <2> DEFINE one == 1
  <2> HIDE DEF v
  <2>4. q1 = one + Len(v) * U32 /\ \A j \in 1 .. Len(v) : BigEndian(bs, one + (j - 1) * U32, U32) = v[j]
    <3>1. v \in Seq(Nat) /\ Holds(bs, one, [j \in DOMAIN v |-> Field(v[j], U32)], q1)
      BY <2>2
    <3> HIDE DEF one
    <3>2. QED BY ONLY <2>3, <3>1, ListIsRead
  <2>5. v = [j \in 1 .. Len(v) |-> v[j]]
    BY <2>2
  <2> HIDE DEF one
  <2>6. one = 1 /\ [j \in 1 .. 6 |-> BigEndian(bs, one + (j - 1) * U32, U32)] = v
    BY <2>2, <2>4, <2>5 DEF one
  <2>7. QED BY <2>2, <2>4, <2>6 DEF v, one
<1>9. BigEndian(bs, q1, U32) = prog.memory_count /\ q2 = q1 + U32
  <2> DEFINE mc == prog.memory_count
  <2>1. Holds(bs, q1, <<Field(mc, U32)>>, q2)
    BY <1>7 DEF CountField
  <2> HIDE DEF mc
  <2>2. BigEndian(bs, q1, U32) = mc /\ q2 = q1 + U32
    BY <2>1, FieldIsRead
  <2>3. QED BY <2>2 DEF mc
<1>10. p1 = q2 + CT
  <2>1. Holds(bs, q2, [j \in 1 .. CT |-> Field(0, 1)], p1) /\ CT \in Nat
    BY <1>6 DEF Sealed, CT
  <2>2. QED BY <2>1, ZerosTakeRoom
<1>11. p1 = 1 + 7 * U32 + CT
  BY <1>8, <1>9, <1>10 DEF U32, CT
<1>12. ReadsCells(bs, p1, prog.inputs, p2) /\ ReadsCells(bs, p2, prog.outputs, p3)
  BY <1>4, <1>5, ProgramGiven, CellsAreRead DEF InputFields, OutputFields
<1>13. BigEndian(bs, p3, U32) = Len(prog.llmis) /\ e = p3 + U32
  <2> DEFINE count == Len(prog.llmis)
  <2>1. Holds(bs, p3, <<Field(count, U32)>>, e)
    BY <1>3 DEF LLMICount
  <2> HIDE DEF count
  <2>2. BigEndian(bs, p3, U32) = count /\ e = p3 + U32
    BY <2>1, FieldIsRead
  <2>3. QED BY <2>2 DEF count
<1>14. QED
  BY <1>8, <1>9, <1>11, <1>12, <1>13 DEF HeaderRead

-----------------------------------------------------------------------------
(***************************************************************************)
(* Snippets, as they are taken apart.                                      *)
(***************************************************************************)
\* The width of an operand.
OperandWidth(kind) == IF kind = "R" THEN WR ELSE WC

\* An LLI whose operands have a code.
Coded(lli) == lli \in LLI /\ Kinds(lli) \in Range(OperandCode)

\* The parts of an LLI.
LEMMA LLIParts ==
  ASSUME NEW lli \in LLI
  PROVE  /\ lli = [op |-> lli.op, dst |-> lli.dst, src |-> lli.src]
         /\ lli.op \in DOMAIN Opcode /\ lli.dst \in Nat
         /\ lli.src \in Seq([kind : {"I", "R"}, v : Nat])
         /\ Len(lli.src) \in Nat /\ DOMAIN lli.src = 1 .. Len(lli.src)
         /\ \A j \in 1 .. Len(lli.src) :
              /\ lli.src[j] = [kind |-> lli.src[j].kind, v |-> lli.src[j].v]
              /\ lli.src[j].v \in Nat /\ lli.src[j].kind \in {"I", "R"}
         /\ Kinds(lli) = [j \in 1 .. Len(lli.src) |-> lli.src[j].kind]
         /\ Len(Kinds(lli)) = Len(lli.src)
<1>1. /\ lli = [op |-> lli.op, dst |-> lli.dst, src |-> lli.src]
      /\ lli.op \in DOMAIN Opcode /\ lli.dst \in Nat
      /\ lli.src \in Seq([kind : {"I", "R"}, v : Nat])
  BY DEF LLI
<1> DEFINE s == lli.src
<1> DEFINE n == Len(s)
<1>2. n \in Nat /\ DOMAIN s = 1 .. n
  BY <1>1
<1>3. ASSUME NEW j \in 1 .. n
      PROVE  /\ s[j] = [kind |-> s[j].kind, v |-> s[j].v]
             /\ s[j].v \in Nat /\ s[j].kind \in {"I", "R"}
  <2>1. s[j] \in [kind : {"I", "R"}, v : Nat]
    BY <1>1, ElementOfSeq
  <2> DEFINE x == s[j]
  <2> HIDE DEF x
  <2>2. x \in [kind : {"I", "R"}, v : Nat]
    BY <2>1 DEF x
  <2>3. x = [kind |-> x.kind, v |-> x.v] /\ x.v \in Nat /\ x.kind \in {"I", "R"}
    BY <2>2
  <2>4. QED BY <2>3 DEF x
<1>4. Kinds(lli) = [j \in 1 .. n |-> s[j].kind]
  BY <1>2 DEF Kinds
<1>5. Len(Kinds(lli)) = n
  BY <1>2, <1>4
<1>6. QED
  BY <1>1, <1>2, <1>3, <1>4, <1>5

\* The numbers of the opcodes differ, and go into four bits.
LEMMA OpcodesDiffer ==
  /\ \A x \in DOMAIN Opcode : Opcode[x] \in 0 .. 15
  /\ \A x, y \in DOMAIN Opcode : Opcode[x] = Opcode[y] => x = y
  BY DEF Opcode

\* There are fourteen combinations of operands.
LEMMA CodesGiven ==
  /\ DOMAIN OperandCode = 1 .. 14
  /\ Range(OperandCode) = {OperandCode[n] : n \in 1 .. 14}
<1>1. DOMAIN OperandCode = 1 .. 14
  BY DEF OperandCode
<1>2. QED
  BY <1>1 DEF Range

\* The flag of an LLI is the code of its operands.
LEMMA FlagGiven ==
  ASSUME NEW lli, Coded(lli)
  PROVE  FlagOf(lli) \in 0 .. 13 /\ OperandCode[FlagOf(lli) + 1] = Kinds(lli)
<1> DEFINE k == Kinds(lli)
<1> DEFINE c == CHOOSE n \in DOMAIN OperandCode : OperandCode[n] = k
<1>1. \E n \in 1 .. 14 : OperandCode[n] = k
  BY CodesGiven DEF Coded
<1>2. c \in DOMAIN OperandCode /\ OperandCode[c] = k
  <2> HIDE DEF k
  <2>1. QED BY <1>1, CodesGiven
<1>3. FlagOf(lli) = c - 1
  BY DEF FlagOf
<1> HIDE DEF c
<1>4. c \in 1 .. 14
  BY <1>2, CodesGiven
<1>5. c - 1 \in 0 .. 13 /\ (c - 1) + 1 = c
  BY <1>4
<1>6. QED
  BY <1>2, <1>3, <1>5

\* The first byte of an LLI gives back its opcode and its flag.
LEMMA FirstByte ==
  ASSUME NEW o \in 0 .. 15, NEW f \in 0 .. 13
  PROVE  /\ (16 * o + f) % 16 = f /\ (16 * o + f) \div 16 = o /\ 16 * o + f \in Nat
  OBVIOUS

\* An opcode is found again from its number.
LEMMA OpcodeIsRead ==
  ASSUME NEW x \in DOMAIN Opcode
  PROVE  (CHOOSE y \in DOMAIN Opcode : Opcode[y] = Opcode[x]) = x
  BY OpcodesDiffer

\* The operands of an LLI.
SrcFields(lli) == [j \in DOMAIN lli.src |-> Field(lli.src[j].v, OperandWidth(lli.src[j].kind))]
\* Its first byte and its destination.
HeadFields(lli) == <<Field(16 * Opcode[lli.op] + FlagOf(lli), 1), Field(lli.dst, WR)>>

\* An LLI is a list of fields, in these two parts.
LEMMA LLIIsFields ==
  ASSUME Given, NEW lli, Coded(lli)
  PROVE  /\ HeadFields(lli) \in Seq(FieldSet) /\ SrcFields(lli) \in Seq(FieldSet)
         /\ LLIFields(lli, WR, WC) = HeadFields(lli) \o SrcFields(lli)
         /\ LLIFields(lli, WR, WC) \in Seq(FieldSet)
<1>1. lli \in LLI
  BY DEF Coded
<1>2. WR \in 0 .. 4 /\ WC \in 0 .. 4 /\ 1 \in 0 .. 4
  BY WidthsGiven
<1>3. HeadFields(lli) \in Seq(FieldSet)
  <2> DEFINE b == 16 * Opcode[lli.op] + FlagOf(lli)
  <2>1. b \in Nat
    BY <1>1, LLIParts, OpcodesDiffer, FlagGiven, FirstByte
  <2>2. lli.dst \in Nat
    BY <1>1, LLIParts
  <2> HIDE DEF b
  <2>3. <<Field(b, 1), Field(lli.dst, WR)>> \in Seq(FieldSet)
    BY <1>2, <2>1, <2>2, TwoAreFields
  <2>4. QED BY <2>3 DEF b, HeadFields
<1>4. SrcFields(lli) \in Seq(FieldSet)
  <2> DEFINE n == Len(lli.src)
  <2>1. n \in Nat /\ DOMAIN lli.src = 1 .. n /\ \A j \in 1 .. n : lli.src[j].v \in Nat
    BY <1>1, LLIParts
  <2> HIDE DEF n
  <2>2. \A j \in 1 .. n : OperandWidth(lli.src[j].kind) \in 0 .. 4
    BY <1>2 DEF OperandWidth
  <2>3. \A j \in 1 .. n : Field(lli.src[j].v, OperandWidth(lli.src[j].kind)) \in FieldSet
    BY <2>1, <2>2, OneIsFields
  <2>4. SrcFields(lli) \in [1 .. n -> FieldSet]
    BY <2>1, <2>3 DEF SrcFields
  <2>5. QED BY <2>1, <2>4, FunctionIsSeq
<1>5. LLIFields(lli, WR, WC) = HeadFields(lli) \o SrcFields(lli)
  BY DEF LLIFields, HeadFields, SrcFields, OperandWidth
<1>6. QED
  BY <1>3, <1>4, <1>5, ConcatProperties

\* Where the operands of an LLI are, and that they are there.
At(bs, p, lli, e, st) ==
  /\ st \in [1 .. Len(lli.src) + 1 -> Nat] /\ st[1] = p /\ st[Len(lli.src) + 1] = e
  /\ \A j \in 1 .. Len(lli.src) :
       /\ st[j + 1] = st[j] + OperandWidth(lli.src[j].kind)
       /\ BigEndian(bs, st[j], OperandWidth(lli.src[j].kind)) = lli.src[j].v

\* An LLI is found from p to e.
LLIRead(bs, p, lli, e) ==
  /\ BigEndian(bs, p, 1) = 16 * Opcode[lli.op] + FlagOf(lli)
  /\ BigEndian(bs, p + 1, WR) = lli.dst
  /\ \E st : At(bs, p + 1 + WR, lli, e, st)
  /\ p + 1 =< e /\ p \in Nat /\ e \in Nat

\* The operands are read where they are.
LEMMA SrcIsRead ==
  ASSUME Given, NEW lli, Coded(lli), NEW bs, NEW p, NEW e, Holds(bs, p, SrcFields(lli), e)
  PROVE  (\E st : At(bs, p, lli, e, st)) /\ p \in Nat /\ e \in Nat /\ p =< e
<1> DEFINE fs == SrcFields(lli)
<1> DEFINE n == Len(lli.src)
<1>1. fs \in Seq(FieldSet) /\ AllFit(fs) /\ p \in Nat /\ e \in Nat /\ p =< e
  BY DEF Holds
<1>2. PICK st : Placed(bs, p, fs, e, st)
  BY DEF Holds
<1>3. n \in Nat /\ DOMAIN lli.src = 1 .. n /\ \A j \in 1 .. n : lli.src[j].v \in Nat
  BY LLIParts DEF Coded
<1>4. Len(fs) = n /\ DOMAIN fs = 1 .. n
  BY <1>3 DEF SrcFields
<1>5. \A j \in 1 .. n : fs[j][1] = lli.src[j].v /\ fs[j][2] = OperandWidth(lli.src[j].kind)
  BY <1>3 DEF SrcFields, Field
<1>6. \A j \in 1 .. n : OperandWidth(lli.src[j].kind) \in 0 .. 4
  BY WidthsGiven DEF OperandWidth
<1> HIDE DEF fs, n
<1>7. /\ st \in [1 .. n + 1 -> Nat] /\ st[1] = p /\ st[n + 1] = e
      /\ \A j \in 1 .. n : st[j + 1] = st[j] + fs[j][2] /\ BytesAt(bs, st[j], fs[j][1], fs[j][2])
  BY <1>2, <1>4 DEF Placed
<1>8. \A j \in 1 .. n : Fits(fs[j][1], fs[j][2])
  BY <1>1, <1>4 DEF AllFit
<1>9. ASSUME NEW j \in 1 .. n
      PROVE  /\ st[j + 1] = st[j] + OperandWidth(lli.src[j].kind)
             /\ BigEndian(bs, st[j], OperandWidth(lli.src[j].kind)) = lli.src[j].v
  <2> DEFINE a == st[j]
  <2> DEFINE v == fs[j][1]
  <2> DEFINE w == fs[j][2]
  <2>1. j \in 1 .. n + 1
    BY <1>3
  <2>2. a \in Nat /\ v \in Nat /\ w \in 0 .. 4 /\ Fits(v, w) /\ BytesAt(bs, a, v, w)
    BY <1>3, <1>5, <1>6, <1>7, <1>8, <2>1
  <2> HIDE DEF a, v, w
  <2>3. BigEndian(bs, a, w) = v
    BY <2>2, NumberIsRead
  <2>4. QED BY <1>5, <1>7, <2>3 DEF a, v, w
<1>10. At(bs, p, lli, e, st)
  BY <1>7, <1>9 DEF At, n
<1>11. QED
  BY <1>1, <1>10

\* An LLI is read as it was written, and takes a byte at least.
LEMMA LLIIsRead ==
  ASSUME Given, NEW lli, Coded(lli), NEW bs, NEW p, NEW e, Holds(bs, p, LLIFields(lli, WR, WC), e)
  PROVE  LLIRead(bs, p, lli, e)
<1>1. /\ HeadFields(lli) \in Seq(FieldSet) /\ SrcFields(lli) \in Seq(FieldSet)
      /\ Holds(bs, p, HeadFields(lli) \o SrcFields(lli), e)
  BY LLIIsFields
<1>2. PICK m \in Nat : Holds(bs, p, HeadFields(lli), m) /\ Holds(bs, m, SrcFields(lli), e)
  BY <1>1, HeldInTurn
<1>3. (\E st : At(bs, m, lli, e, st)) /\ e \in Nat /\ m =< e
  BY <1>2, SrcIsRead
<1> DEFINE b == 16 * Opcode[lli.op] + FlagOf(lli)
<1>4. b \in Nat /\ lli.dst \in Nat /\ WR \in 0 .. 4 /\ 1 \in 0 .. 4 /\ WR \in Nat
  <2>1. lli \in LLI
    BY DEF Coded
  <2>2. b \in Nat
    BY <2>1, LLIParts, OpcodesDiffer, FlagGiven, FirstByte
  <2>3. lli.dst \in Nat
    BY <2>1, LLIParts
  <2> HIDE DEF b
  <2>4. QED BY <2>2, <2>3, WidthsGiven
<1>5. Holds(bs, p, <<Field(b, 1), Field(lli.dst, WR)>>, m)
  BY <1>2 DEF HeadFields
<1> HIDE DEF b
<1>6. BigEndian(bs, p, 1) = b /\ BigEndian(bs, p + 1, WR) = lli.dst /\ m = p + 1 + WR /\ p \in Nat
  <2> DEFINE one == 1
  <2> DEFINE d == lli.dst
  <2>1. /\ one \in 0 .. 4 /\ b \in Nat /\ d \in Nat /\ WR \in 0 .. 4
        /\ Holds(bs, p, Two(b, one, d, WR), m)
    BY <1>4, <1>5 DEF Two
  <2> HIDE DEF one, d
  <2>2. /\ BigEndian(bs, p, one) = b /\ BigEndian(bs, p + one, WR) = d
        /\ m = p + one + WR /\ p \in Nat
    BY <2>1, TwoAreRead DEF TwoRead
  <2>3. QED BY <2>2 DEF one, d
<1>7. p + 1 =< e
  BY <1>3, <1>4, <1>6
<1>8. QED
  BY <1>3, <1>6, <1>7 DEF b, LLIRead

\* The element, built for the same shape, knows the widths.
LEMMA ElementWidths ==
  ASSUME Given, se = config
  PROVE  lb_o = WO /\ lb_r = WR /\ lb_c = WC /\ \A kind : OperandLen(kind) = OperandWidth(kind)
<1>1. lb_o = WO /\ lb_r = WR
  BY WidthsGiven DEF lb_o, lb_r
<1>2. lb_c = WC
  BY DEF lb_c, WC
<1>3. QED
  BY <1>1, <1>2 DEF OperandLen, OperandWidth

\* LLS_execute() walks from operand to operand.
LEMMA WalkIsRight ==
  ASSUME Given, se = config, NEW lli, Coded(lli), NEW bs, NEW p \in Nat, NEW e, NEW st,
         At(bs, p, lli, e, st)
  PROVE  OperandsAt(Kinds(lli), p) = st
<1> DEFINE kinds == Kinds(lli)
<1> DEFINE n == Len(lli.src)
<1>1. /\ n \in Nat /\ Len(kinds) = n /\ \A j \in 1 .. n : kinds[j] = lli.src[j].kind
  BY LLIParts DEF Coded
<1>2. /\ st \in [1 .. n + 1 -> Nat] /\ st[1] = p
      /\ \A j \in 1 .. n : st[j + 1] = st[j] + OperandWidth(lli.src[j].kind)
  BY DEF At
<1>3. \A kind : OperandLen(kind) = OperandWidth(kind)
  BY ElementWidths
<1> DEFINE Eq(f) == f = [j \in 1 .. Len(kinds) + 1 |->
                           IF j = 1 THEN p ELSE f[j - 1] + OperandLen(kinds[j - 1])]
<1> DEFINE from == CHOOSE f : Eq(f)
<1>4. OperandsAt(kinds, p) = from
  BY DEF OperandsAt
<1> HIDE DEF kinds, n
<1>5. \A j \in 1 .. n + 1 : j # 1 => j - 1 \in 1 .. n /\ (j - 1) + 1 = j
  BY <1>1
<1>6. \A j \in 1 .. n + 1 : st[j] = IF j = 1 THEN p ELSE st[j - 1] + OperandLen(kinds[j - 1])
  BY <1>1, <1>2, <1>3, <1>5
<1>7. Eq(st)
  <2>1. st = [j \in 1 .. n + 1 |-> st[j]]
    BY <1>2
  <2>2. QED BY <1>1, <1>6, <2>1
<1>8. Eq(from)
  <2> HIDE DEF Eq
  <2>1. QED BY <1>7
<1>9. /\ from = [j \in 1 .. n + 1 |-> from[j]]
      /\ \A j \in 1 .. n + 1 : from[j] = IF j = 1 THEN p ELSE from[j - 1] + OperandLen(kinds[j - 1])
  <2> HIDE DEF from
  <2>1. from = [j \in 1 .. n + 1 |-> IF j = 1 THEN p ELSE from[j - 1] + OperandLen(kinds[j - 1])]
    BY <1>1, <1>8
  <2>2. QED BY <2>1
<1> HIDE DEF from, Eq
<1> DEFINE top == n + 1
<1> DEFINE Y == {j \in 1 .. top : from[j] = st[j]}
<1>10. top \in Int /\ 1 \in 1 .. top
  BY <1>1
<1>11. 1 \in Y
  BY <1>2, <1>9, <1>10
<1>12. ASSUME NEW j \in 1 .. top - 1, j \in Y PROVE j + 1 \in Y
  <2>1. j + 1 \in 1 .. n + 1 /\ j + 1 # 1 /\ (j + 1) - 1 = j
    BY <1>1
  <2> DEFINE i == j + 1
  <2>2. i \in 1 .. n + 1 /\ i # 1 /\ i - 1 = j
    BY <2>1
  <2> HIDE DEF i
  <2>3. from[i] = from[j] + OperandLen(kinds[j]) /\ st[i] = st[j] + OperandLen(kinds[j])
    BY <1>6, <1>9, <2>2
  <2>4. i \in Y
    BY <1>12, <2>2, <2>3
  <2>5. QED BY <2>4 DEF i
<1> HIDE DEF Y, top
<1>13. \A j \in 1 .. top : j \in Y
  BY <1>10, <1>11, <1>12, RangeInduction
<1>14. \A j \in 1 .. n + 1 : from[j] = st[j]
  BY <1>13 DEF Y, top
<1>15. from = st
  <2>1. st = [j \in 1 .. n + 1 |-> st[j]]
    BY <1>2
  <2>2. QED BY <1>9, <1>14, <2>1
<1>16. QED
  BY <1>4, <1>15 DEF kinds

\* An LLI is taken apart as it was put together.
Decoded(bs, p) ==
  LET kinds == OperandCode[(BigEndian(bs, p, 1) % 16) + 1]
      from  == OperandsAt(kinds, p + 1 + lb_r)
  IN  [op  |-> CHOOSE x \in DOMAIN Opcode : Opcode[x] = BigEndian(bs, p, 1) \div 16,
       dst |-> BigEndian(bs, p + 1, lb_r),
       src |-> [j \in DOMAIN kinds |->
                  [kind |-> kinds[j], v |-> BigEndian(bs, from[j], OperandLen(kinds[j]))]]]

\* Where the one after it starts.
DecodedEnd(bs, p) ==
  LET kinds == OperandCode[(BigEndian(bs, p, 1) % 16) + 1]
  IN  OperandsAt(kinds, p + 1 + lb_r)[Len(kinds) + 1]

\* The loop finds in the bytes of an LLI the LLI, and the one after it.
LEMMA LLIIsDecoded ==
  ASSUME Given, se = config, NEW lli, Coded(lli), NEW bs, NEW p, NEW e, LLIRead(bs, p, lli, e)
  PROVE  /\ (BigEndian(bs, p, 1) % 16) + 1 \in DOMAIN OperandCode
         /\ Decoded(bs, p) = lli /\ DecodedEnd(bs, p) = e
<1> DEFINE o == Opcode[lli.op]
<1> DEFINE f == FlagOf(lli)
<1> DEFINE b == BigEndian(bs, p, 1)
<1> DEFINE kinds == Kinds(lli)
<1> DEFINE n == Len(lli.src)
<1>1. lli \in LLI
  BY DEF Coded
<1>2. o \in 0 .. 15 /\ f \in 0 .. 13 /\ b = 16 * o + f /\ OperandCode[f + 1] = kinds
  BY <1>1, LLIParts, OpcodesDiffer, FlagGiven DEF LLIRead
<1>3. b % 16 = f /\ b \div 16 = o
  <2> HIDE DEF o, f, b
  <2>1. QED BY <1>2, FirstByte
<1>4. f + 1 \in DOMAIN OperandCode
  <2> HIDE DEF f
  <2>1. QED BY <1>2, CodesGiven
<1>5. lb_r = WR /\ \A kind : OperandLen(kind) = OperandWidth(kind)
  BY ElementWidths
<1>6. PICK st : At(bs, p + 1 + WR, lli, e, st)
  BY DEF LLIRead
<1> DEFINE q == p + 1 + WR
<1>7. q \in Nat
  BY WidthsGiven DEF LLIRead
<1>8. OperandsAt(kinds, q) = st
  <2>1. At(bs, q, lli, e, st)
    BY <1>6
  <2> HIDE DEF q
  <2>2. QED BY <1>7, <2>1, WalkIsRight
<1>9. (CHOOSE x \in DOMAIN Opcode : Opcode[x] = b \div 16) = lli.op
  <2>1. (CHOOSE x \in DOMAIN Opcode : Opcode[x] = o) = lli.op
    BY <1>1, LLIParts, OpcodeIsRead
  <2>2. QED BY <1>3, <2>1
<1>10. /\ n \in Nat /\ Len(kinds) = n /\ kinds = [j \in 1 .. n |-> lli.src[j].kind]
       /\ \A j \in 1 .. n : lli.src[j] = [kind |-> lli.src[j].kind, v |-> lli.src[j].v]
       /\ lli.src = [j \in 1 .. n |-> lli.src[j]]
       /\ lli = [op |-> lli.op, dst |-> lli.dst, src |-> lli.src]
  <2>1. /\ n \in Nat /\ Len(kinds) = n /\ kinds = [j \in 1 .. n |-> lli.src[j].kind]
        /\ \A j \in 1 .. n : lli.src[j] = [kind |-> lli.src[j].kind, v |-> lli.src[j].v]
        /\ lli = [op |-> lli.op, dst |-> lli.dst, src |-> lli.src]
    BY ONLY <1>1, LLIParts, Zenon
  <2>2. lli.src \in Seq([kind : {"I", "R"}, v : Nat])
    BY ONLY <1>1, LLIParts, Zenon
  <2>3. lli.src = [j \in 1 .. n |-> lli.src[j]]
    <3> DEFINE z == lli.src
    <3>1. z \in Seq([kind : {"I", "R"}, v : Nat])
      BY <2>2
    <3> HIDE DEF z
    <3>2. z = [j \in 1 .. Len(z) |-> z[j]]
      BY ONLY <3>1
    <3>3. QED BY <3>2 DEF z
  <2>4. QED BY ONLY <2>1, <2>3, Zenon
<1> DEFINE src == [j \in DOMAIN kinds |->
                     [kind |-> kinds[j], v |-> BigEndian(bs, st[j], OperandLen(kinds[j]))]]
<1>11. src = lli.src
  <2>1. DOMAIN kinds = 1 .. n /\ \A j \in 1 .. n : kinds[j] = lli.src[j].kind
    BY <1>10
  <2>2. \A j \in 1 .. n : BigEndian(bs, st[j], OperandWidth(lli.src[j].kind)) = lli.src[j].v
    BY <1>6 DEF At
  <2>3. \A j \in 1 .. n : [kind |-> kinds[j], v |-> BigEndian(bs, st[j], OperandLen(kinds[j]))] = lli.src[j]
    BY <1>5, <1>10, <2>1, <2>2
  <2> HIDE DEF kinds, n
  <2>4. QED BY <1>10, <2>1, <2>3
<1>12. Decoded(bs, p) = [op |-> CHOOSE x \in DOMAIN Opcode : Opcode[x] = b \div 16,
                         dst |-> BigEndian(bs, p + 1, WR), src |-> src]
  <2>1. OperandCode[(b % 16) + 1] = kinds /\ p + 1 + lb_r = q
    BY <1>2, <1>3, <1>5
  <2>2. QED BY <1>5, <1>8, <2>1 DEF Decoded
<1>13. BigEndian(bs, p + 1, WR) = lli.dst
  BY DEF LLIRead
<1>14. Decoded(bs, p) = lli
  <2> HIDE DEF src
  <2>1. QED BY <1>9, <1>10, <1>11, <1>12, <1>13
<1>15. DecodedEnd(bs, p) = e
  <2>1. OperandCode[(b % 16) + 1] = kinds /\ p + 1 + lb_r = q
    BY <1>2, <1>3, <1>5
  <2>2. DecodedEnd(bs, p) = st[n + 1]
    BY <1>8, <1>10, <2>1 DEF DecodedEnd
  <2>3. QED BY <1>6, <2>2 DEF At
<1>16. QED
  BY <1>3, <1>4, <1>14, <1>15

\* A snippet is so many LLIs, one after the other.
LEMMA LLSIsFields ==
  ASSUME Given, NEW seq \in Seq(LLI), \A k \in 1 .. Len(seq) : Kinds(seq[k]) \in Range(OperandCode)
  PROVE  /\ [j \in DOMAIN seq |-> LLIFields(seq[j], WR, WC)] \in Seq(Seq(FieldSet))
         /\ LLSFields(seq, WR, WC) = FlattenSeq([j \in DOMAIN seq |-> LLIFields(seq[j], WR, WC)])
         /\ \A k \in 1 .. Len(seq) : Coded(seq[k])
<1> DEFINE n == Len(seq)
<1>1. n \in Nat /\ DOMAIN seq = 1 .. n
  OBVIOUS
<1>2. \A k \in 1 .. n : Coded(seq[k])
  BY ElementOfSeq DEF Coded
<1>3. \A k \in 1 .. n : LLIFields(seq[k], WR, WC) \in Seq(FieldSet)
  BY <1>2, LLIIsFields
<1>4. [j \in DOMAIN seq |-> LLIFields(seq[j], WR, WC)] \in [1 .. n -> Seq(FieldSet)]
  BY <1>1, <1>3
<1>5. [j \in DOMAIN seq |-> LLIFields(seq[j], WR, WC)] \in Seq(Seq(FieldSet))
  <2> HIDE DEF n
  <2>1. QED BY <1>1, <1>4, FunctionIsSeq
<1>6. LLSFields(seq, WR, WC) = FlattenSeq([j \in DOMAIN seq |-> LLIFields(seq[j], WR, WC)])
  BY DEF LLSFields
<1>7. QED
  BY <1>2, <1>5, <1>6

-----------------------------------------------------------------------------
(***************************************************************************)
(* An LLMI, as it is read.                                                 *)
(***************************************************************************)
\* Equal steps from p on.
Paces(n, p, w, at) ==
  /\ n \in Nat /\ p \in Nat /\ w \in Nat /\ at \in [1 .. n + 1 -> Nat]
  /\ at[1] = p /\ \A k \in 1 .. n : at[k + 1] = at[k] + w

\* They lead where a product says.
Paced(n, p, w, at) == \A k \in 1 .. n + 1 : at[k] = p + (k - 1) * w

\* Equal steps add up to a product.
LEMMA EqualSteps ==
  ASSUME NEW n, NEW p, NEW w, NEW at, Paces(n, p, w, at)
  PROVE  Paced(n, p, w, at)
<1> USE DEF Paces, Paced
<1> DEFINE top == n + 1
<1> DEFINE Y == {k \in 1 .. top : at[k] = p + (k - 1) * w}
<1>1. top \in Int /\ 1 \in 1 .. top
  OBVIOUS
<1>2. 1 \in Y
  OBVIOUS
<1>3. ASSUME NEW k \in 1 .. top - 1, k \in Y PROVE k + 1 \in Y
  <2>1. k \in 1 .. n /\ k + 1 \in 1 .. top /\ k \in Int
    OBVIOUS
  <2>2. at[k + 1] = p + (k - 1) * w + w
    BY <1>3, <2>1
  <2>3. (k - 1) * w + w = ((k + 1) - 1) * w /\ (k - 1) * w \in Int
    BY <2>1
  <2>4. at[k + 1] = p + ((k + 1) - 1) * w
    BY <2>2, <2>3
  <2>5. QED BY <2>1, <2>4
<1> HIDE DEF Y, top
<1>4. \A k \in 1 .. top : k \in Y
  BY <1>1, <1>2, <1>3, RangeInduction
<1>5. QED
  BY <1>4 DEF Y, top

\* The number of an input: of the LLMI it comes from, and which of its outputs.
IDPair(id) == <<Field(id[1], U32), Field(id[2], WO)>>

\* The numbers of the inputs are fields, in pairs.
LEMMA IDsAreFields ==
  ASSUME Given, NEW ids \in Seq(Nat \X Nat)
  PROVE  /\ [j \in DOMAIN ids |-> IDPair(ids[j])] \in Seq(Seq(FieldSet))
         /\ IDFields(ids, WO) = FlattenSeq([j \in DOMAIN ids |-> IDPair(ids[j])])
         /\ \A j \in 1 .. Len(ids) :
              ids[j][1] \in Nat /\ ids[j][2] \in Nat /\ ids[j] = <<ids[j][1], ids[j][2]>>
<1> DEFINE n == Len(ids)
<1>1. n \in Nat /\ DOMAIN ids = 1 .. n
  OBVIOUS
<1>2. \A j \in 1 .. n : ids[j] \in Nat \X Nat
  BY ElementOfSeq
<1>3. \A x \in Nat \X Nat : x[1] \in Nat /\ x[2] \in Nat /\ x = <<x[1], x[2]>>
  OBVIOUS
<1>4. WO \in 0 .. 4 /\ U32 \in 0 .. 4
  BY WidthsGiven DEF U32
<1>5. \A x \in Nat \X Nat : IDPair(x) \in Seq(FieldSet)
  BY <1>3, <1>4, TwoAreFields DEF IDPair
<1>6. [j \in DOMAIN ids |-> IDPair(ids[j])] \in [1 .. n -> Seq(FieldSet)]
  BY <1>1, <1>2, <1>5
<1>7. [j \in DOMAIN ids |-> IDPair(ids[j])] \in Seq(Seq(FieldSet))
  <2> HIDE DEF n
  <2>1. QED BY <1>1, <1>6, FunctionIsSeq
<1>8. IDFields(ids, WO) = FlattenSeq([j \in DOMAIN ids |-> IDPair(ids[j])])
  BY DEF IDFields, IDPair
<1>9. QED
  BY <1>2, <1>3, <1>7, <1>8

\* They are read in pairs, each at its place.
LEMMA IDsAreRead ==
  ASSUME Given, NEW ids \in Seq(Nat \X Nat), NEW bs, NEW p, NEW e, Holds(bs, p, IDFields(ids, WO), e)
  PROVE  /\ e = p + Len(ids) * (U32 + WO)
         /\ [j \in 1 .. Len(ids) |-> <<BigEndian(bs, p + (j - 1) * (U32 + WO), U32),
                                       BigEndian(bs, p + (j - 1) * (U32 + WO) + U32, WO)>>] = ids
<1> DEFINE fss == [j \in DOMAIN ids |-> IDPair(ids[j])]
<1> DEFINE n == Len(ids)
<1> DEFINE w == U32 + WO
<1>1. n \in Nat /\ Len(fss) = n /\ (\A k \in 1 .. n : fss[k] = IDPair(ids[k]))
      /\ ids = [k \in 1 .. n |-> ids[k]]
  OBVIOUS
<1>2. fss \in Seq(Seq(FieldSet)) /\ Holds(bs, p, FlattenSeq(fss), e)
  BY IDsAreFields
<1>3. \A k \in 1 .. n : ids[k][1] \in Nat /\ ids[k][2] \in Nat /\ ids[k] = <<ids[k][1], ids[k][2]>>
  BY IDsAreFields
<1>4. WO \in 0 .. 4 /\ U32 \in 0 .. 4 /\ w \in Nat
  BY WidthsGiven DEF U32
<1> HIDE DEF fss, n
<1>5. PICK at : Parted(bs, p, fss, e, at)
  BY <1>2, FlattenedIsHeld
<1>6. /\ at \in [1 .. n + 1 -> Nat] /\ at[1] = p /\ at[n + 1] = e
      /\ \A k \in 1 .. n : Holds(bs, at[k], fss[k], at[k + 1])
  BY <1>1, <1>5 DEF Parted
<1>7. p \in Nat
  BY DEF Holds
<1>8. ASSUME NEW k \in 1 .. n
      PROVE  /\ BigEndian(bs, at[k], U32) = ids[k][1] /\ BigEndian(bs, at[k] + U32, WO) = ids[k][2]
             /\ at[k + 1] = at[k] + w
  <2> DEFINE a == ids[k][1]
  <2> DEFINE b == ids[k][2]
  <2>1. /\ a \in Nat /\ b \in Nat
        /\ Holds(bs, at[k], Two(a, U32, b, WO), at[k + 1])
    BY <1>1, <1>3, <1>6 DEF IDPair, Two
  <2> HIDE DEF a, b
  <2>2. /\ BigEndian(bs, at[k], U32) = a /\ BigEndian(bs, at[k] + U32, WO) = b
        /\ at[k + 1] = at[k] + U32 + WO /\ at[k] \in Nat
    BY <1>4, <2>1, TwoAreRead DEF TwoRead
  <2>3. at[k] + U32 + WO = at[k] + (U32 + WO)
    BY <1>4, <2>2
  <2>4. QED BY <2>2, <2>3 DEF a, b
<1> HIDE DEF w
<1>9. \A k \in 1 .. n + 1 : at[k] = p + (k - 1) * w
  <2>1. \A k \in 1 .. n : at[k + 1] = at[k] + w
    BY <1>8
  <2>2. n \in Nat /\ p \in Nat /\ at \in [1 .. n + 1 -> Nat] /\ at[1] = p
    BY <1>1, <1>6, <1>7
  <2>3. w \in Nat
    BY <1>4
  <2>4. Paces(n, p, w, at)
    BY ONLY <2>1, <2>2, <2>3, Zenon DEF Paces
  <2>5. Paced(n, p, w, at)
    BY ONLY <2>4, EqualSteps, Zenon
  <2>6. QED BY <2>5 DEF Paced
<1>10. e = p + n * w
  <2>1. n + 1 \in 1 .. n + 1 /\ (n + 1) - 1 = n
    BY <1>1
  <2>2. QED BY <1>6, <1>9, <2>1
<1>11. \A j \in 1 .. n : <<BigEndian(bs, p + (j - 1) * w, U32), BigEndian(bs, p + (j - 1) * w + U32, WO)>> = ids[j]
  <2> TAKE j \in 1 .. n
  <2>1. j \in 1 .. n + 1 /\ at[j] = p + (j - 1) * w
    BY <1>1, <1>9
  <2>2. QED BY <1>3, <1>8, <2>1
<1>12. [j \in 1 .. n |-> <<BigEndian(bs, p + (j - 1) * w, U32),
                           BigEndian(bs, p + (j - 1) * w + U32, WO)>>] = ids
  BY <1>1, <1>11
<1>13. QED
  BY <1>10, <1>12 DEF n, w

\* What the reader finds of an LLMI, from p to e.
LLMIRead(bs, p, mi, e) ==
  \E p2, p3, p5 \in Nat :
    /\ ReadsCells(bs, p, mi.inputs, p2)
    /\ ReadsCells(bs, p2, mi.outputs, p3)
    /\ BigEndian(bs, p3, U32) = mi.instrID
    /\ BigEndian(bs, p3 + U32, 1) = mi.reveal_flag
    /\ p5 = p3 + U32 + 1 + Len(mi.inputs) * (U32 + WO)
    /\ [j \in 1 .. Len(mi.inputs) |->
          <<BigEndian(bs, p3 + U32 + 1 + (j - 1) * (U32 + WO), U32),
            BigEndian(bs, p3 + U32 + 1 + (j - 1) * (U32 + WO) + U32, WO)>>] = mi.inputIDs
    /\ p5 + U32 =< e /\ e =< Len(bs) + 1 /\ e \in Nat
    /\ e = p5 + U32 + BigEndian(bs, p5, U32)
    /\ LET code == SubSeq(bs, p5 + U32, e - 1 - MAC)
       IN  Len(code) \in Nat /\ Holds(code, 1, LLSFields(mi.seq, WR, WC), Len(code) + 1)

\* Parts of an LLMI.
InstrFields(mi) == <<Field(mi.instrID, U32), Field(mi.reveal_flag, 1)>>
LengthField(mi) == <<Field(Len(Bytes(LLSFields(mi.seq, WR, WC))) + MAC, U32)>>
MACFields == [j \in 1 .. MAC |-> Field(0, 1)]

\* An LLMI of the program.
LLMIFit(mi) ==
  /\ mi = [inputs |-> mi.inputs, outputs |-> mi.outputs, instrID |-> mi.instrID,
           reveal_flag |-> mi.reveal_flag, inputIDs |-> mi.inputIDs, seq |-> mi.seq]
  /\ mi.inputs \in Seq(Nat) /\ mi.outputs \in Seq(Nat) /\ mi.instrID \in Nat
  /\ mi.reveal_flag \in Nat /\ mi.inputIDs \in Seq(Nat \X Nat) /\ mi.seq \in Seq(LLI)
  /\ Len(mi.inputIDs) = Len(mi.inputs)
  /\ Len(mi.seq) =< config.s
  /\ \A j \in 1 .. Len(mi.seq) : Kinds(mi.seq[j]) \in Range(OperandCode)

\* The LLMIs of the program are as the reader needs them.
LEMMA FitGiven ==
  ASSUME Given, NEW k \in 1 .. Len(prog.llmis)
  PROVE  LLMIFit(prog.llmis[k])
  BY LLMIGiven DEF LLMIFit

\* Flattening field lists gives a field list.
LEMMA FlattenIsFields ==
  ASSUME NEW fss \in Seq(Seq(FieldSet))
  PROVE  FlattenSeq(fss) \in Seq(FieldSet)
<1>1. PICK st : Laid(FieldSet, fss, Len(fss), FlattenSeq(fss), st)
  BY FlattenLays
<1>2. QED
  BY <1>1 DEF Laid

\* The bytes of any fields are bytes.
LEMMA BytesAreBytes ==
  ASSUME NEW fs \in Seq(FieldSet)
  PROVE  Bytes(fs) \in Seq(Byte) /\ Len(Bytes(fs)) \in Nat
<1> DEFINE ss == [j \in DOMAIN fs |-> uint_tobytes(fs[j][1], fs[j][2])]
<1> DEFINE n == Len(fs)
<1>1. n \in Nat /\ DOMAIN fs = 1 .. n /\ n = Len(fs)
  OBVIOUS
<1> HIDE DEF n
<1>2. \A j \in 1 .. n : fs[j][1] \in Nat /\ fs[j][2] \in 0 .. 4
  <2> TAKE j \in 1 .. n
  <2>1. fs[j] \in FieldSet
    BY <1>1, ElementOfSeq
  <2>2. QED BY <2>1, FieldParts
<1>3. ss \in [1 .. n -> Seq(Byte)]
  BY <1>1, <1>2, ToBytesIs
<1>4. Bytes(fs) = Concat(ss)
  BY DEF Bytes
<1> HIDE DEF ss
<1>5. ss \in Seq(Seq(Byte)) /\ Len(ss) = n
  BY <1>1, <1>3, FunctionIsSeq
<1>6. PICK q : Laid(Byte, ss, n, Bytes(fs), q)
  BY <1>4, <1>5, ConcatLays
<1>7. Bytes(fs) \in Seq(Byte)
  BY <1>6 DEF Laid
<1>8. QED
  BY <1>7

\* An LLMI is a list of fields, in these seven parts.
LEMMA LLMIIsFields ==
  ASSUME Given, NEW mi, LLMIFit(mi)
  PROVE  /\ CellFields(mi.inputs, WM) \in Seq(FieldSet) /\ CellFields(mi.outputs, WM) \in Seq(FieldSet)
         /\ InstrFields(mi) \in Seq(FieldSet) /\ IDFields(mi.inputIDs, WO) \in Seq(FieldSet)
         /\ LengthField(mi) \in Seq(FieldSet) /\ LLSFields(mi.seq, WR, WC) \in Seq(FieldSet) /\ MACFields \in Seq(FieldSet)
         /\ LLMIFields(mi, config, prog) = CellFields(mi.inputs, WM) \o CellFields(mi.outputs, WM) \o InstrFields(mi)
                               \o IDFields(mi.inputIDs, WO) \o LengthField(mi) \o LLSFields(mi.seq, WR, WC) \o MACFields
         /\ LLMIFields(mi, config, prog) \in Seq(FieldSet)
<1>1. U32 \in 0 .. 4 /\ MAC \in Nat /\ 1 \in 0 .. 4
  BY DEF U32, MAC
<1>2. CellFields(mi.inputs, WM) \in Seq(FieldSet) /\ CellFields(mi.outputs, WM) \in Seq(FieldSet)
  BY CellsAreFields DEF LLMIFit
<1>3. InstrFields(mi) \in Seq(FieldSet)
  BY <1>1, TwoAreFields DEF InstrFields, LLMIFit
<1>4. IDFields(mi.inputIDs, WO) \in Seq(FieldSet)
  BY IDsAreFields, FlattenIsFields DEF LLMIFit
<1>5. LLSFields(mi.seq, WR, WC) \in Seq(FieldSet)
  BY LLSIsFields, FlattenIsFields DEF LLMIFit
<1>6. LengthField(mi) \in Seq(FieldSet)
  <2> DEFINE n == Len(Bytes(LLSFields(mi.seq, WR, WC))) + MAC
  <2>1. n \in Nat
    BY <1>1, <1>5, BytesAreBytes
  <2> HIDE DEF n
  <2>2. <<Field(n, U32)>> \in Seq(FieldSet)
    BY <1>1, <2>1, OneIsFields
  <2>3. QED BY <2>2 DEF n, LengthField
<1>7. MACFields \in Seq(FieldSet)
  BY <1>1, ZerosAreFields DEF MACFields
<1>8. LLMIFields(mi, config, prog) = CellFields(mi.inputs, WM) \o CellFields(mi.outputs, WM) \o InstrFields(mi)
                         \o IDFields(mi.inputIDs, WO) \o LengthField(mi) \o LLSFields(mi.seq, WR, WC) \o MACFields
  BY DEF LLMIFields, InstrFields, LengthField, MACFields, WM, WO, WR, WC
<1>9. QED
  BY <1>2, <1>3, <1>4, <1>5, <1>6, <1>7, <1>8

\* An LLMI is read as it was written; the length it gives ends its snippet and
\* the MAC where the next one starts.
LEMMA LLMIIsRead ==
  ASSUME Given, NEW mi, LLMIFit(mi), NEW bs, NEW p, NEW e, Holds(bs, p, LLMIFields(mi, config, prog), e)
  PROVE  LLMIRead(bs, p, mi, e)
<1> DEFINE A1 == CellFields(mi.inputs, WM)
<1> DEFINE A2 == CellFields(mi.outputs, WM)
<1> DEFINE A4 == IDFields(mi.inputIDs, WO)
<1> DEFINE A6 == LLSFields(mi.seq, WR, WC)
<1>1. /\ A1 \in Seq(FieldSet) /\ A2 \in Seq(FieldSet) /\ InstrFields(mi) \in Seq(FieldSet)
      /\ A4 \in Seq(FieldSet) /\ LengthField(mi) \in Seq(FieldSet) /\ A6 \in Seq(FieldSet) /\ MACFields \in Seq(FieldSet)
  BY LLMIIsFields
<1>2. Holds(bs, p, A1 \o A2 \o InstrFields(mi) \o A4 \o LengthField(mi) \o A6 \o MACFields, e)
  BY LLMIIsFields
<1> HIDE DEF A1, A2, A4, A6
<1>3. /\ A1 \o A2 \in Seq(FieldSet) /\ A1 \o A2 \o InstrFields(mi) \in Seq(FieldSet)
      /\ A1 \o A2 \o InstrFields(mi) \o A4 \in Seq(FieldSet)
      /\ A1 \o A2 \o InstrFields(mi) \o A4 \o LengthField(mi) \in Seq(FieldSet)
      /\ A1 \o A2 \o InstrFields(mi) \o A4 \o LengthField(mi) \o A6 \in Seq(FieldSet)
  BY <1>1
<1>4. PICK m6 \in Nat : Holds(bs, p, A1 \o A2 \o InstrFields(mi) \o A4 \o LengthField(mi) \o A6, m6) /\ Holds(bs, m6, MACFields, e)
  BY <1>1, <1>2, <1>3, HeldInTurn
<1>5. PICK p6 \in Nat : Holds(bs, p, A1 \o A2 \o InstrFields(mi) \o A4 \o LengthField(mi), p6) /\ Holds(bs, p6, A6, m6)
  BY <1>1, <1>3, <1>4, HeldInTurn
<1>6. PICK p5 \in Nat : Holds(bs, p, A1 \o A2 \o InstrFields(mi) \o A4, p5) /\ Holds(bs, p5, LengthField(mi), p6)
  BY <1>1, <1>3, <1>5, HeldInTurn
<1>7. PICK p4 \in Nat : Holds(bs, p, A1 \o A2 \o InstrFields(mi), p4) /\ Holds(bs, p4, A4, p5)
  BY <1>1, <1>3, <1>6, HeldInTurn
<1>8. PICK p3 \in Nat : Holds(bs, p, A1 \o A2, p3) /\ Holds(bs, p3, InstrFields(mi), p4)
  BY <1>1, <1>3, <1>7, HeldInTurn
<1>9. PICK p2 \in Nat : Holds(bs, p, A1, p2) /\ Holds(bs, p2, A2, p3)
  BY <1>1, <1>8, HeldInTurn
<1>10. ReadsCells(bs, p, mi.inputs, p2) /\ ReadsCells(bs, p2, mi.outputs, p3)
  BY <1>9, CellsAreRead DEF A1, A2, LLMIFit
<1>11. /\ BigEndian(bs, p3, U32) = mi.instrID /\ BigEndian(bs, p3 + U32, 1) = mi.reveal_flag
       /\ p4 = p3 + U32 + 1
  <2> DEFINE one == 1
  <2> DEFINE a == mi.instrID
  <2> DEFINE b == mi.reveal_flag
  <2> DEFINE w == U32
  <2>1. /\ one \in 0 .. 4 /\ a \in Nat /\ b \in Nat /\ w \in 0 .. 4
        /\ Holds(bs, p3, Two(a, w, b, one), p4)
    BY <1>8 DEF InstrFields, LLMIFit, U32, Two
  <2> HIDE DEF one, a, b, w
  <2>2. /\ BigEndian(bs, p3, w) = a /\ BigEndian(bs, p3 + w, one) = b
        /\ p4 = p3 + w + one /\ p3 \in Nat
    <3>1. TwoRead(bs, p3, a, w, b, one, p4)
      BY ONLY <2>1, TwoAreRead, Zenon
    <3>2. QED BY <3>1 DEF TwoRead
  <2>3. QED BY <2>2 DEF one, a, b, w
<1> DEFINE n == Len(mi.inputs)
<1>12. /\ p5 = p4 + n * (U32 + WO)
       /\ [j \in 1 .. n |-> <<BigEndian(bs, p4 + (j - 1) * (U32 + WO), U32),
                              BigEndian(bs, p4 + (j - 1) * (U32 + WO) + U32, WO)>>] = mi.inputIDs
  <2> DEFINE ids == mi.inputIDs
  <2>1. ids \in Seq(Nat \X Nat) /\ Len(ids) = n /\ Holds(bs, p4, IDFields(ids, WO), p5)
    BY <1>7 DEF A4, LLMIFit
  <2> HIDE DEF ids, n
  <2>2. /\ p5 = p4 + Len(ids) * (U32 + WO)
        /\ [j \in 1 .. Len(ids) |-> <<BigEndian(bs, p4 + (j - 1) * (U32 + WO), U32),
                                      BigEndian(bs, p4 + (j - 1) * (U32 + WO) + U32, WO)>>] = ids
    BY <2>1, IDsAreRead
  <2>3. QED BY <2>1, <2>2 DEF ids
<1> DEFINE l == Len(Bytes(A6))
<1>13. BigEndian(bs, p5, U32) = l + MAC /\ p6 = p5 + U32
  <2> DEFINE x == l + MAC
  <2>1. Holds(bs, p5, <<Field(x, U32)>>, p6)
    BY <1>6 DEF LengthField, A6
  <2> HIDE DEF x
  <2>2. BigEndian(bs, p5, U32) = x /\ p6 = p5 + U32
    BY <2>1, FieldIsRead
  <2>3. QED BY <2>2 DEF x
<1>14. l = m6 - p6 /\ l \in Nat
  BY <1>5, RoomIsLength
<1>15. e = m6 + MAC /\ MAC \in Nat
  <2>1. MAC \in Nat
    BY DEF MAC
  <2>2. Holds(bs, m6, [j \in 1 .. MAC |-> Field(0, 1)], e)
    BY <1>4 DEF MACFields
  <2>3. QED BY <2>1, <2>2, ZerosTakeRoom
<1> HIDE DEF l
<1>16. e = p5 + U32 + BigEndian(bs, p5, U32) /\ p5 + U32 =< e /\ e \in Nat /\ e - 1 - MAC = m6 - 1
       /\ m6 - p6 \in Nat
  BY <1>13, <1>14, <1>15 DEF U32
<1>17. e =< Len(bs) + 1
  BY <1>4 DEF Holds
<1> DEFINE code == SubSeq(bs, p6, m6 - 1)
<1>18. Len(code) = m6 - p6 /\ Holds(code, 1, A6, m6 - p6 + 1)
  BY <1>5, CopyIsHeld
<1>19. Len(code) \in Nat /\ Holds(code, 1, LLSFields(mi.seq, WR, WC), Len(code) + 1)
  <2> HIDE DEF code
  <2>1. QED BY <1>16, <1>18 DEF A6
<1>20. SubSeq(bs, p5 + U32, e - 1 - MAC) = code
  BY <1>13, <1>16
<1> HIDE DEF code, n
<1>21. /\ p5 = p3 + U32 + 1 + n * (U32 + WO)
       /\ [j \in 1 .. n |->
             <<BigEndian(bs, p3 + U32 + 1 + (j - 1) * (U32 + WO), U32),
               BigEndian(bs, p3 + U32 + 1 + (j - 1) * (U32 + WO) + U32, WO)>>] = mi.inputIDs
  BY <1>11, <1>12
<1>22. QED
  BY <1>10, <1>11, <1>16, <1>17, <1>19, <1>20, <1>21 DEF LLMIRead, n

-----------------------------------------------------------------------------
(***************************************************************************)
(* The inductive invariant: what the file holds, and what was read of it.  *)
(***************************************************************************)
N == Len(prog.llmis)

\* The header and n LLMIs are in the file, one after the other.
Written(n, start) ==
  /\ start \in [1 .. n + 1 -> Nat]
  /\ Holds(file, 1, HeaderFields(config, prog), start[1])
  /\ \A k \in 1 .. n : Holds(file, start[k], LLMIFields(prog.llmis[k], config, prog), start[k + 1])
  /\ \A k \in 1 .. n : LLMIKnown(prog.llmis[k], config, prog)
  /\ start[n + 1] = Len(file) + 1

\* What was read, field by field.
Got(mc, ins, outs, count, ms) ==
  [memory_count |-> mc, inputs |-> ins, outputs |-> outs, llmi_count |-> count, llmis |-> ms]

\* An LLMI as it is kept by the reader.
Item == [inputs : Seq(Nat), outputs : Seq(Nat), instrID : Nat, reveal_flag : Nat,
         inputIDs : Seq(Nat \X Nat), code : Seq(Byte), seq : Seq(LLI)]

ItemOf(mi, code, seq) ==
  [inputs |-> mi.inputs, outputs |-> mi.outputs, instrID |-> mi.instrID,
   reveal_flag |-> mi.reveal_flag, inputIDs |-> mi.inputIDs, code |-> code, seq |-> seq]

\* It has what the compiler was given, and the bytes of its snippet.
Stored(x, mi) ==
  /\ x = ItemOf(mi, x.code, x.seq)
  /\ x \in Item
  /\ Holds(x.code, 1, LLSFields(mi.seq, WR, WC), Len(x.code) + 1)

\* The lists of cells were read, and some LLMIs.
GotHeader ==
  /\ got = Got(prog.memory_count, prog.inputs, prog.outputs, N, got.llmis)
  /\ got.llmis \in Seq(Item)
  /\ \A k \in 1 .. Len(got.llmis) : Stored(got.llmis[k], prog.llmis[k])

\* The first i of the LLIs of a snippet are taken apart; the next one is at p.
Taken(x, s, i, at, p) ==
  /\ Parted(x.code, 1, [j \in DOMAIN s |-> LLIFields(s[j], WR, WC)], Len(x.code) + 1, at)
  /\ i \in 0 .. Len(s) /\ p = at[i + 1]
  /\ Len(x.seq) = i /\ \A j \in 1 .. i : x.seq[j] = s[j]

\* Where the reader can be.
InMeta == hpc = "meta" /\ cur = 1 /\ pos = 1 /\ got = Got(0, <<>>, <<>>, 0, <<>>)
BadMeta == hpc = "bad_meta" /\ se # config /\ pos = 1
InProg == /\ hpc = "prog" /\ se = config /\ cur = 1 /\ pos = 1 + 7 * U32 + CT
          /\ got = Got(prog.memory_count, <<>>, <<>>, 0, <<>>)
InLLMI(start) ==
  /\ hpc = "llmi" /\ se = config /\ cur \in 1 .. N + 1 /\ pos = start[cur]
  /\ GotHeader /\ Len(got.llmis) = cur - 1
  /\ \A k \in 1 .. cur - 1 : got.llmis[k].seq = <<>>
InLLS ==
  /\ hpc = "lls" /\ se = config /\ cur \in 1 .. N + 1
  /\ GotHeader /\ Len(got.llmis) = N
  /\ \A k \in 1 .. N : /\ k < cur => got.llmis[k].seq = prog.llmis[k].seq
                       /\ k > cur => got.llmis[k].seq = <<>>
  /\ cur =< N => \E i, at : Taken(got.llmis[cur], prog.llmis[cur].seq, i, at, pos)
  /\ cur = N + 1 => pos = 1
IsDone ==
  /\ hpc = "done" /\ se = config /\ pos = 1
  /\ GotHeader /\ Len(got.llmis) = N
  /\ \A k \in 1 .. N : got.llmis[k].seq = prog.llmis[k].seq

Reader(start) == InMeta \/ BadMeta \/ InProg \/ InLLMI(start) \/ InLLS \/ IsDone

\* Where the writer can be, before there is a reader.
Writing ==
  /\ hpc = "idle" /\ pos = 1 /\ got = Got(0, <<>>, <<>>, 0, <<>>)
  /\ \/ wpc = "header" /\ file = <<>> /\ cur = 1
     \/ wpc = "llmi" /\ cur \in 1 .. N + 1 /\ \E start : Written(cur - 1, start)
     \/ wpc = "error"

\* The reader at work on a whole file.
Reading == wpc = "done" /\ \E start : Written(N, start) /\ Reader(start)

\* The inductive invariant.
BInv == Given /\ file \in Seq(Byte) /\ (Writing \/ Reading)

\* Nothing is written or read.
LEMMA InitHolds ==
  ASSUME BInit
  PROVE  BInv
  BY DEF BInit, BInv, Given, Writing, Got

\* What the reader's steps leave alone.
LEMMA WriterKept ==
  ASSUME BInv, UNCHANGED <<writer, se>>
  PROVE  /\ Given' /\ file' \in Seq(Byte) /\ N' = N /\ wpc' = wpc
         /\ \A n, start : Written(n, start) => Written(n, start)'
         /\ WR' = WR /\ WC' = WC
<1>1. config' = config /\ prog' = prog /\ file' = file /\ se' = se /\ wpc' = wpc
  BY DEF writer
<1>2. Given' /\ file' \in Seq(Byte)
  BY <1>1 DEF BInv, Given
<1>3. N' = N /\ WR' = WR /\ WC' = WC
  BY <1>1 DEF N, WR, WC
<1>4. ASSUME NEW n, NEW start, Written(n, start) PROVE Written(n, start)'
  BY <1>1, <1>4 DEF Written
<1>5. QED
  BY <1>1, <1>2, <1>3, <1>4

\* The header is appended, or does not fit.
LEMMA WriteHeaderHolds ==
  ASSUME BInv, WriteHeader
  PROVE  BInv'
<1>1. /\ wpc = "header" /\ config' = config /\ se' = se /\ prog' = prog
      /\ hpc' = hpc /\ cur' = cur /\ pos' = pos /\ got' = got
      /\ Flush(HeaderKnown(prog), HeaderFields(config, prog))
  BY DEF WriteHeader
<1>2. Given /\ file = <<>> /\ cur = 1 /\ hpc = "idle" /\ pos = 1 /\ got = Got(0, <<>>, <<>>, 0, <<>>)
  BY <1>1 DEF BInv, Writing, Reading
<1>3. Given' /\ N' = N /\ N \in Nat
  BY <1>1, <1>2, ProgramGiven DEF Given, N
<1>4. CASE ~ (HeaderKnown(prog) /\ AllFit(HeaderFields(config, prog)))
  <2>1. wpc' = "error" /\ file' = file
    BY <1>1, <1>4 DEF Flush
  <2>2. Writing'
    BY <1>1, <1>2, <2>1 DEF Writing
  <2>3. QED BY <1>2, <1>3, <2>1, <2>2 DEF BInv
<1>5. CASE HeaderKnown(prog) /\ AllFit(HeaderFields(config, prog))
  <2> DEFINE hf == HeaderFields(config, prog)
  <2>1. wpc' = "llmi" /\ file' = file \o Bytes(hf)
    BY <1>1, <1>5 DEF Flush
  <2>2. hf \in Seq(FieldSet) /\ AllFit(hf)
    BY <1>2, <1>5, HeaderIsFields
  <2>3. file \in Seq(Byte) /\ Len(file) = 0
    BY <1>2
  <2> HIDE DEF hf
  <2>4. Bytes(hf) \in Seq(Byte) /\ Holds(file', Len(file) + 1, hf, Len(file') + 1)
    BY <2>1, <2>2, <2>3, WrittenIsHeld
  <2>5. file' \in Seq(Byte)
    BY <2>1, <2>3, <2>4
  <2>6. Holds(file', 1, HeaderFields(config', prog'), Len(file') + 1)
    BY <1>1, <2>3, <2>4 DEF hf
  <2>6a. PICK start : start = [k \in 1 .. 1 |-> Len(file') + 1]
    OBVIOUS
  <2>6b. PICK nul : nul = 0
    OBVIOUS
  <2>7. Written(nul, start)'
    <3>1. Len(file') + 1 \in Nat
      BY <2>5
    <3>2. start \in [1 .. nul + 1 -> Nat] /\ start[1] = Len(file') + 1 /\ start[nul + 1] = Len(file') + 1
      BY <3>1, <2>6a, <2>6b
    <3>3. \A k \in 1 .. nul : FALSE
      BY <2>6b
    <3>4. QED BY <2>6, <3>2, <3>3 DEF Written
  <2>8. cur' \in 1 .. N' + 1 /\ cur' - 1 = nul
    BY <1>1, <1>2, <1>3, <2>6b
  <2>9. Writing'
    BY <1>1, <1>2, <2>1, <2>7, <2>8 DEF Writing
  <2>10. QED BY <1>3, <2>5, <2>9 DEF BInv
<1>6. QED
  BY <1>4, <1>5

\* An LLMI is appended behind the others, or does not fit.
LEMMA WriteLLMIHolds ==
  ASSUME BInv, WriteLLMI
  PROVE  BInv'
<1>1. /\ wpc = "llmi" /\ config' = config /\ se' = se /\ prog' = prog
      /\ hpc' = hpc /\ cur' = cur + 1 /\ pos' = pos /\ got' = got
      /\ cur =< N
      /\ Flush(LLMIKnown(prog.llmis[cur], config, prog), LLMIFields(prog.llmis[cur], config, prog))
  BY DEF WriteLLMI, N
<1>2. /\ Given /\ file \in Seq(Byte) /\ hpc = "idle" /\ pos = 1 /\ got = Got(0, <<>>, <<>>, 0, <<>>)
      /\ cur \in 1 .. N + 1 /\ \E start : Written(cur - 1, start)
  BY <1>1 DEF BInv, Writing, Reading
<1>3. Given' /\ N' = N /\ N \in Nat
  BY <1>1, <1>2, ProgramGiven DEF Given, N
<1>4. cur \in 1 .. N /\ cur \in Nat /\ cur + 1 \in 1 .. N + 1 /\ (cur - 1) + 1 = cur /\ (cur + 1) - 1 = cur
  BY <1>1, <1>2, <1>3
<1> DEFINE mi == prog.llmis[cur]
<1> DEFINE lf == LLMIFields(mi, config, prog)
<1>5. LLMIFit(mi)
  BY <1>2, <1>4, FitGiven DEF N
<1>6. lf \in Seq(FieldSet)
  BY <1>2, <1>5, LLMIIsFields
<1>7. CASE ~ (LLMIKnown(mi, config, prog) /\ AllFit(lf))
  <2>1. wpc' = "error" /\ file' = file
    BY <1>1, <1>7 DEF Flush
  <2>2. Writing'
    BY <1>1, <1>2, <2>1 DEF Writing
  <2>3. QED BY <1>2, <1>3, <2>1, <2>2 DEF BInv
<1>8. CASE LLMIKnown(mi, config, prog) /\ AllFit(lf)
  <2>1. wpc' = "llmi" /\ file' = file \o Bytes(lf)
    BY <1>1, <1>8 DEF Flush
  <2>2. Bytes(lf) \in Seq(Byte) /\ Holds(file', Len(file) + 1, lf, Len(file') + 1)
    <3> HIDE DEF lf
    <3>1. QED BY <1>2, <1>6, <1>8, <2>1, WrittenIsHeld
  <2>3. file' \in Seq(Byte) /\ Len(file') + 1 \in Nat
    BY <1>2, <2>1, <2>2
  <2>4. PICK start : Written(cur - 1, start)
    BY <1>2
  <2>5. /\ start \in [1 .. cur -> Nat] /\ start[cur] = Len(file) + 1
        /\ Holds(file, 1, HeaderFields(config, prog), start[1])
        /\ \A k \in 1 .. cur - 1 :
             Holds(file, start[k], LLMIFields(prog.llmis[k], config, prog), start[k + 1])
        /\ \A k \in 1 .. cur - 1 : LLMIKnown(prog.llmis[k], config, prog)
    BY <1>4, <2>4 DEF Written
  <2>5a. PICK next : next = [k \in 1 .. cur + 1 |-> IF k = cur + 1 THEN Len(file') + 1 ELSE start[k]]
    OBVIOUS
  <2>6. /\ next \in [1 .. cur + 1 -> Nat] /\ next[cur + 1] = Len(file') + 1
        /\ \A k \in 1 .. cur : next[k] = start[k]
    <3>1. \A k \in 1 .. cur + 1 : (IF k = cur + 1 THEN Len(file') + 1 ELSE start[k]) \in Nat
      BY <1>4, <2>3, <2>5
    <3>2. next \in [1 .. cur + 1 -> Nat]
      BY <3>1, <2>5a
    <3>3. cur + 1 \in 1 .. cur + 1 /\ \A k \in 1 .. cur : k \in 1 .. cur + 1 /\ k # cur + 1
      BY <1>4
    <3>4. QED BY <2>5a, <3>2, <3>3
  <2>6a. \A k \in 1 .. cur : LLMIKnown(prog.llmis[k], config, prog)
    <3>1. \A k \in 1 .. cur : k = cur \/ k \in 1 .. cur - 1
      BY <1>4
    <3>2. LLMIKnown(prog.llmis[cur], config, prog)
      BY <1>8
    <3>3. QED BY <2>5, <3>1, <3>2
  <2> HIDE DEF lf, mi
  <2>7. Holds(file', 1, HeaderFields(config, prog), next[1])
    BY <1>4, <2>1, <2>2, <2>5, <2>6, HeldIsKept
  <2>8. ASSUME NEW k \in 1 .. cur
        PROVE  Holds(file', next[k], LLMIFields(prog.llmis[k], config, prog), next[k + 1])
    <3>1. CASE k = cur
      <4>1. next[k] = Len(file) + 1 /\ next[k + 1] = Len(file') + 1
        BY <1>4, <2>5, <2>6, <3>1
      <4>2. QED BY <2>2, <3>1, <4>1 DEF lf, mi
    <3>2. CASE k # cur
      <4>1. k \in 1 .. cur - 1 /\ k + 1 \in 1 .. cur
        BY <1>4, <3>2
      <4>2. Holds(file, start[k], LLMIFields(prog.llmis[k], config, prog), start[k + 1])
        BY <2>5, <4>1
      <4>3. next[k] = start[k] /\ next[k + 1] = start[k + 1]
        BY <2>6, <4>1
      <4>4. QED BY <2>1, <2>2, <4>2, <4>3, HeldIsKept
    <3>3. QED BY <3>1, <3>2
  <2>8a. PICK n : n = cur
    OBVIOUS
  <2>9. Written(n, next)'
    BY <1>1, <2>6, <2>6a, <2>7, <2>8, <2>8a DEF Written
  <2>10. cur' - 1 = n /\ cur' \in 1 .. N' + 1
    BY <1>1, <1>3, <1>4, <2>8a
  <2>11. Writing'
    BY <1>1, <1>2, <2>1, <2>9, <2>10 DEF Writing
  <2>12. QED BY <1>3, <2>3, <2>11 DEF BInv
<1>9. QED
  BY <1>7, <1>8

\* The file is whole.
LEMMA WriteEndHolds ==
  ASSUME BInv, WriteEnd
  PROVE  BInv'
<1>1. /\ wpc = "llmi" /\ config' = config /\ se' = se /\ prog' = prog /\ file' = file
      /\ hpc' = "meta" /\ cur' = 1 /\ pos' = pos /\ got' = got /\ wpc' = "done"
      /\ cur > N
  BY DEF WriteEnd, N
<1>2. /\ Given /\ file \in Seq(Byte) /\ pos = 1 /\ got = Got(0, <<>>, <<>>, 0, <<>>)
      /\ cur \in 1 .. N + 1 /\ \E start : Written(cur - 1, start)
  BY <1>1 DEF BInv, Writing, Reading
<1>3. Given' /\ N' = N /\ N \in Nat /\ file' \in Seq(Byte)
  BY <1>1, <1>2, ProgramGiven DEF Given, N
<1>4. cur - 1 = N
  BY <1>1, <1>2, <1>3
<1>5. PICK start : Written(N, start)
  BY <1>2, <1>4
<1>6. Written(N, start)'
  BY <1>1, <1>3, <1>5 DEF Written
<1>7. InMeta'
  BY <1>1, <1>2 DEF InMeta
<1>8. Reading'
  BY <1>1, <1>6, <1>7 DEF Reading, Reader
<1>9. QED
  BY <1>3, <1>8 DEF BInv

\* What a step of the reader has to show.
LEMMA ReaderStep ==
  ASSUME BInv, wpc = "done", UNCHANGED <<writer, se>>,
         NEW start, Written(N, start), Reader(start)'
  PROVE  BInv'
<1>1. /\ Given' /\ file' \in Seq(Byte) /\ N' = N /\ wpc' = "done"
      /\ Written(N, start) => Written(N, start)'
  <2>1. PICK n : n = N
    OBVIOUS
  <2>2. /\ Given' /\ file' \in Seq(Byte) /\ N' = N /\ wpc' = wpc
        /\ Written(n, start) => Written(n, start)'
    BY WriterKept
  <2>3. QED BY <2>1, <2>2 DEF Written
<1>2. Reading'
  BY <1>1 DEF Reading
<1>3. QED
  BY <1>1, <1>2 DEF BInv

\* A reader at work reads a file that was written to its end.
LEMMA ReaderGiven ==
  ASSUME BInv, hpc # "idle"
  PROVE  /\ Given /\ file \in Seq(Byte) /\ wpc = "done" /\ N \in Nat
         /\ \E start : Written(N, start) /\ Reader(start)
  BY ProgramGiven DEF BInv, Writing, Reading, N

\* No LLMI starts outside of the file.
LEMMA StartsIn ==
  ASSUME BInv, NEW start, Written(N, start), N \in Nat
  PROVE  \A k \in 1 .. N + 1 : start[k] \in 1 .. Len(file) + 1
<1>1. start[1] \in 1 .. Len(file) + 1
  BY DEF Written, Holds
<1>2. ASSUME NEW k \in 1 .. N PROVE start[k + 1] \in 1 .. Len(file) + 1
  <2>1. Holds(file, start[k], LLMIFields(prog.llmis[k], config, prog), start[k + 1])
    BY DEF Written
  <2> DEFINE a == start[k]
  <2> DEFINE b == start[k + 1]
  <2> DEFINE lf == LLMIFields(prog.llmis[k], config, prog)
  <2>2. Holds(file, a, lf, b)
    BY <2>1
  <2> HIDE DEF a, b, lf
  <2>3. file \in Seq(Byte) /\ a \in Nat /\ b \in Nat /\ 1 =< a /\ a =< b /\ b =< Len(file) + 1
    BY <2>2 DEF Holds
  <2>4. b \in 1 .. Len(file) + 1
    BY <2>3
  <2>5. QED BY <2>4 DEF b
<1>3. \A k \in 1 .. N + 1 : k = 1 \/ (k - 1 \in 1 .. N /\ (k - 1) + 1 = k)
  OBVIOUS
<1>4. QED
  BY <1>1, <1>2, <1>3

\* Shapes with the same metadata are the same.
LEMMA MetadataTells ==
  ASSUME NEW c \in Configs, NEW d \in Configs, Metadata(c) = Metadata(d)
  PROVE  c = d
<1>1. /\ c \in [l_in : Nat, l_out : Nat, r : Nat, s : Nat, word_size : Nat]
      /\ d \in [l_in : Nat, l_out : Nat, r : Nat, s : Nat, word_size : Nat]
  BY ConfigsAssumption
<1>2. c.word_size = d.word_size /\ c.l_in = d.l_in /\ c.l_out = d.l_out /\ c.r = d.r /\ c.s = d.s
  BY DEF Metadata
<1>3. QED
  BY <1>1, <1>2

\* interpret_meta() goes on for the shape of the file and for no other.
LEMMA ReadMetaHolds ==
  ASSUME BInv, ReadMeta
  PROVE  BInv'
<1>1. hpc = "meta" /\ UNCHANGED <<writer, se>>
  BY DEF ReadMeta
<1>2. Given /\ file \in Seq(Byte) /\ wpc = "done" /\ N \in Nat
  BY <1>1, ReaderGiven
<1>3. PICK start : Written(N, start) /\ Reader(start)
  BY <1>1, ReaderGiven
<1>4. cur = 1 /\ pos = 1 /\ got = Got(0, <<>>, <<>>, 0, <<>>)
  BY <1>1, <1>3 DEF Reader, InMeta, BadMeta, InProg, InLLMI, InLLS, IsDone
<1>5. HeaderRead(file, start[1])
  BY <1>2, <1>3, HeaderIsRead DEF Written
<1>6. LoadCells(pos, 6, U32) = Metadata(config) /\ load_bytes(pos + 6 * U32, U32) = prog.memory_count
  BY <1>4, <1>5 DEF HeaderRead, LoadCells, load_bytes
<1>7. CASE LoadCells(pos, 6, U32) # Metadata(se)
  <2>1. hpc' = "bad_meta" /\ pos' = pos
    BY <1>7 DEF ReadMeta, Stop
  <2>2. se # config /\ se' = se /\ config' = config
    BY <1>1, <1>6, <1>7 DEF writer
  <2>3. BadMeta'
    BY <1>4, <2>1, <2>2 DEF BadMeta
  <2>4. QED BY <1>1, <1>2, <1>3, <2>3, ReaderStep DEF Reader
<1>8. CASE LoadCells(pos, 6, U32) = Metadata(se)
  <2>1. /\ hpc' = "prog" /\ pos' = pos + 7 * U32 + CT /\ cur' = cur
        /\ got' = [got EXCEPT !.memory_count = load_bytes(pos + 6 * U32, U32)]
    BY <1>8 DEF ReadMeta
  <2>2. se = config
    BY <1>2, <1>6, <1>8, MetadataTells DEF Given
  <2>3. got' = Got(prog.memory_count, <<>>, <<>>, 0, <<>>)
    BY <1>4, <1>6, <2>1 DEF Got
  <2>4. se' = config' /\ prog' = prog
    BY <1>1, <2>2 DEF writer
  <2>5. InProg'
    BY <1>4, <2>1, <2>3, <2>4 DEF InProg
  <2>6. QED BY <1>1, <1>2, <1>3, <2>5, ReaderStep DEF Reader
<1>9. QED
  BY <1>7, <1>8

\* A list of cells, as the host loads it.
LEMMA CellsAreLoaded ==
  ASSUME lb_m = WM, NEW p, NEW cells, NEW e, ReadsCells(file, p, cells, e)
  PROVE  /\ load_bytes(p, lb_m) = Len(cells)
         /\ p + (load_bytes(p, lb_m) + 1) * lb_m = e
         /\ LoadCells(p + lb_m, load_bytes(p, lb_m), lb_m) = cells
<1>1. load_bytes(p, lb_m) = Len(cells)
  BY DEF load_bytes, ReadsCells
<1>2. p + (load_bytes(p, lb_m) + 1) * lb_m = e
  BY <1>1 DEF ReadsCells
<1>3. LoadCells(p + lb_m, load_bytes(p, lb_m), lb_m)
        = [j \in 1 .. Len(cells) |-> BigEndian(file, p + WM + (j - 1) * WM, WM)]
  BY <1>1 DEF LoadCells, load_bytes
<1>4. QED
  BY <1>1, <1>2, <1>3 DEF ReadsCells

\* interpret_prog() reads the lists of cells.
LEMMA ReadProgHolds ==
  ASSUME BInv, ReadProg
  PROVE  BInv'
<1>1. hpc = "prog" /\ UNCHANGED <<writer, se>>
  BY DEF ReadProg
<1>2. Given /\ file \in Seq(Byte) /\ wpc = "done" /\ N \in Nat
  BY <1>1, ReaderGiven
<1>3. PICK start : Written(N, start) /\ Reader(start)
  BY <1>1, ReaderGiven
<1>4. /\ se = config /\ cur = 1 /\ pos = 1 + 7 * U32 + CT
      /\ got = Got(prog.memory_count, <<>>, <<>>, 0, <<>>)
  BY <1>1, <1>3 DEF Reader, InMeta, BadMeta, InProg, InLLMI, InLLS, IsDone
<1>5. HeaderRead(file, start[1])
  BY <1>2, <1>3, HeaderIsRead DEF Written
<1>6. PICK p2, p3 : /\ ReadsCells(file, pos, prog.inputs, p2)
                    /\ ReadsCells(file, p2, prog.outputs, p3)
                    /\ BigEndian(file, p3, U32) = N
                    /\ start[1] = p3 + U32
  BY <1>4, <1>5 DEF HeaderRead, N
<1>7. lb_m = WM /\ WM \in 1 .. 4
  BY <1>2, <1>4, WidthsGiven DEF lb_m, Got
<1> DEFINE ins == load_bytes(pos, lb_m)
<1>8. pos + (ins + 1) * lb_m = p2 /\ LoadCells(pos + lb_m, ins, lb_m) = prog.inputs
  BY <1>6, <1>7, CellsAreLoaded
<1> DEFINE outs == load_bytes(p2, lb_m)
<1>9. p2 + (outs + 1) * lb_m = p3 /\ LoadCells(p2 + lb_m, outs, lb_m) = prog.outputs
  BY <1>6, <1>7, CellsAreLoaded
<1>10. 1 \in 1 .. N + 1 /\ start[1] \in 1 .. Len(file) + 1 /\ Len(file) \in Nat
  BY <1>2, <1>3, StartsIn
<1>11. ~ (lb_m = 0) /\ ~ (p3 + U32 > Len(file) + 1)
  BY <1>6, <1>7, <1>10
<1>12. /\ hpc' = "llmi" /\ pos' = p3 + U32 /\ cur' = cur
       /\ got' = [got EXCEPT !.inputs = LoadCells(pos + lb_m, ins, lb_m),
                             !.outputs = LoadCells(p2 + lb_m, outs, lb_m),
                             !.llmi_count = load_bytes(p3, U32)]
  BY <1>8, <1>9, <1>11 DEF ReadProg
<1> HIDE DEF ins, outs
<1>13. load_bytes(p3, U32) = N
  BY <1>6 DEF load_bytes
<1>14. got' = Got(prog.memory_count, prog.inputs, prog.outputs, N, <<>>)
  BY <1>4, <1>8, <1>9, <1>12, <1>13 DEF Got
<1>15. prog' = prog /\ se' = config' /\ N' = N
  BY <1>1, <1>4 DEF writer, N
<1>16. GotHeader' /\ Len(got'.llmis) = 0
  <2>1. got'.llmis = <<>>
    BY <1>14 DEF Got
  <2>2. Len(got'.llmis) = 0 /\ got'.llmis \in Seq(Item) /\ \A k \in 1 .. Len(got'.llmis) : FALSE
    BY <2>1
  <2>3. QED BY <1>14, <1>15, <2>1, <2>2 DEF GotHeader
<1>17. cur' = 1 /\ cur' \in 1 .. N' + 1 /\ cur' - 1 = 0 /\ \A k \in 1 .. cur' - 1 : FALSE
  BY <1>2, <1>4, <1>12, <1>15
<1>18. InLLMI(start)'
  BY <1>6, <1>12, <1>15, <1>16, <1>17 DEF InLLMI
<1>19. QED
  BY <1>1, <1>2, <1>3, <1>18, ReaderStep DEF Reader

\* The list of LLMIs with one more, or with another.
LEMMA OneMoreItem ==
  ASSUME NEW ms \in Seq(Item), NEW x \in Item
  PROVE  /\ Append(ms, x) \in Seq(Item) /\ Len(Append(ms, x)) = Len(ms) + 1
         /\ Append(ms, x)[Len(ms) + 1] = x
         /\ \A k \in 1 .. Len(ms) : Append(ms, x)[k] = ms[k]
         /\ Len(ms) \in Nat
  OBVIOUS

\* One of them is replaced.
LEMMA OtherItem ==
  ASSUME NEW ms \in Seq(Item), NEW c \in 1 .. Len(ms), NEW x \in Item
  PROVE  /\ [ms EXCEPT ![c] = x] \in Seq(Item) /\ Len([ms EXCEPT ![c] = x]) = Len(ms)
         /\ [ms EXCEPT ![c] = x][c] = x
         /\ \A k \in 1 .. Len(ms) : k # c => [ms EXCEPT ![c] = x][k] = ms[k]
<1>1. Len(ms) \in Nat /\ DOMAIN ms = 1 .. Len(ms) /\ ms \in [1 .. Len(ms) -> Item]
  OBVIOUS
<1>2. [ms EXCEPT ![c] = x] \in [1 .. Len(ms) -> Item]
  BY <1>1
<1>3. [ms EXCEPT ![c] = x] \in Seq(Item) /\ Len([ms EXCEPT ![c] = x]) = Len(ms)
  BY <1>1, <1>2, FunctionIsSeq
<1>4. QED
  BY <1>1, <1>3

\* What the reader keeps of an LLMI is an item.
LEMMA ItemIsStored ==
  ASSUME NEW mi, LLMIFit(mi), NEW code \in Seq(Byte), NEW seq \in Seq(LLI),
         Holds(code, 1, LLSFields(mi.seq, WR, WC), Len(code) + 1)
  PROVE  /\ Stored(ItemOf(mi, code, seq), mi) /\ ItemOf(mi, code, seq) \in Item
         /\ ItemOf(mi, code, seq).seq = seq /\ ItemOf(mi, code, seq).code = code
<1>1. ItemOf(mi, code, seq).seq = seq /\ ItemOf(mi, code, seq).code = code
  BY DEF ItemOf
<1>2. ItemOf(mi, code, seq) \in Item
  BY DEF ItemOf, Item, LLMIFit
<1>3. QED
  BY <1>1, <1>2 DEF Stored

\* An LLMI is read up to the start of the next.
LEMMA ReadLLMIHolds ==
  ASSUME BInv, ReadLLMI
  PROVE  BInv'
<1>1. hpc = "llmi" /\ cur =< got.llmi_count /\ UNCHANGED <<writer, se>>
  BY DEF ReadLLMI
<1>2. Given /\ file \in Seq(Byte) /\ wpc = "done" /\ N \in Nat
  BY <1>1, ReaderGiven
<1>3. PICK start : Written(N, start) /\ Reader(start)
  BY <1>1, ReaderGiven
<1>4. /\ se = config /\ cur \in 1 .. N + 1 /\ pos = start[cur] /\ GotHeader /\ Len(got.llmis) = cur - 1
      /\ \A k \in 1 .. cur - 1 : got.llmis[k].seq = <<>>
  BY <1>1, <1>3 DEF Reader, InMeta, BadMeta, InProg, InLLMI, InLLS, IsDone
<1>5. /\ got = Got(prog.memory_count, prog.inputs, prog.outputs, N, got.llmis)
      /\ got.llmis \in Seq(Item)
      /\ \A k \in 1 .. Len(got.llmis) : Stored(got.llmis[k], prog.llmis[k])
  BY <1>4 DEF GotHeader
<1>6. got.llmi_count = N /\ got.memory_count = prog.memory_count
  BY <1>5 DEF Got
<1>7. cur \in 1 .. N /\ cur + 1 \in 1 .. N + 1
  BY <1>1, <1>2, <1>4, <1>6
<1> DEFINE mi == prog.llmis[cur]
<1> DEFINE e == start[cur + 1]
<1>8. LLMIFit(mi)
  BY <1>2, <1>7, FitGiven DEF N
<1>9. LLMIRead(file, pos, mi, e)
  <2>1. Holds(file, pos, LLMIFields(mi, config, prog), e)
    BY <1>3, <1>4, <1>7 DEF Written
  <2> HIDE DEF mi, e
  <2>2. QED BY <1>2, <1>8, <2>1, LLMIIsRead
<1> HIDE DEF mi, e
<1>10. PICK p2, p3, p5 \in Nat :
         /\ ReadsCells(file, pos, mi.inputs, p2)
         /\ ReadsCells(file, p2, mi.outputs, p3)
         /\ BigEndian(file, p3, U32) = mi.instrID
         /\ BigEndian(file, p3 + U32, 1) = mi.reveal_flag
         /\ p5 = p3 + U32 + 1 + Len(mi.inputs) * (U32 + WO)
         /\ [j \in 1 .. Len(mi.inputs) |->
               <<BigEndian(file, p3 + U32 + 1 + (j - 1) * (U32 + WO), U32),
                 BigEndian(file, p3 + U32 + 1 + (j - 1) * (U32 + WO) + U32, WO)>>] = mi.inputIDs
         /\ p5 + U32 =< e /\ e =< Len(file) + 1 /\ e \in Nat
         /\ e = p5 + U32 + BigEndian(file, p5, U32)
         /\ LET code == SubSeq(file, p5 + U32, e - 1 - MAC)
            IN  Len(code) \in Nat /\ Holds(code, 1, LLSFields(mi.seq, WR, WC), Len(code) + 1)
  BY <1>9 DEF LLMIRead
<1>11. lb_m = WM /\ lb_o = WO /\ WO \in 1 .. 4
  BY <1>2, <1>4, <1>6, WidthsGiven, ElementWidths DEF lb_m
<1> DEFINE ins == load_bytes(pos, lb_m)
<1>12. /\ ins = Len(mi.inputs) /\ pos + (ins + 1) * lb_m = p2
       /\ LoadCells(pos + lb_m, ins, lb_m) = mi.inputs
  BY <1>10, <1>11, CellsAreLoaded
<1> DEFINE outs == load_bytes(p2, lb_m)
<1>13. p2 + (outs + 1) * lb_m = p3 /\ LoadCells(p2 + lb_m, outs, lb_m) = mi.outputs
  BY <1>10, <1>11, CellsAreLoaded
<1> DEFINE p4 == p3 + U32 + 1
<1> DEFINE ID(j) == <<load_bytes(p4 + (j - 1) * (U32 + lb_o), U32),
                      load_bytes(p4 + (j - 1) * (U32 + lb_o) + U32, lb_o)>>
<1>14. [j \in 1 .. ins |-> ID(j)] = mi.inputIDs /\ p4 + ins * (U32 + lb_o) = p5
  <2> HIDE DEF ins
  <2>1. QED BY <1>10, <1>11, <1>12 DEF load_bytes
<1>15. p5 + U32 + load_bytes(p5, U32) = e
  BY <1>10 DEF load_bytes
<1>16. ~ (ins > 0 /\ lb_o = 0) /\ ~ (p5 + U32 > Len(file) + 1 \/ e > Len(file) + 1)
  <2>1. Len(file) \in Nat /\ U32 \in Nat
    BY <1>2 DEF U32
  <2>2. ~ (p5 + U32 > Len(file) + 1 \/ e > Len(file) + 1)
    BY <1>10, <2>1
  <2>3. ~ (lb_o = 0)
    BY <1>11
  <2>4. QED BY <2>2, <2>3
<1> DEFINE code == SubSeq(file, p5 + U32, e - 1 - MAC)
<1> DEFINE x == [inputs  |-> LoadCells(pos + lb_m, ins, lb_m),
                 outputs |-> LoadCells(p2 + lb_m, outs, lb_m),
                 instrID |-> load_bytes(p3, U32),
                 reveal_flag |-> load_bytes(p3 + U32, 1),
                 inputIDs |-> [j \in 1 .. ins |-> ID(j)],
                 code |-> code,
                 seq  |-> <<>>]
<1>17. /\ got' = [got EXCEPT !.llmis = Append(@, x)]
       /\ pos' = e /\ cur' = cur + 1 /\ hpc' = hpc
  <2> DEFINE q2 == pos + (ins + 1) * lb_m
  <2> DEFINE os == load_bytes(q2, lb_m)
  <2> DEFINE q3 == q2 + (os + 1) * lb_m
  <2> DEFINE q4 == q3 + U32 + 1
  <2> DEFINE Pair(j) == <<load_bytes(q4 + (j - 1) * (U32 + lb_o), U32),
                          load_bytes(q4 + (j - 1) * (U32 + lb_o) + U32, lb_o)>>
  <2> DEFINE q5 == q4 + ins * (U32 + lb_o)
  <2> DEFINE end == q5 + U32 + load_bytes(q5, U32)
  <2> DEFINE y == [inputs  |-> LoadCells(pos + lb_m, ins, lb_m),
                   outputs |-> LoadCells(q2 + lb_m, os, lb_m),
                   instrID |-> load_bytes(q3, U32),
                   reveal_flag |-> load_bytes(q3 + U32, 1),
                   inputIDs |-> [j \in 1 .. ins |-> Pair(j)],
                   code |-> SubSeq(file, q5 + U32, end - 1 - MAC),
                   seq  |-> <<>>]
  <2>1. ~ (ins > 0 /\ lb_o = 0) /\ ~ (q5 + U32 > Len(file) + 1 \/ end > Len(file) + 1)
        => /\ got' = [got EXCEPT !.llmis = Append(@, y)]
           /\ pos' = end /\ cur' = cur + 1 /\ hpc' = hpc
    BY DEF ReadLLMI
  <2>2. q2 = p2
    BY <1>12
  <2>3. os = outs
    BY <2>2
  <2>4. q3 = p3
    <3> HIDE DEF q2, os, outs
    <3>1. QED BY <1>13, <2>2, <2>3
  <2>5. q4 = p4
    BY <2>4
  <2>6. q5 = p5
    <3> HIDE DEF q4, p4, ins
    <3>1. QED BY <1>14, <2>5
  <2>7. end = e
    <3> HIDE DEF q5
    <3>1. QED BY <1>15, <2>6
  <2> HIDE DEF q2, os, q3, q4, q5, end, ins, outs, p4
  <2>8. [j \in 1 .. ins |-> Pair(j)] = [j \in 1 .. ins |-> ID(j)]
    BY <2>5
  <2>9. y = x
    <3> HIDE DEF Pair, ID
    <3>1. QED BY <2>2, <2>3, <2>4, <2>6, <2>7, <2>8
  <2> HIDE DEF y, x, Pair
  <2>10. QED BY <1>16, <2>1, <2>6, <2>7, <2>9
<1>18. x = ItemOf(mi, code, <<>>)
  <2>1. load_bytes(p3, U32) = mi.instrID /\ load_bytes(p3 + U32, 1) = mi.reveal_flag
    BY <1>10 DEF load_bytes
  <2> HIDE DEF ins, outs, ID, code
  <2>2. QED BY <1>12, <1>13, <1>14, <2>1 DEF ItemOf
<1>19. code \in Seq(Byte) /\ Holds(code, 1, LLSFields(mi.seq, WR, WC), Len(code) + 1)
  <2>1. Holds(code, 1, LLSFields(mi.seq, WR, WC), Len(code) + 1)
    BY <1>10
  <2> HIDE DEF code
  <2>2. QED BY <2>1 DEF Holds
<1> HIDE DEF ins, outs, ID, code, x
<1>20. Stored(x, mi) /\ x \in Item /\ x.seq = <<>>
  <2>1. <<>> \in Seq(LLI)
    OBVIOUS
  <2>2. QED BY <1>8, <1>18, <1>19, <2>1, ItemIsStored
<1> DEFINE ms == Append(got.llmis, x)
<1>21. /\ ms \in Seq(Item) /\ Len(ms) = cur
       /\ \A k \in 1 .. cur : ms[k].seq = <<>> /\ Stored(ms[k], prog.llmis[k])
  <2>1. Len(got.llmis) \in Nat /\ Len(got.llmis) + 1 = cur
    BY <1>4, <1>5
  <2>2. ms \in Seq(Item) /\ Len(ms) = cur /\ ms[cur] = x /\ \A k \in 1 .. cur - 1 : ms[k] = got.llmis[k]
    BY <1>4, <1>5, <1>20, <2>1, OneMoreItem
  <2>3. \A k \in 1 .. cur : k = cur \/ k \in 1 .. cur - 1
    BY <1>7
  <2> HIDE DEF ms
  <2>4. QED BY <1>4, <1>5, <1>20, <2>2, <2>3 DEF mi
<1>22. got' = Got(prog.memory_count, prog.inputs, prog.outputs, N, ms)
  <2> DEFINE old == got.llmis
  <2>1. got = Got(prog.memory_count, prog.inputs, prog.outputs, N, old)
    BY <1>5
  <2>2. got' = [got EXCEPT !.llmis = Append(old, x)]
    BY <1>17
  <2> HIDE DEF old
  <2>3. got' = Got(prog.memory_count, prog.inputs, prog.outputs, N, Append(old, x))
    BY <2>1, <2>2 DEF Got
  <2>4. QED BY <2>3 DEF old
<1>23. prog' = prog /\ se' = config' /\ N' = N /\ WR' = WR /\ WC' = WC
  BY <1>1, <1>4 DEF writer, N, WR, WC
<1>24. got'.llmis = ms
  BY <1>22 DEF Got
<1> HIDE DEF ms
<1>25. GotHeader'
  <2>1. \A k \in 1 .. Len(got'.llmis) : Stored(got.llmis[k], prog.llmis[k])'
    BY <1>21, <1>23, <1>24 DEF Stored
  <2>2. QED BY <1>21, <1>22, <1>23, <1>24, <2>1 DEF GotHeader
<1>26. cur' \in 1 .. N' + 1 /\ cur' - 1 = cur /\ start[cur'] = e
  BY <1>7, <1>17, <1>23 DEF e
<1>27. InLLMI(start)'
  BY <1>1, <1>17, <1>21, <1>23, <1>24, <1>25, <1>26 DEF InLLMI
<1>28. QED
  BY <1>1, <1>2, <1>3, <1>27, ReaderStep DEF Reader

\* A snippet that was not begun.
LEMMA NoneTaken ==
  ASSUME Given, NEW k \in 1 .. N, NEW x, Stored(x, prog.llmis[k]), x.seq = <<>>
  PROVE  \E i, at : Taken(x, prog.llmis[k].seq, i, at, 1)
<1> DEFINE s == prog.llmis[k].seq
<1> DEFINE fss == [j \in DOMAIN s |-> LLIFields(s[j], WR, WC)]
<1>1. s \in Seq(LLI) /\ \A j \in 1 .. Len(s) : Kinds(s[j]) \in Range(OperandCode)
  BY FitGiven DEF LLMIFit, N
<1>2. Holds(x.code, 1, LLSFields(s, WR, WC), Len(x.code) + 1)
  BY DEF Stored
<1> HIDE DEF s
<1>3. fss \in Seq(Seq(FieldSet)) /\ Holds(x.code, 1, FlattenSeq(fss), Len(x.code) + 1)
  BY <1>1, <1>2, LLSIsFields
<1>4. PICK at : Parted(x.code, 1, fss, Len(x.code) + 1, at)
  <2> HIDE DEF fss
  <2> DEFINE one == 1
  <2> DEFINE end == Len(x.code) + 1
  <2> DEFINE bs == x.code
  <2>1. fss \in Seq(Seq(FieldSet)) /\ Holds(bs, one, FlattenSeq(fss), end)
    BY <1>3
  <2> HIDE DEF one, end, bs
  <2>2. \E at : Parted(bs, one, fss, end, at)
    BY <2>1, FlattenedIsHeld
  <2>3. QED BY <2>2 DEF one, end, bs
<1>5. at[1] = 1
  BY <1>4 DEF Parted
<1>6. 0 \in 0 .. Len(s) /\ Len(x.seq) = 0 /\ \A j \in 1 .. 0 : x.seq[j] = s[j]
  BY <1>1
<1>7. Taken(x, s, 0, at, 1)
  BY <1>4, <1>5, <1>6 DEF Taken
<1>8. QED
  BY <1>7 DEF s

\* The last LLMI ends where the file does.
LEMMA ReadEndHolds ==
  ASSUME BInv, ReadEnd
  PROVE  BInv'
<1>1. hpc = "llmi" /\ cur > got.llmi_count /\ UNCHANGED <<writer, se>>
  BY DEF ReadEnd
<1>2. Given /\ file \in Seq(Byte) /\ wpc = "done" /\ N \in Nat
  BY <1>1, ReaderGiven
<1>3. PICK start : Written(N, start) /\ Reader(start)
  BY <1>1, ReaderGiven
<1>4. /\ se = config /\ cur \in 1 .. N + 1 /\ pos = start[cur] /\ GotHeader /\ Len(got.llmis) = cur - 1
      /\ \A k \in 1 .. cur - 1 : got.llmis[k].seq = <<>>
  BY <1>1, <1>3 DEF Reader, InMeta, BadMeta, InProg, InLLMI, InLLS, IsDone
<1>5. got.llmi_count = N
  BY <1>4 DEF GotHeader, Got
<1>6. cur = N + 1 /\ cur - 1 = N
  BY <1>1, <1>2, <1>4, <1>5
<1>7. pos = Len(file) + 1
  BY <1>3, <1>4, <1>6 DEF Written
<1>8. hpc' = "lls" /\ cur' = 1 /\ pos' = 1 /\ got' = got
  BY <1>7 DEF ReadEnd
<1>9. prog' = prog /\ se' = config' /\ N' = N /\ WR' = WR /\ WC' = WC
  BY <1>1, <1>4 DEF writer, N, WR, WC
<1>10. GotHeader'
  BY <1>4, <1>8, <1>9 DEF GotHeader, Stored
<1>11. cur' \in 1 .. N' + 1 /\ Len(got'.llmis) = N' /\ (cur' = N' + 1 => pos' = 1)
       /\ \A k \in 1 .. N' : ~ (k < cur') /\ got'.llmis[k].seq = <<>>
  BY <1>2, <1>4, <1>6, <1>8, <1>9
<1>12. ASSUME cur' =< N'
       PROVE  (\E i, at : Taken(got.llmis[cur], prog.llmis[cur].seq, i, at, pos))'
  <2>1. 1 \in 1 .. N /\ 1 \in 1 .. Len(got.llmis)
    BY <1>2, <1>4, <1>6, <1>8, <1>9, <1>12
  <2>2. Stored(got.llmis[1], prog.llmis[1]) /\ got.llmis[1].seq = <<>>
    BY <1>4, <1>6, <2>1 DEF GotHeader
  <2>3. PICK i, at : Taken(got.llmis[1], prog.llmis[1].seq, i, at, 1)
    BY <1>2, <2>1, <2>2, NoneTaken
  <2>4. Taken(got.llmis[cur], prog.llmis[cur].seq, i, at, pos)'
    BY <1>8, <1>9, <2>3 DEF Taken
  <2>5. QED BY <2>4
<1>13. InLLS'
  BY <1>8, <1>9, <1>10, <1>11, <1>12 DEF InLLS
<1>14. QED
  BY <1>1, <1>2, <1>3, <1>13, ReaderStep DEF Reader

\* The state of the element's loop, in the snippet it is at.
LEMMA LoopGiven ==
  ASSUME BInv, hpc = "lls", cur =< got.llmi_count
  PROVE  /\ Given /\ wpc = "done" /\ N \in Nat /\ se = config
         /\ cur \in 1 .. N /\ GotHeader /\ Len(got.llmis) = N /\ got.llmi_count = N
         /\ \A k \in 1 .. N : /\ k < cur => got.llmis[k].seq = prog.llmis[k].seq
                              /\ k > cur => got.llmis[k].seq = <<>>
         /\ LLMIFit(prog.llmis[cur]) /\ Stored(got.llmis[cur], prog.llmis[cur])
         /\ \E i, at : Taken(got.llmis[cur], prog.llmis[cur].seq, i, at, pos)
<1>1. Given /\ wpc = "done" /\ N \in Nat /\ \E start : Written(N, start) /\ Reader(start)
  BY ReaderGiven
<1>2. InLLS
  BY <1>1 DEF Reader, InMeta, BadMeta, InProg, InLLMI, InLLS, IsDone
<1>3. got.llmi_count = N
  BY <1>2 DEF InLLS, GotHeader, Got
<1>4. cur \in 1 .. N
  BY <1>1, <1>2, <1>3 DEF InLLS
<1>5. LLMIFit(prog.llmis[cur]) /\ Stored(got.llmis[cur], prog.llmis[cur])
  BY <1>1, <1>2, <1>4, FitGiven DEF N, InLLS, GotHeader
<1>6. QED
  BY <1>1, <1>2, <1>3, <1>4, <1>5 DEF InLLS

\* The LLI that comes next, if one does.
LEMMA NextIsRead ==
  ASSUME Given, NEW mi, LLMIFit(mi), NEW x, Stored(x, mi), NEW i, NEW at, NEW p,
         Taken(x, mi.seq, i, at, p)
  PROVE  /\ p \in 1 .. Len(x.code) + 1 /\ i \in 0 .. Len(mi.seq) /\ Len(mi.seq) \in Nat /\ Len(x.code) \in Nat
         /\ i = Len(mi.seq) => p = Len(x.code) + 1 /\ x.seq = mi.seq
         /\ i < Len(mi.seq) => /\ i + 1 \in 1 .. Len(mi.seq) /\ Coded(mi.seq[i + 1])
                               /\ LLIRead(x.code, p, mi.seq[i + 1], at[i + 2])
                               /\ p < Len(x.code) + 1
<1> DEFINE s == mi.seq
<1> DEFINE n == Len(s)
<1> DEFINE fss == [j \in DOMAIN s |-> LLIFields(s[j], WR, WC)]
<1>1. s \in Seq(LLI) /\ \A j \in 1 .. n : Kinds(s[j]) \in Range(OperandCode)
  BY DEF LLMIFit
<1> HIDE DEF s
<1>2. n \in Nat /\ Len(fss) = n /\ \A j \in 1 .. n : fss[j] = LLIFields(s[j], WR, WC)
  BY <1>1
<1>3. x.code \in Seq(Byte) /\ Len(x.code) \in Nat /\ x.seq \in Seq(LLI)
  <2>1. x \in Item
    BY DEF Stored
  <2>2. x.code \in Seq(Byte) /\ x.seq \in Seq(LLI)
    BY <2>1 DEF Item
  <2>3. QED BY <2>2
<1> DEFINE bs == x.code
<1> DEFINE l == Len(x.code)
<1>4. /\ Parted(bs, 1, fss, l + 1, at) /\ i \in 0 .. n /\ p = at[i + 1]
      /\ Len(x.seq) = i /\ \A j \in 1 .. i : x.seq[j] = s[j]
  BY DEF Taken, s
<1>5. \A j \in 1 .. n : Coded(s[j])
  BY <1>1, LLSIsFields
<1> HIDE DEF n, fss, bs
<1>6. /\ at \in [1 .. n + 1 -> Nat] /\ at[n + 1] = l + 1
      /\ \A k \in 1 .. n + 1 : 1 =< at[k] /\ at[k] =< l + 1
      /\ \A k \in 1 .. n : Holds(bs, at[k], fss[k], at[k + 1])
  BY <1>2, <1>4 DEF Parted
<1>7. i + 1 \in 1 .. n + 1
  BY <1>2, <1>4
<1>8. p \in 1 .. l + 1
  BY <1>3, <1>4, <1>6, <1>7
<1>9. ASSUME i = n PROVE p = l + 1 /\ x.seq = s
  <2>1. p = l + 1
    BY <1>4, <1>6, <1>9
  <2>2. x.seq = s
    BY <1>1, <1>3, <1>4, <1>9, SeqEqual DEF n
  <2>3. QED BY <2>1, <2>2
<1>10. ASSUME i < n
       PROVE  /\ i + 1 \in 1 .. n /\ Coded(s[i + 1]) /\ LLIRead(bs, p, s[i + 1], at[i + 2]) /\ p < l + 1
  <2> DEFINE k == i + 1
  <2>1. k \in 1 .. n /\ k + 1 \in 1 .. n + 1 /\ k + 1 = i + 2
    BY <1>2, <1>4, <1>10
  <2> HIDE DEF k
  <2>2. Holds(bs, at[k], LLIFields(s[k], WR, WC), at[k + 1]) /\ Coded(s[k])
    BY <1>2, <1>5, <1>6, <2>1
  <2>3. LLIRead(bs, at[k], s[k], at[k + 1])
    BY <2>2, LLIIsRead
  <2>4. at[k] + 1 =< at[k + 1] /\ at[k] \in Nat /\ at[k + 1] \in Nat
    BY <2>3 DEF LLIRead
  <2>5. at[k + 1] =< l + 1
    BY <1>6, <2>1
  <2>6. p = at[k]
    BY <1>4 DEF k
  <2>7. p < l + 1
    <3> DEFINE a == at[k]
    <3> DEFINE b == at[k + 1]
    <3>1. a + 1 =< b /\ a \in Nat /\ b \in Nat /\ b =< l + 1 /\ p = a /\ l \in Nat
      BY <1>3, <2>4, <2>5, <2>6
    <3> HIDE DEF a, b, l
    <3>2. QED BY <3>1
  <2>8. i + 1 = k /\ i + 2 = k + 1
    BY <2>1 DEF k
  <2>9. QED BY <2>1, <2>2, <2>3, <2>6, <2>7, <2>8
<1>11. QED
  BY <1>2, <1>3, <1>4, <1>8, <1>9, <1>10 DEF s, n, bs

\* LLS_execute() takes one LLI apart, and is at the next.
LEMMA DecodeLLIHolds ==
  ASSUME BInv, DecodeLLI
  PROVE  BInv'
<1>1. hpc = "lls" /\ cur =< got.llmi_count /\ pos # Len(Code) + 1 /\ UNCHANGED <<writer, se>>
  BY DEF DecodeLLI
<1>2. /\ Given /\ wpc = "done" /\ N \in Nat /\ se = config
      /\ cur \in 1 .. N /\ GotHeader /\ Len(got.llmis) = N /\ got.llmi_count = N
      /\ \A k \in 1 .. N : /\ k < cur => got.llmis[k].seq = prog.llmis[k].seq
                           /\ k > cur => got.llmis[k].seq = <<>>
      /\ LLMIFit(prog.llmis[cur]) /\ Stored(got.llmis[cur], prog.llmis[cur])
  BY <1>1, LoopGiven
<1> DEFINE mi == prog.llmis[cur]
<1> DEFINE x == got.llmis[cur]
<1>3. PICK i, at : Taken(x, mi.seq, i, at, pos)
  BY <1>1, LoopGiven
<1>4. LLMIFit(mi) /\ Stored(x, mi) /\ Code = x.code
  BY <1>2 DEF Code
<1> HIDE DEF mi, x
<1>5. /\ i \in 0 .. Len(mi.seq) /\ Len(mi.seq) \in Nat
      /\ i = Len(mi.seq) => pos = Len(x.code) + 1
      /\ i < Len(mi.seq) => /\ i + 1 \in 1 .. Len(mi.seq) /\ Coded(mi.seq[i + 1])
                            /\ LLIRead(x.code, pos, mi.seq[i + 1], at[i + 2])
  BY <1>2, <1>3, <1>4, NextIsRead
<1>6. i < Len(mi.seq) /\ i \in Nat
  BY <1>1, <1>4, <1>5
<1> DEFINE lli == mi.seq[i + 1]
<1>7. i + 1 \in 1 .. Len(mi.seq) /\ Coded(lli) /\ LLIRead(x.code, pos, lli, at[i + 2])
  BY <1>5, <1>6
<1> HIDE DEF lli
<1>8. /\ (BigEndian(x.code, pos, 1) % 16) + 1 \in DOMAIN OperandCode
      /\ Decoded(x.code, pos) = lli /\ DecodedEnd(x.code, pos) = at[i + 2]
  BY <1>2, <1>7, LLIIsDecoded
<1>9. ~ (Len(got.llmis[cur].seq) = se.s)
  <2>1. Len(x.seq) = i
    BY <1>3 DEF Taken
  <2>2. Len(mi.seq) =< config.s /\ config.s \in Nat
    BY <1>2, <1>4, ConfigsAssumption DEF LLMIFit, Given
  <2>3. i # config.s
    BY <1>5, <1>6, <2>2
  <2>4. QED BY <1>2, <2>1, <2>3 DEF x
<1>10. /\ got' = [got EXCEPT !.llmis[cur].seq = Append(@, Decoded(Code, pos))]
       /\ pos' = DecodedEnd(Code, pos) /\ hpc' = hpc /\ cur' = cur
  <2>1. (CodeNumber(pos, 1) % 16) + 1 \in DOMAIN OperandCode
    BY <1>4, <1>8 DEF CodeNumber
  <2>2. ~ (CodeNumber(pos, 1) \div 16 = Opcode["NOP"])
    <3>1. PICK start : Written(N, start)
      BY <1>1, ReaderGiven
    <3>2. LLMIKnown(mi, config, prog)
      BY <1>2, <3>1 DEF Written, mi
    <3>3. i + 1 \in DOMAIN mi.seq
      BY <1>4, <1>7 DEF LLMIFit
    <3>4. lli.op # "NOP"
      BY <3>2, <3>3 DEF LLMIKnown, LLIKnown, lli
    <3>5. lli.op \in DOMAIN Opcode /\ FlagOf(lli) \in 0 .. 13
      BY <1>7, LLIParts, FlagGiven DEF Coded
    <3>6. "NOP" \in DOMAIN Opcode
      BY DEF Opcode
    <3>7. Opcode[lli.op] # Opcode["NOP"] /\ Opcode[lli.op] \in 0 .. 15
      BY <3>4, <3>5, <3>6, OpcodesDiffer
    <3>8. CodeNumber(pos, 1) = 16 * Opcode[lli.op] + FlagOf(lli)
      BY <1>4, <1>7 DEF CodeNumber, LLIRead
    <3>9. QED BY <3>5, <3>7, <3>8, FirstByte
  <2>3. QED BY <1>9, <2>1, <2>2 DEF DecodeLLI, TakeApart, Decoded, DecodedEnd, CodeNumber
<1> DEFINE sq == Append(x.seq, lli)
<1> DEFINE x2 == ItemOf(mi, x.code, sq)
<1> DEFINE ms == [got.llmis EXCEPT ![cur] = x2]
<1>11. x \in Item /\ x = ItemOf(mi, x.code, x.seq) /\ x.code \in Seq(Byte) /\ x.seq \in Seq(LLI)
       /\ Holds(x.code, 1, LLSFields(mi.seq, WR, WC), Len(x.code) + 1)
  <2>1. x \in Item /\ x = ItemOf(mi, x.code, x.seq)
        /\ Holds(x.code, 1, LLSFields(mi.seq, WR, WC), Len(x.code) + 1)
    BY <1>4 DEF Stored
  <2>2. QED BY <2>1 DEF Item
<1>12. sq \in Seq(LLI)
  <2>1. lli \in LLI
    BY <1>7 DEF Coded
  <2>2. QED BY <1>11, <2>1
<1>13. Stored(x2, mi) /\ x2 \in Item /\ x2.seq = sq /\ x2.code = x.code
  <2> HIDE DEF sq
  <2> DEFINE c == x.code
  <2>1. LLMIFit(mi) /\ c \in Seq(Byte) /\ sq \in Seq(LLI) /\ Holds(c, 1, LLSFields(mi.seq, WR, WC), Len(c) + 1)
    BY <1>4, <1>11, <1>12
  <2> HIDE DEF c
  <2>2. /\ Stored(ItemOf(mi, c, sq), mi) /\ ItemOf(mi, c, sq) \in Item
        /\ ItemOf(mi, c, sq).seq = sq /\ ItemOf(mi, c, sq).code = c
    BY ONLY <2>1, ItemIsStored, Zenon
  <2>3. QED BY <2>2 DEF c
<1>14. got' = Got(prog.memory_count, prog.inputs, prog.outputs, N, ms)
  <2> DEFINE old == got.llmis
  <2>1. got = Got(prog.memory_count, prog.inputs, prog.outputs, N, old) /\ old \in Seq(Item)
        /\ cur \in DOMAIN old /\ old[cur] = x
    BY <1>2 DEF GotHeader, x
  <2>2. got' = [got EXCEPT !.llmis[cur].seq = Append(@, lli)]
    BY <1>4, <1>8, <1>10
  <2> HIDE DEF old
  <2>3. got.llmis = old
    BY DEF old
  <2>4. got' = [got EXCEPT !.llmis = [old EXCEPT ![cur] = [x EXCEPT !.seq = Append(x.seq, lli)]]]
    BY <2>1, <2>2, <2>3
  <2>5. [x EXCEPT !.seq = sq] = x2
    <3> DEFINE c == x.code
    <3> DEFINE q == x.seq
    <3>1. x = ItemOf(mi, c, q)
      BY <1>11
    <3> HIDE DEF c, q, sq
    <3>2. [x EXCEPT !.seq = sq] = ItemOf(mi, c, sq)
      BY <3>1 DEF ItemOf
    <3>3. QED BY <3>2 DEF c
  <2>6. got' = [got EXCEPT !.llmis = [old EXCEPT ![cur] = x2]]
    <3> HIDE DEF x2
    <3>1. QED BY <2>4, <2>5
  <2> DEFINE nw == [old EXCEPT ![cur] = x2]
  <2>7. ms = nw
    BY DEF old
  <2> HIDE DEF nw, ms
  <2>8. got' = [got EXCEPT !.llmis = nw]
    BY <2>6 DEF nw
  <2>9. got' = Got(prog.memory_count, prog.inputs, prog.outputs, N, nw)
    BY <2>1, <2>8 DEF Got
  <2>10. QED BY <2>7, <2>9
<1> HIDE DEF x2
<1>15. /\ ms \in Seq(Item) /\ Len(ms) = N /\ ms[cur] = x2
       /\ \A k \in 1 .. N : k # cur => ms[k] = got.llmis[k]
  BY <1>2, <1>13, OtherItem DEF GotHeader
<1> HIDE DEF ms
<1>16. got'.llmis = ms
  BY <1>14 DEF Got
<1>17. prog' = prog /\ se' = config' /\ N' = N /\ WR' = WR /\ WC' = WC
  BY <1>1, <1>2 DEF writer, N, WR, WC
<1>18. GotHeader'
  <2>1. \A k \in 1 .. N : Stored(ms[k], prog.llmis[k])
    BY <1>2, <1>13, <1>15 DEF GotHeader, mi
  <2>2. \A k \in 1 .. Len(got'.llmis) : Stored(got.llmis[k], prog.llmis[k])'
    BY <1>15, <1>16, <1>17, <2>1 DEF Stored
  <2>3. QED BY <1>14, <1>15, <1>16, <1>17, <2>2 DEF GotHeader
<1>19. \A k \in 1 .. N : /\ k < cur => ms[k].seq = prog.llmis[k].seq
                         /\ k > cur => ms[k].seq = <<>>
  <2> TAKE k \in 1 .. N
  <2>1. ASSUME k # cur PROVE ms[k] = got.llmis[k]
    BY <1>15, <2>1
  <2>2. k < cur => k # cur
    BY <1>2
  <2>3. k > cur => k # cur
    BY <1>2
  <2>4. QED BY <1>2, <2>1, <2>2, <2>3
<1>20. PICK i2 : i2 = i + 1
  OBVIOUS
<1>21. Taken(x2, mi.seq, i2, at, at[i + 2])
  <2>1. Len(x.seq) = i /\ \A j \in 1 .. i : x.seq[j] = mi.seq[j]
    BY <1>3 DEF Taken
  <2>2. Len(sq) = i2 /\ \A j \in 1 .. i2 : sq[j] = mi.seq[j]
    <3>1. lli \in LLI
      BY <1>7 DEF Coded
    <3>2. Len(sq) = i + 1 /\ sq[i + 1] = lli /\ \A j \in 1 .. i : sq[j] = x.seq[j]
      BY <1>11, <2>1, <3>1
    <3>3. \A j \in 1 .. i + 1 : j = i + 1 \/ j \in 1 .. i
      BY <1>6
    <3> HIDE DEF sq
    <3>4. QED BY <1>20, <2>1, <3>2, <3>3 DEF lli
  <2>3. i2 \in 0 .. Len(mi.seq) /\ i2 + 1 = i + 2
    BY <1>5, <1>6, <1>7, <1>20
  <2> HIDE DEF sq
  <2>4. QED BY <1>3, <1>13, <2>2, <2>3 DEF Taken
<1>22. pos' = at[i + 2]
  BY <1>4, <1>8, <1>10
<1>23. Taken(got.llmis[cur], prog.llmis[cur].seq, i2, at, pos)'
  <2>1. got'.llmis[cur'] = x2 /\ prog'.llmis[cur'] = mi
    BY <1>10, <1>15, <1>16, <1>17 DEF mi
  <2>2. QED BY <1>17, <1>21, <1>22, <2>1 DEF Taken
<1>24. cur' \in 1 .. N' + 1 /\ ~ (cur' = N' + 1)
  BY <1>2, <1>10, <1>17
<1>25. InLLS'
  <2>1. (\A k \in 1 .. N : /\ k < cur => got.llmis[k].seq = prog.llmis[k].seq
                           /\ k > cur => got.llmis[k].seq = <<>>)'
    BY <1>10, <1>16, <1>17, <1>19
  <2>2. Len(got'.llmis) = N'
    BY <1>15, <1>16, <1>17
  <2>3. (\E j, a : Taken(got.llmis[cur], prog.llmis[cur].seq, j, a, pos))'
    BY <1>23
  <2>4. QED BY <1>1, <1>10, <1>17, <1>18, <1>24, <2>1, <2>2, <2>3 DEF InLLS
<1>26. QED
  <2>1. PICK start : Written(N, start)
    BY <1>1, ReaderGiven
  <2>2. QED BY <1>1, <1>2, <1>25, <2>1, ReaderStep DEF Reader

\* ptr is at the end of a snippet only when all of it was taken apart.
LEMMA NextLLSHolds ==
  ASSUME BInv, NextLLS
  PROVE  BInv'
<1>1. /\ hpc = "lls" /\ cur =< got.llmi_count /\ pos = Len(Code) + 1 /\ UNCHANGED <<writer, se>>
      /\ cur' = cur + 1 /\ pos' = 1 /\ hpc' = hpc /\ got' = got
  BY DEF NextLLS
<1>2. /\ Given /\ wpc = "done" /\ N \in Nat /\ se = config
      /\ cur \in 1 .. N /\ GotHeader /\ Len(got.llmis) = N /\ got.llmi_count = N
      /\ \A k \in 1 .. N : /\ k < cur => got.llmis[k].seq = prog.llmis[k].seq
                           /\ k > cur => got.llmis[k].seq = <<>>
      /\ LLMIFit(prog.llmis[cur]) /\ Stored(got.llmis[cur], prog.llmis[cur])
  BY <1>1, LoopGiven
<1> DEFINE mi == prog.llmis[cur]
<1> DEFINE x == got.llmis[cur]
<1>3. PICK i, at : Taken(x, mi.seq, i, at, pos)
  BY <1>1, LoopGiven
<1>4. LLMIFit(mi) /\ Stored(x, mi) /\ Code = x.code
  BY <1>2 DEF Code
<1> HIDE DEF mi, x
<1>5. /\ i \in 0 .. Len(mi.seq) /\ Len(mi.seq) \in Nat /\ Len(x.code) \in Nat /\ pos \in 1 .. Len(x.code) + 1
      /\ i = Len(mi.seq) => x.seq = mi.seq
      /\ i < Len(mi.seq) => pos < Len(x.code) + 1
  BY <1>2, <1>3, <1>4, NextIsRead
<1>6. x.seq = mi.seq
  BY <1>1, <1>4, <1>5
<1>7. prog' = prog /\ se' = config' /\ N' = N /\ WR' = WR /\ WC' = WC
  BY <1>1, <1>2 DEF writer, N, WR, WC
<1>8. GotHeader'
  BY <1>1, <1>2, <1>7 DEF GotHeader, Stored
<1>9. cur' \in 1 .. N' + 1 /\ Len(got'.llmis) = N'
  BY <1>1, <1>2, <1>7
<1>10. \A k \in 1 .. N' : /\ k < cur' => got'.llmis[k].seq = prog'.llmis[k].seq
                          /\ k > cur' => got'.llmis[k].seq = <<>>
  <2> SUFFICES ASSUME NEW k \in 1 .. N
               PROVE  /\ k < cur + 1 => got.llmis[k].seq = prog.llmis[k].seq
                      /\ k > cur + 1 => got.llmis[k].seq = <<>>
    BY <1>1, <1>7
  <2>1. k < cur + 1 => k < cur \/ k = cur
    BY <1>2
  <2>2. k > cur + 1 => k > cur
    BY <1>2
  <2>3. QED BY <1>2, <1>6, <2>1, <2>2 DEF mi, x
<1>11. ASSUME cur' =< N'
       PROVE  (\E j, a : Taken(got.llmis[cur], prog.llmis[cur].seq, j, a, pos))'
  <2>1. PICK k : k = cur + 1
    OBVIOUS
  <2>2. k \in 1 .. N /\ k > cur /\ k \in 1 .. Len(got.llmis)
    BY <1>1, <1>2, <1>7, <1>11, <2>1
  <2>3. Stored(got.llmis[k], prog.llmis[k]) /\ got.llmis[k].seq = <<>>
    BY <1>2, <2>2 DEF GotHeader
  <2>4. PICK j, a : Taken(got.llmis[k], prog.llmis[k].seq, j, a, 1)
    BY <1>2, <2>2, <2>3, NoneTaken
  <2>5. Taken(got.llmis[cur], prog.llmis[cur].seq, j, a, pos)'
    BY <1>1, <1>7, <2>1, <2>4 DEF Taken
  <2>6. QED BY <2>5
<1>12. InLLS'
  BY <1>1, <1>7, <1>8, <1>9, <1>10, <1>11 DEF InLLS
<1>13. QED
  <2>1. PICK start : Written(N, start)
    BY <1>1, ReaderGiven
  <2>2. QED BY <1>1, <1>2, <1>12, <2>1, ReaderStep DEF Reader

\* All of the snippets were taken apart.
LEMMA DecodeEndHolds ==
  ASSUME BInv, DecodeEnd
  PROVE  BInv'
<1>1. /\ hpc = "lls" /\ cur > got.llmi_count /\ UNCHANGED <<writer, se>>
      /\ hpc' = "done" /\ cur' = cur /\ pos' = pos /\ got' = got
  BY DEF DecodeEnd
<1>2. Given /\ wpc = "done" /\ N \in Nat
  BY <1>1, ReaderGiven
<1>3. PICK start : Written(N, start) /\ Reader(start)
  BY <1>1, ReaderGiven
<1>4. InLLS
  BY <1>1, <1>3 DEF Reader, InMeta, BadMeta, InProg, InLLMI, InLLS, IsDone
<1>5. got.llmi_count = N
  BY <1>4 DEF InLLS, GotHeader, Got
<1>6. cur = N + 1 /\ pos = 1 /\ se = config /\ GotHeader /\ Len(got.llmis) = N
  BY <1>1, <1>2, <1>4, <1>5 DEF InLLS
<1>7. \A k \in 1 .. N : got.llmis[k].seq = prog.llmis[k].seq
  <2>1. \A k \in 1 .. N : k < cur
    BY <1>2, <1>6
  <2>2. QED BY <1>4, <2>1 DEF InLLS
<1>8. prog' = prog /\ se' = config' /\ N' = N /\ WR' = WR /\ WC' = WC
  BY <1>1, <1>6 DEF writer, N, WR, WC
<1>9. GotHeader'
  BY <1>1, <1>6, <1>8 DEF GotHeader, Stored
<1>10. IsDone'
  BY <1>1, <1>6, <1>7, <1>8, <1>9 DEF IsDone
<1>11. QED
  BY <1>1, <1>2, <1>3, <1>10, ReaderStep DEF Reader

\* Nothing changes.
LEMMA StutterHolds ==
  ASSUME BInv, UNCHANGED bvars
  PROVE  BInv'
<1>1. /\ config' = config /\ se' = se /\ prog' = prog /\ wpc' = wpc /\ file' = file
      /\ hpc' = hpc /\ cur' = cur /\ pos' = pos /\ got' = got
  BY DEF bvars
<1>2. Given' /\ N' = N /\ WR' = WR /\ WC' = WC /\ file' \in Seq(Byte)
  BY <1>1 DEF BInv, Given, N, WR, WC
<1>3. \A n, start : Written(n, start) => Written(n, start)'
  BY <1>1 DEF Written
<1>4. CASE Writing
  <2>1. (\E start : Written(cur - 1, start)) => (\E start : Written(cur - 1, start))'
    BY <1>1 DEF Written
  <2>2. Writing'
    BY <1>1, <1>2, <1>4, <2>1 DEF Writing
  <2>3. QED BY <1>2, <2>2 DEF BInv
<1>5. CASE Reading
  <2>1. PICK start : Written(N, start) /\ Reader(start)
    BY <1>5 DEF Reading
  <2>2. GotHeader => GotHeader'
    BY <1>1, <1>2 DEF GotHeader, Stored
  <2>3. InLLS => InLLS'
    <3>1. (\E i, at : Taken(got.llmis[cur], prog.llmis[cur].seq, i, at, pos))
            => (\E i, at : Taken(got.llmis[cur], prog.llmis[cur].seq, i, at, pos))'
      BY <1>1, <1>2 DEF Taken
    <3>2. QED BY <1>1, <1>2, <2>2, <3>1 DEF InLLS
  <2>4. Reader(start)'
    BY <1>1, <1>2, <2>1, <2>2, <2>3 DEF Reader, InMeta, BadMeta, InProg, InLLMI, IsDone
  <2>5. wpc = "done" /\ UNCHANGED <<writer, se>>
    BY <1>1, <1>5 DEF Reading, writer
  <2>6. QED BY <2>1, <2>4, <2>5, ReaderStep
<1>6. QED
  BY <1>4, <1>5 DEF BInv

-----------------------------------------------------------------------------
\* However wide its fields are, the file holds what was given to the writer, and
\* the reader, wherever it is, has of it what it passed: the inductive invariant
\* of serialize(), interpret_meta(), interpret_prog() and LLS_execute().
THEOREM FileInvariance == BSpec => []BInv
<1>1. BInit => BInv
  BY InitHolds
<1>2. BInv /\ [BNext]_bvars => BInv'
  <2> SUFFICES ASSUME BInv, [BNext]_bvars PROVE BInv'
    OBVIOUS
  <2>1. CASE WriteHeader
    BY <2>1, WriteHeaderHolds
  <2>2. CASE WriteLLMI
    BY <2>2, WriteLLMIHolds
  <2>3. CASE WriteEnd
    BY <2>3, WriteEndHolds
  <2>4. CASE ReadMeta
    BY <2>4, ReadMetaHolds
  <2>5. CASE ReadProg
    BY <2>5, ReadProgHolds
  <2>6. CASE ReadLLMI
    BY <2>6, ReadLLMIHolds
  <2>7. CASE ReadEnd
    BY <2>7, ReadEndHolds
  <2>8. CASE DecodeLLI
    BY <2>8, DecodeLLIHolds
  <2>9. CASE NextLLS
    BY <2>9, NextLLSHolds
  <2>10. CASE DecodeEnd
    BY <2>10, DecodeEndHolds
  <2>11. CASE UNCHANGED bvars
    BY <2>11, StutterHolds
  <2>12. QED
    BY <2>1, <2>2, <2>3, <2>4, <2>5, <2>6, <2>7, <2>8, <2>9, <2>10, <2>11 DEF BNext
<1>3. QED
  BY <1>1, <1>2, PTL DEF BSpec

\* An LLMI that was taken apart to its end is the one the compiler was given.
LEMMA ReadIsGiven ==
  ASSUME NEW mi, LLMIFit(mi), NEW x, Stored(x, mi), x.seq = mi.seq
  PROVE  Read(x) = mi
<1>1. x = ItemOf(mi, x.code, mi.seq)
  BY DEF Stored
<1>2. /\ x.inputs = mi.inputs /\ x.outputs = mi.outputs /\ x.instrID = mi.instrID
      /\ x.reveal_flag = mi.reveal_flag /\ x.inputIDs = mi.inputIDs
  <2> DEFINE c == x.code
  <2> DEFINE q == mi.seq
  <2>1. x = ItemOf(mi, c, q)
    BY <1>1
  <2> HIDE DEF c, q
  <2>2. QED BY <2>1 DEF ItemOf
<1>3. QED
  BY <1>2 DEF Read, LLMIFit

\* At the end the invariant says that everything was read.
LEMMA InvGivesReadBack ==
  ASSUME BInv
  PROVE  ReadBack
<1> SUFFICES ASSUME hpc = "done"
             PROVE  /\ se = config
                    /\ got.memory_count = prog.memory_count
                    /\ got.inputs = prog.inputs
                    /\ got.outputs = prog.outputs
                    /\ got.llmi_count = Len(prog.llmis)
                    /\ [j \in DOMAIN got.llmis |-> Read(got.llmis[j])] = prog.llmis
  BY DEF ReadBack
<1>1. Given /\ N \in Nat
  BY ReaderGiven
<1>2. PICK start : Written(N, start) /\ Reader(start)
  BY ReaderGiven
<1>3. /\ se = config /\ GotHeader /\ Len(got.llmis) = N
      /\ \A k \in 1 .. N : got.llmis[k].seq = prog.llmis[k].seq
  BY <1>2 DEF Reader, InMeta, BadMeta, InProg, InLLMI, InLLS, IsDone
<1>4. /\ got.memory_count = prog.memory_count /\ got.inputs = prog.inputs
      /\ got.outputs = prog.outputs /\ got.llmi_count = N
  BY <1>3 DEF GotHeader, Got
<1>5. \A k \in 1 .. N : Read(got.llmis[k]) = prog.llmis[k]
  BY <1>1, <1>3, FitGiven, ReadIsGiven DEF GotHeader, N
<1>6. DOMAIN got.llmis = 1 .. N
  BY <1>3 DEF GotHeader
<1>7. prog.llmis = [k \in 1 .. N |-> prog.llmis[k]]
  <2> DEFINE ms == prog.llmis
  <2>1. ms \in Seq(LLMI)
    BY <1>1, ProgramGiven
  <2> HIDE DEF ms
  <2>2. ms = [k \in 1 .. Len(ms) |-> ms[k]]
    BY <2>1
  <2>3. QED BY <2>2 DEF ms, N
<1>8. [j \in DOMAIN got.llmis |-> Read(got.llmis[j])] = prog.llmis
  BY <1>5, <1>6, <1>7
<1>9. QED
  BY <1>3, <1>4, <1>8 DEF N

\* What host and element have of a program when they have read it to its end is
\* what serialize() was given, whatever the shape of the element, the number of
\* cells, of LLMIs and of LLIs, and the values in them.
THEOREM ProgramIsReadBack == BSpec => []ReadBack
  BY FileInvariance, InvGivesReadBack, PTL

\* The invariant has no refusal in it, but for another shape.
LEMMA InvGivesNeverRefused ==
  ASSUME BInv
  PROVE  NeverRefused
<1>1. CASE Writing
  <2>1. hpc = "idle" /\ pos = 1 /\ Len(file) \in Nat
    BY <1>1 DEF Writing, BInv
  <2>2. QED BY <2>1 DEF NeverRefused
<1>2. CASE Reading
  <2>1. PICK start : Written(N, start) /\ Reader(start)
    BY <1>2 DEF Reading
  <2>2. hpc # "idle"
    BY <2>1 DEF Reader, InMeta, BadMeta, InProg, InLLMI, InLLS, IsDone
  <2>3. Given /\ N \in Nat /\ Len(file) \in Nat
    BY <2>2, ReaderGiven
  <2>4. \A k \in 1 .. N + 1 : start[k] \in 1 .. Len(file) + 1
    BY <2>1, <2>3, StartsIn
  <2>5. CASE InMeta \/ BadMeta \/ IsDone
    BY <2>3, <2>5 DEF NeverRefused, InMeta, BadMeta, IsDone
  <2>6. CASE InProg
    <3>1. HeaderRead(file, start[1]) /\ start[1] \in 1 .. Len(file) + 1
      BY <2>1, <2>3, <2>4, HeaderIsRead DEF Written
    <3>2. PICK p2, p3 : /\ ReadsCells(file, 1 + 7 * U32 + CT, prog.inputs, p2)
                        /\ ReadsCells(file, p2, prog.outputs, p3)
                        /\ start[1] = p3 + U32
      BY <3>1 DEF HeaderRead
    <3> DEFINE a == (Len(prog.inputs) + 1) * WM
    <3> DEFINE b == (Len(prog.outputs) + 1) * WM
    <3>3. a \in Nat /\ b \in Nat
      <4>1. WM \in Nat /\ Len(prog.inputs) + 1 \in Nat /\ Len(prog.outputs) + 1 \in Nat
        BY <2>3, WidthsGiven, ProgramGiven
      <4>2. \A m, n \in Nat : m * n \in Nat
        OBVIOUS
      <4>3. QED BY <4>1, <4>2
    <3>4. p2 = 1 + 7 * U32 + CT + a /\ p3 = p2 + b
      BY <3>2 DEF ReadsCells
    <3> HIDE DEF a, b
    <3>5. pos = 1 + 7 * U32 + CT /\ hpc = "prog"
      BY <2>6 DEF InProg
    <3>6. pos \in 1 .. Len(file) + 1
      <4> DEFINE e == start[1]
      <4> DEFINE l == Len(file)
      <4>1. e = p3 + U32 /\ e \in 1 .. l + 1 /\ l \in Nat
        BY <2>3, <3>1, <3>2
      <4> HIDE DEF e, l
      <4>2. pos \in 1 .. l + 1
        BY <3>3, <3>4, <3>5, <4>1 DEF U32, CT
      <4>3. QED BY <4>2 DEF l
    <3>7. QED BY <3>5, <3>6 DEF NeverRefused
  <2>7. CASE InLLMI(start)
    BY <2>4, <2>7 DEF NeverRefused, InLLMI
  <2>8. CASE InLLS
    <3>1. hpc = "lls"
      BY <2>8 DEF InLLS
    <3>2. CASE cur =< got.llmi_count
      <4>1. /\ LLMIFit(prog.llmis[cur]) /\ Stored(got.llmis[cur], prog.llmis[cur])
            /\ \E i, at : Taken(got.llmis[cur], prog.llmis[cur].seq, i, at, pos)
        BY <3>1, <3>2, LoopGiven
      <4> DEFINE mi == prog.llmis[cur]
      <4> DEFINE x == got.llmis[cur]
      <4>2. PICK i, at : Taken(x, mi.seq, i, at, pos)
        BY <4>1
      <4>3. LLMIFit(mi) /\ Stored(x, mi) /\ Code = x.code
        BY <4>1 DEF Code
      <4> HIDE DEF mi, x
      <4>4. pos \in 1 .. Len(Code) + 1
        BY <2>3, <4>2, <4>3, NextIsRead
      <4>5. QED BY <3>1, <3>2, <4>4 DEF NeverRefused
    <3>3. CASE ~ (cur =< got.llmi_count)
      <4>1. got.llmi_count = N /\ cur \in 1 .. N + 1
        BY <2>8 DEF InLLS, GotHeader, Got
      <4>2. cur = N + 1
        BY <2>3, <3>3, <4>1
      <4>3. pos = 1
        BY <2>8, <4>2 DEF InLLS
      <4>4. QED BY <2>3, <3>1, <3>3, <4>3 DEF NeverRefused
    <3>4. QED BY <3>2, <3>3
  <2>9. QED
    BY <2>1, <2>5, <2>6, <2>7, <2>8 DEF Reader
<1>3. QED
  BY <1>1, <1>2 DEF BInv

\* A file that serialize() wrote to its end is read to its end by a runtime of
\* the same shape: writer and reader, who never tell each other a width, agree on
\* all of them, and neither bcptr nor ptr leaves what it walks through.
THEOREM WrittenIsNeverRefused == BSpec => []NeverRefused
  BY FileInvariance, InvGivesNeverRefused, PTL
=============================================================================

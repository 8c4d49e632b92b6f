---------------------------- MODULE SetInduction ----------------------------
(***************************************************************************)
(* Induction on the natural numbers, stated on sets of numbers rather than *)
(* on predicates, in the forms the proofs of this project cite; and what   *)
(* it gives: the functions that a step defines, hence what FoldLeft and    *)
(* FlattenSeq return.                                                      *)
(***************************************************************************)
EXTENDS Integers, SequencesExt, WellFoundedInduction, TLAPS

\* A set of natural numbers that is not empty has a least member.
LEMMA LeastNat ==
  ASSUME NEW T, T \subseteq Nat, T # {}
  PROVE  \E m \in T : m \in Nat /\ \A y \in T : m =< y
<1> DEFINE Less == OpToRel(<, Nat)
<1>1. IsWellFoundedOn(Less, Nat)
  BY NatLessThanWellFounded
<1>2. \A m, n \in Nat : m < n => <<m, n>> \in Less
  BY DEF OpToRel
<1> HIDE DEF Less
<1>3. PICK m \in T : \A y \in T : ~ (<<y, m>> \in Less)
  BY <1>1, WFMin
<1>4. \A y \in T : m =< y
  <2> SUFFICES ASSUME NEW y \in T PROVE m =< y
    OBVIOUS
  <2>1. m \in Nat /\ y \in Nat
    OBVIOUS
  <2>2. y < m => <<y, m>> \in Less
    BY <1>2, <2>1
  <2>3. QED
    BY <1>3, <2>1, <2>2
<1>5. QED
  BY <1>4

\* A set that holds a and, with every number below b, the next one, holds all
\* the numbers from a to b.
LEMMA RangeInduction ==
  ASSUME NEW a \in Int, NEW b \in Int, NEW S,
         a \in S, \A n \in a .. b - 1 : n \in S => n + 1 \in S
  PROVE  \A n \in a .. b : n \in S
<1> DEFINE T == {n - a : n \in {n \in a .. b : n \notin S}}
<1>1. SUFFICES ASSUME T # {} PROVE FALSE
  BY DEF T
<1>2. T \subseteq Nat
  OBVIOUS
<1>3. PICK m \in T : \A y \in T : m =< y
  BY <1>1, <1>2, LeastNat
<1>4. PICK n \in a .. b : n \notin S /\ m = n - a
  BY <1>3
<1>5. n # a /\ n - 1 \in a .. b - 1 /\ n - 1 \in a .. b
  BY <1>4
<1>6. n - 1 \in S
  BY <1>3, <1>4, <1>5
<1>7. QED
  BY <1>4, <1>5, <1>6

\* A set of numbers up to n has a greatest member.
LEMMA MaxInRange ==
  ASSUME NEW n \in Nat, NEW s \in SUBSET (1 .. n), s # {}
  PROVE  Max(s) \in s /\ Max(s) \in 1 .. n /\ \A y \in s : Max(s) >= y
<1> DEFINE T == {n - y : y \in s}
<1>1. \A y \in s : n - y \in Nat
  OBVIOUS
<1>2. T \subseteq Nat /\ T # {}
  BY <1>1
<1> HIDE DEF T
<1>3. PICK z \in T : z \in Nat /\ \A y \in T : z =< y
  BY <1>2, LeastNat
<1>4. PICK m \in s : z = n - m
  BY <1>3 DEF T
<1>5. \A y \in s : n - m =< n - y
  BY <1>3, <1>4 DEF T
<1>6. \A y \in s : m >= y
  BY <1>5
<1>7. Max(s) \in s /\ \A y \in s : Max(s) >= y
  BY <1>6 DEF Max
<1>8. QED
  BY <1>7

\* The greatest of the numbers from 1 to k is k.
LEMMA MaxOfRange ==
  ASSUME NEW k \in Nat, k # 0
  PROVE  Max(1 .. k) = k /\ (1 .. k) \ {k} = 1 .. k - 1 /\ 1 .. k # {}
<1>1. k \in 1 .. k /\ \A y \in 1 .. k : k >= y
  OBVIOUS
<1>2. \A x \in 1 .. k : (\A y \in 1 .. k : x >= y) => x = k
  OBVIOUS
<1>3. Max(1 .. k) = k
  BY <1>1, <1>2 DEF Max
<1>. QED BY <1>1, <1>3

\* h goes from base through n steps of G, and stays in R.
Iterates(R, base, n, G, h) ==
  /\ h \in [0 .. n -> R] /\ h[0] = base
  /\ \A k \in 1 .. n : h[k] = G[<<h[k - 1], k>>]

\* There is such an h.
LEMMA PrimitiveRecursion ==
  ASSUME NEW R, NEW base \in R, NEW n \in Nat, NEW G \in [R \X (1 .. n) -> R]
  PROVE  \E h : Iterates(R, base, n, G, h)
<1> DEFINE Chain(m, h) == h \in [0 .. m -> R] /\ h[0] = base /\ \A k \in 1 .. m : h[k] = G[<<h[k - 1], k>>]
<1> DEFINE Y == {m \in 0 .. n : \E h : Chain(m, h)}
<1>1. 0 \in Y
  <2> DEFINE h0 == [k \in 0 .. 0 |-> base]
  <2>1. Chain(0, h0)
    OBVIOUS
  <2> HIDE DEF h0, Chain
  <2>2. \E h : Chain(0, h)
    BY <2>1
  <2>3. QED BY <2>2
<1>2. ASSUME NEW m \in 0 .. n - 1, m \in Y PROVE m + 1 \in Y
  <2>1. PICK h : Chain(m, h)
    BY <1>2
  <2> DEFINE h2 == [k \in 0 .. m + 1 |-> IF k = m + 1 THEN G[<<h[m], m + 1>>] ELSE h[k]]
  <2>2. Chain(m + 1, h2)
    <3>1. h[m] \in R /\ m + 1 \in 1 .. n
      BY <2>1
    <3>2. G[<<h[m], m + 1>>] \in R
      BY <3>1
    <3>3. h2 \in [0 .. m + 1 -> R] /\ h2[0] = base
      BY <2>1, <3>2
    <3>4. ASSUME NEW k \in 1 .. m + 1 PROVE h2[k] = G[<<h2[k - 1], k>>]
      <4>1. CASE k = m + 1
        <5>1. h2[k] = G[<<h[m], m + 1>>] /\ h2[k - 1] = h[m]
          BY <4>1
        <5>2. QED BY <4>1, <5>1
      <4>2. CASE k # m + 1
        BY <4>2, <2>1
      <4>3. QED BY <4>1, <4>2
    <3>5. QED BY <3>3, <3>4
  <2> HIDE DEF h2, Chain
  <2>3. \E h3 : Chain(m + 1, h3)
    BY <2>2
  <2>4. QED BY <2>3
<1> HIDE DEF Y
<1>3. \A m \in 0 .. n : m \in Y
  BY <1>1, <1>2, RangeInduction
<1>4. n \in Y
  BY <1>3
<1>5. QED
  BY <1>4 DEF Y, Iterates

\* it folds the places of every set of them, as MapThenFoldSet does: the greatest
\* place comes last.
FoldsBy(R, base, n, G, it) ==
  /\ it = [s \in SUBSET (1 .. n) |-> IF s = {} THEN base ELSE G[<<it[s \ {Max(s)}], Max(s)>>]]
  /\ \A s \in SUBSET (1 .. n) : it[s] \in R

\* The equation that defines a fold has a solution, with values in R.
LEMMA FoldEquation ==
  ASSUME NEW R, NEW base \in R, NEW n \in Nat, NEW G \in [R \X (1 .. n) -> R]
  PROVE  \E it : FoldsBy(R, base, n, G, it)
<1> DEFINE Gs(s) == [x \in R \X (1 .. n) |-> IF x[2] \in s THEN G[x] ELSE x[1]]
<1> DEFINE Chain(s, h) == /\ h \in [0 .. n -> R] /\ h[0] = base
                          /\ \A k \in 1 .. n : h[k] = IF k \in s THEN G[<<h[k - 1], k>>] ELSE h[k - 1]
<1>1. \A s : \E h : Chain(s, h)
  <2> TAKE s
  <2>1. Gs(s) \in [R \X (1 .. n) -> R]
    OBVIOUS
  <2> DEFINE H == Gs(s)
  <2>0. H \in [R \X (1 .. n) -> R]
    BY <2>1
  <2> HIDE DEF H, Gs, Chain
  <2>2. PICK h : Iterates(R, base, n, H, h)
    BY <2>0, PrimitiveRecursion
  <2>3. ASSUME NEW k \in 1 .. n
        PROVE  h[k] = IF k \in s THEN G[<<h[k - 1], k>>] ELSE h[k - 1]
    <3>1. h[k - 1] \in R
      BY <2>2 DEF Iterates
    <3>2. <<h[k - 1], k>> \in R \X (1 .. n)
      BY <3>1
    <3>3. H[<<h[k - 1], k>>] = IF k \in s THEN G[<<h[k - 1], k>>] ELSE h[k - 1]
      BY <3>2 DEF H, Gs
    <3>4. QED BY <2>2, <3>3 DEF Iterates
  <2>4. Chain(s, h)
    BY <2>2, <2>3 DEF Chain, Iterates
  <2>5. QED BY <2>4
<1> DEFINE Of(s) == CHOOSE h : Chain(s, h)
<1>2. \A s : Chain(s, Of(s))
  <2> HIDE DEF Chain
  <2> TAKE s
  <2>1. PICK h : Chain(s, h)
    BY <1>1
  <2>2. QED BY <2>1
<1> HIDE DEF Of
<1> DEFINE it == [s \in SUBSET (1 .. n) |-> Of(s)[n]]
<1>3. \A s \in SUBSET (1 .. n) : it[s] \in R
  BY <1>2
<1>4. ASSUME NEW s \in SUBSET (1 .. n)
      PROVE  Of(s)[n] = IF s = {} THEN base ELSE G[<<it[s \ {Max(s)}], Max(s)>>]
  <2> DEFINE h == Of(s)
  <2>0. Chain(s, h)
    BY <1>2
  <2> HIDE DEF h
  <2>1. CASE s = {}
    <3> DEFINE Y == {k \in 0 .. n : h[k] = base}
    <3>1. 0 \in Y
      BY <2>0
    <3>2. \A k \in 0 .. n - 1 : k \in Y => k + 1 \in Y
      <4> SUFFICES ASSUME NEW k \in 0 .. n - 1, k \in Y PROVE k + 1 \in Y
        OBVIOUS
      <4>1. k + 1 \in 1 .. n /\ (k + 1) - 1 = k
        OBVIOUS
      <4>2. h[k + 1] = h[(k + 1) - 1]
        BY <2>0, <2>1, <4>1
      <4>3. QED BY <4>1, <4>2
    <3> HIDE DEF Y
    <3>3. n \in Y
      BY <3>1, <3>2, RangeInduction
    <3>4. QED BY <3>3, <2>1 DEF h, Y
  <2>2. CASE s # {}
    <3> DEFINE m == Max(s)
    <3>1. m \in s /\ \A y \in s : m >= y
      BY <2>2, MaxInRange
    <3>3. Max(s) = m
      OBVIOUS
    <3> HIDE DEF m
    <3> DEFINE t == s \ {m}
    <3> DEFINE g == Of(t)
    <3>4. Chain(t, g) /\ m \in 1 .. n
      BY <1>2, <3>1
    <3>5. t \in SUBSET (1 .. n)
      OBVIOUS
    <3> HIDE DEF g
    <3> DEFINE Y == {k \in 0 .. m - 1 : h[k] = g[k]}
    <3>6. 0 \in Y
      BY <2>0, <3>4
    <3>7. \A k \in 0 .. m - 1 - 1 : k \in Y => k + 1 \in Y
      <4> SUFFICES ASSUME NEW k \in 0 .. m - 1 - 1, k \in Y PROVE k + 1 \in Y
        OBVIOUS
      <4>1. k + 1 \in 1 .. n /\ (k + 1) - 1 = k /\ k + 1 # m
        BY <3>4
      <4>2. h[k + 1] = IF k + 1 \in s THEN G[<<h[k], k + 1>>] ELSE h[k]
        BY <2>0, <4>1
      <4>3. g[k + 1] = IF k + 1 \in t THEN G[<<g[k], k + 1>>] ELSE g[k]
        BY <3>4, <4>1
      <4>4. h[k + 1] = g[k + 1]
        BY <4>1, <4>2, <4>3
      <4>5. QED BY <4>4, <4>1, <3>4
    <3> HIDE DEF Y
    <3>8. m - 1 \in Y
      <4>1. m - 1 \in Int /\ 0 \in Int /\ m - 1 \in 0 .. m - 1
        BY <3>4
      <4>2. \A k \in 0 .. m - 1 : k \in Y
        BY <3>6, <3>7, <4>1, RangeInduction
      <4>3. QED BY <4>1, <4>2
    <3>9. h[m - 1] = g[m - 1]
      BY <3>8 DEF Y
    <3>10. h[m] = G[<<h[m - 1], m>>] /\ g[m] = g[m - 1]
      BY <2>0, <3>1, <3>4
    <3> DEFINE Z == {k \in m .. n : h[k] = h[m] /\ g[k] = g[m]}
    <3>11. m \in Z
      BY <3>4
    <3>12. \A k \in m .. n - 1 : k \in Z => k + 1 \in Z
      <4> SUFFICES ASSUME NEW k \in m .. n - 1, k \in Z PROVE k + 1 \in Z
        OBVIOUS
      <4>1. k + 1 \in 1 .. n /\ (k + 1) - 1 = k /\ k + 1 > m
        BY <3>4
      <4>2. k + 1 \notin s
        BY <4>1, <3>1
      <4>3. h[k + 1] = h[k]
        BY <2>0, <4>1, <4>2
      <4>4. g[k + 1] = g[k]
        BY <3>4, <4>1, <4>2
      <4>5. QED BY <4>4, <4>1, <4>3, <3>4
    <3> HIDE DEF Z
    <3>13. n \in Z
      <4>1. m \in Int /\ n \in Int /\ n \in m .. n
        BY <3>4
      <4>2. \A k \in m .. n : k \in Z
        BY <3>11, <3>12, <4>1, RangeInduction
      <4>3. QED BY <4>1, <4>2
    <3>14. h[n] = G[<<g[n], m>>]
      BY <3>13, <3>10, <3>9 DEF Z
    <3>15. it[t] = g[n]
      BY <3>5 DEF g
    <3>16. QED BY <2>2, <3>3, <3>14, <3>15 DEF h
  <2>3. QED BY <2>1, <2>2
<1> HIDE DEF Chain
<1>5. it = [s \in SUBSET (1 .. n) |-> IF s = {} THEN base ELSE G[<<it[s \ {Max(s)}], Max(s)>>]]
  BY <1>4
<1> HIDE DEF it
<1>6. FoldsBy(R, base, n, G, it)
  BY <1>3, <1>5 DEF FoldsBy
<1>7. QED BY <1>6

\* A function on 1 .. n is a sequence of length n.
LEMMA FunctionIsSeq ==
  ASSUME NEW A, NEW n \in Nat, NEW f \in [1 .. n -> A]
  PROVE  f \in Seq(A) /\ Len(f) = n
  OBVIOUS

\* st says where the first m sequences of ss start in f, from 0.
Laid(A, ss, m, f, st) ==
  /\ f \in Seq(A) /\ st \in [1 .. m + 1 -> Nat]
  /\ st[1] = 0 /\ st[m + 1] = Len(f)
  /\ \A k \in 1 .. m + 1 : st[k] =< Len(f)
  /\ \A k \in 1 .. m :
       /\ st[k + 1] = st[k] + Len(ss[k])
       /\ \A i \in 1 .. Len(ss[k]) : f[st[k] + i] = ss[k][i]

\* One more sequence,
LEMMA LaidNext ==
  ASSUME NEW A, NEW ss \in Seq(Seq(A)), NEW m \in Nat, m + 1 =< Len(ss),
         NEW f, NEW st, Laid(A, ss, m, f, st)
  PROVE  \E st2 : Laid(A, ss, m + 1, f \o ss[m + 1], st2)
<1> DEFINE g == ss[m + 1]
<1> DEFINE f2 == f \o g
<1>1. g \in Seq(A)
  BY DEF Laid
<1>2. f \in Seq(A) /\ st \in [1 .. m + 1 -> Nat]
  BY DEF Laid
<1>3. /\ f2 \in Seq(A) /\ Len(f2) = Len(f) + Len(g) /\ Len(f) \in Nat /\ Len(g) \in Nat
      /\ \A i \in 1 .. Len(f) : f2[i] = f[i]
      /\ \A i \in 1 .. Len(g) : f2[Len(f) + i] = g[i]
  BY <1>1, <1>2
<1> DEFINE st2 == [k \in 1 .. m + 2 |-> IF k = m + 2 THEN Len(f2) ELSE st[k]]
<1> HIDE DEF f2
<1>4. st2 \in [1 .. m + 1 + 1 -> Nat] /\ st2[1] = 0 /\ st2[m + 1 + 1] = Len(f2)
  BY <1>2, <1>3 DEF Laid
<1>5. \A k \in 1 .. m + 1 : st2[k] = st[k] /\ st[k] \in Nat /\ st[k] =< Len(f)
  BY <1>2 DEF Laid
<1>6. \A k \in 1 .. m + 1 + 1 : st2[k] =< Len(f2)
  <2> TAKE k \in 1 .. m + 1 + 1
  <2>1. CASE k = m + 2
    <3>1. st2[k] = Len(f2) /\ Len(f2) \in Nat
      BY <2>1, <1>3
    <3>2. QED BY <3>1
  <2>2. CASE k # m + 2
    <3>1. k \in 1 .. m + 1
      BY <2>2
    <3>2. st2[k] =< Len(f) /\ st2[k] \in Nat
      BY <3>1, <1>5
    <3>3. QED BY <3>2, <1>3
  <2>3. QED BY <2>1, <2>2
<1>7. ASSUME NEW k \in 1 .. m + 1
      PROVE  /\ st2[k + 1] = st2[k] + Len(ss[k])
             /\ \A i \in 1 .. Len(ss[k]) : f2[st2[k] + i] = ss[k][i]
  <2>1. CASE k = m + 1
    <3>1. st2[k + 1] = Len(f2) /\ st2[k] = Len(f)
      BY <2>1, <1>5 DEF Laid
    <3>2. QED BY <2>1, <3>1, <1>3
  <2>2. CASE k # m + 1
    <3>1. k \in 1 .. m /\ k + 1 \in 1 .. m + 1
      BY <2>2
    <3>2. st2[k + 1] = st[k + 1] /\ st2[k] = st[k] /\ st[k + 1] = st[k] + Len(ss[k])
      BY <3>1, <1>5 DEF Laid
    <3>3. ss[k] \in Seq(A) /\ Len(ss[k]) \in Nat
      BY <3>1
    <3>4. ASSUME NEW i \in 1 .. Len(ss[k]) PROVE f2[st2[k] + i] = ss[k][i]
      <4>1. st[k] + i \in 1 .. Len(f)
        <5>1. st[k] \in Nat /\ st[k + 1] \in Nat /\ st[k + 1] =< Len(f)
          BY <3>1, <1>5
        <5>2. i \in Nat /\ 1 =< i /\ i =< Len(ss[k])
          BY <3>3
        <5>3. st[k + 1] = st[k] + Len(ss[k]) /\ Len(f) \in Nat
          BY <3>2, <1>3
        <5> DEFINE p == st[k]
        <5> DEFINE l == Len(ss[k])
        <5>4. p \in Nat /\ l \in Nat /\ p + l =< Len(f) /\ i =< l
          BY <5>1, <5>2, <5>3, <3>3
        <5> HIDE DEF st2, p, l
        <5>5. p + i \in 1 .. Len(f)
          BY <5>2, <5>3, <5>4
        <5>6. QED BY <5>5 DEF p
      <4>2. f[st[k] + i] = ss[k][i]
        BY <3>1 DEF Laid
      <4>3. QED BY <4>1, <4>2, <3>2, <1>3
    <3>5. QED BY <3>2, <3>4
  <2>3. QED BY <2>1, <2>2
<1> HIDE DEF st2
<1>8. Laid(A, ss, m + 1, f2, st2)
  BY <1>3, <1>4, <1>6, <1>7 DEF Laid
<1>9. QED
  BY <1>8 DEF f2

\* ... and all of them: FlattenSeq lays the sequences out in turn.
LEMMA FlattenLays ==
  ASSUME NEW A, NEW ss \in Seq(Seq(A))
  PROVE  \E st : Laid(A, ss, Len(ss), FlattenSeq(ss), st)
<1> DEFINE n == Len(ss)
<1>0. n \in Nat
  OBVIOUS
<1>1. CASE n = 0
  <2>1. FlattenSeq(ss) = ss
    BY <1>1 DEF FlattenSeq
  <2>2. ss = <<>>
    BY <1>1
  <2> DEFINE st == [k \in 1 .. 1 |-> 0]
  <2>3. st \in [1 .. 0 + 1 -> Nat] /\ st[1] = 0 /\ <<>> \in Seq(A) /\ Len(<<>>) = 0
    OBVIOUS
  <2> HIDE DEF st
  <2>4. Laid(A, ss, 0, <<>>, st)
    BY <2>3 DEF Laid
  <2>5. QED BY <1>1, <2>1, <2>2, <2>4
<1>2. CASE n # 0
  <2> DEFINE G == [x \in Seq(A) \X (1 .. n) |-> x[1] \o ss[x[2]]]
  <2>1. G \in [Seq(A) \X (1 .. n) -> Seq(A)]
    OBVIOUS
  <2>2. <<>> \in Seq(A)
    OBVIOUS
  <2> HIDE DEF G
  <2>3. PICK h : Iterates(Seq(A), <<>>, n, G, h)
    BY <2>1, <2>2, <1>0, PrimitiveRecursion
  <2>4. ASSUME NEW k \in 1 .. n PROVE h[k] = h[k - 1] \o ss[k] /\ h[k] \in Seq(A)
    <3>1. k - 1 \in 0 .. n /\ k \in 0 .. n
      BY <1>0
    <3>2. h[k - 1] \in Seq(A) /\ h[k] \in Seq(A) /\ h[k] = G[<<h[k - 1], k>>]
      BY <2>3, <3>1 DEF Iterates
    <3>3. G[<<h[k - 1], k>>] = h[k - 1] \o ss[k]
      BY <3>2 DEF G
    <3>4. QED BY <3>2, <3>3
  <2> DEFINE F == [i \in 1 .. n |-> h[i]]
  <2>5. F = [i \in 1 .. n |-> IF i = 1 THEN ss[i] ELSE F[i - 1] \o ss[i]]
    <3>1. ASSUME NEW i \in 1 .. n PROVE h[i] = IF i = 1 THEN ss[i] ELSE F[i - 1] \o ss[i]
      <4>1. CASE i = 1
        <5>1. h[0] = <<>> /\ ss[1] \in Seq(A)
          BY <2>3, <1>0, <1>2 DEF Iterates
        <5>2. <<>> \o ss[1] = ss[1]
          BY <5>1
        <5>3. 1 \in 1 .. n /\ 1 - 1 = 0
          BY <1>0, <1>2
        <5>4. h[1] = h[1 - 1] \o ss[1]
          BY <5>3, <2>4
        <5>5. h[1] = ss[1]
          BY <5>1, <5>2, <5>3, <5>4
        <5>6. QED BY <4>1, <5>5
      <4>2. CASE i # 1
        <5>1. i - 1 \in 1 .. n
          BY <4>2, <1>0
        <5>2. F[i - 1] = h[i - 1]
          BY <5>1
        <5>3. QED BY <4>2, <5>2, <2>4
      <4>3. QED BY <4>1, <4>2
    <3>2. QED BY <3>1
  <2> DEFINE Eq(fl) == fl = [i \in 1 .. n |-> IF i = 1 THEN ss[i] ELSE fl[i - 1] \o ss[i]]
  <2> DEFINE fl == CHOOSE x : Eq(x)
  <2>6. FlattenSeq(ss) = fl[n]
    BY <1>2 DEF FlattenSeq
  <2>7. Eq(fl)
    <3>1. Eq(F)
      BY <2>5
    <3> HIDE DEF F, Eq
    <3>2. QED BY <3>1
  <2> HIDE DEF fl
  <2>8. fl[1] = ss[1] /\ \A i \in 1 .. n : i # 1 => fl[i] = fl[i - 1] \o ss[i]
    <3>1. 1 \in 1 .. n
      BY <1>0, <1>2
    <3>2. QED BY <2>7, <3>1
  <2> HIDE DEF Eq
  <2> DEFINE Y == {m \in 1 .. n : \E st : Laid(A, ss, m, fl[m], st)}
  <2>9. 1 \in Y
    <3> DEFINE st == [k \in 1 .. 1 |-> 0]
    <3>1. st \in [1 .. 0 + 1 -> Nat] /\ st[1] = 0 /\ <<>> \in Seq(A) /\ Len(<<>>) = 0
      OBVIOUS
    <3> HIDE DEF st
    <3>2. Laid(A, ss, 0, <<>>, st)
      BY <3>1 DEF Laid
    <3>3. \E st2 : Laid(A, ss, 0 + 1, <<>> \o ss[0 + 1], st2)
      <4>1. 0 \in Nat /\ 0 + 1 =< Len(ss)
        BY <1>0, <1>2
      <4>2. QED BY <3>2, <4>1, LaidNext
    <3>4. 1 \in 1 .. n /\ ss[1] \in Seq(A)
      BY <1>0, <1>2
    <3>5. <<>> \o ss[1] = ss[1]
      BY <3>4
    <3>6. \E st2 : Laid(A, ss, 1, fl[1], st2)
      BY <3>3, <3>5, <2>8
    <3>7. QED BY <3>4, <3>6
  <2>10. \A m \in 1 .. n - 1 : m \in Y => m + 1 \in Y
    <3> SUFFICES ASSUME NEW m \in 1 .. n - 1, m \in Y PROVE m + 1 \in Y
      OBVIOUS
    <3>1. PICK st : Laid(A, ss, m, fl[m], st)
      OBVIOUS
    <3>2. m \in Nat /\ m + 1 =< Len(ss) /\ m + 1 \in 1 .. n /\ m + 1 # 1 /\ (m + 1) - 1 = m
      BY <1>0
    <3>3. \E st2 : Laid(A, ss, m + 1, fl[m] \o ss[m + 1], st2)
      BY <3>1, <3>2, LaidNext
    <3>4. fl[m + 1] = fl[m] \o ss[m + 1]
      BY <3>2, <2>8
    <3>5. QED BY <3>2, <3>3, <3>4
  <2> HIDE DEF Y
  <2>11. n \in Y
    <3>1. n \in Int /\ 1 \in Int /\ n \in 1 .. n
      BY <1>0, <1>2
    <3>2. \A m \in 1 .. n : m \in Y
      BY <2>9, <2>10, <3>1, RangeInduction
    <3>3. QED BY <3>1, <3>2
  <2>12. QED BY <2>11, <2>6 DEF Y
<1>3. QED BY <1>1, <1>2
=============================================================================

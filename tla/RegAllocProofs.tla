--------------------------- MODULE RegAllocProofs ---------------------------
(***************************************************************************)
(* Proofs about the register allocation, for every number of registers and *)
(* of outputs, every snippet in SSA, and whichever registers set.pop()     *)
(* hands out.                                                              *)
(***************************************************************************)
EXTENDS RegAllocSSA, SetInduction, FiniteSetTheorems, TLAPS

(***************************************************************************)
(* The inductive invariant, in terms of a snippet m, the registers map     *)
(* assigned before instruction k, the free ones and what registers hold.   *)
(***************************************************************************)
Dst(m, q) == m.instrs[q].dst

Defined(m, k) == UsedInputs(m) \cup {Dst(m, q) : q \in 1 .. k - 1}

\* The variables still to be read when instruction k is next.
Live(m, k) ==
  {v \in Defined(m, k) : \E p \in k .. Len(m.instrs) : v \in mem_inputs(m.instrs[p])}

\* Where everybody is.
Placed(m, map, k) ==
  /\ DOMAIN map = Defined(m, k) \cup Range(m.outputs)
  /\ \A j \in DOMAIN m.outputs : map[m.outputs[j]] = first_output_idx + j - 1
  /\ \A v \in Defined(m, k) \ Range(m.outputs) : map[v] \in 0 .. first_output_idx - 1
  /\ \A v \in UsedInputs(m) : map[v] = FirstAt(m.inputs, v) - 1

\* No instruction overwrites a variable that is still to be read.
NoClash(m, map, k) ==
  \A q \in 1 .. k - 1 : \A v \in Live(m, q + 1) \ {Dst(m, q)} : map[Dst(m, q)] # map[v]

\* The live variables have registers of their own, none of which is free.
Apart(m, map, free, k) ==
  /\ free \subseteq 0 .. first_output_idx - 1
  /\ \A v \in Live(m, k) : map[v] \notin free
  /\ \A v, w \in Live(m, k) : map[v] = map[w] => v = w

\* The count of the free registers, in terms of births and deaths.
Dead(m, j) == UNION {Deaths(m.instrs, q) : q \in 1 .. j}
Born(m, j) == {m.instrs[q].dst : q \in 1 .. j} \ Range(m.outputs)
Spare(m) ==
  LET s == r - l_out - Cardinality(UsedInputs(m)) IN IF s > 0 THEN s ELSE 0

Enough(m, j) ==
  Dst(m, j) \notin Range(m.outputs) =>
    Cardinality(Born(m, j)) =< Spare(m) + Cardinality(Dead(m, j))

Counted(m, free, k) ==
  /\ IsFiniteSet(free) /\ IsFiniteSet(Dead(m, k - 1)) /\ IsFiniteSet(Born(m, k - 1))
  /\ Cardinality(free) + Cardinality(Born(m, k - 1)) = Spare(m) + Cardinality(Dead(m, k - 1))

\* What is to be read or is an output is where it belongs.
InPlace(m, map, h, k) ==
  \A v \in Defined(m, k) : v \in Live(m, k) \/ v \in Range(m.outputs) => h[map[v]] = v

AInv ==
  /\ mi \in Snippets
  /\ apc \in {"alloc", "not_enough", "run", "done"}
  /\ n \in 1 .. Len(mi.instrs) + 1
  /\ apc = "alloc" =>
       /\ Placed(mi, mem_to_reg, n) /\ NoClash(mi, mem_to_reg, n)
       /\ Internal(mi) # {} =>
            Apart(mi, mem_to_reg, free_registers, n) /\ Counted(mi, free_registers, n)
       /\ \A j \in 1 .. n - 1 : Enough(mi, j)
  /\ apc = "not_enough" => n =< Len(mi.instrs) /\ ~ Enough(mi, n)
  /\ apc \in {"run", "done"} =>
       /\ Placed(mi, mem_to_reg, Len(mi.instrs) + 1)
       /\ NoClash(mi, mem_to_reg, Len(mi.instrs) + 1)
       /\ \A j \in 1 .. Len(mi.instrs) : Enough(mi, j)
       /\ DOMAIN holds = 0 .. r - 1
       /\ InPlace(mi, mem_to_reg, holds, n)
  /\ apc = "done" => n = Len(mi.instrs) + 1

-----------------------------------------------------------------------------
(***************************************************************************)
(* Snippets.                                                               *)
(***************************************************************************)
LEMMA SeqFacts ==
  ASSUME NEW S, NEW sq \in Seq(S)
  PROVE  /\ Len(sq) \in Nat /\ DOMAIN sq = 1 .. Len(sq)
         /\ \A q \in 1 .. Len(sq) : sq[q] \in S
  OBVIOUS

LEMMA SnippetFacts ==
  ASSUME NEW m \in Snippets
  PROVE  /\ Len(m.instrs) \in Nat /\ DOMAIN m.instrs = 1 .. Len(m.instrs)
         /\ Len(m.inputs) \in Nat /\ DOMAIN m.inputs = 1 .. Len(m.inputs)
         /\ Len(m.outputs) \in Nat /\ DOMAIN m.outputs = 1 .. Len(m.outputs)
         /\ Len(m.outputs) =< l_out
         /\ \A q \in 1 .. Len(m.instrs) : m.instrs[q].src \in Seq(Variables)
         /\ first_output_idx \in Nat /\ l_out \in Nat \ {0} /\ r \in Nat
         /\ first_output_idx + l_out = r
<1>1. m.instrs \in Seq([dst : Variables, src : Seq(Variables)])
  BY SnippetsAssumption DEF InSSAForm
<1>2. Len(m.instrs) \in Nat /\ DOMAIN m.instrs = 1 .. Len(m.instrs)
  BY <1>1, SeqFacts, Zenon
<1>3. \A q \in 1 .. Len(m.instrs) : m.instrs[q] \in [dst : Variables, src : Seq(Variables)]
  BY <1>1, SeqFacts, Zenon
<1>4. m.inputs \in Seq(Variables) /\ m.outputs \in Seq(Variables) /\ Len(m.outputs) =< l_out
  BY SnippetsAssumption DEF InSSAForm, OutputsUnread
<1>5. /\ Len(m.inputs) \in Nat /\ DOMAIN m.inputs = 1 .. Len(m.inputs)
      /\ Len(m.outputs) \in Nat /\ DOMAIN m.outputs = 1 .. Len(m.outputs)
  BY <1>4
<1>6. /\ first_output_idx \in Nat /\ l_out \in Nat \ {0} /\ r \in Nat
      /\ first_output_idx + l_out = r
  BY RegistersAssumption DEF first_output_idx
<1>7. \A q \in 1 .. Len(m.instrs) : m.instrs[q].src \in Seq(Variables)
  BY <1>3
<1>8. QED
  BY <1>2, <1>4, <1>5, <1>6, <1>7

LEMMA RangeIsFinite ==
  ASSUME NEW S, NEW sq \in Seq(S)
  PROVE  IsFiniteSet(Range(sq))
<1>1. sq \in Surjection(1 .. Len(sq), Range(sq))
  BY DEF Surjection, Range
<1>2. IsFiniteSet(1 .. Len(sq))
  BY FS_Interval
<1>3. QED
  BY <1>1, <1>2, FS_Surjection, Zenon

LEMMA FirstAtIs ==
  ASSUME NEW sq, Len(sq) \in Nat, DOMAIN sq = 1 .. Len(sq), NEW v \in Range(sq)
  PROVE  FirstAt(sq, v) \in 1 .. Len(sq) /\ sq[FirstAt(sq, v)] = v
<1> DEFINE T == {j \in 1 .. Len(sq) : sq[j] = v}
<1>1. T \subseteq Nat /\ T # {}
  BY DEF Range
<1>2. PICK j \in T : \A q \in T : j =< q
  BY <1>1, LeastNat
<1>3. QED
  BY <1>2 DEF FirstAt

LEMMA OutputAt ==
  ASSUME NEW m \in Snippets, NEW j \in DOMAIN m.outputs
  PROVE  LastAt(m.outputs, m.outputs[j]) = j
<1>1. \A q \in DOMAIN m.outputs : m.outputs[q] = m.outputs[j] => q = j
  BY SnippetsAssumption DEF OutputsUnread, IsInjective
<1>2. j \in Nat
  BY SnippetFacts
<1>3. QED
  BY <1>1, <1>2 DEF LastAt

LEMMA DstIsNew ==
  ASSUME NEW m \in Snippets, NEW k \in 1 .. Len(m.instrs)
  PROVE  Dst(m, k) \notin Defined(m, k) /\ Dst(m, k) \notin UsedInputs(m)
<1>1. k \in DOMAIN m.instrs /\ 1 .. k - 1 \subseteq DOMAIN m.instrs /\ k \notin 1 .. k - 1
  BY SnippetFacts
<1>2. Dst(m, k) \notin UsedInputs(m)
  BY <1>1 DEF UsedInputs, get_used, get_defs, Dst
<1>3. \A q \in 1 .. k - 1 : Dst(m, q) # Dst(m, k)
  BY <1>1, SnippetsAssumption DEF InSSAForm, Dst
<1>4. QED
  BY <1>2, <1>3 DEF Defined

LEMMA DefinedNext ==
  ASSUME NEW m \in Snippets, NEW k \in 1 .. Len(m.instrs)
  PROVE  Defined(m, k + 1) = Defined(m, k) \cup {Dst(m, k)}
<1>1. 1 .. (k + 1) - 1 = (1 .. k - 1) \cup {k}
  BY SnippetFacts
<1>2. QED
  BY <1>1 DEF Defined

LEMMA ReadIsLive ==
  ASSUME NEW m \in Snippets, NEW k \in 1 .. Len(m.instrs), NEW v \in mem_inputs(m.instrs[k])
  PROVE  v \in Live(m, k)
<1>1. k \in DOMAIN m.instrs /\ k \in k .. Len(m.instrs)
  BY SnippetFacts
<1>2. v \in UsedInputs(m) \/ \E q \in 1 .. k - 1 : m.instrs[q].dst = v
  BY <1>1, SnippetsAssumption DEF InSSAForm
<1>3. v \in Defined(m, k)
  BY <1>2 DEF Defined, Dst
<1>4. QED
  BY <1>1, <1>3 DEF Live

LEMMA LiveFacts ==
  ASSUME NEW m \in Snippets, NEW k \in 1 .. Len(m.instrs) + 1, NEW v \in Live(m, k)
  PROVE  v \in Defined(m, k) /\ v \notin Range(m.outputs)
<1>1. PICK p \in k .. Len(m.instrs) : v \in mem_inputs(m.instrs[p])
  BY DEF Live
<1>2. p \in DOMAIN m.instrs
  BY SnippetFacts
<1>3. v \in Reads(m.instrs)
  BY <1>1, <1>2 DEF Reads
<1>4. QED
  BY <1>3, SnippetsAssumption DEF OutputsUnread, Live

LEMMA LiveNext ==
  ASSUME NEW m \in Snippets, NEW k \in 1 .. Len(m.instrs), NEW v \in Live(m, k + 1)
  PROVE  /\ v # Dst(m, k) => v \in Live(m, k)
         /\ v \notin Deaths(m.instrs, k)
<1>1. PICK p \in k + 1 .. Len(m.instrs) : v \in mem_inputs(m.instrs[p])
  BY DEF Live
<1>2. p \in k .. Len(m.instrs) /\ p \in DOMAIN m.instrs /\ p > k
  BY SnippetFacts
<1>3. v # Dst(m, k) => v \in Defined(m, k)
  BY DefinedNext DEF Live
<1>4. QED
  BY <1>1, <1>2, <1>3 DEF Live, Deaths

LEMMA DeathsAreLive ==
  ASSUME NEW m \in Snippets, NEW k \in 1 .. Len(m.instrs)
  PROVE  Deaths(m.instrs, k) \subseteq Live(m, k)
  BY ReadIsLive DEF Deaths

-----------------------------------------------------------------------------
(***************************************************************************)
(* The allocation keeps live variables apart.                              *)
(***************************************************************************)
LEMMA UsedInputFacts ==
  ASSUME NEW m \in Snippets, NEW v \in UsedInputs(m)
  PROVE  /\ v \notin Range(m.outputs)
         /\ FirstAt(m.inputs, v) \in 1 .. Len(m.inputs) /\ FirstAt(m.inputs, v) =< first_output_idx
         /\ m.inputs[FirstAt(m.inputs, v)] = v
<1>1. v \in Range(m.inputs) /\ v \notin get_defs(m.instrs)
  BY DEF UsedInputs, get_used
<1>2. QED
  BY <1>1, SnippetFacts, FirstAtIs, SnippetsAssumption DEF OutputsUnread, InputsFirst

LEMMA PlacedInit ==
  ASSUME NEW m \in Snippets
  PROVE  Placed(m, InitialMap(m), 1) /\ NoClash(m, InitialMap(m), 1)
<1>1. 1 .. 1 - 1 = {}
  OBVIOUS
<1>2. Defined(m, 1) = UsedInputs(m)
  BY <1>1 DEF Defined
<1>3. DOMAIN InitialMap(m) = UsedInputs(m) \cup Range(m.outputs)
  BY DEF InitialMap, UsedInputs
<1>4. ASSUME NEW j \in DOMAIN m.outputs
      PROVE  InitialMap(m)[m.outputs[j]] = first_output_idx + j - 1
  <2>1. m.outputs[j] \in Range(m.outputs)
    BY DEF Range
  <2>2. QED
    BY <2>1, OutputAt DEF InitialMap
<1>5. ASSUME NEW v \in UsedInputs(m)
      PROVE  InitialMap(m)[v] = FirstAt(m.inputs, v) - 1
  BY UsedInputFacts DEF InitialMap, UsedInputs
<1>6. \A v \in UsedInputs(m) : FirstAt(m.inputs, v) - 1 \in 0 .. first_output_idx - 1
  BY UsedInputFacts, SnippetFacts
<1>7. Placed(m, InitialMap(m), 1)
  BY <1>2, <1>3, <1>4, <1>5, <1>6 DEF Placed
<1>8. QED
  BY <1>1, <1>7 DEF NoClash

LEMMA ApartInit ==
  ASSUME NEW m \in Snippets, Internal(m) # {}
  PROVE  Apart(m, InitialMap(m), InitialFree(m), 1)
<1> DEFINE c == Cardinality(UsedInputs(m))
<1>1. 1 .. 1 - 1 = {}
  OBVIOUS
<1>2. Live(m, 1) \subseteq UsedInputs(m)
  BY <1>1 DEF Defined, Live
<1>3. InitialFree(m) = c .. first_output_idx - 1
  BY DEF InitialFree, UsedInputs
<1>4. IsFiniteSet(UsedInputs(m)) /\ c \in Nat
  <2>1. m.inputs \in Seq(Variables)
    BY SnippetsAssumption DEF InSSAForm
  <2>2. IsFiniteSet(Range(m.inputs))
    BY <2>1, RangeIsFinite
  <2>3. QED
    BY <2>2, FS_Intersection, FS_CardinalityType DEF UsedInputs
<1>5. \A v \in UsedInputs(m) :
        /\ InitialMap(m)[v] = FirstAt(m.inputs, v) - 1
        /\ FirstAt(m.inputs, v) \in Nat
        /\ m.inputs[FirstAt(m.inputs, v)] = v
  <2>1. \A v \in UsedInputs(m) : InitialMap(m)[v] = FirstAt(m.inputs, v) - 1
    BY PlacedInit DEF Placed
  <2>2. QED
    BY <2>1, UsedInputFacts, SnippetFacts
<1>6. \A v \in UsedInputs(m) : FirstAt(m.inputs, v) =< c
  BY SnippetsAssumption DEF InputsFirst
<1> HIDE DEF c
<1>7. InitialFree(m) \subseteq 0 .. first_output_idx - 1
  BY <1>3, <1>4, SnippetFacts
<1>8. \A v \in UsedInputs(m) : InitialMap(m)[v] \notin InitialFree(m)
  BY <1>3, <1>4, <1>5, <1>6, SnippetFacts
<1>9. \A v, w \in UsedInputs(m) : InitialMap(m)[v] = InitialMap(m)[w] => v = w
  BY <1>5
<1>10. QED
  BY <1>2, <1>7, <1>8, <1>9 DEF Apart

\* An output already has its register.
LEMMA PlacedKeep ==
  ASSUME NEW m \in Snippets, NEW k \in 1 .. Len(m.instrs), NEW map,
         Placed(m, map, k), NoClash(m, map, k), Dst(m, k) \in Range(m.outputs)
  PROVE  Placed(m, map, k + 1) /\ NoClash(m, map, k + 1)
<1>1. Placed(m, map, k + 1)
  BY DefinedNext DEF Placed
<1>2. ASSUME NEW v \in Live(m, k + 1)
      PROVE  map[Dst(m, k)] # map[v]
  <2>1. k + 1 \in 1 .. Len(m.instrs) + 1
    BY SnippetFacts
  <2>2. v \in Defined(m, k + 1) /\ v \notin Range(m.outputs)
    BY <2>1, LiveFacts
  <2>3. map[v] \in 0 .. first_output_idx - 1
    BY <1>1, <2>2 DEF Placed
  <2>4. PICK j \in DOMAIN m.outputs : m.outputs[j] = Dst(m, k)
    BY DEF Range
  <2>5. map[Dst(m, k)] = first_output_idx + j - 1 /\ j \in 1 .. Len(m.outputs)
    BY <2>4, SnippetFacts DEF Placed
  <2>6. QED
    BY <2>3, <2>5, SnippetFacts
<1>3. 1 .. (k + 1) - 1 = (1 .. k - 1) \cup {k}
  BY SnippetFacts
<1>4. NoClash(m, map, k + 1)
  BY <1>2, <1>3 DEF NoClash
<1>5. QED
  BY <1>1, <1>4

FreedBy(m, map, k) == {map[v] : v \in Deaths(m.instrs, k)}

\* The registers of the variables that die now are not those of the ones that
\* live on.
LEMMA FreedApart ==
  ASSUME NEW m \in Snippets, NEW k \in 1 .. Len(m.instrs), NEW map, NEW free,
         Placed(m, map, k), Apart(m, map, free, k)
  PROVE  /\ free \cup FreedBy(m, map, k) \subseteq 0 .. first_output_idx - 1
         /\ \A v \in Live(m, k + 1) \ {Dst(m, k)} :
              map[v] \notin free \cup FreedBy(m, map, k)
<1>1. ASSUME NEW v \in Deaths(m.instrs, k)
      PROVE  map[v] \in 0 .. first_output_idx - 1
  <2>1. v \in Live(m, k) /\ k \in 1 .. Len(m.instrs) + 1
    BY DeathsAreLive, SnippetFacts
  <2>2. QED
    BY <2>1, LiveFacts DEF Placed
<1>2. ASSUME NEW v \in Live(m, k + 1) \ {Dst(m, k)}, NEW w \in Deaths(m.instrs, k)
      PROVE  map[v] # map[w]
  <2>1. v \in Live(m, k) /\ w \in Live(m, k) /\ v # w
    BY LiveNext, DeathsAreLive
  <2>2. QED
    BY <2>1 DEF Apart
<1>3. FreedBy(m, map, k) \subseteq 0 .. first_output_idx - 1
  BY <1>1 DEF FreedBy
<1>4. \A v \in Live(m, k + 1) \ {Dst(m, k)} : map[v] \notin FreedBy(m, map, k)
  BY <1>2 DEF FreedBy
<1>5. \A v \in Live(m, k + 1) \ {Dst(m, k)} : map[v] \notin free
  BY LiveNext DEF Apart
<1>6. QED
  BY <1>3, <1>4, <1>5 DEF Apart

LEMMA ApartKeep ==
  ASSUME NEW m \in Snippets, NEW k \in 1 .. Len(m.instrs), NEW map, NEW free,
         Placed(m, map, k), Apart(m, map, free, k), Dst(m, k) \in Range(m.outputs)
  PROVE  Apart(m, map, free \cup FreedBy(m, map, k), k + 1)
<1>1. k + 1 \in 1 .. Len(m.instrs) + 1
  BY SnippetFacts
<1>2. \A v \in Live(m, k + 1) : v # Dst(m, k) /\ v \in Live(m, k)
  BY <1>1, LiveFacts, LiveNext
<1>3. \A v, w \in Live(m, k + 1) : map[v] = map[w] => v = w
  BY <1>2 DEF Apart
<1>4. QED
  BY <1>2, <1>3, FreedApart DEF Apart

\* A variable that is no output gets one of the free registers.
Extended(m, map, k, x) ==
  [v \in DOMAIN map \cup {Dst(m, k)} |-> IF v = Dst(m, k) THEN x ELSE map[v]]

LEMMA PlacedTake ==
  ASSUME NEW m \in Snippets, NEW k \in 1 .. Len(m.instrs), NEW map, NEW free,
         Placed(m, map, k), NoClash(m, map, k), Apart(m, map, free, k),
         Dst(m, k) \notin Range(m.outputs),
         NEW x \in free \cup FreedBy(m, map, k)
  PROVE  /\ Placed(m, Extended(m, map, k, x), k + 1)
         /\ NoClash(m, Extended(m, map, k, x), k + 1)
<1> DEFINE map2 == Extended(m, map, k, x)
<1>1. map2[Dst(m, k)] = x /\ x \in 0 .. first_output_idx - 1
  BY FreedApart DEF Extended
<1>2. \A v \in Defined(m, k) \cup Range(m.outputs) : map2[v] = map[v]
  BY DstIsNew DEF Extended, Placed
<1>3. DOMAIN map2 = Defined(m, k + 1) \cup Range(m.outputs)
  BY DefinedNext DEF Extended, Placed
<1> HIDE DEF map2
<1>4. \A j \in DOMAIN m.outputs : m.outputs[j] \in Range(m.outputs)
  BY DEF Range
<1>5. \A v \in UsedInputs(m) : v \in Defined(m, k)
  BY DEF Defined
<1>6. Placed(m, map2, k + 1)
  BY <1>1, <1>2, <1>3, <1>4, <1>5, DefinedNext DEF Placed
<1>7. ASSUME NEW q \in 1 .. k - 1, NEW v \in Live(m, q + 1) \ {Dst(m, q)}
      PROVE  map2[Dst(m, q)] # map2[v]
  <2>1. q \in 1 .. Len(m.instrs) /\ q + 1 \in 1 .. Len(m.instrs) + 1
    BY SnippetFacts
  <2>2. Dst(m, q) \in Defined(m, k)
    BY DEF Defined
  <2>3. v \in Defined(m, q + 1)
    BY <2>1, LiveFacts
  <2>4. Defined(m, q + 1) \subseteq Defined(m, k)
    <3>1. 1 .. (q + 1) - 1 \subseteq 1 .. k - 1
      BY SnippetFacts
    <3>2. QED
      BY <3>1 DEF Defined
  <2>5. map[Dst(m, q)] # map[v]
    BY DEF NoClash
  <2>6. QED
    BY <1>2, <2>2, <2>3, <2>4, <2>5
<1>8. ASSUME NEW v \in Live(m, k + 1) \ {Dst(m, k)}
      PROVE  map2[Dst(m, k)] # map2[v]
  <2>1. v \in Defined(m, k)
    BY LiveNext DEF Live
  <2>2. map[v] # x
    BY FreedApart
  <2>3. QED
    BY <1>1, <1>2, <2>1, <2>2
<1>9. 1 .. (k + 1) - 1 = (1 .. k - 1) \cup {k}
  BY SnippetFacts
<1>10. NoClash(m, map2, k + 1)
  BY <1>7, <1>8, <1>9 DEF NoClash
<1>11. QED
  BY <1>6, <1>10 DEF map2

LEMMA ApartTake ==
  ASSUME NEW m \in Snippets, NEW k \in 1 .. Len(m.instrs), NEW map, NEW free,
         Placed(m, map, k), Apart(m, map, free, k),
         Dst(m, k) \notin Range(m.outputs),
         NEW x \in free \cup FreedBy(m, map, k)
  PROVE  Apart(m, Extended(m, map, k, x), (free \cup FreedBy(m, map, k)) \ {x}, k + 1)
<1> DEFINE map2 == Extended(m, map, k, x)
           others == Live(m, k + 1) \ {Dst(m, k)}
<1>1. map2[Dst(m, k)] = x
  BY DEF Extended
<1>2. \A v \in others : v \in Live(m, k)
  BY LiveNext
<1>3. \A v \in others : map2[v] = map[v]
  BY <1>2 DEF Extended, Placed, Live
<1>4. \A v \in others : map[v] \notin free \cup FreedBy(m, map, k)
  BY FreedApart
<1>5. \A v, w \in others : map[v] = map[w] => v = w
  BY <1>2 DEF Apart
<1> HIDE DEF map2
<1>6. \A v, w \in Live(m, k + 1) : map2[v] = map2[w] => v = w
  BY <1>1, <1>3, <1>4, <1>5
<1>7. \A v \in Live(m, k + 1) : map2[v] \notin (free \cup FreedBy(m, map, k)) \ {x}
  BY <1>1, <1>3, <1>4
<1>8. QED
  BY <1>6, <1>7, FreedApart DEF Apart, map2

-----------------------------------------------------------------------------
(***************************************************************************)
(* Births and deaths count the free registers.                             *)
(***************************************************************************)
LEMMA UsedInputsCount ==
  ASSUME NEW m \in Snippets
  PROVE  Cardinality(UsedInputs(m)) \in Nat /\ Spare(m) \in Nat
<1>1. m.inputs \in Seq(Variables)
  BY SnippetsAssumption DEF InSSAForm
<1>2. IsFiniteSet(Range(m.inputs))
  BY <1>1, RangeIsFinite
<1>3. IsFiniteSet(UsedInputs(m))
  BY <1>2, FS_Intersection DEF UsedInputs
<1>4. Cardinality(UsedInputs(m)) \in Nat
  BY <1>3, FS_CardinalityType
<1>5. Spare(m) \in Nat
  BY <1>4, SnippetFacts DEF Spare
<1>6. QED
  BY <1>4, <1>5

LEMMA CountedInit ==
  ASSUME NEW m \in Snippets
  PROVE  Counted(m, InitialFree(m), 1)
<1> DEFINE c == Cardinality(UsedInputs(m))
<1>1. 1 .. 1 - 1 = {}
  OBVIOUS
<1>2. Dead(m, 1 - 1) = {} /\ Born(m, 1 - 1) = {}
  BY <1>1 DEF Dead, Born
<1>3. InitialFree(m) = c .. first_output_idx - 1
  BY DEF InitialFree, UsedInputs
<1>4. c \in Nat
  BY UsedInputsCount
<1>5. Spare(m) = IF first_output_idx - c > 0 THEN first_output_idx - c ELSE 0
  BY DEF Spare, first_output_idx
<1> HIDE DEF c
<1>6. first_output_idx - 1 \in Int /\ first_output_idx \in Int
  BY SnippetFacts
<1>7. /\ IsFiniteSet(InitialFree(m))
      /\ Cardinality(InitialFree(m)) =
           IF c > first_output_idx - 1 THEN 0 ELSE (first_output_idx - 1) - c + 1
  BY <1>3, <1>4, <1>6, FS_Interval
<1>8. Cardinality(InitialFree(m)) = Spare(m) /\ Spare(m) \in Nat
  BY <1>4, <1>5, <1>6, <1>7
<1>9. QED
  BY <1>2, <1>7, <1>8, FS_EmptySet DEF Counted

LEMMA DeathsFinite ==
  ASSUME NEW m \in Snippets, NEW k \in 1 .. Len(m.instrs)
  PROVE  IsFiniteSet(Deaths(m.instrs, k)) /\ Cardinality(Deaths(m.instrs, k)) \in Nat
<1>1. m.instrs[k].src \in Seq(Variables)
  BY SnippetFacts
<1>2. IsFiniteSet(mem_inputs(m.instrs[k]))
  BY <1>1, RangeIsFinite DEF mem_inputs
<1>3. Deaths(m.instrs, k) \subseteq mem_inputs(m.instrs[k])
  BY DEF Deaths
<1>4. QED
  BY <1>2, <1>3, FS_Subset, FS_CardinalityType

\* The registers that are freed were in use, and are as many as the deaths.
LEMMA FreedCount ==
  ASSUME NEW m \in Snippets, NEW k \in 1 .. Len(m.instrs), NEW map, NEW free,
         Apart(m, map, free, k), IsFiniteSet(free)
  PROVE  /\ IsFiniteSet(free \cup FreedBy(m, map, k))
         /\ Cardinality(free \cup FreedBy(m, map, k))
              = Cardinality(free) + Cardinality(Deaths(m.instrs, k))
<1> DEFINE D == Deaths(m.instrs, k)
           F == FreedBy(m, map, k)
           f == [v \in D |-> map[v]]
<1>1. \A v \in D : v \in Live(m, k)
  BY DeathsAreLive
<1>2. \A v, w \in D : map[v] = map[w] => v = w
  BY <1>1 DEF Apart
<1>3. f \in Bijection(D, F)
  BY <1>2 DEF Bijection, Injection, IsInjective, Surjection, FreedBy
<1>4. free \cap F = {}
  BY <1>1 DEF Apart, FreedBy
<1>5. IsFiniteSet(D) /\ Cardinality(D) \in Nat
  BY DeathsFinite
<1> HIDE DEF D, F, f
<1>6. IsFiniteSet(F) /\ Cardinality(F) = Cardinality(D)
  BY <1>3, <1>5, FS_Bijection DEF ExistsBijection
<1>7. Cardinality(free) \in Nat
  BY FS_CardinalityType
<1>8. /\ IsFiniteSet(free \cup F)
      /\ Cardinality(free \cup F) = Cardinality(free) + Cardinality(F) - Cardinality(free \cap F)
  BY <1>6, FS_Union
<1>9. Cardinality(free \cap F) = 0
  BY <1>4, FS_EmptySet
<1>10. QED
  BY <1>5, <1>6, <1>7, <1>8, <1>9 DEF D, F

\* A variable dies once.
LEMMA DeadNext ==
  ASSUME NEW m \in Snippets, NEW k \in 1 .. Len(m.instrs), IsFiniteSet(Dead(m, k - 1))
  PROVE  /\ IsFiniteSet(Dead(m, k))
         /\ Cardinality(Dead(m, k)) = Cardinality(Dead(m, k - 1)) + Cardinality(Deaths(m.instrs, k))
<1> DEFINE A == Dead(m, k - 1)
           D == Deaths(m.instrs, k)
<1>1. 1 .. k = (1 .. k - 1) \cup {k}
  BY SnippetFacts
<1>2. Dead(m, k) = A \cup D
  BY <1>1 DEF Dead
<1>3. A \cap D = {}
  <2> SUFFICES ASSUME NEW q \in 1 .. k - 1, NEW v \in Deaths(m.instrs, q), v \in D
               PROVE  FALSE
    BY DEF Dead
  <2>1. k \in DOMAIN m.instrs /\ k > q
    BY SnippetFacts
  <2>2. QED
    BY <2>1 DEF Deaths
<1>4. IsFiniteSet(D) /\ Cardinality(D) \in Nat
  BY DeathsFinite
<1> HIDE DEF A, D
<1>5. /\ IsFiniteSet(A \cup D)
      /\ Cardinality(A \cup D) = Cardinality(A) + Cardinality(D) - Cardinality(A \cap D)
  BY <1>4, FS_Union DEF A
<1>6. Cardinality(A \cap D) = 0 /\ Cardinality(A) \in Nat
  BY <1>3, FS_EmptySet, FS_CardinalityType DEF A
<1>7. QED
  BY <1>2, <1>4, <1>5, <1>6 DEF A, D

\* Every variable that is no output is born once.
LEMMA BornNext ==
  ASSUME NEW m \in Snippets, NEW k \in 1 .. Len(m.instrs), IsFiniteSet(Born(m, k - 1))
  PROVE  /\ IsFiniteSet(Born(m, k))
         /\ Cardinality(Born(m, k - 1)) \in Nat
         /\ Cardinality(Born(m, k)) =
              IF Dst(m, k) \in Range(m.outputs) THEN Cardinality(Born(m, k - 1))
              ELSE Cardinality(Born(m, k - 1)) + 1
<1>1. 1 .. k = (1 .. k - 1) \cup {k}
  BY SnippetFacts
<1>2. CASE Dst(m, k) \in Range(m.outputs)
  <2>1. Born(m, k) = Born(m, k - 1)
    BY <1>1, <1>2 DEF Born, Dst
  <2>2. QED
    BY <1>2, <2>1, FS_CardinalityType
<1>3. CASE Dst(m, k) \notin Range(m.outputs)
  <2>1. Born(m, k) = Born(m, k - 1) \cup {Dst(m, k)}
    BY <1>1, <1>3 DEF Born, Dst
  <2>2. Dst(m, k) \notin Born(m, k - 1)
    BY DstIsNew DEF Defined, Born, Dst
  <2>3. QED
    BY <1>3, <2>1, <2>2, FS_AddElement, FS_CardinalityType
<1>4. QED
  BY <1>2, <1>3

\* The numbers involved, and what is left of them after instruction k.
LEMMA CountStep ==
  ASSUME NEW m \in Snippets, NEW k \in 1 .. Len(m.instrs), NEW map, NEW free,
         Apart(m, map, free, k), Counted(m, free, k)
  PROVE  LET all == free \cup FreedBy(m, map, k) IN
         /\ IsFiniteSet(all) /\ IsFiniteSet(Dead(m, k)) /\ IsFiniteSet(Born(m, k))
         /\ Cardinality(all) \in Nat /\ Spare(m) \in Nat
         /\ Cardinality(Dead(m, k)) \in Nat /\ Cardinality(Born(m, k)) \in Nat
         /\ Cardinality(all) + Cardinality(Born(m, k))
              = Spare(m) + Cardinality(Dead(m, k))
                  + IF Dst(m, k) \in Range(m.outputs) THEN 0 ELSE 1
<1> DEFINE all == free \cup FreedBy(m, map, k)
<1>1. IsFiniteSet(free) /\ IsFiniteSet(Dead(m, k - 1)) /\ IsFiniteSet(Born(m, k - 1))
  BY DEF Counted
<1>2. IsFiniteSet(all) /\ IsFiniteSet(Dead(m, k)) /\ IsFiniteSet(Born(m, k))
  BY <1>1, FreedCount, DeadNext, BornNext
<1>3. /\ Cardinality(all) \in Nat /\ Cardinality(free) \in Nat
      /\ Cardinality(Dead(m, k)) \in Nat /\ Cardinality(Born(m, k)) \in Nat
      /\ Cardinality(Dead(m, k - 1)) \in Nat /\ Cardinality(Born(m, k - 1)) \in Nat
      /\ Cardinality(Deaths(m.instrs, k)) \in Nat
  BY <1>1, <1>2, DeathsFinite, FS_CardinalityType
<1>4. Cardinality(all) = Cardinality(free) + Cardinality(Deaths(m.instrs, k))
  BY <1>1, FreedCount
<1>5. Cardinality(Dead(m, k)) = Cardinality(Dead(m, k - 1)) + Cardinality(Deaths(m.instrs, k))
  BY <1>1, DeadNext
<1>6. Cardinality(Born(m, k)) = Cardinality(Born(m, k - 1))
                                  + IF Dst(m, k) \in Range(m.outputs) THEN 0 ELSE 1
  BY <1>1, <1>3, BornNext
<1>7. Cardinality(free) + Cardinality(Born(m, k - 1)) = Spare(m) + Cardinality(Dead(m, k - 1))
  BY DEF Counted
<1>8. Spare(m) \in Nat
  BY UsedInputsCount
<1> DEFINE d == IF Dst(m, k) \in Range(m.outputs) THEN 0 ELSE 1
<1>9. d \in Nat /\ Cardinality(Born(m, k)) = Cardinality(Born(m, k - 1)) + d
  BY <1>6
<1> HIDE DEF all, d
<1>10. Cardinality(all) + Cardinality(Born(m, k)) = Spare(m) + Cardinality(Dead(m, k)) + d
  <2> DEFINE ca == Cardinality(all)
             cf == Cardinality(free)
             ch == Cardinality(Deaths(m.instrs, k))
             cd == Cardinality(Dead(m, k - 1))
             ce == Cardinality(Dead(m, k))
             cb == Cardinality(Born(m, k - 1))
             cn == Cardinality(Born(m, k))
             cs == Spare(m)
  <2>1. /\ ca \in Nat /\ cf \in Nat /\ ch \in Nat /\ cd \in Nat /\ ce \in Nat
        /\ cb \in Nat /\ cn \in Nat /\ cs \in Nat /\ d \in Nat
    BY <1>3, <1>8, <1>9
  <2>2. ca = cf + ch /\ ce = cd + ch /\ cn = cb + d /\ cf + cb = cs + cd
    BY <1>4, <1>5, <1>7, <1>9
  <2> HIDE DEF ca, cf, ch, cd, ce, cb, cn, cs
  <2>3. ca + cn = cs + ce + d
    BY <2>1, <2>2
  <2>4. QED
    BY <2>3 DEF ca, cf, ch, cd, ce, cb, cn, cs
<1>11. QED
  BY <1>2, <1>3, <1>8, <1>10 DEF all, d

LEMMA CountedKeep ==
  ASSUME NEW m \in Snippets, NEW k \in 1 .. Len(m.instrs), NEW map, NEW free,
         Apart(m, map, free, k), Counted(m, free, k), Dst(m, k) \in Range(m.outputs)
  PROVE  Counted(m, free \cup FreedBy(m, map, k), k + 1)
<1>1. (k + 1) - 1 = k
  BY SnippetFacts
<1>2. QED
  BY <1>1, CountStep DEF Counted

LEMMA CountedTake ==
  ASSUME NEW m \in Snippets, NEW k \in 1 .. Len(m.instrs), NEW map, NEW free,
         Apart(m, map, free, k), Counted(m, free, k), Dst(m, k) \notin Range(m.outputs),
         NEW x \in free \cup FreedBy(m, map, k)
  PROVE  Enough(m, k) /\ Counted(m, (free \cup FreedBy(m, map, k)) \ {x}, k + 1)
<1> DEFINE all == free \cup FreedBy(m, map, k)
<1>1. (k + 1) - 1 = k
  BY SnippetFacts
<1>2. /\ IsFiniteSet(all) /\ IsFiniteSet(Dead(m, k)) /\ IsFiniteSet(Born(m, k))
      /\ Cardinality(all) \in Nat /\ Spare(m) \in Nat
      /\ Cardinality(Dead(m, k)) \in Nat /\ Cardinality(Born(m, k)) \in Nat
      /\ Cardinality(all) + Cardinality(Born(m, k)) = Spare(m) + Cardinality(Dead(m, k)) + 1
  BY CountStep
<1>3. x \in all
  OBVIOUS
<1> HIDE DEF all
<1>4. IsFiniteSet(all \ {x}) /\ Cardinality(all \ {x}) = Cardinality(all) - 1
  BY <1>2, <1>3, FS_RemoveElement
<1>5. Cardinality(all) # 0
  BY <1>2, <1>3, FS_EmptySet
<1>6. Enough(m, k)
  BY <1>2, <1>5 DEF Enough
<1>7. Cardinality(all \ {x}) + Cardinality(Born(m, k)) = Spare(m) + Cardinality(Dead(m, k))
  BY <1>2, <1>4
<1>8. Counted(m, all \ {x}, k + 1)
  BY <1>1, <1>2, <1>4, <1>7 DEF Counted
<1>9. QED
  BY <1>6, <1>8 DEF all

LEMMA CountRefuses ==
  ASSUME NEW m \in Snippets, NEW k \in 1 .. Len(m.instrs), NEW map, NEW free,
         Apart(m, map, free, k), Counted(m, free, k), Dst(m, k) \notin Range(m.outputs),
         free \cup FreedBy(m, map, k) = {}
  PROVE  ~ Enough(m, k)
<1>1. /\ Spare(m) \in Nat
      /\ Cardinality(Dead(m, k)) \in Nat /\ Cardinality(Born(m, k)) \in Nat
      /\ Cardinality({}) + Cardinality(Born(m, k)) = Spare(m) + Cardinality(Dead(m, k)) + 1
  BY CountStep
<1>2. QED
  BY <1>1, FS_EmptySet DEF Enough

\* needs_leq_k_registers() asks this of every instruction.
LEMMA CountIs ==
  ASSUME NEW m \in Snippets
  PROVE  needs_leq_k_registers(m.instrs, m.inputs, m.outputs, r, l_out)
           <=> \A j \in 1 .. Len(m.instrs) : Enough(m, j)
<1>1. DOMAIN m.instrs = 1 .. Len(m.instrs)
  BY SnippetFacts
<1>2. QED
  BY <1>1 DEF needs_leq_k_registers, Enough, Spare, Dead, Born, Dst, UsedInputs

-----------------------------------------------------------------------------
(***************************************************************************)
(* The LLMI at work.                                                       *)
(***************************************************************************)
LEMMA OutputRegister ==
  ASSUME NEW m \in Snippets, NEW k, NEW map, Placed(m, map, k), NEW v \in Range(m.outputs)
  PROVE  \E j \in 1 .. Len(m.outputs) :
           m.outputs[j] = v /\ map[v] = first_output_idx + j - 1
  BY SnippetFacts DEF Placed, Range

LEMMA RegisterRange ==
  ASSUME NEW m \in Snippets, NEW k, NEW map, Placed(m, map, k),
         NEW v \in Defined(m, k) \cup Range(m.outputs)
  PROVE  map[v] \in 0 .. r - 1
<1>1. CASE v \in Range(m.outputs)
  BY <1>1, OutputRegister, SnippetFacts
<1>2. CASE v \notin Range(m.outputs)
  BY <1>2, SnippetFacts DEF Placed
<1>3. QED
  BY <1>1, <1>2

LEMMA InPlaceInit ==
  ASSUME NEW m \in Snippets, NEW map, Placed(m, map, Len(m.instrs) + 1), NEW h,
         h = [x \in 0 .. r - 1 |-> IF x < Len(m.inputs) THEN m.inputs[x + 1] ELSE Nobody]
  PROVE  InPlace(m, map, h, 1)
<1> SUFFICES ASSUME NEW v \in UsedInputs(m) PROVE h[map[v]] = v
  <2>1. 1 .. 1 - 1 = {}
    OBVIOUS
  <2>2. QED
    BY <2>1 DEF InPlace, Defined
<1>1. map[v] = FirstAt(m.inputs, v) - 1
  BY DEF Placed
<1>2. /\ FirstAt(m.inputs, v) \in 1 .. Len(m.inputs) /\ FirstAt(m.inputs, v) =< first_output_idx
      /\ m.inputs[FirstAt(m.inputs, v)] = v
  BY UsedInputFacts
<1>3. FirstAt(m.inputs, v) - 1 \in 0 .. r - 1 /\ FirstAt(m.inputs, v) - 1 < Len(m.inputs)
  BY <1>2, SnippetFacts
<1>4. (FirstAt(m.inputs, v) - 1) + 1 = FirstAt(m.inputs, v)
  BY <1>2, SnippetFacts
<1>5. QED
  BY <1>1, <1>2, <1>3, <1>4

LEMMA DefinedUpTo ==
  ASSUME NEW m \in Snippets, NEW k \in 1 .. Len(m.instrs)
  PROVE  Defined(m, k + 1) \subseteq Defined(m, Len(m.instrs) + 1)
<1>1. 1 .. (k + 1) - 1 \subseteq 1 .. (Len(m.instrs) + 1) - 1
  BY SnippetFacts
<1>2. QED
  BY <1>1 DEF Defined

\* Nothing that is still needed is in the register instruction k writes to.
LEMMA WritesElsewhere ==
  ASSUME NEW m \in Snippets, NEW k \in 1 .. Len(m.instrs), NEW map,
         Placed(m, map, Len(m.instrs) + 1), NoClash(m, map, Len(m.instrs) + 1),
         NEW v \in Defined(m, k), v \in Live(m, k + 1) \/ v \in Range(m.outputs)
  PROVE  map[v] # map[Dst(m, k)]
<1>1. v # Dst(m, k)
  BY DstIsNew
<1>2. k \in 1 .. (Len(m.instrs) + 1) - 1
  BY SnippetFacts
<1>3. CASE v \in Live(m, k + 1)
  BY <1>1, <1>2, <1>3 DEF NoClash
<1>4. CASE v \in Range(m.outputs)
  <2>1. PICK j \in 1 .. Len(m.outputs) : m.outputs[j] = v /\ map[v] = first_output_idx + j - 1
    BY <1>4, OutputRegister
  <2>2. CASE Dst(m, k) \in Range(m.outputs)
    <3>1. PICK q \in 1 .. Len(m.outputs) :
            m.outputs[q] = Dst(m, k) /\ map[Dst(m, k)] = first_output_idx + q - 1
      BY <2>2, OutputRegister
    <3>2. q # j
      BY <1>1, <2>1, <3>1
    <3>3. QED
      BY <2>1, <3>1, <3>2, SnippetFacts
  <2>3. CASE Dst(m, k) \notin Range(m.outputs)
    <3>1. Dst(m, k) \in Defined(m, Len(m.instrs) + 1)
      BY DefinedNext, DefinedUpTo
    <3>2. map[Dst(m, k)] \in 0 .. first_output_idx - 1
      BY <2>3, <3>1 DEF Placed
    <3>3. QED
      BY <2>1, <3>2, SnippetFacts
  <2>4. QED
    BY <2>2, <2>3
<1>5. QED
  BY <1>3, <1>4

LEMMA InPlaceStep ==
  ASSUME NEW m \in Snippets, NEW k \in 1 .. Len(m.instrs), NEW map, NEW h,
         Placed(m, map, Len(m.instrs) + 1), NoClash(m, map, Len(m.instrs) + 1),
         DOMAIN h = 0 .. r - 1, InPlace(m, map, h, k)
  PROVE  /\ \A v \in mem_inputs(m.instrs[k]) : h[map[v]] = v
         /\ InPlace(m, map, [h EXCEPT ![map[Dst(m, k)]] = Dst(m, k)], k + 1)
<1> DEFINE h2 == [h EXCEPT ![map[Dst(m, k)]] = Dst(m, k)]
<1>1. \A v \in mem_inputs(m.instrs[k]) : h[map[v]] = v
  BY ReadIsLive DEF InPlace, Live
<1>2. \A v \in Defined(m, k + 1) : map[v] \in 0 .. r - 1
  BY DefinedUpTo, RegisterRange
<1>3. Dst(m, k) \in Defined(m, k + 1)
  BY DefinedNext
<1>4. h2[map[Dst(m, k)]] = Dst(m, k)
  BY <1>2, <1>3
<1>5. ASSUME NEW v \in Defined(m, k + 1), v \in Live(m, k + 1) \/ v \in Range(m.outputs),
             v # Dst(m, k)
      PROVE  h2[map[v]] = v
  <2>1. v \in Defined(m, k)
    BY <1>5, DefinedNext
  <2>2. v \in Live(m, k) \/ v \in Range(m.outputs)
    BY <1>5, LiveNext
  <2>3. h[map[v]] = v
    BY <2>1, <2>2 DEF InPlace
  <2>4. map[v] # map[Dst(m, k)]
    BY <1>5, <2>1, WritesElsewhere
  <2>5. QED
    BY <1>2, <2>3, <2>4
<1> HIDE DEF h2
<1>6. InPlace(m, map, h2, k + 1)
  BY <1>4, <1>5 DEF InPlace
<1>7. QED
  BY <1>1, <1>6 DEF h2

-----------------------------------------------------------------------------
(***************************************************************************)
(* The steps.                                                              *)
(***************************************************************************)
LEMMA AInvInit == AInit => AInv
<1> SUFFICES ASSUME AInit PROVE AInv
  OBVIOUS
<1>1. mi \in Snippets /\ apc = "alloc" /\ n = 1
  BY DEF AInit
<1>2. 1 \in 1 .. Len(mi.instrs) + 1 /\ 1 .. 1 - 1 = {}
  BY <1>1, SnippetFacts
<1>3. mem_to_reg = InitialMap(mi) /\ free_registers = InitialFree(mi)
  BY DEF AInit
<1>4. Placed(mi, mem_to_reg, 1) /\ NoClash(mi, mem_to_reg, 1)
  BY <1>1, <1>3, PlacedInit
<1>5. Internal(mi) # {} =>
        Apart(mi, mem_to_reg, free_registers, 1) /\ Counted(mi, free_registers, 1)
  BY <1>1, <1>3, ApartInit, CountedInit
<1>6. QED
  BY <1>1, <1>2, <1>4, <1>5 DEF AInv

LEMMA AllocateStep ==
  ASSUME AInv, Allocate
  PROVE  AInv'
<1>1. /\ apc = "alloc" /\ n =< Len(mi.instrs) /\ mi' = mi
      /\ mi \in Snippets /\ n \in 1 .. Len(mi.instrs) + 1
      /\ Placed(mi, mem_to_reg, n) /\ NoClash(mi, mem_to_reg, n)
      /\ Internal(mi) # {} =>
           Apart(mi, mem_to_reg, free_registers, n) /\ Counted(mi, free_registers, n)
      /\ \A j \in 1 .. n - 1 : Enough(mi, j)
  BY DEF Allocate, AInv
<1>2. /\ n \in 1 .. Len(mi.instrs) /\ n + 1 \in 1 .. Len(mi.instrs) + 1
      /\ 1 .. (n + 1) - 1 = (1 .. n - 1) \cup {n}
  BY <1>1, SnippetFacts
<1>3. Freed = FreedBy(mi, mem_to_reg, n) /\ mi.instrs[n].dst = Dst(mi, n)
  BY DEF Freed, FreedBy, Dst
<1>4. Dst(mi, n) \in DOMAIN mem_to_reg <=> Dst(mi, n) \in Range(mi.outputs)
  BY <1>1, <1>2, DstIsNew DEF Placed
<1>5. Dst(mi, n) \notin Range(mi.outputs) => Internal(mi) # {}
  BY <1>1, <1>2, SnippetFacts DEF Internal, get_defs, Dst
<1>6. CASE /\ Dst(mi, n) \in DOMAIN mem_to_reg
           /\ free_registers' = free_registers \cup Freed
           /\ n' = n + 1
           /\ UNCHANGED <<apc, mem_to_reg>>
  <2>1. Placed(mi, mem_to_reg, n + 1) /\ NoClash(mi, mem_to_reg, n + 1)
    BY <1>1, <1>2, <1>4, <1>6, PlacedKeep
  <2>2. Internal(mi) # {} =>
          /\ Apart(mi, mem_to_reg, free_registers \cup Freed, n + 1)
          /\ Counted(mi, free_registers \cup Freed, n + 1)
    BY <1>1, <1>2, <1>3, <1>4, <1>6, ApartKeep, CountedKeep
  <2>3. \A j \in 1 .. (n + 1) - 1 : Enough(mi, j)
    BY <1>1, <1>2, <1>4, <1>6 DEF Enough
  <2>4. QED
    BY <1>1, <1>2, <1>6, <2>1, <2>2, <2>3 DEF AInv
<1>7. CASE /\ Dst(mi, n) \notin DOMAIN mem_to_reg
           /\ free_registers \cup Freed = {}
           /\ apc' = "not_enough"
           /\ UNCHANGED <<n, mem_to_reg, free_registers>>
  <2>1. ~ Enough(mi, n)
    BY <1>1, <1>2, <1>3, <1>4, <1>5, <1>7, CountRefuses
  <2>2. QED
    BY <1>1, <1>7, <2>1 DEF AInv
<1>8. CASE /\ Dst(mi, n) \notin DOMAIN mem_to_reg
           /\ \E x \in free_registers \cup Freed :
                /\ mem_to_reg' = Extended(mi, mem_to_reg, n, x)
                /\ free_registers' = (free_registers \cup Freed) \ {x}
           /\ n' = n + 1
           /\ UNCHANGED apc
  <2>1. PICK x \in free_registers \cup Freed :
          /\ mem_to_reg' = Extended(mi, mem_to_reg, n, x)
          /\ free_registers' = (free_registers \cup Freed) \ {x}
    BY <1>8
  <2>2. Placed(mi, mem_to_reg', n + 1) /\ NoClash(mi, mem_to_reg', n + 1)
    BY <1>1, <1>2, <1>3, <1>4, <1>5, <1>8, <2>1, PlacedTake
  <2>3. Apart(mi, mem_to_reg', free_registers', n + 1)
    BY <1>1, <1>2, <1>3, <1>4, <1>5, <1>8, <2>1, ApartTake
  <2>4. Counted(mi, free_registers', n + 1) /\ Enough(mi, n)
    BY <1>1, <1>2, <1>3, <1>4, <1>5, <1>8, <2>1, CountedTake
  <2>5. \A j \in 1 .. (n + 1) - 1 : Enough(mi, j)
    BY <1>1, <1>2, <2>4
  <2>6. QED
    BY <1>1, <1>2, <1>8, <2>2, <2>3, <2>4, <2>5 DEF AInv
<1>9. /\ \/ /\ Dst(mi, n) \in DOMAIN mem_to_reg
            /\ free_registers' = free_registers \cup Freed
            /\ n' = n + 1
            /\ UNCHANGED <<apc, mem_to_reg>>
         \/ /\ Dst(mi, n) \notin DOMAIN mem_to_reg
            /\ free_registers \cup Freed = {}
            /\ apc' = "not_enough"
            /\ UNCHANGED <<n, mem_to_reg, free_registers>>
         \/ /\ Dst(mi, n) \notin DOMAIN mem_to_reg
            /\ \E x \in free_registers \cup Freed :
                 /\ mem_to_reg' = Extended(mi, mem_to_reg, n, x)
                 /\ free_registers' = (free_registers \cup Freed) \ {x}
            /\ n' = n + 1
            /\ UNCHANGED apc
  BY Zenon DEF Allocate, Extended, Dst
<1>10. QED
  BY <1>6, <1>7, <1>8, <1>9

LEMMA ConvertStep ==
  ASSUME AInv, Convert
  PROVE  AInv'
<1>1. /\ mi \in Snippets /\ mi' = mi /\ n \in 1 .. Len(mi.instrs) + 1 /\ n > Len(mi.instrs)
      /\ apc = "alloc" /\ apc' = "run" /\ n' = 1 /\ mem_to_reg' = mem_to_reg
  BY DEF Convert, AInv
<1>2. n = Len(mi.instrs) + 1 /\ 1 \in 1 .. Len(mi.instrs) + 1
      /\ 1 .. n - 1 = 1 .. Len(mi.instrs)
  BY <1>1, SnippetFacts
<1>3. /\ Placed(mi, mem_to_reg, Len(mi.instrs) + 1)
      /\ NoClash(mi, mem_to_reg, Len(mi.instrs) + 1)
      /\ \A j \in 1 .. Len(mi.instrs) : Enough(mi, j)
  BY <1>1, <1>2 DEF AInv
<1>4. holds' = [x \in 0 .. r - 1 |->
                  IF x < Len(mi.inputs) THEN mi.inputs[x + 1] ELSE Nobody]
  <2>1. holds' = [x \in 0 .. r - 1 |->
                    IF x < Len(InputsToLoad(mi)) THEN InputsToLoad(mi)[x + 1] ELSE Nobody]
    BY DEF Convert
  <2>2. CASE mi.inputs # <<>>
    BY <2>1, <2>2 DEF InputsToLoad
  <2>3. CASE mi.inputs = <<>>
    <3>1. /\ Len(InputsToLoad(mi)) = 1 /\ InputsToLoad(mi)[1] = Nobody /\ Len(mi.inputs) = 0
          /\ \A x \in 0 .. r - 1 : x < 1 => x + 1 = 1
      BY <2>3, RegistersAssumption DEF InputsToLoad, Nobody
    <3>2. \A x \in 0 .. r - 1 :
            /\ ~ (x < Len(mi.inputs))
            /\ x < Len(InputsToLoad(mi)) => InputsToLoad(mi)[x + 1] = Nobody
      BY <3>1
    <3>3. QED
      BY <2>1, <3>2
  <2>4. QED
    BY <2>2, <2>3
<1>5. InPlace(mi, mem_to_reg, holds', 1) /\ DOMAIN holds' = 0 .. r - 1
  BY <1>1, <1>3, <1>4, InPlaceInit
<1>6. QED
  BY <1>1, <1>2, <1>3, <1>5 DEF AInv

LEMMA RunStep ==
  ASSUME AInv, Run
  PROVE  AInv'
<1>1. /\ mi \in Snippets /\ mi' = mi /\ n \in 1 .. Len(mi.instrs) + 1 /\ n =< Len(mi.instrs)
      /\ apc = "run" /\ apc' = "run" /\ n' = n + 1 /\ mem_to_reg' = mem_to_reg
  BY DEF Run, AInv
<1>2. n \in 1 .. Len(mi.instrs) /\ n + 1 \in 1 .. Len(mi.instrs) + 1
  BY <1>1, SnippetFacts
<1>3. /\ Placed(mi, mem_to_reg, Len(mi.instrs) + 1)
      /\ NoClash(mi, mem_to_reg, Len(mi.instrs) + 1)
      /\ \A j \in 1 .. Len(mi.instrs) : Enough(mi, j)
      /\ DOMAIN holds = 0 .. r - 1
      /\ InPlace(mi, mem_to_reg, holds, n)
  BY <1>1 DEF AInv
<1>4. /\ \A v \in mem_inputs(mi.instrs[n]) : holds[mem_to_reg[v]] = v
      /\ InPlace(mi, mem_to_reg, [holds EXCEPT ![mem_to_reg[Dst(mi, n)]] = Dst(mi, n)], n + 1)
  BY <1>1, <1>2, <1>3, InPlaceStep
<1>5. holds' = [holds EXCEPT ![mem_to_reg[Dst(mi, n)]] = Dst(mi, n)]
  BY <1>4 DEF Run, ReadsOwn, Dst
<1>6. DOMAIN holds' = 0 .. r - 1
  BY <1>3, <1>5
<1>7. QED
  BY <1>1, <1>2, <1>3, <1>4, <1>5, <1>6 DEF AInv

\* Whatever registers set.pop() chooses, the invariant holds.
THEOREM AllocationInvariance == ASpec => []AInv
<1>1. AInv /\ [ANext]_avars => AInv'
  <2> SUFFICES ASSUME AInv, [ANext]_avars PROVE AInv'
    OBVIOUS
  <2>1. CASE Return
    <3>1. n = Len(mi.instrs) + 1
      BY <2>1, SnippetFacts DEF Return, AInv
    <3>2. QED
      BY <2>1, <3>1 DEF Return, AInv
  <2>2. CASE UNCHANGED avars
    BY <2>2 DEF avars, AInv
  <2>3. QED
    BY <2>1, <2>2, AllocateStep, ConvertStep, RunStep DEF ANext
<1>2. QED
  BY <1>1, AInvInit, PTL DEF ASpec

\* Every LLI of an LLMI finds its operands in their registers.
THEOREM OperandsAlwaysInPlace == ASpec => []OperandsInPlace
<1>1. AInv => OperandsInPlace
  <2> SUFFICES ASSUME AInv, apc = "run", n =< Len(mi.instrs)
               PROVE  \A v \in mem_inputs(mi.instrs[n]) : ReadsOwn(v)
    BY DEF OperandsInPlace
  <2>1. mi \in Snippets /\ n \in 1 .. Len(mi.instrs)
    BY SnippetFacts DEF AInv
  <2>2. QED
    BY <2>1, InPlaceStep DEF AInv, ReadsOwn
<1>2. QED
  BY <1>1, AllocationInvariance, PTL

\* When an LLMI ends, its outputs are in the last registers, in order.
THEOREM OutputsAlwaysInPlace == ASpec => []OutputsInPlace
<1>1. AInv => OutputsInPlace
  <2> SUFFICES ASSUME AInv, apc = "done", NEW j \in DOMAIN mi.outputs
               PROVE  holds[first_output_idx + j - 1] = mi.outputs[j]
    BY DEF OutputsInPlace
  <2>1. /\ mi \in Snippets
        /\ Placed(mi, mem_to_reg, Len(mi.instrs) + 1)
        /\ InPlace(mi, mem_to_reg, holds, Len(mi.instrs) + 1)
    BY DEF AInv
  <2>2. mi.outputs[j] \in Range(mi.outputs)
    BY DEF Range
  <2>3. mi.outputs[j] \in get_defs(mi.instrs)
    BY <2>1, <2>2, SnippetsAssumption DEF OutputsUnread
  <2>4. (Len(mi.instrs) + 1) - 1 = Len(mi.instrs)
    BY <2>1, SnippetFacts
  <2>5. mi.outputs[j] \in Defined(mi, Len(mi.instrs) + 1)
    BY <2>1, <2>3, <2>4, SnippetFacts DEF get_defs, Defined, Dst
  <2>6. QED
    BY <2>1, <2>2, <2>5 DEF Placed, InPlace
<1>2. QED
  BY <1>1, AllocationInvariance, PTL

\* The allocator refuses a snippet exactly when it has more births than spare
\* registers and deaths, so needs_leq_k_registers() speaks for every later call.
THEOREM RefusalIsByCount == ASpec => []RefusesByCount
<1>1. AInv => RefusesByCount
  <2> SUFFICES ASSUME AInv PROVE RefusesByCount
    OBVIOUS
  <2>1. mi \in Snippets /\ n \in 1 .. Len(mi.instrs) + 1
    BY DEF AInv
  <2>2. apc = "not_enough" => n \in 1 .. Len(mi.instrs) /\ ~ Enough(mi, n)
    BY <2>1, SnippetFacts DEF AInv
  <2>3. apc \in {"run", "done"} => \A j \in 1 .. Len(mi.instrs) : Enough(mi, j)
    BY DEF AInv
  <2>4. QED
    BY <2>1, <2>2, <2>3, CountIs DEF RefusesByCount
<1>2. QED
  BY <1>1, AllocationInvariance, PTL
=============================================================================

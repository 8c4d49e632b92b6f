-------------------------- MODULE ClusterizerProofs --------------------------
(***************************************************************************)
(* Proofs about the clusterizer and to_LLIR(), for every program in SSA,   *)
(* every shape of the element, every combination of options, and every     *)
(* order in which Python's sets yield nodes.                               *)
(***************************************************************************)
EXTENDS Clusterizer, SetInduction, FiniteSetTheorems, TLAPS

Ins == Range(hlir.inputs)
Outs == Range(hlir.outputs)
Vars == get_defs(hlir.instrs)

\* What a node defines, and what it reads from others.
D(m) == get_defs(m.instrs)
U(m) == get_used(m.instrs)

-----------------------------------------------------------------------------
(***************************************************************************)
(* Sequences without repetitions.                                          *)
(***************************************************************************)
Listing(q, S) ==
  /\ Cardinality(S) \in Nat
  /\ q \in [1 .. Cardinality(S) -> S]
  /\ \A i, j \in 1 .. Cardinality(S) : q[i] = q[j] => i = j
  /\ Range(q) = S
  /\ Len(q) = Cardinality(S)

LEMMA ListingFills ==
  ASSUME NEW S, IsFiniteSet(S), NEW q \in [1 .. Cardinality(S) -> S],
         \A i, j \in 1 .. Cardinality(S) : q[i] = q[j] => i = j
  PROVE  Listing(q, S)
<1> DEFINE n == Cardinality(S)
<1>1. n \in Nat
  BY FS_CardinalityType
<1>2. IsFiniteSet(1 .. n) /\ Cardinality(1 .. n) = n
  BY <1>1, FS_Interval
<1>3. q \in Injection(1 .. n, S)
  BY DEF Injection, IsInjective
<1>4. q \in Surjection(1 .. n, S)
  BY <1>2, <1>3, FS_Injection
<1>5. Range(q) = S
  BY <1>4 DEF Surjection, Range
<1>6. Len(q) = n
  BY <1>1
<1>7. QED
  BY <1>1, <1>5, <1>6 DEF Listing

LEMMA SetToSeqLists ==
  ASSUME NEW S, IsFiniteSet(S)
  PROVE  Listing(SetToSeq(S), S)
<1> DEFINE n == Cardinality(S)
<1>1. PICK f : f \in Bijection(1 .. n, S)
  BY FS_CardinalityType DEF ExistsBijection
<1>2. f \in [1 .. n -> S] /\ IsInjective(f)
  BY <1>1 DEF Bijection, Injection
<1>3. SetToSeq(S) \in [1 .. n -> S] /\ IsInjective(SetToSeq(S))
  BY <1>2 DEF SetToSeq
<1>4. \A i, j \in 1 .. n : SetToSeq(S)[i] = SetToSeq(S)[j] => i = j
  BY <1>3 DEF IsInjective
<1>5. QED
  BY <1>3, <1>4, ListingFills

LEMMA SetToSeqsList ==
  ASSUME NEW S, IsFiniteSet(S), NEW q \in SetToSeqs(S)
  PROVE  Listing(q, S)
<1>1. q \in [1 .. Cardinality(S) -> S] /\ \A i, j \in 1 .. Cardinality(S) : i # j => q[i] # q[j]
  BY DEF SetToSeqs
<1>2. QED
  BY <1>1, ListingFills

LEMMA RangeFinite ==
  ASSUME NEW q, q \in Seq(Range(q))
  PROVE  IsFiniteSet(Range(q))
<1>1. Len(q) \in Nat /\ DOMAIN q = 1 .. Len(q)
  OBVIOUS
<1>2. IsFiniteSet(1 .. Len(q))
  BY <1>1, FS_Interval
<1>3. q \in Surjection(1 .. Len(q), Range(q))
  BY <1>1 DEF Surjection, Range
<1>4. QED
  BY <1>2, <1>3, FS_Surjection

\* get_defs and Reads only look at which instructions there are.
LEMMA DefsOfRange ==
  ASSUME NEW q
  PROVE  /\ get_defs(q) = {x.dst : x \in Range(q)}
         /\ Reads(q) = UNION {mem_inputs(x) : x \in Range(q)}
<1>1. get_defs(q) = {x.dst : x \in Range(q)}
  BY DEF get_defs, Range
<1>2. Reads(q) = UNION {mem_inputs(x) : x \in Range(q)}
  BY DEF Reads, Range
<1>3. QED
  BY <1>1, <1>2

-----------------------------------------------------------------------------
(***************************************************************************)
(* The invariant of the graph.                                             *)
(***************************************************************************)
\* A node has some of the instructions, reads what they read and nobody in it
\* defines, and hands out some of what they define.
NodeOk(m) ==
  /\ Listing(m.instrs, Range(m.instrs))
  /\ Range(m.instrs) \subseteq Range(hlir.instrs) /\ Range(m.instrs) # {}
  /\ Range(m.inputs) = U(m)
  /\ Range(m.outputs) \subseteq D(m)

\* Every variable is defined by one node, the one its backward edge leads to.
Partition(g) ==
  /\ \A m \in g.nodes : NodeOk(m)
  /\ DOMAIN g.backward_edges = Vars
  /\ \A v \in Vars : g.backward_edges[v] \in g.nodes /\ v \in D(g.backward_edges[v])
  /\ \A m \in g.nodes : \A v \in D(m) : g.backward_edges[v] = m

\* Forward edges lead to the nodes that read what a node defines, and to no others.
EdgesOk(g) ==
  \A m \in g.nodes : next_nodes(g, m) = {u \in g.nodes : D(m) \cap U(u) # {}}

\* What another node reads, or the program returns, is handed out.
HandedOut(g) ==
  /\ \A u \in g.nodes : \A v \in U(u) \ Ins : v \in Range(g.backward_edges[v].outputs)
  /\ \A v \in Outs \cap Vars : v \in Range(g.backward_edges[v].outputs)

\* In every set of nodes there is one that reads nothing from the others.
Acyclic(g) ==
  \A C \in SUBSET g.nodes : C # {} => \E m \in C : \A x \in C : m \notin next_nodes(g, x)

GraphOk(g) == Partition(g) /\ EdgesOk(g) /\ HandedOut(g)

-----------------------------------------------------------------------------
(***************************************************************************)
(* Programs and nodes.                                                     *)
(***************************************************************************)
LEMMA ImageFinite ==
  ASSUME NEW S, IsFiniteSet(S)
  PROVE  IsFiniteSet({x.dst : x \in S}) /\ IsFiniteSet({mem_inputs(x) : x \in S})
<1> DEFINE f == [x \in S |-> x.dst]
<1> DEFINE h == [x \in S |-> mem_inputs(x)]
<1>1. f \in Surjection(S, {x.dst : x \in S})
  BY DEF Surjection
<1>2. h \in Surjection(S, {mem_inputs(x) : x \in S})
  BY DEF Surjection
<1> HIDE DEF f, h
<1>3. QED
  BY <1>1, <1>2, FS_Surjection, Zenon

LEMMA HlirFacts ==
  ASSUME IsHLIR(hlir)
  PROVE  /\ IsFiniteSet(Range(hlir.instrs))
         /\ Vars = {x.dst : x \in Range(hlir.instrs)}
         /\ Ins \cap Vars = {} /\ Outs \subseteq Ins \cup Vars
         /\ \A x \in Range(hlir.instrs) :
              /\ IsFiniteSet(mem_inputs(x))
              /\ mem_inputs(x) \subseteq Ins \cup Vars
              /\ x.dst \notin mem_inputs(x) /\ x.dst \in Outs \cup Reads(hlir.instrs)
         /\ \A x, y \in Range(hlir.instrs) : x.dst = y.dst => x = y
<1>1. hlir.instrs \in Seq(Range(hlir.instrs))
  BY DEF IsHLIR
<1>2. IsFiniteSet(Range(hlir.instrs))
  BY <1>1, RangeFinite
<1>3. Vars = {x.dst : x \in Range(hlir.instrs)}
  BY DefsOfRange DEF Vars
<1>4. Ins \cap Vars = {} /\ Outs \subseteq Ins \cup Vars
  BY DEF IsHLIR, Ins, Vars, Outs, get_defs
<1>5. ASSUME NEW x \in Range(hlir.instrs)
      PROVE  /\ IsFiniteSet(mem_inputs(x))
             /\ mem_inputs(x) \subseteq Ins \cup Vars
             /\ x.dst \notin mem_inputs(x) /\ x.dst \in Outs \cup Reads(hlir.instrs)
  <2>1. PICK j \in DOMAIN hlir.instrs : x = hlir.instrs[j]
    BY DEF Range
  <2>2. DOMAIN hlir.instrs = 1 .. Len(hlir.instrs) /\ Len(hlir.instrs) \in Nat
    BY <1>1
  <2>3. IsFiniteSet(mem_inputs(x))
    BY <2>1, RangeFinite DEF IsHLIR, mem_inputs
  <2>4. \A v \in mem_inputs(x) : v \in Ins \/ \E q \in 1 .. j - 1 : hlir.instrs[q].dst = v
    BY <2>1 DEF IsHLIR, Ins
  <2>5. \A q \in 1 .. j - 1 : q \in DOMAIN hlir.instrs /\ q # j
    BY <2>1, <2>2
  <2>6. mem_inputs(x) \subseteq Ins \cup Vars
    BY <2>4, <2>5 DEF Vars, get_defs
  <2>7. x.dst \notin mem_inputs(x)
    BY <2>1, <2>4, <2>5 DEF IsHLIR, Ins
  <2>8. x.dst \in Outs \cup Reads(hlir.instrs)
    BY <2>1 DEF IsHLIR, Outs
  <2>9. QED
    BY <2>3, <2>6, <2>7, <2>8
<1>6. ASSUME NEW x \in Range(hlir.instrs), NEW y \in Range(hlir.instrs), x.dst = y.dst
      PROVE  x = y
  <2>1. PICK j \in DOMAIN hlir.instrs : x = hlir.instrs[j]
    BY DEF Range
  <2>2. PICK q \in DOMAIN hlir.instrs : y = hlir.instrs[q]
    BY DEF Range
  <2>3. QED
    BY <1>6, <2>1, <2>2 DEF IsHLIR
<1>7. QED
  BY <1>2, <1>3, <1>4, <1>5, <1>6

LEMMA NodeFacts ==
  ASSUME IsHLIR(hlir), NEW m, NodeOk(m)
  PROVE  /\ IsFiniteSet(Range(m.instrs))
         /\ D(m) \subseteq Vars /\ D(m) # {} /\ D(m) \cap U(m) = {}
         /\ IsFiniteSet(D(m)) /\ IsFiniteSet(U(m)) /\ U(m) \subseteq Ins \cup Vars
         /\ IsFiniteSet(Range(m.outputs)) /\ Reads(m.instrs) \subseteq U(m) \cup D(m)
<1> DEFINE S == Range(m.instrs)
<1>1. S \subseteq Range(hlir.instrs) /\ S # {}
  BY DEF NodeOk
<1>2. IsFiniteSet(S)
  BY <1>1, HlirFacts, FS_Subset
<1>3. D(m) = {x.dst : x \in S} /\ Reads(m.instrs) = UNION {mem_inputs(x) : x \in S}
  BY DefsOfRange DEF D
<1> HIDE DEF S
<1>4. D(m) \subseteq Vars /\ D(m) # {}
  BY <1>1, <1>3, HlirFacts
<1>5. IsFiniteSet(D(m)) /\ IsFiniteSet({mem_inputs(x) : x \in S})
  BY <1>2, <1>3, ImageFinite
<1>6. \A T \in {mem_inputs(x) : x \in S} : IsFiniteSet(T)
  BY <1>1, HlirFacts
<1>7. IsFiniteSet(Reads(m.instrs))
  BY <1>3, <1>5, <1>6, FS_UNION
<1>8. Reads(m.instrs) \subseteq Ins \cup Vars
  BY <1>1, <1>3, HlirFacts
<1>9. U(m) = Reads(m.instrs) \ D(m)
  BY DEF U, D, get_used
<1>10. IsFiniteSet(U(m))
  BY <1>7, <1>9, FS_Difference
<1>11. IsFiniteSet(Range(m.outputs))
  BY <1>5, FS_Subset DEF NodeOk
<1>12. QED
  BY <1>2, <1>4, <1>5, <1>8, <1>9, <1>10, <1>11 DEF S
-----------------------------------------------------------------------------
(***************************************************************************)
(* Merging n1 and n2, laid out as seq, in graph g.                         *)
(***************************************************************************)
NewNode(g, n1, n2, seq) ==
  [instrs  |-> seq,
   inputs  |-> compute_merged_inputs(n1, n2),
   outputs |-> compute_merged_outputs(g, hlir.outputs, n1, n2)]

Mergeable(g, n1, n2, seq) ==
  /\ n1 \in g.nodes /\ n2 \in g.nodes /\ n1 # n2
  /\ seq \in compute_merged_instrs(n1, n2, compute_merged_inputs(n1, n2))

Still(g, n1, n2) == StillOutputs(g, hlir.outputs, n1, n2)

LEMMA NewNodeIs ==
  ASSUME IsHLIR(hlir), NEW g, GraphOk(g), NEW n1, NEW n2, NEW seq, Mergeable(g, n1, n2, seq)
  PROVE  LET w == NewNode(g, n1, n2, seq) IN
         /\ NodeOk(w) /\ w \notin g.nodes
         /\ Range(w.instrs) = Range(n1.instrs) \cup Range(n2.instrs)
         /\ Reads(w.instrs) = Reads(n1.instrs) \cup Reads(n2.instrs)
         /\ D(w) = D(n1) \cup D(n2)
         /\ U(w) = (U(n1) \cup U(n2)) \ (D(n1) \cup D(n2))
         /\ Range(w.outputs) = Still(g, n1, n2) \cup Still(g, n2, n1)
         /\ Listing(w.outputs, Range(w.outputs))
<1> DEFINE w == NewNode(g, n1, n2, seq)
<1> DEFINE A == Range(n1.instrs) \cup Range(n2.instrs)
<1> DEFINE X == (Range(n1.inputs) \cup Range(n2.inputs)) \ (Range(n1.outputs) \cup Range(n2.outputs))
<1> DEFINE Y == Still(g, n1, n2) \cup Still(g, n2, n1)
<1>1. /\ n1 \in g.nodes /\ n2 \in g.nodes /\ n1 # n2 /\ NodeOk(n1) /\ NodeOk(n2)
      /\ \A m \in {n1, n2} : Range(m.inputs) = U(m) /\ Range(m.outputs) \subseteq D(m)
      /\ \A m \in {n1, n2} : \A v \in D(m) : g.backward_edges[v] = m
  BY DEF Mergeable, GraphOk, Partition, NodeOk
<1>2. /\ IsFiniteSet(Range(n1.instrs)) /\ IsFiniteSet(Range(n2.instrs))
      /\ IsFiniteSet(U(n1)) /\ IsFiniteSet(U(n2))
      /\ IsFiniteSet(Range(n1.outputs)) /\ IsFiniteSet(Range(n2.outputs))
      /\ D(n1) \subseteq Vars /\ D(n2) \subseteq Vars /\ D(n1) # {} /\ D(n2) # {}
      /\ D(n1) \cap U(n1) = {} /\ D(n2) \cap U(n2) = {}
  BY <1>1, NodeFacts
<1>3. w.instrs = seq /\ w.inputs = SetToSeq(X) /\ w.outputs = SetToSeq(Y)
  BY DEF NewNode, compute_merged_inputs, compute_merged_outputs, Still
<1>4. Listing(seq, A)
  <2>1. IsFiniteSet(A)
    BY <1>2, FS_Union
  <2>2. seq \in SetToSeqs(A)
    BY DEF Mergeable, compute_merged_instrs
  <2>3. QED
    BY <2>1, <2>2, SetToSeqsList
<1>5. Range(w.instrs) = A /\ Listing(w.instrs, Range(w.instrs))
  BY <1>3, <1>4 DEF Listing
<1>6. D(w) = D(n1) \cup D(n2) /\ Reads(w.instrs) = Reads(n1.instrs) \cup Reads(n2.instrs)
  <2>1. /\ D(w) = {x.dst : x \in Range(w.instrs)}
        /\ D(n1) = {x.dst : x \in Range(n1.instrs)} /\ D(n2) = {x.dst : x \in Range(n2.instrs)}
    BY DefsOfRange DEF D
  <2>2. /\ Reads(w.instrs) = UNION {mem_inputs(x) : x \in Range(w.instrs)}
        /\ Reads(n1.instrs) = UNION {mem_inputs(x) : x \in Range(n1.instrs)}
        /\ Reads(n2.instrs) = UNION {mem_inputs(x) : x \in Range(n2.instrs)}
    BY DefsOfRange
  <2> HIDE DEF w
  <2>3. D(w) = D(n1) \cup D(n2)
    BY <1>5, <2>1
  <2>4. Reads(w.instrs) = Reads(n1.instrs) \cup Reads(n2.instrs)
    BY <1>5, <2>2
  <2>5. QED
    BY <2>3, <2>4
<1>7. U(w) = (U(n1) \cup U(n2)) \ (D(n1) \cup D(n2))
  <2>1. /\ U(w) = Reads(w.instrs) \ D(w)
        /\ U(n1) = Reads(n1.instrs) \ D(n1) /\ U(n2) = Reads(n2.instrs) \ D(n2)
    BY DEF U, D, get_used
  <2> HIDE DEF w
  <2>2. QED
    BY <1>6, <2>1
<1>8. Range(w.inputs) = U(w)
  <2>1. IsFiniteSet(Range(n1.inputs) \cup Range(n2.inputs))
    BY <1>1, <1>2, FS_Union
  <2>2. IsFiniteSet(X)
    BY <2>1, FS_Difference
  <2>3. Range(w.inputs) = X
    BY <1>3, <2>2, SetToSeqLists DEF Listing
  <2>4. ASSUME NEW v \in U(n1) \cup U(n2), v \in D(n1) \cup D(n2)
        PROVE  v \in Range(n1.outputs) \cup Range(n2.outputs)
    <3>1. v \notin Ins
      BY <1>2, <2>4, HlirFacts
    <3>2. v \in Range(g.backward_edges[v].outputs)
      BY <1>1, <3>1 DEF GraphOk, HandedOut
    <3>3. g.backward_edges[v] \in {n1, n2}
      BY <1>1, <2>4
    <3>4. QED
      BY <3>2, <3>3
  <2>5. X = U(w)
    BY <1>1, <1>7, <2>4
  <2>6. QED
    BY <2>3, <2>5
<1>9. Y \subseteq Range(n1.outputs) \cup Range(n2.outputs)
  BY DEF Still, StillOutputs
<1>10. Range(w.outputs) = Y /\ Listing(w.outputs, Range(w.outputs))
  <2>1. IsFiniteSet(Range(n1.outputs) \cup Range(n2.outputs))
    BY <1>2, FS_Union
  <2>2. IsFiniteSet(Y)
    BY <1>9, <2>1, FS_Subset
  <2>3. QED
    BY <1>3, <2>2, SetToSeqLists DEF Listing
<1>11. NodeOk(w)
  <2>1. /\ Range(n1.instrs) \subseteq Range(hlir.instrs) /\ Range(n1.instrs) # {}
        /\ Range(n2.instrs) \subseteq Range(hlir.instrs)
    BY <1>1 DEF NodeOk
  <2>2. Range(w.outputs) \subseteq D(w)
    BY <1>1, <1>6, <1>9, <1>10
  <2> HIDE DEF w
  <2>3. QED
    BY <1>5, <1>8, <2>1, <2>2 DEF NodeOk
<1>12. w \notin g.nodes
  <2> HIDE DEF w
  <2> SUFFICES ASSUME w \in g.nodes PROVE FALSE
    OBVIOUS
  <2>1. \A v \in D(n1) \cup D(n2) : g.backward_edges[v] = w
    BY <1>6 DEF GraphOk, Partition
  <2>2. w = n1 /\ w = n2
    BY <1>1, <1>2, <2>1
  <2>3. QED
    BY <1>1, <2>2
<1> HIDE DEF w
<1>13. QED
  BY <1>5, <1>6, <1>7, <1>10, <1>11, <1>12 DEF w

LEMMA MergedIs ==
  ASSUME NEW g, NEW n1, NEW n2, NEW seq, NewNode(g, n1, n2, seq) \notin g.nodes
  PROVE  LET w == NewNode(g, n1, n2, seq)
             h == merge_nodes(g, hlir, n1, n2, seq)
             rest == g.nodes \ {n1, n2}
         IN  /\ h.nodes = rest \cup {w}
             /\ DOMAIN h.backward_edges = DOMAIN g.backward_edges
             /\ \A v \in DOMAIN g.backward_edges :
                  h.backward_edges[v] = IF v \in D(w) THEN w ELSE g.backward_edges[v]
             /\ next_nodes(h, w) = (next_nodes(g, n1) \cup next_nodes(g, n2)) \ {n1, n2}
             /\ \A m \in rest :
                  next_nodes(h, m) =
                    IF \E v \in U(w) \ Ins : g.backward_edges[v] = m
                    THEN (next_nodes(g, m) \ {n1, n2}) \cup {w} ELSE next_nodes(g, m)
<1> DEFINE w == NewNode(g, n1, n2, seq)
<1> DEFINE h == merge_nodes(g, hlir, n1, n2, seq)
<1> DEFINE rest == g.nodes \ {n1, n2}
<1>1. /\ h.nodes = rest \cup {w}
      /\ h.backward_edges = [v \in DOMAIN g.backward_edges |->
                               IF v \in get_defs(seq) THEN w ELSE g.backward_edges[v]]
      /\ h.forward_edges  = [m \in rest \cup {w} |->
                               IF m = w
                               THEN (g.forward_edges[n1] \cup g.forward_edges[n2]) \ {n1, n2}
                               ELSE Redirected(g, Ins, n1, n2, w, m)]
  BY DEF merge_nodes, NewNode, Ins
<1>2. w.instrs = seq
  BY DEF NewNode
<1>3. D(w) = get_defs(seq) /\ U(w) = get_used(w.instrs) /\ \A m \in rest : m # w
  BY <1>2 DEF D, U
<1> HIDE DEF w, h
<1>4. next_nodes(h, w) = (next_nodes(g, n1) \cup next_nodes(g, n2)) \ {n1, n2}
  BY <1>1 DEF next_nodes
<1>5. ASSUME NEW m \in rest
      PROVE  next_nodes(h, m) =
               IF \E v \in U(w) \ Ins : g.backward_edges[v] = m
               THEN (next_nodes(g, m) \ {n1, n2}) \cup {w} ELSE next_nodes(g, m)
  <2>1. h.forward_edges[m] = Redirected(g, Ins, n1, n2, w, m)
    BY <1>1, <1>3
  <2>2. QED
    BY <1>3, <2>1 DEF Redirected, next_nodes
<1>6. QED
  BY <1>1, <1>3, <1>4, <1>5 DEF w, h

\* After a merge every node is in order, every variable has its one node, the
\* edges are those the nodes call for, and nothing that is read is hidden.
LEMMA MergeKeepsGraph ==
  ASSUME IsHLIR(hlir), NEW g, GraphOk(g), NEW n1, NEW n2, NEW seq, Mergeable(g, n1, n2, seq)
  PROVE  GraphOk(merge_nodes(g, hlir, n1, n2, seq))
<1> DEFINE w == NewNode(g, n1, n2, seq)
           h == merge_nodes(g, hlir, n1, n2, seq)
           rest == g.nodes \ {n1, n2}
<1>1. /\ NodeOk(w) /\ w \notin g.nodes
      /\ D(w) = D(n1) \cup D(n2) /\ U(w) = (U(n1) \cup U(n2)) \ (D(n1) \cup D(n2))
      /\ Range(w.outputs) = Still(g, n1, n2) \cup Still(g, n2, n1)
  BY NewNodeIs
<1>2. /\ h.nodes = rest \cup {w}
      /\ DOMAIN h.backward_edges = DOMAIN g.backward_edges
      /\ \A v \in DOMAIN g.backward_edges :
           h.backward_edges[v] = IF v \in D(w) THEN w ELSE g.backward_edges[v]
      /\ next_nodes(h, w) = (next_nodes(g, n1) \cup next_nodes(g, n2)) \ {n1, n2}
      /\ \A m \in rest :
           next_nodes(h, m) =
             IF \E v \in U(w) \ Ins : g.backward_edges[v] = m
             THEN (next_nodes(g, m) \ {n1, n2}) \cup {w} ELSE next_nodes(g, m)
  BY <1>1, MergedIs
<1> HIDE DEF w, h
<1>3. /\ n1 \in g.nodes /\ n2 \in g.nodes
      /\ \A m \in g.nodes : NodeOk(m)
      /\ DOMAIN g.backward_edges = Vars
      /\ \A v \in Vars : g.backward_edges[v] \in g.nodes /\ v \in D(g.backward_edges[v])
      /\ \A m \in g.nodes : \A v \in D(m) : g.backward_edges[v] = m
  BY DEF Mergeable, GraphOk, Partition
<1>4. \A m \in g.nodes : \A u : u \in next_nodes(g, m) <=> u \in g.nodes /\ D(m) \cap U(u) # {}
  BY DEF GraphOk, EdgesOk
<1>5. /\ \A u \in g.nodes : \A v \in U(u) \ Ins : v \in Range(g.backward_edges[v].outputs)
      /\ \A v \in Outs \cap Vars : v \in Range(g.backward_edges[v].outputs)
  BY DEF GraphOk, HandedOut
<1>6. \A m \in g.nodes \cup {w} :
        D(m) \subseteq Vars /\ D(m) \cap U(m) = {} /\ U(m) \subseteq Ins \cup Vars
  BY <1>1, <1>3, NodeFacts
<1>7. Ins \cap Vars = {}
  BY HlirFacts
<1>8. Partition(h)
  <2>1. \A m \in h.nodes : NodeOk(m)
    BY <1>1, <1>2, <1>3
  <2>2. ASSUME NEW v \in Vars
        PROVE  h.backward_edges[v] \in h.nodes /\ v \in D(h.backward_edges[v])
    <3>1. CASE v \in D(w)
      BY <1>2, <1>3, <3>1
    <3>2. CASE v \notin D(w)
      <4>1. g.backward_edges[v] \in rest
        BY <1>1, <1>3, <3>2
      <4>2. QED
        BY <1>2, <1>3, <3>2, <4>1
    <3>3. QED
      BY <3>1, <3>2
  <2>3. ASSUME NEW m \in h.nodes, NEW v \in D(m)
        PROVE  h.backward_edges[v] = m
    <3>1. CASE m = w
      BY <1>2, <1>3, <1>6, <3>1
    <3>2. CASE m \in rest
      <4>1. v \in Vars /\ g.backward_edges[v] = m /\ v \notin D(w)
        BY <1>1, <1>3, <1>6, <2>3, <3>2
      <4>2. QED
        BY <1>2, <1>3, <4>1
    <3>3. QED
      BY <1>2, <3>1, <3>2
  <2>4. QED
    BY <1>2, <1>3, <2>1, <2>2, <2>3 DEF Partition
<1>9. ASSUME NEW m \in rest
      PROVE  /\ (\E v \in U(w) \ Ins : g.backward_edges[v] = m) <=> D(m) \cap U(w) # {}
             /\ n1 \in next_nodes(g, m) \/ n2 \in next_nodes(g, m) => D(m) \cap U(w) # {}
  <2>1. \A v \in U(w) \ Ins : v \in Vars
    BY <1>6
  <2>2. (\E v \in U(w) \ Ins : g.backward_edges[v] = m) => D(m) \cap U(w) # {}
    BY <1>3, <2>1
  <2>3. D(m) \cap U(w) # {} => \E v \in U(w) \ Ins : g.backward_edges[v] = m
    BY <1>3, <1>6, <1>7
  <2>4. \A v \in D(m) : v \notin D(n1) \cup D(n2)
    BY <1>3
  <2>5. n1 \in next_nodes(g, m) \/ n2 \in next_nodes(g, m) => D(m) \cap U(w) # {}
    BY <1>1, <1>3, <1>4, <2>4
  <2>6. QED
    BY <2>2, <2>3, <2>5
<1>10. EdgesOk(h)
  <2> SUFFICES ASSUME NEW m \in h.nodes, NEW u
               PROVE  u \in next_nodes(h, m) <=> u \in h.nodes /\ D(m) \cap U(u) # {}
    BY DEF EdgesOk
  <2>1. CASE m = w
    <3>1. u \in next_nodes(h, w) <=> u \in rest /\ (D(n1) \cap U(u) # {} \/ D(n2) \cap U(u) # {})
      BY <1>2, <1>3, <1>4
    <3>2. u = w => D(w) \cap U(u) = {}
      BY <1>6
    <3>3. QED
      BY <1>1, <1>2, <2>1, <3>1, <3>2
  <2>2. CASE m \in rest
    <3>1. u \in next_nodes(g, m) <=> u \in g.nodes /\ D(m) \cap U(u) # {}
      BY <1>4, <2>2
    <3>2. CASE D(m) \cap U(w) # {}
      <4>1. next_nodes(h, m) = (next_nodes(g, m) \ {n1, n2}) \cup {w}
        BY <1>2, <1>9, <2>2, <3>2
      <4>2. QED
        BY <1>2, <3>1, <3>2, <4>1
    <3>3. CASE D(m) \cap U(w) = {}
      <4>1. next_nodes(h, m) = next_nodes(g, m) /\ n1 \notin next_nodes(g, m) /\ n2 \notin next_nodes(g, m)
        BY <1>2, <1>9, <2>2, <3>3
      <4>2. QED
        BY <1>2, <3>1, <3>3, <4>1
    <3>4. QED
      BY <3>2, <3>3
  <2>3. QED
    BY <1>2, <2>1, <2>2
<1>11. ASSUME NEW a, NEW b, {a, b} = {n1, n2}, NEW v \in D(a), v \in Range(a.outputs),
              v \in Outs \/ \E u \in rest : v \in U(u)
       PROVE  v \in Range(w.outputs)
  <2>1. Range(w.outputs) = Still(g, a, b) \cup Still(g, b, a) /\ a \in g.nodes /\ b \in g.nodes
    BY <1>1, <1>3, <1>11
  <2>2. CASE v \in Outs
    BY <1>11, <2>1, <2>2 DEF Still, StillOutputs, Outs
  <2>3. CASE \E u \in rest : v \in U(u)
    <3>1. PICK u \in rest : v \in U(u)
      BY <2>3
    <3>2. u \in next_nodes(g, a) \ {b} /\ v \in Range(u.inputs)
      BY <1>3, <1>4, <1>11, <2>1, <3>1 DEF NodeOk
    <3>3. QED
      BY <1>11, <2>1, <3>2 DEF Still, StillOutputs
  <2>4. QED
    BY <1>11, <2>2, <2>3
<1>12. HandedOut(h)
  <2>1. ASSUME NEW v \in Vars, v \in D(w), v \in Outs \/ \E u \in rest : v \in U(u)
        PROVE  v \in Range(h.backward_edges[v].outputs)
    <3>1. v \in Range(g.backward_edges[v].outputs)
      BY <1>5, <1>7, <2>1
    <3>2. g.backward_edges[v] \in {n1, n2} /\ v \in D(g.backward_edges[v])
      BY <1>1, <1>3, <2>1
    <3>3. PICK a \in {n1, n2} : a = g.backward_edges[v]
      BY <3>2
    <3>4. PICK b \in {n1, n2} : {a, b} = {n1, n2}
      OBVIOUS
    <3>5. v \in Range(w.outputs)
      BY <1>11, <2>1, <3>1, <3>2, <3>3, <3>4
    <3>6. QED
      BY <1>2, <1>3, <2>1, <3>5
  <2>2. ASSUME NEW u \in h.nodes, NEW v \in U(u) \ Ins
        PROVE  v \in Range(h.backward_edges[v].outputs)
    <3>1. v \in Vars
      BY <1>2, <1>6
    <3>2. CASE v \in D(w)
      <4>1. u \in rest
        BY <1>2, <1>6, <3>2
      <4>2. QED
        BY <2>1, <3>1, <3>2, <4>1
    <3>3. CASE v \notin D(w)
      <4>1. \E x \in g.nodes : v \in U(x)
        BY <1>1, <1>2, <1>3
      <4>2. QED
        BY <1>2, <1>3, <1>5, <3>1, <3>3, <4>1
    <3>4. QED
      BY <3>2, <3>3
  <2>3. ASSUME NEW v \in Outs \cap Vars
        PROVE  v \in Range(h.backward_edges[v].outputs)
    <3>1. CASE v \in D(w)
      BY <2>1, <3>1
    <3>2. CASE v \notin D(w)
      BY <1>2, <1>3, <1>5, <3>2
    <3>3. QED
      BY <3>1, <3>2
  <2>4. QED
    BY <2>2, <2>3 DEF HandedOut
<1>13. QED
  BY <1>8, <1>10, <1>12 DEF GraphOk, h

-----------------------------------------------------------------------------
(***************************************************************************)
(* No merge closes a cycle.                                                *)
(***************************************************************************)
\* A node is not reached from what its successor leads to.
LEMMA SuccessorsLeadAway ==
  ASSUME NEW g, Acyclic(g), NEW n1 \in g.nodes, NEW n2 \in next_nodes(g, n1),
         \A m \in g.nodes : next_nodes(g, m) \subseteq g.nodes
  PROVE  ~ Leads(g, next_nodes(g, n2) \ {n1}, n1)
<1> DEFINE S == next_nodes(g, n2) \ {n1}
           R == {x \in g.nodes : Leads(g, S, x)}
<1> SUFFICES ASSUME Leads(g, S, n1) PROVE FALSE
  OBVIOUS
<1>1. n2 \in g.nodes /\ n1 \in R /\ R \subseteq g.nodes
  OBVIOUS
<1>2. S \subseteq R
  <2>1. S \subseteq g.nodes
    BY <1>1
  <2> HIDE DEF S
  <2>2. QED
    BY <2>1 DEF Leads
<1>3. \A x \in R : next_nodes(g, x) \subseteq R
  BY DEF Leads
<1> HIDE DEF R
<1>4. PICK y \in R \cup {n2} : \A x \in R \cup {n2} : y \notin next_nodes(g, x)
  <2>1. R \cup {n2} \in SUBSET g.nodes /\ R \cup {n2} # {}
    BY <1>1
  <2>2. QED
    BY <2>1, Zenon DEF Acyclic
<1>5. y # n2 /\ y \notin S
  BY <1>1, <1>4
<1> DEFINE C == R \ {y}
<1>6. C \in SUBSET g.nodes /\ S \subseteq C /\ \A x \in C : next_nodes(g, x) \subseteq C
  BY <1>1, <1>2, <1>3, <1>4, <1>5
<1>7. Leads(g, S, y)
  BY <1>4, <1>5 DEF R
<1> HIDE DEF C, S
<1>8. y \in C
  BY <1>6, <1>7 DEF Leads
<1>9. QED
  BY <1>8 DEF C

\* In C every node reads something from another.
Cyclic(g, C) == \A m \in C : \E x \in C : m \in next_nodes(g, x)

\* A cycle through the merged node that enters it by the edge from p to a was
\* there before, unless it leaves it by an edge of b.
LEMMA CycleThroughOne ==
  ASSUME NEW g, NEW h, NEW rest, NEW w, NEW a, NEW b, NEW C, NEW p,
         Acyclic(g), rest \subseteq g.nodes, a \in g.nodes, w \notin rest,
         ~ Leads(g, next_nodes(g, b) \ {a}, a),
         next_nodes(h, w) = (next_nodes(g, a) \cup next_nodes(g, b)) \ {a, b},
         \A m, x \in rest : m \in next_nodes(h, x) => m \in next_nodes(g, x),
         C \subseteq rest \cup {w}, Cyclic(h, C), p \in C, p \in rest, a \in next_nodes(g, p)
  PROVE  FALSE
<1>1. PICK K \in SUBSET g.nodes : /\ next_nodes(g, b) \ {a} \subseteq K
                                  /\ \A u \in K : next_nodes(g, u) \subseteq K
                                  /\ a \notin K
  BY DEF Leads
<1> DEFINE S == ((C \ {w}) \ K) \cup {a}
<1>2. S \subseteq g.nodes /\ S # {} /\ p \in S
  BY <1>1
<1>3. ASSUME NEW m \in S
      PROVE  \E x \in S : m \in next_nodes(g, x)
  <2>1. CASE m = a
    BY <1>2, <2>1
  <2>2. CASE m # a
    <3>1. m \in C /\ m \in rest /\ m \notin K
      BY <2>2
    <3>2. PICK x \in C : m \in next_nodes(h, x)
      BY <3>1 DEF Cyclic
    <3>3. CASE x = w
      BY <1>1, <3>1, <3>2, <3>3
    <3>4. CASE x # w
      <4>1. x \in rest /\ m \in next_nodes(g, x)
        BY <3>1, <3>2, <3>4
      <4>2. x \notin K
        BY <1>1, <3>1, <4>1
      <4>3. QED
        BY <3>4, <4>1, <4>2
    <3>5. QED
      BY <3>3, <3>4
  <2>3. QED
    BY <2>1, <2>2
<1> HIDE DEF S
<1>4. QED
  BY <1>2, <1>3 DEF Acyclic

LEMMA MergeKeepsAcyclic ==
  ASSUME IsHLIR(hlir), NEW g, GraphOk(g), Acyclic(g),
         NEW n1, NEW n2, NEW seq, Mergeable(g, n1, n2, seq),
         check_domination_for_merge(g, n1, n2)
  PROVE  Acyclic(merge_nodes(g, hlir, n1, n2, seq))
<1> DEFINE w == NewNode(g, n1, n2, seq)
           h == merge_nodes(g, hlir, n1, n2, seq)
           rest == g.nodes \ {n1, n2}
<1>1. w \notin g.nodes /\ NodeOk(w) /\ U(w) = (U(n1) \cup U(n2)) \ (D(n1) \cup D(n2))
  BY NewNodeIs
<1>2. /\ h.nodes = rest \cup {w}
      /\ next_nodes(h, w) = (next_nodes(g, n1) \cup next_nodes(g, n2)) \ {n1, n2}
      /\ \A m \in rest :
           next_nodes(h, m) =
             IF \E v \in U(w) \ Ins : g.backward_edges[v] = m
             THEN (next_nodes(g, m) \ {n1, n2}) \cup {w} ELSE next_nodes(g, m)
  BY <1>1, MergedIs
<1>3. GraphOk(h)
  BY MergeKeepsGraph
<1> HIDE DEF w, h
<1>4. /\ n1 \in g.nodes /\ n2 \in g.nodes
      /\ ~ Leads(g, next_nodes(g, n1) \ {n2}, n2) /\ ~ Leads(g, next_nodes(g, n2) \ {n1}, n1)
  BY DEF Mergeable, check_domination_for_merge
<1>5. \A m, x \in rest : m \in next_nodes(h, x) => m \in next_nodes(g, x)
  BY <1>1, <1>2
<1>6. \A x \in rest : w \in next_nodes(h, x) => n1 \in next_nodes(g, x) \/ n2 \in next_nodes(g, x)
  <2> SUFFICES ASSUME NEW x \in rest, w \in next_nodes(h, x)
               PROVE  n1 \in next_nodes(g, x) \/ n2 \in next_nodes(g, x)
    OBVIOUS
  <2>1. D(x) \cap U(w) # {}
    BY <1>2, <1>3 DEF GraphOk, EdgesOk
  <2>2. D(x) \cap U(n1) # {} \/ D(x) \cap U(n2) # {}
    BY <1>1, <2>1
  <2>3. QED
    BY <1>4, <2>2 DEF GraphOk, EdgesOk
<1>7. ASSUME NEW C \in SUBSET h.nodes, C # {}, Cyclic(h, C)
      PROVE  FALSE
  <2>1. CASE w \notin C
    <3>1. C \subseteq rest
      BY <1>2, <2>1
    <3>2. \A m \in C : \E x \in C : m \in next_nodes(g, x)
      BY <1>5, <1>7, <3>1 DEF Cyclic
    <3>3. QED
      BY <1>7, <3>1, <3>2 DEF Acyclic
  <2>2. CASE w \in C
    <3>1. PICK p \in C : w \in next_nodes(h, p)
      BY <1>7, <2>2 DEF Cyclic
    <3>2. w \notin next_nodes(h, w)
      <4>1. next_nodes(g, n1) \subseteq g.nodes /\ next_nodes(g, n2) \subseteq g.nodes
        BY <1>4 DEF GraphOk, EdgesOk
      <4>2. QED
        BY <1>1, <1>2, <4>1
    <3>3. p \in rest
      BY <1>2, <3>1, <3>2
    <3>4. n1 \in next_nodes(g, p) \/ n2 \in next_nodes(g, p)
      BY <1>6, <3>1, <3>3
    <3>5. C \subseteq rest \cup {w} /\ w \notin rest /\ rest \subseteq g.nodes
          /\ next_nodes(h, w) = (next_nodes(g, n2) \cup next_nodes(g, n1)) \ {n2, n1}
      BY <1>1, <1>2
    <3> HIDE DEF rest
    <3>6. CASE n1 \in next_nodes(g, p)
      BY <1>2, <1>4, <1>5, <1>7, <3>3, <3>5, <3>6, CycleThroughOne
    <3>7. CASE n2 \in next_nodes(g, p)
      BY <1>2, <1>4, <1>5, <1>7, <3>3, <3>5, <3>7, CycleThroughOne
    <3>8. QED
      BY <3>4, <3>6, <3>7
  <2>3. QED
    BY <2>1, <2>2
<1>8. Acyclic(h)
  BY <1>7 DEF Acyclic, Cyclic
<1>9. QED
  BY <1>8 DEF h

-----------------------------------------------------------------------------
(***************************************************************************)
(* Outputs.                                                                *)
(***************************************************************************)
\* Whatever a node hands out, another node reads or the program returns.
Wanted(g) ==
  \A m \in g.nodes : \A v \in Range(m.outputs) : v \in Outs \/ \E u \in g.nodes : v \in U(u)

\* The outputs FitsElement counts.
Counted(m) == Range(m.outputs) \ (Outs \cap Reads(m.instrs))

\* In the first pass a node hands out one variable, the outputs of the program
\* that it reads itself aside, and what it reads itself nobody else reads.
OneOut(g) ==
  \A m \in g.nodes :
    /\ \A v, v2 \in Counted(m) : v = v2
    /\ \A v \in D(m) \cap Reads(m.instrs) : \A u \in g.nodes : v \notin U(u)

LEMMA MergeKeepsWanted ==
  ASSUME IsHLIR(hlir), NEW g, GraphOk(g), Wanted(g),
         NEW n1, NEW n2, NEW seq, Mergeable(g, n1, n2, seq)
  PROVE  Wanted(merge_nodes(g, hlir, n1, n2, seq))
<1> DEFINE w == NewNode(g, n1, n2, seq)
           h == merge_nodes(g, hlir, n1, n2, seq)
           rest == g.nodes \ {n1, n2}
<1>1. /\ NodeOk(w) /\ w \notin g.nodes
      /\ D(w) = D(n1) \cup D(n2) /\ U(w) = (U(n1) \cup U(n2)) \ (D(n1) \cup D(n2))
      /\ Range(w.outputs) = Still(g, n1, n2) \cup Still(g, n2, n1)
  BY NewNodeIs
<1>2. h.nodes = rest \cup {w}
  BY <1>1, MergedIs
<1> HIDE DEF w, h
<1>3. /\ n1 \in g.nodes /\ n2 \in g.nodes
      /\ \A m \in g.nodes : /\ Range(m.outputs) \subseteq D(m) /\ Range(m.inputs) = U(m)
                            /\ \A v \in D(m) : g.backward_edges[v] = m
      /\ \A m \in g.nodes : \A u \in next_nodes(g, m) : u \in g.nodes
  BY DEF Mergeable, GraphOk, Partition, EdgesOk, NodeOk
<1>4. \A m \in g.nodes : D(m) \cap U(m) = {}
  BY NodeFacts DEF GraphOk, Partition
<1>5. ASSUME NEW m \in rest, NEW v \in Range(m.outputs)
      PROVE  v \in Outs \/ \E u \in h.nodes : v \in U(u)
  <2>1. CASE v \in Outs
    BY <2>1
  <2>2. CASE \E u \in g.nodes : v \in U(u)
    <3>1. v \notin D(n1) \cup D(n2)
      BY <1>3
    <3>2. QED
      BY <1>1, <1>2, <2>2, <3>1
  <2>3. QED
    BY <2>1, <2>2 DEF Wanted
<1>6. ASSUME NEW a, NEW b, {a, b} = {n1, n2}, NEW v \in Still(g, a, b)
      PROVE  v \in Outs \/ \E u \in h.nodes : v \in U(u)
  <2>1. /\ v \in Range(a.outputs) /\ a \in g.nodes /\ b \in g.nodes /\ v \in D(a)
        /\ \/ v \notin Range(b.inputs)
           \/ v \in Outs
           \/ \E u \in next_nodes(g, a) \ {b} : v \in Range(u.inputs)
    BY <1>3, <1>6 DEF Still, StillOutputs, Outs
  <2>2. CASE v \notin Range(b.inputs)
    <3>1. \A u \in g.nodes : v \in U(u) => u \in rest
      BY <1>3, <1>4, <1>6, <2>1, <2>2
    <3>2. v \in Outs \/ \E u \in g.nodes : v \in U(u)
      BY <2>1 DEF Wanted
    <3>3. QED
      BY <1>2, <3>1, <3>2
  <2>3. CASE v \in Outs
    BY <2>3
  <2>4. CASE \E u \in next_nodes(g, a) \ {b} : v \in Range(u.inputs)
    <3>1. PICK u \in next_nodes(g, a) \ {b} : v \in Range(u.inputs)
      BY <2>4
    <3>2. u \in g.nodes /\ v \in U(u) /\ u # a
      BY <1>3, <1>4, <2>1, <3>1
    <3>3. QED
      BY <1>2, <1>6, <3>1, <3>2
  <2>5. QED
    BY <2>1, <2>2, <2>3, <2>4
<1>7. {n2, n1} = {n1, n2}
  OBVIOUS
<1>8. \A v \in Range(w.outputs) : v \in Outs \/ \E u \in h.nodes : v \in U(u)
  BY <1>1, <1>6, <1>7
<1>9. Wanted(h)
  BY <1>2, <1>5, <1>8 DEF Wanted
<1>10. QED
  BY <1>9 DEF h

\* A node and its only successor: the merged node hands out what the successor
\* did.  That is why merge_1_output_nodes need not count its outputs.
LEMMA OnlySuccessor ==
  ASSUME IsHLIR(hlir), NEW g, GraphOk(g), Acyclic(g), Wanted(g), OneOut(g),
         NEW n1, NEW n2, NEW seq, Mergeable(g, n1, n2, seq), next_nodes(g, n1) = {n2}
  PROVE  OneOut(merge_nodes(g, hlir, n1, n2, seq))
<1> DEFINE w == NewNode(g, n1, n2, seq)
           h == merge_nodes(g, hlir, n1, n2, seq)
           rest == g.nodes \ {n1, n2}
<1>1. /\ NodeOk(w) /\ w \notin g.nodes
      /\ Reads(w.instrs) = Reads(n1.instrs) \cup Reads(n2.instrs)
      /\ D(w) = D(n1) \cup D(n2) /\ U(w) = (U(n1) \cup U(n2)) \ (D(n1) \cup D(n2))
      /\ Range(w.outputs) = Still(g, n1, n2) \cup Still(g, n2, n1)
  BY NewNodeIs
<1>2. h.nodes = rest \cup {w}
  BY <1>1, MergedIs
<1> HIDE DEF w, h
<1>3. /\ n1 \in g.nodes /\ n2 \in g.nodes /\ n1 # n2
      /\ \A m \in g.nodes : /\ Range(m.outputs) \subseteq D(m) /\ Range(m.inputs) = U(m)
                            /\ \A v \in D(m) : g.backward_edges[v] = m
      /\ \A m \in g.nodes : \A u : u \in next_nodes(g, m) <=> u \in g.nodes /\ D(m) \cap U(u) # {}
  BY DEF Mergeable, GraphOk, Partition, EdgesOk, NodeOk
<1>4. \A m \in g.nodes : D(m) \cap U(m) = {} /\ D(m) \subseteq Vars /\ U(m) = Reads(m.instrs) \ D(m)
  BY NodeFacts DEF GraphOk, Partition, U, D, get_used
<1>5. \A v \in D(n1) : \A u \in g.nodes : v \in U(u) => u = n2
  BY <1>3
<1>6. n1 \notin next_nodes(g, n2)
  <2>1. {n1, n2} \in SUBSET g.nodes /\ {n1, n2} # {}
    BY <1>3
  <2>2. \E m \in {n1, n2} : \A x \in {n1, n2} : m \notin next_nodes(g, x)
    BY <2>1, Zenon DEF Acyclic
  <2>3. QED
    BY <2>2
<1>7. \A v \in D(n2) : v \notin U(n1)
  BY <1>3, <1>6
<1>8. \A m \in g.nodes : \A v \in D(m) \cap Reads(m.instrs) : \A u \in g.nodes : v \notin U(u)
  BY DEF OneOut
<1>9. ASSUME NEW m \in h.nodes, NEW v \in D(m) \cap Reads(m.instrs), NEW u \in h.nodes
      PROVE  v \notin U(u)
  <2>1. CASE m \in rest
    BY <1>1, <1>2, <1>3, <1>8, <2>1
  <2>2. CASE m = w
    <3>1. CASE v \in D(n1)
      BY <1>1, <1>2, <1>5, <3>1
    <3>2. CASE v \in D(n2)
      <4>1. v \in Reads(n2.instrs)
        <5>1. v \notin D(n1)
          BY <1>3, <3>2
        <5>2. QED
          BY <1>1, <1>3, <1>4, <1>7, <2>2, <3>2, <5>1
      <4>2. QED
        BY <1>1, <1>2, <1>3, <1>8, <3>2, <4>1
    <3>3. QED
      BY <1>1, <2>2, <3>1, <3>2
  <2>3. QED
    BY <1>2, <2>1, <2>2
<1>10. ASSUME NEW v \in Range(w.outputs), v \notin Outs \cap Reads(w.instrs)
       PROVE  v \in Counted(n2)
  <2>1. CASE v \in Still(g, n2, n1)
    BY <1>1, <1>10, <2>1 DEF Still, StillOutputs, Counted
  <2>2. CASE v \in Still(g, n1, n2)
    <3>1. v \in Range(n1.outputs) /\ v \in D(n1) /\ (v \notin U(n2) \/ v \in Outs)
      BY <1>3, <2>2 DEF Still, StillOutputs, Outs
    <3>2. v \in Outs
      <4>1. v \in Outs \/ \E u \in g.nodes : v \in U(u)
        BY <1>3, <3>1 DEF Wanted
      <4>2. QED
        BY <1>5, <3>1, <4>1
    <3>3. v \notin Reads(n1.instrs) /\ v \notin Reads(n2.instrs) /\ v \in Counted(n1)
      BY <1>1, <1>10, <3>1, <3>2 DEF Counted
    <3>4. PICK v2 \in D(n1) : v2 \in U(n2)
      BY <1>3
    <3>5. v2 \notin Reads(n1.instrs)
      BY <1>3, <1>8, <3>4
    <3>6. v2 \in Range(n1.outputs)
      <4>1. v2 \notin Ins
        BY <1>3, <1>4, <3>4, HlirFacts
      <4>2. QED
        BY <1>3, <3>4, <4>1 DEF GraphOk, HandedOut
    <3>7. v2 \in Counted(n1) /\ v2 # v
      BY <1>3, <1>4, <3>3, <3>4, <3>5, <3>6 DEF Counted
    <3>8. QED
      BY <1>3, <3>3, <3>7 DEF OneOut
  <2>3. QED
    BY <1>1, <2>1, <2>2
<1>11. \A v, v2 \in Counted(w) : v = v2
  <2>1. Counted(w) \subseteq Counted(n2)
    BY <1>10 DEF Counted
  <2>2. QED
    BY <1>3, <2>1 DEF OneOut
<1>12. OneOut(h)
  BY <1>2, <1>9, <1>11 DEF OneOut
<1>13. QED
  BY <1>12 DEF h

\* What FitsElement asks of one node; the registers suffice for every node.
Fits(m) ==
  /\ needs_leq_k_registers(m.instrs, m.inputs, m.outputs, r, l_out)
  /\ Len(m.instrs) > 1 =>
       /\ Len(m.instrs) =< s
       /\ Len(m.inputs) =< l_in
       /\ Len(m.outputs) =< l_out \/ Cardinality(Counted(m)) =< 1

LEMMA AtMostOne ==
  ASSUME NEW S, \A x, y \in S : x = y
  PROVE  Cardinality(S) =< 1
<1>1. CASE S = {}
  BY <1>1, FS_EmptySet
<1>2. CASE S # {}
  <2>1. PICK x \in S : S = {x}
    BY <1>2
  <2>2. QED
    BY <2>1, FS_Singleton
<1>3. QED
  BY <1>1, <1>2

LEMMA MergedFits ==
  ASSUME IsHLIR(hlir), GraphOk(dfg), NEW n1, NEW n2, NEW seq, Mergeable(dfg, n1, n2, seq),
         SmallEnough(n1, n2), Allocatable(n1, n2, seq),
         \/ Len(merged_outputs(n1, n2)) =< l_out
         \/ \A v, v2 \in Counted(NewNode(dfg, n1, n2, seq)) : v = v2
  PROVE  Fits(NewNode(dfg, n1, n2, seq))
<1> DEFINE w == NewNode(dfg, n1, n2, seq)
<1>1. /\ NodeOk(w) /\ Range(w.instrs) = Range(n1.instrs) \cup Range(n2.instrs)
      /\ Listing(w.outputs, Range(w.outputs))
  BY NewNodeIs
<1>2. /\ w.instrs = seq /\ w.inputs = merged_inputs(n1, n2) /\ w.outputs = merged_outputs(n1, n2)
      /\ Len(merged_inputs(n1, n2)) =< l_in /\ Len(n1.instrs) + Len(n2.instrs) =< s
      /\ needs_leq_k_registers(seq, merged_inputs(n1, n2), merged_outputs(n1, n2), r, l_out)
  BY DEF NewNode, merged_inputs, merged_outputs, SmallEnough, Allocatable
<1> HIDE DEF w
<1>3. Len(w.instrs) =< s
  <2>1. NodeOk(n1) /\ NodeOk(n2)
    BY DEF GraphOk, Partition, Mergeable
  <2>2. \A m \in {n1, n2, w} :
          /\ IsFiniteSet(Range(m.instrs)) /\ Cardinality(Range(m.instrs)) \in Nat
          /\ Len(m.instrs) = Cardinality(Range(m.instrs))
    BY <1>1, <2>1, NodeFacts DEF NodeOk, Listing
  <2>3. /\ IsFiniteSet(Range(n1.instrs) \cap Range(n2.instrs))
        /\ Cardinality(Range(n1.instrs) \cap Range(n2.instrs)) \in Nat
        /\ Cardinality(Range(n1.instrs) \cup Range(n2.instrs)) =
             Cardinality(Range(n1.instrs)) + Cardinality(Range(n2.instrs))
               - Cardinality(Range(n1.instrs) \cap Range(n2.instrs))
    <3>1. IsFiniteSet(Range(n1.instrs) \cap Range(n2.instrs))
      BY <2>2, FS_Intersection
    <3>2. QED
      BY <2>2, <3>1, FS_CardinalityType, FS_Union
  <2>4. s \in Nat
    BY ShapeAssumption
  <2>5. Cardinality(Range(w.instrs)) =< s
    <3> DEFINE c1 == Cardinality(Range(n1.instrs))
               c2 == Cardinality(Range(n2.instrs))
               c3 == Cardinality(Range(n1.instrs) \cap Range(n2.instrs))
               c == Cardinality(Range(w.instrs))
    <3>1. c1 \in Nat /\ c2 \in Nat /\ c3 \in Nat
      BY <2>2, <2>3
    <3>2. c = c1 + c2 - c3
      BY <1>1, <2>3
    <3>3. c1 + c2 =< s
      BY <1>2, <2>2
    <3> HIDE DEF c1, c2, c3, c
    <3>4. c =< s
      BY <2>4, <3>1, <3>2, <3>3
    <3>5. QED
      BY <3>4 DEF c
  <2>6. QED
    BY <2>2, <2>5
<1>4. Len(w.outputs) =< l_out \/ Cardinality(Counted(w)) =< 1
  BY <1>2, AtMostOne DEF w
<1>5. Fits(w)
  BY <1>2, <1>3, <1>4 DEF Fits
<1>6. QED
  BY <1>5 DEF w

-----------------------------------------------------------------------------
(***************************************************************************)
(* The graph clusterize() starts from.                                     *)
(***************************************************************************)
LEMMA InstrNode ==
  ASSUME IsHLIR(hlir), NEW x \in Range(hlir.instrs)
  PROVE  LET m == FromHLI(x) IN
         /\ NodeOk(m) /\ m.instrs = <<x>> /\ Len(m.instrs) = 1
         /\ D(m) = {x.dst} /\ U(m) = mem_inputs(x) /\ Reads(m.instrs) = mem_inputs(x)
         /\ Range(m.outputs) = {x.dst}
<1> DEFINE m == FromHLI(x)
<1>1. m.instrs = <<x>> /\ m.inputs = x.src /\ m.outputs = <<x.dst>>
  BY DEF FromHLI
<1>2. /\ DOMAIN <<x>> = {1} /\ <<x>>[1] = x /\ Len(<<x>>) = 1
      /\ DOMAIN <<x.dst>> = {1} /\ <<x.dst>>[1] = x.dst
  OBVIOUS
<1> HIDE DEF m
<1>3. Range(m.instrs) = {x} /\ Range(m.outputs) = {x.dst}
  BY <1>1, <1>2, Zenon DEF Range
<1>4. x.dst \notin mem_inputs(x)
  BY HlirFacts
<1>5. D(m) = {x.dst} /\ Reads(m.instrs) = mem_inputs(x)
  <2>1. D(m) = {y.dst : y \in {x}} /\ Reads(m.instrs) = UNION {mem_inputs(y) : y \in {x}}
    BY <1>3, DefsOfRange DEF D
  <2>2. QED
    BY <2>1
<1>6. U(m) = mem_inputs(x)
  BY <1>4, <1>5 DEF U, D, get_used
<1>7. Listing(m.instrs, Range(m.instrs))
  <2>1. IsFiniteSet({x}) /\ Cardinality({x}) = 1
    BY FS_Singleton
  <2>2. <<x>> \in [1 .. 1 -> {x}] /\ \A j, q \in 1 .. 1 : <<x>>[j] = <<x>>[q] => j = q
    OBVIOUS
  <2> DEFINE q == <<x>>
             S == {x}
  <2>3. q \in [1 .. Cardinality(S) -> S] /\ \A j, k \in 1 .. Cardinality(S) : q[j] = q[k] => j = k
    BY <2>1, <2>2
  <2>4. IsFiniteSet(S)
    BY <2>1
  <2> HIDE DEF q, S
  <2>5. Listing(q, S)
    BY <2>3, <2>4, ListingFills
  <2>6. QED
    BY <1>1, <1>3, <2>5 DEF q, S
<1>8. Range(m.inputs) = U(m)
  BY <1>1, <1>6 DEF mem_inputs
<1>9. NodeOk(m)
  BY <1>3, <1>5, <1>7, <1>8 DEF NodeOk
<1>10. QED
  BY <1>1, <1>2, <1>3, <1>5, <1>6, <1>9 DEF m

LEMMA BuildGraphOk ==
  ASSUME IsHLIR(hlir)
  PROVE  LET g == build_graph(hlir) IN
         /\ GraphOk(g) /\ Acyclic(g) /\ Wanted(g) /\ OneOut(g)
         /\ \A m \in g.nodes : Fits(m)
<1> DEFINE g == build_graph(hlir)
           P == Range(hlir.instrs)
<1>1. /\ g.nodes = {FromHLI(hlir.instrs[j]) : j \in DOMAIN hlir.instrs}
      /\ g.backward_edges = [v \in Vars |-> CHOOSE m \in g.nodes : v \in D(m)]
      /\ g.forward_edges = [m \in g.nodes |->
            {u \in g.nodes : \E v \in U(u) : v \notin Ins /\ g.backward_edges[v] = m}]
  BY DEF build_graph, Vars, D, U, Ins
<1> HIDE DEF g
<1>2. g.nodes = {FromHLI(x) : x \in P}
  BY <1>1 DEF Range
<1> HIDE DEF P
<1>3. \A x \in P : /\ NodeOk(FromHLI(x)) /\ Len(FromHLI(x).instrs) = 1
                   /\ D(FromHLI(x)) = {x.dst} /\ U(FromHLI(x)) = mem_inputs(x)
                   /\ Reads(FromHLI(x).instrs) = mem_inputs(x)
                   /\ Range(FromHLI(x).outputs) = {x.dst}
  BY InstrNode DEF P
<1>4. /\ Vars = {x.dst : x \in P} /\ Ins \cap Vars = {}
      /\ \A x \in P : /\ mem_inputs(x) \subseteq Ins \cup Vars /\ x.dst \notin mem_inputs(x)
                      /\ x.dst \in Outs \cup Reads(hlir.instrs)
      /\ \A x, y \in P : x.dst = y.dst => x = y
  BY HlirFacts DEF P
<1>5. \A x \in P : g.backward_edges[x.dst] = FromHLI(x)
  <2> SUFFICES ASSUME NEW x \in P PROVE g.backward_edges[x.dst] = FromHLI(x)
    OBVIOUS
  <2>1. \A m \in g.nodes : x.dst \in D(m) <=> m = FromHLI(x)
    BY <1>2, <1>3, <1>4
  <2>2. FromHLI(x) \in g.nodes /\ x.dst \in Vars
    BY <1>2, <1>4
  <2>3. (CHOOSE m \in g.nodes : x.dst \in D(m)) = FromHLI(x)
    BY <2>1, <2>2
  <2>4. QED
    BY <1>1, <2>2, <2>3
<1>6. Partition(g)
  <2>1. \A m \in g.nodes : NodeOk(m)
    BY <1>2, <1>3
  <2>2. DOMAIN g.backward_edges = Vars
    BY <1>1
  <2>3. \A v \in Vars : g.backward_edges[v] \in g.nodes /\ v \in D(g.backward_edges[v])
    BY <1>2, <1>3, <1>4, <1>5
  <2>4. \A m \in g.nodes : \A v \in D(m) : g.backward_edges[v] = m
    BY <1>2, <1>3, <1>5
  <2>5. QED
    BY <2>1, <2>2, <2>3, <2>4 DEF Partition
<1>7. \A m \in g.nodes : \A u : u \in next_nodes(g, m) <=>
        u \in g.nodes /\ \E v \in U(u) : v \notin Ins /\ g.backward_edges[v] = m
  <2> SUFFICES ASSUME NEW m \in g.nodes
               PROVE  next_nodes(g, m) =
                        {u \in g.nodes : \E v \in U(u) : v \notin Ins /\ g.backward_edges[v] = m}
    OBVIOUS
  <2>1. QED
    BY <1>1, Zenon DEF next_nodes
<1>8. \A m \in g.nodes : U(m) \subseteq Ins \cup Vars
  BY <1>2, <1>3, <1>4
<1>9. EdgesOk(g)
  <2> SUFFICES ASSUME NEW m \in g.nodes, NEW u \in g.nodes
               PROVE  (\E v \in U(u) : v \notin Ins /\ g.backward_edges[v] = m) <=> D(m) \cap U(u) # {}
    BY <1>7 DEF EdgesOk
  <2>1. (\E v \in U(u) : v \notin Ins /\ g.backward_edges[v] = m) => D(m) \cap U(u) # {}
    BY <1>6, <1>8 DEF Partition
  <2>2. D(m) \cap U(u) # {} => \E v \in U(u) : v \notin Ins /\ g.backward_edges[v] = m
    <3>1. D(m) \subseteq Vars
      BY <1>2, <1>3, <1>4
    <3>2. QED
      BY <1>4, <1>6, <3>1 DEF Partition
  <2>3. QED
    BY <2>1, <2>2
<1>10. \A v \in Vars : v \in Range(g.backward_edges[v].outputs)
  BY <1>3, <1>4, <1>5
<1>11. HandedOut(g)
  BY <1>8, <1>10 DEF HandedOut
<1>12. Acyclic(g)
  <2> SUFFICES ASSUME NEW C \in SUBSET g.nodes, C # {}
               PROVE  \E m \in C : \A x \in C : m \notin next_nodes(g, x)
    BY DEF Acyclic
  <2> DEFINE T == {j \in 1 .. Len(hlir.instrs) : FromHLI(hlir.instrs[j]) \in C}
  <2>1. Len(hlir.instrs) \in Nat /\ DOMAIN hlir.instrs = 1 .. Len(hlir.instrs)
    BY DEF IsHLIR
  <2>2. T \subseteq Nat /\ T # {}
    BY <1>1, <2>1
  <2>3. PICK j \in T : \A y \in T : j =< y
    BY <2>2, LeastNat
  <2>4. j \in Nat /\ j \in DOMAIN hlir.instrs /\ hlir.instrs[j] \in P
    BY <2>1 DEF P, Range
  <2> DEFINE m == FromHLI(hlir.instrs[j])
  <2>5. m \in C
    OBVIOUS
  <2>6. ASSUME NEW x \in C, m \in next_nodes(g, x)
        PROVE  FALSE
    <3>1. PICK v \in U(m) : v \notin Ins /\ g.backward_edges[v] = x
      BY <1>7, <2>6
    <3>2. v \in mem_inputs(hlir.instrs[j])
      BY <1>3, <2>4, <3>1
    <3>3. PICK q \in 1 .. j - 1 : hlir.instrs[q].dst = v
      BY <2>4, <3>1, <3>2 DEF IsHLIR, Ins
    <3>4. q \in 1 .. Len(hlir.instrs) /\ hlir.instrs[q] \in P
      BY <2>1, <2>4 DEF P, Range
    <3>5. x = FromHLI(hlir.instrs[q])
      BY <1>5, <3>1, <3>3, <3>4
    <3>6. q \in T
      BY <3>4, <3>5
    <3>7. QED
      BY <2>3, <2>4, <3>6
  <2>7. QED
    BY <2>5, <2>6
<1>13. Wanted(g)
  <2> SUFFICES ASSUME NEW x \in P
               PROVE  x.dst \in Outs \/ \E u \in g.nodes : x.dst \in U(u)
    BY <1>2, <1>3 DEF Wanted
  <2>1. CASE x.dst \in Outs
    BY <2>1
  <2>2. CASE x.dst \in Reads(hlir.instrs)
    <3>1. Reads(hlir.instrs) = UNION {mem_inputs(y) : y \in P}
      BY DefsOfRange DEF P
    <3>2. PICK y \in P : x.dst \in mem_inputs(y)
      BY <2>2, <3>1
    <3>3. FromHLI(y) \in g.nodes /\ x.dst \in U(FromHLI(y))
      BY <1>2, <1>3, <3>2
    <3>4. QED
      BY <3>3
  <2>3. QED
    BY <1>4, <2>1, <2>2
<1>14. OneOut(g)
  <2> SUFFICES ASSUME NEW x \in P
               PROVE  /\ \A v, v2 \in Counted(FromHLI(x)) : v = v2
                      /\ D(FromHLI(x)) \cap Reads(FromHLI(x).instrs) = {}
    BY <1>2, Zenon DEF OneOut
  <2>1. Counted(FromHLI(x)) \subseteq {x.dst}
    BY <1>3 DEF Counted
  <2>2. QED
    BY <1>3, <1>4, <2>1
<1>15. \A m \in g.nodes : Fits(m)
  <2> SUFFICES ASSUME NEW x \in P PROVE Fits(FromHLI(x))
    BY <1>2
  <2>1. ~ (Len(FromHLI(x).instrs) > 1)
    <3>1. Len(FromHLI(x).instrs) = 1
      BY <1>3
    <3> DEFINE n == Len(FromHLI(x).instrs)
    <3> HIDE DEF n
    <3>2. ~ (n > 1)
      BY <3>1 DEF n
    <3>3. QED
      BY <3>2 DEF n
  <2>2. needs_leq_k_registers(FromHLI(x).instrs, FromHLI(x).inputs, FromHLI(x).outputs, r, l_out)
    <3>1. /\ FromHLI(x).instrs = <<x>> /\ FromHLI(x).outputs = <<x.dst>>
          /\ DOMAIN <<x>> = {1} /\ <<x>>[1].dst \in Range(<<x.dst>>)
      BY DEF FromHLI, Range
    <3>2. \A j \in DOMAIN FromHLI(x).instrs :
            FromHLI(x).instrs[j].dst \in Range(FromHLI(x).outputs)
      BY <3>1
    <3>3. QED
      BY <3>2 DEF needs_leq_k_registers
  <2>3. QED
    BY <2>1, <2>2 DEF Fits
<1>16. QED
  BY <1>6, <1>9, <1>11, <1>12, <1>13, <1>14, <1>15 DEF GraphOk, g

-----------------------------------------------------------------------------
(***************************************************************************)
(* The invariant.                                                          *)
(***************************************************************************)
Merging == {"one_output", "parents", "siblings"}

\* Nodes are scheduled once, each after the nodes that compute its inputs, and
\* no node is lost: one that is ready is scheduled or about to be visited.
Scheduled ==
  /\ llir \in Seq(dfg.nodes)
  /\ \A i, j \in DOMAIN llir : llir[i] = llir[j] => i = j
  /\ \A j \in DOMAIN llir :
       Range(llir[j].inputs) \subseteq Ins \cup UNION {Range(llir[q].outputs) : q \in 1 .. j - 1}
  /\ to_visit \cap Range(llir) = {}
  /\ \A m \in dfg.nodes : node_is_ready(m) => m \in Range(llir) \cup to_visit

CInv ==
  /\ IsHLIR(hlir) /\ config.universal \in BOOLEAN
  /\ phase \in Merging \cup {"layerize", "to_LLIR", "lowered"}
  /\ GraphOk(dfg) /\ Acyclic(dfg) /\ Wanted(dfg)
  /\ \A m \in dfg.nodes : Fits(m)
  /\ phase = "one_output" => OneOut(dfg)
  /\ to_visit \subseteq dfg.nodes
  /\ phase \in Merging => llir = <<>>
  /\ phase \in {"to_LLIR", "lowered"} => Scheduled
  /\ phase = "lowered" => dfg.nodes \subseteq Range(llir)

\* The predicates only depend on the program, which no step changes.
LEMMA ProgramKept ==
  ASSUME hlir' = hlir
  PROVE  /\ Ins' = Ins /\ Outs' = Outs /\ Vars' = Vars
         /\ GraphOk(dfg)' <=> GraphOk(dfg')
         /\ Acyclic(dfg)' <=> Acyclic(dfg')
         /\ Wanted(dfg)' <=> Wanted(dfg')
         /\ OneOut(dfg)' <=> OneOut(dfg')
         /\ (\A m \in dfg.nodes : Fits(m))' <=> \A m \in dfg'.nodes : Fits(m)
<1>1. Ins' = Ins /\ Outs' = Outs /\ Vars' = Vars
  BY DEF Ins, Outs, Vars
<1>2. \A m : NodeOk(m)' <=> NodeOk(m)
  BY DEF NodeOk
<1>3. Partition(dfg)' <=> Partition(dfg')
  BY <1>1, <1>2 DEF Partition
<1>4. EdgesOk(dfg)' <=> EdgesOk(dfg')
  BY DEF EdgesOk
<1>5. HandedOut(dfg)' <=> HandedOut(dfg')
  BY <1>1 DEF HandedOut
<1>6. GraphOk(dfg)' <=> GraphOk(dfg')
  BY <1>3, <1>4, <1>5 DEF GraphOk
<1>7. Acyclic(dfg)' <=> Acyclic(dfg')
  BY DEF Acyclic
<1>8. Wanted(dfg)' <=> Wanted(dfg')
  BY <1>1 DEF Wanted
<1>9. \A m : Counted(m)' = Counted(m)
  BY <1>1 DEF Counted
<1>10. OneOut(dfg)' <=> OneOut(dfg')
  BY <1>9 DEF OneOut
<1>11. \A m : Fits(m)' <=> Fits(m)
  BY <1>9 DEF Fits
<1>12. QED
  BY <1>1, <1>6, <1>7, <1>8, <1>10, <1>11

LEMMA MergeStep ==
  ASSUME CInv, phase \in Merging, NEW n1 \in dfg.nodes, NEW n2 \in dfg.nodes, n1 # n2,
         NEW seq \in Orders(n1, n2), SmallEnough(n1, n2), Allocatable(n1, n2, seq),
         check_domination_for_merge(dfg, n1, n2),
         IF phase = "one_output" THEN next_nodes(dfg, n1) = {n2}
                                 ELSE Len(merged_outputs(n1, n2)) =< l_out,
         Merge(n1, n2, seq)
  PROVE  CInv'
<1> DEFINE w == NewNode(dfg, n1, n2, seq)
           h == merge_nodes(dfg, hlir, n1, n2, seq)
<1>1. /\ IsHLIR(hlir) /\ GraphOk(dfg) /\ Acyclic(dfg) /\ Wanted(dfg)
      /\ \A m \in dfg.nodes : Fits(m)
      /\ (phase = "one_output" => OneOut(dfg))
      /\ to_visit \subseteq dfg.nodes /\ llir = <<>>
      /\ config.universal \in BOOLEAN
  BY DEF CInv
<1>2. /\ dfg' = h /\ to_visit' = VisitAfterMerge(n1, n2, h)
      /\ hlir' = hlir /\ config' = config /\ phase' = phase /\ llir' = llir
  BY DEF Merge
<1>3. Mergeable(dfg, n1, n2, seq)
  BY DEF Mergeable, Orders, merged_inputs
<1>4. GraphOk(h) /\ Acyclic(h) /\ Wanted(h) /\ w \notin dfg.nodes
  BY <1>1, <1>3, MergeKeepsGraph, MergeKeepsAcyclic, MergeKeepsWanted, NewNodeIs
<1>5. h.nodes = (dfg.nodes \ {n1, n2}) \cup {w}
  BY <1>4, MergedIs
<1>6. phase = "one_output" => OneOut(h)
  BY <1>1, <1>3, OnlySuccessor
<1>7. Fits(w)
  <2>1. CASE phase = "one_output"
    <3>1. \A v, v2 \in Counted(w) : v = v2
      BY <1>5, <1>6, <2>1 DEF OneOut
    <3>2. QED
      BY <1>1, <1>3, <3>1, MergedFits
  <2>2. CASE phase # "one_output"
    BY <1>1, <1>3, <2>2, MergedFits
  <2>3. QED
    BY <2>1, <2>2
<1> HIDE DEF w, h
<1>8. \A m \in h.nodes : Fits(m)
  BY <1>1, <1>5, <1>7
<1>9. to_visit' \subseteq h.nodes
  <2> DEFINE new == CHOOSE m \in h.nodes : m \notin dfg.nodes
             kept == to_visit \ {n1, n2}
  <2>1. new = w
    BY <1>4, <1>5
  <2>2. kept \subseteq h.nodes
    BY <1>1, <1>5
  <2>3. next_nodes(h, w) \subseteq h.nodes
    BY <1>4, <1>5 DEF GraphOk, EdgesOk
  <2>4. prev_nodes(h, w) \subseteq h.nodes
    <3>1. \A v \in DOMAIN h.backward_edges : h.backward_edges[v] \in h.nodes
      BY <1>4 DEF GraphOk, Partition
    <3>2. QED
      BY <3>1 DEF prev_nodes
  <2>5. VisitAfterMerge(n1, n2, h) \in
          {kept \cup next_nodes(h, new) \cup prev_nodes(h, new) \cup {new},
           kept, h.nodes, kept \cup {new}}
    BY Zenon DEF VisitAfterMerge
  <2> HIDE DEF new, kept
  <2>6. QED
    BY <1>2, <1>5, <2>1, <2>2, <2>3, <2>4, <2>5
<1>10. phase \notin {"to_LLIR", "lowered"}
  BY DEF Merging
<1>11. /\ GraphOk(dfg)' /\ Acyclic(dfg)' /\ Wanted(dfg)' /\ (phase = "one_output" => OneOut(dfg))'
       /\ (\A m \in dfg.nodes : Fits(m))'
  BY <1>2, <1>4, <1>6, <1>8, ProgramKept
<1>12. QED
  BY <1>1, <1>2, <1>9, <1>10, <1>11 DEF CInv

LEMMA NextNodes ==
  ASSUME IsHLIR(hlir), NEW g, GraphOk(g), NEW m \in g.nodes
  PROVE  next_nodes(g, m) \subseteq g.nodes \ {m}
<1>1. D(m) \cap U(m) = {}
  BY NodeFacts DEF GraphOk, Partition
<1>2. QED
  BY <1>1 DEF GraphOk, EdgesOk

LEMMA NoMergeStep ==
  ASSUME CInv, phase \in Merging, NEW m, NoMerge(m)
  PROVE  CInv'
<1>1. /\ to_visit' \subseteq to_visit /\ hlir' = hlir /\ config' = config /\ phase' = phase
      /\ dfg' = dfg /\ llir' = llir
  BY DEF NoMerge
<1>2. phase \notin {"to_LLIR", "lowered"}
  BY DEF Merging
<1>3. /\ GraphOk(dfg)' /\ Acyclic(dfg)' /\ Wanted(dfg)' /\ (phase = "one_output" => OneOut(dfg))'
      /\ (\A x \in dfg.nodes : Fits(x))'
  BY <1>1, ProgramKept DEF CInv
<1>4. QED
  BY <1>1, <1>2, <1>3 DEF CInv

LEMMA MergeOneOutputStep ==
  ASSUME CInv, MergeOneOutput
  PROVE  CInv'
<1>1. phase = "one_output" /\ phase \in Merging
  BY DEF MergeOneOutput, Merging
<1>2. /\ IsHLIR(hlir) /\ GraphOk(dfg) /\ Acyclic(dfg) /\ to_visit \subseteq dfg.nodes
  BY DEF CInv
<1>3. PICK m \in to_visit :
        \/ \E u \in next_nodes(dfg, m) :
             /\ next_nodes(dfg, m) = {u} /\ SmallEnough(m, u)
             /\ \E seq \in Orders(m, u) : Allocatable(m, u, seq) /\ Merge(m, u, seq)
        \/ NoMerge(m)
  BY DEF MergeOneOutput
<1>4. ASSUME NEW u \in next_nodes(dfg, m), next_nodes(dfg, m) = {u}, SmallEnough(m, u),
             NEW seq \in Orders(m, u), Allocatable(m, u, seq), Merge(m, u, seq)
      PROVE  CInv'
  <2>1. m \in dfg.nodes /\ u \in dfg.nodes /\ u # m
    BY <1>2, <1>3, NextNodes
  <2>2. ~ Leads(dfg, next_nodes(dfg, m) \ {u}, u)
    <3>1. {} \in SUBSET dfg.nodes /\ next_nodes(dfg, m) \ {u} \subseteq {}
      BY <1>4
    <3>2. QED
      BY <3>1 DEF Leads
  <2>3. ~ Leads(dfg, next_nodes(dfg, u) \ {m}, m)
    BY <1>2, <2>1, NextNodes, SuccessorsLeadAway
  <2>4. check_domination_for_merge(dfg, m, u)
    BY <2>2, <2>3 DEF check_domination_for_merge
  <2>5. QED
    BY <1>1, <1>4, <2>1, <2>4, MergeStep
<1>5. QED
  BY <1>1, <1>3, <1>4, NoMergeStep

LEMMA MergeParentsStep ==
  ASSUME CInv, MergeParents
  PROVE  CInv'
<1>1. phase = "parents" /\ phase \in Merging
  BY DEF MergeParents, Merging
<1>2. IsHLIR(hlir) /\ GraphOk(dfg) /\ to_visit \subseteq dfg.nodes
  BY DEF CInv
<1>3. PICK m \in to_visit :
        \/ \E u \in next_nodes(dfg, m) : \E seq \in Orders(m, u) :
             /\ ScoreChecks(m, u) /\ Allocatable(m, u, seq) /\ Merge(m, u, seq)
        \/ NoMerge(m)
  BY DEF MergeParents, IsBest
<1>4. ASSUME NEW u \in next_nodes(dfg, m), NEW seq \in Orders(m, u),
             ScoreChecks(m, u), Allocatable(m, u, seq), Merge(m, u, seq)
      PROVE  CInv'
  <2>1. m \in dfg.nodes /\ u \in dfg.nodes /\ u # m
    BY <1>2, <1>3, NextNodes
  <2>2. /\ SmallEnough(m, u) /\ Len(merged_outputs(m, u)) =< l_out
        /\ check_domination_for_merge(dfg, m, u)
    BY <1>4 DEF ScoreChecks
  <2>3. QED
    BY <1>1, <1>4, <2>1, <2>2, MergeStep
<1>5. QED
  BY <1>1, <1>3, <1>4, NoMergeStep

LEMMA MergeSiblingsStep ==
  ASSUME CInv, MergeSiblings
  PROVE  CInv'
<1>1. phase = "siblings" /\ phase \in Merging
  BY DEF MergeSiblings, Merging
<1>2. IsHLIR(hlir) /\ GraphOk(dfg) /\ to_visit \subseteq dfg.nodes
  BY DEF CInv
<1>3. PICK m \in to_visit :
        \/ \E p \in next_nodes(dfg, m) \X next_nodes(dfg, m) : \E seq \in Orders(p[1], p[2]) :
             /\ p[1] # p[2] /\ ScoreChecks(p[1], p[2])
             /\ Allocatable(p[1], p[2], seq) /\ Merge(p[1], p[2], seq)
        \/ NoMerge(m)
  BY DEF MergeSiblings, IsBest
<1>4. ASSUME NEW a \in next_nodes(dfg, m), NEW b \in next_nodes(dfg, m), a # b,
             NEW seq \in Orders(a, b),
             ScoreChecks(a, b), Allocatable(a, b, seq), Merge(a, b, seq)
      PROVE  CInv'
  <2>1. a \in dfg.nodes /\ b \in dfg.nodes
    BY <1>2, <1>3, NextNodes
  <2>2. /\ SmallEnough(a, b) /\ Len(merged_outputs(a, b)) =< l_out
        /\ check_domination_for_merge(dfg, a, b)
    BY <1>4 DEF ScoreChecks
  <2>3. QED
    BY <1>1, <1>4, <2>1, <2>2, MergeStep
<1>5. QED
  BY <1>1, <1>3, <1>4, NoMergeStep

-----------------------------------------------------------------------------
(***************************************************************************)
(* to_LLIR().                                                              *)
(***************************************************************************)
LEMMA NextPhaseStep ==
  ASSUME CInv, NextPhase
  PROVE  CInv'
<1>1. /\ phase \in Merging /\ hlir' = hlir /\ config' = config /\ dfg' = dfg /\ llir' = llir
      /\ llir = <<>> /\ IsHLIR(hlir) /\ config.universal \in BOOLEAN /\ GraphOk(dfg)
  BY DEF NextPhase, CInv, Merging
<1>2. /\ phase' \in {"parents", "siblings", "layerize", "to_LLIR"}
      /\ phase' = "to_LLIR" => phase = "siblings" /\ ~ config.universal
  BY <1>1 DEF NextPhase, Merging
<1>3. to_visit' \subseteq dfg.nodes
  BY DEF NextPhase
<1>4. /\ GraphOk(dfg)' /\ Acyclic(dfg)' /\ Wanted(dfg)' /\ (\A x \in dfg.nodes : Fits(x))'
      /\ Ins' = Ins
  BY <1>1, ProgramKept DEF CInv
<1>5. ASSUME phase' = "to_LLIR"
      PROVE  Scheduled'
  <2>1. to_visit' = {m \in dfg.nodes : node_is_ready(m)}
    BY <1>2, <1>5 DEF NextPhase
  <2>2. llir' = <<>> /\ DOMAIN llir' = {} /\ Range(llir') = {} /\ llir' \in Seq(dfg.nodes)
    BY <1>1 DEF Range
  <2>3. mem_ready' = mem_ready
    BY <1>1 DEF mem_ready
  <2>4. \A m : node_is_ready(m)' <=> node_is_ready(m)
    BY <2>3 DEF node_is_ready
  <2>5. QED
    BY <1>1, <2>1, <2>2, <2>4 DEF Scheduled
<1>6. QED
  BY <1>1, <1>2, <1>3, <1>4, <1>5 DEF CInv, Merging

LEMMA AppendOne ==
  ASSUME NEW S, NEW q \in Seq(S), NEW x \in S
  PROVE  /\ Append(q, x) \in Seq(S) /\ Len(q) \in Nat
         /\ DOMAIN q = 1 .. Len(q) /\ DOMAIN Append(q, x) = 1 .. Len(q) + 1
         /\ \A j \in 1 .. Len(q) : Append(q, x)[j] = q[j] /\ q[j] \in S
         /\ Append(q, x)[Len(q) + 1] = x
         /\ Range(Append(q, x)) = Range(q) \cup {x}
<1>1. /\ Append(q, x) \in Seq(S) /\ Len(q) \in Nat
      /\ DOMAIN q = 1 .. Len(q) /\ DOMAIN Append(q, x) = 1 .. Len(q) + 1
      /\ \A j \in 1 .. Len(q) : Append(q, x)[j] = q[j] /\ q[j] \in S
      /\ Append(q, x)[Len(q) + 1] = x
  OBVIOUS
<1> DEFINE p == Append(q, x)
           n == Len(q)
<1>2. /\ n \in Nat /\ DOMAIN q = 1 .. n /\ DOMAIN p = 1 .. n + 1
      /\ \A j \in 1 .. n : p[j] = q[j]
      /\ p[n + 1] = x
  BY <1>1
<1> HIDE DEF p, n
<1>3. 1 .. n + 1 = (1 .. n) \cup {n + 1}
  BY <1>2
<1>4. Range(p) = Range(q) \cup {x}
  BY <1>2, <1>3 DEF Range
<1>5. QED
  BY <1>1, <1>4 DEF p

LEMMA ReadyNodeStep ==
  ASSUME CInv, phase = "to_LLIR", NEW m \in to_visit, node_is_ready(m),
         llir' = Append(llir, m), to_visit' = (to_visit \ {m}) \cup next_nodes(dfg, m),
         hlir' = hlir, dfg' = dfg
  PROVE  Scheduled' /\ to_visit' \subseteq dfg.nodes
<1> DEFINE n == Len(llir)
<1>1. /\ IsHLIR(hlir) /\ GraphOk(dfg) /\ Scheduled /\ m \in dfg.nodes /\ to_visit \subseteq dfg.nodes
  BY DEF CInv
<1>2. llir \in Seq(dfg.nodes)
  BY <1>1 DEF Scheduled
<1>3. /\ llir' \in Seq(dfg.nodes) /\ n \in Nat
      /\ DOMAIN llir = 1 .. n /\ DOMAIN llir' = 1 .. n + 1
      /\ \A j \in 1 .. n : llir'[j] = llir[j] /\ llir[j] \in dfg.nodes
      /\ llir'[n + 1] = m
      /\ Range(llir') = Range(llir) \cup {m}
  BY <1>1, <1>2, AppendOne
<1> HIDE DEF n
<1>4. \A x \in Range(llir) : \E j \in 1 .. n : x = llir[j]
  BY <1>3 DEF Range
<1>5. \A j \in 1 .. n : llir[j] \in Range(llir)
  BY <1>3 DEF Range
<1>6. /\ \A i, j \in 1 .. n : llir[i] = llir[j] => i = j
      /\ \A j \in 1 .. n :
           Range(llir[j].inputs) \subseteq Ins \cup UNION {Range(llir[q].outputs) : q \in 1 .. j - 1}
      /\ to_visit \cap Range(llir) = {}
      /\ \A x \in dfg.nodes : node_is_ready(x) => x \in Range(llir) \cup to_visit
  BY <1>1, <1>3 DEF Scheduled
<1>7. mem_ready = Ins \cup UNION {Range(llir[q].outputs) : q \in 1 .. n}
  BY <1>3 DEF mem_ready, Ins
<1>8. 1 .. n + 1 = (1 .. n) \cup {n + 1} /\ \A j \in 1 .. n + 1 : 1 .. j - 1 \subseteq 1 .. n
  BY <1>3
<1>9. mem_ready' = mem_ready \cup Range(m.outputs)
  <2>1. mem_ready' = Ins \cup UNION {Range(llir'[q].outputs) : q \in 1 .. n + 1}
    BY <1>3 DEF mem_ready, Ins
  <2>2. QED
    BY <1>3, <1>7, <1>8, <2>1
<1>10. \A x \in dfg.nodes :
         /\ Range(x.inputs) = U(x) /\ Range(x.outputs) \subseteq D(x) /\ D(x) \cap Ins = {}
         /\ \A v \in D(x) : dfg.backward_edges[v] = x
         /\ x \in next_nodes(dfg, m) <=> D(m) \cap U(x) # {}
  <2>1. \A x \in dfg.nodes : NodeOk(x) /\ D(x) \subseteq Vars
    BY <1>1, NodeFacts DEF GraphOk, Partition
  <2>2. \A x \in dfg.nodes : Range(x.inputs) = U(x) /\ Range(x.outputs) \subseteq D(x)
    BY <2>1 DEF NodeOk
  <2>3. QED
    BY <1>1, <2>1, <2>2, HlirFacts DEF GraphOk, Partition, EdgesOk
<1>11. next_nodes(dfg, m) \subseteq dfg.nodes \ {m}
  BY <1>1, NextNodes
<1>12. \A i, j \in 1 .. n + 1 : llir'[i] = llir'[j] => i = j
  BY <1>3, <1>5, <1>6, <1>8
<1>13. ASSUME NEW j \in 1 .. n + 1
       PROVE  Range(llir'[j].inputs) \subseteq
                Ins \cup UNION {Range(llir'[q].outputs) : q \in 1 .. j - 1}
  <2>1. \A q \in 1 .. j - 1 : llir'[q] = llir[q]
    BY <1>3, <1>8
  <2>2. UNION {Range(llir'[q].outputs) : q \in 1 .. j - 1} =
          UNION {Range(llir[q].outputs) : q \in 1 .. j - 1}
    BY <2>1
  <2>3. CASE j \in 1 .. n
    BY <1>3, <1>6, <2>2, <2>3
  <2>4. CASE j = n + 1
    <3>1. 1 .. j - 1 = 1 .. n
      BY <1>3, <2>4
    <3>2. Range(m.inputs) \subseteq mem_ready
      BY DEF node_is_ready
    <3>3. QED
      BY <1>3, <1>7, <2>2, <2>4, <3>1, <3>2
  <2>5. QED
    BY <1>8, <2>3, <2>4
<1>14. ASSUME NEW x \in next_nodes(dfg, m)
       PROVE  x \notin Range(llir)
  <2> SUFFICES ASSUME x \in Range(llir) PROVE FALSE
    OBVIOUS
  <2>1. PICK v \in D(m) : v \in U(x) /\ v \notin Ins
    BY <1>1, <1>10, <1>11
  <2>2. PICK j \in 1 .. n : x = llir[j]
    BY <1>4
  <2>3. PICK q \in 1 .. j - 1 : v \in Range(llir[q].outputs)
    BY <1>3, <1>6, <1>10, <2>1, <2>2
  <2>4. q \in 1 .. n
    BY <1>3
  <2>5. dfg.backward_edges[v] = llir[q] /\ dfg.backward_edges[v] = m
    BY <1>1, <1>3, <1>10, <2>1, <2>3, <2>4
  <2>6. QED
    BY <1>5, <1>6, <2>4, <2>5
<1>15. to_visit' \cap Range(llir') = {}
  BY <1>3, <1>6, <1>11, <1>14
<1>16. ASSUME NEW x \in dfg.nodes, Range(x.inputs) \subseteq mem_ready'
       PROVE  x \in Range(llir') \cup to_visit'
  <2>1. CASE node_is_ready(x)
    BY <1>3, <1>6, <2>1
  <2>2. CASE ~ node_is_ready(x)
    <3>1. PICK v \in Range(x.inputs) : v \in Range(m.outputs)
      BY <1>9, <1>16, <2>2 DEF node_is_ready
    <3>2. x \in next_nodes(dfg, m)
      BY <1>1, <1>10, <3>1
    <3>3. QED
      BY <3>2
  <2>3. QED
    BY <2>1, <2>2
<1>17. Ins' = Ins
  BY DEF Ins
<1>18. Scheduled'
  <2>1. \A x \in dfg.nodes : node_is_ready(x)' => x \in Range(llir') \cup to_visit'
    BY <1>16 DEF node_is_ready
  <2>2. QED
    BY <1>3, <1>12, <1>13, <1>15, <1>17, <2>1 DEF Scheduled
<1>19. QED
  BY <1>1, <1>11, <1>18

\* The allocator has registers for every node, also for one without inputs,
\* which is given cell 0 to load: no instruction of it reads that.
LEMMA NodesLowerable ==
  ASSUME CInv, NEW m \in dfg.nodes
  PROVE  Lowerable(m)
<1>1. needs_leq_k_registers(m.instrs, m.inputs, m.outputs, r, l_out)
  BY DEF CInv, Fits
<1>2. Range(m.inputs) = get_used(m.instrs)
  BY DEF CInv, GraphOk, Partition, NodeOk, U
<1>3. Range(InputsToLoad(m)) \cap get_used(m.instrs) = Range(m.inputs) \cap get_used(m.instrs)
  <2>1. CASE m.inputs = <<>>
    <3>1. Range(m.inputs) = {}
      BY <2>1 DEF Range
    <3>2. QED
      BY <1>2, <3>1
  <2>2. CASE m.inputs # <<>>
    BY <2>2 DEF InputsToLoad
  <2>3. QED
    BY <2>1, <2>2
<1>4. QED
  BY <1>1, <1>3 DEF Lowerable, needs_leq_k_registers

LEMMA ScheduleNodeStep ==
  ASSUME CInv, ScheduleNode
  PROVE  CInv'
<1>0. \A m \in to_visit : Lowerable(m)
  BY NodesLowerable DEF CInv
<1>1. phase = "to_LLIR" /\ hlir' = hlir /\ config' = config /\ phase' = phase /\ dfg' = dfg
  BY <1>0 DEF ScheduleNode
<1>2. PICK m \in to_visit :
        \/ /\ node_is_ready(m) /\ llir' = Append(llir, m)
           /\ to_visit' = (to_visit \ {m}) \cup next_nodes(dfg, m)
        \/ ~ node_is_ready(m) /\ to_visit' = to_visit \ {m} /\ llir' = llir
  BY <1>0 DEF ScheduleNode
<1>3. Scheduled' /\ to_visit' \subseteq dfg.nodes
  <2>1. CASE node_is_ready(m)
    BY <1>1, <1>2, <2>1, ReadyNodeStep
  <2>2. CASE ~ node_is_ready(m)
    <3>1. to_visit' = to_visit \ {m} /\ llir' = llir /\ Scheduled /\ to_visit \subseteq dfg.nodes
      BY <1>1, <1>2, <2>2 DEF CInv
    <3>2. mem_ready' = mem_ready /\ Ins' = Ins
      BY <1>1, <3>1 DEF mem_ready, Ins
    <3>3. \A x : node_is_ready(x)' <=> node_is_ready(x)
      BY <3>2 DEF node_is_ready
    <3>4. \A x \in dfg.nodes : node_is_ready(x) => x \in Range(llir) \cup to_visit'
      BY <2>2, <3>1 DEF Scheduled
    <3>5. to_visit' \cap Range(llir) = {}
      BY <3>1 DEF Scheduled
    <3>6. QED
      BY <1>1, <3>1, <3>2, <3>3, <3>4, <3>5 DEF Scheduled
  <2>3. QED
    BY <2>1, <2>2
<1>4. GraphOk(dfg)' /\ Acyclic(dfg)' /\ Wanted(dfg)' /\ (\A x \in dfg.nodes : Fits(x))'
  BY <1>1, ProgramKept DEF CInv
<1>5. QED
  BY <1>1, <1>3, <1>4 DEF CInv, Merging

\* When nothing is left to visit, every node is scheduled: among the others one
\* would read nothing from the others, and so be ready.
LEMMA NoneLeft ==
  ASSUME CInv, phase = "to_LLIR", to_visit = {}
  PROVE  dfg.nodes \subseteq Range(llir)
<1>1. IsHLIR(hlir) /\ GraphOk(dfg) /\ Acyclic(dfg) /\ Scheduled
  BY DEF CInv
<1> DEFINE C == dfg.nodes \ Range(llir)
<1> SUFFICES ASSUME C # {} PROVE FALSE
  OBVIOUS
<1>2. PICK m \in C : \A x \in C : m \notin next_nodes(dfg, x)
  BY <1>1, Zenon DEF Acyclic
<1>3. m \in dfg.nodes /\ m \notin Range(llir)
  OBVIOUS
<1>4. NodeOk(m) /\ U(m) \subseteq Ins \cup Vars
  BY <1>1, NodeFacts DEF GraphOk, Partition
<1>5. ASSUME NEW v \in U(m), v \notin Ins
      PROVE  v \in mem_ready
  <2>1. v \in Vars
    BY <1>4, <1>5
  <2> DEFINE x == dfg.backward_edges[v]
  <2>2. x \in dfg.nodes /\ v \in D(x)
    BY <1>1, <2>1 DEF GraphOk, Partition
  <2>3. m \in next_nodes(dfg, x)
    BY <1>1, <1>3, <2>2 DEF GraphOk, EdgesOk
  <2>4. x \in Range(llir)
    BY <1>2, <2>2, <2>3
  <2>5. v \in Range(x.outputs)
    BY <1>1, <1>3, <1>5 DEF GraphOk, HandedOut
  <2> HIDE DEF x
  <2>6. PICK j \in DOMAIN llir : x = llir[j]
    BY <2>4 DEF Range
  <2>7. QED
    BY <2>5, <2>6 DEF mem_ready
<1>6. node_is_ready(m)
  <2>1. Range(m.inputs) = U(m) /\ Ins \subseteq mem_ready
    BY <1>4 DEF NodeOk, mem_ready, Ins
  <2>2. QED
    BY <1>5, <2>1 DEF node_is_ready
<1>7. QED
  BY <1>1, <1>3, <1>6 DEF Scheduled

LEMMA CheckScheduledStep ==
  ASSUME CInv, CheckScheduled
  PROVE  CInv'
<1>1. /\ phase = "to_LLIR" /\ to_visit = {} /\ hlir' = hlir /\ config' = config
      /\ dfg' = dfg /\ llir' = llir /\ to_visit' = to_visit
  BY DEF CheckScheduled
<1>2. dfg.nodes \subseteq Range(llir)
  BY <1>1, NoneLeft
<1>3. phase' = "lowered"
  BY <1>2 DEF CheckScheduled
<1>4. GraphOk(dfg)' /\ Acyclic(dfg)' /\ Wanted(dfg)' /\ (\A x \in dfg.nodes : Fits(x))'
  BY <1>1, ProgramKept DEF CInv
<1>5. Scheduled'
  <2>1. Scheduled
    BY <1>1 DEF CInv
  <2>2. mem_ready' = mem_ready /\ Ins' = Ins
    BY <1>1 DEF mem_ready, Ins
  <2>3. \A x : node_is_ready(x)' <=> node_is_ready(x)
    BY <2>2 DEF node_is_ready
  <2>4. QED
    BY <1>1, <2>1, <2>2, <2>3 DEF Scheduled
<1>6. QED
  BY <1>1, <1>2, <1>3, <1>4, <1>5 DEF CInv, Merging

-----------------------------------------------------------------------------
(***************************************************************************)
(* The theorems.                                                           *)
(***************************************************************************)
LEMMA InvInit ==
  ASSUME CInit
  PROVE  CInv
<1>1. PICK c \in Compilations : hlir = c.hlir /\ config = c.config
  BY DEF CInit
<1>2. IsHLIR(hlir) /\ config.universal \in BOOLEAN
  BY <1>1, CompilationsAssumption
<1>3. phase = "one_output" /\ dfg = build_graph(hlir) /\ to_visit = dfg.nodes /\ llir = <<>>
  BY DEF CInit
<1>4. GraphOk(dfg) /\ Acyclic(dfg) /\ Wanted(dfg) /\ OneOut(dfg) /\ \A m \in dfg.nodes : Fits(m)
  BY <1>2, <1>3, BuildGraphOk
<1>5. QED
  BY <1>2, <1>3, <1>4 DEF CInv, Merging

LEMMA StutterStep ==
  ASSUME CInv, UNCHANGED cvars
  PROVE  CInv'
<1>1. /\ hlir' = hlir /\ config' = config /\ phase' = phase /\ dfg' = dfg
      /\ to_visit' = to_visit /\ llir' = llir
  BY DEF cvars
<1>2. /\ GraphOk(dfg)' /\ Acyclic(dfg)' /\ Wanted(dfg)' /\ (phase = "one_output" => OneOut(dfg))'
      /\ (\A x \in dfg.nodes : Fits(x))'
  BY <1>1, ProgramKept DEF CInv
<1>3. Scheduled' <=> Scheduled
  <2>1. mem_ready' = mem_ready /\ Ins' = Ins
    BY <1>1 DEF mem_ready, Ins
  <2>2. \A x : node_is_ready(x)' <=> node_is_ready(x)
    BY <2>1 DEF node_is_ready
  <2>3. QED
    BY <1>1, <2>1, <2>2 DEF Scheduled
<1>4. QED
  BY <1>1, <1>2, <1>3 DEF CInv

\* Whatever clusterize() merges and in whatever order, the graph stays a
\* partition of the program with the edges its nodes call for and no cycle,
\* and to_LLIR() loses no node and schedules none too early.
THEOREM ClusteringInvariance == CSpec => []CInv
<1>1. CInit => CInv
  BY InvInit
<1>2. CInv /\ [CNext]_cvars => CInv'
  BY MergeOneOutputStep, MergeParentsStep, MergeSiblingsStep, NextPhaseStep,
     ScheduleNodeStep, CheckScheduledStep, StutterStep DEF CNext
<1>3. QED
  BY <1>1, <1>2, PTL DEF CSpec

\* check_dfg_integrity() would never fail: what a node reads is an output of
\* the node that defines it, which knows it as a successor.
THEOREM GraphKeepsIntegrity == CSpec => []Integrity
<1>1. CInv => Integrity
  <2> SUFFICES ASSUME CInv PROVE Integrity
    OBVIOUS
  <2>1. IsHLIR(hlir) /\ GraphOk(dfg)
    BY DEF CInv
  <2>2. \A m \in dfg.nodes : /\ Range(m.inputs) = U(m) /\ U(m) \subseteq Ins \cup Vars
                             /\ Range(m.outputs) \subseteq D(m)
    BY <2>1, NodeFacts DEF GraphOk, Partition, NodeOk
  <2>3. ASSUME NEW m \in dfg.nodes, NEW v \in Range(m.inputs) \ Ins
        PROVE  /\ dfg.backward_edges[v] \in dfg.nodes
               /\ m \in next_nodes(dfg, dfg.backward_edges[v])
               /\ v \in Range(dfg.backward_edges[v].outputs)
    <3>1. v \in U(m) /\ v \in Vars
      BY <2>2
    <3>2. dfg.backward_edges[v] \in dfg.nodes /\ v \in D(dfg.backward_edges[v])
      BY <2>1, <3>1 DEF GraphOk, Partition
    <3>3. m \in next_nodes(dfg, dfg.backward_edges[v])
      BY <2>1, <3>1, <3>2 DEF GraphOk, EdgesOk
    <3>4. v \in Range(dfg.backward_edges[v].outputs)
      BY <2>1, <3>1 DEF GraphOk, HandedOut
    <3>5. QED
      BY <3>2, <3>3, <3>4
  <2>4. ASSUME NEW m \in dfg.nodes, NEW u \in next_nodes(dfg, m)
        PROVE  u \in dfg.nodes /\ Range(m.outputs) \cap Range(u.inputs) # {}
    <3>1. u \in dfg.nodes /\ D(m) \cap U(u) # {}
      BY <2>1 DEF GraphOk, EdgesOk
    <3>2. PICK v \in D(m) : v \in U(u)
      BY <3>1
    <3>3. dfg.backward_edges[v] = m /\ v \notin Ins
      <4>1. D(m) \subseteq Vars
        BY <2>1, NodeFacts DEF GraphOk, Partition
      <4>2. QED
        BY <2>1, <4>1, HlirFacts DEF GraphOk, Partition
    <3>4. v \in Range(m.outputs)
      BY <2>1, <3>1, <3>2, <3>3 DEF GraphOk, HandedOut
    <3>5. QED
      BY <2>2, <3>1, <3>2, <3>4
  <2>5. QED
    BY <2>3, <2>4 DEF Integrity, Ins
<1>2. QED
  BY <1>1, ClusteringInvariance, PTL

\* The instructions, inputs and registers of what was merged fit the element.
\* So do the outputs of what the last two passes merged; the first pass does
\* not count outputs, and where they exceed l_out all but one are outputs of
\* the program that the snippet itself reads.
THEOREM MergesFitElement == CSpec => []FitsElement
<1>1. CInv => FitsElement
  BY DEF CInv, FitsElement, Fits, Counted, Outs
<1>2. QED
  BY <1>1, ClusteringInvariance, PTL

\* Every variable is defined at one place of the LLIR.
LEMMA OnePlace ==
  ASSUME CInv, phase = "lowered", NEW v \in Vars
  PROVE  Cardinality({x \in (DOMAIN llir) \X (1 .. s) :
                        /\ x[2] \in DOMAIN llir[x[1]].instrs
                        /\ llir[x[1]].instrs[x[2]].dst = v}) = 1
<1> DEFINE P == {x \in (DOMAIN llir) \X (1 .. s) :
                   /\ x[2] \in DOMAIN llir[x[1]].instrs
                   /\ llir[x[1]].instrs[x[2]].dst = v}
           m == dfg.backward_edges[v]
<1>1. /\ IsHLIR(hlir) /\ GraphOk(dfg) /\ Scheduled /\ dfg.nodes \subseteq Range(llir)
      /\ \A x \in dfg.nodes : Fits(x)
  BY DEF CInv
<1>2. m \in dfg.nodes /\ v \in D(m) /\ NodeOk(m) /\ \A x \in dfg.nodes : v \in D(x) => x = m
  BY <1>1 DEF GraphOk, Partition
<1>3. PICK j \in DOMAIN llir : llir[j] = m
  BY <1>1, <1>2 DEF Range
<1>4. \A i \in DOMAIN llir : llir[i] \in dfg.nodes /\ (llir[i] = m => i = j)
  BY <1>1, <1>3 DEF Scheduled
<1> HIDE DEF m
<1> DEFINE I == m.instrs
<1>5. /\ Len(I) \in Nat /\ DOMAIN I = 1 .. Len(I)
      /\ \A i, q \in DOMAIN I : I[i] = I[q] => i = q
      /\ \A i \in DOMAIN I : I[i] \in Range(hlir.instrs)
  <2>1. Listing(I, Range(I)) /\ Range(I) \subseteq Range(hlir.instrs)
    BY <1>2 DEF NodeOk
  <2>2. I \in [1 .. Len(I) -> Range(I)] /\ Len(I) \in Nat
    BY <2>1 DEF Listing
  <2>3. QED
    BY <2>1, <2>2 DEF Listing
<1>6. Len(I) =< s
  <2>1. s \in Nat /\ s >= 1
    BY ShapeAssumption
  <2>2. Len(I) > 1 => Len(I) =< s
    BY <1>1, <1>2 DEF Fits
  <2>3. QED
    BY <1>5, <2>1, <2>2
<1>7. PICK q \in DOMAIN I : I[q].dst = v
  BY <1>2 DEF D, get_defs
<1>8. \A i \in DOMAIN I : I[i].dst = v => i = q
  BY <1>1, <1>5, <1>7, HlirFacts
<1> HIDE DEF I
<1>9. <<j, q>> \in P
  <2>1. q \in 1 .. s
    <3>1. s \in Nat
      BY ShapeAssumption
    <3>2. QED
      BY <1>5, <1>6, <1>7, <3>1
  <2>2. QED
    BY <1>3, <1>7, <2>1 DEF I
<1>10. ASSUME NEW x \in P
       PROVE  x = <<j, q>>
  <2>1. /\ x = <<x[1], x[2]>> /\ x[1] \in DOMAIN llir /\ x[2] \in DOMAIN llir[x[1]].instrs
        /\ llir[x[1]].instrs[x[2]].dst = v
    OBVIOUS
  <2>2. v \in D(llir[x[1]])
    BY <2>1 DEF D, get_defs
  <2>3. x[1] = j /\ llir[x[1]] = m
    BY <1>2, <1>4, <2>1, <2>2
  <2>4. x[2] = q
    BY <1>8, <2>1, <2>3 DEF I
  <2>5. QED
    BY <2>1, <2>3, <2>4
<1> HIDE DEF P
<1>11. P = {<<j, q>>}
  BY <1>9, <1>10
<1>12. QED
  BY <1>11, FS_Singleton DEF P

\* to_LLIR() never ends in its RuntimeError, nor in the ValueError of the
\* allocator, and the LLIR is the program: every
\* node is scheduled once, every variable defined at one place, every snippet
\* comes after those whose outputs it reads, and the program's outputs are
\* handed out.
THEOREM ProgramIsLowered == CSpec => []LowersProgram
<1>1. ASSUME CInv, phase = "lowered"
      PROVE  /\ Len(llir) = Cardinality(dfg.nodes)
             /\ Range(hlir.outputs) \subseteq mem_ready
  <2>1. IsHLIR(hlir) /\ GraphOk(dfg) /\ Scheduled /\ dfg.nodes \subseteq Range(llir)
    BY <1>1 DEF CInv
  <2>2. llir \in Seq(dfg.nodes) /\ \A i, j \in DOMAIN llir : llir[i] = llir[j] => i = j
    BY <2>1 DEF Scheduled
  <2>3. Len(llir) = Cardinality(dfg.nodes)
    <3> DEFINE n == Len(llir)
    <3>1. n \in Nat /\ DOMAIN llir = 1 .. n /\ llir \in [1 .. n -> dfg.nodes]
      BY <2>2
    <3>2. \A x \in dfg.nodes : \E j \in 1 .. n : llir[j] = x
      BY <2>1, <3>1 DEF Range
    <3> HIDE DEF n
    <3>3. llir \in Bijection(1 .. n, dfg.nodes)
      BY <2>2, <3>1, <3>2 DEF Bijection, Injection, Surjection, IsInjective
    <3>4. IsFiniteSet(1 .. n) /\ Cardinality(1 .. n) = n
      BY <3>1, FS_Interval
    <3>5. Cardinality(dfg.nodes) = n
      BY <3>3, <3>4, FS_Bijection DEF ExistsBijection
    <3>6. QED
      BY <3>5 DEF n
  <2>4. ASSUME NEW v \in Outs
        PROVE  v \in mem_ready
    <3>1. CASE v \in Ins
      BY <3>1 DEF mem_ready, Ins
    <3>2. CASE v \in Vars
      <4>1. dfg.backward_edges[v] \in dfg.nodes /\ v \in Range(dfg.backward_edges[v].outputs)
        BY <2>1, <3>2 DEF GraphOk, Partition, HandedOut
      <4>2. PICK j \in DOMAIN llir : llir[j] = dfg.backward_edges[v]
        BY <2>1, <4>1 DEF Range
      <4>3. QED
        BY <4>1, <4>2 DEF mem_ready
    <3>3. QED
      BY <2>1, <3>1, <3>2, HlirFacts
  <2>5. QED
    BY <2>3, <2>4 DEF Outs
<1>2. ASSUME CInv, phase = "lowered"
      PROVE  \A j \in DOMAIN llir : Range(llir[j].inputs) \subseteq
               Range(hlir.inputs) \cup UNION {Range(llir[q].outputs) : q \in 1 .. j - 1}
  BY <1>2 DEF CInv, Scheduled, Ins
<1>3. CInv => phase # "error"
  BY DEF CInv, Merging
<1>4. CInv => LowersProgram
  BY <1>1, <1>2, <1>3, OnePlace DEF LowersProgram, Vars
<1>5. QED
  BY <1>4, ClusteringInvariance, PTL
=============================================================================

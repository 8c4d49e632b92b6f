----------------------------- MODULE Clusterizer -----------------------------
(***************************************************************************)
(* clusterize() of basic_clusterizer.py, which merges the nodes of the     *)
(* data-flow graph in three passes, and to_LLIR() of DFG.py, which puts    *)
(* the merged nodes in an order.  Python sets are iterated in any order,   *)
(* so every choice of a node is nondeterministic, and so is the order in   *)
(* which compute_merged_instrs lays out a snippet.                         *)
(*                                                                         *)
(* A pass visits nodes until it found nothing to merge.  to_visit holds    *)
(* the nodes it still looks at; what -simple-clusterizer and -fast change  *)
(* is which nodes come back into it after a merge.                         *)
(***************************************************************************)
EXTENDS DFG

CONSTANTS
  r, l_in, l_out, s,  \* the shape of the secure element
  Compilations        \* what to compile: [hlir, config], where hlir is a
                      \* program [inputs, outputs, instrs]

\* The checks of main().
ASSUME ShapeAssumption ==
  /\ {r, l_in, l_out, s} \subseteq Nat \ {0}
  /\ l_in + l_out =< r
  /\ l_in =< s /\ l_out =< s

\* What the frontend makes of a program (InSSA and NothingInVain of module
\* Frontend): every variable is an input or defined once, before it is read,
\* and every result is read or is an output of the program.
IsHLIR(h) ==
  /\ h.instrs \in Seq(Range(h.instrs))
  /\ \A j \in DOMAIN h.instrs :
       /\ h.instrs[j].src \in Seq(Range(h.instrs[j].src))
       /\ h.instrs[j].dst \notin Range(h.inputs)
       /\ \A q \in DOMAIN h.instrs : h.instrs[j].dst = h.instrs[q].dst => j = q
       /\ \A v \in mem_inputs(h.instrs[j]) :
            v \in Range(h.inputs) \/ \E q \in 1 .. j - 1 : h.instrs[q].dst = v
       /\ h.instrs[j].dst \in Range(h.outputs) \cup Reads(h.instrs)
  /\ Range(h.outputs) \subseteq Range(h.inputs) \cup get_defs(h.instrs)

ASSUME CompilationsAssumption ==
  \A c \in Compilations : IsHLIR(c.hlir) /\ c.config.universal \in BOOLEAN

VARIABLES
  hlir,      \* the program
  config,    \* [simple, fast, universal, width, depth]: the options
  phase,     \* the pass: "one_output", "parents", "siblings"; then those of
             \* module Universalizer, or "to_LLIR" and "lowered"; or "error"
  dfg,
  to_visit,  \* nodes to visit; in to_LLIR, todo
  llir       \* the nodes scheduled so far, in order

cvars == <<hlir, config, phase, dfg, to_visit, llir>>

CInit ==
  /\ \E c \in Compilations : hlir = c.hlir /\ config = c.config
  /\ phase = "one_output"
  /\ dfg = build_graph(hlir)
  /\ to_visit = dfg.nodes
  /\ llir = <<>>

-----------------------------------------------------------------------------
merged_inputs(n1, n2) == compute_merged_inputs(n1, n2)
merged_outputs(n1, n2) == compute_merged_outputs(dfg, hlir.outputs, n1, n2)
Orders(n1, n2) == compute_merged_instrs(n1, n2, merged_inputs(n1, n2))

Allocatable(n1, n2, seq) ==
  needs_leq_k_registers(seq, merged_inputs(n1, n2), merged_outputs(n1, n2), r, l_out)

\* Mutant: an instruction too many.
SmallEnough_OneMore(n1, n2) ==
  /\ Len(merged_inputs(n1, n2)) =< l_in
  /\ Len(n1.instrs) + Len(n2.instrs) =< s + 1

SmallEnough(n1, n2) ==
  /\ Len(merged_inputs(n1, n2)) =< l_in
  /\ Len(n1.instrs) + Len(n2.instrs) =< s

\* What merge_score checks besides the registers.
ScoreChecks(n1, n2) ==
  /\ SmallEnough(n1, n2)
  /\ Len(merged_outputs(n1, n2)) =< l_out
  /\ check_domination_for_merge(dfg, n1, n2)

Score(n1, n2) ==
  Len(n1.inputs) + Len(n2.inputs) - Len(merged_inputs(n1, n2))
    + Len(n1.outputs) + Len(n2.outputs) - Len(merged_outputs(n1, n2))

\* merge_score may return -1: the registers do not suffice for some order.
MayFail(n1, n2) ==
  \/ ~ScoreChecks(n1, n2)
  \/ \E seq \in Orders(n1, n2) : ~Allocatable(n1, n2, seq)

\* n1 and n2, laid out as seq, may come out best of the pairs looked at.
IsBest(n1, n2, seq, pairs) ==
  /\ ScoreChecks(n1, n2)
  /\ seq \in Orders(n1, n2)
  /\ Allocatable(n1, n2, seq)
  /\ \A p \in pairs : Score(p[1], p[2]) > Score(n1, n2) => MayFail(p[1], p[2])

-----------------------------------------------------------------------------
\* The nodes to visit after n1 and n2 were merged into graph g.  A node that
\* is merged away is not visited any more: in the code its forward edges are
\* gone, so a visit does nothing.
VisitAfterMerge(n1, n2, g) ==
  LET new  == CHOOSE m \in g.nodes : m \notin dfg.nodes
      kept == to_visit \ {n1, n2}
  IN CASE phase # "siblings" /\ config.simple /\ (phase = "one_output" \/ ~config.fast) ->
            kept \cup next_nodes(g, new) \cup prev_nodes(g, new) \cup {new}
       [] phase = "parents" /\ config.simple /\ config.fast -> kept
       [] phase = "one_output" /\ ~config.simple -> g.nodes
       [] OTHER -> IF config.fast THEN kept \cup {new} ELSE g.nodes

Merge(n1, n2, seq) ==
  LET g == merge_nodes(dfg, hlir, n1, n2, seq) IN
  /\ dfg' = g
  /\ to_visit' = VisitAfterMerge(n1, n2, g)
  /\ UNCHANGED <<hlir, config, phase, llir>>

\* Mutant: a node without a merge stays in the set.
NoMerge_Revisit(m) ==
  UNCHANGED <<hlir, config, phase, dfg, to_visit, llir>>

NoMerge(m) ==
  /\ to_visit' = to_visit \ {m}
  /\ UNCHANGED <<hlir, config, phase, dfg, llir>>

\* merge_1_output_nodes(): a node with one successor is merged with it.  The
\* number of outputs of the merged node is not checked.
MergeOneOutput ==
  /\ phase = "one_output"
  /\ \E m \in to_visit :
       \/ \E u \in next_nodes(dfg, m) :
            /\ next_nodes(dfg, m) = {u}
            /\ SmallEnough(m, u)
            /\ \E seq \in Orders(m, u) : Allocatable(m, u, seq) /\ Merge(m, u, seq)
       \/ /\ \A u \in next_nodes(dfg, m) :
               \/ next_nodes(dfg, m) # {u}
               \/ ~SmallEnough(m, u)
               \/ \E seq \in Orders(m, u) : ~Allocatable(m, u, seq)
          /\ NoMerge(m)

\* merge_parents_childs(): a node is merged with its best successor.
MergeParents ==
  /\ phase = "parents"
  /\ \E m \in to_visit :
       LET pairs == {m} \X next_nodes(dfg, m) IN
       \/ \E p \in pairs : \E seq \in Orders(m, p[2]) :
            IsBest(m, p[2], seq, pairs) /\ Merge(m, p[2], seq)
       \/ (\A p \in pairs : MayFail(m, p[2])) /\ NoMerge(m)

\* merge_siblings(): the best pair of successors of a node is merged, if that
\* saves something.
MergeSiblings ==
  /\ phase = "siblings"
  /\ \E m \in to_visit :
       LET pairs == {p \in next_nodes(dfg, m) \X next_nodes(dfg, m) : p[1] # p[2]} IN
       \/ \E p \in pairs : \E seq \in Orders(p[1], p[2]) :
            /\ IsBest(p[1], p[2], seq, pairs)
            /\ Score(p[1], p[2]) > 0
            /\ Merge(p[1], p[2], seq)
       \/ /\ \A p \in pairs : MayFail(p[1], p[2]) \/ Score(p[1], p[2]) = 0
          /\ NoMerge(m)

-----------------------------------------------------------------------------
mem_ready == Range(hlir.inputs) \cup UNION {Range(llir[j].outputs) : j \in DOMAIN llir}

node_is_ready(m) == Range(m.inputs) \subseteq mem_ready

\* The passes follow each other.  Unless -no-universal is given, the graph is
\* universalized next; to_LLIR starts with the nodes that read only inputs of
\* the program.
NextPhase ==
  /\ to_visit = {}
  /\ phase \in {"one_output", "parents", "siblings"}
  /\ phase' = CASE phase = "one_output" -> "parents"
                [] phase = "parents" -> "siblings"
                [] phase = "siblings" /\ config.universal -> "layerize"
                [] phase = "siblings" /\ ~config.universal -> "to_LLIR"
  /\ to_visit' = IF phase = "siblings"
                 THEN {m \in dfg.nodes : ~config.universal /\ node_is_ready(m)}
                 ELSE dfg.nodes
  /\ UNCHANGED <<hlir, config, dfg, llir>>

\* MLMI_to_LLMI() of lowering.py returns: the allocator finds registers.
Lowerable(m) == needs_leq_k_registers(m.instrs, InputsToLoad(m), m.outputs, r, l_out)

\* A turn of the loop of to_LLIR: a node that is ready is lowered, or ends the
\* compiler in the ValueError of the allocator; one that is not is dropped, and
\* comes back with the next of its predecessors.
ScheduleNode ==
  /\ phase = "to_LLIR"
  /\ \E m \in to_visit :
       \/ /\ node_is_ready(m)
          /\ IF Lowerable(m)
             THEN /\ llir' = Append(llir, m)
                  /\ to_visit' = (to_visit \ {m}) \cup next_nodes(dfg, m)
                  /\ UNCHANGED phase
             ELSE phase' = "error" /\ UNCHANGED <<llir, to_visit>>
       \/ /\ ~node_is_ready(m)
          /\ to_visit' = to_visit \ {m}
          /\ UNCHANGED <<phase, llir>>
  /\ UNCHANGED <<hlir, config, dfg>>

\* "Checking that all nodes were scheduled."
CheckScheduled ==
  /\ phase = "to_LLIR"
  /\ to_visit = {}
  /\ phase' = IF dfg.nodes \subseteq Range(llir) THEN "lowered" ELSE "error"
  /\ UNCHANGED <<hlir, config, dfg, to_visit, llir>>

CNext == MergeOneOutput \/ MergeParents \/ MergeSiblings \/ NextPhase
           \/ ScheduleNode \/ CheckScheduled

CSpec == CInit /\ [][CNext]_cvars

-----------------------------------------------------------------------------
\* What check_dfg_integrity() of DFG.py asks of the graph, which no pass of
\* clusterize() calls: whatever was merged, the edges say who uses what, and
\* what a node reads is an output of the node that defines it.
Integrity ==
  \A m \in dfg.nodes :
    /\ \A v \in Range(m.inputs) \ Range(hlir.inputs) :
         /\ dfg.backward_edges[v] \in dfg.nodes
         /\ m \in next_nodes(dfg, dfg.backward_edges[v])
         /\ v \in Range(dfg.backward_edges[v].outputs)
    /\ \A u \in next_nodes(dfg, m) :
         u \in dfg.nodes /\ Range(m.outputs) \cap Range(u.inputs) # {}

\* No merge closes a cycle and none was accepted that the allocator refuses
\* later, so to_LLIR ends neither in its RuntimeError nor in a ValueError, and
\* the LLIR is the program: every instruction is in one snippet, once; every
\* snippet comes after those that compute its inputs; and the outputs of the
\* program are outputs of snippets.
LowersProgram ==
  /\ phase # "error"
  /\ phase = "lowered" =>
       /\ Len(llir) = Cardinality(dfg.nodes)
       /\ \A v \in get_defs(hlir.instrs) :
            Cardinality({x \in (DOMAIN llir) \X (1 .. s) :
                           /\ x[2] \in DOMAIN llir[x[1]].instrs
                           /\ llir[x[1]].instrs[x[2]].dst = v}) = 1
       /\ \A j \in DOMAIN llir : Range(llir[j].inputs) \subseteq
            Range(hlir.inputs) \cup UNION {Range(llir[q].outputs) : q \in 1 .. j - 1}
       /\ Range(hlir.outputs) \subseteq mem_ready

\* "takes into account the internal constraints of multi instructions (number
\* of inputs, outputs, and intermediate registers)" (basic_clusterizer.py:10):
\* the inputs, instructions and registers of what was merged fit the element,
\* and so do its outputs, with one exception.  merge_1_output_nodes does not
\* count outputs: if there are more than l_out, all but one are outputs of the
\* program that the snippet itself reads.
FitsElement ==
  \A m \in dfg.nodes : Len(m.instrs) > 1 =>
    /\ Len(m.instrs) =< s
    /\ Len(m.inputs) =< l_in
    /\ \/ Len(m.outputs) =< l_out
       \/ Cardinality(Range(m.outputs) \ (Range(hlir.outputs) \cap Reads(m.instrs))) =< 1
    /\ needs_leq_k_registers(m.instrs, m.inputs, m.outputs, r, l_out)

=============================================================================

--------------------------------- MODULE DFG ---------------------------------
(***************************************************************************)
(* The data-flow graph of DFG.py.  A node is an MLMI; a graph is a record  *)
(* of its nodes, forward_edges (node to the nodes that use its outputs)    *)
(* and backward_edges (variable to the node that defines it).  Only the    *)
(* inputs and outputs of the program are needed besides.                   *)
(***************************************************************************)
EXTENDS MLIR, SequencesExt

\* Every node of the initial graph is one instruction; hlir.instrs is in SSA.
build_graph(hlir) ==
  LET instrs == {FromHLI(hlir.instrs[j]) : j \in DOMAIN hlir.instrs}
      back   == [v \in get_defs(hlir.instrs) |->
                   CHOOSE m \in instrs : v \in get_defs(m.instrs)]
  IN [nodes          |-> instrs,
      backward_edges |-> back,
      forward_edges  |->
        [m \in instrs |-> {u \in instrs : \E v \in get_used(u.instrs) :
                             v \notin Range(hlir.inputs) /\ back[v] = m}]]

next_nodes(g, m) == g.forward_edges[m]

prev_nodes(g, m) ==
  {g.backward_edges[v] : v \in Range(m.inputs) \cap DOMAIN g.backward_edges}

\* Some path leads from a node of S to m: every set of nodes that holds S and
\* all successors of its members holds m.
Leads(g, S, m) ==
  \A C \in SUBSET g.nodes :
    S \subseteq C /\ (\A u \in C : next_nodes(g, u) \subseteq C) => m \in C

check_domination_for_merge(g, n1, n2) ==
  /\ ~Leads(g, next_nodes(g, n1) \ {n2}, n2)
  /\ ~Leads(g, next_nodes(g, n2) \ {n1}, n1)

compute_merged_inputs(n1, n2) ==
  SetToSeq((Range(n1.inputs) \cup Range(n2.inputs))
             \ (Range(n1.outputs) \cup Range(n2.outputs)))

\* Mutant: what the other node reads is never an output, others or not.
StillOutputs_NoOthers(g, outs, first, second) ==
  {v \in Range(first.outputs) :
     v \notin Range(second.inputs) \/ v \in Range(outs)}

\* Mutant: forgets that the program may want a variable nobody else reads.
StillOutputs_NotProgram(g, outs, first, second) ==
  {v \in Range(first.outputs) :
     \/ v \notin Range(second.inputs)
     \/ \E u \in next_nodes(g, first) \ {second} : v \in Range(u.inputs)}

\* Every output stays one unless the other node alone reads it.
StillOutputs(g, outs, first, second) ==
  {v \in Range(first.outputs) :
     \/ v \notin Range(second.inputs)
     \/ v \in Range(outs)
     \/ \E u \in next_nodes(g, first) \ {second} : v \in Range(u.inputs)}

compute_merged_outputs(g, outs, n1, n2) ==
  SetToSeq(StillOutputs(g, outs, n1, n2) \cup StillOutputs(g, outs, n2, n1))

\* The orders that the loop over the set to_schedule can produce: any in which
\* variables are defined before they are read.
compute_merged_instrs(n1, n2, merged_inputs) ==
  {q \in SetToSeqs(Range(n1.instrs) \cup Range(n2.instrs)) :
     \A j \in DOMAIN q : mem_inputs(q[j]) \subseteq
       Range(merged_inputs) \cup get_defs(SubSeq(q, 1, j - 1))}

\* The edges of another node m: those to the old nodes are discarded and one
\* to the new one is added if m defines what the new node uses.
Redirected(g, prog_inputs, n1, n2, new, m) ==
  LET uses == \E v \in get_used(new.instrs) \ prog_inputs : g.backward_edges[v] = m
  IN IF uses THEN (g.forward_edges[m] \ {n1, n2}) \cup {new} ELSE g.forward_edges[m]

merge_nodes(g, hlir, n1, n2, seq) ==
  LET new == [instrs  |-> seq,
              inputs  |-> compute_merged_inputs(n1, n2),
              outputs |-> compute_merged_outputs(g, hlir.outputs, n1, n2)]
      rest == g.nodes \ {n1, n2}
  IN [nodes          |-> rest \cup {new},
      backward_edges |-> [v \in DOMAIN g.backward_edges |->
                            IF v \in get_defs(seq) THEN new ELSE g.backward_edges[v]],
      forward_edges  |-> [m \in rest \cup {new} |->
                            IF m = new
                            THEN (g.forward_edges[n1] \cup g.forward_edges[n2]) \ {n1, n2}
                            ELSE Redirected(g, Range(hlir.inputs), n1, n2, new, m)]]
=============================================================================

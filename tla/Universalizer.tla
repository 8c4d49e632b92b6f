---------------------------- MODULE Universalizer ----------------------------
(***************************************************************************)
(* universalize() of universalizer.py and rectangularize(): the clustered  *)
(* graph is cut into layers, variables are copied from layer to layer so   *)
(* that no edge skips one, every layer gets the same number of MLMIs and   *)
(* every MLMI the same number of inputs and outputs, and a routing network *)
(* (module Routing) is put between any two layers.                         *)
(*                                                                         *)
(* From here on two MLMIs may be equal, empty ones for example, so they    *)
(* are numbered: u.node is the sequence of all MLMIs, a layer is a         *)
(* sequence of their numbers.  Layers are counted from 1 here and from 0   *)
(* in the code.  Variables are numbers, and a MOV of the immediate 0 has   *)
(* no source.                                                              *)
(***************************************************************************)
EXTENDS Clusterizer

CONSTANTS
  Network(_, _, _),  \* the rows that module Routing makes of [f, m, le]
  Pick(_)            \* bound: the values of a set that random.choice() and
                     \* set.pop() are tried with

\* The assert of universalize().  What it is meant to say: 2**math.log2(n) == n
\* also holds for many n that are no power of two.
ASSUME PowerAssumption == l_in = l_out /\ \E e \in 0 .. l_in : l_in = 2 ^ e

VARIABLES
  u,     \* the graph: [node, forward_edges, backward_edges, memory_count,
         \* prog_outputs, layers, alternative_defs]
  at,    \* the layer to work on next
  to_take_as_inputs,  \* in propagate_outputs_to_last_layer: the outputs of
                      \* the program that the layer before defines
  net    \* in add_permutation: the network between two layers, its rows left
         \* to apply, and what is on its wires

uvars == <<hlir, config, phase, dfg, to_visit, llir, u, at, to_take_as_inputs, net>>

NoGraph == [node |-> <<>>, layers |-> <<>>]
NoNet == <<>>

UInit == CInit /\ u = NoGraph /\ at = 0 /\ to_take_as_inputs = {} /\ net = NoNet

-----------------------------------------------------------------------------
prog_inputs == Range(hlir.inputs)

MOV(dst, src) == [dst |-> dst, src |-> <<src>>]
MOV0(dst) == [dst |-> dst, src |-> <<>>]

EmptyMLMI == [instrs |-> <<>>, inputs |-> <<>>, outputs |-> <<>>]

\* dict.get(v, v).
Get(sub, v) == IF v \in DOMAIN sub THEN sub[v] ELSE v
GetAll(sub, sq) == [j \in DOMAIN sq |-> Get(sub, sq[j])]

\* The sources of all instructions, renamed.
Rename(instrs, sub) ==
  [j \in DOMAIN instrs |-> [instrs[j] EXCEPT !.src = GetAll(sub, @)]]

RenameNode(nd, sub) ==
  [nd EXCEPT !.inputs = GetAll(sub, @), !.instrs = Rename(@, sub)]

\* dfg.nodes.add(MLMI(MLS([]), [], [])), in layer k.
AddNode(g, k) ==
  [g EXCEPT !.node = Append(@, EmptyMLMI),
            !.forward_edges = Append(@, {}),
            !.layers[k] = Append(@, Len(g.node) + 1)]

AddEdge(g, i, j) == [g EXCEPT !.forward_edges[i] = @ \cup {j}]

\* MLMI i computes a new variable, the next one, with instruction instr.
Define(g, i, instrs) ==
  [g EXCEPT !.node[i].instrs = instrs,
            !.node[i].outputs = Append(@, g.memory_count),
            !.backward_edges = @ @@ (g.memory_count :> i),
            !.memory_count = @ + 1]

-----------------------------------------------------------------------------
\* layerize(): a node comes one layer after the last of its predecessors.  The
\* order inside a layer is that in which sets were iterated.
Layerize ==
  /\ phase = "layerize"
  /\ LET layer[m \in dfg.nodes] ==
           LET prevs == prev_nodes(dfg, m)
           IN  IF prevs = {} THEN 1 ELSE 1 + Max({layer[p] : p \in prevs})
         last == Max({layer[m] : m \in dfg.nodes})
     IN
     \E q \in SetToSeqs(dfg.nodes) :
       /\ \A i \in 1 .. Len(q) - 1 : layer[q[i]] =< layer[q[i + 1]]
       /\ LET ids == [i \in DOMAIN q |-> i]
              Id(m) == CHOOSE i \in DOMAIN q : q[i] = m
              layers == [k \in 1 .. last |-> SelectSeq(ids, LAMBDA i : layer[q[i]] = k)]
          IN
          /\ u' = [node |-> q,
                   forward_edges |-> [i \in DOMAIN q |-> {Id(m) : m \in next_nodes(dfg, q[i])}],
                   backward_edges |-> [v \in DOMAIN dfg.backward_edges |->
                                         Id(dfg.backward_edges[v])],
                   memory_count |-> 1 + Max(prog_inputs \cup DOMAIN dfg.backward_edges),
                   prog_outputs |-> hlir.outputs,
                   layers |-> layers,
                   alternative_defs |-> <<>>]
          /\ at' = last
  /\ phase' = "segregate"
  /\ UNCHANGED <<hlir, config, dfg, to_visit, llir, to_take_as_inputs, net>>

-----------------------------------------------------------------------------
(***************************************************************************)
(* segregate_layers().                                                     *)
(***************************************************************************)
LayerOf(g, i) == CHOOSE k \in DOMAIN g.layers : i \in Range(g.layers[k])

\* The layer that defines v, and the node (def_point; 0 is None).
DefPoint(g, v) == IF v \in prog_inputs THEN 0 ELSE g.backward_edges[v]
DefLayer(g, v) == IF v \in prog_inputs THEN 0 ELSE LayerOf(g, g.backward_edges[v])

Shares(g, i, j) == Range(g.node[i].outputs) \cap Range(g.node[j].inputs) # {}

\* Mutant: the edge stays.
remove_forward_edge_if_needed_Never(g, i, j) == g

remove_forward_edge_if_needed(g, i, j) ==
  IF i = 0 \/ Shares(g, i, j) THEN g ELSE [g EXCEPT !.forward_edges[i] = @ \ {j}]

\* A node of layer k that can return a copy of m: the first that reads m
\* already, or else the last that has an input to spare.
Candidates(g, k, m) ==
  LET room  == SelectSeq(g.layers[k], LAMBDA i : /\ Len(g.node[i].outputs) < l_out
                                                 /\ Len(g.node[i].instrs) < s)
      has   == SelectSeq(room, LAMBDA i : m \in Range(g.node[i].inputs))
      spare == SelectSeq(room, LAMBDA i : Len(g.node[i].inputs) < l_in)
  IN  IF has # <<>> THEN {Head(has)} ELSE IF spare # <<>> THEN {Last(spare)} ELSE {}

\* Mutant: the MOV is put last.
make_alternative_Last(g, m, i, k) ==
  LET new  == m \notin Range(g.node[i].inputs)
      h    == Define(g, i, Append(g.node[i].instrs, MOV(g.memory_count, m)))
      read == IF new THEN [h EXCEPT !.node[i].inputs = Append(@, m)] ELSE h
      edge == IF new /\ m \notin prog_inputs THEN AddEdge(read, DefPoint(g, m), i) ELSE read
  IN  [edge EXCEPT !.alternative_defs = @ @@ (<<m, k>> :> g.memory_count)]

\* The MOV is put first, so that it does not keep the input alive.
make_alternative(g, m, i, k) ==
  LET new  == m \notin Range(g.node[i].inputs)
      h    == Define(g, i, <<MOV(g.memory_count, m)>> \o g.node[i].instrs)
      read == IF new THEN [h EXCEPT !.node[i].inputs = Append(@, m)] ELSE h
      edge == IF new /\ m \notin prog_inputs THEN AddEdge(read, DefPoint(g, m), i) ELSE read
  IN  [edge EXCEPT !.alternative_defs = @ @@ (<<m, k>> :> g.memory_count)]

\* Mutant: the instructions still read m.
ReadInstead_InputsOnly(g, i, j, m, alt) ==
  remove_forward_edge_if_needed(
    AddEdge([g EXCEPT !.node[j].inputs = GetAll(m :> alt, @)], i, j), DefPoint(g, m), j)

\* Node j reads alt, an output of node i, instead of m.
ReadInstead(g, i, j, m, alt) ==
  remove_forward_edge_if_needed(
    AddEdge([g EXCEPT !.node[j] = RenameNode(@, m :> alt)], i, j), DefPoint(g, m), j)

break_edge(g, j, k, m) ==
  IF <<m, k>> \in DOMAIN g.alternative_defs
  THEN LET alt == g.alternative_defs[<<m, k>>]
       IN  ReadInstead(g, g.backward_edges[alt], j, m, alt)
  ELSE LET found == Candidates(g, k, m)
           h == IF found # {} THEN g ELSE AddNode(g, k)
           i == IF found # {} THEN CHOOSE x \in found : TRUE ELSE Len(h.node)
           read == ReadInstead(make_alternative(h, m, i, k), i, j, m, h.memory_count)
       IN  IF DefPoint(g, m) = 0 THEN read ELSE AddEdge(read, DefPoint(g, m), i)

\* Mutant: inputs of the program are read where they are wanted.
SegregateNode_Variables(g, j, k) ==
  FoldLeft(LAMBDA h, m : IF DefLayer(h, m) \in {0, k - 1} THEN h ELSE break_edge(h, j, k - 1, m),
           g, g.node[j].inputs)

\* Every input that the layer before does not define is taken from a copy
\* there.  The inputs are those that the node had when the loop came to it.
SegregateNode(g, j, k) ==
  FoldLeft(LAMBDA h, m : IF DefLayer(h, m) = k - 1 THEN h ELSE break_edge(h, j, k - 1, m),
           g, g.node[j].inputs)

\* From the last layer to the second; in the first there is nothing to do.
SegregateLayer ==
  /\ phase = "segregate"
  /\ IF at = 1 THEN phase' = "pad" /\ UNCHANGED <<u, at>>
     ELSE /\ u' = FoldLeft(LAMBDA g, j : SegregateNode(g, j, at), u, u.layers[at])
          /\ at' = at - 1
          /\ UNCHANGED phase
  /\ UNCHANGED <<hlir, config, dfg, to_visit, llir, to_take_as_inputs, net>>

-----------------------------------------------------------------------------
\* add_depth_padding(): -depth asks for more layers than there are.
AddDepthPadding ==
  /\ phase = "pad"
  /\ u' = FoldLeft(LAMBDA g, k : AddNode([g EXCEPT !.layers = Append(@, <<>>)], k),
                   u, [j \in 1 .. config.depth - Len(u.layers) |-> Len(u.layers) + j])
  /\ phase' = "mask"
  /\ UNCHANGED <<hlir, config, dfg, to_visit, llir, at, to_take_as_inputs, net>>

\* A copy of m in the last node of the first layer, or in a new one.
MaskInput(g, m) ==
  LET full == g.layers[1] = <<>> \/ Len(g.node[Last(g.layers[1])].inputs) = l_in
      h == IF full THEN AddNode(g, 1) ELSE g
      i == Last(h.layers[1])
  IN  [Define(h, i, Append(h.node[i].instrs, MOV(h.memory_count, m)))
         EXCEPT !.node[i].inputs = Append(@, m)]

\* Zeros until the first node has all its outputs.
FillFirst(g) ==
  LET i == Head(g.layers[1]) IN
  FoldLeft(LAMBDA h, x : Define(h, i, Append(h.node[i].instrs, MOV0(h.memory_count))),
           g, [x \in 1 .. l_out - Len(g.node[i].outputs) |-> x])

\* The nodes there were before read the copies: sub is old_to_new_inputs.
ReadMasked(g, old, sub) ==
  [g EXCEPT !.prog_outputs = GetAll(sub, @),
            !.node = [j \in DOMAIN @ |-> IF j \in old THEN RenameNode(@[j], sub) ELSE @[j]],
            !.forward_edges = [i \in DOMAIN @ |-> @[i] \cup
               {j \in old : \E m \in DOMAIN sub :
                              m \in Range(g.node[j].inputs) /\ g.backward_edges[sub[m]] = i}]]

\* add_input_masking_layer(): a first layer that copies the inputs.  Without
\* inputs the layer is empty, and its first node is an IndexError.
AddInputMaskingLayer ==
  /\ phase = "mask"
  /\ IF prog_inputs = {} THEN phase' = "error" /\ UNCHANGED <<u, at>>
     ELSE /\ \E q \in SetToSeqs(prog_inputs) :
               LET g == FoldLeft(MaskInput, [u EXCEPT !.layers = <<<<>>>> \o @], q)
                   sub == [m \in prog_inputs |->
                             u.memory_count - 1 + CHOOSE j \in DOMAIN q : q[j] = m]
               IN  u' = ReadMasked(FillFirst(g), DOMAIN u.node, sub)
          /\ phase' = "propagate"
          /\ at' = 1
  /\ UNCHANGED <<hlir, config, dfg, to_visit, llir, to_take_as_inputs, net>>

-----------------------------------------------------------------------------
(***************************************************************************)
(* propagate_outputs_to_last_layer().                                      *)
(***************************************************************************)
\* add_input_output_to_node(): m becomes an input even if it is one already.
add_input_output_to_node(g, m, i) ==
  AddEdge([Define(g, i, Append(g.node[i].instrs, MOV(g.memory_count, m)))
             EXCEPT !.node[i].inputs = Append(@, m)],
          g.backward_edges[m], i)

HasRoom(nd) == Len(nd.inputs) < l_in /\ Len(nd.outputs) < l_out /\ Len(nd.instrs) < s

\* The first node of layer k with room for a copy of m, or a new one.
TakeInput(g, m, k) ==
  LET room == SelectSeq(g.layers[k], LAMBDA i : HasRoom(g.node[i]))
      h == IF room = <<>> THEN AddNode(g, k) ELSE g
  IN  add_input_output_to_node(h, m, IF room = <<>> THEN Len(h.node) ELSE Head(room))

OutputsOf(g, k) == UNION {Range(g.node[i].outputs) : i \in Range(g.layers[k])}

\* Mutant: the outputs of the program stay what they were.
Propagated_SameOutputs(g, k, q) ==
  FoldLeft(LAMBDA acc, m : TakeInput(acc, m, k), g, q)

\* The copies of to_take_as_inputs in layer k, taken in the order of q.
Propagated(g, k, q) ==
  LET h == FoldLeft(LAMBDA acc, m : TakeInput(acc, m, k), g, q)
      new_outputs == [m \in Range(q) |-> g.memory_count - 1 + CHOOSE j \in DOMAIN q : q[j] = m]
  IN  [h EXCEPT !.prog_outputs = GetAll(new_outputs, @)]

PropagateOutputs ==
  /\ phase = "propagate"
  /\ at =< Len(u.layers)
  /\ \E q \in SetToSeqs(to_take_as_inputs) : u' = Propagated(u, at, q)
  /\ to_take_as_inputs' = OutputsOf(u', at) \cap Range(u'.prog_outputs)
  /\ at' = at + 1
  /\ UNCHANGED <<hlir, config, phase, dfg, to_visit, llir, net>>

\* The final layer, which reveals the outputs, is filled in the same way.
AddFinalLayer ==
  /\ phase = "propagate"
  /\ at > Len(u.layers)
  /\ \E q \in SetToSeqs(to_take_as_inputs) :
       u' = Propagated([u EXCEPT !.layers = Append(@, <<>>)], at, q)
  /\ to_take_as_inputs' = {}
  /\ phase' = "equalize"
  /\ UNCHANGED <<hlir, config, dfg, to_visit, llir, at, net>>

-----------------------------------------------------------------------------
Inner == 2 .. Len(u.layers) - 1

\* equalize_layers(): empty nodes until every inner layer has the width of the
\* widest, or that of -width if it is larger.
EqualizeLayers ==
  /\ phase = "equalize"
  /\ LET width == Max({config.width} \cup {Len(u.layers[k]) : k \in Inner})
         Widened(g, k) == FoldLeft(LAMBDA h, x : AddNode(h, k), g,
                                   [x \in 1 .. width - Len(g.layers[k]) |-> x])
     IN  u' = FoldLeft(Widened, u, [j \in 1 .. Len(u.layers) - 2 |-> j + 1])
  /\ phase' = "match"
  /\ at' = 2
  /\ UNCHANGED <<hlir, config, dfg, to_visit, llir, to_take_as_inputs, net>>

\* The nodes of the layer that match_layers_inputs_outputs still works on.
LackInputs == SelectSeq(u.layers[at], LAMBDA i : Len(u.node[i].inputs) # l_in)
LackOutputs == SelectSeq(u.layers[at], LAMBDA i : Len(u.node[i].outputs) # l_out)

\* An input is any output of the layer before that the node does not read yet.
MatchInput ==
  /\ phase = "match" /\ at \in Inner
  /\ LackInputs # <<>>
  /\ LET i == Head(LackInputs) IN
     \E m \in Pick(OutputsOf(u, at - 1) \ Range(u.node[i].inputs)) :
       u' = AddEdge([u EXCEPT !.node[i].inputs = Append(@, m)], u.backward_edges[m], i)
  /\ UNCHANGED <<hlir, config, phase, dfg, to_visit, llir, at, to_take_as_inputs, net>>

\* An output is any variable of the node that is none yet, or else a zero.
MatchOutput ==
  /\ phase = "match" /\ at \in Inner
  /\ LackInputs = <<>> /\ LackOutputs # <<>>
  /\ LET i == Head(LackOutputs)
         possible_returns == get_defs(u.node[i].instrs) \ Range(u.node[i].outputs)
     IN  \/ \E m \in Pick(possible_returns) :
              u' = [u EXCEPT !.node[i].outputs = Append(@, m), !.backward_edges[m] = i]
         \/ /\ possible_returns = {}
            /\ u' = Define(u, i, Append(u.node[i].instrs, MOV0(u.memory_count)))
  /\ UNCHANGED <<hlir, config, phase, dfg, to_visit, llir, at, to_take_as_inputs, net>>

MatchNextLayer ==
  /\ phase = "match"
  /\ at \in Inner => LackInputs = <<>> /\ LackOutputs = <<>>
  /\ IF at \in Inner THEN at' = at + 1 /\ UNCHANGED phase
     ELSE at' = 1 /\ phase' = "permute"
  /\ UNCHANGED <<hlir, config, dfg, to_visit, llir, u, to_take_as_inputs, net>>

-----------------------------------------------------------------------------
(***************************************************************************)
(* add_permutation().  Wires are numbered from 0; a wire holds a variable  *)
(* or, if it is padding, the immediate 0.                                  *)
(***************************************************************************)
Imm0 == 0
IsMem(w) == w # Imm0
le == CHOOSE e \in 0 .. l_in : 2 ^ e = l_in

\* Mutant: the MLMI takes no wire that it does not pass on.
PermInputs_Used(wires, off, p) ==
  SelectSeq([x \in 1 .. Cardinality(DOMAIN p) |->
               IF x - 1 \in Range(p) THEN wires[off + x - 1] ELSE Imm0], IsMem)

\* The variables on the wires that an MLMI moves, whether it passes them on or not.
PermInputs(wires, off, p) ==
  SelectSeq([x \in 1 .. Cardinality(DOMAIN p) |-> wires[off + x - 1]], IsMem)

\* One MLMI of a secret row: it moves the wires from off on, x taking p[x].
apply_secret_perm(c, off, p) ==
  LET i    == Len(c.g.node) + 1
      size == Cardinality(DOMAIN p)
      out(x) == c.g.memory_count + x
      src(x) == c.wires[off + p[x]]
      nd == [inputs  |-> PermInputs(c.wires, off, p),
             outputs |-> [x \in 1 .. size |-> out(x - 1)],
             instrs  |-> [x \in 1 .. size |-> IF IsMem(src(x - 1)) THEN MOV(out(x - 1), src(x - 1))
                                              ELSE MOV0(out(x - 1))]]
      g  == [c.g EXCEPT !.node = Append(@, nd),
                        !.forward_edges = Append(@, {}),
                        !.backward_edges = @ @@ [v \in Range(nd.outputs) |-> i],
                        !.memory_count = @ + size]
      Moved(f, new(_)) == [w \in DOMAIN f |-> IF w - off \in DOMAIN p THEN new(w - off) ELSE f[w]]
  IN  [g |-> FoldLeft(LAMBDA h, m : AddEdge(h, h.backward_edges[m], i), g, nd.inputs),
       wires   |-> Moved(c.wires, out),
       checker |-> Moved(c.checker, LAMBDA x : c.checker[off + p[x]])]

\* What goes into the network behind layer k, in order.
NetInputs(k) == FlattenSeq([x \in DOMAIN u.layers[k] |-> u.node[u.layers[k][x]].outputs])

\* Between layers at and at + 1: the edges are dropped, and a network is to
\* take the outputs of the one to the inputs of the other.
StartPermutation ==
  /\ phase = "permute"
  /\ at < Len(u.layers) /\ net = NoNet
  /\ LET before  == u.layers[at]
         after   == u.layers[at + 1]
         inputs  == NetInputs(at)
         outputs == FlattenSeq([x \in DOMAIN after |-> u.node[after[x]].inputs])
         size == Max({Len(inputs), Len(outputs)})
         m  == CHOOSE e \in 0 .. size : 2 ^ e >= size /\ \A d \in 0 .. e - 1 : 2 ^ d < size
         W  == 0 .. 2 ^ m - 1
         inputs_pos(v) == (CHOOSE x \in DOMAIN inputs : inputs[x] = v) - 1
         perm_outputs == [w \in W |-> IF w < Len(outputs) THEN inputs_pos(outputs[w + 1]) ELSE 0]
     IN  /\ u' = [u EXCEPT !.forward_edges =
                    [i \in DOMAIN @ |-> IF i \in Range(before) THEN {} ELSE @[i]]]
         /\ net' = [m |-> m, first |-> Len(u.node), perm_outputs |-> perm_outputs,
                    rows |-> Network(perm_outputs, m, le), checker |-> [w \in W |-> w],
                    wires |-> [w \in W |-> IF w < Len(inputs) THEN inputs[w + 1] ELSE Imm0]]
  /\ UNCHANGED <<hlir, config, phase, dfg, to_visit, llir, at, to_take_as_inputs>>

\* A row becomes wiring, or MLMIs.
ApplyRow ==
  /\ net # NoNet
  /\ net.rows # <<>>
  /\ LET rw == Head(net.rows)
         done == FoldLeft(LAMBDA c, off : apply_secret_perm(c, off, rw.parts[off]),
                          [g |-> u, wires |-> net.wires, checker |-> net.checker],
                          SetToSortSeq(DOMAIN rw.parts, <))
         rest == [net EXCEPT !.rows = Tail(@)]
     IN  \/ /\ rw.kind = "public"
            /\ net' = [rest EXCEPT !.wires = [w \in DOMAIN @ |-> @[rw.perm[w]]],
                                   !.checker = [w \in DOMAIN @ |-> @[rw.perm[w]]]]
            /\ UNCHANGED u
         \/ /\ rw.kind = "secret"
            /\ u' = done.g
            /\ net' = [rest EXCEPT !.wires = done.wires, !.checker = done.checker]
  /\ UNCHANGED <<hlir, config, phase, dfg, to_visit, llir, at, to_take_as_inputs>>

\* A node takes its inputs from the wires from off on; an instruction reads
\* the last of the inputs that stood for its operand.
Rewired(g, i, wires, off) ==
  LET old == g.node[i].inputs
      new == [x \in DOMAIN old |-> wires[off + x - 1]]
      old_to_new == [m \in Range(old) |-> new[Max({x \in DOMAIN old : old[x] = m})]]
  IN  FoldLeft(LAMBDA h, m : AddEdge(h, h.backward_edges[m], i),
               [g EXCEPT !.node[i].inputs = new, !.node[i].instrs = Rename(@, old_to_new)],
               new)

\* The network is checked on the numbers of the wires ("Error in the
\* permutation."), and the next layer is connected to it.
EndPermutation ==
  /\ net # NoNet
  /\ net.rows = <<>>
  /\ phase' = IF net.checker = net.perm_outputs THEN phase ELSE "error"
  /\ u' = FoldLeft(LAMBDA d, i : [g   |-> Rewired(d.g, i, net.wires, d.off),
                                  off |-> d.off + Len(d.g.node[i].inputs)],
                   [g |-> u, off |-> 0], u.layers[at + 1]).g
  /\ at' = at + 1
  /\ net' = NoNet
  /\ UNCHANGED <<hlir, config, dfg, to_visit, llir, to_take_as_inputs>>

\* check_dfg_integrity(), which leaves the edges of a node unchecked if the
\* node reads inputs of the program only.
check_dfg_integrity(g) ==
  \A j \in DOMAIN g.node : \A m \in Range(g.node[j].inputs) \ prog_inputs :
    /\ m \in DOMAIN g.backward_edges
    /\ j \in g.forward_edges[g.backward_edges[m]]
    /\ \A i \in g.forward_edges[j] : Shares(g, j, i)

CheckIntegrity ==
  /\ phase = "permute"
  /\ at = Len(u.layers) /\ net = NoNet
  /\ phase' = IF check_dfg_integrity(u) THEN "universalized" ELSE "error"
  /\ UNCHANGED <<hlir, config, dfg, to_visit, llir, u, at, to_take_as_inputs, net>>

UStep == Layerize \/ SegregateLayer \/ AddDepthPadding \/ AddInputMaskingLayer
           \/ PropagateOutputs \/ AddFinalLayer \/ EqualizeLayers \/ MatchInput \/ MatchOutput
           \/ MatchNextLayer \/ StartPermutation \/ ApplyRow \/ EndPermutation
           \/ CheckIntegrity

ClusterStep == CNext /\ UNCHANGED <<u, at, to_take_as_inputs, net>>

UNext == UStep \/ ClusterStep

UniversalizerPhases ==
  {"layerize", "segregate", "pad", "mask", "propagate", "equalize", "match", "permute",
   "universalized"}

Ended == phase \in {"lowered", "universalized", "error"}
Universalizes == phase \in UniversalizerPhases \ {"universalized"}

\* The compiler, one thread, goes on until it has ended.  The last conjunct is
\* weak fairness of UStep, whose steps all change something and one of which is
\* enabled wherever Universalizes holds: the deadlock check shows that.
USpec == UInit /\ [][UNext \/ (Ended /\ UNCHANGED uvars)]_uvars
               /\ WF_uvars(ClusterStep)
               /\ ([]<>~Universalizes \/ []<><<UStep>>_uvars)

-----------------------------------------------------------------------------
Universalizing == u # NoGraph

\* What a variable stands for: a variable of the program, itself; a copy, what
\* it was copied from.
RECURSIVE Original(_, _)
Original(g, v) ==
  IF v \in prog_inputs \cup get_defs(hlir.instrs) THEN v
  ELSE LET instrs == g.node[g.backward_edges[v]].instrs
           src == instrs[CHOOSE q \in DOMAIN instrs : instrs[q].dst = v].src
       IN  IF src = <<>> THEN Imm0 ELSE Original(g, src[1])

Originals(g, sq) == [j \in DOMAIN sq |-> Original(g, sq[j])]

\* However variables are copied and renamed, the graph computes the program:
\* every instruction is in one MLMI, once, and reads what it read before;
\* MLMIs read only inputs and what they have computed; and the outputs of the
\* program are copies of its outputs, in order.
KeepsMeaning ==
  Universalizing =>
    /\ \A i \in DOMAIN u.node : LET nd == u.node[i] IN
         \A q \in DOMAIN nd.instrs : mem_inputs(nd.instrs[q]) \subseteq
           Range(nd.inputs) \cup get_defs(SubSeq(nd.instrs, 1, q - 1))
    /\ \A j \in DOMAIN hlir.instrs :
         LET all == {<<i, q>> \in (DOMAIN u.node) \X (1 .. s) :
                       /\ q \in DOMAIN u.node[i].instrs
                       /\ u.node[i].instrs[q].dst = hlir.instrs[j].dst}
         IN  /\ Cardinality(all) = 1
             /\ \A e \in all :
                  Originals(u, u.node[e[1]].instrs[e[2]].src) = hlir.instrs[j].src
    /\ Originals(u, u.prog_outputs) = hlir.outputs

\* "Make sure that no edges of the DFG skip layers" (rectangularize.py:227):
\* behind the layer being worked on, MLMIs read outputs of the layer before.
NoEdgeSkips ==
  \A k \in DOMAIN u.layers :
    \/ phase = "segregate" /\ k =< at
    \/ phase = "permute" /\ k =< at
    \/ phase = "universalized"
    \/ \A i \in Range(u.layers[k]) : Range(u.node[i].inputs) \subseteq
         IF k = 1 THEN prog_inputs ELSE OutputsOf(u, k - 1)

\* The edges are who reads from whom, exactly: also those out of MLMIs that
\* read inputs of the program only, at which check_dfg_integrity() does not look.
EdgesExact ==
  phase \in {"segregate", "pad", "mask", "universalized"} =>
    \A i \in DOMAIN u.node :
      u.forward_edges[i] = {j \in DOMAIN u.node : Shares(u, i, j)}

\* "all outputs need to be defined on the last layer" (universalizer.py:141):
\* what is revealed is there, nothing else is, and nobody reads it, so that
\* the element never refuses to go on with it.
RevealedLast ==
  phase = "universalized" =>
    /\ Range(u.prog_outputs) = OutputsOf(u, Len(u.layers))
    /\ \A i \in DOMAIN u.node : Range(u.node[i].inputs) \cap Range(u.prog_outputs) = {}

\* The element runs every MLMI, and register allocation does not fail: up to
\* propagate_outputs_to_last_layer(), which does not ask ("TODO: do we need to
\* check register pressure?").
SnippetsFit ==
  Universalizing => \A i \in DOMAIN u.node : LET nd == u.node[i] IN
    /\ Len(nd.instrs) =< s /\ Len(nd.inputs) =< l_in /\ Len(nd.outputs) =< l_out
    /\ phase \in {"segregate", "pad", "mask"} =>
         needs_leq_k_registers(nd.instrs, nd.inputs, nd.outputs, r, l_out)

\* The MLMIs on either side of a network and its own MLMIs: who is on wire w
\* when rows have been applied, and who reads from whom.  New MLMIs are
\* numbered in the order in which they are made.
EdgesOfRows(rows, owners, count) ==
  LET Own(c, rw) ==
        IF rw.kind = "public"
        THEN [c EXCEPT !.own = [w \in DOMAIN @ |-> @[rw.perm[w]]]]
        ELSE LET Id(off) == c.count + Cardinality({o \in DOMAIN rw.parts : o =< off})
                 In(w) == {o \in DOMAIN rw.parts : w - o \in DOMAIN rw.parts[o]}
                 moved == {w \in DOMAIN c.own : In(w) # {}}
                 To(w) == Id(CHOOSE o \in In(w) : TRUE)
             IN  [own   |-> [w \in DOMAIN c.own |-> IF w \in moved THEN To(w) ELSE c.own[w]],
                  edges |-> c.edges \cup {<<c.own[w], To(w)>> : w \in moved},
                  count |-> c.count + Cardinality(DOMAIN rw.parts)]
  IN  FoldLeft(Own, [own |-> owners, edges |-> {}, count |-> count], rows)

\* "Make all layers the same width", "Make all MLMIs have the same number of
\* inputs/outputs", and then the networks hide where variables go: the edges
\* of a network are those of the network that routes the identity on as many
\* wires, and so is the MLMI on each of the wires that the next layer reads.
HidesDataFlow ==
  /\ phase \in {"permute", "universalized"} =>
       /\ Len(u.layers) >= config.depth + 2
       /\ \A k \in Inner :
            /\ Len(u.layers[k]) = Len(u.layers[2]) /\ Len(u.layers[k]) >= config.width
            /\ \A i \in Range(u.layers[k]) :
                 Len(u.node[i].inputs) = l_in /\ Len(u.node[i].outputs) = l_out
  /\ net # NoNet /\ net.rows = <<>> =>
       LET W == DOMAIN net.wires
           inputs == NetInputs(at)
           twin == EdgesOfRows(Network([w \in W |-> w], net.m, le),
                     [w \in W |-> IF w < Len(inputs) THEN u.backward_edges[inputs[w + 1]] ELSE 0],
                     net.first)
           nodes == Range(u.layers[at]) \cup (net.first + 1 .. Len(u.node))
       IN  /\ UNION {{<<i, j>> : j \in u.forward_edges[i]} : i \in nodes}
                = {e \in twin.edges : e[1] # 0}
           /\ \A w \in W : u.backward_edges[net.wires[w]] = twin.own[w]

RA == INSTANCE RegAlloc WITH Snippets <- {}, mi <- 0, apc <- 0, n <- 0, mem_to_reg <- 0,
                             free_registers <- 0, holds <- 0

\* "inputs will be put in the first registers" (reg_alloc.py:49): register
\* allocation does not start with the register of an input among the free ones
\* while that input is still to be read when a variable wants a register.
InputRegistersKept ==
  phase = "universalized" =>
    \A i \in DOMAIN u.node : LET nd == u.node[i] IN
      \A v \in Range(nd.inputs), q \in DOMAIN nd.instrs :
        /\ nd.instrs[q].dst \notin Range(nd.outputs)
        /\ v \in Reads(SubSeq(nd.instrs, q + 1, Len(nd.instrs)))
        => RA!InitialMap(nd)[v] \notin RA!InitialFree(nd)

\* Clusterization and universalization end.
Compiles == <>(phase \in {"lowered", "universalized"})

=============================================================================

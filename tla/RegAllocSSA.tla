----------------------------- MODULE RegAllocSSA -----------------------------
(***************************************************************************)
(* The MLMIs for which the allocation is meant: what the passes before it  *)
(* make of a program, but for the two cases that break it, an output that  *)
(* the snippet reads and an unused input before a used one.                *)
(***************************************************************************)
EXTENDS RegAlloc

Variables == Nat \ {Nobody}

UsedInputs(m) == Range(m.inputs) \cap get_used(m.instrs)

\* The variables that need a register between the inputs and the outputs.
Internal(m) == get_defs(m.instrs) \ Range(m.outputs)

\* SSA: a variable has one definition, or is an input, and comes before the
\* instructions that read it.
InSSAForm(m) ==
  /\ m.instrs \in Seq([dst : Variables, src : Seq(Variables)])
  /\ m.inputs \in Seq(Variables)
  /\ \A j, q \in DOMAIN m.instrs : m.instrs[j].dst = m.instrs[q].dst => j = q
  /\ \A j \in DOMAIN m.instrs : \A v \in mem_inputs(m.instrs[j]) :
       v \in UsedInputs(m) \/ \E q \in 1 .. j - 1 : m.instrs[q].dst = v

\* The outputs are defined in the snippet and not read there.
OutputsUnread(m) ==
  /\ m.outputs \in Seq(Variables)
  /\ IsInjective(m.outputs)
  /\ Len(m.outputs) =< l_out
  /\ Range(m.outputs) \subseteq get_defs(m.instrs) \ Reads(m.instrs)

\* No input is loaded in an output register, and where a snippet has internal
\* variables its used inputs come before the unused ones.
InputsFirst(m) ==
  /\ \A v \in UsedInputs(m) : FirstAt(m.inputs, v) =< first_output_idx
  /\ Internal(m) # {} =>
       \A v \in UsedInputs(m) : FirstAt(m.inputs, v) =< Cardinality(UsedInputs(m))

ASSUME SnippetsAssumption ==
  \A m \in Snippets : InSSAForm(m) /\ OutputsUnread(m) /\ InputsFirst(m)
=============================================================================

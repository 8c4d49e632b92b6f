-------------------------------- MODULE MLIR --------------------------------
(***************************************************************************)
(* Mid-level multi-instructions (MLMI of IR.py): straight-line code on     *)
(* variables in SSA.  What an instruction computes does not matter to the  *)
(* passes that work on MLMIs, so an instruction is its destination and the *)
(* variables it reads, in operand order; immediates are left out.          *)
(***************************************************************************)
EXTENDS Integers, Sequences, FiniteSets, Functions

mem_inputs(instr) == Range(instr.src)

get_defs(instrs) == {instrs[j].dst : j \in DOMAIN instrs}

Reads(instrs) == UNION {mem_inputs(instrs[j]) : j \in DOMAIN instrs}

\* Read by an instruction and defined by none.
get_used(instrs) == Reads(instrs) \ get_defs(instrs)

FromHLI(hli) == [instrs |-> <<hli>>, inputs |-> hli.src, outputs |-> <<hli.dst>>]

\* MLMI_to_LLMI(): an MLMI without inputs is given cell 0 to load, which none
\* of its instructions reads.  Number 0 is kept for it: the variables of the
\* instances are numbered from 1.
MemOperand0 == 0
InputsToLoad(mlmi) == IF mlmi.inputs = <<>> THEN <<MemOperand0>> ELSE mlmi.inputs

\* compute_live_intervals(): the variables read for the last time at j.
Deaths(instrs, j) ==
  {v \in mem_inputs(instrs[j]) :
     \A q \in DOMAIN instrs : q > j => v \notin mem_inputs(instrs[q])}

(***************************************************************************)
(* needs_leq_k_registers() without the allocator.  The registers below     *)
(* those of the outputs are free, but for the inputs; each death gives one *)
(* back, each birth of a variable that is no output takes one.  Module     *)
(* RegAlloc checks that the allocator fails exactly when this is false.    *)
(***************************************************************************)
needs_leq_k_registers(instrs, inputs, outputs, k, max_output_count) ==
  LET spare == k - max_output_count - Cardinality(Range(inputs) \cap get_used(instrs))
      Dead(j) == UNION {Deaths(instrs, q) : q \in 1 .. j}
      Born(j) == {instrs[q].dst : q \in 1 .. j} \ Range(outputs)
  IN
  \A j \in DOMAIN instrs :
    instrs[j].dst \notin Range(outputs) =>
      Cardinality(Born(j)) =< (IF spare > 0 THEN spare ELSE 0) + Cardinality(Dead(j))
=============================================================================

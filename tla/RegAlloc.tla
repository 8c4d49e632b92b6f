------------------------------ MODULE RegAlloc ------------------------------
(***************************************************************************)
(* Linear scan register allocation (lowering/reg_alloc.py) and the LLMI    *)
(* that MLMI_to_LLMI makes with it.  A register holds the name of the      *)
(* variable whose value is in it, and the allocation is right if everybody *)
(* finds the variable they look for.                                       *)
(***************************************************************************)
EXTENDS MLIR

CONSTANTS
  r,         \* the number of registers (-r)
  l_out,     \* the number of outputs of the element (-lout)
  Snippets   \* MLMIs: [instrs, inputs, outputs], see MLIR

ASSUME RegistersAssumption ==
  /\ l_out \in Nat \ {0}
  /\ r \in Nat
  /\ l_out =< r

VARIABLES
  mi,           \* the MLMI
  apc,          \* "alloc", "not_enough", "run" or "done"
  n,            \* the instruction to look at next, from 1
  mem_to_reg,   \* the registers assigned so far
  free_registers,
  holds         \* while the LLMI runs: the variable in each register

avars == <<mi, apc, n, mem_to_reg, free_registers, holds>>

\* What a register holds that no instruction looks for: an old value, or cell 0
\* when it is loaded for want of an input.
Nobody == MemOperand0

-----------------------------------------------------------------------------
first_output_idx == r - l_out

FirstAt(sq, v) ==
  CHOOSE j \in DOMAIN sq : sq[j] = v /\ \A q \in DOMAIN sq : sq[q] = v => j =< q

LastAt(sq, v) ==
  CHOOSE j \in DOMAIN sq : sq[j] = v /\ \A q \in DOMAIN sq : sq[q] = v => q =< j

\* Inputs that are used go to the first registers, outputs to the last ones.
InitialMap(m) ==
  [v \in (Range(m.inputs) \cap get_used(m.instrs)) \cup Range(m.outputs) |->
     IF v \in Range(m.outputs) THEN first_output_idx + LastAt(m.outputs, v) - 1
     ELSE FirstAt(m.inputs, v) - 1]

\* Mutant: the registers of the outputs are free too.
InitialFree_Outputs(m) == Cardinality(Range(m.inputs) \cap get_used(m.instrs)) .. r - 1

InitialFree(m) ==
  Cardinality(Range(m.inputs) \cap get_used(m.instrs)) .. first_output_idx - 1

AInit ==
  /\ mi \in Snippets
  /\ apc = "alloc"
  /\ n = 1
  /\ mem_to_reg = InitialMap(mi)
  /\ free_registers = InitialFree(mi)
  /\ holds = [x \in 0 .. r - 1 |-> Nobody]

-----------------------------------------------------------------------------
\* Mutants: a register is freed at the first use already; it is never freed.
Freed_FirstUse == {mem_to_reg[v] : v \in mem_inputs(mi.instrs[n])}
Freed_Never == {}

\* The registers of the variables that die at instruction n.
Freed == {mem_to_reg[v] : v \in Deaths(mi.instrs, n)}

\* One turn of the loop of get_registers_mapping.  set.pop() may give any of
\* the free registers.
Allocate ==
  LET dst  == mi.instrs[n].dst
      free == free_registers \cup Freed
  IN
  /\ apc = "alloc"
  /\ n =< Len(mi.instrs)
  /\ \/ /\ dst \in DOMAIN mem_to_reg
        /\ free_registers' = free
        /\ n' = n + 1
        /\ UNCHANGED <<apc, mem_to_reg>>
     \/ /\ dst \notin DOMAIN mem_to_reg
        /\ free = {}
        /\ apc' = "not_enough"
        /\ UNCHANGED <<n, mem_to_reg, free_registers>>
     \/ /\ dst \notin DOMAIN mem_to_reg
        /\ \E x \in free :
             /\ mem_to_reg' = [v \in DOMAIN mem_to_reg \cup {dst} |->
                                 IF v = dst THEN x ELSE mem_to_reg[v]]
             /\ free_registers' = free \ {x}
        /\ n' = n + 1
        /\ UNCHANGED apc
  /\ UNCHANGED <<mi, holds>>

\* MLMI_to_LLMI is done; the element loads the inputs, all of them, in the
\* first registers, or cell 0 if there are none.
Convert ==
  /\ apc = "alloc"
  /\ n > Len(mi.instrs)
  /\ apc' = "run"
  /\ n' = 1
  /\ holds' = [x \in 0 .. r - 1 |->
                 IF x < Len(InputsToLoad(mi)) THEN InputsToLoad(mi)[x + 1] ELSE Nobody]
  /\ UNCHANGED <<mi, mem_to_reg, free_registers>>

\* The registers hold what the snippet means them to: what is read, where it
\* is read.
ReadsOwn(v) == holds[mem_to_reg[v]] = v

\* One LLI: the destination register gets the value of the destination, or a
\* wrong value if an operand was not there.
Run ==
  LET dst == mi.instrs[n].dst IN
  /\ apc = "run"
  /\ n =< Len(mi.instrs)
  /\ holds' = [holds EXCEPT ![mem_to_reg[dst]] =
                 IF \A v \in mem_inputs(mi.instrs[n]) : ReadsOwn(v) THEN dst ELSE Nobody]
  /\ n' = n + 1
  /\ UNCHANGED <<mi, apc, mem_to_reg, free_registers>>

Return ==
  /\ apc = "run"
  /\ n > Len(mi.instrs)
  /\ apc' = "done"
  /\ UNCHANGED <<mi, n, mem_to_reg, free_registers, holds>>

ANext == Allocate \/ Convert \/ Run \/ Return

ASpec == AInit /\ [][ANext]_avars

-----------------------------------------------------------------------------
\* Every operand is where the LLI looks for it: no variable that is still
\* going to be read shares its register with one computed in between.
OperandsInPlace ==
  apc = "run" /\ n =< Len(mi.instrs) =>
    \A v \in mem_inputs(mi.instrs[n]) : ReadsOwn(v)

\* "outputs in the last registers" (reg_alloc.py): when the snippet ends, the
\* output registers hold the outputs, in order.
OutputsInPlace ==
  apc = "done" =>
    \A j \in DOMAIN mi.outputs : holds[first_output_idx + j - 1] = mi.outputs[j]

\* The allocator raises not_enough_register_msg exactly when the count of
\* births and deaths says so, whichever registers set.pop() hands out: what
\* the clusterizer finds out with one call holds for the next one too.
RefusesByCount ==
  /\ apc = "not_enough" =>
       ~needs_leq_k_registers(mi.instrs, mi.inputs, mi.outputs, r, l_out)
  /\ apc \in {"run", "done"} =>
       needs_leq_k_registers(mi.instrs, mi.inputs, mi.outputs, r, l_out)
=============================================================================

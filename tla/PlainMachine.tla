---------------------------- MODULE PlainMachine ----------------------------
(***************************************************************************)
(* What compiled programs promise: running one on the host and the secure  *)
(* element is running it on a plain machine, with words in the cells and   *)
(* no cryptography at all.  The machine never rejects anything; it can     *)
(* only be stopped by an instruction that traps.                           *)
(***************************************************************************)
EXTENDS LLIR

CONSTANT Programs

VARIABLES
  prog,    \* the program
  ppc,     \* "idle", "given", "eval", "lls", "done", "trap" or "bad_args"
  inps,    \* the program's inputs
  mem,     \* the word in each cell, or Uninit
  i,       \* the LLMI to run next
  reg, k,  \* its registers, and the next of its instructions
  outs     \* the program's outputs

pvars == <<prog, ppc, inps, mem, i, reg, k, outs>>

NoRegs == [n \in Regs |-> Uninit]
NoWords == [c \in Cells |-> Uninit]

PInit ==
  /\ prog \in Programs
  /\ ppc = "idle" /\ inps = <<>> /\ mem = NoWords /\ i = 1
  /\ reg = NoRegs /\ k = 1 /\ outs = <<>>

MI == prog.instrs[i]

\* A run of the program, on any inputs.
PInvoke ==
  /\ ppc \in {"idle", "done", "trap", "bad_args"}
  /\ inps' \in Seq(Words)
  /\ ppc' = "given" /\ mem' = NoWords /\ i' = 1
  /\ reg' = NoRegs /\ k' = 1 /\ outs' = <<>>
  /\ UNCHANGED prog

\* A command line that does not fit the program is refused.
PRefuse ==
  /\ ppc = "given"
  /\ ppc' = "bad_args"
  /\ UNCHANGED <<prog, inps, mem, i, reg, k, outs>>

PStart ==
  /\ ppc = "given"
  /\ Len(inps) = Len(prog.inputs)
  /\ mem' = [c \in Cells |->
               IF c \in RangeOf(prog.inputs)
               THEN inps[LastPos(prog.inputs, c)]
               ELSE mem[c]]
  /\ ppc' = "eval"
  /\ UNCHANGED <<prog, inps, i, reg, k, outs>>

\* An LLMI loads its inputs, ...
PLoad ==
  /\ ppc = "eval"
  /\ i =< Len(prog.instrs)
  /\ reg' = [n \in Regs |->
               IF n < Len(MI.inputs) THEN mem[MI.inputs[n + 1]] ELSE Uninit]
  /\ ppc' = "lls"
  /\ UNCHANGED <<prog, inps, mem, i, k, outs>>

\* ... runs its instructions ...
PExecute ==
  /\ ppc = "lls"
  /\ k =< Len(MI.seq)
  /\ \E v \in LLIOutcomes(reg, MI.seq[k]) :
       IF v = Trap
       THEN ppc' = "trap" /\ UNCHANGED <<reg, k>>
       ELSE /\ reg' = [reg EXCEPT ![MI.seq[k].dst] = v]
            /\ k' = k + 1
            /\ UNCHANGED ppc
  /\ UNCHANGED <<prog, inps, mem, i, outs>>

\* ... and stores its outputs.
PStore ==
  /\ ppc = "lls"
  /\ k > Len(MI.seq)
  /\ \E w \in [1 .. Len(MI.outputs) -> Words] :
       /\ \A j \in 1 .. Len(MI.outputs) : w[j] \in RegValues(reg, OutputReg(j))
       /\ mem' = [c \in Cells |->
                    IF c \in RangeOf(MI.outputs)
                    THEN w[LastPos(MI.outputs, c)]
                    ELSE mem[c]]
  /\ i' = i + 1
  /\ reg' = NoRegs
  /\ k' = 1
  /\ ppc' = "eval"
  /\ UNCHANGED <<prog, inps, outs>>

PFinish ==
  /\ ppc = "eval"
  /\ i > Len(prog.instrs)
  /\ outs' = [j \in 1 .. Len(prog.outputs) |-> mem[prog.outputs[j]]]
  /\ ppc' = "done"
  /\ UNCHANGED <<prog, inps, mem, i, reg, k>>

PNext ==
  PInvoke \/ PRefuse \/ PStart \/ PLoad \/ PExecute \/ PStore \/ PFinish

PSpec == PInit /\ [][PNext]_pvars
=============================================================================

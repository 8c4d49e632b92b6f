-------------------------------- MODULE LLIR --------------------------------
(***************************************************************************)
(* Low-level programs: what lowering hands to the serializer.  A program   *)
(* reads its inputs from memory cells, runs a list of multi-instructions   *)
(* (LLMI) and leaves its outputs in memory cells.  An LLMI loads its input *)
(* cells in the first registers, runs a sequence (LLS) of instructions on  *)
(* registers and stores the last l_out registers in its output cells.      *)
(***************************************************************************)
EXTENDS Integers, Sequences

CONSTANTS
  l_out,            \* LLMI_MAX_OUTPUT_COUNT
  r,                \* REGISTER_COUNT
  LLS_MAX_LENGTH,   \* s
  Cells,            \* the memory cells, 0 .. memory_count-1
  Words,            \* the values of a machine word
  Opcodes,
  Alu(_, _, _, _)   \* Alu(op, a, b, c): the outcomes of one instruction

\* The two outcomes that are not words: a register nobody wrote, and an
\* instruction that stops the process (division by zero).
Uninit == -1
Trap   == -2

ASSUME SizeAssumption ==
  /\ l_out \in Nat \ {0}
  /\ r \in Nat
  /\ l_out =< r
  /\ LLS_MAX_LENGTH \in Nat
  /\ Cells \subseteq Nat
  /\ Words \subseteq Nat
  /\ 0 \in Words

ASSUME AluAssumption ==
  \A op \in Opcodes : \A a, b, c \in Words :
     Alu(op, a, b, c) \in SUBSET (Words \cup {Trap})

Regs == 0 .. r - 1

\* A source operand is a register or an immediate.
Reg(n) == [kind |-> "R", v |-> n]
Imm(n) == [kind |-> "I", v |-> n]

Operands == [kind : {"R"}, v : Regs] \cup [kind : {"I"}, v : Words]

\* lli.op, lli.dst and lli.src, a sequence of one to three operands.
IsLLI(lli) ==
  /\ lli.op \in Opcodes
  /\ lli.dst \in Regs
  /\ lli.src \in Seq(Operands)
  /\ Len(lli.src) \in 1 .. 3

RangeOf(sq) == {sq[j] : j \in 1 .. Len(sq)}

\* The last position of x in sq: a loop that stores sq[1], sq[2], ... in a
\* table indexed by cell leaves the value of this position.
LastPos(sq, x) ==
  CHOOSE j \in 1 .. Len(sq) :
     /\ sq[j] = x
     /\ \A k \in 1 .. Len(sq) : sq[k] = x => k =< j

\* Mutant: only the first output decides.
Reveals_First(p, i) == p.instrs[i].outputs[1] \in RangeOf(p.outputs)

\* serialize(): an LLMI reveals its outputs when one of them is an output of
\* the program.
Reveals(p, i) == RangeOf(p.instrs[i].outputs) \cap RangeOf(p.outputs) # {}

-----------------------------------------------------------------------------
(***************************************************************************)
(* The meaning of one instruction (LLS_execute, instruction_execute).      *)
(***************************************************************************)
\* Reading a register nobody wrote may give any word.
RegValues(reg, n) == IF reg[n] = Uninit THEN Words ELSE {reg[n]}

\* load_regvalue, load_immvalue; the operands an instruction lacks are 0.
OperandValues(reg, src, k) ==
  IF k > Len(src) THEN {0}
  ELSE IF src[k].kind = "I" THEN {src[k].v}
  ELSE RegValues(reg, src[k].v)

\* The outcomes of one turn of the loop of LLS_execute.
LLIOutcomes(reg, lli) ==
  UNION {Alu(lli.op, a, b, c) :
           a \in OperandValues(reg, lli.src, 1),
           b \in OperandValues(reg, lli.src, 2),
           c \in OperandValues(reg, lli.src, 3)}

\* The register an LLMI leaves its j-th output in (j from 1).
OutputReg(j) == r - l_out + j - 1

-----------------------------------------------------------------------------
(***************************************************************************)
(* The programs lowering may hand over, after universalization.            *)
(***************************************************************************)
LLMIShape(mi) ==
  /\ mi.inputs \in Seq(Cells)
  /\ mi.outputs \in Seq(Cells)
  /\ Len(mi.inputs) =< r - l_out
  /\ Len(mi.outputs) =< l_out
  /\ mi.seq \in Seq([op : Opcodes, dst : Regs, src : Seq(Operands)])
  /\ Len(mi.seq) =< LLS_MAX_LENGTH
  /\ \A k \in 1 .. Len(mi.seq) : IsLLI(mi.seq[k])

Shape(p) ==
  /\ p.inputs \in Seq(Cells)
  /\ p.outputs \in Seq(Cells)
  /\ DOMAIN p.instrs = 1 .. Len(p.instrs)
  /\ Len(p.instrs) \in Nat
  /\ \A i \in 1 .. Len(p.instrs) : LLMIShape(p.instrs[i])

\* A cell is read only after something was stored in it.
DefinedBeforeUse(p) ==
  \A i \in 1 .. Len(p.instrs) : \A c \in RangeOf(p.instrs[i].inputs) :
     \/ c \in RangeOf(p.inputs)
     \/ \E k \in 1 .. i - 1 : c \in RangeOf(p.instrs[k].outputs)

\* What universalization establishes by giving the outputs a layer of their
\* own: the LLMIs that reveal are not read by anybody, and every output of
\* the program is made by one of them.
RevealedLast(p) ==
  /\ \A k \in 1 .. Len(p.instrs) : Reveals(p, k) =>
       \A i \in k + 1 .. Len(p.instrs) :
         RangeOf(p.instrs[k].outputs) \cap RangeOf(p.instrs[i].inputs) = {}
  /\ \A c \in RangeOf(p.outputs) :
       \E k \in 1 .. Len(p.instrs) : c \in RangeOf(p.instrs[k].outputs)

WellFormed(p) == Shape(p) /\ DefinedBeforeUse(p) /\ RevealedLast(p)
=============================================================================

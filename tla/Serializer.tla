----------------------------- MODULE Serializer -----------------------------
(***************************************************************************)
(* serialize() of code_gen/serializer.py: from a low-level program to the  *)
(* bytecode of the host.  Its core is a table that says, at each point of  *)
(* the program, which word (instrID, outputID) every memory cell holds;    *)
(* the snippet of each LLMI is encrypted together with the numbers of the  *)
(* words it reads.  The bytes of the bytecode are left to module Loader;   *)
(* here it is a record with the fields those bytes stand for.              *)
(***************************************************************************)
EXTENDS SecureElement

CONSTANT Programs   \* the low-level programs considered

VARIABLES
  prog,    \* the program being compiled
  spc,     \* where serialize() is
  dicts,   \* id_dict: its current value, and before it its earlier values
  bc       \* the bytecode written so far

svars == <<prog, spc, dicts, bc>>

id_dict == dicts[Len(dicts)]

-----------------------------------------------------------------------------
\* Mutants: numbers of input batches from 0; numbers of LLMIs that start at
\* the last batch; a cell keeps the number it got first.
InputID_FromZero(idx) == <<idx \div l_out, idx % l_out>>

InstrID_NoGap(p, i) == i + (Len(p.inputs) \div l_out)

\* The number of the word a program input is encrypted as.
InputID(idx) == <<idx \div l_out + 1, idx % l_out>>

\* The number of the i-th LLMI (from 1): the batches of inputs come first.
InstrID(p, i) == i + (Len(p.inputs) \div l_out + 1)

\* id_dict after the loop over ir.inputs, and after the loop over the outputs
\* of one LLMI.
InputDict(p) ==
  [c \in RangeOf(p.inputs) |-> InputID(LastPos(p.inputs, c) - 1)]

UpdatedDict_FirstWriter(d, p, i) ==
  LET outs == p.instrs[i].outputs IN
  [c \in DOMAIN d \cup RangeOf(outs) |->
     IF c \in DOMAIN d THEN d[c] ELSE <<InstrID(p, i), LastPos(outs, c) - 1>>]

UpdatedDict(d, p, i) ==
  LET outs == p.instrs[i].outputs IN
  [c \in DOMAIN d \cup RangeOf(outs) |->
     IF c \in RangeOf(outs)
     THEN <<InstrID(p, i), LastPos(outs, c) - 1>>
     ELSE d[c]]

\* The table lookups of serialize() and serialize_lls() that raise KeyError
\* or OverflowError: an input nobody wrote, a register or an immediate that
\* does not exist.
Resolves(d, mi) ==
  /\ RangeOf(mi.inputs) \subseteq DOMAIN d
  /\ \A k \in 1 .. Len(mi.seq) :
       /\ mi.seq[k].dst \in Regs
       /\ \A q \in 1 .. Len(mi.seq[k].src) : mi.seq[k].src[q] \in Operands

\* One LLMI of the bytecode.
SerializedLLMI(d, p, i) ==
  LET mi == p.instrs[i]
      a  == [instrID     |-> InstrID(p, i),
             reveal_flag |-> IF Reveals(p, i) THEN 1 ELSE 0,
             inputIDs    |-> [j \in 1 .. Len(mi.inputs) |-> d[mi.inputs[j]]],
             out_count   |-> Len(mi.outputs)]
  IN  [mem_inps |-> mi.inputs,
       mem_outs |-> mi.outputs,
       aells    |->
         [instrID     |-> a.instrID,
          reveal_flag |-> a.reveal_flag,
          inputIDs    |-> a.inputIDs,
          out_count   |-> a.out_count,
          bytecode    |-> AEAD(K_S, a.instrID, AellsAd(a), mi.seq)]]

-----------------------------------------------------------------------------
SerInit ==
  /\ prog \in Programs
  /\ spc = "header"
  /\ dicts = <<>>
  /\ bc = [header |-> <<>>, mem_inps |-> <<>>, mem_outs |-> <<>>, llmis |-> <<>>]

\* Metadata, sealed key, inputs and outputs.
SerializeHeader ==
  /\ spc = "header"
  /\ dicts' = <<InputDict(prog)>>
  /\ bc' = [header   |-> [ct |-> Seal(pub_SE, K_S), n |-> Len(prog.inputs)],
            mem_inps |-> prog.inputs,
            mem_outs |-> prog.outputs,
            llmis    |-> <<>>]
  /\ spc' = "llmi"
  /\ UNCHANGED prog

\* One turn of the loop over ir.instrs.
SerializeLLMI ==
  LET n == Len(bc.llmis) + 1 IN
  /\ spc = "llmi"
  /\ n =< Len(prog.instrs)
  /\ IF Resolves(id_dict, prog.instrs[n])
     THEN /\ bc' = [bc EXCEPT !.llmis =
                      Append(@, SerializedLLMI(id_dict, prog, n))]
          /\ dicts' = Append(dicts, UpdatedDict(id_dict, prog, n))
          /\ UNCHANGED spc
     ELSE spc' = "error" /\ UNCHANGED <<bc, dicts>>
  /\ UNCHANGED prog

SerializeEnd ==
  /\ spc = "llmi"
  /\ Len(bc.llmis) = Len(prog.instrs)
  /\ spc' = "done"
  /\ UNCHANGED <<prog, dicts, bc>>

SerNext == SerializeHeader \/ SerializeLLMI \/ SerializeEnd

SerSpec == SerInit /\ [][SerNext]_svars /\ WF_svars(SerNext)
=============================================================================

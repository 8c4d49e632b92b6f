------------------------------ MODULE Obscure ------------------------------
(***************************************************************************)
(* Compiler back end, host and secure element together implement the plain *)
(* machine: forget numbers, keys and ciphertexts, and what is left of the  *)
(* host's memory is the memory of the plain machine.                       *)
(***************************************************************************)
EXTENDS Interpreter

\* What universalization and lowering guarantee.
ASSUME ProgramsAssumption == \A p \in Programs : WellFormed(p)

\* The word in a cell, whoever may read it.
PlainWord(cell) ==
  CASE cell.kind = "ct"    -> cell.ct.msg
    [] cell.kind = "clear" -> cell.word
    [] cell.kind = "junk"  -> Uninit

PlainPc == IF pc \in {"load", "hash", "input"} THEN "given" ELSE pc

Plain == INSTANCE PlainMachine WITH
  ppc  <- PlainPc,
  inps <- prog_inps,
  mem  <- [c \in Cells |-> PlainWord(memory[c])],
  outs <- prog_outs

\* Every run of the bytecode is a run of the program on the plain machine, on
\* the inputs of the command line, and ends with the same outputs.
ImplementsPlain == Plain!PSpec

-----------------------------------------------------------------------------
(***************************************************************************)
(* The inductive invariant behind Accepted, OutputsInClear and the         *)
(* refinement.                                                             *)
(***************************************************************************)
\* serialize(): the fixed part of the bytecode, ...
BytecodeForm ==
  bc = [header   |-> [ct |-> Seal(pub_SE, K_S), n |-> Len(prog.inputs)],
        mem_inps |-> prog.inputs,
        mem_outs |-> prog.outputs,
        llmis    |-> bc.llmis]

\* ... its LLMIs, made from the tables: entry n of dicts is id_dict before
\* LLMI n, ...
TablesForm ==
  /\ bc.llmis \in Seq(RangeOf(bc.llmis))
  /\ dicts \in Seq(RangeOf(dicts))
  /\ Len(bc.llmis) =< Len(prog.instrs)
  /\ Len(dicts) = Len(bc.llmis) + 1
  /\ dicts[1] = InputDict(prog)
  /\ \A n \in 1 .. Len(bc.llmis) :
       /\ bc.llmis[n] = SerializedLLMI(dicts[n], prog, n)
       /\ dicts[n + 1] = UpdatedDict(dicts[n], prog, n)

\* ... and the cells a table knows: those written so far.
WrittenBefore(p, n, c) ==
  \/ c \in RangeOf(p.inputs)
  \/ \E m \in 1 .. n - 1 : c \in RangeOf(p.instrs[m].outputs)

DictsKnow ==
  \A n \in 1 .. Len(dicts) : \A c \in Cells :
    c \in DOMAIN dicts[n] <=> WrittenBefore(prog, n, c)

SerializerInv ==
  /\ prog \in Programs
  /\ spc \in {"header", "llmi", "done"}
  /\ spc # "header" => BytecodeForm /\ TablesForm /\ DictsKnow
  /\ spc = "done" => Len(bc.llmis) = Len(prog.instrs)

\* The host: where the process may be, ...
ControlInv ==
  /\ pc \in {"idle", "load", "hash", "input", "eval", "lls", "done",
             "bad_args", "trap"}
  /\ pc # "idle" => spc = "done"
  /\ pc \in {"load", "hash", "input"} =>
       i = 1 /\ memory = [c \in Cells |-> Junk]
  /\ pc = "eval" => i \in 1 .. Len(prog.instrs) + 1
  /\ pc = "lls" => /\ i \in 1 .. Len(prog.instrs)
                   /\ k \in 1 .. Len(prog.instrs[i].seq) + 1
  /\ pc \in {"load", "hash", "input", "eval"} => k = 1
  /\ pc = "done" => i = Len(prog.instrs) + 1

\* ... the inputs and their hash chain, ...
InputsInv ==
  /\ pc \in {"load", "hash", "input"} => prog_inps \in Seq(Words)
  /\ pc \in {"hash", "input"} => Len(prog_inps) = Len(prog.inputs)
  /\ pc = "load" => b = 0 /\ H = NoHash

ChainInv ==
  pc \in {"hash", "input"} =>
    /\ b \in 0 .. BatchCount(prog_inps)
    /\ H[0] = ZeroHash
    /\ \A n \in 1 .. BatchCount(prog_inps) :
         pc = "input" \/ n =< b =>
           H[n] = HashChain(H[n - 1], Batch(prog_inps, n))

\* ... what SEstart and SEinput returned: the key, the next ticket and the
\* batches encrypted so far, each word under the number serialize() gave it,
SessionInv ==
  /\ pc \in {"input", "eval", "lls"} => esharedkey = ESharedKey(execID, K_S)
  /\ pc = "input" => Cin = CinOf(execID, b, H[b])

InputWord(q) == IF q =< Len(prog_inps) THEN prog_inps[q] ELSE 0

InputWordsInv ==
  pc = "input" =>
    /\ DOMAIN C = 1 .. l_out * BatchCount(prog_inps)
    /\ \A q \in DOMAIN C : q > b * l_out =>
         C[q] = Encrypted(WordOf(execID, InputID(q - 1), InputWord(q)))

\* ... and the memory: in step with the tables of serialize(), and in the
\* clear where an output of the program has been computed.
MemoryInv ==
  /\ DOMAIN memory = Cells
  /\ DictMatchesMemory
  /\ pc \in {"eval", "lls", "done"} =>
       \A c \in RangeOf(prog.outputs) :
         (\E n \in 1 .. i - 1 : c \in RangeOf(prog.instrs[n].outputs)) =>
           memory[c].kind = "clear"

HostInv ==
  ControlInv /\ InputsInv /\ ChainInv /\ SessionInv /\ InputWordsInv /\ MemoryInv

IInv == SerializerInv /\ HostInv
=============================================================================

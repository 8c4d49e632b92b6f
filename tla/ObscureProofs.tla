--------------------------- MODULE ObscureProofs ---------------------------
(***************************************************************************)
(* Proofs about serializer, host and secure element.                       *)
(***************************************************************************)
EXTENDS Obscure, Determinate, SequenceTheorems, SetInduction, WellFoundedInduction, TLAPS

-----------------------------------------------------------------------------
(***************************************************************************)
(* Sequences.                                                              *)
(***************************************************************************)
\* What a sequence built by serialize() holds after an append.
LEMMA AppendIs ==
  ASSUME NEW sq, sq \in Seq(RangeOf(sq)), NEW e
  PROVE  /\ Append(sq, e) \in Seq(RangeOf(Append(sq, e)))
         /\ Len(sq) \in Nat
         /\ Len(Append(sq, e)) = Len(sq) + 1
         /\ \A n \in 1 .. Len(sq) : Append(sq, e)[n] = sq[n]
         /\ Append(sq, e)[Len(sq) + 1] = e
<1> DEFINE S == RangeOf(sq) \cup {e}
<1>1. sq \in Seq(S) /\ e \in S
  BY SeqMonotonic
<1> HIDE DEF S
<1>2. /\ Append(sq, e) \in Seq(S)
      /\ Len(sq) \in Nat
      /\ Len(Append(sq, e)) = Len(sq) + 1
      /\ \A n \in 1 .. Len(sq) : Append(sq, e)[n] = sq[n]
      /\ Append(sq, e)[Len(sq) + 1] = e
  BY <1>1
<1>3. Append(sq, e) \in Seq(RangeOf(Append(sq, e)))
  <2> DEFINE t == Append(sq, e)
  <2>1. t \in Seq(S) /\ Len(t) \in Nat
    BY <1>2
  <2> HIDE DEF t
  <2>2. t \in [1 .. Len(t) -> RangeOf(t)]
    BY <2>1 DEF RangeOf
  <2>3. t \in Seq(RangeOf(t))
    BY <2>1, <2>2
  <2>4. QED
    BY <2>3 DEF t
<1>4. QED
  BY <1>2, <1>3

\* The last position of an element exists.
LEMMA LastPosIs ==
  ASSUME NEW sq, Len(sq) \in Nat, NEW x \in RangeOf(sq)
  PROVE  LastPos(sq, x) \in 1 .. Len(sq) /\ sq[LastPos(sq, x)] = x
<1> DEFINE T == {Len(sq) - j : j \in {j \in 1 .. Len(sq) : sq[j] = x}}
<1>1. T \subseteq Nat /\ T # {}
  BY DEF RangeOf
<1> DEFINE Less == OpToRel(<, Nat)
<1>2. IsWellFoundedOn(Less, Nat)
  BY NatLessThanWellFounded
<1>3. \A m, n \in Nat : m < n => <<m, n>> \in Less
  BY DEF OpToRel
<1> HIDE DEF T, Less
<1>4. PICK m \in T : \A y \in T : ~ (<<y, m>> \in Less)
  BY <1>1, <1>2, WFMin
<1>5. m \in Nat /\ \A y \in T : m =< y
  <2> SUFFICES ASSUME NEW y \in T PROVE m \in Nat /\ m =< y
    BY <1>1, <1>4
  <2>1. m \in Nat /\ y \in Nat
    BY <1>1
  <2>2. y < m => <<y, m>> \in Less
    BY <1>3, <2>1
  <2>3. QED
    BY <1>4, <2>1, <2>2
<1>6. /\ Len(sq) - m \in 1 .. Len(sq)
      /\ sq[Len(sq) - m] = x
  BY <1>4, <1>5 DEF T
<1>7. \A n \in 1 .. Len(sq) : sq[n] = x => n =< Len(sq) - m
  <2> SUFFICES ASSUME NEW n \in 1 .. Len(sq), sq[n] = x
               PROVE  n =< Len(sq) - m
    OBVIOUS
  <2>1. Len(sq) - n \in T
    BY DEF T
  <2>2. QED
    BY <1>5, <2>1
<1>8. QED
  BY <1>6, <1>7 DEF LastPos

-----------------------------------------------------------------------------
(***************************************************************************)
(* The serializer.                                                         *)
(***************************************************************************)
LEMMA ProgramFacts ==
  ASSUME NEW p \in Programs
  PROVE  /\ p.inputs \in Seq(Cells) /\ Len(p.inputs) \in Nat
         /\ p.outputs \in Seq(Cells) /\ Len(p.outputs) \in Nat
         /\ Len(p.instrs) \in Nat
         /\ \A n \in 1 .. Len(p.instrs) : LLMIShape(p.instrs[n])
         /\ DefinedBeforeUse(p)
         /\ RevealedLast(p)
  BY ProgramsAssumption DEF WellFormed, Shape

\* In a well-formed program the lookups of serialize() go through.
LEMMA LookupsResolve ==
  ASSUME NEW p \in Programs, NEW n \in 1 .. Len(p.instrs), NEW d,
         \A c \in Cells : c \in DOMAIN d <=> WrittenBefore(p, n, c)
  PROVE  Resolves(d, p.instrs[n])
<1> DEFINE mi == p.instrs[n]
<1>1. LLMIShape(mi)
  BY ProgramFacts
<1>2. RangeOf(mi.inputs) \subseteq DOMAIN d
  <2> SUFFICES ASSUME NEW c \in RangeOf(mi.inputs) PROVE c \in DOMAIN d
    OBVIOUS
  <2>1. c \in Cells
    BY <1>1 DEF LLMIShape, RangeOf
  <2>2. WrittenBefore(p, n, c)
    BY ProgramFacts DEF DefinedBeforeUse, WrittenBefore
  <2>3. QED
    BY <2>1, <2>2
<1>3. ASSUME NEW m \in 1 .. Len(mi.seq)
      PROVE  /\ mi.seq[m].dst \in Regs
             /\ \A q \in 1 .. Len(mi.seq[m].src) : mi.seq[m].src[q] \in Operands
  BY <1>1 DEF LLMIShape, IsLLI
<1>4. QED
  BY <1>2, <1>3 DEF Resolves

LEMMA SerializerInvInit == IInit => SerializerInv
  BY DEF IInit, SerInit, SerializerInv

\* One more LLMI: the tables and the bytecode grow together.
LEMMA SerializeLLMIStep ==
  ASSUME SerializerInv, SerializeLLMI
  PROVE  SerializerInv'
<1> DEFINE n == Len(bc.llmis) + 1
           lls == Append(bc.llmis, SerializedLLMI(dicts[n], prog, n))
           ds  == Append(dicts, UpdatedDict(dicts[n], prog, n))
<1>1. /\ spc = "llmi" /\ prog \in Programs
      /\ BytecodeForm /\ TablesForm /\ DictsKnow
  BY DEF SerializerInv, SerializeLLMI
<1>2. /\ n \in 1 .. Len(prog.instrs) /\ Len(dicts) = n
      /\ Len(bc.llmis) \in Nat /\ Len(prog.instrs) \in Nat
  BY <1>1, ProgramFacts, AppendIs DEF SerializeLLMI, TablesForm
<1>3. \A c \in Cells : c \in DOMAIN dicts[n] <=> WrittenBefore(prog, n, c)
  BY <1>1, <1>2 DEF DictsKnow
<1>4. Resolves(dicts[n], prog.instrs[n])
  BY <1>1, <1>2, <1>3, LookupsResolve
<1>5. /\ bc' = [bc EXCEPT !.llmis = lls]
      /\ dicts' = ds /\ spc' = spc /\ prog' = prog
  BY <1>2, <1>4 DEF SerializeLLMI, id_dict
<1>6. /\ lls \in Seq(RangeOf(lls)) /\ Len(lls) = n
      /\ lls[n] = SerializedLLMI(dicts[n], prog, n)
      /\ \A m \in 1 .. n - 1 : lls[m] = bc.llmis[m]
  BY <1>1, <1>2, AppendIs DEF TablesForm
<1>7. /\ ds \in Seq(RangeOf(ds)) /\ Len(ds) = n + 1
      /\ ds[n + 1] = UpdatedDict(dicts[n], prog, n)
      /\ \A m \in 1 .. n : ds[m] = dicts[m]
  BY <1>1, <1>2, AppendIs DEF TablesForm
<1> HIDE DEF lls, ds
<1>8. BytecodeForm' /\ bc'.llmis = lls
  BY <1>1, <1>5 DEF BytecodeForm
<1>9. \A m \in 1 .. n : /\ lls[m] = SerializedLLMI(ds[m], prog, m)
                        /\ ds[m + 1] = UpdatedDict(ds[m], prog, m)
  BY <1>1, <1>2, <1>6, <1>7 DEF TablesForm
<1>10. ds[1] = InputDict(prog)
  BY <1>1, <1>2, <1>7 DEF TablesForm
<1>11. TablesForm'
  BY <1>2, <1>5, <1>6, <1>7, <1>8, <1>9, <1>10 DEF TablesForm
<1>12. ASSUME NEW m \in 1 .. n + 1, NEW c \in Cells
       PROVE  c \in DOMAIN ds[m] <=> WrittenBefore(prog, m, c)
  <2>1. CASE m =< n
    BY <1>1, <1>2, <1>7, <2>1 DEF DictsKnow
  <2>2. CASE m = n + 1
    <3>1. DOMAIN ds[m] = DOMAIN dicts[n] \cup RangeOf(prog.instrs[n].outputs)
      BY <1>7, <2>2 DEF UpdatedDict
    <3>2. WrittenBefore(prog, m, c) <=>
            WrittenBefore(prog, n, c) \/ c \in RangeOf(prog.instrs[n].outputs)
      BY <1>2, <2>2 DEF WrittenBefore
    <3>3. QED
      BY <1>3, <3>1, <3>2
  <2>3. QED
    BY <1>2, <2>1, <2>2
<1>13. DictsKnow'
  BY <1>5, <1>7, <1>12 DEF DictsKnow
<1>14. QED
  BY <1>1, <1>5, <1>8, <1>11, <1>13 DEF SerializerInv

LEMMA SerializerInvNext == SerializerInv /\ [Next]_vars => SerializerInv'
<1> SUFFICES ASSUME SerializerInv, [Next]_vars PROVE SerializerInv'
  OBVIOUS
<1>1. CASE SerializeHeader
  <2>1. /\ prog' = prog /\ prog \in Programs /\ spc' = "llmi"
        /\ dicts' = <<InputDict(prog)>>
        /\ bc' = [header   |-> [ct |-> Seal(pub_SE, K_S), n |-> Len(prog.inputs)],
                  mem_inps |-> prog.inputs,
                  mem_outs |-> prog.outputs,
                  llmis    |-> <<>>]
    BY <1>1 DEF SerializeHeader, SerializerInv
  <2>2. Len(dicts') = 1 /\ dicts'[1] = InputDict(prog) /\ Len(bc'.llmis) = 0
    BY <2>1
  <2>3. bc'.llmis \in Seq(RangeOf(bc'.llmis)) /\ dicts' \in Seq(RangeOf(dicts'))
    BY <2>1, <2>2 DEF RangeOf
  <2>4. DictsKnow'
    BY <2>1, <2>2 DEF InputDict, DictsKnow, WrittenBefore
  <2>5. BytecodeForm'
    BY <2>1 DEF BytecodeForm
  <2>6. TablesForm'
    BY <2>1, <2>2, <2>3, ProgramFacts DEF TablesForm
  <2>7. QED
    BY <2>1, <2>4, <2>5, <2>6 DEF SerializerInv
<1>2. CASE SerializeLLMI
  BY <1>2, SerializeLLMIStep
<1>3. CASE SerializeEnd
  BY <1>3 DEF SerializeEnd, SerializerInv, BytecodeForm, TablesForm, DictsKnow
<1>4. CASE UNCHANGED svars
  BY <1>4 DEF svars, SerializerInv, BytecodeForm, TablesForm, DictsKnow
<1>5. QED
  <2>1. Compile \/ UNCHANGED svars
    BY DEF Next, vars, HostStep, Invoke, Load, HashBatch, Start, Input,
           StoreInputs, EvalCall, ExecuteLLI, EvalReturn, Finish
  <2>2. QED
    BY <1>1, <1>2, <1>3, <1>4, <2>1 DEF Compile, SerNext

-----------------------------------------------------------------------------
(***************************************************************************)
(* The host.  What it reads in the bytecode of a compiled program.         *)
(***************************************************************************)
LEMMA BytecodeIs ==
  ASSUME SerializerInv, spc = "done"
  PROVE  /\ prog \in Programs
         /\ bc.header = [ct |-> Seal(pub_SE, K_S), n |-> Len(prog.inputs)]
         /\ bc.mem_inps = prog.inputs
         /\ bc.mem_outs = prog.outputs
         /\ Len(bc.llmis) = Len(prog.instrs)
         /\ dicts[1] = InputDict(prog)
         /\ \A n \in 1 .. Len(prog.instrs) :
              /\ bc.llmis[n] = SerializedLLMI(dicts[n], prog, n)
              /\ dicts[n + 1] = UpdatedDict(dicts[n], prog, n)
         /\ \A n \in 1 .. Len(prog.instrs) + 1 : \A c \in Cells :
              c \in DOMAIN dicts[n] <=> WrittenBefore(prog, n, c)
<1>1. BytecodeForm /\ TablesForm /\ DictsKnow /\ prog \in Programs
  BY DEF SerializerInv
<1>2. Len(bc.llmis) = Len(prog.instrs) /\ Len(dicts) = Len(prog.instrs) + 1
  BY <1>1 DEF SerializerInv, TablesForm
<1>3. /\ bc.header = [ct |-> Seal(pub_SE, K_S), n |-> Len(prog.inputs)]
      /\ bc.mem_inps = prog.inputs
      /\ bc.mem_outs = prog.outputs
  BY <1>1 DEF BytecodeForm
<1>4. QED
  BY <1>1, <1>2, <1>3 DEF TablesForm, DictsKnow

\* One LLMI of the bytecode, field by field.
LEMMA LLMIIs ==
  ASSUME SerializerInv, spc = "done", i \in 1 .. Len(prog.instrs)
  PROVE  /\ LLMI.mem_inps = prog.instrs[i].inputs
         /\ LLMI.mem_outs = prog.instrs[i].outputs
         /\ LLMI.aells.instrID = InstrID(prog, i)
         /\ LLMI.aells.reveal_flag = (IF Reveals(prog, i) THEN 1 ELSE 0)
         /\ LLMI.aells.inputIDs =
              [j \in 1 .. Len(prog.instrs[i].inputs) |->
                 dicts[i][prog.instrs[i].inputs[j]]]
         /\ LLMI.aells.out_count = Len(prog.instrs[i].outputs)
         /\ LLMI.aells.bytecode =
              AEAD(K_S, LLMI.aells.instrID, AellsAd(LLMI.aells), prog.instrs[i].seq)
         /\ LLS = prog.instrs[i].seq
<1>1. LLMI = SerializedLLMI(dicts[i], prog, i)
  BY BytecodeIs DEF LLMI
<1>2. /\ LLMI.mem_inps = prog.instrs[i].inputs
      /\ LLMI.mem_outs = prog.instrs[i].outputs
  BY <1>1 DEF SerializedLLMI
<1>3. /\ LLMI.aells.instrID = InstrID(prog, i)
      /\ LLMI.aells.reveal_flag = (IF Reveals(prog, i) THEN 1 ELSE 0)
      /\ LLMI.aells.inputIDs =
           [j \in 1 .. Len(prog.instrs[i].inputs) |->
              dicts[i][prog.instrs[i].inputs[j]]]
      /\ LLMI.aells.out_count = Len(prog.instrs[i].outputs)
  BY <1>1 DEF SerializedLLMI
<1>4. LLMI.aells.bytecode =
        AEAD(K_S, LLMI.aells.instrID, AellsAd(LLMI.aells), prog.instrs[i].seq)
  BY <1>1 DEF SerializedLLMI, AellsAd
<1>5. LLS = prog.instrs[i].seq
  BY <1>4 DEF LLS, AEAD
<1>6. QED
  BY <1>2, <1>3, <1>4, <1>5

LEMMA HostInvInit == IInit => HostInv
  BY DEF IInit, HostInv, ControlInv, InputsInv, ChainInv, SessionInv,
         InputWordsInv, MemoryInv, DictMatchesMemory

\* The compiler runs only before the first process is started.
LEMMA CompileStep ==
  ASSUME HostInv, Compile
  PROVE  HostInv'
<1>1. spc # "done" /\ ivars' = ivars
  BY DEF Compile, SerNext, SerializeHeader, SerializeLLMI, SerializeEnd
<1>2. pc = "idle" /\ pc' = "idle" /\ memory' = memory
  BY <1>1 DEF HostInv, ControlInv, ivars
<1>3. DOMAIN memory = Cells
  BY DEF HostInv, MemoryInv
<1>4. QED
  BY <1>2, <1>3 DEF HostInv, ControlInv, InputsInv, ChainInv, SessionInv,
                    InputWordsInv, MemoryInv, DictMatchesMemory

LEMMA InvokeStep ==
  ASSUME HostInv, Invoke
  PROVE  HostInv'
<1>1. /\ spc' = "done" /\ pc' = "load" /\ i' = 1 /\ k' = 1 /\ b' = 0
      /\ H' = NoHash /\ memory' = [c \in Cells |-> Junk]
  BY DEF Invoke, svars
<1>2. prog_inps' \in Seq(Words)
  <2>1. PICK n \in 1 .. MaxArgs :
          \E items \in [1 .. n -> CmdItems] : prog_inps' \in ParsedInputs(items)
    BY DEF Invoke
  <2>2. PICK items \in [1 .. n -> CmdItems] : prog_inps' \in ParsedInputs(items)
    BY <2>1
  <2>3. Len(items) = n /\ n \in Nat
    BY <2>1, <2>2
  <2>4. prog_inps' \in [1 .. n -> Words]
    BY <2>2, <2>3 DEF ParsedInputs
  <2>5. QED
    BY <2>3, <2>4
<1>3. QED
  BY <1>1, <1>2 DEF HostInv, ControlInv, InputsInv, ChainInv, SessionInv,
                    InputWordsInv, MemoryInv, DictMatchesMemory

LEMMA LoadStep ==
  ASSUME SerializerInv, HostInv, Load
  PROVE  HostInv'
<1>1. /\ pc = "load" /\ pc' \in {"hash", "bad_args"}
      /\ UNCHANGED <<prog, spc, prog_inps, H, b, memory, i, k>>
  BY DEF Load, svars, argv
<1>2. /\ spc = "done" /\ i = 1 /\ k = 1 /\ memory = [c \in Cells |-> Junk]
      /\ prog_inps \in Seq(Words) /\ b = 0 /\ H = NoHash
  BY <1>1 DEF HostInv, ControlInv, InputsInv
<1>3. pc' = "hash" => Len(prog_inps) = Len(prog.inputs)
  BY <1>2, BytecodeIs DEF Load
<1>4. BatchCount(prog_inps) \in Nat
  BY <1>2, SizeAssumption DEF BatchCount, CeilDiv
<1>5. H[0] = ZeroHash
  BY <1>2 DEF NoHash
<1>6. ControlInv' /\ InputsInv'
  BY <1>1, <1>2, <1>3 DEF ControlInv, InputsInv
<1>7. ChainInv'
  BY <1>1, <1>2, <1>4, <1>5 DEF ChainInv, BatchCount
<1>8. QED
  BY <1>1, <1>2, <1>6, <1>7 DEF HostInv, SessionInv, InputWordsInv, MemoryInv,
     DictMatchesMemory

LEMMA HashBatchStep ==
  ASSUME HostInv, HashBatch
  PROVE  HostInv'
<1>1. /\ pc = "hash" /\ pc' = pc /\ b < BatchCount(prog_inps) /\ b' = b + 1
      /\ H' = [n \in 0 .. b + 1 |->
                 IF n =< b THEN H[n] ELSE HashChain(H[b], Batch(prog_inps, b + 1))]
      /\ UNCHANGED <<prog, spc, prog_inps, memory, i, k>>
  BY DEF HashBatch, svars, argv
<1>2. /\ b \in 0 .. BatchCount(prog_inps)
      /\ H[0] = ZeroHash
      /\ \A n \in 1 .. BatchCount(prog_inps) :
           n =< b => H[n] = HashChain(H[n - 1], Batch(prog_inps, n))
  BY <1>1 DEF HostInv, ChainInv
<1>3. BatchCount(prog_inps) \in Nat
  BY <1>1, SizeAssumption DEF BatchCount, CeilDiv, HostInv, InputsInv
<1>4. ASSUME NEW n \in 1 .. b + 1
      PROVE  H'[n] = HashChain(H'[n - 1], Batch(prog_inps, n))
  <2>1. CASE n =< b
    <3>1. H'[n] = H[n] /\ H'[n - 1] = H[n - 1]
      BY <1>1, <1>2, <2>1
    <3>2. QED
      BY <1>2, <1>3, <2>1, <3>1
  <2>2. CASE n = b + 1
    BY <1>1, <1>2, <2>2
  <2>3. QED
    BY <1>2, <2>1, <2>2
<1>5. b + 1 \in 0 .. BatchCount(prog_inps) /\ H'[0] = ZeroHash
  BY <1>1, <1>2, <1>3
<1>6. ChainInv'
  BY <1>1, <1>2, <1>3, <1>4, <1>5 DEF ChainInv, BatchCount
<1>7. ControlInv' /\ InputsInv'
  BY <1>1 DEF HostInv, ControlInv, InputsInv
<1>8. DOMAIN memory' = Cells
  BY <1>1 DEF HostInv, MemoryInv
<1>9. QED
  BY <1>1, <1>6, <1>7, <1>8 DEF HostInv, SessionInv, InputWordsInv, MemoryInv,
     DictMatchesMemory

LEMMA StartStep ==
  ASSUME SerializerInv, HostInv, Start
  PROVE  HostInv'
<1>1. /\ pc = "hash" /\ b = BatchCount(prog_inps)
      /\ UNCHANGED <<prog, spc, prog_inps, H, b, memory, i, k>>
  BY DEF Start, svars, argv
<1>2. spc = "done" /\ Len(prog_inps) = Len(prog.inputs) /\ DOMAIN memory = Cells
  BY <1>1 DEF HostInv, ControlInv, InputsInv, MemoryInv
<1>3. bc.header = [ct |-> Seal(pub_SE, K_S), n |-> Len(prog.inputs)]
  BY <1>2, BytecodeIs
<1>4. /\ SEstartOk(bc.header)
      /\ bc.header.ct.sealed = K_S
      /\ CeilDiv(bc.header.n, l_out) = b
  BY <1>1, <1>2, <1>3 DEF SEstartOk, Seal, Unseals, BatchCount
<1>5. /\ pc' = "input"
      /\ esharedkey' = ESharedKey(execID', K_S)
      /\ Cin' = CinOf(execID', b, H[b])
      /\ C' = [q \in 1 .. l_out * b |-> Junk]
  BY <1>4 DEF Start, SEstart
<1>6. ControlInv' /\ InputsInv'
  BY <1>1, <1>5 DEF HostInv, ControlInv, InputsInv
<1>7. b \in Nat /\ l_out \in Nat /\ l_out * b = b * l_out
  BY <1>1, SizeAssumption DEF HostInv, ChainInv
<1>8. ChainInv'
  BY <1>1, <1>5, <1>7 DEF HostInv, ChainInv, BatchCount
<1>9. InputWordsInv'
  BY <1>1, <1>5, <1>7 DEF InputWordsInv, BatchCount
<1>10. QED
  BY <1>1, <1>2, <1>5, <1>6, <1>8, <1>9 DEF HostInv, SessionInv, MemoryInv,
     DictMatchesMemory

\* The words SEinput makes of batch b get the numbers serialize() gave them.
LEMMA BatchNumbers ==
  ASSUME NEW n \in Nat \ {0}, NEW q \in (n - 1) * l_out + 1 .. n * l_out
  PROVE  InputID(q - 1) = <<n, q - (n - 1) * l_out - 1>>
<1> DEFINE d == l_out
           m == q - 1 - (n - 1) * d
<1>1. d \in Nat \ {0} /\ n - 1 \in Nat /\ (n - 1) * d \in Nat /\ n * d \in Nat
  BY SizeAssumption
<1>2. n * d = (n - 1) * d + d
  BY <1>1
<1>3. q \in Int /\ m \in 0 .. d - 1 /\ q - 1 = (n - 1) * d + m
  BY <1>1, <1>2
<1>4. (q - 1) \div d = n - 1 /\ (q - 1) % d = m
  <2> HIDE DEF m, d
  <2>1. \A a, e, f \in Nat, g \in 0 .. d - 1 :
          a = e * d + g => a \div d = e /\ a % d = g
    BY <1>1
  <2>2. q - 1 \in Nat
    BY <1>1, <1>3
  <2>3. QED
    BY <1>1, <1>3, <2>1, <2>2
<1>5. (n - 1) + 1 = n /\ m = q - (n - 1) * d - 1
  BY <1>1, <1>3
<1> HIDE DEF m
<1>6. QED
  BY <1>4, <1>5 DEF InputID

LEMMA InputStep ==
  ASSUME HostInv, Input
  PROVE  HostInv'
<1> DEFINE X == Batch(prog_inps, b)
           lo == (b - 1) * l_out
<1>1. /\ pc = "input" /\ b > 0
      /\ UNCHANGED <<prog, spc, prog_inps, H, execID, esharedkey, memory, i, k>>
  BY DEF Input, svars, argv, session
<1>2. /\ b \in 1 .. BatchCount(prog_inps)
      /\ H[0] = ZeroHash
      /\ \A n \in 1 .. BatchCount(prog_inps) :
           H[n] = HashChain(H[n - 1], Batch(prog_inps, n))
      /\ BatchCount(prog_inps) \in Nat
  <2>1. prog_inps \in Seq(Words)
    BY <1>1 DEF HostInv, InputsInv
  <2>2. QED
    BY <1>1, <2>1, SizeAssumption DEF HostInv, ChainInv, BatchCount, CeilDiv
<1>3. Cin = CinOf(execID, b, H[b]) /\ H[b] = HashChain(H[b - 1], X)
  BY <1>1, <1>2 DEF HostInv, SessionInv
<1>4. SEinputOk(execID, b, H[b - 1], X, Cin)
  BY <1>2, <1>3 DEF SEinputOk, Opens, CinOf, AEAD
<1>5. /\ pc' = pc /\ b' = b - 1
      /\ Cin' = CinOf(execID, b - 1, H[b - 1])
      /\ C' = [q \in DOMAIN C |->
                 IF q \in lo + 1 .. b * l_out
                 THEN Encrypted(SEinput(execID, b, H[b - 1], X).C[q - lo])
                 ELSE C[q]]
  BY <1>4 DEF Input, SEinput
<1>6. ControlInv' /\ InputsInv'
  BY <1>1, <1>5 DEF HostInv, ControlInv, InputsInv
<1>7. ChainInv'
  BY <1>1, <1>2, <1>5 DEF ChainInv, BatchCount
<1>8. SessionInv'
  BY <1>1, <1>5 DEF HostInv, SessionInv
<1>9. InputWordsInv'
  <2>1. /\ DOMAIN C = 1 .. l_out * BatchCount(prog_inps)
        /\ \A q \in DOMAIN C : q > b * l_out =>
             C[q] = Encrypted(WordOf(execID, InputID(q - 1), InputWord(q)))
    BY <1>1 DEF HostInv, InputWordsInv
  <2>2. l_out \in Nat \ {0} /\ lo \in Nat /\ b * l_out = lo + l_out
    BY <1>2, SizeAssumption
  <2>3. ASSUME NEW q \in DOMAIN C, q > lo
        PROVE  C'[q] = Encrypted(WordOf(execID, InputID(q - 1), InputWord(q)))
    <3>1. CASE q > b * l_out
      BY <1>5, <2>1, <2>2, <3>1
    <3>2. CASE q =< b * l_out
      <4>1. q \in lo + 1 .. b * l_out /\ b \in Nat \ {0}
        BY <1>2, <2>1, <2>2, <2>3, <3>2
      <4>2. q - lo \in 1 .. l_out
        BY <2>2, <4>1
      <4>3. SEinput(execID, b, H[b - 1], X).C[q - lo] =
              WordOf(execID, <<b, q - lo - 1>>, X[q - lo])
        BY <4>2 DEF SEinput
      <4>4. InputID(q - 1) = <<b, q - lo - 1>>
        BY <4>1, BatchNumbers
      <4>5. X[q - lo] = InputWord(q)
        <5>1. lo + (q - lo) = q
          BY <2>2, <4>1
        <5>2. QED
          BY <4>2, <5>1 DEF Batch, InputWord
      <4>6. QED
        BY <1>5, <4>1, <4>3, <4>4, <4>5
    <3>3. QED
      BY <2>1, <2>2, <3>1, <3>2
  <2>4. b' * l_out = lo /\ DOMAIN C' = DOMAIN C
    BY <1>5
  <2>5. QED
    BY <1>1, <2>1, <2>3, <2>4 DEF InputWordsInv, BatchCount, InputWord
<1>10. DOMAIN memory' = Cells /\ pc' = "input"
  BY <1>1, <1>5 DEF HostInv, MemoryInv
<1>11. QED
  BY <1>6, <1>7, <1>8, <1>9, <1>10 DEF HostInv, MemoryInv, DictMatchesMemory

\* As many encrypted words as the program has inputs, or more.
LEMMA BatchesCover ==
  ASSUME NEW n \in Nat
  PROVE  n =< l_out * CeilDiv(n, l_out)
<1> DEFINE d == l_out
<1>1. d \in Nat \ {0}
  BY SizeAssumption
<1> HIDE DEF d
<1>2. n =< d * ((n + d - 1) \div d)
  BY <1>1
<1>3. QED
  BY <1>2 DEF d, CeilDiv

\* What the host stores in the input cells of the program.
LEMMA InputsStored ==
  ASSUME SerializerInv, HostInv, StoreInputs
  PROVE  /\ DOMAIN memory' = Cells
         /\ \A c \in RangeOf(prog.inputs) :
              /\ c \in Cells
              /\ memory'[c] = Encrypted(WordOf(execID, dicts[1][c],
                                prog_inps[LastPos(prog.inputs, c)]))
         /\ \A c \in Cells \ RangeOf(prog.inputs) : memory'[c] = Junk
<1>1. /\ pc = "input" /\ b = 0
      /\ memory' = Stored(memory, bc.mem_inps, C)
  BY DEF StoreInputs
<1>2. /\ spc = "done" /\ memory = [c \in Cells |-> Junk]
      /\ Len(prog_inps) = Len(prog.inputs)
  BY <1>1 DEF HostInv, ControlInv, InputsInv
<1>3. /\ prog \in Programs /\ bc.mem_inps = prog.inputs
      /\ dicts[1] = InputDict(prog)
      /\ Len(prog.inputs) \in Nat
      /\ prog.inputs \in Seq(Cells)
  BY <1>2, BytecodeIs, ProgramFacts
<1>4. ASSUME NEW q \in 1 .. Len(prog.inputs)
      PROVE  C[q] = Encrypted(WordOf(execID, InputID(q - 1), prog_inps[q]))
  <2>1. q \in DOMAIN C
    <3> DEFINE L == l_out * CeilDiv(Len(prog.inputs), l_out)
    <3>1. Len(prog.inputs) =< L
      BY <1>3, BatchesCover
    <3>2. DOMAIN C = 1 .. L
      BY <1>1, <1>2 DEF HostInv, InputWordsInv, BatchCount
    <3>3. L \in Int
      BY <1>3, SizeAssumption DEF CeilDiv
    <3> HIDE DEF L
    <3>4. QED
      BY <1>3, <3>1, <3>2, <3>3
  <2>2. q > b * l_out
    BY <1>1, SizeAssumption
  <2>3. InputWord(q) = prog_inps[q]
    BY <1>2, <1>3 DEF InputWord
  <2>4. QED
    BY <1>1, <2>1, <2>2, <2>3 DEF HostInv, InputWordsInv
<1>5. memory' = [c \in Cells |->
                   IF c \in RangeOf(prog.inputs)
                   THEN C[LastPos(prog.inputs, c)] ELSE Junk]
  BY <1>1, <1>2, <1>3 DEF Stored
<1>6. ASSUME NEW c \in RangeOf(prog.inputs)
      PROVE  /\ c \in Cells
             /\ memory'[c] = Encrypted(WordOf(execID, dicts[1][c],
                               prog_inps[LastPos(prog.inputs, c)]))
  <2> DEFINE q == LastPos(prog.inputs, c)
  <2>1. q \in 1 .. Len(prog.inputs)
    BY <1>3, LastPosIs
  <2>2. c \in Cells
    BY <1>3 DEF RangeOf
  <2>3. memory'[c] = C[q]
    BY <1>5, <2>2
  <2>4. dicts[1][c] = InputID(q - 1)
    BY <1>3 DEF InputDict
  <2> HIDE DEF q
  <2>5. QED
    BY <1>4, <2>1, <2>2, <2>3, <2>4 DEF q
<1>7. QED
  BY <1>5, <1>6

LEMMA StoreInputsStep ==
  ASSUME SerializerInv, HostInv, StoreInputs
  PROVE  HostInv'
<1>1. /\ pc = "input" /\ pc' = "eval"
      /\ UNCHANGED <<prog, spc, dicts, execID, esharedkey, i, k>>
  BY DEF StoreInputs, svars, session
<1>2. /\ spc = "done" /\ i = 1 /\ k = 1
      /\ prog \in Programs /\ dicts[1] = InputDict(prog)
      /\ Len(prog.instrs) \in Nat
  BY <1>1, BytecodeIs, ProgramFacts DEF HostInv, ControlInv
<1>3. DOMAIN dicts[1] = RangeOf(prog.inputs)
  BY <1>2 DEF InputDict
<1>4. DictMatchesMemory'
  <2> SUFFICES ASSUME NEW c \in Cells
      PROVE  /\ memory'[c].kind = "ct" =>
                 /\ c \in DOMAIN dicts[1]
                 /\ memory'[c].ct = WordOf(execID, dicts[1][c], memory'[c].ct.msg)
             /\ c \in DOMAIN dicts[1] => memory'[c].kind = "ct"
    BY <1>1, <1>2 DEF DictMatchesMemory
  <2>1. CASE c \in RangeOf(prog.inputs)
    <3>1. PICK x : memory'[c] = Encrypted(WordOf(execID, dicts[1][c], x))
      BY <2>1, InputsStored
    <3>2. /\ memory'[c].kind = "ct"
          /\ memory'[c].ct = WordOf(execID, dicts[1][c], x)
      BY <3>1 DEF Encrypted
    <3>3. memory'[c].ct.msg = x
      BY <3>2 DEF WordOf, AEAD
    <3>4. QED
      BY <1>3, <2>1, <3>2, <3>3
  <2>2. CASE c \notin RangeOf(prog.inputs)
    <3>1. memory'[c].kind = "junk"
      BY <2>2, InputsStored DEF Junk
    <3>2. QED
      BY <1>3, <2>2, <3>1
  <2>3. QED
    BY <2>1, <2>2
<1>5. MemoryInv'
  BY <1>1, <1>2, <1>4, InputsStored DEF MemoryInv
<1>6. ControlInv'
  BY <1>1, <1>2 DEF ControlInv
<1>7. QED
  BY <1>1, <1>5, <1>6 DEF HostInv, InputsInv, ChainInv, SessionInv, InputWordsInv

\* What an LLMI loads: encrypted words under the numbers its snippet names.
\* A cell it reads was written, and by no LLMI that reveals.
LEMMA LLMIReads ==
  ASSUME SerializerInv, HostInv, pc = "eval", i \in 1 .. Len(prog.instrs),
         NEW j \in 1 .. Len(prog.instrs[i].inputs)
  PROVE  LET c == prog.instrs[i].inputs[j] IN
         /\ c \in Cells
         /\ memory[c].kind = "ct"
         /\ memory[c].ct = WordOf(execID, dicts[i][c], memory[c].ct.msg)
<1> DEFINE c == prog.instrs[i].inputs[j]
<1>1. spc = "done" /\ prog \in Programs
  BY BytecodeIs DEF HostInv, ControlInv
<1>2. LLMIShape(prog.instrs[i]) /\ Len(prog.instrs) \in Nat
  BY <1>1, ProgramFacts
<1>3. c \in Cells /\ c \in RangeOf(prog.instrs[i].inputs)
  BY <1>2 DEF LLMIShape, RangeOf
<1>4. WrittenBefore(prog, i, c)
  BY <1>1, <1>3, ProgramFacts DEF DefinedBeforeUse, WrittenBefore
<1>5. c \in DOMAIN dicts[i]
  BY <1>1, <1>2, <1>3, <1>4, BytecodeIs
<1>6. ASSUME NEW n \in 1 .. i - 1, Reveals(prog, n)
      PROVE  c \notin RangeOf(prog.instrs[n].outputs)
  <2>1. n \in 1 .. Len(prog.instrs) /\ i \in n + 1 .. Len(prog.instrs)
    BY <1>2
  <2>2. RangeOf(prog.instrs[n].outputs) \cap RangeOf(prog.instrs[i].inputs) = {}
    BY <1>1, <1>6, <2>1, ProgramFacts DEF RevealedLast
  <2>3. QED
    BY <1>3, <2>2
<1> HIDE DEF c
<1>7. memory[c].kind = "ct"
  BY <1>3, <1>5, <1>6 DEF HostInv, MemoryInv, DictMatchesMemory
<1>8. memory[c].ct = WordOf(execID, dicts[i][c], memory[c].ct.msg)
  BY <1>3, <1>7 DEF HostInv, MemoryInv, DictMatchesMemory
<1>9. QED
  BY <1>3, <1>7, <1>8 DEF c

\* SEeval accepts the LLMI: shared key, snippet and input words all open.
LEMMA EvalAccepted ==
  ASSUME SerializerInv, HostInv, pc = "eval", i \in 1 .. Len(prog.instrs)
  PROVE  SEevalOk(execID, esharedkey, LLMI.aells, Cx)
<1>1. spc = "done" /\ esharedkey = ESharedKey(execID, K_S)
  BY DEF HostInv, ControlInv, SessionInv
<1>2. /\ Opens(esharedkey, K_SE, Hash("1", execID), <<>>)
      /\ esharedkey.msg = K_S
  BY <1>1 DEF ESharedKey, AEAD, Opens
<1>3. Opens(LLMI.aells.bytecode, K_S, LLMI.aells.instrID, AellsAd(LLMI.aells))
  BY <1>1, LLMIIs DEF AEAD, Opens
<1>4. ASSUME NEW j \in 1 .. Len(prog.instrs[i].inputs)
      PROVE  EWORDOk(execID, LLMI.aells.inputIDs[j], Cx[j])
  <2> DEFINE c == prog.instrs[i].inputs[j]
  <2>1. /\ memory[c].kind = "ct"
        /\ memory[c].ct = WordOf(execID, dicts[i][c], memory[c].ct.msg)
    BY LLMIReads
  <2>2. LLMI.aells.inputIDs[j] = dicts[i][c] /\ Cx[j] = memory[c]
    BY <1>1, LLMIIs DEF Cx
  <2> HIDE DEF c
  <2>3. QED
    BY <2>1, <2>2 DEF EWORDOk, Opens, WordOf, AEAD
<1>5. Len(LLMI.aells.inputIDs) = Len(prog.instrs[i].inputs)
  <2>1. Len(prog.instrs[i].inputs) \in Nat
    BY <1>1, BytecodeIs, ProgramFacts DEF LLMIShape
  <2>2. QED
    BY <1>1, <2>1, LLMIIs
<1>6. QED
  BY <1>2, <1>3, <1>4, <1>5 DEF SEevalOk

LEMMA EvalCallStep ==
  ASSUME SerializerInv, HostInv, EvalCall
  PROVE  HostInv'
<1>1. /\ pc = "eval" /\ i =< Len(bc.llmis)
      /\ UNCHANGED <<prog, spc, dicts, execID, esharedkey, memory, i, k>>
  BY DEF EvalCall, svars, session
<1>2. /\ spc = "done" /\ k = 1 /\ i \in 1 .. Len(prog.instrs) + 1
      /\ prog \in Programs /\ Len(bc.llmis) = Len(prog.instrs)
      /\ Len(prog.instrs) \in Nat
  BY <1>1, BytecodeIs, ProgramFacts DEF HostInv, ControlInv
<1>3. i \in 1 .. Len(prog.instrs)
  BY <1>1, <1>2
<1>4. pc' = "lls"
  BY <1>1, <1>3, EvalAccepted DEF EvalCall
<1>5. k \in 1 .. Len(prog.instrs[i].seq) + 1
  BY <1>2, <1>3, ProgramFacts DEF LLMIShape
<1>6. ControlInv'
  BY <1>1, <1>2, <1>3, <1>4, <1>5 DEF ControlInv
<1>7. MemoryInv'
  BY <1>1, <1>4 DEF HostInv, MemoryInv, DictMatchesMemory
<1>8. QED
  BY <1>1, <1>4, <1>6, <1>7 DEF HostInv, InputsInv, ChainInv, SessionInv,
     InputWordsInv

\* No snippet of a well-formed program is too long for LLS_execute.
LEMMA ExecuteLLIStep ==
  ASSUME SerializerInv, HostInv, ExecuteLLI
  PROVE  HostInv'
<1>1. /\ pc = "lls" /\ k =< Len(LLS)
      /\ UNCHANGED <<prog, spc, dicts, execID, esharedkey, memory, i>>
  BY DEF ExecuteLLI, svars, session
<1>2. /\ spc = "done" /\ i \in 1 .. Len(prog.instrs)
      /\ k \in 1 .. Len(prog.instrs[i].seq) + 1
  BY <1>1 DEF HostInv, ControlInv
<1>3. /\ LLS = prog.instrs[i].seq /\ Len(LLS) \in Nat
      /\ Len(LLS) =< LLS_MAX_LENGTH
  <2>1. LLMIShape(prog.instrs[i])
    BY <1>2, BytecodeIs, ProgramFacts
  <2>2. LLS = prog.instrs[i].seq
    BY <1>2, LLMIIs
  <2>3. QED
    BY <2>1, <2>2 DEF LLMIShape
<1>4. ~ (k > LLS_MAX_LENGTH)
  BY <1>1, <1>2, <1>3, SizeAssumption
<1>5. \/ pc' = "trap" /\ k' = k
      \/ pc' = "lls" /\ k' = k + 1
  BY <1>1, <1>4 DEF ExecuteLLI
<1>6. k + 1 \in 1 .. Len(prog.instrs[i].seq) + 1
  BY <1>1, <1>2, <1>3
<1>7. ControlInv'
  BY <1>1, <1>2, <1>5, <1>6 DEF ControlInv
<1>8. MemoryInv'
  BY <1>1, <1>5 DEF HostInv, MemoryInv, DictMatchesMemory
<1>9. QED
  BY <1>1, <1>5, <1>7, <1>8 DEF HostInv, InputsInv, ChainInv, SessionInv,
     InputWordsInv

LEMMA FinishStep ==
  ASSUME SerializerInv, HostInv, Finish
  PROVE  HostInv'
<1>1. /\ pc = "eval" /\ pc' = "done" /\ i > Len(bc.llmis)
      /\ UNCHANGED <<prog, spc, memory, i>>
  BY DEF Finish, svars
<1>2. /\ spc = "done" /\ i \in 1 .. Len(prog.instrs) + 1
      /\ Len(bc.llmis) = Len(prog.instrs) /\ Len(prog.instrs) \in Nat
  BY <1>1, BytecodeIs, ProgramFacts DEF HostInv, ControlInv
<1>3. i = Len(prog.instrs) + 1
  BY <1>1, <1>2
<1>4. ControlInv'
  BY <1>1, <1>2, <1>3 DEF ControlInv
<1>5. MemoryInv'
  BY <1>1 DEF HostInv, MemoryInv, DictMatchesMemory
<1>6. QED
  BY <1>1, <1>4, <1>5 DEF HostInv, InputsInv, ChainInv, SessionInv, InputWordsInv

\* What the host finds in its cells after SEeval: the words of the output
\* registers, in the clear or encrypted under the numbers serialize() entered
\* in its table.
LEMMA EvalStoresWords ==
  ASSUME SerializerInv, HostInv, EvalReturn
  PROVE  LET outs == prog.instrs[i].outputs IN
         \E w \in [1 .. Len(outs) -> Words] :
           /\ \A j \in 1 .. Len(outs) : w[j] \in RegValues(reg, OutputReg(j))
           /\ DOMAIN memory' = Cells
           /\ \A c \in RangeOf(outs) :
                memory'[c] =
                  IF Reveals(prog, i) THEN Clear(w[LastPos(outs, c)])
                  ELSE Encrypted(WordOf(execID, dicts[i + 1][c],
                                        w[LastPos(outs, c)]))
           /\ \A c \in Cells \ RangeOf(outs) : memory'[c] = memory[c]
<1> DEFINE outs == prog.instrs[i].outputs
           a == LLMI.aells
<1>1. pc = "lls" /\ spc = "done" /\ i \in 1 .. Len(prog.instrs)
  BY DEF EvalReturn, HostInv, ControlInv
<1>2. /\ prog \in Programs /\ LLMIShape(prog.instrs[i])
      /\ dicts[i + 1] = UpdatedDict(dicts[i], prog, i)
  BY <1>1, BytecodeIs, ProgramFacts
<1>3. /\ LLMI.mem_outs = outs
      /\ a.instrID = InstrID(prog, i)
      /\ a.reveal_flag = (IF Reveals(prog, i) THEN 1 ELSE 0)
      /\ a.out_count = Len(outs)
  BY <1>1, LLMIIs
<1> HIDE DEF a
<1>4. PICK w \in [1 .. a.out_count -> Words] :
        /\ \A j \in 1 .. a.out_count : w[j] \in RegValues(reg, OutputReg(j))
        /\ memory' = Stored(memory, LLMI.mem_outs,
                            [j \in 1 .. a.out_count |->
                               SEevalOutput(execID, a, j, w[j])])
  BY DEF EvalReturn, a
<1>5. DOMAIN memory = Cells
  BY DEF HostInv, MemoryInv
<1>6. memory' = [c \in Cells |->
                   IF c \in RangeOf(outs)
                   THEN SEevalOutput(execID, a, LastPos(outs, c),
                                     w[LastPos(outs, c)])
                   ELSE memory[c]]
  <2>1. Len(outs) \in Nat
    BY <1>2 DEF LLMIShape
  <2>2. \A c \in RangeOf(outs) : LastPos(outs, c) \in 1 .. a.out_count
    BY <1>3, <2>1, LastPosIs
  <2> HIDE DEF outs
  <2>3. QED
    BY <1>3, <1>4, <1>5, <2>2 DEF Stored
<1>7. \A c \in RangeOf(outs) : c \in Cells
  BY <1>2 DEF LLMIShape, RangeOf
<1>8. ASSUME NEW c \in RangeOf(outs)
      PROVE  memory'[c] =
               IF Reveals(prog, i) THEN Clear(w[LastPos(outs, c)])
               ELSE Encrypted(WordOf(execID, dicts[i + 1][c],
                                     w[LastPos(outs, c)]))
  <2> DEFINE q == LastPos(outs, c)
  <2>1. memory'[c] = SEevalOutput(execID, a, q, w[q])
    BY <1>6, <1>7
  <2>2. dicts[i + 1][c] = <<InstrID(prog, i), q - 1>>
    BY <1>2 DEF UpdatedDict
  <2> HIDE DEF q
  <2>3. CASE Reveals(prog, i)
    BY <1>3, <2>1, <2>3 DEF SEevalOutput, q
  <2>4. CASE ~ Reveals(prog, i)
    BY <1>3, <2>1, <2>2, <2>4 DEF SEevalOutput, q
  <2>5. QED
    BY <2>3, <2>4
<1>9. QED
  BY <1>3, <1>4, <1>6, <1>7, <1>8

LEMMA EvalStores ==
  ASSUME SerializerInv, HostInv, EvalReturn
  PROVE  /\ DOMAIN memory' = Cells
         /\ \A c \in RangeOf(prog.instrs[i].outputs) :
              IF Reveals(prog, i)
              THEN \E x : memory'[c] = Clear(x)
              ELSE \E x : memory'[c] =
                            Encrypted(WordOf(execID, dicts[i + 1][c], x))
         /\ \A c \in Cells \ RangeOf(prog.instrs[i].outputs) :
              memory'[c] = memory[c]
<1>1. PICK w \in [1 .. Len(prog.instrs[i].outputs) -> Words] :
        /\ DOMAIN memory' = Cells
        /\ \A c \in RangeOf(prog.instrs[i].outputs) :
             memory'[c] =
               IF Reveals(prog, i)
               THEN Clear(w[LastPos(prog.instrs[i].outputs, c)])
               ELSE Encrypted(WordOf(execID, dicts[i + 1][c],
                                     w[LastPos(prog.instrs[i].outputs, c)]))
        /\ \A c \in Cells \ RangeOf(prog.instrs[i].outputs) :
             memory'[c] = memory[c]
  BY EvalStoresWords
<1>2. QED
  BY <1>1, Zenon

LEMMA EvalReturnStep ==
  ASSUME SerializerInv, HostInv, EvalReturn
  PROVE  HostInv'
<1> DEFINE outs == prog.instrs[i].outputs
<1>1. /\ pc = "lls" /\ pc' = "eval" /\ i' = i + 1 /\ k' = 1
      /\ UNCHANGED <<prog, spc, dicts, bc, execID, esharedkey>>
  BY DEF EvalReturn, svars, session
<1>2. /\ spc = "done" /\ i \in 1 .. Len(prog.instrs)
      /\ prog \in Programs /\ Len(prog.instrs) \in Nat
      /\ dicts[i + 1] = UpdatedDict(dicts[i], prog, i)
  BY <1>1, BytecodeIs, ProgramFacts DEF HostInv, ControlInv
<1>3. /\ \A c \in Cells \ RangeOf(outs) :
           /\ memory'[c] = memory[c]
           /\ c \in DOMAIN dicts[i + 1] <=> c \in DOMAIN dicts[i]
           /\ c \in DOMAIN dicts[i] => dicts[i + 1][c] = dicts[i][c]
      /\ \A c \in RangeOf(outs) : c \in DOMAIN dicts[i + 1]
  BY <1>2, EvalStores DEF UpdatedDict
<1>4. ASSUME NEW c \in Cells
      PROVE  /\ memory'[c].kind = "ct" =>
                  /\ c \in DOMAIN dicts[i + 1]
                  /\ memory'[c].ct =
                       WordOf(execID, dicts[i + 1][c], memory'[c].ct.msg)
             /\ c \in DOMAIN dicts[i + 1] =>
                  \/ memory'[c].kind = "ct"
                  \/ /\ memory'[c].kind = "clear"
                     /\ \E n \in 1 .. i : /\ Reveals(prog, n)
                                          /\ c \in RangeOf(prog.instrs[n].outputs)
  <2>1. CASE c \notin RangeOf(outs)
    <3>1. /\ memory[c].kind = "ct" =>
               /\ c \in DOMAIN dicts[i]
               /\ memory[c].ct = WordOf(execID, dicts[i][c], memory[c].ct.msg)
          /\ c \in DOMAIN dicts[i] =>
               \/ memory[c].kind = "ct"
               \/ /\ memory[c].kind = "clear"
                  /\ \E n \in 1 .. i - 1 :
                       Reveals(prog, n) /\ c \in RangeOf(prog.instrs[n].outputs)
      BY <1>1 DEF HostInv, MemoryInv, DictMatchesMemory
    <3>2. 1 .. i - 1 \subseteq 1 .. i
      BY <1>2
    <3>3. QED
      BY <1>3, <2>1, <3>1, <3>2
  <2>2. CASE c \in RangeOf(outs) /\ Reveals(prog, i)
    <3>1. PICK x : memory'[c] = Clear(x)
      BY <2>2, EvalStores
    <3>2. memory'[c].kind = "clear"
      BY <3>1 DEF Clear
    <3>3. i \in 1 .. i
      BY <1>2
    <3>4. QED
      BY <2>2, <3>2, <3>3
  <2>3. CASE c \in RangeOf(outs) /\ ~ Reveals(prog, i)
    <3>1. PICK x : memory'[c] = Encrypted(WordOf(execID, dicts[i + 1][c], x))
      BY <2>3, EvalStores
    <3>2. /\ memory'[c].kind = "ct"
          /\ memory'[c].ct = WordOf(execID, dicts[i + 1][c], x)
      BY <3>1 DEF Encrypted
    <3>3. memory'[c].ct.msg = x
      BY <3>2 DEF WordOf, AEAD
    <3>4. QED
      BY <1>3, <2>3, <3>2, <3>3
  <2>4. QED
    BY <2>1, <2>2, <2>3
<1>5. DictMatchesMemory'
  <2>1. (i + 1) - 1 = i
    BY <1>2
  <2>2. QED
    BY <1>1, <1>4, <2>1 DEF DictMatchesMemory, Reveals
<1>6. ASSUME NEW c \in RangeOf(prog.outputs), NEW n \in 1 .. i,
             c \in RangeOf(prog.instrs[n].outputs)
      PROVE  memory'[c].kind = "clear"
  <2>1. c \in Cells
    BY <1>2, ProgramFacts DEF RangeOf
  <2>2. CASE c \in RangeOf(outs)
    <3>1. Reveals(prog, i)
      BY <2>2 DEF Reveals
    <3>2. PICK x : memory'[c] = Clear(x)
      BY <2>2, <3>1, EvalStores
    <3>3. QED
      BY <3>2 DEF Clear
  <2>3. CASE c \notin RangeOf(outs)
    <3>1. n \in 1 .. i - 1
      BY <1>2, <1>6, <2>3
    <3>2. memory[c].kind = "clear"
      BY <1>1, <1>6, <3>1 DEF HostInv, MemoryInv
    <3>3. QED
      BY <1>3, <2>1, <2>3, <3>2
  <2>4. QED
    BY <2>2, <2>3
<1>7. MemoryInv'
  <2>1. (i + 1) - 1 = i
    BY <1>2
  <2>2. QED
    BY <1>1, <1>5, <1>6, <2>1, EvalStores DEF MemoryInv
<1>8. ControlInv'
  BY <1>1, <1>2 DEF ControlInv
<1>9. QED
  BY <1>1, <1>7, <1>8 DEF HostInv, InputsInv, ChainInv, SessionInv, InputWordsInv

-----------------------------------------------------------------------------
(***************************************************************************)
(* The system.                                                             *)
(***************************************************************************)
LEMMA HostInvNext == SerializerInv /\ HostInv /\ [Next]_vars => HostInv'
<1> SUFFICES ASSUME SerializerInv, HostInv, [Next]_vars PROVE HostInv'
  OBVIOUS
<1>1. CASE Compile
  BY <1>1, CompileStep
<1>2. CASE Invoke
  BY <1>2, InvokeStep
<1>3. CASE HostStep
  BY <1>3, LoadStep, HashBatchStep, StartStep, InputStep, StoreInputsStep,
     EvalCallStep, ExecuteLLIStep, EvalReturnStep, FinishStep DEF HostStep
<1>4. CASE UNCHANGED vars
  BY <1>4 DEF vars, svars, ivars, HostInv, ControlInv, InputsInv, ChainInv,
     SessionInv, InputWordsInv, MemoryInv, DictMatchesMemory, InputWord
<1>5. QED
  BY <1>1, <1>2, <1>3, <1>4 DEF Next

\* The inductive invariant: tables, bytecode, session and memory fit together
\* in every reachable state.
THEOREM Invariance == Spec => []IInv
<1>1. IInit => IInv
  BY SerializerInvInit, HostInvInit DEF IInv
<1>2. IInv /\ [Next]_vars => IInv'
  BY SerializerInvNext, HostInvNext DEF IInv
<1>3. QED
  BY <1>1, <1>2, PTL DEF Spec

\* The element never rejects what compiler and host ask of it, whatever the
\* program, the sizes and the command line.
THEOREM AlwaysAccepted == Spec => []Accepted
<1>1. IInv => Accepted
  BY DEF IInv, SerializerInv, HostInv, ControlInv, Accepted
<1>2. QED
  BY <1>1, Invariance, PTL

\* The table of serialize() names the word in every encrypted cell.
THEOREM DictAlwaysMatches == Spec => []DictMatchesMemory
<1>1. IInv => DictMatchesMemory
  BY DEF IInv, HostInv, MemoryInv
<1>2. QED
  BY <1>1, Invariance, PTL

\* The outputs the host prints are words, never the bytes of a ciphertext.
THEOREM OutputsAlwaysClear == Spec => []OutputsInClear
<1>1. IInv => OutputsInClear
  <2> SUFFICES ASSUME IInv, pc = "done", NEW c \in RangeOf(prog.outputs)
               PROVE  memory[c].kind = "clear"
    BY DEF OutputsInClear
  <2>1. spc = "done" /\ i = Len(prog.instrs) + 1 /\ prog \in Programs
    BY DEF IInv, HostInv, ControlInv, SerializerInv
  <2>2. PICK n \in 1 .. Len(prog.instrs) : c \in RangeOf(prog.instrs[n].outputs)
    BY <2>1, ProgramFacts DEF RevealedLast
  <2>3. n \in 1 .. i - 1
    BY <2>1, <2>2, ProgramFacts
  <2>4. QED
    BY <2>2, <2>3 DEF IInv, HostInv, MemoryInv
<1>2. QED
  BY <1>1, Invariance, PTL

-----------------------------------------------------------------------------
(***************************************************************************)
(* The refinement: every step of compiler, host and element is a step of   *)
(* the plain machine or leaves it alone.                                   *)
(***************************************************************************)
PlainMem == [c \in Cells |-> PlainWord(memory[c])]

LEMMA PlainWordIs ==
  ASSUME NEW x
  PROVE  /\ PlainWord(Clear(x)) = x
         /\ \A e, id : PlainWord(Encrypted(WordOf(e, id, x))) = x
         /\ PlainWord(Junk) = Uninit
  BY DEF PlainWord, Clear, Encrypted, Junk, WordOf, AEAD

\* The instance of LLIR inside the plain machine is the one used here.
LEMMA SameOperators ==
  /\ Plain!Uninit = Uninit /\ Plain!Trap = Trap
  /\ Plain!NoRegs = NoRegs /\ Plain!Regs = Regs
  /\ Plain!NoWords = [c \in Cells |-> Uninit]
  /\ \A sq : Plain!RangeOf(sq) = RangeOf(sq)
  /\ \A sq, x : Plain!LastPos(sq, x) = LastPos(sq, x)
  /\ \A q, n : Plain!RegValues(q, n) = RegValues(q, n)
  /\ \A q, lli : Plain!LLIOutcomes(q, lli) = LLIOutcomes(q, lli)
  /\ \A j : Plain!OutputReg(j) = OutputReg(j)
<1>1. Plain!Uninit = Uninit /\ Plain!Trap = Trap /\ Plain!Regs = Regs
  BY DEF Plain!Uninit, Uninit, Plain!Trap, Trap, Plain!Regs, Regs
<1>2. /\ Plain!NoRegs = NoRegs
      /\ Plain!NoWords = [c \in Cells |-> Uninit]
  BY <1>1 DEF Plain!NoRegs, NoRegs, Plain!NoWords
<1>3. ASSUME NEW sq, NEW x
      PROVE  /\ Plain!RangeOf(sq) = RangeOf(sq)
             /\ Plain!LastPos(sq, x) = LastPos(sq, x)
  BY DEF Plain!RangeOf, RangeOf, Plain!LastPos, LastPos
<1>4. ASSUME NEW q, NEW n
      PROVE  Plain!RegValues(q, n) = RegValues(q, n)
  BY <1>1 DEF Plain!RegValues, RegValues
<1>5. ASSUME NEW q, NEW lli
      PROVE  Plain!LLIOutcomes(q, lli) = LLIOutcomes(q, lli)
  BY <1>1 DEF Plain!LLIOutcomes, LLIOutcomes, Plain!OperandValues,
     OperandValues, Plain!RegValues, RegValues
<1>6. ASSUME NEW j
      PROVE  Plain!OutputReg(j) = OutputReg(j)
  BY DEF Plain!OutputReg, OutputReg
<1>7. QED
  BY <1>1, <1>2, <1>3, <1>4, <1>5, <1>6

LEMMA InitRefines == IInit => Plain!PInit
<1> SUFFICES ASSUME IInit PROVE Plain!PInit
  OBVIOUS
<1>1. /\ prog \in Programs /\ pc = "idle" /\ prog_inps = <<>> /\ i = 1
      /\ memory = [c \in Cells |-> Junk]
      /\ reg = NoRegs /\ k = 1 /\ prog_outs = <<>>
  BY DEF IInit, SerInit
<1>2. PlainMem = [c \in Cells |-> Uninit]
  BY <1>1, PlainWordIs DEF PlainMem
<1>3. PlainPc = "idle"
  BY <1>1 DEF PlainPc
<1>4. QED
  BY <1>1, <1>2, <1>3 DEF Plain!PInit, PlainMem, Plain!NoWords, Plain!NoRegs,
     NoRegs, Plain!Regs, Regs, Plain!Uninit, Uninit

\* The plain machine does not see the compiler, the checks and the encryption
\* of the inputs.
LEMMA QuietSteps ==
  ASSUME IInv, [Next]_vars,
         Compile \/ HashBatch \/ Start \/ Input \/ UNCHANGED vars
  PROVE  UNCHANGED Plain!pvars
<1>1. /\ UNCHANGED <<prog, prog_inps, memory, i, reg, k, prog_outs>>
      /\ pc' = pc \/ pc = "hash" \/ pc = "input"
      /\ pc = "hash" => pc' \in {"hash", "input", "bad_start"}
      /\ pc = "input" => pc' \in {"input", "bad_input"}
  <2>1. CASE Compile
    BY <2>1 DEF Compile, SerNext, SerializeHeader, SerializeLLMI, SerializeEnd, ivars
  <2>2. CASE HashBatch
    BY <2>2 DEF HashBatch, svars, argv
  <2>3. CASE Start
    BY <2>3 DEF Start, svars, argv
  <2>4. CASE Input
    BY <2>4 DEF Input, svars, argv
  <2>5. CASE UNCHANGED vars
    BY <2>5 DEF vars, svars, ivars
  <2>6. QED
    BY <2>1, <2>2, <2>3, <2>4, <2>5
<1>2. pc' \notin {"bad_start", "bad_input"}
  BY HostInvNext DEF IInv, HostInv, ControlInv
<1>3. UNCHANGED PlainPc
  BY <1>1, <1>2 DEF PlainPc
<1>4. QED
  BY <1>1, <1>3 DEF Plain!pvars

LEMMA InvokeRefines ==
  ASSUME IInv, Invoke
  PROVE  Plain!PInvoke
<1>1. /\ pc \in Stopped \cup {"idle"} /\ pc' = "load" /\ i' = 1 /\ k' = 1
      /\ reg' = NoRegs /\ prog_outs' = <<>> /\ prog' = prog
      /\ memory' = [c \in Cells |-> Junk]
  BY DEF Invoke, svars
<1>2. pc \in {"idle", "done", "trap", "bad_args"}
  BY <1>1 DEF IInv, HostInv, ControlInv, Stopped
<1>3. prog_inps' \in Seq(Words)
  BY <1>1, InvokeStep DEF IInv, HostInv, InputsInv
<1>4. PlainMem' = [c \in Cells |-> Uninit]
  BY <1>1, PlainWordIs DEF PlainMem
<1>5. PlainPc = pc /\ PlainPc' = "given"
  BY <1>1, <1>2 DEF PlainPc
<1>6. QED
  BY <1>1, <1>2, <1>3, <1>4, <1>5, SameOperators DEF Plain!PInvoke, PlainMem

LEMMA LoadRefines ==
  ASSUME IInv, Load
  PROVE  Plain!PRefuse \/ UNCHANGED Plain!pvars
<1>1. /\ pc = "load" /\ pc' \in {"hash", "bad_args"}
      /\ UNCHANGED <<prog, prog_inps, memory, i, reg, k, prog_outs>>
  BY DEF Load, svars, argv
<1>2. CASE pc' = "hash"
  BY <1>1, <1>2 DEF Plain!pvars, PlainPc
<1>3. CASE pc' = "bad_args"
  BY <1>1, <1>3 DEF Plain!PRefuse, PlainPc
<1>4. QED
  BY <1>1, <1>2, <1>3

\* The words the plain machine starts on are the ones that were encrypted.
LEMMA StoreInputsRefines ==
  ASSUME IInv, StoreInputs
  PROVE  Plain!PStart
<1>1. /\ pc = "input" /\ pc' = "eval" /\ SerializerInv /\ HostInv
      /\ UNCHANGED <<prog, prog_inps, i, reg, k, prog_outs>>
  BY DEF StoreInputs, svars, argv, IInv
<1>2. Len(prog_inps) = Len(prog.inputs) /\ memory = [c \in Cells |-> Junk]
  BY <1>1 DEF HostInv, InputsInv, ControlInv
<1>3. ASSUME NEW c \in Cells
      PROVE  PlainWord(memory'[c]) =
               IF c \in RangeOf(prog.inputs)
               THEN prog_inps[LastPos(prog.inputs, c)]
               ELSE PlainWord(memory[c])
  <2>1. CASE c \in RangeOf(prog.inputs)
    <3> DEFINE x == prog_inps[LastPos(prog.inputs, c)]
    <3>1. memory'[c] = Encrypted(WordOf(execID, dicts[1][c], x))
      BY <1>1, <2>1, InputsStored
    <3> HIDE DEF x
    <3>2. PlainWord(memory'[c]) = x
      BY <3>1, PlainWordIs
    <3>3. QED
      BY <2>1, <3>2 DEF x
  <2>2. CASE c \notin RangeOf(prog.inputs)
    BY <1>1, <1>2, <2>2, InputsStored
  <2>3. QED
    BY <2>1, <2>2
<1>4. PlainPc = "given" /\ PlainPc' = "eval"
  BY <1>1 DEF PlainPc
<1>5. QED
  BY <1>1, <1>2, <1>3, <1>4, SameOperators DEF Plain!PStart

LEMMA EvalCallRefines ==
  ASSUME IInv, EvalCall
  PROVE  Plain!PLoad
<1> DEFINE mi == prog.instrs[i]
<1>1. /\ pc = "eval" /\ i =< Len(bc.llmis) /\ SerializerInv /\ HostInv
      /\ UNCHANGED <<prog, prog_inps, memory, i, k, prog_outs>>
  BY DEF EvalCall, svars, argv, IInv
<1>2. /\ spc = "done" /\ i \in 1 .. Len(prog.instrs) + 1
      /\ Len(bc.llmis) = Len(prog.instrs) /\ prog \in Programs
      /\ Len(prog.instrs) \in Nat
  BY <1>1, BytecodeIs, ProgramFacts DEF HostInv, ControlInv
<1>3. i \in 1 .. Len(prog.instrs)
  BY <1>1, <1>2
<1>4. pc' = "lls" /\ reg' = RegsAfterDecrypt(LLMI.aells, Cx)
  BY <1>1, <1>3, EvalAccepted DEF EvalCall
<1>5. Len(mi.inputs) \in Nat
  <2>1. LLMIShape(mi)
    BY <1>2, <1>3, ProgramFacts
  <2>2. QED
    BY <2>1 DEF LLMIShape
<1>6. Len(LLMI.aells.inputIDs) = Len(mi.inputs)
  BY <1>1, <1>2, <1>3, <1>5, LLMIIs
<1>7. ASSUME NEW n \in Regs, n < Len(mi.inputs)
      PROVE  Cx[n + 1].ct.msg = PlainMem[mi.inputs[n + 1]]
  <2>1. n + 1 \in 1 .. Len(mi.inputs)
    BY <1>5, <1>7, SizeAssumption DEF Regs
  <2> DEFINE c == mi.inputs[n + 1]
  <2>2. Cx[n + 1] = memory[c]
    BY <1>1, <1>2, <1>3, <2>1, LLMIIs DEF Cx
  <2>3. c \in Cells /\ memory[c].kind = "ct"
    BY <1>1, <1>3, <2>1, LLMIReads
  <2> HIDE DEF c
  <2>4. PlainMem[c] = memory[c].ct.msg
    BY <2>3 DEF PlainMem, PlainWord
  <2>5. QED
    BY <2>2, <2>4 DEF c
<1>8. reg' = [n \in Regs |->
                IF n < Len(mi.inputs) THEN PlainMem[mi.inputs[n + 1]] ELSE Uninit]
  BY <1>4, <1>6, <1>7 DEF RegsAfterDecrypt
<1>9. PlainPc = "eval" /\ PlainPc' = "lls"
  BY <1>1, <1>4 DEF PlainPc
<1>10. i =< Len(prog.instrs)
  BY <1>3
<1>11. QED
  BY <1>1, <1>8, <1>9, <1>10, SameOperators DEF Plain!PLoad, Plain!MI, PlainMem

LEMMA ExecuteLLIRefines ==
  ASSUME IInv, ExecuteLLI
  PROVE  Plain!PExecute
<1>1. /\ pc = "lls" /\ k =< Len(LLS)
      /\ UNCHANGED <<prog, prog_inps, memory, i, prog_outs>>
  BY DEF ExecuteLLI, svars, argv
<1>2. /\ spc = "done" /\ i \in 1 .. Len(prog.instrs) /\ SerializerInv
      /\ HostInv
  BY <1>1 DEF IInv, HostInv, ControlInv
<1>3. LLS = Plain!MI.seq
  BY <1>2, LLMIIs DEF Plain!MI
<1>4. pc' # "too_long"
  BY <1>2, ExecuteLLIStep DEF HostInv, ControlInv
<1>5. PICK v \in LLIOutcomes(reg, LLS[k]) :
        IF v = Trap
        THEN pc' = "trap" /\ UNCHANGED <<reg, k>>
        ELSE /\ reg' = [reg EXCEPT ![LLS[k].dst] = v]
             /\ k' = k + 1
             /\ UNCHANGED pc
  BY <1>4 DEF ExecuteLLI
<1>6. IF v = Trap
      THEN PlainPc' = "trap" /\ UNCHANGED <<reg, k>>
      ELSE /\ reg' = [reg EXCEPT ![LLS[k].dst] = v]
           /\ k' = k + 1
           /\ UNCHANGED PlainPc
  BY <1>5 DEF PlainPc
<1>7. PlainPc = "lls"
  BY <1>1 DEF PlainPc
<1>8. Plain!LLIOutcomes(reg, LLS[k]) = LLIOutcomes(reg, LLS[k])
      /\ Plain!Trap = Trap
  BY SameOperators
<1>9. QED
  BY <1>1, <1>3, <1>5, <1>6, <1>7, <1>8 DEF Plain!PExecute

LEMMA EvalReturnRefines ==
  ASSUME IInv, EvalReturn
  PROVE  Plain!PStore
<1> DEFINE outs == prog.instrs[i].outputs
<1>1. /\ pc = "lls" /\ pc' = "eval" /\ i' = i + 1 /\ k' = 1 /\ reg' = NoRegs
      /\ k > Len(LLS) /\ SerializerInv /\ HostInv
      /\ UNCHANGED <<prog, prog_inps, prog_outs>>
  BY DEF EvalReturn, svars, argv, IInv
<1>2. spc = "done" /\ i \in 1 .. Len(prog.instrs)
  BY <1>1 DEF HostInv, ControlInv
<1>3. LLS = Plain!MI.seq /\ Plain!MI.outputs = outs
  BY <1>1, <1>2, LLMIIs DEF Plain!MI
<1>4. PICK w \in [1 .. Len(outs) -> Words] :
        /\ \A j \in 1 .. Len(outs) : w[j] \in RegValues(reg, OutputReg(j))
        /\ \A c \in RangeOf(outs) :
             memory'[c] =
               IF Reveals(prog, i) THEN Clear(w[LastPos(outs, c)])
               ELSE Encrypted(WordOf(execID, dicts[i + 1][c],
                                     w[LastPos(outs, c)]))
        /\ \A c \in Cells \ RangeOf(outs) : memory'[c] = memory[c]
  BY <1>1, EvalStoresWords
<1>5. ASSUME NEW c \in Cells
      PROVE  PlainWord(memory'[c]) =
               IF c \in RangeOf(outs) THEN w[LastPos(outs, c)]
               ELSE PlainWord(memory[c])
  <2> DEFINE x == w[LastPos(outs, c)]
  <2>1. CASE c \in RangeOf(outs)
    <3>1. \/ memory'[c] = Clear(x)
          \/ memory'[c] = Encrypted(WordOf(execID, dicts[i + 1][c], x))
      BY <1>4, <2>1
    <3> HIDE DEF x
    <3>2. PlainWord(memory'[c]) = x
      BY <3>1, PlainWordIs
    <3>3. QED
      BY <2>1, <3>2 DEF x
  <2>2. CASE c \notin RangeOf(outs)
    BY <1>4, <2>2
  <2>3. QED
    BY <2>1, <2>2
<1>6. PlainMem' = [c \in Cells |->
                     IF c \in RangeOf(outs) THEN w[LastPos(outs, c)]
                     ELSE PlainMem[c]]
  BY <1>5 DEF PlainMem
<1>7. PlainPc = "lls" /\ PlainPc' = "eval"
  BY <1>1 DEF PlainPc
<1> HIDE DEF outs
<1>8. \E v \in [1 .. Len(outs) -> Words] :
        /\ \A j \in 1 .. Len(outs) :
             v[j] \in Plain!RegValues(reg, Plain!OutputReg(j))
        /\ PlainMem' = [c \in Cells |->
                          IF c \in Plain!RangeOf(outs)
                          THEN v[Plain!LastPos(outs, c)]
                          ELSE PlainMem[c]]
  BY <1>4, <1>6, SameOperators
<1>9. QED
  BY <1>1, <1>3, <1>7, <1>8, SameOperators DEF Plain!PStore, PlainMem

\* Every output is in the clear, so the host prints what the cells hold.
LEMMA FinishRefines ==
  ASSUME IInv, Finish
  PROVE  Plain!PFinish
<1>1. /\ pc = "eval" /\ pc' = "done" /\ i > Len(bc.llmis)
      /\ SerializerInv /\ HostInv
      /\ UNCHANGED <<prog, prog_inps, memory, i, reg, k>>
  BY DEF Finish, svars, argv, IInv
<1>2. /\ spc = "done" /\ prog \in Programs /\ bc.mem_outs = prog.outputs
      /\ Len(bc.llmis) = Len(prog.instrs) /\ prog.outputs \in Seq(Cells)
      /\ Len(prog.instrs) \in Nat /\ i \in 1 .. Len(prog.instrs) + 1
  BY <1>1, BytecodeIs, ProgramFacts DEF HostInv, ControlInv
<1>3. PICK o \in [1 .. Len(prog.outputs) -> Words] :
        /\ \A j \in 1 .. Len(prog.outputs) :
             o[j] \in WordsAt(memory[prog.outputs[j]])
        /\ prog_outs' = o
  BY <1>2 DEF Finish
<1>4. ASSUME NEW j \in 1 .. Len(prog.outputs)
      PROVE  o[j] = PlainMem[prog.outputs[j]]
  <2> DEFINE c == prog.outputs[j]
  <2>1. c \in Cells /\ c \in RangeOf(prog.outputs)
    BY <1>2 DEF RangeOf
  <2>2. PICK n \in 1 .. Len(prog.instrs) : c \in RangeOf(prog.instrs[n].outputs)
    BY <1>2, <2>1, ProgramFacts DEF RevealedLast
  <2>3. n \in 1 .. i - 1
    BY <1>1, <1>2, <2>2
  <2>4. o[j] \in WordsAt(memory[c])
    BY <1>3
  <2> HIDE DEF c
  <2>5. memory[c].kind = "clear"
    BY <1>1, <2>1, <2>2, <2>3 DEF HostInv, MemoryInv
  <2>6. o[j] = memory[c].word
    BY <2>4, <2>5 DEF WordsAt
  <2>7. PlainMem[c] = memory[c].word
    BY <2>1, <2>5 DEF PlainMem, PlainWord
  <2>8. QED
    BY <2>6, <2>7 DEF c
<1>5. prog_outs' = [j \in 1 .. Len(prog.outputs) |-> PlainMem[prog.outputs[j]]]
  BY <1>3, <1>4
<1>6. PlainPc = "eval" /\ PlainPc' = "done"
  BY <1>1 DEF PlainPc
<1>7. QED
  BY <1>1, <1>2, <1>5, <1>6 DEF Plain!PFinish, PlainMem

\* Running the bytecode is running the program: whatever the program, the
\* sizes of the element and the command line, forgetting the cryptography
\* turns every run of compiler, host and element into a run of the plain
\* machine.
THEOREM Refinement == Spec => ImplementsPlain
<1>1. IInit => Plain!PInit
  BY InitRefines
<1>2. IInv /\ [Next]_vars => [Plain!PNext]_(Plain!pvars)
  <2> SUFFICES ASSUME IInv, [Next]_vars PROVE [Plain!PNext]_(Plain!pvars)
    OBVIOUS
  <2>1. CASE Compile \/ HashBatch \/ Start \/ Input \/ UNCHANGED vars
    BY <2>1, QuietSteps
  <2>2. CASE Invoke \/ Load \/ StoreInputs \/ EvalCall
    BY <2>2, InvokeRefines, LoadRefines, StoreInputsRefines, EvalCallRefines
       DEF Plain!PNext
  <2>3. CASE ExecuteLLI \/ EvalReturn \/ Finish
    BY <2>3, ExecuteLLIRefines, EvalReturnRefines, FinishRefines DEF Plain!PNext
  <2>4. QED
    BY <2>1, <2>2, <2>3 DEF Next, HostStep
<1>3. QED
  BY <1>1, <1>2, Invariance, PTL DEF Spec, ImplementsPlain, Plain!PSpec

-----------------------------------------------------------------------------
(***************************************************************************)
(* The shape of the state.  That registers hold words follows from what    *)
(* the cells hold, and that from what was encrypted: the type invariant is *)
(* inductive together with IInv and one more fact on the input words.      *)
(***************************************************************************)
CellValues(E) == {Junk} \cup {Clear(x) : x \in Words} \cup [kind : {"ct"}, ct : E]

InputsAreEncs == pc = "input" => \A q \in DOMAIN C : q > b * l_out => C[q].ct \in encs

TInv == TypeOK /\ InputsAreEncs

LEMMA CellValuesIs ==
  ASSUME NEW E
  PROVE  /\ Junk \in CellValues(E) /\ \A x \in Words : Clear(x) \in CellValues(E)
         /\ \A x \in E : Encrypted(x) \in CellValues(E)
         /\ \A v \in CellValues(E) : v.kind = "ct" => v.ct \in E
         /\ \A D : E \subseteq D => CellValues(E) \subseteq CellValues(D)
<1>1. \A x \in E : Encrypted(x) \in CellValues(E)
  BY DEF CellValues, Encrypted
<1>2. \A v \in CellValues(E) : v.kind = "ct" => v.ct \in E
  BY DEF CellValues, Junk, Clear
<1>3. \A D : E \subseteq D => CellValues(E) \subseteq CellValues(D)
  BY DEF CellValues
<1>4. Junk \in CellValues(E) /\ \A x \in Words : Clear(x) \in CellValues(E)
  BY DEF CellValues
<1>5. QED
  BY <1>1, <1>2, <1>3, <1>4

LEMMA BatchCountIs ==
  ASSUME NEW inps \in Seq(Words)
  PROVE  BatchCount(inps) \in Nat
  BY SizeAssumption DEF BatchCount, CeilDiv

\* The words of a batch are words.
LEMMA BatchWords ==
  ASSUME NEW inps \in Seq(Words), NEW n \in Nat \ {0}, NEW j \in 1 .. l_out
  PROVE  Batch(inps, n)[j] \in Words
<1> DEFINE q == (n - 1) * l_out + j
<1>1. q \in Nat /\ q >= 1
  <2>1. n - 1 \in Nat /\ l_out \in Nat
    BY SizeAssumption
  <2>2. (n - 1) * l_out \in Nat
    BY <2>1
  <2> DEFINE m == (n - 1) * l_out
  <2> HIDE DEF m
  <2>3. m + j \in Nat /\ m + j >= 1
    BY <2>2, SizeAssumption DEF m
  <2>4. QED
    BY <2>3 DEF m
<1>2. Batch(inps, n)[j] = IF q =< Len(inps) THEN inps[q] ELSE 0
  BY DEF Batch
<1> HIDE DEF q
<1>3. QED
  BY <1>1, <1>2, SizeAssumption

LEMMA OutcomesAreWords ==
  ASSUME NEW regs \in [Regs -> Words \cup {Uninit}], NEW lli, IsLLI(lli),
         NEW v \in LLIOutcomes(regs, lli), v # Trap
  PROVE  v \in Words
<1>1. \A n \in Regs : RegValues(regs, n) \subseteq Words
  BY DEF RegValues
<1>2. ASSUME NEW m \in 1 .. 3
      PROVE  OperandValues(regs, lli.src, m) \subseteq Words
  <2>1. CASE m > Len(lli.src)
    BY <2>1, SizeAssumption DEF OperandValues
  <2>2. CASE ~ (m > Len(lli.src))
    <3>1. lli.src[m] \in Operands
      BY <2>2 DEF IsLLI
    <3>2. lli.src[m].kind = "I" => lli.src[m].v \in Words
      BY <3>1 DEF Operands
    <3>3. lli.src[m].kind # "I" => lli.src[m].v \in Regs
      BY <3>1 DEF Operands
    <3>4. QED
      BY <1>1, <2>2, <3>2, <3>3 DEF OperandValues
  <2>3. QED
    BY <2>1, <2>2
<1>3. PICK x \in OperandValues(regs, lli.src, 1), y \in OperandValues(regs, lli.src, 2),
           z \in OperandValues(regs, lli.src, 3) : v \in Alu(lli.op, x, y, z)
  BY DEF LLIOutcomes
<1>4. x \in Words /\ y \in Words /\ z \in Words
  BY <1>2
<1>5. Alu(lli.op, x, y, z) \in SUBSET (Words \cup {Trap})
  BY <1>4, AluAssumption DEF IsLLI
<1>6. QED
  BY <1>3, <1>5

LEMMA TypeInit == IInit => TInv
<1> SUFFICES ASSUME IInit PROVE TInv
  OBVIOUS
<1>1. /\ prog \in Programs /\ spc = "header" /\ pc = "idle" /\ prog_inps = <<>> /\ b = 0
      /\ memory = [c \in Cells |-> Junk] /\ i = 1 /\ reg = NoRegs /\ k = 1
      /\ prog_outs = <<>> /\ encs = {} /\ runs = 0
  BY DEF IInit, SerInit
<1>2. memory \in [Cells -> CellValues(encs)]
  BY <1>1, CellValuesIs
<1>3. prog_outs \in Seq(Words) /\ prog_inps \in Seq(Words)
  BY <1>1
<1>4. BatchCount(prog_inps) \in Nat
  BY <1>3, BatchCountIs
<1>5. Len(prog.instrs) \in Nat /\ LLS_MAX_LENGTH \in Nat /\ MaxRuns \in Nat
  BY <1>1, ProgramFacts, SizeAssumption, RunsAssumption
<1>6. reg \in [Regs -> Words \cup {Uninit}]
  BY <1>1 DEF NoRegs
<1>7. QED
  BY <1>1, <1>2, <1>3, <1>4, <1>5, <1>6 DEF TInv, TypeOK, InputsAreEncs, CellValues, Stopped

LEMMA InvokeTypes ==
  ASSUME TInv, IInv', Invoke
  PROVE  TInv'
<1>1. /\ pc' = "load" /\ i' = 1 /\ k' = 1 /\ b' = 0 /\ reg' = NoRegs /\ prog_outs' = <<>>
      /\ memory' = [c \in Cells |-> Junk] /\ encs' = encs /\ prog' = prog /\ spc' = spc
      /\ runs' = runs + 1 /\ runs < MaxRuns
  BY DEF Invoke, svars
<1>2. memory' \in [Cells -> CellValues(encs)]
  BY <1>1, CellValuesIs
<1>3. prog_inps' \in Seq(Words) /\ BatchCount(prog_inps') \in Nat
  <2>1. prog_inps' \in Seq(Words)
    BY <1>1 DEF IInv, HostInv, InputsInv
  <2>2. QED
    BY <2>1, BatchCountIs
<1>4. Len(prog.instrs) \in Nat /\ LLS_MAX_LENGTH \in Nat /\ runs + 1 \in 0 .. MaxRuns
  BY <1>1, ProgramFacts, SizeAssumption, RunsAssumption DEF TInv, TypeOK
<1>5. reg' \in [Regs -> Words \cup {Uninit}]
  BY <1>1 DEF NoRegs
<1>6. QED
  BY <1>1, <1>2, <1>3, <1>4, <1>5 DEF TInv, TypeOK, InputsAreEncs, CellValues, Stopped

LEMMA InputTypes ==
  ASSUME TInv, IInv, Input
  PROVE  TInv'
<1> DEFINE X == Batch(prog_inps, b)
           lo == (b - 1) * l_out
           s == SEinput(execID, b, H[b - 1], X)
<1>1. /\ pc = "input" /\ b > 0
      /\ UNCHANGED <<prog, spc, prog_inps, memory, i, k, reg, prog_outs, runs>>
  BY DEF Input, svars, argv
<1>2. /\ prog_inps \in Seq(Words) /\ BatchCount(prog_inps) \in Nat
      /\ b \in 1 .. BatchCount(prog_inps) /\ DOMAIN C = 1 .. l_out * BatchCount(prog_inps)
  <2>1. prog_inps \in Seq(Words) /\ b \in 0 .. BatchCount(prog_inps)
        /\ DOMAIN C = 1 .. l_out * BatchCount(prog_inps)
    BY <1>1 DEF IInv, HostInv, InputsInv, ChainInv, InputWordsInv
  <2>2. BatchCount(prog_inps) \in Nat
    BY <2>1, BatchCountIs
  <2>3. QED
    BY <1>1, <2>1, <2>2
<1>3. CASE SEinputOk(execID, b, H[b - 1], X, Cin)
  <2>1. /\ pc' = pc /\ b' = b - 1
        /\ C' = [q \in DOMAIN C |-> IF q \in lo + 1 .. b * l_out
                                    THEN Encrypted(s.C[q - lo]) ELSE C[q]]
        /\ encs' = encs \cup {s.C[j] : j \in 1 .. l_out}
    BY <1>3 DEF Input
  <2>2. \A j \in 1 .. l_out : s.C[j] = WordOf(execID, <<b, j - 1>>, X[j])
    BY DEF SEinput
  <2>3. \A j \in 1 .. l_out : s.C[j].msg \in Words
    <3> SUFFICES ASSUME NEW j \in 1 .. l_out PROVE s.C[j].msg \in Words
      OBVIOUS
    <3>1. X[j] \in Words
      BY <1>2, BatchWords
    <3> HIDE DEF X, s
    <3>2. s.C[j] = WordOf(execID, <<b, j - 1>>, X[j])
      BY <2>2
    <3>3. WordOf(execID, <<b, j - 1>>, X[j]).msg = X[j]
      BY DEF WordOf, AEAD
    <3>4. QED
      BY <3>1, <3>2, <3>3
  <2> HIDE DEF s, X
  <2>4. \A x \in encs' : x.msg \in Words
    BY <2>1, <2>3 DEF TInv, TypeOK
  <2>5. memory' \in [Cells -> CellValues(encs')]
    <3>1. memory \in [Cells -> CellValues(encs)]
      BY DEF TInv, TypeOK, CellValues
    <3>2. encs \subseteq encs'
      BY <2>1
    <3>3. CellValues(encs) \subseteq CellValues(encs')
      BY <3>2, CellValuesIs
    <3>4. QED
      BY <1>1, <3>1, <3>3
  <2>6. b' \in 0 .. BatchCount(prog_inps')
    BY <1>1, <1>2, <2>1
  <2>7. l_out \in Nat \ {0} /\ lo \in Nat /\ b * l_out = lo + l_out /\ b' * l_out = lo
    BY <1>2, <2>1, SizeAssumption
  <2> HIDE DEF lo
  <2>8. ASSUME NEW q \in DOMAIN C', q > b' * l_out
        PROVE  C'[q].ct \in encs'
    <3>1. q \in DOMAIN C /\ q \in Nat
      BY <1>2, <2>1
    <3>2. CASE q > b * l_out
      <4>1. q \notin lo + 1 .. b * l_out
        BY <2>7, <3>1, <3>2
      <4>2. C'[q] = C[q] /\ C[q].ct \in encs
        BY <1>1, <2>1, <3>1, <3>2, <4>1 DEF TInv, InputsAreEncs
      <4>3. QED
        BY <2>1, <4>2
    <3>3. CASE ~ (q > b * l_out)
      <4>1. q \in lo + 1 .. b * l_out /\ q - lo \in 1 .. l_out
        BY <2>7, <2>8, <3>1, <3>3
      <4>2. C'[q] = Encrypted(s.C[q - lo]) /\ s.C[q - lo] \in encs'
        BY <2>1, <3>1, <4>1
      <4>3. QED
        BY <4>2 DEF Encrypted
    <3>4. QED
      BY <3>2, <3>3
  <2>9. QED
    BY <1>1, <2>1, <2>4, <2>5, <2>6, <2>8 DEF TInv, TypeOK, InputsAreEncs, CellValues
<1>4. CASE ~ SEinputOk(execID, b, H[b - 1], X, Cin)
  <2>1. pc' = "bad_input" /\ encs' = encs /\ b' = b
    BY <1>4 DEF Input
  <2>2. QED
    BY <1>1, <2>1 DEF TInv, TypeOK, InputsAreEncs, Stopped
<1>5. QED
  BY <1>3, <1>4

LEMMA StoreInputsTypes ==
  ASSUME TInv, IInv, StoreInputs
  PROVE  TInv'
<1>1. /\ pc = "input" /\ pc' = "eval" /\ b = 0
      /\ memory' = Stored(memory, bc.mem_inps, C)
      /\ UNCHANGED <<prog, spc, prog_inps, b, i, k, reg, prog_outs, encs, runs>>
  BY DEF StoreInputs, svars, argv
<1>2. /\ spc = "done" /\ Len(prog_inps) = Len(prog.inputs) /\ prog \in Programs
      /\ bc.mem_inps = prog.inputs /\ Len(prog.inputs) \in Nat
  BY <1>1, BytecodeIs, ProgramFacts DEF IInv, HostInv, ControlInv, InputsInv
<1>3. memory \in [Cells -> CellValues(encs)]
  BY DEF TInv, TypeOK, CellValues
<1>4. ASSUME NEW q \in 1 .. Len(prog.inputs)
      PROVE  C[q] \in CellValues(encs)
  <2> DEFINE L == l_out * CeilDiv(Len(prog.inputs), l_out)
  <2>1. Len(prog.inputs) =< L /\ DOMAIN C = 1 .. L /\ L \in Int
    <3>1. Len(prog.inputs) =< L
      BY <1>2, BatchesCover
    <3>2. DOMAIN C = 1 .. L
      BY <1>1, <1>2 DEF IInv, HostInv, InputWordsInv, BatchCount
    <3>3. L \in Int
      BY <1>2, SizeAssumption DEF CeilDiv
    <3>4. QED
      BY <3>1, <3>2, <3>3
  <2> HIDE DEF L
  <2>2. q \in DOMAIN C /\ q > b * l_out
    BY <1>1, <1>2, <2>1, SizeAssumption
  <2>3. C[q].ct \in encs
    BY <1>1, <2>2 DEF TInv, InputsAreEncs
  <2>4. \E x : C[q] = Encrypted(x)
    BY <1>1, <2>2, Zenon DEF IInv, HostInv, InputWordsInv
  <2>5. C[q] = Encrypted(C[q].ct)
    BY <2>4 DEF Encrypted
  <2>6. QED
    BY <2>3, <2>5, CellValuesIs
<1>5. memory' \in [Cells -> CellValues(encs)]
  <2>1. \A c \in RangeOf(prog.inputs) : LastPos(prog.inputs, c) \in 1 .. Len(prog.inputs)
    BY <1>2, LastPosIs
  <2>2. memory' = [c \in Cells |-> IF c \in RangeOf(prog.inputs)
                                   THEN C[LastPos(prog.inputs, c)] ELSE memory[c]]
    BY <1>1, <1>2, <1>3 DEF Stored
  <2>3. QED
    BY <1>3, <1>4, <2>1, <2>2
<1>6. QED
  BY <1>1, <1>5 DEF TInv, TypeOK, InputsAreEncs, CellValues

LEMMA EvalCallTypes ==
  ASSUME TInv, IInv, EvalCall
  PROVE  TInv'
<1>1. /\ pc = "eval" /\ i =< Len(bc.llmis)
      /\ UNCHANGED <<prog, spc, prog_inps, b, memory, i, k, prog_outs, encs, runs>>
  BY DEF EvalCall, svars, argv
<1>2. CASE SEevalOk(execID, esharedkey, LLMI.aells, Cx)
  <2>1. pc' = "lls" /\ reg' = RegsAfterDecrypt(LLMI.aells, Cx)
    BY <1>2 DEF EvalCall
  <2>2. /\ SerializerInv /\ HostInv /\ i \in 1 .. Len(prog.instrs) /\ spc = "done"
    <3>1. SerializerInv /\ HostInv /\ spc = "done" /\ i \in 1 .. Len(prog.instrs) + 1
      BY <1>1 DEF IInv, HostInv, ControlInv
    <3>2. QED
      BY <1>1, <3>1, BytecodeIs, ProgramFacts
  <2>3. LLMI.mem_inps = prog.instrs[i].inputs /\ Len(prog.instrs[i].inputs) \in Nat
        /\ Len(LLMI.aells.inputIDs) = Len(prog.instrs[i].inputs)
    <3>1. Len(prog.instrs[i].inputs) \in Nat
      BY <2>2, BytecodeIs, ProgramFacts DEF LLMIShape
    <3>2. QED
      BY <2>2, <3>1, LLMIIs
  <2>4. ASSUME NEW n \in Regs, n < Len(prog.instrs[i].inputs)
        PROVE  Cx[n + 1].ct.msg \in Words
    <3> DEFINE c == prog.instrs[i].inputs[n + 1]
    <3>1. n + 1 \in 1 .. Len(prog.instrs[i].inputs)
      BY <2>3, <2>4, SizeAssumption DEF Regs
    <3>2. c \in Cells /\ memory[c].kind = "ct"
      BY <1>1, <2>2, <3>1, LLMIReads
    <3>3. Cx[n + 1] = memory[c]
      BY <2>3, <3>1 DEF Cx
    <3> HIDE DEF c
    <3>4. memory[c].ct \in encs
      <4>1. memory[c] \in CellValues(encs)
        BY <3>2 DEF TInv, TypeOK, CellValues
      <4>2. QED
        BY <3>2, <4>1, CellValuesIs
    <3>5. QED
      BY <3>3, <3>4 DEF TInv, TypeOK
  <2>5. reg' \in [Regs -> Words \cup {Uninit}]
    BY <2>1, <2>3, <2>4 DEF RegsAfterDecrypt
  <2>6. QED
    BY <1>1, <2>1, <2>5 DEF TInv, TypeOK, InputsAreEncs
<1>3. CASE ~ SEevalOk(execID, esharedkey, LLMI.aells, Cx)
  <2>1. pc' = "bad_eval" /\ reg' = reg
    BY <1>3 DEF EvalCall
  <2>2. QED
    BY <1>1, <2>1 DEF TInv, TypeOK, InputsAreEncs, Stopped
<1>4. QED
  BY <1>2, <1>3

LEMMA ExecuteLLITypes ==
  ASSUME TInv, IInv, ExecuteLLI
  PROVE  TInv'
<1>1. /\ pc = "lls" /\ k =< Len(LLS)
      /\ UNCHANGED <<prog, spc, prog_inps, b, memory, i, prog_outs, encs, runs>>
  BY DEF ExecuteLLI, svars, argv
<1>2. \/ pc' \in {"too_long", "trap"} /\ reg' = reg /\ k' = k
      \/ /\ pc' = pc /\ k' = k + 1 /\ ~ (k > LLS_MAX_LENGTH)
         /\ \E v \in LLIOutcomes(reg, LLS[k]) :
              v # Trap /\ reg' = [reg EXCEPT ![LLS[k].dst] = v]
  BY DEF ExecuteLLI
<1>3. k \in 1 .. LLS_MAX_LENGTH + 1 /\ LLS_MAX_LENGTH \in Nat /\ reg \in [Regs -> Words \cup {Uninit}]
  BY SizeAssumption DEF TInv, TypeOK
<1>4. IsLLI(LLS[k])
  <2>1. SerializerInv /\ spc = "done" /\ i \in 1 .. Len(prog.instrs)
    BY <1>1 DEF IInv, HostInv, ControlInv
  <2>2. LLS = prog.instrs[i].seq /\ LLMIShape(prog.instrs[i])
    BY <2>1, LLMIIs, BytecodeIs, ProgramFacts
  <2>3. Len(LLS) \in Nat /\ k \in 1 .. Len(LLS)
    BY <1>1, <1>3, <2>2 DEF LLMIShape
  <2>4. QED
    BY <2>2, <2>3 DEF LLMIShape
<1>5. CASE pc' \in {"too_long", "trap"} /\ reg' = reg /\ k' = k
  BY <1>1, <1>5 DEF TInv, TypeOK, InputsAreEncs, Stopped
<1>6. CASE /\ pc' = pc /\ k' = k + 1 /\ ~ (k > LLS_MAX_LENGTH)
           /\ \E v \in LLIOutcomes(reg, LLS[k]) :
                v # Trap /\ reg' = [reg EXCEPT ![LLS[k].dst] = v]
  <2>1. PICK v \in LLIOutcomes(reg, LLS[k]) :
          v # Trap /\ reg' = [reg EXCEPT ![LLS[k].dst] = v]
    BY <1>6
  <2>2. v \in Words
    BY <1>3, <1>4, <2>1, OutcomesAreWords
  <2>3. reg' \in [Regs -> Words \cup {Uninit}]
    BY <1>3, <2>1, <2>2
  <2>4. k' \in 1 .. LLS_MAX_LENGTH + 1
    BY <1>3, <1>6
  <2>5. QED
    BY <1>1, <1>6, <2>3, <2>4 DEF TInv, TypeOK, InputsAreEncs
<1>7. QED
  BY <1>2, <1>5, <1>6

LEMMA EvalReturnTypes ==
  ASSUME TInv, IInv, EvalReturn
  PROVE  TInv'
<1> DEFINE a == LLMI.aells
           outs == prog.instrs[i].outputs
<1>1. /\ pc = "lls" /\ pc' = "eval" /\ i' = i + 1 /\ k' = 1 /\ reg' = NoRegs
      /\ UNCHANGED <<prog, spc, prog_inps, b, prog_outs, runs>>
  BY DEF EvalReturn, svars, argv
<1>2. /\ SerializerInv /\ spc = "done" /\ i \in 1 .. Len(prog.instrs) /\ prog \in Programs
      /\ Len(prog.instrs) \in Nat
  BY <1>1, ProgramFacts, BytecodeIs DEF IInv, HostInv, ControlInv
<1>3. LLMI.mem_outs = outs /\ a.out_count = Len(outs) /\ Len(outs) \in Nat
  BY <1>2, LLMIIs, ProgramFacts DEF LLMIShape
<1>4. memory \in [Cells -> CellValues(encs)]
  BY DEF TInv, TypeOK, CellValues
<1> HIDE DEF a, outs
<1>5. PICK w \in [1 .. a.out_count -> Words] :
        /\ memory' = Stored(memory, LLMI.mem_outs,
                            [j \in 1 .. a.out_count |-> SEevalOutput(execID, a, j, w[j])])
        /\ encs' = encs \cup (IF a.reveal_flag = 1 THEN {} ELSE
                     {SEevalOutput(execID, a, j, w[j]).ct : j \in 1 .. a.out_count})
  BY DEF EvalReturn, a
<1>6. ASSUME NEW j \in 1 .. a.out_count
      PROVE  /\ SEevalOutput(execID, a, j, w[j]) \in CellValues(encs')
             /\ a.reveal_flag # 1 => SEevalOutput(execID, a, j, w[j]).ct.msg \in Words
  <2>1. CASE a.reveal_flag = 1
    BY <2>1, CellValuesIs DEF SEevalOutput
  <2>2. CASE a.reveal_flag # 1
    <3> DEFINE ct == WordOf(execID, <<a.instrID, j - 1>>, w[j])
    <3>1. SEevalOutput(execID, a, j, w[j]) = Encrypted(ct)
      BY <2>2 DEF SEevalOutput
    <3>2. SEevalOutput(execID, a, j, w[j]).ct = ct /\ ct.msg = w[j]
      BY <3>1 DEF Encrypted, WordOf, AEAD
    <3> HIDE DEF ct
    <3>3. ct \in encs'
      BY <1>5, <2>2, <3>2
    <3>4. QED
      BY <3>1, <3>2, <3>3, CellValuesIs
  <2>3. QED
    BY <2>1, <2>2
<1>7. \A x \in encs' : x.msg \in Words
  BY <1>5, <1>6 DEF TInv, TypeOK
<1>8. memory' \in [Cells -> CellValues(encs')]
  <2>1. CellValues(encs) \subseteq CellValues(encs')
    <3>1. encs \subseteq encs'
      BY <1>5
    <3>2. QED
      BY <3>1, CellValuesIs
  <2>2. \A c \in RangeOf(outs) : LastPos(outs, c) \in 1 .. a.out_count
    BY <1>3, LastPosIs
  <2>3. memory' = [c \in Cells |-> IF c \in RangeOf(outs)
                     THEN SEevalOutput(execID, a, LastPos(outs, c), w[LastPos(outs, c)])
                     ELSE memory[c]]
    BY <1>3, <1>4, <1>5, <2>2 DEF Stored
  <2>4. QED
    BY <1>4, <1>6, <2>1, <2>2, <2>3
<1>9. reg' \in [Regs -> Words \cup {Uninit}] /\ k' \in 1 .. LLS_MAX_LENGTH + 1
      /\ i' \in 1 .. Len(prog.instrs) + 1
  BY <1>1, <1>2, SizeAssumption DEF NoRegs
<1>10. QED
  BY <1>1, <1>7, <1>8, <1>9 DEF TInv, TypeOK, InputsAreEncs, CellValues

LEMMA TypeStep ==
  ASSUME TInv, IInv, IInv', [Next]_vars
  PROVE  TInv'
<1>1. CASE Compile \/ UNCHANGED vars
  <2>1. UNCHANGED <<prog, pc, memory, encs, reg, i, k, b, prog_inps, prog_outs, runs, C>>
    BY <1>1 DEF Compile, SerNext, SerializeHeader, SerializeLLMI, SerializeEnd, vars, svars, ivars
  <2>2. spc' \in {"header", "llmi", "done", "error"}
    BY DEF IInv, SerializerInv
  <2>3. QED
    BY <2>1, <2>2 DEF TInv, TypeOK, InputsAreEncs
<1>2. CASE Load \/ Start
  <2>1. /\ UNCHANGED <<prog, spc, memory, encs, reg, i, k, b, prog_inps, prog_outs, runs>>
        /\ pc' \in {"hash", "bad_args", "input", "bad_start"}
    BY <1>2 DEF Load, Start, svars, argv
  <2>2. InputsAreEncs'
    <3> SUFFICES ASSUME pc' = "input", NEW q \in DOMAIN C', q > b * l_out PROVE FALSE
      BY <2>1 DEF InputsAreEncs
    <3>1. Start
      BY <1>2 DEF Load
    <3>2. C' = [p \in 1 .. l_out * b |-> Junk]
      BY <3>1 DEF Start
    <3>3. b \in Nat /\ l_out \in Nat
      BY SizeAssumption DEF TInv, TypeOK
    <3>4. l_out * b = b * l_out /\ l_out * b \in Nat
      BY <3>3
    <3> HIDE DEF InputsAreEncs
    <3>5. q \in 1 .. b * l_out
      BY <3>2, <3>4
    <3>6. QED
      BY <3>4, <3>5
  <2>3. QED
    BY <2>1, <2>2 DEF TInv, TypeOK, Stopped
<1>3. CASE HashBatch
  <2>1. /\ UNCHANGED <<prog, spc, pc, memory, encs, reg, i, k, prog_inps, prog_outs, runs>>
        /\ b' = b + 1 /\ b < BatchCount(prog_inps) /\ pc = "hash"
    BY <1>3 DEF HashBatch, svars, argv
  <2>2. b' \in 0 .. BatchCount(prog_inps)
    <3>1. prog_inps \in Seq(Words)
      BY <2>1 DEF IInv, HostInv, InputsInv
    <3>2. BatchCount(prog_inps) \in Nat
      BY <3>1, BatchCountIs
    <3>3. b \in 0 .. BatchCount(prog_inps)
      BY DEF TInv, TypeOK
    <3>4. QED
      BY <2>1, <3>2, <3>3
  <2>3. QED
    BY <2>1, <2>2 DEF TInv, TypeOK, InputsAreEncs
<1>4. CASE Finish
  <2>1. /\ UNCHANGED <<prog, spc, memory, encs, reg, i, k, b, prog_inps, runs>>
        /\ pc' = "done" /\ pc = "eval"
    BY <1>4 DEF Finish, svars, argv
  <2>2. prog_outs' \in Seq(Words)
    <3>1. prog_outs' \in [1 .. Len(bc.mem_outs) -> Words]
      BY <1>4 DEF Finish
    <3>2. Len(bc.mem_outs) \in Nat
      BY <2>1, BytecodeIs, ProgramFacts DEF IInv, HostInv, ControlInv
    <3>3. QED
      BY <3>1, <3>2
  <2>3. QED
    BY <2>1, <2>2 DEF TInv, TypeOK, InputsAreEncs, Stopped
<1>5. QED
  BY <1>1, <1>2, <1>3, <1>4, InvokeTypes, InputTypes, StoreInputsTypes, EvalCallTypes,
     ExecuteLLITypes, EvalReturnTypes DEF Next, HostStep

\* Cells hold junk, words or words the element encrypted, registers hold words
\* or nothing, and no index leaves the program, the snippet or the hash chain.
THEOREM Types == Spec => []TypeOK
<1>1. TInv /\ IInv /\ IInv' /\ [Next]_vars => TInv'
  BY TypeStep
<1>2. TInv => TypeOK
  BY DEF TInv
<1>3. QED
  BY <1>1, <1>2, TypeInit, Invariance, PTL DEF Spec

-----------------------------------------------------------------------------
(***************************************************************************)
(* Proof that the stateless element never encrypts two words under one     *)
(* nonce, over any number of runs of a program.  The history encs only     *)
(* holds words that the inputs its execution commits to determine; two     *)
(* runs with one identity have the same inputs, and so compute the same.   *)
(***************************************************************************)
(***************************************************************************)
(* Runs of a program, as sequences of register files and of memories.      *)
(***************************************************************************)
\* One instruction takes the registers from x to y.
RegsStep(lli, x, y) ==
  \E v \in LLIOutcomes(x, lli) : v # Trap /\ y = [x EXCEPT ![lli.dst] = v]

\* G[0] .. G[n]: the registers before instructions 1 .. n + 1 of a snippet
\* that loaded its inputs from the memory mem.
RegsRun(mi, mem, n, G) ==
  /\ G[0] = [q \in Regs |-> IF q < Len(mi.inputs) THEN mem[mi.inputs[q + 1]] ELSE Uninit]
  /\ \A m \in 0 .. n :
       /\ G[m] \in [Regs -> Words \cup {Uninit}]
       /\ \A q \in Regs : RegWritten(mi, m + 1, q) => G[m][q] \in Words
  /\ \A m \in 0 .. n - 1 : RegsStep(mi.seq[m + 1], G[m], G[m + 1])

\* The memory before the first LLMI, and after one that leaves the words of w.
InputMem(p, inps) ==
  [c \in Cells |-> IF c \in RangeOf(p.inputs) THEN inps[LastPos(p.inputs, c)] ELSE Uninit]

MemAfter(mi, mem, w) ==
  [c \in Cells |-> IF c \in RangeOf(mi.outputs) THEN w[LastPos(mi.outputs, c)] ELSE mem[c]]

IsOutput(mi, G, j, v) == v \in Words /\ v \in RegValues(G[Len(mi.seq)], OutputReg(j))

MemStep(mi, mem, mem2) ==
  \E G, w : /\ RegsRun(mi, mem, Len(mi.seq), G)
            /\ \A j \in 1 .. Len(mi.outputs) : IsOutput(mi, G, j, w[j])
            /\ mem2 = MemAfter(mi, mem, w)

\* F[0] .. F[n]: the memory before LLMIs 1 .. n + 1.
MemRun(p, inps, n, F) ==
  /\ F[0] = InputMem(p, inps)
  /\ \A m \in 0 .. n - 1 : MemStep(p.instrs[m + 1], F[m], F[m + 1])

-----------------------------------------------------------------------------
(***************************************************************************)
(* Executions and the words they encrypt.                                  *)
(***************************************************************************)
\* e is the identity SEstart gives an execution of p on the inputs inps.
Identity(p, inps, e) ==
  \E f : /\ f[0] = ZeroHash
         /\ \A n \in 1 .. BatchCount(inps) : f[n] = HashChain(f[n - 1], Batch(inps, n))
         /\ e = ExecID([ct |-> Seal(pub_SE, K_S), n |-> Len(p.inputs)], f[BatchCount(inps)])

IsInputWord(inps, e, x) ==
  \E n \in 1 .. BatchCount(inps) : \E j \in 1 .. l_out :
    x = WordOf(e, <<n, j - 1>>, Batch(inps, n)[j])

IsResult(p, inps, e, x) ==
  \E n \in 1 .. Len(p.instrs) : \E j \in 1 .. Len(p.instrs[n].outputs) : \E F, G, v :
    /\ MemRun(p, inps, n - 1, F)
    /\ RegsRun(p.instrs[n], F[n - 1], Len(p.instrs[n].seq), G)
    /\ IsOutput(p.instrs[n], G, j, v)
    /\ x = WordOf(e, <<InstrID(p, n), j - 1>>, v)

InputsFor(p, inps) == inps \in Seq(Words) /\ Len(inps) = Len(p.inputs)

KnownWord(p, x) ==
  \E inps, e : /\ InputsFor(p, inps) /\ Identity(p, inps, e)
               /\ IsInputWord(inps, e, x) \/ IsResult(p, inps, e, x)

-----------------------------------------------------------------------------
(***************************************************************************)
(* The invariant.                                                          *)
(***************************************************************************)
\* What was encrypted is determined by the inputs of an execution, ...
EncsKnown == \A x \in encs : KnownWord(prog, x)

\* ... the current one is that of the inputs of the command line, and has
\* computed from them what is in the cells ...
InputsKnown ==
  pc \in {"input", "eval", "lls"} =>
    InputsFor(prog, prog_inps) /\ Identity(prog, prog_inps, execID)

MemoryKnown ==
  pc \in {"eval", "lls"} =>
    \E F : MemRun(prog, prog_inps, i - 1, F) /\ F[i - 1] = PlainMem

\* ... and in the registers.
RegsKnown ==
  pc = "lls" =>
    \E G : RegsRun(prog.instrs[i], PlainMem, k - 1, G) /\ G[k - 1] = reg

NInv == EncsKnown /\ InputsKnown /\ MemoryKnown /\ RegsKnown

-----------------------------------------------------------------------------
(***************************************************************************)
(* An execution is determined by its identity.                             *)
(***************************************************************************)
LEMMA SnippetIs ==
  ASSUME NEW p \in Programs, NEW n \in 1 .. Len(p.instrs)
  PROVE  /\ SnippetDeterminate(p.instrs[n]) /\ LLMIShape(p.instrs[n])
         /\ Len(p.instrs[n].seq) \in Nat /\ Len(p.instrs[n].outputs) \in Nat
         /\ Len(p.instrs[n].inputs) \in Nat
         /\ \A m \in 1 .. Len(p.instrs[n].seq) : IsLLI(p.instrs[n].seq[m])
         /\ \A j \in 1 .. Len(p.instrs[n].outputs) : OutputReg(j) \in Regs
<1>1. SnippetDeterminate(p.instrs[n]) /\ LLMIShape(p.instrs[n])
  BY DeterminateAssumption, ProgramFacts
<1>2. /\ Len(p.instrs[n].seq) \in Nat /\ Len(p.instrs[n].outputs) \in Nat
      /\ Len(p.instrs[n].inputs) \in Nat /\ Len(p.instrs[n].outputs) =< l_out
      /\ \A m \in 1 .. Len(p.instrs[n].seq) : IsLLI(p.instrs[n].seq[m])
  BY <1>1 DEF LLMIShape
<1>3. \A j \in 1 .. Len(p.instrs[n].outputs) : OutputReg(j) \in Regs
  BY <1>2, SizeAssumption DEF OutputReg, Regs
<1>4. QED
  BY <1>1, <1>2, <1>3

\* One instruction of a determinate snippet has one outcome.
LEMMA OneOutcome ==
  ASSUME NEW mi, SnippetDeterminate(mi), NEW m \in 1 .. Len(mi.seq), IsLLI(mi.seq[m]),
         NEW regs, \A q \in Regs : RegWritten(mi, m, q) => regs[q] \in Words,
         NEW u \in LLIOutcomes(regs, mi.seq[m]), NEW v \in LLIOutcomes(regs, mi.seq[m]),
         u # Trap, v # Trap
  PROVE  u = v
<1> DEFINE lli == mi.seq[m]
<1>1. \A x \in Words : x # Uninit
  BY SizeAssumption DEF Uninit
<1>2. ASSUME NEW a \in 1 .. 3
      PROVE  \E x \in Words : OperandValues(regs, lli.src, a) = {x}
  <2>1. CASE a > Len(lli.src)
    BY <2>1, SizeAssumption DEF OperandValues
  <2>2. CASE ~ (a > Len(lli.src))
    <3>1. lli.src[a] \in Operands /\ a \in 1 .. Len(lli.src)
      BY <2>2 DEF IsLLI
    <3>2. CASE lli.src[a].kind = "I"
      BY <2>2, <3>1, <3>2 DEF OperandValues, Operands
    <3>3. CASE lli.src[a].kind # "I"
      <4>1. lli.src[a].kind = "R" /\ lli.src[a].v \in Regs
        BY <3>1, <3>3 DEF Operands
      <4>2. regs[lli.src[a].v] \in Words
        BY <3>1, <4>1 DEF SnippetDeterminate
      <4>3. QED
        BY <1>1, <2>2, <3>3, <4>2 DEF OperandValues, RegValues
    <3>4. QED
      BY <3>2, <3>3
  <2>3. QED
    BY <2>1, <2>2
<1>3. PICK x \in Words : OperandValues(regs, lli.src, 1) = {x}
  BY <1>2
<1>4. PICK y \in Words : OperandValues(regs, lli.src, 2) = {y}
  BY <1>2
<1>5. PICK z \in Words : OperandValues(regs, lli.src, 3) = {z}
  BY <1>2
<1>6. u \in Alu(lli.op, x, y, z) /\ v \in Alu(lli.op, x, y, z)
  BY <1>3, <1>4, <1>5 DEF LLIOutcomes
<1>7. QED
  BY <1>6 DEF SnippetDeterminate

Snippet(mi) ==
  /\ SnippetDeterminate(mi)
  /\ Len(mi.seq) \in Nat
  /\ \A m \in 1 .. Len(mi.seq) : IsLLI(mi.seq[m])

LEMMA RegsRunUnique ==
  ASSUME NEW mi, Snippet(mi), NEW mem, NEW n \in 0 .. Len(mi.seq),
         NEW G, NEW K, RegsRun(mi, mem, n, G), RegsRun(mi, mem, n, K)
  PROVE  G[n] = K[n]
<1>0. /\ SnippetDeterminate(mi) /\ Len(mi.seq) \in Nat
      /\ \A m \in 1 .. Len(mi.seq) : IsLLI(mi.seq[m])
  BY DEF Snippet
<1> DEFINE S == {m \in 0 .. n : G[m] = K[m]}
<1>1. 0 \in S
  BY <1>0 DEF RegsRun
<1>2. ASSUME NEW m \in 0 .. n - 1, m \in S
      PROVE  m + 1 \in S
  <2>1. m + 1 \in 0 .. n /\ m + 1 \in 1 .. Len(mi.seq) /\ m \in 0 .. n
    BY <1>0
  <2>9. RegsStep(mi.seq[m + 1], G[m], G[m + 1]) /\ RegsStep(mi.seq[m + 1], K[m], K[m + 1])
    BY DEF RegsRun
  <2>2. PICK u \in LLIOutcomes(G[m], mi.seq[m + 1]) :
          u # Trap /\ G[m + 1] = [G[m] EXCEPT ![mi.seq[m + 1].dst] = u]
    BY <2>9 DEF RegsStep
  <2>3. PICK v \in LLIOutcomes(K[m], mi.seq[m + 1]) :
          v # Trap /\ K[m + 1] = [K[m] EXCEPT ![mi.seq[m + 1].dst] = v]
    BY <2>9 DEF RegsStep
  <2>4. G[m] = K[m]
    BY <1>2
  <2>5. \A q \in Regs : RegWritten(mi, m + 1, q) => G[m][q] \in Words
    BY <2>1 DEF RegsRun
  <2>6. u = v
    BY <1>0, <2>1, <2>2, <2>3, <2>4, <2>5, OneOutcome
  <2>7. G[m + 1] = K[m + 1]
    BY <2>2, <2>3, <2>4, <2>6
  <2>8. QED
    BY <2>1, <2>7
<1> HIDE DEF S
<1>3. n \in Int /\ \A m \in 0 .. n - 1 : m \in S => m + 1 \in S
  BY <1>0, <1>2
<1>4. \A m \in 0 .. n : m \in S
  BY ONLY <1>1, <1>3, RangeInduction
<1>5. QED
  BY <1>0, <1>4 DEF S

\* The output of a determinate snippet that was run on a memory is determined.
LEMMA OutputUnique ==
  ASSUME NEW p \in Programs, NEW n \in 1 .. Len(p.instrs), NEW mem, NEW G, NEW K,
         RegsRun(p.instrs[n], mem, Len(p.instrs[n].seq), G),
         RegsRun(p.instrs[n], mem, Len(p.instrs[n].seq), K),
         NEW j \in 1 .. Len(p.instrs[n].outputs), NEW u, NEW v,
         IsOutput(p.instrs[n], G, j, u), IsOutput(p.instrs[n], K, j, v)
  PROVE  u = v
<1> DEFINE mi == p.instrs[n]
           L == Len(mi.seq)
<1>0. RegsRun(mi, mem, L, G) /\ RegsRun(mi, mem, L, K) /\ IsOutput(mi, G, j, u)
      /\ IsOutput(mi, K, j, v) /\ j \in 1 .. Len(mi.outputs)
  OBVIOUS
<1>1. /\ SnippetDeterminate(mi) /\ L \in Nat /\ \A m \in 1 .. L : IsLLI(mi.seq[m])
      /\ OutputReg(j) \in Regs
  BY SnippetIs
<1> HIDE DEF mi, L
<1>2. L \in 0 .. L
  BY <1>1
<1>3. G[L] = K[L]
  <2>1. Snippet(mi) /\ L \in 0 .. Len(mi.seq)
    BY <1>1, <1>2 DEF L, Snippet
  <2>2. QED
    BY <1>0, <2>1, RegsRunUnique
<1>4. G[L][OutputReg(j)] \in Words
  <2>1. RegWritten(mi, L + 1, OutputReg(j))
    BY <1>0, <1>1 DEF SnippetDeterminate, L
  <2>2. QED
    BY <1>0, <1>1, <1>2, <2>1 DEF RegsRun
<1>5. G[L][OutputReg(j)] # Uninit
  BY <1>4, SizeAssumption DEF Uninit
<1>6. QED
  BY <1>0, <1>3, <1>5 DEF IsOutput, RegValues, L

LEMMA MemRunUnique ==
  ASSUME NEW p \in Programs, NEW inps, NEW n \in 0 .. Len(p.instrs),
         NEW F, NEW K, MemRun(p, inps, n, F), MemRun(p, inps, n, K)
  PROVE  F[n] = K[n]
<1> DEFINE S == {m \in 0 .. n : F[m] = K[m]}
<1>1. 0 \in S /\ Len(p.instrs) \in Nat
  BY ProgramFacts DEF MemRun
<1>2. ASSUME NEW m \in 0 .. n - 1, m \in S
      PROVE  m + 1 \in S
  <2> DEFINE mi == p.instrs[m + 1]
  <2>1. m + 1 \in 0 .. n /\ m + 1 \in 1 .. Len(p.instrs)
    BY <1>1
  <2>9. MemStep(mi, F[m], F[m + 1]) /\ MemStep(mi, K[m], K[m + 1])
    BY DEF MemRun
  <2>2. PICK G, u : /\ RegsRun(mi, F[m], Len(mi.seq), G)
                    /\ \A j \in 1 .. Len(mi.outputs) : IsOutput(mi, G, j, u[j])
                    /\ F[m + 1] = MemAfter(mi, F[m], u)
    BY <2>9, Zenon DEF MemStep
  <2>3. PICK J, v : /\ RegsRun(mi, K[m], Len(mi.seq), J)
                    /\ \A j \in 1 .. Len(mi.outputs) : IsOutput(mi, J, j, v[j])
                    /\ K[m + 1] = MemAfter(mi, K[m], v)
    BY <2>9, Zenon DEF MemStep
  <2>4. F[m] = K[m]
    BY <1>2
  <2>5. \A j \in 1 .. Len(mi.outputs) : u[j] = v[j]
    <3>1. RegsRun(mi, F[m], Len(mi.seq), J)
      BY <2>3, <2>4
    <3>2. QED
      <4> SUFFICES ASSUME NEW j \in 1 .. Len(mi.outputs) PROVE u[j] = v[j]
        OBVIOUS
      <4>1. IsOutput(mi, G, j, u[j]) /\ IsOutput(mi, J, j, v[j])
        BY <2>2, <2>3
      <4>2. QED
        BY <2>1, <2>2, <3>1, <4>1, OutputUnique, Zenon
  <2>6. \A c \in RangeOf(mi.outputs) : LastPos(mi.outputs, c) \in 1 .. Len(mi.outputs)
    BY <2>1, SnippetIs, LastPosIs
  <2> HIDE DEF mi
  <2>7. F[m + 1] = K[m + 1]
    BY <2>2, <2>3, <2>4, <2>5, <2>6 DEF MemAfter
  <2>8. QED
    BY <2>1, <2>7
<1> HIDE DEF S
<1>3. \A m \in 0 .. n : m \in S
  BY <1>1, <1>2, RangeInduction
<1>4. QED
  BY <1>3 DEF S

LEMMA HashBinds ==
  ASSUME NEW g, NEW X, NEW h, NEW Y, HashChain(g, X) = HashChain(h, Y)
  PROVE  g = h /\ X = Y
  BY DEF HashChain

LEMMA QuotientIsNat ==
  ASSUME NEW a \in Nat, NEW d \in Nat \ {0}
  PROVE  a \div d \in Nat
  OBVIOUS

LEMMA BatchOf ==
  ASSUME NEW n \in Nat, NEW q \in 1 .. n
  PROVE  \E m \in 1 .. CeilDiv(n, l_out), j \in 1 .. l_out : (m - 1) * l_out + j = q
<1> DEFINE d == l_out
           B == CeilDiv(n, l_out)
           m == (q - 1) \div d
           j == (q - 1) - d * m
<1>1. d \in Nat \ {0} /\ n =< d * B /\ B \in Nat
  BY SizeAssumption, BatchesCover DEF CeilDiv
<1>2. q - 1 \in Nat /\ q - 1 < d * B
  <2> HIDE DEF B, d
  <2>1. d * B \in Nat
    BY <1>1
  <2> DEFINE P == d * B
  <2>2. P \in Nat /\ n =< P
    BY <1>1, <2>1
  <2> HIDE DEF P
  <2>3. q - 1 \in Nat /\ q - 1 < P
    BY <2>2
  <2>4. QED
    BY <2>3 DEF P
<1> HIDE DEF d, B
<1>3. ASSUME NEW a \in Nat
      PROVE  a \div d \in Nat /\ a - d * (a \div d) \in 0 .. d - 1
  <2>1. a \div d \in Nat
    BY <1>1
  <2>2. d * (a \div d) =< a
    BY <1>1
  <2>3. a < d * (a \div d) + d
    BY <1>1
  <2> DEFINE P == d * (a \div d)
  <2>4. P \in Nat
    BY <1>1, <2>1
  <2> HIDE DEF P
  <2>5. a - P \in 0 .. d - 1
    BY <1>1, <2>2, <2>3, <2>4 DEF P
  <2>6. QED
    BY <2>1, <2>5 DEF P
<1>4. m \in Nat /\ j \in 0 .. d - 1
  BY ONLY <1>2, <1>3
<1>10. m * d + j = q - 1
  <2> DEFINE a == q - 1
  <2> HIDE DEF a
  <2> SUFFICES a \in Nat => m * d + (a - d * m) = a
    BY <1>2 DEF a
  <2>1. m * d = d * m /\ d * m \in Nat
    BY <1>1, <1>4
  <2>2. QED
    BY <2>1
<1> HIDE DEF m, j
<1>5. m < B
  <2> SUFFICES ASSUME ~ (m < B) PROVE FALSE
    OBVIOUS
  <2>1. m >= B
    BY <1>1, <1>4
  <2>2. m * d >= B * d
    BY <1>1, <1>4, <2>1
  <2>3. B * d = d * B /\ m * d \in Nat /\ d * B \in Nat
    BY <1>1, <1>4
  <2>4. QED
    BY <1>2, <1>4, <1>10, <2>2, <2>3
<1>6. m + 1 \in 1 .. B /\ j + 1 \in 1 .. d /\ (m + 1) - 1 = m
  BY <1>1, <1>4, <1>5
<1>7. m * d + (j + 1) = q
  <2>1. m * d \in Nat
    BY <1>1, <1>4
  <2> DEFINE P == m * d
  <2>2. P \in Nat /\ P + j = q - 1
    BY <1>4, <1>10, <2>1
  <2> HIDE DEF P
  <2>3. P + (j + 1) = q
    BY <1>4, <2>2
  <2>4. QED
    BY <2>3 DEF P
<1>8. ((m + 1) - 1) * d + (j + 1) = q
  BY <1>6, <1>7
<1>9. QED
  BY <1>6, <1>8 DEF B, d

\* The hash of the batches commits to the inputs.
LEMMA IdentityBinds ==
  ASSUME NEW p \in Programs, NEW x, NEW y, NEW e, InputsFor(p, x), InputsFor(p, y),
         Identity(p, x, e), Identity(p, y, e)
  PROVE  x = y
<1> DEFINE B == BatchCount(x)
<1>1. /\ x \in Seq(Words) /\ y \in Seq(Words) /\ Len(x) = Len(y) /\ B \in Nat
      /\ BatchCount(y) = B
  BY BatchCountIs DEF InputsFor, BatchCount
<1> HIDE DEF B
<1>2. PICK f : /\ \A n \in 1 .. B : f[n] = HashChain(f[n - 1], Batch(x, n))
               /\ e = ExecID([ct |-> Seal(pub_SE, K_S), n |-> Len(p.inputs)], f[B])
  BY Zenon DEF Identity, B
<1>3. PICK g : /\ \A n \in 1 .. B : g[n] = HashChain(g[n - 1], Batch(y, n))
               /\ e = ExecID([ct |-> Seal(pub_SE, K_S), n |-> Len(p.inputs)], g[B])
  <2>1. \E g : /\ \A n \in 1 .. BatchCount(y) : g[n] = HashChain(g[n - 1], Batch(y, n))
               /\ e = ExecID([ct |-> Seal(pub_SE, K_S), n |-> Len(p.inputs)], g[BatchCount(y)])
    BY Zenon DEF Identity
  <2>2. QED
    BY <1>1, <2>1
<1>4. f[B] = g[B]
  BY <1>2, <1>3 DEF ExecID, Hash
<1> DEFINE S == {n \in 0 .. B : f[B - n] = g[B - n]}
<1>5. 0 \in S
  BY <1>1, <1>4
<1>6. ASSUME NEW n \in 0 .. B - 1, n \in S
      PROVE  n + 1 \in S
  <2> DEFINE m == B - n
  <2>1. m \in 1 .. B /\ B - (n + 1) = m - 1 /\ n + 1 \in 0 .. B
    BY <1>1
  <2>2. f[m] = g[m]
    BY <1>6
  <2> HIDE DEF m
  <2>3. f[m - 1] = g[m - 1]
    BY <1>2, <1>3, <2>1, <2>2, HashBinds
  <2>4. QED
    BY <2>1, <2>3
<1>7. \A n \in 0 .. B : n \in S
  <2>1. B \in Int /\ 0 \in Int /\ \A n \in 0 .. B - 1 : n \in S => n + 1 \in S
    BY <1>1, <1>6
  <2> HIDE DEF S
  <2>2. QED
    BY ONLY <1>5, <2>1, RangeInduction
<1>8. ASSUME NEW n \in 1 .. B
      PROVE  Batch(x, n) = Batch(y, n)
  <2>1. B - n \in 0 .. B /\ B - (B - n) = n
    BY <1>1
  <2>2. f[n] = g[n]
    BY <1>7, <2>1
  <2>3. QED
    BY <1>2, <1>3, <2>2, HashBinds
<1> HIDE DEF S
<1>9. ASSUME NEW q \in 1 .. Len(x)
      PROVE  x[q] = y[q]
  <2>1. PICK n \in 1 .. B, j \in 1 .. l_out : (n - 1) * l_out + j = q
    <3>1. Len(x) \in Nat /\ B = CeilDiv(Len(x), l_out)
      BY <1>1 DEF B, BatchCount
    <3>2. QED
      BY ONLY <3>1, <1>9, BatchOf, Zenon
  <2>2. Batch(x, n)[j] = x[q] /\ Batch(y, n)[j] = y[q]
    <3>1. q =< Len(x) /\ q =< Len(y)
      BY <1>1
    <3>2. QED
      BY <2>1, <3>1, Zenon DEF Batch
  <2>3. QED
    BY <1>8, <2>2
<1>10. QED
  BY <1>1, <1>9

LEMMA WordBinds ==
  ASSUME NEW d, NEW e, NEW x, NEW y, NEW v, NEW w, WordOf(d, x, v).nonce = WordOf(e, y, w).nonce
  PROVE  d = e /\ x = y
  BY DEF WordOf, AEAD, Hash

\* The numbers of input batches and of LLMIs never meet.
LEMMA NumbersApart ==
  ASSUME NEW p \in Programs, NEW inps, InputsFor(p, inps), NEW n \in 1 .. BatchCount(inps),
         NEW m \in 1 .. Len(p.instrs)
  PROVE  n # InstrID(p, m)
<1> DEFINE d == l_out
           L == Len(p.inputs)
<1>1. d \in Nat \ {0} /\ L \in Nat /\ n =< (L + d - 1) \div d /\ n \in Nat /\ m \in Nat \ {0}
  <2>1. BatchCount(inps) \in Nat /\ BatchCount(inps) = CeilDiv(L, d)
    BY BatchCountIs DEF InputsFor, BatchCount
  <2>2. d \in Nat \ {0} /\ L \in Nat /\ Len(p.instrs) \in Nat
    BY SizeAssumption, ProgramFacts
  <2> HIDE DEF L, d
  <2>3. n =< CeilDiv(L, d) /\ n \in Nat /\ m \in Nat \ {0}
    BY <2>1, <2>2
  <2>4. QED
    BY <2>2, <2>3 DEF CeilDiv
<1>2. InstrID(p, m) = m + (L \div d + 1)
  BY DEF InstrID
<1> HIDE DEF L, d
<1>3. (L + d - 1) \div d =< L \div d + 1 /\ L \div d \in Nat /\ (L + d - 1) \div d \in Nat
  <2>1. L \div d \in Nat /\ (L + d - 1) \div d \in Nat
    BY <1>1
  <2>2. L < d * (L \div d) + d /\ d * ((L + d - 1) \div d) =< L + d - 1
    BY <1>1
  <2> DEFINE x == L \div d
             y == (L + d - 1) \div d
  <2> HIDE DEF x, y
  <2>3. L < d * x + d /\ d * y =< L + d - 1 /\ x \in Nat /\ y \in Nat
    BY <2>1, <2>2 DEF x, y
  <2>4. y =< x + 1
    <3> SUFFICES ASSUME y >= x + 2 PROVE FALSE
      BY <2>3
    <3>1. d * y >= d * (x + 2)
      BY <1>1, <2>3
    <3>2. d * (x + 2) = d * x + d + d
      BY <1>1, <2>3
    <3>3. QED
      BY <1>1, <2>3, <3>1, <3>2
  <2>5. QED
    BY <2>1, <2>4 DEF x, y
<1>4. QED
  BY <1>1, <1>2, <1>3

\* Two words that were encrypted under one nonce are one word.
LEMMA KnownOnce ==
  ASSUME NEW p \in Programs, NEW x, NEW y, KnownWord(p, x), KnownWord(p, y), x.nonce = y.nonce
  PROVE  x = y
<1>1. PICK inps, e : /\ InputsFor(p, inps) /\ Identity(p, inps, e)
                     /\ IsInputWord(inps, e, x) \/ IsResult(p, inps, e, x)
  BY DEF KnownWord
<1>2. PICK inps2, e2 : /\ InputsFor(p, inps2) /\ Identity(p, inps2, e2)
                       /\ IsInputWord(inps2, e2, y) \/ IsResult(p, inps2, e2, y)
  BY DEF KnownWord
<1>3. CASE IsInputWord(inps, e, x)
  <2>1. PICK n \in 1 .. BatchCount(inps), j \in 1 .. l_out :
               x = WordOf(e, <<n, j - 1>>, Batch(inps, n)[j])
    BY <1>3 DEF IsInputWord
  <2>2. CASE IsInputWord(inps2, e2, y)
    <3>1. PICK m \in 1 .. BatchCount(inps2), q \in 1 .. l_out :
                 y = WordOf(e2, <<m, q - 1>>, Batch(inps2, m)[q])
      BY <2>2 DEF IsInputWord
    <3>2. e = e2 /\ n = m /\ j - 1 = q - 1
      BY <2>1, <3>1, WordBinds
    <3>3. inps = inps2 /\ j = q
      <4>1. j = q
        BY <3>2, SizeAssumption
      <4>2. QED
        BY <1>1, <1>2, <3>2, <4>1, IdentityBinds
    <3>4. QED
      BY <2>1, <3>1, <3>2, <3>3
  <2>3. CASE IsResult(p, inps2, e2, y)
    <3>1. PICK m \in 1 .. Len(p.instrs) : \E q, v : y = WordOf(e2, <<InstrID(p, m), q - 1>>, v)
      BY <2>3 DEF IsResult
    <3>2. n = InstrID(p, m)
      BY <2>1, <3>1, WordBinds
    <3>3. QED
      BY <1>1, <3>2, NumbersApart
  <2>4. QED
    BY <1>2, <2>2, <2>3
<1>4. CASE IsResult(p, inps, e, x)
  <2>1. PICK n \in 1 .. Len(p.instrs) : \E j \in 1 .. Len(p.instrs[n].outputs) : \E F, G, v :
          /\ MemRun(p, inps, n - 1, F)
          /\ RegsRun(p.instrs[n], F[n - 1], Len(p.instrs[n].seq), G)
          /\ IsOutput(p.instrs[n], G, j, v)
          /\ x = WordOf(e, <<InstrID(p, n), j - 1>>, v)
    BY <1>4, Zenon DEF IsResult
  <2>a. PICK j \in 1 .. Len(p.instrs[n].outputs) : \E F, G, v :
          /\ MemRun(p, inps, n - 1, F)
          /\ RegsRun(p.instrs[n], F[n - 1], Len(p.instrs[n].seq), G)
          /\ IsOutput(p.instrs[n], G, j, v)
          /\ x = WordOf(e, <<InstrID(p, n), j - 1>>, v)
    BY <2>1, Zenon
  <2>2. PICK F, G, v :
          /\ MemRun(p, inps, n - 1, F)
          /\ RegsRun(p.instrs[n], F[n - 1], Len(p.instrs[n].seq), G)
          /\ IsOutput(p.instrs[n], G, j, v)
          /\ x = WordOf(e, <<InstrID(p, n), j - 1>>, v)
    BY <2>a, Zenon
  <2>3. CASE IsInputWord(inps2, e2, y)
    <3>1. PICK m \in 1 .. BatchCount(inps2), q \in 1 .. l_out :
                 y = WordOf(e2, <<m, q - 1>>, Batch(inps2, m)[q])
      BY <2>3 DEF IsInputWord
    <3>2. m = InstrID(p, n)
      BY <2>2, <3>1, WordBinds
    <3>3. QED
      BY <1>2, <3>2, NumbersApart
  <2>4. CASE IsResult(p, inps2, e2, y)
    <3>1. PICK m \in 1 .. Len(p.instrs) : \E q \in 1 .. Len(p.instrs[m].outputs) : \E K, J, w :
            /\ MemRun(p, inps2, m - 1, K)
            /\ RegsRun(p.instrs[m], K[m - 1], Len(p.instrs[m].seq), J)
            /\ IsOutput(p.instrs[m], J, q, w)
            /\ y = WordOf(e2, <<InstrID(p, m), q - 1>>, w)
      BY <2>4, Zenon DEF IsResult
    <3>a. PICK q \in 1 .. Len(p.instrs[m].outputs) : \E K, J, w :
            /\ MemRun(p, inps2, m - 1, K)
            /\ RegsRun(p.instrs[m], K[m - 1], Len(p.instrs[m].seq), J)
            /\ IsOutput(p.instrs[m], J, q, w)
            /\ y = WordOf(e2, <<InstrID(p, m), q - 1>>, w)
      BY <3>1, Zenon
    <3>2. PICK K, J, w :
            /\ MemRun(p, inps2, m - 1, K)
            /\ RegsRun(p.instrs[m], K[m - 1], Len(p.instrs[m].seq), J)
            /\ IsOutput(p.instrs[m], J, q, w)
            /\ y = WordOf(e2, <<InstrID(p, m), q - 1>>, w)
      BY <3>a, Zenon
    <3>3. e = e2 /\ InstrID(p, n) = InstrID(p, m) /\ j - 1 = q - 1
      BY <2>2, <3>2, WordBinds
    <3>4. n = m
      <4>1. Len(p.inputs) \div l_out \in Nat
        <5>1. Len(p.inputs) \in Nat /\ l_out \in Nat \ {0}
          BY ProgramFacts, SizeAssumption
        <5>2. QED
          BY <5>1, QuotientIsNat
      <4>2. QED
        <5> DEFINE a == Len(p.inputs) \div l_out
        <5>1. n + (a + 1) = m + (a + 1) /\ a \in Nat /\ n \in Int /\ m \in Int
          BY <3>3, <4>1, ProgramFacts DEF InstrID
        <5> HIDE DEF a
        <5>2. QED
          BY <5>1
    <3>5. j = q /\ inps = inps2
      <4>1. Len(p.instrs[n].outputs) \in Nat /\ Len(p.instrs[m].outputs) \in Nat
        BY SnippetIs
      <4>2. j = q
        BY <3>3, <4>1
      <4>3. QED
        BY <1>1, <1>2, <3>3, <4>2, IdentityBinds
    <3>6. F[n - 1] = K[n - 1]
      <4>1. n - 1 \in 0 .. Len(p.instrs)
        BY ProgramFacts
      <4>2. MemRun(p, inps, n - 1, K)
        BY <3>2, <3>4, <3>5
      <4>3. QED
        BY <2>2, <4>1, <4>2, MemRunUnique
    <3>7. /\ RegsRun(p.instrs[n], F[n - 1], Len(p.instrs[n].seq), J)
          /\ IsOutput(p.instrs[n], J, j, w)
      BY <3>2, <3>4, <3>5, <3>6
    <3>8. v = w
      <4> DEFINE mem == F[n - 1]
      <4>1. /\ RegsRun(p.instrs[n], mem, Len(p.instrs[n].seq), G)
            /\ RegsRun(p.instrs[n], mem, Len(p.instrs[n].seq), J)
        BY <2>2, <3>7
      <4> HIDE DEF mem
      <4>2. QED
        BY ONLY <2>2, <3>7, <4>1, OutputUnique
    <3>9. QED
      BY <2>2, <3>2, <3>3, <3>4, <3>5, <3>8
  <2>5. QED
    BY <1>2, <2>3, <2>4
<1>5. QED
  BY <1>1, <1>3, <1>4

LEMMA KnownIsOnce == prog \in Programs /\ EncsKnown => NonceOnce
  BY KnownOnce DEF EncsKnown, NonceOnce

-----------------------------------------------------------------------------
(***************************************************************************)
(* The invariant holds initially and is preserved.                         *)
(***************************************************************************)
LEMMA RegsRunExtends ==
  ASSUME NEW mi, NEW mem, NEW n \in Nat, NEW G, RegsRun(mi, mem, n, G),
         NEW y \in [Regs -> Words \cup {Uninit}], RegsStep(mi.seq[n + 1], G[n], y),
         \A q \in Regs : RegWritten(mi, n + 2, q) => y[q] \in Words
  PROVE  \E J : RegsRun(mi, mem, n + 1, J) /\ J[n + 1] = y
<1> DEFINE J == [m \in 0 .. n + 1 |-> IF m = n + 1 THEN y ELSE G[m]]
<1>1. J[n + 1] = y /\ \A m \in 0 .. n : J[m] = G[m]
  OBVIOUS
<1> HIDE DEF J
<1>2. J[0] = [q \in Regs |-> IF q < Len(mi.inputs) THEN mem[mi.inputs[q + 1]] ELSE Uninit]
  BY <1>1 DEF RegsRun
<1>3. ASSUME NEW m \in 0 .. n + 1
      PROVE  /\ J[m] \in [Regs -> Words \cup {Uninit}]
             /\ \A q \in Regs : RegWritten(mi, m + 1, q) => J[m][q] \in Words
  <2>1. CASE m = n + 1
    <3>1. m + 1 = n + 2 /\ J[m] = y
      BY <1>1, <2>1
    <3>2. QED
      BY <3>1
  <2>2. CASE m \in 0 .. n
    BY <1>1, <2>2 DEF RegsRun
  <2>3. QED
    BY <2>1, <2>2
<1>4. ASSUME NEW m \in 0 .. (n + 1) - 1
      PROVE  RegsStep(mi.seq[m + 1], J[m], J[m + 1])
  <2>1. CASE m = n
    BY <1>1, <2>1
  <2>2. CASE m \in 0 .. n - 1
    <3>1. J[m] = G[m] /\ J[m + 1] = G[m + 1]
      BY <1>1, <2>2
    <3>2. RegsStep(mi.seq[m + 1], G[m], G[m + 1])
      BY <2>2 DEF RegsRun
    <3>3. QED
      BY <3>1, <3>2
  <2>3. QED
    BY <2>1, <2>2
<1>5. RegsRun(mi, mem, n + 1, J)
  BY <1>2, <1>3, <1>4 DEF RegsRun
<1>6. QED
  BY <1>1, <1>5

Extended(F, n, y) == [m \in 0 .. n + 1 |-> IF m = n + 1 THEN y ELSE F[m]]

LEMMA MemRunExtends ==
  ASSUME NEW p, NEW inps, NEW n \in Nat, NEW F, MemRun(p, inps, n, F),
         NEW y, NEW x, NEW mi, MemStep(mi, x, y), F[n] = x, p.instrs[n + 1] = mi
  PROVE  /\ MemRun(p, inps, n + 1, Extended(F, n, y))
         /\ Extended(F, n, y)[n + 1] = y
<1> DEFINE J == Extended(F, n, y)
<1>1. J[n + 1] = y /\ \A m \in 0 .. n : J[m] = F[m]
  BY DEF Extended
<1> HIDE DEF J
<1>2. J[0] = InputMem(p, inps)
  BY <1>1 DEF MemRun
<1>3. ASSUME NEW m \in 0 .. (n + 1) - 1
      PROVE  MemStep(p.instrs[m + 1], J[m], J[m + 1])
  <2>1. CASE m = n
    BY <1>1, <2>1
  <2>2. CASE m \in 0 .. n - 1
    <3>1. J[m] = F[m] /\ J[m + 1] = F[m + 1]
      BY <1>1, <2>2
    <3>2. MemStep(p.instrs[m + 1], F[m], F[m + 1])
      BY <2>2 DEF MemRun
    <3>3. QED
      BY <3>1, <3>2
  <2>3. QED
    BY <2>1, <2>2
<1>4. MemRun(p, inps, n + 1, J)
  BY <1>2, <1>3 DEF MemRun
<1>5. QED
  BY <1>1, <1>4 DEF J

LEMMA KnownInit == IInit => NInv
  BY DEF IInit, NInv, EncsKnown, InputsKnown, MemoryKnown, RegsKnown

\* Steps that neither encrypt nor compute.
LEMMA QuietKnown ==
  ASSUME NInv, Compile \/ Invoke \/ Load \/ HashBatch \/ Finish \/ UNCHANGED vars
  PROVE  NInv'
<1>1. UNCHANGED <<prog, encs>>
  BY DEF Compile, SerNext, SerializeHeader, SerializeLLMI, SerializeEnd, Invoke, Load, HashBatch,
     Finish, vars, svars, ivars
<1>2. EncsKnown'
  BY <1>1 DEF NInv, EncsKnown
<1>3. CASE Compile \/ UNCHANGED vars
  <2>1. UNCHANGED <<prog, pc, prog_inps, execID, memory, i, reg, k>>
    BY <1>3 DEF Compile, SerNext, SerializeHeader, SerializeLLMI, SerializeEnd, vars, svars, ivars
  <2>2. PlainMem' = PlainMem
    BY <2>1 DEF PlainMem, PlainWord
  <2>3. QED
    BY <1>2, <2>1, <2>2 DEF NInv, InputsKnown, MemoryKnown, RegsKnown
<1>4. CASE Invoke \/ Load \/ HashBatch \/ Finish
  <2>1. pc' \in {"load", "hash", "bad_args", "done"}
    BY <1>4 DEF Invoke, Load, HashBatch, Finish
  <2>2. QED
    BY <1>2, <2>1 DEF NInv, InputsKnown, MemoryKnown, RegsKnown
<1>5. QED
  BY <1>3, <1>4

\* The identity SEstart returns is that of the inputs that were hashed.
LEMMA StartKnown ==
  ASSUME IInv, NInv, Start
  PROVE  NInv'
<1>1. /\ pc = "hash" /\ b = BatchCount(prog_inps) /\ pc' \in {"input", "bad_start"}
      /\ UNCHANGED <<prog, prog_inps, encs>>
      /\ pc' = "input" => execID' = ExecID(bc.header, H[b])
  BY DEF Start, SEstart, svars, argv
<1>2. EncsKnown'
  BY <1>1 DEF NInv, EncsKnown
<1>3. InputsKnown'
  <2> SUFFICES ASSUME pc' = "input"
               PROVE  InputsFor(prog, prog_inps) /\ Identity(prog, prog_inps, execID')
    BY <1>1 DEF InputsKnown
  <2>1. InputsFor(prog, prog_inps)
    BY <1>1 DEF InputsFor, IInv, HostInv, InputsInv
  <2>2. BatchCount(prog_inps) \in Nat
    BY <2>1, BatchCountIs DEF InputsFor
  <2>3. /\ H[0] = ZeroHash
        /\ \A n \in 1 .. BatchCount(prog_inps) : H[n] = HashChain(H[n - 1], Batch(prog_inps, n))
    BY <1>1, <2>2 DEF IInv, HostInv, ChainInv
  <2>4. bc.header = [ct |-> Seal(pub_SE, K_S), n |-> Len(prog.inputs)]
    BY <1>1, BytecodeIs DEF IInv, HostInv, ControlInv
  <2>5. execID' = ExecID([ct |-> Seal(pub_SE, K_S), n |-> Len(prog.inputs)],
                         H[BatchCount(prog_inps)])
    BY <1>1, <2>4
  <2>6. Identity(prog, prog_inps, execID')
    BY <2>3, <2>5, Zenon DEF Identity
  <2>7. QED
    BY <2>1, <2>6
<1>4. QED
  BY <1>1, <1>2, <1>3 DEF NInv, MemoryKnown, RegsKnown

\* SEinput encrypts words of the inputs.
LEMMA InputKnown ==
  ASSUME IInv, NInv, Input
  PROVE  NInv'
<1> DEFINE X == Batch(prog_inps, b)
<1>1. /\ pc = "input" /\ b > 0 /\ pc' \in {"input", "bad_input"}
      /\ UNCHANGED <<prog, prog_inps, execID>>
      /\ encs' = encs \/ encs' = encs \cup {SEinput(execID, b, H[b - 1], X).C[j] : j \in 1 .. l_out}
  BY DEF Input, svars, argv, session
<1>2. InputsFor(prog, prog_inps) /\ Identity(prog, prog_inps, execID)
  BY <1>1 DEF NInv, InputsKnown
<1>3. b \in 1 .. BatchCount(prog_inps)
  <2>1. BatchCount(prog_inps) \in Nat /\ b \in 0 .. BatchCount(prog_inps)
    BY <1>1, <1>2, BatchCountIs DEF InputsFor, IInv, HostInv, ChainInv
  <2>2. QED
    BY <1>1, <2>1
<1>4. ASSUME NEW j \in 1 .. l_out
      PROVE  KnownWord(prog, SEinput(execID, b, H[b - 1], X).C[j])
  <2>1. SEinput(execID, b, H[b - 1], X).C[j] = WordOf(execID, <<b, j - 1>>, Batch(prog_inps, b)[j])
    BY DEF SEinput
  <2>2. IsInputWord(prog_inps, execID, SEinput(execID, b, H[b - 1], X).C[j])
    BY <1>3, <2>1 DEF IsInputWord
  <2>3. QED
    BY <1>2, <2>2 DEF KnownWord
<1>5. EncsKnown'
  BY <1>1, <1>4 DEF NInv, EncsKnown
<1>6. QED
  BY <1>1, <1>2, <1>5 DEF NInv, InputsKnown, MemoryKnown, RegsKnown

\* The cells the host fills hold the inputs.
LEMMA StoreInputsKnown ==
  ASSUME IInv, NInv, StoreInputs
  PROVE  NInv'
<1>1. /\ pc = "input" /\ pc' = "eval" /\ UNCHANGED <<prog, prog_inps, execID, i, encs>>
  BY DEF StoreInputs, svars, argv, session
<1>2. EncsKnown' /\ InputsKnown'
  BY <1>1 DEF NInv, EncsKnown, InputsKnown
<1>3. i = 1 /\ memory = [c \in Cells |-> Junk]
  BY <1>1 DEF IInv, HostInv, ControlInv
<1>4. PlainMem = [c \in Cells |-> Uninit]
  BY <1>3, PlainWordIs DEF PlainMem
<1>5. PlainMem' = [c \in Cells |-> IF c \in RangeOf(prog.inputs)
                                   THEN prog_inps[LastPos(prog.inputs, c)] ELSE PlainMem[c]]
  BY StoreInputsRefines, SameOperators DEF Plain!PStart, PlainMem
<1>6. PlainMem' = InputMem(prog, prog_inps)
  BY <1>4, <1>5 DEF InputMem
<1> DEFINE F == [m \in 0 .. 0 |-> PlainMem']
<1>7. F[0] = PlainMem'
  OBVIOUS
<1> HIDE DEF F
<1>8. MemRun(prog, prog_inps, 0, F)
  BY <1>6, <1>7 DEF MemRun
<1>9. MemoryKnown'
  <2>1. i' - 1 = 0
    BY <1>1, <1>3
  <2>2. QED
    BY <1>1, <1>7, <1>8, <2>1 DEF MemoryKnown
<1>10. QED
  BY <1>1, <1>2, <1>9 DEF NInv, RegsKnown

\* What an LLMI loads are words.
LEMMA LoadsWords ==
  ASSUME IInv, TInv, pc = "eval", i \in 1 .. Len(prog.instrs),
         NEW j \in 1 .. Len(prog.instrs[i].inputs)
  PROVE  PlainMem[prog.instrs[i].inputs[j]] \in Words
<1> DEFINE c == prog.instrs[i].inputs[j]
<1>1. c \in Cells /\ memory[c].kind = "ct"
  BY LLMIReads DEF IInv
<1> HIDE DEF c
<1>2. memory[c] \in CellValues(encs) /\ \A x \in encs : x.msg \in Words
  BY <1>1 DEF TInv, TypeOK, CellValues
<1>3. memory[c].ct.msg \in Words
  BY <1>1, <1>2, CellValuesIs
<1>4. PlainMem[c] = memory[c].ct.msg
  BY <1>1 DEF PlainMem, PlainWord
<1>5. QED
  BY <1>3, <1>4 DEF c

LEMMA EvalCallKnown ==
  ASSUME IInv, IInv', TInv, TInv', NInv, EvalCall
  PROVE  NInv'
<1> DEFINE mi == prog.instrs[i]
<1>1. /\ pc = "eval" /\ UNCHANGED <<prog, prog_inps, execID, memory, i, k, encs>>
  BY DEF EvalCall, svars, argv, session
<1>2. PlainMem' = PlainMem
  BY <1>1 DEF PlainMem, PlainWord
<1>3. EncsKnown' /\ InputsKnown' /\ MemoryKnown'
  BY <1>1, <1>2 DEF NInv, EncsKnown, InputsKnown, MemoryKnown
<1>4. /\ k = 1 /\ prog \in Programs /\ i \in 1 .. Len(prog.instrs)
      /\ reg' = [q \in Regs |-> IF q < Len(mi.inputs) THEN PlainMem[mi.inputs[q + 1]] ELSE Uninit]
  <2>1. Plain!PLoad
    BY EvalCallRefines
  <2>2. k = 1 /\ prog \in Programs /\ i \in 1 .. Len(prog.instrs) + 1 /\ Len(prog.instrs) \in Nat
    BY <1>1, ProgramFacts DEF IInv, HostInv, ControlInv, SerializerInv
  <2>3. i =< Len(prog.instrs)
    BY <2>1 DEF Plain!PLoad
  <2>4. reg' = [q \in Regs |-> IF q < Len(mi.inputs) THEN PlainMem[mi.inputs[q + 1]] ELSE Uninit]
    BY <2>1, SameOperators DEF Plain!PLoad, Plain!MI, PlainMem
  <2>5. QED
    BY <2>2, <2>3, <2>4
<1> DEFINE G == [m \in 0 .. 0 |-> reg']
<1>5. G[0] = reg'
  OBVIOUS
<1> HIDE DEF G
<1>6. ASSUME NEW q \in Regs, RegWritten(mi, 1, q)
      PROVE  reg'[q] \in Words
  <2>1. q < Len(mi.inputs)
    BY <1>6 DEF RegWritten
  <2>2. q + 1 \in 1 .. Len(mi.inputs)
    <3>1. Len(mi.inputs) \in Nat /\ q \in Nat
      BY <1>4, SnippetIs, SizeAssumption DEF Regs
    <3>2. QED
      BY <2>1, <3>1
  <2>3. reg'[q] = PlainMem[mi.inputs[q + 1]]
    BY <1>4, <2>1
  <2>4. QED
    BY <1>1, <1>4, <2>2, <2>3, LoadsWords
<1>7. reg' \in [Regs -> Words \cup {Uninit}]
  BY DEF TInv, TypeOK
<1> HIDE DEF mi
<1>8. RegsRun(mi, PlainMem, 0, G)
  BY <1>4, <1>5, <1>6, <1>7 DEF RegsRun
<1>9. RegsKnown'
  <2>1. k' - 1 = 0 /\ prog'.instrs[i'] = mi
    BY <1>1, <1>4 DEF mi
  <2>2. QED
    BY <1>2, <1>5, <1>8, <2>1 DEF RegsKnown
<1>10. QED
  BY <1>3, <1>9 DEF NInv

LEMMA ExecuteLLIKnown ==
  ASSUME IInv, IInv', TInv, TInv', NInv, ExecuteLLI
  PROVE  NInv'
<1> DEFINE mi == prog.instrs[i]
<1>1. pc = "lls" /\ k =< Len(LLS) /\ UNCHANGED <<prog, prog_inps, execID, memory, i, encs>>
  BY DEF ExecuteLLI, svars, argv, session
<1>2. PlainMem' = PlainMem
  BY <1>1 DEF PlainMem, PlainWord
<1>3. pc' \in {"lls", "trap"}
  BY <1>1 DEF ExecuteLLI, IInv, HostInv, ControlInv
<1>4. EncsKnown' /\ InputsKnown' /\ MemoryKnown'
  BY <1>1, <1>2, <1>3 DEF NInv, EncsKnown, InputsKnown, MemoryKnown
<1>5. /\ LLS = mi.seq /\ prog \in Programs /\ i \in 1 .. Len(prog.instrs)
      /\ k \in 1 .. Len(mi.seq) /\ Len(mi.seq) \in Nat
      /\ \A m \in 1 .. Len(mi.seq) : IsLLI(mi.seq[m])
  <2>1. /\ spc = "done" /\ prog \in Programs /\ i \in 1 .. Len(prog.instrs)
        /\ k \in 1 .. Len(mi.seq) + 1 /\ SerializerInv
    BY <1>1 DEF IInv, HostInv, ControlInv, SerializerInv
  <2>2. LLS = mi.seq
    BY <2>1, LLMIIs
  <2>3. Len(mi.seq) \in Nat /\ \A m \in 1 .. Len(mi.seq) : IsLLI(mi.seq[m])
    BY <2>1, SnippetIs
  <2> HIDE DEF mi
  <2>4. QED
    BY <1>1, <2>1, <2>2, <2>3
<1>6. ASSUME pc' = "lls" PROVE RegsKnown'
  <2>1. PICK G : RegsRun(mi, PlainMem, k - 1, G) /\ G[k - 1] = reg
    BY <1>1 DEF NInv, RegsKnown
  <2>2. PICK v \in LLIOutcomes(reg, mi.seq[k]) :
          v # Trap /\ reg' = [reg EXCEPT ![mi.seq[k].dst] = v] /\ k' = k + 1
    BY <1>1, <1>5, <1>6 DEF ExecuteLLI
  <2> DEFINE n == k - 1
             lli == mi.seq[k]
  <2>3. n \in Nat /\ n + 1 = k /\ IsLLI(lli) /\ k \in 1 .. Len(mi.seq)
    BY <1>5
  <2>4. /\ reg \in [Regs -> Words \cup {Uninit}] /\ reg' \in [Regs -> Words \cup {Uninit}]
        /\ v \in Words
    <3>1. reg \in [Regs -> Words \cup {Uninit}] /\ reg' \in [Regs -> Words \cup {Uninit}]
      BY DEF TInv, TypeOK
    <3>2. QED
      BY <2>2, <2>3, <3>1, OutcomesAreWords
  <2>5. \A q \in Regs : RegWritten(mi, k, q) => reg[q] \in Words
    <3>1. n \in 0 .. n
      BY <2>3
    <3>2. \A q \in Regs : RegWritten(mi, n + 1, q) => G[n][q] \in Words
      BY <2>1, <3>1 DEF RegsRun
    <3>3. QED
      BY <2>1, <2>3, <3>2
  <2> HIDE DEF mi
  <2>6. ASSUME NEW q \in Regs, RegWritten(mi, n + 2, q)
        PROVE  reg'[q] \in Words
    <3>1. RegWritten(mi, k, q) \/ lli.dst = q
      <4>1. (n + 2) - 1 = k /\ k \in Nat
        BY <2>3
      <4>2. QED
        BY <2>6, <4>1 DEF RegWritten
    <3>2. QED
      BY <2>2, <2>4, <2>5, <3>1
  <2>7. RegsStep(mi.seq[n + 1], G[n], reg')
    BY <2>1, <2>2, <2>3 DEF RegsStep
  <2>8. \E J : RegsRun(mi, PlainMem, n + 1, J) /\ J[n + 1] = reg'
    <3> HIDE DEF n
    <3>1. RegsRun(mi, PlainMem, n, G)
      BY <2>1 DEF n
    <3>2. QED
      BY <2>3, <2>4, <2>6, <2>7, <3>1, RegsRunExtends
  <2>9. k' - 1 = n + 1 /\ prog'.instrs[i'] = mi
    BY <1>1, <2>2, <2>3 DEF mi
  <2>10. QED
    BY <1>2, <2>8, <2>9 DEF RegsKnown
<1>7. QED
  BY <1>3, <1>4, <1>6 DEF NInv, RegsKnown

\* The words SEeval encrypts, and those it leaves in the cells, are the ones
\* the inputs of the execution determine.
LEMMA EvalReturnKnown ==
  ASSUME IInv, NInv, EvalReturn
  PROVE  NInv'
<1> DEFINE mi == prog.instrs[i]
           outs == mi.outputs
           a == LLMI.aells
<1>1. /\ pc = "lls" /\ pc' = "eval" /\ i' = i + 1 /\ k > Len(LLS)
      /\ UNCHANGED <<prog, prog_inps, execID>>
  BY DEF EvalReturn, svars, argv, session
<1>2. /\ LLS = mi.seq /\ prog \in Programs /\ i \in 1 .. Len(prog.instrs)
      /\ Len(mi.seq) \in Nat /\ Len(prog.instrs) \in Nat /\ k = Len(mi.seq) + 1
      /\ a.instrID = InstrID(prog, i) /\ a.out_count = Len(outs) /\ LLMI.mem_outs = outs
      /\ Len(outs) \in Nat
  <2>1. /\ spc = "done" /\ prog \in Programs /\ i \in 1 .. Len(prog.instrs)
        /\ k \in 1 .. Len(mi.seq) + 1 /\ SerializerInv
    BY <1>1 DEF IInv, HostInv, ControlInv, SerializerInv
  <2>2. /\ LLS = mi.seq /\ a.instrID = InstrID(prog, i) /\ a.out_count = Len(outs)
        /\ LLMI.mem_outs = outs
    BY <2>1, LLMIIs
  <2>3. Len(mi.seq) \in Nat /\ Len(outs) \in Nat /\ Len(prog.instrs) \in Nat
    BY <2>1, SnippetIs, ProgramFacts
  <2> HIDE DEF mi, a
  <2>4. k = Len(mi.seq) + 1
    BY <1>1, <2>1, <2>2, <2>3
  <2>5. QED
    BY <2>1, <2>2, <2>3, <2>4
<1>3. PICK w \in [1 .. Len(outs) -> Words] :
        /\ \A j \in 1 .. Len(outs) : w[j] \in RegValues(reg, OutputReg(j))
        /\ memory' = Stored(memory, outs,
                            [j \in 1 .. Len(outs) |-> SEevalOutput(execID, a, j, w[j])])
        /\ encs' = encs \cup (IF a.reveal_flag = 1 THEN {} ELSE
                     {SEevalOutput(execID, a, j, w[j]).ct : j \in 1 .. Len(outs)})
  <2> DEFINE Ret(x, oc, mo) ==
        \E w \in [1 .. oc -> Words] :
          /\ \A j \in 1 .. oc : w[j] \in RegValues(reg, OutputReg(j))
          /\ memory' = Stored(memory, mo,
                              [j \in 1 .. oc |-> SEevalOutput(execID, x, j, w[j])])
          /\ encs' = encs \cup (IF x.reveal_flag = 1 THEN {} ELSE
                       {SEevalOutput(execID, x, j, w[j]).ct : j \in 1 .. oc})
  <2>1. Ret(a, a.out_count, LLMI.mem_outs)
    BY Zenon DEF EvalReturn
  <2> HIDE DEF Ret, mi, outs, a
  <2>2. Ret(a, Len(outs), outs)
    BY <1>2, <2>1
  <2>3. QED
    BY <2>2, Zenon DEF Ret
<1>4. PICK F : MemRun(prog, prog_inps, i - 1, F) /\ F[i - 1] = PlainMem
  BY <1>1 DEF NInv, MemoryKnown
<1>5. PICK G : RegsRun(mi, PlainMem, Len(mi.seq), G) /\ G[Len(mi.seq)] = reg
  <2>1. k - 1 = Len(mi.seq)
    BY <1>2
  <2>2. QED
    BY <1>1, <2>1 DEF NInv, RegsKnown
<1>6. ASSUME NEW j \in 1 .. Len(outs)
      PROVE  IsOutput(mi, G, j, w[j])
  BY <1>3, <1>5 DEF IsOutput
<1>7. InputsFor(prog, prog_inps) /\ Identity(prog, prog_inps, execID)
  BY <1>1 DEF NInv, InputsKnown
<1>8. EncsKnown'
  <2> SUFFICES ASSUME NEW x \in encs', x \notin encs PROVE KnownWord(prog, x)
    BY <1>1 DEF NInv, EncsKnown
  <2>1. PICK j \in 1 .. Len(outs) : x = SEevalOutput(execID, a, j, w[j]).ct /\ a.reveal_flag # 1
    BY <1>3
  <2>2. x = WordOf(execID, <<InstrID(prog, i), j - 1>>, w[j])
    BY <1>2, <2>1 DEF SEevalOutput, Encrypted
  <2>3. IsResult(prog, prog_inps, execID, x)
    <3>1. /\ MemRun(prog, prog_inps, i - 1, F)
          /\ RegsRun(prog.instrs[i], F[i - 1], Len(prog.instrs[i].seq), G)
          /\ IsOutput(prog.instrs[i], G, j, w[j])
      BY <1>4, <1>5, <1>6
    <3>2. i \in 1 .. Len(prog.instrs) /\ j \in 1 .. Len(prog.instrs[i].outputs)
      BY <1>2
    <3> HIDE DEF mi, outs
    <3>3. QED
      BY ONLY <2>2, <3>1, <3>2, Zenon DEF IsResult
  <2>4. QED
    BY <1>7, <2>3 DEF KnownWord
<1>9. MemoryKnown'
  <2>1. PlainMem' = MemAfter(mi, PlainMem, w)
    <3>1. ASSUME NEW c \in Cells
          PROVE  PlainWord(memory'[c]) =
                   IF c \in RangeOf(outs) THEN w[LastPos(outs, c)] ELSE PlainWord(memory[c])
      <4>1. DOMAIN memory = Cells
        BY DEF IInv, HostInv, MemoryInv
      <4>2. CASE c \in RangeOf(outs)
        <5> DEFINE q == LastPos(outs, c)
        <5>1. q \in 1 .. Len(outs)
          BY <1>2, <4>2, LastPosIs
        <5>2. memory'[c] = SEevalOutput(execID, a, q, w[q])
          <6> HIDE DEF q, outs, a
          <6>1. memory'[c] = [j \in 1 .. Len(outs) |-> SEevalOutput(execID, a, j, w[j])][q]
            BY <1>3, <4>1, <4>2 DEF Stored, q
          <6>2. QED
            BY <5>1, <6>1
        <5> HIDE DEF q
        <5>3. \/ memory'[c] = Clear(w[q])
              \/ memory'[c] = Encrypted(WordOf(execID, <<a.instrID, q - 1>>, w[q]))
          BY <5>2 DEF SEevalOutput
        <5>4. PlainWord(memory'[c]) = w[q]
          BY <5>3, PlainWordIs
        <5>5. QED
          BY <4>2, <5>4 DEF q
      <4>3. CASE c \notin RangeOf(outs)
        BY <1>3, <4>1, <4>3 DEF Stored
      <4>4. QED
        BY <4>2, <4>3
    <3>2. QED
      BY <3>1 DEF PlainMem, MemAfter
  <2>2. MemStep(mi, PlainMem, PlainMem')
    BY <1>5, <1>6, <2>1, Zenon DEF MemStep
  <2> DEFINE n == i - 1
  <2>3. n \in Nat /\ n + 1 = i /\ i' - 1 = n + 1
    BY <1>1, <1>2
  <2>4. MemRun(prog, prog_inps, n, F) /\ F[n] = PlainMem /\ prog.instrs[n + 1] = mi
    BY <1>4, <2>3
  <2> HIDE DEF n, mi
  <2>5. \E J : MemRun(prog, prog_inps, n + 1, J) /\ J[n + 1] = PlainMem'
    BY <2>2, <2>3, <2>4, MemRunExtends
  <2>6. QED
    BY <1>1, <2>3, <2>5 DEF MemoryKnown
<1>10. QED
  BY <1>1, <1>7, <1>8, <1>9 DEF NInv, InputsKnown, RegsKnown

LEMMA KnownStep ==
  ASSUME IInv, IInv', TInv, TInv', NInv, [Next]_vars
  PROVE  NInv'
<1>1. \/ Compile \/ Invoke \/ Load \/ HashBatch \/ Finish \/ UNCHANGED vars
      \/ Start \/ Input \/ StoreInputs \/ EvalCall \/ ExecuteLLI \/ EvalReturn
  BY DEF Next, HostStep
<1>2. QED
  BY <1>1, QuietKnown, StartKnown, InputKnown, StoreInputsKnown, EvalCallKnown, ExecuteLLIKnown,
     EvalReturnKnown

\* Every word the element encrypted, in any run of any program, is the word
\* that the inputs of an execution with its identity determine.
THEOREM EncryptionsKnown == Spec => []NInv
<1>1. TInv /\ IInv /\ IInv' /\ [Next]_vars => TInv'
  BY TypeStep
<1>2. IInv /\ IInv' /\ TInv /\ TInv' /\ NInv /\ [Next]_vars => NInv'
  BY KnownStep
<1>3. QED
  BY <1>1, <1>2, TypeInit, KnownInit, Invariance, PTL DEF Spec

\* The element, which keeps no counter and no state, never encrypts two words
\* under one nonce, however often a program is run and on whatever inputs.
THEOREM NonceNeverReused == Spec => []NonceOnce
<1>1. IInv => prog \in Programs
  BY DEF IInv, SerializerInv
<1>2. IInv /\ NInv => NonceOnce
  BY <1>1, KnownIsOnce DEF NInv
<1>3. QED
  BY <1>2, EncryptionsKnown, Invariance, PTL
=============================================================================

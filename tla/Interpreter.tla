---------------------------- MODULE Interpreter ----------------------------
(***************************************************************************)
(* The host (main.c, interpreter.c) running, with the help of the secure   *)
(* element, the bytecode that Serializer wrote.  One action per stage of   *)
(* interpret(), one per input batch, and for each LLMI one for the call of *)
(* SEeval up to the decrypted registers, one per instruction, and one for  *)
(* the return.  A stage that ends the process leads to a pc of its own.    *)
(* The program may be run several times, each run a new process; the       *)
(* element keeps nothing between them but its key.                         *)
(***************************************************************************)
EXTENDS Serializer

CONSTANTS
  CmdItems,     \* the items of --inputs: words, or NotInt
  NotInt,       \* an item that is not an integer
  MaxArgs,      \* bound: items on the command line
  MaxOutCount,  \* bound: --out_count
  MaxRuns       \* bound: runs of the program

ASSUME RunsAssumption == MaxRuns \in Nat

VARIABLES
  pc,           \* where the process is
  prog_inps,    \* the words parse_inputs() read
  out_count,    \* --out_count
  H,            \* the hash chain, H[0] .. H[b]
  execID, esharedkey,
  b,            \* the batches hashed; then the batch to send next
  Cin,          \* C_b^in, the ticket for it
  C,            \* the encrypted input words, C[1] .. C[l_out * L]
  memory,       \* the cells of the host
  i,            \* the LLMI to run next, from 1
  reg, k,       \* inside SEeval: registers, and counter of LLS_execute
  prog_outs,
  encs,         \* history: the words the element encrypted, in all runs
  runs          \* history: the number of runs

ivars == <<pc, prog_inps, out_count, H, execID, esharedkey, Cin, b, C, memory,
           i, reg, k, prog_outs, encs, runs>>
vars == <<svars, ivars>>
argv == <<prog_inps, out_count>>
session == <<execID, esharedkey>>

Stopped == {"done", "bad_args", "bad_start", "bad_input", "bad_eval",
            "too_long", "trap"}

NoRegs == [n \in Regs |-> Uninit]
NoHash == [n \in 0 .. 0 |-> ZeroHash]

-----------------------------------------------------------------------------
IInit ==
  /\ SerInit
  /\ pc = "idle"
  /\ prog_inps = <<>> /\ out_count = 1
  /\ H = NoHash /\ execID = ZeroHash /\ esharedkey = <<>> /\ Cin = <<>>
  /\ b = 0 /\ C = <<>>
  /\ memory = [c \in Cells |-> Junk]
  /\ i = 1 /\ reg = NoRegs /\ k = 1 /\ prog_outs = <<>>
  /\ encs = {} /\ runs = 0

\* parse_inputs(): as many inputs as items; the items that are integers fill
\* the array from its start, what is left of it is not initialized.
ParsedInputs(items) ==
  LET ints == SelectSeq(items, LAMBDA x : x # NotInt) IN
  {a \in [1 .. Len(items) -> Words] :
     \A j \in 1 .. Len(ints) : a[j] = ints[j]}

\* main(): a process starts on a command line with at least one item.
Invoke ==
  /\ spc = "done"
  /\ pc \in Stopped \cup {"idle"}
  /\ runs < MaxRuns
  /\ \E n \in 1 .. MaxArgs : \E items \in [1 .. n -> CmdItems] :
       prog_inps' \in ParsedInputs(items)
  /\ out_count' \in 0 .. MaxOutCount
  /\ pc' = "load"
  /\ H' = NoHash /\ execID' = ZeroHash /\ esharedkey' = <<>> /\ Cin' = <<>>
  /\ b' = 0 /\ C' = <<>>
  /\ memory' = [c \in Cells |-> Junk]
  /\ i' = 1 /\ reg' = NoRegs /\ k' = 1 /\ prog_outs' = <<>>
  /\ runs' = runs + 1
  /\ UNCHANGED <<svars, encs>>

-----------------------------------------------------------------------------
\* Mutants: the batch starts one word early; it is not filled up.
Batch_Early(inps, n) ==
  [j \in 1 .. l_out |->
     LET q == (n - 1) * l_out + j - 1
     IN  IF q \in 1 .. Len(inps) THEN inps[q] ELSE 0]

Batch_NotFilled(inps, n) ==
  [j \in 1 .. l_out |->
     LET q == (n - 1) * l_out + j
     IN  IF q =< Len(inps) THEN inps[q] ELSE Uninit]

\* Batch number n: l_out words, the last batch filled up with zeros.
Batch(inps, n) ==
  [j \in 1 .. l_out |->
     LET q == (n - 1) * l_out + j
     IN  IF q =< Len(inps) THEN inps[q] ELSE 0]

BatchCount(inps) == CeilDiv(Len(inps), l_out)

\* interpret_prog() and the checks on the command line.
Load ==
  /\ pc = "load"
  /\ pc' = IF /\ Len(prog_inps) = Len(bc.mem_inps)
              /\ out_count = Len(bc.mem_outs)
           THEN "hash" ELSE "bad_args"
  /\ UNCHANGED <<svars, argv, H, session, Cin, b, C, memory, i, reg, k,
                 prog_outs, encs, runs>>

\* Step 1, one turn of the loop that computes H[1] .. H[L].
HashBatch ==
  /\ pc = "hash"
  /\ b < BatchCount(prog_inps)
  /\ H' = [n \in 0 .. b + 1 |->
             IF n =< b THEN H[n] ELSE HashChain(H[b], Batch(prog_inps, b + 1))]
  /\ b' = b + 1
  /\ UNCHANGED <<svars, pc, argv, session, Cin, C, memory, i, reg, k,
                 prog_outs, encs, runs>>

\* Step 2, SE("Start").
Start ==
  LET s == SEstart(bc.header, H[b]) IN
  /\ pc = "hash"
  /\ b = BatchCount(prog_inps)
  /\ IF SEstartOk(bc.header)
     THEN /\ execID' = s.execID
          /\ esharedkey' = s.esharedkey
          /\ Cin' = s.Cin
          /\ C' = [q \in 1 .. l_out * b |-> Junk]
          /\ pc' = "input"
     ELSE /\ pc' = "bad_start"
          /\ UNCHANGED <<session, Cin, C>>
  /\ UNCHANGED <<svars, argv, H, b, memory, i, reg, k, prog_outs, encs, runs>>

\* Step 3, SE("Input") for b = L downto 1.
Input ==
  LET X == Batch(prog_inps, b)
      s == SEinput(execID, b, H[b - 1], X)
  IN
  /\ pc = "input"
  /\ b > 0
  /\ IF SEinputOk(execID, b, H[b - 1], X, Cin)
     THEN /\ Cin' = s.Cin
          /\ C' = [q \in DOMAIN C |->
                     IF q \in (b - 1) * l_out + 1 .. b * l_out
                     THEN Encrypted(s.C[q - (b - 1) * l_out])
                     ELSE C[q]]
          /\ encs' = encs \cup {s.C[j] : j \in 1 .. l_out}
          /\ b' = b - 1
          /\ UNCHANGED pc
     ELSE /\ pc' = "bad_input"
          /\ UNCHANGED <<Cin, C, encs, b>>
  /\ UNCHANGED <<svars, argv, H, session, memory, i, reg, k, prog_outs, runs>>

\* A loop that stores values[j] in cell cells[j], for j = 1, 2, ...
Stored(mem, cells, values) ==
  [c \in DOMAIN mem |->
     IF c \in RangeOf(cells) THEN values[LastPos(cells, c)] ELSE mem[c]]

StoreInputs ==
  /\ pc = "input"
  /\ b = 0
  /\ memory' = Stored(memory, bc.mem_inps, C)
  /\ pc' = "eval"
  /\ UNCHANGED <<svars, argv, H, session, Cin, b, C, i, reg, k, prog_outs, encs,
                 runs>>

-----------------------------------------------------------------------------
(***************************************************************************)
(* Step 4, SE("Eval") for each LLMI.                                       *)
(***************************************************************************)
LLMI == bc.llmis[i]
Cx == [j \in 1 .. Len(LLMI.mem_inps) |-> memory[LLMI.mem_inps[j]]]
LLS == LLMI.aells.bytecode.msg

EvalCall ==
  /\ pc = "eval"
  /\ i =< Len(bc.llmis)
  /\ IF SEevalOk(execID, esharedkey, LLMI.aells, Cx)
     THEN reg' = RegsAfterDecrypt(LLMI.aells, Cx) /\ pc' = "lls"
     ELSE pc' = "bad_eval" /\ UNCHANGED reg
  /\ UNCHANGED <<svars, argv, H, session, Cin, b, C, memory, i, k, prog_outs,
                 encs, runs>>

\* One turn of the loop of LLS_execute.
ExecuteLLI ==
  /\ pc = "lls"
  /\ k =< Len(LLS)
  /\ IF k > LLS_MAX_LENGTH
     THEN pc' = "too_long" /\ UNCHANGED <<reg, k>>
     ELSE \E v \in LLIOutcomes(reg, LLS[k]) :
            IF v = Trap
            THEN pc' = "trap" /\ UNCHANGED <<reg, k>>
            ELSE /\ reg' = [reg EXCEPT ![LLS[k].dst] = v]
                 /\ k' = k + 1
                 /\ UNCHANGED pc
  /\ UNCHANGED <<svars, argv, H, session, Cin, b, C, memory, i, prog_outs,
                 encs, runs>>

\* Mutant: the host does not go on to the next LLMI.
EvalReturn_SameLLMI ==
  LET a == LLMI.aells IN
  /\ pc = "lls"
  /\ k > Len(LLS)
  /\ \E w \in [1 .. a.out_count -> Words] :
       /\ \A j \in 1 .. a.out_count : w[j] \in RegValues(reg, OutputReg(j))
       /\ memory' = Stored(memory, LLMI.mem_outs,
                           [j \in 1 .. a.out_count |->
                              SEevalOutput(execID, a, j, w[j])])
       /\ encs' = encs \cup (IF a.reveal_flag = 1 THEN {} ELSE
                    {SEevalOutput(execID, a, j, w[j]).ct :
                       j \in 1 .. a.out_count})
  /\ reg' = NoRegs
  /\ k' = 1
  /\ pc' = "eval"
  /\ UNCHANGED <<svars, argv, H, session, Cin, b, C, i, prog_outs, runs>>

\* The element returns the output words and the host stores them.
EvalReturn ==
  LET a == LLMI.aells IN
  /\ pc = "lls"
  /\ k > Len(LLS)
  /\ \E w \in [1 .. a.out_count -> Words] :
       /\ \A j \in 1 .. a.out_count : w[j] \in RegValues(reg, OutputReg(j))
       /\ memory' = Stored(memory, LLMI.mem_outs,
                           [j \in 1 .. a.out_count |->
                              SEevalOutput(execID, a, j, w[j])])
       /\ encs' = encs \cup (IF a.reveal_flag = 1 THEN {} ELSE
                    {SEevalOutput(execID, a, j, w[j]).ct :
                       j \in 1 .. a.out_count})
  /\ i' = i + 1
  /\ reg' = NoRegs
  /\ k' = 1
  /\ pc' = "eval"
  /\ UNCHANGED <<svars, argv, H, session, Cin, b, C, prog_outs, runs>>

\* load_word() on the first bytes of a cell: meaningful if it is in the clear.
WordsAt(cell) == IF cell.kind = "clear" THEN {cell.word} ELSE Words

Finish ==
  /\ pc = "eval"
  /\ i > Len(bc.llmis)
  /\ \E o \in [1 .. Len(bc.mem_outs) -> Words] :
       /\ \A j \in 1 .. Len(bc.mem_outs) : o[j] \in WordsAt(memory[bc.mem_outs[j]])
       /\ prog_outs' = o
  /\ pc' = "done"
  /\ UNCHANGED <<svars, argv, H, session, Cin, b, C, memory, i, reg, k, encs, runs>>

-----------------------------------------------------------------------------
HostStep ==
  Load \/ HashBatch \/ Start \/ Input \/ StoreInputs \/ EvalCall \/ ExecuteLLI \/ EvalReturn
  \/ Finish

Compile == SerNext /\ UNCHANGED ivars

Next == Compile \/ Invoke \/ HostStep

\* The compiler and a started process run on; nobody has to start one.
Spec ==
  /\ IInit
  /\ [][Next]_vars
  /\ WF_vars(Compile)
  /\ WF_vars(HostStep)

-----------------------------------------------------------------------------
(***************************************************************************)
(* Properties.                                                             *)
(***************************************************************************)
\* The shape of the state: where the process may be, what cells and registers
\* hold, and that the indices stay within the bytecode and the hash chain.
TypeOK ==
  /\ prog \in Programs
  /\ spc \in {"header", "llmi", "done", "error"}
  /\ pc \in Stopped \cup {"idle", "load", "hash", "input", "eval", "lls"}
  /\ memory \in [Cells -> {Junk} \cup {Clear(x) : x \in Words}
                          \cup [kind : {"ct"}, ct : encs]]
  /\ \A x \in encs : x.msg \in Words
  /\ reg \in [Regs -> Words \cup {Uninit}]
  /\ i \in 1 .. Len(prog.instrs) + 1
  /\ k \in 1 .. LLS_MAX_LENGTH + 1
  /\ b \in 0 .. BatchCount(prog_inps)
  /\ prog_outs \in Seq(Words)
  /\ runs \in 0 .. MaxRuns

\* The element goes along with everything the compiler and the host ask of a
\* well-formed program: no ciphertext it made or the compiler made fails to
\* open under the number and the hash the other side computed for it
\* (serialize() numbers words the way SEinput and SEeval do), and no snippet
\* is longer than it accepts.
Accepted ==
  /\ spc # "error"
  /\ pc \notin {"bad_start", "bad_input", "bad_eval", "too_long"}

\* A nonce is used for one word only, over all runs: the numbers of input
\* batches and of LLMI outputs never meet, and runs on different inputs have
\* different identities, so the stateless element never encrypts two words
\* under the same nonce.
NonceOnce ==
  \A x, y \in encs : x.nonce = y.nonce => x = y

\* The table serialize() keeps and the memory of the host stay in step: when
\* LLMI i is about to run, an encrypted cell is the word that id_dict named
\* for it at that point of the program, and a cell that id_dict knows holds
\* that word or was revealed by an earlier LLMI.
DictMatchesMemory ==
  pc \in {"eval", "lls"} =>
    \A c \in Cells :
      /\ memory[c].kind = "ct" =>
           /\ c \in DOMAIN dicts[i]
           /\ memory[c].ct = WordOf(execID, dicts[i][c], memory[c].ct.msg)
      /\ c \in DOMAIN dicts[i] =>
           \/ memory[c].kind = "ct"
           \/ /\ memory[c].kind = "clear"
              /\ \E n \in 1 .. i - 1 :
                   /\ Reveals(prog, n)
                   /\ c \in RangeOf(prog.instrs[n].outputs)

\* No program output is read from a cell that is still encrypted.
OutputsInClear ==
  pc = "done" =>
    \A c \in RangeOf(prog.outputs) : memory[c].kind = "clear"

\* A process that was started comes to an end.
Terminates == (pc = "load") ~> (pc \in Stopped)
=============================================================================

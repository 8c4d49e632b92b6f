# OBSCURE in TLA+

OBSCURE compiles a C function into bytecode that an untrusted computer (the
*host*) runs with the help of a small *secure element*: the element sees the
program and its data in the clear, a few instructions and a few words at a
time; the host sees only ciphertexts, moves them between its memory and the
element, and prints the outputs the element reveals. The element is stateless:
what it has to know about an execution comes back to it in ciphertexts it made
itself.

This directory models the path a program takes, from its C syntax tree to the
printed outputs, checks it with TLC on small instances, and proves with TLAPS what can be proved of it for all
programs and all shapes of the element: serializer, host and element together, the element on its own, the second half of the
frontend, the clusterizer, register allocation and the cipher.

## 1. Inventory

### 1.1 The compiler (`src/compiler/src`)

The compiler is a sequential Python program; its passes hand one intermediate
representation (`IR.py`) to the next.

| component | state | operations | what makes it correct |
|---|---|---|---|
| Frontend, first half (`frontend/normalize.py`, `alphaconvert.py`, `identifiers.py`, `utils.py`) | the pycparser tree, substitution tables, the aliases of `ArrayRemover` | inlining, unrolling, array removal, unnesting, renaming | the tree keeps its meaning, and ends as a straight line in which every name is declared once |
| Frontend, second half (`frontend/AST_to_IR.py`, `frontend.py`) | variable environment, next free cell, instruction list; per pass an environment and the instructions made so far | `AST_to_IR`, `to_SSA`, `propagate_copy`, `remove_dead_code` | HLIR in SSA that computes what the tree computes, with nothing computed in vain |
| Data-flow graph (`DFG.py`) | nodes, forward and backward edges | `build_graph`, merge of two nodes, domination check, `to_LLIR` | edges always agree with inputs and outputs; no cycle; scheduling emits each node once, after what it reads |
| Clusterizer (`clusterization/basic_clusterizer.py`) | the graph and the set of nodes to visit | `merge_1_output_nodes`, `merge_parents`, `merge_siblings` with `-simple-clusterizer` and `-fast` | merged nodes fit the element; every pass ends |
| Universalizer (`universalization/universalizer.py`, `rectangularize.py`) | the graph, its layers | placing nodes in layers, propagating outputs to the last layer, padding, inserting permutations | all programs of a size look the same; meaning is kept; outputs end in LLMIs of their own |
| Routing (`universalization/routing.py`) | none | Beneš and duplication networks | the network computes the requested function |
| Register allocation and lowering (`lowering/reg_alloc.py`, `lowering.py`) | variable-to-register map, set of free registers | `LinearScanAllocator`, `needs_leq_k_registers`, `MLMI_to_LLMI` | no live operand is overwritten; outputs are in the last registers; both calls of the allocator agree |
| Serializer (`code_gen/serializer.py`) | `id_dict`, instruction counter, bytes written | `serialize`: header, LLMIs, encryption of snippets | the numbers it gives to words are those the element will compute |
| Driver (`main.py`) | options | checks the shape of the element, calls the passes | |

### 1.2 The runtime (`src/runtime`)

| component | state | operations | what makes it correct |
|---|---|---|---|
| Host (`main.c`, `interpreter.c`, `utils.c`) | `prog`, `memory`, hash chain, session (`execID`, `E_K`, ticket), outputs | `parse_inputs`, `interpret`: check, hash, `SEstart`, `SEinput` from the last batch to the first, `SEeval` per LLMI, print | prints what the program computes, always ends |
| Bytecode loader (`interpreter.c`, `program.h`) | a position in the file | `interpret_meta`, `interpret_prog` | reads back what `serialize` wrote |
| Secure element (`SEalgo.c`, `SEconfig.h`, `multi_instruction.h`) | none between calls; registers during `SEeval` | `SEstart`, `SEinput`, `SEeval`, `LLS_execute` | accepts exactly the words of this execution with the right number; one word per number |
| Primitives (`sparkle/`, `compiler/schwaemm/`, libsodium) | a state of 48 bytes during a call | `crypto_aead_encrypt` (compiler), `crypto_aead_decrypt` and `crypto_hash` (element), sealed box | two copies of one cipher undo each other, at every length |

### 1.3 How they interact, and what is hard

The compiler and the runtime never talk: all they share is the bytecode and
three conventions each implements on its own. (1) Input words are numbered by
batch of `l_out`, LLMI outputs after the batches. (2) A cell's word is named by
its last writer, which the serializer tracks in `id_dict` at compile time and
the host realises by storing in order. (3) Outputs are in the last `l_out`
registers. Host and element interact by calls; the element trusts only what
opens under its key with the associated data it recomputes.

Nothing runs in parallel. What is hard is of other kinds, and is listed with
its lines under `hazards` in `PROJECT.json`:

* two sides computing the same numbers with different arithmetic (serializer,
  host, element; batches that are not full; chains sent backwards);
* calls repeated, skipped or mixed between executions at a stateless element;
* reads of memory nobody initialized (`parse_inputs`, the registers), and traps;
* in-place updates of a graph over long sequences of merges, in an order that
  Python's sets decide;
* asking an allocator twice and relying on the same answer;
* passes whose promise (SSA, outputs not read, outputs at most `l_out`) the next
  pass needs and does not check;
* loops that put back what they took out, or draw at random until they are lucky;
* rewriting of trees by visitors that carry state from node to node (depth, pending
  temporaries, known constants, aliases) and rely on names being unique;
* data that ends at the end of a block, and two copies of a cipher that must agree.

## 2. Modules

`LLIR`, `SecureElement`, `Serializer` and `Interpreter` extend each other in that order;
`Obscure` composes them with `PlainMachine`. `MLIR` is shared by `RegAlloc`,
`DFG` and `Clusterizer`; `Universalizer` extends `Clusterizer`, and its instance puts the
networks of `Routing` between the layers. `CProgram`, `Normalize` and `Unroll` extend each
other; `FileToIR` composes them with `Frontend`. `MCSchwaemm` runs `Schwaemm` and `Esch` over
`Sparkle`. `Bytecode` stands alone.

| module | models | state and actions |
|---|---|---|
| `Crypto` | AEAD, hash, sealed box (external) | terms: a ciphertext records its key, nonce, associated data and message, and opens only under the same ones; a hash is the term it is made from, so it is injective |
| `LLIR` | `IR.py` (LLMIs and their programs), operand loading of `LLS_execute` | no state; `WellFormed` says what lowering hands over after universalization |
| `ALU` | `instruction_execute` of `SEalgo.c` | words of width `w`, arithmetic modulo `2^w`; division by zero, and shifts by the width or more, have every outcome a build may give |
| `SecureElement` | `SEstart`, `SEinput`, `SEeval` | operators: for each service a guard and a result, as the element keeps no state |
| `Serializer` | `serialize()` | `prog`, `bc`, `dicts` (the history of `id_dict`), `spc`; `SerializeHeader`, `SerializeLLMI`, `SerializeEnd` |
| `Interpreter` | `main.c`, `interpret()` and the element it calls | `pc`, `prog_inps`, `out_count`, `H`, session, `C`, `memory`, `reg`, `prog_outs`; `Invoke`, `Load`, `HashBatch`, `Start`, `Input`, `StoreInputs`, `EvalCall`, `ExecuteLLI`, `EvalReturn`, `Finish`. `pc` names the error exits: `bad_args`, `bad_start`, `bad_input`, `bad_eval`, `too_long`, `trap` |
| `PlainMachine` | the meaning of an LLIR program as the docstring of `LLMI` in `IR.py` gives it | words in memory, no keys, numbers or tickets |
| `Obscure` | the refinement mapping and the inductive invariant | |
| `SEProtocol` | the element under calls in any order | what the element ever returned: `started`, `tickets`, `words`; `CallStart`, `CallInput`, `CallEval` with any arguments made of it |
| `MLIR` | `MLMI`, `get_defs`, `get_used`, `needs_leq_k_registers` | the last one as a count of births and deaths |
| `RegAlloc` | `LinearScanAllocator`, `MLMI_to_LLMI`, and the run of the snippet | `mem_to_reg`, `free_registers`, then `holds` (which variable is in each register); `Allocate` pops any free register, as `set.pop()` may; `Convert`, `Run`, `Return` |
| `DFG` | `DFG.py` | a graph is a record of nodes, forward and backward edges; `build_graph`, `merge_nodes`, `check_domination` (by closed sets of nodes, without recursion) |
| `Clusterizer` | `basic_clusterizer.py`, `to_LLIR` | `dfg`, `to_visit`, `phase`, `llir`; `MergeOneOutput`, `MergeParents`, `MergeSiblings`, `NextPhase`, `ScheduleNode`, `CheckScheduled`; the order in which Python iterates over a set is a free choice |
| `Universalizer` | `universalizer.py`, `rectangularize.py` | `u` (numbered MLMIs, edges, layers, copies known per layer), `at` (the layer being worked on), `to_take_as_inputs`, `net` (the network being applied); `Layerize`, `SegregateLayer`, `AddDepthPadding`, `AddInputMaskingLayer`, `PropagateOutputs`, `AddFinalLayer`, `EqualizeLayers`, `MatchInput`, `MatchOutput`, `MatchNextLayer`, `StartPermutation`, `ApplyRow`, `EndPermutation`, `CheckIntegrity` |
| `CProgram` | the nodes of pycparser (external), `NodeCopyVisitor` (`utils.py`), `convert_operator`; and, as the reference, what C says a program computes | none |
| `Normalize` | `alphaconvert.py`, `identifiers.py`, and of `normalize.py` the passes up to inlining | operators on trees; a pass with state threads it through its visits, as its visitor object does |
| `Unroll` | `NodeCopyVisitorWithEnv` (`utils.py`), and `ForRemover`, `ArraySizeCalculator`, `ArrayRemover` of `normalize.py` | likewise |
| `FileToIR` | `file_to_IR()` and `normalize()` | `source`, `tree`, `idents` (`identifiers.py`), `shape`; `AlphaConvert` (three times), `Simplify`, `Unnest`, `InlineCalls`, `UnrollLoops`, `RemoveArrays`, `NormalizeError` (the exits and failing assertions of `normalize.py`), then the actions of `Frontend` |
| `Frontend` | `AST_to_IR.py`, `frontend.py` | one action per turn of each pass's loop and one for its end |
| `Sparkle` | `sparkle.c` | none; words are four bytes |
| `Schwaemm` | `schwaemm.c`: encryption in the compiler's copy, decryption in the element's | `state`, `pos`, `out`, `c`, `retval`; `Initialize`, `AuthBlock`, `AuthLast`, `EncBlock`, `EncLast`, `DecBlock`, `DecLast`, `GenerateTag`, `Transmit` (which may flip a bit of the tag), `VerifyTag`; the permutation is a parameter |
| `Esch` | `esch.c` | `words`, `inpos`, `digest`; `Esch_Initialize`, `Esch_Block`, `Esch_Last`, `Esch_Finalize` |
| `Bytecode` | `serialize()` and the loader once more, byte by byte, and the decoding of snippets in `LLS_execute` | `file`, the writer's and the reader's control (`wpc`, `hpc`), `pos` (`bcptr`, then `ptr`), `got`; `WriteHeader`, `WriteLLMI`, `WriteEnd`, `ReadMeta`, `ReadProg`, `ReadLLMI`, `ReadEnd`, `DecodeLLI`, `NextLLS`, `DecodeEnd` |
| `Routing` | `routing.py`, and `add_permutation` as far as it applies a network | operators for the networks; `perms`, `program`, `row`, `wires`; `Compile` (where `missing.pop()` may yield any wire), `CompileFinish`, `ApplyRow`, `EndRows`. `twin` is the network of the identity, kept for comparison |
| `RegAllocSSA`, `Determinate` | the inputs for which `RegAlloc` and `NonceOnce` are proved: an `ASSUME` each, which TLC evaluates on the instances | |
| `ObscureProofs`, `SEProtocolProofs`, `FrontendProofs`, `ClusterizerProofs`, `RegAllocProofs`, `BytecodeProofs`, `SparkleProofs` | theorems about the module they are named after (`SparkleProofs`: about `Schwaemm` and `Esch`) | |
| `SetInduction` | induction on the natural numbers, in a form the prover can instantiate: about sets of numbers, not predicates; and what it gives for the folds and the flattening of sequences | |
| `MC...` | the instances TLC checks | |

Abstractions worth knowing:

* In the modules that `Obscure` composes the bytes of the container are records and a message is a term.
  `Bytecode` justifies the records: it has the layout and the widths, and what is read is what was
  written. It leaves out the cipher: an encrypted snippet is the snippet and 16 bytes, a sealed key 64 bytes.
* A cell of the host is a ciphertext, a word in the clear, or junk (`malloc`ed and
  never written). Reading junk or a register nobody wrote may give any word, chosen when it is
  read; an input that `parse_inputs` leaves uninitialized is any word, chosen once.
* `Stored` follows the order of the host's stores, so an LLMI that writes a cell twice
  leaves the last value, as `id_dict` does.
* `to_visit` of `Clusterizer` stands for `to_visit` of the default passes and for the
  complement of `to_skip` of the others. Nodes that a merge removed are dropped from
  it: in the code a visit of such a node does nothing.
* In `FileToIR` a C program is a tree of records, one per pycparser node. The meaning of a tree is
  computed on given inputs, with addresses, scopes and calls by value, and is compared for every tree between two
  passes, and for the IR in the end. Words have `w` bits; `% (2 ** 32)` of the code is `% 2^w`.
  Left out: `if` and `while` (no pass removes them), `struct` (only `alphaconvert.py` knows it), global
  variables, and calls, `++` or `--` in subscripts and in arguments of calls (which the Unnester does not enter: `g(a + b + c)`
  becomes an instruction with an operand `None`). Also left out are constants that fold to a negative number and are then shifted or
  divided, which Python does differently from C; and `>`, `<=`, `>=`, `!=` outside of `for`, for which `visit_BinaryOp` prints
  "Not implemented operator" and loses the expression.
* In `Universalizer` the random choices of padding and of `set.pop()` are made by `Pick`: the run tries one value per set, the largest. They decide which output is read once more and which
  wire is filled, not how much there is of either. The choice of unused wires inside a network is free in `Routing`.
* For all modules but the three of the cipher, encryption and hashing are ideal (`Crypto`). `Schwaemm`, `Esch` and `Sparkle` are
  the code byte by byte; they show that the two copies fit together, not that the cipher is secure.
* `Frontend` works on names and operators; the reference meaning (`SourceMeaning`) and the
  meaning of the IR (`IRMeaning`) are terms over the inputs, compared literally.

## 3. Runs

| run | instance | properties |
|---|---|---|
| `obscure` | all programs of `MCObscure`, each run twice, on all pairs of command lines | `TypeOK`, `Accepted`, `DictMatchesMemory`, `OutputsInClear`, `NonceOnce`, `ImplementsPlain`, `Terminates` |
| `protocol` | a program of three inputs and three LLMIs, two executions, any calls | `TypeOK`, `TicketBinding`, `WordBinding`, `FirstBatchClosesChain` |
| `regalloc` | all snippets of four instructions whose outputs are not read inside | `OperandsInPlace`, `OutputsInPlace`, `RefusesByCount` |
| `universalizer` | not universalized, with four sets of options: programs of four instructions on one input, of which the first reads it twice and the others one variable or two different ones, and one program with three outputs (`Crowded`); universalized: programs of three instructions on two inputs, the first of which reads both and the others two different variables each (`Small`; the results nobody reads are outputs, and one more variable at most), and five longer ones, two of them with more width or depth | `Integrity`, `LowersProgram`, `FitsElement`, `KeepsMeaning`, `NoEdgeSkips`, `EdgesExact`, `RevealedLast`, `SnippetsFit`, `HidesDataFlow`, `Compiles` |
| `frontend` | 864 C programs, each on four inputs, and ten that `normalize()` refuses; 6912 normalized programs that write to a local variable | `MeansTheSame`, `StraightLine`, `InSSA`, `SameMeaning`, `NothingInVain` |
| `routing` | all functions on 4 wires; on 8 wires 720 permutations and 512 functions that use wires twice; MLMIs of 2 and 4 wires | `RoutesFunction`, `WiringIsPublic`, `MLMIsFit` |
| `bytecode` | four shapes, for compiler and runtime independently; 2 to 2^24 cells around the powers of 256; all kinds of operands; cells, registers and an opcode that the writer does not know | `ReadBack`, `NeverRefused` |
| `schwaemm` | Schwaemm256-128 with data and texts of 0 to 65 bytes, and the test vector of Schwaemm128-128; Esch256 of the same data | `SameStates`, `Decrypts`, `LastBlocksApart`, `FeistelIsWhole`, `HashesApart`, `KnownAnswer` |
| `regalloc_output_read` | one snippet that reads its own output | `OutputsInPlace` is violated |
| `universalizer_input_twice` | one program whose output is handed on by a snippet that reads it | `InputRegistersKept` is violated |
| `frontend_params_only` | one program that writes only to an array parameter | `InSSA` is violated |
| `frontend_lost_call` | one program that calls a function behind `unsigned int *p = &a[1];` | `MeansTheSame` is violated |

What they show:

* **obscure.** `Accepted`: the numbers, tickets and hashes of the compiler, the host
  and the element agree, so no ciphertext of a correct run is refused.
  `DictMatchesMemory`: the compile-time table names the word that is in the cell when the LLMI runs.
  `OutputsInClear`: no output is printed from a ciphertext. `ImplementsPlain`: the
  whole is a run of the plain machine with the same outputs, whatever the command
  line, uninitialized inputs included. `Terminates`: a started process ends. `NonceOnce`: two executions of one
  bytecode, on different inputs or the same, never use one nonce for two words.
* **protocol.** Whatever calls a host makes, a ticket commits to one hash
  and a number to one word; and once batch 1 has been accepted, the
  hash given to `SEstart` was that of one sequence of batches of the announced length which
  starts at `H_0`, and for *every* `n` the words the element returned as input `n` are exactly those of
  the `n`-th batch of that sequence (`FirstBatchClosesChain`).
* **regalloc.** Freeing a register at the last read, in the same instruction, loses
  no operand, and no choice of `set.pop()` changes whether the allocator succeeds: the
  count in `needs_leq_k_registers` of `MLIR` decides. That is why the clusterizer may
  use one call to predict the next, and why `Clusterizer` may use the count.
* **universalizer.** `Integrity` is `check_dfg_integrity` of `DFG.py`, which the code
  calls at the end of universalization and when it draws a graph: here it is checked after every merge.
  No merge closes a cycle, and every instruction is emitted once and in order (`LowersProgram`). Through
  layers, copies, masking and networks every instruction reads what it read in the source (`KeepsMeaning`), variables go from one layer to the next (`NoEdgeSkips`),
  outputs end in the last layer and are read by nobody (`RevealedLast`, which is the assumption of the proofs), and the shape of
  the result depends on its size only (`HidesDataFlow`). `Compiles`: every loop of both ends, the ones that
  draw until something fits included.
* **frontend.** `MeansTheSame`: all trees between two passes, and the IR, return what the C program returns and leave in
  its arrays what it leaves there, with shadowed names, constants that are known in one iteration and not in
  the next, loops over the same variable, pointers to pointers into arrays, `++` inside expressions and calls inside calls.
  `StraightLine`: what `AST_to_IR` relies on. `InSSA`: cells are written once, inputs never, and an instruction reads inputs and earlier results only. `SameMeaning`: the same for the second half, symbolically, with inputs that are
  overwritten, copies of copies, copies into outputs, and an uninitialized declaration.
  As a check of the model itself, the frontend of the repository, with its words cut to three bits, was run on the 864 programs: it gave the
  same normalized programs (632 different ones, names included) and stopped on the same 72 with "Unable to compute size of input pointer". The ten further programs reach the other ends of `normalize()`: the assertion on unary operators, the
  two causes for which a loop cannot be unrolled, a subscript and a pointer that are not known when arrays are removed.
* **routing.** `RoutesFunction` is the check at the end of `add_permutation`. `WiringIsPublic`:
  the rows, the public shuffles and the places of the MLMIs are the same for every function of a size,
  also after `optimize()`; what depends on the function is inside MLMIs.
* **bytecode.** Nothing in the file says how wide its fields are. Host, element and compiler
  compute the same widths up to 2^24 cells; `ReadBack` is the identity down to the operands of each instruction, and
  a runtime of another shape stops at the metadata. A list with as many entries as there are cells, 256 of them, has a
  length that does not fit: the compiler stops, and no file is finished. It stops as well at a cell, a register or a `NOP` that is not in
  `memdict`, `regdict` or `opdict` (a `KeyError`); the element, for its part, skips a `NOP` after one byte.
* **schwaemm.** Encryption and decryption keep different temporaries and the last ciphertext block is completed with
  bytes of the state; still the element is in the compiler's state at every block (`SameStates`), and refuses a tag with a flipped bit (`Decrypts`). Decryption works out the length of
  the text from that of the ciphertext (`csize`), which is at least a tag's here, as it is what encryption wrote; a shorter `clen` would wrap around (`schwaemm.c:581`), but the element
  passes constants and, for a snippet, the length the compiler put into the file.
  `LastBlocksApart`, `HashesApart`: padding and constants tell apart data that end in the same bytes.
  `FeistelIsWhole`: the shortened Feistel function of `esch.c` is the full one on a block padded with zeros. `KnownAnswer` is the vector of
  the compiler's `test.py`, which is one of Schwaemm128-128, while both copies are built as Schwaemm256-128. The module stands for both copies: a difference
  between them would not show.

Every property has a mutant in `PROJECT.json`: a changed definition (defined just before
the original, named after it) under which TLC finds that property violated.

### Bounds

`l_out = 2`, `r = 4` and two instructions per snippet are the smallest element with a
batch that can be short, an index inside a batch and an output register that is not the
last. One, two and three inputs give half a batch, one, and one and a half; three inputs are
the least for which a chain has two links, so that its direction matters. `w = 1`: the
host and the protocol do not look into words, so two different ones suffice; the
overflow of `ADD`, the borrow of `SUB` and division by zero happen at that width. `MaxArgs = 3`
command-line items, one of which may fail to parse, cover too few, enough and too many.
`MaxOutCount = 2` bounds the number of outputs asked for on the command line, again too few,
enough and too many. `MaxRuns = 2`, as runs are compared in pairs. `MaxExecs = 2` executions
are enough to mix them; `MaxChain` links of hashes plus one that is too long cover chains
that do not end at `H_0`. Four instructions are the least for
which two merges can precede a third one that would close a cycle, and for which a
register is freed, reused and freed again. `universalizer` uses `s = 3` and `r = 4`, so that both
limits (instructions and registers) stop merges, and `l_in = l_out = 2`, the least for which a network has something to route. Its longer
programs were chosen for what the short ones do not reach: an input and a variable that skip layers, a copy
that two MLMIs share, an output that is an input. `frontend` has words of 3 bits (overflow happens, and `for` to 3 still ends), arrays of
2 cells (`Extent`), and 12 statements of which every ordered pair is tried, in the open and in a loop. The lengths in
`schwaemm` lie around the ends of one and two blocks of the cipher (32 bytes) and of the hash (16). Eight wires in MLMIs of two are the least with
a prefix of columns in front of the middle ones and a window of duplications that neither
starts nor ends at the border. The counts in `bytecode` lie just below, at and above
each power of 256, where the number of bytes changes; two of its shapes are those of `SEconfig.h`, the others have
registers and output numbers of two bytes. `RoundsDown` lists the counts for which
`log2f` rounds to a power of two's exponent, as glibc computes it. All instances are enumerated in full, without
symmetry: the numbers of cells and registers matter.

`universalizer` and `schwaemm` check deadlock. The other runs do not: a process that stopped, a bounded number of runs and a
pass that is done all stop for good. What must not stop early is stated as
`Terminates`, `Compiles` and, for the loader, `NeverRefused`.

### Fairness

`Spec` has weak fairness of `Compile` and of `HostStep`: each is a sequential program that the operating
system keeps running. `Invoke`, a user's decision, has none. `USpec`
has weak fairness of `ClusterStep` and of `UStep`: the compiler runs on; which node a Python set yields is *not*
constrained by fairness. (Fairness of `UStep` is written out without `ENABLED`, which would have TLC evaluate whole networks; that a
step is enabled until the end is what the deadlock check shows.) `SEProtocol`, `RegAlloc`, `FileToIR`, `Routing`, `Bytecode` and `Schwaemm` state no liveness
and no fairness: their loops run over lists, or until a bound that is a constant.

## 4. Findings

Four of the runs end in a counterexample; each concerns a line that says otherwise. All
were confirmed by executing the code of the repository on the program.

1. **`reg_alloc.py:79`.** An output that is read inside its snippet is freed at
   its last read, so a later variable may get its register, although `reg_alloc.py:49` says outputs
   are put in the last registers. The snippet of the run is what the clusterizer makes of a program of three instructions.
2. **`reg_alloc.py:61`.** A variable may become an input of an MLMI twice (`universalizer.py:151`); one of the two is then read by
   nobody, and the allocator, which counts used inputs, takes the register of the other for a free one.
3. **`frontend.py:64`.** The first unused cell is computed from destinations only; a program that writes
   just to its first parameters gets a "new" variable in the cell of a later parameter.
4. **`normalize.py:330`.** On `&` the Unnester returns without restoring its depth. A call that is the next statement counts as
   nested, is moved into a temporary and dropped with it by the next declaration or assignment. `x++;` as a statement is lost as well, as the result of
   `commit_if_is_stmt` is not used.

Three more limits are known from the models and have no run. With `-no-universal` nothing separates outputs from what
later LLMIs read (`lowering.py:115`), so programs need not satisfy `RevealedLast`, and the element refuses them. `basic_clusterizer.py:86` does not
count outputs, so a node may have more than `l_out` of them if they are read inside; `Crowded` of the run `universalizer` is such a program, and universalizing it
would not end (`universalizer.py:284`). From 2^24 + 1 cells
on `ceilf(log2f(memory_count))` (`interpreter.c:156`) is less than the width the serializer writes.

The passing runs on those components are restricted to the inputs on which the
promise is kept, and say so: `regalloc` to snippets whose outputs are not read inside,
`frontend` to programs that write a local and have neither a call behind `&` nor `++` as a statement, `FitsElement` allows more than `l_out` outputs
if all but one are program outputs that their own snippet reads, and `SnippetsFit` looks at registers up to `propagate_outputs_to_last_layer`, which
says it does not; `bytecode` has at most 2^24 cells.

## 5. Proofs

34 theorems; each is checked by `tlapm` down to its last leaf. Every one that names a property of section 3 states for all values of
the constants what the run checks on an instance; the others state the inductive invariant it follows from.

| module | theorem | states |
|---|---|---|
| `ObscureProofs` | `Invariance` | `Spec => []IInv` |
| | `AlwaysAccepted`, `DictAlwaysMatches`, `OutputsAlwaysClear`, `Types` | `Spec => []` of `Accepted`, `DictMatchesMemory`, `OutputsInClear`, `TypeOK` |
| | `Refinement` | `Spec => ImplementsPlain` |
| | `EncryptionsKnown`, `NonceNeverReused` | `Spec => []` of `NInv`, `NonceOnce` |
| `SEProtocolProofs` | `ProtocolInvariance`, `ProtocolTypes`, `TicketsBind`, `WordsBind`, `FirstBatchCommits` | `PSpec => []` of `PInv`, `TypeOK`, `TicketBinding`, `WordBinding`, `FirstBatchClosesChain` |
| `FrontendProofs` | `FrontendInvariance`, `AlwaysInSSA`, `NeverInVain` | `FSpec => []` of `FInv`, `InSSA`, `NothingInVain` |
| `ClusterizerProofs` | `ClusteringInvariance`, `GraphKeepsIntegrity`, `MergesFitElement`, `ProgramIsLowered` | `CSpec => []` of `CInv`, `Integrity`, `FitsElement`, `LowersProgram` |
| `RegAllocProofs` | `AllocationInvariance`, `OperandsAlwaysInPlace`, `OutputsAlwaysInPlace`, `RefusalIsByCount` | `ASpec => []` of `AInv`, `OperandsInPlace`, `OutputsInPlace`, `RefusesByCount` |
| `BytecodeProofs` | `FileInvariance`, `ProgramIsReadBack`, `WrittenIsNeverRefused` | `BSpec => []` of `BInv`, `ReadBack`, `NeverRefused` |
| `SparkleProofs` | `EncryptionIsRetraced`, `StatesMeet`, `MessagesReturn`, `EndsNeverMeet` | `Spec => []` of `SInv`, `SameStates`, `Decrypts`, `LastBlocksApart` |
| | `HashStates`, `HashesNeverMeet`, `ShortFeistelIsWhole` | `Esch_Spec => []` of `EschInv`, `HashesApart`, `FeistelIsWhole` |

### Serializer, host and element (`ObscureProofs`)

For every `l_out`, `r`, `LLS_MAX_LENGTH`, `Cells`, `Words`, `Opcodes`, `Alu`, `Programs` and every bound on runs and arguments.

**Assumptions.** `SizeAssumption` (sizes are natural numbers, `0 < l_out =< r`, and so on) and
`AluAssumption` (an instruction yields words or a trap) of `LLIR`, and
`ProgramsAssumption` of `Obscure`: every program is `WellFormed`. The last one has three
parts: the shape fits the element; a cell is read after it was written; and `RevealedLast`,
an LLMI that reveals is read by no later one and every output is made by some LLMI. `RevealedLast` is
what universalization establishes: the run `universalizer` checks it there.
The cryptography is ideal: that a ciphertext opens only under its own key, nonce and associated data, and
that hashes do not collide, is part of `Crypto`.

**The invariant.** `Accepted` is not inductive. That `SEeval` opens an input needs the cell to hold
the word the snippet names, which relates the table of the compiler *at
the time LLMI n was serialized* to the memory of the host *when LLMI n runs*. So
`dicts` keeps the history of `id_dict`, and `IInv` has two halves:

* `SerializerInv`: the fixed part of the bytecode (`BytecodeForm`); LLMI `n` is made from table `n`, and
  table `n + 1` is table `n` updated (`TablesForm`); a table knows exactly the cells written so
  far (`DictsKnow`, which with `DefinedBeforeUse` makes every lookup succeed). No step of the host changes it.
* `HostInv`: where the process may be (`ControlInv`: no error exit is in the list, which gives `Accepted`);
  the chain hashed so far (`ChainInv`); key and next ticket
  (`SessionInv`); the batches encrypted so far, from the last to the first, under the numbers
  `serialize` gave them (`InputWordsInv`); the memory in step with table `i`
  (`MemoryInv`, which contains `DictMatchesMemory`).

The proof has one lemma per action. The lemmas that carry the argument are `BatchNumbers`
(word `j` of batch `b` has the number the serializer computed by division and remainder),
`BatchesCover`, `LLMIReads` and `EvalAccepted` (an LLMI reads cells that are encrypted,
as `RevealedLast` forbids reading a revealed one, and each opens), and `EvalStoresWords`
(after the stores, the memory is in step with the *next* table, also when
an LLMI writes one cell twice, by `LastPosIs`).

**The refinement** maps a cell to its word whoever may read it (`PlainWord`) and the phases
before the inputs are stored to one state. `Invoke`, `Load` (when it refuses the command line),
`StoreInputs`, `EvalCall`, `ExecuteLLI`, `EvalReturn` and `Finish` map to the
steps of the plain machine; compilation, hashing and the calls of `SEstart` and `SEinput` to stuttering.

### One word per nonce (`ObscureProofs`)

The element numbers words and hashes inputs, and remembers neither. `NonceOnce` needs that a second run with
the same identity computes the same words, which no state predicate of one run says. `NInv` therefore describes what was encrypted by the inputs alone: every
word in `encs`, of whatever run, is the one that some run of the snippets on the inputs hashed into its execution produces
(`EncsKnown`), and so are the words now in cells and registers (`InputsKnown`, `MemoryKnown`, `RegsKnown`). Two such
runs are compared step by step (`SetInduction`). **Assumptions:** those above, `RunsAssumption` (a bound), and
`DeterminateAssumption`: no snippet reads or returns a register that nothing was written to, and no instruction has two
outcomes. Without it the statement is false: the registers of the element are not initialized, and a shift by the
width of a word is undefined in C. `OperandsInPlace` and `OutputsInPlace` are what makes compiled snippets satisfy the first part.

### The element under any calls (`SEProtocolProofs`)

`PInv` adds to the properties where things came from: a ticket was made by `SEstart` or from a ticket of the next batch
(`TicketOrigin`), so from each a chain of batches leads to the hash given to `SEstart` (`TicketChain`); a word was encrypted in
a batch whose ticket the element accepted, or by a snippet on words it opened (`WordOrigin`). Uniqueness then follows
downwards from the last batch, and for LLMIs upwards by their number. **Assumptions:** `HeaderAssumption` and
`AELLSAssumption`, which say what `serialize` puts into a bytecode: numbers of LLMIs follow those of the batches and differ, and
snippets are encrypted under the program's key.

### Frontend, second half (`FrontendProofs`)

`FInv` has one part per pass: where the names are (`ConvertInv`), that cells renamed so far are written once and read
after that (`SSAInv`), that copies lead to cells which are still written and have no copies of copies (`CopyInv`), and, from the end of the
program backwards, that what is kept is read or returned (`DeadInv`). **Assumption:** `ASTsAssumption`, what normalization
hands over (`StraightLine` of the run `frontend`), and that something other than the leading parameters is assigned: otherwise finding 3 strikes, so the theorems do not
speak of such programs. `InSSA` includes that what an instruction reads has a value, which later passes rely on.

### Clusterizer and `to_LLIR` (`ClusterizerProofs`)

For every program in SSA, shape of the element, combination of options, and order in which Python's sets yield nodes. `CSpec` is the
clusterizer by itself; when the program is to be universalized it stops in the phase `layerize`, where `Universalizer` goes on. `CInv` says that

* the nodes partition the program, and the backward edges say who defines what (`Partition`); forward edges are exactly those that
  definitions and reads call for (`EdgesOk`), whatever `Redirected` did to them; and what is read elsewhere is handed out (`HandedOut`). `Integrity` is a consequence,
  but not inductive: it does not say that no edge is missing;
* in each set of nodes one reads nothing from the others (`Acyclic`). `check_domination_for_merge` gives a closed set of nodes that separates the two; a cycle through the merged node, with that
  set taken out, was a cycle before (`CycleThroughOne`). `merge_1_output_nodes` does not check domination; for an only successor it always holds (`SuccessorsLeadAway`);
* inputs, instructions and registers of merged nodes fit (`Fits`). The first pass does not count outputs, and may exceed `l_out`. By how much, is `OneOut`: a node
  hands out one variable besides those, and what it reads itself nobody else reads (`OnlySuccessor`);
* in `to_LLIR`, a node that is ready is scheduled or will be visited, although nodes that are not ready are dropped (`Scheduled`). With `Acyclic` that means all are scheduled when nothing is left
  to visit (`NoneLeft`). Each is `Lowerable`, so the allocator raises no `ValueError` on the way: merged nodes by `Fits`, the others by the checks of `main()`.

**Assumptions:** `ShapeAssumption`, the checks of `main()`, and `CompilationsAssumption`: programs are in SSA and nothing in them is computed in vain, which is
what `FrontendProofs` proves of the frontend (`InSSA`, `NothingInVain`).

### Register allocation (`RegAllocProofs`)

`AInv`: variables that are still to be read have registers (`Placed`), different ones where they live at the same time (`NoClash`), none of which is
free (`Apart`), and the number of free ones is what the count of births and deaths says (`Counted`): that is why the choice of `set.pop()` does not
matter to success. **Assumptions:** `RegistersAssumption` (sizes) and `SnippetsAssumption` of `RegAllocSSA`: a snippet is in SSA, does not read its
outputs, and its used inputs come first if it has internal variables. The last two exclude what findings 1 and 2 are about; the run
`regalloc_output_read` uses `RegAlloc` without them.

### The container (`BytecodeProofs`)

No width is in the file. The writer computes one for memory cells, for registers and for outputs from three counts, with `log2` on doubles; the host computes
them again from the same counts, with `log2f`; and a reader who is wrong about one field reads everything after it from the wrong place. `Holds(bs, p, fs, e)` says
that the bytes of `bs` from `p` to `e` are those of the fields `fs`. Writing establishes it (`WrittenIsHeld`), it is shared out over concatenated and flattened lists of
fields (`HeldInTurn`, `FlattenedIsHeld`), and reading uses it: `FieldIsRead` for one field, and from that `HeaderRead`, `LLMIRead`, `LLIRead` for what `interpret_meta`,
`interpret_prog` and `LLS_execute` read. `BInv` says that the file holds the header and the LLMIs written so far, at places `start` (`Written`), and where the reader may be: at the
beginning of the header, of the cells, of LLMI `cur`, or of the next LLI in the snippet of LLMI `cur`, with everything before that in `got` (`Reader`). A refusal is in it
only if the shapes differ.

**Assumptions.** `ConfigsAssumption` and `ProgramsAssumption` of `Bytecode`. The counts that widths come from are `Measured`: at least 2, as 1 gives a width of zero, for which
`load_bytes` exits; at most `2^30`, the range of `CeilLog2`; and not in `RoundsDown`, the counts just above a power of two that single precision rounds to it: there host and
writer really disagree. An immediate takes one to four bytes. Snippets are no longer than `LLS_MAX_LENGTH`, an LLMI has one number per input, and the operands of an instruction are of a
combination of kinds that `opcode.h` has a code for. Values need not fit, nor cells and registers exist: a file that was written to its end has only those that did, as
`to_bytes` and the look-ups raise otherwise (`AllFit`, `HeaderKnown`, `LLMIKnown`).

### The cipher (`SparkleProofs`)

For every instance whose rate has two halves no longer than the capacity, every key, nonce, text, associated data and length, zero and multiples of a
block included. The permutation is any function from states to states: that is `PermutesStates`, a hypothesis of the theorems rather than an `ASSUME`, as TLC
cannot enumerate the states. `SInv` records the places an encryption comes through (phase, offset, state), each leading to
the next, and that the ciphertext holds the text of each, xored with its state (`Led`, `Covers`); decryption walks along them, because `rho` on a ciphertext block, with what the code completes the last one
with, is `rho` on the text (the `Xor` lemmas). `FlipsAssumption` and `EndsAssumption` only give types to what an instance enumerates.

### The hash (`SparkleProofs`)

Here the permutation is not a parameter but `sparkle()` itself, seven or eleven steps of it. `EschInv` says that the state is twelve words of four bytes and where the message
is read. That every step of the permutation keeps that, for all words, is shown from the ARX box up: `Xor`, `Add`, the rotations and `ELL` give words of bytes (`XorIsWord`,
`AddIsWord`, `RotationsAreWords`, `ELLIsWord`), so a round and a box give branches (`ARXBoxIsBranch`), and a step and the whole permutation give states (`StepIsState`, `SparkleIsState`). The
folds over rounds, branches and steps are the library's, defined by an equation with `CHOOSE`; that the equation has a solution, with values where one turn stays, is `FoldEquation`
of `SetInduction`. `HashesApart` then follows from xor being undone (`XorCancelsWord`), from paddings that differ, and from the constant of a full block, which is not that of a
padded one (`EndsAreApart`); `FeistelIsWhole` from zero words being neutral in the two sums (`FeistelAdds`). **Assumption:** `BytesAssumption`, messages are of bytes, and the last blocks compared of
16 at most.

### Left to TLC

* Liveness under fairness (`Terminates`, `Compiles`): out of the prover's reach.
* `SameMeaning` of `Frontend` compares what programs of any length compute, as terms given by a recursion over the program. It needs an induction over programs at every step of every
  pass, about terms the prover has no theory of; `FrontendProofs` stops at the structure (`InSSA`, `NothingInVain`).
* `KnownAnswer` runs the cipher on the vector of `test.py`, a computation and not a theorem. There is no such vector for the hash in the repository's tests, and it is not run on one.
* `CProgram`, `Normalize`, `Unroll` and `FileToIR` recurse over trees, `Universalizer` over layers and `Routing` over networks, with recursive operators, and the prover loses its arithmetic where
  there are any. So `KeepsMeaning`, `NoEdgeSkips`, `EdgesExact`, `RevealedLast`, `SnippetsFit`, `HidesDataFlow`, `MeansTheSame`, `StraightLine`, `RoutesFunction`, `WiringIsPublic` and `MLMIsFit`
  are checked on instances only, and so are `Integrity`, `FitsElement` and `LowersProgram` once universalization has begun.

## 6. Running

    tlc -config Obscure.cfg MCObscure
    tlapm ObscureProofs.tla

and likewise for the other pairs of section 3 (`PROJECT.json` names the module and configuration of each run). `universalizer` takes a minute and a half, `regalloc`, `frontend` and
`schwaemm` about a minute each, `obscure` half a minute, `BytecodeProofs` and `ObscureProofs` take two to three minutes each, the other proof modules between half a minute and a minute and a half, the other runs seconds.

## 7. Not modelled, and what is open

Not modelled: libsodium's sealed box (no part of the repository, ideal) and the parser (pycparser); the unused variants of `routing.py` (`ForwardDup`, `ForwardDupLowDepth`, the `apply` methods its own test calls); the assembler versions
and known-answer generators of the primitives, which are not built, and `wrapper.c`, which only allocates; drawing, statistics and command line; the naive
clusterizer and `extract_outputs` (nothing calls them); the graph-colouring half of `reg_alloc.py` (unfinished and unused). The
largest part of the repository by lines, `programs/`, with tests and benchmarks, is what the compiler is fed with: C functions and tables of constants
(`mnist_weights.h`, `mnist_struc.c` and `tracingAES.c` alone are 40 000 lines) without state of their own. All that
changes state in compiler and runtime is an action of some module.

Open, all of it proofs: the layers of `Universalizer` (`NoEdgeSkips`, `RevealedLast`) in a module apart from the networks, so that the assumption of `ObscureProofs` becomes a theorem;
that `FrontendProofs`' conclusions are `CompilationsAssumption`, by a lemma about the two representations of a program; and that a network of `Routing` computes its function at
every size, which is an induction over its halves.

------------------------------ MODULE FileToIR ------------------------------
(***************************************************************************)
(* file_to_IR() of frontend.py: from a C program to an HLIRProgram.  The   *)
(* passes of normalize() come first, one action each; then those of        *)
(* Frontend, instruction by instruction.                                   *)
(***************************************************************************)
EXTENDS Frontend, Unroll

CONSTANTS
  Sources,   \* the C programs
  Inputs     \* sequences of words, to compare programs on

VARIABLES
  source,    \* the program
  tree,      \* what the passes made of it
  idents,    \* the state of identifiers.py
  shape      \* the cells each parameter of main takes, once arrays are removed

vars == <<source, tree, idents, shape, fvars>>

NormalizePasses == {"alpha", "simplify", "unnest", "inline", "alpha_inlined", "unroll",
                    "alpha_unrolled", "remove_arrays"}

\* A run starts with a program, or with one that is normalized already.
FromSource ==
  /\ source \in Sources
  /\ tree = source
  /\ pass = "alpha"
  /\ ast = Empty /\ i = 1 /\ ir = Empty /\ env = Empty /\ written = {}
  /\ next_mem = 0 /\ new_instrs = <<>> /\ outputs = <<>>

Init ==
  /\ idents = NoIdents
  /\ shape = <<>>
  /\ FromSource \/ (FInit /\ source = <<>> /\ tree = <<>>)

Pass(from, to, result) ==
  /\ pass = from
  /\ pass' = to
  /\ tree' = result
  /\ UNCHANGED <<source, ast, i, ir, env, written, next_mem, new_instrs, outputs>>

AlphaConvert ==
  /\ \/ Pass("alpha", "simplify", AlphaConverter(tree).prog)
     \/ Pass("alpha_inlined", "unroll", AlphaConverter(tree).prog)
     \/ Pass("alpha_unrolled", "remove_arrays", AlphaConverter(tree).prog)
  /\ idents' = AlphaConverter(tree).ids
  /\ UNCHANGED shape

\* NotConverter, IntConverter, ControlNormalizer and CompoundAsgnRemover.
Simplify ==
  /\ Pass("simplify", "unnest",
          InBodies(tree, LAMBDA b : CompoundAsgnRemover(ControlNormalizer(NotConverter(b)))))
  /\ UNCHANGED <<idents, shape>>

Unnest ==
  /\ pass = "unnest" /\ ~Unnester(tree, idents).failed
  /\ Pass("unnest", "inline", Unnester(tree, idents).prog)
  /\ idents' = Unnester(tree, idents).ids
  /\ UNCHANGED shape

InlineCalls ==
  /\ Pass("inline", "alpha_inlined", Inliner(tree, idents).prog)
  /\ idents' = Inliner(tree, idents).ids
  /\ UNCHANGED shape

UnrollLoops ==
  /\ pass = "unroll" /\ ~LoopsRefused(tree)
  /\ Pass("unroll", "alpha_unrolled", ForRemover(tree))
  /\ UNCHANGED <<idents, shape>>

\* How AST_to_IR walks the tree: through blocks, past statements that are
\* neither declarations nor assignments nor returns.
RECURSIVE Statements(_)
Statements(ss) ==
  IF ss = <<>> THEN <<>>
  ELSE LET s == Head(ss)
           Operand(e) == CASE e.k = "ID" -> [id |-> e.name]
                           [] e.k = "Constant" -> [const |-> e.value]
                           [] OTHER -> [none |-> 0]
           Statement(kind, name, e) ==
             [kind |-> kind, name |-> name,
              op   |-> CASE e.k = "None" -> NoInit
                         [] e.k = "BinaryOp" -> convert_operator(e.op)
                         [] e.k = "TernaryOp" -> "CMOV"
                         [] OTHER -> "MOV",
              src  |-> CASE e.k = "None" -> <<>>
                         [] e.k = "BinaryOp" -> <<Operand(e.left), Operand(e.right)>>
                         [] e.k = "TernaryOp" ->
                              <<Operand(e.cond), Operand(e.iftrue), Operand(e.iffalse)>>
                         [] OTHER -> <<Operand(e)>>]
       IN (CASE s.k = "Compound" -> Statements(s.block_items)
             [] s.k = "Decl" -> <<Statement("decl", s.name, s.init)>>
             [] s.k = "Assignment" -> <<Statement("assign", s.lvalue.name, s.rvalue)>>
             [] s.k = "Return" -> <<Statement("return", RET, s.expr)>>
             [] OTHER -> <<>>) \o Statements(Tail(ss))

\* What convert() is given when ArrayRemover gives r.
Normalized(r, main) ==
  [params  |-> [j \in DOMAIN main.params |-> main.params[j].name],
   returns |-> r.returns,
   body    |-> Statements(main.body)]

\* normalize() returns, convert() begins.
RemoveArrays ==
  /\ pass = "remove_arrays"
  /\ ~ArraysRefused(Main(tree)) /\ ~SizesUnknown(Main(tree))
  /\ pass' = "convert"
  /\ \E r \in {ArrayRemover(tree)} : tree' = r.prog /\ ast' = Normalized(r, Main(r.prog))
  /\ shape' = Shape(Main(tree))
  /\ env' = ParamCells(ast')
  /\ next_mem' = Len(ast'.params)
  /\ outputs' = ParamOutputs(ast')
  /\ UNCHANGED <<source, idents, i, ir, written, new_instrs>>

\* sys.exit(), or an exception that nobody handles.
NormalizeError ==
  /\ \/ pass = "unnest" /\ Unnester(tree, idents).failed
     \/ pass = "unroll" /\ LoopsRefused(tree)
     \/ pass = "remove_arrays" /\ ArraysRefused(Main(tree))
     \/ pass = "remove_arrays" /\ ~ArraysRefused(Main(tree)) /\ SizesUnknown(Main(tree))
  /\ pass' = "error"
  /\ UNCHANGED <<source, tree, idents, shape, ast, i, ir, env, written, next_mem,
                 new_instrs, outputs>>

Next ==
  \/ AlphaConvert \/ Simplify \/ Unnest \/ InlineCalls \/ UnrollLoops
  \/ RemoveArrays \/ NormalizeError
  \/ FNext /\ UNCHANGED <<source, tree, idents, shape>>

Spec == Init /\ [][Next]_vars

-----------------------------------------------------------------------------
\* Where the parameters of main are: before arrays are removed, and after.
ArraysAt == [j \in DOMAIN Main(source).params |-> ParamAt(j)]
CellsAt == FlattenSeq([j \in DOMAIN shape |->
                         [c \in 1 .. shape[j] |-> ParamAt(j) + c - 1]])

\* The memory after one instruction.
ExecuteIR(mem, in) ==
  LET Arg(q) == IF q \notin DOMAIN in.src THEN 0
                ELSE IF IsMem(in.src[q]) THEN mem[in.src[q].mem] ELSE in.src[q].const
  IN (in.dst :> Execute(in.op, Arg(1), Arg(2), Arg(3))) @@ mem

\* The memory the inputs are in.
InputMemory(at, words) ==
  [m \in {o.mem : o \in Range(ir.inputs) \cup Range(ir.outputs)} |->
     IF m < Len(ir.inputs) THEN words[at[m + 1]] ELSE Garbage]

\* The outputs are the value returned, if there is one, and the cells in back.
OutputCells(mem, outs, back, ret, words) ==
  [ret   |-> IF ret = 1 THEN mem[ir.outputs[1].mem] ELSE Garbage,
   cells |-> [a \in outs |->
                IF \E j \in DOMAIN back : back[j] = a
                THEN mem[ir.outputs[ret + CHOOSE j \in DOMAIN back : back[j] = a].mem]
                ELSE words[a]]]

HandedBack(mem, outs, back, words) ==
  OutputCells(mem, outs, back, Len(ir.outputs) - Len(back), words)

\* What the IR computes, in the terms of Meaning.
IRResult(outs, words) ==
  HandedBack(FoldLeft(ExecuteIR, InputMemory(CellsAt, words), ir.instrs),
             outs, SelectSeq(CellsAt, LAMBDA a : a \in outs), words)

\* What the run has come to computes, where it is a program.
Computed(outs, words) ==
  CASE pass \in NormalizePasses -> Meaning(tree, ArraysAt, outs, words)
    [] pass = "convert" -> Meaning(tree, CellsAt, outs, words)
    [] pass = "end" -> IRResult(outs, words)

\* Every tree between two passes, and the IR in the end, returns what the C
\* program returns, and leaves in the arrays what it leaves there.
MeansTheSame ==
  source # <<>> /\ (pass \in NormalizePasses \cup {"end"} \/ (pass = "convert" /\ i = 1)) =>
    \A words \in Inputs :
      Computed(Returned(Main(source)), words)
        = Meaning(source, ArraysAt, Returned(Main(source)), words)

\* A normalized program is what AST_to_IR takes it for: every operand is a
\* name or a word, every name is declared once, and before it is used, and
\* nothing follows the return.
StraightLine ==
  pass = "convert" =>
    \A j \in DOMAIN ast.body :
      LET st    == ast.body[j]
          known == Range(ast.params)
                     \cup {ast.body[q].name : q \in {r \in 1 .. j : ast.body[r].kind = "decl"}}
      IN /\ st.kind = "assign" => st.name \in known
         /\ st.kind = "return" => j = Len(ast.body)
         /\ st.kind = "decl" =>
              /\ st.name \notin Range(ast.params)
              /\ \A q \in 1 .. j - 1 : ast.body[q].kind = "decl" => ast.body[q].name # st.name
         /\ \A o \in Range(st.src) :
              \/ DOMAIN o = {"id"} /\ o.id \in known
              \/ DOMAIN o = {"const"} /\ o.const \in WordSet
=============================================================================

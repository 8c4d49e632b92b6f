------------------------------ MODULE Frontend ------------------------------
(***************************************************************************)
(* The second half of the frontend: the normalized program becomes an      *)
(* HLIRProgram (AST_to_IR.py), which is put in SSA, freed of copies and of *)
(* dead code (to_SSA, propagate_copy and remove_dead_code in frontend.py). *)
(* Every action is one turn of the loop of a pass, or its end.             *)
(*                                                                         *)
(* A normalized program is straight-line code on named scalars (arrays are *)
(* scalars a[0], a[1] ... by then).  Operators other than the copy are all *)
(* alike to these passes: MOV is told apart, the others are names.         *)
(***************************************************************************)
EXTENDS Integers, Sequences, FiniteSets, SequencesExt

(***************************************************************************)
(* A program of ASTs is [params, returns, body]: parameter names, those to *)
(* return (arrays that are not const), and statements [kind, name, op,     *)
(* src] of kind "decl", "assign" or "return"; op is NoInit in a            *)
(* declaration without initializer.  An operand is [id] or [const].        *)
(***************************************************************************)
CONSTANTS ASTs, NoInit

RET == "__ret"

\* The names that are known, and those that have a value, before statement j.
Declared(a, j) == Range(a.params) \cup {a.body[q].name : q \in 1 .. j - 1}
Initialised(a, j) ==
  Range(a.params) \cup {a.body[q].name : q \in {q \in 1 .. j - 1 : a.body[q].op # NoInit}}

StatementOk(a, j) ==
  LET st == a.body[j] IN
  /\ st.kind \in {"decl", "assign", "return"}
  /\ st.src \in Seq([id : STRING] \cup [const : Int])
  /\ st.op = NoInit \/ st.op \in STRING
  /\ st.op = NoInit => st.kind = "decl"
  /\ st.op = "MOV" => st.src # <<>>
  /\ st.kind = "decl" => st.name \notin Declared(a, j) \cup {RET}
  /\ st.kind = "assign" => st.name \in Declared(a, j)
  /\ st.kind = "return" => st.name = RET /\ j = Len(a.body)
  /\ \A o \in Range(st.src) : DOMAIN o = {"id"} => o.id \in Initialised(a, j)

\* What normalize.py makes of a program whose variables are assigned before
\* they are read (see StraightLine in FileToIR).  Something has to be assigned
\* that is not one of the parameters before the last: first_avail_mem of
\* to_SSA is wrong otherwise.
ASSUME ASTsAssumption ==
  \A a \in ASTs :
    /\ a.params \in Seq(STRING) /\ IsInjective(a.params)
    /\ RET \notin Range(a.params)
    /\ Len(a.body) \in Nat /\ DOMAIN a.body = 1 .. Len(a.body)
    /\ \A j \in DOMAIN a.body : StatementOk(a, j)
    /\ \/ a.params = <<>>
       \/ \E j \in DOMAIN a.body :
            /\ a.body[j].op # NoInit
            /\ a.body[j].name \notin {a.params[q] : q \in 1 .. Len(a.params) - 1}

VARIABLES
  ast,
  pass,         \* "convert", "to_SSA", "propagate_copy", "remove_dead_code", "end"
  i,            \* the statement or instruction of this turn
  ir,           \* the program the pass works on
  env,          \* of the pass
  written,      \* to_SSA: cells written;  remove_dead_code: operands read
  next_mem,     \* next_mem of AST_to_IR, first_avail_mem of to_SSA
  new_instrs,   \* the instructions made so far
  outputs

fvars == <<ast, pass, i, ir, env, written, next_mem, new_instrs, outputs>>

Mem(m) == [mem |-> m]
IsMem(operand) == DOMAIN operand = {"mem"}

\* f, with x mapped to y.
Bind(f, x, y) == [z \in DOMAIN f \cup {x} |-> IF z = x THEN y ELSE f[z]]
Empty == [z \in {} |-> z]

-----------------------------------------------------------------------------
\* visit_FuncDef() deals with the parameters: cells, and outputs if they are returned.
ParamCells(a) ==
  [x \in Range(a.params) |-> (CHOOSE j \in DOMAIN a.params : a.params[j] = x) - 1]
ParamOutputs(a) ==
  SelectSeq([j \in DOMAIN a.params |-> Mem(j - 1)],
            LAMBDA o : a.params[o.mem + 1] \in a.returns)

FInit ==
  /\ ast \in ASTs
  /\ pass = "convert"
  /\ i = 1
  /\ ir = Empty
  /\ env = ParamCells(ast)
  /\ written = {}
  /\ next_mem = Len(ast.params)
  /\ new_instrs = <<>>
  /\ outputs = ParamOutputs(ast)

convert_operand(cells, operand) ==
  IF DOMAIN operand = {"id"} THEN Mem(cells[operand.id]) ELSE operand

\* visit_Decl, visit_Return and visit_Assignment.
ConvertStatement ==
  LET st    == ast.body[i]
      name  == IF st.kind = "return" THEN RET ELSE st.name
      cells == IF st.kind = "assign" THEN env ELSE Bind(env, name, next_mem)
  IN
  /\ pass = "convert"
  /\ i =< Len(ast.body)
  /\ env' = cells
  /\ next_mem' = IF st.kind = "assign" THEN next_mem ELSE next_mem + 1
  /\ outputs' = IF st.kind = "return" THEN <<Mem(next_mem)>> \o outputs ELSE outputs
  /\ new_instrs' =
       IF st.op = NoInit THEN new_instrs
       ELSE Append(new_instrs,
                   [op |-> st.op, dst |-> cells[name],
                    src |-> [j \in DOMAIN st.src |-> convert_operand(cells, st.src[j])]])
  /\ i' = i + 1
  /\ UNCHANGED <<ast, pass, ir, written>>

\* "the adress of the first unused memory cell".
first_avail_mem(instrs) ==
  IF instrs = <<>> THEN 0
  ELSE 1 + (CHOOSE m \in {instrs[j].dst : j \in DOMAIN instrs} :
              \A j \in DOMAIN instrs : instrs[j].dst =< m)

\* convert() returns, to_SSA() sets itself up.
EndConvert ==
  /\ pass = "convert"
  /\ i > Len(ast.body)
  /\ pass' = "to_SSA"
  /\ ir' = [instrs       |-> new_instrs,
            inputs       |-> [j \in DOMAIN ast.params |-> Mem(j - 1)],
            outputs      |-> outputs,
            memory_count |-> next_mem]
  /\ i' = 1
  /\ env' = Empty
  /\ written' = 0 .. Len(ast.params) - 1
  /\ next_mem' = first_avail_mem(new_instrs)
  /\ new_instrs' = <<>>
  /\ UNCHANGED <<ast, outputs>>

-----------------------------------------------------------------------------
\* update_src(), of to_SSA and of propagate_copy: env holds operands.
update_src(operand) ==
  IF IsMem(operand) /\ operand.mem \in DOMAIN env THEN env[operand.mem] ELSE operand

Updated(src) == [j \in DOMAIN src |-> update_src(src[j])]

\* Mutant: the inputs may be written to.
Rewritten_Inputs(dst) == dst \in written \ {o.mem : o \in Range(ir.inputs)}

\* The destination was written already, or is an input.
Rewritten(dst) == dst \in written

SSAInstr ==
  LET instr == ir.instrs[i]
      dst   == IF Rewritten(instr.dst) THEN next_mem ELSE instr.dst
  IN
  /\ pass = "to_SSA"
  /\ i =< Len(ir.instrs)
  /\ env' = IF Rewritten(instr.dst) THEN Bind(env, instr.dst, Mem(next_mem)) ELSE env
  /\ next_mem' = IF Rewritten(instr.dst) THEN next_mem + 1 ELSE next_mem
  /\ written' = written \cup {dst}
  /\ new_instrs' = Append(new_instrs,
                          [op |-> instr.op, dst |-> dst, src |-> Updated(instr.src)])
  /\ i' = i + 1
  /\ UNCHANGED <<ast, pass, ir, outputs>>

EndSSA ==
  /\ pass = "to_SSA"
  /\ i > Len(ir.instrs)
  /\ pass' = "propagate_copy"
  /\ outputs' = Updated(ir.outputs)
  /\ ir' = [ir EXCEPT !.instrs = new_instrs,
                      !.outputs = Updated(ir.outputs),
                      !.memory_count = next_mem]
  /\ i' = 1
  /\ env' = Empty
  /\ new_instrs' = <<>>
  /\ UNCHANGED <<ast, written, next_mem>>

-----------------------------------------------------------------------------
\* Mutant: a copy that is an output is dropped too.
DroppedCopy_Outputs(instr) == instr.op = "MOV" /\ i # Len(ir.instrs)

\* A copy that is no output is dropped; the last instruction always stays.
DroppedCopy(instr) ==
  /\ instr.op = "MOV"
  /\ i # Len(ir.instrs)
  /\ Mem(instr.dst) \notin Range(ir.outputs)

CopyInstr ==
  LET instr == ir.instrs[i]
      src   == Updated(instr.src)
  IN
  /\ pass = "propagate_copy"
  /\ i =< Len(ir.instrs)
  /\ env' = IF instr.op = "MOV" /\ i # Len(ir.instrs)
            THEN Bind(env, instr.dst, src[1]) ELSE env
  /\ new_instrs' = IF DroppedCopy(instr) THEN new_instrs
                   ELSE Append(new_instrs, [instr EXCEPT !.src = src])
  /\ i' = i + 1
  /\ UNCHANGED <<ast, pass, ir, written, next_mem, outputs>>

\* remove_dead_code() goes through the instructions from the last one.
EndCopy ==
  /\ pass = "propagate_copy"
  /\ i > Len(ir.instrs)
  /\ pass' = "remove_dead_code"
  /\ ir' = [ir EXCEPT !.instrs = new_instrs]
  /\ i' = Len(new_instrs)
  /\ env' = Empty
  /\ written' = {}
  /\ new_instrs' = <<>>
  /\ UNCHANGED <<ast, next_mem, outputs>>

-----------------------------------------------------------------------------
\* Mutant: every operand of the program counts, not only those read later by
\* instructions that stay.
IsDead_AnyRead(instr) ==
  /\ Mem(instr.dst) \notin UNION {Range(ir.instrs[j].src) : j \in DOMAIN ir.instrs}
  /\ Mem(instr.dst) \notin Range(ir.outputs)

IsDead(instr) ==
  /\ Mem(instr.dst) \notin written
  /\ Mem(instr.dst) \notin Range(ir.outputs)

DeadInstr ==
  LET instr == ir.instrs[i] IN
  /\ pass = "remove_dead_code"
  /\ i > 0
  /\ IF IsDead(instr) THEN UNCHANGED <<new_instrs, written>>
     ELSE /\ new_instrs' = <<instr>> \o new_instrs
          /\ written' = written \cup {o \in Range(instr.src) : IsMem(o)}
  /\ i' = i - 1
  /\ UNCHANGED <<ast, pass, ir, env, next_mem, outputs>>

EndDead ==
  /\ pass = "remove_dead_code"
  /\ i = 0
  /\ pass' = "end"
  /\ ir' = [ir EXCEPT !.instrs = new_instrs]
  /\ UNCHANGED <<ast, i, env, written, next_mem, new_instrs, outputs>>

FNext == ConvertStatement \/ EndConvert \/ SSAInstr \/ EndSSA
           \/ CopyInstr \/ EndCopy \/ DeadInstr \/ EndDead

FSpec == FInit /\ [][FNext]_fvars

-----------------------------------------------------------------------------
AfterSSA == pass \in {"propagate_copy", "remove_dead_code", "end"}

\* "Global memory is in SSA at that point" (HLIRProgram, IR.py): no cell is
\* written twice, inputs are not written at all, what an instruction reads is
\* an input or was written by an earlier instruction, and cells from
\* memory_count on, which later passes take for new variables, are not in use.
InSSA ==
  AfterSSA =>
    /\ \A j \in DOMAIN ir.instrs :
         /\ Mem(ir.instrs[j].dst) \notin Range(ir.inputs)
         /\ \A q \in DOMAIN ir.instrs : ir.instrs[q].dst = ir.instrs[j].dst => q = j
         /\ ir.instrs[j].dst < ir.memory_count
         /\ \A o \in Range(ir.instrs[j].src) :
              IsMem(o) => \/ o \in Range(ir.inputs)
                          \/ \E q \in 1 .. j - 1 : ir.instrs[q].dst = o.mem
    /\ \A o \in Range(ir.inputs) : o.mem < ir.memory_count

(***************************************************************************)
(* What a program means, as terms over its inputs: after j statements, or  *)
(* instructions, the value of every name, or cell.                         *)
(***************************************************************************)
Term(op, vals) == IF op = "MOV" THEN vals[1] ELSE <<op, vals>>

SourceMeaning(p) ==
  LET names == Range(p.params) \cup {p.body[j].name : j \in DOMAIN p.body} \cup {RET}
      Value(e, operand) == IF DOMAIN operand = {"id"} THEN e[operand.id] ELSE operand
      After[j \in 0 .. Len(p.body)] ==
        IF j = 0
        THEN [x \in names |-> IF x \in Range(p.params)
                              THEN <<"in", CHOOSE q \in DOMAIN p.params : p.params[q] = x>>
                              ELSE <<"undefined">>]
        ELSE LET e    == After[j - 1]
                 st   == p.body[j]
                 name == IF st.kind = "return" THEN RET ELSE st.name
             IN IF st.op = NoInit THEN e
                ELSE [e EXCEPT ![name] =
                        Term(st.op, [q \in DOMAIN st.src |-> Value(e, st.src[q])])]
      end == After[Len(p.body)]
      arrays == SelectSeq(p.params, LAMBDA x : x \in p.returns)
      ret == IF \E j \in DOMAIN p.body : p.body[j].kind = "return" THEN <<RET>> ELSE <<>>
  IN [j \in 1 .. Len(ret \o arrays) |-> end[(ret \o arrays)[j]]]

IRMeaning(p) ==
  LET cells == {o.mem : o \in Range(p.inputs) \cup Range(p.outputs)}
                 \cup {p.instrs[j].dst : j \in DOMAIN p.instrs}
      Value(e, operand) == IF ~IsMem(operand) THEN operand
                           ELSE IF operand.mem \in cells THEN e[operand.mem]
                           ELSE <<"undefined">>
      After[j \in 0 .. Len(p.instrs)] ==
        IF j = 0
        THEN [m \in cells |-> IF Mem(m) \in Range(p.inputs) THEN <<"in", m + 1>>
                              ELSE <<"undefined">>]
        ELSE LET e     == After[j - 1]
                 instr == p.instrs[j]
             IN [e EXCEPT ![instr.dst] =
                   Term(instr.op, [q \in DOMAIN instr.src |-> Value(e, instr.src[q])])]
      end == After[Len(p.instrs)]
  IN [j \in DOMAIN p.outputs |-> end[p.outputs[j].mem]]

\* Between the passes the program means what its source means.
SameMeaning == pass = "to_SSA" \/ AfterSSA => IRMeaning(ir) = SourceMeaning(ast)

\* When all passes are done nothing is computed in vain, and nobody reads the
\* copy instead of the original (so outputs that are copies are not read).
NothingInVain ==
  pass = "end" =>
    \A j \in DOMAIN ir.instrs :
      LET cell == Mem(ir.instrs[j].dst)
          read == \E q \in j + 1 .. Len(ir.instrs) : cell \in Range(ir.instrs[q].src)
      IN /\ read \/ cell \in Range(ir.outputs)
         /\ ir.instrs[j].op = "MOV" => ~read
=============================================================================

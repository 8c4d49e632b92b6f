--------------------------- MODULE FrontendProofs ---------------------------
(***************************************************************************)
(* Proofs about the second half of the frontend, for every program that    *)
(* satisfies ASTsAssumption: each pass keeps what the next one relies on.  *)
(***************************************************************************)
EXTENDS Frontend, SetInduction, TLAPS

(***************************************************************************)
(* Instructions, and what programs made of them are like.                  *)
(***************************************************************************)
Operand == [mem : Nat] \cup [const : Int]
Instruction == {instr \in [op : STRING, dst : Nat, src : Seq(Operand)] :
                  instr.op = "MOV" => Len(instr.src) > 0}

Dsts(I) == {I[q].dst : q \in 1 .. Len(I)}
ReadCells(instr) == {c \in Nat : Mem(c) \in Range(instr.src)}

\* The cells with a value before instruction k of I, on N inputs.
Avail(N, I, k) == (0 .. N - 1) \cup {I[q].dst : q \in 1 .. k - 1}

\* Nothing is read before it has a value.
DefUse(N, I) == \A j \in 1 .. Len(I) : ReadCells(I[j]) \subseteq Avail(N, I, j)

\* SSA: no cell is written twice, none of the N inputs is written.
OneDef(N, I, count) ==
  /\ \A j \in 1 .. Len(I) : I[j].dst \in N .. count - 1
  /\ \A j, q \in 1 .. Len(I) : I[j].dst = I[q].dst => j = q

-----------------------------------------------------------------------------
(***************************************************************************)
(* The inductive invariant, pass by pass.                                  *)
(***************************************************************************)
ParamCount == Len(ast.params)
InputsOf(a) == [j \in DOMAIN a.params |-> Mem(j - 1)]

\* Every name has a cell of its own, the parameters have the first ones.
Named(a, k, e, count) ==
  /\ count \in Nat /\ count >= Len(a.params)
  /\ DOMAIN e = Declared(a, k)
  /\ \A x \in DOMAIN e : e[x] \in 0 .. count - 1
  /\ \A j \in 1 .. Len(a.params) : e[a.params[j]] = j - 1
  /\ \A x \in DOMAIN e : x \notin Range(a.params) => e[x] >= Len(a.params)
  /\ \A x, y \in DOMAIN e : e[x] = e[y] => x = y
  /\ RET \in DOMAIN e => k = Len(a.body) + 1

ConvertInv ==
  /\ i \in 1 .. Len(ast.body) + 1
  /\ Named(ast, i, env, next_mem)
  /\ new_instrs \in Seq(Instruction)
  /\ Dsts(new_instrs) \subseteq 0 .. next_mem - 1
  /\ \A q \in 1 .. i - 1 : ast.body[q].op # NoInit =>
       env[ast.body[q].name] \in Dsts(new_instrs)
  /\ DefUse(ParamCount, new_instrs)

\* What has a value has it in a cell that was written, its own or a new one.
SSAInv ==
  /\ i \in 1 .. Len(ir.instrs) + 1
  /\ next_mem \in Nat /\ next_mem >= ParamCount
  /\ \A c \in Dsts(ir.instrs) : c < next_mem
  /\ DefUse(ParamCount, ir.instrs)
  /\ new_instrs \in Seq(Instruction)
  /\ OneDef(ParamCount, new_instrs, next_mem)
  /\ DefUse(ParamCount, new_instrs)
  /\ written = (0 .. ParamCount - 1) \cup Dsts(new_instrs)
  /\ \A c \in DOMAIN env : \E d \in written : env[c] = Mem(d)
  /\ \A c \in Avail(ParamCount, ir.instrs, i) : c \in DOMAIN env \/ c \in written

\* Who reads a copy reads the original instead.
CopyInv ==
  /\ i \in 1 .. Len(ir.instrs) + 1
  /\ OneDef(ParamCount, ir.instrs, ir.memory_count)
  /\ DefUse(ParamCount, ir.instrs)
  /\ ir.memory_count >= ParamCount
  /\ new_instrs \in Seq(Instruction)
  /\ OneDef(ParamCount, new_instrs, ir.memory_count)
  /\ DefUse(ParamCount, new_instrs)
  /\ DOMAIN env = {ir.instrs[q].dst : q \in {q \in 1 .. i - 1 :
                                               ir.instrs[q].op = "MOV" /\ q # Len(ir.instrs)}}
  /\ \A c \in DOMAIN env : env[c] \in Operand
  /\ \A c \in DOMAIN env : \A d \in Nat : env[c] = Mem(d) =>
       d \notin DOMAIN env /\ d \in (0 .. ParamCount - 1) \cup Dsts(new_instrs)
  /\ \A j \in 1 .. Len(new_instrs) : ReadCells(new_instrs[j]) \cap DOMAIN env = {}
  /\ \A q \in 1 .. i - 1 : ir.instrs[q].dst \in DOMAIN env \cup Dsts(new_instrs)
  /\ Dsts(new_instrs) \subseteq {ir.instrs[q].dst : q \in 1 .. i - 1}
  /\ \A j \in 1 .. Len(new_instrs) : new_instrs[j].op = "MOV" =>
       \/ new_instrs[j].dst \in DOMAIN env
       \/ i > Len(ir.instrs) /\ j = Len(new_instrs)

\* Nobody reads a copy.
CopiesUnread(I) ==
  \A j \in 1 .. Len(I) : I[j].op = "MOV" =>
    \A q \in j + 1 .. Len(I) : I[j].dst \notin ReadCells(I[q])

\* Everything is read later, or an output.
AllUsed(I, outs) ==
  \A j \in 1 .. Len(I) :
    \/ \E q \in j + 1 .. Len(I) : I[j].dst \in ReadCells(I[q])
    \/ Mem(I[j].dst) \in Range(outs)

DeadInv ==
  /\ i \in 0 .. Len(ir.instrs)
  /\ OneDef(ParamCount, ir.instrs, ir.memory_count)
  /\ DefUse(ParamCount, ir.instrs)
  /\ ir.memory_count >= ParamCount
  /\ CopiesUnread(ir.instrs)
  /\ new_instrs \in Seq(Instruction)
  /\ \A j \in 1 .. Len(new_instrs) :
       \E q \in i + 1 .. Len(ir.instrs) : new_instrs[j] = ir.instrs[q]
  /\ OneDef(ParamCount, new_instrs, ir.memory_count)
  /\ written = UNION {{Mem(c) : c \in ReadCells(new_instrs[j])} : j \in 1 .. Len(new_instrs)}
  /\ \A j \in 1 .. Len(new_instrs) : \A c \in ReadCells(new_instrs[j]) :
       c \in Avail(ParamCount, new_instrs, j) \cup {ir.instrs[q].dst : q \in 1 .. i}
  /\ CopiesUnread(new_instrs)
  /\ AllUsed(new_instrs, ir.outputs)

EndInv ==
  /\ OneDef(ParamCount, ir.instrs, ir.memory_count)
  /\ DefUse(ParamCount, ir.instrs)
  /\ ir.memory_count >= ParamCount
  /\ CopiesUnread(ir.instrs)
  /\ AllUsed(ir.instrs, ir.outputs)

Fields == {"instrs", "inputs", "outputs", "memory_count"}

FInv ==
  /\ ast \in ASTs
  /\ pass \in {"convert", "to_SSA", "propagate_copy", "remove_dead_code", "end"}
  /\ pass = "convert" => ConvertInv
  /\ pass # "convert" =>
       /\ DOMAIN ir = Fields /\ ir.inputs = InputsOf(ast) /\ ir.outputs = outputs
       /\ ir.instrs \in Seq(Instruction)
       /\ ir.memory_count \in Nat
  /\ pass = "to_SSA" => SSAInv
  /\ pass = "propagate_copy" => CopyInv
  /\ pass = "remove_dead_code" => DeadInv
  /\ pass = "end" => EndInv

-----------------------------------------------------------------------------
(***************************************************************************)
(* Sequences, operands and programs.                                       *)
(***************************************************************************)
LEMMA SeqIs ==
  ASSUME NEW S, NEW sq \in Seq(S)
  PROVE  /\ Len(sq) \in Nat /\ DOMAIN sq = 1 .. Len(sq)
         /\ \A q \in 1 .. Len(sq) : sq[q] \in S
  OBVIOUS

LEMMA AppendIs ==
  ASSUME NEW S, NEW sq \in Seq(S), NEW e \in S
  PROVE  /\ Append(sq, e) \in Seq(S)
         /\ Len(Append(sq, e)) = Len(sq) + 1
         /\ 1 .. Len(sq) + 1 = (1 .. Len(sq)) \cup {Len(sq) + 1}
         /\ Append(sq, e)[Len(sq) + 1] = e
         /\ \A q \in 1 .. Len(sq) : Append(sq, e)[q] = sq[q]
  OBVIOUS

LEMMA PrependIs ==
  ASSUME NEW S, NEW sq \in Seq(S), NEW e \in S
  PROVE  /\ <<e>> \o sq \in Seq(S)
         /\ Len(<<e>> \o sq) = Len(sq) + 1
         /\ (<<e>> \o sq)[1] = e
         /\ \A q \in 1 .. Len(sq) : (<<e>> \o sq)[q + 1] = sq[q]
  OBVIOUS

LEMMA ListIsSeq ==
  ASSUME NEW S, NEW n \in Nat, NEW f, DOMAIN f = 1 .. n, f = [j \in 1 .. n |-> f[j]],
         \A j \in 1 .. n : f[j] \in S
  PROVE  f \in Seq(S) /\ Len(f) = n
  OBVIOUS

LEMMA ProgramChanged ==
  ASSUME NEW p, DOMAIN p = Fields, NEW I, NEW outs, NEW count
  PROVE  /\ LET r == [p EXCEPT !.instrs = I]
            IN /\ DOMAIN r = Fields /\ r.instrs = I /\ r.inputs = p.inputs
               /\ r.outputs = p.outputs /\ r.memory_count = p.memory_count
         /\ LET r == [p EXCEPT !.instrs = I, !.outputs = outs, !.memory_count = count]
            IN /\ DOMAIN r = Fields /\ r.instrs = I /\ r.inputs = p.inputs
               /\ r.outputs = outs /\ r.memory_count = count
  BY DEF Fields

LEMMA MemIs ==
  ASSUME NEW c, NEW d
  PROVE  (Mem(c) = Mem(d) <=> c = d) /\ IsMem(Mem(c)) /\ Mem(c).mem = c
         /\ (c \in Nat => Mem(c) \in Operand)
  BY DEF Mem, IsMem, Operand

LEMMA OperandIs ==
  ASSUME NEW o \in Operand
  PROVE  /\ IsMem(o) => o.mem \in Nat /\ o = Mem(o.mem)
         /\ ~ IsMem(o) => \A c : o # Mem(c)
<1>1. CASE o \in [mem : Nat]
  BY <1>1 DEF IsMem, Mem
<1>2. CASE o \in [const : Int]
  BY <1>2 DEF IsMem, Mem
<1>3. QED
  BY <1>1, <1>2 DEF Operand

LEMMA InstructionIs ==
  ASSUME NEW instr \in Instruction
  PROVE  /\ instr.dst \in Nat /\ instr.op \in STRING /\ instr.src \in Seq(Operand)
         /\ ReadCells(instr) \subseteq Nat /\ (instr.op = "MOV" => Len(instr.src) > 0)
         /\ instr = [op |-> instr.op, dst |-> instr.dst, src |-> instr.src]
  BY DEF Instruction, ReadCells

LEMMA InstrIs ==
  ASSUME NEW I \in Seq(Instruction)
  PROVE  /\ Len(I) \in Nat /\ DOMAIN I = 1 .. Len(I)
         /\ \A q \in 1 .. Len(I) :
              /\ I[q] \in Instruction
              /\ I[q].dst \in Nat /\ I[q].op \in STRING /\ I[q].src \in Seq(Operand)
              /\ ReadCells(I[q]) \subseteq Nat
<1>1. \A q \in 1 .. Len(I) : I[q] \in Instruction
  BY SeqIs, Zenon
<1>2. Len(I) \in Nat /\ DOMAIN I = 1 .. Len(I)
  BY SeqIs, Zenon
<1>3. QED
  BY <1>1, <1>2, InstructionIs, Zenon

\* One more instruction at the end.
LEMMA Appended ==
  ASSUME NEW I \in Seq(Instruction), NEW instr \in Instruction
  PROVE  LET J == Append(I, instr) IN
         /\ J \in Seq(Instruction) /\ Len(J) = Len(I) + 1
         /\ 1 .. Len(J) = (1 .. Len(I)) \cup {Len(J)}
         /\ J[Len(J)] = instr
         /\ \A q \in 1 .. Len(I) : J[q] = I[q]
         /\ Dsts(J) = Dsts(I) \cup {instr.dst}
<1> DEFINE J == Append(I, instr)
<1>1. /\ J \in Seq(Instruction) /\ Len(J) = Len(I) + 1
      /\ 1 .. Len(I) + 1 = (1 .. Len(I)) \cup {Len(I) + 1}
      /\ J[Len(I) + 1] = instr
      /\ \A q \in 1 .. Len(I) : J[q] = I[q]
  BY AppendIs
<1> HIDE DEF J
<1>2. Dsts(J) = Dsts(I) \cup {instr.dst}
  BY <1>1 DEF Dsts
<1>3. QED
  BY <1>1, <1>2 DEF J

LEMMA AvailIs ==
  ASSUME NEW N, NEW I \in Seq(Instruction)
  PROVE  Avail(N, I, Len(I) + 1) = (0 .. N - 1) \cup Dsts(I)
<1>1. (Len(I) + 1) - 1 = Len(I)
  BY InstrIs
<1>2. QED
  BY <1>1 DEF Avail, Dsts

LEMMA DefUseAppended ==
  ASSUME NEW N, NEW I \in Seq(Instruction), NEW instr \in Instruction, DefUse(N, I),
         ReadCells(instr) \subseteq (0 .. N - 1) \cup Dsts(I)
  PROVE  DefUse(N, Append(I, instr))
<1> DEFINE J == Append(I, instr)
<1>1. /\ Len(J) = Len(I) + 1 /\ Len(I) \in Nat
      /\ 1 .. Len(J) = (1 .. Len(I)) \cup {Len(J)}
      /\ J[Len(J)] = instr
      /\ \A q \in 1 .. Len(I) : J[q] = I[q]
  BY Appended, InstrIs
<1> HIDE DEF J
<1>2. ASSUME NEW j \in 1 .. Len(J)
      PROVE  Avail(N, J, j) = Avail(N, I, j)
  <2>1. 1 .. j - 1 \subseteq 1 .. Len(I)
    BY <1>1
  <2>2. QED
    BY <1>1, <2>1 DEF Avail
<1>3. Avail(N, I, Len(J)) = (0 .. N - 1) \cup Dsts(I)
  BY <1>1, AvailIs
<1>4. \A j \in 1 .. Len(J) : ReadCells(J[j]) \subseteq Avail(N, I, j)
  BY <1>1, <1>3 DEF DefUse
<1>5. QED
  BY <1>2, <1>4 DEF DefUse, J

LEMMA OneDefAppended ==
  ASSUME NEW N, NEW I \in Seq(Instruction), NEW instr \in Instruction,
         NEW count \in Int, NEW more \in Int, more >= count, OneDef(N, I, count),
         instr.dst \in N .. more - 1, instr.dst \notin Dsts(I), N \in Int
  PROVE  OneDef(N, Append(I, instr), more)
<1> DEFINE J == Append(I, instr)
<1>1. /\ 1 .. Len(J) = (1 .. Len(I)) \cup {Len(J)}
      /\ J[Len(J)] = instr
      /\ \A q \in 1 .. Len(I) : J[q] = I[q]
  BY Appended
<1> HIDE DEF J
<1>2. \A q \in 1 .. Len(I) : I[q].dst \in N .. more - 1 /\ I[q].dst # instr.dst
  BY DEF OneDef, Dsts
<1>3. \A q \in 1 .. Len(I) : J[q].dst # J[Len(J)].dst
  BY <1>1, <1>2
<1>4. \A j, q \in 1 .. Len(J) : J[j].dst = J[q].dst => j = q
  BY <1>1, <1>3 DEF OneDef
<1>5. \A j \in 1 .. Len(J) : J[j].dst \in N .. more - 1
  BY <1>1, <1>2
<1>6. QED
  BY <1>4, <1>5 DEF OneDef, J

-----------------------------------------------------------------------------
(***************************************************************************)
(* AST_to_IR.                                                              *)
(***************************************************************************)
SourceOperand == [id : STRING] \cup [const : Int]

LEMMA ASTIs ==
  ASSUME NEW a \in ASTs
  PROVE  /\ a.params \in Seq(STRING) /\ Len(a.params) \in Nat
         /\ DOMAIN a.params = 1 .. Len(a.params)
         /\ \A j, q \in 1 .. Len(a.params) : a.params[j] = a.params[q] => j = q
         /\ RET \notin Range(a.params)
         /\ Len(a.body) \in Nat /\ DOMAIN a.body = 1 .. Len(a.body)
         /\ \A j \in 1 .. Len(a.body) : StatementOk(a, j)
  BY ASTsAssumption DEF IsInjective

LEMMA DeclaredNext ==
  ASSUME NEW a \in ASTs, NEW k \in 1 .. Len(a.body)
  PROVE  /\ Declared(a, k + 1) = Declared(a, k) \cup {a.body[k].name}
         /\ Initialised(a, k) \subseteq Declared(a, k)
<1>1. 1 .. (k + 1) - 1 = (1 .. k - 1) \cup {k}
  BY ASTIs
<1>2. QED
  BY <1>1 DEF Declared, Initialised

LEMMA NamedInit ==
  ASSUME NEW a \in ASTs
  PROVE  Named(a, 1, ParamCells(a), Len(a.params))
<1>1. 1 .. 1 - 1 = {}
  OBVIOUS
<1>2. Declared(a, 1) = Range(a.params) /\ DOMAIN ParamCells(a) = Range(a.params)
  BY <1>1 DEF Declared, ParamCells
<1>3. ASSUME NEW j \in 1 .. Len(a.params)
      PROVE  ParamCells(a)[a.params[j]] = j - 1 /\ a.params[j] \in Range(a.params)
  <2>1. a.params[j] \in Range(a.params)
    BY ASTIs DEF Range
  <2>2. (CHOOSE q \in DOMAIN a.params : a.params[q] = a.params[j]) = j
    BY ASTIs
  <2>3. QED
    BY <2>1, <2>2 DEF ParamCells
<1>4. \A x \in Range(a.params) : \E j \in 1 .. Len(a.params) : x = a.params[j]
  BY ASTIs DEF Range
<1>5. \A x \in Range(a.params) : ParamCells(a)[x] \in 0 .. Len(a.params) - 1
  <2>1. \A j \in 1 .. Len(a.params) : ParamCells(a)[a.params[j]] \in 0 .. Len(a.params) - 1
    <3>1. Len(a.params) \in Nat
      BY ASTIs
    <3>2. \A j \in 1 .. Len(a.params) : j - 1 \in 0 .. Len(a.params) - 1
      BY <3>1
    <3>3. QED
      BY <1>3, <3>2
  <2>2. QED
    BY <1>4, <2>1
<1>6. ASSUME NEW x \in Range(a.params), NEW y \in Range(a.params),
             ParamCells(a)[x] = ParamCells(a)[y]
      PROVE  x = y
  <2>1. PICK j \in 1 .. Len(a.params) : x = a.params[j]
    BY <1>4
  <2>2. PICK q \in 1 .. Len(a.params) : y = a.params[q]
    BY <1>4
  <2>3. j - 1 = q - 1
    BY <1>3, <1>6, <2>1, <2>2
  <2>4. j = q
    BY <2>3, ASTIs
  <2>5. QED
    BY <2>1, <2>2, <2>4
<1>7. Len(a.params) \in Nat /\ Len(a.params) >= Len(a.params) /\ RET \notin Range(a.params)
  BY ASTIs
<1>8. QED
  BY <1>2, <1>3, <1>5, <1>6, <1>7 DEF Named

LEMMA NamedAssign ==
  ASSUME NEW a \in ASTs, NEW k \in 1 .. Len(a.body), NEW e, NEW count,
         Named(a, k, e, count), a.body[k].kind = "assign"
  PROVE  Named(a, k + 1, e, count)
<1>1. a.body[k].name \in Declared(a, k)
  BY ASTIs DEF StatementOk
<1>2. Declared(a, k + 1) = Declared(a, k)
  <2>1. Declared(a, k + 1) = Declared(a, k) \cup {a.body[k].name}
    BY DeclaredNext
  <2>2. QED
    BY <1>1, <2>1, Zenon
<1>3. k # Len(a.body) + 1
  BY ASTIs
<1>4. QED
  BY <1>2, <1>3 DEF Named

LEMMA NamedBind ==
  ASSUME NEW a \in ASTs, NEW k \in 1 .. Len(a.body), NEW e, NEW count,
         Named(a, k, e, count), a.body[k].kind # "assign"
  PROVE  /\ Named(a, k + 1, Bind(e, a.body[k].name, count), count + 1)
         /\ a.body[k].name \notin Declared(a, k)
<1> DEFINE x == a.body[k].name
           e2 == Bind(e, x, count)
<1>1. x \notin Declared(a, k) /\ x \notin Range(a.params)
  <2>1. CASE a.body[k].kind = "decl"
    BY <2>1, ASTIs DEF StatementOk, Declared
  <2>2. CASE a.body[k].kind = "return"
    <3>1. x = RET /\ k # Len(a.body) + 1
      BY <2>2, ASTIs DEF StatementOk
    <3>2. QED
      BY <3>1, ASTIs DEF Named
  <2>3. QED
    BY <2>1, <2>2, ASTIs DEF StatementOk
<1>2. x = RET => k + 1 = Len(a.body) + 1
  <2>1. CASE a.body[k].kind = "decl"
    BY <2>1, ASTIs DEF StatementOk
  <2>2. CASE a.body[k].kind = "return"
    BY <2>2, ASTIs DEF StatementOk
  <2>3. QED
    BY <2>1, <2>2, ASTIs DEF StatementOk
<1>3. DOMAIN e2 = Declared(a, k + 1) /\ DOMAIN e = Declared(a, k)
  BY DeclaredNext DEF Bind, Named
<1>4. e2[x] = count /\ x \in DOMAIN e2
  BY DEF Bind
<1>5. \A y \in DOMAIN e2 : y # x => y \in DOMAIN e /\ e2[y] = e[y]
  BY DEF Bind
<1>6. DOMAIN e2 = DOMAIN e \cup {x}
  BY DEF Bind
<1> HIDE DEF x, e2
<1>7. \A j \in 1 .. Len(a.params) : a.params[j] \in DOMAIN e /\ a.params[j] # x
  BY <1>1, <1>3, ASTIs DEF Declared, Range
<1>8. /\ count \in Nat /\ count >= Len(a.params)
      /\ \A y \in DOMAIN e : e[y] \in 0 .. count - 1
  BY DEF Named
<1>9. \A y \in DOMAIN e2 : e2[y] \in 0 .. (count + 1) - 1
  BY <1>4, <1>5, <1>8
<1>10. \A j \in 1 .. Len(a.params) : e2[a.params[j]] = j - 1
  BY <1>5, <1>6, <1>7 DEF Named
<1>11. \A y \in DOMAIN e2 : y \notin Range(a.params) => e2[y] >= Len(a.params)
  BY <1>4, <1>5, <1>8 DEF Named
<1>12. \A y, z \in DOMAIN e2 : e2[y] = e2[z] => y = z
  <2>1. \A y \in DOMAIN e : e[y] # count
    BY <1>8
  <2>2. QED
    BY <1>4, <1>5, <2>1 DEF Named
<1>13. RET \in DOMAIN e2 => k + 1 = Len(a.body) + 1
  <2>1. k # Len(a.body) + 1
    BY ASTIs
  <2>2. QED
    BY <1>2, <1>6, <2>1 DEF Named, x
<1>14. count + 1 \in Nat /\ count + 1 >= Len(a.params)
  BY <1>8, ASTIs
<1>15. Named(a, k + 1, e2, count + 1)
  BY <1>3, <1>9, <1>10, <1>11, <1>12, <1>13, <1>14 DEF Named
<1>16. QED
  BY <1>1, <1>15 DEF e2, x

Converted(st, cells) ==
  [op |-> st.op, dst |-> cells[st.name],
   src |-> [j \in DOMAIN st.src |-> convert_operand(cells, st.src[j])]]

LEMMA OperandConverted ==
  ASSUME NEW o \in SourceOperand, NEW cells, DOMAIN o = {"id"} => cells[o.id] \in Nat
  PROVE  /\ convert_operand(cells, o) \in Operand
         /\ \A c : convert_operand(cells, o) = Mem(c) => DOMAIN o = {"id"} /\ c = cells[o.id]
<1>1. CASE o \in [id : STRING]
  BY <1>1, MemIs DEF convert_operand
<1>2. CASE o \in [const : Int]
  BY <1>2 DEF convert_operand, Operand, Mem
<1>3. QED
  BY <1>1, <1>2 DEF SourceOperand

\* What an initialised name is converted to has a value.
LEMMA InitialisedCell ==
  ASSUME ast \in ASTs, ConvertInv, i \in 1 .. Len(ast.body), NEW x \in Initialised(ast, i)
  PROVE  /\ x \in DOMAIN env /\ env[x] \in Nat
         /\ env[x] \in (0 .. ParamCount - 1) \cup Dsts(new_instrs)
<1>1. x \in DOMAIN env /\ env[x] \in Nat
  BY DeclaredNext DEF ConvertInv, Named
<1>2. CASE x \in Range(ast.params)
  <2>1. PICK j \in 1 .. Len(ast.params) : x = ast.params[j]
    BY <1>2, ASTIs DEF Range
  <2>2. env[x] = j - 1
    BY <2>1 DEF ConvertInv, Named
  <2>3. QED
    BY <1>1, <2>2, ASTIs DEF ParamCount
<1>3. CASE x \notin Range(ast.params)
  <2>1. PICK q \in 1 .. i - 1 : ast.body[q].op # NoInit /\ x = ast.body[q].name
    BY <1>3 DEF Initialised
  <2>2. QED
    BY <1>1, <2>1 DEF ConvertInv
<1>4. QED
  BY <1>2, <1>3

LEMMA StatementConverted ==
  ASSUME ast \in ASTs, ConvertInv, i \in 1 .. Len(ast.body), ast.body[i].op # NoInit,
         NEW cells, \A x \in DOMAIN env : cells[x] = env[x], cells[ast.body[i].name] \in Nat
  PROVE  /\ Converted(ast.body[i], cells) \in Instruction
         /\ ReadCells(Converted(ast.body[i], cells))
              \subseteq (0 .. ParamCount - 1) \cup Dsts(new_instrs)
<1> DEFINE st == ast.body[i]
           src == [j \in DOMAIN st.src |-> convert_operand(cells, st.src[j])]
<1>1. st.src \in Seq(SourceOperand) /\ st.op \in STRING
  BY ASTIs DEF StatementOk, SourceOperand
<1>2. Len(st.src) \in Nat /\ DOMAIN st.src = 1 .. Len(st.src)
      /\ \A j \in 1 .. Len(st.src) : st.src[j] \in SourceOperand
  BY <1>1, SeqIs
<1>3. ASSUME NEW j \in 1 .. Len(st.src)
      PROVE  DOMAIN st.src[j] = {"id"} => st.src[j].id \in Initialised(ast, i)
  <2>1. st.src[j] \in Range(st.src)
    BY <1>2 DEF Range
  <2>2. StatementOk(ast, i)
    BY ASTIs
  <2>3. QED
    BY <2>1, <2>2 DEF StatementOk
<1>4. ASSUME NEW j \in 1 .. Len(st.src)
      PROVE  /\ src[j] \in Operand
             /\ \A c : src[j] = Mem(c) => c \in (0 .. ParamCount - 1) \cup Dsts(new_instrs)
  <2>1. st.src[j] \in SourceOperand /\ src[j] = convert_operand(cells, st.src[j])
    BY <1>2
  <2>2. DOMAIN st.src[j] = {"id"} =>
          /\ cells[st.src[j].id] = env[st.src[j].id]
          /\ env[st.src[j].id] \in Nat
          /\ env[st.src[j].id] \in (0 .. ParamCount - 1) \cup Dsts(new_instrs)
    BY <1>3, InitialisedCell
  <2>3. QED
    BY <2>1, <2>2, OperandConverted
<1>5. src \in Seq(Operand) /\ DOMAIN src = 1 .. Len(st.src) /\ Len(src) = Len(st.src)
  <2>1. DOMAIN src = 1 .. Len(st.src) /\ src = [j \in 1 .. Len(st.src) |-> src[j]]
    BY <1>2
  <2> HIDE DEF src
  <2>2. QED
    BY <1>2, <1>4, <2>1, ListIsSeq
<1> HIDE DEF src
<1>6. Converted(st, cells) = [op |-> st.op, dst |-> cells[st.name], src |-> src]
  BY DEF Converted, src
<1>7. Converted(st, cells) \in Instruction
  <2>1. st.op = "MOV" => Len(st.src) > 0
    BY <1>2, ASTIs DEF StatementOk
  <2>2. QED
    BY <1>1, <1>5, <1>6, <2>1 DEF Instruction
<1>8. ReadCells(Converted(st, cells)) \subseteq (0 .. ParamCount - 1) \cup Dsts(new_instrs)
  BY <1>4, <1>5, <1>6 DEF ReadCells, Range
<1>9. QED
  BY <1>7, <1>8

LEMMA FInvInit == FInit => FInv
<1> SUFFICES ASSUME FInit PROVE FInv
  OBVIOUS
<1>1. ast \in ASTs /\ pass = "convert" /\ i = 1 /\ new_instrs = <<>>
      /\ env = ParamCells(ast) /\ next_mem = Len(ast.params)
  BY DEF FInit
<1>2. Named(ast, 1, env, next_mem)
  BY <1>1, NamedInit
<1>3. /\ new_instrs \in Seq(Instruction) /\ Dsts(new_instrs) = {}
      /\ DefUse(ParamCount, new_instrs)
  <2>1. Len(new_instrs) = 0 /\ 1 .. 0 = {} /\ new_instrs \in Seq(Instruction)
    BY <1>1
  <2>2. QED
    BY <2>1 DEF Dsts, DefUse
<1>4. 1 \in 1 .. Len(ast.body) + 1 /\ 1 .. 1 - 1 = {}
  BY <1>1, ASTIs
<1>5. ConvertInv
  BY <1>1, <1>2, <1>3, <1>4 DEF ConvertInv
<1>6. QED
  BY <1>1, <1>5 DEF FInv

LEMMA ConvertStatementStep ==
  ASSUME FInv, ConvertStatement
  PROVE  FInv'
<1> DEFINE st == ast.body[i]
           cells == IF st.kind = "assign" THEN env ELSE Bind(env, st.name, next_mem)
<1>1. /\ ast \in ASTs /\ ConvertInv /\ pass = "convert" /\ pass' = "convert"
      /\ ast' = ast /\ i' = i + 1 /\ i =< Len(ast.body)
  BY DEF FInv, ConvertStatement
<1>2. /\ i \in 1 .. Len(ast.body) /\ i + 1 \in 1 .. Len(ast.body) + 1
      /\ 1 .. (i + 1) - 1 = (1 .. i - 1) \cup {i}
  BY <1>1, ASTIs DEF ConvertInv
<1>3. st.kind = "return" => st.name = RET
  BY <1>1, <1>2, ASTIs DEF StatementOk
<1>4. (IF st.kind = "return" THEN RET ELSE st.name) = st.name
  BY <1>3
<1>5. /\ env' = cells
      /\ next_mem' = IF st.kind = "assign" THEN next_mem ELSE next_mem + 1
      /\ new_instrs' = IF st.op = NoInit THEN new_instrs
                       ELSE Append(new_instrs, Converted(st, cells))
  BY <1>4, Zenon DEF ConvertStatement, Converted
<1>6. Named(ast, i + 1, cells, next_mem') /\ next_mem' \in Nat /\ next_mem' >= next_mem
      /\ next_mem \in Nat
  <2>1. Named(ast, i, env, next_mem) /\ next_mem \in Nat
    BY <1>1 DEF ConvertInv, Named
  <2>2. CASE st.kind = "assign"
    BY <1>1, <1>2, <1>5, <2>1, <2>2, NamedAssign
  <2>3. CASE st.kind # "assign"
    <3>1. Named(ast, i + 1, Bind(env, st.name, next_mem), next_mem + 1)
      BY <1>1, <1>2, <2>1, <2>3, NamedBind
    <3>2. QED
      BY <1>5, <2>1, <2>3, <3>1
  <2>4. QED
    BY <2>2, <2>3
<1>7. \A x \in DOMAIN env : cells[x] = env[x]
  <2>1. CASE st.kind = "assign"
    BY <2>1
  <2>2. CASE st.kind # "assign"
    <3>1. st.name \notin DOMAIN env
      BY <1>1, <1>2, <2>2, NamedBind DEF ConvertInv, Named
    <3>2. QED
      BY <2>2, <3>1 DEF Bind
  <2>3. QED
    BY <2>1, <2>2
<1>8. st.name \in Declared(ast, i + 1)
  BY <1>1, <1>2, DeclaredNext
<1>9. cells[st.name] \in 0 .. next_mem' - 1
  BY <1>6, <1>8 DEF Named
<1>10. /\ new_instrs \in Seq(Instruction) /\ Dsts(new_instrs) \subseteq 0 .. next_mem - 1
       /\ DefUse(ParamCount, new_instrs)
       /\ \A q \in 1 .. i - 1 : ast.body[q].op # NoInit =>
            env[ast.body[q].name] \in Dsts(new_instrs)
  BY <1>1 DEF ConvertInv
<1>11. \A q \in 1 .. i - 1 : ast.body[q].name \in DOMAIN env
  BY <1>1 DEF ConvertInv, Named, Declared
<1> HIDE DEF cells, st
<1>12. /\ new_instrs' \in Seq(Instruction) /\ Dsts(new_instrs') \subseteq 0 .. next_mem' - 1
       /\ DefUse(ParamCount, new_instrs')
       /\ st.op # NoInit => cells[st.name] \in Dsts(new_instrs')
       /\ Dsts(new_instrs) \subseteq Dsts(new_instrs')
  <2>1. CASE st.op = NoInit
    BY <1>5, <1>6, <1>10, <2>1
  <2>2. CASE st.op # NoInit
    <3> DEFINE instr == Converted(st, cells)
    <3>1. instr \in Instruction /\ ReadCells(instr) \subseteq (0 .. ParamCount - 1) \cup Dsts(new_instrs)
      BY <1>1, <1>2, <1>6, <1>7, <1>9, <2>2, StatementConverted DEF st
    <3>2. instr.dst = cells[st.name]
      BY DEF Converted
    <3> HIDE DEF instr
    <3>3. new_instrs' = Append(new_instrs, instr)
      BY <1>5, <2>2 DEF instr
    <3>4. new_instrs' \in Seq(Instruction) /\ Dsts(new_instrs') = Dsts(new_instrs) \cup {instr.dst}
      BY <1>10, <3>1, <3>3, Appended
    <3>5. DefUse(ParamCount, new_instrs')
      BY <1>10, <3>1, <3>3, DefUseAppended
    <3>6. QED
      BY <1>6, <1>9, <1>10, <3>2, <3>4, <3>5
  <2>3. QED
    BY <2>1, <2>2
<1>13. \A q \in 1 .. (i + 1) - 1 : ast.body[q].op # NoInit =>
         cells[ast.body[q].name] \in Dsts(new_instrs')
  BY <1>2, <1>7, <1>10, <1>11, <1>12 DEF st
<1>14. ConvertInv'
  BY <1>1, <1>2, <1>5, <1>6, <1>12, <1>13 DEF ConvertInv, ParamCount
<1>15. QED
  BY <1>1, <1>14 DEF FInv

LEMMA FirstAvail ==
  ASSUME NEW I \in Seq(Instruction), NEW count \in Nat, Dsts(I) \subseteq 0 .. count - 1
  PROVE  first_avail_mem(I) \in Nat /\ \A c \in Dsts(I) : c < first_avail_mem(I)
<1>1. CASE I = <<>>
  <2>1. Len(I) = 0 /\ 1 .. 0 = {}
    BY <1>1
  <2>2. Dsts(I) = {}
    BY <2>1 DEF Dsts
  <2>3. QED
    BY <1>1, <2>2 DEF first_avail_mem
<1>2. CASE I # <<>>
  <2> DEFINE below == {(count - 1) - c : c \in Dsts(I)}
  <2>1. Dsts(I) # {} /\ Dsts(I) = {I[j].dst : j \in DOMAIN I}
    <3>1. DOMAIN I = 1 .. Len(I) /\ Len(I) \in Nat
      BY InstrIs
    <3>2. 1 \in 1 .. Len(I)
      BY <1>2, <3>1
    <3>3. QED
      BY <3>1, <3>2 DEF Dsts
  <2>2. below \subseteq Nat /\ below # {}
    <3>1. \A c \in Dsts(I) : (count - 1) - c \in Nat
      OBVIOUS
    <3>2. QED
      BY <2>1, <3>1, Zenon
  <2>3. PICK b \in below : \A y \in below : b =< y
    BY <2>2, LeastNat
  <2>4. PICK m \in Dsts(I) : b = (count - 1) - m
    BY <2>3
  <2>5. \A c \in Dsts(I) : c =< m
    <3> SUFFICES ASSUME NEW c \in Dsts(I) PROVE c =< m
      OBVIOUS
    <3>1. b =< (count - 1) - c
      BY <2>3
    <3>2. c \in Nat /\ m \in Nat
      OBVIOUS
    <3>3. QED
      BY <2>4, <3>1, <3>2
  <2> DEFINE top == CHOOSE n \in {I[j].dst : j \in DOMAIN I} :
                      \A j \in DOMAIN I : I[j].dst =< n
  <2>6. top \in Dsts(I) /\ \A j \in DOMAIN I : I[j].dst =< top
    <3>1. m \in {I[j].dst : j \in DOMAIN I} /\ \A j \in DOMAIN I : I[j].dst =< m
      BY <2>1, <2>5
    <3>2. top \in {I[j].dst : j \in DOMAIN I} /\ \A j \in DOMAIN I : I[j].dst =< top
      BY <3>1
    <3>3. QED
      BY <2>1, <3>2
  <2>7. first_avail_mem(I) = 1 + top
    BY <1>2 DEF first_avail_mem
  <2> HIDE DEF top
  <2>8. \A c \in Dsts(I) : c \in Nat /\ c =< top
    BY <2>1, <2>6
  <2>9. QED
    BY <2>6, <2>7, <2>8
<1>3. QED
  BY <1>1, <1>2

\* Something is assigned that has the last input's cell, or a later one.
LEMMA SomethingAssigned ==
  ASSUME ast \in ASTs, ConvertInv, i = Len(ast.body) + 1, ast.params # <<>>
  PROVE  \E c \in Dsts(new_instrs) : c \in Nat /\ c >= ParamCount - 1
<1>1. PICK j \in 1 .. Len(ast.body) :
        /\ ast.body[j].op # NoInit
        /\ ast.body[j].name \notin {ast.params[q] : q \in 1 .. Len(ast.params) - 1}
  BY ASTsAssumption, ASTIs
<1> DEFINE x == ast.body[j].name
<1>2. j \in 1 .. i - 1
  BY ASTIs
<1>3. env[x] \in Dsts(new_instrs) /\ x \in DOMAIN env /\ env[x] \in Nat
  BY <1>1, <1>2 DEF ConvertInv, Named, Declared
<1>4. env[x] >= ParamCount - 1
  <2>1. CASE x \in Range(ast.params)
    <3>1. PICK q \in 1 .. Len(ast.params) : x = ast.params[q]
      BY <2>1, ASTIs DEF Range
    <3>2. q = Len(ast.params)
      BY <1>1, <3>1, ASTIs
    <3>3. env[x] = q - 1
      BY <3>1 DEF ConvertInv, Named
    <3>4. QED
      BY <3>2, <3>3, ASTIs DEF ParamCount
  <2>2. CASE x \notin Range(ast.params)
    <3>1. env[x] >= Len(ast.params)
      BY <1>3, <2>2 DEF ConvertInv, Named
    <3>2. QED
      BY <1>3, <3>1, ASTIs DEF ParamCount
  <2>3. QED
    BY <2>1, <2>2
<1>5. QED
  BY <1>3, <1>4

\* No instruction yet.
LEMMA NoInstr ==
  ASSUME NEW N, NEW count
  PROVE  /\ <<>> \in Seq(Instruction) /\ Len(<<>>) = 0 /\ 1 .. 0 = {}
         /\ Dsts(<<>>) = {} /\ DefUse(N, <<>>) /\ OneDef(N, <<>>, count)
<1>1. Len(<<>>) = 0 /\ 1 .. 0 = {} /\ <<>> \in Seq(Instruction)
  OBVIOUS
<1>2. QED
  BY <1>1 DEF Dsts, DefUse, OneDef

LEMMA EndConvertStep ==
  ASSUME FInv, EndConvert
  PROVE  FInv'
<1>1. /\ ast \in ASTs /\ ConvertInv /\ pass = "convert" /\ pass' = "to_SSA"
      /\ ast' = ast /\ i' = 1 /\ i > Len(ast.body) /\ env' = Empty
      /\ written' = 0 .. Len(ast.params) - 1 /\ next_mem' = first_avail_mem(new_instrs)
      /\ new_instrs' = <<>> /\ outputs' = outputs
      /\ ir' = [instrs |-> new_instrs, inputs |-> InputsOf(ast),
                outputs |-> outputs, memory_count |-> next_mem]
  BY DEF FInv, EndConvert, InputsOf
<1>2. i = Len(ast.body) + 1
  <2>1. i \in 1 .. Len(ast.body) + 1 /\ i > Len(ast.body) /\ Len(ast.body) \in Nat
    BY <1>1, ASTIs DEF ConvertInv
  <2>2. QED
    BY <2>1
<1>3. /\ new_instrs \in Seq(Instruction) /\ Dsts(new_instrs) \subseteq 0 .. next_mem - 1
      /\ DefUse(ParamCount, new_instrs) /\ next_mem \in Nat
  BY <1>1 DEF ConvertInv, Named
<1>4. /\ ir'.instrs = new_instrs /\ ir'.memory_count = next_mem /\ ParamCount' = ParamCount
      /\ DOMAIN ir' = Fields /\ ir'.inputs = InputsOf(ast)' /\ ir'.outputs = outputs'
  BY <1>1 DEF ParamCount, Fields, InputsOf
<1>5. next_mem' \in Nat /\ \A c \in Dsts(new_instrs) : c < next_mem'
  BY <1>1, <1>3, FirstAvail
<1>6. next_mem' >= ParamCount
  <2>1. CASE ast.params = <<>>
    BY <1>5, <2>1 DEF ParamCount
  <2>2. CASE ast.params # <<>>
    <3>1. PICK c \in Dsts(new_instrs) : c \in Nat /\ c >= ParamCount - 1
      BY <1>1, <1>2, <2>2, SomethingAssigned
    <3>2. QED
      BY <1>1, <1>5, <3>1, ASTIs DEF ParamCount
  <2>3. QED
    BY <2>1, <2>2
<1>7. 1 \in 1 .. Len(new_instrs) + 1
  BY <1>3, InstrIs
<1>8. Avail(ParamCount, new_instrs, 1) = 0 .. ParamCount - 1
  <2>1. 1 .. 1 - 1 = {}
    OBVIOUS
  <2>2. QED
    BY <2>1 DEF Avail
<1>9. SSAInv'
  <2>1. DOMAIN env' = {}
    BY <1>1 DEF Empty
  <2>2. written' = (0 .. ParamCount - 1) \cup Dsts(new_instrs')
    BY <1>1, NoInstr DEF ParamCount
  <2>3. /\ new_instrs' \in Seq(Instruction) /\ OneDef(ParamCount, new_instrs', next_mem')
        /\ DefUse(ParamCount, new_instrs')
    BY <1>1, NoInstr
  <2>4. \A c \in Avail(ParamCount, new_instrs, 1) : c \in written'
    BY <1>8, <2>2
  <2>5. QED
    BY <1>1, <1>3, <1>4, <1>5, <1>6, <1>7, <2>1, <2>2, <2>3, <2>4 DEF SSAInv
<1>10. QED
  BY <1>1, <1>3, <1>4, <1>9 DEF FInv

-----------------------------------------------------------------------------
(***************************************************************************)
(* to_SSA.                                                                 *)
(***************************************************************************)
\* What update_src makes of the operands of an instruction.
LEMMA UpdatedIs ==
  ASSUME NEW src \in Seq(Operand), \A c \in DOMAIN env : env[c] \in Operand
  PROVE  /\ Updated(src) \in Seq(Operand) /\ Len(Updated(src)) = Len(src)
         /\ \A d \in Nat : Mem(d) \in Range(Updated(src)) =>
              \E c \in Nat : /\ Mem(c) \in Range(src)
                             /\ IF c \in DOMAIN env THEN env[c] = Mem(d) ELSE c = d
<1>1. Len(src) \in Nat /\ DOMAIN src = 1 .. Len(src) /\ \A j \in 1 .. Len(src) : src[j] \in Operand
  BY SeqIs
<1> DEFINE new == Updated(src)
<1>2. /\ DOMAIN new = 1 .. Len(src) /\ new = [j \in 1 .. Len(src) |-> new[j]]
      /\ \A j \in 1 .. Len(src) : new[j] = update_src(src[j])
  BY <1>1 DEF Updated
<1>3. \A j \in 1 .. Len(src) : new[j] \in Operand
  BY <1>1, <1>2 DEF update_src
<1> HIDE DEF new
<1>4. new \in Seq(Operand) /\ Len(new) = Len(src)
  BY <1>1, <1>2, <1>3, ListIsSeq
<1>5. ASSUME NEW d \in Nat, Mem(d) \in Range(new)
      PROVE  \E c \in Nat : /\ Mem(c) \in Range(src)
                            /\ IF c \in DOMAIN env THEN env[c] = Mem(d) ELSE c = d
  <2>1. PICK j \in 1 .. Len(src) : update_src(src[j]) = Mem(d)
    BY <1>2, <1>5 DEF Range
  <2>2. src[j] \in Range(src) /\ src[j] \in Operand
    BY <1>1 DEF Range
  <2>3. CASE IsMem(src[j])
    <3> DEFINE c == src[j].mem
    <3>1. c \in Nat /\ src[j] = Mem(c)
      BY <2>2, <2>3, OperandIs
    <3>2. IF c \in DOMAIN env THEN env[c] = Mem(d) ELSE src[j] = Mem(d)
      BY <2>1, <2>3 DEF update_src
    <3> HIDE DEF c
    <3>3. IF c \in DOMAIN env THEN env[c] = Mem(d) ELSE c = d
      BY <3>1, <3>2, MemIs
    <3>4. QED
      BY <2>2, <3>1, <3>3
  <2>4. CASE ~ IsMem(src[j])
    BY <2>1, <2>2, <2>4, OperandIs DEF update_src
  <2>5. QED
    BY <2>3, <2>4
<1>6. QED
  BY <1>4, <1>5 DEF new

LEMMA AvailNext ==
  ASSUME NEW N, NEW I \in Seq(Instruction), NEW k \in 1 .. Len(I)
  PROVE  Avail(N, I, k + 1) = Avail(N, I, k) \cup {I[k].dst}
<1>1. 1 .. (k + 1) - 1 = (1 .. k - 1) \cup {k}
  BY InstrIs
<1>2. QED
  BY <1>1 DEF Avail

LEMMA SSAInstrStep ==
  ASSUME FInv, SSAInstr
  PROVE  FInv'
<1> DEFINE N == ParamCount
           I == ir.instrs
           instr == I[i]
           dst == IF instr.dst \in written THEN next_mem ELSE instr.dst
           new == [op |-> instr.op, dst |-> dst, src |-> Updated(instr.src)]
<1>1. /\ ast \in ASTs /\ SSAInv /\ pass = "to_SSA" /\ pass' = "to_SSA"
      /\ ast' = ast /\ i' = i + 1 /\ i =< Len(I) /\ ir' = ir /\ outputs' = outputs
      /\ I \in Seq(Instruction) /\ ir.memory_count \in Nat
      /\ DOMAIN ir = Fields /\ ir.inputs = InputsOf(ast) /\ ir.outputs = outputs
  BY DEF FInv, SSAInstr
<1>2. /\ env' = IF instr.dst \in written THEN Bind(env, instr.dst, Mem(next_mem)) ELSE env
      /\ next_mem' = IF instr.dst \in written THEN next_mem + 1 ELSE next_mem
      /\ written' = written \cup {dst}
      /\ new_instrs' = Append(new_instrs, new)
  BY Zenon DEF SSAInstr, Rewritten
<1>3. N \in Nat /\ i \in 1 .. Len(I) /\ i + 1 \in 1 .. Len(I) + 1
  BY <1>1, ASTIs, InstrIs DEF SSAInv, ParamCount
<1>4. /\ instr \in Instruction /\ instr.dst \in Nat /\ instr.op \in STRING
      /\ instr.src \in Seq(Operand) /\ (instr.op = "MOV" => Len(instr.src) > 0)
  BY <1>1, <1>3, InstrIs, InstructionIs
<1>5. /\ next_mem \in Nat /\ next_mem >= N
      /\ \A c \in Dsts(I) : c < next_mem
      /\ DefUse(N, I)
      /\ new_instrs \in Seq(Instruction)
      /\ OneDef(N, new_instrs, next_mem)
      /\ DefUse(N, new_instrs)
      /\ written = (0 .. N - 1) \cup Dsts(new_instrs)
      /\ \A c \in DOMAIN env : \E d \in written : env[c] = Mem(d)
      /\ \A c \in Avail(N, I, i) : c \in DOMAIN env \/ c \in written
  BY <1>1 DEF SSAInv
<1>6. \A c \in Dsts(new_instrs) : c \in N .. next_mem - 1
  BY <1>5 DEF OneDef, Dsts
<1>7. \A d \in written : d \in Nat
  BY <1>3, <1>5, <1>6
<1>8. \A c \in DOMAIN env : env[c] \in Operand
  BY <1>5, <1>7, MemIs
<1>9. Updated(instr.src) \in Seq(Operand) /\ Len(Updated(instr.src)) = Len(instr.src)
  BY <1>4, <1>8, UpdatedIs
<1>10. ASSUME NEW d \in Nat, Mem(d) \in Range(Updated(instr.src))
       PROVE  d \in written
  <2>1. PICK c \in Nat : /\ Mem(c) \in Range(instr.src)
                         /\ IF c \in DOMAIN env THEN env[c] = Mem(d) ELSE c = d
    BY <1>4, <1>8, <1>10, UpdatedIs
  <2>2. c \in Avail(N, I, i)
    BY <1>3, <1>5, <2>1 DEF DefUse, ReadCells
  <2>3. CASE c \in DOMAIN env
    <3>1. PICK e \in written : env[c] = Mem(e)
      BY <1>5, <2>3
    <3>2. e = d
      BY <2>1, <2>3, <3>1, MemIs
    <3>3. QED
      BY <3>2
  <2>4. CASE c \notin DOMAIN env
    BY <1>5, <2>1, <2>2, <2>4
  <2>5. QED
    BY <2>3, <2>4
<1>11. instr.dst \in Dsts(I)
  BY <1>3 DEF Dsts
<1>12. /\ dst \in N .. next_mem' - 1 /\ dst \notin Dsts(new_instrs)
       /\ next_mem' \in Nat /\ next_mem' >= next_mem /\ dst \in Nat
  <2>1. CASE instr.dst \in written
    <3>1. dst = next_mem /\ next_mem' = next_mem + 1
      BY <1>2, <2>1
    <3>2. QED
      BY <1>3, <1>5, <1>6, <3>1
  <2>2. CASE instr.dst \notin written
    <3>1. dst = instr.dst /\ next_mem' = next_mem
      BY <1>2, <2>2
    <3>2. dst < next_mem /\ dst \notin 0 .. N - 1 /\ dst \notin Dsts(new_instrs)
      BY <1>5, <1>11, <2>2, <3>1
    <3>3. QED
      BY <1>3, <1>4, <1>5, <3>1, <3>2
  <2>3. QED
    BY <2>1, <2>2
<1>13. new \in Instruction /\ new.dst = dst
  BY <1>4, <1>9, <1>12 DEF Instruction
<1>14. ReadCells(new) \subseteq (0 .. N - 1) \cup Dsts(new_instrs)
  BY <1>5, <1>10 DEF ReadCells
<1>15. instr.dst \in DOMAIN env' \/ instr.dst \in written'
  BY <1>2 DEF Bind
<1>16. DOMAIN env \subseteq DOMAIN env' /\ \A c \in DOMAIN env' : c \in DOMAIN env \/ c = instr.dst
  BY <1>2 DEF Bind
<1>17. \A c \in DOMAIN env' : \E d \in written' : env'[c] = Mem(d)
  <2>1. CASE instr.dst \in written
    <3>1. dst = next_mem /\ dst \in written'
      BY <1>2, <2>1
    <3>2. env' = Bind(env, instr.dst, Mem(dst)) /\ written \subseteq written'
      BY <1>2, <2>1, <3>1
    <3> HIDE DEF dst, instr
    <3>3. QED
      BY <1>5, <3>1, <3>2 DEF Bind
  <2>2. CASE instr.dst \notin written
    BY <1>2, <1>5, <2>2
  <2>3. QED
    BY <2>1, <2>2
<1>18. Avail(N, I, i + 1) = Avail(N, I, i) \cup {instr.dst}
  BY <1>1, <1>3, AvailNext
<1> HIDE DEF new, dst, instr, I, N
<1>19. new_instrs' \in Seq(Instruction) /\ Dsts(new_instrs') = Dsts(new_instrs) \cup {dst}
  BY <1>2, <1>5, <1>13, Appended
<1>20. DefUse(N, new_instrs')
  BY <1>2, <1>5, <1>13, <1>14, DefUseAppended
<1>21. OneDef(N, new_instrs', next_mem')
  <2>1. /\ next_mem \in Int /\ next_mem' \in Int /\ N \in Int /\ next_mem' >= next_mem
        /\ new.dst \in N .. next_mem' - 1 /\ new.dst \notin Dsts(new_instrs)
    <3>1. next_mem \in Int /\ next_mem' \in Int /\ N \in Int /\ next_mem' >= next_mem
      BY <1>3, <1>5, <1>12
    <3>2. QED
      BY <1>12, <1>13, <3>1, Zenon
  <2>2. OneDef(N, Append(new_instrs, new), next_mem')
    BY <1>5, <1>13, <2>1, OneDefAppended, Zenon
  <2>3. QED
    BY <1>2, <2>2
<1>22. written' = (0 .. N - 1) \cup Dsts(new_instrs')
  BY <1>2, <1>5, <1>19
<1>23. \A c \in Avail(N, I, i + 1) : c \in DOMAIN env' \/ c \in written'
  BY <1>2, <1>5, <1>15, <1>16, <1>18
<1>24. next_mem' >= N /\ \A c \in Dsts(I) : c < next_mem'
  <2>1. \A c \in Dsts(I) : c \in Nat
    BY <1>1, InstrIs DEF Dsts, I
  <2>2. QED
    BY <1>3, <1>5, <1>12, <2>1
<1>25. ParamCount' = N /\ ir'.instrs = I
  BY <1>1 DEF ParamCount, N, I
<1>26. SSAInv'
  BY <1>1, <1>3, <1>5, <1>12, <1>17, <1>19, <1>20, <1>21, <1>22, <1>23, <1>24, <1>25 DEF SSAInv
<1>27. QED
  BY <1>1, <1>26 DEF FInv, I

LEMMA EndSSAStep ==
  ASSUME FInv, EndSSA
  PROVE  FInv'
<1> DEFINE N == ParamCount
<1>1. /\ ast \in ASTs /\ SSAInv /\ pass = "to_SSA" /\ pass' = "propagate_copy"
      /\ ast' = ast /\ i' = 1 /\ env' = Empty /\ new_instrs' = <<>>
      /\ DOMAIN ir = Fields /\ ir.inputs = InputsOf(ast) /\ ir.outputs = outputs
      /\ outputs' = Updated(ir.outputs)
      /\ ir' = [ir EXCEPT !.instrs = new_instrs, !.outputs = Updated(ir.outputs),
                          !.memory_count = next_mem]
  BY DEF FInv, EndSSA
<1>2. DOMAIN ir' = Fields /\ ir'.inputs = InputsOf(ast) /\ ir'.outputs = outputs'
  BY <1>1, ProgramChanged
<1>3. ir'.instrs = new_instrs /\ ir'.memory_count = next_mem /\ ParamCount' = N
  BY <1>1, ProgramChanged DEF ParamCount
<1>4. /\ next_mem \in Nat /\ next_mem >= N /\ new_instrs \in Seq(Instruction)
      /\ OneDef(N, new_instrs, next_mem) /\ DefUse(N, new_instrs)
  BY <1>1 DEF SSAInv
<1>5. 1 \in 1 .. Len(new_instrs) + 1 /\ 1 .. 1 - 1 = {}
  BY <1>4, InstrIs
<1> HIDE DEF N
<1>6. /\ new_instrs' \in Seq(Instruction) /\ OneDef(N, new_instrs', next_mem)
      /\ DefUse(N, new_instrs') /\ Dsts(new_instrs') = {} /\ 1 .. Len(new_instrs') = {}
  BY <1>1, NoInstr
<1>7. DOMAIN env' = {}
  BY <1>1 DEF Empty
<1>8. CopyInv'
  BY <1>1, <1>3, <1>4, <1>5, <1>6, <1>7 DEF CopyInv
<1>9. QED
  BY <1>1, <1>2, <1>3, <1>4, <1>8 DEF FInv

-----------------------------------------------------------------------------
(***************************************************************************)
(* propagate_copy.                                                         *)
(***************************************************************************)
\* The instruction that stays has its own destination and reads originals.
LEMMA CopyOperands ==
  ASSUME ast \in ASTs, CopyInv, ir.instrs \in Seq(Instruction), i \in 1 .. Len(ir.instrs)
  PROVE  LET src == Updated(ir.instrs[i].src) IN
         /\ src \in Seq(Operand) /\ Len(src) = Len(ir.instrs[i].src)
         /\ \A d \in Nat : Mem(d) \in Range(src) =>
              d \notin DOMAIN env /\ d \in (0 .. ParamCount - 1) \cup Dsts(new_instrs)
<1> DEFINE I == ir.instrs
           src == Updated(I[i].src)
<1>1. I[i].src \in Seq(Operand) /\ \A c \in DOMAIN env : env[c] \in Operand
  BY InstrIs DEF CopyInv
<1>2. src \in Seq(Operand) /\ Len(src) = Len(I[i].src)
  BY <1>1, UpdatedIs
<1>3. ASSUME NEW d \in Nat, Mem(d) \in Range(src)
      PROVE  d \notin DOMAIN env /\ d \in (0 .. ParamCount - 1) \cup Dsts(new_instrs)
  <2>1. PICK c \in Nat : /\ Mem(c) \in Range(I[i].src)
                         /\ IF c \in DOMAIN env THEN env[c] = Mem(d) ELSE c = d
    BY <1>1, <1>3, UpdatedIs
  <2>2. CASE c \in DOMAIN env
    BY <2>1, <2>2 DEF CopyInv
  <2>3. CASE c \notin DOMAIN env
    <3>1. c = d /\ c \in Avail(ParamCount, I, i)
      BY <2>1, <2>3 DEF CopyInv, DefUse, ReadCells
    <3>2. QED
      BY <2>3, <3>1 DEF CopyInv, Avail
  <2>4. QED
    BY <2>2, <2>3
<1>4. QED
  BY <1>2, <1>3

\* It writes a cell that nothing before it knows of.
LEMMA CopyTarget ==
  ASSUME ast \in ASTs, CopyInv, ir.instrs \in Seq(Instruction), i \in 1 .. Len(ir.instrs)
  PROVE  ir.instrs[i].dst \notin (0 .. ParamCount - 1) \cup Dsts(new_instrs)
<1> DEFINE I == ir.instrs
<1>1. ParamCount \in Nat /\ ir.memory_count >= ParamCount
      /\ OneDef(ParamCount, I, ir.memory_count)
      /\ Dsts(new_instrs) \subseteq {I[q].dst : q \in 1 .. i - 1}
  BY ASTIs DEF CopyInv, ParamCount
<1>2. I[i].dst \notin 0 .. ParamCount - 1
  <2>1. I[i].dst \in ParamCount .. ir.memory_count - 1
    BY <1>1 DEF OneDef
  <2>2. QED
    BY <1>1, <2>1
<1>3. \A q \in 1 .. i - 1 : q \in 1 .. Len(I) /\ q # i
  BY InstrIs
<1>4. QED
  BY <1>1, <1>2, <1>3 DEF OneDef

LEMMA CopyInstrStep ==
  ASSUME FInv, CopyInstr
  PROVE  FInv'
<1> DEFINE N == ParamCount
           I == ir.instrs
           instr == I[i]
           src == Updated(instr.src)
           new == [instr EXCEPT !.src = src]
           copy == instr.op = "MOV" /\ i # Len(I)
           known == (0 .. N - 1) \cup Dsts(new_instrs)
<1>1. /\ ast \in ASTs /\ CopyInv /\ pass = "propagate_copy" /\ pass' = "propagate_copy"
      /\ ast' = ast /\ i' = i + 1 /\ i =< Len(I) /\ ir' = ir /\ outputs' = outputs
      /\ I \in Seq(Instruction) /\ ir.memory_count \in Nat
      /\ DOMAIN ir = Fields /\ ir.inputs = InputsOf(ast) /\ ir.outputs = outputs
  BY DEF FInv, CopyInstr
<1>2. /\ env' = IF copy THEN Bind(env, instr.dst, src[1]) ELSE env
      /\ new_instrs' = IF DroppedCopy(instr) THEN new_instrs ELSE Append(new_instrs, new)
      /\ DroppedCopy(instr) => copy
  BY Zenon DEF CopyInstr, DroppedCopy
<1>3. N \in Nat /\ i \in 1 .. Len(I) /\ i + 1 \in 1 .. Len(I) + 1
      /\ 1 .. (i + 1) - 1 = (1 .. i - 1) \cup {i}
  BY <1>1, ASTIs, InstrIs DEF CopyInv, ParamCount
<1>4. /\ instr \in Instruction /\ instr.dst \in Nat /\ instr.op \in STRING
      /\ instr.src \in Seq(Operand) /\ (instr.op = "MOV" => Len(instr.src) > 0)
      /\ instr = [op |-> instr.op, dst |-> instr.dst, src |-> instr.src]
  BY <1>1, <1>3, InstrIs, InstructionIs
<1>5. /\ src \in Seq(Operand) /\ Len(src) = Len(instr.src)
      /\ \A d \in Nat : Mem(d) \in Range(src) => d \notin DOMAIN env /\ d \in known
  BY <1>1, <1>3, CopyOperands
<1>6. instr.dst \notin known
  BY <1>1, <1>3, CopyTarget
<1>7. /\ OneDef(N, I, ir.memory_count) /\ DefUse(N, I) /\ ir.memory_count >= N
      /\ new_instrs \in Seq(Instruction)
      /\ OneDef(N, new_instrs, ir.memory_count) /\ DefUse(N, new_instrs)
      /\ DOMAIN env = {I[q].dst : q \in {q \in 1 .. i - 1 : I[q].op = "MOV" /\ q # Len(I)}}
      /\ \A c \in DOMAIN env : env[c] \in Operand
      /\ \A c \in DOMAIN env : \A d \in Nat : env[c] = Mem(d) => d \notin DOMAIN env /\ d \in known
      /\ \A j \in 1 .. Len(new_instrs) : ReadCells(new_instrs[j]) \cap DOMAIN env = {}
      /\ \A q \in 1 .. i - 1 : I[q].dst \in DOMAIN env \cup Dsts(new_instrs)
      /\ Dsts(new_instrs) \subseteq {I[q].dst : q \in 1 .. i - 1}
      /\ \A j \in 1 .. Len(new_instrs) : new_instrs[j].op = "MOV" =>
           \/ new_instrs[j].dst \in DOMAIN env
           \/ i > Len(I) /\ j = Len(new_instrs)
  BY <1>1 DEF CopyInv
<1>8. new = [op |-> instr.op, dst |-> instr.dst, src |-> src] /\ new.dst = instr.dst
      /\ new.op = instr.op /\ new.src = src
  BY <1>4
<1>9. copy => src[1] \in Operand /\ src[1] \in Range(src)
  <2>1. Len(src) \in Nat /\ DOMAIN src = 1 .. Len(src) /\ \A q \in 1 .. Len(src) : src[q] \in Operand
    BY <1>5, SeqIs
  <2>2. copy => 1 \in 1 .. Len(src)
    BY <1>4, <1>5, <2>1
  <2> HIDE DEF src, copy
  <2>3. QED
    BY <2>1, <2>2 DEF Range
<1>10. instr.dst \in N .. ir.memory_count - 1
  BY <1>3, <1>7 DEF OneDef
<1>11. new \in Instruction
  BY <1>4, <1>5, <1>8 DEF Instruction
<1>12. ReadCells(new) \subseteq known /\ ReadCells(new) \cap DOMAIN env = {}
  BY <1>5, <1>8 DEF ReadCells
<1>13. DOMAIN env' = DOMAIN env \cup (IF copy THEN {instr.dst} ELSE {})
  BY <1>2 DEF Bind
<1>14. \A c \in DOMAIN env' : IF copy /\ c = instr.dst THEN env'[c] = src[1] ELSE
                              c \in DOMAIN env /\ env'[c] = env[c]
  BY <1>2 DEF Bind
<1>15. DOMAIN env' = {I[q].dst : q \in {q \in 1 .. (i + 1) - 1 : I[q].op = "MOV" /\ q # Len(I)}}
  BY <1>3, <1>7, <1>13
<1> HIDE DEF copy, new, src, instr, I, N, known
<1>16. \A c \in DOMAIN env' : env'[c] \in Operand
  BY <1>7, <1>9, <1>14
<1>17. /\ new_instrs' \in Seq(Instruction) /\ OneDef(N, new_instrs', ir.memory_count)
       /\ DefUse(N, new_instrs')
       /\ Dsts(new_instrs') = Dsts(new_instrs) \cup (IF DroppedCopy(instr) THEN {} ELSE {instr.dst})
  <2>1. CASE DroppedCopy(instr)
    BY <1>2, <1>7, <2>1
  <2>2. CASE ~ DroppedCopy(instr)
    <3>1. new_instrs' = Append(new_instrs, new)
      BY <1>2, <2>2
    <3>2. new_instrs' \in Seq(Instruction) /\ Dsts(new_instrs') = Dsts(new_instrs) \cup {instr.dst}
      BY <1>7, <1>8, <1>11, <3>1, Appended
    <3>3. DefUse(N, new_instrs')
      BY <1>7, <1>11, <1>12, <3>1, DefUseAppended DEF known
    <3>4. /\ ir.memory_count \in Int /\ N \in Int /\ ir.memory_count >= ir.memory_count
          /\ new.dst \in N .. ir.memory_count - 1 /\ new.dst \notin Dsts(new_instrs)
      BY <1>1, <1>3, <1>6, <1>8, <1>10 DEF known
    <3>5. OneDef(N, Append(new_instrs, new), ir.memory_count)
      BY <1>7, <1>11, <3>4, OneDefAppended, Zenon
    <3>6. QED
      BY <2>2, <3>1, <3>2, <3>3, <3>5
  <2>3. QED
    BY <2>1, <2>2
<1>18. known \subseteq (0 .. N - 1) \cup Dsts(new_instrs')
  BY <1>17 DEF known
<1>19. \A c \in DOMAIN env' : \A d \in Nat : env'[c] = Mem(d) =>
         d \notin DOMAIN env' /\ d \in (0 .. N - 1) \cup Dsts(new_instrs')
  <2> SUFFICES ASSUME NEW c \in DOMAIN env', NEW d \in Nat, env'[c] = Mem(d)
               PROVE  d \notin DOMAIN env /\ d \in known
    BY <1>6, <1>13, <1>18
  <2>1. CASE copy /\ c = instr.dst
    BY <1>5, <1>9, <1>14, <2>1
  <2>2. CASE ~ (copy /\ c = instr.dst)
    BY <1>7, <1>14, <2>2
  <2>3. QED
    BY <2>1, <2>2
<1>20. \A j \in 1 .. Len(new_instrs) : ReadCells(new_instrs[j]) \subseteq known
  <2> SUFFICES ASSUME NEW j \in 1 .. Len(new_instrs)
               PROVE  Avail(N, new_instrs, j) \subseteq known
    BY <1>7 DEF DefUse
  <2>1. 1 .. j - 1 \subseteq 1 .. Len(new_instrs)
    BY <1>7, InstrIs
  <2>2. QED
    BY <2>1 DEF Avail, known, Dsts
<1>21. /\ \A j \in 1 .. Len(new_instrs) : ReadCells(new_instrs[j]) \cap DOMAIN env' = {}
       /\ ReadCells(new) \cap DOMAIN env' = {}
  BY <1>6, <1>7, <1>12, <1>13, <1>20
<1>22. /\ \A j \in 1 .. Len(new_instrs') : ReadCells(new_instrs'[j]) \cap DOMAIN env' = {}
       /\ \A j \in 1 .. Len(new_instrs') : new_instrs'[j].op = "MOV" =>
            \/ new_instrs'[j].dst \in DOMAIN env'
            \/ i + 1 > Len(I) /\ j = Len(new_instrs')
  <2>1. \A j \in 1 .. Len(new_instrs) : new_instrs[j].op = "MOV" =>
          new_instrs[j].dst \in DOMAIN env'
    <3>1. ~ (i > Len(I)) /\ DOMAIN env \subseteq DOMAIN env'
      BY <1>1, <1>3, <1>13, InstrIs
    <3>2. \A j \in 1 .. Len(new_instrs) : new_instrs[j].op = "MOV" =>
            new_instrs[j].dst \in DOMAIN env \/ i > Len(I)
      BY <1>7
    <3>3. QED
      BY <3>1, <3>2
  <2>2. CASE DroppedCopy(instr)
    BY <1>2, <1>21, <2>1, <2>2
  <2>3. CASE ~ DroppedCopy(instr)
    <3>1. new_instrs' = Append(new_instrs, new)
      BY <1>2, <2>3
    <3>2. /\ 1 .. Len(new_instrs') = (1 .. Len(new_instrs)) \cup {Len(new_instrs')}
          /\ new_instrs'[Len(new_instrs')] = new
          /\ \A q \in 1 .. Len(new_instrs) : new_instrs'[q] = new_instrs[q]
      BY <1>7, <1>11, <3>1, Appended
    <3>3. new.op = "MOV" => new.dst \in DOMAIN env' \/ i + 1 > Len(I)
      <4>1. copy \/ new.op # "MOV" \/ i = Len(I)
        BY <1>8 DEF copy
      <4>2. i = Len(I) => i + 1 > Len(I)
        BY <1>3
      <4>3. QED
        BY <1>8, <1>13, <4>1, <4>2
    <3>4. QED
      BY <1>21, <2>1, <3>2, <3>3
  <2>4. QED
    BY <2>2, <2>3
<1>23. instr.dst \in DOMAIN env' \cup Dsts(new_instrs')
  BY <1>2, <1>13, <1>17
<1>24. \A q \in 1 .. (i + 1) - 1 : I[q].dst \in DOMAIN env' \cup Dsts(new_instrs')
  BY <1>3, <1>7, <1>13, <1>17, <1>23 DEF instr
<1>25. Dsts(new_instrs') \subseteq {I[q].dst : q \in 1 .. (i + 1) - 1}
  BY <1>3, <1>7, <1>17 DEF instr
<1>26. ParamCount' = N /\ ir'.instrs = I
  BY <1>1 DEF ParamCount, N, I
<1>27. CopyInv'
  <2>1. DOMAIN env' = {ir'.instrs[q].dst : q \in {q \in 1 .. i' - 1 :
                                          ir'.instrs[q].op = "MOV" /\ q # Len(ir'.instrs)}}
    BY <1>1, <1>15, <1>26
  <2>2. /\ \A q \in 1 .. i' - 1 : ir'.instrs[q].dst \in DOMAIN env' \cup Dsts(new_instrs')
        /\ Dsts(new_instrs') \subseteq {ir'.instrs[q].dst : q \in 1 .. i' - 1}
    BY <1>1, <1>24, <1>25, <1>26
  <2>3. /\ i' \in 1 .. Len(ir'.instrs) + 1
        /\ OneDef(ParamCount', ir'.instrs, ir'.memory_count) /\ DefUse(ParamCount', ir'.instrs)
        /\ ir'.memory_count >= ParamCount'
        /\ new_instrs' \in Seq(Instruction)
        /\ OneDef(ParamCount', new_instrs', ir'.memory_count) /\ DefUse(ParamCount', new_instrs')
    BY <1>1, <1>3, <1>7, <1>17, <1>26
  <2>4. /\ \A c \in DOMAIN env' : \A d \in Nat : env'[c] = Mem(d) =>
             d \notin DOMAIN env' /\ d \in (0 .. ParamCount' - 1) \cup Dsts(new_instrs')
        /\ \A j \in 1 .. Len(new_instrs') : new_instrs'[j].op = "MOV" =>
             \/ new_instrs'[j].dst \in DOMAIN env'
             \/ i' > Len(ir'.instrs) /\ j = Len(new_instrs')
    BY <1>1, <1>19, <1>22, <1>26
  <2>5. QED
    BY <1>16, <1>22, <2>1, <2>2, <2>3, <2>4, Zenon DEF CopyInv
<1>28. QED
  BY <1>1, <1>27 DEF FInv, I

LEMMA EndCopyStep ==
  ASSUME FInv, EndCopy
  PROVE  FInv'
<1> DEFINE N == ParamCount
           I == new_instrs
           count == ir.memory_count
<1>1. /\ ast \in ASTs /\ CopyInv /\ pass = "propagate_copy" /\ pass' = "remove_dead_code"
      /\ ast' = ast /\ i' = Len(I) /\ i > Len(ir.instrs) /\ outputs' = outputs
      /\ written' = {} /\ new_instrs' = <<>>
      /\ ir' = [ir EXCEPT !.instrs = I]
      /\ ir.instrs \in Seq(Instruction) /\ count \in Nat
      /\ DOMAIN ir = Fields /\ ir.inputs = InputsOf(ast) /\ ir.outputs = outputs
  BY DEF FInv, EndCopy
<1>2. /\ DOMAIN ir' = Fields /\ ir'.inputs = InputsOf(ast) /\ ir'.outputs = outputs'
      /\ ir'.instrs = I /\ ir'.memory_count = count /\ ParamCount' = N
  BY <1>1, ProgramChanged DEF ParamCount
<1>3. /\ I \in Seq(Instruction) /\ OneDef(N, I, count) /\ DefUse(N, I) /\ count >= N
      /\ \A j \in 1 .. Len(I) : ReadCells(I[j]) \cap DOMAIN env = {}
      /\ \A j \in 1 .. Len(I) : I[j].op = "MOV" => I[j].dst \in DOMAIN env \/ j = Len(I)
  BY <1>1 DEF CopyInv
<1>4. Len(I) \in Nat /\ Len(I) \in 0 .. Len(I)
  BY <1>3, InstrIs
<1> HIDE DEF N, I, count
<1>5. CopiesUnread(I)
  <2> SUFFICES ASSUME NEW j \in 1 .. Len(I), I[j].op = "MOV", NEW q \in j + 1 .. Len(I)
               PROVE  I[j].dst \notin ReadCells(I[q])
    BY DEF CopiesUnread
  <2>1. q \in 1 .. Len(I) /\ j # Len(I)
    BY <1>4
  <2>2. QED
    BY <1>3, <2>1
<1>6. /\ new_instrs' \in Seq(Instruction) /\ Len(new_instrs') = 0 /\ 1 .. Len(new_instrs') = {}
      /\ OneDef(N, new_instrs', count)
  BY <1>1, NoInstr
<1>7. CopiesUnread(new_instrs') /\ AllUsed(new_instrs', ir'.outputs)
  BY <1>6 DEF CopiesUnread, AllUsed
<1>8. written' = UNION {{Mem(c) : c \in ReadCells(new_instrs'[j])} : j \in 1 .. Len(new_instrs')}
  BY <1>1, <1>6
<1>9. DeadInv'
  <2>1. i' \in 0 .. Len(ir'.instrs) /\ CopiesUnread(ir'.instrs)
    BY <1>1, <1>2, <1>4, <1>5
  <2>2. /\ OneDef(ParamCount', ir'.instrs, ir'.memory_count) /\ DefUse(ParamCount', ir'.instrs)
        /\ ir'.memory_count >= ParamCount' /\ OneDef(ParamCount', new_instrs', ir'.memory_count)
    BY <1>2, <1>3, <1>6
  <2>3. QED
    BY <1>6, <1>7, <1>8, <2>1, <2>2 DEF DeadInv
<1>10. QED
  BY <1>1, <1>2, <1>3, <1>9 DEF FInv

-----------------------------------------------------------------------------
(***************************************************************************)
(* remove_dead_code.                                                       *)
(***************************************************************************)
\* One more instruction in front.
LEMMA Prepended ==
  ASSUME NEW I \in Seq(Instruction), NEW instr \in Instruction
  PROVE  LET J == <<instr>> \o I IN
         /\ J \in Seq(Instruction) /\ Len(J) = Len(I) + 1 /\ J[1] = instr
         /\ \A q \in 1 .. Len(I) : J[q + 1] = I[q] /\ q + 1 \in 1 .. Len(J)
         /\ \A j \in 1 .. Len(J) : j = 1 \/ (j - 1 \in 1 .. Len(I) /\ J[j] = I[j - 1])
<1> DEFINE J == <<instr>> \o I
<1>1. /\ J \in Seq(Instruction) /\ Len(J) = Len(I) + 1 /\ J[1] = instr /\ Len(I) \in Nat
      /\ \A q \in 1 .. Len(I) : J[q + 1] = I[q]
  BY PrependIs, InstrIs
<1> HIDE DEF J
<1>2. ASSUME NEW j \in 1 .. Len(J), j # 1
      PROVE  j - 1 \in 1 .. Len(I) /\ J[j] = I[j - 1]
  <2>1. j - 1 \in 1 .. Len(I) /\ (j - 1) + 1 = j
    BY <1>1, <1>2
  <2>2. QED
    BY <1>1, <2>1
<1>3. \A q \in 1 .. Len(I) : q + 1 \in 1 .. Len(J)
  BY <1>1
<1>4. QED
  BY <1>1, <1>2, <1>3 DEF J

LEMMA MemsRead ==
  ASSUME NEW instr \in Instruction
  PROVE  {o \in Range(instr.src) : IsMem(o)} = {Mem(c) : c \in ReadCells(instr)}
<1>1. \A o \in Range(instr.src) : o \in Operand
  BY InstructionIs, SeqIs DEF Range
<1>2. ASSUME NEW o \in Range(instr.src), IsMem(o)
      PROVE  \E c \in ReadCells(instr) : o = Mem(c)
  <2>1. o.mem \in Nat /\ o = Mem(o.mem)
    BY <1>1, <1>2, OperandIs
  <2>2. QED
    BY <2>1 DEF ReadCells
<1>3. \A c \in ReadCells(instr) : Mem(c) \in Range(instr.src) /\ IsMem(Mem(c))
  BY MemIs DEF ReadCells
<1>4. QED
  BY <1>2, <1>3

LEMMA DeadInstrStep ==
  ASSUME FInv, DeadInstr
  PROVE  FInv'
<1> DEFINE N == ParamCount
           I == ir.instrs
           J == new_instrs
           instr == I[i]
           Before(k) == {I[q].dst : q \in 1 .. k}
<1>1. /\ ast \in ASTs /\ DeadInv /\ pass = "remove_dead_code" /\ pass' = "remove_dead_code"
      /\ ast' = ast /\ i' = i - 1 /\ i > 0 /\ ir' = ir /\ outputs' = outputs
      /\ I \in Seq(Instruction) /\ ir.memory_count \in Nat
      /\ DOMAIN ir = Fields /\ ir.inputs = InputsOf(ast) /\ ir.outputs = outputs
  BY DEF FInv, DeadInstr
<1>2. /\ IsDead(instr) => new_instrs' = J /\ written' = written
      /\ ~ IsDead(instr) => /\ new_instrs' = <<instr>> \o J
                            /\ written' = written \cup {o \in Range(instr.src) : IsMem(o)}
  BY Zenon DEF DeadInstr
<1>3. /\ N \in Nat /\ i \in 1 .. Len(I) /\ i - 1 \in 0 .. Len(I) /\ Len(I) \in Nat
      /\ 1 .. i = (1 .. i - 1) \cup {i} /\ (i - 1) + 1 = i
  BY <1>1, ASTIs, InstrIs DEF DeadInv, ParamCount
<1>4. instr \in Instruction /\ instr.dst \in Nat
  BY <1>1, <1>3, InstrIs
<1>5. /\ OneDef(N, I, ir.memory_count) /\ DefUse(N, I) /\ ir.memory_count >= N
      /\ CopiesUnread(I) /\ J \in Seq(Instruction)
      /\ \A j \in 1 .. Len(J) : \E q \in i + 1 .. Len(I) : J[j] = I[q]
      /\ OneDef(N, J, ir.memory_count)
      /\ written = UNION {{Mem(c) : c \in ReadCells(J[j])} : j \in 1 .. Len(J)}
      /\ \A j \in 1 .. Len(J) : \A c \in ReadCells(J[j]) : c \in Avail(N, J, j) \cup Before(i)
      /\ CopiesUnread(J) /\ AllUsed(J, ir.outputs)
  BY <1>1 DEF DeadInv
<1>6. Before(i) = Before(i - 1) \cup {instr.dst}
  BY <1>3
<1>7. Len(J) \in Nat
  BY <1>5, InstrIs
<1>8. ParamCount' = N /\ ir'.instrs = I /\ ir'.memory_count = ir.memory_count /\ ir'.outputs = ir.outputs
  BY <1>1 DEF ParamCount
<1>9. DefUse(N, I) /\ Avail(N, I, i) = (0 .. N - 1) \cup Before(i - 1)
  BY <1>5 DEF Avail
<1> HIDE DEF instr, N, I, J, Before
<1>10. SUFFICES
         /\ new_instrs' \in Seq(Instruction)
         /\ \A j \in 1 .. Len(new_instrs') : \E q \in i .. Len(I) : new_instrs'[j] = I[q]
         /\ OneDef(N, new_instrs', ir.memory_count)
         /\ written' = UNION {{Mem(c) : c \in ReadCells(new_instrs'[j])} : j \in 1 .. Len(new_instrs')}
         /\ \A j \in 1 .. Len(new_instrs') : \A c \in ReadCells(new_instrs'[j]) :
              c \in Avail(N, new_instrs', j) \cup Before(i - 1)
         /\ CopiesUnread(new_instrs') /\ AllUsed(new_instrs', ir.outputs)
  <2> DEFINE new == new_instrs'
  <2> SUFFICES
        ASSUME /\ new \in Seq(Instruction)
               /\ \A j \in 1 .. Len(new) : \E q \in i .. Len(I) : new[j] = I[q]
               /\ OneDef(N, new, ir.memory_count)
               /\ written' = UNION {{Mem(c) : c \in ReadCells(new[j])} : j \in 1 .. Len(new)}
               /\ \A j \in 1 .. Len(new) : \A c \in ReadCells(new[j]) :
                    c \in Avail(N, new, j) \cup Before(i - 1)
               /\ CopiesUnread(new) /\ AllUsed(new, ir.outputs)
        PROVE  FInv'
    BY Zenon
  <2>1. /\ i' \in 0 .. Len(ir'.instrs)
        /\ OneDef(ParamCount', ir'.instrs, ir'.memory_count) /\ DefUse(ParamCount', ir'.instrs)
        /\ ir'.memory_count >= ParamCount' /\ CopiesUnread(ir'.instrs)
        /\ OneDef(ParamCount', new, ir'.memory_count) /\ AllUsed(new, ir'.outputs)
    BY <1>1, <1>3, <1>5, <1>8
  <2>2. \A j \in 1 .. Len(new) : \E q \in i' + 1 .. Len(ir'.instrs) : new[j] = ir'.instrs[q]
    BY <1>1, <1>3, <1>8
  <2>3. \A j \in 1 .. Len(new) : \A c \in ReadCells(new[j]) :
          c \in Avail(ParamCount', new, j) \cup {ir'.instrs[q].dst : q \in 1 .. i'}
    BY <1>1, <1>8 DEF Before
  <2>4. DeadInv'
    BY <2>1, <2>2, <2>3, Zenon DEF DeadInv
  <2>5. QED
    BY <1>1, <1>8, <2>4 DEF FInv, I
<1>11. \A q \in i + 1 .. Len(I) : q \in i .. Len(I) /\ q \in 1 .. Len(I) /\ q # i
  BY <1>3
<1>12. CASE IsDead(instr)
  <2>1. new_instrs' = J /\ written' = written /\ Mem(instr.dst) \notin written
    BY <1>2, <1>12 DEF IsDead
  <2>2. \A j \in 1 .. Len(J) : instr.dst \notin ReadCells(J[j])
    BY <1>5, <2>1
  <2>3. \A j \in 1 .. Len(J) : \A c \in ReadCells(J[j]) : c \in Avail(N, J, j) \cup Before(i - 1)
    BY <1>5, <1>6, <2>2
  <2>4. \A j \in 1 .. Len(J) : \E q \in i .. Len(I) : J[j] = I[q]
    BY <1>5, <1>11
  <2>5. QED
    BY <1>5, <2>1, <2>3, <2>4
<1>13. CASE ~ IsDead(instr)
  <2> DEFINE new == new_instrs'
  <2>1. /\ new = <<instr>> \o J /\ written' = written \cup {Mem(c) : c \in ReadCells(instr)}
        /\ Mem(instr.dst) \in written \/ Mem(instr.dst) \in Range(ir.outputs)
    BY <1>2, <1>4, <1>13, MemsRead DEF IsDead
  <2>2. /\ new \in Seq(Instruction) /\ Len(new) = Len(J) + 1 /\ new[1] = instr
        /\ \A q \in 1 .. Len(J) : new[q + 1] = J[q] /\ q + 1 \in 1 .. Len(new)
        /\ \A j \in 1 .. Len(new) : j = 1 \/ (j - 1 \in 1 .. Len(J) /\ new[j] = J[j - 1])
    BY <1>4, <1>5, <2>1, Prepended
  <2> HIDE DEF new
  <2>3. \A j \in 1 .. Len(new) : \E q \in i .. Len(I) : new[j] = I[q]
    <3> SUFFICES ASSUME NEW j \in 1 .. Len(new)
                 PROVE  \E q \in i .. Len(I) : new[j] = I[q]
      OBVIOUS
    <3>1. CASE j = 1
      <4>1. i \in i .. Len(I) /\ new[j] = I[i]
        BY <1>3, <2>2, <3>1 DEF instr
      <4>2. QED
        BY <4>1
    <3>2. CASE j # 1
      BY <1>5, <1>11, <2>2, <3>2
    <3>3. QED
      BY <3>1, <3>2
  <2>4. \A j \in 1 .. Len(J) : J[j].dst # instr.dst
    BY <1>3, <1>5, <1>11 DEF OneDef, instr
  <2>5. OneDef(N, new, ir.memory_count)
    <3>1. instr.dst \in N .. ir.memory_count - 1
      BY <1>3, <1>5 DEF OneDef, instr
    <3>2. \A j \in 1 .. Len(new) : new[j].dst \in N .. ir.memory_count - 1
      BY <1>5, <2>2, <3>1 DEF OneDef
    <3>3. ASSUME NEW j \in 1 .. Len(new), NEW q \in 1 .. Len(new), new[j].dst = new[q].dst
          PROVE  j = q
      <4> DEFINE dj == new[j].dst
                 dq == new[q].dst
      <4>1. /\ j = 1 \/ (j - 1 \in 1 .. Len(J) /\ dj = J[j - 1].dst)
            /\ q = 1 \/ (q - 1 \in 1 .. Len(J) /\ dq = J[q - 1].dst)
            /\ new[1].dst = instr.dst /\ dj = dq
        <5>1. j = 1 \/ (j - 1 \in 1 .. Len(J) /\ new[j] = J[j - 1])
          BY <2>2
        <5>2. q = 1 \/ (q - 1 \in 1 .. Len(J) /\ new[q] = J[q - 1])
          BY <2>2
        <5>3. QED
          BY <2>2, <3>3, <5>1, <5>2, Zenon
      <4>2. j = 1 => dj = instr.dst
        BY <4>1
      <4>3. q = 1 => dq = instr.dst
        BY <4>1
      <4> HIDE DEF dj, dq
      <4>4. CASE j = 1 \/ q = 1
        BY <2>4, <4>1, <4>2, <4>3, <4>4
      <4>5. CASE j # 1 /\ q # 1
        <5>1. j - 1 \in 1 .. Len(J) /\ q - 1 \in 1 .. Len(J) /\ J[j - 1].dst = J[q - 1].dst
          BY <4>1, <4>5
        <5>2. j - 1 = q - 1
          BY <1>5, <5>1 DEF OneDef
        <5>3. QED
          BY <1>7, <2>2, <5>2
      <4>6. QED
        BY <4>4, <4>5
    <3>4. QED
      BY <3>2, <3>3 DEF OneDef
  <2>6. written' = UNION {{Mem(c) : c \in ReadCells(new[j])} : j \in 1 .. Len(new)}
    <3>1. ASSUME NEW o
          PROVE  (\E j \in 1 .. Len(new) : o \in {Mem(c) : c \in ReadCells(new[j])}) <=>
                   \/ o \in {Mem(c) : c \in ReadCells(instr)}
                   \/ \E j \in 1 .. Len(J) : o \in {Mem(c) : c \in ReadCells(J[j])}
      <4>1. 1 \in 1 .. Len(new)
        BY <1>7, <2>2
      <4>2. QED
        BY <2>2, <4>1, Zenon
    <3>2. \A o : o \in written' <=> \/ o \in {Mem(c) : c \in ReadCells(instr)}
                                    \/ \E j \in 1 .. Len(J) : o \in {Mem(c) : c \in ReadCells(J[j])}
      BY <1>5, <2>1, Zenon
    <3>3. QED
      BY <3>1, <3>2
  <2>7. \A j \in 1 .. Len(new) : \A c \in ReadCells(new[j]) : c \in Avail(N, new, j) \cup Before(i - 1)
    <3> SUFFICES ASSUME NEW j \in 1 .. Len(new), NEW c \in ReadCells(new[j])
                 PROVE  c \in Avail(N, new, j) \cup Before(i - 1)
      OBVIOUS
    <3>1. CASE j = 1
      <4>1. c \in Avail(N, I, i)
        BY <1>3, <1>9, <2>2, <3>1 DEF DefUse, instr
      <4>2. QED
        BY <1>9, <4>1 DEF Avail
    <3>2. CASE j # 1
      <4>1. j - 1 \in 1 .. Len(J) /\ c \in Avail(N, J, j - 1) \cup Before(i)
        BY <1>5, <2>2, <3>2
      <4>2. 1 \in 1 .. j - 1 /\ new[1].dst = instr.dst
        BY <2>2, <4>1
      <4>3. \A q \in 1 .. (j - 1) - 1 : q \in 1 .. Len(J) /\ q + 1 \in 1 .. j - 1
        BY <4>1, <1>7
      <4>4. \A q \in 1 .. (j - 1) - 1 : J[q].dst \in {new[p].dst : p \in 1 .. j - 1}
        BY <2>2, <4>3
      <4>5. Avail(N, J, j - 1) \cup {instr.dst} \subseteq Avail(N, new, j)
        BY <4>2, <4>4 DEF Avail
      <4>6. QED
        BY <1>6, <4>1, <4>5
    <3>3. QED
      BY <3>1, <3>2
  <2>8. CopiesUnread(new)
    <3> SUFFICES ASSUME NEW j \in 1 .. Len(new), new[j].op = "MOV", NEW q \in j + 1 .. Len(new)
                 PROVE  new[j].dst \notin ReadCells(new[q])
      BY DEF CopiesUnread
    <3>1. q \in 1 .. Len(new) /\ q # 1 /\ q - 1 \in 1 .. Len(J) /\ new[q] = J[q - 1]
      BY <1>7, <2>2
    <3>2. CASE j = 1
      <4>1. PICK p \in i + 1 .. Len(I) : J[q - 1] = I[p]
        BY <1>5, <3>1
      <4>2. QED
        BY <1>3, <1>5, <2>2, <3>1, <3>2, <4>1 DEF CopiesUnread, instr
    <3>3. CASE j # 1
      <4>1. j - 1 \in 1 .. Len(J) /\ new[j] = J[j - 1] /\ q - 1 \in (j - 1) + 1 .. Len(J)
        BY <1>7, <2>2, <3>3
      <4>2. QED
        BY <1>5, <3>1, <4>1 DEF CopiesUnread
    <3>4. QED
      BY <3>2, <3>3
  <2>9. AllUsed(new, ir.outputs)
    <3> SUFFICES ASSUME NEW j \in 1 .. Len(new), Mem(new[j].dst) \notin Range(ir.outputs)
                 PROVE  \E q \in j + 1 .. Len(new) : new[j].dst \in ReadCells(new[q])
      BY DEF AllUsed
    <3>1. CASE j = 1
      <4>1. PICK p \in 1 .. Len(J) : Mem(instr.dst) \in {Mem(c) : c \in ReadCells(J[p])}
        BY <1>5, <2>1, <2>2, <3>1
      <4>2. instr.dst \in ReadCells(J[p])
        BY <4>1, MemIs
      <4>3. p + 1 \in j + 1 .. Len(new) /\ new[p + 1] = J[p]
        BY <1>7, <2>2, <3>1
      <4>4. QED
        BY <2>2, <3>1, <4>2, <4>3
    <3>2. CASE j # 1
      <4>1. j - 1 \in 1 .. Len(J) /\ new[j] = J[j - 1]
        BY <2>2, <3>2
      <4>2. PICK p \in (j - 1) + 1 .. Len(J) : J[j - 1].dst \in ReadCells(J[p])
        BY <1>5, <4>1 DEF AllUsed
      <4>3. p \in 1 .. Len(J) /\ p + 1 \in j + 1 .. Len(new)
        BY <1>7, <2>2, <3>2, <4>1
      <4>4. QED
        BY <2>2, <4>1, <4>2, <4>3
    <3>3. QED
      BY <3>1, <3>2
  <2>10. QED
    BY <2>2, <2>3, <2>5, <2>6, <2>7, <2>8, <2>9 DEF new
<1>14. QED
  BY <1>12, <1>13

LEMMA EndDeadStep ==
  ASSUME FInv, EndDead
  PROVE  FInv'
<1> DEFINE N == ParamCount
           J == new_instrs
<1>1. /\ ast \in ASTs /\ DeadInv /\ pass = "remove_dead_code" /\ pass' = "end"
      /\ ast' = ast /\ i = 0 /\ outputs' = outputs
      /\ ir' = [ir EXCEPT !.instrs = J] /\ ir.memory_count \in Nat
      /\ DOMAIN ir = Fields /\ ir.inputs = InputsOf(ast) /\ ir.outputs = outputs
  BY DEF FInv, EndDead
<1>2. /\ DOMAIN ir' = Fields /\ ir'.inputs = InputsOf(ast) /\ ir'.outputs = outputs'
      /\ ir'.instrs = J /\ ir'.memory_count = ir.memory_count /\ ParamCount' = N
      /\ ir'.outputs = ir.outputs
  BY <1>1, ProgramChanged DEF ParamCount
<1>3. {ir.instrs[q].dst : q \in 1 .. i} = {}
  BY <1>1
<1>4. DefUse(N, J)
  BY <1>1, <1>3 DEF DeadInv, DefUse
<1>5. EndInv'
  BY <1>1, <1>2, <1>4 DEF DeadInv, EndInv
<1>6. J \in Seq(Instruction)
  BY <1>1 DEF DeadInv
<1>7. QED
  BY <1>1, <1>2, <1>5, <1>6 DEF FInv

-----------------------------------------------------------------------------
(***************************************************************************)
(* The theorems.                                                           *)
(***************************************************************************)
\* The passes hand on to each other what they rely on: the invariant of every
\* pass holds as long as it runs, whatever the program of ASTs.
THEOREM FrontendInvariance == FSpec => []FInv
<1>1. FInit => FInv
  BY FInvInit
<1>2. FInv /\ [FNext]_fvars => FInv'
  <2> SUFFICES ASSUME FInv, [FNext]_fvars PROVE FInv'
    OBVIOUS
  <2>1. CASE ConvertStatement
    BY <2>1, ConvertStatementStep
  <2>2. CASE EndConvert
    BY <2>2, EndConvertStep
  <2>3. CASE SSAInstr
    BY <2>3, SSAInstrStep
  <2>4. CASE EndSSA
    BY <2>4, EndSSAStep
  <2>5. CASE CopyInstr
    BY <2>5, CopyInstrStep
  <2>6. CASE EndCopy
    BY <2>6, EndCopyStep
  <2>7. CASE DeadInstr
    BY <2>7, DeadInstrStep
  <2>8. CASE EndDead
    BY <2>8, EndDeadStep
  <2>9. CASE UNCHANGED fvars
    BY <2>9 DEF fvars, FInv, ConvertInv, SSAInv, CopyInv, DeadInv, EndInv, ParamCount
  <2>10. QED
    BY <2>1, <2>2, <2>3, <2>4, <2>5, <2>6, <2>7, <2>8, <2>9 DEF FNext
<1>3. QED
  BY <1>1, <1>2, PTL DEF FSpec

\* Once to_SSA() is done no cell is written twice, no input is written, nothing
\* is read before it has a value and the cells from memory_count on are free,
\* and the later passes keep it so.  This is for the programs of ASTs, whose
\* assumption asks for an assignment to something that is not a parameter
\* before the last; for the others to_SSA() is wrong.
THEOREM AlwaysInSSA == FSpec => []InSSA
<1>1. FInv => InSSA
  <2> SUFFICES ASSUME FInv, AfterSSA PROVE InSSA
    BY DEF InSSA
  <2> DEFINE N == ParamCount
             I == ir.instrs
             count == ir.memory_count
  <2>1. /\ ast \in ASTs /\ I \in Seq(Instruction) /\ count \in Nat /\ ir.inputs = InputsOf(ast)
        /\ OneDef(N, I, count) /\ count >= N /\ DefUse(N, I)
    BY DEF FInv, AfterSSA, CopyInv, DeadInv, EndInv
  <2>2. N \in Nat /\ DOMAIN I = 1 .. Len(I)
    BY <2>1, ASTIs, InstrIs DEF ParamCount
  <2>3. \A o \in Range(ir.inputs) : \E c \in 0 .. N - 1 : o = Mem(c)
    <3>1. DOMAIN InputsOf(ast) = 1 .. N
      BY <2>1, ASTIs DEF InputsOf, ParamCount
    <3>2. \A j \in 1 .. N : InputsOf(ast)[j] = Mem(j - 1) /\ j - 1 \in 0 .. N - 1
      BY <2>1, <2>2, ASTIs DEF InputsOf, ParamCount
    <3>3. QED
      BY <2>1, <3>1, <3>2 DEF Range
  <2>4. \A o \in Range(ir.inputs) : o.mem \in 0 .. N - 1
    BY <2>3, MemIs
  <2>5. \A c \in 0 .. N - 1 : Mem(c) \in Range(ir.inputs)
    <3> SUFFICES ASSUME NEW c \in 0 .. N - 1 PROVE Mem(c) \in Range(InputsOf(ast))
      BY <2>1
    <3>1. c + 1 \in DOMAIN ast.params /\ c + 1 - 1 = c
      BY <2>1, <2>2, ASTIs DEF ParamCount
    <3>2. InputsOf(ast)[c + 1] = Mem(c) /\ c + 1 \in DOMAIN InputsOf(ast)
      BY <3>1 DEF InputsOf
    <3>3. QED
      BY <3>2 DEF Range
  <2> HIDE DEF I, N, count
  <2>6. \A j \in 1 .. Len(I) : I[j].dst \in N .. count - 1
    BY <2>1 DEF OneDef
  <2>7. \A j \in 1 .. Len(I) : Mem(I[j].dst) \notin Range(ir.inputs)
    <3> SUFFICES ASSUME NEW j \in 1 .. Len(I), Mem(I[j].dst) \in Range(ir.inputs) PROVE FALSE
      OBVIOUS
    <3>1. I[j].dst \in 0 .. N - 1
      BY <2>4, MemIs
    <3>2. QED
      BY <2>1, <2>2, <2>6, <3>1
  <2>8. \A j \in 1 .. Len(I) : I[j].dst < count
    BY <2>1, <2>2, <2>6
  <2>9. \A o \in Range(ir.inputs) : o.mem < count
    BY <2>1, <2>2, <2>4
  <2>10. ASSUME NEW j \in 1 .. Len(I), NEW o \in Range(I[j].src), IsMem(o)
         PROVE  o \in Range(ir.inputs) \/ \E q \in 1 .. j - 1 : I[q].dst = o.mem
    <3>1. I[j].src \in Seq(Operand)
      BY <2>1, InstrIs
    <3>2. o \in Operand
      BY <3>1 DEF Range
    <3>3. o.mem \in Nat /\ o = Mem(o.mem)
      BY <2>10, <3>2, OperandIs
    <3>4. o.mem \in ReadCells(I[j])
      BY <3>3 DEF ReadCells
    <3>5. o.mem \in Avail(N, I, j)
      BY <2>1, <3>4 DEF DefUse
    <3>6. QED
      BY <2>5, <3>3, <3>5 DEF Avail
  <2>11. QED
    BY <2>1, <2>2, <2>7, <2>8, <2>9, <2>10 DEF InSSA, OneDef, I, count
<1>2. QED
  BY <1>1, FrontendInvariance, PTL

\* After remove_dead_code() every result is read by a later instruction or
\* returned, and no copy is read: propagate_copy() sent its readers to the
\* original.
THEOREM NeverInVain == FSpec => []NothingInVain
<1>1. FInv => NothingInVain
  <2> SUFFICES ASSUME FInv, pass = "end" PROVE NothingInVain
    BY DEF NothingInVain
  <2> DEFINE I == ir.instrs
  <2>1. I \in Seq(Instruction) /\ CopiesUnread(I) /\ AllUsed(I, ir.outputs)
    BY DEF FInv, EndInv
  <2>2. DOMAIN I = 1 .. Len(I) /\ Len(I) \in Nat /\ \A j \in 1 .. Len(I) : I[j].dst \in Nat
    BY <2>1, InstrIs
  <2> HIDE DEF I
  <2>3. ASSUME NEW j \in DOMAIN I
        PROVE  LET cell == Mem(I[j].dst)
                   read == \E q \in j + 1 .. Len(I) : cell \in Range(I[q].src)
               IN /\ read \/ cell \in Range(ir.outputs)
                  /\ I[j].op = "MOV" => ~ read
    <3>1. \A q : I[j].dst \in ReadCells(I[q]) <=> Mem(I[j].dst) \in Range(I[q].src)
      BY <2>2 DEF ReadCells
    <3>2. QED
      BY <2>1, <2>2, <3>1 DEF CopiesUnread, AllUsed
  <2>4. QED
    BY <2>3, Zenon DEF NothingInVain, I
<1>2. QED
  BY <1>1, FrontendInvariance, PTL
=============================================================================

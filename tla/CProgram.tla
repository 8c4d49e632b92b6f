------------------------------ MODULE CProgram ------------------------------
(***************************************************************************)
(* The C programs the compiler takes: trees with the node types of         *)
(* pycparser, and what C says they compute.  The second part is the        *)
(* reference the passes of the frontend are held against.                  *)
(*                                                                         *)
(* A program is a sequence of functions [name, params, body]; the last one *)
(* is its main.  All scalars are unsigned int, words of w bits here.       *)
(***************************************************************************)
EXTENDS ALU, Sequences, TLC

CONSTANT Extent   \* cells behind every array or pointer that main is given

None == [k |-> "None"]

ID(x) == [k |-> "ID", name |-> x]
Constant(v) == [k |-> "Constant", value |-> v]
ArrayRef(a, e) == [k |-> "ArrayRef", name |-> a, subscript |-> e]
UnaryOp(op, e) == [k |-> "UnaryOp", op |-> op, expr |-> e]
BinaryOp(op, e1, e2) == [k |-> "BinaryOp", op |-> op, left |-> e1, right |-> e2]
TernaryOp(c, e1, e2) == [k |-> "TernaryOp", cond |-> c, iftrue |-> e1, iffalse |-> e2]
FuncCall(f, args) == [k |-> "FuncCall", name |-> f, args |-> args]
InitList(es) == [k |-> "InitList", exprs |-> es]

\* type is "int", "array" (of dim cells) or "ptr".
Decl(type, name, init) ==
  [k |-> "Decl", type |-> type, dim |-> 0, const |-> FALSE, name |-> name, init |-> init]
\* op is "=", or "+" for +=, and so on.
Assignment(op, l, e) == [k |-> "Assignment", op |-> op, lvalue |-> l, rvalue |-> e]
Return(e) == [k |-> "Return", expr |-> e]
Compound(items) == [k |-> "Compound", block_items |-> items]
For(init, cond, next, stmt) ==
  [k |-> "For", init |-> init, cond |-> cond, next |-> next, stmt |-> stmt]
EmptyStatement == [k |-> "EmptyStatement"]

Main(p) == p[Len(p)]

\* NodeCopyVisitor (utils.py:132) without overrides: a copy of the node with its
\* children visited.
VisitKids(n, Visit(_)) ==
  LET All(s) == [j \in DOMAIN s |-> Visit(s[j])]
  IN CASE n.k = "ArrayRef"   -> [n EXCEPT !.subscript = Visit(@)]
       [] n.k \in {"UnaryOp", "Return"} -> [n EXCEPT !.expr = Visit(@)]
       [] n.k = "BinaryOp"   -> [n EXCEPT !.left = Visit(@), !.right = Visit(@)]
       [] n.k = "TernaryOp"  -> [n EXCEPT !.cond = Visit(@), !.iftrue = Visit(@),
                                          !.iffalse = Visit(@)]
       [] n.k = "FuncCall"   -> [n EXCEPT !.args = All(@)]
       [] n.k = "InitList"   -> [n EXCEPT !.exprs = All(@)]
       [] n.k = "Decl"       -> [n EXCEPT !.init = Visit(@)]
       [] n.k = "Assignment" -> [n EXCEPT !.lvalue = Visit(@), !.rvalue = Visit(@)]
       [] n.k = "Compound"   -> [n EXCEPT !.block_items = All(@)]
       [] n.k = "For"        -> [n EXCEPT !.init = Visit(@), !.cond = Visit(@),
                                          !.next = Visit(@), !.stmt = Visit(@)]
       [] OTHER -> n

\* AST_to_IR.convert_operator().
convert_operator(op) ==
  CASE op = "=" -> "MOV"  [] op = "^" -> "XOR"   [] op = "|" -> "OR"
    [] op = "&" -> "AND"  [] op = "<<" -> "LSL"  [] op = ">>" -> "LSR"
    [] op = "+" -> "ADD"  [] op = "-" -> "SUB"   [] op = "*" -> "MUL"
    [] op = "/" -> "DIV"  [] op = "%" -> "MOD"   [] op = "?:" -> "CMOV"
    [] op = "<" -> "LT"   [] op = "==" -> "EQ"

-----------------------------------------------------------------------------
(***************************************************************************)
(* The meaning.  A machine is [funs, scope, mem, ret]: the functions by    *)
(* name; for each name in scope its type and address; the memory; and the  *)
(* value returned.  A variable of type "ptr" holds an address.             *)
(***************************************************************************)

\* What a cell holds before it is written.
Garbage == 5 % 2 ^ w

\* The result of an instruction, where C defines one.
Execute(op, x, y, z) == CHOOSE v \in instruction_execute(op, x, y, z) : TRUE

Op(op, x, y) ==
  CASE op = ">"  -> Truth(x > y)  [] op = "<=" -> Truth(x =< y)
    [] op = ">=" -> Truth(x >= y) [] op = "!=" -> Truth(x # y)
    [] OTHER -> Execute(convert_operator(op), x, y, 0)

Allocate(m, name, type, words) ==
  [m EXCEPT !.mem = @ \o words,
            !.scope = (name :> [type |-> type, at |-> Len(m.mem) + 1]) @@ @]

Base(m, name) ==
  IF m.scope[name].type = "ptr" THEN m.mem[m.scope[name].at] ELSE m.scope[name].at

RECURSIVE Value(_, _), Values(_, _), Address(_, _), Run(_, _), RunAll(_, _),
          Loop(_, _), Call(_, _, _)

\* Value(e, m) is [v, m]: the value of e, and the machine after its side effects.
Value(e, m) ==
  CASE e.k = "Constant" -> [v |-> e.value % 2 ^ w, m |-> m]
    [] e.k \in {"ID", "ArrayRef"} ->
         LET a == Address(e, m) IN [v |-> a.m.mem[a.v], m |-> a.m]
    [] e.k = "BinaryOp" ->
         LET x == Value(e.left, m)
             y == Value(e.right, x.m)
         IN [v |-> Op(e.op, x.v, y.v), m |-> y.m]
    [] e.k = "TernaryOp" ->
         LET c == Value(e.cond, m)
         IN Value(IF c.v # 0 THEN e.iftrue ELSE e.iffalse, c.m)
    [] e.k = "UnaryOp" /\ e.op \in {"-", "~", "!"} ->
         LET x == Value(e.expr, m)
         IN [v |-> CASE e.op = "-" -> (-x.v) % 2 ^ w
                     [] e.op = "~" -> 2 ^ w - 1 - x.v
                     [] e.op = "!" -> Truth(x.v = 0),
             m |-> x.m]
    [] e.k = "UnaryOp" ->
         LET a   == Address(e.expr, m)
             old == a.m.mem[a.v]
             new == (old + (IF e.op \in {"p++", "++"} THEN 1 ELSE -1)) % 2 ^ w
         IN [v |-> IF e.op \in {"p++", "p--"} THEN old ELSE new,
             m |-> [a.m EXCEPT !.mem[a.v] = new]]
    [] e.k = "FuncCall" ->
         LET c == Call(m.funs[e.name], e.args, m) IN [v |-> c.ret, m |-> c]

\* Where an lvalue is, or where a pointer points to.
Address(e, m) ==
  CASE e.k = "ID" -> [v |-> m.scope[e.name].at, m |-> m]
    [] e.k = "ArrayRef" ->
         LET x == Value(e.subscript, m) IN [v |-> Base(x.m, e.name) + x.v, m |-> x.m]

Pointer(e, m) ==
  CASE e.k = "ID" -> Base(m, e.name)
    [] e.k = "UnaryOp" -> Base(m, e.expr.name) + Value(e.expr.subscript, m).v
    [] e.k = "BinaryOp" -> Base(m, e.left.name) + Value(e.right, m).v

Values(es, m) ==
  IF es = <<>> THEN [v |-> <<>>, m |-> m]
  ELSE LET x == Value(Head(es), m)
           y == Values(Tail(es), x.m)
       IN [v |-> <<x.v>> \o y.v, m |-> y.m]

\* Scalars are passed by value, arrays as pointers.
Call(f, args, m) ==
  LET Arg(j) == IF f.params[j].type = "int" THEN Value(args[j], m).v
                ELSE Pointer(args[j], m)
      bound == [j \in DOMAIN f.params |->
                  [type |-> IF f.params[j].type = "int" THEN "int" ELSE "ptr",
                   at |-> Len(m.mem) + j]]
      names == {f.params[j].name : j \in DOMAIN f.params}
      enter == [m EXCEPT !.mem = @ \o [j \in DOMAIN args |-> Arg(j)],
                         !.scope = [x \in names |->
                            bound[CHOOSE j \in DOMAIN f.params : f.params[j].name = x]]]
  IN [RunAll(f.body, enter) EXCEPT !.scope = m.scope]

Run(s, m) ==
  CASE s.k = "Decl" /\ s.type = "int" ->
         LET new == Allocate(m, s.name, "int", <<Garbage>>)
         IN IF s.init = None THEN new
            ELSE Run(Assignment("=", ID(s.name), s.init), new)
    [] s.k = "Decl" /\ s.type = "array" /\ s.init.k \in {"None", "InitList"} ->
         LET x == Values(IF s.init = None THEN <<>> ELSE s.init.exprs, m)
         IN Allocate(x.m, s.name, "array",
                     [j \in 1 .. s.dim |-> IF j =< Len(x.v) THEN x.v[j]
                                           ELSE IF x.v = <<>> THEN Garbage ELSE 0])
    [] s.k = "Decl" ->
         Allocate(m, s.name, "ptr",
                  <<IF s.init = None THEN Garbage ELSE Pointer(s.init, m)>>)
    [] s.k = "Assignment" /\ s.lvalue.k = "ID" /\ m.scope[s.lvalue.name].type # "int" ->
         [m EXCEPT !.mem[m.scope[s.lvalue.name].at] = Pointer(s.rvalue, m)]
    [] s.k = "Assignment" ->
         LET e == IF s.op = "=" THEN s.rvalue
                  ELSE BinaryOp(s.op, s.lvalue, s.rvalue)
             x == Value(e, m)
             a == Address(s.lvalue, x.m)
         IN [a.m EXCEPT !.mem[a.v] = x.v]
    [] s.k = "Return" -> LET x == Value(s.expr, m) IN [x.m EXCEPT !.ret = x.v]
    [] s.k = "Compound" -> [RunAll(s.block_items, m) EXCEPT !.scope = m.scope]
    [] s.k = "For" -> [Loop(s, Run(s.init, m)) EXCEPT !.scope = m.scope]
    [] s.k \in {"EmptyStatement", "ID", "None"} -> m
    [] OTHER -> Value(s, m).m

RunAll(ss, m) == IF ss = <<>> THEN m ELSE RunAll(Tail(ss), Run(Head(ss), m))

Loop(s, m) ==
  LET c == Value(s.cond, m)
  IN IF c.v = 0 THEN c.m ELSE Loop(s, Run(s.next, Run(s.stmt, c.m)))

\* Parameter j of main has the Extent cells from here on.
ParamAt(j) == (j - 1) * Extent + 1

\* The cells that main is to hand back: those of arrays that are not const.
Returned(f) ==
  UNION {ParamAt(j) .. ParamAt(j + 1) - 1 :
           j \in {q \in DOMAIN f.params : f.params[q].type # "int" /\ ~f.params[q].const}}

\* What main computes from the words in the cells of its parameters, its q-th
\* parameter being at address at[q]: the value returned, and the cells outs.
Meaning(p, at, outs, words) ==
  LET f   == Main(p)
      end == RunAll(f.body,
               [funs  |-> [x \in {p[j].name : j \in DOMAIN p} |->
                             p[CHOOSE j \in DOMAIN p : p[j].name = x]],
                scope |-> [x \in {f.params[q].name : q \in DOMAIN f.params} |->
                             LET q == CHOOSE q \in DOMAIN f.params : f.params[q].name = x
                             IN [type |-> IF f.params[q].type = "int" THEN "int" ELSE "array",
                                 at   |-> at[q]]],
                mem   |-> words,
                ret   |-> Garbage])
  IN [ret |-> end.ret, cells |-> [a \in outs |-> end.mem[a]]]
=============================================================================

------------------------------- MODULE Unroll -------------------------------
(***************************************************************************)
(* The passes that know values at compile time: NodeCopyVisitorWithEnv of  *)
(* utils.py, and its heirs ForRemover, ArraySizeCalculator and             *)
(* ArrayRemover of normalize.py.  They run on a main without calls, so on  *)
(* one body.                                                               *)
(*                                                                         *)
(* env maps variables to the integers of Python they are known to hold;    *)
(* defs are the variables declared in the current scope; failed says that  *)
(* the pass has ended in sys.exit(), an assertion or an exception.         *)
(***************************************************************************)
EXTENDS Normalize

\* get_val(): no element if the value is not known.
get_val(n, env) ==
  CASE n.k = "Constant" -> {n.value}
    [] n.k = "ID" /\ n.name \in DOMAIN env -> {env[n.name]}
    [] OTHER -> {}

\* The operators of visit_BinaryOp() in Python, where division by zero is an
\* exception and nothing is folded.
Folded(op, x, y) ==
  CASE op = "+" -> {(x + y) % 2 ^ w}
    [] op = "-" -> {(x - y) % 2 ^ w}
    [] op = "*" -> {(x * y) % 2 ^ w}
    [] op = "/" -> IF y = 0 THEN {} ELSE {x \div y}
    [] op = "%" -> IF y = 0 THEN {} ELSE {x % y}
    [] op = "&" -> {x & y}
    [] op = "|" -> {x | y}
    [] op = "^" -> {x ^^ y}
    [] op = "<<" -> {(x * 2 ^ y) % 2 ^ w}
    [] op = ">>" -> {x \div 2 ^ y}
    [] op = "<" -> {Truth(x < y)}
    [] op = "==" -> {Truth(x = y)}

RECURSIVE VisitExpr(_, _)
VisitExpr(n, env) ==
  LET c == VisitKids(n, LAMBDA d : VisitExpr(d, env))
      vals == CASE n.k = "BinaryOp" ->
                     UNION {Folded(n.op, x, y) : x \in get_val(c.left, env),
                                                 y \in get_val(c.right, env)}
                [] n.k = "UnaryOp" /\ n.op = "-" -> {-x : x \in get_val(c.expr, env)}
                [] OTHER -> {}
  IN IF vals = {} THEN c ELSE Constant(CHOOSE v \in vals : TRUE)

\* Mutant: a variable that is given a value nobody knows keeps its old one.
Learn_Stale(env, x, e) ==
  IF get_val(e, env) = {} THEN env ELSE Bound(env, x, CHOOSE v \in get_val(e, env) : TRUE)

\* What is known of x after x = e.
Learn(env, x, e) ==
  IF get_val(e, env) = {} THEN Unbound(env, x)
  ELSE Bound(env, x, CHOOSE v \in get_val(e, env) : TRUE)

\* e, or its value.
Simplest(e, env) ==
  IF get_val(e, env) = {} THEN e ELSE Constant(CHOOSE v \in get_val(e, env) : TRUE)

\* visit_Assignment(), for a node whose children are visited.
VisitAssignment(s, st) ==
  IF s.lvalue.k = "ID"
  THEN [out |-> <<[s EXCEPT !.rvalue = Simplest(@, st.env)]>>,
        st  |-> [st EXCEPT !.env = Learn(@, s.lvalue.name, s.rvalue)]]
  ELSE [out |-> <<s>>, st |-> st]

\* visit_Decl(), for a node whose initializer is visited.
VisitDecl(s, st) ==
  IF s.type = "int" /\ s.init # None
  THEN [out |-> <<[s EXCEPT !.init = Simplest(@, st.env)]>>,
        st  |-> [st EXCEPT !.env = Learn(@, s.name, s.init), !.defs = @ \cup {s.name}]]
  ELSE [out |-> <<s>>, st |-> st]

enter_scope(st) == [st EXCEPT !.defs = {}]

\* What is known of the variables of the scope is dropped, or is again what
\* was known of a variable of the same name.
exit_scope(old, st) ==
  LET gone == st.defs \cap DOMAIN st.env
      kept == (DOMAIN st.env \ gone) \cup (gone \cap DOMAIN old.env)
  IN [st EXCEPT !.env = [x \in kept |-> IF x \in gone THEN old.env[x] ELSE @[x]],
                !.defs = old.defs]

-----------------------------------------------------------------------------
(***************************************************************************)
(* ForRemover.                                                             *)
(***************************************************************************)
get_next_expr(n) ==
  IF n.k = "UnaryOp"
  THEN Assignment("=", n.expr, BinaryOp(IF n.op \in {"p++", "++"} THEN "+" ELSE "-",
                                        n.expr, Constant(1)))
  ELSE n

is_not_done(op, x, stop) ==
  CASE op = "<" -> x < stop [] op = "<=" -> x =< stop [] op = ">" -> x > stop
    [] op = ">=" -> x >= stop [] op = "==" -> x = stop [] op = "!=" -> x # stop

RECURSIVE UnrollStmt(_, _), UnrollStmts(_, _), Iterations(_, _, _, _, _)

Failed(st, s) == [out |-> <<s>>, st |-> [st EXCEPT !.failed = TRUE]]

\* The loop is over the values its variable takes; the bound is evaluated once.
\* "Invalid 'for' loop initializer."; a value that is not known cannot be
\* compared with the bound (that == and != can compare with None is left out).
UnrollFor(s, st) ==
  IF s.init.k \notin {"Decl", "Assignment"} THEN Failed(st, s) ELSE
  LET init == UnrollStmt(s.init, enter_scope(st))
      name == IF s.init.k = "Decl" THEN s.init.name ELSE s.init.lvalue.name
      stops == get_val(VisitExpr(s.cond.right, init.st.env), init.st.env)
      rest == Iterations(s, name, get_next_expr(s.next), CHOOSE v \in stops : TRUE, init.st)
  IN IF stops = {} THEN Failed(st, s)
     ELSE [out |-> <<Compound(init.out \o rest.out)>>, st |-> exit_scope(st, rest.st)]

Iterations(s, name, next, stop, st) ==
  IF name \notin DOMAIN st.env THEN Failed(st, s)
  ELSE IF ~is_not_done(s.cond.op, st.env[name], stop) THEN [out |-> <<>>, st |-> st]
  ELSE LET body == UnrollStmt(s.stmt, st)
           incr == UnrollStmt(next, body.st)
           rest == Iterations(s, name, next, stop, incr.st)
       IN [out |-> body.out \o incr.out \o rest.out, st |-> rest.st]

UnrollStmt(s, st) ==
  CASE s.k = "For" -> UnrollFor(s, st)
    [] s.k = "Compound" ->
         LET b == UnrollStmts(s.block_items, enter_scope(st))
         IN [out |-> <<Compound(b.out)>>, st |-> exit_scope(st, b.st)]
    [] s.k = "Assignment" -> VisitAssignment(VisitExpr(s, st.env), st)
    [] s.k = "Decl" -> VisitDecl(VisitExpr(s, st.env), st)
    [] OTHER -> [out |-> <<VisitExpr(s, st.env)>>, st |-> st]

UnrollStmts(ss, st) ==
  IF ss = <<>> THEN [out |-> <<>>, st |-> st]
  ELSE LET h == UnrollStmt(Head(ss), st)
           t == UnrollStmts(Tail(ss), h.st)
       IN [out |-> h.out \o t.out, st |-> t.st]

Unrolled(b) == UnrollStmt(b, [env |-> Nothing, defs |-> {}, failed |-> FALSE])

ForRemover(p) == InBodies(p, LAMBDA b : Unrolled(b).out[1])

LoopsRefused(p) == \E j \in DOMAIN p : Unrolled(Compound(p[j].body)).st.failed

-----------------------------------------------------------------------------
(***************************************************************************)
(* ArraySizeCalculator and ArrayRemover.  Both keep, besides env and defs, *)
(* the set of pointers and for each pointer that is an alias [name,        *)
(* offset] of a cell of the array it points into; used is the calculator's *)
(* array_sizes, as the set of <<array, index>> seen.                       *)
(***************************************************************************)
NoAliases(f) ==
  [env |-> Nothing, defs |-> {}, failed |-> FALSE, aliases |-> Nothing, used |-> {},
   pointers |-> {f.params[j].name : j \in {q \in DOMAIN f.params : f.params[q].type # "int"}}]

RECURSIVE resolve_alias(_, _, _)
resolve_alias(aliases, name, offset) ==
  IF name \in DOMAIN aliases /\ aliases[name].name # name
  THEN resolve_alias(aliases, aliases[name].name, offset + aliases[name].offset)
  ELSE [name |-> name, offset |-> offset]

\* visit_ptr_assignment(): what an initializer makes the pointer an alias of;
\* p = q, p = &q[42], p = q + 42 or p = 42 + q.
AliasOf(init, st) ==
  LET Cell(name, vals) == {resolve_alias(st.aliases, name, v) : v \in vals}
  IN CASE init.k = "ID" -> Cell(init.name, {0})
       [] init.k = "UnaryOp" -> Cell(init.expr.name, get_val(init.expr.subscript, st.env))
       [] init.k = "BinaryOp" ->
            IF get_val(init.left, st.env) # {}
            THEN Cell(init.right.name, get_val(init.left, st.env))
            ELSE Cell(init.left.name, get_val(init.right, st.env))
       [] OTHER -> {}

\* "Invalid pointer initializer", an assertion, or None for an offset, with which
\* get_array_sizes() cannot calculate.
InvalidPointer(init, st) ==
  CASE init.k = "UnaryOp" -> AliasOf(init, st) = {}
    [] init.k = "BinaryOp" ->
         IF get_val(init.left, st.env) # {} THEN init.right.k # "ID"
         ELSE init.left.k # "ID" \/ get_val(init.right, st.env) = {}
    [] OTHER -> FALSE

Aliased(name, cells, st) ==
  IF cells = {} THEN st ELSE [st EXCEPT !.aliases = Bound(@, name, CHOOSE a \in cells : TRUE)]

DeclaresPointer(s) == s.k = "Decl" /\ s.type # "int"
AssignsPointer(s, st) ==
  s.k = "Assignment" /\ s.lvalue.k = "ID" /\ s.lvalue.name \in st.pointers

RECURSIVE RefsIn(_), SizeStmts(_, _), SizeStmt(_, _)

RefsIn(n) ==
  CASE n.k = "ArrayRef" -> {n}
    [] n.k \in {"UnaryOp", "Return"} -> RefsIn(n.expr)
    [] n.k = "BinaryOp" -> RefsIn(n.left) \cup RefsIn(n.right)
    [] n.k = "TernaryOp" -> RefsIn(n.cond) \cup RefsIn(n.iftrue) \cup RefsIn(n.iffalse)
    [] n.k = "InitList" -> UNION {RefsIn(n.exprs[j]) : j \in DOMAIN n.exprs}
    [] n.k = "Decl" -> RefsIn(n.init)
    [] n.k = "Assignment" -> RefsIn(n.lvalue) \cup RefsIn(n.rvalue)
    [] OTHER -> {}

\* The calculator's visit_ArrayRef(), which adds 1 to the subscript, or to None.
Seen(n, st) ==
  [st EXCEPT !.failed = @ \/ \E r \in RefsIn(n) : get_val(r.subscript, st.env) = {},
             !.used = @ \cup UNION {{<<r.name, v>> : v \in get_val(r.subscript, st.env)} :
                                      r \in RefsIn(n)}]

\* The calculator's visit_ptr_assignment().
Pointed(name, init, st) ==
  IF InvalidPointer(init, st) THEN [st EXCEPT !.failed = TRUE]
  ELSE Aliased(name, AliasOf(init, st), st)

\* The calculator keeps no tree.
SizeStmt(s, st) ==
  CASE DeclaresPointer(s) ->
         Seen(s, Pointed(s.name, s.init, [st EXCEPT !.pointers = @ \cup {s.name}]))
    [] AssignsPointer(s, st) -> Pointed(s.lvalue.name, s.rvalue, st)
    [] s.k = "Decl" -> VisitDecl(VisitExpr(s, st.env), Seen(s, st)).st
    [] s.k = "Assignment" -> VisitAssignment(VisitExpr(s, st.env), Seen(s, st)).st
    [] s.k = "Compound" -> exit_scope(st, SizeStmts(s.block_items, enter_scope(st)))
    [] OTHER -> Seen(s, st)

SizeStmts(ss, st) == IF ss = <<>> THEN st ELSE SizeStmts(Tail(ss), SizeStmt(Head(ss), st))

Top(S) == CHOOSE n \in S : \A q \in S : q =< n

\* The size of an array is one more than the largest index used, by its own name or
\* by that of an alias; real holds each alias resolved.
LargestIndices(used, real) ==
  LET Size(x) == Top({0} \cup {u[2] + 1 : u \in {v \in used : v[1] = x}})
  IN [x \in {u[1] : u \in used} \cup {real[p].name : p \in DOMAIN real} |->
        Top({Size(x)} \cup {Size(p) + real[p].offset : p \in {q \in DOMAIN real : real[q].name = x}})]

SizesFrom(st) ==
  LargestIndices(st.used,
    [p \in DOMAIN st.aliases |->
       resolve_alias(st.aliases, st.aliases[p].name, st.aliases[p].offset)])

Calculated(f) == SizeStmt(Compound(f.body), NoAliases(f))
get_array_sizes(f) == SizesFrom(Calculated(f))

\* The calculator comes first and looks at the same pointers and subscripts, so
\* that what ArrayRemover could not resolve has ended the compiler here.
ArraysRefused(f) == Calculated(f).failed

Cell(name, j) == name \o "[" \o ToString(j) \o "]"

RECURSIVE Deref(_, _), RemoveStmt(_, _), RemoveStmts(_, _)

\* ArrayRemover.visit_ArrayRef(), of a program that is not refused.
Deref(n, st) ==
  IF n.k = "ArrayRef"
  THEN LET alias == IF n.name \in DOMAIN st.aliases THEN st.aliases[n.name]
                    ELSE [name |-> n.name, offset |-> 0]
       IN ID(Cell(alias.name, alias.offset + CHOOSE v \in get_val(n.subscript, st.env) : TRUE))
  ELSE VisitKids(n, LAMBDA c : Deref(c, st))

SizeOf(s, sizes) == IF s.type = "array" THEN s.dim ELSE sizes[s.name]

\* get_array_init(), and the declarations of the cells.
Cells(s, size) ==
  [j \in 1 .. size |->
     Decl("int", Cell(s.name, j - 1),
          IF s.init = None THEN None
          ELSE IF j =< Len(s.init.exprs) THEN s.init.exprs[j] ELSE Constant(0))]

\* The declaration of a pointer to one of the cells, if it is an alias.
RemoveDecl(s, cells, st) ==
  [out |-> IF cells # {} \/ s.type = "ptr" THEN <<EmptyStatement>> ELSE Cells(s, s.dim),
   st  |-> Aliased(s.name, cells, [st EXCEPT !.pointers = @ \cup {s.name}])]

RemoveStmt(s, st) ==
  LET dereferenced == VisitExpr(Deref(s, st), st.env)
  IN CASE DeclaresPointer(s) -> RemoveDecl(s, AliasOf(s.init, st), st)
       [] AssignsPointer(s, st) ->
            [out |-> <<EmptyStatement>>,
             st  |-> Aliased(s.lvalue.name, AliasOf(s.rvalue, st), st)]
       [] s.k = "Decl" -> VisitDecl(dereferenced, st)
       [] s.k = "Assignment" -> VisitAssignment(dereferenced, st)
       [] s.k = "Compound" ->
            LET b == RemoveStmts(s.block_items, st) IN [b EXCEPT !.out = <<Compound(@)>>]
       [] OTHER -> [out |-> <<dereferenced>>, st |-> st]

RemoveStmts(ss, st) ==
  IF ss = <<>> THEN [out |-> <<>>, st |-> st]
  ELSE LET h == RemoveStmt(Head(ss), st)
           t == RemoveStmts(Tail(ss), h.st)
       IN [out |-> h.out \o t.out, st |-> t.st]

\* "Unable to compute size of input pointer".
SizesUnknown(f) ==
  \E j \in DOMAIN f.params :
    f.params[j].type = "ptr" /\ f.params[j].name \notin DOMAIN get_array_sizes(f)

\* How many cells each parameter of main takes.
Sizes(params, sizes) ==
  [j \in DOMAIN params |-> IF params[j].type = "int" THEN 1 ELSE SizeOf(params[j], sizes)]
Shape(f) == Sizes(f.params, get_array_sizes(f))

RECURSIVE ParamCellsFrom(_, _, _)
ParamCellsFrom(params, shape, j) ==
  IF j > Len(params) THEN <<>>
  ELSE (IF params[j].type = "int" THEN <<params[j]>> ELSE Cells(params[j], shape[j]))
         \o ParamCellsFrom(params, shape, j + 1)

\* The cells of the arrays that are not const.
ReturnedCells(params, shape) ==
  UNION {{Cell(params[j].name, q - 1) : q \in 1 .. shape[j]} :
           j \in {q \in DOMAIN params : params[q].type # "int" /\ ~params[q].const}}

RemovedFrom(f, shape) ==
  [prog    |-> <<[f EXCEPT !.params = ParamCellsFrom(@, shape, 1),
                           !.body = RemoveStmts(@, NoAliases(f)).out]>>,
   returns |-> ReturnedCells(f.params, shape)]

\* remove_arrays() of a program that is its main: [prog, returns].
ArrayRemover(p) == RemovedFrom(Main(p), Shape(Main(p)))
=============================================================================

----------------------------- MODULE Normalize ------------------------------
(***************************************************************************)
(* The passes of the first half of the frontend (alphaconvert.py,          *)
(* identifiers.py, normalize.py and the visitors of utils.py) as operators *)
(* on trees.  A pass with state of its own threads it through its visits:  *)
(* visiting a statement yields [out, st], the statements that replace it   *)
(* and the state afterwards.                                               *)
(*                                                                         *)
(* Names of functions differ from names of variables.  Subscripts, and     *)
(* arguments of calls, hold no call and no ++ or --.                       *)
(***************************************************************************)
EXTENDS CProgram, FiniteSets

Bound(f, x, y) == (x :> y) @@ f
Unbound(f, x) == [z \in DOMAIN f \ {x} |-> f[z]]
Nothing == [z \in {} |-> z]

NamesOf(f) == {f.params[j].name : j \in DOMAIN f.params}

-----------------------------------------------------------------------------
(***************************************************************************)
(* identifiers.py: all_identifiers and next_counters are [all, next].      *)
(***************************************************************************)
NoIdents == [all |-> {}, next |-> Nothing]

Ident(prefix, n) == prefix \o ToString(n)

\* The counter's first value from here on that names nothing.
NextCounter(ids, prefix, from) ==
  CHOOSE n \in from .. from + Cardinality(ids.all) :
    /\ Ident(prefix, n) \notin ids.all
    /\ \A d \in from .. n - 1 : Ident(prefix, d) \in ids.all

Taken(ids, prefix, n) ==
  [name |-> Ident(prefix, n),
   ids  |-> [all |-> ids.all \cup {Ident(prefix, n)}, next |-> Bound(ids.next, prefix, n + 1)]]

\* gen_next_ident() gives [name, ids].
gen_next_ident(ids, prefix) ==
  Taken(ids, prefix,
        NextCounter(ids, prefix, IF prefix \in DOMAIN ids.next THEN ids.next[prefix] ELSE 0))

-----------------------------------------------------------------------------
(***************************************************************************)
(* alphaconvert.py.                                                        *)
(***************************************************************************)
RECURSIVE DeclaredBy(_), DeclaredByAll(_), Renamed(_, _), AlphaStmt(_, _, _), AlphaStmts(_, _, _)

\* IdentsCollector: the names of all declarations, in their order.
DeclaredBy(s) ==
  CASE s.k = "Decl" -> <<s.name>>
    [] s.k = "Compound" -> DeclaredByAll(s.block_items)
    [] s.k = "For" -> DeclaredBy(s.init) \o DeclaredBy(s.stmt)
    [] OTHER -> <<>>
DeclaredByAll(ss) ==
  IF ss = <<>> THEN <<>> ELSE DeclaredBy(Head(ss)) \o DeclaredByAll(Tail(ss))

\* Mutant: the second declaration of a name does not make it a duplicate.
Twice_Thrice(names) ==
  {names[j] : j \in {q \in DOMAIN names : Cardinality({r \in DOMAIN names : names[r] = names[q]}) > 2}}

\* dups.
Twice(names) ==
  {names[j] : j \in {q \in DOMAIN names : \E r \in DOMAIN names : r # q /\ names[r] = names[q]}}

\* visit_ID().
Renamed(n, env) ==
  LET c == VisitKids(n, LAMBDA d : Renamed(d, env))
  IN IF n.k \in {"ID", "ArrayRef"} /\ n.name \in DOMAIN env
     THEN [c EXCEPT !.name = env[n.name]] ELSE c

\* The state is [ids, env]; a scope gives back the env it found.
AlphaStmt(s, dups, st) ==
  CASE s.k = "Decl" ->
         LET g   == gen_next_ident(st.ids, s.name)
             new == IF s.name \in dups
                    THEN [ids |-> g.ids, env |-> Bound(st.env, s.name, g.name)] ELSE st
         IN [out |-> <<[s EXCEPT !.name = IF s.name \in dups THEN g.name ELSE @,
                                 !.init = Renamed(@, new.env)]>>,
             st  |-> new]
    [] s.k = "Compound" ->
         LET b == AlphaStmts(s.block_items, dups, st)
         IN [out |-> <<Compound(b.out)>>, st |-> [b.st EXCEPT !.env = st.env]]
    [] s.k = "For" ->
         LET init == AlphaStmt(s.init, dups, st)
             stmt == AlphaStmt(s.stmt, dups, init.st)
         IN [out |-> <<For(init.out[1], Renamed(s.cond, init.st.env),
                           Renamed(s.next, init.st.env), stmt.out[1])>>,
             st  |-> [stmt.st EXCEPT !.env = st.env]]
    [] OTHER -> [out |-> <<Renamed(s, st.env)>>, st |-> st]

AlphaStmts(ss, dups, st) ==
  IF ss = <<>> THEN [out |-> <<>>, st |-> st]
  ELSE LET h == AlphaStmt(Head(ss), dups, st)
           t == AlphaStmts(Tail(ss), dups, h.st)
       IN [out |-> h.out \o t.out, st |-> t.st]

\* AlphaConverter().visit(ast): [prog, ids].
RECURSIVE AlphaFuns(_, _, _)
AlphaFuns(p, dups, ids) ==
  IF p = <<>> THEN [prog |-> <<>>, ids |-> ids]
  ELSE LET f      == Head(p)
           params == AlphaStmts(f.params, dups, [ids |-> ids, env |-> Nothing])
           body   == AlphaStmt(Compound(f.body), dups, params.st)
           rest   == AlphaFuns(Tail(p), dups, body.st.ids)
       IN [prog |-> <<[f EXCEPT !.params = params.out, !.body = body.out[1].block_items]>>
                      \o rest.prog,
           ids  |-> rest.ids]

AlphaConverter(p) ==
  LET RECURSIVE Names(_)
      Names(q) == IF q = <<>> THEN <<>>
                  ELSE DeclaredByAll(Head(q).params) \o DeclaredByAll(Head(q).body)
                         \o Names(Tail(q))
      names == Names(p)
  IN AlphaFuns(p, Twice(names), [NoIdents EXCEPT !.all = {names[j] : j \in DOMAIN names}])

-----------------------------------------------------------------------------
(***************************************************************************)
(* The first, stateless visitors of normalize.py.  IntConverter has        *)
(* nothing to do here: constants are numbers.                              *)
(***************************************************************************)
RECURSIVE NotConverter(_), ControlNormalizer(_), CompoundAsgnRemover(_)

NotConverter(n) ==
  LET c == VisitKids(n, NotConverter)
  IN IF n.k = "UnaryOp" /\ n.op = "~" THEN BinaryOp("^", c.expr, Constant(2 ^ w - 1)) ELSE c

ControlNormalizer(n) ==
  LET c == VisitKids(n, ControlNormalizer)
  IN IF n.k = "For" /\ n.stmt.k # "Compound" THEN [c EXCEPT !.stmt = Compound(<<@>>)] ELSE c

CompoundAsgnRemover(n) ==
  LET c == VisitKids(n, CompoundAsgnRemover)
  IN IF n.k = "Assignment" /\ n.op # "="
     THEN Assignment("=", c.lvalue, BinaryOp(n.op, c.lvalue, c.rvalue)) ELSE c

\* A visitor that only looks at the bodies of functions.
InBodies(p, Visit(_)) ==
  [j \in DOMAIN p |-> [p[j] EXCEPT !.body = Visit(Compound(@)).block_items]]

-----------------------------------------------------------------------------
(***************************************************************************)
(* Unnester.  The state is [depth, before, ids]; depth is not reset at the *)
(* start of a statement, only by the statements named below.               *)
(***************************************************************************)
\* make_tmp(), where r = [e, st] is what the visit of an expression gives.
MovedTo(r, g) ==
  [e  |-> ID(g.name),
   st |-> [r.st EXCEPT !.ids = g.ids, !.before = Append(@, Decl("int", g.name, r.e))]]
make_tmp(r) == MovedTo(r, gen_next_ident(r.st.ids, "@subexpr_"))

tmp_if_nested(r) == IF r.st.depth > 2 THEN make_tmp(r) ELSE r

\* commit_if_is_stmt() returns what should replace the node; its callers drop
\* that, and only the reset of before remains.
commit_if_is_stmt(st) == IF st.depth = 1 THEN [st EXCEPT !.before = <<>>] ELSE st

Leave(r) == [r EXCEPT !.st = [commit_if_is_stmt(@) EXCEPT !.depth = @ - 1]]

\* x = [es, st] is what the visits of the operands of a node give.
Visited(x, r) == [es |-> Append(x.es, r.e), st |-> r.st]
BinaryOf(op, x) == [e |-> BinaryOp(op, x.es[1], x.es[2]), st |-> x.st]
TernaryOf(x) == [e |-> TernaryOp(x.es[1], x.es[2], x.es[3]), st |-> x.st]

\* Operand j becomes a temporary.
InPlace(x, j, r) == [es |-> [x.es EXCEPT ![j] = r.e], st |-> r.st]
Hoisted(x, j) == InPlace(x, j, make_tmp([e |-> x.es[j], st |-> x.st]))

\* x++ and --x: the assignment goes before; a postfix one leaves the old value.
Increment(op, r) ==
  [(IF op \in {"p++", "p--"} THEN make_tmp(r) ELSE r) EXCEPT
     !.st.before = Append(@, Assignment("=", r.e,
                     BinaryOp(IF op \in {"p++", "++"} THEN "+" ELSE "-", r.e, Constant(1))))]

RECURSIVE UnnestExpr(_, _), UnnestExprs(_, _), UnnestStmt(_, _), UnnestStmts(_, _)

UnnestExprs(es, x) ==
  IF es = <<>> THEN x ELSE UnnestExprs(Tail(es), Visited(x, UnnestExpr(Head(es), x.st)))

\* "assert(node.op == "-" and self.depth <= 2)", where no temporary is made.
AssertMinus(op, r) ==
  IF op = "-" \/ r.st.depth > 2 THEN r ELSE [r EXCEPT !.st.failed = TRUE]

UnnestUnary(op, r) ==
  CASE op = "&" -> [r EXCEPT !.e = UnaryOp(op, @)]
    [] op \in {"++", "p++", "--", "p--"} -> Leave(Increment(op, r))
    [] OTHER -> Leave(AssertMinus(op, tmp_if_nested([r EXCEPT !.e = UnaryOp(op, @)])))

UnnestExpr(n, st) ==
  LET Operands(es, d) == UnnestExprs(es, [es |-> <<>>, st |-> [st EXCEPT !.depth = @ + d]])
  IN CASE n.k = "FuncCall" ->
            IF st.depth >= 2 THEN make_tmp([e |-> n, st |-> st]) ELSE [e |-> n, st |-> st]
       [] n.k = "BinaryOp" ->
            Leave(tmp_if_nested(BinaryOf(n.op, Operands(<<n.left, n.right>>, 1))))
       [] n.k = "TernaryOp" ->
            LET x == Operands(<<n.cond, n.iftrue, n.iffalse>>, 1)
            IN Leave(TernaryOf(Hoisted(Hoisted(Hoisted(x, 1), 2), 3)))
       [] n.k = "UnaryOp" -> UnnestUnary(n.op, UnnestExpr(n.expr, [st EXCEPT !.depth = @ + 1]))
       [] n.k = "InitList" ->
            LET x == Operands(n.exprs, 0) IN [e |-> InitList(x.es), st |-> x.st]
       [] OTHER -> [e |-> n, st |-> st]

\* What was put before, then the statement.
Flushed(s, st) == [out |-> st.before \o <<s>>, st |-> [st EXCEPT !.before = <<>>]]

UnnestDecl(s, r) ==
  Flushed([s EXCEPT !.init = r.e],
          IF r.st.before = <<>> THEN r.st ELSE [r.st EXCEPT !.depth = 0])

\* out and what the visit of the next statement gives.
Joined(out, r) == [r EXCEPT !.out = out \o @]

UnnestStmt(s, st) ==
  LET fresh == [st EXCEPT !.depth = 1, !.before = <<>>]
  IN CASE s.k = "Decl" -> UnnestDecl(s, UnnestExpr(s.init, fresh))
       [] s.k = "Assignment" ->
            LET x == UnnestExpr(s.rvalue, fresh) IN Flushed([s EXCEPT !.rvalue = x.e], x.st)
       [] s.k = "Return" ->
            LET x == UnnestExpr(s.expr, [st EXCEPT !.depth = 1])
            IN Flushed(Return(x.e), x.st)
       [] s.k = "Compound" ->
            [UnnestStmts(s.block_items, [out |-> <<>>, st |-> st]) EXCEPT !.out = <<Compound(@)>>]
       [] s.k = "For" -> LET b == UnnestStmt(s.stmt, st) IN [b EXCEPT !.out = <<[s EXCEPT !.stmt = b.out[1]]>>]
       [] OTHER -> LET x == UnnestExpr(s, st) IN [out |-> <<x.e>>, st |-> x.st]

UnnestStmts(ss, r) ==
  IF ss = <<>> THEN r
  ELSE UnnestStmts(Tail(ss), Joined(r.out, UnnestStmt(Head(ss), r.st)))

\* The declaration of the function leaves depth at 1.
RECURSIVE Unnester(_, _)
Unnester(p, ids) ==
  IF p = <<>> THEN [prog |-> <<>>, ids |-> ids, failed |-> FALSE]
  ELSE LET b    == UnnestStmts(Head(p).body,
                    [out |-> <<>>,
                     st  |-> [depth |-> 1, before |-> <<>>, ids |-> ids, failed |-> FALSE]])
           rest == Unnester(Tail(p), b.st.ids)
       IN [prog |-> <<[Head(p) EXCEPT !.body = b.out]>> \o rest.prog, ids |-> rest.ids,
           failed |-> b.st.failed \/ rest.failed]

-----------------------------------------------------------------------------
(***************************************************************************)
(* Inliner: funs holds the functions whose bodies are inlined already.     *)
(***************************************************************************)
RECURSIVE ReturnsTo(_, _), InlineStmt(_, _, _), InlineStmts(_, _, _), Inline(_, _, _)

\* InliningHelper.visit_Return().
ReturnsTo(n, return_var) ==
  IF n.k = "Return" THEN Assignment("=", return_var, n.expr)
  ELSE VisitKids(n, LAMBDA c : ReturnsTo(c, return_var))

\* InliningHelper.inline().
InlinedCall(return_var, call, funs) ==
  LET f == funs[call.name]
  IN Compound([j \in DOMAIN f.params |-> [f.params[j] EXCEPT !.init = call.args[j]]]
                \o ReturnsTo(Compound(f.body), return_var).block_items)

InlineStmt(s, funs, ids) ==
  LET Plainly(ss) == [out |-> ss, st |-> ids]
  IN CASE s.k = "Decl" /\ s.init.k = "FuncCall" ->
            Plainly(<<[s EXCEPT !.init = None], InlinedCall(ID(s.name), s.init, funs)>>)
       [] s.k = "Assignment" /\ s.rvalue.k = "FuncCall" ->
            Plainly(<<InlinedCall(s.lvalue, s.rvalue, funs)>>)
       [] s.k = "Return" /\ s.expr.k = "FuncCall" ->
            LET g == gen_next_ident(ids, "ret_")
            IN [out |-> <<Compound(<<Decl("int", g.name, None),
                                     InlinedCall(ID(g.name), s.expr, funs),
                                     Return(ID(g.name))>>)>>,
                st  |-> g.ids]
       [] s.k = "FuncCall" -> Plainly(<<InlinedCall(None, s, funs)>>)
       [] s.k = "Compound" ->
            LET b == InlineStmts(s.block_items, funs, ids) IN [b EXCEPT !.out = <<Compound(@)>>]
       [] s.k = "For" ->
            LET b == InlineStmt(s.stmt, funs, ids)
            IN [b EXCEPT !.out = <<[s EXCEPT !.stmt = b.out[1]]>>]
       [] OTHER -> Plainly(<<s>>)

InlineStmts(ss, funs, ids) ==
  IF ss = <<>> THEN [out |-> <<>>, st |-> ids]
  ELSE LET h == InlineStmt(Head(ss), funs, ids)
           t == InlineStmts(Tail(ss), funs, h.st)
       IN [out |-> h.out \o t.out, st |-> t.st]

\* Only the last function is left.
Inline(p, funs, ids) ==
  LET b == InlineStmts(Head(p).body, funs, ids)
      f == [Head(p) EXCEPT !.body = b.out]
  IN IF Len(p) = 1 THEN [prog |-> <<f>>, ids |-> b.st]
     ELSE Inline(Tail(p), Bound(funs, f.name, f), b.st)

Inliner(p, ids) == Inline(p, Nothing, ids)
=============================================================================

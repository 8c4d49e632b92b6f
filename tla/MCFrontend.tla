----------------------------- MODULE MCFrontend -----------------------------
(***************************************************************************)
(* Two kinds of programs.  Normalized ones, on an array parameter a[0],    *)
(* which is returned, and a scalar b: a local x is declared and            *)
(* initialized, two assignments follow, then perhaps a return.  And C      *)
(* programs with everything the compiler is to take away.                  *)
(***************************************************************************)
EXTENDS FileToIR

Id(x) == [id |-> x]
Names == {"a[0]", "b", "x"}
Copies(ids) == {[op |-> "MOV", src |-> <<o>>] : o \in {Id(x) : x \in ids} \cup {[const |-> 1]}}
Sums(ids) == {[op |-> "ADD", src |-> <<Id(x), Id(y)>>] : x \in ids, y \in ids}

Statement(kind, name, rvalue) ==
  [kind |-> kind, name |-> name, op |-> rvalue.op, src |-> rvalue.src]

Decls == {Statement("decl", "x", v) :
            v \in Copies({"a[0]"}) \cup {[op |-> "ADD", src |-> <<Id("a[0]"), Id("b")>>]}}
Assigns == {Statement("assign", x, v) : x \in Names, v \in Copies(Names) \cup Sums({"a[0]", "x"})}
Returns == {<<>>} \cup {<<Statement("return", RET, v)>> : v \in Copies({"x"}) \cup Sums({"x"})}

\* y is declared and never assigned.
Unassigned == [kind |-> "decl", name |-> "y", op |-> NoInit, src |-> <<>>]

MCASTs ==
  {[params |-> <<"a[0]", "b">>, returns |-> {"a[0]"},
    body |-> <<Unassigned, d, s1, s2>> \o ret] :
     d \in Decls, s1 \in Assigns, s2 \in Assigns, ret \in Returns}

-----------------------------------------------------------------------------
Set(l, e) == Assignment("=", l, e)
Add(e1, e2) == BinaryOp("+", e1, e2)
Mul(e1, e2) == BinaryOp("*", e1, e2)
UInt(x, e) == Decl("int", x, e)
One == Constant(1)
X == ID("x")
K == ID("k")
B == ID("b")

\* unsigned int g(unsigned int x, unsigned int n) { x = x + n; return x * n + 1; }
G == [name |-> "g", params |-> <<UInt("x", None), UInt("n", None)>>,
      body |-> <<Set(X, Add(X, ID("n"))), Return(Add(Mul(X, ID("n")), One))>>]

\* void h(unsigned int *a, unsigned int k) { unsigned int *q = a + k; q[0] += g(k, q[0]); }
H == [name |-> "h", params |-> <<Decl("ptr", "a", None), UInt("k", None)>>,
      body |-> <<Decl("ptr", "q", Add(ID("a"), K)),
                 Assignment("+", ArrayRef("q", Constant(0)),
                            FuncCall("g", <<K, ArrayRef("q", Constant(0))>>))>>]

A(e) == ArrayRef("a", e)
Count(x, from, to, stmt) ==
  For(UInt(x, from), BinaryOp("<", ID(x), to), UnaryOp("p++", ID(x)), stmt)

Snippets ==
  { \* k = 2;
    <<Set(K, Constant(2))>>,
    \* k += b;
    <<Assignment("+", K, B)>>,
    \* for (unsigned int i = 0; i < 2; i++) { unsigned int y = a[i] + k; x = y * x; k = i; }
    <<Count("i", Constant(0), Constant(2),
            Compound(<<UInt("y", Add(A(ID("i")), K)), Set(X, Mul(ID("y"), X)), Set(K, ID("i"))>>))>>,
    \* { unsigned int x = 2; k = x + k; }
    <<Compound(<<UInt("x", Constant(2)), Set(K, Add(X, K))>>)>>,
    \* x = g(x, 1) + g(k, b);
    <<Set(X, Add(FuncCall("g", <<X, One>>), FuncCall("g", <<K, B>>)))>>,
    \* h(a, 1);
    <<FuncCall("h", <<ID("a"), One>>)>>,
    \* unsigned int *p = &a[1]; unsigned int *q; q = p; q[0] ^= ~x;
    <<Compound(<<Decl("ptr", "p", UnaryOp("&", A(One))), Decl("ptr", "q", None),
                 Set(ID("q"), ID("p")),
                 Assignment("^", ArrayRef("q", Constant(0)), UnaryOp("~", X))>>)>>,
    \* a[0] = x++ + b * --k;
    <<Set(A(Constant(0)), Add(UnaryOp("p++", X), Mul(B, UnaryOp("--", K))))>>,
    \* x = x < b ? a[0] + 1 : k;
    <<Set(X, TernaryOp(BinaryOp("<", X, B), Add(A(Constant(0)), One), K))>>,
    \* for (k = 0; k < 2; k += 1) a[k] = g(a[k], k);
    <<For(Set(K, Constant(0)), BinaryOp("<", K, Constant(2)), Assignment("+", K, One),
          Set(A(K), FuncCall("g", <<A(K), K>>)))>>,
    \* for (unsigned int i = 0; i < 2; i++) for (unsigned int j = i; j < 2; j++) x = x * i + j;
    <<Count("i", Constant(0), Constant(2),
            Count("j", ID("i"), Constant(2), Set(X, Add(Mul(X, ID("i")), ID("j")))))>>,
    \* unsigned int t[3] = { x, 3 }; x = t[0] + t[-1 + 2] + t[2];
    <<Compound(<<[Decl("array", "t", InitList(<<X, Constant(3)>>)) EXCEPT !.dim = 3],
                 Set(X, Add(Add(ArrayRef("t", Constant(0)),
                                ArrayRef("t", Add(UnaryOp("-", One), Constant(2)))),
                            ArrayRef("t", Constant(2))))>>)>> }

Endings == {Return(Add(X, Mul(K, ArrayRef("c", Constant(0))))), Return(FuncCall("g", <<X, K>>))}

Array(name, dim) == [Decl("array", name, None) EXCEPT !.dim = dim]
Const(d) == [d EXCEPT !.const = TRUE]

\* The array of main by its size, or as a pointer whose size has to be found.
ArrayParams == {Array("a", 2), Decl("ptr", "a", None)}

\* unsigned int f(a, unsigned int b, const unsigned int c[1])
\*   { unsigned int x = b; unsigned int k = 1; ss; ret }
F(a, ss, ret) ==
  [name |-> "f", params |-> <<a, UInt("b", None), Const(Array("c", 1))>>,
   body |-> <<UInt("x", B), UInt("k", One)>> \o ss \o <<ret>>]

\* What normalize() refuses: x = !b; a loop without an initializer; for (unsigned
\* int i = 0; i < b; i++) k = i; and, after k = b & 1, a[k] = x and
\* unsigned int *p = a + k;
Refused ==
  {<<Set(X, UnaryOp("!", B))>>,
   <<For(None, BinaryOp("<", K, Constant(2)), UnaryOp("p++", K), Set(X, K))>>,
   <<Count("i", Constant(0), B, Set(K, ID("i")))>>,
   <<Set(K, BinaryOp("&", B, One)), Set(A(K), X)>>,
   <<Set(K, BinaryOp("&", B, One)), Decl("ptr", "p", Add(ID("a"), K))>>}

\* Two snippets one after the other, or both in a loop.
MCSources ==
  {<<G, H, F(a, s1 \o s2, ret)>> :
     a \in ArrayParams, s1 \in Snippets, s2 \in Snippets, ret \in Endings}
    \cup
  {<<G, H, F(Array("a", 2), <<Count("i", Constant(1), Constant(3), Compound(s1 \o s2))>>, ret)>> :
     s1 \in Snippets, s2 \in Snippets, ret \in Endings}
    \cup
  {<<G, H, F(Array("a", 2), s, ret)>> : s \in Refused, ret \in Endings}

MCInputs == {<<1, 2, 3, 4, 5, 6>>, <<7, 5, 2, 0, 1, 1>>, <<4, 6, 6, 1, 0, 2>>, <<3, 0, 7, 7, 4, 3>>}

\* void f(unsigned int a[2], const unsigned int b[2]) { a[0] = b[0] ^ b[1]; }
MCParamsOnly ==
  {<<[name |-> "f", params |-> <<Array("a", 2), Const(Array("b", 2))>>,
      body |-> <<Set(A(Constant(0)), BinaryOp("^", ArrayRef("b", Constant(0)),
                                                   ArrayRef("b", One)))>>]>>}

\* ... { ... unsigned int *p = &a[1]; h(p, 0); k = 2; return x + k * c[0]; }
MCLostCall ==
  {<<G, H, F(Array("a", 2), <<Decl("ptr", "p", UnaryOp("&", A(One))),
                              FuncCall("h", <<ID("p"), Constant(0)>>),
                              Set(K, Constant(2))>>,
             Return(Add(X, Mul(K, ArrayRef("c", Constant(0))))))>>}
=============================================================================

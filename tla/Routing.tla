------------------------------ MODULE Routing ------------------------------
(***************************************************************************)
(* The networks of routing.py, which universalization puts between two     *)
(* layers: a function on 2^m wires is compiled into a program of public    *)
(* shuffles, the wiring between MLMIs, and secret ones, each inside an     *)
(* MLMI of at most 2^le wires (BDBFuncMI: a Benes network, a column of     *)
(* duplications, another Benes network).  Wires are numbered from 0, and a *)
(* shuffle, a function on wires, gives each place the wire it takes.       *)
(***************************************************************************)
EXTENDS Integers, SequencesExt

CONSTANT Tasks   \* the [f, m, le] to compile: f a function on 0 .. 2^m - 1

VARIABLES
  task,      \* the function being routed
  rpc,       \* "compile", "finish", "run" or "done"
  perms,     \* its three parts: the two permutations and the grouped values
  program,   \* the rows of canonical(), optimized
  row,       \* the next row to apply
  wires,     \* what is on each wire: the number of the input wire
  twin       \* for comparison: the program of the identity on as many wires

rvars == <<task, rpc, perms, program, row, wires, twin>>

Wires(m) == 0 .. 2 ^ m - 1
Id(S) == [x \in S |-> x]

PublicShuffle(perm) == [kind |-> "public", perm |-> perm]
\* SecretShuffles: a shuffle of its own window at each offset.
SecretShuffles(parts) == [kind |-> "secret", parts |-> parts]

\* p @ g and ~p, of Shuffle; composeinv(c, pi) takes c through pi backwards.
Compose(p, g) == [x \in DOMAIN g |-> p[g[x]]]
composeinv(c, pi) ==
  LET zip == {<<pi[x], c[x]>> : x \in DOMAIN pi}
  IN  [y \in DOMAIN pi |-> (CHOOSE e \in zip : e[1] = y)[2]]
Invert(p) == composeinv(Id(DOMAIN p), p)

-----------------------------------------------------------------------------
(***************************************************************************)
(* BenesPerm: the control bits of a permutation, column by column.         *)
(***************************************************************************)
XorBit(x, b) == IF b = 0 THEN x ELSE IF x % 2 = 0 THEN x + 1 ELSE x - 1

\* The loop of _compile: c[x] becomes the least wire on the cycle of x; each
\* turn doubles the stretch of it that has been looked at.
RECURSIVE CycleMin(_, _, _, _)
CycleMin(c, p, q, turns) ==
  IF turns = 0 THEN c
  ELSE LET cp == composeinv(c, q) IN
       CycleMin([x \in DOMAIN c |-> IF c[x] < cp[x] THEN c[x] ELSE cp[x]],
                composeinv(p, q), composeinv(q, p), turns - 1)

RECURSIVE BenesCols(_, _)
BenesCols(pi, m) ==
  IF m = 1 THEN <<[j \in {0} |-> pi[0]]>>
  ELSE
    LET W    == Wires(m)
        half == Wires(m - 1)
        p0 == [x \in W |-> pi[XorBit(x, 1)]]
        q0 == [x \in W |-> XorBit(pi[x], 1)]
        p1 == composeinv(p0, q0)
        q1 == composeinv(q0, p0)
        c0 == [x \in W |-> IF x < p1[x] THEN x ELSE p1[x]]
        c  == CycleMin(c0, composeinv(p1, q1), composeinv(q1, p1), m - 2)
        f  == [j \in half |-> c[2 * j] % 2]
        F  == [x \in W |-> XorBit(x, f[x \div 2])]
        Fpi == composeinv(F, composeinv(Id(W), pi))
        l  == [k \in half |-> Fpi[2 * k] % 2]
        L  == [y \in W |-> XorBit(y, l[y \div 2])]
        M  == composeinv(Fpi, L)
        sub0 == BenesCols([j \in half |-> M[2 * j] \div 2], m - 1)
        sub1 == BenesCols([j \in half |-> M[2 * j + 1] \div 2], m - 1)
        \* The columns of the two halves interleaved.
        z  == [n \in DOMAIN sub0 |->
                 [j \in half |-> IF j % 2 = 0 THEN sub0[n][j \div 2] ELSE sub1[n][j \div 2]]]
    IN  <<f>> \o z \o <<l>>

\* apply_col: the wires that differ in bit ibit only are swapped or not, one
\* control bit for each pair.
apply_col(pi, ibit, col) ==
  LET bit == 2 ^ ibit
      Pair(x) == (x \div (2 * bit)) * bit + (x % bit)
      Other(x) == IF (x \div bit) % 2 = 0 THEN x + bit ELSE x - bit
  IN  [x \in DOMAIN pi |-> IF col[Pair(x)] = 1 THEN pi[Other(x)] ELSE pi[x]]

-----------------------------------------------------------------------------
(***************************************************************************)
(* BenesPermMI: columns grouped so that each group works on 2^le wires.    *)
(***************************************************************************)
ROTR(x, m, s) ==
  LET n == s % m IN (x \div 2 ^ n) + (x % 2 ^ n) * 2 ^ (m - n)

\* The bit that column n of 1 .. 2m-1 works on.
ColBit(n, m) == IF n - 1 < 2 * m - 1 - n THEN n - 1 ELSE 2 * m - 1 - n

\* Mutant: windows twice as wide.
Window_Wide(le) == 2 ^ (le + 1)

Window(le) == 2 ^ le

\* _compile_cols: the bits the columns work on are rotated to the bottom, so
\* that the wires they exchange are in one window.
CompileCols(cols, m, le, from, to) ==
  LET shift == Min({ColBit(n, m) : n \in from .. to})
      sink  == [x \in Wires(m) |-> ROTR(x, m, shift)]
      lift  == Invert(sink)
      mid0  == FoldLeft(LAMBDA acc, n : apply_col(acc, ColBit(n, m), cols[n]),
                        Id(Wires(m)), [n \in 1 .. to - from + 1 |-> from + n - 1])
      mid   == Compose(Compose(sink, mid0), lift)
      offs  == {x \in Wires(m) : x % Window(le) = 0}
  IN  [lift |-> lift, sink |-> sink,
       main |-> [o \in offs |-> [x \in 0 .. Window(le) - 1 |-> mid[o + x] - o]]]

\* The groups: prefixes of at most le columns, the 2 le - 1 columns in the
\* middle, then suffixes.
Groups(m, le) ==
  LET midl == m - le + 1
      midr == m + le - 1
      Cut(a, z) == [n \in 1 .. (z - a + le) \div le |->
                      <<a + (n - 1) * le, IF a + n * le - 1 < z THEN a + n * le - 1 ELSE z>>]
  IN  Cut(1, midl - 1) \o <<<<midl, midr>>>> \o Cut(midr + 1, 2 * m - 1)

\* _add_to_result: the wiring in front of a group is joined with that behind
\* the group before.
AddToResult(result, s) ==
  (IF result = <<>> THEN <<PublicShuffle(s.lift)>>
   ELSE [result EXCEPT ![Len(result)] = PublicShuffle(Compose(s.lift, @.perm))])
  \o <<SecretShuffles(s.main), PublicShuffle(s.sink)>>

BenesPermMI(pi, m, le) ==
  IF le >= m THEN <<SecretShuffles([o \in {0} |-> pi])>>
  ELSE LET cols == BenesCols(pi, m) IN
       FoldLeft(LAMBDA res, g : AddToResult(res, CompileCols(cols, m, le, g[1], g[2])),
                <<>>, Groups(m, le))

-----------------------------------------------------------------------------
(***************************************************************************)
(* ForwardDupMI: equal neighbours are copied from left to right, in        *)
(* windows that overlap in one wire.                                       *)
(***************************************************************************)
\* clean_f on the window of f from off to last.
clean_f(f, off, last) ==
  [x \in 0 .. last - off |->
     Max({y \in 0 .. x : y = 0 \/ f[off + y] # f[off + y - 1]})]

Step(le) == 2 ^ le - 1

\* Mutant: the windows do not overlap.
Offset_Apart(k, le) == (k - 1) * 2 ^ le

Offset(k, le) == (k - 1) * Step(le)

ForwardDupMI(f, m, le) ==
  LET n == 2 ^ m
      Row(off) == LET z == off + Step(le) IN
        SecretShuffles([o \in {off} |-> clean_f(f, off, IF z < n - 1 THEN z ELSE n - 1)])
  IN  IF le >= m THEN <<SecretShuffles([o \in {0} |-> clean_f(f, 0, n - 1)])>>
      ELSE [k \in 1 .. (n - 2) \div Step(le) + 1 |-> Row(Offset(k, le))]

-----------------------------------------------------------------------------
(***************************************************************************)
(* BDBFuncMI.  The values of f, in the order in which they first occur,    *)
(* get one place for each occurrence.                                      *)
(***************************************************************************)
First(f, a) == Min({x \in DOMAIN f : f[x] = a})
Start(f, a) == Cardinality({x \in DOMAIN f : First(f, f[x]) < First(f, a)})

\* pi2: every place of f takes the next place of its value.
OutputPerm(f) ==
  [x \in DOMAIN f |->
     Start(f, f[x]) + Cardinality({y \in DOMAIN f : y < x /\ f[y] = f[x]})]

\* pif: the values at their places, one behind the other.
Grouped(f) == composeinv(f, OutputPerm(f))

\* pi: the first place of a value takes it, the others take wires that f does
\* not use; missing is a set, so any of them.
InputPerms(f) ==
  LET pif     == Grouped(f)
      heads   == {Start(f, a) : a \in Range(f)}
      missing == DOMAIN f \ Range(f)
  IN  {[k \in DOMAIN f |-> IF k \in heads THEN pif[k] ELSE g[k]] :
         g \in Bijection(DOMAIN f \ heads, missing)}

\* Mutant: MLMIs that move nothing are removed too.
IsIdentity_AnyKind(rw) ==
  IF rw.kind = "public" THEN rw.perm = Id(DOMAIN rw.perm)
  ELSE \A o \in DOMAIN rw.parts : rw.parts[o] = Id(DOMAIN rw.parts[o])

\* optimize(): wiring that moves nothing is left out.
IsIdentity(rw) == rw.kind = "public" /\ rw.perm = Id(DOMAIN rw.perm)

optimize(prog) == SelectSeq(prog, LAMBDA rw : ~IsIdentity(rw))

\* canonical(), after _compile_finish.
BDBFuncMI(p, m, le) ==
  optimize(BenesPermMI(p.pi, m, le) \o ForwardDupMI(p.pif, m, le)
             \o BenesPermMI(p.pi2, m, le))

-----------------------------------------------------------------------------
RInit ==
  /\ task \in Tasks
  /\ rpc = "compile"
  /\ perms = <<>> /\ program = <<>> /\ twin = <<>>
  /\ row = 1
  /\ wires = Id(DOMAIN task.f)

Compile ==
  /\ rpc = "compile"
  /\ \E pi \in InputPerms(task.f) :
       perms' = [pi |-> pi, pif |-> Grouped(task.f), pi2 |-> OutputPerm(task.f)]
  /\ rpc' = "finish"
  /\ UNCHANGED <<task, program, row, wires, twin>>

CompileFinish ==
  /\ rpc = "finish"
  /\ program' = BDBFuncMI(perms, task.m, task.le)
  /\ LET id == Id(DOMAIN task.f)
     IN  twin' = BDBFuncMI([pi |-> id, pif |-> id, pi2 |-> id], task.m, task.le)
  /\ rpc' = "run"
  /\ UNCHANGED <<task, perms, row, wires>>

\* A row, as add_permutation() turns it into wiring or MLMIs: a public
\* shuffle renames, a secret one moves the wires of its windows.
Applied(rw, ws) ==
  IF rw.kind = "public" THEN Compose(ws, rw.perm)
  ELSE [x \in DOMAIN ws |->
          LET In == {o \in DOMAIN rw.parts : x - o \in DOMAIN rw.parts[o]}
          IN  IF In = {} THEN ws[x]
              ELSE LET o == CHOOSE o \in In : TRUE IN ws[o + rw.parts[o][x - o]]]

ApplyRow ==
  /\ rpc = "run"
  /\ row =< Len(program)
  /\ wires' = Applied(program[row], wires)
  /\ row' = row + 1
  /\ UNCHANGED <<task, rpc, perms, program, twin>>

EndRows ==
  /\ rpc = "run"
  /\ row > Len(program)
  /\ rpc' = "done"
  /\ UNCHANGED <<task, perms, program, row, wires, twin>>

RNext == Compile \/ CompileFinish \/ ApplyRow \/ EndRows

RSpec == RInit /\ [][RNext]_rvars

-----------------------------------------------------------------------------
\* add_permutation(): "if perm_outputs != inputs_checker ... raise
\* RuntimeError".  The network computes the function it was compiled for,
\* whichever unused wires missing.pop() yields.
RoutesFunction == rpc = "done" => wires = task.f

\* The program is ready; it does not change from here on.
Compiled == rpc = "run" /\ row = 1

\* What a row shows to somebody who does not see into the MLMIs: the wiring,
\* and where the MLMIs are.
Shown(rw) ==
  IF rw.kind = "public" THEN rw
  ELSE [kind |-> "secret", parts |-> [o \in DOMAIN rw.parts |-> DOMAIN rw.parts[o]]]

\* "PublicShuffle - public wiring": what can be seen of the network depends
\* on its size only, not on the function; it is that of the identity.
WiringIsPublic ==
  Compiled =>
    /\ Len(program) = Len(twin)
    /\ \A n \in DOMAIN program : Shown(program[n]) = Shown(twin[n])

\* An MLMI of the network has at most 2^le inputs and outputs, takes only what
\* is in its window, and no two MLMIs of a row share a wire.
MLMIsFit ==
  Compiled => \A n \in DOMAIN program : program[n].kind = "secret" =>
    LET parts == program[n].parts IN
    \A o \in DOMAIN parts :
      /\ Cardinality(DOMAIN parts[o]) =< 2 ^ task.le
      /\ Range(parts[o]) \subseteq DOMAIN parts[o]
      /\ \A o2 \in DOMAIN parts : o2 > o => o2 - o \notin DOMAIN parts[o]
=============================================================================

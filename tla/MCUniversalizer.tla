--------------------------- MODULE MCUniversalizer ---------------------------
(***************************************************************************)
(* Without universalization: all programs of four instructions in SSA on   *)
(* one input, in which the first one reads the input twice, the others     *)
(* read one or two variables, and the outputs are the variables nobody     *)
(* reads and at most one other, with every clusterizer; and a program      *)
(* whose three outputs are merged into one snippet, more than l_out.       *)
(*                                                                         *)
(* With universalization, on two inputs: programs of three instructions    *)
(* of which the first reads both inputs and the others two variables each, *)
(* and longer ones whose layers are skipped by inputs and by variables.    *)
(***************************************************************************)
EXTENDS Universalizer

RT == INSTANCE Routing WITH
  Tasks <- {}, task <- 0, rpc <- 0, perms <- 0, program <- 0, row <- 0, wires <- 0, twin <- 0

\* missing.pop() yields the unused wires in increasing order here; module
\* Routing is checked with any order.
SortedInputPerm(f) ==
  LET heads   == {RT!Start(f, a) : a \in Range(f)}
      others  == SetToSortSeq(DOMAIN f \ heads, <)
      missing == SetToSortSeq(DOMAIN f \ Range(f), <)
  IN  [k \in DOMAIN f |-> IF k \in heads THEN RT!Grouped(f)[k]
                          ELSE missing[CHOOSE j \in DOMAIN others : others[j] = k]]

MCNetwork(f, m, e) ==
  RT!BDBFuncMI([pi |-> SortedInputPerm(f), pif |-> RT!Grouped(f), pi2 |-> RT!OutputPerm(f)], m, e)

MCPick(S) == IF S = {} THEN {} ELSE {Max(S)}

-----------------------------------------------------------------------------
\* Variables 1 .. k are inputs, instruction j defines variable k + j.
Sources(k, j) ==
  {<<v>> : v \in 1 .. k + j - 1} \cup {p \in (1 .. k + j - 1) \X (1 .. k + j - 1) : p[1] < p[2]}

Bodies(k, n, first) ==
  {[j \in 1 .. n |-> [dst |-> k + j, src |-> q[j]]] :
     q \in {t \in [1 .. n -> {first} \cup Sources(k, n)] :
              t[1] = first /\ \A j \in 2 .. n : t[j] \in Sources(k, j)}}

Unread(body) == get_defs(body) \ Reads(body)

Programs(k, bodies) ==
  UNION {{[inputs  |-> [j \in 1 .. k |-> j],
           outputs |-> SetToSeq(Unread(body) \cup X),
           instrs  |-> body] :
            X \in {Y \in SUBSET get_defs(body) : Cardinality(Y) =< 1}} :
           body \in bodies}

Small == Programs(2, {b \in Bodies(2, 3, <<1, 2>>) : Len(b[2].src) = 2 /\ Len(b[3].src) = 2})

Program(outputs, srcs) ==
  [inputs |-> <<1, 2>>, outputs |-> outputs,
   instrs |-> [j \in DOMAIN srcs |-> [dst |-> 2 + j, src |-> srcs[j]]]]

\* Variables and inputs that are read, and outputs that are ready, layers
\* later; one output is an input of the program.
Deep == Program(<<7, 2>>, <<<<1, 2>>, <<3, 1>>, <<4, 2>>, <<5, 3>>, <<6, 1>>>>)
Wide == Program(<<3, 7>>, <<<<1, 2>>, <<1, 1>>, <<2, 3>>, <<4, 5>>, <<6, 1>>>>)

\* A copy of a variable; a copy that two MLMIs read; a copy in an MLMI that did
\* not read the variable before.
Kept  == Program(<<2, 7>>, <<<<1, 2>>, <<1, 1>>, <<3, 4>>, <<4, 5>>, <<6, 3>>>>)
Again == Program(<<2, 7>>, <<<<1, 2>>, <<1, 1>>, <<3, 4>>, <<4, 5>>, <<6, 1>>>>)
Spare == Program(<<6>>, <<<<2, 2>>, <<3, 3>>, <<4, 1>>, <<5, 1>>>>)

Skipping == {Deep, Wide, Kept, Again, Spare}

\* m2 = m1 - m1;  m3 = m1 ^ 2;  m4 = m2 + m3;  outputs m3, m4 and m2.
Crowded ==
  [inputs |-> <<1>>, outputs |-> <<3, 4, 2>>,
   instrs |-> <<[dst |-> 2, src |-> <<1, 1>>], [dst |-> 3, src |-> <<1>>],
                [dst |-> 4, src |-> <<2, 3>>]>>]

NoUniversal(simple, fast) ==
  [simple |-> simple, fast |-> fast, universal |-> FALSE, width |-> 0, depth |-> 0]
Universal(width, depth) ==
  [simple |-> FALSE, fast |-> FALSE, universal |-> TRUE, width |-> width, depth |-> depth]

Universalized ==
  [hlir : Small \cup Skipping, config : {Universal(0, 0)}]
  \cup [hlir : {Wide}, config : {Universal(3, 0)}]
  \cup [hlir : {Deep}, config : {Universal(0, 5)}]

MCCompilations ==
  Universalized
  \cup [hlir   : {Crowded} \cup Programs(1, Bodies(1, 4, <<1, 1>>)),
        config : {NoUniversal(simple, fast) : simple \in BOOLEAN, fast \in BOOLEAN}]

\* m3 = m1 + m2;  m4 = m2 - m3;  m5 = m3 + m3;  m6 = m3 ^ m5;  outputs m4, m6
\* and m3.
MCInputTwice ==
  [hlir   : {Program(<<4, 6, 3>>, <<<<1, 2>>, <<2, 3>>, <<3, 3>>, <<3, 5>>>>)},
   config : {Universal(0, 0)}]
=============================================================================

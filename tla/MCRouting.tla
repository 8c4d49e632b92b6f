----------------------------- MODULE MCRouting -----------------------------
(***************************************************************************)
(* All functions on four wires; permutations of eight, and functions on    *)
(* eight that use a wire twice.                                            *)
(***************************************************************************)
EXTENDS Routing

Functions(m) == [Wires(m) -> Wires(m)]

\* Permutations of eight wires that take wire 0 to place 7 and 7 to place 3.
SomePerms ==
  {[x \in Wires(3) |-> CASE x = 7 -> 0 [] x = 3 -> 7 [] OTHER -> g[x]] :
     g \in Bijection(Wires(3) \ {3, 7}, 1 .. 6)}

\* Functions that differ from the reversal on three wires.
Collisions(m) ==
  {[x \in Wires(m) |-> IF x \in {1, 4, 6} THEN g[x] ELSE 2 ^ m - 1 - x] :
     g \in [{1, 4, 6} -> Wires(m)]}

MCTasks ==
  {[f |-> g, m |-> 2, le |-> e] : g \in Functions(2), e \in 1 .. 2}
  \cup {[f |-> g, m |-> 3, le |-> e] : g \in SomePerms \cup Collisions(3), e \in 1 .. 2}
=============================================================================

---------------------------- MODULE Determinate ----------------------------
(***************************************************************************)
(* Programs whose snippets compute the same words from the same inputs.    *)
(* The element derives nonces from the number of a word and the identity   *)
(* of the execution, which is a hash of the inputs: when a program is run  *)
(* twice on the same inputs it encrypts under the same nonces, and has to  *)
(* encrypt the same words.                                                 *)
(***************************************************************************)
EXTENDS Obscure

\* Register n of a snippet holds a word when instruction m runs.
RegWritten(mi, m, n) ==
  \/ n < Len(mi.inputs)
  \/ \E q \in 1 .. m - 1 : mi.seq[q].dst = n

\* No register is read or returned that nothing was written to (what register
\* allocation guarantees, see RegAlloc), and no instruction has two outcomes
\* (a shift by the size of a word has, from one build to another).
SnippetDeterminate(mi) ==
  /\ \A m \in 1 .. Len(mi.seq) :
       /\ \A q \in 1 .. Len(mi.seq[m].src) :
            mi.seq[m].src[q].kind = "R" => RegWritten(mi, m, mi.seq[m].src[q].v)
       /\ \A x, y, z \in Words : \A u, v \in Alu(mi.seq[m].op, x, y, z) :
            u # Trap /\ v # Trap => u = v
  /\ \A j \in 1 .. Len(mi.outputs) : RegWritten(mi, Len(mi.seq) + 1, OutputReg(j))

ASSUME DeterminateAssumption ==
  \A p \in Programs : \A n \in 1 .. Len(p.instrs) : SnippetDeterminate(p.instrs[n])
=============================================================================

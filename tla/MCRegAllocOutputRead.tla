------------------------ MODULE MCRegAllocOutputRead ------------------------
(***************************************************************************)
(* A snippet outside RegAllocSSA: it reads one of its outputs.  Variables  *)
(* 1 and 2 are the inputs.                                                 *)
(***************************************************************************)
EXTENDS RegAlloc

\* m2 = m0 + m1;  m3 = m2 ^ m0;  m4 = m3 ? m0 : m1;  outputs m2 and m4: with
\* -r 4 -lin 2 -lout 2 -s 4 the clusterizer makes one MLMI of it.
MCOutputRead ==
  {[instrs  |-> <<[dst |-> 3, src |-> <<1, 2>>],
                  [dst |-> 4, src |-> <<3, 1>>],
                  [dst |-> 5, src |-> <<4, 1, 2>>]>>,
    inputs  |-> <<1, 2>>,
    outputs |-> <<3, 5>>]}
=============================================================================
